------------------------------- MODULE Decode -------------------------------
(***************************************************************************)
(* The decode stage, control_unit.sv and immediate_generator.sv, over the  *)
(* words of Encoding; and decode_instruction of functional_coverage.py,    *)
(* which names a committed word.                                           *)
(***************************************************************************)
EXTENDS Encoding, Sequences

-----------------------------------------------------------------------------
(* control_unit.sv.                                                        *)

SystemWords == [ecall |-> Word(0, 0, 0, 0, 0, OP.SYSTEM), ebreak |-> Word(0, 1, 0, 0, 0, OP.SYSTEM),
                mret |-> Word(24, 2, 0, 0, 0, OP.SYSTEM), wfi |-> Word(8, 5, 0, 0, 0, OP.SYSTEM)]

instruction_is_legal(w) ==
  \/ w.opcode \in {OP.LUI, OP.AUIPC, OP.JAL}
  \/ w.opcode = OP.JALR /\ w.funct3 = 0
  \/ w.opcode = OP.BRANCH /\ w.funct3 \notin {2, 3}
  \/ w.opcode = OP.LOAD /\ w.funct3 \in {0, 1, 2, 4, 5}
  \/ w.opcode = OP.STORE /\ w.funct3 \in {0, 1, 2}
  \/ /\ w.opcode = OP.IMM
     /\ w.funct3 = 1 => w.funct7 = 0
     /\ w.funct3 = 5 => w.funct7 \in {0, 32}
  \/ /\ w.opcode = OP.REG
     /\ w.funct7 \in {0, 1} \/ (w.funct7 = 32 /\ w.funct3 \in {0, 5})
  \/ w.opcode = OP.MISC_MEM /\ w.funct3 \in {0, 1}
  \/ /\ w.opcode = OP.SYSTEM
     /\ IF w.funct3 = 0 THEN \E s \in DOMAIN SystemWords : w = SystemWords[s] ELSE w.funct3 # 4

\* funct7[5] tells SUB from ADD and SRA from SRL.
Alternate(w) == Bits(w.funct7, 5, 5) = 1

ArithmeticOp(w) == <<"ADD", "SLL", "SLT", "SLTU", "XOR", IF Alternate(w) THEN "SRA" ELSE "SRL",
                     "OR", "AND">>[w.funct3 + 1]

alu_ctrl(w) ==
  IF w.opcode = OP.IMM THEN ArithmeticOp(w)
  ELSE IF w.opcode # OP.REG THEN "ADD"
  ELSE IF w.funct7 = 1
  THEN IF w.funct3 < 4 THEN <<"MUL", "MULH", "MULHSU", "MULHU">>[w.funct3 + 1] ELSE "ADD"
  ELSE IF w.funct3 = 0 /\ Alternate(w) THEN "SUB" ELSE ArithmeticOp(w)

\* Fault: ECALL, EBREAK, MRET and WFI count as CSR instructions.
CsrEnEverySystem(w) == w.opcode = OP.SYSTEM /\ w.funct3 # 4

csr_en(w) == w.opcode = OP.SYSTEM /\ w.funct3 \notin {0, 4}

\* The outputs of the control unit, legal or not.
Controls(w) ==
  LET Is(ops) == w.opcode \in ops
  IN  [reg_write |-> Is({OP.LUI, OP.AUIPC, OP.JAL, OP.JALR, OP.LOAD, OP.IMM, OP.REG}) \/ csr_en(w),
       mem_read  |-> Is({OP.LOAD}),
       mem_write |-> Is({OP.STORE}),
       mem_type  |-> IF Is({OP.LOAD, OP.STORE}) THEN w.funct3 ELSE 2,
       wb_sel    |-> IF Is({OP.LOAD}) THEN "MEM" ELSE IF Is({OP.JAL, OP.JALR}) THEN "PC4"
                     ELSE IF Is({OP.LUI}) THEN "IMM" ELSE "ALU",
       alu_src   |-> Is({OP.AUIPC, OP.JALR, OP.LOAD, OP.STORE, OP.IMM}),
       alu_a_sel |-> Is({OP.AUIPC}),
       alu_ctrl  |-> alu_ctrl(w),
       branch_en |-> Is({OP.BRANCH}),
       jal       |-> Is({OP.JAL}),
       jalr      |-> Is({OP.JALR}),
       rs1_read  |-> Is({OP.JALR, OP.BRANCH, OP.LOAD, OP.STORE, OP.IMM, OP.REG})
                       \/ (csr_en(w) /\ w.funct3 < 4),
       rs2_read  |-> Is({OP.BRANCH, OP.STORE, OP.REG}),
       csr_en    |-> csr_en(w),
       csr_imm   |-> csr_en(w) /\ w.funct3 > 4,
       csr_op    |-> CASE csr_en(w) /\ w.funct3 \in {2, 6} -> "set"
                       [] csr_en(w) /\ w.funct3 \in {3, 7} -> "clear"
                       [] OTHER -> "write",
       fence_i   |-> Is({OP.MISC_MEM}) /\ w.funct3 = 1,
       system    |-> {s \in DOMAIN SystemWords : w = SystemWords[s]}]

-----------------------------------------------------------------------------
(* immediate_generator.sv: the immediate as a signed number.               *)

SignExtend(value, width) == IF value >= 2^(width - 1) THEN value - 2^width ELSE value

\* inst[31:12] as a number.
UpperBits(w) == 2^13 * w.funct7 + 2^8 * w.rs2 + 2^3 * w.rs1 + w.funct3

o_imm(w) ==
  CASE w.opcode \in {OP.IMM, OP.LOAD, OP.JALR} -> SignExtend(2^5 * w.funct7 + w.rs2, 12)
    [] w.opcode = OP.STORE  -> SignExtend(2^5 * w.funct7 + w.rd, 12)
    [] w.opcode = OP.BRANCH ->
         SignExtend(2^12 * Bits(w.funct7, 6, 6) + 2^11 * Bits(w.rd, 0, 0)
                      + 2^5 * Bits(w.funct7, 5, 0) + 2 * Bits(w.rd, 4, 1), 13)
    [] w.opcode \in {OP.LUI, OP.AUIPC} -> 2^12 * SignExtend(UpperBits(w), 20)
    [] w.opcode = OP.JAL ->
         SignExtend(2^20 * Bits(w.funct7, 6, 6) + 2^12 * (2^3 * w.rs1 + w.funct3)
                      + 2^11 * Bits(w.rs2, 0, 0) + 2 * (2^4 * Bits(w.funct7, 5, 0)
                      + Bits(w.rs2, 4, 1)), 21)
    [] OTHER -> 0

-----------------------------------------------------------------------------
(* functional_coverage.py.                                                 *)

\* The name a table gives a code, or "None".
Named(table, code) == IF \E m \in DOMAIN table : table[m] = code
                      THEN CHOOSE m \in DOMAIN table : table[m] = code ELSE "None"

decode_instruction(w) ==
  CASE w.opcode = OP.LUI    -> "lui"
    [] w.opcode = OP.AUIPC  -> "auipc"
    [] w.opcode = OP.JAL    -> "jal"
    [] w.opcode = OP.JALR   -> "jalr"
    [] w.opcode = OP.BRANCH -> Named([beq |-> 0, bne |-> 1, blt |-> 4, bge |-> 5,
                                      bltu |-> 6, bgeu |-> 7], w.funct3)
    [] w.opcode = OP.LOAD   -> Named([lb |-> 0, lh |-> 1, lw |-> 2, lbu |-> 4, lhu |-> 5], w.funct3)
    [] w.opcode = OP.STORE  -> Named([sb |-> 0, sh |-> 1, sw |-> 2], w.funct3)
    [] w.opcode = OP.IMM    ->
         <<"addi", "slli", "slti", "sltiu", "xori", IF Alternate(w) THEN "srai" ELSE "srli",
           "ori", "andi">>[w.funct3 + 1]
    [] w.opcode = OP.REG    ->
         IF w.funct7 = 1
         THEN <<"mul", "mulh", "mulhsu", "mulhu", "div", "divu", "rem", "remu">>[w.funct3 + 1]
         ELSE <<IF Alternate(w) THEN "sub" ELSE "add", "sll", "slt", "sltu", "xor",
                IF Alternate(w) THEN "sra" ELSE "srl", "or", "and">>[w.funct3 + 1]
    [] w.opcode = OP.MISC_MEM -> IF w.funct3 = 1 THEN "fence.i" ELSE "None"
    [] w.opcode = OP.SYSTEM ->
         IF \E s \in DOMAIN SystemWords : w = SystemWords[s] THEN Named(SystemWords, w)
         ELSE Named([csrrw |-> 1, csrrs |-> 2, csrrc |-> 3, csrrwi |-> 5, csrrsi |-> 6,
                     csrrci |-> 7], w.funct3)
    [] OTHER -> "None"
=============================================================================
