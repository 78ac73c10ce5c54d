---------------------------- MODULE Instructions ----------------------------
(***************************************************************************)
(* The instruction set the pipeline model runs, one instruction for each   *)
(* way an instruction uses the pipeline (which controls it raises, where   *)
(* its result is chosen, what it redirects), and the decode of             *)
(* control_unit.sv.  Words are counted modulo Words; an instruction is one *)
(* unit of the PC (FetchBuffer deals with parcels and lengths).            *)
(***************************************************************************)
EXTENDS Naturals

CONSTANTS Words,     \* data words and PC values are 0 .. Words - 1, wrapping
          NumRegs    \* x0 .. x(NumRegs - 1)

ASSUME WordsAssumption == Words \in Nat /\ Words > 3     \* mstatus has two bits
ASSUME RegsAssumption  == NumRegs \in 1 .. Words               \* a field is a word

Word == 0 .. Words - 1
Reg  == 0 .. NumRegs - 1

Plus(a, b) == (a + b) % Words

Op == {"addi", "add", "lui", "auipc", "jal", "jalr", "beq", "lw", "sw", "mul",
       "csrrw", "csrrs", "csrrc", "csrrwi", "csrrsi", "csrrci",
       "ecall", "ebreak", "mret", "wfi", "fence", "fence_i", "illegal", "none"}

Csr == {"mstatus", "mie", "mepc", "instret", "unimplemented"}

\* rd, rs1 and rs2 are the raw instruction fields: present, and possibly
\* nonzero, whether or not the operation has such an operand.
Instruction == [op: Op, rd: Reg, rs1: Reg, rs2: Reg, imm: Word, csr: Csr]

\* 32'h13 (addi x0, x0, 0), and a cleared control bank.
Nop    == [op |-> "addi", rd |-> 0, rs1 |-> 0, rs2 |-> 0, imm |-> 0, csr |-> "mstatus"]
Bubble == [Nop EXCEPT !.op = "none"]

\* The immediate forms take the rs1 field itself as their operand.
CsrImm(i)   == i.op \in {"csrrwi", "csrrsi", "csrrci"}
CsrEn(i)    == i.op \in {"csrrw", "csrrs", "csrrc"} \/ CsrImm(i)
CsrOp(i)    == CASE i.op \in {"csrrs", "csrrsi"} -> "set"
                 [] i.op \in {"csrrc", "csrrci"} -> "clear"
                 [] OTHER -> "write"
RegWrite(i) == i.op \in {"addi", "add", "lui", "auipc", "jal", "jalr", "lw", "mul"} \/ CsrEn(i)
MemRead(i)  == i.op = "lw"
MemWrite(i) == i.op = "sw"
MemAccess(i) == MemRead(i) \/ MemWrite(i)
Rs1Read(i)  == i.op \in {"addi", "add", "jalr", "beq", "lw", "sw", "mul"}
                 \/ (CsrEn(i) /\ ~CsrImm(i))
Rs2Read(i)  == i.op \in {"add", "beq", "sw", "mul"}
WbSel(i)    == CASE i.op = "lw" -> "MEM"
                 [] i.op \in {"jal", "jalr"} -> "PC4"
                 [] i.op = "lui" -> "IMM"
                 [] OTHER -> "ALU"

-----------------------------------------------------------------------------
(* Values, bit by bit, for CSRRS and CSRRC.                                *)

Bit(v, n) == (v \div 2^n) % 2 = 1
OrWord(a, b)     == CHOOSE w \in Word : \A n \in 0 .. Words : Bit(w, n) = (Bit(a, n) \/ Bit(b, n))
AndNotWord(a, b) == CHOOSE w \in Word : \A n \in 0 .. Words : Bit(w, n) = (Bit(a, n) /\ ~Bit(b, n))

\* Words is a power of two: the bit operations stay among the words.
ASSUME BitsAssumption ==
  \A a, b \in Word : OrWord(a, b) \in Word /\ AndNotWord(a, b) \in Word

\* Data addresses are words of two units, so an odd address is misaligned.
Misaligned(a) == a % 2 = 1

-----------------------------------------------------------------------------
(* The trap state csr_file.sv keeps, reduced to one interrupt source: its  *)
(* bit of mie, and the line (irq) its bit of mip follows.                  *)

TrapState == [mstatus_mie: BOOLEAN, mstatus_mpie: BOOLEAN, mie: BOOLEAN,
              mepc: Word, mcause: {"reset"} \cup Op \cup
                {"instruction_access", "load_misaligned", "store_misaligned",
                 "load_access", "store_access", "interrupt"},
              minstret: Word]

ToBit(b) == IF b THEN 1 ELSE 0

\* o_csr_rdata, with MIE and MPIE at bits 0 and 1 of mstatus.
CsrRead(c, a) == CASE a = "mstatus" -> ToBit(c.mstatus_mie) + 2 * ToBit(c.mstatus_mpie)
                   [] a = "mie"     -> ToBit(c.mie)
                   [] a = "mepc"    -> c.mepc
                   [] a = "instret" -> c.minstret
                   [] OTHER         -> 0

CsrValid(a)    == a # "unimplemented"
CsrWritable(a) == a \notin {"unimplemented", "instret"}

CsrWrite(c, a, v) ==
  CASE a = "mstatus" -> [c EXCEPT !.mstatus_mie = Bit(v, 0), !.mstatus_mpie = Bit(v, 1)]
    [] a = "mie"     -> [c EXCEPT !.mie = Bit(v, 0)]
    [] a = "mepc"    -> [c EXCEPT !.mepc = v]
    [] OTHER         -> c

CsrTrap(c, pc, cause) ==
  [c EXCEPT !.mepc = pc, !.mcause = cause, !.mstatus_mpie = c.mstatus_mie, !.mstatus_mie = FALSE]

CsrMret(c) == [c EXCEPT !.mstatus_mie = c.mstatus_mpie, !.mstatus_mpie = TRUE]

\* The value a CSR instruction writes, from the old value and its operand.
CsrOperation(i, old, operand) == CASE CsrOp(i) = "write" -> operand
                                   [] CsrOp(i) = "set"   -> OrWord(old, operand)
                                   [] CsrOp(i) = "clear" -> AndNotWord(old, operand)

CsrWriteIntent(i) == CsrEn(i) /\ (CsrOp(i) = "write" \/ i.rs1 # 0)

CsrIllegal(i) == CsrEn(i) /\ (~CsrValid(i.csr) \/ (CsrWriteIntent(i) /\ ~CsrWritable(i.csr)))
=============================================================================
