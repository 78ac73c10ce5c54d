------------------------------ MODULE Encoding ------------------------------
(***************************************************************************)
(* Instruction words, and verification/cocotb/riscv.py: the assembler the  *)
(* directed and random tests are written with.                             *)
(*                                                                         *)
(* A 32-bit word is the record of its six R-type fields, a 16-bit parcel   *)
(* an integer.  An instruction to assemble is a record of its mnemonic and *)
(* the arguments of the encoder of that name: rs1 holds the immediate of a *)
(* CSR instruction, imm its CSR address.  Where the encoder would raise    *)
(* ValueError, Encodable (CEncodable of a parcel) is false.                *)
(***************************************************************************)
EXTENDS Integers

\* value[high:low], of a two's complement value.
Bits(value, high, low) == (value \div 2^low) % 2^(high - low + 1)

Word(funct7, rs2, rs1, funct3, rd, opcode) ==
  [funct7 |-> funct7, rs2 |-> rs2, rs1 |-> rs1, funct3 |-> funct3, rd |-> rd, opcode |-> opcode]

InstructionWord == [funct7: 0 .. 127, rs2: 0 .. 31, rs1: 0 .. 31, funct3: 0 .. 7, rd: 0 .. 31,
                    opcode: 0 .. 127]

OP == [LUI |-> 55, AUIPC |-> 23, JAL |-> 111, JALR |-> 103, BRANCH |-> 99, LOAD |-> 3,
       STORE |-> 35, IMM |-> 19, REG |-> 51, MISC_MEM |-> 15, SYSTEM |-> 115]

Nop == Word(0, 0, 0, 0, 0, OP.IMM)

-----------------------------------------------------------------------------
(* The mnemonics of each format: funct3, or funct3 and funct7.             *)

IType == [addi |-> 0, slti |-> 2, sltiu |-> 3, xori |-> 4, ori |-> 6, andi |-> 7]
ShiftType == [slli |-> <<1, 0>>, srli |-> <<5, 0>>, srai |-> <<5, 32>>]
RType == [add |-> <<0, 0>>, sub |-> <<0, 32>>, sll |-> <<1, 0>>, slt |-> <<2, 0>>,
          sltu |-> <<3, 0>>, xor |-> <<4, 0>>, srl |-> <<5, 0>>, sra |-> <<5, 32>>,
          or |-> <<6, 0>>, and |-> <<7, 0>>]
MType == [mul |-> 0, mulh |-> 1, mulhsu |-> 2, mulhu |-> 3,
          div |-> 4, divu |-> 5, rem |-> 6, remu |-> 7]
LoadType == [lb |-> 0, lh |-> 1, lw |-> 2, lbu |-> 4, lhu |-> 5]
StoreType == [sb |-> 0, sh |-> 1, sw |-> 2]
BranchType == [beq |-> 0, bne |-> 1, blt |-> 4, bge |-> 5, bltu |-> 6, bgeu |-> 7]
UType == [lui |-> OP.LUI, auipc |-> OP.AUIPC]
CsrType == [csrrw |-> 1, csrrs |-> 2, csrrwi |-> 5, csrrsi |-> 6, csrrci |-> 7]
Fixed == [ecall |-> Word(0, 0, 0, 0, 0, OP.SYSTEM), mret |-> Word(24, 2, 0, 0, 0, OP.SYSTEM),
          wfi |-> Word(8, 5, 0, 0, 0, OP.SYSTEM)]

-----------------------------------------------------------------------------
(* The encoders.                                                           *)

r_type(i, funct3, funct7) == Word(funct7, i.rs2, i.rs1, funct3, i.rd, OP.REG)

i_type(i, immediate, funct3, opcode) ==
  Word(Bits(immediate, 11, 5), Bits(immediate, 4, 0), i.rs1, funct3, i.rd, opcode)

store_type(i, funct3) ==
  Word(Bits(i.imm, 11, 5), i.rs2, i.rs1, funct3, Bits(i.imm, 4, 0), OP.STORE)

\* Fault: bit 11 of a branch offset is put where bit 12 belongs.
BranchBitsSwapped(i, funct3) ==
  Word(64 * Bits(i.imm, 11, 11) + Bits(i.imm, 10, 5), i.rs2, i.rs1, funct3,
       2 * Bits(i.imm, 4, 1) + Bits(i.imm, 12, 12), OP.BRANCH)

branch(i, funct3) ==
  Word(64 * Bits(i.imm, 12, 12) + Bits(i.imm, 10, 5), i.rs2, i.rs1, funct3,
       2 * Bits(i.imm, 4, 1) + Bits(i.imm, 11, 11), OP.BRANCH)

\* The 20 upper bits of a word, spread over the fields they cover.
Upper(value, rd, opcode) ==
  Word(Bits(value, 19, 13), Bits(value, 12, 8), Bits(value, 7, 3), Bits(value, 2, 0), rd, opcode)

jal(i) ==
  LET upper == 2^19 * Bits(i.imm, 20, 20) + 2^9 * Bits(i.imm, 10, 1)
                 + 2^8 * Bits(i.imm, 11, 11) + Bits(i.imm, 19, 12)
  IN  Upper(upper, i.rd, OP.JAL)

csr(i, funct3) == Word(Bits(i.imm, 11, 5), Bits(i.imm, 4, 0), i.rs1, funct3, i.rd, OP.SYSTEM)

Encode(i) ==
  CASE i.m \in DOMAIN IType      -> i_type(i, i.imm, IType[i.m], OP.IMM)
    [] i.m \in DOMAIN ShiftType  -> i_type(i, 2^5 * ShiftType[i.m][2] + i.imm,
                                            ShiftType[i.m][1], OP.IMM)
    [] i.m \in DOMAIN RType      -> r_type(i, RType[i.m][1], RType[i.m][2])
    [] i.m \in DOMAIN MType      -> r_type(i, MType[i.m], 1)
    [] i.m \in DOMAIN LoadType   -> i_type(i, i.imm, LoadType[i.m], OP.LOAD)
    [] i.m = "jalr"              -> i_type(i, i.imm, 0, OP.JALR)
    [] i.m \in DOMAIN StoreType  -> store_type(i, StoreType[i.m])
    [] i.m \in DOMAIN BranchType -> branch(i, BranchType[i.m])
    [] i.m \in DOMAIN UType      -> Upper(i.imm, i.rd, UType[i.m])
    [] i.m = "jal"               -> jal(i)
    [] i.m \in DOMAIN CsrType    -> csr(i, CsrType[i.m])
    [] i.m \in DOMAIN Fixed      -> Fixed[i.m]

\* _signed: the immediate fits width bits.
FitsSigned(value, width) == -(2^(width - 1)) <= value /\ value < 2^(width - 1)
Even(value) == value % 2 = 0

Mnemonics == UNION {DOMAIN IType, DOMAIN ShiftType, DOMAIN RType, DOMAIN MType, DOMAIN LoadType,
                    DOMAIN StoreType, DOMAIN BranchType, DOMAIN UType, DOMAIN CsrType,
                    DOMAIN Fixed, {"jal", "jalr"}}

Encodable(i) ==
  /\ i.m \in Mnemonics
  /\ i.m \in DOMAIN ShiftType  => i.imm \in 0 .. 31
  /\ i.m \in DOMAIN BranchType => FitsSigned(i.imm, 13) /\ Even(i.imm)
  /\ i.m = "jal"               => FitsSigned(i.imm, 21) /\ Even(i.imm)
  /\ i.m \in DOMAIN UType      => i.imm \in 0 .. 2^20 - 1
  /\ i.m \in DOMAIN CsrType    => i.imm \in 0 .. 2^12 - 1 /\ i.rs1 \in 0 .. 31
  /\ i.m \in {"jalr"} \cup DOMAIN IType \cup DOMAIN LoadType \cup DOMAIN StoreType
       => FitsSigned(i.imm, 12)

-----------------------------------------------------------------------------
(* The compressed encoders: rd with an immediate, or with rs2.             *)

CImmediate(funct3, rd, immediate) ==
  2^13 * funct3 + 2^12 * Bits(immediate, 5, 5) + 2^7 * rd + 2^2 * Bits(immediate, 4, 0) + 1
CRegister(funct4, rd, rs2) == 2^12 * funct4 + 2^7 * rd + 2^2 * rs2 + 2

\* The arguments the four take: x0 only in C.ADDI, with immediate zero (C.NOP).
CEncodableImmediate(m, rd, immediate) ==
  FitsSigned(immediate, 6) /\ (rd = 0 => m = "c.addi" /\ immediate = 0)
CEncodableRegister(rd, rs2) == rd # 0 /\ rs2 # 0

\* Fault: C.LI without its funct3 is C.ADDI.
CLiWithoutFunct3(rd, immediate) == CImmediate(0, rd, immediate)

c_addi(rd, immediate) == CImmediate(0, rd, immediate)
c_li(rd, immediate)   == CImmediate(2, rd, immediate)
c_mv(rd, rs2)         == CRegister(8, rd, rs2)
c_add(rd, rs2)        == CRegister(9, rd, rs2)
=============================================================================
