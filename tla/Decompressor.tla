---------------------------- MODULE Decompressor ----------------------------
(***************************************************************************)
(* rv32c_decompressor.sv, and rv32c_oracle.py, the model the unit test     *)
(* compares it with over every 16-bit parcel.  The two are written apart:  *)
(* the RTL splices slices of the parcel into immediates, the oracle adds   *)
(* shifted numbers and classifies the parcel by mnemonic.                  *)
(***************************************************************************)
EXTENDS Decode

Parcel == 0 .. 2^16 - 1

\* The slices of p, each <<high, low>>, concatenated from the left.
Cat(p, slices) ==
  LET value[n \in 0 .. Len(slices)] ==
        IF n = 0 THEN 0
        ELSE LET s == slices[n] IN 2^(s[1] - s[2] + 1) * value[n - 1] + Bits(p, s[1], s[2])
  IN  value[Len(slices)]

quadrant(p) == Bits(p, 1, 0)
funct3(p) == Bits(p, 15, 13)
rd(p)   == Bits(p, 11, 7)
rs2(p)  == Bits(p, 6, 2)
rdp(p)  == 8 + Bits(p, 4, 2)      \* also rs2p
rs1p(p) == 8 + Bits(p, 9, 7)
bit12(p) == Bits(p, 12, 12) = 1

I(immediate, rs1, f3, dest, opcode) ==
  Word(Bits(immediate, 11, 5), Bits(immediate, 4, 0), rs1, f3, dest, opcode)
S(immediate, src2, src1) == Word(Bits(immediate, 11, 5), src2, src1, 2, Bits(immediate, 4, 0), OP.STORE)
R(f7, src2, src1, f3, dest) == Word(f7, src2, src1, f3, dest, OP.REG)

Ebreak == Word(0, 1, 0, 0, 0, OP.SYSTEM)

-----------------------------------------------------------------------------
(* rv32c_decompressor.sv: o_instruction, or Illegal, beside the default    *)
(* NOP.                                                                    *)

Illegal == [instruction |-> Nop, illegal |-> TRUE]
Legal(w) == [instruction |-> w, illegal |-> FALSE]
LegalUnless(reserved, w) == IF reserved THEN Illegal ELSE Legal(w)

enc_b(immediate, src1, f3) ==
  Word(Bits(immediate, 12, 12) * 64 + Bits(immediate, 10, 5), 0, src1, f3,
       Bits(immediate, 4, 1) * 2 + Bits(immediate, 11, 11), OP.BRANCH)
enc_j(immediate, dest) ==
  Word(Bits(immediate, 20, 20) * 64 + Bits(immediate, 10, 5),
       Bits(immediate, 4, 1) * 2 + Bits(immediate, 11, 11),
       Bits(immediate, 19, 15), Bits(immediate, 14, 12), dest, OP.JAL)

\* {i[12] repeated, i[6:2]}, and the jump and branch offsets.
imm6(p) == SignExtend(Cat(p, << <<12, 12>>, <<6, 2>> >>), 6)
imm_j(p) == SignExtend(2 * Cat(p, << <<12, 12>>, <<8, 8>>, <<10, 9>>, <<6, 6>>, <<7, 7>>,
                                     <<2, 2>>, <<11, 11>>, <<5, 3>> >>), 12)
imm_b(p) == SignExtend(2 * Cat(p, << <<12, 12>>, <<6, 5>>, <<2, 2>>, <<11, 10>>, <<4, 3>> >>), 9)
imm_lw(p) == 4 * Cat(p, << <<5, 5>>, <<12, 10>>, <<6, 6>> >>)

Quadrant0(p) ==
  LET sp == 4 * Cat(p, << <<10, 7>>, <<12, 11>>, <<5, 5>>, <<6, 6>> >>)
  IN  CASE funct3(p) = 0 -> LegalUnless(sp = 0, I(sp, 2, 0, rdp(p), OP.IMM))
        [] funct3(p) = 2 -> Legal(I(imm_lw(p), rs1p(p), 2, rdp(p), OP.LOAD))
        [] funct3(p) = 6 -> Legal(S(imm_lw(p), rdp(p), rs1p(p)))
        [] OTHER         -> Illegal

\* C.ADDI16SP and C.LUI.
LuiGroup(p) ==
  LET sp == SignExtend(16 * Cat(p, << <<12, 12>>, <<4, 3>>, <<5, 5>>, <<2, 2>>, <<6, 6>> >>), 10)
  IN  IF rd(p) = 2 THEN LegalUnless(sp = 0, I(sp, 2, 0, 2, OP.IMM))
      ELSE IF rd(p) = 0 THEN Legal(Nop)
      ELSE LegalUnless(imm6(p) = 0, Upper(imm6(p), rd(p), OP.LUI))

\* Shifts, C.ANDI and the register operations.
ArithmeticGroup(p) ==
  LET sub == Bits(p, 11, 10)
      op  == Bits(p, 6, 5)
  IN  CASE sub < 2 -> LegalUnless(bit12(p), Word(32 * sub, rs2(p), rs1p(p), 5, rs1p(p), OP.IMM))
        [] sub = 2 -> Legal(I(imm6(p), rs1p(p), 7, rs1p(p), OP.IMM))
        [] sub = 3 -> LegalUnless(bit12(p), R(IF op = 0 THEN 32 ELSE 0, rdp(p), rs1p(p),
                                              <<0, 4, 6, 7>>[op + 1], rs1p(p)))

Quadrant1(p) ==
  CASE funct3(p) = 0 -> Legal(I(imm6(p), rd(p), 0, rd(p), OP.IMM))
    [] funct3(p) = 1 -> Legal(enc_j(imm_j(p), 1))
    [] funct3(p) = 2 -> Legal(I(imm6(p), 0, 0, rd(p), OP.IMM))
    [] funct3(p) = 3 -> LuiGroup(p)
    [] funct3(p) = 4 -> ArithmeticGroup(p)
    [] funct3(p) = 5 -> Legal(enc_j(imm_j(p), 0))
    [] funct3(p) > 5 -> Legal(enc_b(imm_b(p), rs1p(p), funct3(p) - 6))

\* Fault: C.MV and C.ADD do not exclude rs2 = x0.
RegisterGroupAnySource(p) ==
  Legal(R(0, rs2(p), IF bit12(p) THEN rd(p) ELSE 0, 0, rd(p)))

\* C.JR, C.MV, C.EBREAK, C.JALR and C.ADD.
RegisterGroup(p) ==
  IF rs2(p) # 0 THEN Legal(R(0, rs2(p), IF bit12(p) THEN rd(p) ELSE 0, 0, rd(p)))
  ELSE IF rd(p) = 0 THEN LegalUnless(~bit12(p), Ebreak)
  ELSE Legal(I(0, rd(p), 0, IF bit12(p) THEN 1 ELSE 0, OP.JALR))

Quadrant2(p) ==
  CASE funct3(p) = 0 -> LegalUnless(bit12(p), I(rs2(p), rd(p), 1, rd(p), OP.IMM))
    [] funct3(p) = 2 -> LegalUnless(rd(p) = 0, I(4 * Cat(p, << <<3, 2>>, <<12, 12>>, <<6, 4>> >>),
                                                 2, 2, rd(p), OP.LOAD))
    [] funct3(p) = 4 -> RegisterGroup(p)
    [] funct3(p) = 6 -> Legal(S(4 * Cat(p, << <<8, 7>>, <<12, 9>> >>), rs2(p), 2))
    [] OTHER         -> Illegal

Decompress(p) == <<Quadrant0(p), Quadrant1(p), Quadrant2(p), Illegal>>[quadrant(p) + 1]

-----------------------------------------------------------------------------
(* rv32c_oracle.py.  coverage_bin is the mnemonic, or the reason.          *)

Field(p, high, low, shift) == 2^shift * Bits(p, high, low)

As(mnemonic, w) == [instruction |-> w, illegal |-> FALSE, coverage_bin |-> mnemonic]
Reserved(reason) == [instruction |-> Nop, illegal |-> TRUE, coverage_bin |-> reason]

OracleB(offset, src1, f3) ==
  LET immediate == offset % 2^13
  IN  Word(2^6 * (immediate \div 2^12) + ((immediate \div 2^5) % 2^6), 0, src1, f3,
           2 * ((immediate \div 2) % 2^4) + ((immediate \div 2^11) % 2), OP.BRANCH)

\* _j: the 20 bits above rd, as they are shifted together.
OracleJ(offset, dest) ==
  LET immediate == offset % 2^21
      upper == 2^19 * (immediate \div 2^20) + 2^9 * ((immediate \div 2) % 2^10)
                 + 2^8 * ((immediate \div 2^11) % 2) + ((immediate \div 2^12) % 2^8)
  IN  Upper(upper, dest, OP.JAL)

\* The offset of C.LW and C.SW.
OracleLw(p) == Field(p, 5, 5, 6) + Field(p, 12, 10, 3) + Field(p, 6, 6, 2)

Oracle0(p) ==
  LET offset == Field(p, 10, 7, 6) + Field(p, 12, 11, 4) + Field(p, 5, 5, 3) + Field(p, 6, 6, 2)
  IN  CASE funct3(p) = 0 -> IF offset = 0 THEN Reserved("reserved.c.addi4spn.zero")
                            ELSE As("c.addi4spn", I(offset, 2, 0, rdp(p), OP.IMM))
        [] funct3(p) = 2 -> As("c.lw", I(OracleLw(p), rs1p(p), 2, rdp(p), OP.LOAD))
        [] funct3(p) = 6 -> As("c.sw", S(OracleLw(p), rdp(p), rs1p(p)))
        [] OTHER         -> Reserved("reserved.q0")

OracleLui(p, immediate6, signed6) ==
  LET offset == Field(p, 12, 12, 9) + Field(p, 4, 3, 7) + Field(p, 5, 5, 6) + Field(p, 2, 2, 5)
                  + Field(p, 6, 6, 4)
  IN  CASE rd(p) = 2 /\ offset = 0 -> Reserved("reserved.c.addi16sp.zero")
        [] rd(p) = 2 /\ offset # 0 -> As("c.addi16sp", I(SignExtend(offset, 10), 2, 0, 2, OP.IMM))
        [] rd(p) = 0               -> As("hint.c.lui.rd0", Nop)
        [] rd(p) \notin {0, 2}     -> IF immediate6 = 0 THEN Reserved("reserved.c.lui.zero")
                                      ELSE As("c.lui", Upper(signed6 % 2^20, rd(p), OP.LUI))

OracleArithmetic(p, signed6) ==
  LET subop == Bits(p, 11, 10)
      shift == IF subop = 0 THEN "c.srli" ELSE "c.srai"
      alu == << <<32, 0, "c.sub">>, <<0, 4, "c.xor">>, <<0, 6, "c.or">>, <<0, 7, "c.and">> >>
               [Bits(p, 6, 5) + 1]
  IN  CASE subop < 2 -> IF bit12(p) THEN Reserved("reserved.shift.shamt5")
                        ELSE As(shift, I(IF subop = 0 THEN rs2(p) ELSE 2^10 + rs2(p),
                                         rs1p(p), 5, rs1p(p), OP.IMM))
        [] subop = 2 -> As("c.andi", I(signed6, rs1p(p), 7, rs1p(p), OP.IMM))
        [] subop = 3 -> IF bit12(p) THEN Reserved("reserved.ca.rv32.subw_addw")
                        ELSE As(alu[3], R(alu[1], rdp(p), rs1p(p), alu[2], rs1p(p)))

Oracle1(p) ==
  LET immediate6 == Field(p, 12, 12, 5) + Bits(p, 6, 2)
      signed6 == SignExtend(immediate6, 6)
      immediate12 == Field(p, 12, 12, 11) + Field(p, 8, 8, 10) + Field(p, 10, 9, 8)
                       + Field(p, 6, 6, 7) + Field(p, 7, 7, 6) + Field(p, 2, 2, 5)
                       + Field(p, 11, 11, 4) + Field(p, 5, 3, 1)
      immediate9 == Field(p, 12, 12, 8) + Field(p, 6, 5, 6) + Field(p, 2, 2, 5)
                      + Field(p, 11, 10, 3) + Field(p, 4, 3, 1)
  IN  CASE funct3(p) = 0 -> As(IF rd(p) = 0 /\ signed6 = 0 THEN "c.nop" ELSE "c.addi",
                               I(signed6, rd(p), 0, rd(p), OP.IMM))
        [] funct3(p) = 1 -> As("c.jal", OracleJ(SignExtend(immediate12, 12), 1))
        [] funct3(p) = 5 -> As("c.j", OracleJ(SignExtend(immediate12, 12), 0))
        [] funct3(p) = 2 -> As("c.li", I(signed6, 0, 0, rd(p), OP.IMM))
        [] funct3(p) = 3 -> OracleLui(p, immediate6, signed6)
        [] funct3(p) = 4 -> OracleArithmetic(p, signed6)
        [] funct3(p) = 6 -> As("c.beqz", OracleB(SignExtend(immediate9, 9), rs1p(p), 0))
        [] funct3(p) = 7 -> As("c.bnez", OracleB(SignExtend(immediate9, 9), rs1p(p), 1))

OracleRegister(p) ==
  CASE ~bit12(p) /\ rs2(p) = 0 -> IF rd(p) = 0 THEN Reserved("reserved.c.jr.rd0")
                                  ELSE As("c.jr", I(0, rd(p), 0, 0, OP.JALR))
    [] ~bit12(p) /\ rs2(p) # 0 -> As("c.mv", R(0, rs2(p), 0, 0, rd(p)))
    [] bit12(p) /\ rs2(p) = 0  -> IF rd(p) = 0 THEN As("c.ebreak", Ebreak)
                                  ELSE As("c.jalr", I(0, rd(p), 0, 1, OP.JALR))
    [] bit12(p) /\ rs2(p) # 0  -> As("c.add", R(0, rs2(p), rd(p), 0, rd(p)))

Oracle2(p) ==
  CASE funct3(p) = 0 -> IF bit12(p) THEN Reserved("reserved.c.slli.shamt5")
                        ELSE As("c.slli", I(rs2(p), rd(p), 1, rd(p), OP.IMM))
    [] funct3(p) = 2 -> IF rd(p) = 0 THEN Reserved("reserved.c.lwsp.rd0")
                        ELSE As("c.lwsp", I(Field(p, 3, 2, 6) + Field(p, 12, 12, 5)
                                              + Field(p, 6, 4, 2), 2, 2, rd(p), OP.LOAD))
    [] funct3(p) = 4 -> OracleRegister(p)
    [] funct3(p) = 6 -> As("c.swsp", S(Field(p, 8, 7, 6) + Field(p, 12, 9, 2), rs2(p), 2))
    [] OTHER         -> Reserved("reserved.q2")

decompress_rv32c(p) ==
  <<Oracle0(p), Oracle1(p), Oracle2(p), Reserved("not_compressed.q3")>>[quadrant(p) + 1]
=============================================================================
