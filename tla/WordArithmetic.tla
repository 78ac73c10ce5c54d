--------------------------- MODULE WordArithmetic ---------------------------
(***************************************************************************)
(* Words of N bits, 0 .. 2^N - 1, and what verification/cocotb/            *)
(* reference_model.py computes on them: its integers are unbounded and     *)
(* signed, cut to a word by u32 and read as signed by s32.                 *)
(***************************************************************************)
EXTENDS Integers

CONSTANT N         \* the width of a word: 32 in the source

ASSUME WidthAssumption == N \in Nat /\ N > 1

\* What the proofs use of the powers of two, which their provers do not know.
ASSUME PowerAssumption == \A i, j \in 0 .. N : 2^i \in Nat \ {0} /\ 2^(i + j) = 2^i * 2^j

Modulus == 2^N
Operand == 0 .. Modulus - 1

u32(v) == v % Modulus
Negative(v) == v >= Modulus \div 2          \* the sign bit
s32(v) == IF Negative(u32(v)) THEN u32(v) - Modulus ELSE u32(v)

Abs(v) == IF v < 0 THEN -v ELSE v
signed_quotient(dividend, divisor) ==
  LET magnitude == Abs(dividend) \div Abs(divisor)
  IN  IF (dividend < 0) # (divisor < 0) THEN -magnitude ELSE magnitude

MultiplyOp == {"mul", "mulh", "mulhsu", "mulhu"}
DivideOp   == {"div", "divu", "rem", "remu"}

\* The value of an RV32M operation, before it is cut to a word.
MValue(op, a, b) ==
  LET sa == s32(a)
      sb == s32(b)
      quotient == IF b = 0 THEN -1
                  ELSE IF sa = -(Modulus \div 2) /\ sb = -1 THEN sa
                  ELSE signed_quotient(sa, sb)
  IN  CASE op = "mul"    -> a * b
        [] op = "mulh"   -> (sa * sb) \div Modulus
        [] op = "mulhsu" -> (sa * b) \div Modulus
        [] op = "mulhu"  -> (a * b) \div Modulus
        [] op = "div"    -> quotient
        [] op = "rem"    -> IF b = 0 THEN sa ELSE sa - quotient * sb
        [] op = "divu"   -> IF b = 0 THEN Modulus - 1 ELSE a \div b
        [] op = "remu"   -> IF b = 0 THEN a ELSE a % b
=============================================================================
