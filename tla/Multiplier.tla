----------------------------- MODULE Multiplier -----------------------------
(***************************************************************************)
(* iterative_multiplier.sv at a small width N, driven the way mdu_unit.sv  *)
(* drives it: the instruction in EX stays there, with its operands, until  *)
(* its result is consumed, which waits for the buses (i_result_ready).     *)
(* One step is one rising edge.                                            *)
(***************************************************************************)
EXTENDS WordArithmetic

CONSTANT NoInsn      \* EX holds no multiply

Product == 0 .. Modulus * Modulus - 1
Insn == [op: MultiplyOp, a: Operand, b: Operand]

VARIABLES ex,        \* the multiply in EX, or NoInsn
          state_q, iteration_q, product_q, multiplicand_q, negate_result_q, select_high_q

control == <<state_q, iteration_q>>
datapath == <<product_q, multiplicand_q, negate_result_q, select_high_q>>
vars == <<ex, control, datapath>>

-----------------------------------------------------------------------------
TwosComplement(v, modulus) == (modulus - v) % modulus

a_signed == ex.op \in {"mulh", "mulhsu"} /\ Negative(ex.a)
b_signed == ex.op = "mulh" /\ Negative(ex.b)
Magnitude(v, signed) == IF signed THEN TwosComplement(v, Modulus) ELSE v

\* Fault: the carry out of the addition is lost.
ProductNextWithoutCarry ==
  LET upper == product_q \div Modulus
      sum == (upper + IF product_q % 2 = 1 THEN multiplicand_q ELSE 0) % Modulus
  IN  sum * (Modulus \div 2) + (product_q % Modulus) \div 2

\* Add the multiplicand to the upper half when the multiplier's low bit is
\* set, then shift carry, accumulator and multiplier right by one.
magnitude_product_next ==
  LET upper == product_q \div Modulus
      sum == upper + IF product_q % 2 = 1 THEN multiplicand_q ELSE 0
  IN  sum * (Modulus \div 2) + (product_q % Modulus) \div 2

corrected_product_next == IF negate_result_q
                          THEN TwosComplement(magnitude_product_next, Modulus * Modulus)
                          ELSE magnitude_product_next

\* Fault: one iteration too many.
FinalIterationLate == state_q = "RUN" /\ iteration_q = N

final_iteration == state_q = "RUN" /\ iteration_q = N - 1
o_done == state_q = "DONE" \/ final_iteration

o_result == LET product == IF final_iteration THEN corrected_product_next ELSE product_q
            IN  IF select_high_q THEN product \div Modulus ELSE product % Modulus

-----------------------------------------------------------------------------
Init == /\ ex = NoInsn
        /\ state_q = "IDLE"
        \* The datapath is not reset: it may power up with anything.
        /\ iteration_q \in {0, N - 1}
        /\ product_q \in {0, Modulus * Modulus - 1}
        /\ multiplicand_q \in {0, Modulus - 1}
        /\ negate_result_q \in BOOLEAN
        /\ select_high_q \in BOOLEAN

Issue == /\ ex = NoInsn
         /\ ex' \in Insn
         /\ UNCHANGED <<control, datapath>>

Start == /\ ex # NoInsn /\ state_q = "IDLE"
         /\ state_q' = "RUN"
         /\ iteration_q' = 0
         /\ product_q' = Magnitude(ex.b, b_signed)
         /\ multiplicand_q' = Magnitude(ex.a, a_signed)
         /\ negate_result_q' = (a_signed # b_signed)
         /\ select_high_q' = (ex.op # "mul")
         /\ UNCHANGED ex

Iterate == /\ state_q = "RUN" /\ ~final_iteration
           /\ product_q' = magnitude_product_next
           /\ iteration_q' = iteration_q + 1
           /\ UNCHANGED <<ex, state_q, multiplicand_q, negate_result_q, select_high_q>>

\* The last iteration, with the result consumed in it or kept for later.
Finish(consume) == /\ final_iteration
                   /\ product_q' = corrected_product_next
                   /\ state_q' = IF consume THEN "IDLE" ELSE "DONE"
                   /\ ex' = IF consume THEN NoInsn ELSE ex
                   /\ UNCHANGED <<iteration_q, multiplicand_q, negate_result_q, select_high_q>>

Consume == /\ state_q = "DONE"
           /\ state_q' = "IDLE"
           /\ ex' = NoInsn
           /\ UNCHANGED <<iteration_q, datapath>>

FinishHeld     == Finish(FALSE)
FinishConsumed == Finish(TRUE)

Next == Issue \/ Start \/ Iterate \/ FinishHeld \/ FinishConsumed \/ Consume

-----------------------------------------------------------------------------
(* Properties.                                                             *)

\* Every variable stays within its type: in particular the iteration counter
\* never passes N - 1 and the product register never overflows 2N bits.
TypeOK == /\ ex \in Insn \cup {NoInsn}
          /\ state_q \in {"IDLE", "RUN", "DONE"}
          /\ iteration_q \in 0 .. N - 1
          /\ product_q \in Product
          /\ multiplicand_q \in Operand
          /\ negate_result_q \in BOOLEAN
          /\ select_high_q \in BOOLEAN

\* Whenever the unit says done, in the final iteration or later, its result is
\* the product reference_model.py computes for the instruction still in EX.
ResultCorrect == o_done => ex # NoInsn /\ o_result = u32(MValue(ex.op, ex.a, ex.b))

\* The partial product is exact after every iteration: the accumulator and the
\* multiplier bits left over always add up to the product of the magnitudes.
PartialProductExact ==
  state_q = "RUN" =>
    LET done == 2^iteration_q
        rest == (product_q % Modulus) % (Modulus \div done)
        sum  == product_q \div (Modulus \div done)
    IN  sum + rest * done * multiplicand_q
          = Magnitude(ex.a, a_signed) * Magnitude(ex.b, b_signed)
=============================================================================
