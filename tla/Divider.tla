------------------------------ MODULE Divider -------------------------------
(***************************************************************************)
(* iterative_divider.sv at a small width N, driven the way mdu_unit.sv     *)
(* drives it (see Multiplier).  One step is one rising edge.               *)
(***************************************************************************)
EXTENDS WordArithmetic

CONSTANT NoInsn      \* EX holds no divide

Insn == [op: DivideOp, a: Operand, b: Operand]

VARIABLES ex,        \* the divide in EX, or NoInsn
          state_q, iteration_q, dividend_q, divisor_q, quotient_q, remainder_q,
          quotient_negative_q, remainder_negative_q, select_remainder_q,
          special_q, special_result_q

control == <<state_q, iteration_q>>
work    == <<dividend_q, quotient_q, remainder_q>>
setup   == <<divisor_q, quotient_negative_q, remainder_negative_q, select_remainder_q,
             special_q, special_result_q>>
vars == <<ex, control, work, setup>>

-----------------------------------------------------------------------------
TwosComplement(v) == (Modulus - v) % Modulus
Corrected(v, negative) == IF negative THEN TwosComplement(v) ELSE v

signed_operation  == ex.op \in {"div", "rem"}
dividend_negative == signed_operation /\ Negative(ex.a)
divisor_negative  == signed_operation /\ Negative(ex.b)
selects_remainder == ex.op \in {"rem", "remu"}
divide_by_zero    == ex.b = 0
signed_overflow   == signed_operation /\ ex.a = Modulus \div 2 /\ ex.b = Modulus - 1

\* One step of restoring division.
shifted_remainder == 2 * remainder_q + (dividend_q \div (Modulus \div 2))
subtracts         == shifted_remainder >= divisor_q
remainder_next    == (IF subtracts THEN shifted_remainder - divisor_q ELSE shifted_remainder)
                       % Modulus
dividend_next     == (2 * dividend_q) % Modulus
quotient_next     == (2 * quotient_q + IF subtracts THEN 1 ELSE 0) % Modulus

\* Fault: the remainder takes the sign of the quotient.
RemainderQuotientSign == Corrected(remainder_next, quotient_negative_q)

quotient_corrected  == Corrected(quotient_next, quotient_negative_q)
remainder_corrected == Corrected(remainder_next, remainder_negative_q)

final_iteration == state_q = "RUN" /\ iteration_q = N - 1
o_done == state_q = "DONE" \/ final_iteration

o_result == IF special_q THEN special_result_q
            ELSE IF final_iteration
            THEN IF select_remainder_q THEN remainder_corrected ELSE quotient_corrected
            ELSE IF select_remainder_q THEN remainder_q ELSE quotient_q

-----------------------------------------------------------------------------
Init == /\ ex = NoInsn
        /\ state_q = "IDLE"
        \* The datapath is not reset: it may power up with anything.
        /\ iteration_q \in {0, N - 1}
        /\ dividend_q \in {0, Modulus - 1} /\ divisor_q = 0
        /\ quotient_q \in {0, Modulus - 1} /\ remainder_q \in {0, Modulus - 1}
        /\ quotient_negative_q \in BOOLEAN /\ remainder_negative_q = FALSE
        /\ select_remainder_q \in BOOLEAN
        /\ special_q \in BOOLEAN /\ special_result_q = Modulus - 1

Issue == /\ ex = NoInsn
         /\ ex' \in Insn
         /\ UNCHANGED <<control, work, setup>>

Start == /\ ex # NoInsn /\ state_q = "IDLE"
         /\ state_q' = "RUN"
         /\ iteration_q' = 0
         /\ dividend_q' = Corrected(ex.a, dividend_negative)
         /\ divisor_q' = Corrected(ex.b, divisor_negative)
         /\ quotient_q' = 0
         /\ remainder_q' = 0
         /\ quotient_negative_q' = (dividend_negative # divisor_negative)
         /\ remainder_negative_q' = dividend_negative
         /\ select_remainder_q' = selects_remainder
         /\ special_q' = (divide_by_zero \/ signed_overflow)
         /\ special_result_q' = IF divide_by_zero
                                THEN IF selects_remainder THEN ex.a ELSE Modulus - 1
                                ELSE IF selects_remainder THEN 0 ELSE ex.a
         /\ UNCHANGED ex

\* Fault: a special case does not count its iterations.
IterateSpecialStuck == /\ state_q = "RUN" /\ ~final_iteration
                       /\ IF special_q THEN UNCHANGED <<iteration_q, work>>
                          ELSE /\ iteration_q' = iteration_q + 1
                               /\ dividend_q' = dividend_next
                               /\ quotient_q' = quotient_next
                               /\ remainder_q' = remainder_next
                       /\ UNCHANGED <<ex, state_q, setup>>

\* A special case runs the same number of iterations without touching the work
\* registers.
Iterate == /\ state_q = "RUN" /\ ~final_iteration
           /\ iteration_q' = iteration_q + 1
           /\ IF special_q THEN UNCHANGED work
              ELSE /\ dividend_q' = dividend_next
                   /\ quotient_q' = quotient_next
                   /\ remainder_q' = remainder_next
           /\ UNCHANGED <<ex, state_q, setup>>

\* The last iteration, with the result consumed in it or kept for later.
Finish(consume) == /\ final_iteration
                   /\ IF special_q THEN UNCHANGED <<quotient_q, remainder_q>>
                      ELSE /\ quotient_q' = quotient_corrected
                           /\ remainder_q' = remainder_corrected
                   /\ state_q' = IF consume THEN "IDLE" ELSE "DONE"
                   /\ ex' = IF consume THEN NoInsn ELSE ex
                   /\ UNCHANGED <<iteration_q, dividend_q, setup>>

Consume == /\ state_q = "DONE"
           /\ state_q' = "IDLE"
           /\ ex' = NoInsn
           /\ UNCHANGED <<iteration_q, work, setup>>

FinishHeld     == Finish(FALSE)
FinishConsumed == Finish(TRUE)

Next == Issue \/ Start \/ Iterate \/ FinishHeld \/ FinishConsumed \/ Consume

-----------------------------------------------------------------------------
(* Properties.                                                             *)

\* Every variable stays within its type: the counter never passes N - 1.
TypeOK == /\ ex \in Insn \cup {NoInsn}
          /\ state_q \in {"IDLE", "RUN", "DONE"}
          /\ iteration_q \in 0 .. N - 1
          /\ {dividend_q, divisor_q, quotient_q, remainder_q, special_result_q} \subseteq Operand
          /\ {quotient_negative_q, remainder_negative_q, select_remainder_q, special_q}
               \subseteq BOOLEAN

\* Whenever the unit says done, in the final iteration or later, its result is
\* the one reference_model.py computes for the instruction still in EX.
ResultCorrect == o_done => ex # NoInsn /\ o_result = u32(MValue(ex.op, ex.a, ex.b))

\* The division identity holds after every iteration for the dividend bits
\* consumed so far, and the partial remainder stays below the divisor, so the
\* subtraction never borrows and N bits are enough for it.
PartialDivisionExact ==
  state_q = "RUN" /\ ~special_q =>
    LET consumed == Corrected(ex.a, dividend_negative) \div 2^(N - iteration_q)
    IN  /\ remainder_q < divisor_q
        /\ consumed = quotient_q * divisor_q + remainder_q
=============================================================================
