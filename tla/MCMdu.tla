-------------------------------- MODULE MCMdu --------------------------------
(* mdu_unit.sv for TLC.  Its two units share the instruction in EX and       *)
(* nothing else: the one the instruction does not select keeps every         *)
(* register, so each behaviour runs one of them and freezes the other.       *)
EXTENDS WordArithmetic

CONSTANT NoInsn

VARIABLES unit, ex, state_q, iteration_q,
          product_q, multiplicand_q, negate_result_q, select_high_q,
          dividend_q, divisor_q, quotient_q, remainder_q,
          quotient_negative_q, remainder_negative_q, select_remainder_q,
          special_q, special_result_q

Mul == INSTANCE Multiplier
Div == INSTANCE Divider

multiplier == <<product_q, multiplicand_q, negate_result_q, select_high_q>>
divider == <<dividend_q, divisor_q, quotient_q, remainder_q, quotient_negative_q,
             remainder_negative_q, select_remainder_q, special_q, special_result_q>>
vars == <<unit, ex, state_q, iteration_q, multiplier, divider>>

MulInit == /\ unit = "multiplier"
           /\ Mul!Init
           /\ dividend_q = 0 /\ divisor_q = 0 /\ quotient_q = 0 /\ remainder_q = 0
           /\ quotient_negative_q = FALSE /\ remainder_negative_q = FALSE
           /\ select_remainder_q = FALSE /\ special_q = FALSE /\ special_result_q = 0

DivInit == /\ unit = "divider"
           /\ Div!Init
           /\ product_q = 0 /\ multiplicand_q = 0
           /\ negate_result_q = FALSE /\ select_high_q = FALSE

MulNext == unit = "multiplier" /\ Mul!Next /\ UNCHANGED <<unit, divider>>
DivNext == unit = "divider" /\ Div!Next /\ UNCHANGED <<unit, multiplier>>

\* Every edge moves the instruction in EX on; only its arrival is not owed.
Next == MulNext \/ DivNext
Working == ex # NoInsn /\ Next

Spec == (MulInit \/ DivInit) /\ [][Next]_vars /\ WF_vars(Working)

\* The registers of both units stay within their types: the counters never
\* pass N - 1 and the product register never overflows 2N bits.
TypeOK == IF unit = "multiplier" THEN Mul!TypeOK ELSE Div!TypeOK

\* Whenever a unit says done, in its final iteration or later, its result is
\* the one reference_model.py computes for the instruction still in EX.
ResultCorrect == IF unit = "multiplier" THEN Mul!ResultCorrect ELSE Div!ResultCorrect

\* The identity between what is consumed of the operands and what is
\* accumulated holds after every iteration, in both units.
PartialResultExact == IF unit = "multiplier" THEN Mul!PartialProductExact
                      ELSE Div!PartialDivisionExact

\* Every multiply and divide that reaches EX is answered and leaves.
EveryOperationLeaves == ex # NoInsn ~> ex = NoInsn
=============================================================================
