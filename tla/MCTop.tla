------------------------------- MODULE MCTop --------------------------------
(* Programs of everything that waits, sleeps, redirects or forwards into a   *)
(* store, over the two buses.                                                *)
EXTENDS Top

R(op, rd, rs1, rs2, imm) ==
  [op |-> op, rd |-> rd, rs1 |-> rs1, rs2 |-> rs2, imm |-> imm, csr |-> "mstatus"]

\* An access or a multiply in front of a store it is forwarded to, of WFI or of
\* FENCE.I.  The code ends, and an exception stops, at 2; the handler of the
\* interrupt at 3 returns.
Program(first, second) ==
  [n \in Word |-> CASE n = 0 -> first [] n = 1 -> second
                    [] n = 2 -> R("jal", 0, 0, 0, 0) [] n = 3 -> R("mret", 0, 0, 0, 0)]

TopPrograms ==
  {Program(first, second) :
     first \in {R("lw", 1, 0, 0, 2), R("mul", 1, 1, 1, 0), R("sw", 0, 0, 1, 2)},
     second \in {R("sw", 0, 0, 1, 2), R("wfi", 0, 0, 0, 0), R("fence_i", 0, 0, 0, 0)}}

TopBoot ==
 {[pc |-> 0, regs |-> [r \in Reg |-> r], mem |-> [a \in Word |-> 0],
   csr |-> [mstatus_mie |-> TRUE, mstatus_mpie |-> FALSE, mie |-> TRUE,
            mepc |-> 0, mcause |-> "reset", minstret |-> 0],
   accesses |-> 0, sleeping |-> FALSE]}
=============================================================================
