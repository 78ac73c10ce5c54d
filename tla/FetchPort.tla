------------------------------ MODULE FetchPort -----------------------------
(***************************************************************************)
(* What the fetch stage promises to IF/ID: it delivers the program in      *)
(* order from the program counter, each instruction once and whole         *)
(* (one parcel when it is compressed, two when it is wide), marks it       *)
(* when the instruction bus failed, and moves the program counter by the   *)
(* length of what it delivered or to the target of a redirect.             *)
(***************************************************************************)
EXTENDS Naturals

CONSTANT Halfwords        \* the address space holds Halfwords parcels, an even number

Pc == 0 .. Halfwords - 1  \* halfword-aligned addresses, wrapping like the N-bit PC

VARIABLES wide,  \* wide[a]: the parcel at a has bits [1:0] = 2'b11
          pc,    \* the address of the next instruction to deliver
          out    \* the last instruction delivered

vars == <<wide, pc, out>>

Parcel(a)     == <<a, wide[a]>>
InstructionAt(a) == IF wide[a] THEN <<Parcel(a), Parcel((a + 1) % Halfwords)>>
                    ELSE <<Parcel(a)>>

Init == /\ wide \in [Pc -> BOOLEAN]
        /\ pc = 0
        /\ out = [pc |-> 0, fault |-> FALSE, instruction |-> <<>>]

Deliver == /\ out' = [pc |-> pc, fault |-> FALSE, instruction |-> InstructionAt(pc)]
           /\ pc' = (pc + IF wide[pc] THEN 2 ELSE 1) % Halfwords
           /\ UNCHANGED wide

\* A failed fetch carries no instruction and counts as a wide one.
DeliverFault == /\ out' = [pc |-> pc, fault |-> TRUE, instruction |-> <<>>]
                /\ pc' = (pc + 2) % Halfwords
                /\ UNCHANGED wide

Redirect == /\ pc' \in Pc
            /\ UNCHANGED <<wide, out>>

Next == Deliver \/ DeliverFault \/ Redirect

Spec == Init /\ [][Next]_vars
=============================================================================
