----------------------------- MODULE NativePort -----------------------------
(***************************************************************************)
(* What a native valid/ready port of the core promises to the pipeline:    *)
(* a request is held until it is answered, every request is carried out    *)
(* exactly once and in order, a failed one leaves the memory alone, and    *)
(* the answer the master sees is the answer to the request it holds.       *)
(*                                                                         *)
(* The memory does the whole access in one step, so nothing here depends   *)
(* on how a bus splits an access into phases (AhbBridge does).             *)
(***************************************************************************)
CONSTANTS Addr,     \* the addresses of the port
          Data,     \* the words a location holds
          Size,     \* the transfer sizes (byte, halfword, word)
          NoReq     \* "no request on the port": i_native_valid = 0

Request == [write: BOOLEAN, addr: Addr, wdata: Data, size: Size]

Answer == [error: BOOLEAN, rdata: Data]

VARIABLES req,      \* the request the master drives, or NoReq
          mem,      \* the memory behind the port
          answer    \* the last answer the master sampled

vars == <<req, mem, answer>>

Init == /\ req = NoReq
        /\ mem \in [Addr -> Data]
        /\ answer \in Answer

\* An idle master drives a request.
Issue == /\ req = NoReq
         /\ req' \in Request
         /\ UNCHANGED <<mem, answer>>

\* The memory carries the request out; a master may drive the next request
\* in the cycle that follows.
Serve == /\ req # NoReq
         /\ req' \in Request \cup {NoReq}
         /\ mem' = IF req.write THEN [mem EXCEPT ![req.addr] = req.wdata] ELSE mem
         /\ answer' = [error |-> FALSE, rdata |-> mem[req.addr]]

\* The memory refuses the request: nothing is written, the data is arbitrary.
Refuse == /\ req # NoReq
          /\ req' \in Request \cup {NoReq}
          /\ \E d \in Data : answer' = [error |-> TRUE, rdata |-> d]
          /\ UNCHANGED mem

Next == Issue \/ Serve \/ Refuse

Spec == Init /\ [][Next]_vars
=============================================================================
