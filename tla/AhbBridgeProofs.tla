--------------------------- MODULE AhbBridgeProofs --------------------------
(***************************************************************************)
(* Proofs about AhbBridge, for every set of addresses, data and sizes:     *)
(* type correctness, the two invariants that tie the slave's data phase to *)
(* the request the master holds, and the refinement of NativePort.         *)
(*                                                                         *)
(* IInv is inductive.  BusyOwnsRequest is not inductive alone: entering    *)
(* DATA_PHASE needs nothing, but staying in it needs the slave to keep the *)
(* transfer, and NeverPipelined needs that leaving it clears the transfer. *)
(***************************************************************************)
EXTENDS AhbBridge, TLAPS

IInv == TypeOK /\ BusyOwnsRequest /\ NeverPipelined

\* The address phase the slave samples is a transfer, and never the sentinel.
LEMMA AddressPhaseIsTransfer ==
  ASSUME TypeOK, InAddr, req # NoReq
  PROVE  /\ o_htrans = "NONSEQ"
         /\ AddressPhase = [write |-> req.write, addr |-> req.addr, size |-> req.size]
         /\ AddressPhase \in Transfer
         /\ AddressPhase # NoXfer
<1>1. req \in Request
  BY DEF TypeOK
<1>2. o_htrans = "NONSEQ" /\ o_haddr = req.addr
  BY DEF o_htrans, o_haddr
<1>3. AddressPhase = [write |-> req.write, addr |-> req.addr, size |-> req.size]
  BY <1>2 DEF AddressPhase
<1>4. AddressPhase \in Transfer
  BY <1>1, <1>3 DEF Request, Transfer
<1> QED
  BY <1>2, <1>3, <1>4, SentinelAssumption

\* With no request, or in a data phase, the bridge drives IDLE.
LEMMA IdleWithoutAddressPhase ==
  ASSUME ~InAddr \/ req = NoReq
  PROVE  o_htrans # "NONSEQ"
BY DEF o_htrans

\* The reset state satisfies the inductive invariant.
LEMMA InitEstablishes == Init => IInv
BY ZeroAssumption DEF Init, IInv, TypeOK, BusyOwnsRequest, NeverPipelined, InAddr, o_busy

\* The two clock actions are Clock steps.
LEMMA NextIsClock ==
  ASSUME Next
  PROVE  \E hready, hresp \in BOOLEAN : Clock(hready, hresp)
BY DEF Next, WaitEdge, ReadyEdge

\* One edge preserves the types.
LEMMA TypeStep ==
  ASSUME TypeOK, NEW hready \in BOOLEAN, NEW hresp \in BOOLEAN, Clock(hready, hresp)
  PROVE  TypeOK'
<1>1. req' \in Request \cup {NoReq}
  BY DEF TypeOK, Clock, MasterEdge
<1>2. /\ state_q' \in {"ADDR_PHASE", "DATA_PHASE"}
      /\ request_addr_q' \in Addr
      /\ request_wdata_q' \in Data
  <2>1. CASE InAddr /\ req # NoReq /\ hready
    <3>1. req \in Request
      BY <2>1 DEF TypeOK
    <3>2. req.addr \in Addr /\ req.wdata \in Data
      BY <3>1 DEF Request
    <3> QED
      BY <2>1, <3>2 DEF Clock, AddrStep
  <2>2. CASE InAddr /\ ~(req # NoReq /\ hready)
    BY <2>2 DEF TypeOK, Clock, AddrStep, bridge
  <2>3. CASE ~InAddr
    BY <2>3 DEF TypeOK, Clock, DataStep
  <2> QED
    BY <2>1, <2>2, <2>3
<1>3. xfer' \in Transfer \cup {NoXfer}
  <2>1. CASE o_htrans = "NONSEQ"
    <3>1. InAddr /\ req # NoReq
      BY <2>1, IdleWithoutAddressPhase
    <3> QED
      BY <3>1, AddressPhaseIsTransfer DEF TypeOK, Clock, SlaveEdge
  <2>2. CASE o_htrans # "NONSEQ"
    BY <2>2 DEF TypeOK, Clock, SlaveEdge
  <2> QED
    BY <2>1, <2>2
<1>4. announced' \in BOOLEAN
  BY DEF Clock, SlaveEdge
<1>5. mem' \in [Addr -> Data]
  BY DEF TypeOK, Clock, SlaveEdge, o_hwdata
<1>6. answer' \in Answer
  <2>1. CASE ~o_native_ready(hready)
    BY <2>1 DEF TypeOK, Clock, AnswerEdge
  <2>2. CASE o_native_ready(hready) /\ (xfer = NoXfer \/ hresp)
    BY <2>2 DEF Clock, AnswerEdge, Answer
  <2>3. CASE o_native_ready(hready) /\ ~(xfer = NoXfer \/ hresp)
    <3>1. xfer.addr \in Addr
      BY <2>3 DEF TypeOK, Transfer
    <3>2. mem[xfer.addr] \in Data
      BY <3>1 DEF TypeOK
    <3>3. answer' = [error |-> FALSE, rdata |-> mem[xfer.addr]]
      BY <2>3 DEF Clock, AnswerEdge
    <3> QED
      BY <3>2, <3>3 DEF Answer
  <2> QED
    BY <2>1, <2>2, <2>3
<1> QED
  BY <1>1, <1>2, <1>3, <1>4, <1>5, <1>6 DEF TypeOK

\* One edge keeps the slave's data phase tied to the held request.
LEMMA PhaseStep ==
  ASSUME IInv, NEW hready \in BOOLEAN, NEW hresp \in BOOLEAN, Clock(hready, hresp)
  PROVE  BusyOwnsRequest' /\ NeverPipelined'
<1> USE DEF IInv
\* The request is taken: the data phase starts with it.
<1>1. CASE InAddr /\ req # NoReq /\ hready
  <2>1. /\ state_q' = "DATA_PHASE"
        /\ request_wdata_q' = req.wdata
    BY <1>1 DEF Clock, AddrStep
  <2>2. req' = req
    BY <1>1 DEF Clock, MasterEdge, o_native_ready, o_busy, InAddr
  <2>3. xfer' = [write |-> req.write, addr |-> req.addr, size |-> req.size]
    BY <1>1, AddressPhaseIsTransfer DEF Clock, SlaveEdge
  <2> QED
    BY <1>1, <2>1, <2>2, <2>3 DEF BusyOwnsRequest, NeverPipelined, InAddr, o_busy, o_hwdata
\* No request, or a slave that is not ready: nothing is owed, before or after.
<1>2. CASE InAddr /\ ~(req # NoReq /\ hready)
  <2>1. state_q' = "ADDR_PHASE"
    BY <1>2 DEF Clock, AddrStep, bridge, InAddr
  <2>2. xfer = NoXfer
    BY <1>2 DEF NeverPipelined
  <2>3. xfer' = NoXfer /\ announced' = FALSE
    BY <1>2, <2>2, IdleWithoutAddressPhase DEF Clock, SlaveEdge
  <2> QED
    BY <2>1, <2>3 DEF BusyOwnsRequest, NeverPipelined, InAddr, o_busy
\* The slave ends the transfer.
<1>3. CASE ~InAddr /\ hready
  <2>1. state_q' = "ADDR_PHASE"
    BY <1>3 DEF Clock, DataStep
  <2>2. xfer' = NoXfer /\ announced' = FALSE
    BY <1>3, IdleWithoutAddressPhase DEF Clock, SlaveEdge
  <2> QED
    BY <2>1, <2>2 DEF BusyOwnsRequest, NeverPipelined, InAddr, o_busy
\* The slave extends it.
<1>4. CASE ~InAddr /\ ~hready
  <2>1. UNCHANGED <<state_q, request_addr_q, request_wdata_q>>
    BY <1>4 DEF Clock, DataStep
  <2>2. o_busy
    BY <1>4 DEF TypeOK, InAddr, o_busy
  <2>3. req' = req
    BY <1>4, <2>2 DEF Clock, MasterEdge, o_native_ready, BusyOwnsRequest
  <2>4. xfer' = xfer
    BY <1>4 DEF Clock, SlaveEdge
  <2> QED
    BY <1>4, <2>1, <2>2, <2>3, <2>4 DEF BusyOwnsRequest, NeverPipelined, InAddr, o_busy, o_hwdata
<1> QED
  BY <1>1, <1>2, <1>3, <1>4

\* Every step of the bridge, its master and its slave preserves IInv.
LEMMA StepPreserves == IInv /\ [Next]_vars => IInv'
<1> SUFFICES ASSUME IInv, [Next]_vars PROVE IInv'
  OBVIOUS
<1>1. CASE Next
  <2>1. PICK hready \in BOOLEAN, hresp \in BOOLEAN : Clock(hready, hresp)
    BY <1>1, NextIsClock
  <2> QED
    BY <2>1, TypeStep, PhaseStep DEF IInv
<1>2. CASE UNCHANGED vars
  BY <1>2 DEF IInv, vars, bridge, TypeOK, BusyOwnsRequest, NeverPipelined, InAddr, o_busy, o_hwdata
<1> QED
  BY <1>1, <1>2

\* The inductive invariant holds in every reachable state.
LEMMA Inductive == Spec => []IInv
BY InitEstablishes, StepPreserves, PTL DEF Spec

\* Every variable of the bridge, its master and its slave keeps its type.
THEOREM TypeCorrect == Spec => []TypeOK
BY Inductive, PTL DEF IInv

\* In DATA_PHASE the slave's outstanding transfer is the request the master
\* still holds, with its write data: o_native_ready answers that request.
THEOREM BusyOwnsRequestHolds == Spec => []BusyOwnsRequest
BY Inductive, PTL DEF IInv

\* In ADDR_PHASE the slave owes nothing: transfers never overlap.
THEOREM NeverPipelinedHolds == Spec => []NeverPipelined
BY Inductive, PTL DEF IInv

-----------------------------------------------------------------------------
(* The refinement.                                                         *)

\* An edge in an address phase, or at which the transfer is extended, is at
\* most a new request on the native port.
LEMMA QuietEdge ==
  ASSUME IInv, NEW hready \in BOOLEAN, NEW hresp \in BOOLEAN, Clock(hready, hresp),
         InAddr \/ ~hready
  PROVE  [Native!Next]_<<req, mem, answer>>
<1>1. ~o_native_ready(hready)
  BY DEF o_native_ready, o_busy, InAddr
<1>2. mem' = mem
  BY DEF IInv, NeverPipelined, Clock, SlaveEdge
<1>3. answer' = answer
  BY <1>1 DEF Clock, AnswerEdge
<1>4. CASE req = NoReq
  <2>1. req' \in Request \cup {NoReq}
    BY <1>4 DEF Clock, MasterEdge
  <2>2. CASE req' = NoReq
    BY <1>2, <1>3, <1>4, <2>2
  <2>3. CASE req' \in Request
    BY <1>2, <1>3, <1>4, <2>3 DEF Native!Next, Native!Issue, Native!Request, Request
  <2> QED
    BY <2>1, <2>2, <2>3
<1>5. CASE req # NoReq
  BY <1>1, <1>2, <1>3, <1>5 DEF Clock, MasterEdge
<1> QED
  BY <1>4, <1>5

\* The edge that ends a transfer serves or refuses the held request.
LEMMA AnsweringEdge ==
  ASSUME IInv, NEW hresp \in BOOLEAN, Clock(TRUE, hresp), ~InAddr
  PROVE  Native!Next
<1>1. o_busy /\ o_native_ready(TRUE)
  BY DEF IInv, TypeOK, InAddr, o_busy, o_native_ready
<1>2. /\ req # NoReq
      /\ req \in Request
      /\ xfer = [write |-> req.write, addr |-> req.addr, size |-> req.size]
      /\ request_wdata_q = req.wdata
  BY <1>1 DEF IInv, TypeOK, BusyOwnsRequest, o_hwdata
<1>3. xfer # NoXfer /\ xfer.write = req.write /\ xfer.addr = req.addr
  <2>1. xfer \in Transfer
    BY <1>2 DEF Request, Transfer
  <2> QED
    BY <1>2, <2>1, SentinelAssumption
<1>4. req' \in Native!Request \cup {NoReq}
  BY <1>1 DEF Clock, MasterEdge, Native!Request, Request
<1>5. CASE hresp
  <2>1. mem' = mem
    BY <1>5 DEF Clock, SlaveEdge
  <2>2. \E d \in Data : answer' = [error |-> TRUE, rdata |-> d]
    BY <1>1, <1>5 DEF Clock, AnswerEdge
  <2>3. Native!Refuse
    BY <1>2, <1>4, <2>1, <2>2 DEF Native!Refuse
  <2> QED
    BY <2>3 DEF Native!Next
<1>6. CASE ~hresp
  <2>1. mem' = IF req.write THEN [mem EXCEPT ![req.addr] = req.wdata] ELSE mem
    BY <1>2, <1>3, <1>6 DEF Clock, SlaveEdge, o_hwdata
  <2>2. answer' = [error |-> FALSE, rdata |-> mem[req.addr]]
    BY <1>1, <1>3, <1>6 DEF Clock, AnswerEdge
  <2>3. Native!Serve
    BY <1>2, <1>4, <2>1, <2>2 DEF Native!Serve
  <2> QED
    BY <2>3 DEF Native!Next
<1> QED
  BY <1>5, <1>6

\* The bridge with an AHB-Lite slave is a native port: every request is
\* carried out exactly once, in order, and answered with its own result.
THEOREM Refinement == Spec => ImplementsNativePort
<1>1. Init => Native!Init
  BY DEF Init, Native!Init, Answer, Native!Answer
<1>2. IInv /\ [Next]_vars => [Native!Next]_Native!vars
  <2> SUFFICES ASSUME IInv, [Next]_vars PROVE [Native!Next]_<<req, mem, answer>>
    BY DEF Native!vars
  <2>1. CASE Next
    <3>1. PICK hready \in BOOLEAN, hresp \in BOOLEAN : Clock(hready, hresp)
      BY <2>1, NextIsClock
    <3>2. CASE InAddr \/ ~hready
      BY <3>1, <3>2, QuietEdge
    <3>3. CASE ~InAddr /\ hready
      <4>1. Clock(TRUE, hresp)
        BY <3>1, <3>3
      <4> QED
        BY <3>3, <4>1, AnsweringEdge
    <3> QED
      BY <3>2, <3>3
  <2>2. CASE UNCHANGED vars
    BY <2>2 DEF vars
  <2> QED
    BY <2>1, <2>2
<1> QED
  BY <1>1, <1>2, Inductive, PTL DEF Spec, ImplementsNativePort, Native!Spec
=============================================================================
