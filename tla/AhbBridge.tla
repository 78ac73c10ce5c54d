----------------------------- MODULE AhbBridge ------------------------------
(***************************************************************************)
(* native_to_ahb_lite.sv between a native master (the pipeline's imem or   *)
(* dmem port) and an AHB-Lite slave.  One step of Next is one rising edge  *)
(* of i_clk; the inputs the bridge samples at that edge (hready, hresp)    *)
(* and the request the master drives in the next cycle are chosen in it.   *)
(*                                                                         *)
(* The slave is the memory the cocotb tests attach                         *)
(* (verification/cocotb/ahb_memory.py): it takes an address phase at an    *)
(* edge with HREADY and HTRANS = NONSEQ, adds any number of wait states,   *)
(* and fails a transfer with the two-cycle ERROR response.                 *)
(***************************************************************************)
CONSTANTS Addr, Data, Size, NoReq,
          NoXfer    \* "the slave owes no data phase"

Request  == [write: BOOLEAN, addr: Addr, wdata: Data, size: Size]
Transfer == [write: BOOLEAN, addr: Addr, size: Size]
Answer   == [error: BOOLEAN, rdata: Data]

ASSUME SentinelAssumption == NoReq \notin Request /\ NoXfer \notin Transfer
ASSUME ZeroAssumption     == 0 \in Addr /\ 0 \in Data

VARIABLES
  req,              \* i_native_*: the request the master drives, or NoReq
  state_q,          \* the bridge's phase
  request_addr_q,   \* address latched at the end of the address phase
  request_wdata_q,  \* write data latched at the end of the address phase
  xfer,             \* the slave's accepted transfer, or NoXfer
  announced,        \* the slave has driven the first ERROR cycle
  mem,              \* the slave's memory
  answer            \* the last {o_native_error, o_native_rdata} at ready

bridge == <<state_q, request_addr_q, request_wdata_q>>
vars == <<req, bridge, xfer, announced, mem, answer>>

-----------------------------------------------------------------------------
(* The bridge's outputs, as functions of its state and of the request.     *)

InAddr == state_q = "ADDR_PHASE"
o_busy == state_q = "DATA_PHASE"

\* Fault: a transfer is announced during the data phase as well.
HtransWheneverValid == IF req # NoReq THEN "NONSEQ" ELSE "IDLE"

o_htrans == IF InAddr /\ req # NoReq THEN "NONSEQ" ELSE "IDLE"
\* Only an address phase is ever sampled: without a request it is left at the
\* latch, where the source lets i_native_addr through.
o_haddr  == IF InAddr /\ req # NoReq THEN req.addr ELSE request_addr_q
o_hwdata == request_wdata_q

\* Fault: HSIZE is not driven.
AddressPhaseWithoutSize == [write |-> req.write, addr |-> o_haddr]

\* The address phase as the slave samples it when HTRANS is NONSEQ.
AddressPhase == [write |-> req.write, addr |-> o_haddr, size |-> req.size]

\* Fault: HREADY is passed on outside the data phase.
ReadyUngated(hready) == hready

o_native_ready(hready) == o_busy /\ hready

-----------------------------------------------------------------------------
(* The slave.                                                              *)

\* The response inputs the slave may drive now.  An owed transfer ends only
\* with a plain OKAY, or with an ERROR announced in the previous cycle; with
\* nothing owed HREADY may still be low (another transfer on a shared bus).
SlaveDrives(hready, hresp) ==
  IF xfer = NoXfer THEN ~hresp
  ELSE IF announced THEN hready /\ hresp
  ELSE ~(hready /\ hresp)

SlaveEdge(hready, hresp) ==
  /\ announced' = (xfer # NoXfer /\ ~hready /\ hresp)
  /\ xfer' = IF ~hready THEN xfer
             ELSE IF o_htrans = "NONSEQ" THEN AddressPhase ELSE NoXfer
  /\ mem' = IF xfer # NoXfer /\ hready /\ ~hresp /\ xfer.write
            THEN [mem EXCEPT ![xfer.addr] = o_hwdata] ELSE mem

-----------------------------------------------------------------------------
(* The master holds its request until it is answered.                      *)
MasterEdge(hready) ==
  req' \in IF req = NoReq \/ o_native_ready(hready)
           THEN Request \cup {NoReq} ELSE {req}

\* What the master samples at the edge that ends the request.
AnswerEdge(hready, hresp) ==
  answer' \in IF ~o_native_ready(hready) THEN {answer}
              ELSE IF xfer = NoXfer \/ hresp
                   THEN {[error |-> hresp, rdata |-> d] : d \in Data}
              ELSE {[error |-> FALSE, rdata |-> mem[xfer.addr]]}

-----------------------------------------------------------------------------
Init == /\ req = NoReq
        /\ state_q = "ADDR_PHASE"
        /\ request_addr_q = 0
        /\ request_wdata_q = 0
        /\ xfer = NoXfer
        /\ announced = FALSE
        /\ mem \in [Addr -> Data]
        /\ answer \in Answer

\* Fault: the address phase does not wait for HREADY.
AddrStepWithoutReady(hready) ==
  IF req # NoReq
  THEN /\ request_addr_q' = req.addr
       /\ request_wdata_q' = req.wdata
       /\ state_q' = "DATA_PHASE"
  ELSE UNCHANGED bridge

\* ADDR_PHASE: a request is taken at an edge with HREADY.
AddrStep(hready) ==
  IF req # NoReq /\ hready
  THEN /\ request_addr_q' = req.addr
       /\ request_wdata_q' = req.wdata
       /\ state_q' = "DATA_PHASE"
  ELSE UNCHANGED bridge

\* Fault: the test of HREADY in the data phase is inverted.
DataStepInverted(hready) ==
  /\ state_q' = IF hready THEN state_q ELSE "ADDR_PHASE"
  /\ UNCHANGED <<request_addr_q, request_wdata_q>>

\* DATA_PHASE: wait states until HREADY.
DataStep(hready) ==
  /\ state_q' = IF hready THEN "ADDR_PHASE" ELSE state_q
  /\ UNCHANGED <<request_addr_q, request_wdata_q>>

Clock(hready, hresp) ==
  /\ SlaveDrives(hready, hresp)
  /\ IF InAddr THEN AddrStep(hready) ELSE DataStep(hready)
  /\ SlaveEdge(hready, hresp)
  /\ MasterEdge(hready)
  /\ AnswerEdge(hready, hresp)

\* An edge at which the slave extends the phase, and one at which it ends it.
WaitEdge  == \E hresp \in BOOLEAN : Clock(FALSE, hresp)
ReadyEdge == \E hresp \in BOOLEAN : Clock(TRUE, hresp)

Next == WaitEdge \/ ReadyEdge

\* A slave may not extend a transfer for ever: HREADY comes back.
Fairness == WF_vars(ReadyEdge)

Spec == Init /\ [][Next]_vars
FairSpec == Spec /\ Fairness

-----------------------------------------------------------------------------
(* Properties.                                                             *)

\* Every variable stays within its type.
TypeOK == /\ req \in Request \cup {NoReq}
          /\ state_q \in {"ADDR_PHASE", "DATA_PHASE"}
          /\ request_addr_q \in Addr
          /\ request_wdata_q \in Data
          /\ xfer \in Transfer \cup {NoXfer}
          /\ announced \in BOOLEAN
          /\ mem \in [Addr -> Data]
          /\ answer \in Answer

\* While the bridge is busy the slave owes exactly the transfer the master is
\* still holding, with its write data: the data phase belongs to the request
\* that will be answered (the address and data latches of the bridge).
BusyOwnsRequest ==
  o_busy => /\ req # NoReq
            /\ xfer = [write |-> req.write, addr |-> req.addr, size |-> req.size]
            /\ o_hwdata = req.wdata

\* Transfers are never pipelined: in an address phase the slave owes nothing,
\* so no response can be taken for the wrong request and no transfer is left
\* without a master to sample it (o_busy gates o_native_ready).
NeverPipelined == InAddr => xfer = NoXfer /\ ~announced

\* The bridge and the slave together implement the native port: every request
\* is carried out exactly once, in order, and answered with its own result.
Native == INSTANCE NativePort
ImplementsNativePort == Native!Spec

\* Every request reaches the bus and every transfer it starts is answered,
\* whatever wait states and errors the slave inserts.
EveryRequestAnswered == (req # NoReq ~> o_busy) /\ (o_busy ~> InAddr)
=============================================================================
