-------------------------------- MODULE Top ---------------------------------
(***************************************************************************)
(* tdrv32_top.sv: the pipeline behind two native-to-AHB-Lite bridges, one  *)
(* per port, each with a slave of its own, and the sleep gate.  The        *)
(* bridges are instances of AhbBridge whose master is the pipeline: their  *)
(* request is what it drives, and what they answer is its input.           *)
(*                                                                         *)
(* One step is one rising edge.  The answers of the ports are no longer    *)
(* chosen freely: HREADY and HRESP of the two slaves are.                  *)
(***************************************************************************)
EXTENDS Pipeline

CONSTANTS NoReq, NoXfer       \* "no request on the port", "the slave owes no data phase"

ASSUME SentinelAssumption ==
  /\ NoReq \notin [write: BOOLEAN, addr: Word, wdata: Word, size: {2}]
  /\ NoXfer \notin [write: BOOLEAN, addr: Word, size: {2}]

\* The bridges may answer in every way they can.
ASSUME AnswerAssumption ==
  /\ {"wait", "ok", "fault_nop"} \subseteq ImemAnswers
  /\ {"wait", "ok", "error"} \subseteq DmemAnswers

VARIABLES
  i_state, i_addr, i_xfer, i_announced,           \* u_instruction_ahb and its slave
  d_state, d_addr, d_wdata, d_xfer, d_announced,  \* u_data_ahb and its slave
  d_mem                                           \* the memory of the data slave

i_bus == <<i_state, i_addr, i_xfer, i_announced>>
d_bus == <<d_state, d_addr, d_wdata, d_xfer, d_announced, d_mem>>
topVars == <<vars, i_bus, d_bus>>

-----------------------------------------------------------------------------
(* What the pipeline drives into the bridges.                              *)

ImemRequest == IF imem_valid THEN [write |-> FALSE, addr |-> pc, wdata |-> 0, size |-> 2]
               ELSE NoReq

DmemRequest == IF dmem_valid
               THEN [write |-> MemWrite(exmem.insn), addr |-> dmem_addr,
                     wdata |-> IF MemWrite(exmem.insn) THEN store_data ELSE 0, size |-> 2]
               ELSE NoReq

\* The pipeline itself samples the answers.  An instruction word is known by
\* its address, so the instruction slave holds the identity.
PipelineSamples == [error |-> FALSE, rdata |-> 0]

Iahb == INSTANCE AhbBridge WITH
          Addr <- Word, Data <- Word, Size <- {2}, req <- ImemRequest, state_q <- i_state,
          request_addr_q <- i_addr, request_wdata_q <- 0, xfer <- i_xfer,
          announced <- i_announced, mem <- [a \in Word |-> a], answer <- PipelineSamples

Dahb == INSTANCE AhbBridge WITH
          Addr <- Word, Data <- Word, Size <- {2}, req <- DmemRequest, state_q <- d_state,
          request_addr_q <- d_addr, request_wdata_q <- d_wdata, xfer <- d_xfer,
          announced <- d_announced, mem <- d_mem, answer <- PipelineSamples

\* core_sleep_gate.sv
o_core_sleep == core_sleep /\ ~Iahb!o_busy /\ ~Dahb!o_busy

-----------------------------------------------------------------------------
\* Fault: the error of the data bridge is not connected.
DmemInputUnconnected(hready, hresp) == IF Dahb!o_native_ready(hready) THEN "ok" ELSE "wait"

ImemInput(hready, hresp) == IF ~Iahb!o_native_ready(hready) THEN "wait"
                            ELSE IF hresp THEN "fault_nop" ELSE "ok"
DmemInput(hready, hresp) == IF ~Dahb!o_native_ready(hready) THEN "wait"
                            ELSE IF hresp THEN "error" ELSE "ok"

\* The bridge takes its step and its slave drives hready and hresp.
IahbEdge(hready, hresp) ==
  /\ Iahb!SlaveDrives(hready, hresp)
  /\ IF Iahb!InAddr THEN Iahb!AddrStep(hready) ELSE Iahb!DataStep(hready)
  /\ Iahb!SlaveEdge(hready, hresp)

DahbEdge(hready, hresp) ==
  /\ Dahb!SlaveDrives(hready, hresp)
  /\ IF Dahb!InAddr THEN Dahb!AddrStep(hready) ELSE Dahb!DataStep(hready)
  /\ Dahb!SlaveEdge(hready, hresp)

TopEdge(i_hready, i_hresp, d_hready, d_hresp, mdu_final) ==
  /\ IahbEdge(i_hready, i_hresp)
  /\ DahbEdge(d_hready, d_hresp)
  /\ Edge([imem |-> ImemInput(i_hready, i_hresp), dmem |-> DmemInput(d_hready, d_hresp),
           mdu |-> mdu_final])

TopInit == /\ Init
           /\ i_state = "ADDR_PHASE" /\ i_addr = 0
           /\ i_xfer = NoXfer /\ i_announced = FALSE
           /\ d_state = "ADDR_PHASE" /\ d_addr = 0 /\ d_wdata = 0
           /\ d_xfer = NoXfer /\ d_announced = FALSE
           /\ d_mem = mem

TopNext == \E i_hready, i_hresp, d_hready, d_hresp, mdu_final \in BOOLEAN :
             TopEdge(i_hready, i_hresp, d_hready, d_hresp, mdu_final)

TopSpec == TopInit /\ [][TopNext]_topVars

-----------------------------------------------------------------------------
(* Properties.                                                             *)

\* Each side meets what the other assumes of it: the pipeline holds a request
\* of either port, address and forwarded store data included, until its bridge
\* answers it, so that a transfer always belongs to it and never overlaps
\* another one.
BridgesOwnRequests == /\ Iahb!BusyOwnsRequest /\ Iahb!NeverPipelined
                      /\ Dahb!BusyOwnsRequest /\ Dahb!NeverPipelined

\* The memory behind the bus is the one the program believes in: the data
\* latched in the address phase is still the store's when the transfer ends.
MemoriesAgree == d_mem = mem

\* The sleep output never cuts a transfer short (no slave owes anything and no
\* address phase is driven), and the gate never holds it back: the core only
\* sleeps when both bridges are idle.
SleepGateSafe ==
  /\ core_sleep => o_core_sleep
  /\ o_core_sleep => /\ i_xfer = NoXfer /\ d_xfer = NoXfer
                     /\ Iahb!o_htrans = "IDLE" /\ Dahb!o_htrans = "IDLE"
=============================================================================
