---------------------------- MODULE SystemProofs ----------------------------
(***************************************************************************)
(* The pipeline in its two surroundings.  Between its bus bridges it runs  *)
(* only behaviours of the pipeline, so all that is proved of it carries    *)
(* over, and the two sides meet what each assumes of the other.  On the    *)
(* test bench, with the RVFI shadow beside it: for every program, word     *)
(* size, wait states and error addresses, and what the bench's monitor     *)
(* measures of it.                                                         *)
(***************************************************************************)
EXTENDS MCHarness, Top, PipelineProofs

-----------------------------------------------------------------------------
(* The pipeline between its two bridges.                                   *)

Phases == {"ADDR_PHASE", "DATA_PHASE"}

\* The inductive invariant: the pipeline's, the phases, and what the bridges
\* owe.
TopInv == /\ IInv
          /\ i_state \in Phases /\ d_state \in Phases
          /\ BridgesOwnRequests
          /\ MemoriesAgree

\* What the ports answer is an input of the pipeline.
LEMMA InputsType ==
  \A i_hready, i_hresp, d_hready, d_hresp, mdu_final \in BOOLEAN :
    [imem |-> ImemInput(i_hready, i_hresp), dmem |-> DmemInput(d_hready, d_hresp),
     mdu |-> mdu_final] \in Inputs
BY AnswerAssumption DEF Inputs, ImemInput, DmemInput

\* Every step of the whole is a step of the pipeline.
LEMMA TopStepIsPipelineStep == [TopNext]_topVars => [Next]_vars
<1> SUFFICES ASSUME [TopNext]_topVars PROVE [Next]_vars
  OBVIOUS
<1>1. CASE TopNext
  BY <1>1, InputsType, EdgeIsNext DEF TopNext, TopEdge
<1> QED
  BY <1>1 DEF topVars

\* Behind the bridges the pipeline does nothing it does not do behind
\* arbitrary ports, so every property of its specification holds there too.
THEOREM TopIsPipeline == TopSpec => Spec
<1>1. TopInit => Init
  BY DEF TopInit
<1> QED
  BY <1>1, TopStepIsPipelineStep, PTL DEF TopSpec, Spec

-----------------------------------------------------------------------------
(* The requests.                                                           *)

\* What the pipeline drives is a request.
LEMMA RequestTypes ==
  ASSUME TypeOK
  PROVE  /\ imem_valid => ImemRequest = [write |-> FALSE, addr |-> pc, wdata |-> 0, size |-> 2]
                          /\ ImemRequest # NoReq
         /\ dmem_valid => DmemRequest # NoReq
         /\ (ImemRequest # NoReq) = imem_valid /\ (DmemRequest # NoReq) = dmem_valid
<1>1. imem_valid \in BOOLEAN /\ dmem_valid \in BOOLEAN
  BY DEF imem_valid, dmem_valid, dmem_request, MemAccess, MemRead, MemWrite
<1>2. imem_valid => ImemRequest # NoReq
  <2>1. pc \in Word
    BY DEF TypeOK
  <2>2. [write |-> FALSE, addr |-> pc, wdata |-> 0, size |-> 2]
          \in [write: BOOLEAN, addr: Word, wdata: Word, size: {2}]
    BY <2>1, SmallWords
  <2> QED
    BY <2>2, SentinelAssumption DEF ImemRequest
<1>3. dmem_valid => DmemRequest # NoReq
  <2>1. MemWrite(exmem.insn) \in BOOLEAN /\ dmem_addr \in Word
    BY DEF MemWrite, dmem_addr, TypeOK
  <2>2. (IF MemWrite(exmem.insn) THEN store_data ELSE 0) \in Word
    BY ForwardedInWord, SmallWords
  <2> QED
    BY <2>1, <2>2, SentinelAssumption DEF DmemRequest
<1> QED
  BY <1>1, <1>2, <1>3 DEF ImemRequest, DmemRequest

\* The pipeline holds an instruction request that is not answered.
LEMMA ImemRequestHeld ==
  ASSUME NEW in \in Inputs, Edge(in), imem_valid, in.imem = "wait"
  PROVE  ImemRequest' = ImemRequest
<1>1. pipeline_stall(in) /\ ~if_complete(in) /\ held = Nothing /\ ~core_sleep
  BY DEF imem_valid, if_complete, imem_wait, bus_stall, pipeline_stall
<1>2. pc' = pc
  BY <1>1 DEF Edge, PcEdge, pc_hold
<1>3. held' = Nothing
  BY <1>1 DEF Edge, FetchEdge, pipeline_advance
<1>4. ~core_sleep'
  BY <1>1 DEF Edge, SleepEdge, wfi_sleep, Unhindered, pipeline_advance
<1> QED
  BY <1>1, <1>2, <1>3, <1>4 DEF ImemRequest, imem_valid, Nothing, Bubble, Nop

\* The pipeline holds a data request that is not answered, store data included.
LEMMA DmemRequestHeld ==
  ASSUME NEW in \in Inputs, Edge(in), dmem_valid, in.dmem = "wait"
  PROVE  DmemRequest' = DmemRequest
<1>1. pipeline_stall(in)
  BY DEF dmem_wait, bus_stall, pipeline_stall
<1>2. exmem' = exmem /\ memwb' = memwb
  BY <1>1, StallFreezes
<1>3. ~dmem_complete'
  BY DEF Edge, LatchEdge, dmem_valid, dmem_answered
<1>4. dmem_valid'
  BY <1>2, <1>3 DEF dmem_valid, dmem_request
<1>5. store_data' = store_data /\ dmem_addr' = dmem_addr
  BY <1>2 DEF store_data, wb_match, dmem_addr
<1> QED
  BY <1>2, <1>4, <1>5 DEF DmemRequest

-----------------------------------------------------------------------------
(* One edge of each bridge.                                                *)

\* The instruction bridge keeps to the request the pipeline holds.
LEMMA IahbStep ==
  ASSUME TopInv, NEW in \in Inputs, Edge(in),
         NEW hready \in BOOLEAN, NEW hresp \in BOOLEAN, IahbEdge(hready, hresp),
         in.imem = ImemInput(hready, hresp)
  PROVE  i_state' \in Phases /\ Iahb!BusyOwnsRequest' /\ Iahb!NeverPipelined'
<1> USE DEF Iahb!InAddr, Iahb!o_busy, Iahb!o_htrans, Phases
<1>1. /\ Iahb!BusyOwnsRequest /\ Iahb!NeverPipelined
      /\ (ImemRequest # NoReq) = imem_valid
  BY RequestTypes DEF TopInv, IInv, BridgesOwnRequests
<1>2. ~Iahb!o_native_ready(hready) /\ ImemRequest # NoReq => ImemRequest' = ImemRequest
  BY <1>1, ImemRequestHeld DEF ImemInput
<1>3. CASE Iahb!InAddr
  <2>1. i_xfer = NoXfer /\ ~i_announced
    BY <1>1, <1>3 DEF Iahb!NeverPipelined
  <2>2. CASE ImemRequest # NoReq /\ hready
    <3>1. i_state' = "DATA_PHASE" /\ i_xfer' = Iahb!AddressPhase
      BY <1>3, <2>2 DEF IahbEdge, Iahb!AddrStep, Iahb!SlaveEdge
    <3>2. ImemRequest' = ImemRequest
      BY <1>2, <1>3, <2>2 DEF Iahb!o_native_ready
    <3>3. ImemRequest.wdata = 0
      BY <1>1, <2>2 DEF ImemRequest
    <3> QED
      BY <1>3, <2>2, <3>1, <3>2, <3>3
      DEF Iahb!AddressPhase, Iahb!o_haddr, Iahb!o_hwdata, Iahb!BusyOwnsRequest, Iahb!NeverPipelined
  <2>3. CASE ~(ImemRequest # NoReq /\ hready)
    <3>1. i_state' = "ADDR_PHASE"
      BY <1>3, <2>3 DEF IahbEdge, Iahb!AddrStep, Iahb!bridge
    <3>2. i_xfer' = NoXfer /\ ~i_announced'
      BY <1>3, <2>1, <2>3 DEF IahbEdge, Iahb!SlaveEdge
    <3> QED
      BY <3>1, <3>2 DEF Iahb!BusyOwnsRequest, Iahb!NeverPipelined
  <2> QED
    BY <2>2, <2>3
<1>4. CASE Iahb!o_busy
  <2>1. ImemRequest # NoReq
    BY <1>1, <1>4 DEF Iahb!BusyOwnsRequest
  <2>2. CASE hready
    <3>1. i_state' = "ADDR_PHASE" /\ i_xfer' = NoXfer /\ ~i_announced'
      BY <1>4, <2>2 DEF IahbEdge, Iahb!DataStep, Iahb!SlaveEdge
    <3> QED
      BY <3>1 DEF Iahb!BusyOwnsRequest, Iahb!NeverPipelined
  <2>3. CASE ~hready
    <3>1. i_state' = "DATA_PHASE" /\ i_xfer' = i_xfer
      BY <1>4, <2>3 DEF IahbEdge, Iahb!DataStep, Iahb!SlaveEdge
    <3>2. ImemRequest' = ImemRequest
      BY <1>2, <2>1, <2>3 DEF Iahb!o_native_ready
    <3> QED
      BY <1>1, <1>4, <3>1, <3>2
      DEF Iahb!o_hwdata, Iahb!BusyOwnsRequest, Iahb!NeverPipelined
  <2> QED
    BY <2>2, <2>3
<1> QED
  BY <1>3, <1>4 DEF TopInv

\* What the data bridge owes is a transfer, and the write data of a store is
\* what the pipeline forwards.
LEMMA DataTransfer ==
  ASSUME TypeOK, Dahb!o_busy, Dahb!BusyOwnsRequest
  PROVE  /\ dmem_valid /\ d_xfer # NoXfer
         /\ d_xfer.write = MemWrite(exmem.insn) /\ d_xfer.addr = dmem_addr
         /\ MemWrite(exmem.insn) => d_wdata = store_data
<1>1. dmem_valid
  BY RequestTypes DEF Dahb!BusyOwnsRequest
<1>2. /\ DmemRequest.write = MemWrite(exmem.insn) /\ DmemRequest.addr = dmem_addr
      /\ MemWrite(exmem.insn) => DmemRequest.wdata = store_data
      /\ DmemRequest.size = 2
  BY <1>1 DEF DmemRequest
<1>3. /\ d_xfer = [write |-> MemWrite(exmem.insn), addr |-> dmem_addr, size |-> 2]
      /\ MemWrite(exmem.insn) => d_wdata = store_data
  BY <1>2 DEF Dahb!BusyOwnsRequest, Dahb!o_hwdata
<1>4. d_xfer # NoXfer
  <2>1. MemWrite(exmem.insn) \in BOOLEAN /\ dmem_addr \in Word
    BY DEF MemWrite, dmem_addr, TypeOK
  <2>2. [write |-> MemWrite(exmem.insn), addr |-> dmem_addr, size |-> 2]
          \in [write: BOOLEAN, addr: Word, size: {2}]
    BY <2>1
  <2> QED
    BY <1>3, <2>2, SentinelAssumption
<1> QED
  BY <1>1, <1>3, <1>4

\* The data bridge keeps to the request the pipeline holds, and its memory
\* takes a store when the pipeline takes it as done.
LEMMA DahbStep ==
  ASSUME TopInv, NEW in \in Inputs, Edge(in),
         NEW hready \in BOOLEAN, NEW hresp \in BOOLEAN, DahbEdge(hready, hresp),
         in.dmem = DmemInput(hready, hresp)
  PROVE  /\ d_state' \in Phases /\ Dahb!BusyOwnsRequest' /\ Dahb!NeverPipelined'
         /\ d_mem' = mem'
<1> USE DEF Dahb!InAddr, Dahb!o_busy, Dahb!o_htrans, Phases
<1>1. /\ TypeOK /\ d_mem = mem
      /\ Dahb!BusyOwnsRequest /\ Dahb!NeverPipelined
      /\ (DmemRequest # NoReq) = dmem_valid
  BY RequestTypes DEF TopInv, IInv, BridgesOwnRequests, MemoriesAgree
<1>2. ~Dahb!o_native_ready(hready) /\ DmemRequest # NoReq => DmemRequest' = DmemRequest
  BY <1>1, DmemRequestHeld DEF DmemInput
<1>3. CASE Dahb!InAddr
  <2>1. d_xfer = NoXfer /\ ~d_announced
    BY <1>1, <1>3 DEF Dahb!NeverPipelined
  <2>2. in.dmem = "wait"
    BY <1>3 DEF DmemInput, Dahb!o_native_ready
  <2>3. d_mem' = mem'
    BY <1>1, <2>1, <2>2
    DEF DahbEdge, Dahb!SlaveEdge, Edge, MemoryEdge, dmem_answered
  <2>4. CASE DmemRequest # NoReq /\ hready
    <3>1. /\ d_state' = "DATA_PHASE" /\ d_xfer' = Dahb!AddressPhase
          /\ d_wdata' = DmemRequest.wdata
      BY <1>3, <2>4 DEF DahbEdge, Dahb!AddrStep, Dahb!SlaveEdge
    <3>2. DmemRequest' = DmemRequest
      BY <1>2, <1>3, <2>4 DEF Dahb!o_native_ready
    <3> QED
      BY <1>3, <2>3, <2>4, <3>1, <3>2
      DEF Dahb!AddressPhase, Dahb!o_haddr, Dahb!o_hwdata, Dahb!BusyOwnsRequest, Dahb!NeverPipelined
  <2>5. CASE ~(DmemRequest # NoReq /\ hready)
    <3>1. d_state' = "ADDR_PHASE"
      BY <1>3, <2>5 DEF DahbEdge, Dahb!AddrStep, Dahb!bridge
    <3>2. d_xfer' = NoXfer /\ ~d_announced'
      BY <1>3, <2>1, <2>5 DEF DahbEdge, Dahb!SlaveEdge
    <3> QED
      BY <2>3, <3>1, <3>2 DEF Dahb!BusyOwnsRequest, Dahb!NeverPipelined
  <2> QED
    BY <2>4, <2>5
<1>4. CASE Dahb!o_busy
  <2>1. /\ dmem_valid /\ d_xfer # NoXfer
        /\ d_xfer.write = MemWrite(exmem.insn) /\ d_xfer.addr = dmem_addr
        /\ MemWrite(exmem.insn) => d_wdata = store_data
    BY <1>1, <1>4, DataTransfer
  <2>2. CASE hready
    <3>1. d_state' = "ADDR_PHASE" /\ d_xfer' = NoXfer /\ ~d_announced'
      BY <1>4, <2>2 DEF DahbEdge, Dahb!DataStep, Dahb!SlaveEdge
    <3>2. dmem_answered(in) /\ (in.dmem = "ok") = ~hresp
      BY <1>4, <2>1, <2>2 DEF DmemInput, Dahb!o_native_ready, dmem_answered
    <3>3. d_mem' = mem'
      BY <1>1, <2>1, <2>2, <3>2
      DEF DahbEdge, Dahb!SlaveEdge, Dahb!o_hwdata, Edge, MemoryEdge
    <3> QED
      BY <3>1, <3>3 DEF Dahb!BusyOwnsRequest, Dahb!NeverPipelined
  <2>3. CASE ~hready
    <3>1. d_state' = "DATA_PHASE" /\ d_xfer' = d_xfer /\ d_wdata' = d_wdata
      BY <1>4, <2>3 DEF DahbEdge, Dahb!DataStep, Dahb!SlaveEdge
    <3>2. DmemRequest' = DmemRequest
      BY <1>1, <1>2, <2>1, <2>3 DEF Dahb!o_native_ready
    <3>3. d_mem' = mem'
      BY <1>1, <2>3
      DEF DahbEdge, Dahb!SlaveEdge, Edge, MemoryEdge, DmemInput, Dahb!o_native_ready, dmem_answered
    <3> QED
      BY <1>1, <1>4, <3>1, <3>2, <3>3
      DEF Dahb!o_hwdata, Dahb!BusyOwnsRequest, Dahb!NeverPipelined
  <2> QED
    BY <2>2, <2>3
<1> QED
  BY <1>3, <1>4 DEF TopInv

-----------------------------------------------------------------------------
(* The composition.                                                        *)

\* Out of reset both bridges are idle and the memories are one.
LEMMA TopInitEstablishes == TopInit => TopInv
<1> SUFFICES ASSUME TopInit PROVE TopInv
  OBVIOUS
<1>1. IInv
  BY InitEstablishes DEF TopInit
<1>2. BridgesOwnRequests
  BY DEF TopInit, BridgesOwnRequests, Iahb!BusyOwnsRequest, Iahb!NeverPipelined, Iahb!o_busy,
         Dahb!BusyOwnsRequest, Dahb!NeverPipelined, Dahb!o_busy
<1> QED
  BY <1>1, <1>2 DEF TopInit, TopInv, Phases, MemoriesAgree

LEMMA TopStepPreserves == TopInv /\ [TopNext]_topVars => TopInv'
<1> SUFFICES ASSUME TopInv, [TopNext]_topVars PROVE TopInv'
  OBVIOUS
<1>1. IInv'
  BY TopStepIsPipelineStep, StepPreserves DEF TopInv
<1>2. CASE TopNext
  <2>1. PICK i_hready \in BOOLEAN, i_hresp \in BOOLEAN, d_hready \in BOOLEAN,
             d_hresp \in BOOLEAN, mdu_final \in BOOLEAN :
               TopEdge(i_hready, i_hresp, d_hready, d_hresp, mdu_final)
    BY <1>2 DEF TopNext
  <2> DEFINE in == [imem |-> ImemInput(i_hready, i_hresp),
                    dmem |-> DmemInput(d_hready, d_hresp), mdu |-> mdu_final]
  <2>2. in \in Inputs
    BY InputsType
  <2>3. Edge(in)
    BY <2>1 DEF TopEdge
  <2>4. in.imem = ImemInput(i_hready, i_hresp) /\ in.dmem = DmemInput(d_hready, d_hresp)
    OBVIOUS
  <2>5. IahbEdge(i_hready, i_hresp) /\ DahbEdge(d_hready, d_hresp)
    BY <2>1 DEF TopEdge
  <2> HIDE DEF in
  <2>6. i_state' \in Phases /\ Iahb!BusyOwnsRequest' /\ Iahb!NeverPipelined'
    BY <2>2, <2>3, <2>4, <2>5, IahbStep
  <2>7. /\ d_state' \in Phases /\ Dahb!BusyOwnsRequest' /\ Dahb!NeverPipelined'
        /\ d_mem' = mem'
    BY <2>2, <2>3, <2>4, <2>5, DahbStep
  <2> QED
    BY <1>1, <2>6, <2>7 DEF TopInv, BridgesOwnRequests, MemoriesAgree
<1>3. CASE UNCHANGED topVars
  <2>1. UNCHANGED <<i_state, i_addr, i_xfer, i_announced, d_state, d_addr, d_wdata,
                    d_xfer, d_announced, d_mem, mem>>
    BY <1>3 DEF topVars, i_bus, d_bus, vars, core
  <2>2. ImemRequest' = ImemRequest /\ DmemRequest' = DmemRequest
    BY <1>3 DEF topVars, vars, core, stages, latch, ImemRequest, imem_valid, DmemRequest,
                dmem_valid, dmem_request, dmem_addr, store_data, wb_match
  <2> QED
    BY <1>1, <2>1, <2>2
    DEF TopInv, BridgesOwnRequests, MemoriesAgree,
        Iahb!BusyOwnsRequest, Iahb!NeverPipelined, Iahb!o_busy, Iahb!InAddr, Iahb!o_hwdata,
        Dahb!BusyOwnsRequest, Dahb!NeverPipelined, Dahb!o_busy, Dahb!InAddr, Dahb!o_hwdata
<1> QED
  BY <1>2, <1>3

LEMMA TopInductive == TopSpec => []TopInv
BY TopInitEstablishes, TopStepPreserves, PTL DEF TopSpec

\* The pipeline and its bridges meet what each assumes of the other.
THEOREM BridgesOwnRequestsHolds == TopSpec => []BridgesOwnRequests
<1>1. TopInv => BridgesOwnRequests
  BY DEF TopInv
<1> QED
  BY <1>1, TopInductive, PTL

\* The memory behind the data bus is the program's.
THEOREM MemoriesAgreeHolds == TopSpec => []MemoriesAgree
<1>1. TopInv => MemoriesAgree
  BY DEF TopInv
<1> QED
  BY <1>1, TopInductive, PTL

\* The sleep output cuts no transfer short and is not held back by the gate.
THEOREM SleepGateSafeHolds == TopSpec => []SleepGateSafe
<1>1. ASSUME TopInv PROVE SleepGateSafe
  <2>1. /\ TypeOK /\ SleepIsQuiet
        /\ Iahb!BusyOwnsRequest /\ Iahb!NeverPipelined
        /\ Dahb!BusyOwnsRequest /\ Dahb!NeverPipelined
    BY <1>1 DEF TopInv, IInv, BridgesOwnRequests
  <2>2. core_sleep => ImemRequest = NoReq /\ DmemRequest = NoReq
    BY <2>1 DEF SleepIsQuiet, ImemRequest, DmemRequest, dmem_valid
  <2>3. core_sleep => ~Iahb!o_busy /\ ~Dahb!o_busy
    BY <2>1, <2>2 DEF Iahb!BusyOwnsRequest, Dahb!BusyOwnsRequest
  <2>4. ~Iahb!o_busy => Iahb!InAddr
    BY <1>1 DEF TopInv, Phases, Iahb!o_busy, Iahb!InAddr
  <2>5. ~Dahb!o_busy => Dahb!InAddr
    BY <1>1 DEF TopInv, Phases, Dahb!o_busy, Dahb!InAddr
  <2>6. o_core_sleep => /\ i_xfer = NoXfer /\ d_xfer = NoXfer
                        /\ Iahb!o_htrans = "IDLE" /\ Dahb!o_htrans = "IDLE"
    BY <2>1, <2>2, <2>4, <2>5
    DEF o_core_sleep, Iahb!NeverPipelined, Dahb!NeverPipelined, Iahb!o_htrans, Dahb!o_htrans
  <2> QED
    BY <2>3, <2>6 DEF SleepGateSafe, o_core_sleep
<1> QED
  BY <1>1, TopInductive, PTL

\* Behind its bus bridges the core still executes the instruction set's program.
THEOREM TopImplementsIsaHolds == TopSpec => ImplementsIsa
BY TopIsPipeline, ImplementsIsaHolds

-----------------------------------------------------------------------------
(* The RVFI shadow.                                                        *)

\* Behind a trap whose packet still waits, EX and MEM are empty; so is IF/ID
\* while WB has an instruction to show first.
TrapEmptiesPipeline ==
  trap_pending => ~idex.valid /\ ~exmem.valid /\ (memwb.valid => ~ifid.valid)

RvfiInv == IInv /\ ShadowMatches /\ TrapEmptiesPipeline

\* An edge that traps empties IF/ID, ID/EX and EX/MEM.
LEMMA TrapFlushes ==
  ASSUME NEW in \in Inputs, Edge(in), trap_event(in)
  PROVE  ~ifid'.valid /\ ~idex'.valid /\ ~exmem'.valid
<1>1. trap_enter(in) /\ ~pipeline_stall(in)
  BY DEF trap_event, trap_enter, ex_sync_trap, data_access_exception, pipeline_advance
<1>2. flush_if_id(in) /\ flush_id_ex(in)
  BY <1>1 DEF flush_if_id, flush_id_ex, system_redirect
<1> QED
  BY <1>1, <1>2 DEF Edge, IfIdEdge, IdExEdge, ExMemEdge, IfIdFlushed, IdExFlushed, ExMemFlushed

\* Only a valid instruction in EX or MEM traps.
LEMMA TrapNeedsInstruction ==
  ASSUME NEW in \in Inputs, trap_event(in)
  PROVE  idex.valid \/ exmem.valid
BY DEF trap_event, ex_sync_trap, data_access_exception

\* The shadow's valid bits move with the pipeline's.
LEMMA ShadowStep ==
  ASSUME TypeOK, ShadowMatches, NEW in \in Inputs, Edge(in), ShadowEdge(in)
  PROVE  ShadowMatches'
<1>1. CASE pipeline_stall(in)
  BY <1>1, StallFreezes DEF ShadowMatches, ShadowEdge
<1>2. CASE ~pipeline_stall(in)
  <2>1. mem_valid_shadow' = exmem'.valid
    <3>1. idex.valid \in BOOLEAN
      BY DEF TypeOK
    <3>2. mem_valid_shadow' = (idex.valid /\ ~trap_enter(in))
      BY <1>2 DEF ShadowEdge, EnteringMem
    <3>3. CASE trap_enter(in)
      <4>1. exmem' = ExMemFlushed
        BY <1>2, <3>3 DEF Edge, ExMemEdge
      <4> QED
        BY <3>2, <3>3, <4>1 DEF ExMemFlushed
    <3>4. CASE ~trap_enter(in)
      <4>1. exmem'.valid = idex.valid
        BY <1>2, <3>4 DEF Edge, ExMemEdge
      <4>2. mem_valid_shadow' = idex.valid
        BY <3>1, <3>2, <3>4
      <4> QED
        BY <4>1, <4>2
    <3> QED
      BY <3>3, <3>4
  <2>2. wb_valid_shadow' = memwb'.valid
    BY <1>2 DEF ShadowMatches, ShadowEdge, Edge, MemWbEdge
  <2> QED
    BY <2>1, <2>2 DEF ShadowMatches
<1> QED
  BY <1>1, <1>2

\* A trap packet waits for at most the one instruction in WB, and nothing
\* enters the pipeline behind it meanwhile.
LEMMA PendingStep ==
  ASSUME TypeOK, TrapEmptiesPipeline, NEW in \in Inputs, Edge(in), ShadowEdge(in)
  PROVE  TrapEmptiesPipeline'
<1>1. CASE trap_event(in)
  BY <1>1, TrapFlushes DEF TrapEmptiesPipeline
<1>2. CASE ~trap_event(in) /\ trap_pending /\ commit_valid(in)
  <2>1. memwb.valid /\ ~pipeline_stall(in)
    BY <1>2 DEF commit_valid, pipeline_advance
  <2>2. ~ifid.valid /\ ~idex.valid /\ ~exmem.valid
    BY <1>2, <2>1 DEF TrapEmptiesPipeline
  <2>3. ~idex'.valid
    BY <2>1, <2>2 DEF Edge, IdExEdge, IdExFlushed
  <2>4. ~exmem'.valid
    BY <2>1, <2>2 DEF Edge, ExMemEdge, ExMemFlushed
  <2>5. ~memwb'.valid
    BY <2>1, <2>2 DEF Edge, MemWbEdge
  <2> QED
    BY <2>3, <2>4, <2>5 DEF TrapEmptiesPipeline
<1>3. CASE ~trap_event(in) /\ ~(trap_pending /\ commit_valid(in))
  BY <1>3 DEF TrapEmptiesPipeline, ShadowEdge, StillPending
<1> QED
  BY <1>1, <1>2, <1>3

\* Every step preserves the shadow's invariant.
LEMMA RvfiStep == RvfiInv /\ [RvfiNext]_rvfiVars => RvfiInv'
<1> SUFFICES ASSUME RvfiInv, [RvfiNext]_rvfiVars PROVE RvfiInv'
  OBVIOUS
<1>1. CASE RvfiNext
  <2>1. PICK in \in Inputs : Edge(in) /\ ShadowEdge(in)
    BY <1>1 DEF RvfiNext
  <2>2. IInv'
    BY <2>1, EdgeIsNext, StepPreserves DEF RvfiInv
  <2> QED
    BY <2>1, <2>2, ShadowStep, PendingStep DEF RvfiInv, IInv
<1>2. CASE UNCHANGED rvfiVars
  <2>1. IInv'
    BY <1>2, StepPreserves DEF RvfiInv, rvfiVars
  <2> QED
    BY <1>2, <2>1 DEF RvfiInv, rvfiVars, rvfi, vars, core, stages, ShadowMatches,
                      TrapEmptiesPipeline
<1> QED
  BY <1>1, <1>2

\* Reset satisfies it.
LEMMA RvfiInitEstablishes == RvfiInit => RvfiInv
<1> SUFFICES ASSUME RvfiInit PROVE RvfiInv
  OBVIOUS
<1>1. IInv
  BY InitEstablishes DEF RvfiInit
<1>2. ~exmem.valid /\ ~memwb.valid /\ exmem.valid \in BOOLEAN /\ memwb.valid \in BOOLEAN
  BY DEF RvfiInit, Init, ExMemFlushed, MemWbFlushed
<1>3. ShadowMatches
  BY <1>2 DEF RvfiInit, ShadowMatches
<1>4. TrapEmptiesPipeline
  BY DEF RvfiInit, TrapEmptiesPipeline
<1> QED
  BY <1>1, <1>3, <1>4 DEF RvfiInv

\* It holds in every reachable state.
LEMMA RvfiInductive == RvfiSpec => []RvfiInv
BY RvfiInitEstablishes, RvfiStep, PTL DEF RvfiSpec

\* The shadow's valid bits are those of the stages they mirror, whatever the
\* ports answer.
THEOREM ShadowMatchesHolds == RvfiSpec => []ShadowMatches
BY RvfiInductive, PTL DEF RvfiInv

\* A trap packet that still waits is not replaced by that of a second trap.
THEOREM NoTrapPacketLostHolds == RvfiSpec => NoTrapPacketLost
<1>1. ASSUME RvfiInv, [RvfiNext]_rvfiVars, trap_pending, trap_pending',
             ~UNCHANGED rvfiVars
      PROVE  trap_pc_q' = trap_pc_q /\ ~packet'.trap
  <2>1. PICK in \in Inputs : Edge(in) /\ ShadowEdge(in)
    BY <1>1 DEF RvfiNext
  <2>2. ~trap_event(in)
    BY <1>1, TrapNeedsInstruction DEF RvfiInv, TrapEmptiesPipeline
  <2>3. commit_valid(in)
    BY <1>1, <2>1, <2>2 DEF ShadowEdge, StillPending
  <2> QED
    BY <2>1, <2>2, <2>3 DEF ShadowEdge, Shown, CommitPacket
<1> QED
  BY <1>1, RvfiInductive, PTL DEF RvfiSpec, NoTrapPacketLost

\* If fetch does not wait, nothing holds WB while a trap packet does.
LEMMA TrapShownLast ==
  ASSUME RvfiInv, NEW in \in Inputs, Edge(in), ShadowEdge(in), ~imem_wait(in), packet'.trap
  PROVE  ~memwb.valid
<1>1. trap_pending /\ ~commit_valid(in)
  BY DEF ShadowEdge, Shown, CommitPacket, NoPacket
<1>2. ~idex.valid /\ ~exmem.valid
  BY <1>1 DEF RvfiInv, TrapEmptiesPipeline
<1>3. ~dmem_wait(in)
  BY <1>2 DEF RvfiInv, IInv, BubblesAreSilent, dmem_wait, dmem_valid
<1>4. ~mdu_stall(in)
  BY <1>2 DEF mdu_stall, mdu_active
<1>5. pipeline_advance(in)
  BY <1>3, <1>4 DEF pipeline_advance, pipeline_stall, bus_stall
<1> QED
  BY <1>1, <1>5 DEF RvfiInv, ShadowMatches, commit_valid

\* The formal bench: the instruction memory always answers at once.
ZeroWaitNext == \E in \in Inputs : in.imem # "wait" /\ Edge(in) /\ ShadowEdge(in)
ZeroWaitSpec == RvfiInit /\ [][ZeroWaitNext]_rvfiVars

\* Without wait states on the instruction port the packet of a trap never
\* comes before that of an older instruction: nothing can hold WB then.
THEOREM InOrderWithoutWaits == ZeroWaitSpec => InOrderChannel
<1>1. [ZeroWaitNext]_rvfiVars => [RvfiNext]_rvfiVars
  BY DEF ZeroWaitNext, RvfiNext
<1>2. ASSUME RvfiInv, ZeroWaitNext, packet'.trap
      PROVE  ~memwb.valid
  <2>1. PICK in \in Inputs : in.imem # "wait" /\ Edge(in) /\ ShadowEdge(in)
    BY <1>2 DEF ZeroWaitNext
  <2>2. ~imem_wait(in)
    BY <2>1 DEF imem_wait, if_complete
  <2> QED
    BY <1>2, <2>1, <2>2, TrapShownLast
<1> QED
  BY <1>1, <1>2, RvfiInitEstablishes, RvfiStep, PTL DEF ZeroWaitSpec, InOrderChannel, InOrder

-----------------------------------------------------------------------------
(* The cocotb bench.                                                       *)

\* A port's record has the fields of NativeMemory's state.
IsPort(port) ==
  \E active, accepted \in BOOLEAN : \E remaining, request :
    port = [active |-> active, accepted |-> accepted, remaining |-> remaining, request |-> request]

\* A transfer the memory has not yet seen accepted is the one the core wants.
Outstanding(port, valid, request) ==
  port.active /\ ~port.accepted => valid /\ port.request = request

BenchInv == /\ IInv
            /\ IsPort(imem) /\ Outstanding(imem, imem_valid, imem_request)
            /\ IsPort(dmem) /\ Outstanding(dmem, dmem_valid, dmem_request_fields)
            /\ BooksBalance

\* At the falling edge the memory takes up a request exactly when the core has
\* one, and it is that request.
LEMMA TakenIsRequest ==
  ASSUME NEW port, NEW valid \in BOOLEAN, NEW request, NEW wait,
         IsPort(port), Outstanding(port, valid, request)
  PROVE  LET driven == Taken(port, valid, request, wait)
         IN  /\ IsPort(driven)
             /\ driven.active <=> valid
             /\ driven.active => driven.request = request /\ ~driven.accepted
<1> DEFINE fresh == [active |-> TRUE, accepted |-> FALSE, remaining |-> wait, request |-> request]
<1>1. PICK active, accepted, remaining, req :
        /\ active \in BOOLEAN /\ accepted \in BOOLEAN
        /\ port = [active |-> active, accepted |-> accepted, remaining |-> remaining,
                   request |-> req]
  BY DEF IsPort
<1>2. IsPort(fresh) /\ IsPort(NoRequest) /\ ~NoRequest.active
  BY DEF IsPort, NoRequest
<1>3. CASE valid /\ (port.accepted \/ ~port.active)
  <2>1. Taken(port, valid, request, wait) = fresh
    BY <1>2, <1>3 DEF Taken
  <2> QED
    <3>1. fresh.active /\ ~fresh.accepted /\ fresh.request = request
      OBVIOUS
    <3> HIDE DEF fresh
    <3> QED
      BY <1>2, <1>3, <2>1, <3>1
<1>4. CASE ~valid /\ port.accepted
  <2>1. Taken(port, valid, request, wait) = NoRequest
    BY <1>4 DEF Taken
  <2> QED
    BY <1>2, <1>4, <2>1
<1>5. CASE ~port.accepted /\ (port.active \/ ~valid)
  <2>1. Taken(port, valid, request, wait) = port
    BY <1>5 DEF Taken
  <2>2. port.active <=> valid
    BY <1>5 DEF Outstanding
  <2> QED
    <3>1. IsPort(port)
      OBVIOUS
    <3>2. port.active => port.request = request /\ ~port.accepted
      BY <1>5 DEF Outstanding
    <3> QED
      BY <2>1, <2>2, <3>1, <3>2
<1> QED
  BY <1>1, <1>3, <1>4, <1>5

\* At the rising edge an answered request is marked; one not answered stays
\* what it was.
LEMMA SampledKeeps ==
  ASSUME NEW driven, NEW valid \in BOOLEAN, IsPort(driven)
  PROVE  /\ IsPort(Sampled(driven, valid))
         /\ Ready(driven) /\ valid => Sampled(driven, valid).accepted
         /\ ~(Ready(driven) /\ valid) =>
              /\ Sampled(driven, valid).active = driven.active
              /\ Sampled(driven, valid).request = driven.request
<1>1. PICK active, accepted, remaining, request :
        /\ active \in BOOLEAN /\ accepted \in BOOLEAN
        /\ driven = [active |-> active, accepted |-> accepted, remaining |-> remaining,
                     request |-> request]
  BY DEF IsPort
<1>2. CASE Ready(driven) /\ valid
  <2>1. Sampled(driven, valid) = [active |-> active, accepted |-> TRUE, remaining |-> remaining,
                                  request |-> request]
    BY <1>1, <1>2 DEF Sampled
  <2> QED
    <3>1. Sampled(driven, valid).accepted
      BY <2>1
    <3>2. IsPort(Sampled(driven, valid))
      BY <1>1, <2>1, Zenon DEF IsPort
    <3> QED
      BY <1>2, <3>1, <3>2
<1>3. CASE ~(Ready(driven) /\ valid)
  <2> DEFINE left == IF remaining = 0 THEN 0 ELSE remaining - 1
  <2>1. Sampled(driven, valid) = [active |-> active, accepted |-> accepted, remaining |-> left,
                                  request |-> request]
    BY <1>1, <1>3 DEF Sampled
  <2>2. IsPort(Sampled(driven, valid))
    <3> HIDE DEF left
    <3> QED
      BY <1>1, <2>1, Zenon DEF IsPort
  <2>3. /\ Sampled(driven, valid).active = driven.active
        /\ Sampled(driven, valid).request = driven.request
    BY <1>1, <2>1
  <2> QED
    BY <1>3, <2>2, <2>3, Zenon
<1> QED
  BY <1>2, <1>3

\* The requests of the core are there or not.
LEMMA ValidBoolean ==
  ASSUME TypeOK
  PROVE  imem_valid \in BOOLEAN /\ dmem_valid \in BOOLEAN
BY DEF imem_valid, dmem_valid

\* A fetch that waits is wanted in the next cycle too, at the same address.
LEMMA FetchWaits ==
  ASSUME IInv, NEW in \in Inputs, Edge(in), imem_valid, in.imem = "wait"
  PROVE  imem_valid' /\ imem_request' = imem_request
<1>1. imem_wait(in) /\ ~if_complete(in)
  BY DEF imem_wait, if_complete, imem_valid
<1>2. pipeline_stall(in)
  BY <1>1 DEF pipeline_stall, bus_stall
<1>3. pc' = pc
  BY <1>2 DEF Edge, PcEdge, pc_hold
<1>4. ~core_sleep'
  BY <1>2 DEF imem_valid, Edge, SleepEdge, wfi_sleep, Unhindered, pipeline_advance
<1>5. held' = Nothing
  BY <1>1 DEF imem_valid, Edge, FetchEdge
<1> QED
  BY <1>3, <1>4, <1>5 DEF imem_valid, imem_request, Nothing, Bubble, Nop

\* A data access that waits is wanted in the next cycle too, with the same
\* address and forwarded data.
LEMMA DataWaits ==
  ASSUME IInv, NEW in \in Inputs, Edge(in), dmem_valid, in.dmem = "wait"
  PROVE  dmem_valid' /\ dmem_request_fields' = dmem_request_fields
<1>1. dmem_wait(in) /\ ~dmem_answered(in)
  BY DEF dmem_wait, dmem_answered
<1>2. pipeline_stall(in)
  BY <1>1 DEF pipeline_stall, bus_stall
<1>3. exmem' = exmem /\ memwb' = memwb
  BY <1>2, StallFreezes
<1>4. ~dmem_complete'
  BY <1>1 DEF Edge, LatchEdge, dmem_valid
<1> QED
  BY <1>3, <1>4 DEF dmem_valid, dmem_request, dmem_request_fields, dmem_addr, store_data, wb_match

\* What the memory waits for is what the core goes on wanting.
LEMMA OutstandingStep ==
  ASSUME BenchInv, NEW in \in Inputs, Attached(in), Edge(in), NativeMemoryEdge
  PROVE  /\ IsPort(imem)' /\ Outstanding(imem, imem_valid, imem_request)'
         /\ IsPort(dmem)' /\ Outstanding(dmem, dmem_valid, dmem_request_fields)'
<1>1. imem_valid \in BOOLEAN /\ dmem_valid \in BOOLEAN
  BY ValidBoolean DEF BenchInv, IInv
<1>2. /\ IsPort(DrivenImem) /\ (DrivenImem.active <=> imem_valid)
      /\ DrivenImem.active => DrivenImem.request = imem_request
  BY <1>1, TakenIsRequest DEF BenchInv, DrivenImem
<1>3. /\ IsPort(DrivenDmem) /\ (DrivenDmem.active <=> dmem_valid)
      /\ DrivenDmem.active => DrivenDmem.request = dmem_request_fields
  BY <1>1, TakenIsRequest DEF BenchInv, DrivenDmem
<1>4. imem' = Sampled(DrivenImem, imem_valid) /\ dmem' = Sampled(DrivenDmem, dmem_valid)
  BY DEF NativeMemoryEdge
<1>5. IsPort(imem') /\ IsPort(dmem')
  BY <1>1, <1>2, <1>3, <1>4, SampledKeeps
<1>6. Outstanding(imem', imem_valid', imem_request')
  <2> SUFFICES ASSUME imem'.active, ~imem'.accepted
               PROVE  imem_valid' /\ imem'.request = imem_request'
    BY DEF Outstanding
  <2>1. ~(Ready(DrivenImem) /\ imem_valid)
    BY <1>1, <1>2, <1>4, SampledKeeps
  <2>2. DrivenImem.active /\ imem'.request = DrivenImem.request
    BY <1>1, <1>2, <1>4, <2>1, SampledKeeps
  <2>3. imem_valid /\ ~Ready(DrivenImem)
    BY <1>2, <2>1, <2>2
  <2>4. in.imem = "wait"
    BY <2>3 DEF Attached, imem_answer, Answer
  <2> QED
    BY <1>2, <2>2, <2>3, <2>4, FetchWaits DEF BenchInv
<1>7. Outstanding(dmem', dmem_valid', dmem_request_fields')
  <2> SUFFICES ASSUME dmem'.active, ~dmem'.accepted
               PROVE  dmem_valid' /\ dmem'.request = dmem_request_fields'
    BY DEF Outstanding
  <2>1. ~(Ready(DrivenDmem) /\ dmem_valid)
    BY <1>1, <1>3, <1>4, SampledKeeps
  <2>2. DrivenDmem.active /\ dmem'.request = DrivenDmem.request
    BY <1>1, <1>3, <1>4, <2>1, SampledKeeps
  <2>3. dmem_valid /\ ~Ready(DrivenDmem)
    BY <1>3, <2>1, <2>2
  <2>4. in.dmem = "wait"
    BY <2>3 DEF Attached, dmem_answer, Answer
  <2> QED
    BY <1>3, <2>2, <2>3, <2>4, DataWaits DEF BenchInv
<1> QED
  BY <1>5, <1>6, <1>7 DEF IsPort, Outstanding

\* The memory accepts a data transfer in the cycle in which the core takes its
\* answer, and stores what the core takes as stored.
LEMMA BooksStep ==
  ASSUME BenchInv, NEW in \in Inputs, Attached(in), Edge(in), NativeMemoryEdge
  PROVE  BooksBalance'
<1>1. dmem_valid \in BOOLEAN
  BY ValidBoolean DEF BenchInv, IInv
<1>2. DrivenDmem.active <=> dmem_valid
  BY <1>1, TakenIsRequest DEF BenchInv, DrivenDmem
<1> DEFINE failed == dmem_addr \in test.data_error_addresses
           accepts == Ready(DrivenDmem) /\ dmem_valid
<1>3. in.dmem = Answer(DrivenDmem, failed, "error")
  BY DEF Attached, dmem_answer
<1>4. accepts <=> dmem_answered(in)
  BY <1>2, <1>3 DEF Answer, dmem_answered
<1>5. accepts => (in.dmem = "ok" <=> ~failed)
  BY <1>3 DEF Answer
<1>6. books'.data_accepts = accesses'
  <2>1. books'.data_accepts = Plus(accesses, ToBit(accepts))
    BY DEF NativeMemoryEdge, BenchInv, BooksBalance
  <2>2. CASE accepts
    <3>1. accesses' = Plus(accesses, 1)
      BY <1>4, <2>2 DEF Edge, MemoryEdge
    <3> QED
      BY <2>1, <2>2, <3>1 DEF ToBit
  <2>3. CASE ~accepts
    <3>1. accesses' = accesses
      BY <1>4, <2>3 DEF Edge, MemoryEdge
    <3>2. Plus(accesses, 0) = accesses
      <4>1. accesses \in 0 .. Words - 1
        BY DEF BenchInv, IInv, TypeOK, Word
      <4> QED
        BY <4>1, WordsAssumption DEF Plus
    <3> QED
      BY <2>1, <2>3, <3>1, <3>2 DEF ToBit
  <2> QED
    BY <2>2, <2>3
<1>7. data' = mem'
  BY <1>4, <1>5 DEF BenchInv, BooksBalance, NativeMemoryEdge, Edge, MemoryEdge
<1> QED
  BY <1>6, <1>7 DEF BooksBalance

\* Every step on the bench preserves its invariant.
LEMMA BenchStep == BenchInv /\ [HarnessNext]_harnessVars => BenchInv'
<1> SUFFICES ASSUME BenchInv, [HarnessNext]_harnessVars PROVE BenchInv'
  OBVIOUS
<1>1. CASE HarnessNext
  <2>1. PICK in \in Inputs : Attached(in) /\ Edge(in) /\ NativeMemoryEdge
    BY <1>1 DEF HarnessNext
  <2>2. IInv'
    BY <2>1, EdgeIsNext, StepPreserves DEF BenchInv
  <2> QED
    BY <2>1, <2>2, OutstandingStep, BooksStep DEF BenchInv
<1>2. CASE UNCHANGED harnessVars
  <2>1. IInv'
    BY <1>2, StepPreserves DEF BenchInv, harnessVars, rvfiVars
  <2>2. UNCHANGED <<imem_valid, imem_request, dmem_valid, dmem_request_fields>>
    BY <1>2 DEF harnessVars, rvfiVars, vars, core, stages, latch, imem_valid, imem_request,
                dmem_valid, dmem_request, dmem_request_fields, dmem_addr, store_data, wb_match
  <2>3. UNCHANGED <<imem, dmem, data, books, mem, accesses>>
    BY <1>2 DEF harnessVars, bench, rvfiVars, vars, core
  <2> QED
    BY <2>1, <2>2, <2>3 DEF BenchInv, IsPort, Outstanding, BooksBalance
<1> QED
  BY <1>1, <1>2

\* Reset satisfies it.
LEMMA BenchInitEstablishes == HarnessInit => BenchInv
<1> SUFFICES ASSUME HarnessInit PROVE BenchInv
  OBVIOUS
<1>1. IInv
  BY InitEstablishes DEF HarnessInit, RvfiInit
<1>2. IsPort(NoRequest) /\ ~NoRequest.active
  BY DEF NoRequest, IsPort
<1>3. imem = NoRequest /\ dmem = NoRequest /\ BooksBalance
  BY DEF HarnessInit, BooksBalance
<1> QED
  BY <1>1, <1>2, <1>3 DEF BenchInv, Outstanding

\* What is outstanding is what the core asks for.
LEMMA BenchAsserts == BenchInv => AssertionsHold
<1> SUFFICES ASSUME BenchInv PROVE AssertionsHold
  OBVIOUS
<1>1. imem_valid \in BOOLEAN /\ dmem_valid \in BOOLEAN
  BY ValidBoolean DEF BenchInv, IInv
<1>2. DrivenImem.active => DrivenImem.request = imem_request
  BY <1>1, TakenIsRequest DEF BenchInv, DrivenImem
<1>3. DrivenDmem.active => DrivenDmem.request = dmem_request_fields
  BY <1>1, TakenIsRequest DEF BenchInv, DrivenDmem
<1> QED
  BY <1>2, <1>3 DEF AssertionsHold, InstructionRequestHeld, DataRequestHeld

\* native_memory.py's assertions never fire, whatever the wait states and
\* error addresses of the test.
THEOREM AssertionsNeverFire == HarnessSpec => []AssertionsHold
BY BenchAsserts, BenchInitEstablishes, BenchStep, PTL DEF HarnessSpec

\* The memory counts and stores exactly the transfers the core makes.
THEOREM BooksBalanceHolds == HarnessSpec => []BooksBalance
BY BenchInitEstablishes, BenchStep, PTL DEF HarnessSpec, BenchInv

-----------------------------------------------------------------------------
(* What the monitor counts: waits.                                         *)

\* What the monitor has counted of a transfer the memory has not answered yet.
Counts(n, port, wait) ==
  IF port.active /\ ~port.accepted
  THEN port.remaining \in Nat /\ port.remaining < wait /\ n = WaitBin(wait - port.remaining)
  ELSE n = 0

\* The wait states the test gives a port.
WaitsOf(port) == IF port = "ifetch" THEN test.instruction_wait ELSE test.data_wait

\* The wait bins are those of the test's wait states, for any number of them.
WaitBinsTrue ==
  \A port \in {"ifetch", "load", "store"} : \A n :
    <<"bus", port, "wait", n>> \in hits => n = WaitBin(WaitsOf(port))

\* What the monitor makes of waits.
WaitsInv == /\ test.instruction_wait \in Nat /\ test.data_wait \in Nat
            /\ Counts(waits.ifetch, imem, test.instruction_wait)
            /\ Counts(waits.data, dmem, test.data_wait)
            /\ WaitBinsTrue

\* The bins tell no more apart than their counter.
LEMMA WaitBinNext == \A n \in Nat : WaitBin(WaitBin(n) + 1) = WaitBin(n + 1)
BY DEF WaitBin

\* A port's counter counts the cycles its request has waited, and is clear when
\* the next one is taken up.
LEMMA PortCounts ==
  ASSUME NEW port, NEW n, NEW wait \in Nat, NEW valid \in BOOLEAN, NEW request, NEW answer,
         IsPort(port), Outstanding(port, valid, request), Counts(n, port, wait),
         answer = "wait" <=> ~Ready(Taken(port, valid, request, wait))
  PROVE  /\ Counts(Waited(n, valid, answer),
                   Sampled(Taken(port, valid, request, wait), valid), wait)
         /\ valid /\ answer # "wait" => n = WaitBin(wait)
<1> DEFINE driven == Taken(port, valid, request, wait)
           next == Sampled(driven, valid)
           count == Waited(n, valid, answer)
<1>1. PICK active, accepted, remaining, req :
        /\ active \in BOOLEAN /\ accepted \in BOOLEAN
        /\ port = [active |-> active, accepted |-> accepted, remaining |-> remaining,
                   request |-> req]
  BY DEF IsPort
<1>2. ASSUME active, ~accepted
      PROVE  Counts(count, next, wait) /\ (valid /\ answer # "wait" => n = WaitBin(wait))
  <2>1. valid /\ remaining \in Nat /\ remaining < wait /\ n = WaitBin(wait - remaining)
    BY <1>1, <1>2 DEF Outstanding, Counts
  <2>2. driven = port
    BY <1>1, <1>2 DEF Taken
  <2>3. Ready(driven) <=> remaining = 0
    BY <1>1, <1>2, <2>2 DEF Ready
  <2>4. CASE remaining = 0
    <3>1. n = WaitBin(wait)
      BY <2>1, <2>4
    <3>2. count = 0
      BY <2>1, <2>3, <2>4 DEF Waited
    <3>3. next.accepted
      BY <1>1, <2>1, <2>2, <2>3, <2>4 DEF Sampled
    <3> QED
      BY <3>1, <3>2, <3>3 DEF Counts
  <2>5. CASE remaining # 0
    <3>1. next = [active |-> active, accepted |-> accepted, remaining |-> remaining - 1,
                  request |-> req]
      BY <1>1, <2>2, <2>3, <2>5 DEF Sampled
    <3>2. count = WaitBin(WaitBin(wait - remaining) + 1) /\ answer = "wait"
      BY <2>1, <2>3, <2>5 DEF Waited
    <3>3. wait - remaining \in Nat /\ (wait - remaining) + 1 = wait - (remaining - 1)
          /\ remaining - 1 \in Nat /\ remaining - 1 < wait
      BY <2>1, <2>5
    <3>4. count = WaitBin(wait - (remaining - 1))
      BY <3>2, <3>3, WaitBinNext
    <3>5. next.active = active /\ next.accepted = accepted /\ next.remaining = remaining - 1
      BY <3>1
    <3> HIDE DEF count, next
    <3> QED
      BY <1>2, <3>2, <3>3, <3>4, <3>5, Zenon DEF Counts
  <2> QED
    BY <2>4, <2>5
<1>3. ASSUME ~(active /\ ~accepted), valid
      PROVE  Counts(count, next, wait) /\ (valid /\ answer # "wait" => n = WaitBin(wait))
  <2>1. n = 0
    BY <1>1, <1>3 DEF Counts
  <2>2. driven = [active |-> TRUE, accepted |-> FALSE, remaining |-> wait, request |-> request]
    BY <1>1, <1>3 DEF Taken, NoRequest
  <2>3. Ready(driven) <=> wait = 0
    BY <2>2 DEF Ready
  <2>4. CASE wait = 0
    <3>1. n = WaitBin(wait)
      BY <2>1, <2>4 DEF WaitBin
    <3>2. count = 0
      BY <1>3, <2>3, <2>4 DEF Waited
    <3>3. next.accepted
      BY <1>3, <2>2, <2>3, <2>4 DEF Sampled
    <3> QED
      BY <3>1, <3>2, <3>3 DEF Counts
  <2>5. CASE wait # 0
    <3>1. next = [active |-> TRUE, accepted |-> FALSE, remaining |-> wait - 1,
                  request |-> request]
      <4>1. ~Ready(driven) /\ driven.remaining = wait
        BY <2>2, <2>3, <2>5
      <4> HIDE DEF driven
      <4>2. next = [driven EXCEPT !.remaining = wait - 1]
        BY <2>5, <4>1 DEF Sampled
      <4> QED
        BY <2>2, <4>2
    <3>2. count = WaitBin(1) /\ answer = "wait"
      <4>1. answer = "wait" /\ n + 1 = 1
        BY <2>1, <2>3, <2>5
      <4> QED
        BY <1>3, <4>1, Zenon DEF Waited
    <3>3. wait - 1 \in Nat /\ wait - 1 < wait /\ 1 = wait - (wait - 1)
      BY <2>5
    <3>4. next.active /\ ~next.accepted /\ next.remaining = wait - 1
      BY <3>1
    <3> HIDE DEF count, next
    <3> QED
      BY <3>2, <3>3, <3>4 DEF Counts
  <2> QED
    BY <2>4, <2>5
<1>4. ASSUME ~(active /\ ~accepted), ~valid
      PROVE  Counts(count, next, wait) /\ (valid /\ answer # "wait" => n = WaitBin(wait))
  <2>1. n = 0
    BY <1>1, <1>4 DEF Counts
  <2>2. count = 0
    BY <1>4, <2>1 DEF Waited
  <2>3. IsPort(driven) /\ ~driven.active
    BY <1>4, TakenIsRequest
  <2>4. ~next.active
    <3> HIDE DEF driven
    <3> QED
      BY <1>4, <2>3, SampledKeeps
  <2> QED
    BY <1>4, <2>2, <2>4 DEF Counts
<1> QED
  BY <1>2, <1>3, <1>4

\* The bins of the report are told apart by what they name.
LEMMA BinNames ==
  \A p, q, n, m :
    /\ <<"bus", p, "wait", n>> = <<"bus", q, "wait", m>> => p = q /\ n = m
    /\ <<"bus", p, "wait", n>> # <<"bus", q, "error">>
    /\ <<"bus", p, "wait", n>> # <<"instruction", m>>
    /\ <<"bus", p, "wait", n>> # <<"branch", m>>
OBVIOUS

\* A wait bin is hit by an answered request only.
LEMMA WaitBinHit ==
  ASSUME NEW in, NEW port \in {"ifetch", "load", "store"}, NEW n,
         <<"bus", port, "wait", n>> \in FetchBins(in) \cup DataBins(in) \cup CommitBins(in)
  PROVE  IF port = "ifetch" THEN imem_valid /\ in.imem # "wait" /\ n = waits.ifetch
         ELSE dmem_valid /\ in.dmem # "wait" /\ n = waits.data
<1> DEFINE bin == <<"bus", port, "wait", n>>
<1>1. \A p, k, a : bin \in Bus(p, k, a) => port = p /\ n = k
  <2> TAKE p, k, a
  <2>1. Bus(p, k, a) \subseteq {<<"bus", p, "wait", k>>, <<"bus", p, "error">>}
    BY DEF Bus
  <2> QED
    BY <2>1, BinNames
<1>2. bin \notin CommitBins(in)
  <2>1. bin # <<"instruction", memwb.insn.op>> /\ \A o : bin # <<"branch", o>>
    BY BinNames
  <2> HIDE DEF bin
  <2> QED
    BY <2>1 DEF CommitBins
<1>3. operation \in {"load", "store"} /\ "ifetch" \notin {"load", "store"}
  BY DEF operation
<1> HIDE DEF bin
<1>4. CASE bin \in FetchBins(in)
  <2>1. imem_valid /\ in.imem # "wait" /\ bin \in Bus("ifetch", waits.ifetch, in.imem)
    BY <1>4 DEF FetchBins
  <2> QED
    BY <1>1, <2>1
<1>5. CASE bin \in DataBins(in)
  <2>1. dmem_answered(in) /\ bin \in Bus(operation, waits.data, in.dmem)
    BY <1>5 DEF DataBins
  <2> QED
    BY <1>1, <1>3, <2>1 DEF dmem_answered
<1> QED
  BY <1>2, <1>4, <1>5 DEF bin

\* An edge of the bench preserves it.
LEMMA WaitsStep ==
  ASSUME BenchInv, WaitsInv, NEW in \in Inputs, Attached(in), NativeMemoryEdge, MonitorEdge(in),
         test' = test
  PROVE  WaitsInv'
<1>1. imem_valid \in BOOLEAN /\ dmem_valid \in BOOLEAN
  BY ValidBoolean DEF BenchInv, IInv
<1>2. /\ in.imem = "wait" <=> ~Ready(DrivenImem)
      /\ in.dmem = "wait" <=> ~Ready(DrivenDmem)
  BY DEF Attached, imem_answer, dmem_answer, Answer
<1>3. test.instruction_wait \in Nat /\ test.data_wait \in Nat
  BY DEF WaitsInv
<1>4. /\ Counts(Waited(waits.ifetch, imem_valid, in.imem), Sampled(DrivenImem, imem_valid),
                test.instruction_wait)
      /\ imem_valid /\ in.imem # "wait" => waits.ifetch = WaitBin(test.instruction_wait)
  BY <1>1, <1>2, <1>3, PortCounts DEF BenchInv, WaitsInv, DrivenImem
<1>5. /\ Counts(Waited(waits.data, dmem_valid, in.dmem), Sampled(DrivenDmem, dmem_valid),
                test.data_wait)
      /\ dmem_valid /\ in.dmem # "wait" => waits.data = WaitBin(test.data_wait)
  BY <1>1, <1>2, <1>3, PortCounts DEF BenchInv, WaitsInv, DrivenDmem
<1>6. /\ imem' = Sampled(DrivenImem, imem_valid) /\ dmem' = Sampled(DrivenDmem, dmem_valid)
      /\ waits'.ifetch = Waited(waits.ifetch, imem_valid, in.imem)
      /\ waits'.data = Waited(waits.data, dmem_valid, in.dmem)
      /\ hits' = FetchBins(in) \cup DataBins(in) \cup CommitBins(in)
  BY DEF NativeMemoryEdge, MonitorEdge
<1>7. ASSUME NEW port \in {"ifetch", "load", "store"}, NEW n,
             <<"bus", port, "wait", n>> \in hits'
      PROVE  n = WaitBin(WaitsOf(port))
  BY <1>4, <1>5, <1>6, <1>7, WaitBinHit, Zenon DEF WaitsOf
<1>8. \A port : WaitsOf(port)' = WaitsOf(port)
  BY DEF WaitsOf
<1>9. WaitBinsTrue'
  BY <1>7, <1>8, Zenon DEF WaitBinsTrue
<1> QED
  BY <1>3, <1>4, <1>5, <1>6, <1>9, Zenon DEF WaitsInv, Counts

-----------------------------------------------------------------------------
(* What the monitor counts: branches.                                      *)

\* The PC of the instruction that retires next, behind EX, behind MEM, behind WB.
AfterWb     == IF exmem.valid THEN exmem.pc ELSE YoungPc
AfterCommit == IF memwb.valid THEN wb_pc_q ELSE AfterWb

\* Where a branch goes, if no trap comes in between.
Target(n, taken) == IF taken THEN Plus(n, prog[n].imm) ELSE Plus(n, 1)
GoesTo(next, n, taken) == next \in {Target(n, taken)} \cup Vectors

\* A branch in MEM has gone where its operands say, and nothing has written
\* them since.
BranchInMem == exmem.valid /\ exmem.insn.op = "beq" =>
  GoesTo(YoungPc, exmem.pc, WriteBack[exmem.insn.rs1] = WriteBack[exmem.insn.rs2])

\* One in WB likewise; its shadow has its PC.
BranchInWb == memwb.valid /\ memwb.insn.op = "beq" =>
  /\ wb_pc_q \in Word /\ memwb.insn = prog[wb_pc_q]
  /\ GoesTo(AfterWb, wb_pc_q, regs[memwb.insn.rs1] = regs[memwb.insn.rs2])

\* The branch the monitor holds is the last that retired, and the next commit
\* is its successor.
BranchCommitted == pending_branch # NoBranch =>
  \E n \in Word : /\ pending_branch = [name |-> "beq", pc |-> n]
                  /\ prog[n].op = "beq"
                  /\ GoesTo(AfterCommit, n, branch.taken)

\* No branch of the program names the instruction behind it.
BranchesLeap == \A n \in Word : prog[n].op = "beq" => prog[n].imm # 1

\* What the monitor makes of branches.
BranchesInv == BranchesLeap /\ BranchInMem /\ BranchInWb /\ BranchCommitted /\ BranchBinsTrue

\* A branch that does not name the next instruction goes somewhere else.
LEMMA LeapMoves == \A n, i \in Word : i # 1 => Plus(n, i) # Plus(n, 1)
<1> TAKE n, i \in Word
<1>h. HAVE i # 1
<1>1. Words \in Nat /\ Words > 3 /\ n \in Nat /\ n < Words /\ i \in Nat /\ i < Words
  BY WordsAssumption DEF Word
<1>2. \A k \in Nat : k < Words => (n + k) % Words = IF n + k < Words THEN n + k ELSE n + k - Words
  BY <1>1
<1> QED
  BY <1>h, <1>1, <1>2 DEF Plus

\* While the pipeline waits nothing moves on.
LEMMA OrderWaits ==
  ASSUME IInv, NEW in \in Inputs, Edge(in), ShadowEdge(in), pipeline_stall(in)
  PROVE  YoungPc' = YoungPc /\ AfterWb' = AfterWb /\ AfterCommit' = AfterCommit
<1>1. YoungPc' = YoungPc /\ exmem' = exmem /\ memwb' = memwb
  BY StallHolds, StallFreezes
<1>2. wb_pc_q' = wb_pc_q
  BY DEF ShadowEdge
<1> QED
  BY <1>1, <1>2, Zenon DEF AfterWb, AfterCommit

\* When it moves on, what follows MEM follows WB, and what follows WB is next,
\* unless a trap comes first.
LEMMA OrderMoves ==
  ASSUME IInv, NEW in \in Inputs, Edge(in), ShadowEdge(in), ~pipeline_stall(in)
  PROVE  AfterWb' \in {YoungPc} \cup Vectors /\ AfterCommit' \in {AfterWb} \cup Vectors
<1>1. /\ memwb'.valid = (exmem.valid /\ ~data_access_exception(in))
      /\ wb_pc_q' = exmem.pc
  BY DEF Edge, MemWbEdge, ShadowEdge
<1>2. exmem.valid \in BOOLEAN /\ idex.valid \in BOOLEAN
  BY DEF IInv, TypeOK
<1>3. CASE trap_enter(in)
  <2>1. system_redirect(in) /\ flush_if_id(in)
    BY <1>3 DEF system_redirect, flush_if_id
  <2>2. YoungPc' \in Vectors
    BY <1>3, <2>1, FlushEmpties DEF system_redirect_pc, Vectors
  <2>3. ~exmem'.valid
    BY <1>3 DEF Edge, ExMemEdge, ExMemFlushed
  <2>4. AfterWb' = YoungPc'
    BY <2>3, Zenon DEF AfterWb
  <2>5. AfterCommit' = IF exmem.valid /\ ~data_access_exception(in) THEN exmem.pc ELSE AfterWb'
    BY <1>1, Zenon DEF AfterCommit
  <2> QED
    BY <1>2, <2>2, <2>4, <2>5 DEF AfterWb
<1>4. CASE ~trap_enter(in)
  <2>1. exmem'.valid = idex.valid /\ exmem'.pc = idex.pc
    BY <1>4 DEF Edge, ExMemEdge
  <2>2. ~idex.valid => YoungPc' = YoungPc
    <3> SUFFICES ASSUME ~idex.valid PROVE YoungPc' = YoungPc
      OBVIOUS
    <3>1. ~flush_if_id(in)
      BY <1>4, BubbleHazards DEF flush_if_id, system_redirect, mret_taken, wfi_sleep,
                                 fence_i_taken
    <3> QED
      BY <3>1, FlowMovesOn DEF YoungPc
  <2>3. AfterWb' = YoungPc
    <3>1. AfterWb' = IF idex.valid THEN idex.pc ELSE YoungPc'
      BY <2>1, Zenon DEF AfterWb
    <3> QED
      BY <2>2, <3>1, Zenon DEF YoungPc
  <2>4. ~data_access_exception(in)
    BY <1>4 DEF trap_enter
  <2>5. AfterCommit' = IF exmem.valid THEN exmem.pc ELSE YoungPc
    BY <1>1, <1>2, <2>3, <2>4, Zenon DEF AfterCommit
  <2> QED
    BY <2>3, <2>5 DEF AfterWb
<1> QED
  BY <1>3, <1>4

\* A branch leaves EX for where it goes, on the operands it will retire with.
LEMMA BranchLeaves ==
  ASSUME OrderInv, NEW in \in Inputs, Edge(in), ~pipeline_stall(in),
         exmem'.valid, exmem'.insn.op = "beq"
  PROVE  /\ exmem'.insn = prog[exmem'.pc] /\ exmem'.pc \in Word
         /\ YoungPc' = Target(exmem'.pc, WriteBack'[exmem'.insn.rs1] = WriteBack'[exmem'.insn.rs2])
<1>1. /\ idex.valid /\ ~idex.fault /\ ~trap_enter(in)
      /\ exmem'.insn = idex.insn /\ exmem'.pc = idex.pc
  BY LeavingEx DEF OrderInv, IInv
<1>2. idex.insn = prog[idex.pc] /\ idex.insn.op = "beq" /\ idex.pc \in Word
  BY <1>1 DEF OrderInv, StagesHoldProgram, IInv, TypeOK
<1>3. /\ operand_a = RegsAfterMem[idex.insn.rs1]
      /\ operand_b = RegsAfterMem[idex.insn.rs2]
  BY <1>1, <1>2, OperandsAfterMem DEF OrderInv, Rs1Read, Rs2Read, MemWrite
<1>4. WriteBack' = RegsAfterMem
  BY <1>1, RetireMovesOn DEF OrderInv, IInv, trap_enter
<1>5. ~system_redirect(in)
  BY <1>1, <1>2 DEF system_redirect, mret_taken, wfi_sleep, fence_i_taken
<1>6. control_hazard <=> operand_a = operand_b
  BY <1>2 DEF control_hazard, ex_branch_taken, ex_jump
<1>7. CASE operand_a = operand_b
  <2>1. flush_if_id(in)
    BY <1>6, <1>7 DEF flush_if_id
  <2>2. YoungPc' = control_transfer_target
    BY <1>5, <2>1, FlushEmpties DEF OrderInv
  <2>3. control_transfer_target = Plus(idex.pc, idex.insn.imm)
    BY <1>2 DEF control_transfer_target
  <2> QED
    BY <1>1, <1>2, <1>3, <1>4, <1>7, <2>2, <2>3 DEF Target
<1>8. CASE operand_a # operand_b
  <2>1. ~flush_if_id(in)
    BY <1>5, <1>6, <1>8 DEF flush_if_id
  <2>2. YoungPc' = FrontPc
    BY <2>1, FlowMovesOn DEF OrderInv
  <2>3. FrontPc = Plus(idex.pc, 1)
    BY <1>1, <1>6, <1>8 DEF OrderInv, PathIsSequential
  <2> QED
    BY <1>1, <1>2, <1>3, <1>4, <1>8, <2>2, <2>3 DEF Target
<1> QED
  BY <1>7, <1>8

\* What was to follow still does, or a trap.
LEMMA StillGoes ==
  ASSUME NEW next, NEW later, NEW n, NEW taken, GoesTo(next, n, taken),
         later \in {next} \cup Vectors
  PROVE  GoesTo(later, n, taken)
BY DEF GoesTo

\* The first of a bin's names tells a commit.
LEMMA CommitIsSeen ==
  ASSUME NEW in, hits' = FetchBins(in) \cup DataBins(in) \cup CommitBins(in)
  PROVE  (\A bin \in hits' : bin[1] # "instruction") <=> ~commit_valid(in)
<1>1. \A p, k, a : \A bin \in Bus(p, k, a) : bin[1] = "bus"
  BY DEF Bus
<1>2. \A bin \in FetchBins(in) \cup DataBins(in) : bin[1] = "bus"
  BY <1>1 DEF FetchBins, DataBins
<1>3. ~commit_valid(in) => CommitBins(in) = {}
  BY DEF CommitBins
<1>4. commit_valid(in) => <<"instruction", memwb.insn.op>> \in CommitBins(in)
  BY DEF CommitBins
<1>5. <<"instruction", memwb.insn.op>>[1] = "instruction" /\ "bus" # "instruction"
  OBVIOUS
<1> QED
  BY <1>2, <1>3, <1>4, <1>5, Zenon

\* A branch bin is hit by the commit behind the branch.
LEMMA BranchBinHit ==
  ASSUME NEW in, NEW outcome,
         <<"branch", outcome>> \in FetchBins(in) \cup DataBins(in) \cup CommitBins(in)
  PROVE  /\ commit_valid(in) /\ pending_branch # NoBranch
         /\ outcome = IF wb_pc_q = Plus(pending_branch.pc, 1) THEN "not_taken" ELSE "taken"
<1> DEFINE bin == <<"branch", outcome>>
<1>1. \A p, k, a : bin \notin Bus(p, k, a)
  BY DEF Bus
<1>2. bin \in CommitBins(in)
  BY <1>1, Zenon DEF FetchBins, DataBins
<1>3. \A o : bin # <<"instruction", o>>
  OBVIOUS
<1>4. \A o : bin = <<"branch", o>> => outcome = o
  OBVIOUS
<1> HIDE DEF bin
<1>5. commit_valid(in)
  BY <1>2 DEF CommitBins
<1>6. bin \in IF pending_branch = NoBranch THEN {}
              ELSE {<<"branch", IF wb_pc_q = Plus(pending_branch.pc, 1) THEN "not_taken"
                                ELSE "taken">>}
  BY <1>2, <1>3, <1>5 DEF CommitBins
<1> QED
  BY <1>4, <1>5, <1>6

\* An edge preserves what the monitor makes of branches.
LEMMA BranchesStep ==
  ASSUME OrderInv, ShadowMatches, BranchesInv, NEW in \in Inputs, Edge(in), ShadowEdge(in),
         MonitorEdge(in), BranchStep
  PROVE  BranchesInv'
<1>1. prog' = prog
  BY DEF Edge
<1>2. BranchesLeap'
  BY <1>1 DEF BranchesInv, BranchesLeap
<1>3. hits' = FetchBins(in) \cup DataBins(in) \cup CommitBins(in)
  BY DEF MonitorEdge
<1>4. commit_valid(in) <=> memwb.valid /\ ~pipeline_stall(in)
  <2>1. memwb.valid \in BOOLEAN
    BY DEF OrderInv, IInv, TypeOK
  <2> QED
    BY <2>1 DEF ShadowMatches, commit_valid, pipeline_advance
<1>5. branch' = IF ~commit_valid(in) THEN branch
                ELSE [taken |-> regs[memwb.insn.rs1] = regs[memwb.insn.rs2],
                      bins |-> IF wb_pc_q \in Vectors THEN {"taken", "not_taken"}
                               ELSE {IF branch.taken THEN "taken" ELSE "not_taken"}]
  BY <1>3, CommitIsSeen, Zenon DEF BranchStep
<1>6. BranchInMem'
  <2> SUFFICES ASSUME exmem'.valid, exmem'.insn.op = "beq"
               PROVE  GoesTo(YoungPc', exmem'.pc,
                             WriteBack'[exmem'.insn.rs1] = WriteBack'[exmem'.insn.rs2])
    BY <1>1, Zenon DEF BranchInMem, GoesTo, Target, Vectors
  <2>1. CASE pipeline_stall(in)
    <3>1. exmem' = exmem /\ WriteBack' = WriteBack /\ YoungPc' = YoungPc
      BY <2>1, StallFreezes, StallHolds DEF OrderInv
    <3>2. GoesTo(YoungPc, exmem.pc, WriteBack[exmem.insn.rs1] = WriteBack[exmem.insn.rs2])
      BY <3>1 DEF BranchesInv, BranchInMem
    <3> QED
      BY <3>1, <3>2, Zenon
  <2>2. CASE ~pipeline_stall(in)
    BY <2>2, BranchLeaves DEF GoesTo
  <2> QED
    BY <2>1, <2>2
<1>7. BranchInWb'
  <2> SUFFICES ASSUME memwb'.valid, memwb'.insn.op = "beq"
               PROVE  /\ wb_pc_q' \in Word /\ memwb'.insn = prog[wb_pc_q']
                      /\ GoesTo(AfterWb', wb_pc_q',
                                regs'[memwb'.insn.rs1] = regs'[memwb'.insn.rs2])
    BY <1>1, Zenon DEF BranchInWb, GoesTo, Target, Vectors
  <2>1. CASE pipeline_stall(in)
    <3>1. memwb' = memwb /\ regs' = regs /\ AfterWb' = AfterWb
      BY <2>1, StallFreezes, StallHolds, OrderWaits DEF OrderInv
    <3>2. wb_pc_q' = wb_pc_q
      BY <2>1 DEF ShadowEdge
    <3>3. /\ wb_pc_q \in Word /\ memwb.insn = prog[wb_pc_q]
          /\ GoesTo(AfterWb, wb_pc_q, regs[memwb.insn.rs1] = regs[memwb.insn.rs2])
      BY <3>1 DEF BranchesInv, BranchInWb
    <3> QED
      BY <3>1, <3>2, <3>3, Zenon
  <2>2. CASE ~pipeline_stall(in)
    <3>1. exmem.valid /\ memwb'.insn = exmem.insn /\ wb_pc_q' = exmem.pc
      BY <2>2 DEF Edge, MemWbEdge, ShadowEdge
    <3>2. regs' = WriteBack
      BY <2>2, RetireMovesOn DEF OrderInv, IInv
    <3>3. GoesTo(YoungPc, exmem.pc, WriteBack[exmem.insn.rs1] = WriteBack[exmem.insn.rs2])
      BY <3>1 DEF BranchesInv, BranchInMem
    <3>4. AfterWb' \in {YoungPc} \cup Vectors
      BY <2>2, OrderMoves DEF OrderInv
    <3>5. GoesTo(AfterWb', exmem.pc, WriteBack[exmem.insn.rs1] = WriteBack[exmem.insn.rs2])
      BY <3>3, <3>4, StillGoes
    <3>6. exmem.pc \in Word /\ exmem.insn = prog[exmem.pc]
      BY <3>1 DEF OrderInv, IInv, TypeOK, StagesHoldProgram
    <3> QED
      BY <3>1, <3>2, <3>5, <3>6, Zenon
  <2> QED
    BY <2>1, <2>2
<1>8. BranchCommitted'
  <2> SUFFICES ASSUME pending_branch' # NoBranch
               PROVE  \E n \in Word : /\ pending_branch' = [name |-> "beq", pc |-> n]
                                      /\ prog[n].op = "beq"
                                      /\ GoesTo(AfterCommit', n, branch'.taken)
    BY <1>1, Zenon DEF BranchCommitted, GoesTo, Target, Vectors, NoBranch
  <2>1. CASE ~commit_valid(in)
    <3>1. pending_branch' = pending_branch /\ branch' = branch
      BY <1>5, <2>1 DEF MonitorEdge
    <3>2. AfterCommit' \in {AfterCommit} \cup Vectors
      <4>1. CASE pipeline_stall(in)
        BY <4>1, OrderWaits DEF OrderInv
      <4>2. CASE ~pipeline_stall(in)
        <5>1. AfterCommit = AfterWb
          BY <1>4, <2>1, <4>2 DEF AfterCommit
        <5> QED
          BY <4>2, <5>1, OrderMoves DEF OrderInv
      <4> QED
        BY <4>1, <4>2
    <3>3. PICK n \in Word : /\ pending_branch = [name |-> "beq", pc |-> n]
                            /\ prog[n].op = "beq"
                            /\ GoesTo(AfterCommit, n, branch.taken)
      BY <3>1 DEF BranchesInv, BranchCommitted
    <3> QED
      BY <3>1, <3>2, <3>3, StillGoes
  <2>2. CASE commit_valid(in)
    <3>1. memwb.valid /\ ~pipeline_stall(in)
      BY <1>4, <2>2
    <3>2. memwb.insn.op = "beq" /\ pending_branch' = [name |-> "beq", pc |-> wb_pc_q]
      BY <2>2 DEF MonitorEdge
    <3>3. branch'.taken = (regs[memwb.insn.rs1] = regs[memwb.insn.rs2])
      BY <1>5, <2>2
    <3>4. /\ wb_pc_q \in Word /\ memwb.insn = prog[wb_pc_q]
          /\ GoesTo(AfterWb, wb_pc_q, branch'.taken)
      BY <3>1, <3>2, <3>3 DEF BranchesInv, BranchInWb
    <3>5. AfterCommit' \in {AfterWb} \cup Vectors
      BY <3>1, OrderMoves DEF OrderInv
    <3> QED
      BY <3>2, <3>4, <3>5, StillGoes
  <2> QED
    BY <2>1, <2>2
<1>9. BranchBinsTrue'
  <2> SUFFICES ASSUME NEW outcome \in {"taken", "not_taken"}, <<"branch", outcome>> \in hits'
               PROVE  outcome \in branch'.bins
    BY Zenon DEF BranchBinsTrue
  <2>1. /\ commit_valid(in) /\ pending_branch # NoBranch
        /\ outcome = IF wb_pc_q = Plus(pending_branch.pc, 1) THEN "not_taken" ELSE "taken"
    BY <1>3, BranchBinHit
  <2>2. PICK n \in Word : /\ pending_branch = [name |-> "beq", pc |-> n]
                          /\ prog[n].op = "beq"
                          /\ GoesTo(AfterCommit, n, branch.taken)
    BY <2>1 DEF BranchesInv, BranchCommitted
  <2>3. wb_pc_q \in {Target(n, branch.taken)} \cup Vectors
    BY <1>4, <2>1, <2>2 DEF GoesTo, AfterCommit
  <2>4. branch'.bins = IF wb_pc_q \in Vectors THEN {"taken", "not_taken"}
                       ELSE {IF branch.taken THEN "taken" ELSE "not_taken"}
    BY <1>5, <2>1
  <2>5. Plus(n, prog[n].imm) # Plus(n, 1)
    <3>1. prog[n].imm \in Word /\ prog[n].imm # 1
      BY <2>2 DEF BranchesInv, BranchesLeap, OrderInv, IInv, TypeOK, Instruction
    <3> QED
      BY <3>1, LeapMoves
  <2>6. outcome = IF wb_pc_q = Plus(n, 1) THEN "not_taken" ELSE "taken"
    BY <2>1, <2>2
  <2> QED
    BY <2>3, <2>4, <2>5, <2>6 DEF Target
<1> QED
  BY <1>2, <1>6, <1>7, <1>8, <1>9, Zenon DEF BranchesInv

-----------------------------------------------------------------------------
(* The bench with its monitor.                                             *)

\* The cocotb bench with the history of the last branch, for any test and any
\* program whose branches go somewhere else.
MonitorInit == /\ HarnessInit
               /\ branch = [taken |-> FALSE, bins |-> {}]
               /\ test.instruction_wait \in Nat /\ test.data_wait \in Nat
               /\ BranchesLeap

\* An edge of the bench.
MonitorNext == HarnessNext /\ BranchStep

\* The bench for any test and any such program.
MonitorSpec == MonitorInit /\ [][MonitorNext]_<<harnessVars, branch>>

\* The inductive invariant: the pipeline's, the shadow's, the memories' and what
\* the monitor makes of them.
MonitorInv == OrderInv /\ ShadowMatches /\ BenchInv /\ WaitsInv /\ BranchesInv

\* Reset satisfies it.
LEMMA MonitorInitEstablishes == MonitorInit => MonitorInv
<1> SUFFICES ASSUME MonitorInit PROVE MonitorInv
  OBVIOUS
<1>1. Init /\ RvfiInit /\ HarnessInit
  BY DEF MonitorInit, HarnessInit, RvfiInit
<1>2. OrderInv /\ BenchInv
  BY <1>1, OrderInitEstablishes, BenchInitEstablishes
<1>3. ~exmem.valid /\ exmem.valid = FALSE /\ memwb.valid = FALSE
  BY <1>1 DEF Init, ExMemFlushed, MemWbFlushed
<1>4. ShadowMatches
  BY <1>1, <1>3 DEF RvfiInit, ShadowMatches
<1>5. hits = {} /\ pending_branch = NoBranch
  BY <1>1 DEF HarnessInit
<1>6. WaitsInv
  <2>1. waits.ifetch = 0 /\ waits.data = 0 /\ ~imem.active /\ ~dmem.active
    BY <1>1 DEF HarnessInit, NoRequest
  <2> QED
    BY <1>5, <2>1 DEF MonitorInit, WaitsInv, Counts, WaitBinsTrue
<1>7. BranchesInv
  BY <1>3, <1>5 DEF MonitorInit, BranchesInv, BranchInMem, BranchInWb, BranchCommitted,
                    BranchBinsTrue
<1> QED
  BY <1>2, <1>4, <1>6, <1>7 DEF MonitorInv

\* Every step preserves it.
LEMMA MonitorStep == MonitorInv /\ [MonitorNext]_<<harnessVars, branch>> => MonitorInv'
<1> SUFFICES ASSUME MonitorInv, [MonitorNext]_<<harnessVars, branch>> PROVE MonitorInv'
  OBVIOUS
<1>1. BenchInv'
  BY BenchStep DEF MonitorInv, MonitorNext
<1>2. CASE MonitorNext
  <2>1. PICK in \in Inputs : /\ Attached(in) /\ Edge(in) /\ ShadowEdge(in)
                             /\ NativeMemoryEdge /\ MonitorEdge(in) /\ test' = test
    BY <1>2 DEF MonitorNext, HarnessNext
  <2>2. BranchStep
    BY <1>2 DEF MonitorNext
  <2>3. OrderInv'
    BY <2>1, EdgeIsNext, OrderStep DEF MonitorInv
  <2>4. ShadowMatches'
    BY <2>1, ShadowStep DEF MonitorInv, OrderInv, IInv
  <2>5. WaitsInv'
    BY <2>1, WaitsStep DEF MonitorInv
  <2>6. BranchesInv'
    BY <2>1, <2>2, BranchesStep DEF MonitorInv
  <2> QED
    BY <1>1, <2>3, <2>4, <2>5, <2>6 DEF MonitorInv
<1>3. CASE UNCHANGED <<harnessVars, branch>>
  <2>1. UNCHANGED vars /\ UNCHANGED rvfi /\ UNCHANGED <<test, bench, branch>>
    BY <1>3 DEF harnessVars, rvfiVars
  <2>2. OrderInv'
    BY <2>1, OrderStep DEF MonitorInv
  <2>3. ShadowMatches'
    BY <2>1 DEF MonitorInv, ShadowMatches, vars, core, stages, rvfi
  <2>4. WaitsInv'
    BY <2>1 DEF MonitorInv, WaitsInv, Counts, WaitBinsTrue, WaitsOf, bench
  <2>5. BranchesInv'
    BY <2>1 DEF MonitorInv, BranchesInv, BranchesLeap, BranchInMem, BranchInWb, BranchCommitted,
       BranchBinsTrue, GoesTo, Target, Vectors, AfterWb, AfterCommit, YoungPc, FrontPc, WriteBack,
       NoBranch, bench, rvfi, vars, core, stages
  <2> QED
    BY <1>1, <2>2, <2>3, <2>4, <2>5 DEF MonitorInv
<1> QED
  BY <1>2, <1>3

\* So it holds of every behaviour.
LEMMA MonitorInductive == MonitorSpec => []MonitorInv
BY MonitorInitEstablishes, MonitorStep, PTL DEF MonitorSpec

\* Every wait bin of the report is the test's wait states and every branch bin
\* the outcome of the branch, for any number of wait states.
THEOREM MonitorMeasures ==
  MonitorSpec => [](AssertionsHold /\ BooksBalance /\ WaitBinsTrue /\ BranchBinsTrue)
<1>1. MonitorInv => AssertionsHold /\ BooksBalance /\ WaitBinsTrue /\ BranchBinsTrue
  BY BenchAsserts DEF MonitorInv, BenchInv, WaitsInv, BranchesInv
<1> QED
  BY <1>1, MonitorInductive, PTL

\* The tests of the runs and their programs are of that kind.
LEMMA TestsAreMonitored ==
  ASSUME MCInit, test # Formal
  PROVE  test \in Tests /\ MonitorInit
<1>1. test \in Tests /\ prog \in CocotbPrograms
  BY DEF MCInit
<1>2. test.instruction_wait \in Nat /\ test.data_wait \in Nat
  BY <1>1 DEF Tests
<1>3. \A i \in CocotbCode \cup {R("mret", 0, 0, 0, 0)} : i.op = "beq" => i.imm = 2
  BY DEF CocotbCode, R
<1>4. BranchesLeap
  <2> SUFFICES ASSUME NEW n \in Word, prog[n].op = "beq" PROVE prog[n].imm # 1
    BY DEF BranchesLeap
  <2>1. PICK p \in [0 .. 2 -> CocotbCode] :
          prog = [k \in Word |-> IF k < 3 THEN p[k] ELSE R("mret", 0, 0, 0, 0)]
    BY <1>1 DEF CocotbPrograms, Program
  <2>2. n < 3 => n \in 0 .. 2
    BY DEF Word
  <2>3. prog[n] \in CocotbCode \cup {R("mret", 0, 0, 0, 0)}
    BY <2>1, <2>2
  <2>4. prog[n].imm = 2
    BY <1>3, <2>3
  <2> QED
    BY <2>4
<1> QED
  BY <1>1, <1>2, <1>4 DEF MCInit, MonitorInit

\* On the cocotb bench the monitor's invariant holds.
LEMMA TestsInductive == MCSpec => [](test # Formal => test \in Tests /\ MonitorInv)
<1> DEFINE Inv == test # Formal => test \in Tests /\ MonitorInv
<1>1. MCInit => Inv
  BY TestsAreMonitored, MonitorInitEstablishes
<1>2. Inv /\ [MCNext]_<<harnessVars, branch>> => Inv'
  <2> SUFFICES ASSUME Inv, [MCNext]_<<harnessVars, branch>>, test' # Formal'
               PROVE  test' \in Tests' /\ MonitorInv'
    OBVIOUS
  <2>1. test' = test /\ Formal' = Formal /\ Tests' = Tests
    BY DEF MCNext, HarnessNext, harnessVars, Formal, Tests
  <2>2. [MonitorNext]_<<harnessVars, branch>>
    BY <2>1 DEF MCNext, MonitorNext
  <2> QED
    BY <2>1, <2>2, MonitorStep
<1> QED
  BY <1>1, <1>2, PTL DEF MCSpec

\* The cocotb bench measures what happens.
THEOREM BenchMeasuresHolds == MCSpec => []BenchMeasures
<1>1. ASSUME test # Formal => test \in Tests /\ MonitorInv
      PROVE  BenchMeasures
  <2> SUFFICES ASSUME test # Formal
               PROVE  AssertionsHold /\ BooksBalance /\ WaitBinsExact /\ BranchBinsTrue
    BY DEF BenchMeasures
  <2>1. AssertionsHold /\ BooksBalance /\ WaitBinsTrue /\ BranchBinsTrue
    BY <1>1, BenchAsserts DEF MonitorInv, BenchInv, WaitsInv, BranchesInv
  <2>2. test.instruction_wait \in 0 .. 2 /\ test.data_wait \in 0 .. 2
    BY <1>1 DEF Tests
  <2>3. \A w \in 0 .. 2 : WaitBin(w) = w
    BY DEF WaitBin
  <2>4. WaitBinsExact
    BY <2>1, <2>2, <2>3 DEF WaitBinsExact, WaitBinsTrue, WaitsOf
  <2> QED
    BY <2>1, <2>4
<1> QED
  BY <1>1, TestsInductive, PTL

-----------------------------------------------------------------------------
(* Both benches.                                                           *)

\* Both benches run the pipeline and its shadow, so what is proved of those
\* holds on either.
THEOREM BenchesRunRvfi == MCSpec => RvfiSpec
<1>1. MCInit => RvfiInit
  BY DEF MCInit, HarnessInit
<1>2. [MCNext]_<<harnessVars, branch>> => [RvfiNext]_rvfiVars
  BY DEF MCNext, HarnessNext, RvfiNext, harnessVars
<1> QED
  BY <1>1, <1>2, PTL DEF MCSpec, RvfiSpec

\* A memory without instruction wait states answers every fetch at once.
LEMMA ZeroWaitAnswers ==
  ASSUME MonitorInv, NEW in \in Inputs, Attached(in), test.instruction_wait = 0
  PROVE  ~imem_wait(in)
<1>1. IsPort(imem) /\ (imem.active => imem.accepted)
  BY DEF MonitorInv, WaitsInv, Counts, BenchInv
<1>2. imem_valid => Ready(DrivenImem)
  <2> SUFFICES ASSUME imem_valid PROVE Ready(DrivenImem)
    OBVIOUS
  <2>1. DrivenImem = [active |-> TRUE, accepted |-> FALSE, remaining |-> 0,
                      request |-> imem_request]
    BY <1>1 DEF IsPort, DrivenImem, Taken, NoRequest
  <2> QED
    BY <2>1 DEF Ready
<1>3. imem_valid => in.imem # "wait"
  BY <1>2 DEF Attached, imem_answer, Answer
<1> QED
  BY <1>3 DEF imem_wait, if_complete

\* On either bench the channel is in order if the instruction memory has no
\* wait states, whatever those of the data memory.
THEOREM InOrderAtZeroWaitHolds == MCSpec => InOrderAtZeroWait
<1>1. RvfiInv /\ (test # Formal => MonitorInv) /\ [MCNext]_<<harnessVars, branch>>
        => [test = Formal \/ test.instruction_wait = 0 => InOrder]_harnessVars
  <2> SUFFICES ASSUME RvfiInv, test # Formal => MonitorInv, MCNext,
                      test = Formal \/ test.instruction_wait = 0, packet'.trap
               PROVE  ~memwb.valid
    BY DEF InOrder
  <2>1. CASE test = Formal
    <3>1. PICK in \in Inputs : in.imem = "ok" /\ Edge(in) /\ ShadowEdge(in)
      BY <2>1 DEF MCNext
    <3>2. ~imem_wait(in)
      BY <3>1 DEF imem_wait, if_complete
    <3> QED
      BY <3>1, <3>2, TrapShownLast
  <2>2. CASE test # Formal
    <3>1. PICK in \in Inputs : Attached(in) /\ Edge(in) /\ ShadowEdge(in)
      BY <2>2 DEF MCNext, HarnessNext
    <3>2. ~imem_wait(in)
      BY <2>2, <3>1, ZeroWaitAnswers
    <3> QED
      BY <3>1, <3>2, TrapShownLast
  <2> QED
    BY <2>1, <2>2
<1> QED
  BY <1>1, BenchesRunRvfi, RvfiInductive, TestsInductive, PTL DEF MCSpec, InOrderAtZeroWait
=============================================================================
