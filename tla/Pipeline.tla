------------------------------ MODULE Pipeline ------------------------------
(***************************************************************************)
(* tdrv32_pipeline.sv: the five stages, their registers, forwarding,       *)
(* hazards, traps, interrupts, WFI, FENCE.I and the two native ports.      *)
(*                                                                         *)
(* One step of Next is one rising edge of i_clk.  What the environment     *)
(* drives in the cycle that ends there is the record in:                   *)
(*   in.imem  the instruction port: "wait", or a complete instruction      *)
(*            ("ok"), or one the bus failed, with ("fault_insn") or        *)
(*            without ("fault_nop") the parcels it carried (FetchBuffer);  *)
(*   in.dmem  the data port: "wait", "ok" or "error";                      *)
(*   in.mdu   the multiply/divide unit is in its final iteration;          *)
(* and irq, the interrupt line.  The combinational signals of the source   *)
(* are operators of the same name, with in where they depend on it.        *)
(***************************************************************************)
EXTENDS Instructions

CONSTANTS Boot, Programs, TrapVector, InterruptVector,
          ImemAnswers, DmemAnswers,   \* the answers the two ports may give
          IrqLevels                   \* the levels the interrupt line may take

\* No word of a program decodes to a cleared control bank.
ASSUME ProgramAssumption == Programs \subseteq [Word -> {i \in Instruction : i.op # "none"}]
ASSUME VectorAssumption  == TrapVector \in Word /\ InterruptVector \in Word
ASSUME InputAssumption ==
  /\ ImemAnswers \subseteq {"wait", "ok", "fault_insn", "fault_nop"}
  /\ DmemAnswers \subseteq {"wait", "ok", "error"}
  /\ IrqLevels \subseteq BOOLEAN
ASSUME BootAssumption ==
  Boot \subseteq [pc: Word, regs: [Reg -> Word], mem: [Word -> Word], csr: TrapState,
                 accesses: Word, sleeping: {FALSE}]

VARIABLES
  prog,          \* the instruction memory
  irq,           \* the interrupt line in this cycle
  pc,            \* if_pc_current
  held,          \* the fetch buffer's response hold, or Nothing
  ifid, idex, exmem, memwb,           \* the pipeline registers
  regs, csr, core_sleep,
  mem, accesses, \* behind the data port: the memory, and the transfers so far
  dmem_complete, dmem_error_pending, dmem_rdata_latched,
  mdu            \* the multiply/divide unit's FSM and the result it computes

stages == <<ifid, idex, exmem, memwb>>
latch  == <<dmem_complete, dmem_error_pending, dmem_rdata_latched>>
core == <<pc, held, stages, regs, csr, core_sleep, mem, accesses, latch, mdu>>
vars == <<prog, irq, core>>

Inputs == [imem: ImemAnswers, dmem: DmemAnswers, mdu: BOOLEAN]

Nothing == [fault |-> FALSE, insn |-> Bubble]   \* the hold is empty

\* The registers as reset and flush leave them.
IfIdFlushed  == [valid |-> FALSE, fault |-> FALSE, pc |-> 0, insn |-> Nop]
IdExFlushed  == [valid |-> FALSE, fault |-> FALSE, pc |-> 0, insn |-> Bubble, a |-> 0, b |-> 0]
ExMemFlushed == [valid |-> FALSE, pc |-> 0, insn |-> Bubble, result |-> 0, b |-> 0]
MemWbFlushed == [valid |-> FALSE, insn |-> Bubble, data |-> 0]

MduIdle == [state |-> "IDLE", result |-> 0]

-----------------------------------------------------------------------------
(* Fetch.                                                                  *)

imem_valid == ~core_sleep /\ held = Nothing

if_complete(in) == held # Nothing \/ (imem_valid /\ in.imem # "wait")

\* What the buffer shows IF/ID: a held error carries no instruction.
if_shows(in) ==
  IF held # Nothing THEN held
  ELSE IF ~if_complete(in) THEN [fault |-> FALSE, insn |-> Nop]
  ELSE [fault |-> in.imem # "ok",
        insn |-> IF in.imem = "fault_nop" THEN Nop ELSE prog[pc]]

imem_wait(in) == imem_valid /\ ~if_complete(in)

-----------------------------------------------------------------------------
(* The data port and the global stall.                                     *)

dmem_request == MemAccess(exmem.insn)
dmem_valid   == dmem_request /\ ~dmem_complete
dmem_addr    == exmem.result
dmem_answered(in) == dmem_valid /\ in.dmem # "wait"
dmem_wait(in) == dmem_valid /\ in.dmem = "wait"

bus_stall(in) == imem_wait(in) \/ dmem_wait(in)

mdu_active   == idex.valid /\ ~idex.fault /\ idex.insn.op = "mul"
\* Fault: the DONE state, in which a bus wait keeps a result, does not count.
MduDoneOnce(in) == mdu.state = "RUN" /\ in.mdu
mdu_done(in) == mdu.state = "DONE" \/ (mdu.state = "RUN" /\ in.mdu)
mdu_stall(in) == mdu_active /\ ~mdu_done(in)

pipeline_stall(in)   == bus_stall(in) \/ mdu_stall(in)
pipeline_advance(in) == ~pipeline_stall(in)

-----------------------------------------------------------------------------
(* Forwarding into EX, and from WB into the store data of MEM.             *)

mem_forward_data == CASE WbSel(exmem.insn) = "PC4" -> Plus(exmem.pc, 1)
                      [] WbSel(exmem.insn) = "IMM" -> exmem.insn.imm
                      [] OTHER -> exmem.result

Matches(insn, addr) == RegWrite(insn) /\ insn.rd # 0 /\ insn.rd = addr

mem_match(addr) == exmem.valid /\ WbSel(exmem.insn) # "MEM" /\ Matches(exmem.insn, addr)
wb_match(addr)  == memwb.valid /\ Matches(memwb.insn, addr)

Forwarded(addr, data) == IF mem_match(addr) THEN mem_forward_data
                         ELSE IF wb_match(addr) THEN memwb.data
                         ELSE data

operand_a == Forwarded(idex.insn.rs1, idex.a)
operand_b == Forwarded(idex.insn.rs2, idex.b)

\* Fault: no forwarding from WB into the store data.
StoreDataUnforwarded == exmem.b

store_data == IF wb_match(exmem.insn.rs2) THEN memwb.data ELSE exmem.b

-----------------------------------------------------------------------------
(* Execute.                                                                *)

ex_data_addr == Plus(operand_a, idex.insn.imm)

ex_result == CASE mdu_active            -> mdu.result
               [] CsrEn(idex.insn)      -> CsrRead(csr, idex.insn.csr)
               [] MemAccess(idex.insn)  -> ex_data_addr
               [] idex.insn.op = "add"  -> Plus(operand_a, operand_b)
               [] idex.insn.op = "auipc" -> Plus(idex.pc, idex.insn.imm)
               [] OTHER                 -> Plus(operand_a, idex.insn.imm)

ex_csr_operand == IF CsrImm(idex.insn) THEN idex.insn.rs1 ELSE operand_a

ex_branch_taken == idex.insn.op = "beq" /\ operand_a = operand_b
ex_jump         == idex.insn.op \in {"jal", "jalr"}

control_transfer_target == IF idex.insn.op = "jalr" THEN ex_data_addr
                           ELSE Plus(idex.pc, idex.insn.imm)

\* The exception the instruction in EX raises by itself, in trap_cause's order.
ex_exception ==
  IF idex.fault THEN "instruction_access"
  ELSE CASE idex.insn.op = "illegal" \/ CsrIllegal(idex.insn) -> "illegal"
         [] idex.insn.op = "ebreak" -> "ebreak"
         [] MemRead(idex.insn) /\ Misaligned(ex_data_addr) -> "load_misaligned"
         [] MemWrite(idex.insn) /\ Misaligned(ex_data_addr) -> "store_misaligned"
         [] idex.insn.op = "ecall" -> "ecall"
         [] OTHER -> "none"

-----------------------------------------------------------------------------
(* Traps, interrupts and the other system redirects.                       *)

data_access_exception(in) ==
  /\ exmem.valid /\ dmem_request
  /\ pipeline_advance(in)
  /\ dmem_error_pending \/ (dmem_answered(in) /\ in.dmem = "error")

ex_sync_trap(in) == pipeline_advance(in) /\ idex.valid /\ ex_exception # "none"

wake_pending == csr.mie /\ irq
irq_pending  == csr.mstatus_mie /\ wake_pending

irq_take(in) == /\ idex.valid /\ irq_pending
                /\ ~data_access_exception(in) /\ ~ex_sync_trap(in)
                /\ pipeline_advance(in)

trap_enter(in) == data_access_exception(in) \/ ex_sync_trap(in) \/ irq_take(in)

mret_taken(in) == /\ idex.valid /\ idex.insn.op = "mret"
                  /\ ~data_access_exception(in) /\ pipeline_advance(in)

\* Fault: the sleep does not wait for the pipeline to advance.
UnhinderedWithoutAdvance(in) == ~trap_enter(in)

Unhindered(in) == ~trap_enter(in) /\ pipeline_advance(in)
wfi_sleep(in)     == idex.valid /\ idex.insn.op = "wfi" /\ Unhindered(in) /\ ~wake_pending
fence_i_taken(in) == idex.valid /\ idex.insn.op = "fence_i" /\ Unhindered(in)

\* Fault: FENCE.I does not refetch.
RedirectWithoutFence(in) == trap_enter(in) \/ mret_taken(in) \/ wfi_sleep(in)

system_redirect(in) == trap_enter(in) \/ mret_taken(in) \/ wfi_sleep(in) \/ fence_i_taken(in)

system_redirect_pc(in) ==
  IF trap_enter(in) THEN IF irq_take(in) THEN InterruptVector ELSE TrapVector
  ELSE IF mret_taken(in) THEN csr.mepc
  ELSE Plus(idex.pc, 1)

trap_cause(in) == IF data_access_exception(in)
                  THEN IF MemRead(exmem.insn) THEN "load_access" ELSE "store_access"
                  ELSE IF irq_take(in) THEN "interrupt" ELSE ex_exception

trap_pc(in) == IF data_access_exception(in) THEN exmem.pc ELSE idex.pc

-----------------------------------------------------------------------------
(* Hazards.                                                                *)

load_use_hazard ==
  /\ MemRead(idex.insn) /\ idex.insn.rd # 0
  /\ \/ Rs1Read(ifid.insn) /\ ifid.insn.rs1 = idex.insn.rd
     \/ Rs2Read(ifid.insn) /\ ifid.insn.rs2 = idex.insn.rd /\ ~MemWrite(ifid.insn)

control_hazard == ex_branch_taken \/ ex_jump

\* Fault: a CSR instruction does not wait for the memory stage.
OrderStallWithoutMem == ifid.valid /\ CsrEn(ifid.insn) /\ (idex.valid \/ memwb.valid)

csr_order_stall == /\ ifid.valid /\ CsrEn(ifid.insn)
                   /\ idex.valid \/ exmem.valid \/ memwb.valid

stall_if_id == load_use_hazard \/ csr_order_stall

flush_if_id(in) == system_redirect(in) \/ control_hazard
flush_id_ex(in) == flush_if_id(in) \/ stall_if_id

pc_hold(in) == core_sleep \/ pipeline_stall(in) \/ (stall_if_id /\ ~flush_if_id(in))

-----------------------------------------------------------------------------
(* The registers at the edge.                                              *)

PcEdge(in) ==
  pc' = IF pc_hold(in) THEN pc
        ELSE IF system_redirect(in) THEN system_redirect_pc(in)
        ELSE IF control_hazard THEN control_transfer_target
        ELSE Plus(pc, 1)

\* Fault: a redirect leaves the response hold alone.
FetchEdgeWithoutFlush(in) ==
  held' = IF pipeline_advance(in) /\ if_complete(in) /\ ~stall_if_id /\ ~flush_if_id(in)
          THEN Nothing
          ELSE IF held = Nothing /\ if_complete(in)
          THEN [if_shows(in) EXCEPT !.insn = IF if_shows(in).fault THEN Nop ELSE @]
          ELSE held

\* rv32c_fetch_buffer.sv's hold: flushed only when the redirect is accepted.
FetchEdge(in) ==
  held' = IF pipeline_advance(in) /\ (flush_if_id(in) \/ (if_complete(in) /\ ~stall_if_id))
          THEN Nothing
          ELSE IF held = Nothing /\ if_complete(in)
          THEN [if_shows(in) EXCEPT !.insn = IF if_shows(in).fault THEN Nop ELSE @]
          ELSE held

\* Flush wins over stall here, and over stall only here: a branch that waits
\* in EX for the bus empties IF/ID at once.
IfIdEdge(in) ==
  ifid' = IF flush_if_id(in) THEN IfIdFlushed
          ELSE IF stall_if_id \/ pipeline_stall(in) THEN ifid
          ELSE [valid |-> if_complete(in), fault |-> if_shows(in).fault,
                pc |-> IF if_complete(in) THEN pc ELSE 0, insn |-> if_shows(in).insn]

\* The register file with the write-through of the WB stage.
WriteBack == IF memwb.valid /\ RegWrite(memwb.insn) /\ memwb.insn.rd # 0
             THEN [regs EXCEPT ![memwb.insn.rd] = memwb.data] ELSE regs

IdExEdge(in) ==
  idex' = IF pipeline_stall(in) THEN idex
          ELSE IF flush_id_ex(in) THEN IdExFlushed
          ELSE [valid |-> ifid.valid, fault |-> ifid.fault, pc |-> ifid.pc,
                insn |-> ifid.insn,
                a |-> WriteBack[ifid.insn.rs1], b |-> WriteBack[ifid.insn.rs2]]

\* Fault: a trap squashes only the valid bit of the instruction in EX.
ExMemEdgeValidOnly(in) ==
  exmem' = IF pipeline_stall(in) THEN exmem
           ELSE [valid |-> idex.valid /\ ~trap_enter(in), pc |-> idex.pc, insn |-> idex.insn,
                 result |-> ex_result, b |-> operand_b]

ExMemEdge(in) ==
  exmem' = IF pipeline_stall(in) THEN exmem
           ELSE IF trap_enter(in) THEN ExMemFlushed
           ELSE [valid |-> idex.valid, pc |-> idex.pc, insn |-> idex.insn,
                 result |-> ex_result, b |-> operand_b]

\* What the data port returns; captured for a load that outlives its answer.
dmem_response == IF dmem_complete THEN dmem_rdata_latched
                 ELSE IF MemRead(exmem.insn) THEN mem[dmem_addr] ELSE 0

mem_wb_data == IF WbSel(exmem.insn) = "MEM" THEN dmem_response ELSE mem_forward_data

\* Fault: write-back takes a bubble while the pipeline is held.
MemWbEdgeDraining(in) ==
  memwb' = IF pipeline_stall(in) THEN MemWbFlushed
           ELSE [valid |-> exmem.valid /\ ~data_access_exception(in),
                 insn |-> exmem.insn, data |-> mem_wb_data]

MemWbEdge(in) ==
  memwb' = IF pipeline_stall(in) THEN memwb
           ELSE [valid |-> exmem.valid /\ ~data_access_exception(in),
                 insn |-> exmem.insn, data |-> mem_wb_data]

RegsEdge(in) == regs' = IF pipeline_advance(in) THEN WriteBack ELSE regs

\* minstret counts the commit of the WB stage; trap, mret and an executed CSR
\* write exclude each other in that order.
CsrEdge(in) ==
  LET old == CsrRead(csr, idex.insn.csr)
      new == IF trap_enter(in) THEN CsrTrap(csr, trap_pc(in), trap_cause(in))
             ELSE IF mret_taken(in) THEN CsrMret(csr)
             ELSE IF pipeline_advance(in) /\ idex.valid /\ CsrWriteIntent(idex.insn)
             THEN CsrWrite(csr, idex.insn.csr, CsrOperation(idex.insn, old, ex_csr_operand))
             ELSE csr
  IN  csr' = IF memwb.valid /\ pipeline_advance(in)
             THEN [new EXCEPT !.minstret = Plus(csr.minstret, 1)] ELSE new

\* Fault: nothing ends the sleep.
SleepEdgeForever(in) == core_sleep' = (core_sleep \/ wfi_sleep(in))

SleepEdge(in) ==
  core_sleep' = IF core_sleep /\ wake_pending THEN FALSE ELSE core_sleep \/ wfi_sleep(in)

\* Fault: an error answered while the pipeline is held is forgotten.
LatchEdgeWithoutError(in) ==
  /\ dmem_complete' = (dmem_request /\ pipeline_stall(in) /\ (dmem_complete \/ dmem_answered(in)))
  /\ dmem_error_pending' = FALSE
  /\ dmem_rdata_latched' = IF dmem_answered(in) /\ pipeline_stall(in)
                           THEN dmem_response ELSE dmem_rdata_latched

\* Completion, error and read data of a data transfer that is answered while
\* the pipeline cannot move.
LatchEdge(in) ==
  /\ LET keeps == dmem_request /\ pipeline_stall(in)
     IN  /\ dmem_complete' = (keeps /\ (dmem_complete \/ dmem_answered(in)))
         /\ dmem_error_pending' =
              (keeps /\ IF dmem_answered(in) THEN in.dmem = "error" ELSE dmem_error_pending)
  /\ dmem_rdata_latched' = IF dmem_answered(in) /\ pipeline_stall(in)
                           THEN dmem_response ELSE dmem_rdata_latched

MemoryEdge(in) ==
  /\ mem' = IF dmem_answered(in) /\ in.dmem = "ok" /\ MemWrite(exmem.insn)
            THEN [mem EXCEPT ![dmem_addr] = store_data] ELSE mem
  /\ accesses' = IF dmem_answered(in) THEN Plus(accesses, 1) ELSE accesses

\* Fault: the product is not truncated.
MduEdgeWide(in) ==
  mdu' = IF mdu.state = "IDLE"
         THEN IF mdu_active THEN [state |-> "RUN", result |-> operand_a * operand_b] ELSE mdu
         ELSE IF ~mdu_done(in) THEN mdu
         ELSE IF mdu_active /\ ~bus_stall(in) THEN MduIdle
         ELSE [mdu EXCEPT !.state = "DONE"]

\* The unit computes from the operands of the cycle it starts in; its result
\* is consumed when no bus wait holds the instruction in EX.
MduEdge(in) ==
  mdu' = IF mdu.state = "IDLE"
         THEN IF mdu_active
              THEN [state |-> "RUN", result |-> (operand_a * operand_b) % Words] ELSE mdu
         ELSE IF ~mdu_done(in) THEN mdu
         ELSE IF mdu_active /\ ~bus_stall(in) THEN MduIdle
         ELSE [mdu EXCEPT !.state = "DONE"]

Edge(in) ==
  /\ PcEdge(in) /\ FetchEdge(in)
  /\ IfIdEdge(in) /\ IdExEdge(in) /\ ExMemEdge(in) /\ MemWbEdge(in)
  /\ RegsEdge(in) /\ CsrEdge(in) /\ SleepEdge(in)
  /\ LatchEdge(in) /\ MemoryEdge(in) /\ MduEdge(in)
  /\ irq' \in IrqLevels
  /\ UNCHANGED prog

-----------------------------------------------------------------------------
(* The kinds of cycle.                                                     *)

HoldCycle   == \E in \in Inputs : pipeline_stall(in) /\ Edge(in)
TrapCycle   == \E in \in Inputs : trap_enter(in) /\ Edge(in)
ReturnCycle == \E in \in Inputs : mret_taken(in) /\ ~trap_enter(in) /\ Edge(in)
SleepCycle  == \E in \in Inputs : wfi_sleep(in) /\ Edge(in)
FenceCycle  == \E in \in Inputs : fence_i_taken(in) /\ Edge(in)
FlowCycle   == \E in \in Inputs : pipeline_advance(in) /\ ~system_redirect(in) /\ Edge(in)

Next == HoldCycle \/ TrapCycle \/ ReturnCycle \/ SleepCycle \/ FenceCycle \/ FlowCycle

\* An empty pipeline at an architectural state of Boot: reset, or what any
\* program leaves behind a redirect once its older instructions have retired.
Init == /\ prog \in Programs
        /\ irq \in IrqLevels
        /\ \E s \in Boot : /\ pc = s.pc
                           /\ regs = s.regs
                           /\ mem = s.mem
                           /\ csr = s.csr
                           /\ accesses = s.accesses
        /\ core_sleep = FALSE
        /\ held = Nothing
        /\ ifid = IfIdFlushed
        /\ idex = IdExFlushed
        /\ exmem = ExMemFlushed
        /\ memwb = MemWbFlushed
        /\ dmem_complete = FALSE
        /\ dmem_error_pending = FALSE
        /\ dmem_rdata_latched = Words - 1   \* not reset: garbage, shown only under dmem_complete
        /\ mdu = MduIdle

Spec == Init /\ [][Next]_vars

\* The clock runs, which says nothing of the interrupt line; a port answers a
\* request it keeps seeing (the wait states of a slave are finite, AhbBridge's
\* EveryRequestAnswered); the multiply and divide FSMs count to their final
\* iteration (MCMdu's EveryOperationLeaves).
ImemAnswer == \E in \in Inputs : imem_valid /\ in.imem # "wait" /\ Edge(in)
DmemAnswer == \E in \in Inputs : dmem_answered(in) /\ Edge(in)
MduAnswer  == \E in \in Inputs : mdu.state = "RUN" /\ in.mdu /\ Edge(in)

Fairness == WF_core(Next) /\ WF_core(ImemAnswer) /\ WF_core(DmemAnswer) /\ WF_core(MduAnswer)

FairSpec == Spec /\ Fairness

-----------------------------------------------------------------------------
(* Properties of the stages and ports.                                     *)

\* Every variable stays within its type.
TypeOK ==
  /\ prog \in [Word -> Instruction]
  /\ irq \in BOOLEAN
  /\ pc \in Word
  /\ held \in [fault: BOOLEAN, insn: Instruction]
  /\ ifid \in [valid: BOOLEAN, fault: BOOLEAN, pc: Word, insn: Instruction]
  /\ idex \in [valid: BOOLEAN, fault: BOOLEAN, pc: Word, insn: Instruction, a: Word, b: Word]
  /\ exmem \in [valid: BOOLEAN, pc: Word, insn: Instruction, result: Word, b: Word]
  /\ memwb \in [valid: BOOLEAN, insn: Instruction, data: Word]
  /\ regs \in [Reg -> Word]
  /\ csr \in TrapState
  /\ core_sleep \in BOOLEAN
  /\ mem \in [Word -> Word]
  /\ accesses \in Word
  /\ dmem_complete \in BOOLEAN
  /\ dmem_error_pending \in BOOLEAN
  /\ dmem_rdata_latched \in Word
  /\ mdu \in [state: {"IDLE", "RUN", "DONE"}, result: Word]

\* Neither the data port nor the latch of its answer looks at a valid bit, so
\* an invalid MEM stage must hold no memory access: a squashed one would reach
\* the bus.  Whatever is remembered of an answer belongs to the access in MEM.
BubblesAreSilent ==
  /\ ~exmem.valid => ~dmem_request
  /\ dmem_error_pending => dmem_complete
  /\ dmem_complete => dmem_request
  /\ ~idex.valid => idex.insn \in {Bubble, Nop}
  /\ ~ifid.valid => ifid.insn = Nop

\* A CSR instruction executes with nothing older in flight and an instruction
\* behind it never overtakes the drain (csr_order_stall).
CsrRunsAlone == idex.valid /\ CsrEn(idex.insn) => ~exmem.valid /\ ~memwb.valid

\* A sleeping core is quiet: no fetched or decoded instruction is left, no
\* transfer is outstanding or wanted on either port, the multiplier is idle.
\* The bridges are therefore idle whenever the core asks for its clock to stop
\* (core_sleep_gate.sv).
SleepIsQuiet ==
  core_sleep => /\ ~imem_valid /\ ~dmem_request
                /\ held = Nothing /\ ~ifid.valid /\ ~idex.valid
                /\ mdu = MduIdle

\* The multiply/divide unit runs only for the instruction in EX, and what it
\* latched when it started is still what forwarding delivers: the global stall
\* froze the producers as well.
MduOwnsEx == IF mdu.state = "IDLE" THEN mdu = MduIdle
             ELSE mdu_active /\ mdu.result = (operand_a * operand_b) % Words

\* A data request the port has not answered stays up, unchanged down to the
\* forwarded store data, and an unanswered fetch keeps its address: what the
\* bus bridge assumes of both ports (AhbBridge's master).
RequestsHeld ==
  [][/\ dmem_valid /\ accesses' = accesses =>
          dmem_valid' /\ exmem' = exmem /\ store_data' = store_data
     /\ imem_valid /\ HoldCycle /\ held' = Nothing => imem_valid' /\ pc' = pc
    ]_vars

\* FENCE.I leaves nothing fetched before it: neither the response hold nor
\* IF/ID or ID/EX keeps an instruction, fetch restarts behind it, and a store
\* in front of it has been answered.
FenceDropsPrefetch ==
  [][FenceCycle => /\ held' = Nothing /\ ~ifid'.valid /\ ~idex'.valid
                   /\ pc' = Plus(idex.pc, 1)
                   /\ exmem.valid => memwb'.valid]_vars

\* A pending interrupt is taken, or stops being pending, however long loads,
\* multiplies and fetches keep the pipeline waiting.
InterruptTaken == irq_pending ~> ~irq_pending

\* The core keeps committing or trapping unless WFI waits for an interrupt.
KeepsRunning ==
  []<>(core_sleep /\ ~wake_pending) \/ []<><<TrapCycle \/ csr'.minstret # csr.minstret>>_vars

-----------------------------------------------------------------------------
(* The architectural state the pipeline holds.  Everything but a memory    *)
(* access takes effect when it leaves EX, an access when the data port has *)
(* answered it without error: from then on nothing can take it back.       *)

MemDone == ~MemAccess(exmem.insn) \/ (dmem_complete /\ ~dmem_error_pending)
MemCommitted == exmem.valid /\ MemDone

ArchRegs == IF MemCommitted /\ RegWrite(exmem.insn) /\ exmem.insn.rd # 0
            THEN [WriteBack EXCEPT ![exmem.insn.rd] = mem_wb_data] ELSE WriteBack

\* The oldest instruction without effect so far.
ArchPc == IF exmem.valid /\ ~MemDone THEN exmem.pc
          ELSE IF idex.valid THEN idex.pc
          ELSE IF ifid.valid THEN ifid.pc ELSE pc

InFlight == ToBit(memwb.valid) + ToBit(MemCommitted)

Architecture ==
  [pc |-> ArchPc,
   regs |-> ArchRegs,
   mem |-> mem,
   csr |-> [csr EXCEPT !.minstret = Plus(@, InFlight)],
   accesses |-> IF dmem_error_pending THEN Plus(accesses, Words - 1) ELSE accesses,
   sleeping |-> core_sleep]

Machine == INSTANCE Isa WITH arch <- Architecture

\* The pipeline runs every program as the sequential machine does, whatever
\* the waits, errors and interrupts: no hazard delivers a stale operand, no
\* wrong-path or trapped instruction leaves an effect, traps and interrupts
\* are precise, minstret counts every older instruction, and no transfer is
\* lost or repeated on the data port.
ImplementsIsa == Machine!Spec
=============================================================================
