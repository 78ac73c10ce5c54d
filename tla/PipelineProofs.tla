--------------------------- MODULE PipelineProofs ---------------------------
(***************************************************************************)
(* Proofs about Pipeline, for every word size, register count, program,    *)
(* boot state and set of port answers.                                     *)
(***************************************************************************)
EXTENDS Pipeline, TLAPS

IInv == TypeOK /\ BubblesAreSilent /\ CsrRunsAlone /\ MduOwnsEx /\ SleepIsQuiet

-----------------------------------------------------------------------------
(* Words.                                                                  *)

\* Arithmetic wraps into the words.
LEMMA ModInWord == \A x \in Nat : x % Words \in Word
BY WordsAssumption DEF Word

LEMMA PlusInWord == \A a, b \in Word : Plus(a, b) \in Word
<1> SUFFICES ASSUME NEW a \in Word, NEW b \in Word PROVE Plus(a, b) \in Word
  OBVIOUS
<1>1. a + b \in Nat
  BY WordsAssumption DEF Word
<1> QED
  BY <1>1, ModInWord DEF Plus

LEMMA SmallWords == 0 \in Word /\ 1 \in Word
BY WordsAssumption DEF Word

LEMMA TimesInWord == \A a, b \in Word : (a * b) % Words \in Word
<1> SUFFICES ASSUME NEW a \in Word, NEW b \in Word PROVE (a * b) % Words \in Word
  OBVIOUS
<1>1. a * b \in Nat
  BY WordsAssumption DEF Word
<1> QED
  BY <1>1, ModInWord

\* The cleared registers are within their types.
LEMMA FlushedTypes ==
  /\ Nop \in Instruction /\ Bubble \in Instruction
  /\ IfIdFlushed \in [valid: BOOLEAN, fault: BOOLEAN, pc: Word, insn: Instruction]
  /\ IdExFlushed \in [valid: BOOLEAN, fault: BOOLEAN, pc: Word, insn: Instruction,
                      a: Word, b: Word]
  /\ ExMemFlushed \in [valid: BOOLEAN, pc: Word, insn: Instruction, result: Word, b: Word]
  /\ MemWbFlushed \in [valid: BOOLEAN, insn: Instruction, data: Word]
  /\ MduIdle \in [state: {"IDLE", "RUN", "DONE"}, result: Word]
<1>1. 0 \in Reg /\ "mstatus" \in Csr /\ "addi" \in Op /\ "none" \in Op
  BY RegsAssumption DEF Reg, Csr, Op
<1>2. Nop \in Instruction
  BY <1>1, SmallWords DEF Nop, Instruction
<1>3. Bubble \in Instruction
  BY <1>1, <1>2 DEF Bubble, Instruction
<1> QED
  BY <1>2, <1>3, SmallWords DEF IfIdFlushed, IdExFlushed, ExMemFlushed, MemWbFlushed, MduIdle

-----------------------------------------------------------------------------
(* Type correctness, one register bank at a time.                          *)

StageTypes == /\ ifid \in [valid: BOOLEAN, fault: BOOLEAN, pc: Word, insn: Instruction]
              /\ idex \in [valid: BOOLEAN, fault: BOOLEAN, pc: Word, insn: Instruction,
                           a: Word, b: Word]
              /\ exmem \in [valid: BOOLEAN, pc: Word, insn: Instruction, result: Word, b: Word]
              /\ memwb \in [valid: BOOLEAN, insn: Instruction, data: Word]

\* Forwarding delivers words.
LEMMA ForwardedInWord ==
  ASSUME TypeOK
  PROVE  operand_a \in Word /\ operand_b \in Word /\ mem_forward_data \in Word
         /\ store_data \in Word
<1>1. mem_forward_data \in Word
  <2>1. Plus(exmem.pc, 1) \in Word
    BY PlusInWord, SmallWords DEF TypeOK
  <2>2. exmem.insn.imm \in Word /\ exmem.result \in Word
    BY DEF TypeOK, Instruction
  <2> QED
    BY <2>1, <2>2 DEF mem_forward_data
<1>2. idex.a \in Word /\ idex.b \in Word /\ memwb.data \in Word /\ exmem.b \in Word
  BY DEF TypeOK
<1> QED
  BY <1>1, <1>2 DEF operand_a, operand_b, store_data, Forwarded

\* A CSR reads as a word.
LEMMA CsrReadInWord ==
  ASSUME TypeOK, NEW a \in Csr
  PROVE  CsrRead(csr, a) \in Word
<1>1. csr.mepc \in Word /\ csr.minstret \in Word
  BY DEF TypeOK, TrapState
<1>2. CASE a = "mstatus"
  <2>1. ToBit(csr.mstatus_mie) + 2 * ToBit(csr.mstatus_mpie) \in 0 .. 3
    BY DEF ToBit
  <2> QED
    BY <1>2, <2>1, WordsAssumption DEF CsrRead, Word
<1> QED
  BY <1>1, <1>2, SmallWords DEF CsrRead, ToBit, Csr

\* Whatever a program writes to a CSR, the trap state keeps its type.
LEMMA CsrWriteType ==
  ASSUME NEW c \in TrapState, NEW a \in Csr, NEW v \in Word
  PROVE  CsrWrite(c, a, v) \in TrapState
<1>1. Bit(v, 0) \in BOOLEAN /\ Bit(v, 1) \in BOOLEAN
  BY DEF Bit
<1> QED
  BY <1>1 DEF CsrWrite, TrapState

\* A trap and its return keep the trap state within its type.
LEMMA CsrTrapType ==
  ASSUME NEW c \in TrapState, NEW epc \in Word,
         NEW cause \in Op \cup {"instruction_access", "load_misaligned", "store_misaligned",
                                "load_access", "store_access", "interrupt"}
  PROVE  CsrTrap(c, epc, cause) \in TrapState /\ CsrMret(c) \in TrapState
BY DEF CsrTrap, CsrMret, TrapState

\* trap_cause is a cause, in every cycle.
LEMMA CauseType ==
  ASSUME TypeOK, NEW in \in Inputs
  PROVE  trap_cause(in) \in Op \cup {"instruction_access", "load_misaligned",
                              "store_misaligned", "load_access", "store_access", "interrupt"}
<1>1. ex_exception \in {"instruction_access", "illegal", "ebreak", "load_misaligned",
                        "store_misaligned", "ecall", "none"}
  BY DEF ex_exception
<1> QED
  BY <1>1 DEF trap_cause, Op

\* CSRRW, CSRRS and CSRRC write words.
LEMMA CsrOperationInWord ==
  ASSUME NEW i, CsrEn(i), NEW old \in Word, NEW operand \in Word
  PROVE  CsrOperation(i, old, operand) \in Word
BY BitsAssumption DEF CsrOperation, CsrOp

\* The operand of a CSR instruction is a word, the field of an immediate one too.
LEMMA CsrOperandInWord ==
  ASSUME TypeOK
  PROVE  ex_csr_operand \in Word
<1>1. idex.insn.rs1 \in Reg
  BY DEF TypeOK, Instruction
<1>2. Reg \subseteq Word
  BY RegsAssumption, WordsAssumption DEF Reg, Word
<1> QED
  BY <1>1, <1>2, ForwardedInWord DEF ex_csr_operand

\* The trap state keeps its type at every edge.
LEMMA CsrEdgeType ==
  ASSUME TypeOK, NEW in \in Inputs, CsrEdge(in)
  PROVE  csr' \in TrapState
<1> DEFINE old == CsrRead(csr, idex.insn.csr)
           new == IF trap_enter(in) THEN CsrTrap(csr, trap_pc(in), trap_cause(in))
                  ELSE IF mret_taken(in) THEN CsrMret(csr)
                  ELSE IF pipeline_advance(in) /\ idex.valid /\ CsrWriteIntent(idex.insn)
                  THEN CsrWrite(csr, idex.insn.csr, CsrOperation(idex.insn, old, ex_csr_operand))
                  ELSE csr
<1>1. csr \in TrapState /\ idex.insn.csr \in Csr /\ trap_pc(in) \in Word
  BY DEF TypeOK, Instruction, trap_pc
<1>2. old \in Word
  BY <1>1, CsrReadInWord
<1>3. CsrTrap(csr, trap_pc(in), trap_cause(in)) \in TrapState /\ CsrMret(csr) \in TrapState
  BY <1>1, CauseType, CsrTrapType
<1>4. ASSUME CsrWriteIntent(idex.insn)
      PROVE  CsrWrite(csr, idex.insn.csr, CsrOperation(idex.insn, old, ex_csr_operand))
               \in TrapState
  <2>1. CsrOperation(idex.insn, old, ex_csr_operand) \in Word
    BY <1>2, <1>4, CsrOperationInWord, CsrOperandInWord DEF CsrWriteIntent
  <2> QED
    BY <1>1, <2>1, CsrWriteType
<1>5. new \in TrapState
  BY <1>1, <1>3, <1>4
<1>6. Plus(csr.minstret, 1) \in Word
  BY <1>1, PlusInWord, SmallWords DEF TrapState
<1>7. csr' = IF memwb.valid /\ pipeline_advance(in)
             THEN [new EXCEPT !.minstret = Plus(csr.minstret, 1)] ELSE new
  BY DEF CsrEdge
<1> HIDE DEF new
<1> QED
  BY <1>5, <1>6, <1>7 DEF TrapState

\* The register file after write-back is a register file.
LEMMA WriteBackType == ASSUME TypeOK PROVE WriteBack \in [Reg -> Word]
BY DEF TypeOK, WriteBack, Instruction

\* What the fetch buffer shows and holds is an instruction.
LEMMA FetchType ==
  ASSUME TypeOK, NEW in \in Inputs
  PROVE  /\ if_shows(in) \in [fault: BOOLEAN, insn: Instruction]
         /\ if_complete(in) \in BOOLEAN
         /\ FetchEdge(in) => held' \in [fault: BOOLEAN, insn: Instruction]
<1>1. if_complete(in) \in BOOLEAN
  BY DEF if_complete
<1>2. if_shows(in) \in [fault: BOOLEAN, insn: Instruction]
  <2>1. prog[pc] \in Instruction
    BY DEF TypeOK
  <2> QED
    BY <2>1, FlushedTypes DEF TypeOK, if_shows
<1>3. [if_shows(in) EXCEPT !.insn = IF if_shows(in).fault THEN Nop ELSE @]
        \in [fault: BOOLEAN, insn: Instruction]
  BY <1>2, FlushedTypes
<1>4. Nothing \in [fault: BOOLEAN, insn: Instruction]
  BY FlushedTypes DEF Nothing
<1>5. ASSUME FetchEdge(in) PROVE held' \in [fault: BOOLEAN, insn: Instruction]
  BY <1>3, <1>4, <1>5 DEF TypeOK, FetchEdge
<1> QED
  BY <1>1, <1>2, <1>5

\* EX computes a word.
LEMMA ResultInWord == ASSUME TypeOK PROVE ex_result \in Word
<1>1. idex.pc \in Word /\ idex.insn.imm \in Word /\ idex.insn.csr \in Csr
  BY DEF TypeOK, Instruction
<1>2. mdu.result \in Word
  BY DEF TypeOK
<1>3. CsrRead(csr, idex.insn.csr) \in Word
  BY <1>1, CsrReadInWord
<1>4. /\ Plus(operand_a, operand_b) \in Word
      /\ Plus(idex.pc, idex.insn.imm) \in Word
      /\ Plus(operand_a, idex.insn.imm) \in Word
  BY <1>1, ForwardedInWord, PlusInWord
<1>5. ex_data_addr \in Word
  BY <1>4 DEF ex_data_addr
<1> QED
  BY <1>2, <1>3, <1>4, <1>5 DEF ex_result

\* The PC is a word, whatever moves it.
LEMMA PcEdgeType ==
  ASSUME TypeOK, NEW in \in Inputs, PcEdge(in)
  PROVE  pc' \in Word
<1>1. idex.pc \in Word /\ idex.insn.imm \in Word /\ pc \in Word /\ csr.mepc \in Word
  BY DEF TypeOK, Instruction, TrapState
<1>2. system_redirect_pc(in) \in Word
  BY <1>1, VectorAssumption, PlusInWord, SmallWords DEF system_redirect_pc
<1>3. control_transfer_target \in Word
  BY <1>1, PlusInWord, ForwardedInWord DEF control_transfer_target, ex_data_addr
<1>4. Plus(pc, 1) \in Word
  BY <1>1, PlusInWord, SmallWords
<1> QED
  BY <1>1, <1>2, <1>3, <1>4 DEF PcEdge

\* The pipeline registers keep their types at every edge.
LEMMA StagesType ==
  ASSUME TypeOK, NEW in \in Inputs, Edge(in)
  PROVE  StageTypes'
<1>1. ifid' \in [valid: BOOLEAN, fault: BOOLEAN, pc: Word, insn: Instruction]
  <2>1. [valid |-> if_complete(in), fault |-> if_shows(in).fault,
         pc |-> IF if_complete(in) THEN pc ELSE 0, insn |-> if_shows(in).insn]
           \in [valid: BOOLEAN, fault: BOOLEAN, pc: Word, insn: Instruction]
    BY FetchType, SmallWords DEF TypeOK
  <2> QED
    BY <2>1, FlushedTypes DEF TypeOK, Edge, IfIdEdge
<1>2. idex' \in [valid: BOOLEAN, fault: BOOLEAN, pc: Word, insn: Instruction, a: Word, b: Word]
  <2>1. WriteBack[ifid.insn.rs1] \in Word /\ WriteBack[ifid.insn.rs2] \in Word
    BY WriteBackType DEF TypeOK, Instruction
  <2>2. [valid |-> ifid.valid, fault |-> ifid.fault, pc |-> ifid.pc, insn |-> ifid.insn,
         a |-> WriteBack[ifid.insn.rs1], b |-> WriteBack[ifid.insn.rs2]]
           \in [valid: BOOLEAN, fault: BOOLEAN, pc: Word, insn: Instruction, a: Word, b: Word]
    BY <2>1 DEF TypeOK
  <2> QED
    BY <2>2, FlushedTypes DEF TypeOK, Edge, IdExEdge
<1>3. exmem' \in [valid: BOOLEAN, pc: Word, insn: Instruction, result: Word, b: Word]
  <2>1. [valid |-> idex.valid, pc |-> idex.pc, insn |-> idex.insn,
         result |-> ex_result, b |-> operand_b]
           \in [valid: BOOLEAN, pc: Word, insn: Instruction, result: Word, b: Word]
    BY ResultInWord, ForwardedInWord DEF TypeOK
  <2> QED
    BY <2>1, FlushedTypes DEF TypeOK, Edge, ExMemEdge
<1>4. memwb' \in [valid: BOOLEAN, insn: Instruction, data: Word]
  <2>1. dmem_response \in Word
    BY SmallWords DEF TypeOK, dmem_response, dmem_addr
  <2>2. mem_wb_data \in Word
    BY <2>1, ForwardedInWord DEF mem_wb_data
  <2>3. (exmem.valid /\ ~data_access_exception(in)) \in BOOLEAN
    BY DEF TypeOK
  <2>4. [valid |-> exmem.valid /\ ~data_access_exception(in),
         insn |-> exmem.insn, data |-> mem_wb_data]
           \in [valid: BOOLEAN, insn: Instruction, data: Word]
    BY <2>2, <2>3 DEF TypeOK
  <2> QED
    BY <2>4 DEF TypeOK, Edge, MemWbEdge
<1> QED
  BY <1>1, <1>2, <1>3, <1>4 DEF StageTypes

\* Everything behind the data port, the latch of its answers and the
\* multiplier keep their types at every edge.
LEMMA BackEndType ==
  ASSUME TypeOK, NEW in \in Inputs, Edge(in)
  PROVE  /\ regs' \in [Reg -> Word]
         /\ mem' \in [Word -> Word] /\ accesses' \in Word
         /\ dmem_complete' \in BOOLEAN /\ dmem_error_pending' \in BOOLEAN
         /\ dmem_rdata_latched' \in Word
         /\ core_sleep' \in BOOLEAN
         /\ mdu' \in [state: {"IDLE", "RUN", "DONE"}, result: Word]
<1>1. regs' \in [Reg -> Word]
  BY WriteBackType DEF TypeOK, Edge, RegsEdge
<1>2. mem' \in [Word -> Word]
  BY ForwardedInWord DEF TypeOK, Edge, MemoryEdge, dmem_addr
<1>3. accesses' \in Word
  BY PlusInWord, SmallWords DEF TypeOK, Edge, MemoryEdge
<1>4. dmem_complete' \in BOOLEAN /\ dmem_error_pending' \in BOOLEAN
  BY DEF TypeOK, Edge, LatchEdge
<1>5. dmem_rdata_latched' \in Word
  <2>1. dmem_response \in Word
    BY SmallWords DEF TypeOK, dmem_response, dmem_addr
  <2> QED
    BY <2>1 DEF TypeOK, Edge, LatchEdge
<1>6. core_sleep' \in BOOLEAN
  BY DEF TypeOK, Edge, SleepEdge, wfi_sleep
<1>7. mdu' \in [state: {"IDLE", "RUN", "DONE"}, result: Word]
  <2>1. (operand_a * operand_b) % Words \in Word
    BY ForwardedInWord, TimesInWord
  <2> QED
    BY <2>1, FlushedTypes DEF TypeOK, Edge, MduEdge
<1> QED
  BY <1>1, <1>2, <1>3, <1>4, <1>5, <1>6, <1>7

\* One edge preserves every type.
LEMMA TypeStep ==
  ASSUME TypeOK, NEW in \in Inputs, Edge(in)
  PROVE  TypeOK'
<1>1. pc' \in Word /\ csr' \in TrapState
  BY PcEdgeType, CsrEdgeType DEF Edge
<1>2. held' \in [fault: BOOLEAN, insn: Instruction]
  BY FetchType DEF Edge
<1>3. irq' \in BOOLEAN /\ prog' \in [Word -> Instruction]
  BY InputAssumption DEF TypeOK, Edge
<1> QED
  BY <1>1, <1>2, <1>3, StagesType, BackEndType DEF TypeOK, StageTypes

-----------------------------------------------------------------------------
(* The invariants of the stages.                                           *)

\* While the pipeline is stalled nothing from EX to WB moves.
LEMMA StallFreezes ==
  ASSUME NEW in \in Inputs, Edge(in), pipeline_stall(in)
  PROVE  idex' = idex /\ exmem' = exmem /\ memwb' = memwb
BY DEF Edge, IdExEdge, ExMemEdge, MemWbEdge

\* The nop and the bubble use no memory, no multiplier, no CSR, and redirect
\* nothing.
LEMMA SilentInstructions ==
  \A i \in {Bubble, Nop} : /\ ~MemAccess(i) /\ ~CsrEn(i)
                           /\ i.op \notin {"mul", "beq", "jal", "jalr", "wfi", "fence_i", "mret"}
BY DEF Bubble, Nop, MemAccess, MemRead, MemWrite, CsrEn, CsrImm

\* Invalid stages hold silent instructions, and the latch of a data answer
\* belongs to the access in MEM.
LEMMA BubblesStep ==
  ASSUME TypeOK, BubblesAreSilent, NEW in \in Inputs, Edge(in)
  PROVE  BubblesAreSilent'
<1>1. ~ifid'.valid => ifid'.insn = Nop
  <2>1. ~if_complete(in) => if_shows(in).insn = Nop
    BY DEF if_shows, if_complete
  <2> QED
    BY <2>1, FetchType DEF BubblesAreSilent, Edge, IfIdEdge, IfIdFlushed
<1>2. ~idex'.valid => idex'.insn \in {Bubble, Nop}
  BY DEF BubblesAreSilent, Edge, IdExEdge, IdExFlushed
<1>3. ~exmem'.valid => ~dmem_request'
  <2>1. CASE pipeline_stall(in)
    BY <2>1, StallFreezes DEF BubblesAreSilent, dmem_request
  <2>2. CASE ~pipeline_stall(in) /\ trap_enter(in)
    <3>1. exmem'.insn = Bubble
      BY <2>2 DEF Edge, ExMemEdge, ExMemFlushed
    <3> QED
      BY <3>1, SilentInstructions DEF dmem_request
  <2>3. CASE ~pipeline_stall(in) /\ ~trap_enter(in)
    <3>1. exmem'.valid = idex.valid /\ exmem'.insn = idex.insn
      BY <2>3 DEF Edge, ExMemEdge
    <3> QED
      BY <3>1, SilentInstructions DEF BubblesAreSilent, dmem_request
  <2> QED
    BY <2>1, <2>2, <2>3
<1>4. dmem_complete' => dmem_request'
  <2> SUFFICES ASSUME dmem_complete' PROVE dmem_request'
    OBVIOUS
  <2>1. dmem_request /\ pipeline_stall(in)
    BY DEF Edge, LatchEdge
  <2> QED
    BY <2>1, StallFreezes DEF dmem_request
<1>5. dmem_error_pending' => dmem_complete'
  BY DEF BubblesAreSilent, Edge, LatchEdge
<1> QED
  BY <1>1, <1>2, <1>3, <1>4, <1>5 DEF BubblesAreSilent

\* A CSR instruction enters EX only behind an empty MEM and WB.
LEMMA CsrStep ==
  ASSUME CsrRunsAlone, NEW in \in Inputs, Edge(in)
  PROVE  CsrRunsAlone'
<1>1. CASE pipeline_stall(in)
  BY <1>1, StallFreezes DEF CsrRunsAlone
<1>2. CASE ~pipeline_stall(in) /\ flush_id_ex(in)
  <2>1. ~idex'.valid
    BY <1>2 DEF Edge, IdExEdge, IdExFlushed
  <2> QED
    BY <2>1 DEF CsrRunsAlone
<1>3. CASE ~pipeline_stall(in) /\ ~flush_id_ex(in)
  <2> SUFFICES ASSUME idex'.valid, CsrEn(idex'.insn) PROVE ~exmem'.valid /\ ~memwb'.valid
    BY DEF CsrRunsAlone
  <2>1. ifid.valid /\ CsrEn(ifid.insn)
    BY <1>3 DEF Edge, IdExEdge
  <2>2. ~idex.valid /\ ~exmem.valid
    BY <1>3, <2>1 DEF flush_id_ex, stall_if_id, csr_order_stall
  <2>3. ~exmem'.valid
    BY <1>3, <2>2 DEF Edge, ExMemEdge, ExMemFlushed
  <2>4. ~memwb'.valid
    BY <1>3, <2>2 DEF Edge, MemWbEdge
  <2> QED
    BY <2>3, <2>4
<1> QED
  BY <1>1, <1>2, <1>3

\* The multiplier works for the instruction in EX, on the operands it has.
LEMMA MduStep ==
  ASSUME TypeOK, MduOwnsEx, NEW in \in Inputs, Edge(in)
  PROVE  MduOwnsEx'
\* A stall keeps every operand of EX as it is.
<1>1. ASSUME pipeline_stall(in)
      PROVE  mdu_active' = mdu_active /\ operand_a' = operand_a /\ operand_b' = operand_b
  BY <1>1, StallFreezes DEF mdu_active, operand_a, operand_b, Forwarded, mem_match, wb_match,
                            mem_forward_data
<1>2. CASE mdu.state = "IDLE" /\ ~mdu_active
  <2>1. mdu' = mdu
    BY <1>2 DEF Edge, MduEdge
  <2> QED
    BY <1>2, <2>1 DEF MduOwnsEx
<1>3. CASE mdu.state = "IDLE" /\ mdu_active
  <2>1. mdu' = [state |-> "RUN", result |-> (operand_a * operand_b) % Words]
    BY <1>3 DEF Edge, MduEdge
  <2>2. pipeline_stall(in)
    BY <1>3 DEF pipeline_stall, mdu_stall, mdu_done
  <2> QED
    BY <1>1, <1>3, <2>1, <2>2 DEF MduOwnsEx
<1>4. CASE mdu.state # "IDLE" /\ ~mdu_done(in)
  <2>1. mdu' = mdu
    BY <1>4 DEF Edge, MduEdge
  <2>2. pipeline_stall(in)
    BY <1>4 DEF MduOwnsEx, pipeline_stall, mdu_stall
  <2> QED
    BY <1>1, <1>4, <2>1, <2>2 DEF MduOwnsEx
<1>5. CASE mdu.state # "IDLE" /\ mdu_done(in) /\ ~bus_stall(in)
  <2>1. mdu' = MduIdle
    BY <1>5 DEF MduOwnsEx, Edge, MduEdge
  <2>2. MduIdle' = MduIdle
    BY DEF MduIdle
  <2>3. mdu'.state = "IDLE"
    BY <2>1 DEF MduIdle
  <2> QED
    BY <2>1, <2>2, <2>3 DEF MduOwnsEx
<1>6. CASE mdu.state # "IDLE" /\ mdu_done(in) /\ bus_stall(in)
  <2>1. mdu' = [mdu EXCEPT !.state = "DONE"]
    BY <1>6 DEF Edge, MduEdge
  <2>2. mdu'.state = "DONE" /\ mdu'.result = mdu.result
    BY <2>1 DEF TypeOK
  <2>3. pipeline_stall(in)
    BY <1>6 DEF pipeline_stall
  <2> QED
    BY <1>1, <1>6, <2>2, <2>3 DEF MduOwnsEx
<1> QED
  BY <1>2, <1>3, <1>4, <1>5, <1>6

\* Falling asleep empties the front of the pipeline, and it stays empty.
LEMMA SleepStep ==
  ASSUME IInv, NEW in \in Inputs, Edge(in)
  PROVE  SleepIsQuiet'
<1> SUFFICES ASSUME core_sleep' PROVE SleepIsQuiet'
  BY DEF SleepIsQuiet
<1> USE DEF IInv
<1>1. CASE core_sleep
  <2>1. /\ ~imem_valid /\ ~dmem_request /\ held = Nothing
        /\ ~ifid.valid /\ ~idex.valid /\ mdu = MduIdle
    BY <1>1 DEF SleepIsQuiet
  <2>2. ~mdu_active /\ ~if_complete(in)
    BY <2>1 DEF mdu_active, if_complete
  <2>3. ~pipeline_stall(in)
    BY <2>1, <2>2 DEF pipeline_stall, bus_stall, imem_wait, dmem_wait, dmem_valid, mdu_stall
  <2>4. held' = Nothing
    BY <2>1, <2>2 DEF Edge, FetchEdge
  <2>5. ~ifid'.valid
    BY <2>1, <2>2 DEF Edge, IfIdEdge, IfIdFlushed
  <2>6. ~idex'.valid
    BY <2>1, <2>3 DEF Edge, IdExEdge, IdExFlushed
  <2>7. ~dmem_request'
    <3>1. exmem'.insn \in {Bubble, Nop}
      BY <2>1, <2>3 DEF BubblesAreSilent, Edge, ExMemEdge, ExMemFlushed
    <3> QED
      BY <3>1, SilentInstructions DEF dmem_request
  <2>8. mdu' = MduIdle
    BY <2>1, <2>2 DEF Edge, MduEdge, MduIdle
  <2> QED
    BY <2>4, <2>5, <2>6, <2>7, <2>8 DEF SleepIsQuiet, imem_valid, Nothing, Bubble, Nop, MduIdle
<1>2. CASE ~core_sleep
  <2>1. wfi_sleep(in)
    BY <1>2 DEF Edge, SleepEdge
  <2>2. /\ idex.valid /\ idex.insn.op = "wfi"
        /\ ~trap_enter(in) /\ pipeline_advance(in) /\ ~pipeline_stall(in)
    BY <2>1 DEF wfi_sleep, Unhindered, pipeline_advance
  <2>3. flush_if_id(in) /\ flush_id_ex(in)
    BY <2>1 DEF flush_id_ex, flush_if_id, system_redirect
  <2>4. held' = Nothing
    BY <2>2, <2>3 DEF Edge, FetchEdge
  <2>5. ~ifid'.valid
    BY <2>3 DEF Edge, IfIdEdge, IfIdFlushed
  <2>6. ~idex'.valid
    BY <2>2, <2>3 DEF Edge, IdExEdge, IdExFlushed
  <2>7. ~dmem_request'
    <3>1. exmem'.insn = idex.insn
      BY <2>2 DEF Edge, ExMemEdge
    <3> QED
      BY <2>2, <3>1 DEF dmem_request, MemAccess, MemRead, MemWrite
  <2>8. mdu' = MduIdle
    <3>1. ~mdu_active
      BY <2>2 DEF mdu_active
    <3>2. mdu = MduIdle
      BY <3>1 DEF MduOwnsEx
    <3> QED
      BY <3>1, <3>2 DEF Edge, MduEdge, MduIdle
  <2> QED
    BY <2>4, <2>5, <2>6, <2>7, <2>8 DEF SleepIsQuiet, imem_valid, Nothing, Bubble, Nop, MduIdle
<1> QED
  BY <1>1, <1>2

\* Every cycle is an edge with some input.
LEMMA NextIsEdge ==
  ASSUME Next
  PROVE  \E in \in Inputs : Edge(in)
BY DEF Next, HoldCycle, TrapCycle, ReturnCycle, SleepCycle, FenceCycle, FlowCycle

\* Every edge of the pipeline is one of the kinds of cycle of its next-state
\* relation.
LEMMA EdgeIsNext ==
  ASSUME NEW in \in Inputs, Edge(in)
  PROVE  Next
<1>1. CASE pipeline_stall(in)
  BY <1>1 DEF Next, HoldCycle
<1>2. CASE pipeline_advance(in) /\ ~system_redirect(in)
  BY <1>2 DEF Next, FlowCycle
<1>3. CASE system_redirect(in)
  BY <1>3 DEF system_redirect, Next, TrapCycle, ReturnCycle, SleepCycle, FenceCycle
<1> QED
  BY <1>1, <1>2, <1>3 DEF pipeline_advance

\* Reset, or any boot state, satisfies the inductive invariant.
LEMMA InitEstablishes == Init => IInv
<1> SUFFICES ASSUME Init PROVE IInv
  OBVIOUS
<1> USE DEF Init
<1>1. /\ pc \in Word /\ regs \in [Reg -> Word] /\ mem \in [Word -> Word]
      /\ csr \in TrapState /\ accesses \in Word
  BY BootAssumption
<1>2. prog \in [Word -> Instruction] /\ irq \in BOOLEAN
  BY ProgramAssumption, InputAssumption
<1>3. TypeOK
  <2>1. Words - 1 \in Word
    BY WordsAssumption DEF Word
  <2> QED
    BY <1>1, <1>2, <2>1, FlushedTypes, SmallWords DEF TypeOK, Nothing
<1>4. BubblesAreSilent
  BY SilentInstructions DEF BubblesAreSilent, dmem_request, IfIdFlushed, IdExFlushed, ExMemFlushed
<1>5. CsrRunsAlone /\ SleepIsQuiet
  BY DEF CsrRunsAlone, SleepIsQuiet, IdExFlushed
<1>6. MduOwnsEx
  BY DEF MduOwnsEx, MduIdle
<1> QED
  BY <1>3, <1>4, <1>5, <1>6 DEF IInv

\* Every step preserves the inductive invariant.
LEMMA StepPreserves == IInv /\ [Next]_vars => IInv'
<1> SUFFICES ASSUME IInv, [Next]_vars PROVE IInv'
  OBVIOUS
<1>1. CASE Next
  <2>1. PICK in \in Inputs : Edge(in)
    BY <1>1, NextIsEdge
  <2> QED
    BY <2>1, TypeStep, BubblesStep, CsrStep, MduStep, SleepStep DEF IInv
<1>2. CASE UNCHANGED vars
  BY <1>2 DEF IInv, vars, core, stages, latch, TypeOK, BubblesAreSilent, CsrRunsAlone, MduOwnsEx,
              SleepIsQuiet, imem_valid, dmem_request, mdu_active, operand_a, operand_b,
              Forwarded, mem_match, wb_match, mem_forward_data
<1> QED
  BY <1>1, <1>2

\* The inductive invariant holds in every reachable state.
LEMMA Inductive == Spec => []IInv
BY InitEstablishes, StepPreserves, PTL DEF Spec

-----------------------------------------------------------------------------
(* The theorems.                                                           *)

\* Every register of the pipeline keeps its type.
THEOREM TypeCorrect == Spec => []TypeOK
BY Inductive, PTL DEF IInv

\* A squashed instruction never reaches the data port, and the latch of an
\* answer belongs to the access in MEM.
THEOREM BubblesAreSilentHolds == Spec => []BubblesAreSilent
BY Inductive, PTL DEF IInv

\* csr_order_stall lets a CSR instruction execute only behind an empty MEM
\* and WB.
THEOREM CsrRunsAloneHolds == Spec => []CsrRunsAlone
BY Inductive, PTL DEF IInv

\* The multiplier's latched operands are still the forwarded ones when its
\* result is taken.
THEOREM MduOwnsExHolds == Spec => []MduOwnsEx
BY Inductive, PTL DEF IInv

\* No transfer, instruction or multiply is in progress in a sleeping core.
THEOREM SleepIsQuietHolds == Spec => []SleepIsQuiet
BY Inductive, PTL DEF IInv

\* The number of transfers counts: it moves whenever one is answered.
LEMMA CountMoves == \A x \in Word : Plus(x, 1) # x
BY WordsAssumption DEF Word, Plus

\* An unanswered data request stays up and unchanged down to the forwarded
\* store data, and an unanswered fetch keeps its address.
THEOREM RequestsHeldHolds == Spec => RequestsHeld
<1>1. ASSUME IInv, [Next]_vars, dmem_valid, accesses' = accesses
      PROVE  dmem_valid' /\ exmem' = exmem /\ store_data' = store_data
  <2>1. CASE Next
    <3>1. PICK in \in Inputs : Edge(in)
      BY <2>1, NextIsEdge
    <3>2. ~dmem_answered(in)
      BY <1>1, <3>1, CountMoves DEF IInv, TypeOK, Edge, MemoryEdge
    <3>3. pipeline_stall(in)
      BY <1>1, <3>2 DEF dmem_answered, pipeline_stall, bus_stall, dmem_wait
    <3>4. exmem' = exmem /\ memwb' = memwb
      BY <3>1, <3>3, StallFreezes
    <3>5. ~dmem_complete'
      BY <1>1, <3>1, <3>2 DEF Edge, LatchEdge, dmem_valid
    <3> QED
      BY <1>1, <3>4, <3>5 DEF dmem_valid, dmem_request, store_data, wb_match
  <2>2. CASE UNCHANGED vars
    BY <1>1, <2>2 DEF vars, core, stages, latch, dmem_valid, dmem_request, store_data, wb_match
  <2> QED
    BY <1>1, <2>1, <2>2
<1>2. ASSUME imem_valid, HoldCycle, held' = Nothing
      PROVE  imem_valid' /\ pc' = pc
  <2>1. PICK in \in Inputs : pipeline_stall(in) /\ Edge(in)
    BY <1>2 DEF HoldCycle
  <2>2. ~core_sleep'
    BY <1>2, <2>1 DEF imem_valid, Edge, SleepEdge, wfi_sleep, Unhindered, pipeline_advance
  <2>3. pc' = pc
    BY <2>1 DEF Edge, PcEdge, pc_hold
  <2> QED
    BY <1>2, <2>2, <2>3 DEF imem_valid, Nothing, Bubble, Nop
<1> QED
  BY <1>1, <1>2, Inductive, PTL DEF Spec, RequestsHeld

\* FENCE.I drops everything fetched before it, after the stores in front of
\* it have been answered.
THEOREM FenceDropsPrefetchHolds == Spec => FenceDropsPrefetch
<1>1. ASSUME IInv, FenceCycle
      PROVE  /\ held' = Nothing /\ ~ifid'.valid /\ ~idex'.valid
             /\ pc' = Plus(idex.pc, 1)
             /\ exmem.valid => memwb'.valid
  <2>1. PICK in \in Inputs : fence_i_taken(in) /\ Edge(in)
    BY <1>1 DEF FenceCycle
  <2>2. /\ idex.valid /\ idex.insn.op = "fence_i"
        /\ ~trap_enter(in) /\ pipeline_advance(in) /\ ~pipeline_stall(in)
    BY <2>1 DEF fence_i_taken, Unhindered, pipeline_advance
  <2>3. system_redirect(in) /\ flush_if_id(in) /\ flush_id_ex(in)
    BY <2>1 DEF system_redirect, flush_if_id, flush_id_ex
  <2>4. held' = Nothing
    BY <2>1, <2>2, <2>3 DEF Edge, FetchEdge
  <2>5. ~ifid'.valid /\ ~idex'.valid
    BY <2>1, <2>2, <2>3 DEF Edge, IfIdEdge, IfIdFlushed, IdExEdge, IdExFlushed
  <2>6. ~core_sleep
    BY <1>1, <2>2 DEF IInv, SleepIsQuiet
  <2>7. pc' = system_redirect_pc(in)
    BY <2>1, <2>2, <2>3, <2>6 DEF Edge, PcEdge, pc_hold
  <2>8. system_redirect_pc(in) = Plus(idex.pc, 1)
    BY <2>2 DEF system_redirect_pc, mret_taken
  <2>9. exmem.valid => memwb'.valid
    BY <2>1, <2>2 DEF Edge, MemWbEdge, trap_enter
  <2> QED
    BY <2>4, <2>5, <2>7, <2>8, <2>9
<1> QED
  BY <1>1, Inductive, PTL DEF Spec, FenceDropsPrefetch

-----------------------------------------------------------------------------
(* What the refinement needs of the stages: the instructions in them follow *)
(* one another as the program has them, and see fresh operands.            *)

\* The PC that follows what IF/ID holds, and what ID/EX holds.
FrontPc == IF ifid.valid THEN ifid.pc ELSE pc
YoungPc == IF idex.valid THEN idex.pc ELSE FrontPc

\* One instruction follows the other through the stages; only a jump or taken
\* branch that waits in EX may have something else behind it.
PathIsSequential ==
  /\ ifid.valid => pc = Plus(ifid.pc, 1)
  /\ idex.valid /\ ~control_hazard => FrontPc = Plus(idex.pc, 1)
  /\ exmem.valid /\ dmem_request => YoungPc = Plus(exmem.pc, 1)

\* Every stage holds the instruction of its PC, unless fetch failed.
StagesHoldProgram ==
  /\ prog \in Programs
  /\ held # Nothing /\ ~held.fault => held.insn = prog[pc]
  /\ ifid.valid /\ ~ifid.fault => ifid.insn = prog[ifid.pc]
  /\ idex.valid /\ ~idex.fault => idex.insn = prog[idex.pc]
  /\ exmem.valid => exmem.insn = prog[exmem.pc]

\* What is read early is repaired by forwarding, or was not early.
OperandsAreFresh ==
  /\ idex.valid => idex.a = regs[idex.insn.rs1] /\ idex.b = regs[idex.insn.rs2]
  /\ exmem.valid /\ MemRead(exmem.insn) /\ exmem.insn.rd # 0 /\ idex.valid =>
       /\ Rs1Read(idex.insn) => idex.insn.rs1 # exmem.insn.rd
       /\ Rs2Read(idex.insn) /\ ~MemWrite(idex.insn) => idex.insn.rs2 # exmem.insn.rd

\* The access in MEM.
AccessIsFresh ==
  exmem.valid /\ dmem_request =>
    /\ exmem.result = Plus(WriteBack[exmem.insn.rs1], exmem.insn.imm)
    /\ ~Misaligned(exmem.result)
    /\ MemWrite(exmem.insn) => store_data = WriteBack[exmem.insn.rs2]
    /\ MemRead(exmem.insn) /\ dmem_complete /\ ~dmem_error_pending =>
         dmem_rdata_latched = mem[exmem.result]

-----------------------------------------------------------------------------
(* What an edge does to the front of the pipeline.                         *)

\* A sleeping core neither waits nor fetches.
LEMMA SleepNeverStalls ==
  ASSUME IInv, NEW in \in Inputs, core_sleep
  PROVE  ~pipeline_stall(in) /\ ~if_complete(in) /\ ~ifid.valid /\ ~idex.valid
BY DEF IInv, SleepIsQuiet, imem_valid, if_complete, mdu_active, pipeline_stall, bus_stall,
       imem_wait, dmem_wait, dmem_valid, mdu_stall

\* A bubble in EX redirects nothing and holds nothing up.
LEMMA BubbleHazards ==
  ASSUME IInv, ~idex.valid
  PROVE  ~control_hazard /\ ~load_use_hazard
<1>1. idex.insn \in {Bubble, Nop}
  BY DEF IInv, BubblesAreSilent
<1> QED
  BY <1>1 DEF control_hazard, ex_branch_taken, ex_jump, load_use_hazard, MemRead, Bubble, Nop

\* An empty IF/ID waits for nothing.
LEMMA EmptyDecodeGoesOn ==
  ASSUME IInv, ~ifid.valid
  PROVE  ~stall_if_id
<1>1. ifid.insn = Nop
  BY DEF IInv, BubblesAreSilent
<1> QED
  BY <1>1 DEF stall_if_id, load_use_hazard, csr_order_stall, Rs2Read, Nop

\* A system redirect needs a pipeline that moves.
LEMMA RedirectAdvances ==
  ASSUME NEW in \in Inputs, pipeline_stall(in)
  PROVE  /\ ~system_redirect(in) /\ ~trap_enter(in) /\ ~data_access_exception(in)
         /\ ~mret_taken(in) /\ ~wfi_sleep(in)
BY DEF system_redirect, trap_enter, data_access_exception, ex_sync_trap, irq_take, mret_taken,
       wfi_sleep, fence_i_taken, Unhindered, pipeline_advance

\* While the pipeline is stalled the operands stay and nothing retires; only a
\* jump or taken branch in EX already empties IF/ID.
LEMMA StallHolds ==
  ASSUME IInv, NEW in \in Inputs, Edge(in), pipeline_stall(in)
  PROVE  /\ pc' = pc /\ regs' = regs /\ csr' = csr /\ ~core_sleep /\ ~core_sleep'
         /\ WriteBack' = WriteBack
         /\ operand_a' = operand_a /\ operand_b' = operand_b
         /\ control_hazard' = control_hazard
         /\ ifid' = IF control_hazard THEN IfIdFlushed ELSE ifid
         /\ YoungPc' = YoungPc
<1>1. ~core_sleep
  BY SleepNeverStalls
<1>2. idex' = idex /\ exmem' = exmem /\ memwb' = memwb
  BY StallFreezes
<1>3. ~system_redirect(in) /\ ~trap_enter(in) /\ ~mret_taken(in) /\ ~wfi_sleep(in)
      /\ ~pipeline_advance(in)
  BY RedirectAdvances DEF pipeline_advance
<1>4. pc' = pc
  BY DEF Edge, PcEdge, pc_hold
<1>5. regs' = regs
  BY <1>3 DEF Edge, RegsEdge
<1>6. csr' = csr
  BY <1>3 DEF Edge, CsrEdge
<1>7. ~core_sleep'
  BY <1>1, <1>3 DEF Edge, SleepEdge
<1>8. WriteBack' = WriteBack
  BY <1>2, <1>5 DEF WriteBack
<1>9. operand_a' = operand_a /\ operand_b' = operand_b
  BY <1>2 DEF operand_a, operand_b, Forwarded, mem_match, wb_match, mem_forward_data
<1>10. control_hazard' = control_hazard
  BY <1>2, <1>9 DEF control_hazard, ex_branch_taken, ex_jump
<1>11. ifid' = IF control_hazard THEN IfIdFlushed ELSE ifid
  BY <1>3 DEF Edge, IfIdEdge, flush_if_id
<1>12. YoungPc' = YoungPc
  BY <1>2, <1>4, <1>11, BubbleHazards DEF YoungPc, FrontPc
<1> QED
  BY <1>1, <1>4, <1>5, <1>6, <1>7, <1>8, <1>9, <1>10, <1>11, <1>12

\* Without a flush, what follows EX is what followed it before.
LEMMA FlowMovesOn ==
  ASSUME IInv, NEW in \in Inputs, Edge(in), ~pipeline_stall(in), ~flush_if_id(in)
  PROVE  /\ YoungPc' = FrontPc
         /\ ~stall_if_id => /\ idex'.valid = ifid.valid /\ idex'.pc = ifid.pc
                            /\ idex'.insn = ifid.insn /\ idex'.fault = ifid.fault
                            /\ ifid'.valid = if_complete(in)
                            /\ if_complete(in) => ifid'.pc = pc /\ pc' = Plus(pc, 1)
                            /\ ~if_complete(in) => core_sleep /\ pc' = pc
         /\ stall_if_id => /\ ~idex'.valid /\ ifid' = ifid /\ pc' = pc
<1>1. CASE stall_if_id
  <2>1. ~idex'.valid
    BY <1>1 DEF Edge, IdExEdge, flush_id_ex, IdExFlushed
  <2>2. ifid' = ifid
    BY <1>1 DEF Edge, IfIdEdge
  <2>3. pc' = pc
    BY <1>1 DEF Edge, PcEdge, pc_hold
  <2> QED
    BY <1>1, <2>1, <2>2, <2>3 DEF YoungPc, FrontPc
<1>2. CASE ~stall_if_id
  <2>1. idex'.valid = ifid.valid /\ idex'.pc = ifid.pc /\ idex'.insn = ifid.insn
        /\ idex'.fault = ifid.fault
    BY <1>2 DEF Edge, IdExEdge, flush_id_ex
  <2>2. ifid'.valid = if_complete(in) /\ (if_complete(in) => ifid'.pc = pc)
    BY <1>2 DEF Edge, IfIdEdge
  <2>3. ~if_complete(in) => core_sleep
    BY DEF if_complete, pipeline_stall, bus_stall, imem_wait, imem_valid
  <2>4. core_sleep => ~if_complete(in) /\ ~ifid.valid
    BY SleepNeverStalls
  <2>5. ~system_redirect(in) /\ ~control_hazard
    BY DEF flush_if_id
  <2>6. pc' = IF core_sleep THEN pc ELSE Plus(pc, 1)
    BY <1>2, <2>5 DEF Edge, PcEdge, pc_hold
  <2> QED
    BY <1>2, <2>1, <2>2, <2>3, <2>4, <2>6 DEF YoungPc, FrontPc
<1> QED
  BY <1>1, <1>2

\* A flush leaves nothing behind EX, and fetch goes on at the target.
LEMMA FlushEmpties ==
  ASSUME IInv, NEW in \in Inputs, Edge(in), ~pipeline_stall(in), flush_if_id(in)
  PROVE  /\ ~ifid'.valid /\ ~idex'.valid
         /\ YoungPc' = pc'
         /\ pc' = IF system_redirect(in) THEN system_redirect_pc(in)
                  ELSE control_transfer_target
<1>1. ~core_sleep
  <2>1. ASSUME core_sleep PROVE FALSE
    <3>1. ~idex.valid /\ ~dmem_request
      BY <2>1 DEF IInv, SleepIsQuiet
    <3>2. ~system_redirect(in)
      BY <3>1 DEF system_redirect, trap_enter, data_access_exception, ex_sync_trap, irq_take,
                  mret_taken, wfi_sleep, fence_i_taken
    <3> QED
      BY <3>1, <3>2, BubbleHazards DEF flush_if_id
  <2> QED
    BY <2>1
<1>2. ~ifid'.valid
  BY DEF Edge, IfIdEdge, IfIdFlushed
<1>3. ~idex'.valid
  BY DEF Edge, IdExEdge, flush_id_ex, IdExFlushed
<1>4. ~pc_hold(in)
  BY <1>1 DEF pc_hold
<1>5. pc' = IF system_redirect(in) THEN system_redirect_pc(in) ELSE control_transfer_target
  BY <1>4 DEF Edge, PcEdge, flush_if_id
<1> QED
  BY <1>2, <1>3, <1>5 DEF YoungPc, FrontPc

\* A memory access in EX redirects nothing but by its trap.
LEMMA AccessGoesStraight ==
  ASSUME NEW in \in Inputs, MemAccess(idex.insn), ~trap_enter(in)
  PROVE  ~flush_if_id(in)
BY DEF flush_if_id, system_redirect, mret_taken, wfi_sleep, fence_i_taken, control_hazard,
       ex_branch_taken, ex_jump, MemAccess, MemRead, MemWrite

\* Every stage hands its PC on, and fetch goes on behind it or at a target that
\* leaves nothing between.
LEMMA PathStep ==
  ASSUME IInv, PathIsSequential, NEW in \in Inputs, Edge(in)
  PROVE  PathIsSequential'
<1>1. CASE pipeline_stall(in)
  <2>1. idex' = idex /\ exmem' = exmem
    BY <1>1, StallFreezes
  <2> QED
    BY <1>1, <2>1, StallHolds DEF PathIsSequential, FrontPc, dmem_request, IfIdFlushed
<1>2. CASE ~pipeline_stall(in)
  <2>1. ifid'.valid => pc' = Plus(ifid'.pc, 1)
    BY <1>2, FlushEmpties, FlowMovesOn DEF PathIsSequential
  <2>2. idex'.valid => FrontPc' = Plus(idex'.pc, 1)
    BY <1>2, FlushEmpties, FlowMovesOn, SleepNeverStalls DEF PathIsSequential, FrontPc
  <2>3. exmem'.valid /\ dmem_request' => YoungPc' = Plus(exmem'.pc, 1)
    <3> SUFFICES ASSUME exmem'.valid, dmem_request' PROVE YoungPc' = Plus(exmem'.pc, 1)
      OBVIOUS
    <3>1. ~trap_enter(in)
      BY <1>2 DEF Edge, ExMemEdge, ExMemFlushed
    <3>2. idex.valid /\ exmem'.pc = idex.pc /\ exmem'.insn = idex.insn
      BY <1>2, <3>1 DEF Edge, ExMemEdge
    <3>3. MemAccess(idex.insn)
      BY <3>2 DEF dmem_request
    <3>4. ~flush_if_id(in)
      BY <3>1, <3>3, AccessGoesStraight
    <3>5. FrontPc = Plus(idex.pc, 1)
      BY <3>2, <3>4 DEF PathIsSequential, flush_if_id
    <3> QED
      BY <1>2, <3>2, <3>4, <3>5, FlowMovesOn
  <2> QED
    BY <2>1, <2>2, <2>3 DEF PathIsSequential
<1> QED
  BY <1>1, <1>2

\* An instruction that leaves EX for MEM was fetched without an error.
LEMMA LeavingEx ==
  ASSUME TypeOK, NEW in \in Inputs, Edge(in), ~pipeline_stall(in), exmem'.valid
  PROVE  /\ idex.valid /\ ~idex.fault /\ ~trap_enter(in) /\ ex_exception = "none"
         /\ exmem' = [valid |-> TRUE, pc |-> idex.pc, insn |-> idex.insn,
                      result |-> ex_result, b |-> operand_b]
<1>1. ~trap_enter(in)
  BY DEF Edge, ExMemEdge, ExMemFlushed
<1>2. exmem' = [valid |-> idex.valid, pc |-> idex.pc, insn |-> idex.insn,
                result |-> ex_result, b |-> operand_b]
  BY <1>1 DEF Edge, ExMemEdge
<1>3. idex.valid
  BY <1>2
<1>4. ex_exception = "none"
  BY <1>1, <1>3 DEF trap_enter, ex_sync_trap, pipeline_advance
<1>5. ~idex.fault
  BY <1>4 DEF ex_exception
<1> QED
  BY <1>1, <1>2, <1>3, <1>4, <1>5 DEF TypeOK

\* What fetch captures or hands on is the instruction at the PC.
LEMMA ProgramStep ==
  ASSUME IInv, StagesHoldProgram, NEW in \in Inputs, Edge(in)
  PROVE  StagesHoldProgram'
<1>1. prog' = prog
  BY DEF Edge
<1>2. if_complete(in) /\ ~if_shows(in).fault => if_shows(in).insn = prog[pc]
  BY DEF StagesHoldProgram, if_shows, Nothing
<1>3. held' # Nothing /\ ~held'.fault => held'.insn = prog[pc']
  <2> SUFFICES ASSUME held' # Nothing, ~held'.fault PROVE held'.insn = prog[pc']
    OBVIOUS
  <2>1. ~(pipeline_advance(in) /\ (flush_if_id(in) \/ (if_complete(in) /\ ~stall_if_id)))
    BY DEF Edge, FetchEdge
  <2>2. held # Nothing => if_complete(in)
    BY DEF if_complete
  <2>3. held'.insn = prog[pc]
    <3>1. CASE held = Nothing /\ if_complete(in)
      <4>1. held' = [if_shows(in) EXCEPT !.insn = IF if_shows(in).fault THEN Nop ELSE @]
        BY <2>1, <3>1 DEF Edge, FetchEdge
      <4> QED
        BY <1>2, <3>1, <4>1, FetchType DEF IInv
    <3>2. CASE ~(held = Nothing /\ if_complete(in))
      BY <2>1, <3>2 DEF Edge, FetchEdge, StagesHoldProgram
    <3> QED
      BY <3>1, <3>2
  <2>4. if_complete(in)
    BY <2>1, <2>2 DEF Edge, FetchEdge
  <2>5. pc' = pc
    <3>1. CASE pipeline_stall(in)
      BY <3>1, StallHolds
    <3>2. CASE ~pipeline_stall(in)
      BY <2>1, <2>4, <3>2, FlowMovesOn DEF pipeline_advance
    <3> QED
      BY <3>1, <3>2
  <2> QED
    BY <2>3, <2>5
<1>4. ifid'.valid /\ ~ifid'.fault => ifid'.insn = prog[ifid'.pc]
  BY <1>2 DEF Edge, IfIdEdge, IfIdFlushed, StagesHoldProgram
<1>5. idex'.valid /\ ~idex'.fault => idex'.insn = prog[idex'.pc]
  BY DEF Edge, IdExEdge, IdExFlushed, StagesHoldProgram
<1>6. exmem'.valid => exmem'.insn = prog[exmem'.pc]
  <2>1. CASE pipeline_stall(in)
    BY <2>1, StallFreezes DEF StagesHoldProgram
  <2>2. CASE ~pipeline_stall(in)
    BY <2>2, LeavingEx DEF IInv, StagesHoldProgram
  <2> QED
    BY <2>1, <2>2
<1>7. Nothing' = Nothing
  BY DEF Nothing, Bubble, Nop
<1> QED
  BY <1>1, <1>3, <1>4, <1>5, <1>6, <1>7 DEF StagesHoldProgram

\* The registers when the instruction in MEM has had its effect: what an
\* instruction in EX has to see.
RegsAfterMem == IF exmem.valid /\ RegWrite(exmem.insn) /\ exmem.insn.rd # 0
                THEN [WriteBack EXCEPT ![exmem.insn.rd] = mem_wb_data] ELSE WriteBack

\* Moving on, the register file takes the result in WB and WB that in MEM.
LEMMA RetireMovesOn ==
  ASSUME TypeOK, NEW in \in Inputs, Edge(in), ~pipeline_stall(in)
  PROVE  /\ regs' = WriteBack
         /\ data_access_exception(in) => ~memwb'.valid /\ WriteBack' = WriteBack
         /\ ~data_access_exception(in) => memwb'.valid = exmem.valid /\ WriteBack' = RegsAfterMem
<1>1. regs' = WriteBack
  BY DEF Edge, RegsEdge, pipeline_advance
<1>2. memwb' = [valid |-> exmem.valid /\ ~data_access_exception(in),
                insn |-> exmem.insn, data |-> mem_wb_data]
  BY DEF Edge, MemWbEdge
<1>3. WriteBack' = IF memwb'.valid /\ RegWrite(memwb'.insn) /\ memwb'.insn.rd # 0
                   THEN [regs' EXCEPT ![memwb'.insn.rd] = memwb'.data] ELSE regs'
  BY DEF WriteBack
<1>4. exmem.valid \in BOOLEAN
  BY DEF TypeOK
<1> QED
  BY <1>1, <1>2, <1>3, <1>4 DEF RegsAfterMem

\* Forwarding delivers the registers after MEM, but for what a load in MEM
\* has yet to read.
LEMMA ForwardingIsFresh ==
  ASSUME IInv, NEW r \in Reg,
         exmem.valid /\ MemRead(exmem.insn) /\ exmem.insn.rd # 0 => r # exmem.insn.rd
  PROVE  Forwarded(r, regs[r]) = RegsAfterMem[r]
<1>1. regs \in [Reg -> Word] /\ memwb.insn.rd \in Reg /\ exmem.insn.rd \in Reg
  BY DEF IInv, TypeOK, Instruction
<1>2. WriteBack \in [Reg -> Word]
  BY WriteBackType DEF IInv
<1>3. WriteBack[r] = IF wb_match(r) THEN memwb.data ELSE regs[r]
  BY <1>1 DEF WriteBack, wb_match, Matches
<1>4. WbSel(exmem.insn) = "MEM" <=> MemRead(exmem.insn)
  BY DEF WbSel, MemRead
<1>5. CASE exmem.valid /\ RegWrite(exmem.insn) /\ exmem.insn.rd # 0 /\ exmem.insn.rd = r
  <2>1. ~MemRead(exmem.insn)
    BY <1>5
  <2>2. mem_wb_data = mem_forward_data
    BY <1>4, <2>1 DEF mem_wb_data
  <2>3. mem_match(r)
    BY <1>4, <1>5, <2>1 DEF mem_match, Matches
  <2>4. RegsAfterMem[r] = mem_wb_data
    BY <1>2, <1>5 DEF RegsAfterMem
  <2> QED
    BY <2>2, <2>3, <2>4 DEF Forwarded
<1>6. CASE ~(exmem.valid /\ RegWrite(exmem.insn) /\ exmem.insn.rd # 0 /\ exmem.insn.rd = r)
  <2>1. ~mem_match(r)
    BY <1>6 DEF mem_match, Matches
  <2>2. RegsAfterMem[r] = WriteBack[r]
    BY <1>1, <1>2, <1>6 DEF RegsAfterMem
  <2> QED
    BY <1>3, <2>1, <2>2 DEF Forwarded
<1> QED
  BY <1>5, <1>6

\* The operands an instruction in EX uses.
LEMMA OperandsAfterMem ==
  ASSUME IInv, OperandsAreFresh, idex.valid
  PROVE  /\ Rs1Read(idex.insn) => operand_a = RegsAfterMem[idex.insn.rs1]
         /\ Rs2Read(idex.insn) /\ ~MemWrite(idex.insn) =>
              operand_b = RegsAfterMem[idex.insn.rs2]
<1>1. idex.insn.rs1 \in Reg /\ idex.insn.rs2 \in Reg
  BY DEF IInv, TypeOK, Instruction
<1> QED
  BY <1>1, ForwardingIsFresh DEF OperandsAreFresh, operand_a, operand_b

\* Decode reads the register file that execution forwards to, behind a load
\* only what the load does not write.
LEMMA OperandsStep ==
  ASSUME IInv, OperandsAreFresh, NEW in \in Inputs, Edge(in)
  PROVE  OperandsAreFresh'
<1>1. CASE pipeline_stall(in)
  BY <1>1, StallFreezes, StallHolds DEF OperandsAreFresh
<1>2. CASE ~pipeline_stall(in)
  <2> SUFFICES ASSUME idex'.valid
               PROVE  /\ idex'.a = regs'[idex'.insn.rs1] /\ idex'.b = regs'[idex'.insn.rs2]
                      /\ exmem'.valid /\ MemRead(exmem'.insn) /\ exmem'.insn.rd # 0 =>
                           /\ Rs1Read(idex'.insn) => idex'.insn.rs1 # exmem'.insn.rd
                           /\ Rs2Read(idex'.insn) /\ ~MemWrite(idex'.insn) =>
                                idex'.insn.rs2 # exmem'.insn.rd
    BY DEF OperandsAreFresh
  <2>1. ~flush_id_ex(in)
    BY <1>2 DEF Edge, IdExEdge, IdExFlushed
  <2>2. idex' = [valid |-> ifid.valid, fault |-> ifid.fault, pc |-> ifid.pc, insn |-> ifid.insn,
                 a |-> WriteBack[ifid.insn.rs1], b |-> WriteBack[ifid.insn.rs2]]
    BY <1>2, <2>1 DEF Edge, IdExEdge
  <2>3. regs' = WriteBack
    BY <1>2, RetireMovesOn DEF IInv
  <2>4. ~load_use_hazard
    BY <2>1 DEF flush_id_ex, stall_if_id
  <2>5. exmem'.valid => exmem'.insn = idex.insn
    BY <1>2, LeavingEx DEF IInv
  <2> QED
    BY <2>2, <2>3, <2>4, <2>5 DEF load_use_hazard
<1> QED
  BY <1>1, <1>2

\* The address and the store data of the access that enters MEM are those of
\* the registers it finds, and what is kept of an answer is what memory holds.
LEMMA AccessStep ==
  ASSUME IInv, OperandsAreFresh, AccessIsFresh, NEW in \in Inputs, Edge(in)
  PROVE  AccessIsFresh'
<1> SUFFICES ASSUME exmem'.valid, dmem_request'
             PROVE  /\ exmem'.result = Plus(WriteBack'[exmem'.insn.rs1], exmem'.insn.imm)
                    /\ ~Misaligned(exmem'.result)
                    /\ MemWrite(exmem'.insn) => store_data' = WriteBack'[exmem'.insn.rs2]
                    /\ MemRead(exmem'.insn) /\ dmem_complete' /\ ~dmem_error_pending' =>
                         dmem_rdata_latched' = mem'[exmem'.result]
  BY DEF AccessIsFresh
<1>1. CASE pipeline_stall(in)
  <2>1. exmem' = exmem /\ memwb' = memwb /\ WriteBack' = WriteBack /\ dmem_request
    BY <1>1, StallFreezes, StallHolds DEF dmem_request
  <2>2. store_data' = store_data
    BY <2>1 DEF store_data, wb_match
  <2>3. ASSUME MemRead(exmem.insn), dmem_complete', ~dmem_error_pending'
        PROVE  dmem_rdata_latched' = mem'[exmem.result]
    <3>1. mem' = mem
      BY <2>3 DEF Edge, MemoryEdge, MemRead, MemWrite
    <3>2. CASE dmem_answered(in)
      <4>1. dmem_rdata_latched' = dmem_response
        BY <1>1, <3>2 DEF Edge, LatchEdge
      <4>2. dmem_response = mem[exmem.result]
        BY <2>3, <3>2 DEF dmem_response, dmem_answered, dmem_valid, dmem_addr
      <4> QED
        BY <3>1, <4>1, <4>2
    <3>3. CASE ~dmem_answered(in)
      <4>1. dmem_complete /\ ~dmem_error_pending /\ dmem_rdata_latched' = dmem_rdata_latched
        BY <1>1, <2>1, <2>3, <3>3 DEF Edge, LatchEdge
      <4> QED
        BY <2>1, <2>3, <3>1, <4>1 DEF AccessIsFresh
    <3> QED
      BY <3>2, <3>3
  <2> QED
    BY <2>1, <2>2, <2>3 DEF AccessIsFresh
<1>2. CASE ~pipeline_stall(in)
  <2> DEFINE i == idex.insn
  <2>1. /\ idex.valid /\ ~trap_enter(in) /\ ex_exception = "none"
        /\ exmem'.insn = i /\ exmem'.result = ex_result /\ exmem'.b = operand_b
    BY <1>2, LeavingEx DEF IInv
  <2>2. MemAccess(i) /\ ~CsrEn(i) /\ ~mdu_active /\ Rs1Read(i) /\ i.rs1 \in Reg /\ i.rs2 \in Reg
    BY <2>1 DEF dmem_request, MemAccess, MemRead, MemWrite, CsrEn, CsrImm, mdu_active, Rs1Read,
           IInv,               TypeOK, Instruction
  <2>3. ~data_access_exception(in)
    BY <2>1 DEF trap_enter
  <2>4. WriteBack' = RegsAfterMem /\ regs' = WriteBack
    BY <1>2, <2>3, RetireMovesOn DEF IInv
  <2>5. ex_result = Plus(RegsAfterMem[i.rs1], i.imm) /\ ex_result = ex_data_addr
    <3>1. operand_a = RegsAfterMem[i.rs1]
      BY <2>1, <2>2, OperandsAfterMem
    <3>2. i.op \notin {"add", "auipc"}
      BY <2>2 DEF MemAccess, MemRead, MemWrite
    <3>3. ex_result = ex_data_addr
      BY <2>2, <3>2 DEF ex_result
    <3> QED
      BY <3>1, <3>3 DEF ex_data_addr
  <2>6. ~Misaligned(ex_data_addr)
    BY <2>1, <2>2 DEF ex_exception, MemAccess
  <2>7. store_data' = WriteBack'[i.rs2]
    <3> DEFINE r == i.rs2
    <3>1. memwb' = [valid |-> exmem.valid, insn |-> exmem.insn, data |-> mem_wb_data]
      BY <1>2, <2>3 DEF Edge, MemWbEdge, IInv, TypeOK
    <3>2. operand_b = Forwarded(r, regs[r])
      BY <2>1 DEF OperandsAreFresh, operand_b
    <3>3. store_data' = IF exmem.valid /\ Matches(exmem.insn, r) THEN mem_wb_data ELSE operand_b
      BY <2>1, <3>1 DEF store_data, wb_match
    <3>4. WriteBack \in [Reg -> Word]
      BY WriteBackType DEF IInv
    <3>5. CASE exmem.valid /\ Matches(exmem.insn, r)
      <4>1. RegsAfterMem[r] = mem_wb_data
        BY <2>2, <3>4, <3>5 DEF Matches, RegsAfterMem
      <4> QED
        BY <2>4, <3>3, <3>5, <4>1
    <3>6. CASE ~(exmem.valid /\ Matches(exmem.insn, r))
      <4>1. exmem.valid /\ MemRead(exmem.insn) /\ exmem.insn.rd # 0 => r # exmem.insn.rd
        BY <3>6 DEF Matches, RegWrite, MemRead
      <4>2. operand_b = RegsAfterMem[r]
        BY <2>2, <3>2, <4>1, ForwardingIsFresh
      <4> QED
        BY <2>4, <3>3, <3>6, <4>2
    <3> QED
      BY <3>5, <3>6
  <2>8. ~dmem_complete'
    BY <1>2 DEF Edge, LatchEdge
  <2> QED
    BY <2>1, <2>4, <2>5, <2>6, <2>7, <2>8
<1> QED
  BY <1>1, <1>2

\* The inductive invariant of the refinement.
OrderInv == IInv /\ PathIsSequential /\ StagesHoldProgram /\ OperandsAreFresh /\ AccessIsFresh

\* Reset satisfies it.
LEMMA OrderInitEstablishes == Init => OrderInv
<1> SUFFICES ASSUME Init PROVE OrderInv
  OBVIOUS
<1>1. IInv
  BY InitEstablishes
<1>2. ~ifid.valid /\ ~idex.valid /\ ~exmem.valid /\ held = Nothing /\ prog \in Programs
  BY DEF Init, IfIdFlushed, IdExFlushed, ExMemFlushed
<1> QED
  BY <1>1, <1>2 DEF OrderInv, PathIsSequential, StagesHoldProgram, OperandsAreFresh,
                    AccessIsFresh

\* Every step preserves it.
LEMMA OrderStep == OrderInv /\ [Next]_vars => OrderInv'
<1> SUFFICES ASSUME OrderInv, [Next]_vars PROVE OrderInv'
  OBVIOUS
<1>1. IInv'
  BY StepPreserves DEF OrderInv
<1>2. CASE Next
  <2>1. PICK in \in Inputs : Edge(in)
    BY <1>2, NextIsEdge
  <2> QED
    BY <1>1, <2>1, PathStep, ProgramStep, OperandsStep, AccessStep DEF OrderInv
<1>3. CASE UNCHANGED vars
  BY <1>1, <1>3 DEF OrderInv, vars, core, stages, latch, PathIsSequential, StagesHoldProgram,
     OperandsAreFresh, AccessIsFresh, YoungPc, FrontPc, control_hazard, ex_branch_taken, ex_jump,
     operand_a, operand_b, Forwarded, mem_match, wb_match, mem_forward_data, dmem_request,
     WriteBack, store_data, Nothing
<1> QED
  BY <1>2, <1>3

\* So it holds of every behaviour.
LEMMA OrderInvHolds == Spec => []OrderInv
BY OrderInitEstablishes, OrderStep, PTL DEF Spec

-----------------------------------------------------------------------------
(* The sequential machine, part by part.                                   *)

\* An architectural state, part by part.
State(p, r, m, c, n, s) ==
  [pc |-> p, regs |-> r, mem |-> m, csr |-> c, accesses |-> n, sleeping |-> s]

Counting(c, n) == [c EXCEPT !.minstret = Plus(@, n)]

Writing(r, i, v) == IF RegWrite(i) /\ i.rd # 0 THEN [r EXCEPT ![i.rd] = v] ELSE r

\* The sequential machine's operators are those of Pipeline.
LEMMA SameOperators ==
  ASSUME NEW i, NEW a, NEW b, NEW c
  PROVE  /\ Machine!Plus(a, b) = Plus(a, b)
         /\ Machine!Misaligned(a) = Misaligned(a)
         /\ Machine!MemRead(i) = MemRead(i) /\ Machine!MemWrite(i) = MemWrite(i)
         /\ Machine!MemAccess(i) = MemAccess(i)
         /\ Machine!CsrEn(i) = CsrEn(i) /\ Machine!CsrImm(i) = CsrImm(i)
         /\ Machine!RegWrite(i) = RegWrite(i)
         /\ Machine!CsrTrap(c, a, b) = CsrTrap(c, a, b)
         /\ Machine!CsrMret(c) = CsrMret(c)
BY DEF Machine!Plus, Plus, Machine!Misaligned, Misaligned, Machine!MemRead, MemRead,
  Machine!MemWrite, MemWrite, Machine!MemAccess, MemAccess, Machine!CsrEn, CsrEn,
  Machine!CsrImm, CsrImm, Machine!RegWrite, RegWrite, Machine!CsrTrap, CsrTrap, Machine!CsrMret,
  CsrMret

\* A trap of the machine.
LEMMA TrappedState ==
  ASSUME NEW p, NEW r, NEW m, NEW c, NEW n, NEW s, NEW cause
  PROVE  Machine!Trapped(State(p, r, m, c, n, s), cause) =
           State(IF cause = "interrupt" THEN InterruptVector ELSE TrapVector, r, m,
                 CsrTrap(c, p, cause), n, s)
<1> DEFINE d == CsrTrap(c, p, cause)
           t == IF cause = "interrupt" THEN InterruptVector ELSE TrapVector
           q == State(p, r, m, c, n, s)
<1>1. q.csr = c /\ q.pc = p
  BY DEF State
<1>2. Machine!Trapped(q, cause) = [[q EXCEPT !.csr = d] EXCEPT !.pc = t]
  <2> HIDE DEF q
  <2> QED
    BY <1>1, SameOperators DEF Machine!Trapped
<1> HIDE DEF d, t
<1>3. [q EXCEPT !.csr = d] = State(p, r, m, d, n, s)
  BY DEF State
<1>4. [State(p, r, m, d, n, s) EXCEPT !.pc = t] = State(t, r, m, d, n, s)
  BY DEF State
<1> HIDE DEF q
<1>5. [[q EXCEPT !.csr = d] EXCEPT !.pc = t] = State(t, r, m, d, n, s)
  BY <1>3, <1>4, Zenon
<1> QED
  BY <1>2, <1>5 DEF d, t, q

\* An instruction retired by the machine.
LEMMA RetiredState ==
  ASSUME NEW p, NEW r, NEW m, NEW c, NEW n, NEW s, NEW i, NEW v, NEW t
  PROVE  Machine!Retired(State(p, r, m, c, n, s), i, v, t) =
           State(t, Writing(r, i, v), m, Counting(c, 1), n, s)
<1> DEFINE d == Counting(c, 1)
           w == Writing(r, i, v)
           q == State(p, r, m, c, n, s)
<1>1. q.csr = c /\ q.regs = r
  BY DEF State
<1>2. Machine!Retired(q, i, v, t) = [[[q EXCEPT !.pc = t] EXCEPT !.csr = d] EXCEPT !.regs = w]
  <2> HIDE DEF q
  <2>1. d = [q.csr EXCEPT !.minstret = Machine!Plus(@, 1)]
    BY <1>1, SameOperators DEF Counting
  <2>2. w = IF Machine!RegWrite(i) THEN Machine!Written(q.regs, i, v) ELSE q.regs
    BY <1>1, SameOperators DEF Writing, Machine!Written
  <2>3. [q EXCEPT !.pc = t].csr = q.csr
    BY <1>1
  <2> QED
    BY <2>1, <2>2 DEF Machine!Retired
<1> HIDE DEF d, w
<1>3. [q EXCEPT !.pc = t] = State(t, r, m, c, n, s)
  BY DEF State
<1>4. [State(t, r, m, c, n, s) EXCEPT !.csr = d] = State(t, r, m, d, n, s)
  BY DEF State
<1>5. [State(t, r, m, d, n, s) EXCEPT !.regs = w] = State(t, w, m, d, n, s)
  BY DEF State
<1> HIDE DEF q
<1>6. [[[q EXCEPT !.pc = t] EXCEPT !.csr = d] EXCEPT !.regs = w] = State(t, w, m, d, n, s)
  BY <1>3, <1>4, <1>5, Zenon
<1> QED
  BY <1>2, <1>6 DEF d, w, q

\* What the machine may do in one step while it is awake.
LEMMA AwakeSteps ==
  ASSUME NEW s, NEW line, ~s.sleeping
  PROVE  /\ Machine!Executions(s, line) \subseteq Machine!Steps(s, line)
         /\ Machine!Trapped(s, "instruction_access") \in Machine!Steps(s, line)
         /\ line /\ s.csr.mie /\ s.csr.mstatus_mie =>
              Machine!Trapped(s, "interrupt") \in Machine!Steps(s, line)
<1>1. Machine!Steps(s, line) =
        Machine!Executions(s, line)
        \cup {Machine!Trapped(s, "instruction_access")}
        \cup {Machine!Trapped(s, "interrupt") :
                w \in {Machine!Wakes(s, line) /\ s.csr.mstatus_mie} \cap {TRUE}}
  BY Zenon DEF Machine!Steps
<1>2. ASSUME line, s.csr.mie, s.csr.mstatus_mie
      PROVE  Machine!Trapped(s, "interrupt") \in Machine!Steps(s, line)
  BY <1>1, <1>2, Zenon DEF Machine!Wakes
<1> QED
  BY <1>1, <1>2, Zenon

\* An enabled interrupt wakes the machine.
LEMMA WakeStep ==
  ASSUME NEW s, NEW line, s.sleeping, line, s.csr.mie
  PROVE  [s EXCEPT !.sleeping = FALSE] \in Machine!Steps(s, line)
BY Zenon DEF Machine!Steps, Machine!Wakes

\* The value and the target of an instruction that neither touches memory or a
\* CSR nor traps or sleeps.
Computes(p, r, i, v, t) ==
  LET a == r[i.rs1]
      b == r[i.rs2]
      next == Plus(p, 1)
  IN  \/ i.op = "addi"    /\ v = Plus(a, i.imm) /\ t = next
      \/ i.op = "add"     /\ v = Plus(a, b) /\ t = next
      \/ i.op = "mul"     /\ v = (a * b) % Words /\ t = next
      \/ i.op = "lui"     /\ v = i.imm /\ t = next
      \/ i.op = "auipc"   /\ v = Plus(p, i.imm) /\ t = next
      \/ i.op = "jal"     /\ v = next /\ t = Plus(p, i.imm)
      \/ i.op = "jalr"    /\ v = next /\ t = Plus(a, i.imm)
      \/ i.op = "beq"     /\ v = 0 /\ t = IF a = b THEN Plus(p, i.imm) ELSE next
      \/ i.op \in {"fence", "fence_i"} /\ v = 0 /\ t = next

\* The machine executes such an instruction in one step.
LEMMA ComputeStep ==
  ASSUME NEW p, NEW r, NEW m, NEW c, NEW n, NEW s, ~s, NEW line, NEW v, NEW t,
         Computes(p, r, prog[p], v, t)
  PROVE  State(t, Writing(r, prog[p], v), m, Counting(c, 1), n, s)
           \in Machine!Steps(State(p, r, m, c, n, s), line)
<1> DEFINE i == prog[p]
           q == State(p, r, m, c, n, s)
<1>1. q.pc = p /\ q.regs = r /\ ~q.sleeping
  BY DEF State
<1> HIDE DEF q
<1>2. Machine!Retired(q, i, v, t) \in Machine!Executions(q, line)
  <2>1. ~Machine!MemAccess(i) /\ ~Machine!CsrEn(i)
    BY DEF Computes, Machine!MemAccess, Machine!MemRead, Machine!MemWrite, Machine!CsrEn,
           Machine!CsrImm
  <2> QED
    BY <1>1, <2>1, SameOperators DEF Machine!Executions, Computes
<1>3. Machine!Retired(q, i, v, t) = State(t, Writing(r, i, v), m, Counting(c, 1), n, s)
  BY RetiredState DEF q
<1> QED
  BY <1>1, <1>2, <1>3, AwakeSteps DEF q

\* An aligned access reaches the bus once, and traps or takes effect.
LEMMA AccessOutcomes ==
  ASSUME NEW p, NEW r, NEW m, NEW c, NEW n, NEW s, ~s, NEW line,
         MemAccess(prog[p]), ~Misaligned(Plus(r[prog[p].rs1], prog[p].imm))
  PROVE  LET i == prog[p]
             addr == Plus(r[i.rs1], i.imm)
             q == State(p, r, m, c, n, s)
         IN  /\ State(TrapVector, r, m,
                      CsrTrap(c, p, IF MemRead(i) THEN "load_access" ELSE "store_access"),
                      Plus(n, 1), s) \in Machine!Steps(q, line)
             /\ MemRead(i) =>
                  State(Plus(p, 1), Writing(r, i, m[addr]), m, Counting(c, 1), Plus(n, 1), s)
                    \in Machine!Steps(q, line)
             /\ MemWrite(i) =>
                  State(Plus(p, 1), r, [m EXCEPT ![addr] = r[i.rs2]], Counting(c, 1),
                        Plus(n, 1), s) \in Machine!Steps(q, line)
<1> DEFINE i == prog[p]
           addr == Plus(r[i.rs1], i.imm)
           q == State(p, r, m, c, n, s)
           used == State(p, r, m, c, Plus(n, 1), s)
           stored == State(p, r, [m EXCEPT ![addr] = r[i.rs2]], c, Plus(n, 1), s)
           cause == IF MemRead(i) THEN "load_access" ELSE "store_access"
<1>1. /\ q.pc = p /\ q.regs = r /\ ~q.sleeping /\ q.accesses = n /\ q.mem = m
      /\ used.mem = m
  BY DEF State
<1>11. [q EXCEPT !.accesses = Plus(n, 1)] = used
  BY DEF State
<1>12. [used EXCEPT !.mem = [m EXCEPT ![addr] = r[i.rs2]]] = stored
  BY DEF State
<1> HIDE DEF q, used, stored, addr
<1>2. Machine!Executions(q, line) = Machine!MemoryOutcomes(q, i, r[i.rs1], r[i.rs2])
  <2>1. Machine!MemAccess(i) /\ ~Machine!CsrEn(i)
        /\ i.op \notin {"addi", "add", "mul", "lui", "auipc", "jal", "jalr", "beq", "fence",
                        "fence_i", "mret", "wfi"}
    BY SameOperators DEF MemAccess, MemRead, MemWrite, CsrEn, CsrImm
  <2> QED
    BY <1>1, <2>1 DEF Machine!Executions
<1>3. Machine!MemoryOutcomes(q, i, r[i.rs1], r[i.rs2]) =
        {Machine!Trapped(used, cause),
         IF MemRead(i) THEN Machine!Retired(used, i, m[addr], Plus(p, 1))
         ELSE Machine!Retired(stored, i, 0, Plus(p, 1))}
  <2> DEFINE u == [q EXCEPT !.accesses = Machine!Plus(q.accesses, 1)]
             w == [u EXCEPT !.mem = [u.mem EXCEPT ![Machine!Plus(r[i.rs1], i.imm)] = r[i.rs2]]]
  <2>1. u = used
    BY <1>1, <1>11, SameOperators, Zenon
  <2>2. w = stored
    BY <1>1, <1>12, <2>1, SameOperators, Zenon DEF addr
  <2>3. /\ ~Machine!Misaligned(Machine!Plus(r[i.rs1], i.imm))
        /\ Machine!Plus(r[i.rs1], i.imm) = addr
        /\ Machine!MemRead(i) = MemRead(i)
        /\ Machine!Plus(q.pc, 1) = Plus(p, 1)
    BY <1>1, SameOperators DEF addr
  <2>4. Machine!MemoryOutcomes(q, i, r[i.rs1], r[i.rs2]) =
          {Machine!Trapped(u, IF Machine!MemRead(i) THEN "load_access" ELSE "store_access"),
           IF Machine!MemRead(i)
           THEN Machine!Retired(u, i, q.mem[Machine!Plus(r[i.rs1], i.imm)], Machine!Plus(q.pc, 1))
           ELSE Machine!Retired(w, i, 0, Machine!Plus(q.pc, 1))}
    BY <2>3, Zenon DEF Machine!MemoryOutcomes
  <2> HIDE DEF u, w
  <2> QED
    BY <1>1, <2>1, <2>2, <2>3, <2>4
<1>4. Machine!Trapped(used, cause) = State(TrapVector, r, m, CsrTrap(c, p, cause), Plus(n, 1), s)
  BY TrappedState DEF used
<1>5. Machine!Retired(used, i, m[addr], Plus(p, 1)) =
        State(Plus(p, 1), Writing(r, i, m[addr]), m, Counting(c, 1), Plus(n, 1), s)
  BY RetiredState DEF used
<1>6. MemWrite(i) => Machine!Retired(stored, i, 0, Plus(p, 1)) =
        State(Plus(p, 1), r, [m EXCEPT ![addr] = r[i.rs2]], Counting(c, 1), Plus(n, 1), s)
  <2>1. MemWrite(i) => Writing(r, i, 0) = r
    BY DEF Writing, RegWrite, MemWrite, CsrEn, CsrImm
  <2>2. Machine!Retired(stored, i, 0, Plus(p, 1)) =
          State(Plus(p, 1), Writing(r, i, 0), [m EXCEPT ![addr] = r[i.rs2]], Counting(c, 1),
                Plus(n, 1), s)
    BY RetiredState DEF stored
  <2> QED
    BY <2>1, <2>2
<1>7. MemWrite(i) => ~MemRead(i)
  BY DEF MemRead, MemWrite
<1> HIDE DEF i, cause
<1> USE <1>1, AwakeSteps
<1>8. Machine!Trapped(used, cause) \in Machine!Steps(q, line)
  BY <1>2, <1>3
<1>9. MemRead(i) => Machine!Retired(used, i, m[addr], Plus(p, 1)) \in Machine!Steps(q, line)
  BY <1>2, <1>3
<1>10. MemWrite(i) => Machine!Retired(stored, i, 0, Plus(p, 1)) \in Machine!Steps(q, line)
  BY <1>2, <1>3, <1>7
<1> QED
  BY <1>4, <1>5, <1>6, <1>8, <1>9, <1>10 DEF i, cause, addr, q

\* A misaligned access traps, and does not reach the bus.
LEMMA MisalignedOutcome ==
  ASSUME NEW p, NEW r, NEW m, NEW c, NEW n, NEW s, ~s, NEW line,
         MemAccess(prog[p]), Misaligned(Plus(r[prog[p].rs1], prog[p].imm))
  PROVE  State(TrapVector, r, m,
               CsrTrap(c, p, IF MemRead(prog[p]) THEN "load_misaligned" ELSE "store_misaligned"),
               n, s) \in Machine!Steps(State(p, r, m, c, n, s), line)
<1> DEFINE i == prog[p]
           q == State(p, r, m, c, n, s)
           cause == IF MemRead(i) THEN "load_misaligned" ELSE "store_misaligned"
<1>1. q.pc = p /\ q.regs = r /\ ~q.sleeping
  BY DEF State
<1> HIDE DEF q
<1>2. Machine!Executions(q, line) = Machine!MemoryOutcomes(q, i, r[i.rs1], r[i.rs2])
  <2>1. Machine!MemAccess(i) /\ ~Machine!CsrEn(i)
        /\ i.op \notin {"addi", "add", "mul", "lui", "auipc", "jal", "jalr", "beq", "fence",
                        "fence_i", "mret", "wfi"}
    BY SameOperators DEF MemAccess, MemRead, MemWrite, CsrEn, CsrImm
  <2> QED
    BY <1>1, <2>1 DEF Machine!Executions
<1>3. Machine!MemoryOutcomes(q, i, r[i.rs1], r[i.rs2]) = {Machine!Trapped(q, cause)}
  BY SameOperators DEF Machine!MemoryOutcomes
<1>4. Machine!Trapped(q, cause) = State(TrapVector, r, m, CsrTrap(c, p, cause), n, s)
  BY TrappedState DEF q
<1> QED
  BY <1>1, <1>2, <1>3, <1>4, AwakeSteps DEF q

\* The same for the CSRs.
LEMMA SameCsrOperators ==
  ASSUME NEW i, NEW a, NEW b, NEW c
  PROVE  /\ Machine!CsrRead(c, a) = CsrRead(c, a)
         /\ Machine!CsrWrite(c, a, b) = CsrWrite(c, a, b)
         /\ Machine!CsrOperation(i, a, b) = CsrOperation(i, a, b)
         /\ Machine!CsrWriteIntent(i) = CsrWriteIntent(i)
         /\ Machine!CsrIllegal(i) = CsrIllegal(i)
<1>1. Machine!CsrRead(c, a) = CsrRead(c, a)
  BY DEF Machine!CsrRead, CsrRead, Machine!ToBit, ToBit
<1>2. Machine!CsrWrite(c, a, b) = CsrWrite(c, a, b)
  BY DEF Machine!CsrWrite, CsrWrite, Machine!Bit, Bit
<1>3. Machine!CsrOperation(i, a, b) = CsrOperation(i, a, b)
  <2>1. Machine!OrWord(a, b) = OrWord(a, b) /\ Machine!AndNotWord(a, b) = AndNotWord(a, b)
    BY Zenon DEF Machine!OrWord, OrWord, Machine!AndNotWord, AndNotWord, Machine!Word, Word,
                 Machine!Bit, Bit
  <2> QED
    BY <2>1 DEF Machine!CsrOperation, CsrOperation, Machine!CsrOp, CsrOp
<1>4. Machine!CsrWriteIntent(i) = CsrWriteIntent(i)
  BY SameOperators DEF Machine!CsrWriteIntent, CsrWriteIntent, Machine!CsrOp, CsrOp
<1>5. Machine!CsrIllegal(i) = CsrIllegal(i)
  BY <1>4, SameOperators DEF Machine!CsrIllegal, CsrIllegal, Machine!CsrValid, CsrValid,
                             Machine!CsrWritable, CsrWritable
<1> QED
  BY <1>1, <1>2, <1>3, <1>4, <1>5

\* A CSR instruction writes, or traps as illegal.
LEMMA CsrInstructionStep ==
  ASSUME NEW p, NEW r, NEW m, NEW c, NEW n, NEW s, ~s, NEW line, CsrEn(prog[p])
  PROVE  LET i == prog[p]
             q == State(p, r, m, c, n, s)
             old == CsrRead(c, i.csr)
             operand == IF CsrImm(i) THEN i.rs1 ELSE r[i.rs1]
             new == IF CsrWriteIntent(i)
                    THEN CsrWrite(c, i.csr, CsrOperation(i, old, operand)) ELSE c
         IN  /\ CsrIllegal(i) =>
                  State(TrapVector, r, m, CsrTrap(c, p, "illegal"), n, s)
                    \in Machine!Steps(q, line)
             /\ ~CsrIllegal(i) =>
                  State(Plus(p, 1), Writing(r, i, old), m, Counting(new, 1), n, s)
                    \in Machine!Steps(q, line)
<1> DEFINE i == prog[p]
           q == State(p, r, m, c, n, s)
           old == CsrRead(c, i.csr)
           operand == IF CsrImm(i) THEN i.rs1 ELSE r[i.rs1]
           new == IF CsrWriteIntent(i)
                  THEN CsrWrite(c, i.csr, CsrOperation(i, old, operand)) ELSE c
           written == State(p, r, m, new, n, s)
<1>1. q.pc = p /\ q.regs = r /\ ~q.sleeping /\ q.csr = c
  BY DEF State
<1>2. [q EXCEPT !.csr = new] = written
  <2> HIDE DEF new
  <2> QED
    BY DEF State
<1> HIDE DEF q, written
<1>3. Machine!Executions(q, line) = Machine!CsrOutcomes(q, i, operand)
  <2>1. ~Machine!MemAccess(i) /\ Machine!CsrEn(i)
        /\ i.op \notin {"addi", "add", "mul", "lui", "auipc", "jal", "jalr", "beq", "fence",
                        "fence_i", "mret", "wfi"}
    BY SameOperators DEF MemAccess, MemRead, MemWrite, CsrEn, CsrImm
  <2> QED
    BY <1>1, <2>1, SameOperators DEF Machine!Executions
<1>4. Machine!CsrOutcomes(q, i, operand) =
        IF CsrIllegal(i) THEN {Machine!Trapped(q, "illegal")}
        ELSE {Machine!Retired(written, i, old, Plus(p, 1))}
  <2> DEFINE mold == Machine!CsrRead(q.csr, i.csr)
             mnew == IF Machine!CsrWriteIntent(i)
                     THEN Machine!CsrWrite(q.csr, i.csr, Machine!CsrOperation(i, mold, operand))
                     ELSE q.csr
             v == [q EXCEPT !.csr = mnew]
  <2>1. mold = old
    BY <1>1, SameCsrOperators
  <2>2. mnew = new
    BY <1>1, <2>1, SameCsrOperators
  <2>3. v = written
    BY <1>2, <2>2, Zenon
  <2>4. Machine!CsrIllegal(i) = CsrIllegal(i) /\ Machine!Plus(q.pc, 1) = Plus(p, 1)
    BY <1>1, SameCsrOperators, SameOperators
  <2>5. Machine!CsrOutcomes(q, i, operand) =
          IF Machine!CsrIllegal(i) THEN {Machine!Trapped(q, "illegal")}
          ELSE {Machine!Retired(v, i, mold, Machine!Plus(q.pc, 1))}
    BY Zenon DEF Machine!CsrOutcomes
  <2> HIDE DEF v, mold, old
  <2> QED
    BY <2>1, <2>3, <2>4, <2>5
<1>5. Machine!Trapped(q, "illegal") = State(TrapVector, r, m, CsrTrap(c, p, "illegal"), n, s)
  BY TrappedState DEF q
<1> HIDE DEF new, old
<1>6. Machine!Retired(written, i, old, Plus(p, 1)) =
        State(Plus(p, 1), Writing(r, i, old), m, Counting(new, 1), n, s)
  BY RetiredState DEF written
<1> HIDE DEF i
<1>7. CASE CsrIllegal(i)
  BY <1>1, <1>3, <1>4, <1>5, <1>7, AwakeSteps DEF q, i
<1>8. CASE ~CsrIllegal(i)
  BY <1>1, <1>3, <1>4, <1>6, <1>8, AwakeSteps DEF q, i, new, old
<1> QED
  BY <1>7, <1>8 DEF i

\* MRET restores the interrupt enable and returns.
LEMMA ReturnStep ==
  ASSUME NEW p, NEW r, NEW m, NEW c, NEW n, NEW s, ~s, NEW line, prog[p].op = "mret"
  PROVE  State(c.mepc, r, m, Counting(CsrMret(c), 1), n, s)
           \in Machine!Steps(State(p, r, m, c, n, s), line)
<1> DEFINE i == prog[p]
           q == State(p, r, m, c, n, s)
           new == CsrMret(c)
           back == State(p, r, m, new, n, s)
<1>1. q.pc = p /\ ~q.sleeping /\ q.csr = c
  BY DEF State
<1> HIDE DEF new
<1>2. [q EXCEPT !.csr = new] = back
  BY DEF State
<1> HIDE DEF q, back
<1>3. Machine!Executions(q, line) =
        {Machine!Retired([q EXCEPT !.csr = Machine!CsrMret(q.csr)], i, 0, q.csr.mepc)}
  <2>1. ~Machine!MemAccess(i) /\ ~Machine!CsrEn(i)
    BY DEF Machine!MemAccess, Machine!MemRead, Machine!MemWrite, Machine!CsrEn, Machine!CsrImm
  <2> QED
    BY <1>1, <2>1 DEF Machine!Executions
<1>4. [q EXCEPT !.csr = Machine!CsrMret(q.csr)] = back
  <2>1. Machine!CsrMret(q.csr) = new
    BY <1>1, SameOperators DEF new
  <2> QED
    BY <1>2, <2>1, Zenon
<1>5. Machine!Retired(back, i, 0, c.mepc) = State(c.mepc, r, m, Counting(new, 1), n, s)
  <2>1. Writing(r, i, 0) = r
    BY DEF Writing, RegWrite, CsrEn, CsrImm
  <2> QED
    BY <2>1, RetiredState DEF back
<1>6. Machine!Retired(back, i, 0, c.mepc) \in Machine!Executions(q, line)
  BY <1>1, <1>3, <1>4, Zenon
<1> QED
  BY <1>1, <1>5, <1>6, AwakeSteps DEF q, new

\* The instructions that only trap.
LEMMA TrapStep ==
  ASSUME NEW p, NEW r, NEW m, NEW c, NEW n, NEW s, ~s, NEW line,
         prog[p].op \in {"illegal", "ebreak", "ecall"}
  PROVE  State(TrapVector, r, m, CsrTrap(c, p, prog[p].op), n, s)
           \in Machine!Steps(State(p, r, m, c, n, s), line)
<1> DEFINE i == prog[p]
           q == State(p, r, m, c, n, s)
<1>1. q.pc = p /\ ~q.sleeping
  BY DEF State
<1> HIDE DEF q
<1>2. Machine!Trapped(q, i.op) \in Machine!Executions(q, line)
  <2>1. ~Machine!MemAccess(i) /\ ~Machine!CsrEn(i)
    BY DEF Machine!MemAccess, Machine!MemRead, Machine!MemWrite, Machine!CsrEn, Machine!CsrImm
  <2> QED
    BY <1>1, <2>1 DEF Machine!Executions
<1>3. Machine!Trapped(q, i.op) = State(TrapVector, r, m, CsrTrap(c, p, i.op), n, s)
  BY TrappedState DEF q
<1> QED
  BY <1>1, <1>2, <1>3, AwakeSteps DEF q

\* Fetch may fail, and an enabled pending interrupt may be taken, in front of
\* any instruction.
LEMMA FrontTraps ==
  ASSUME NEW p, NEW r, NEW m, NEW c, NEW n, NEW s, ~s, NEW line
  PROVE  /\ State(TrapVector, r, m, CsrTrap(c, p, "instruction_access"), n, s)
              \in Machine!Steps(State(p, r, m, c, n, s), line)
         /\ line /\ c.mie /\ c.mstatus_mie =>
              State(InterruptVector, r, m, CsrTrap(c, p, "interrupt"), n, s)
                \in Machine!Steps(State(p, r, m, c, n, s), line)
<1> DEFINE q == State(p, r, m, c, n, s)
<1>1. q.pc = p /\ ~q.sleeping /\ q.csr = c
  BY DEF State
<1> HIDE DEF q
<1>2. Machine!Trapped(q, "instruction_access") =
        State(TrapVector, r, m, CsrTrap(c, p, "instruction_access"), n, s)
  BY TrappedState DEF q
<1>3. Machine!Trapped(q, "interrupt") =
        State(InterruptVector, r, m, CsrTrap(c, p, "interrupt"), n, s)
  BY TrappedState DEF q
<1> QED
  BY <1>1, <1>2, <1>3, AwakeSteps DEF q

\* WFI sleeps unless an enabled interrupt is pending; one that becomes pending
\* ends the sleep.
LEMMA SleepSteps ==
  ASSUME NEW p, NEW r, NEW m, NEW c, NEW n, NEW s \in BOOLEAN, NEW z \in BOOLEAN, NEW line
  PROVE  /\ prog[p].op = "wfi" /\ ~s /\ (z <=> ~(line /\ c.mie)) =>
              State(Plus(p, 1), r, m, Counting(c, 1), n, z)
                \in Machine!Steps(State(p, r, m, c, n, s), line)
         /\ s /\ ~z /\ line /\ c.mie =>
              State(p, r, m, c, n, z) \in Machine!Steps(State(p, r, m, c, n, s), line)
<1> DEFINE i == prog[p]
           q == State(p, r, m, c, n, s)
           after == State(Plus(p, 1), r, m, Counting(c, 1), n, s)
<1>1. q.pc = p /\ q.sleeping = s /\ q.csr = c
  BY DEF State
<1>2. [q EXCEPT !.sleeping = z] = State(p, r, m, c, n, z)
  BY DEF State
<1>3. [after EXCEPT !.sleeping = z] = State(Plus(p, 1), r, m, Counting(c, 1), n, z)
  BY DEF State
<1> HIDE DEF q, after
<1>4. ASSUME i.op = "wfi", ~s, z <=> ~(line /\ c.mie)
      PROVE  State(Plus(p, 1), r, m, Counting(c, 1), n, z) \in Machine!Steps(q, line)
  <2>1. Machine!Executions(q, line) =
          {[Machine!Retired(q, i, 0, Machine!Plus(q.pc, 1)) EXCEPT
              !.sleeping = ~Machine!Wakes(q, line)]}
    <3>1. ~Machine!MemAccess(i) /\ ~Machine!CsrEn(i)
      BY <1>4 DEF Machine!MemAccess, Machine!MemRead, Machine!MemWrite, Machine!CsrEn,
                  Machine!CsrImm
    <3> QED
      BY <1>1, <1>4, <3>1 DEF Machine!Executions
  <2>2. Machine!Retired(q, i, 0, Machine!Plus(q.pc, 1)) = after
    <3>1. Writing(r, i, 0) = r
      BY <1>4 DEF Writing, RegWrite, CsrEn, CsrImm
    <3> QED
      BY <1>1, <3>1, RetiredState, SameOperators DEF q, after
  <2>3. (~Machine!Wakes(q, line)) = z
    BY <1>1, <1>4 DEF Machine!Wakes
  <2>4. [after EXCEPT !.sleeping = z] \in Machine!Executions(q, line)
    BY <2>1, <2>2, <2>3, Zenon
  <2> QED
    BY <1>1, <1>3, <1>4, <2>4, AwakeSteps
<1>5. ASSUME s, ~z, line, c.mie
      PROVE  State(p, r, m, c, n, z) \in Machine!Steps(q, line)
  <2>1. z = FALSE
    BY <1>5
  <2>2. [q EXCEPT !.sleeping = FALSE] \in Machine!Steps(q, line)
    BY <1>1, <1>5, WakeStep
  <2>3. [q EXCEPT !.sleeping = z] \in Machine!Steps(q, line)
    BY <2>1, <2>2, Zenon
  <2> QED
    BY <1>2, <2>3, Zenon
<1> QED
  BY <1>4, <1>5 DEF q

-----------------------------------------------------------------------------
(* The architectural state the pipeline holds.                             *)

\* Counting modulo Words.
LEMMA PlusSums ==
  ASSUME NEW x \in Word, NEW a \in 0 .. 2, NEW b \in 0 .. 2
  PROVE  /\ Plus(x, 0) = x /\ Plus(x, a) \in Word
         /\ Plus(Plus(x, a), b) = Plus(x, a + b)
         /\ Plus(Plus(x, 1), Words - 1) = x /\ Plus(Plus(x, Words - 1), 1) = x
<1>1. x \in Nat /\ x < Words /\ Words \in Nat /\ Words > 3
  BY WordsAssumption DEF Word
<1>2. \A k \in 0 .. 4 : (x + k) % Words = IF x + k < Words THEN x + k ELSE x + k - Words
  BY <1>1
<1>3. (x + (Words - 1)) % Words = IF x = 0 THEN Words - 1 ELSE x - 1
  BY <1>1
<1>4. Plus(x, 0) = x
  BY <1>1 DEF Plus
<1>5. Plus(x, a) \in Word /\ Plus(x, a) = IF x + a < Words THEN x + a ELSE x + a - Words
  BY <1>1, <1>2 DEF Plus, Word
<1>6. Plus(Plus(x, a), b) = Plus(x, a + b)
  <2>1. \A y \in Word : \A k \in 0 .. 4 :
          Plus(y, k) = IF y + k < Words THEN y + k ELSE y + k - Words
    BY <1>1 DEF Plus, Word
  <2>2. a + b \in 0 .. 4 /\ a \in 0 .. 4 /\ b \in 0 .. 4
    OBVIOUS
  <2>3. Plus(Plus(x, a), b) = IF Plus(x, a) + b < Words THEN Plus(x, a) + b
                              ELSE Plus(x, a) + b - Words
    BY <1>5, <2>1, <2>2
  <2>4. Plus(x, a + b) = IF x + (a + b) < Words THEN x + (a + b) ELSE x + (a + b) - Words
    BY <2>1, <2>2
  <2> QED
    BY <1>1, <1>5, <2>3, <2>4
<1>7. Plus(Plus(x, 1), Words - 1) = x
  <2>1. Plus(x, 1) = IF x + 1 < Words THEN x + 1 ELSE 0
    BY <1>1, <1>2 DEF Plus
  <2>2. (x + 1 + (Words - 1)) % Words = x
    BY <1>1
  <2>3. (0 + (Words - 1)) % Words = Words - 1
    BY <1>1
  <2> QED
    BY <1>1, <2>1, <2>2, <2>3 DEF Plus
<1>8. Plus(Plus(x, Words - 1), 1) = x
  <2>1. (Words - 1 + 1) % Words = 0
    BY <1>1
  <2>2. (x - 1 + 1) % Words = x
    BY <1>1
  <2> QED
    BY <1>1, <1>3, <2>1, <2>2 DEF Plus
<1> QED
  BY <1>4, <1>5, <1>6, <1>7, <1>8

\* Counts add up, and a trap or a return leaves them alone.
LEMMA CountingSums ==
  ASSUME NEW c \in TrapState, NEW a \in 0 .. 2, NEW b \in 0 .. 2, NEW p \in Word,
         NEW cause
  PROVE  /\ Counting(c, 0) = c
         /\ Counting(Counting(c, a), b) = Counting(c, a + b)
         /\ CsrTrap(Counting(c, a), p, cause) = Counting(CsrTrap(c, p, cause), a)
         /\ CsrMret(Counting(c, a)) = Counting(CsrMret(c), a)
         /\ Counting(c, a).mepc = c.mepc /\ Counting(c, a).mie = c.mie
         /\ Counting(c, a).mstatus_mie = c.mstatus_mie
<1> DEFINE x == c.minstret
<1>1. x \in Word
  BY DEF TrapState
<1>2. Plus(x, 0) = x /\ Plus(x, a) \in Word /\ Plus(Plus(x, a), b) = Plus(x, a + b)
  BY <1>1, PlusSums
<1>3. Counting(c, 0) = c
  BY <1>2 DEF Counting, TrapState
<1>4. Counting(Counting(c, a), b) = Counting(c, a + b)
  BY <1>2 DEF Counting, TrapState
<1>5. CsrTrap(Counting(c, a), p, cause) = Counting(CsrTrap(c, p, cause), a)
  BY <1>2 DEF Counting, TrapState, CsrTrap
<1>6. CsrMret(Counting(c, a)) = Counting(CsrMret(c), a)
  BY <1>2 DEF Counting, TrapState, CsrMret
<1>7. /\ Counting(c, a).mepc = c.mepc /\ Counting(c, a).mie = c.mie
      /\ Counting(c, a).mstatus_mie = c.mstatus_mie
  BY DEF Counting, TrapState
<1> QED
  BY <1>3, <1>4, <1>5, <1>6, <1>7

\* The architecture when what MEM holds has had its effect.
AfterMem ==
  State(YoungPc, RegsAfterMem, mem', Counting(csr, ToBit(memwb.valid) + ToBit(exmem.valid)),
        accesses', core_sleep)

\* The architectural state, part by part.
ArchitectureForm ==
  Architecture =
    State(IF exmem.valid /\ ~MemDone THEN exmem.pc ELSE YoungPc,
          IF MemCommitted THEN RegsAfterMem ELSE WriteBack,
          mem, Counting(csr, ToBit(memwb.valid) + ToBit(MemCommitted)),
          IF dmem_error_pending THEN Plus(accesses, Words - 1) ELSE accesses,
          core_sleep)

\* It is what the stages make of it.
LEMMA ArchitectureParts == ArchitectureForm
<1>1. ArchPc = IF exmem.valid /\ ~MemDone THEN exmem.pc ELSE YoungPc
  BY DEF ArchPc, YoungPc, FrontPc
<1>2. ArchRegs = IF MemCommitted THEN RegsAfterMem ELSE WriteBack
  BY DEF ArchRegs, MemCommitted, RegsAfterMem
<1>3. [csr EXCEPT !.minstret = Plus(@, InFlight)] =
        Counting(csr, ToBit(memwb.valid) + ToBit(MemCommitted))
  BY DEF Counting, InFlight
<1> QED
  BY <1>1, <1>2, <1>3, Zenon DEF ArchitectureForm, Architecture, State

\* After a step as before.
LEMMA ArchitectureNext ==
  Architecture' =
    State(IF exmem'.valid /\ ~MemDone' THEN exmem'.pc ELSE YoungPc',
          IF MemCommitted' THEN RegsAfterMem' ELSE WriteBack',
          mem', Counting(csr', ToBit(memwb'.valid) + ToBit(MemCommitted')),
          IF dmem_error_pending' THEN Plus(accesses', Words - 1) ELSE accesses',
          core_sleep')
<1>1. ArchitectureForm'
  BY ArchitectureParts, PTL
<1> QED
  BY <1>1 DEF ArchitectureForm, State, Counting, ToBit

\* An access in MEM without effect: the next step of the machine is its.
LEMMA WaitingArchitecture ==
  ASSUME IInv, exmem.valid, dmem_request, ~dmem_complete \/ dmem_error_pending
  PROVE  /\ ~core_sleep
         /\ Architecture =
              State(exmem.pc, WriteBack, mem, Counting(csr, ToBit(memwb.valid)),
                    IF dmem_error_pending THEN Plus(accesses, Words - 1) ELSE accesses,
                    core_sleep)
<1>1. ~MemDone /\ ~MemCommitted
  BY DEF MemDone, MemCommitted, dmem_request
<1>2. ToBit(memwb.valid) + ToBit(MemCommitted) = ToBit(memwb.valid)
  BY <1>1 DEF ToBit
<1>3. ~core_sleep
  BY DEF IInv, SleepIsQuiet
<1> QED
  BY <1>1, <1>2, <1>3, ArchitectureParts DEF ArchitectureForm

\* What the machine does with that access.
LEMMA WaitingOutcomes ==
  ASSUME OrderInv, exmem.valid, dmem_request, NEW n, NEW line,
         NEW c
  PROVE  LET i == exmem.insn
             q == State(exmem.pc, WriteBack, mem, c, n, core_sleep)
         IN  /\ State(TrapVector, WriteBack, mem,
                      CsrTrap(c, exmem.pc, IF MemRead(i) THEN "load_access" ELSE "store_access"),
                      Plus(n, 1), core_sleep) \in Machine!Steps(q, line)
             /\ MemRead(i) =>
                  State(YoungPc, Writing(WriteBack, i, mem[dmem_addr]), mem, Counting(c, 1),
                        Plus(n, 1), core_sleep) \in Machine!Steps(q, line)
             /\ MemWrite(i) =>
                  State(YoungPc, WriteBack, [mem EXCEPT ![dmem_addr] = store_data], Counting(c, 1),
                        Plus(n, 1), core_sleep) \in Machine!Steps(q, line)
<1> DEFINE i == exmem.insn
<1>1. i = prog[exmem.pc]
  BY DEF OrderInv, StagesHoldProgram
<1>2. ~core_sleep
  BY DEF OrderInv, IInv, SleepIsQuiet
<1>3. MemAccess(i) /\ dmem_addr = Plus(WriteBack[i.rs1], i.imm) /\ ~Misaligned(dmem_addr)
      /\ (MemWrite(i) => store_data = WriteBack[i.rs2])
  BY DEF OrderInv, AccessIsFresh, dmem_request, dmem_addr
<1>4. YoungPc = Plus(exmem.pc, 1)
  BY DEF OrderInv, PathIsSequential
<1> HIDE DEF i
<1> QED
  BY <1>1, <1>2, <1>3, <1>4, AccessOutcomes DEF i

\* The pipeline waits: an access that is answered has its effect, or is known
\* to have failed, and nothing else happens.
LEMMA StallStep ==
  ASSUME OrderInv, OrderInv', NEW in \in Inputs, Edge(in), pipeline_stall(in)
  PROVE  Architecture' = Architecture \/ Architecture' \in Machine!Steps(Architecture, irq)
<1>1. IInv /\ IInv' /\ TypeOK
  BY DEF OrderInv, IInv
<1>2. /\ ~core_sleep /\ ~core_sleep' /\ core_sleep' = core_sleep
      /\ csr' = csr /\ WriteBack' = WriteBack /\ YoungPc' = YoungPc
  BY <1>1, StallHolds DEF IInv, TypeOK
<1>3. exmem' = exmem /\ memwb' = memwb /\ dmem_request' = dmem_request
  BY StallFreezes DEF dmem_request
<1>4. CASE ~dmem_answered(in)
  <2>1. mem' = mem /\ accesses' = accesses /\ dmem_rdata_latched' = dmem_rdata_latched
    BY <1>4 DEF Edge, MemoryEdge, LatchEdge
  <2>2. dmem_complete' = dmem_complete /\ dmem_error_pending' = dmem_error_pending
    BY <1>1, <1>4 DEF Edge, LatchEdge, IInv, BubblesAreSilent, TypeOK
  <2>3. MemDone' = MemDone /\ MemCommitted' = MemCommitted
    BY <1>3, <2>2 DEF MemDone, MemCommitted
  <2>4. RegsAfterMem' = RegsAfterMem
    BY <1>2, <1>3, <2>1, <2>2 DEF RegsAfterMem, mem_wb_data, mem_forward_data, dmem_response,
                                  dmem_addr
  <2> QED
    BY <1>1, <1>2, <1>3, <2>1, <2>2, <2>3, <2>4, ArchitectureParts, ArchitectureNext
       DEF ArchitectureForm
<1>5. CASE dmem_answered(in)
  <2>1. dmem_request /\ ~dmem_complete /\ ~dmem_error_pending /\ exmem.valid
    BY <1>1, <1>5 DEF dmem_answered, dmem_valid, IInv, BubblesAreSilent
  <2>2. Architecture = State(exmem.pc, WriteBack, mem, Counting(csr, ToBit(memwb.valid)),
                             accesses, core_sleep)
    BY <1>1, <2>1, WaitingArchitecture
  <2>3. dmem_complete' /\ dmem_error_pending' = (in.dmem = "error")
        /\ accesses' = Plus(accesses, 1)
    BY <1>5, <2>1 DEF Edge, LatchEdge, MemoryEdge
  <2>4. CASE in.dmem = "error"
    <3>1. ~MemDone' /\ ~MemCommitted' /\ mem' = mem
      BY <1>3, <2>1, <2>3, <2>4 DEF MemDone, MemCommitted, dmem_request, Edge, MemoryEdge
    <3>2. ToBit(memwb'.valid) + ToBit(MemCommitted') = ToBit(memwb.valid)
      BY <1>3, <3>1 DEF ToBit
    <3>3. Plus(accesses', Words - 1) = accesses
      BY <1>1, <2>3, PlusSums DEF TypeOK
    <3> QED
      BY <1>2, <1>3, <2>1, <2>2, <2>3, <2>4, <3>1, <3>2, <3>3, ArchitectureNext
  <2>5. CASE in.dmem # "error"
    <3>1. in.dmem = "ok"
      BY <1>5, <2>5, InputAssumption DEF Inputs, dmem_answered
    <3>2. MemDone' /\ MemCommitted' /\ ~dmem_error_pending'
      BY <1>3, <2>1, <2>3, <2>5 DEF MemDone, MemCommitted
    <3>3. Architecture' = State(YoungPc, RegsAfterMem', mem',
                                Counting(Counting(csr, ToBit(memwb.valid)), 1),
                                Plus(accesses, 1), core_sleep)
      <4>1. ToBit(memwb'.valid) + ToBit(MemCommitted') = ToBit(memwb.valid) + 1
        BY <1>3, <3>2 DEF ToBit
      <4>2. Counting(csr, ToBit(memwb.valid) + 1) = Counting(Counting(csr, ToBit(memwb.valid)), 1)
        BY <1>1, CountingSums, SmallWords DEF TypeOK, ToBit
      <4> QED
        BY <1>2, <2>3, <3>2, <4>1, <4>2, ArchitectureNext
    <3>4. CASE MemRead(exmem.insn)
      <4>1. mem' = mem
        BY <3>4 DEF Edge, MemoryEdge, MemRead, MemWrite
      <4>2. mem_wb_data' = mem[dmem_addr]
        <5>1. WbSel(exmem.insn) = "MEM"
          BY <3>4 DEF WbSel, MemRead
        <5>2. mem_wb_data' = dmem_rdata_latched'
          BY <1>3, <2>3, <5>1 DEF mem_wb_data, dmem_response
        <5>3. dmem_rdata_latched' = mem[dmem_addr]
          BY <1>5, <2>1, <3>4 DEF Edge, LatchEdge, dmem_response
        <5> QED
          BY <5>2, <5>3
      <4>3. RegsAfterMem' = Writing(WriteBack, exmem.insn, mem[dmem_addr])
        BY <1>2, <1>3, <2>1, <4>2 DEF RegsAfterMem, Writing
      <4> QED
        BY <2>1, <2>2, <3>3, <3>4, <4>1, <4>3, WaitingOutcomes
    <3>5. CASE MemWrite(exmem.insn)
      <4>1. mem' = [mem EXCEPT ![dmem_addr] = store_data]
        BY <1>5, <3>1, <3>5 DEF Edge, MemoryEdge
      <4>2. RegsAfterMem' = WriteBack
        BY <1>2, <1>3, <3>5 DEF RegsAfterMem, RegWrite, MemWrite, CsrEn, CsrImm
      <4> QED
        BY <2>1, <2>2, <3>3, <3>5, <4>1, <4>2, WaitingOutcomes
    <3> QED
      BY <2>1, <3>4, <3>5 DEF dmem_request, MemAccess
  <2> QED
    BY <2>4, <2>5
<1> QED
  BY <1>4, <1>5

\* The latch of a data answer is clear when the pipeline has moved, so the
\* access that enters MEM is the only one without effect.
LEMMA MovedArchitecture ==
  ASSUME IInv, NEW in \in Inputs, Edge(in), ~pipeline_stall(in), exmem'.valid \in BOOLEAN
  PROVE  /\ exmem'.valid /\ MemAccess(exmem'.insn) =>
              Architecture' = State(exmem'.pc, WriteBack', mem',
                                    Counting(csr', ToBit(memwb'.valid)), accesses', core_sleep')
         /\ exmem'.valid /\ ~MemAccess(exmem'.insn) =>
              Architecture' = State(YoungPc', RegsAfterMem', mem',
                                    Counting(csr', ToBit(memwb'.valid) + 1),
                                    accesses', core_sleep')
         /\ ~exmem'.valid =>
              Architecture' = State(YoungPc', WriteBack', mem',
                                    Counting(csr', ToBit(memwb'.valid)), accesses', core_sleep')
<1>1. ~dmem_complete' /\ ~dmem_error_pending'
  BY DEF Edge, LatchEdge
<1>2. MemDone' = ~MemAccess(exmem'.insn)
  BY <1>1 DEF MemDone, MemAccess
<1>3. MemCommitted' = (exmem'.valid /\ MemDone')
  BY DEF MemCommitted
<1>4. ToBit(memwb'.valid) + 0 = ToBit(memwb'.valid) /\ ToBit(TRUE) = 1 /\ ToBit(FALSE) = 0
  BY DEF ToBit
<1>5. Architecture' =
        State(IF exmem'.valid /\ ~MemDone' THEN exmem'.pc ELSE YoungPc',
              IF MemCommitted' THEN RegsAfterMem' ELSE WriteBack',
              mem', Counting(csr', ToBit(memwb'.valid) + ToBit(MemCommitted')),
              accesses', core_sleep')
  BY <1>1, ArchitectureNext
<1>6. ASSUME exmem'.valid, MemAccess(exmem'.insn)
      PROVE  Architecture' = State(exmem'.pc, WriteBack', mem',
                                   Counting(csr', ToBit(memwb'.valid)), accesses', core_sleep')
  <2>1. ~MemDone' /\ ~MemCommitted' /\ ToBit(MemCommitted') = 0
    BY <1>2, <1>3, <1>6 DEF ToBit
  <2> QED
    BY <1>4, <1>5, <1>6, <2>1
<1>7. ASSUME exmem'.valid, ~MemAccess(exmem'.insn)
      PROVE  Architecture' = State(YoungPc', RegsAfterMem', mem',
                                   Counting(csr', ToBit(memwb'.valid) + 1),
                                   accesses', core_sleep')
  <2>1. MemDone' /\ MemCommitted' /\ ToBit(MemCommitted') = 1
    BY <1>2, <1>3, <1>7 DEF ToBit
  <2> QED
    BY <1>5, <1>7, <2>1
<1>8. ASSUME ~exmem'.valid
      PROVE  Architecture' = State(YoungPc', WriteBack', mem',
                                   Counting(csr', ToBit(memwb'.valid)), accesses', core_sleep')
  <2>1. ~MemCommitted' /\ ToBit(MemCommitted') = 0
    BY <1>3, <1>8 DEF ToBit
  <2> QED
    BY <1>4, <1>5, <1>8, <2>1
<1> QED
  BY <1>6, <1>7, <1>8

\* Moving on, the CSRs take what EX does to them and count what retires.
LEMMA CsrMoves ==
  ASSUME IInv, NEW in \in Inputs, Edge(in), ~pipeline_stall(in)
  PROVE  LET old == CsrRead(csr, idex.insn.csr)
             new == IF trap_enter(in) THEN CsrTrap(csr, trap_pc(in), trap_cause(in))
                    ELSE IF mret_taken(in) THEN CsrMret(csr)
                    ELSE IF idex.valid /\ CsrWriteIntent(idex.insn)
                    THEN CsrWrite(csr, idex.insn.csr, CsrOperation(idex.insn, old, ex_csr_operand))
                    ELSE csr
         IN  new \in TrapState /\ csr' = Counting(new, ToBit(memwb.valid))
<1> DEFINE old == CsrRead(csr, idex.insn.csr)
           written == CsrWrite(csr, idex.insn.csr, CsrOperation(idex.insn, old, ex_csr_operand))
           new == IF trap_enter(in) THEN CsrTrap(csr, trap_pc(in), trap_cause(in))
                  ELSE IF mret_taken(in) THEN CsrMret(csr)
                  ELSE IF idex.valid /\ CsrWriteIntent(idex.insn) THEN written
                  ELSE csr
<1>1. TypeOK /\ csr \in TrapState /\ idex.insn.csr \in Csr /\ trap_pc(in) \in Word
  BY DEF IInv, TypeOK, Instruction, trap_pc
<1>2. CsrTrap(csr, trap_pc(in), trap_cause(in)) \in TrapState /\ CsrMret(csr) \in TrapState
  BY <1>1, CauseType, CsrTrapType
<1>3. ASSUME CsrWriteIntent(idex.insn) PROVE written \in TrapState
  <2>1. CsrOperation(idex.insn, old, ex_csr_operand) \in Word
    BY <1>1, <1>3, CsrOperationInWord, CsrReadInWord, CsrOperandInWord DEF CsrWriteIntent
  <2> QED
    BY <1>1, <2>1, CsrWriteType
<1>4. new \in TrapState
  BY <1>1, <1>2, <1>3
<1>5. new.minstret = csr.minstret
  <2>1. CsrTrap(csr, trap_pc(in), trap_cause(in)).minstret = csr.minstret
        /\ CsrMret(csr).minstret = csr.minstret
    BY <1>1 DEF CsrTrap, CsrMret, TrapState
  <2>2. written.minstret = csr.minstret
    BY <1>1 DEF CsrWrite, TrapState
  <2> HIDE DEF written
  <2> QED
    BY <2>1, <2>2
<1>6. csr' = IF memwb.valid THEN [new EXCEPT !.minstret = Plus(csr.minstret, 1)] ELSE new
  BY DEF Edge, CsrEdge, pipeline_advance
<1> HIDE DEF new
<1>7. Counting(new, 0) = new
  BY <1>4, CountingSums, SmallWords
<1>8. csr' = Counting(new, ToBit(memwb.valid))
  BY <1>5, <1>6, <1>7 DEF Counting, ToBit
<1> QED
  BY <1>4, <1>8 DEF new

\* A trap empties the pipeline but for what retires.
LEMMA TrapEmpties ==
  ASSUME IInv, NEW in \in Inputs, Edge(in), trap_enter(in)
  PROVE  /\ ~pipeline_stall(in) /\ ~core_sleep /\ ~core_sleep'
         /\ YoungPc' = IF irq_take(in) THEN InterruptVector ELSE TrapVector
         /\ ~exmem'.valid
         /\ csr' = Counting(CsrTrap(csr, trap_pc(in), trap_cause(in)), ToBit(memwb.valid))
<1>1. ~pipeline_stall(in) /\ pipeline_advance(in)
  BY RedirectAdvances DEF pipeline_advance
<1>2. system_redirect(in) /\ flush_if_id(in)
  BY DEF system_redirect, flush_if_id
<1>3. ~core_sleep
  BY DEF IInv, SleepIsQuiet, trap_enter, data_access_exception, ex_sync_trap, irq_take
<1>4. ~core_sleep'
  BY <1>3 DEF Edge, SleepEdge, wfi_sleep, Unhindered
<1>5. YoungPc' = IF irq_take(in) THEN InterruptVector ELSE TrapVector
  BY <1>1, <1>2, FlushEmpties DEF system_redirect_pc
<1>6. ~exmem'.valid
  BY <1>1 DEF Edge, ExMemEdge, ExMemFlushed
<1>7. csr' = Counting(CsrTrap(csr, trap_pc(in), trap_cause(in)), ToBit(memwb.valid))
  BY <1>1, CsrMoves
<1> QED
  BY <1>1, <1>3, <1>4, <1>5, <1>6, <1>7

\* The access in MEM failed: it traps, precisely.
LEMMA AccessErrorStep ==
  ASSUME OrderInv, OrderInv', NEW in \in Inputs, Edge(in), data_access_exception(in)
  PROVE  Architecture' \in Machine!Steps(Architecture, irq)
<1> DEFINE c == Counting(csr, ToBit(memwb.valid))
           n == IF dmem_error_pending THEN Plus(accesses, Words - 1) ELSE accesses
           cause == IF MemRead(exmem.insn) THEN "load_access" ELSE "store_access"
<1>1. IInv /\ IInv' /\ TypeOK /\ TypeOK'
  BY DEF OrderInv, IInv
<1>2. exmem.valid /\ dmem_request /\ ~pipeline_stall(in) /\ trap_enter(in) /\ ~irq_take(in)
      /\ (dmem_error_pending \/ (dmem_answered(in) /\ in.dmem = "error"))
  BY DEF data_access_exception, pipeline_advance, trap_enter, irq_take
<1>3. /\ ~core_sleep
      /\ Architecture = State(exmem.pc, WriteBack, mem, c, n, core_sleep)
  BY <1>1, <1>2, WaitingArchitecture DEF dmem_answered, dmem_valid
<1>4. /\ core_sleep' = core_sleep /\ YoungPc' = TrapVector /\ ~exmem'.valid
      /\ csr' = Counting(CsrTrap(csr, exmem.pc, cause), ToBit(memwb.valid))
  BY <1>1, <1>2, TrapEmpties DEF IInv, TypeOK, trap_pc, trap_cause
<1>5. ~memwb'.valid /\ WriteBack' = WriteBack
  BY <1>1, <1>2, RetireMovesOn
<1>6. mem' = mem
  BY <1>1, <1>2 DEF Edge, MemoryEdge, dmem_answered, dmem_valid, IInv, BubblesAreSilent
<1>7. accesses' = Plus(n, 1)
  <2>1. CASE dmem_error_pending
    <3>1. accesses' = accesses
      BY <1>1, <2>1 DEF Edge, MemoryEdge, dmem_answered, dmem_valid, IInv, BubblesAreSilent
    <3> QED
      BY <1>1, <2>1, <3>1, PlusSums DEF TypeOK
  <2>2. CASE ~dmem_error_pending
    BY <1>2, <2>2 DEF Edge, MemoryEdge
  <2> QED
    BY <2>1, <2>2
<1>8. Counting(csr', ToBit(memwb'.valid)) = CsrTrap(c, exmem.pc, cause)
  <2>1. ToBit(memwb'.valid) = 0 /\ csr' \in TrapState /\ csr \in TrapState /\ exmem.pc \in Word
        /\ ToBit(memwb.valid) \in 0 .. 2
    BY <1>1, <1>5 DEF ToBit, TypeOK
  <2>2. Counting(csr', 0) = csr'
    BY <2>1, CountingSums, SmallWords
  <2> QED
    BY <1>4, <2>1, <2>2, CountingSums, SmallWords
<1>9. Architecture' = State(TrapVector, WriteBack, mem, CsrTrap(c, exmem.pc, cause),
                            Plus(n, 1), core_sleep)
  BY <1>1, <1>2, <1>4, <1>5, <1>6, <1>7, <1>8, MovedArchitecture DEF TypeOK
<1> HIDE DEF c, n
<1> QED
  BY <1>2, <1>3, <1>9, WaitingOutcomes

-----------------------------------------------------------------------------
(* The pipeline moves on: first what MEM does, then what leaves EX.        *)

\* The pipeline moves on: what is in MEM has its effect, if it has not had it
\* already.
LEMMA MemStep ==
  ASSUME OrderInv, NEW in \in Inputs, Edge(in), ~pipeline_stall(in), ~data_access_exception(in)
  PROVE  AfterMem = Architecture \/ AfterMem \in Machine!Steps(Architecture, irq)
<1>1. IInv /\ TypeOK
  BY DEF OrderInv, IInv
<1>2. Architecture =
        State(IF exmem.valid /\ ~MemDone THEN exmem.pc ELSE YoungPc,
              IF MemCommitted THEN RegsAfterMem ELSE WriteBack,
              mem, Counting(csr, ToBit(memwb.valid) + ToBit(MemCommitted)),
              IF dmem_error_pending THEN Plus(accesses, Words - 1) ELSE accesses,
              core_sleep)
  BY ArchitectureParts DEF ArchitectureForm
<1>3. CASE ~exmem.valid \/ ~dmem_request \/ (dmem_complete /\ ~dmem_error_pending)
  <2>1. ~dmem_answered(in) /\ ~dmem_error_pending
    BY <1>1, <1>3 DEF dmem_answered, dmem_valid, IInv, BubblesAreSilent
  <2>2. mem' = mem /\ accesses' = accesses
    BY <2>1 DEF Edge, MemoryEdge
  <2>3. MemDone
    BY <1>1, <1>3 DEF MemDone, dmem_request, IInv, BubblesAreSilent
  <2>4. MemCommitted = exmem.valid
    BY <1>1, <2>3 DEF MemCommitted, TypeOK
  <2>5. (IF MemCommitted THEN RegsAfterMem ELSE WriteBack) = RegsAfterMem
    BY <2>4 DEF RegsAfterMem
  <2> QED
    BY <1>2, <2>1, <2>2, <2>3, <2>4, <2>5 DEF AfterMem
<1>4. CASE exmem.valid /\ dmem_request /\ (~dmem_complete \/ dmem_error_pending)
  <2> DEFINE c == Counting(csr, ToBit(memwb.valid))
  <2>1. dmem_answered(in) /\ in.dmem = "ok" /\ ~dmem_complete /\ ~dmem_error_pending
    <3>1. ~dmem_error_pending /\ ~dmem_complete
      BY <1>4 DEF data_access_exception, pipeline_advance
    <3>2. dmem_answered(in)
      BY <1>4, <3>1 DEF dmem_answered, dmem_valid, pipeline_stall, bus_stall, dmem_wait
    <3> QED
      BY <1>4, <3>1, <3>2, InputAssumption DEF data_access_exception, pipeline_advance, Inputs,
                                               dmem_answered
  <2>2. Architecture = State(exmem.pc, WriteBack, mem, c, accesses, core_sleep)
    BY <1>1, <1>4, <2>1, WaitingArchitecture
  <2>3. accesses' = Plus(accesses, 1)
    BY <2>1 DEF Edge, MemoryEdge
  <2>4. Counting(csr, ToBit(memwb.valid) + ToBit(exmem.valid)) = Counting(c, 1)
    <3>1. ToBit(exmem.valid) = 1 /\ ToBit(memwb.valid) \in 0 .. 2
      BY <1>4 DEF ToBit
    <3> QED
      BY <1>1, <3>1, CountingSums, SmallWords DEF TypeOK
  <2> HIDE DEF c
  <2>5. CASE MemRead(exmem.insn)
    <3>1. mem' = mem
      BY <2>5 DEF Edge, MemoryEdge, MemRead, MemWrite
    <3>2. mem_wb_data = mem[dmem_addr]
      BY <2>1, <2>5 DEF mem_wb_data, dmem_response, WbSel, MemRead
    <3>3. RegsAfterMem = Writing(WriteBack, exmem.insn, mem[dmem_addr])
      BY <1>4, <3>2 DEF RegsAfterMem, Writing
    <3> QED
      BY <1>4, <2>2, <2>3, <2>4, <2>5, <3>1, <3>3, WaitingOutcomes DEF AfterMem
  <2>6. CASE MemWrite(exmem.insn)
    <3>1. mem' = [mem EXCEPT ![dmem_addr] = store_data]
      BY <2>1, <2>6 DEF Edge, MemoryEdge
    <3>2. RegsAfterMem = WriteBack
      BY <2>6 DEF RegsAfterMem, RegWrite, MemWrite, CsrEn, CsrImm
    <3> QED
      BY <1>4, <2>2, <2>3, <2>4, <2>6, <3>1, <3>2, WaitingOutcomes DEF AfterMem
  <2> QED
    BY <1>4, <2>5, <2>6 DEF dmem_request, MemAccess
<1> QED
  BY <1>3, <1>4

\* Nothing leaves EX: the front moves up, and an enabled interrupt may end a
\* sleep.
LEMMA BubbleStep ==
  ASSUME OrderInv, OrderInv', NEW in \in Inputs, Edge(in), ~pipeline_stall(in),
         ~data_access_exception(in), ~idex.valid
  PROVE  Architecture' = AfterMem \/ Architecture' \in Machine!Steps(AfterMem, irq)
<1>1. IInv /\ IInv' /\ TypeOK /\ TypeOK'
  BY DEF OrderInv, IInv
<1>2. ~trap_enter(in) /\ ~system_redirect(in) /\ ~mret_taken(in) /\ ~wfi_sleep(in)
  BY DEF system_redirect, trap_enter, ex_sync_trap, irq_take, mret_taken, wfi_sleep,
         fence_i_taken
<1>3. ~flush_if_id(in)
  BY <1>1, <1>2, BubbleHazards DEF flush_if_id
<1>4. YoungPc' = YoungPc
  BY <1>1, <1>3, FlowMovesOn DEF YoungPc
<1>5. ~exmem'.valid
  BY <1>2 DEF Edge, ExMemEdge, ExMemFlushed
<1>6. memwb'.valid = exmem.valid /\ WriteBack' = RegsAfterMem
  BY <1>1, RetireMovesOn
<1>7. Counting(csr', ToBit(memwb'.valid)) =
        Counting(csr, ToBit(memwb.valid) + ToBit(exmem.valid))
  <2>2. csr \in TrapState
    BY <1>1 DEF TypeOK
  <2>3. csr' = Counting(csr, ToBit(memwb.valid))
    BY <1>1, <1>2, CsrMoves
  <2>4. ToBit(memwb.valid) \in 0 .. 2 /\ ToBit(exmem.valid) \in 0 .. 2
    BY DEF ToBit
  <2> QED
    BY <1>6, <2>2, <2>3, <2>4, CountingSums, SmallWords
<1> DEFINE c == Counting(csr, ToBit(memwb.valid) + ToBit(exmem.valid))
<1>8. Architecture' = State(YoungPc, RegsAfterMem, mem', c, accesses', core_sleep')
  BY <1>1, <1>4, <1>5, <1>6, <1>7, MovedArchitecture DEF TypeOK
<1>9. core_sleep' = IF core_sleep /\ wake_pending THEN FALSE ELSE core_sleep
  BY <1>1, <1>2 DEF Edge, SleepEdge, TypeOK
<1>10. CASE core_sleep /\ wake_pending
  <2>1. c.mie = csr.mie /\ irq /\ csr.mie
    BY <1>1, <1>10 DEF Counting, TypeOK, TrapState, wake_pending
  <2>2. core_sleep \in BOOLEAN /\ core_sleep' \in BOOLEAN /\ ~core_sleep'
    BY <1>1, <1>9, <1>10 DEF TypeOK
  <2> HIDE DEF c
  <2>3. Architecture' \in
          Machine!Steps(State(YoungPc, RegsAfterMem, mem', c, accesses', core_sleep), irq)
    BY <1>8, <1>10, <2>1, <2>2, SleepSteps
  <2> QED
    BY <2>3 DEF AfterMem, c
<1>11. CASE ~(core_sleep /\ wake_pending)
  BY <1>8, <1>9, <1>11 DEF AfterMem
<1> QED
  BY <1>10, <1>11

\* The instruction in EX is the one the machine is at when MEM is done.
LEMMA NextInEx ==
  ASSUME OrderInv, idex.valid
  PROVE  /\ YoungPc = idex.pc /\ ~core_sleep
         /\ ~idex.fault => idex.insn = prog[idex.pc] /\ idex.insn.op # "none"
<1>1. YoungPc = idex.pc /\ ~core_sleep
  BY DEF YoungPc, OrderInv, IInv, SleepIsQuiet
<1>2. ASSUME ~idex.fault PROVE idex.insn = prog[idex.pc] /\ idex.insn.op # "none"
  <2>1. idex.insn = prog[idex.pc] /\ prog \in Programs
    BY <1>2 DEF OrderInv, StagesHoldProgram
  <2>2. prog \in [Word -> {i \in Instruction : i.op # "none"}]
    BY <2>1, ProgramAssumption
  <2>3. idex.pc \in Word
    BY DEF OrderInv, IInv, TypeOK
  <2> QED
    BY <2>1, <2>2, <2>3
<1> QED
  BY <1>1, <1>2

\* The exception EX raises is one the machine raises.
LEMMA ExceptionStep ==
  ASSUME OrderInv, idex.valid, ex_exception # "none", NEW m, NEW c, NEW n, NEW line
  PROVE  State(TrapVector, RegsAfterMem, m, CsrTrap(c, idex.pc, ex_exception), n, core_sleep)
           \in Machine!Steps(State(YoungPc, RegsAfterMem, m, c, n, core_sleep), line)
<1> DEFINE i == idex.insn
           r == RegsAfterMem
           After(e) == State(TrapVector, r, m, CsrTrap(c, idex.pc, e), n, core_sleep)
           q == State(idex.pc, r, m, c, n, core_sleep)
<1>1. YoungPc = idex.pc /\ ~core_sleep
  BY NextInEx
<1>2. CASE idex.fault
  <2>1. ex_exception = "instruction_access"
    BY <1>2 DEF ex_exception
  <2> QED
    BY <1>1, <2>1, FrontTraps
<1>3. CASE ~idex.fault
  <2>1. i = prog[idex.pc]
    BY <1>3, NextInEx
  <2>2. CASE i.op \in {"illegal", "ebreak", "ecall"}
    <3>1. ex_exception = i.op
      BY <1>3, <2>2 DEF ex_exception, CsrIllegal, CsrEn, CsrImm, MemRead, MemWrite
    <3> QED
      BY <1>1, <2>1, <2>2, <3>1, TrapStep
  <2>3. CASE CsrIllegal(i)
    <3>1. ex_exception = "illegal" /\ CsrEn(i)
      BY <1>3, <2>3 DEF ex_exception, CsrIllegal, CsrEn, CsrImm, MemRead, MemWrite
    <3> QED
      BY <1>1, <2>1, <2>3, <3>1, CsrInstructionStep
  <2>4. CASE i.op \notin {"illegal", "ebreak", "ecall"} /\ ~CsrIllegal(i)
    <3>1. /\ MemAccess(i) /\ Misaligned(ex_data_addr)
          /\ ex_exception = IF MemRead(i) THEN "load_misaligned" ELSE "store_misaligned"
      BY <1>3, <2>4 DEF ex_exception, MemAccess, MemRead, MemWrite
    <3>2. ex_data_addr = Plus(r[i.rs1], i.imm)
      <4>1. operand_a = r[i.rs1]
        BY <3>1, OperandsAfterMem DEF OrderInv, Rs1Read, MemAccess, MemRead, MemWrite
      <4> QED
        BY <4>1 DEF ex_data_addr
    <3> HIDE DEF r
    <3> QED
      BY <1>1, <2>1, <3>1, <3>2, MisalignedOutcome DEF r
  <2> QED
    BY <2>2, <2>3, <2>4
<1> QED
  BY <1>2, <1>3

\* The instruction in EX traps, or an interrupt is taken in front of it.
LEMMA TrapExStep ==
  ASSUME OrderInv, OrderInv', NEW in \in Inputs, Edge(in),
         ~data_access_exception(in), trap_enter(in)
  PROVE  Architecture' \in Machine!Steps(AfterMem, irq)
<1> DEFINE c == Counting(csr, ToBit(memwb.valid) + ToBit(exmem.valid))
           cause == trap_cause(in)
           target == IF irq_take(in) THEN InterruptVector ELSE TrapVector
<1>1. IInv /\ IInv' /\ TypeOK /\ TypeOK'
  BY DEF OrderInv, IInv
<1>2. idex.valid /\ (ex_sync_trap(in) \/ irq_take(in)) /\ trap_pc(in) = idex.pc
  BY DEF trap_enter, ex_sync_trap, irq_take, trap_pc
<1>3. /\ ~pipeline_stall(in) /\ core_sleep' = core_sleep /\ YoungPc' = target /\ ~exmem'.valid
      /\ csr' = Counting(CsrTrap(csr, idex.pc, cause), ToBit(memwb.valid))
  BY <1>1, <1>2, TrapEmpties DEF TypeOK
<1>4. memwb'.valid = exmem.valid /\ WriteBack' = RegsAfterMem
  BY <1>1, <1>3, RetireMovesOn
<1>5. Counting(csr', ToBit(memwb'.valid)) = CsrTrap(c, idex.pc, cause)
  <2>1. /\ ToBit(memwb.valid) \in 0 .. 2 /\ ToBit(exmem.valid) \in 0 .. 2
        /\ ToBit(memwb.valid) + ToBit(exmem.valid) \in 0 .. 2
        /\ csr \in TrapState /\ idex.pc \in Word
    BY <1>1 DEF ToBit, TypeOK
  <2>2. CsrTrap(csr, idex.pc, cause) \in TrapState
    BY <1>1, <2>1, CauseType, CsrTrapType
  <2>3. CsrTrap(c, idex.pc, cause) =
          Counting(CsrTrap(csr, idex.pc, cause), ToBit(memwb.valid) + ToBit(exmem.valid))
    BY <2>1, CountingSums
  <2>4. Counting(Counting(CsrTrap(csr, idex.pc, cause), ToBit(memwb.valid)), ToBit(exmem.valid)) =
          Counting(CsrTrap(csr, idex.pc, cause), ToBit(memwb.valid) + ToBit(exmem.valid))
    BY <2>1, <2>2, CountingSums
  <2> HIDE DEF c, cause
  <2> QED
    BY <1>3, <1>4, <2>3, <2>4
<1>6. Architecture' = State(target, RegsAfterMem, mem', CsrTrap(c, idex.pc, cause), accesses',
                            core_sleep)
  BY <1>1, <1>3, <1>4, <1>5, MovedArchitecture DEF TypeOK
<1>7. AfterMem = State(YoungPc, RegsAfterMem, mem', c, accesses', core_sleep)
  BY DEF AfterMem
<1>8. CASE irq_take(in)
  <2>1. cause = "interrupt" /\ target = InterruptVector
    BY <1>8 DEF trap_cause
  <2>2. irq /\ csr.mie /\ csr.mstatus_mie
    BY <1>8 DEF irq_take, irq_pending, wake_pending
  <2>3. c.mie = csr.mie /\ c.mstatus_mie = csr.mstatus_mie
    BY <1>1 DEF Counting, TypeOK, TrapState
  <2> HIDE DEF c
  <2> QED
    BY <1>2, <1>6, <1>7, <2>1, <2>2, <2>3, NextInEx, FrontTraps
<1>9. CASE ~irq_take(in)
  <2>1. cause = ex_exception /\ ex_exception # "none" /\ target = TrapVector
    BY <1>2, <1>9 DEF trap_cause, ex_sync_trap
  <2> HIDE DEF c
  <2> QED
    BY <1>2, <1>6, <1>7, <2>1, ExceptionStep
<1> QED
  BY <1>8, <1>9

\* An instruction leaves EX without a trap: it was fetched, raises nothing,
\* and moves to MEM.
LEMMA LeavesEx ==
  ASSUME OrderInv, OrderInv', NEW in \in Inputs, Edge(in), ~pipeline_stall(in),
         idex.valid, ~trap_enter(in)
  PROVE  LET i == idex.insn
         IN  /\ ~idex.fault /\ ex_exception = "none" /\ ~CsrIllegal(i)
             /\ i = prog[idex.pc] /\ YoungPc = idex.pc /\ ~core_sleep
             /\ i.op \notin {"illegal", "ebreak", "ecall", "none"}
             /\ exmem'.valid /\ exmem'.pc = idex.pc /\ exmem'.insn = i /\ exmem'.result = ex_result
             /\ memwb'.valid = exmem.valid /\ WriteBack' = RegsAfterMem
<1> DEFINE i == idex.insn
<1>1. IInv /\ TypeOK
  BY DEF OrderInv, IInv
<1>2. ~data_access_exception(in)
  BY DEF trap_enter
<1>3. memwb'.valid = exmem.valid /\ WriteBack' = RegsAfterMem
  BY <1>1, <1>2, RetireMovesOn
<1>4. exmem' = [valid |-> idex.valid, pc |-> idex.pc, insn |-> i, result |-> ex_result,
                b |-> operand_b]
  BY DEF Edge, ExMemEdge
<1>5. ex_exception = "none"
  BY DEF trap_enter, ex_sync_trap, pipeline_advance
<1>6. ~idex.fault
  BY <1>5 DEF ex_exception
<1>7. i.op \notin {"illegal", "ebreak", "ecall"} /\ ~CsrIllegal(i)
  BY <1>5, <1>6 DEF ex_exception, CsrIllegal, CsrEn, CsrImm, MemRead, MemWrite
<1> QED
  BY <1>3, <1>4, <1>5, <1>6, <1>7, NextInEx

\* A memory access enters MEM and has yet to reach the bus.
LEMMA AccessEntersMem ==
  ASSUME OrderInv, OrderInv', NEW in \in Inputs, Edge(in), ~pipeline_stall(in),
         idex.valid, ~trap_enter(in), MemAccess(idex.insn)
  PROVE  Architecture' = AfterMem
<1>1. IInv /\ IInv' /\ TypeOK /\ TypeOK'
  BY DEF OrderInv, IInv
<1>2. /\ exmem'.valid /\ exmem'.pc = YoungPc /\ MemAccess(exmem'.insn) /\ ~core_sleep
      /\ memwb'.valid = exmem.valid /\ WriteBack' = RegsAfterMem
  BY LeavesEx
<1>3. csr' = Counting(csr, ToBit(memwb.valid))
  <2>1. ~mret_taken(in) /\ ~CsrWriteIntent(idex.insn)
    BY DEF mret_taken, CsrWriteIntent, CsrEn, CsrImm, MemAccess, MemRead, MemWrite
  <2> QED
    BY <1>1, <2>1, CsrMoves
<1>4. Counting(csr', ToBit(memwb'.valid)) =
        Counting(csr, ToBit(memwb.valid) + ToBit(exmem.valid))
  <2>1. ToBit(memwb.valid) \in 0 .. 2 /\ ToBit(exmem.valid) \in 0 .. 2 /\ csr \in TrapState
    BY <1>1 DEF ToBit, TypeOK
  <2> QED
    BY <1>2, <1>3, <2>1, CountingSums, SmallWords
<1>5. core_sleep' = core_sleep
  <2>1. ~wfi_sleep(in)
    BY DEF wfi_sleep, MemAccess, MemRead, MemWrite
  <2> QED
    BY <1>1, <1>2, <2>1 DEF Edge, SleepEdge, TypeOK
<1> QED
  BY <1>1, <1>2, <1>4, <1>5, MovedArchitecture DEF TypeOK, AfterMem

\* Any other instruction takes effect as it leaves EX: the state it leaves.
LEMMA ExecutedState ==
  ASSUME OrderInv, OrderInv', NEW in \in Inputs, Edge(in), ~pipeline_stall(in),
         idex.valid, ~trap_enter(in), ~MemAccess(idex.insn)
  PROVE  LET i == idex.insn
             new == IF mret_taken(in) THEN CsrMret(csr)
                    ELSE IF CsrWriteIntent(i)
                    THEN CsrWrite(csr, i.csr, CsrOperation(i, CsrRead(csr, i.csr), ex_csr_operand))
                    ELSE csr
             value == CASE i.op \in {"jal", "jalr"} -> Plus(idex.pc, 1)
                        [] i.op = "lui"             -> i.imm
                        [] OTHER                    -> ex_result
         IN  Architecture' =
               State(YoungPc', Writing(RegsAfterMem, i, value), mem',
                     Counting(Counting(new, ToBit(memwb.valid) + ToBit(exmem.valid)), 1),
                     accesses', core_sleep')
<1> DEFINE i == idex.insn
           new == IF mret_taken(in) THEN CsrMret(csr)
                  ELSE IF CsrWriteIntent(i)
                  THEN CsrWrite(csr, i.csr, CsrOperation(i, CsrRead(csr, i.csr), ex_csr_operand))
                  ELSE csr
           value == CASE i.op \in {"jal", "jalr"} -> Plus(idex.pc, 1)
                      [] i.op = "lui"             -> i.imm
                      [] OTHER                    -> ex_result
<1>1. IInv /\ IInv' /\ TypeOK /\ TypeOK'
  BY DEF OrderInv, IInv
<1>2. /\ exmem'.valid /\ exmem'.pc = idex.pc /\ exmem'.insn = i /\ exmem'.result = ex_result
      /\ memwb'.valid = exmem.valid /\ WriteBack' = RegsAfterMem
  BY LeavesEx
<1>3. new \in TrapState /\ csr' = Counting(new, ToBit(memwb.valid))
  BY <1>1, CsrMoves
<1> HIDE DEF new
<1>4. Counting(csr', ToBit(memwb'.valid) + 1) =
        Counting(Counting(new, ToBit(memwb.valid) + ToBit(exmem.valid)), 1)
  <2> DEFINE a == ToBit(memwb.valid)
             b == ToBit(exmem.valid)
  <2>1. a \in 0 .. 1 /\ b \in 0 .. 1 /\ csr' \in TrapState
    BY <1>1 DEF ToBit, TypeOK
  <2>2. ToBit(memwb'.valid) = b
    BY <1>2
  <2> HIDE DEF a, b
  <2>3. Counting(csr', b + 1) = Counting(Counting(csr', b), 1)
    BY <2>1, CountingSums, SmallWords
  <2>4. Counting(csr', b) = Counting(new, a + b)
    BY <1>3, <2>1, CountingSums, SmallWords DEF a
  <2> QED
    BY <2>2, <2>3, <2>4 DEF a, b
<1>5. RegsAfterMem' = Writing(RegsAfterMem, i, value)
  <2>1. mem_wb_data' = value
    <3>1. WbSel(i) # "MEM"
      BY DEF WbSel, MemAccess, MemRead
    <3>2. mem_wb_data' = mem_forward_data'
      BY <1>2, <3>1 DEF mem_wb_data
    <3>3. mem_forward_data' = CASE WbSel(i) = "PC4" -> Plus(idex.pc, 1)
                                [] WbSel(i) = "IMM" -> i.imm
                                [] OTHER -> ex_result
      BY <1>2 DEF mem_forward_data
    <3>4. i.op # "lw"
      BY DEF MemAccess, MemRead
    <3>5. CASE i.op \in {"jal", "jalr"}
      <4>1. WbSel(i) = "PC4"
        BY <3>5 DEF WbSel
      <4> QED
        BY <3>2, <3>3, <3>5, <4>1
    <3>6. CASE i.op = "lui"
      <4>1. WbSel(i) = "IMM"
        BY <3>6 DEF WbSel
      <4> QED
        BY <3>2, <3>3, <3>6, <4>1
    <3>7. CASE i.op \notin {"jal", "jalr", "lui"}
      <4>1. WbSel(i) = "ALU"
        BY <3>4, <3>7 DEF WbSel
      <4> QED
        BY <3>2, <3>3, <3>7, <4>1
    <3> QED
      BY <3>5, <3>6, <3>7
  <2> HIDE DEF value
  <2> QED
    BY <1>2, <2>1 DEF RegsAfterMem, Writing
<1> HIDE DEF value
<1>6. Architecture' = State(YoungPc', RegsAfterMem', mem', Counting(csr', ToBit(memwb'.valid) + 1),
                            accesses', core_sleep')
  BY <1>1, <1>2, MovedArchitecture DEF TypeOK
<1> QED
  BY <1>4, <1>5, <1>6 DEF new, value

\* Where fetch goes on behind an instruction that leaves EX.
LEMMA ExTarget ==
  ASSUME OrderInv, OrderInv', NEW in \in Inputs, Edge(in), ~pipeline_stall(in),
         idex.valid, ~trap_enter(in), ~MemAccess(idex.insn)
  PROVE  LET i == idex.insn
         IN  /\ i.op = "mret" => YoungPc' = csr.mepc
             /\ i.op = "jalr" => YoungPc' = Plus(operand_a, i.imm)
             /\ i.op = "jal" \/ (i.op = "beq" /\ operand_a = operand_b) =>
                  YoungPc' = Plus(idex.pc, i.imm)
             /\ i.op \notin {"mret", "jal", "jalr"} /\ ~(i.op = "beq" /\ operand_a = operand_b) =>
                  YoungPc' = Plus(idex.pc, 1)
<1> DEFINE i == idex.insn
<1>1. IInv /\ pipeline_advance(in) /\ ~data_access_exception(in)
  BY DEF OrderInv, pipeline_advance, trap_enter
<1>2. CASE flush_if_id(in)
  <2>1. YoungPc' = IF system_redirect(in) THEN system_redirect_pc(in)
                   ELSE control_transfer_target
    BY <1>1, <1>2, FlushEmpties
  <2>2. system_redirect(in) =>
          system_redirect_pc(in) = IF mret_taken(in) THEN csr.mepc ELSE Plus(idex.pc, 1)
    BY DEF system_redirect_pc
  <2>3. control_transfer_target = IF i.op = "jalr" THEN Plus(operand_a, i.imm)
                                  ELSE Plus(idex.pc, i.imm)
    BY DEF control_transfer_target, ex_data_addr
  <2>4. mret_taken(in) <=> i.op = "mret"
    BY <1>1 DEF mret_taken
  <2>5. system_redirect(in) => i.op \in {"mret", "wfi", "fence_i"}
    BY DEF system_redirect, mret_taken, wfi_sleep, fence_i_taken
  <2>6. ~system_redirect(in) => control_hazard /\ i.op # "mret"
    BY <1>2, <2>4 DEF flush_if_id, system_redirect
  <2>7. control_hazard <=> (i.op = "beq" /\ operand_a = operand_b) \/ i.op \in {"jal", "jalr"}
    BY DEF control_hazard, ex_branch_taken, ex_jump
  <2> QED
    BY <2>1, <2>2, <2>3, <2>4, <2>5, <2>6, <2>7
<1>3. CASE ~flush_if_id(in)
  <2>1. YoungPc' = FrontPc /\ ~control_hazard
    BY <1>1, <1>3, FlowMovesOn DEF flush_if_id
  <2>2. FrontPc = Plus(idex.pc, 1)
    BY <2>1 DEF OrderInv, PathIsSequential
  <2>3. i.op \notin {"mret", "jal", "jalr"} /\ ~(i.op = "beq" /\ operand_a = operand_b)
    BY <1>1, <1>3 DEF flush_if_id, system_redirect, mret_taken, control_hazard, ex_branch_taken,
                      ex_jump
  <2> QED
    BY <2>1, <2>2, <2>3
<1> QED
  BY <1>2, <1>3

\* The multiplier has the product when the pipeline moves on.
LEMMA ProductReady ==
  ASSUME IInv, NEW in \in Inputs, ~pipeline_stall(in), mdu_active
  PROVE  mdu.result = (operand_a * operand_b) % Words
<1>1. mdu_done(in)
  BY DEF pipeline_stall, mdu_stall
<1>2. mdu.state # "IDLE"
  BY <1>1 DEF mdu_done
<1> QED
  BY <1>2 DEF IInv, MduOwnsEx

\* An instruction that only computes does what the machine does.
LEMMA ComputeExStep ==
  ASSUME OrderInv, OrderInv', NEW in \in Inputs, Edge(in), ~pipeline_stall(in),
         idex.valid, ~trap_enter(in),
         idex.insn.op \in {"addi", "add", "mul", "lui", "auipc", "jal", "jalr", "beq", "fence",
                           "fence_i"}
  PROVE  Architecture' \in Machine!Steps(AfterMem, irq)
<1> DEFINE i == idex.insn
           r == RegsAfterMem
           c == Counting(csr, ToBit(memwb.valid) + ToBit(exmem.valid))
           value == CASE i.op \in {"jal", "jalr"} -> Plus(idex.pc, 1)
                      [] i.op = "lui"             -> i.imm
                      [] OTHER                    -> ex_result
           v == IF i.op \in {"beq", "fence", "fence_i"} THEN 0 ELSE value
<1>1. IInv /\ IInv' /\ TypeOK /\ TypeOK' /\ OperandsAreFresh
  BY DEF OrderInv, IInv
<1>2. ~MemAccess(i) /\ ~CsrEn(i) /\ ~CsrWriteIntent(i) /\ ~mret_taken(in) /\ ~wfi_sleep(in)
  BY DEF MemAccess, MemRead, MemWrite, CsrEn, CsrImm, CsrWriteIntent, mret_taken, wfi_sleep
<1>3. i = prog[idex.pc] /\ YoungPc = idex.pc /\ ~core_sleep /\ ~idex.fault
  BY LeavesEx
<1>4. core_sleep' = core_sleep
  BY <1>1, <1>2, <1>3 DEF Edge, SleepEdge, TypeOK
<1>5. Architecture' = State(YoungPc', Writing(r, i, value), mem', Counting(c, 1), accesses',
                            core_sleep)
  BY <1>2, <1>4, ExecutedState
<1>6. Writing(r, i, v) = Writing(r, i, value)
  BY DEF Writing, RegWrite, CsrEn, CsrImm
<1>7. /\ Rs1Read(i) => operand_a = r[i.rs1]
      /\ Rs2Read(i) => operand_b = r[i.rs2]
  BY <1>1, <1>2, OperandsAfterMem DEF MemAccess
<1>8. mdu_active <=> i.op = "mul"
  BY <1>3 DEF mdu_active
<1>9. Computes(idex.pc, r, i, v, YoungPc')
  <2> HIDE DEF r
  <2>1. CASE i.op = "addi"
    <3>1. ex_result = Plus(operand_a, i.imm) /\ operand_a = r[i.rs1]
      BY <1>2, <1>7, <1>8, <2>1 DEF ex_result, Rs1Read
    <3> QED
      BY <1>2, <2>1, <3>1, ExTarget DEF Computes
  <2>2. CASE i.op = "add"
    <3>1. ex_result = Plus(operand_a, operand_b) /\ operand_a = r[i.rs1] /\ operand_b = r[i.rs2]
      BY <1>2, <1>7, <1>8, <2>2 DEF ex_result, Rs1Read, Rs2Read
    <3> QED
      BY <1>2, <2>2, <3>1, ExTarget DEF Computes
  <2>3. CASE i.op = "mul"
    <3>1. ex_result = (operand_a * operand_b) % Words
      BY <1>1, <1>2, <1>8, <2>3, ProductReady DEF ex_result
    <3>2. operand_a = r[i.rs1] /\ operand_b = r[i.rs2]
      BY <1>7, <2>3 DEF Rs1Read, Rs2Read
    <3> QED
      BY <1>2, <2>3, <3>1, <3>2, ExTarget DEF Computes
  <2>4. CASE i.op = "lui"
    BY <1>2, <2>4, ExTarget DEF Computes
  <2>5. CASE i.op = "auipc"
    <3>1. ex_result = Plus(idex.pc, i.imm)
      BY <1>2, <1>8, <2>5 DEF ex_result
    <3> QED
      BY <1>2, <2>5, <3>1, ExTarget DEF Computes
  <2>6. CASE i.op = "jal"
    BY <1>2, <2>6, ExTarget DEF Computes
  <2>7. CASE i.op = "jalr"
    <3>1. operand_a = r[i.rs1]
      BY <1>7, <2>7 DEF Rs1Read
    <3> QED
      BY <1>2, <2>7, <3>1, ExTarget DEF Computes
  <2>8. CASE i.op = "beq"
    <3>1. operand_a = r[i.rs1] /\ operand_b = r[i.rs2]
      BY <1>7, <2>8 DEF Rs1Read, Rs2Read
    <3> QED
      BY <1>2, <2>8, <3>1, ExTarget DEF Computes
  <2>9. CASE i.op \in {"fence", "fence_i"}
    BY <1>2, <2>9, ExTarget DEF Computes
  <2> QED
    BY <2>1, <2>2, <2>3, <2>4, <2>5, <2>6, <2>7, <2>8, <2>9
<1> HIDE DEF c, v, value, r
<1>10. State(YoungPc', Writing(r, i, v), mem', Counting(c, 1), accesses', core_sleep)
         \in Machine!Steps(State(idex.pc, r, mem', c, accesses', core_sleep), irq)
  BY <1>3, <1>9, ComputeStep
<1> QED
  BY <1>3, <1>5, <1>6, <1>10 DEF AfterMem, c, r

\* So do a CSR instruction, MRET and WFI.
LEMMA SystemExStep ==
  ASSUME OrderInv, OrderInv', NEW in \in Inputs, Edge(in), ~pipeline_stall(in),
         idex.valid, ~trap_enter(in), CsrEn(idex.insn) \/ idex.insn.op \in {"mret", "wfi"}
  PROVE  Architecture' \in Machine!Steps(AfterMem, irq)
<1> DEFINE i == idex.insn
           r == RegsAfterMem
           k == ToBit(memwb.valid) + ToBit(exmem.valid)
           c == Counting(csr, k)
           old == CsrRead(csr, i.csr)
           written == CsrWrite(csr, i.csr, CsrOperation(i, old, ex_csr_operand))
           new == IF mret_taken(in) THEN CsrMret(csr)
                  ELSE IF CsrWriteIntent(i) THEN written ELSE csr
           value == CASE i.op \in {"jal", "jalr"} -> Plus(idex.pc, 1)
                      [] i.op = "lui"             -> i.imm
                      [] OTHER                    -> ex_result
<1>1. IInv /\ IInv' /\ TypeOK /\ TypeOK' /\ OperandsAreFresh
  BY DEF OrderInv, IInv
<1>2. ~MemAccess(i)
  BY DEF MemAccess, MemRead, MemWrite, CsrEn, CsrImm
<1>3. i = prog[idex.pc] /\ YoungPc = idex.pc /\ ~core_sleep /\ ~idex.fault /\ ~CsrIllegal(i)
  BY LeavesEx
<1>4. k \in 0 .. 2 /\ csr \in TrapState
  BY <1>1 DEF ToBit, TypeOK
<1>5. Architecture' = State(YoungPc', Writing(r, i, value), mem', Counting(Counting(new, k), 1),
                            accesses', core_sleep')
  BY <1>2, ExecutedState
<1>6. AfterMem = State(idex.pc, r, mem', c, accesses', core_sleep)
  BY <1>3 DEF AfterMem
<1>7. CASE CsrEn(i)
  <2>1. k = 0
    BY <1>1, <1>7 DEF IInv, CsrRunsAlone, ToBit
  <2>2. c = csr
    BY <1>4, <2>1, CountingSums, SmallWords
  <2>3. ~mret_taken(in) /\ ~wfi_sleep(in)
    BY <1>7 DEF CsrEn, CsrImm, mret_taken, wfi_sleep
  <2>4. core_sleep' = core_sleep
    BY <1>1, <1>3, <2>3 DEF Edge, SleepEdge, TypeOK
  <2>5. ex_csr_operand = IF CsrImm(i) THEN i.rs1 ELSE r[i.rs1]
    BY <1>1, <1>7, OperandsAfterMem DEF Rs1Read, ex_csr_operand
  <2>6. value = old
    <3>1. ex_result = old
      BY <1>2, <1>7 DEF ex_result, mdu_active, CsrEn, CsrImm
    <3> QED
      BY <1>7, <3>1 DEF CsrEn, CsrImm
  <2>7. YoungPc' = Plus(idex.pc, 1)
    BY <1>2, <1>7, ExTarget DEF CsrEn, CsrImm
  <2>8. new = LET operand == IF CsrImm(i) THEN i.rs1 ELSE r[i.rs1]
              IN  IF CsrWriteIntent(i) THEN CsrWrite(csr, i.csr, CsrOperation(i, old, operand))
                  ELSE csr
    BY <2>3, <2>5
  <2>9. new \in TrapState
    <3>1. i.csr \in Csr /\ old \in Word
      BY <1>1, CsrReadInWord DEF TypeOK, Instruction
    <3>2. written \in TrapState
      BY <1>4, <1>7, <3>1, CsrOperationInWord, CsrWriteType, CsrOperandInWord, <1>1
    <3> QED
      BY <1>4, <2>3, <3>2
  <2> HIDE DEF k, c, value, new
  <2>10. Counting(new, k) = new
    BY <2>1, <2>9, CountingSums, SmallWords
  <2>11. State(Plus(idex.pc, 1), Writing(r, i, old), mem', Counting(new, 1), accesses', core_sleep)
          \in Machine!Steps(State(idex.pc, r, mem', csr, accesses', core_sleep), irq)
    <3> HIDE DEF r, old
    <3> QED
      BY <1>3, <1>7, <2>8, CsrInstructionStep DEF old
  <2> QED
    BY <1>5, <1>6, <2>2, <2>4, <2>6, <2>7, <2>10, <2>11
<1>8. CASE i.op = "mret"
  <2>1. mret_taken(in) /\ ~wfi_sleep(in)
    BY <1>8 DEF mret_taken, wfi_sleep, trap_enter, pipeline_advance
  <2>2. core_sleep' = core_sleep
    BY <1>1, <1>3, <2>1 DEF Edge, SleepEdge, TypeOK
  <2>3. YoungPc' = csr.mepc
    BY <1>2, <1>8, ExTarget
  <2>4. Writing(r, i, value) = r
    BY <1>8 DEF Writing, RegWrite, CsrEn, CsrImm
  <2>5. c.mepc = csr.mepc /\ CsrMret(c) = Counting(CsrMret(csr), k)
    BY <1>4, CountingSums, SmallWords
  <2> HIDE DEF k, c, value, r
  <2> QED
    BY <1>3, <1>5, <1>6, <1>8, <2>1, <2>2, <2>3, <2>4, <2>5, ReturnStep
<1>9. CASE i.op = "wfi"
  <2>1. ~mret_taken(in) /\ ~CsrWriteIntent(i)
    BY <1>9 DEF mret_taken, CsrWriteIntent, CsrEn, CsrImm
  <2>2. core_sleep' <=> ~(irq /\ csr.mie)
    BY <1>3, <1>9 DEF Edge, SleepEdge, wfi_sleep, Unhindered, pipeline_advance, wake_pending
  <2>3. YoungPc' = Plus(idex.pc, 1)
    BY <1>2, <1>9, ExTarget
  <2>4. Writing(r, i, value) = r
    BY <1>9 DEF Writing, RegWrite, CsrEn, CsrImm
  <2>5. c.mie = csr.mie /\ core_sleep \in BOOLEAN /\ core_sleep' \in BOOLEAN
    BY <1>1, <1>4, CountingSums, SmallWords DEF TypeOK
  <2> HIDE DEF k, c, value, r
  <2>6. State(Plus(idex.pc, 1), r, mem', Counting(c, 1), accesses', core_sleep')
          \in Machine!Steps(State(idex.pc, r, mem', c, accesses', core_sleep), irq)
    BY <1>3, <1>9, <2>2, <2>5, SleepSteps
  <2> QED
    BY <1>5, <1>6, <2>1, <2>3, <2>4, <2>6 DEF c
<1> QED
  BY <1>7, <1>8, <1>9

-----------------------------------------------------------------------------
(* Every cycle is a step of the sequential machine, two, or none.          *)

\* The pipeline moves on: at most two steps of the machine in a row.
LEMMA AdvanceStep ==
  ASSUME OrderInv, OrderInv', NEW in \in Inputs, Edge(in), ~pipeline_stall(in),
         ~data_access_exception(in)
  PROVE  /\ AfterMem = Architecture \/ AfterMem \in Machine!Steps(Architecture, irq)
         /\ Architecture' = AfterMem \/ Architecture' \in Machine!Steps(AfterMem, irq)
<1>1. CASE ~idex.valid
  BY <1>1, MemStep, BubbleStep
<1>2. CASE idex.valid /\ trap_enter(in)
  BY <1>2, MemStep, TrapExStep
<1>3. CASE idex.valid /\ ~trap_enter(in)
  <2>1. CASE MemAccess(idex.insn)
    BY <1>3, <2>1, MemStep, AccessEntersMem
  <2>2. CASE CsrEn(idex.insn) \/ idex.insn.op \in {"mret", "wfi"}
    BY <1>3, <2>2, MemStep, SystemExStep
  <2>3. CASE ~MemAccess(idex.insn) /\ ~(CsrEn(idex.insn) \/ idex.insn.op \in {"mret", "wfi"})
    <3>1. idex.insn.op \in Op /\ idex.insn.op \notin {"illegal", "ebreak", "ecall", "none"}
      BY <1>3, LeavesEx DEF OrderInv, IInv, TypeOK, Instruction
    <3>2. idex.insn.op \in {"addi", "add", "mul", "lui", "auipc", "jal", "jalr", "beq", "fence",
                            "fence_i"}
      BY <2>3, <3>1 DEF Op, MemAccess, MemRead, MemWrite, CsrEn, CsrImm
    <3> QED
      BY <1>3, <3>2, MemStep, ComputeExStep
  <2> QED
    BY <2>1, <2>2, <2>3
<1> QED
  BY <1>1, <1>2, <1>3

\* Every edge of the pipeline is a step of the sequential machine, or none.
LEMMA EdgeIsMachineStep ==
  ASSUME OrderInv, OrderInv', NEW in \in Inputs, Edge(in)
  PROVE  Machine!Next
<1> DEFINE once == Machine!Steps(Architecture, irq)
<1>1. irq' \in BOOLEAN /\ prog' = prog
  BY InputAssumption DEF Edge
<1>2. CASE pipeline_stall(in)
  BY <1>1, <1>2, StallStep DEF Machine!Next
<1>3. CASE ~pipeline_stall(in) /\ data_access_exception(in)
  BY <1>1, <1>3, AccessErrorStep DEF Machine!Next
<1>4. CASE ~pipeline_stall(in) /\ ~data_access_exception(in)
  <2>1. /\ AfterMem = Architecture \/ AfterMem \in once
        /\ Architecture' = AfterMem \/ Architecture' \in Machine!Steps(AfterMem, irq)
    BY <1>4, AdvanceStep
  <2>2. Architecture' \in {Architecture} \cup once \cup UNION {Machine!Steps(s, irq) : s \in once}
    BY <2>1, Zenon
  <2> QED
    BY <1>1, <2>2 DEF Machine!Next
<1> QED
  BY <1>2, <1>3, <1>4

\* The pipeline boots as the machine does.
LEMMA InitIsMachineInit == Init => Machine!Init
<1> SUFFICES ASSUME Init PROVE Machine!Init
  OBVIOUS
<1>1. PICK s \in Boot : pc = s.pc /\ regs = s.regs /\ mem = s.mem /\ csr = s.csr
                        /\ accesses = s.accesses
  BY DEF Init
<1>2. s \in [pc: Word, regs: [Reg -> Word], mem: [Word -> Word], csr: TrapState,
             accesses: Word, sleeping: {FALSE}]
  BY BootAssumption
<1>3. /\ ~ifid.valid /\ ~idex.valid /\ ~exmem.valid /\ ~memwb.valid
      /\ ~dmem_error_pending /\ core_sleep = FALSE
  BY DEF Init, IfIdFlushed, IdExFlushed, ExMemFlushed, MemWbFlushed
<1>4. ~MemCommitted /\ ToBit(memwb.valid) + ToBit(MemCommitted) = 0
      /\ YoungPc = pc /\ WriteBack = regs
  BY <1>3 DEF MemCommitted, ToBit, YoungPc, FrontPc, WriteBack
<1>5. Counting(csr, 0) = csr
  BY <1>1, <1>2, CountingSums, SmallWords
<1>6. Architecture = State(pc, regs, mem, csr, accesses, core_sleep)
  BY <1>3, <1>4, <1>5, ArchitectureParts DEF ArchitectureForm
<1>7. Architecture = s
  <2>1. s = State(s.pc, s.regs, s.mem, s.csr, s.accesses, s.sleeping)
    BY <1>2 DEF State
  <2>2. s.sleeping = core_sleep
    BY <1>2, <1>3
  <2> QED
    BY <1>1, <1>6, <2>1, <2>2
<1>8. prog \in [Word -> Instruction] /\ irq \in BOOLEAN
  BY ProgramAssumption, InputAssumption DEF Init
<1> QED
  BY <1>7, <1>8 DEF Machine!Init, Machine!Word, Word, Machine!Instruction, Instruction, Machine!Op,
     Op, Machine!Reg, Reg, Machine!Csr, Csr

\* The pipeline implements the sequential machine.
THEOREM ImplementsIsaHolds == Spec => ImplementsIsa
<1>1. OrderInv /\ OrderInv' /\ [Next]_vars => [Machine!Next]_Machine!vars
  <2> SUFFICES ASSUME OrderInv, OrderInv', [Next]_vars PROVE [Machine!Next]_Machine!vars
    OBVIOUS
  <2>1. CASE Next
    BY <2>1, NextIsEdge, EdgeIsMachineStep
  <2>2. CASE UNCHANGED vars
    <3>1. Architecture' = Architecture
      BY <2>2 DEF vars, core, stages, latch, Architecture, ArchPc, ArchRegs, InFlight,
         MemCommitted, MemDone, WriteBack, mem_wb_data, mem_forward_data, dmem_response, dmem_addr
    <3> QED
      BY <2>2, <3>1 DEF vars, Machine!vars
  <2> QED
    BY <2>1, <2>2
<1> QED
  BY <1>1, OrderInvHolds, InitIsMachineInit, PTL DEF Spec, ImplementsIsa, Machine!Spec

-----------------------------------------------------------------------------
(* Progress: what of KeepsRunning and InterruptTaken is safety.            *)

\* What may hold the pipeline, and what of it the environment answers in this
\* cycle.
Owed == {w \in {"fetch", "data", "mdu"} : \/ w = "fetch" /\ imem_valid
                                          \/ w = "data" /\ dmem_valid
                                          \/ w = "mdu" /\ mdu_active /\ mdu.state # "DONE"}
Answered(in) == {w \in {"fetch", "data", "mdu"} : \/ w = "fetch" /\ in.imem # "wait"
                                                  \/ w = "data" /\ in.dmem # "wait"
                                                  \/ w = "mdu" /\ mdu.state = "RUN" /\ in.mdu}

\* How many cycles without a stall the oldest instruction is from retiring.
ToRetire == IF memwb.valid THEN 0 ELSE IF exmem.valid THEN 1 ELSE IF idex.valid THEN 2
            ELSE IF ifid.valid THEN 3 ELSE 4

\* How many are left before there is an instruction in EX for an interrupt to
\* be taken at: a CSR instruction waits in ID until the stages before it are
\* empty.
ToInterrupt == IF core_sleep THEN 5 ELSE IF idex.valid THEN 0 ELSE IF ~ifid.valid THEN 4
               ELSE IF exmem.valid THEN 3 ELSE IF memwb.valid THEN 2 ELSE 1

\* What holds the pipeline, and what is left of it after the edge.
WaitsForAnswers(in) ==
  /\ pipeline_stall(in) <=> Owed \ Answered(in) # {}
  /\ pipeline_stall(in) => Owed' = Owed \ Answered(in)

\* The pipeline is held exactly while a fetch, a data access or a product it
\* needs has no answer, and an answer that comes while the others are waited
\* for is never asked for again: with all three answered, in any order and
\* each once, the pipeline moves.
StallsEnd == [][\A in \in Inputs : Edge(in) => WaitsForAnswers(in)]_vars

\* What an edge brings the oldest instruction.
Retires(in) ==
  ~core_sleep => \/ pipeline_advance(in) /\ (memwb.valid \/ trap_enter(in))
                 \/ ToRetire' < ToRetire
                 \/ pipeline_stall(in) /\ ToRetire' = ToRetire

\* An edge of a core that is awake retires an instruction or traps, or brings
\* the oldest instruction closer to retirement; a stall takes nothing back.  So
\* of any five cycles in which the pipeline moves one retires or traps, unless
\* WFI sleeps: stalls, flushes and drains never chase one another for ever.
RetiresOrTraps == [][\A in \in Inputs : Edge(in) => Retires(in)]_vars

\* What an edge brings a pending interrupt.
ComesCloser(in) ==
  irq_pending => \/ ~irq_pending'
                 \/ ToInterrupt' < ToInterrupt
                 \/ pipeline_stall(in) /\ ToInterrupt' = ToInterrupt

\* An enabled interrupt wakes a sleeping core and is taken in the sixth cycle in
\* which the pipeline moves or before, whatever is in flight, unless it stops
\* being pending: a trap or the program masks it, or the line falls.
InterruptComesCloser == [][\A in \in Inputs : Edge(in) => ComesCloser(in)]_vars

\* An answer to the fetch is kept while the rest is waited for: no instruction
\* and no error looks like the empty hold.
LEMMA FetchOwed ==
  ASSUME OrderInv, NEW in \in Inputs, Edge(in), pipeline_stall(in)
  PROVE  imem_valid' <=> imem_valid /\ in.imem = "wait"
<1>1. ~core_sleep /\ ~core_sleep' /\ ~pipeline_advance(in)
  BY StallHolds DEF OrderInv, pipeline_advance
<1>2. held' = IF held = Nothing /\ if_complete(in)
              THEN [if_shows(in) EXCEPT !.insn = IF if_shows(in).fault THEN Nop ELSE @]
              ELSE held
  BY <1>1 DEF Edge, FetchEdge
<1>3. CASE held # Nothing
  BY <1>2, <1>3 DEF imem_valid, Nothing, Bubble, Nop
<1>4. CASE held = Nothing /\ in.imem = "wait"
  BY <1>1, <1>2, <1>4 DEF imem_valid, if_complete, Nothing, Bubble, Nop
<1>5. CASE held = Nothing /\ in.imem # "wait"
  <2>1. if_complete(in)
    BY <1>1, <1>5 DEF if_complete, imem_valid
  <2>2. if_shows(in) = [fault |-> in.imem # "ok",
                        insn |-> IF in.imem = "fault_nop" THEN Nop ELSE prog[pc]]
    BY <1>5, <2>1 DEF if_shows
  <2>3. prog[pc].op # "none"
    BY ProgramAssumption DEF OrderInv, StagesHoldProgram, IInv, TypeOK
  <2>4. held' # Nothing
    BY <1>2, <1>5, <2>1, <2>2, <2>3 DEF Nothing, Bubble, Nop
  <2> QED
    BY <1>5, <2>4 DEF imem_valid, Nothing, Bubble, Nop
<1> QED
  BY <1>3, <1>4, <1>5

\* An answer of the data port is kept.
LEMMA DataOwed ==
  ASSUME NEW in \in Inputs, Edge(in), pipeline_stall(in)
  PROVE  dmem_valid' <=> dmem_valid /\ in.dmem = "wait"
<1>1. dmem_request' = dmem_request
  BY StallFreezes DEF dmem_request
<1>2. dmem_complete' = (dmem_request /\ (dmem_complete \/ dmem_answered(in)))
  BY DEF Edge, LatchEdge
<1> QED
  BY <1>1, <1>2 DEF dmem_valid, dmem_answered

\* A product is kept in DONE.
LEMMA ProductOwed ==
  ASSUME OrderInv, NEW in \in Inputs, Edge(in), pipeline_stall(in)
  PROVE  mdu_active' /\ mdu'.state # "DONE" <=>
           mdu_active /\ mdu.state # "DONE" /\ ~(mdu.state = "RUN" /\ in.mdu)
<1>1. mdu_active' = mdu_active
  BY StallFreezes DEF mdu_active
<1>2. mdu_active /\ mdu_done(in) => bus_stall(in)
  BY DEF pipeline_stall, mdu_stall
<1>3. mdu \in [state: {"IDLE", "RUN", "DONE"}, result: Word]
  BY DEF OrderInv, IInv, TypeOK
<1>4. mdu' = IF mdu.state = "IDLE"
             THEN IF mdu_active
                  THEN [state |-> "RUN", result |-> (operand_a * operand_b) % Words] ELSE mdu
             ELSE IF ~mdu_done(in) THEN mdu
             ELSE IF mdu_active /\ ~bus_stall(in) THEN MduIdle
             ELSE [mdu EXCEPT !.state = "DONE"]
  BY DEF Edge, MduEdge
<1> DEFINE product == (operand_a * operand_b) % Words
<1> HIDE DEF product
<1> QED
  BY <1>1, <1>2, <1>3, <1>4 DEF mdu_done, product

\* The pipeline moves as soon as everything it waits for has been answered.
THEOREM StallsEndHolds == Spec => StallsEnd
<1>1. ASSUME OrderInv, NEW in \in Inputs, Edge(in)
      PROVE  WaitsForAnswers(in)
  <2>1. imem_wait(in) <=> imem_valid /\ in.imem = "wait"
    BY DEF imem_wait, if_complete, imem_valid
  <2>2. mdu_stall(in) <=> mdu_active /\ mdu.state # "DONE" /\ ~(mdu.state = "RUN" /\ in.mdu)
    BY DEF mdu_stall, mdu_done
  <2>3. pipeline_stall(in) <=> Owed \ Answered(in) # {}
    BY <2>1, <2>2 DEF pipeline_stall, bus_stall, dmem_wait, Owed, Answered
  <2>4. ASSUME pipeline_stall(in) PROVE Owed' = Owed \ Answered(in)
    BY <1>1, <2>4, FetchOwed, DataOwed, ProductOwed DEF Owed, Answered
  <2> QED
    BY <2>3, <2>4 DEF WaitsForAnswers
<1>2. OrderInv => \A in \in Inputs : Edge(in) => WaitsForAnswers(in)
  BY <1>1
<1> QED
  BY <1>2, OrderInvHolds, PTL DEF StallsEnd

\* A pipeline that is not held moves what it holds: what is in EX goes to MEM
\* and what is in MEM goes to WB, unless one of them traps.
LEMMA BackMoves ==
  ASSUME NEW in \in Inputs, Edge(in), ~pipeline_stall(in), ~trap_enter(in)
  PROVE  (exmem'.valid <=> idex.valid) /\ (memwb'.valid <=> exmem.valid)
BY DEF Edge, ExMemEdge, MemWbEdge, trap_enter

\* Behind an empty EX nothing is flushed; IF/ID is filled at once, and decode
\* goes on unless a CSR instruction waits for the stages before it.
LEMMA FrontMoves ==
  ASSUME IInv, NEW in \in Inputs, Edge(in), ~pipeline_stall(in), ~trap_enter(in),
         ~idex.valid, ~core_sleep
  PROVE  /\ ~core_sleep'
         /\ ifid'.valid
         /\ ifid.valid /\ ~exmem.valid /\ ~memwb.valid => idex'.valid
<1>1. ~control_hazard /\ ~load_use_hazard
  BY BubbleHazards
<1>2. ~flush_if_id(in) /\ ~wfi_sleep(in)
  BY <1>1 DEF flush_if_id, system_redirect, mret_taken, wfi_sleep, fence_i_taken
<1>3. ~core_sleep'
  BY <1>2 DEF Edge, SleepEdge
<1>4. stall_if_id => ifid.valid /\ (exmem.valid \/ memwb.valid)
  BY <1>1 DEF stall_if_id, csr_order_stall
<1>5. stall_if_id => ifid' = ifid
  BY <1>2, FlowMovesOn
<1>6. ~stall_if_id => ifid'.valid /\ idex'.valid = ifid.valid
  BY <1>2, FlowMovesOn
<1> QED
  BY <1>3, <1>4, <1>5, <1>6

\* Of five cycles in which an awake pipeline moves one retires an instruction
\* or traps.
THEOREM RetiresOrTrapsHolds == Spec => RetiresOrTraps
<1>1. ASSUME IInv, NEW in \in Inputs, Edge(in), ~core_sleep
      PROVE  Retires(in)
  <2>1. CASE pipeline_stall(in)
    <3>1. idex' = idex /\ exmem' = exmem /\ memwb' = memwb
      BY <1>1, <2>1, StallFreezes
    <3>2. ~idex.valid => ifid' = ifid
      BY <1>1, <2>1, StallHolds, BubbleHazards
    <3> QED
      BY <2>1, <3>1, <3>2 DEF ToRetire, Retires
  <2>2. CASE ~pipeline_stall(in) /\ (memwb.valid \/ trap_enter(in))
    BY <2>2 DEF pipeline_advance, Retires
  <2>3. CASE ~pipeline_stall(in) /\ ~memwb.valid /\ ~trap_enter(in)
    <3>1. (exmem'.valid <=> idex.valid) /\ (memwb'.valid <=> exmem.valid)
      BY <1>1, <2>3, BackMoves
    <3>2. ~idex.valid => ifid'.valid /\ (ifid.valid /\ ~exmem.valid => idex'.valid)
      BY <1>1, <2>3, FrontMoves
    <3> QED
      BY <2>3, <3>1, <3>2 DEF ToRetire, Retires
  <2> QED
    BY <2>1, <2>2, <2>3
<1>2. IInv => \A in \in Inputs : Edge(in) => Retires(in)
  BY <1>1 DEF Retires
<1> QED
  BY <1>2, Inductive, PTL DEF RetiresOrTraps

\* After a trap no interrupt is pending.
LEMMA TrapMasks ==
  ASSUME IInv, NEW in \in Inputs, Edge(in), trap_enter(in)
  PROVE  ~irq_pending'
<1>1. csr' = Counting(CsrTrap(csr, trap_pc(in), trap_cause(in)), ToBit(memwb.valid))
  BY TrapEmpties
<1>2. csr \in TrapState
  BY DEF IInv, TypeOK
<1>3. ~csr'.mstatus_mie
  BY <1>1, <1>2 DEF Counting, CsrTrap, TrapState
<1> QED
  BY <1>3 DEF irq_pending

\* A pending interrupt is taken within six cycles in which the pipeline moves.
THEOREM InterruptComesCloserHolds == Spec => InterruptComesCloser
<1>1. ASSUME IInv, NEW in \in Inputs, Edge(in), irq_pending
      PROVE  ComesCloser(in)
  <2>1. CASE pipeline_stall(in)
    <3>1. idex' = idex /\ exmem' = exmem /\ memwb' = memwb
      BY <1>1, <2>1, StallFreezes
    <3>2. ~core_sleep /\ ~core_sleep' /\ (~idex.valid => ifid' = ifid)
      BY <1>1, <2>1, StallHolds, BubbleHazards
    <3> QED
      BY <2>1, <3>1, <3>2 DEF ToInterrupt, ComesCloser
  <2>2. CASE trap_enter(in)
    BY <1>1, <2>2, TrapMasks DEF ComesCloser
  <2>3. CASE core_sleep
    <3>1. ~core_sleep'
      BY <1>1, <2>3 DEF Edge, SleepEdge, irq_pending
    <3> QED
      BY <2>3, <3>1 DEF ToInterrupt, ComesCloser
  <2>4. CASE idex.valid /\ ~pipeline_stall(in)
    <3>1. trap_enter(in)
      BY <1>1, <2>4 DEF trap_enter, irq_take, pipeline_advance
    <3> QED
      BY <1>1, <3>1, TrapMasks DEF ComesCloser
  <2>5. CASE ~pipeline_stall(in) /\ ~trap_enter(in) /\ ~core_sleep /\ ~idex.valid
    <3>1. ~exmem'.valid /\ (memwb'.valid <=> exmem.valid)
      BY <1>1, <2>5, BackMoves
    <3>2. /\ ~core_sleep' /\ ifid'.valid
          /\ ifid.valid /\ ~exmem.valid /\ ~memwb.valid => idex'.valid
      BY <1>1, <2>5, FrontMoves
    <3> QED
      BY <2>5, <3>1, <3>2 DEF ToInterrupt, ComesCloser
  <2> QED
    BY <2>1, <2>2, <2>3, <2>4, <2>5
<1>2. IInv => \A in \in Inputs : Edge(in) => ComesCloser(in)
  BY <1>1 DEF ComesCloser
<1> QED
  BY <1>2, Inductive, PTL DEF InterruptComesCloser
=============================================================================
