# TLA+ models and proofs of the TDRV32 pipeline

TDRV32 is a five-stage, in-order RV32IMC core in SystemVerilog with machine
mode, interrupts, a native valid/ready port for instructions and one for data,
and a top level that bridges both ports to AHB-Lite. This directory models its
control in TLA+: what each clock edge does to each register that decides
something, under every order of waits, errors, redirects and interrupts. It also
models the Python the repository trusts to judge the core: the cocotb memories
and their monitor, the assembler, the RV32C oracle and the random-program
reference model. TLC checks the models on small instances; TLAPS proves
for every value of the constants that the pipeline is a sequential machine, that
three other parts refine what they promise, that the multiplier and the divider
are right at every width, that a random program of any length does what its
generator says, and every other safety property the runs check.

One step of a specification is one rising edge of `i_clk`. The combinational
signals of the source are operators with the names they have there; a register
and its `always_ff` block are a variable and one operator that says what the
edge does to it.

## 1. The system

| Component (src/rtl/logical) | State | Operations | Module |
|---|---|---|---|
| Bridge, `bus/native_to_ahb_lite.sv` | phase, address and data latches | address phase, data phase, answer | `AhbBridge` |
| Fetch, `stages/fetch/rv32c_fetch_buffer.sv`, `program_counter.sv` | PC, pending first half, held response | read, assemble, hold, consume, flush | `FetchBuffer` |
| Pipeline, `pipeline/tdrv32_pipeline.sv` and its four stage registers | IF/ID, ID/EX, EX/MEM, MEM/WB, data completion latch, sleep | advance, stall, flush, trap, return, sleep, FENCE.I | `Pipeline` |
| Hazards, `hazard/*.sv` | none | load-use stall, control flush, forwarding | in `Pipeline` |
| CSR file, `stages/system/csr_file.sv` | trap state, counters | read, write, trap entry, MRET, count | `CsrFile`; with one interrupt source in `Pipeline` |
| Decode, `stages/decode/control_unit.sv`, `immediate_generator.sv`, `register_file.sv` | register file | controls, immediates, read, write-through | `Decode`; `Instructions` and the file in `Pipeline` |
| Decompressor, `stages/decode/rv32c_decompressor.sv` | none | expand a parcel | `Decompressor` |
| Multiply/divide unit, `stages/execute/mdu_unit.sv`, `iterative_*.sv` | FSM, iteration, work registers | start, iterate, finish, hold, consume | `Multiplier`, `Divider`, handshake in `Pipeline` |
| Load/store unit, `stages/memory/load_store_unit.sv` | none | lanes, strobes, extension | `LoadStore` |
| Wrappers, `tdrv32_top.sv`, `common/core_sleep_gate.sv` | none of their own | wiring, sleep gate | `Top` |
| RVFI shadow, `pipeline/tdrv32_rvfi_shadow.sv` | mirrored valid bits, pending trap packet | one packet per cycle | `RvfiShadow` |
| ALU, branch and jump units, adders | none | combinational | every ALU operation in `ReferenceProgram`; one of each kind in `Pipeline` |
| Behavioural memories, FPGA system, firmware, tests, formal and compliance flows, scripts | - | - | not modelled |

| Test bench (src/verification/cocotb) | State | Operations | Module |
|---|---|---|---|
| `ahb_memory.py` | outstanding transfer, waits, words | drive, capture, complete, fail | in `AhbBridge` |
| `native_memory.py` | request and wait count of each port, words, books | take up, answer, accept | `Harness` |
| `functional_coverage.py` | wait counters, pending branch, bins | monitor a cycle; name a word | `Harness`; `Decode` |
| `riscv.py` | none | one encoder for each instruction | `Encoding` |
| `rv32c_oracle.py` | none | expand a parcel | `Decompressor` |
| `reference_model.py` | program, registers, memory under construction | one instruction at a time | `ReferenceProgram` |

How they interact. Fetch reads the instruction port and offers IF/ID a complete
instruction; the stages pass it on; the data port is driven from MEM alone. One
global signal, `pipeline_stall`, holds every stage while either port waits or
the multiply/divide unit works, so each of the three may finish while another
still holds the pipeline, and must then remember its result. Redirects (traps,
interrupts, MRET, WFI, FENCE.I, branches) are decided in EX and flush what is
younger; a bus error is decided in MEM and squashes EX too. CSRs are read and
written in EX, after the pipeline has drained. Each port is a request held until
it is answered; the bridges split an access into the two AHB phases. The sleep
output may stop the clock.

What is hard here is therefore the interplay, not any one part: answers that
arrive during a stall, state latched once and compared later with state that is
forwarded, a redirect in the same cycle as an answer, three sources of traps in
one cycle, an interrupt in the cycle in which WFI goes to sleep. `hazards` in
`PROJECT.json` lists each place with its line and the properties that cover it.

What makes each component correct:

- bridge: each request is carried out once, in order, and answered with its own
  result; it is answered if HREADY always comes back;
- fetch: the program is delivered whole, in order, each instruction once, with
  no read repeated;
- pipeline: it does what a sequential machine does, precisely, whatever the
  waits, errors and interrupts, and it does not stop;
- multiply/divide: the M extension's results, whatever a previous operation left
  in the registers that have no reset; every operation ends;
- load/store unit: exactly the addressed bytes move, with either kind of slave;
- top: pipeline and bridges meet what each assumes of the other; sleep cuts
  nothing short;
- RVFI: one packet per instruction, in order;
- CSR file: of several interrupts the most urgent is taken; software that reads
  and writes a running 64-bit counter by halves sees a value it had;
- decode: what is legal has a meaning and only one, in the assembler, the
  decoder, the decompressor and the monitor alike;
- test bench: what it reports of the core is what happened, and what it expects
  of a program is what the program does.

## 2. Modules

Specifications of what a part promises, in terms of the program only:

- `NativePort`: a request is issued and then served or refused in one step.
- `FetchPort`: deliver the instruction at the PC, deliver a fault, redirect.
- `Isa`: the sequential machine. One step executes the instruction at the PC
  with all of its effects, or traps, or takes an interrupt. It also counts the
  data transfers, so an access made twice or by a squashed instruction is
  visible.
- `ByteMemory`: loads and stores of bytes, halfwords and words, little endian.

Models of the code:

- `AhbBridge`: the bridge between a native master and an AHB-Lite slave, both
  those of the cocotb tests (`native_memory.py`, `ahb_memory.py`): wait states
  in both phases, ERROR in two cycles. `ImplementsNativePort` maps it to
  `NativePort`.
- `FetchBuffer`: the buffer with the PC. A parcel is its address and whether it
  starts a wide instruction; that is all the buffer looks at. The rest of the
  pipeline chooses to hold, consume or flush. `ImplementsFetchPort` maps it to
  `FetchPort`.
- `Instructions`: instruction classes and their controls, the trap state.
- `Pipeline`: the five stages. `in` is what the environment drives in the cycle
  (answers of both ports, last iteration of the multiply/divide unit); `irq` is
  the interrupt line. `Edge(in)` is the conjunction of what the edge does to
  each register; `Next` splits the edges by kind (hold, trap, return, sleep,
  fence, flow). `ImplementsIsa` maps it to `Isa`, see section 4.
- `Multiplier`, `Divider`: the iterative units at width N, bit for bit, with
  operands in EX that stay until the result is consumed.
- `LoadStore`: the lanes, strobes and sizes computed by three separate pieces of
  the source, against `ByteMemory`, with the native slave (goes by strobes) and
  the AHB slave (goes by size and address).
- `WordArithmetic`: words and what `reference_model.py` says a multiply or
  divide of them returns.
- `RvfiShadow`: the shadow beside `Pipeline`.
- `Harness`: `RvfiShadow` on its bench: `NativeMemory` behind both ports, its
  wait states, error addresses, assertions and counters, and the coverage
  monitor. A step is one clock period: the memory drives at the falling edge
  (`Taken`), both sample at the rising one (`Sampled`, `MonitorEdge`).
- `CsrFile`: `csr_file.sv` alone, with three interrupt lines that move in every
  cycle, vectors, WARL fields, inhibit bits, and counters of two halves of H
  bits. Its actions are the edges by what the instruction in EX does; what
  drives them is cut off from the pipeline but for the order the pipeline gives
  them (an exception before an interrupt before MRET or a write; nothing retires
  with a write).
- `Encoding`: a 32-bit word as a record of its six fields, and the encoders of
  `riscv.py`. `Decode`: the control unit, the immediate generator, and the
  monitor's `decode_instruction` over these words.
- `Decompressor`: the decompressor and the oracle its unit test compares it with,
  each translated from its own source, over parcels that are integers.
- `ReferenceProgram`: `generate_random_program` building a program and what it
  should write, and an executor that decodes the words with `Decode` and computes
  with the ALU. Executor, bit operations and bit fields are recursive functions over
  what they walk, so that proofs reach them.
- `Top`: `Pipeline` and two instances of `AhbBridge` whose request is what the
  pipeline drives and whose answer is its input. HREADY and HRESP are the
  inputs now. `BridgesOwnRequests` instantiates the bridge's own invariants, so
  it says that the pipeline is a master the bridge's model allows.

`MC*` modules and `.cfg` files are the instances TLC runs. `*Proofs` modules hold
the proofs, one beside each of `AhbBridge`, `FetchBuffer`, `Pipeline`, `LoadStore`
and `CsrFile`; `MduProofs` is about `Multiplier` and `Divider`, `SystemProofs`
about what is built on the pipeline (`Top`, `RvfiShadow`, `Harness`), and
`ReferenceProofs` about `ReferenceProgram`, `Decompressor`, `Decode` and
`Encoding`. Operators under a comment that begins with `Fault:` are wrong
variants of the definition below them, one for each property: `PROJECT.json`
names, under `mutants`, the property that fails if the variant is used.
`MCMdu` runs the multiplier and the divider with the same instructions;
`MCReference` has three kinds of behaviour, a parcel, a word and a program;
`MCCsrFile` adds the software that reads, sets or stops the counters or takes
interrupts; `MCHarness` has two benches, the formal one (an instruction memory
without wait states and any data memory) and the cocotb one.

What is abstracted, everywhere: an instruction has the address unit 1 in
`Pipeline` (lengths are `FetchBuffer`'s business); words are counted modulo
`Words`; there is one instruction per way of using the pipeline (`addi`, `add`,
`lui`, `auipc`, `jal`, `jalr`, `beq`, `lw`, `sw`, `mul`, the six CSR accesses, `fence`,
the system instructions, an illegal one); divides are to the pipeline what `mul` is. Every
other choice of ALU operation, relation or width uses the same controls. There
is one interrupt source there. `ControlsAsModelled` checks that every legal word
is one of these instructions and raises the controls they raise, FENCE and the
immediate CSR accesses, whose operand is the field and not the register, among
them. Registers without a reset start from a value that
differs from all that may be shown: a parcel no program holds in `FetchBuffer`,
a word the initial memory does not hold in `Pipeline`; the multiplier and
the divider inherit every value an earlier operation can leave behind.

## 3. Runs

State counts are TLC's distinct states.

| Run | Instance | States | What it shows |
|---|---|---|---|
| `bridge` | 2 addresses, 2 words, 2 sizes | 1,498 | ownership of the data phase, no overlap, `NativePort`, every request answered |
| `fetch` | 6 parcels, every program | 173,280 | payload belongs to the PC, no repeated read, `FetchPort` |
| `hazards` | 8 words, 3 registers, 6^4 + 6^3 + 11^3 programs | 213,887 | `Isa` under all waits; multiplier operands; CSR order |
| `events` | 4 words, 3 registers, 81 programs with interrupts, 50 with errors on both ports | 137,120 | `Isa` with interrupts and access faults; quiet sleep; silent bubbles; requests held; FENCE.I |
| `pipeline_live` | 4 words, 3 registers, 20 programs, interrupts and data errors | 25,642 | the core keeps running; a pending interrupt is taken |
| `mdu` | 3-bit operands, all pairs, 8 operations | 136,459 | exact partial and final results, every operation ends |
| `load_store` | 2 words of two-valued bytes | 16,384 | `ByteMemory` |
| `top` | 4 words, 2 registers, 9 programs, two buses, errors and interrupts | 68,098 | both sides' assumptions, one memory, the sleep gate |
| `reference` | all 65,536 parcels; 138,240 words; 14-bit programs | 221,748 | decompressor and oracle agree; assembler, decoder and monitor agree; controls as in `Pipeline`; expected values |
| `csr` | halves of 2 bits, 3 interrupt lines | 74,240 | counters by halves; interrupt priority |
| `harness` | 4 words, 128 programs, 0 to 2 waits on each port, error addresses | 171,729 | memory, monitor and RVFI shadow agree with the core; RVFI order without waits |
| `rvfi_order` | the same | - | a violation, section 6 |

Why the bounds are enough to meet the interesting cases:

- `fetch`: three bus words; wide instructions start in either half of a word,
  follow each other across words, and wrap at the end. Wait states are not
  counted, so any number occurs.
- `hazards`: four free instructions put every producer in front of every
  consumer at the distances 1, 2 and 3 at which EX, MEM and WB forward, with a
  second producer in between; a jump to itself closes the program with a load
  of wrong-path instructions behind it. The system set puts exceptions, CSR
  accesses, FENCE and MRET next to each other in every order; CSRRWI and CSRRSI
  name registers that hold other values than their numbers. Three registers give two
  to forward and x0.
- `events`: pairs with interrupts, because an interrupt splits a program between
  two instructions, and its return runs the second again; both start with
  interrupts enabled and with them masked in mstatus but enabled in mie (WFI
  then wakes without a trap). Triples with errors: the access in MEM, the
  instruction in EX when it fails, and the one behind it; every trap, branch and
  MRET leads to the end at 3. Where the third is MRET interrupts are enabled as
  well, so an error, an exception and an interrupt meet.
- `mdu`: three bits include the most negative value, its
  negation, division by zero and signed overflow, each reached from each state
  a previous operation leaves.
- `pipeline_live`: pairs of what waits, sleeps, traps or refetches, closed by MRETs that run
  them again for ever; interrupts are masked at first and enabled by a later
  MRET, so WFI is met both ways.
- `top`: an access or a multiply whose bus still waits, in front of a store it is
  forwarded to, of WFI and of FENCE.I.
- `reference`: parcels are exhausted. Words (`TestWords`) have every opcode of the core and two
  others, every funct3, and for the other fields every value a decoder compares
  with and both ends of the field. A program seeds two registers and then has
  one instruction of the loop, or two loads and stores; the seeds are the
  borders of the LUI/ADDI split and of the sign at a word of 14 bits.
- `csr`: a counter of four bits wraps in both halves. Software that sets a
  counter is given fewer cycles than its low half takes to overflow, which is
  the precondition of the idiom; a read loop takes at most 6 edges (`MCGap`),
  more than one turn of the low half and less than one of the counter. The
  counters are stopped while the interrupts are explored: they do not meet.
- `harness`: 0, 1 and 2 waits are the monitor's three bins. Three instructions
  and a handler that returns to the trapped one put a trap behind every kind of
  instruction and a second trap behind the first.

`Words` bounds the counters `minstret` and `accesses`, which wrap as their
hardware does at another width; `H` and `MCGap` bound the CSR run; the monitor's
wait counters saturate where its bins do. No run has a symmetry
reduction. Deadlock is an error in every run but `reference`, whose programs end
and whose parcels and words take no step.

## 4. The main property: the pipeline is a sequential machine

`ImplementsIsa` is `Machine!Spec` for the refinement mapping `Architecture`. An
instruction has taken effect when it leaves EX, or, for a load or store, when
the data port has answered without error; from then on nothing can take it
back. So the PC of the sequential machine is that of the oldest instruction
without effect (in MEM if its access is not done, else EX, IF/ID, the fetch
PC); its registers are the register file with the results in WB and MEM
written over it; its `minstret` adds what is in flight with effect. Every edge
must then be a step of the machine, a stutter, or two steps (a load answered in
MEM in the cycle in which the instruction behind it leaves EX). The runs
`hazards` and `events` check it on programs chosen for the interplay;
`ImplementsIsaHolds` proves it for every program (section 7).

The mapping makes the property strong: a stale operand gives a register value
the machine does not have; a wrong-path instruction makes the PC go where the
machine does not; an imprecise trap leaves a PC or register of a younger
instruction; an access that is lost, repeated or made by a squashed instruction
changes the count of transfers.

## 5. Fairness

- `AhbBridge`: weak fairness of the edges with HREADY. A slave must not extend a
  transfer for ever, and the tests' memory counts its waits down
  (`ahb_memory.py`).
- `MCMdu`: weak fairness of the edges while an instruction is in EX: the clock
  runs, and the bus waits that delay the taking of a result (`Consume`) end.
- `Pipeline`: the clock runs (`WF_core(Next)`: an edge that would change the core
  is taken, so an interrupt line that never moves is still allowed); a port that
  keeps seeing a request answers it, and a running multiply/divide unit reaches
  its last iteration. The last two are what `EveryRequestAnswered` and
  `EveryOperationLeaves` show. Nothing is assumed of
  the interrupt line, so `KeepsRunning` excepts a core that sleeps with nothing
  pending.
- `FetchBuffer`, `LoadStore`, `Harness`, `CsrFile`, `Top` and the reference models:
  only safety, no fairness.

## 6. A disagreement between code and documentation, and observations

`rvfi_order`: `src/verification/formal/riscv/README.md` line 3 and
`tdrv32_pipeline.sv` line 62 promise one in-order RVFI channel. The shadow shows
a pending trap packet in any cycle without a commit, and a stall withholds the
commit of the instruction in WB. If the fetch at the trap vector waits, the
packet of the trap is shown, with the next order number, before that of an older
instruction held in WB; the cocotb memory with one instruction wait state is
enough. The riscv-formal harness of the repository has none, and there the order
holds: run `harness` shows it on an instance, `InOrderWithoutWaits` proves it.

Smaller things the models show, which contradict no document:

- `functional_coverage.py:178` takes the next commit for the successor of a
  branch. If a trap comes in between, that is the handler's first instruction,
  and a branch not taken is counted as taken; `BranchBinsTrue` excepts a
  successor at a trap or interrupt vector. Its length is fixed at 4 (line 186), so a compressed branch not taken is
  counted as taken and a taken one to PC+4 as not taken (PCs are units in the
  model, so this is read from the code).
- `riscv.py:271` calls C.ADDI with rd=x0 reserved and `c_li`, `c_mv`, `c_add`
  refuse x0; decompressor and oracle accept all of them as hints.
  `ExpansionsExecutable` therefore lets the encoders refuse exactly the parcels
  that write x0.
- `generate_random_program` does not bound its length, and `native_memory.py` keeps
  program and data in one array: with more than 229 instructions of the loop the
  program would reach its data at 0x400. The repository's test asks for 200.
- A write of one half of a counter takes place on top of the increment, so
  writing the low half in the edge in which it wraps still carries into the high
  half (`HalfWritten`).

## 7. Proofs

All theorems hold for every value of the constants under the named assumptions
of the modules, each evaluated by TLC for its instance:

- sizes are large enough, and a register number is a word (`WordsAssumption`,
  `RegsAssumption`, `HalfwordsAssumption`, `RadixAssumption`, `SizeAssumption`, `WidthAssumption`,
  `HalfAssumption`);
- sentinels are no requests (`SentinelAssumption`, `ZeroAssumption`); vectors,
  PCs, causes and the answers of the ports are of their types (`VectorAssumption`,
  `PcAssumption`, `InputAssumption`, `AnswerAssumption`);
- `ProgramAssumption`, `BootAssumption`: programs are words of instructions, none
  of them the class `none` that stands for an empty stage, and a core does not
  boot asleep;
- facts of arithmetic that the provers do not know: `Words` is closed under the
  bit operations (`BitsAssumption`, true of powers of two); powers of two are
  positive and multiply (`PowerAssumption`);
- `SoftwareAssumption`: the read loop of a 64-bit counter takes fewer edges than
  the counter needs to come round to the same high half;
- `ChoiceAssumption`, `AddressAssumption`, `ImmediateAssumption`: what the random
  generator draws from is what `reference_model.py` draws from (the base register
  is never a destination, immediates have 12 bits, memory offsets are multiples of
  4), the program ends below its data and these fit the address space, and a word has 12 to 32
  bits, of which LUI and ADDI make up all;
- `WordsAssumption` of `MCReference`: the words the bench tries are words.

`PipelineProofs`, invariants. `IInv` is `TypeOK` with `BubblesAreSilent`,
`CsrRunsAlone`, `MduOwnsEx` and `SleepIsQuiet`. `MduOwnsEx` holds because the
stall freezes the producers along with the consumer (`StallFreezes`), so
forwarding delivers the same operands; `SleepIsQuiet` needs `BubblesAreSilent`,
as what follows WFI into MEM while the core sleeps is a bubble, and a bubble must
not drive the port. The action properties `RequestsHeld` and `FenceDropsPrefetch`
follow from it.

`PipelineProofs`, refinement (`ImplementsIsaHolds`). `IInv` does not say that the
stages hold the right instructions with the right operands. `OrderInv` adds:

- `PathIsSequential`: behind an instruction in IF/ID, in EX if it does not branch,
  and behind an access in MEM comes the one at the next PC, so what leaves EX is
  what the machine executes next;
- `StagesHoldProgram`: an instruction in a stage is the program's at its PC,
  unless its fetch failed;
- `OperandsAreFresh`: the operands in ID/EX are what the register file holds, so
  the results in MEM and WB are all that forwarding has to add; no operand but
  store data waits for a load in MEM, because of the load-use stall;
- `AccessIsFresh`: address and store data of the access in MEM are those of the
  registers with WB written over them, and an answer remembered during a stall is
  what the memory holds.

An edge is then taken apart at MEM. `AfterMem` is the machine after the access
in MEM has taken effect, if it is answered in this cycle: one machine step or
none. What leaves EX, or traps there, or is interrupted is one more step, from
there. So an edge is a stutter, a step or two, which is what
`ImplementsIsa` says.

`PipelineProofs`, progress. Liveness is out of the proof system's reach, but most
of what `InterruptTaken` and `KeepsRunning` rest on is safety, and that is proved,
with bounds that TLC's liveness check does not give:

- `StallsEnd`: the pipeline is held exactly while a fetch, a data access or a
  product in EX has no answer, and none is asked for twice while the others are
  waited for. This needs `OrderInv`: the hold is empty when it shows a bubble, and
  no instruction of the program looks like one.
- `RetiresOrTraps`: an edge of a core that is awake retires an instruction, traps,
  or brings the oldest one closer (`ToRetire`, at most 4); a stall takes nothing
  back.
- `InterruptComesCloser`: the same for a pending interrupt and the instruction it
  is taken at (`ToInterrupt`, at most 5).

What is left to fairness is that the clock runs and that what is owed is answered.
No run checks these three; TLC was asked before they were proved.

`SystemProofs`, the composition. `TopIsPipeline`: `TopSpec => Spec`, each step of the composition
being an `Edge` with an answer the bridges may give, so everything in
`PipelineProofs` holds behind the bridges, `TopImplementsIsaHolds` among it.
`TopInv` is `IInv` with `BridgesOwnRequests` and `MemoriesAgree`; the two lemmas
`ImemRequestHeld` and `DmemRequestHeld` are the pipeline's side of the contract
(the held request, forwarded store data included), `IahbStep` and `DahbStep` the
bridges'. `SleepGateSafe` then follows from `SleepIsQuiet` and says more than the
gate: whenever the pipeline asks to sleep both bridges are idle, so the gate's
two busy inputs never delay the output.

`AhbBridgeProofs`. The inductive invariant is `TypeOK` with `BusyOwnsRequest`
and `NeverPipelined`: the first needs the second, because a transfer taken in an
address phase must find the slave free, and the second the first, because the
slave frees itself when the bridge leaves the data phase.
`Refinement` (`ImplementsNativePort`): with `BusyOwnsRequest`, the edge at which
the slave completes is `Serve` or `Refuse` of the request the master holds, a new
request is `Issue`, and every other edge a stutter.

`FetchBufferProofs`. `TypeOK` with `PayloadBelongsToPc` and `NoDuplicateReads`.
What the buffer shows then is the instruction at the PC in each of the cases
held, second half, and whole in one word; `Refinement` (`ImplementsFetchPort`)
follows from that, `Consume` being `Deliver` or `DeliverFault`.

`MduProofs`. The registers set up when an operation starts belong to the
instruction in EX, whatever they held before. In between, the multiplier's
registers satisfy an identity of numbers: what is accumulated and what is left
of the multiplier make up the product; the divider's, one of quotient, remainder
and the bits of the dividend still to come. Each iteration keeps the identity,
and one bit more than the operands is enough for it
(`PartialResultExactHolds`). After N iterations nothing is left over, and the
signs and special cases make the M extension's result of it, which stays until it
is consumed (`ResultCorrectHolds`). Quotients are recognised by uniqueness of
division (`DivisionUnique`). `PowerAssumption` is all that is used of `2^N`.

`CsrFileProofs`. Only sources that exist can be enabled, so the three-way
arbitration finds the most urgent one (`MostUrgentInterruptHolds`).
`CounterAccessCoherentHolds` is about the software of `MCCsrFile`, for every
width of the halves. `SoftwareInv` says what it knows at each stage: a low half
cleared e edges ago holds at most e and has not carried, so the high half written
next keeps (`Cleared`, `HalfSet`); in a read, how many edges lie between
the accesses (`HighRead`, `LowRead`). The last step is `HighBetween`: if fewer
edges passed than it takes the high half to come round, equal high halves at both
ends mean the same one in between. `SoftwareUsesCsrFile`: the software takes
only edges of the CSR file.

`LoadStoreProofs`. Type correctness, and `Refinement` (`ImplementsByteMemory`)
for any number of words and any size of byte, by cases over size, offset, and
slave.

`SystemProofs`, the RVFI shadow. `TrapEmptiesPipeline` says that behind a trap
packet that waits EX and MEM are empty, and IF/ID too while WB has something to
show. So nothing can trap while one waits (`NoTrapPacketLostHolds`), and if the
instruction port does not wait, nothing can hold WB (`InOrderWithoutWaits`).
Both benches run pipeline and shadow as specified (`BenchesRunRvfi`), and the
memory without wait states answers every fetch at once, so the channel is in
order there (`InOrderAtZeroWaitHolds`).

`SystemProofs`, the memory. What it has taken up and not seen accepted is what
the core still wants (`BenchInv`), because a port that answers "wait" stalls
everything behind the request; its assertions and books follow
(`AssertionsNeverFire`, `BooksBalanceHolds`).

`SystemProofs`, the monitor (`MonitorMeasures`, `BenchMeasuresHolds`). Its wait
counter is the waits of the test less those the memory still has to count down
(`Counts`), for any number of waits. Its branch bins depend on the next commit, so
the successor of a branch is followed from the fetch PC through MEM, WB and the
commit (`BranchInMem`, `BranchInWb`, `BranchCommitted`), with `OrderInv` for
what the branch decides on; a trap or an interrupt may put a vector in between.
The bins tell taken from not taken only if a branch does not name the instruction
behind it (`BranchesLeap`); that is a condition on the program, and the programs
of the bench meet it.

`ReferenceProofs`, programs (`ProgramsAsExpected`, `BenchesAsExpected`). The run
tries one instruction of the loop; the theorem is about programs of every length
that ends below its data, with any seed values. The invariant is `ProgramInv`: what
the generator has recorded so far is exactly what a core does that executes the
words so far (`Tracks`), every recorded value is a word in a register that may be
written (`Recorded`), x31 still holds the base, the PC is behind the last word
(`PcAt`), and the words still to come fit (`Fits`). `ExpectedOutcome` speaks of
finished programs only and is not inductive: a word appended is executed from the
state the earlier ones leave, so the state of the executor has to be known at
every length; and without `Fits` the PC would wrap. `EmitTracks` is the step: a
word that computes what the generator recorded for it extends both by the same
write. That each kind computes it (`AluStep`, `ImmediateStep`, `MStep`,
`LoadStep`, `StoreStep`, and the seed's LUI/ADDI pair in `SeedStep`) is the
content, with the encoder, the decoder and the datapath between the mnemonic and
the value. For the M extension generator and executor use the same arithmetic
(`WordArithmetic`); that the hardware computes it is `ResultCorrect`. `BenchInv` puts the other two benches beside it.

The executor, the bit fields and the bit operations are recursive functions. The
library's induction theorems take an operator as a parameter and cannot be used;
`SetInduction` states induction over a set of numbers instead, and follows from
`NatLessThanWellFounded` and the existence of least elements (`WFMin`). With it
come, for each function, that it exists and is the only one that satisfies its
equations, so that its equations may be used.

`ReferenceProofs`, words (`WordsReassemble`, `ControlsModelled`). By cases over
the opcode, for all 2^32 words instead of those of the run: a legal word has a
name, and its immediate split into the fields by the assembler gives the fields
back. `WordsReassemble` names the exceptions: FENCE, CSRRC, EBREAK and FENCE.I,
which `riscv.py` does not assemble. `ControlsModelled` is what makes the
instructions of `Pipeline` stand for all legal words: none is left out, and the
controls compared include whether rs1 is read and what a CSR access takes and does.

`ReferenceProofs`, parcels (`ParcelsMatch`, `ParcelsExecutable`). RTL and oracle
build an expansion in different ways, one by concatenating bits and one by
calling an encoder with a number. The proofs go by quadrant and funct3 and show
that the two agree, that the word made is legal and has the name the parcel
abbreviates, and that a compressed encoder gives the parcel back. All parcels are
enumerated by TLC already; the proofs say why it holds, from the same lemmas
about fields the words need.

Only model-checked: liveness (`EveryRequestAnswered`, `EveryOperationLeaves`,
`InterruptTaken`, `KeepsRunning`), which is beyond the proof system but for the
progress above. Every invariant, action property and refinement of a passing run
is a theorem.

## 8. Not modelled

- `mtval`, `mscratch`, `misa`, the ID CSRs and `time`: nothing else depends on
  their values.
- The CSR file's three sources and 64-bit counters together with the pipeline:
  `Pipeline` has one source and one counter, and would only repeat `CsrFile`.
- Illegal words raise an exception in `Pipeline` and no controls; the control
  unit's outputs for illegal words are in `Decode` but no property is about them,
  since the trap squashes them (`BubblesAreSilent`).
- The latches of the register file: below one step per edge. The file is
  modelled as the edge-triggered one its comment says it preserves.
- HPROT, HBURST and HMASTLOCK are constants of the bridge.
- Commit and debug outputs, and the operand, memory and order fields of RVFI.
- The test bench's MMIO callbacks, the lane and trap-cause bins of its monitor and
  its report files.
- FPGA system, firmware, tests, formal and compliance flows: not the core.
- `elf_to_mem.py`, `run_act.py`, `render_formal_configs.py`,
  `check_project_consistency.py`, `check_code_coverage.py`: they turn files into
  files or reports once and have no state of the system.
- Compressed instructions in the composition `Top`: `FetchBuffer` covers them.

## 9. Plan

Done: every module of section 2, with the runs of section 3 and the proofs of
section 7: all safety properties the runs check are theorems.

What would come next, in this order:

1. Liveness of `Top` under fairness of HREADY alone, on a smaller instance, in
   place of the assumption on the ports.
2. `minstret` written by software in `Pipeline`, where the write and the count of
   the writing instruction meet two stages apart: `CsrFile` has the write alone.
3. `Executed` of `ReferenceProgram` and `Isa` are two sequential machines, one of
   words and one of classes; the first should be shown to implement the second,
   which would join the proofs of the test bench to those of the pipeline.

## 10. Running

    tlc -config MCPipelineHazards.cfg MCPipeline
    tlapm PipelineProofs.tla

`PROJECT.json` lists each run with its module and configuration, the source lines
of every definition, the hazards and the theorems.
