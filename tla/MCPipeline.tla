----------------------------- MODULE MCPipeline -----------------------------
(* Small programs for the pipeline: every sequence of four instructions of   *)
(* a set, closed by a jump to itself with effectful wrong-path code behind   *)
(* it.  Each set exercises one class of hazards.                             *)
EXTENDS Pipeline

I(op, rd, rs1, rs2, imm, c) ==
  [op |-> op, rd |-> rd, rs1 |-> rs1, rs2 |-> rs2, imm |-> imm, csr |-> c]
R(op, rd, rs1, rs2, imm) == I(op, rd, rs1, rs2, imm, "mstatus")

\* The wrong path behind the last jump: it would change x1, x2 and memory.
Closing(n) == CASE n = 4 -> R("jal", 0, 0, 0, 0)
                [] n = 5 -> R("addi", 1, 1, 0, 1)
                [] n = 6 -> R("sw", 0, 0, 1, 0)
                [] n = 7 -> R("lui", 2, 0, 0, 5)

Closed(code) == {[n \in Word |-> IF n < 4 THEN p[n] ELSE Closing(n)] : p \in [0 .. 3 -> code]}

BootState(c) == [pc |-> 0, regs |-> [r \in Reg |-> (3 * r) % Words], mem |-> [a \in Word |-> 0],
                 csr |-> c, accesses |-> 0, sleeping |-> FALSE]

ResetCsr == [mstatus_mie |-> FALSE, mstatus_mpie |-> FALSE, mie |-> FALSE,
             mepc |-> 0, mcause |-> "reset", minstret |-> 0]

ResetBoot == {BootState(ResetCsr)}

\* Data hazards: every producer (ALU, load, multiply, immediate, link) in
\* front of every consumer (operand, address, store data) at distances 1 to 3.
DataCode == {R("addi", 1, 1, 0, 1), R("add", 2, 1, 2, 0), R("lw", 1, 0, 1, 2),
             R("sw", 1, 2, 1, 2), R("mul", 1, 2, 1, 0), R("lui", 2, 1, 2, 4)}
DataPrograms == Closed(DataCode)

\* Control hazards: taken and not taken branches on fresh operands, calls and
\* returns, with loads, stores and CSR reads on the path not taken.
ControlCode == {R("beq", 1, 1, 2, 2), R("jal", 1, 0, 0, 2), R("jalr", 2, 1, 0, 1),
                R("lw", 1, 0, 0, 2), R("sw", 0, 0, 2, 2),
                I("csrrs", 1, 0, 0, 0, "instret")}
\* The fourth instruction is a store, on the path or skipped.
ControlPrograms == {p \in Closed(ControlCode) : p[3].op = "sw"}

\* A trap handler at 4 that steps over the trapping instruction.
Handler(n) == CASE n = 4 -> I("csrrs", 1, 0, 0, 0, "mepc")
                [] n = 5 -> R("addi", 1, 1, 0, 1)
                [] n = 6 -> I("csrrw", 0, 1, 0, 0, "mepc")
                [] n = 7 -> R("mret", 0, 0, 0, 0)

Handled(code, length) ==
  {[n \in Word |-> IF n < length THEN p[n] ELSE IF n < 4 THEN Nop ELSE Handler(n)] :
     p \in [0 .. length - 1 -> code]}

\* Traps and CSR order: exceptions of every stage order, CSR reads and writes
\* next to them and next to MRET, and a read-only and a missing CSR.
SystemCode == {R("ecall", 0, 0, 0, 0), R("illegal", 1, 1, 2, 0), R("lw", 2, 0, 0, 1),
               R("sw", 0, 2, 1, 0), I("csrrs", 2, 0, 0, 0, "instret"),
               I("csrrw", 2, 1, 0, 0, "mstatus"), I("csrrw", 1, 2, 0, 0, "instret"),
               I("csrrwi", 1, 2, 0, 0, "mepc"), I("csrrsi", 0, 1, 0, 0, "mstatus"),
               R("fence", 0, 1, 0, 0), R("mret", 0, 0, 0, 0)}
SystemPrograms == Handled(SystemCode, 3)

HazardPrograms == DataPrograms \cup ControlPrograms \cup SystemPrograms

\* Interrupts at any time: around memory accesses, multiplies, branches, the
\* CSR writes that disable them, WFI and FENCE.I.
IrqCode == {R("addi", 1, 1, 0, 1), R("lw", 1, 0, 0, 2), R("sw", 0, 0, 1, 2),
            R("mul", 1, 1, 1, 0), R("beq", 0, 1, 2, 2), I("csrrc", 2, 1, 0, 0, "mstatus"),
            I("csrrci", 2, 1, 0, 0, "mstatus"),
            R("wfi", 0, 0, 0, 0), R("fence_i", 0, 0, 0, 0)}
IrqCsr == [ResetCsr EXCEPT !.mstatus_mie = TRUE, !.mie = TRUE]
IrqBoot == {BootState(IrqCsr), BootState([ResetCsr EXCEPT !.mie = TRUE])}
Returning(code, length) ==
  {[n \in Word |-> IF n < length THEN p[n] ELSE R("mret", 0, 0, 0, 0)] :
     p \in [0 .. length - 1 -> code]}
IrqPrograms == Returning(IrqCode, 2)

\* Bus errors on both ports: an access, and behind it every instruction its
\* error can meet in EX, with one more.
FaultCode == {R("lw", 1, 0, 0, 2), R("sw", 0, 0, 1, 2), R("mul", 1, 1, 1, 0),
              R("beq", 0, 0, 0, 0), R("mret", 0, 0, 0, 0)}
\* Branches, MRET and traps all go to 3, where the program ends.
ToEnd(i, n) == IF i.op = "beq" THEN [i EXCEPT !.imm = 3 - n] ELSE i
FaultPrograms == {[n \in Word |-> IF n < 3 THEN ToEnd(p[n], n) ELSE R("ecall", 0, 0, 0, 0)] :
                    p \in {q \in [0 .. 2 -> FaultCode] : MemAccess(q[0])}}
FaultBoot == {BootState([ResetCsr EXCEPT !.mepc = 3])}

\* The scenarios: interrupts without bus errors; bus errors, with interrupts
\* masked or, for an access whose error meets one at once, enabled.
EventPrograms == IrqPrograms \cup FaultPrograms
BothBoot == {BootState([IrqCsr EXCEPT !.mepc = 3])}
EventBoot == IrqBoot \cup FaultBoot \cup BothBoot

Interruptible == csr.mie
MayFail == prog \in FaultPrograms

EventsInit == /\ Init
              /\ irq => Interruptible
              /\ MayFail <=> csr.mepc = 3
              /\ MayFail /\ Interruptible => prog[2].op = "mret"

\* What a unit that is not asked answers changes nothing: one answer will do.
Relevant(in) == /\ imem_valid \/ in.imem = "ok"
                /\ dmem_valid \/ in.dmem = "ok"
                /\ mdu.state = "RUN" \/ ~in.mdu

EventsNext == \E in \in Inputs :
                /\ Relevant(in)
                /\ MayFail \/ (in.imem \in {"wait", "ok"} /\ in.dmem # "error")
                /\ Edge(in)
                /\ irq' => Interruptible

EventsSpec == EventsInit /\ [][EventsNext]_vars

\* Liveness: a mix of everything that waits, sleeps or traps.
LiveCode == {R("lw", 1, 0, 0, 2), R("mul", 1, 1, 1, 0), R("wfi", 0, 0, 0, 0),
             R("ecall", 0, 0, 0, 0), R("fence_i", 0, 0, 0, 0)}
\* FENCE.I only in front of another, which it fetches again.
LivePrograms == {p \in Returning(LiveCode, 2) : p[1].op # "fence_i"}
\* Interrupts masked in mstatus at first; the second MRET enables them.
LiveBoot == {BootState([ResetCsr EXCEPT !.mie = TRUE])}
=============================================================================
