-------------------------------- MODULE Isa ---------------------------------
(***************************************************************************)
(* The sequential machine the pipeline promises: one instruction after the *)
(* other, each with all of its effects or with a trap instead, interrupts  *)
(* between instructions only, every data access on the bus exactly once.   *)
(*                                                                         *)
(* A step of the machine may be two of these in a row: in one clock cycle  *)
(* a load can complete in MEM while the instruction behind it executes.    *)
(***************************************************************************)
EXTENDS Instructions

CONSTANTS Boot,        \* the architectural states the program may start in
          TrapVector, InterruptVector   \* mtvec base; base + 4 * cause when vectored

VARIABLES prog, irq, arch

vars == <<prog, irq, arch>>

\* pc, regs, mem: program counter, registers, data memory; csr: trap state;
\* accesses: data-bus transfers so far (modulo Words); sleeping: inside WFI.
ArchState == [pc: Word, regs: [Reg -> Word], mem: [Word -> Word], csr: TrapState,
              accesses: Word, sleeping: BOOLEAN]

Wakes(s, line) == line /\ s.csr.mie

Trapped(s, cause) ==
  [s EXCEPT !.csr = CsrTrap(s.csr, s.pc, cause),
            !.pc = IF cause = "interrupt" THEN InterruptVector ELSE TrapVector]

Written(regs, i, v) == IF i.rd = 0 THEN regs ELSE [regs EXCEPT ![i.rd] = v]

\* Retire i with result v and go on at target.
Retired(s, i, v, target) ==
  [s EXCEPT !.pc = target, !.csr.minstret = Plus(@, 1),
            !.regs = IF RegWrite(i) THEN Written(s.regs, i, v) ELSE @]

\* An access reaches the bus once, and succeeds or is refused by it.
MemoryOutcomes(s, i, a, b) ==
  LET addr == Plus(a, i.imm)
      used == [s EXCEPT !.accesses = Plus(@, 1)]
  IN  IF Misaligned(addr)
      THEN {Trapped(s, IF MemRead(i) THEN "load_misaligned" ELSE "store_misaligned")}
      ELSE {Trapped(used, IF MemRead(i) THEN "load_access" ELSE "store_access"),
            IF MemRead(i) THEN Retired(used, i, s.mem[addr], Plus(s.pc, 1))
            ELSE Retired([used EXCEPT !.mem[addr] = b], i, 0, Plus(s.pc, 1))}

CsrOutcomes(s, i, a) ==
  LET old == CsrRead(s.csr, i.csr)
      new == IF CsrWriteIntent(i) THEN CsrWrite(s.csr, i.csr, CsrOperation(i, old, a)) ELSE s.csr
  IN  IF CsrIllegal(i) THEN {Trapped(s, "illegal")}
      ELSE {Retired([s EXCEPT !.csr = new], i, old, Plus(s.pc, 1))}

\* The states the instruction at s.pc may leave behind.
Executions(s, line) ==
  LET i == prog[s.pc]
      a == s.regs[i.rs1]
      b == s.regs[i.rs2]
      next == Plus(s.pc, 1)
      Go(v, target) == {Retired(s, i, v, target)}
  IN  CASE i.op = "addi"  -> Go(Plus(a, i.imm), next)
        [] i.op = "add"   -> Go(Plus(a, b), next)
        [] i.op = "mul"   -> Go((a * b) % Words, next)
        [] i.op = "lui"   -> Go(i.imm, next)
        [] i.op = "auipc" -> Go(Plus(s.pc, i.imm), next)
        [] i.op = "jal"   -> Go(next, Plus(s.pc, i.imm))
        [] i.op = "jalr"  -> Go(next, Plus(a, i.imm))
        [] i.op = "beq"   -> Go(0, IF a = b THEN Plus(s.pc, i.imm) ELSE next)
        [] MemAccess(i)   -> MemoryOutcomes(s, i, a, b)
        [] CsrEn(i)       -> CsrOutcomes(s, i, IF CsrImm(i) THEN i.rs1 ELSE a)
        [] i.op \in {"fence", "fence_i"} -> Go(0, next)
        [] i.op = "mret"  -> {Retired([s EXCEPT !.csr = CsrMret(s.csr)], i, 0, s.csr.mepc)}
        [] i.op = "wfi"   -> {[Retired(s, i, 0, next) EXCEPT !.sleeping = ~Wakes(s, line)]}
        [] OTHER          -> {Trapped(s, i.op)}

\* What may happen next to state s while the interrupt line is at level line.
Steps(s, line) ==
  IF s.sleeping
  THEN {[s EXCEPT !.sleeping = FALSE] : w \in {Wakes(s, line)} \cap {TRUE}}
  ELSE Executions(s, line)
       \cup {Trapped(s, "instruction_access")}
       \cup {Trapped(s, "interrupt") : w \in {Wakes(s, line) /\ s.csr.mstatus_mie} \cap {TRUE}}

\* It runs any program.
Init == /\ prog \in [Word -> Instruction]
        /\ arch \in Boot
        /\ irq \in BOOLEAN

Next == /\ irq' \in BOOLEAN
        /\ UNCHANGED prog
        /\ LET once == Steps(arch, irq)
           IN  arch' \in {arch} \cup once \cup UNION {Steps(s, irq) : s \in once}

Spec == Init /\ [][Next]_vars
=============================================================================
