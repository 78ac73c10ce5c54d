------------------------------ MODULE MCHarness ------------------------------
(* Programs of ALU, memory, branching and trapping instructions, with a trap  *)
(* handler at 3 that returns to the trapped instruction, in two benches: the  *)
(* formal one (the RVFI shadow with a zero-wait instruction memory and any    *)
(* data memory) and the cocotb one.                                           *)
EXTENDS Harness

R(op, rd, rs1, rs2, imm) ==
  [op |-> op, rd |-> rd, rs1 |-> rs1, rs2 |-> rs2, imm |-> imm, csr |-> "mstatus"]

Program(code, last) == {[n \in Word |-> IF n < 3 THEN p[n] ELSE last] : p \in [0 .. 2 -> code]}

FormalCode == {R("addi", 1, 1, 0, 1), R("lw", 1, 0, 0, 0), R("ecall", 0, 0, 0, 0),
               R("mul", 1, 1, 1, 0)}
FormalPrograms == Program(FormalCode, R("mret", 0, 0, 0, 0))

\* A branch on x0 = x1, a store and a load of x1, and an exception.
CocotbCode == {R("beq", 0, 0, 1, 2), R("sw", 0, 0, 1, 2), R("lw", 1, 0, 0, 2),
               R("ecall", 0, 0, 0, 0)}
CocotbPrograms == Program(CocotbCode, R("mret", 0, 0, 0, 0))

HarnessPrograms == FormalPrograms \cup CocotbPrograms

HarnessBoot == {[pc |-> 0, regs |-> [r \in Reg |-> r], mem |-> [a \in Word |-> 0],
                 csr |-> [mstatus_mie |-> FALSE, mstatus_mpie |-> FALSE, mie |-> FALSE,
                          mepc |-> 0, mcause |-> "reset", minstret |-> 0],
                 accesses |-> 0, sleeping |-> FALSE]}

Formal == [bench |-> "formal"]
Tests == [bench: {"cocotb"}, instruction_wait: 0 .. 2, data_wait: 0 .. 2,
          instruction_error_addresses: {{}, {1}}, data_error_addresses: {{}, {2}}]

\* Where a handler starts.
Vectors == {TrapVector, InterruptVector}

\* The outcome of the last branch, from the operands it retired with, and
\* what a branch bin hit in this cycle should be: nothing is said of a branch
\* whose successor trapped or was interrupted, a handler comes next then.
VARIABLE branch

BranchStep ==
  branch' = IF \A bin \in hits' : bin[1] # "instruction" THEN branch
            ELSE [taken |-> regs[memwb.insn.rs1] = regs[memwb.insn.rs2],
                  bins  |-> IF wb_pc_q \in Vectors THEN {"taken", "not_taken"}
                            ELSE {IF branch.taken THEN "taken" ELSE "not_taken"}]

MCInit ==
  /\ HarnessInit
  /\ branch = [taken |-> FALSE, bins |-> {}]
  /\ \/ test = Formal /\ prog \in FormalPrograms
     \/ test \in Tests /\ prog \in CocotbPrograms

MCNext ==
  \/ test # Formal /\ HarnessNext /\ BranchStep
  \/ test = Formal /\ UNCHANGED <<test, bench, branch>>
     /\ \E in \in Inputs : in.imem = "ok" /\ Edge(in) /\ ShadowEdge(in)

MCSpec == MCInit /\ [][MCNext]_<<harnessVars, branch>>

-----------------------------------------------------------------------------
(* Properties.                                                             *)

\* With no wait states on the instruction port the RVFI channel is in order,
\* whatever the data port does.
InOrderAtZeroWait == [][test = Formal \/ test.instruction_wait = 0 => InOrder]_harnessVars

\* The wait bins are those of the test's wait states.
WaitBinsExact ==
  \A port \in {"ifetch", "load", "store"}, n \in 0 .. 2 :
    <<"bus", port, "wait", n>> \in hits =>
      n = IF port = "ifetch" THEN test.instruction_wait ELSE test.data_wait

BranchBinsTrue ==
  \A outcome \in {"taken", "not_taken"} : <<"branch", outcome>> \in hits => outcome \in branch.bins

\* The cocotb bench measures what happens: no assertion of the memory fires,
\* its records are those of the core's transfers, and the bins of the coverage
\* report have the wait states of the test and, unless a trap follows, the
\* outcomes of the branches.
BenchMeasures ==
  test # Formal => AssertionsHold /\ BooksBalance /\ WaitBinsExact /\ BranchBinsTrue

=============================================================================
