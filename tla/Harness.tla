------------------------------- MODULE Harness -------------------------------
(***************************************************************************)
(* The cocotb test bench around the core: native_memory.py behind the two  *)
(* ports and the monitor of functional_coverage.py beside them.            *)
(*                                                                         *)
(* A step is one clock period: the memory drives its answers at the        *)
(* falling edge from what the core shows, and memory and monitor sample    *)
(* them at the rising edge.  A test chooses the wait states of each port   *)
(* and the addresses that fail; the MMIO callbacks of a test are left out. *)
(***************************************************************************)
EXTENDS RvfiShadow

VARIABLES test,       \* the test's parameters
          imem, dmem, \* the state of the memory's two ports
          data,       \* the words of the memory
          books,      \* the accepted transfers: how many of each kind, modulo Words
          waits,      \* the monitor's counters of wait cycles
          pending_branch, hits   \* a committed branch; the bins hit in the last cycle

bench == <<imem, dmem, data, books, waits, pending_branch, hits>>
harnessVars == <<rvfiVars, test, bench>>

NoRequest == [active |-> FALSE, accepted |-> FALSE, remaining |-> 0, request |-> <<>>]
NoBranch  == [name |-> "none"]

-----------------------------------------------------------------------------
(* NativeMemory.                                                           *)

imem_request == <<pc>>
dmem_request_fields == <<exmem.insn.op, dmem_addr, IF MemWrite(exmem.insn) THEN store_data ELSE 0>>

\* _drive_instruction, _drive_data: the accepted transfer ends, a request is
\* taken up, and it is answered when its wait states have gone by.
Taken(port, valid, request, wait) ==
  LET free == IF port.accepted THEN NoRequest ELSE port
  IN  IF valid /\ ~free.active
      THEN [active |-> TRUE, accepted |-> FALSE, remaining |-> wait, request |-> request]
      ELSE free

DrivenImem == Taken(imem, imem_valid, imem_request, test.instruction_wait)
DrivenDmem == Taken(dmem, dmem_valid, dmem_request_fields, test.data_wait)

Ready(driven) == driven.active /\ driven.remaining = 0

\* Its assertions: "request changed while ready was low".
InstructionRequestHeld == DrivenImem.active => imem_request = DrivenImem.request
DataRequestHeld == DrivenDmem.active => dmem_request_fields = DrivenDmem.request

\* What the core sees on its ports.
Answer(driven, failed, error) ==
  IF ~Ready(driven) THEN "wait" ELSE IF failed THEN error ELSE "ok"

imem_answer == Answer(DrivenImem, pc \in test.instruction_error_addresses, "fault_insn")
dmem_answer == Answer(DrivenDmem, dmem_addr \in test.data_error_addresses, "error")

Attached(in) == in.imem = imem_answer /\ in.dmem = dmem_answer

\* The rising edge of run(): an answered request is accepted.
Sampled(driven, valid) ==
  IF Ready(driven) /\ valid THEN [driven EXCEPT !.accepted = TRUE]
  ELSE [driven EXCEPT !.remaining = IF @ = 0 THEN 0 ELSE @ - 1]

NativeMemoryEdge ==
  LET imem_accepts == Ready(DrivenImem) /\ imem_valid
      dmem_accepts == Ready(DrivenDmem) /\ dmem_valid
      stores == dmem_accepts /\ MemWrite(exmem.insn) /\ dmem_addr \notin test.data_error_addresses
  IN  /\ imem' = Sampled(DrivenImem, imem_valid)
      /\ dmem' = Sampled(DrivenDmem, dmem_valid)
      /\ data' = IF stores THEN [data EXCEPT ![dmem_addr] = store_data] ELSE data
      /\ books' = [instruction_accepts |-> Plus(books.instruction_accepts, ToBit(imem_accepts)),
                   data_accepts |-> Plus(books.data_accepts, ToBit(dmem_accepts)),
                   store_count  |-> Plus(books.store_count, ToBit(stores))]

-----------------------------------------------------------------------------
(* The coverage monitor.                                                   *)

\* Three wait cycles count as two: _wait_bin tells no more apart.
WaitBin(n) == IF n > 1 THEN 2 ELSE n

\* Fault: a counter is not cleared by the answer.
WaitedOn(n, valid, answer) == IF valid /\ answer = "wait" THEN WaitBin(n + 1) ELSE n

Waited(n, valid, answer) == IF ~valid THEN n ELSE IF answer = "wait" THEN WaitBin(n + 1) ELSE 0

operation == IF MemWrite(exmem.insn) THEN "store" ELSE "load"

Bus(port, n, answer) ==
  {<<"bus", port, "wait", n>>} \cup
  IF answer \in {"ok", "wait"} THEN {} ELSE {<<"bus", port, "error">>}

FetchBins(in) ==
  IF imem_valid /\ in.imem # "wait" THEN Bus("ifetch", waits.ifetch, in.imem) ELSE {}

DataBins(in) == IF dmem_answered(in) THEN Bus(operation, waits.data, in.dmem) ELSE {}

\* A branch is followed by the next commit: at its PC plus one, not taken.
CommitBins(in) ==
  IF ~commit_valid(in) THEN {}
  ELSE {<<"instruction", memwb.insn.op>>} \cup
       IF pending_branch = NoBranch THEN {}
       ELSE {<<"branch", IF wb_pc_q = Plus(pending_branch.pc, 1) THEN "not_taken" ELSE "taken">>}

MonitorEdge(in) ==
  /\ hits' = FetchBins(in) \cup DataBins(in) \cup CommitBins(in)
  /\ waits' = [ifetch |-> Waited(waits.ifetch, imem_valid, in.imem),
               data |-> Waited(waits.data, dmem_valid, in.dmem)]
  /\ pending_branch' =
       IF ~commit_valid(in) THEN pending_branch
       ELSE IF memwb.insn.op = "beq" THEN [name |-> "beq", pc |-> wb_pc_q] ELSE NoBranch

HarnessInit ==
  /\ RvfiInit
  /\ data = mem
  /\ imem = NoRequest /\ dmem = NoRequest
  /\ books = [instruction_accepts |-> 0, data_accepts |-> accesses, store_count |-> 0]
  /\ waits = [ifetch |-> 0, data |-> 0]
  /\ pending_branch = NoBranch
  /\ hits = {}

HarnessNext == \E in \in Inputs : /\ Attached(in)
                                  /\ Edge(in) /\ ShadowEdge(in)
                                  /\ NativeMemoryEdge /\ MonitorEdge(in)
                                  /\ UNCHANGED test

HarnessSpec == HarnessInit /\ [][HarnessNext]_harnessVars

-----------------------------------------------------------------------------
(* Properties.                                                             *)

\* The core keeps the requests as native_memory.py asserts.
AssertionsHold == InstructionRequestHeld /\ DataRequestHeld

\* Every transfer is accepted once, and every store reaches the memory.
BooksBalance == books.data_accepts = accesses /\ data = mem
=============================================================================
