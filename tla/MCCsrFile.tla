------------------------------ MODULE MCCsrFile ------------------------------
(* The CSR file under two pieces of software, for TLC: one that sets and reads *)
(* a running counter by halves, and one that takes interrupts.                *)
EXTENDS CsrFile

CONSTANT MCGap   \* the longest a read loop takes from its first to its last read

\* A half has room for the edges between two writes, and a read loop ends before
\* the high half comes round again.
ASSUME SoftwareAssumption ==
  /\ HalfModulus \in Nat /\ HalfModulus > 2
  /\ MCGap \in Nat \ {0} /\ MCGap < HalfModulus * HalfModulus - HalfModulus

VARIABLE task    \* what the software is in the middle of

Idle == [does |-> "idle"]

MCInit == Init /\ lines = {} /\ task = Idle

Address(c, half) == CHOOSE a \in DOMAIN Halves : Halves[a] = <<c, half>>

\* Setting a counter: low := 0, high := hi, low := lo.  The low half must not
\* overflow before the last write.
Set ==
  \E c \in Counters, v \in Half :
    \/ /\ task = Idle /\ v = 0
       /\ WriteCsr(Address(c, "low"), v)
       /\ task' = [does |-> "cleared", c |-> c, edges |-> 0]
    \/ /\ task.does = "cleared" /\ task.c = c
       /\ WriteCsr(Address(c, "high"), v)
       /\ task' = [does |-> "half_set", c |-> c, edges |-> task.edges + 1, high |-> v]
    \/ /\ task.does = "half_set" /\ task.c = c
       /\ WriteCsr(Address(c, "low"), v)
       /\ task' = [does |-> "set", c |-> c, high |-> task.high, low |-> v]

\* Reading one: high, low, high again, and once more if the two differ.
Read ==
  \E c \in Counters, retire \in BOOLEAN :
    /\ Wait(retire)
    /\ \/ task = Idle
          /\ task' = [does |-> "read_high", c |-> c, edges |-> 0,
                      high |-> ReadHalf(Address(c, "high"))]
       \/ task.does = "read_high" /\ task.c = c
          /\ task' = [does |-> "read_low", c |-> c, edges |-> task.edges + 1, high |-> task.high,
                      low |-> ReadHalf(Address(c, "low")), at |-> counter[c]]
       \/ task.does = "read_low" /\ task.c = c
          /\ task' = IF ReadHalf(Address(c, "high")) # task.high THEN Idle
                     ELSE [does |-> "read", high |-> task.high, low |-> task.low, at |-> task.at]

\* The edges that may have gone by before the next access must come.
Patience == [cleared |-> HalfModulus - 3, half_set |-> HalfModulus - 2,
             read_high |-> MCGap - 1, read_low |-> MCGap]

\* Between two accesses, and with nothing under way, time goes by.
Elapse ==
  /\ \E retire \in BOOLEAN : Wait(retire)
  /\ CASE task.does \in DOMAIN Patience ->
            task.edges < Patience[task.does] /\ task' = [task EXCEPT !.edges = @ + 1]
       [] OTHER -> task' = Idle

\* The other software stops the counters first thing.
Inhibit ==
  /\ task = Idle /\ \E v \in Written("mcountinhibit") : WriteCsr("mcountinhibit", v)
  /\ \/ UNCHANGED task
     \/ /\ mcountinhibit = {} /\ \A c \in Counters : counter[c] = 0
        /\ mcountinhibit' = Counters
        /\ task' = [does |-> "interrupts"]

CounterSoftware == lines' = {} /\ (Set \/ Read \/ Elapse \/ Inhibit)

InterruptSoftware ==
  /\ task.does = "interrupts" /\ UNCHANGED task
  /\ lines' \in SUBSET Sources
  /\ \/ TakeException(FALSE) \/ TakeInterrupt(FALSE) \/ Mret(FALSE) \/ Wait(FALSE)
     \/ \E address \in {"mstatus", "mie", "mtvec", "mepc", "mcause"} :
          \E v \in Written(address) : WriteCsr(address, v)

MCNext == IF task.does = "interrupts" THEN InterruptSoftware ELSE CounterSoftware

MCSpec == MCInit /\ [][MCNext]_<<vars, task>>

-----------------------------------------------------------------------------
(* Properties.                                                             *)

\* The two-register idioms of RV32 software work on the running counter: after
\* low := 0, high := hi, low := lo it holds hi:lo, and a read of high, low, high
\* with the same high twice is the value the counter had at the low read.
CounterAccessCoherent ==
  /\ task.does = "set"  => counter[task.c] = HalfModulus * task.high + task.low
  /\ task.does = "read" => task.at = HalfModulus * task.high + task.low
=============================================================================
