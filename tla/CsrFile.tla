------------------------------ MODULE CsrFile -------------------------------
(***************************************************************************)
(* csr_file.sv: the machine CSRs, the interrupt arbitration and the        *)
(* counters, with the trap selection of tdrv32_pipeline.sv that drives it. *)
(*                                                                         *)
(* One step is one rising edge.  A register holds the fields that exist:   *)
(* mie and mip are sets of interrupt sources, mtvec a base and a mode; the *)
(* counters have two halves of H bits.  The value software writes has the  *)
(* bits that do not exist as well.                                         *)
(***************************************************************************)
EXTENDS Integers

CONSTANTS H,             \* the bits of half a counter: 32 in the source
          Bases, Pcs,    \* trap vector bases, and PCs in parcels
          Causes         \* exception codes

ASSUME HalfAssumption == H \in Nat /\ H > 0
ASSUME PcAssumption == Bases \subseteq Nat /\ Pcs \subseteq Nat /\ Causes \subseteq Nat

Sources  == {"external", "software", "timer"}
Counters == {"cycle", "instret"}
HalfModulus == 2^H
Half  == 0 .. HalfModulus - 1
Count == 0 .. HalfModulus * HalfModulus - 1

VARIABLES lines,         \* the interrupt lines, mip
          mstatus_mie, mstatus_mpie, mie, mtvec, mepc, mcause, mcountinhibit,
          counter        \* mcycle and minstret

trapState == <<mstatus_mie, mstatus_mpie, mie, mtvec, mepc, mcause, mcountinhibit>>
vars == <<lines, trapState, counter>>

Interrupt(s) == [interrupt |-> TRUE, code |-> CASE s = "external" -> 11
                                                [] s = "software" -> 3
                                                [] s = "timer"    -> 7]
Exception(c) == [interrupt |-> FALSE, code |-> c]

-----------------------------------------------------------------------------
(* Interrupts.                                                             *)

o_wake_pending == mie \cap lines # {}
o_irq_pending  == mstatus_mie /\ o_wake_pending

\* Fault: the timer goes before the software interrupt.
IrqCauseTimerFirst == IF "external" \in mie \cap lines THEN Interrupt("external")
                      ELSE IF "timer" \in mie \cap lines THEN Interrupt("timer")
                      ELSE Interrupt("software")

\* External, software, timer.
o_irq_cause == IF "external" \in mie \cap lines THEN Interrupt("external")
               ELSE IF "software" \in mie \cap lines THEN Interrupt("software")
               ELSE Interrupt("timer")

\* Where a trap goes; only an interrupt is vectored.
trap_vector_pc(cause) ==
  mtvec.base + IF cause.interrupt /\ mtvec.mode = 1 THEN 4 * cause.code ELSE 0

-----------------------------------------------------------------------------
(* CSR accesses.                                                           *)

Addresses == {"mstatus", "mie", "mtvec", "mepc", "mcause", "mcountinhibit",
              "mcycle", "mcycleh", "minstret", "minstreth"}

\* The values software may write there.
Written(address) ==
  CASE address = "mstatus" -> [mie: BOOLEAN, mpie: BOOLEAN]
    [] address = "mie"     -> SUBSET (Sources \cup {"reserved"})
    [] address = "mtvec"   -> [base: Bases, mode: 0 .. 3]
    [] address = "mepc"    -> {2 * pc : pc \in Pcs} \cup {2 * pc + 1 : pc \in Pcs}
    [] address = "mcause"  -> {Interrupt(s) : s \in Sources} \cup {Exception(c) : c \in Causes}
    [] address = "mcountinhibit" -> SUBSET (Counters \cup {"time"})
    [] OTHER               -> Half

High(c) == counter[c] \div HalfModulus
Low(c)  == counter[c] % HalfModulus

\* The half of a counter behind an address.
Halves == [mcycle |-> <<"cycle", "low">>, mcycleh |-> <<"cycle", "high">>,
           minstret |-> <<"instret", "low">>, minstreth |-> <<"instret", "high">>]

ReadHalf(address) == IF Halves[address][2] = "low" THEN Low(Halves[address][1])
                     ELSE High(Halves[address][1])

\* The WARL rules: reserved bits of mie and mcountinhibit are dropped, a
\* reserved mode of mtvec is direct, bit 0 of mepc is clear.
WriteTrapState(address, v) ==
  /\ mstatus_mie' = IF address = "mstatus" THEN v.mie ELSE mstatus_mie
  /\ mstatus_mpie' = IF address = "mstatus" THEN v.mpie ELSE mstatus_mpie
  /\ mie' = IF address = "mie" THEN v \cap Sources ELSE mie
  /\ mtvec' = IF address = "mtvec" THEN [base |-> v.base, mode |-> IF v.mode = 1 THEN 1 ELSE 0]
              ELSE mtvec
  /\ mepc' = IF address = "mepc" THEN 2 * (v \div 2) ELSE mepc
  /\ mcause' = IF address = "mcause" THEN v ELSE mcause
  /\ mcountinhibit' = IF address = "mcountinhibit" THEN v \cap Counters ELSE mcountinhibit

-----------------------------------------------------------------------------
(* The counters: they count in every cycle, a write goes on top.           *)

Incremented(c, counts) ==
  IF counts /\ c \notin mcountinhibit THEN (counter[c] + 1) % (HalfModulus * HalfModulus)
  ELSE counter[c]

Counted(retire) == [c \in Counters |-> Incremented(c, c = "cycle" \/ retire)]

\* Fault: the automatic increment goes before a write.
HalfWrittenUnlessCounting(address, v) ==
  LET c == Halves[address][1]
      value == counter[c]
  IN  [Counted(FALSE) EXCEPT ![c] =
         IF @ # value THEN @
         ELSE IF Halves[address][2] = "low" THEN HalfModulus * (@ \div HalfModulus) + v
         ELSE HalfModulus * v + (@ % HalfModulus)]

\* The half not written still gets the increment, carry included.  Nothing
\* retires in the cycle of a write (the pipeline's csr_order_stall).
HalfWritten(address, v) ==
  [Counted(FALSE) EXCEPT ![Halves[address][1]] =
     IF Halves[address][2] = "low" THEN HalfModulus * (@ \div HalfModulus) + v
     ELSE HalfModulus * v + (@ % HalfModulus)]

-----------------------------------------------------------------------------
(* The edges, by what the instruction in EX does.                          *)

Trap(pc, cause) ==
  /\ mepc' = 2 * pc
  /\ mcause' = cause
  /\ mstatus_mpie' = mstatus_mie
  /\ mstatus_mie' = FALSE
  /\ UNCHANGED <<mie, mtvec, mcountinhibit>>

\* An exception goes before an interrupt, both before anything else.
TakeException(retire) ==
  /\ \E pc \in Pcs, c \in Causes : Trap(pc, Exception(c))
  /\ counter' = Counted(retire)

TakeInterrupt(retire) ==
  /\ o_irq_pending
  /\ \E pc \in Pcs : Trap(pc, o_irq_cause)
  /\ counter' = Counted(retire)

Mret(retire) ==
  /\ ~o_irq_pending
  /\ mstatus_mie' = mstatus_mpie
  /\ mstatus_mpie' = TRUE
  /\ counter' = Counted(retire)
  /\ UNCHANGED <<mie, mtvec, mepc, mcause, mcountinhibit>>

WriteCsr(address, v) ==
  /\ ~o_irq_pending
  /\ WriteTrapState(address, v)
  /\ counter' = IF address \in DOMAIN Halves THEN HalfWritten(address, v) ELSE Counted(FALSE)

\* No instruction in EX that gets to act: a bubble or a stalled pipeline.
Wait(retire) == counter' = Counted(retire) /\ UNCHANGED trapState

Init == /\ lines \in SUBSET Sources
        /\ mstatus_mie = FALSE /\ mstatus_mpie = FALSE
        /\ mie = {} /\ mcountinhibit = {}
        /\ mtvec \in [base: {b \in Bases : b = 0}, mode: {0}]
        /\ mepc = 0 /\ mcause = Exception(0)
        /\ counter = [c \in Counters |-> 0]

Next == /\ lines' \in SUBSET Sources
        /\ \/ \E retire \in BOOLEAN : TakeException(retire)
           \/ \E retire \in BOOLEAN : TakeInterrupt(retire)
           \/ \E retire \in BOOLEAN : Mret(retire)
           \/ \E address \in Addresses : \E v \in Written(address) : WriteCsr(address, v)
           \/ \E retire \in BOOLEAN : Wait(retire)

Spec == Init /\ [][Next]_vars

-----------------------------------------------------------------------------
(* Properties.                                                             *)

Rank == [external |-> 3, software |-> 2, timer |-> 1]

\* The interrupt entered is the most urgent of those enabled and raised in the
\* cycle of the entry; it goes to that source's own vector if mtvec asks for
\* vectors; and it masks the others, which stay pending for the handler's MRET.
EntersMostUrgent ==
  \E s \in mie \cap lines :
    /\ \A t \in mie \cap lines : Rank[t] <= Rank[s]
    /\ mcause' = Interrupt(s)
    /\ trap_vector_pc(mcause') = mtvec.base + IF mtvec.mode = 1 THEN 4 * Interrupt(s).code ELSE 0
    /\ ~o_irq_pending' /\ mstatus_mpie' /\ mie' = mie

\* Whatever was pending in earlier cycles, an interrupt is entered like that.
MostUrgentInterrupt == [][(\E retire \in BOOLEAN : TakeInterrupt(retire)) => EntersMostUrgent]_vars
=============================================================================
