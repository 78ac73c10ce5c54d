--------------------------- MODULE CsrFileProofs ----------------------------
(***************************************************************************)
(* Proofs about CsrFile, for every width of the counters, every set of     *)
(* vector bases, PCs and exception codes, and about the software that sets *)
(* and reads a running counter by halves.                                  *)
(***************************************************************************)
EXTENDS MCCsrFile, TLAPS

\* What the interrupt arbitration relies on: only the three sources exist.
SourcesOnly == lines \in SUBSET Sources /\ mie \in SUBSET Sources

\* At reset mie is clear.
LEMMA InitEstablishes == Init => SourcesOnly
BY DEF Init, SourcesOnly

\* Software cannot enable a source that does not exist.
LEMMA StepPreserves == SourcesOnly /\ [Next]_vars => SourcesOnly'
<1> SUFFICES ASSUME SourcesOnly, [Next]_vars PROVE SourcesOnly'
  OBVIOUS
<1>1. CASE Next
  <2>1. lines' \in SUBSET Sources
    BY <1>1 DEF Next
  <2>2. CASE \E retire \in BOOLEAN :
               TakeException(retire) \/ TakeInterrupt(retire) \/ Mret(retire) \/ Wait(retire)
    <3>1. mie' = mie
      BY <2>2 DEF TakeException, TakeInterrupt, Trap, Mret, Wait, trapState
    <3> QED
      BY <2>1, <3>1 DEF SourcesOnly
  <2>3. CASE \E address \in Addresses : \E v \in Written(address) : WriteCsr(address, v)
    <3>1. PICK address \in Addresses : \E v \in Written(address) : WriteCsr(address, v)
      BY <2>3
    <3>2. PICK v \in Written(address) : WriteCsr(address, v)
      BY <3>1
    <3>3. mie' = IF address = "mie" THEN v \cap Sources ELSE mie
      BY <3>2 DEF WriteCsr, WriteTrapState
    <3> QED
      BY <2>1, <3>3 DEF SourcesOnly
  <2> QED
    BY <1>1, <2>2, <2>3 DEF Next
<1>2. CASE UNCHANGED vars
  BY <1>2 DEF SourcesOnly, vars, trapState
<1> QED
  BY <1>1, <1>2

\* The arbitration's cause is that of the most urgent source pending.
LEMMA CauseIsMostUrgent ==
  ASSUME SourcesOnly, o_irq_pending
  PROVE  \E s \in mie \cap lines : /\ \A t \in mie \cap lines : Rank[t] <= Rank[s]
                                   /\ o_irq_cause = Interrupt(s)
<1> DEFINE pending == mie \cap lines
<1>1. /\ Rank["external"] = 3 /\ Rank["software"] = 2 /\ Rank["timer"] = 1
      /\ \A t \in pending : t \in {"external", "software", "timer"}
  BY DEF SourcesOnly, Sources, Rank
<1>2. pending # {}
  BY DEF o_irq_pending, o_wake_pending
<1> HIDE DEF pending
<1>3. CASE "external" \in pending
  <2>1. o_irq_cause = Interrupt("external")
    BY <1>3 DEF pending, o_irq_cause
  <2>2. \A t \in pending : Rank[t] <= Rank["external"]
    BY <1>1
  <2> QED
    BY <1>3, <2>1, <2>2 DEF pending
<1>4. CASE "external" \notin pending /\ "software" \in pending
  <2>1. o_irq_cause = Interrupt("software")
    BY <1>4 DEF pending, o_irq_cause
  <2>2. \A t \in pending : Rank[t] <= Rank["software"]
    BY <1>1, <1>4
  <2> QED
    BY <1>4, <2>1, <2>2 DEF pending
<1>5. CASE "external" \notin pending /\ "software" \notin pending
  <2>1. o_irq_cause = Interrupt("timer")
    BY <1>5 DEF pending, o_irq_cause
  <2>2. "timer" \in pending /\ \A t \in pending : t = "timer"
    BY <1>1, <1>2, <1>5
  <2>3. \A t \in pending : Rank[t] <= Rank["timer"]
    BY <1>1, <2>2
  <2> QED
    BY <2>1, <2>2, <2>3 DEF pending
<1> QED
  BY <1>3, <1>4, <1>5

\* Of the enabled interrupts the most urgent is entered, at its own vector,
\* and the others stay pending behind it.
THEOREM MostUrgentInterruptHolds == Spec => MostUrgentInterrupt
<1>1. ASSUME SourcesOnly, \E retire \in BOOLEAN : TakeInterrupt(retire)
      PROVE  EntersMostUrgent
  <2>1. PICK retire \in BOOLEAN : TakeInterrupt(retire)
    BY <1>1
  <2>2. PICK s \in mie \cap lines : /\ \A t \in mie \cap lines : Rank[t] <= Rank[s]
                                    /\ o_irq_cause = Interrupt(s)
    BY <1>1, <2>1, CauseIsMostUrgent DEF TakeInterrupt
  <2>3. mcause' = Interrupt(s) /\ ~mstatus_mie' /\ mstatus_mpie' = mstatus_mie /\ mie' = mie
    BY <2>1, <2>2 DEF TakeInterrupt, Trap
  <2>4. mstatus_mie
    BY <2>1 DEF TakeInterrupt, o_irq_pending
  <2>5. Interrupt(s).interrupt
    BY DEF Interrupt
  <2>6. trap_vector_pc(mcause') =
          mtvec.base + IF mtvec.mode = 1 THEN 4 * Interrupt(s).code ELSE 0
    BY <2>3, <2>5 DEF trap_vector_pc
  <2> QED
    BY <2>2, <2>3, <2>4, <2>6 DEF EntersMostUrgent, o_irq_pending
<1> QED
  BY <1>1, InitEstablishes, StepPreserves, PTL DEF Spec, MostUrgentInterrupt

-----------------------------------------------------------------------------
(* Counter values and their halves.                                        *)

\* A quotient and a remainder are recognised by the division identity.
LEMMA DivisionUnique ==
  \A q \in Int, b \in Nat, r \in Nat, a \in Int :
    r < b /\ a = q * b + r => a \div b = q /\ a % b = r
<1> TAKE q \in Int, b \in Nat, r \in Nat, a \in Int
<1> HAVE r < b /\ a = q * b + r
<1> QED
  OBVIOUS

\* The halves of a counter value.
LEMMA Halving ==
  \A v \in Count : /\ v \div HalfModulus \in Half /\ v % HalfModulus \in Half
                   /\ v = HalfModulus * (v \div HalfModulus) + (v % HalfModulus)
<1> TAKE v \in Count
<1> DEFINE M == HalfModulus
           q == v \div M
           r == v % M
<1>1. M \in Nat /\ M > 2
  BY SoftwareAssumption
<1>2. v \in Int /\ 0 <= v /\ v < M * M
  BY <1>1 DEF Count
<1> HIDE DEF M
<1>3. q \in Int /\ r \in Nat /\ r < M /\ v = q * M + r
  BY <1>1, <1>2
<1> HIDE DEF q, r
<1>4. q * M = M * q
  BY <1>1, <1>3
<1>5. q \in Nat /\ q < M
  BY <1>1, <1>2, <1>3
<1> QED
  BY <1>1, <1>3, <1>4, <1>5 DEF Half, M, q, r

\* Two halves make a value with these halves.
LEMMA Joining ==
  \A h, l \in Half : /\ HalfModulus * h + l \in Count
                     /\ (HalfModulus * h + l) \div HalfModulus = h
                     /\ (HalfModulus * h + l) % HalfModulus = l
<1> TAKE h, l \in Half
<1> DEFINE M == HalfModulus
           v == M * h + l
<1>1. M \in Nat /\ M > 2 /\ h \in Nat /\ h < M /\ l \in Nat /\ l < M /\ h \in Int
  BY SoftwareAssumption DEF Half
<1> HIDE DEF M
<1>2. v \in Nat /\ v \in Int /\ v = h * M + l
  BY <1>1
<1>3. v < M * M
  <2>1. (M - 1 - h) \in Nat
    BY <1>1
  <2>2. (M - 1 - h) * M \in Nat
    BY <1>1, <2>1
  <2>3. (M - 1 - h) * M = M * M - M - M * h
    BY <1>1
  <2>4. M * M \in Int /\ M * h \in Int
    BY <1>1
  <2> QED
    BY <1>1, <2>2, <2>3, <2>4
<1> HIDE DEF v
<1>4. v \div M = h /\ v % M = l
  BY <1>1, <1>2, DivisionUnique, Zenon
<1>5. v \in 0 .. M * M - 1
  <2>1. M * M \in Int
    BY <1>1
  <2> QED
    BY <1>2, <1>3, <2>1
<1> QED
  BY <1>4, <1>5, Zenon DEF v, M, Count

\* x after n increments.
Advanced(x, n) == (x + n) % (HalfModulus * HalfModulus)

\* As long as the value does not wrap it is a sum; when it does, it falls by a
\* whole turn.
LEMMA AdvancedValue ==
  \A x \in Count, n \in Nat :
    n <= HalfModulus * HalfModulus =>
      /\ Advanced(x, n) \in Count
      /\ x + n < HalfModulus * HalfModulus => Advanced(x, n) = x + n
      /\ x + n >= HalfModulus * HalfModulus =>
           Advanced(x, n) = x + n - HalfModulus * HalfModulus
<1> TAKE x \in Count, n \in Nat
<1> DEFINE S == HalfModulus * HalfModulus
<1> HAVE n <= S
<1>1. S \in Nat /\ S > 0
  BY SoftwareAssumption
<1>2. x \in Nat /\ x < S
  BY <1>1 DEF Count
<1>3. Advanced(x, n) = (x + n) % S /\ Count = 0 .. S - 1
  BY DEF Advanced, Count
<1> HIDE DEF S
<1>4. /\ Advanced(x, n) \in 0 .. S - 1
      /\ x + n < S => Advanced(x, n) = x + n
      /\ x + n >= S => Advanced(x, n) = x + n - S
  <2>1. CASE x + n < S
    <3>1. (x + n) % S = x + n
      BY <1>1, <1>2, <2>1
    <3> QED
      BY <1>1, <1>2, <1>3, <2>1, <3>1
  <2>2. CASE x + n >= S
    <3>1. x + n - S \in Nat /\ x + n - S < S /\ x + n = 1 * S + (x + n - S)
          /\ x + n \in Int /\ 1 \in Int
      BY <1>1, <1>2, <2>2
    <3> DEFINE a == x + n
               r == x + n - S
    <3>2. a % S = r
      <4>1. r \in Nat /\ r < S /\ a = 1 * S + r /\ a \in Int /\ 1 \in Int
        BY <3>1, Zenon
      <4> HIDE DEF a, r
      <4> QED
        BY <1>1, <4>1, DivisionUnique, Zenon
    <3> QED
      BY <1>1, <1>2, <1>3, <2>2, <3>1, <3>2
  <2> QED
    BY <1>1, <1>2, <2>1, <2>2
<1> QED
  BY <1>3, <1>4, Zenon DEF S

\* One more increment.
LEMMA AdvancedOnce ==
  \A x \in Count, n \in Nat :
    n < HalfModulus * HalfModulus => Advanced(Advanced(x, n), 1) = Advanced(x, n + 1)
<1> TAKE x \in Count, n \in Nat
<1> DEFINE S == HalfModulus * HalfModulus
<1>h. HAVE n < S
<1>1. S \in Nat /\ S > 1
  BY SoftwareAssumption
<1>2. x \in Nat /\ x < S
  BY <1>1 DEF Count
<1>3. n <= S /\ n + 1 <= S /\ n + 1 \in Nat /\ 1 <= S /\ 1 \in Nat
  BY <1>h, <1>1
<1>4. \A y \in Count, k \in Nat :
        k <= S => /\ Advanced(y, k) \in Count
                  /\ y + k < S => Advanced(y, k) = y + k
                  /\ y + k >= S => Advanced(y, k) = y + k - S
  BY AdvancedValue, Zenon
<1>5. Count = 0 .. S - 1
  BY DEF Count
<1> HIDE DEF S
<1> DEFINE y == Advanced(x, n)
<1>6. y \in Count /\ (x + n < S => y = x + n) /\ (x + n >= S => y = x + n - S)
  BY <1>3, <1>4, Zenon
<1>7. /\ x + (n + 1) < S => Advanced(x, n + 1) = x + (n + 1)
      /\ x + (n + 1) >= S => Advanced(x, n + 1) = x + (n + 1) - S
  BY <1>3, <1>4, Zenon
<1> HIDE DEF y
<1>8. (y + 1 < S => Advanced(y, 1) = y + 1) /\ (y + 1 >= S => Advanced(y, 1) = y + 1 - S)
  BY <1>3, <1>4, <1>6, Zenon
<1>9. Advanced(y, 1) = Advanced(x, n + 1)
  BY <1>h, <1>1, <1>2, <1>5, <1>6, <1>7, <1>8
<1> QED
  BY <1>9, Zenon DEF y

\* The low half counts alone until it is full.
LEMMA LowCounts ==
  \A v \in Count :
    v % HalfModulus < HalfModulus - 1 =>
      /\ Advanced(v, 1) \div HalfModulus = v \div HalfModulus
      /\ Advanced(v, 1) % HalfModulus = (v % HalfModulus) + 1
<1> TAKE v \in Count
<1> DEFINE M == HalfModulus
           h == v \div M
           l == v % M
<1> HAVE v % HalfModulus < HalfModulus - 1
<1>1. M \in Nat /\ M > 2
  BY SoftwareAssumption
<1>2. h \in Half /\ l \in Half /\ v = M * h + l
  BY Halving, Zenon
<1>3. l + 1 \in Half
  BY <1>1, <1>2 DEF Half
<1> DEFINE w == M * h + (l + 1)
<1>4. w \in Count /\ w \div M = h /\ w % M = l + 1
  BY <1>2, <1>3, Joining, Zenon
<1>5. v + 1 = w
  <2>1. M * h \in Int /\ l \in Int
    BY <1>1, <1>2 DEF Half
  <2> HIDE DEF M, h, l
  <2> QED
    BY <1>2, <2>1
<1> HIDE DEF w
<1>6. w < HalfModulus * HalfModulus /\ 1 <= HalfModulus * HalfModulus
  <2>1. HalfModulus * HalfModulus \in Nat /\ HalfModulus * HalfModulus >= 1
    BY SoftwareAssumption
  <2> QED
    BY <1>4, <2>1 DEF Count
<1>7. Advanced(v, 1) = w
  BY <1>5, <1>6, AdvancedValue
<1> QED
  BY <1>4, <1>7, Zenon

\* If the high half is the same before and after, it was the same in between,
\* unless the counter came round.
LEMMA HighBetween ==
  \A x \in Count, n, m \in Nat :
    /\ n <= m /\ m <= HalfModulus * HalfModulus - HalfModulus
    /\ Advanced(x, m) \div HalfModulus = x \div HalfModulus
    => Advanced(x, n) \div HalfModulus = x \div HalfModulus
<1> TAKE x \in Count, n, m \in Nat
<1> DEFINE M == HalfModulus
           S == M * M
           y == Advanced(x, n)
           z == Advanced(x, m)
           h == x \div M
<1>h. HAVE n <= m /\ m <= S - M /\ z \div M = h
<1>1. M \in Nat /\ M > 2 /\ S \in Nat
  BY SoftwareAssumption
<1>2. x \in Nat /\ x < S
  BY <1>1 DEF Count
<1>3. n <= S /\ m <= S
  BY <1>h, <1>1
<1>4. /\ y \in Count /\ (x + n < S => y = x + n) /\ (x + n >= S => y = x + n - S)
      /\ z \in Count /\ (x + m < S => z = x + m) /\ (x + m >= S => z = x + m - S)
  BY <1>3, AdvancedValue, Zenon
<1>5. /\ h \in Half /\ x % M \in Half /\ x = M * h + (x % M)
      /\ y \div M \in Half /\ y % M \in Half /\ y = M * (y \div M) + (y % M)
      /\ z % M \in Half /\ z = M * (z \div M) + (z % M)
  BY <1>4, Halving, Zenon
<1> DEFINE a == M * h
           b == y \div M
           i == x % M
           j == y % M
           k == z % M
<1>6. x = a + i /\ y = M * b + j /\ z = a + k
  BY <1>h, <1>5, Zenon
<1>7. /\ a \in Int /\ h \in Int /\ b \in Int /\ i \in Nat /\ i < M /\ j \in Nat /\ j < M
      /\ k \in Nat /\ k < M
  BY <1>1, <1>5 DEF Half
<1>8. y \in Int /\ z \in Int
  BY <1>4 DEF Count
<1> HIDE DEF a, b, i, j, k, h, y, z
<1>9. x + m < S
  <2> HIDE DEF M, S
  <2> SUFFICES ASSUME x + m >= S PROVE FALSE
    BY <1>1, <1>2
  <2>1. z = x + m - S
    BY <1>4
  <2> QED
    BY <1>h, <1>1, <1>2, <1>6, <1>7, <2>1
<1>10. x <= y /\ y <= z
  <2> HIDE DEF M, S
  <2> QED
    BY <1>h, <1>1, <1>2, <1>4, <1>9
<1>11. y - a \in 0 .. M - 1
  <2> HIDE DEF M, S
  <2> QED
    BY <1>1, <1>6, <1>7, <1>8, <1>10
<1> HIDE DEF M, S
<1>12. y = h * M + (y - a)
  <2>1. h * M = a
    BY <1>1, <1>7 DEF a
  <2> QED
    BY <1>7, <1>8, <2>1
<1>13. y \div M = h
  BY <1>1, <1>7, <1>8, <1>11, <1>12, DivisionUnique
<1> QED
  BY <1>13, Zenon DEF M, h, y

-----------------------------------------------------------------------------
(* An edge of the counters.                                                *)

\* The next value of a counter that nothing writes.
MayCount(v) == {v, Advanced(v, 1)}

\* It is a counter value.
LEMMA MayCountIsCount == \A v \in Count : MayCount(v) \subseteq Count
<1> TAKE v \in Count
<1>1. 1 \in Nat /\ 1 <= HalfModulus * HalfModulus
  BY SoftwareAssumption
<1> QED
  BY <1>1, AdvancedValue DEF MayCount

\* A half fits.
LEMMA HalfBounds ==
  HalfModulus \in Nat /\ HalfModulus > 2 /\ 0 \in Half /\ \A v \in Half : v \in Nat
BY SoftwareAssumption DEF Half

\* An edge that writes no half: every counter counts once more or stands still.
LEMMA CountedMayCount ==
  ASSUME counter \in [Counters -> Count], NEW retire, counter' = Counted(retire)
  PROVE  /\ counter' \in [Counters -> Count]
         /\ \A c \in Counters : counter'[c] \in MayCount(counter[c])
<1>1. \A c \in Counters : \A b : Incremented(c, b) \in MayCount(counter[c])
  BY Zenon DEF Incremented, MayCount, Advanced
<1>2. \A c \in Counters : counter'[c] \in MayCount(counter[c])
  BY <1>1, Zenon DEF Counted
<1>3. counter' = [c \in Counters |-> counter'[c]]
  BY Zenon DEF Counted
<1> QED
  BY <1>2, <1>3, MayCountIsCount

\* Every half has its address.
LEMMA AddressOf ==
  \A c \in Counters, half \in {"low", "high"} :
    Address(c, half) \in DOMAIN Halves /\ Halves[Address(c, half)] = <<c, half>>
<1> TAKE c \in Counters, half \in {"low", "high"}
<1>1. /\ DOMAIN Halves = {"mcycle", "mcycleh", "minstret", "minstreth"}
      /\ Halves["mcycle"] = <<"cycle", "low">> /\ Halves["mcycleh"] = <<"cycle", "high">>
      /\ Halves["minstret"] = <<"instret", "low">> /\ Halves["minstreth"] = <<"instret", "high">>
  BY DEF Halves
<1>2. \E a \in DOMAIN Halves : Halves[a] = <<c, half>>
  BY <1>1 DEF Counters
<1> QED
  BY <1>2, Zenon DEF Address

\* What a write of one half leaves in the counter.
Replaced(i, half, v) == IF half = "low" THEN HalfModulus * (i \div HalfModulus) + v
                        ELSE HalfModulus * v + (i % HalfModulus)

\* A write replaces its half and leaves the other.
LEMMA ReplacedHalves ==
  \A i \in Count, half \in {"low", "high"}, v \in Half :
    /\ Replaced(i, half, v) \in Count
    /\ Replaced(i, half, v) \div HalfModulus = IF half = "low" THEN i \div HalfModulus ELSE v
    /\ Replaced(i, half, v) % HalfModulus = IF half = "low" THEN v ELSE i % HalfModulus
<1> TAKE i \in Count, half \in {"low", "high"}, v \in Half
<1>1. i \div HalfModulus \in Half /\ i % HalfModulus \in Half
  BY Halving, Zenon
<1> QED
  BY <1>1, Joining, Zenon DEF Replaced

\* The half is replaced in the counter as incremented: the half not written
\* still gets the carry.
LEMMA HalfWrite ==
  ASSUME counter \in [Counters -> Count], NEW c \in Counters, NEW half \in {"low", "high"},
         NEW v \in Half, WriteCsr(Address(c, half), v)
  PROVE  /\ counter' \in [Counters -> Count]
         /\ \E i \in MayCount(counter[c]) : counter'[c] = Replaced(i, half, v)
<1> DEFINE i == Incremented(c, c = "cycle" \/ FALSE)
<1>1. /\ Address(c, half) \in DOMAIN Halves
      /\ Halves[Address(c, half)] = <<c, half>>
  BY AddressOf, Zenon
<1>2. <<c, half>>[1] = c /\ <<c, half>>[2] = half
  OBVIOUS
<1>3. counter' = [Counted(FALSE) EXCEPT ![c] =
                    IF half = "low" THEN HalfModulus * (@ \div HalfModulus) + v
                    ELSE HalfModulus * v + (@ % HalfModulus)]
  BY <1>1, <1>2, Zenon DEF WriteCsr, HalfWritten
<1>4. Counted(FALSE) = [d \in Counters |-> Incremented(d, d = "cycle" \/ FALSE)]
  BY Zenon DEF Counted
<1>5. \A d \in Counters : \A b : Incremented(d, b) \in MayCount(counter[d])
  BY Zenon DEF Incremented, MayCount, Advanced
<1>6. \A d \in Counters : counter[d] \in Count /\ MayCount(counter[d]) \subseteq Count
  BY MayCountIsCount
<1>7. Counted(FALSE) \in [Counters -> Count]
  BY <1>4, <1>5, <1>6
<1>8. Counted(FALSE)[c] = i
  BY <1>4, Zenon
<1>9. i \in MayCount(counter[c]) /\ i \in Count
  BY <1>5, <1>6, Zenon
<1> HIDE DEF i
<1>10. Replaced(i, half, v) \in Count
  BY <1>9, ReplacedHalves, Zenon
<1>11. counter' = [Counted(FALSE) EXCEPT ![c] = Replaced(i, half, v)]
  BY <1>3, <1>8, Zenon DEF Replaced
<1>12. counter'[c] = Replaced(i, half, v) /\ counter' \in [Counters -> Count]
  BY <1>7, <1>10, <1>11
<1> QED
  BY <1>9, <1>12

\* A write elsewhere writes no half.
LEMMA TrapStateWrite ==
  ASSUME counter \in [Counters -> Count], NEW address, NEW v, address \notin DOMAIN Halves,
         WriteCsr(address, v)
  PROVE  counter' \in [Counters -> Count]
BY CountedMayCount, Zenon DEF WriteCsr

-----------------------------------------------------------------------------
(* The software that uses them by halves.                                  *)

\* The stages of the two pieces of software, and what each knows.
Cleared ==
  \E c \in Counters, e \in Nat :
    /\ task = [does |-> "cleared", c |-> c, edges |-> e]
    /\ e <= HalfModulus - 3 /\ Low(c) <= e

\* The high half holds what was written, and the low half still cannot carry.
HalfSet ==
  \E c \in Counters, e \in Nat, h \in Half :
    /\ task = [does |-> "half_set", c |-> c, edges |-> e, high |-> h]
    /\ e <= HalfModulus - 2 /\ Low(c) <= e /\ High(c) = h

\* Both halves were written, the low one last.
IsSet ==
  \E c \in Counters, h, l \in Half :
    /\ task = [does |-> "set", c |-> c, high |-> h, low |-> l]
    /\ counter[c] = HalfModulus * h + l

\* x was the value at the read of the high half.
HighRead ==
  \E c \in Counters, e \in Nat, x \in Count, n \in Nat :
    /\ task = [does |-> "read_high", c |-> c, edges |-> e, high |-> x \div HalfModulus]
    /\ e < MCGap /\ n <= e + 1 /\ counter[c] = Advanced(x, n)

\* n increments later the low half was read; now there were m.
LowRead ==
  \E c \in Counters, e \in Nat, x \in Count, n, m \in Nat :
    /\ task = [does |-> "read_low", c |-> c, edges |-> e, high |-> x \div HalfModulus,
               low |-> Advanced(x, n) % HalfModulus, at |-> Advanced(x, n)]
    /\ e <= MCGap /\ n <= m /\ m <= e + 1 /\ counter[c] = Advanced(x, m)

\* The second read of the high half agreed with the first.
IsRead ==
  \E h, l \in Half :
    task = [does |-> "read", high |-> h, low |-> l, at |-> HalfModulus * h + l]

\* Nothing is under way.
Resting == task = Idle \/ task = [does |-> "interrupts"]

\* The inductive invariant: what the software knows of the counter at each stage.
SoftwareInv == /\ counter \in [Counters -> Count]
               /\ Resting \/ Cleared \/ HalfSet \/ IsSet \/ HighRead \/ LowRead \/ IsRead

\* The property follows.
LEMMA SoftwareCoherent == SoftwareInv => CounterAccessCoherent
<1> HAVE SoftwareInv
<1>1. CASE Resting
  BY <1>1 DEF Resting, Idle, CounterAccessCoherent
<1>2. CASE Cleared
  BY <1>2 DEF Cleared, CounterAccessCoherent
<1>3. CASE HalfSet
  BY <1>3 DEF HalfSet, CounterAccessCoherent
<1>4. CASE IsSet
  BY <1>4 DEF IsSet, CounterAccessCoherent
<1>5. CASE HighRead
  BY <1>5 DEF HighRead, CounterAccessCoherent
<1>6. CASE LowRead
  BY <1>6 DEF LowRead, CounterAccessCoherent
<1>7. CASE IsRead
  BY <1>7 DEF IsRead, CounterAccessCoherent
<1> QED
  BY <1>1, <1>2, <1>3, <1>4, <1>5, <1>6, <1>7 DEF SoftwareInv

\* Counting once more leaves the low half one higher and the high half alone,
\* if there is room.
LEMMA RoomToCount ==
  \A v \in Count, i, e \in Nat :
    /\ v % HalfModulus <= e /\ e < HalfModulus - 1 /\ i \in MayCount(v)
    => i % HalfModulus <= e + 1 /\ i \div HalfModulus = v \div HalfModulus
<1> TAKE v \in Count, i, e \in Nat
<1> HAVE v % HalfModulus <= e /\ e < HalfModulus - 1 /\ i \in MayCount(v)
<1>1. v % HalfModulus \in Nat /\ v % HalfModulus < HalfModulus - 1 /\ HalfModulus \in Nat
  BY Halving, HalfBounds
<1> DEFINE l == v % HalfModulus
           k == i % HalfModulus
<1>2. l \in Nat /\ l <= e
  BY <1>1
<1>3. i \div HalfModulus = v \div HalfModulus /\ (k = l \/ k = l + 1)
  BY <1>1, LowCounts, Zenon DEF MayCount
<1> HIDE DEF l, k
<1>4. k <= e + 1
  BY <1>2, <1>3
<1> QED
  BY <1>3, <1>4, Zenon DEF k

\* The software waits for the next access, or starts afresh.
LEMMA ElapseTask ==
  ASSUME Elapse
  PROVE  /\ \E retire : Wait(retire)
         /\ \/ /\ task.does \in {"cleared", "half_set", "read_high", "read_low"}
               /\ task.edges < Patience[task.does]
               /\ task' = [task EXCEPT !.edges = @ + 1]
            \/ /\ task.does \notin {"cleared", "half_set", "read_high", "read_low"}
               /\ task' = Idle
<1>1. DOMAIN Patience = {"cleared", "half_set", "read_high", "read_low"}
  BY DEF Patience
<1>2. CASE task.does \in DOMAIN Patience
  BY <1>1, <1>2, Zenon DEF Elapse
<1>3. CASE task.does \notin DOMAIN Patience
  BY <1>1, <1>3, Zenon DEF Elapse
<1> QED
  BY <1>2, <1>3

\* While the software waits, every counter counts once more or stands still.
LEMMA WaitMayCount ==
  ASSUME SoftwareInv, NEW retire, Wait(retire)
  PROVE  /\ counter' \in [Counters -> Count]
         /\ \A c \in Counters : counter'[c] \in MayCount(counter[c])
BY CountedMayCount, Zenon DEF SoftwareInv, Wait

\* One more increment, or none.
LEMMA MayAdvance ==
  \A x \in Count, n \in Nat : \A i :
    n < HalfModulus * HalfModulus /\ i \in MayCount(Advanced(x, n))
      => i = Advanced(x, n) \/ i = Advanced(x, n + 1)
BY AdvancedOnce, Zenon DEF MayCount

\* A read loop ends before the high half comes round.
LEMMA GapFits ==
  /\ MCGap \in Nat /\ 0 < MCGap /\ HalfModulus * HalfModulus \in Nat
  /\ \A n \in Nat : n <= MCGap + 1 => /\ n <= HalfModulus * HalfModulus - HalfModulus
                                      /\ n < HalfModulus * HalfModulus
<1> DEFINE S == HalfModulus * HalfModulus
<1>1. HalfModulus \in Nat /\ HalfModulus > 2 /\ S \in Nat /\ MCGap \in Nat \ {0}
      /\ MCGap < S - HalfModulus
  BY SoftwareAssumption
<1> HIDE DEF S
<1>2. /\ MCGap \in Nat /\ 0 < MCGap /\ S \in Nat
      /\ \A n \in Nat : n <= MCGap + 1 => n <= S - HalfModulus /\ n < S
  BY <1>1
<1> QED
  BY <1>2, Zenon DEF S

\* Time goes by between two accesses.
LEMMA ElapseKeeps ==
  ASSUME SoftwareInv, Elapse
  PROVE  SoftwareInv'
<1>1. /\ counter' \in [Counters -> Count]
      /\ \A c \in Counters : counter[c] \in Count /\ counter'[c] \in MayCount(counter[c])
  BY ElapseTask, WaitMayCount DEF SoftwareInv
<1>2. \/ /\ task.does \in {"cleared", "half_set", "read_high", "read_low"}
         /\ task.edges < Patience[task.does]
         /\ task' = [task EXCEPT !.edges = @ + 1]
      \/ /\ task.does \notin {"cleared", "half_set", "read_high", "read_low"}
         /\ task' = Idle
  BY ElapseTask
<1>3. HalfModulus \in Nat /\ HalfModulus > 2 /\ MCGap \in Nat
  BY SoftwareAssumption
<1>4. ASSUME Resting \/ IsSet \/ IsRead
      PROVE  task' = Idle
  BY <1>2, <1>4 DEF Resting, IsSet, IsRead, Idle
<1>5. ASSUME Cleared
      PROVE  Cleared'
  <2>1. PICK c \in Counters, e \in Nat :
          /\ task = [does |-> "cleared", c |-> c, edges |-> e]
          /\ e <= HalfModulus - 3 /\ Low(c) <= e
    BY <1>5 DEF Cleared
  <2>2. task' = [does |-> "cleared", c |-> c, edges |-> e + 1] /\ e < HalfModulus - 3
    BY <1>2, <2>1 DEF Patience
  <2>3. counter'[c] \in Nat
    BY <1>1, SoftwareAssumption DEF Count
  <2>4. Low(c)' <= e + 1
    <3>1. e < HalfModulus - 1
      BY <1>3, <2>2
    <3> QED
      BY <1>1, <2>1, <2>3, <3>1, RoomToCount, Zenon DEF Low
  <2>5. e + 1 \in Nat /\ e + 1 <= HalfModulus - 3
    BY <1>3, <2>2
  <2> QED
    BY <2>2, <2>4, <2>5, Zenon DEF Cleared
<1>6. ASSUME HalfSet
      PROVE  HalfSet'
  <2>1. PICK c \in Counters, e \in Nat, h \in Half :
          /\ task = [does |-> "half_set", c |-> c, edges |-> e, high |-> h]
          /\ e <= HalfModulus - 2 /\ Low(c) <= e /\ High(c) = h
    BY <1>6 DEF HalfSet
  <2>2. /\ task' = [does |-> "half_set", c |-> c, edges |-> e + 1, high |-> h]
        /\ e < HalfModulus - 2
    BY <1>2, <2>1 DEF Patience
  <2>3. counter'[c] \in Nat
    BY <1>1, SoftwareAssumption DEF Count
  <2>4. Low(c)' <= e + 1 /\ High(c)' = h
    <3>1. e < HalfModulus - 1
      BY <1>3, <2>2
    <3> QED
      BY <1>1, <2>1, <2>3, <3>1, RoomToCount, Zenon DEF Low, High
  <2>5. e + 1 \in Nat /\ e + 1 <= HalfModulus - 2
    BY <1>3, <2>2
  <2> QED
    BY <2>2, <2>4, <2>5, Zenon DEF HalfSet
<1>7. ASSUME HighRead
      PROVE  HighRead'
  <2>1. PICK c \in Counters, e \in Nat, x \in Count, n \in Nat :
          /\ task = [does |-> "read_high", c |-> c, edges |-> e, high |-> x \div HalfModulus]
          /\ e < MCGap /\ n <= e + 1 /\ counter[c] = Advanced(x, n)
    BY <1>7 DEF HighRead
  <2> DEFINE k == x \div HalfModulus
  <2> HIDE DEF k
  <2>2. /\ task' = [does |-> "read_high", c |-> c, edges |-> e + 1, high |-> k]
        /\ e < MCGap - 1
    <3>1. task = [does |-> "read_high", c |-> c, edges |-> e, high |-> k]
      BY <2>1, Zenon DEF k
    <3> QED
      BY <1>2, <3>1 DEF Patience
  <2>3. e + 1 \in Nat /\ e + 1 < MCGap /\ n <= (e + 1) + 1 /\ n + 1 <= (e + 1) + 1
        /\ n + 1 \in Nat /\ n <= MCGap + 1
    BY <1>3, <2>1, <2>2
  <2>4. counter'[c] = Advanced(x, n) \/ counter'[c] = Advanced(x, n + 1)
    BY <1>1, <2>1, <2>3, GapFits, MayAdvance, Zenon
  <2> QED
    BY <2>2, <2>3, <2>4, Zenon DEF HighRead, k
<1>8. ASSUME LowRead
      PROVE  LowRead'
  <2>1. PICK c \in Counters, e \in Nat, x \in Count, n \in Nat, m \in Nat :
          /\ task = [does |-> "read_low", c |-> c, edges |-> e, high |-> x \div HalfModulus,
                     low |-> Advanced(x, n) % HalfModulus, at |-> Advanced(x, n)]
          /\ e <= MCGap /\ n <= m /\ m <= e + 1 /\ counter[c] = Advanced(x, m)
    BY <1>8, Zenon DEF LowRead
  <2> DEFINE k == x \div HalfModulus
             y == Advanced(x, n)
             j == y % HalfModulus
  <2> HIDE DEF k, j, y
  <2>2. /\ task' = [does |-> "read_low", c |-> c, edges |-> e + 1, high |-> k, low |-> j,
                    at |-> y]
        /\ e < MCGap
    <3>1. task = [does |-> "read_low", c |-> c, edges |-> e, high |-> k, low |-> j, at |-> y]
      BY <2>1, Zenon DEF k, j, y
    <3> QED
      BY <1>2, <3>1 DEF Patience
  <2>3. e + 1 \in Nat /\ e + 1 <= MCGap /\ m <= (e + 1) + 1 /\ m + 1 <= (e + 1) + 1
        /\ m + 1 \in Nat /\ m <= MCGap + 1 /\ n <= m + 1
    BY <1>3, <2>1, <2>2
  <2>4. counter'[c] = Advanced(x, m) \/ counter'[c] = Advanced(x, m + 1)
    BY <1>1, <2>1, <2>3, GapFits, MayAdvance, Zenon
  <2> QED
    BY <2>1, <2>2, <2>3, <2>4, Zenon DEF LowRead, k, j, y
<1>9. task' = Idle => Resting'
  BY Zenon DEF Resting, Idle
<1> QED
  BY <1>1, <1>4, <1>5, <1>6, <1>7, <1>8, <1>9, Zenon DEF SoftwareInv

\* What the stage of the software tells from its name.
LEMMA StageOf ==
  ASSUME SoftwareInv
  PROVE  /\ task.does = "cleared" => Cleared
         /\ task.does = "half_set" => HalfSet
         /\ task.does = "read_high" => HighRead
         /\ task.does = "read_low" => LowRead
<1>1. Resting => task.does \in {"idle", "interrupts"}
  BY DEF Resting, Idle
<1>2. (Cleared => task.does = "cleared") /\ (HalfSet => task.does = "half_set")
  BY DEF Cleared, HalfSet
<1>3. (IsSet => task.does = "set") /\ (IsRead => task.does = "read")
  BY DEF IsSet, IsRead
<1>4. (HighRead => task.does = "read_high") /\ (LowRead => task.does = "read_low")
  BY DEF HighRead, LowRead
<1> QED
  BY <1>1, <1>2, <1>3, <1>4 DEF SoftwareInv

\* The accesses that set a counter.
LEMMA SetKeeps ==
  ASSUME SoftwareInv, Set
  PROVE  SoftwareInv'
<1> PICK c \in Counters, v \in Half :
      \/ /\ task = Idle /\ v = 0
         /\ WriteCsr(Address(c, "low"), v)
         /\ task' = [does |-> "cleared", c |-> c, edges |-> 0]
      \/ /\ task.does = "cleared" /\ task.c = c
         /\ WriteCsr(Address(c, "high"), v)
         /\ task' = [does |-> "half_set", c |-> c, edges |-> task.edges + 1, high |-> v]
      \/ /\ task.does = "half_set" /\ task.c = c
         /\ WriteCsr(Address(c, "low"), v)
         /\ task' = [does |-> "set", c |-> c, high |-> task.high, low |-> v]
  BY DEF Set
<1>1. counter \in [Counters -> Count] /\ counter[c] \in Count
      /\ MayCount(counter[c]) \subseteq Count /\ \A i \in Count : i \in Nat
  BY MayCountIsCount, SoftwareAssumption DEF SoftwareInv, Count
<1>2. HalfModulus \in Nat /\ HalfModulus > 2
  BY SoftwareAssumption
<1>3. ASSUME task = Idle, v = 0, WriteCsr(Address(c, "low"), v),
             task' = [does |-> "cleared", c |-> c, edges |-> 0]
      PROVE  Cleared' /\ counter' \in [Counters -> Count]
  <2>1. PICK i \in MayCount(counter[c]) : counter'[c] = Replaced(i, "low", v)
    BY <1>1, <1>3, HalfWrite
  <2>2. counter' \in [Counters -> Count]
    BY <1>1, <1>3, HalfWrite
  <2>3. Low(c)' = v
    BY <1>1, <2>1, ReplacedHalves DEF Low
  <2>4. 0 \in Nat /\ 0 <= HalfModulus - 3 /\ Low(c)' <= 0
    BY <1>2, <1>3, <2>3
  <2> QED
    BY <1>3, <2>2, <2>4, Zenon DEF Cleared
<1>4. ASSUME task.does = "cleared", task.c = c, WriteCsr(Address(c, "high"), v),
             task' = [does |-> "half_set", c |-> c, edges |-> task.edges + 1, high |-> v]
      PROVE  HalfSet' /\ counter' \in [Counters -> Count]
  <2>1. PICK d \in Counters, e \in Nat :
          /\ task = [does |-> "cleared", c |-> d, edges |-> e]
          /\ e <= HalfModulus - 3 /\ Low(d) <= e
    BY <1>4, StageOf DEF Cleared
  <2>2. /\ task' = [does |-> "half_set", c |-> c, edges |-> e + 1, high |-> v]
        /\ Low(c) <= e
    BY <1>4, <2>1
  <2>3. PICK i \in MayCount(counter[c]) : counter'[c] = Replaced(i, "high", v)
    BY <1>1, <1>4, HalfWrite
  <2>4. counter' \in [Counters -> Count]
    BY <1>1, <1>4, HalfWrite
  <2>5. i % HalfModulus <= e + 1
    <3>1. e < HalfModulus - 1 /\ i \in Nat
      BY <1>1, <1>2, <2>1
    <3> QED
      BY <1>1, <2>2, <3>1, RoomToCount, Zenon DEF Low
  <2>6. Low(c)' <= e + 1 /\ High(c)' = v
    <3>1. i \in Count /\ "high" \in {"low", "high"} /\ "high" # "low"
      BY <1>1
    <3>2. Replaced(i, "high", v) % HalfModulus = i % HalfModulus
          /\ Replaced(i, "high", v) \div HalfModulus = v
      BY <3>1, ReplacedHalves, Zenon
    <3> QED
      BY <2>3, <2>5, <3>2, Zenon DEF Low, High
  <2>7. e + 1 \in Nat /\ e + 1 <= HalfModulus - 2
    BY <1>2, <2>1
  <2> QED
    BY <2>2, <2>4, <2>6, <2>7, Zenon DEF HalfSet
<1>5. ASSUME task.does = "half_set", task.c = c, WriteCsr(Address(c, "low"), v),
             task' = [does |-> "set", c |-> c, high |-> task.high, low |-> v]
      PROVE  IsSet' /\ counter' \in [Counters -> Count]
  <2>1. PICK d \in Counters, e \in Nat, h \in Half :
          /\ task = [does |-> "half_set", c |-> d, edges |-> e, high |-> h]
          /\ e <= HalfModulus - 2 /\ Low(d) <= e /\ High(d) = h
    BY <1>5, StageOf DEF HalfSet
  <2>2. /\ task' = [does |-> "set", c |-> c, high |-> h, low |-> v]
        /\ Low(c) <= e /\ High(c) = h
    BY <1>5, <2>1
  <2>3. PICK i \in MayCount(counter[c]) : counter'[c] = Replaced(i, "low", v)
    BY <1>1, <1>5, HalfWrite
  <2>4. counter' \in [Counters -> Count]
    BY <1>1, <1>5, HalfWrite
  <2>5. i \div HalfModulus = h
    <3>1. e < HalfModulus - 1 /\ i \in Nat
      BY <1>1, <1>2, <2>1
    <3> QED
      BY <1>1, <2>2, <3>1, RoomToCount, Zenon DEF Low, High
  <2>6. counter'[c] = HalfModulus * h + v
    BY <2>3, <2>5, Zenon DEF Replaced
  <2> QED
    BY <2>2, <2>4, <2>6, Zenon DEF IsSet
<1> QED
  BY <1>3, <1>4, <1>5, Zenon DEF SoftwareInv

\* What the software reads of a counter.
LEMMA ReadHalfIs ==
  \A c \in Counters : /\ ReadHalf(Address(c, "high")) = High(c)
                      /\ ReadHalf(Address(c, "low")) = Low(c)
<1> TAKE c \in Counters
<1>1. Halves[Address(c, "high")] = <<c, "high">> /\ Halves[Address(c, "low")] = <<c, "low">>
  BY AddressOf, Zenon
<1>2. /\ <<c, "high">>[1] = c /\ <<c, "high">>[2] = "high"
      /\ <<c, "low">>[1] = c /\ <<c, "low">>[2] = "low"
  OBVIOUS
<1> QED
  BY <1>1, <1>2 DEF ReadHalf

\* The accesses that read one.
LEMMA ReadKeeps ==
  ASSUME SoftwareInv, Read
  PROVE  SoftwareInv'
<1> PICK c \in Counters, retire \in BOOLEAN :
      /\ Wait(retire)
      /\ \/ task = Idle
            /\ task' = [does |-> "read_high", c |-> c, edges |-> 0,
                        high |-> ReadHalf(Address(c, "high"))]
         \/ task.does = "read_high" /\ task.c = c
            /\ task' = [does |-> "read_low", c |-> c, edges |-> task.edges + 1,
                        high |-> task.high, low |-> ReadHalf(Address(c, "low")),
                        at |-> counter[c]]
         \/ task.does = "read_low" /\ task.c = c
            /\ task' = IF ReadHalf(Address(c, "high")) # task.high THEN Idle
                       ELSE [does |-> "read", high |-> task.high, low |-> task.low,
                             at |-> task.at]
  BY DEF Read
<1>1. /\ counter' \in [Counters -> Count]
      /\ counter[c] \in Count /\ counter'[c] \in MayCount(counter[c])
  BY WaitMayCount DEF SoftwareInv
<1>2. /\ ReadHalf(Address(c, "high")) = counter[c] \div HalfModulus
      /\ ReadHalf(Address(c, "low")) = counter[c] % HalfModulus
  BY ReadHalfIs, Zenon DEF High, Low
<1>3. ASSUME task = Idle,
             task' = [does |-> "read_high", c |-> c, edges |-> 0,
                      high |-> ReadHalf(Address(c, "high"))]
      PROVE  HighRead'
  <2>1. 0 \in Nat /\ 1 \in Nat /\ 0 < MCGap /\ 0 <= 0 + 1 /\ 1 <= 0 + 1
    BY GapFits
  <2>2. counter'[c] = Advanced(counter[c], 0) \/ counter'[c] = Advanced(counter[c], 1)
    <3>1. counter[c] = Advanced(counter[c], 0)
      <4>1. counter[c] \in Nat /\ counter[c] < HalfModulus * HalfModulus
            /\ counter[c] + 0 = counter[c] /\ 0 <= HalfModulus * HalfModulus
        BY <1>1, SoftwareAssumption DEF Count
      <4> QED
        BY <1>1, <2>1, <4>1, AdvancedValue, Zenon
    <3> QED
      BY <1>1, <3>1, Zenon DEF MayCount
  <2> QED
    BY <1>1, <1>2, <1>3, <2>1, <2>2, Zenon DEF HighRead
<1>4. ASSUME task.does = "read_high", task.c = c,
             task' = [does |-> "read_low", c |-> c, edges |-> task.edges + 1,
                      high |-> task.high, low |-> ReadHalf(Address(c, "low")),
                      at |-> counter[c]]
      PROVE  LowRead'
  <2>1. PICK d \in Counters, e \in Nat, x \in Count, n \in Nat :
          /\ task = [does |-> "read_high", c |-> d, edges |-> e, high |-> x \div HalfModulus]
          /\ e < MCGap /\ n <= e + 1 /\ counter[d] = Advanced(x, n)
    BY <1>4, StageOf DEF HighRead
  <2> DEFINE k == x \div HalfModulus
             y == Advanced(x, n)
  <2> HIDE DEF k, y
  <2>2. task.c = d /\ task.edges = e /\ task.high = k
    <3>1. task = [does |-> "read_high", c |-> d, edges |-> e, high |-> k]
      BY <2>1, Zenon DEF k
    <3> QED
      BY <3>1
  <2>3. c = d /\ counter[c] = y
    BY <1>4, <2>1, <2>2, Zenon DEF y
  <2>4. task' = [does |-> "read_low", c |-> c, edges |-> e + 1, high |-> k,
                 low |-> y % HalfModulus, at |-> y]
    BY <1>2, <1>4, <2>2, <2>3, Zenon
  <2>5. e + 1 \in Nat /\ e + 1 <= MCGap /\ n <= n /\ n <= n + 1 /\ n <= (e + 1) + 1
        /\ n + 1 \in Nat /\ n + 1 <= (e + 1) + 1 /\ n <= MCGap + 1
    BY <2>1, GapFits
  <2>6. counter'[c] = Advanced(x, n) \/ counter'[c] = Advanced(x, n + 1)
    BY <1>1, <2>3, <2>5, GapFits, MayAdvance, Zenon DEF y
  <2> QED
    BY <2>4, <2>5, <2>6, Zenon DEF LowRead, k, y
<1>5. ASSUME task.does = "read_low", task.c = c,
             task' = IF ReadHalf(Address(c, "high")) # task.high THEN Idle
                     ELSE [does |-> "read", high |-> task.high, low |-> task.low,
                           at |-> task.at]
      PROVE  Resting' \/ IsRead'
  <2>1. CASE ReadHalf(Address(c, "high")) # task.high
    BY <1>5, <2>1, Zenon DEF Resting, Idle
  <2>2. ASSUME ReadHalf(Address(c, "high")) = task.high
        PROVE  IsRead'
    <3>1. PICK d \in Counters, e \in Nat, x \in Count, n \in Nat, m \in Nat :
            /\ task = [does |-> "read_low", c |-> d, edges |-> e, high |-> x \div HalfModulus,
                       low |-> Advanced(x, n) % HalfModulus, at |-> Advanced(x, n)]
            /\ e <= MCGap /\ n <= m /\ m <= e + 1 /\ counter[d] = Advanced(x, m)
      BY <1>5, StageOf, Zenon DEF LowRead
    <3> DEFINE k == x \div HalfModulus
               y == Advanced(x, n)
               j == y % HalfModulus
    <3> HIDE DEF k, j, y
    <3>2. task.c = d /\ task.high = k /\ task.low = j /\ task.at = y
      <4>1. task = [does |-> "read_low", c |-> d, edges |-> e, high |-> k, low |-> j, at |-> y]
        BY <3>1, Zenon DEF k, j, y
      <4> QED
        BY <4>1
    <3>3. Advanced(x, m) \div HalfModulus = k
      BY <1>2, <1>5, <2>2, <3>1, <3>2, Zenon
    <3>4. m <= MCGap + 1 /\ n <= MCGap + 1
      BY <3>1, GapFits
    <3>5. y \div HalfModulus = k
      BY <3>1, <3>3, <3>4, GapFits, HighBetween, Zenon DEF k, y
    <3>6. y \in Count
      <4>1. n <= HalfModulus * HalfModulus
        BY <3>4, GapFits
      <4> QED
        BY <4>1, AdvancedValue, Zenon DEF y
    <3>7. k \in Half /\ j \in Half /\ y = HalfModulus * k + j
      BY <3>5, <3>6, Halving, Zenon DEF j
    <3>8. task' = [does |-> "read", high |-> k, low |-> j, at |-> HalfModulus * k + j]
      BY <1>5, <2>2, <3>2, <3>7, Zenon
    <3> QED
      BY <3>7, <3>8, Zenon DEF IsRead
  <2> QED
    BY <2>1, <2>2
<1> QED
  BY <1>1, <1>3, <1>4, <1>5, Zenon DEF SoftwareInv

\* The addresses that are no counter.
LEMMA NoHalf ==
  \A a \in {"mstatus", "mie", "mtvec", "mepc", "mcause", "mcountinhibit"} :
    a \notin DOMAIN Halves
BY DEF Halves

\* Stopping the counters.
LEMMA InhibitKeeps ==
  ASSUME SoftwareInv, Inhibit
  PROVE  SoftwareInv'
<1>1. PICK v : WriteCsr("mcountinhibit", v)
  BY DEF Inhibit
<1>2. counter' \in [Counters -> Count]
  BY <1>1, NoHalf, TrapStateWrite DEF SoftwareInv
<1>3. Resting'
  BY Zenon DEF Inhibit, Resting, Idle
<1> QED
  BY <1>2, <1>3, Zenon DEF SoftwareInv

\* Interrupts come with the counters at rest.
LEMMA InterruptsKeep ==
  ASSUME SoftwareInv, InterruptSoftware
  PROVE  SoftwareInv'
<1>1. counter \in [Counters -> Count]
  BY DEF SoftwareInv
<1>2. counter' \in [Counters -> Count]
  <2>1. CASE counter' = Counted(FALSE)
    BY <1>1, <2>1, CountedMayCount
  <2>2. CASE \E address \in {"mstatus", "mie", "mtvec", "mepc", "mcause"} :
               \E v \in Written(address) : WriteCsr(address, v)
    <3>1. PICK address \in {"mstatus", "mie", "mtvec", "mepc", "mcause"} :
            \E v \in Written(address) : WriteCsr(address, v)
      BY <2>2, Zenon
    <3>2. PICK v \in Written(address) : WriteCsr(address, v)
      BY <3>1, Zenon
    <3>3. address \notin DOMAIN Halves
      BY NoHalf
    <3> QED
      BY <1>1, <3>2, <3>3, TrapStateWrite
  <2> QED
    BY <2>1, <2>2, Zenon DEF InterruptSoftware, TakeException, TakeInterrupt, Mret, Wait
<1>3. task' = task /\ task.does = "interrupts"
  BY DEF InterruptSoftware
<1>4. Resting
  <2>1. (IsSet => task.does = "set") /\ (IsRead => task.does = "read")
        /\ (Cleared => task.does = "cleared") /\ (HalfSet => task.does = "half_set")
    BY DEF IsSet, IsRead, Cleared, HalfSet
  <2>2. (HighRead => task.does = "read_high") /\ (LowRead => task.does = "read_low")
    BY DEF HighRead, LowRead
  <2> QED
    BY <1>3, <2>1, <2>2 DEF SoftwareInv
<1>5. Resting'
  BY <1>3, <1>4, Zenon DEF Resting, Idle
<1> QED
  BY <1>2, <1>5, Zenon DEF SoftwareInv

\* At reset nothing is under way.
LEMMA SoftwareInit == MCInit => SoftwareInv
<1> HAVE MCInit
<1>1. counter \in [Counters -> Count]
  <2>1. 0 \in Count
    <3>1. HalfModulus * HalfModulus \in Nat /\ HalfModulus * HalfModulus > 0
      BY SoftwareAssumption
    <3> QED
      BY <3>1 DEF Count
  <2> QED
    BY <2>1 DEF MCInit, Init
<1> QED
  BY <1>1, Zenon DEF MCInit, SoftwareInv, Resting

\* Every step of the software preserves what it knows.
LEMMA SoftwareStep == SoftwareInv /\ [MCNext]_<<vars, task>> => SoftwareInv'
<1> SUFFICES ASSUME SoftwareInv, [MCNext]_<<vars, task>> PROVE SoftwareInv'
  OBVIOUS
<1>1. CASE UNCHANGED <<vars, task>>
  <2>1. counter' = counter /\ task' = task
    BY <1>1 DEF vars
  <2>2. Idle' = Idle
    BY Zenon DEF Idle
  <2>3. (Resting' <=> Resting) /\ (Cleared' <=> Cleared) /\ (HalfSet' <=> HalfSet)
    BY <2>1, <2>2, Zenon DEF Resting, Cleared, HalfSet, Idle, Low, High
  <2>4. (IsSet' <=> IsSet) /\ (HighRead' <=> HighRead)
    BY <2>1, Zenon DEF IsSet, HighRead, Low, High
  <2>5. LowRead' <=> LowRead
    BY <2>1, ZenonT(40) DEF LowRead
  <2>6. IsRead' <=> IsRead
    BY <2>1, Zenon DEF IsRead
  <2> QED
    BY <2>1, <2>3, <2>4, <2>5, <2>6, Zenon DEF SoftwareInv
<1>2. CASE InterruptSoftware
  BY <1>2, InterruptsKeep
<1>3. CASE CounterSoftware
  BY <1>3, SetKeeps, ReadKeeps, ElapseKeeps, InhibitKeeps, Zenon DEF CounterSoftware
<1> QED
  BY <1>1, <1>2, <1>3, Zenon DEF MCNext

\* For every width of the halves and every read loop shorter than a turn of the
\* high half: low := 0, high := hi, low := lo sets the running counter to hi:lo,
\* and high, low, high with the same high twice reads the value it had at the low
\* read.
THEOREM CounterAccessCoherentHolds == MCSpec => []CounterAccessCoherent
<1>1. MCSpec => []SoftwareInv
  BY SoftwareInit, SoftwareStep, PTL DEF MCSpec
<1> QED
  BY <1>1, SoftwareCoherent, PTL

\* A half of a counter is written with a half.
LEMMA HalfAddresses ==
  \A c \in Counters, half \in {"low", "high"} :
    Address(c, half) \in Addresses /\ Written(Address(c, half)) = Half
<1> TAKE c \in Counters, half \in {"low", "high"}
<1>1. Address(c, half) \in {"mcycle", "mcycleh", "minstret", "minstreth"}
  <2>1. DOMAIN Halves = {"mcycle", "mcycleh", "minstret", "minstreth"}
    BY DEF Halves
  <2> QED
    BY <2>1, AddressOf
<1>2. \A a \in {"mcycle", "mcycleh", "minstret", "minstreth"} : Written(a) = Half
  BY DEF Written
<1> QED
  BY <1>1, <1>2 DEF Addresses

\* Whatever the software does is an edge of the CSR file.
LEMMA SoftwareIsLegal == MCNext => Next
<1> SUFFICES ASSUME MCNext PROVE Next
  OBVIOUS
<1>1. ASSUME CounterSoftware
      PROVE  \/ \E address \in Addresses : \E v \in Written(address) : WriteCsr(address, v)
             \/ \E retire \in BOOLEAN : Wait(retire)
  <2>1. CASE Set
    <3>1. \E c \in Counters, half \in {"low", "high"}, v \in Half : WriteCsr(Address(c, half), v)
      BY <2>1 DEF Set
    <3> QED
      BY <3>1, HalfAddresses
  <2>2. CASE Read
    BY <2>2, Zenon DEF Read
  <2>3. CASE Elapse
    BY <2>3, Zenon DEF Elapse
  <2>4. CASE Inhibit
    <3>1. "mcountinhibit" \in Addresses
      BY DEF Addresses
    <3> QED
      BY <2>4, <3>1, Zenon DEF Inhibit
  <2> QED
    BY <1>1, <2>1, <2>2, <2>3, <2>4, Zenon DEF CounterSoftware
<1>2. CASE CounterSoftware
  <2>1. lines' \in SUBSET Sources
    BY <1>2 DEF CounterSoftware
  <2> QED
    BY <1>1, <1>2, <2>1, Zenon DEF Next
<1>3. CASE InterruptSoftware
  <2>1. FALSE \in BOOLEAN /\ {"mstatus", "mie", "mtvec", "mepc", "mcause"} \subseteq Addresses
    BY DEF Addresses
  <2> QED
    BY <1>3, <2>1, Zenon DEF InterruptSoftware, Next
<1> QED
  BY <1>2, <1>3, Zenon DEF MCNext

\* The two pieces of software run on the CSR file as it is specified, so what is
\* proved of that holds for them.
THEOREM SoftwareUsesCsrFile == MCSpec => Spec
<1>1. MCInit => Init
  BY DEF MCInit
<1>2. [MCNext]_<<vars, task>> => [Next]_vars
  BY SoftwareIsLegal
<1> QED
  BY <1>1, <1>2, PTL DEF MCSpec, Spec
=============================================================================
