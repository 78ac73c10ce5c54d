--------------------------- MODULE ReferenceProofs ---------------------------
(***************************************************************************)
(* The models the tests compare the core with: random programs do what     *)
(* their generator recorded, for every word size; every parcel expands as  *)
(* the oracle says, to a word the core executes; and every legal word is   *)
(* assembled again from its name.                                          *)
(***************************************************************************)
EXTENDS MCReference, WellFoundedInduction, FiniteSetTheorems, SequenceTheorems, TLAPS

\* Induction over a set of numbers: the least number outside the set would
\* follow a number inside it.
LEMMA SetInduction ==
  ASSUME NEW K \in SUBSET Nat, 0 \in K, \A n \in K : n + 1 \in K
  PROVE  K = Nat
<1> DEFINE T == Nat \ K
           Below == {p \in Nat \X Nat : p[1] < p[2]}
<1>1. OpToRel(<, Nat) = Below BY DEF OpToRel
<1>2. IsWellFoundedOn(Below, Nat) BY <1>1, NatLessThanWellFounded
<1>3. SUFFICES ASSUME T # {} PROVE FALSE OBVIOUS
<1>4. \E n \in T : \A k \in T : <<k, n>> \notin Below
  <2>. HIDE DEF Below, T
  <2>. QED BY <1>2, <1>3, WFMin DEF T
<1>5. PICK n \in T : \A k \in T : ~(k < n) BY <1>4
<1>6. n # 0 /\ n - 1 \in Nat /\ n - 1 \notin T BY <1>5
<1>. QED BY <1>6

\* A recursive function exists: sums of the terms t, element by element.
LEMMA SumsExist ==
  ASSUME NEW t, NEW n \in Nat
  PROVE  \E g : g = [i \in 0 .. n |-> IF i = 0 THEN 0 ELSE g[i - 1] + t[i - 1]]
<1> DEFINE Rule(g, k) == [i \in 0 .. k |-> IF i = 0 THEN 0 ELSE g[i - 1] + t[i - 1]]
           K == {k \in Nat : \E g : g = Rule(g, k)}
<1>1. 0 \in K
  <2> DEFINE g == [i \in 0 .. 0 |-> 0]
  <2>1. g = Rule(g, 0) OBVIOUS
  <2>. QED BY <2>1
<1>2. ASSUME NEW k \in K PROVE k + 1 \in K
  <2>1. PICK g : g = Rule(g, k) OBVIOUS
  <2> DEFINE h == [i \in 0 .. k + 1 |-> IF i = k + 1 THEN g[k] + t[k] ELSE g[i]]
  <2>2. \A i \in 0 .. k : g[i] = IF i = 0 THEN 0 ELSE g[i - 1] + t[i - 1]
    <3> HIDE DEF h, K
    <3>1. ASSUME NEW i \in 0 .. k PROVE g[i] = Rule(g, k)[i] BY <2>1
    <3>. QED BY <3>1
  <2>3. ASSUME NEW i \in 0 .. k + 1 PROVE h[i] = IF i = 0 THEN 0 ELSE h[i - 1] + t[i - 1]
    <3>1. CASE i = k + 1
      <4>1. h[i] = g[k] + t[k] /\ h[k] = g[k] BY <3>1
      <4>. QED BY <3>1, <4>1
    <3>2. CASE i \in 0 .. k
      <4>1. h[i] = g[i] /\ (i # 0 => h[i - 1] = g[i - 1]) BY <3>2
      <4>. QED BY <2>2, <3>2, <4>1
    <3>. QED BY <3>1, <3>2
  <2>4. h = Rule(h, k + 1) BY <2>3
  <2>5. \E f : f = Rule(f, k + 1)
    <3>. HIDE DEF h, Rule
    <3>. QED BY <2>4
  <2>. QED BY <2>5
<1>3. K = Nat
  <2>. HIDE DEF K
  <2>. QED BY <1>1, <1>2, SetInduction DEF K
<1>. QED BY <1>3

\* The number of N bits is a word.
LEMMA NumberIsWord == \A bits \in [0 .. N - 1 -> {0, 1}] : Number(bits) \in Operand
<1> SUFFICES ASSUME NEW bits \in [0 .. N - 1 -> {0, 1}] PROVE Number(bits) \in Operand
    OBVIOUS
<1>n. N \in Nat BY WidthAssumption
<1> DEFINE t == [i \in 0 .. N - 1 |-> 2^i * bits[i]]
           Rule(g) == [n \in 0 .. N |-> IF n = 0 THEN 0 ELSE g[n - 1] + 2^(n - 1) * bits[n - 1]]
           sum == CHOOSE g : g = Rule(g)
<1>1. ASSUME NEW g PROVE Rule(g) = [n \in 0 .. N |-> IF n = 0 THEN 0 ELSE g[n - 1] + t[n - 1]]
  <2>1. \A n \in 0 .. N : n # 0 => n - 1 \in 0 .. N - 1 BY <1>n
  <2>2. \A n \in 0 .. N : n # 0 => t[n - 1] = 2^(n - 1) * bits[n - 1] BY <2>1
  <2>. HIDE DEF t
  <2>. QED BY <2>2
<1>2. \E g : g = Rule(g)
  <2>. HIDE DEF t, Rule
  <2>1. \E g : g = [n \in 0 .. N |-> IF n = 0 THEN 0 ELSE g[n - 1] + t[n - 1]]
    BY <1>n, SumsExist
  <2>. QED BY <1>1, <2>1
<1>3. sum = Rule(sum) BY <1>2
<1>4. Number(bits) = sum[N] BY DEF Number
<1> DEFINE J == {n \in Nat : n <= N => sum[n] \in Nat /\ sum[n] < 2^n}
<1>5. J = Nat
  <2>1. 0 \in J
    <3>. HIDE DEF sum
    <3>1. sum[0] = 0 BY <1>3, <1>n
    <3>. QED BY <3>1, PowerAssumption, <1>n
  <2>2. ASSUME NEW n \in J PROVE n + 1 \in J
    <3>. HIDE DEF sum
    <3>1. SUFFICES ASSUME n + 1 <= N PROVE sum[n + 1] \in Nat /\ sum[n + 1] < 2^(n + 1) OBVIOUS
    <3>2. sum[n + 1] = sum[n] + 2^n * bits[n] BY <1>3, <1>n, <3>1
    <3>3. bits[n] \in {0, 1} BY <3>1, <1>n
    <3>4. 2^n \in Nat /\ 2^(n + 1) = 2 * 2^n
      <4>1. n \in 0 .. N /\ 1 \in 0 .. N BY <3>1, <1>n
      <4>2. 2^n \in Nat /\ 2^(n + 1) = 2^n * 2^1 BY <4>1, PowerAssumption, Zenon
      <4>. QED BY <4>2
    <3>5. sum[n] \in Nat /\ sum[n] < 2^n BY <3>1, <1>n
    <3>. QED BY <3>2, <3>3, <3>4, <3>5
  <2>. HIDE DEF J
  <2>. QED BY <2>1, <2>2, SetInduction DEF J
<1>6. sum[N] \in Nat /\ sum[N] < 2^N
  <2>. HIDE DEF sum
  <2>. QED BY <1>n, <1>5
<1>7. 2^N \in Nat BY PowerAssumption, <1>n
<1>8. sum[N] \in Operand
  <2>. HIDE DEF sum
  <2>. QED BY <1>6, <1>7 DEF Operand, Modulus
<1>. QED BY <1>4, <1>8

\* A slice of one bit is a bit.
LEMMA BitIsBit == \A v \in Operand : \A i \in 0 .. N - 1 : Bits(v, i, i) \in {0, 1}
<1> SUFFICES ASSUME NEW v \in Operand, NEW i \in 0 .. N - 1 PROVE Bits(v, i, i) \in {0, 1}
    OBVIOUS
<1>1. 2^i \in Nat \ {0} /\ v \in Int /\ Modulus \in Nat
  BY PowerAssumption, WidthAssumption DEF Operand, Modulus
<1>2. \A p \in Nat \ {0} : v \div p \in Int BY <1>1
<1>3. v \div 2^i \in Int BY <1>1, <1>2
<1>4. \A q \in Int : q % 2^(i - i + 1) \in {0, 1} BY <1>1
<1>. QED BY <1>3, <1>4 DEF Bits

\* The bitwise operations of the ALU return words.
LEMMA BitwiseIsWord ==
  \A a, b \in Operand :
    BitAnd(a, b) \in Operand /\ BitOr(a, b) \in Operand /\ BitXor(a, b) \in Operand
<1> SUFFICES ASSUME NEW a \in Operand, NEW b \in Operand
             PROVE  BitAnd(a, b) \in Operand /\ BitOr(a, b) \in Operand
                      /\ BitXor(a, b) \in Operand
    OBVIOUS
<1>1. ASSUME NEW i \in 0 .. N - 1 PROVE Bits(a, i, i) \in {0, 1} /\ Bits(b, i, i) \in {0, 1}
  BY BitIsBit
<1>2. [i \in 0 .. N - 1 |-> Bits(a, i, i) * Bits(b, i, i)] \in [0 .. N - 1 -> {0, 1}]
  <2>1. \A x, y \in {0, 1} : x * y \in {0, 1} OBVIOUS
  <2>. QED BY <1>1, <2>1
<1>3. [i \in 0 .. N - 1 |-> IF Bits(a, i, i) = 1 THEN 1 ELSE Bits(b, i, i)]
        \in [0 .. N - 1 -> {0, 1}]
  BY <1>1
<1>4. [i \in 0 .. N - 1 |-> (Bits(a, i, i) + Bits(b, i, i)) % 2] \in [0 .. N - 1 -> {0, 1}]
  <2>1. \A x, y \in {0, 1} : (x + y) % 2 \in {0, 1} OBVIOUS
  <2>. QED BY <1>1, <2>1
<1>. QED BY <1>2, <1>3, <1>4, NumberIsWord DEF BitAnd, BitOr, BitXor

\* g[i] is the core after the first i words, for i up to n.
IsRun(g, ws, n) ==
  g = [i \in 0 .. n |-> IF i = 0 THEN Reset ELSE Execute(g[i - 1], ws[i])]

\* The words can be executed one after the other.
LEMMA ExecutionExists ==
  ASSUME NEW ws, NEW n \in Nat
  PROVE  \E g : IsRun(g, ws, n)
<1> DEFINE Rule(g, k) == [i \in 0 .. k |-> IF i = 0 THEN Reset ELSE Execute(g[i - 1], ws[i])]
           K == {k \in Nat : \E g : g = Rule(g, k)}
<1>1. 0 \in K
  <2> DEFINE g == [i \in 0 .. 0 |-> Reset]
  <2>1. g = Rule(g, 0) OBVIOUS
  <2>. QED BY <2>1
<1>2. ASSUME NEW k \in K PROVE k + 1 \in K
  <2>1. PICK g : g = Rule(g, k) OBVIOUS
  <2> DEFINE h == [i \in 0 .. k + 1 |-> IF i = k + 1 THEN Execute(g[k], ws[k + 1]) ELSE g[i]]
  <2>2. \A i \in 0 .. k : g[i] = IF i = 0 THEN Reset ELSE Execute(g[i - 1], ws[i])
    <3> HIDE DEF h, K
    <3>1. ASSUME NEW i \in 0 .. k PROVE g[i] = Rule(g, k)[i] BY <2>1
    <3>. QED BY <3>1
  <2>3. ASSUME NEW i \in 0 .. k + 1
        PROVE  h[i] = IF i = 0 THEN Reset ELSE Execute(h[i - 1], ws[i])
    <3>1. CASE i = k + 1
      <4>1. h[i] = Execute(g[k], ws[i]) /\ h[k] = g[k] BY <3>1
      <4>. QED BY <3>1, <4>1
    <3>2. CASE i \in 0 .. k
      <4>1. h[i] = g[i] /\ (i # 0 => h[i - 1] = g[i - 1]) BY <3>2
      <4>. QED BY <2>2, <3>2, <4>1
    <3>. QED BY <3>1, <3>2
  <2>4. h = Rule(h, k + 1) BY <2>3
  <2>5. \E f : f = Rule(f, k + 1)
    <3>. HIDE DEF h, Rule
    <3>. QED BY <2>4
  <2>. QED BY <2>5
<1>3. K = Nat
  <2>. HIDE DEF K
  <2>. QED BY <1>1, <1>2, SetInduction DEF K
<1>. QED BY <1>3 DEF IsRun

\* What the first n words do depends on nothing else.
LEMMA ExecutionUnique ==
  ASSUME NEW ws, NEW vs, NEW m \in Nat, NEW n \in 0 .. m, NEW g, NEW h,
         \A i \in 1 .. n : ws[i] = vs[i],
         IsRun(g, ws, n), IsRun(h, vs, m)
  PROVE  g[n] = h[n]
<1> USE DEF IsRun
<1> DEFINE K == {k \in Nat : k <= n => g[k] = h[k]}
<1>1. 0 \in K
  <2>1. g[0] = Reset /\ h[0] = Reset OBVIOUS
  <2>. QED BY <2>1
<1>2. ASSUME NEW k \in K PROVE k + 1 \in K
  <2>1. SUFFICES ASSUME k + 1 <= n PROVE g[k + 1] = h[k + 1] OBVIOUS
  <2>2. k + 1 \in 0 .. n /\ k + 1 \in 0 .. m /\ k + 1 # 0 /\ (k + 1) - 1 = k /\ k + 1 \in 1 .. n
    BY <2>1
  <2>3. g[k + 1] = Execute(g[k], ws[k + 1]) BY <2>2
  <2>4. h[k + 1] = Execute(h[k], vs[k + 1]) BY <2>2
  <2>5. g[k] = h[k] BY <2>1
  <2>. QED BY <2>2, <2>3, <2>4, <2>5
<1>3. K = Nat
  <2>. HIDE DEF K
  <2>. QED BY <1>1, <1>2, SetInduction DEF K
<1>4. n \in K /\ n <= n
  <2>. HIDE DEF K
  <2>. QED BY <1>3
<1>. QED BY <1>4

\* The empty program leaves the core in reset.
LEMMA ExecutedEmpty == Executed(<<>>) = Reset
<1> DEFINE after == CHOOSE g : IsRun(g, <<>>, 0)
<1>1. IsRun(after, <<>>, 0) BY ExecutionExists
<1>2. Executed(<<>>) = after[0] BY DEF Executed, IsRun
<1>3. after[0] = Reset
  <2>. HIDE DEF after
  <2>. QED BY <1>1 DEF IsRun
<1>. QED BY <1>2, <1>3

\* Executing a program with one more word is executing the word after the program.
LEMMA ExecutedAppend ==
  ASSUME NEW T, NEW ws \in Seq(T), NEW w \in T
  PROVE  Executed(Append(ws, w)) = Execute(Executed(ws), w)
<1> DEFINE vs == Append(ws, w)
           n == Len(ws)
           short == CHOOSE g : IsRun(g, ws, n)
           long == CHOOSE g : IsRun(g, vs, Len(vs))
<1>1. n \in Nat /\ Len(vs) = n + 1 /\ vs[n + 1] = w /\ \A i \in 1 .. n : vs[i] = ws[i]
  OBVIOUS
<1>2. Executed(ws) = short[n] BY DEF Executed, IsRun
<1>3. Executed(vs) = long[Len(vs)] BY DEF Executed, IsRun
<1>4. IsRun(short, ws, n) BY <1>1, ExecutionExists
<1>5. IsRun(long, vs, n + 1)
  <2>. HIDE DEF vs
  <2>. QED BY <1>1, ExecutionExists
<1>. HIDE DEF vs, n, short, long
<1>6. short[n] = long[n] BY <1>1, <1>4, <1>5, ExecutionUnique
<1>7. long[n + 1] = Execute(long[n], w)
  <2>1. n + 1 \in 0 .. n + 1 /\ n + 1 # 0 /\ (n + 1) - 1 = n BY <1>1
  <2>. QED BY <1>1, <1>5, <2>1 DEF IsRun
<1>. QED BY <1>1, <1>2, <1>3, <1>6, <1>7 DEF vs

-----------------------------------------------------------------------------

\* The modulus is a multiple of 2^12 that divides 2^32.
LEMMA ModulusDivides ==
  \E k, l \in Nat \ {0} : Modulus = 4096 * k /\ k * l = 2^20
<1>1. 12 \in 0 .. N /\ N - 12 \in 0 .. N /\ N = 12 + (N - 12) BY ImmediateAssumption
<1>2. 2^(12 + (N - 12)) = 2^12 * 2^(N - 12) BY <1>1, PowerAssumption, Zenon
<1>3. 2^(N - 12) \in Nat \ {0} BY <1>1, PowerAssumption, Zenon
<1> DEFINE k == 2^(N - 12)
<1>4. Modulus = 4096 * k
  <2>1. 2^12 = 4096 BY SMTT(90)
  <2>. QED BY <1>1, <1>2, <2>1 DEF Modulus
<1>5. 2^20 \in Nat \ {0} BY SMTT(90)
<1>6. 2^20 % k = 0 BY ImmediateAssumption
<1>. HIDE DEF k
<1>7. k \in Nat \ {0} BY <1>3 DEF k
<1>8. \A p \in Nat \ {0} : 2^20 % p = 0 => \E l \in Nat \ {0} : p * l = 2^20
  <2> SUFFICES ASSUME NEW p \in Nat \ {0}, 2^20 % p = 0
               PROVE  \E l \in Nat \ {0} : p * l = 2^20
      OBVIOUS
  <2>1. 2^20 \div p \in Nat /\ p * (2^20 \div p) = 2^20 BY SMTT(90)
  <2>2. 2^20 \div p # 0 BY <2>1
  <2>. QED BY <2>1, <2>2
<1>. QED BY <1>4, <1>6, <1>7, <1>8

\* Words hold 12-bit numbers.
LEMMA ModulusLarge == Modulus \in Nat /\ Modulus >= 4096 /\ Modulus \div 2 >= 2048
<1>1. PICK k \in Nat \ {0} : Modulus = 4096 * k BY ModulusDivides
<1>. QED BY <1>1

\* A remainder is recognised by the division identity.
LEMMA RemainderUnique ==
  \A v, q \in Int, m, r \in Nat : r < m /\ v = q * m + r => v % m = r
<1> SUFFICES ASSUME NEW v \in Int, NEW q \in Int, NEW m \in Nat, NEW r \in Nat,
                    r < m, v = q * m + r
             PROVE  v % m = r
    BY Zenon
<1>. QED OBVIOUS

\* The division identity, with its types.
LEMMA Remainder ==
  \A v \in Int, m \in Nat \ {0} :
    v % m \in Nat /\ v % m < m /\ v \div m \in Int /\ v = (v \div m) * m + (v % m)
<1> SUFFICES ASSUME NEW v \in Int, NEW m \in Nat \ {0}
             PROVE  v % m \in Nat /\ v % m < m /\ v \div m \in Int
                      /\ v = (v \div m) * m + (v % m)
    BY Zenon
<1>1. v % m \in Nat OBVIOUS
<1>2. v % m < m OBVIOUS
<1>3. v \div m \in Int OBVIOUS
<1>4. v = (v \div m) * m + (v % m) OBVIOUS
<1>. QED BY <1>1, <1>2, <1>3, <1>4

\* Reduction yields a word.
LEMMA u32Type == \A v \in Int : u32(v) \in Operand
BY ModulusLarge DEF u32, Operand

\* Reducing a word changes nothing.
LEMMA u32Operand == \A v \in Operand : u32(v) = v
BY ModulusLarge DEF u32, Operand

\* Numbers that differ by a multiple of the modulus are the same word.
LEMMA u32Shift == \A v, q \in Int : u32(v + q * Modulus) = u32(v)
<1> SUFFICES ASSUME NEW v \in Int, NEW q \in Int PROVE u32(v + q * Modulus) = u32(v) OBVIOUS
<1>1. Modulus \in Nat \ {0} BY ModulusLarge
<1> DEFINE d == v \div Modulus
           r == v % Modulus
<1>2. d \in Int /\ r \in Nat /\ r < Modulus /\ v = d * Modulus + r BY <1>1, Remainder
<1> HIDE DEF d, r
<1>3. v + q * Modulus = (d + q) * Modulus + r
  <2>1. (d + q) * Modulus = d * Modulus + q * Modulus BY <1>1, <1>2
  <2>2. d * Modulus \in Int /\ q * Modulus \in Int BY <1>1, <1>2
  <2>. QED BY <1>2, <2>1, <2>2
<1>4. v + q * Modulus \in Int /\ d + q \in Int BY <1>1, <1>2
<1>5. (v + q * Modulus) % Modulus = r BY <1>1, <1>2, <1>3, <1>4, RemainderUnique
<1>. QED BY <1>5 DEF u32, r

\* A summand may be reduced before the sum is.
LEMMA u32Sum == \A v, x \in Int : u32(v + u32(x)) = u32(v + x)
<1> SUFFICES ASSUME NEW v \in Int, NEW x \in Int PROVE u32(v + u32(x)) = u32(v + x) OBVIOUS
<1>1. Modulus \in Nat \ {0} BY ModulusLarge
<1> DEFINE d == x \div Modulus
<1>2. d \in Int /\ u32(x) \in Nat /\ x = d * Modulus + u32(x) BY <1>1, Remainder DEF u32
<1> HIDE DEF d
<1>3. v + x = (v + u32(x)) + d * Modulus
  <2>1. d * Modulus \in Int BY <1>1, <1>2
  <2>. QED BY <1>2, <2>1
<1>4. v + u32(x) \in Int BY <1>2
<1>. QED BY <1>2, <1>3, <1>4, u32Shift

-----------------------------------------------------------------------------
(* The ALU.                                                                *)

\* The signed value of a word.
LEMMA s32Value ==
  \A a \in Operand : s32(a) = (IF Negative(a) THEN a - Modulus ELSE a) /\ s32(a) \in Int
<1> SUFFICES ASSUME NEW a \in Operand
             PROVE  s32(a) = (IF Negative(a) THEN a - Modulus ELSE a) /\ s32(a) \in Int
    OBVIOUS
<1>1. u32(a) = a BY u32Operand
<1>2. a \in Int /\ Modulus \in Int BY ModulusLarge DEF Operand
<1>. QED BY <1>1, <1>2 DEF s32

\* Signed comparison by the sign bits.
LEMMA s32Less ==
  \A a, b \in Operand :
    s32(a) < s32(b) <=> IF Negative(a) = Negative(b) THEN a < b ELSE Negative(a)
<1> SUFFICES ASSUME NEW a \in Operand, NEW b \in Operand
             PROVE  s32(a) < s32(b) <=> IF Negative(a) = Negative(b) THEN a < b ELSE Negative(a)
    OBVIOUS
<1>1. /\ s32(a) = (IF Negative(a) THEN a - Modulus ELSE a)
      /\ s32(b) = (IF Negative(b) THEN b - Modulus ELSE b)
  BY s32Value
<1>. QED BY <1>1, ModulusLarge DEF Negative, Operand

\* A left shift yields a word.
LEMMA ShiftLeftType == \A a \in Operand, n \in Nat : ShiftLeft(a, n) \in Operand
<1> SUFFICES ASSUME NEW a \in Operand, NEW n \in Nat PROVE ShiftLeft(a, n) \in Operand OBVIOUS
<1>1. 0 \in Operand BY ModulusLarge DEF Operand
<1>2. CASE n < N
  <2>1. 2^n \in Nat BY <1>2, PowerAssumption, WidthAssumption
  <2>2. a \in Nat BY ModulusLarge DEF Operand
  <2>3. a * 2^n \in Int BY <2>1, <2>2
  <2>4. ShiftLeft(a, n) = u32(a * 2^n) BY <1>2 DEF ShiftLeft, u32
  <2>. QED BY <2>3, <2>4, u32Type
<1>3. CASE ~(n < N) BY <1>1, <1>3 DEF ShiftLeft
<1>. QED BY <1>2, <1>3

\* A quotient is no larger than the dividend.
LEMMA QuotientSmaller == \A v \in Nat, d \in Nat \ {0} : v \div d \in Nat /\ v \div d <= v
<1> SUFFICES ASSUME NEW v \in Nat, NEW d \in Nat \ {0} PROVE v \div d \in Nat /\ v \div d <= v
    OBVIOUS
<1> DEFINE q == v \div d
<1>1. v % d \in Nat /\ q \in Int /\ v = q * d + (v % d) /\ v % d < d BY Remainder
<1>. HIDE DEF q
<1>2. q \in Nat
  <2>1. SUFFICES ASSUME q < 0 PROVE FALSE BY <1>1
  <2>2. q * d <= -d BY <1>1, <2>1
  <2>. QED BY <1>1, <2>2
<1>3. q <= q * d BY <1>2
<1>. QED BY <1>1, <1>2, <1>3 DEF q

\* A right shift yields a word.
LEMMA ShiftRightType == \A a \in Operand, n \in Nat : ShiftRight(a, n) \in Operand
<1> SUFFICES ASSUME NEW a \in Operand, NEW n \in Nat PROVE ShiftRight(a, n) \in Operand OBVIOUS
<1>1. a \in Nat /\ Modulus \in Nat BY ModulusLarge DEF Operand
<1>2. CASE n < N
  <2>1. 2^n \in Nat \ {0} BY <1>2, PowerAssumption, WidthAssumption
  <2>2. a \div 2^n \in Nat /\ a \div 2^n <= a BY <1>1, <2>1, QuotientSmaller
  <2>. QED BY <1>1, <1>2, <2>2 DEF ShiftRight, Operand
<1>3. CASE ~(n < N) BY <1>1, <1>3, ModulusLarge DEF ShiftRight, Operand
<1>. QED BY <1>2, <1>3

\* Shifting a negative number is shifting its complement.
LEMMA ShiftRightComplement ==
  \A a \in Operand, n \in Nat :
    ShiftRight(a - Modulus, n) = -1 - ShiftRight(Modulus - 1 - a, n)
<1> SUFFICES ASSUME NEW a \in Operand, NEW n \in Nat
             PROVE  ShiftRight(a - Modulus, n) = -1 - ShiftRight(Modulus - 1 - a, n)
    OBVIOUS
<1> DEFINE x == Modulus - 1 - a
<1>1. x \in Nat /\ a - Modulus = -1 - x /\ a - Modulus < 0 BY ModulusLarge DEF Operand
<1>. HIDE DEF x
<1>2. CASE n < N
  <2>1. 2^n \in Nat \ {0} BY <1>2, PowerAssumption, WidthAssumption
  <2>2. \A d \in Nat \ {0} : (-1 - x) \div d = -1 - (x \div d)
    <3>1. SUFFICES ASSUME NEW d \in Nat \ {0} PROVE (-1 - x) \div d = -1 - (x \div d) OBVIOUS
    <3> DEFINE q == x \div d
               r == x % d
    <3>2. q \in Int /\ r \in Nat /\ r < d /\ x = q * d + r BY <1>1, Remainder
    <3>. HIDE DEF q, r
    <3>3. -1 - x = (-1 - q) * d + (d - 1 - r)
      <4>1. (-1 - q) * d = -d - q * d BY <3>2
      <4>2. q * d \in Int BY <3>2
      <4>. QED BY <3>2, <4>1, <4>2
    <3>4. d - 1 - r \in Nat /\ d - 1 - r < d /\ -1 - q \in Int /\ -1 - x \in Int BY <1>1, <3>2
    <3>5. \A v, p \in Int, m, s \in Nat : s < m /\ v = p * m + s => v \div m = p
      <4>1. SUFFICES ASSUME NEW v \in Int, NEW p \in Int, NEW m \in Nat, NEW s \in Nat,
                            s < m, v = p * m + s
                     PROVE  v \div m = p
        BY Zenon
      <4>. QED BY <4>1
    <3>. QED BY <3>2, <3>3, <3>4, <3>5 DEF q
  <2>. QED BY <1>1, <1>2, <2>1, <2>2 DEF ShiftRight, x
<1>3. CASE ~(n < N) BY <1>1, <1>3 DEF ShiftRight, x
<1>. QED BY <1>2, <1>3

\* The operation of the ALU each mnemonic asks for.
AluOp == [add |-> "ADD", sub |-> "SUB", sll |-> "SLL", slt |-> "SLT", sltu |-> "SLTU",
          xor |-> "XOR", srl |-> "SRL", sra |-> "SRA", or |-> "OR", and |-> "AND"]

\* The SUB of the ALU is the difference modulo 2^N.
LEMMA AluSubtract == \A a, b \in Operand : u32(a - b) = alu_result("SUB", a, b)
<1> SUFFICES ASSUME NEW a \in Operand, NEW b \in Operand
             PROVE  u32(a - b) = alu_result("SUB", a, b)
    OBVIOUS
<1>1. a - b \in Int /\ a + (Modulus - b) = (a - b) + 1 * Modulus BY ModulusLarge DEF Operand
<1>. QED BY <1>1, u32Shift DEF alu_result, u32

\* The SLT of the ALU compares signed values.
LEMMA AluLess ==
  \A a, b \in Operand : u32(IF s32(a) < s32(b) THEN 1 ELSE 0) = alu_result("SLT", a, b)
<1> SUFFICES ASSUME NEW a \in Operand, NEW b \in Operand
             PROVE  u32(IF s32(a) < s32(b) THEN 1 ELSE 0) = alu_result("SLT", a, b)
    OBVIOUS
<1>1. 0 \in Operand /\ 1 \in Operand BY ModulusLarge DEF Operand
<1>2. u32(0) = 0 /\ u32(1) = 1 BY <1>1, u32Operand
<1>3. Negative(a) \in BOOLEAN /\ Negative(b) \in BOOLEAN BY DEF Negative
<1>. HIDE DEF Negative
<1>4. s32(a) < s32(b) <=> IF Negative(a) = Negative(b) THEN a < b ELSE Negative(a) BY s32Less
<1>5. alu_result("SLT", a, b) = IF Negative(a) = Negative(b) THEN IF a < b THEN 1 ELSE 0
                                ELSE IF Negative(a) THEN 1 ELSE 0
  BY DEF alu_result
<1>. QED BY <1>2, <1>3, <1>4, <1>5

\* The SRA of the ALU shifts the signed value.
LEMMA AluShiftArithmetic ==
  \A a, b \in Operand : u32(ShiftRight(s32(a), b % 2^5)) = alu_result("SRA", a, b)
<1> SUFFICES ASSUME NEW a \in Operand, NEW b \in Operand
             PROVE  u32(ShiftRight(s32(a), b % 2^5)) = alu_result("SRA", a, b)
    OBVIOUS
<1> DEFINE n == b % 2^5
           x == Modulus - 1 - a
<1>1. n \in Nat /\ x \in Operand BY ModulusLarge DEF Operand
<1>2. alu_result("SRA", a, b) = IF ~Negative(a) THEN ShiftRight(a, n)
                                ELSE Modulus - 1 - ShiftRight(x, n)
  BY DEF alu_result
<1>3. s32(a) = IF Negative(a) THEN a - Modulus ELSE a BY s32Value
<1>4. CASE ~Negative(a)
  <2>1. ShiftRight(a, n) \in Operand
    <3>. HIDE DEF n
    <3>. QED BY <1>1, ShiftRightType
  <2>. QED BY <1>2, <1>3, <1>4, <2>1, u32Operand
<1>5. CASE Negative(a)
  <2>1. ShiftRight(a - Modulus, n) = -1 - ShiftRight(x, n) /\ ShiftRight(x, n) \in Operand
    <3>1. \A k \in Nat : ShiftRight(a - Modulus, k) = -1 - ShiftRight(x, k)
      BY ShiftRightComplement
    <3>2. \A k \in Nat : ShiftRight(x, k) \in Operand
      <4>. HIDE DEF x
      <4>. QED BY <1>1, ShiftRightType
    <3>. HIDE DEF n, x
    <3>. QED BY <1>1, <3>1, <3>2
  <2> DEFINE y == ShiftRight(x, n)
  <2>2. y \in Operand BY <2>1
  <2>. HIDE DEF y
  <2>3. -1 - y \in Int /\ (-1 - y) + 1 * Modulus = Modulus - 1 - y /\ Modulus - 1 - y \in Operand
    BY <2>2, ModulusLarge DEF Operand
  <2>4. u32(-1 - y) = Modulus - 1 - y BY <2>3, u32Shift, u32Operand
  <2>. QED BY <1>2, <1>3, <1>5, <2>1, <2>4 DEF y
<1>. QED BY <1>4, <1>5

\* What the generator expects of an R-type instruction is what the ALU computes.
LEMMA AluAgrees ==
  \A op \in DOMAIN RType : \A a, b \in Operand :
    AluValue(op, a, b) \in Int /\ u32(AluValue(op, a, b)) = alu_result(AluOp[op], a, b)
<1> SUFFICES ASSUME NEW op \in DOMAIN RType, NEW a \in Operand, NEW b \in Operand
             PROVE  /\ AluValue(op, a, b) \in Int
                    /\ u32(AluValue(op, a, b)) = alu_result(AluOp[op], a, b)
    OBVIOUS
<1>1. op \in {"add", "sub", "sll", "slt", "sltu", "xor", "srl", "sra", "or", "and"}
  BY DEF RType
<1> DEFINE n == b % 2^5
<1>2. a \in Int /\ b \in Int /\ n \in Nat /\ 0 \in Operand /\ 1 \in Operand /\ Operand \subseteq Int
  BY ModulusLarge DEF Operand
<1>3. CASE op = "add" BY <1>2, <1>3, SMTT(90) DEF AluValue, alu_result, AluOp, u32
<1>4. CASE op = "sub" BY <1>2, <1>4, AluSubtract, SMTT(60) DEF AluValue, AluOp
<1>5. CASE op = "sll"
  <2>1. ShiftLeft(a, n) \in Operand
    <3>. HIDE DEF n
    <3>. QED BY <1>2, ShiftLeftType
  <2>. QED BY <1>2, <1>5, <2>1, u32Operand DEF AluValue, alu_result, AluOp
<1>6. CASE op = "slt" BY <1>2, <1>6, AluLess DEF AluValue, AluOp
<1>7. CASE op = "sltu" BY <1>2, <1>7, u32Operand DEF AluValue, alu_result, AluOp
<1>8. CASE op = "xor" BY <1>2, <1>8, u32Operand, BitwiseIsWord DEF AluValue, alu_result, AluOp
<1>9. CASE op = "srl"
  <2>1. ShiftRight(a, n) \in Operand
    <3>. HIDE DEF n
    <3>. QED BY <1>2, ShiftRightType
  <2>. QED BY <1>2, <1>9, <2>1, u32Operand DEF AluValue, alu_result, AluOp
<1>10. CASE op = "sra"
  <2>1. ShiftRight(s32(a), n) \in Int
    <3>1. \A k \in Nat : ShiftRight(a, k) \in Operand BY ShiftRightType
    <3>2. \A k \in Nat : ShiftRight(Modulus - 1 - a, k) \in Operand
      <4>1. Modulus - 1 - a \in Operand BY ModulusLarge DEF Operand
      <4>. QED BY <4>1, ShiftRightType
    <3>. HIDE DEF n
    <3>3. ShiftRight(a - Modulus, n) = -1 - ShiftRight(Modulus - 1 - a, n)
      BY <1>2, ShiftRightComplement
    <3>4. ShiftRight(a, n) \in Operand /\ ShiftRight(Modulus - 1 - a, n) \in Operand
      BY <1>2, <3>1, <3>2
    <3>5. \A y \in Operand : -1 - y \in Int BY <1>2
    <3>6. ShiftRight(a - Modulus, n) \in Int BY <3>3, <3>4, <3>5
    <3>. QED BY <1>2, <3>4, <3>6, s32Value
  <2>. QED BY <1>2, <1>10, <2>1, AluShiftArithmetic DEF AluValue, AluOp
<1>11. CASE op = "or" BY <1>2, <1>11, u32Operand, BitwiseIsWord DEF AluValue, alu_result, AluOp
<1>12. CASE op = "and" BY <1>2, <1>12, u32Operand, BitwiseIsWord DEF AluValue, alu_result, AluOp
<1>. QED BY <1>1, <1>3, <1>4, <1>5, <1>6, <1>7, <1>8, <1>9, <1>10, <1>11, <1>12

\* The operation of the ALU each mnemonic with an immediate asks for.
ImmediateOp == [addi |-> "ADD", slti |-> "SLT", sltiu |-> "SLTU", xori |-> "XOR", ori |-> "OR",
                andi |-> "AND", slli |-> "SLL", srli |-> "SRL", srai |-> "SRA"]

\* The numbers of 12 bits, sign-extended.
Signed12 == -2048 .. 2047

\* They are integers.
LEMMA SignedRange == \A v \in Signed12 : v \in Int
BY DEF Signed12

\* A sign-extended immediate is negative as a word when it is as a number.
LEMMA ImmediateWord ==
  \A immediate \in Signed12 : u32(immediate) \in Operand /\ s32(u32(immediate)) = immediate
<1> SUFFICES ASSUME NEW v \in Signed12
             PROVE  u32(v) \in Operand /\ s32(u32(v)) = v
    BY Zenon
<1>0. v \in Int /\ v >= -2048 /\ v <= 2047 BY DEF Signed12
<1>1. u32(v) \in Operand BY <1>0, u32Type
<1>2. s32(u32(v)) = IF Negative(u32(v)) THEN u32(v) - Modulus ELSE u32(v) BY <1>1, s32Value
<1>3. CASE v >= 0
  <2>1. v \in Operand BY <1>0, <1>3, ModulusLarge DEF Operand
  <2>2. u32(v) = v BY <2>1, u32Operand
  <2>. QED BY <1>0, <1>1, <1>2, <1>3, <2>2, ModulusLarge DEF Negative
<1>4. CASE v < 0
  <2>1. v + Modulus \in Operand /\ v + Modulus = v + 1 * Modulus
    BY <1>0, <1>4, ModulusLarge DEF Operand
  <2>2. u32(v) = v + Modulus BY <1>0, <2>1, u32Operand, u32Shift
  <2>3. v + Modulus >= Modulus \div 2 BY <1>0, ModulusLarge
  <2>4. Negative(u32(v)) BY <2>2, <2>3 DEF Negative
  <2>5. (v + Modulus) - Modulus = v BY <1>0, ModulusLarge
  <2>. QED BY <1>1, <1>2, <2>2, <2>4, <2>5
<1>. QED BY <1>0, <1>3, <1>4

\* What the generator expects of an instruction with an immediate is what the
\* ALU computes of the sign-extended immediate.
LEMMA ImmediateAgrees ==
  \A op \in DOMAIN IType : \A a \in Operand, immediate \in Signed12 :
    /\ ImmediateValue(op, a, immediate) \in Int
    /\ u32(ImmediateValue(op, a, immediate)) = alu_result(ImmediateOp[op], a, u32(immediate))
<1> SUFFICES ASSUME NEW op \in DOMAIN IType, NEW a \in Operand, NEW v \in Signed12
             PROVE  /\ ImmediateValue(op, a, v) \in Int
                    /\ u32(ImmediateValue(op, a, v)) = alu_result(ImmediateOp[op], a, u32(v))
    OBVIOUS
<1>1. op \in {"addi", "slti", "sltiu", "xori", "ori", "andi"} BY DEF IType
<1>2. a \in Int /\ v \in Int /\ 0 \in Operand /\ 1 \in Operand /\ Operand \subseteq Int
  BY ModulusLarge DEF Operand, Signed12
<1>3. u32(v) \in Operand /\ s32(u32(v)) = v BY ImmediateWord, Zenon
<1>4. CASE op = "addi"
  <2>1. u32(a + u32(v)) = u32(a + v) BY <1>2, u32Sum
  <2>2. a + v \in Int BY <1>2
  <2>. QED BY <1>4, <2>1, <2>2 DEF ImmediateValue, ImmediateOp, alu_result, u32
<1>5. CASE op = "slti"
  <2>1. u32(IF s32(a) < s32(u32(v)) THEN 1 ELSE 0) = alu_result("SLT", a, u32(v))
    BY <1>3, AluLess
  <2>. QED BY <1>3, <1>5, <2>1 DEF ImmediateValue, ImmediateOp
<1>6. CASE op = "sltiu"
  BY <1>2, <1>6, u32Operand DEF ImmediateValue, ImmediateOp, alu_result
<1>7. CASE op = "xori"
  BY <1>2, <1>3, <1>7, u32Operand, BitwiseIsWord DEF ImmediateValue, ImmediateOp, alu_result
<1>8. CASE op = "ori"
  BY <1>2, <1>3, <1>8, u32Operand, BitwiseIsWord DEF ImmediateValue, ImmediateOp, alu_result
<1>9. CASE op = "andi"
  BY <1>2, <1>3, <1>9, u32Operand, BitwiseIsWord DEF ImmediateValue, ImmediateOp, alu_result
<1>. QED BY <1>1, <1>4, <1>5, <1>6, <1>7, <1>8, <1>9

\* The shift amount is the low five bits of the immediate: bit 10 tells SRAI.
LEMMA ShiftAgrees ==
  \A op \in DOMAIN ShiftType : \A a \in Operand, shamt \in 0 .. 31 :
    /\ ImmediateValue(op, a, shamt) \in Int
    /\ u32(ImmediateValue(op, a, shamt))
         = alu_result(ImmediateOp[op], a, u32(2^5 * ShiftType[op][2] + shamt))
<1> SUFFICES ASSUME NEW op \in DOMAIN ShiftType, NEW a \in Operand, NEW shamt \in 0 .. 31
             PROVE  /\ ImmediateValue(op, a, shamt) \in Int
                    /\ u32(ImmediateValue(op, a, shamt))
                         = alu_result(ImmediateOp[op], a, u32(2^5 * ShiftType[op][2] + shamt))
    OBVIOUS
<1>1. op \in {"slli", "srli", "srai"} BY DEF ShiftType
<1> DEFINE base == IF op = "slli" THEN "sll" ELSE IF op = "srli" THEN "srl" ELSE "sra"
           b == u32(2^5 * ShiftType[op][2] + shamt)
<1>2. 2^5 * ShiftType[op][2] = IF op = "srai" THEN 1024 ELSE 0 BY <1>1, SMTT(90) DEF ShiftType
<1>3. b = (IF op = "srai" THEN 1024 ELSE 0) + shamt /\ b \in Operand
  <2>1. (IF op = "srai" THEN 1024 ELSE 0) + shamt \in Operand BY ModulusLarge DEF Operand
  <2>. QED BY <1>2, <2>1, u32Operand
<1>4. b % 2^5 = shamt BY <1>3
<1>. HIDE DEF b
<1>5. ImmediateValue(op, a, shamt) = AluValue(base, a, b)
  BY <1>1, <1>4 DEF ImmediateValue, AluValue
<1>6. base \in DOMAIN RType /\ AluOp[base] = ImmediateOp[op]
  BY <1>1 DEF RType, AluOp, ImmediateOp
<1>7. \A x \in Operand : /\ AluValue(base, a, x) \in Int
                         /\ u32(AluValue(base, a, x)) = alu_result(AluOp[base], a, x)
  <2>. HIDE DEF base
  <2>. QED BY <1>6, AluAgrees
<1>. QED BY <1>3, <1>5, <1>6, <1>7 DEF b

-----------------------------------------------------------------------------
(* Execution of one word, by opcode.                                       *)

\* The core after a word that writes v to rd and goes on.
Wrote(m, dest, v) ==
  [pc |-> u32(m.pc + 4),
   registers |-> IF dest # 0 THEN [m.registers EXCEPT ![dest] = v] ELSE m.registers,
   memory |-> m.memory,
   commits |-> IF dest # 0 THEN Append(m.commits, <<m.pc, dest, v>>) ELSE m.commits]

\* The opcodes are distinct numbers.
LEMMA Opcodes ==
  /\ OP.LUI = 55 /\ OP.AUIPC = 23 /\ OP.JAL = 111 /\ OP.JALR = 103 /\ OP.BRANCH = 99
  /\ OP.LOAD = 3 /\ OP.STORE = 35 /\ OP.IMM = 19 /\ OP.REG = 51 /\ OP.MISC_MEM = 15
  /\ OP.SYSTEM = 115
BY DEF OP

\* The controls Execute reads, field by field.
LEMMA ControlFields ==
  ASSUME NEW w
  PROVE  /\ Controls(w).reg_write
              <=> (w.opcode \in {OP.LUI, OP.AUIPC, OP.JAL, OP.JALR, OP.LOAD, OP.IMM, OP.REG}
                   \/ csr_en(w))
         /\ Controls(w).mem_write <=> (w.opcode \in {OP.STORE})
         /\ Controls(w).wb_sel = IF w.opcode \in {OP.LOAD} THEN "MEM"
                                 ELSE IF w.opcode \in {OP.JAL, OP.JALR} THEN "PC4"
                                 ELSE IF w.opcode \in {OP.LUI} THEN "IMM" ELSE "ALU"
         /\ Controls(w).alu_src <=> (w.opcode \in {OP.AUIPC, OP.JALR, OP.LOAD, OP.STORE, OP.IMM})
         /\ Controls(w).alu_a_sel <=> (w.opcode \in {OP.AUIPC})
         /\ Controls(w).alu_ctrl = alu_ctrl(w)
         /\ Controls(w).jal <=> (w.opcode \in {OP.JAL})
BY DEF Controls

\* The controls of an R-type word.
LEMMA RegisterControls ==
  ASSUME NEW w, w.opcode = OP.REG
  PROVE  /\ Controls(w).reg_write /\ ~Controls(w).mem_write
         /\ Controls(w).wb_sel = "ALU" /\ ~Controls(w).alu_src
         /\ ~Controls(w).alu_a_sel /\ ~Controls(w).jal
         /\ Controls(w).alu_ctrl = alu_ctrl(w)
BY Opcodes, ControlFields

\* The controls of an I-type word.
LEMMA ImmediateControls ==
  ASSUME NEW w, w.opcode = OP.IMM
  PROVE  /\ Controls(w).reg_write /\ ~Controls(w).mem_write
         /\ Controls(w).wb_sel = "ALU" /\ Controls(w).alu_src
         /\ ~Controls(w).alu_a_sel /\ ~Controls(w).jal
         /\ Controls(w).alu_ctrl = alu_ctrl(w)
BY Opcodes, ControlFields

\* The controls of LUI.
LEMMA UpperControls ==
  ASSUME NEW w, w.opcode = OP.LUI
  PROVE  /\ Controls(w).reg_write /\ ~Controls(w).mem_write
         /\ Controls(w).wb_sel = "IMM" /\ ~Controls(w).jal
BY Opcodes, ControlFields

\* The controls of a load.
LEMMA LoadControls ==
  ASSUME NEW w, w.opcode = OP.LOAD
  PROVE  /\ Controls(w).reg_write /\ ~Controls(w).mem_write
         /\ Controls(w).wb_sel = "MEM" /\ Controls(w).alu_src
         /\ ~Controls(w).alu_a_sel /\ ~Controls(w).jal
         /\ Controls(w).alu_ctrl = "ADD"
BY Opcodes, ControlFields DEF alu_ctrl

\* The controls of a store.
LEMMA StoreControls ==
  ASSUME NEW w, w.opcode = OP.STORE
  PROVE  /\ ~Controls(w).reg_write /\ Controls(w).mem_write
         /\ Controls(w).wb_sel = "ALU" /\ Controls(w).alu_src
         /\ ~Controls(w).alu_a_sel /\ ~Controls(w).jal
         /\ Controls(w).alu_ctrl = "ADD"
BY Opcodes, ControlFields DEF alu_ctrl, csr_en

\* The controls of JAL.
LEMMA JumpControls ==
  ASSUME NEW w, w.opcode = OP.JAL
  PROVE  /\ ~Controls(w).mem_write /\ Controls(w).jal /\ Controls(w).wb_sel = "PC4"
BY Opcodes, ControlFields DEF alu_ctrl, csr_en

\* An R-type word writes what the ALU computes of two registers.
LEMMA ExecuteRegister ==
  ASSUME NEW m, NEW w, w.opcode = OP.REG, w.funct7 # 1
  PROVE  Execute(m, w)
           = Wrote(m, w.rd, alu_result(alu_ctrl(w), m.registers[w.rs1], m.registers[w.rs2]))
<1>1. ex_result(w, m.pc, m.registers[w.rs1], m.registers[w.rs2])
        = alu_result(alu_ctrl(w), m.registers[w.rs1], m.registers[w.rs2])
  BY RegisterControls DEF ex_result
<1>. QED BY <1>1, RegisterControls DEF Execute, Wrote

\* A word of the M extension writes what the unit computes.
LEMMA ExecuteM ==
  ASSUME NEW m, NEW op \in DOMAIN MType, NEW w,
         w.opcode = OP.REG, w.funct7 = 1, w.funct3 = MType[op]
  PROVE  Execute(m, w)
           = Wrote(m, w.rd, u32(MValue(op, m.registers[w.rs1], m.registers[w.rs2])))
<1>1. (CHOOSE o \in DOMAIN MType : MType[o] = w.funct3) = op BY DEF MType
<1>2. ex_result(w, m.pc, m.registers[w.rs1], m.registers[w.rs2])
        = u32(MValue(op, m.registers[w.rs1], m.registers[w.rs2]))
  BY <1>1 DEF ex_result
<1>. QED BY <1>2, RegisterControls DEF Execute, Wrote

\* An I-type word writes what the ALU computes of a register and the immediate.
LEMMA ExecuteImmediate ==
  ASSUME NEW m, NEW w, w.opcode = OP.IMM
  PROVE  Execute(m, w)
           = Wrote(m, w.rd, alu_result(alu_ctrl(w), m.registers[w.rs1], u32(o_imm(w))))
<1>1. ex_result(w, m.pc, m.registers[w.rs1], m.registers[w.rs2])
        = alu_result(alu_ctrl(w), m.registers[w.rs1], u32(o_imm(w)))
  BY ImmediateControls, Opcodes DEF ex_result
<1>. QED BY <1>1, ImmediateControls DEF Execute, Wrote

\* LUI writes the upper immediate.
LEMMA ExecuteUpper ==
  ASSUME NEW m, NEW w, w.opcode = OP.LUI
  PROVE  Execute(m, w) = Wrote(m, w.rd, u32(o_imm(w)))
BY UpperControls DEF Execute, Wrote

\* A load writes what memory holds at the sum of base and offset.
LEMMA ExecuteLoad ==
  ASSUME NEW m, NEW w, w.opcode = OP.LOAD
  PROVE  Execute(m, w)
           = Wrote(m, w.rd, m.memory[alu_result("ADD", m.registers[w.rs1], u32(o_imm(w)))])
<1>1. ex_result(w, m.pc, m.registers[w.rs1], m.registers[w.rs2])
        = alu_result("ADD", m.registers[w.rs1], u32(o_imm(w)))
  BY LoadControls, Opcodes DEF ex_result
<1>. QED BY <1>1, LoadControls DEF Execute, Wrote

\* A store changes memory at the sum of base and offset, and no register.
LEMMA ExecuteStore ==
  ASSUME NEW m, NEW w, w.opcode = OP.STORE
  PROVE  Execute(m, w)
           = [pc |-> u32(m.pc + 4), registers |-> m.registers,
              memory |-> [m.memory EXCEPT ![alu_result("ADD", m.registers[w.rs1], u32(o_imm(w)))]
                            = m.registers[w.rs2]],
              commits |-> m.commits]
<1>1. ex_result(w, m.pc, m.registers[w.rs1], m.registers[w.rs2])
        = alu_result("ADD", m.registers[w.rs1], u32(o_imm(w)))
  BY StoreControls, Opcodes DEF ex_result
<1>. QED BY <1>1, StoreControls DEF Execute

\* A jump that links to x0 only moves the program counter.
LEMMA ExecuteJump ==
  ASSUME NEW m, NEW w, w.opcode = OP.JAL, w.rd = 0
  PROVE  Execute(m, w) = [pc |-> u32(m.pc + o_imm(w)), registers |-> m.registers,
                          memory |-> m.memory, commits |-> m.commits]
BY JumpControls DEF Execute

-----------------------------------------------------------------------------
(* The words the assembler makes.                                          *)

\* The mnemonics of each table of the assembler, and the codes of some.
LEMMA Tables ==
  /\ DOMAIN IType = {"addi", "slti", "sltiu", "xori", "ori", "andi"}
  /\ DOMAIN ShiftType = {"slli", "srli", "srai"}
  /\ DOMAIN RType = {"add", "sub", "sll", "slt", "sltu", "xor", "srl", "sra", "or", "and"}
  /\ DOMAIN MType = {"mul", "mulh", "mulhsu", "mulhu", "div", "divu", "rem", "remu"}
  /\ DOMAIN LoadType = {"lb", "lh", "lw", "lbu", "lhu"}
  /\ DOMAIN StoreType = {"sb", "sh", "sw"}
  /\ DOMAIN BranchType = {"beq", "bne", "blt", "bge", "bltu", "bgeu"}
  /\ DOMAIN UType = {"lui", "auipc"}
  /\ DOMAIN CsrType = {"csrrw", "csrrs", "csrrwi", "csrrsi", "csrrci"}
  /\ DOMAIN Fixed = {"ecall", "mret", "wfi"}
BY DEF IType, ShiftType, RType, MType, LoadType, StoreType, BranchType, UType, CsrType, Fixed

\* The assembler's form of an R-type mnemonic.
LEMMA EncodeRType ==
  ASSUME NEW i, i.m \in DOMAIN RType
  PROVE  Encode(i) = r_type(i, RType[i.m][1], RType[i.m][2])
BY Tables DEF Encode

\* The assembler's form of a mnemonic of the M extension.
LEMMA EncodeMType ==
  ASSUME NEW i, i.m \in DOMAIN MType
  PROVE  Encode(i) = r_type(i, MType[i.m], 1)
BY Tables DEF Encode

\* The assembler's form of an I-type mnemonic.
LEMMA EncodeIType ==
  ASSUME NEW i, i.m \in DOMAIN IType
  PROVE  Encode(i) = i_type(i, i.imm, IType[i.m], OP.IMM)
BY Tables DEF Encode

\* The assembler's form of an immediate shift.
LEMMA EncodeShiftType ==
  ASSUME NEW i, i.m \in DOMAIN ShiftType
  PROVE  Encode(i) = i_type(i, 2^5 * ShiftType[i.m][2] + i.imm, ShiftType[i.m][1], OP.IMM)
BY Tables DEF Encode

\* The assembler's form of a load.
LEMMA EncodeLoadType ==
  ASSUME NEW i, i.m \in DOMAIN LoadType
  PROVE  Encode(i) = i_type(i, i.imm, LoadType[i.m], OP.LOAD)
BY Tables DEF Encode

\* The assembler's form of a store.
LEMMA EncodeStoreType ==
  ASSUME NEW i, i.m \in DOMAIN StoreType
  PROVE  Encode(i) = store_type(i, StoreType[i.m])
BY Tables DEF Encode

\* The assembler's form of LUI and AUIPC.
LEMMA EncodeUType ==
  ASSUME NEW i, i.m \in DOMAIN UType
  PROVE  Encode(i) = Upper(i.imm, i.rd, UType[i.m])
BY Tables DEF Encode

\* The assembler's form of JAL.
LEMMA EncodeJal ==
  ASSUME NEW i, i.m = "jal"
  PROVE  Encode(i) = jal(i)
BY Tables DEF Encode

\* What the core does with a word of the assembler.
LEMMA RunAlu ==
  ASSUME NEW m, NEW op \in DOMAIN RType, NEW dest, NEW src1, NEW src2
  PROVE  Execute(m, Encode(Insn(op, dest, src1, src2, 0)))
           = Wrote(m, dest, alu_result(AluOp[op], m.registers[src1], m.registers[src2]))
<1> DEFINE w == Encode(Insn(op, dest, src1, src2, 0))
<1>1. w = Word(RType[op][2], src2, src1, RType[op][1], dest, OP.REG)
  BY EncodeRType DEF Insn, r_type
<1>2. /\ w.funct7 = RType[op][2] /\ w.funct3 = RType[op][1] /\ w.opcode = OP.REG
      /\ w.rs1 = src1 /\ w.rs2 = src2 /\ w.rd = dest
  BY <1>1 DEF Word
<1>. HIDE DEF w
<1>3. w.funct7 # 1 BY <1>2 DEF RType
<1>4. Alternate(w) <=> op \in {"sub", "sra"}
  <2>1. w.funct7 = IF op \in {"sub", "sra"} THEN 32 ELSE 0 BY <1>2 DEF RType
  <2>. QED BY <2>1 DEF Alternate, Bits
<1>5. alu_ctrl(w) = AluOp[op]
  BY <1>2, <1>3, <1>4, Opcodes DEF RType, AluOp, alu_ctrl, ArithmeticOp
<1>. QED BY <1>2, <1>3, <1>5, ExecuteRegister DEF w

\* The core computes the mnemonics of the M extension.
LEMMA RunM ==
  ASSUME NEW m, NEW op \in DOMAIN MType, NEW dest, NEW src1, NEW src2
  PROVE  Execute(m, Encode(Insn(op, dest, src1, src2, 0)))
           = Wrote(m, dest, u32(MValue(op, m.registers[src1], m.registers[src2])))
<1> DEFINE w == Encode(Insn(op, dest, src1, src2, 0))
<1>1. w = Word(1, src2, src1, MType[op], dest, OP.REG)
  BY EncodeMType DEF Insn, r_type
<1>2. /\ w.funct7 = 1 /\ w.funct3 = MType[op] /\ w.opcode = OP.REG
      /\ w.rs1 = src1 /\ w.rs2 = src2 /\ w.rd = dest
  BY <1>1 DEF Word
<1>. HIDE DEF w
<1>. QED BY <1>2, ExecuteM DEF w

\* The two fields of an I-type word are its immediate.
LEMMA ImmediateFields ==
  \A v \in Signed12 :
    SignExtend(2^5 * Bits(v, 11, 5) + Bits(v, 4, 0), 12) = v
BY DEF Signed12, SignExtend, Bits

\* The immediate of an assembled I-type word is the one it was assembled from.
LEMMA ITypeImmediate ==
  ASSUME NEW i, NEW v \in Signed12, NEW f3, NEW opcode \in {OP.IMM, OP.LOAD}
  PROVE  o_imm(i_type(i, v, f3, opcode)) = v
BY ImmediateFields, Opcodes DEF o_imm, i_type, Word

\* The core computes the mnemonics with an immediate.
LEMMA RunImmediate ==
  ASSUME NEW m, NEW op \in DOMAIN IType, NEW dest, NEW src1, NEW v \in Signed12
  PROVE  Execute(m, Encode(Insn(op, dest, src1, 0, v)))
           = Wrote(m, dest, alu_result(ImmediateOp[op], m.registers[src1], u32(v)))
<1> DEFINE w == Encode(Insn(op, dest, src1, 0, v))
           i == Insn(op, dest, src1, 0, v)
<1>1. w = i_type(i, v, IType[op], OP.IMM) BY EncodeIType DEF Insn
<1>2. o_imm(w) = v
  <2>. HIDE DEF i, w
  <2>. QED BY <1>1, ITypeImmediate
<1>3. w.funct3 = IType[op] /\ w.opcode = OP.IMM /\ w.rs1 = src1 /\ w.rd = dest
  BY <1>1 DEF i_type, Word, Insn
<1>. HIDE DEF w, i
<1>4. alu_ctrl(w) = ImmediateOp[op]
  BY <1>3, Opcodes DEF IType, ImmediateOp, alu_ctrl, ArithmeticOp
<1>. QED BY <1>2, <1>3, <1>4, ExecuteImmediate DEF w

\* The case the generator uses most.
LEMMA RunAddi ==
  \A m, dest, src1 : \A v \in Signed12 :
    Execute(m, Encode(Insn("addi", dest, src1, 0, v)))
      = Wrote(m, dest, alu_result("ADD", m.registers[src1], u32(v)))
<1>1. "addi" \in DOMAIN IType /\ ImmediateOp["addi"] = "ADD" BY Tables DEF ImmediateOp
<1>2. \A m, dest, src1 : \A v \in Signed12 :
        Execute(m, Encode(Insn("addi", dest, src1, 0, v)))
          = Wrote(m, dest, alu_result(ImmediateOp["addi"], m.registers[src1], u32(v)))
  BY <1>1, RunImmediate, Zenon
<1>. QED BY <1>1, <1>2

\* The core computes the immediate shifts.
LEMMA RunShift ==
  ASSUME NEW m, NEW op \in DOMAIN ShiftType, NEW dest, NEW src1, NEW shamt \in 0 .. 31
  PROVE  Execute(m, Encode(Insn(op, dest, src1, 0, shamt)))
           = Wrote(m, dest, alu_result(ImmediateOp[op], m.registers[src1],
                                       u32(2^5 * ShiftType[op][2] + shamt)))
<1> DEFINE w == Encode(Insn(op, dest, src1, 0, shamt))
           i == Insn(op, dest, src1, 0, shamt)
           v == 2^5 * ShiftType[op][2] + shamt
<1>0. v = (IF op = "srai" THEN 1024 ELSE 0) + shamt BY SMTT(90) DEF ShiftType
<1>1. w = i_type(i, v, ShiftType[op][1], OP.IMM) BY EncodeShiftType DEF Insn
<1>2. o_imm(w) = v
  <2>1. v \in Signed12 BY <1>0 DEF Signed12
  <2>. HIDE DEF i, w, v
  <2>. QED BY <1>1, <2>1, ITypeImmediate
<1>3. /\ w.funct3 = ShiftType[op][1] /\ w.opcode = OP.IMM /\ w.rs1 = src1 /\ w.rd = dest
      /\ w.funct7 = Bits(v, 11, 5)
  BY <1>1 DEF i_type, Word, Insn
<1>. HIDE DEF w, i, v
<1>4. Alternate(w) <=> op = "srai"
  <2>1. w.funct7 = IF op = "srai" THEN 32 ELSE 0 BY <1>0, <1>3 DEF Bits
  <2>. QED BY <2>1 DEF Alternate, Bits
<1>5. alu_ctrl(w) = ImmediateOp[op]
  BY <1>3, <1>4, Opcodes, Tables DEF ShiftType, ImmediateOp, alu_ctrl, ArithmeticOp
<1>. QED BY <1>2, <1>3, <1>5, ExecuteImmediate DEF w, v

\* The core loads from the data-memory base plus the offset.
LEMMA RunLoad ==
  ASSUME NEW m, NEW dest, NEW v \in Signed12
  PROVE  Execute(m, Encode(Insn("lw", dest, 31, 0, v)))
           = Wrote(m, dest, m.memory[u32(m.registers[31] + u32(v))])
<1> DEFINE w == Encode(Insn("lw", dest, 31, 0, v))
           i == Insn("lw", dest, 31, 0, v)
<1>1. w = i_type(i, v, LoadType["lw"], OP.LOAD) BY EncodeLoadType, Tables DEF Insn
<1>2. o_imm(w) = v
  <2>. HIDE DEF i, w
  <2>. QED BY <1>1, ITypeImmediate
<1>3. w.opcode = OP.LOAD /\ w.rs1 = 31 /\ w.rd = dest BY <1>1 DEF i_type, Word, Insn
<1>. HIDE DEF w, i
<1>4. \A a, b : alu_result("ADD", a, b) = u32(a + b) BY DEF alu_result, u32
<1>. QED BY <1>2, <1>3, <1>4, ExecuteLoad DEF w

\* The core stores at the data-memory base plus the offset.
LEMMA RunStore ==
  ASSUME NEW m, NEW source, NEW v \in Signed12
  PROVE  Execute(m, Encode(Insn("sw", 0, 31, source, v)))
           = [pc |-> u32(m.pc + 4), registers |-> m.registers,
              memory |-> [m.memory EXCEPT ![u32(m.registers[31] + u32(v))]
                            = m.registers[source]],
              commits |-> m.commits]
<1> DEFINE w == Encode(Insn("sw", 0, 31, source, v))
           i == Insn("sw", 0, 31, source, v)
<1>1. w = Word(Bits(v, 11, 5), source, 31, StoreType["sw"], Bits(v, 4, 0), OP.STORE)
  BY EncodeStoreType, Tables DEF Insn, store_type
<1>2. /\ w.opcode = OP.STORE /\ w.rs1 = 31 /\ w.rs2 = source
      /\ w.funct7 = Bits(v, 11, 5) /\ w.rd = Bits(v, 4, 0)
  BY <1>1 DEF Word
<1>. HIDE DEF w, i
<1>3. o_imm(w) = v BY <1>2, ImmediateFields, Opcodes DEF o_imm
<1>4. \A a, b : alu_result("ADD", a, b) = u32(a + b) BY DEF alu_result, u32
<1>. QED BY <1>2, <1>3, <1>4, ExecuteStore DEF w

\* The four fields of a U-type word are the upper 20 bits.
LEMMA UpperFields ==
  ASSUME NEW u \in 0 .. 2^20 - 1, NEW dest, NEW opcode
  PROVE  UpperBits(Upper(u, dest, opcode)) = u
BY DEF UpperBits, Upper, Word, Bits

\* LUI writes its 20 bits, shifted.
LEMMA RunUpper ==
  ASSUME NEW m, NEW dest, NEW u \in 0 .. 2^20 - 1
  PROVE  Execute(m, Encode(Insn("lui", dest, 0, 0, u))) = Wrote(m, dest, u32(2^12 * u))
<1> DEFINE w == Encode(Insn("lui", dest, 0, 0, u))
<1>1. w = Upper(u, dest, OP.LUI) BY EncodeUType, Tables DEF Insn, UType
<1>2. w.opcode = OP.LUI /\ w.rd = dest BY <1>1 DEF Upper, Word
<1>3. UpperBits(w) = u
  <2>. HIDE DEF w
  <2>. QED BY <1>1, UpperFields
<1>. HIDE DEF w
<1>4. o_imm(w) = 2^12 * SignExtend(u, 20) BY <1>2, <1>3, Opcodes DEF o_imm
<1>5. u32(2^12 * SignExtend(u, 20)) = u32(2^12 * u)
  <2>1. PICK k, l \in Nat \ {0} : Modulus = 4096 * k /\ k * l = 2^20 BY ModulusDivides
  <2>2. CASE u >= 2^19
    <3>1. 2^12 * SignExtend(u, 20) = 2^12 * u - 2^12 * 2^20 BY <2>2 DEF SignExtend
    <3>2. 2^12 * 2^20 = l * Modulus
      <4>1. 2^12 * (k * l) = l * (4096 * k) BY <2>1
      <4>. QED BY <2>1, <4>1
    <3>3. 2^12 * SignExtend(u, 20) = 2^12 * u + (-l) * Modulus
      <4>1. (-l) * Modulus = -(l * Modulus) BY <2>1, ModulusLarge
      <4>2. l * Modulus \in Int /\ 2^12 * u \in Int BY <2>1, ModulusLarge
      <4>. QED BY <3>1, <3>2, <4>1, <4>2
    <3>4. 2^12 * u \in Int /\ -l \in Int BY <2>1
    <3>. QED BY <3>3, <3>4, u32Shift
  <2>3. CASE ~(u >= 2^19) BY <2>3 DEF SignExtend
  <2>. QED BY <2>2, <2>3
<1>. QED BY <1>2, <1>4, <1>5, ExecuteUpper DEF w

\* The jump to itself leaves the core as it is.
LEMMA RunJump ==
  ASSUME NEW m
  PROVE  Execute(m, Encode(Insn("jal", 0, 0, 0, 0)))
           = [pc |-> u32(m.pc + 0), registers |-> m.registers, memory |-> m.memory,
              commits |-> m.commits]
<1> DEFINE w == Encode(Insn("jal", 0, 0, 0, 0))
<1>1. w = Word(0, 0, 0, 0, 0, OP.JAL) BY EncodeJal DEF Insn, jal, Upper, Bits
<1>2. w.opcode = OP.JAL /\ w.rd = 0 BY <1>1 DEF Word
<1>3. o_imm(w) = 0
  <2>1. w.funct7 = 0 /\ w.rs1 = 0 /\ w.funct3 = 0 /\ w.rs2 = 0 BY <1>1 DEF Word
  <2>. HIDE DEF w
  <2>. QED BY <1>2, <2>1, Opcodes DEF o_imm, SignExtend, Bits
<1>. HIDE DEF w
<1>. QED BY <1>2, <1>3, ExecuteJump DEF w

\* What the assembler makes of registers and an immediate is a word.
LEMMA FieldRanges ==
  \A v \in Int : /\ Bits(v, 11, 5) \in 0 .. 127 /\ Bits(v, 4, 0) \in 0 .. 31
                 /\ Bits(v, 19, 13) \in 0 .. 127 /\ Bits(v, 12, 8) \in 0 .. 31
                 /\ Bits(v, 7, 3) \in 0 .. 31 /\ Bits(v, 2, 0) \in 0 .. 7
BY DEF Bits

\* R-type instructions and those of the M extension assemble to words.
LEMMA EncodedRegister ==
  \A op \in DOMAIN RType \cup DOMAIN MType, dest, src1, src2 \in Registers :
    Encode(Insn(op, dest, src1, src2, 0)) \in InstructionWord
<1> SUFFICES ASSUME NEW op \in DOMAIN RType \cup DOMAIN MType,
                    NEW dest \in Registers, NEW src1 \in Registers, NEW src2 \in Registers
             PROVE  Encode(Insn(op, dest, src1, src2, 0)) \in InstructionWord
    BY Zenon
<1>1. \A f7 \in 0 .. 127, f3 \in 0 .. 7 :
        Word(f7, src2, src1, f3, dest, OP.REG) \in InstructionWord
  BY Opcodes DEF Word, InstructionWord, Registers
<1>2. CASE op \in DOMAIN RType
  <2>1. Encode(Insn(op, dest, src1, src2, 0))
          = Word(RType[op][2], src2, src1, RType[op][1], dest, OP.REG)
    BY <1>2, EncodeRType DEF Insn, r_type
  <2>2. RType[op][2] \in 0 .. 127 /\ RType[op][1] \in 0 .. 7 BY <1>2 DEF RType
  <2>. QED BY <1>1, <2>1, <2>2
<1>3. CASE op \in DOMAIN MType
  <2>1. Encode(Insn(op, dest, src1, src2, 0)) = Word(1, src2, src1, MType[op], dest, OP.REG)
    BY <1>3, EncodeMType DEF Insn, r_type
  <2>2. MType[op] \in 0 .. 7 BY <1>3 DEF MType
  <2>. QED BY <1>1, <2>1, <2>2
<1>. QED BY <1>2, <1>3

\* The fields of an I-type word are in range.
LEMMA ITypeWord ==
  \A dest, src1 \in Registers, v \in Int, f3 \in 0 .. 7, opcode \in 0 .. 127 :
    Word(Bits(v, 11, 5), Bits(v, 4, 0), src1, f3, dest, opcode) \in InstructionWord
BY FieldRanges DEF Word, InstructionWord, Registers

\* Instructions with an immediate and loads assemble to words.
LEMMA EncodedImmediate ==
  \A op \in DOMAIN IType \cup DOMAIN ShiftType \cup DOMAIN LoadType, dest, src1 \in Registers,
     v \in Int :
    Encode(Insn(op, dest, src1, 0, v)) \in InstructionWord
<1> SUFFICES ASSUME NEW op \in DOMAIN IType \cup DOMAIN ShiftType \cup DOMAIN LoadType,
                    NEW dest \in Registers, NEW src1 \in Registers, NEW v \in Int
             PROVE  Encode(Insn(op, dest, src1, 0, v)) \in InstructionWord
    BY Zenon
<1> DEFINE i == Insn(op, dest, src1, 0, v)
<1>1. i.m = op /\ i.rd = dest /\ i.rs1 = src1 /\ i.imm = v BY DEF Insn
<1>. HIDE DEF i
<1>2. \A x \in Int, f3 \in 0 .. 7, opcode \in {OP.IMM, OP.LOAD} :
        i_type(i, x, f3, opcode) \in InstructionWord
  BY <1>1, ITypeWord, Opcodes, SMTT(90) DEF i_type
<1>3. CASE op \in DOMAIN IType
  <2>1. IType[op] \in 0 .. 7 BY <1>3 DEF IType
  <2>. QED BY <1>1, <1>2, <1>3, <2>1, EncodeIType DEF i
<1>4. CASE op \in DOMAIN ShiftType
  <2>1. ShiftType[op][1] \in 0 .. 7 /\ ShiftType[op][2] \in {0, 32} BY <1>4 DEF ShiftType
  <2>2. 2^5 * ShiftType[op][2] + v \in Int BY <2>1
  <2>. QED BY <1>1, <1>2, <1>4, <2>1, <2>2, EncodeShiftType DEF i
<1>5. CASE op \in DOMAIN LoadType
  <2>1. LoadType[op] \in 0 .. 7 BY <1>5 DEF LoadType
  <2>. QED BY <1>1, <1>2, <1>5, <2>1, EncodeLoadType DEF i
<1>. QED BY <1>3, <1>4, <1>5

\* Stores assemble to words.
LEMMA EncodedStore ==
  \A src \in Registers, v \in Int : Encode(Insn("sw", 0, 31, src, v)) \in InstructionWord
<1> SUFFICES ASSUME NEW src \in Registers, NEW v \in Int
             PROVE  Encode(Insn("sw", 0, 31, src, v)) \in InstructionWord
    OBVIOUS
<1>1. Encode(Insn("sw", 0, 31, src, v))
        = Word(Bits(v, 11, 5), src, 31, 2, Bits(v, 4, 0), OP.STORE)
  BY EncodeStoreType, Tables DEF Insn, store_type, StoreType
<1>. QED BY <1>1, FieldRanges, Opcodes DEF Word, InstructionWord, Registers

\* LUI assembles to a word.
LEMMA EncodedUpper ==
  \A dest \in Registers, u \in Int : Encode(Insn("lui", dest, 0, 0, u)) \in InstructionWord
<1> SUFFICES ASSUME NEW dest \in Registers, NEW u \in Int
             PROVE  Encode(Insn("lui", dest, 0, 0, u)) \in InstructionWord
    OBVIOUS
<1>1. Encode(Insn("lui", dest, 0, 0, u)) = Upper(u, dest, OP.LUI)
  BY EncodeUType, Tables DEF Insn, UType
<1>. QED BY <1>1, FieldRanges, Opcodes DEF Upper, Word, InstructionWord, Registers

\* The jump to itself assembles to a word.
LEMMA EncodedJump == Encode(Insn("jal", 0, 0, 0, 0)) \in InstructionWord
<1>1. Encode(Insn("jal", 0, 0, 0, 0)) = Word(0, 0, 0, 0, 0, OP.JAL)
  BY EncodeJal DEF Insn, jal, Upper, Bits
<1>. QED BY <1>1, Opcodes DEF Word, InstructionWord

-----------------------------------------------------------------------------
(* The generator.                                                          *)

\* The types of what the generator records, and of the core that runs it.
Recorded(b, mem) ==
  /\ b = [words |-> b.words, writes |-> b.writes, registers |-> b.registers]
  /\ b.words \in Seq(InstructionWord)
  /\ b.registers \in [Registers -> Operand] /\ b.registers[0] = 0
  /\ DOMAIN mem \subseteq DataAddress /\ mem \in [DOMAIN mem -> Operand]

\* What is recorded of a program is what the core does with its words.
Tracks(b, mem) ==
  LET m == Executed(b.words)
  IN  /\ m.registers = b.registers
      /\ m.commits = b.writes
      /\ m.memory \in [DataAddress -> Operand]
      /\ \A a \in DataAddress : m.memory[a] = IF a \in DOMAIN mem THEN mem[a] ELSE 0

\* The core is at the word n of the program.
PcAt(b, n) == Executed(b.words).pc = 4 * n

\* The words that are still to come fit.
Fits ==
  /\ phase = "seed" => left \in Lengths /\ Len(words) <= 1 + 2 * Cardinality(Seeded)
  /\ phase = "body" =>
       \E l \in Lengths : Len(words) + left <= 1 + 2 * Cardinality(Seeded) + l

\* The inductive invariant of the generator: what it has recorded is what the
\* core does with the words so far, and the words fit below the modulus.
ProgramInv ==
  /\ phase \in {"seed", "body", "done"}
  /\ left \in Nat
  /\ Recorded(Builder, memory)
  /\ registers[31] = Base
  /\ Tracks(Builder, memory)
  /\ PcAt(Builder, IF phase = "done" THEN Len(words) - 1 ELSE Len(words))
  /\ Fits

\* A word whose value the generator computes as the core does keeps the books.
LEMMA EmitTracks ==
  ASSUME NEW b, NEW mem, Recorded(b, mem), Tracks(b, mem), PcAt(b, Len(b.words)),
         4 * (Len(b.words) + 1) < Modulus,
         NEW i, Encode(i) \in InstructionWord, i.rd \in Registers,
         NEW value \in Int,
         Execute(Executed(b.words), Encode(i)) = Wrote(Executed(b.words), i.rd, u32(value))
  PROVE  /\ Recorded(Emit(b, i, value), mem) /\ Tracks(Emit(b, i, value), mem)
         /\ PcAt(Emit(b, i, value), Len(b.words) + 1)
         /\ Len(Emit(b, i, value).words) = Len(b.words) + 1
         /\ \A r \in Registers \ {0, i.rd} : Emit(b, i, value).registers[r] = b.registers[r]
         /\ i.rd # 0 => Emit(b, i, value).registers[i.rd] = u32(value)
<1> DEFINE e == Emit(b, i, value)
           m == Executed(b.words)
           v == u32(value)
<1>1. /\ e.words = Append(b.words, Encode(i))
      /\ e.writes = IF i.rd = 0 THEN b.writes ELSE Append(b.writes, <<4 * Len(b.words), i.rd, v>>)
      /\ e.registers = [b.registers EXCEPT ![i.rd] = IF i.rd = 0 THEN 0 ELSE v]
      /\ e = [words |-> e.words, writes |-> e.writes, registers |-> e.registers]
  <2>1. b = [words |-> b.words, writes |-> b.writes, registers |-> b.registers] BY DEF Recorded
  <2>2. e = [b EXCEPT !.words = Append(@, Encode(i)),
                      !.writes = IF i.rd = 0 THEN @ ELSE Append(@, <<4 * Len(b.words), i.rd, v>>),
                      !.registers = [@ EXCEPT ![i.rd] = IF i.rd = 0 THEN 0 ELSE v]]
    BY DEF Emit
  <2>. HIDE DEF e, v
  <2>. QED BY <2>1, <2>2
<1>2. v \in Operand BY u32Type
<1>3. /\ b.words \in Seq(InstructionWord) /\ b.registers \in [Registers -> Operand]
      /\ b.registers[0] = 0 /\ Len(b.words) \in Nat
  BY DEF Recorded
<1>. HIDE DEF e, v
<1>4. e.words \in Seq(InstructionWord) /\ Len(e.words) = Len(b.words) + 1 BY <1>1, <1>3
<1>5. Executed(e.words) = Wrote(m, i.rd, v) BY <1>1, <1>3, ExecutedAppend DEF v
<1>6. /\ m.registers = b.registers /\ m.commits = b.writes /\ m.pc = 4 * Len(b.words)
  BY DEF Tracks, PcAt
<1>7. e.registers \in [Registers -> Operand] /\ e.registers[0] = 0
  <2>1. 0 \in Operand BY ModulusLarge DEF Operand
  <2>2. (IF i.rd = 0 THEN 0 ELSE v) \in Operand BY <1>2, <2>1
  <2>3. e.registers \in [Registers -> Operand] BY <1>1, <1>3, <2>2
  <2>4. 0 \in Registers BY DEF Registers
  <2>5. CASE i.rd = 0 BY <1>1, <1>3, <2>3, <2>4, <2>5
  <2>6. CASE i.rd # 0 BY <1>1, <1>3, <2>3, <2>4, <2>6
  <2>. QED BY <2>3, <2>5, <2>6
<1>8. e.registers = IF i.rd # 0 THEN [b.registers EXCEPT ![i.rd] = v] ELSE b.registers
  <2>1. CASE i.rd = 0
    <3>1. \A r \in Registers : e.registers[r] = b.registers[r] BY <1>1, <1>3, <2>1
    <3>. QED BY <1>3, <1>7, <2>1, <3>1
  <2>. QED BY <1>1, <2>1
<1>9. u32(m.pc + 4) = 4 * (Len(b.words) + 1)
  <2>1. m.pc + 4 \in Operand /\ m.pc + 4 = 4 * (Len(b.words) + 1)
    BY <1>3, <1>6, ModulusLarge DEF Operand
  <2>. QED BY <2>1, u32Operand
<1>. HIDE DEF m
<1>10. /\ Executed(e.words).pc = u32(m.pc + 4)
       /\ Executed(e.words).registers
            = IF i.rd # 0 THEN [m.registers EXCEPT ![i.rd] = v] ELSE m.registers
       /\ Executed(e.words).memory = m.memory
       /\ Executed(e.words).commits
            = IF i.rd # 0 THEN Append(m.commits, <<m.pc, i.rd, v>>) ELSE m.commits
  BY <1>5 DEF Wrote
<1>11. Recorded(e, mem) BY <1>1, <1>4, <1>7 DEF Recorded
<1>12. Tracks(e, mem)
  <2>1. Executed(e.words).registers = e.registers BY <1>6, <1>8, <1>10
  <2>2. Executed(e.words).commits = e.writes BY <1>1, <1>6, <1>10
  <2>. QED BY <1>10, <2>1, <2>2 DEF Tracks, m
<1>13. PcAt(e, Len(b.words) + 1) BY <1>9, <1>10 DEF PcAt
<1>14. \A r \in Registers \ {0, i.rd} : e.registers[r] = b.registers[r] BY <1>1, <1>3
<1>15. i.rd # 0 => e.registers[i.rd] = v BY <1>1, <1>3
<1>. QED BY <1>4, <1>11, <1>12, <1>13, <1>14, <1>15 DEF e, v

\* The books are right and x31 holds the data-memory base.
Kept(b, mem) == /\ Recorded(b, mem) /\ b.registers[31] = Base
                /\ Tracks(b, mem) /\ PcAt(b, Len(b.words))

\* Emit keeps the books when the core computes the value it records.
LEMMA EmitKeeps ==
  ASSUME NEW b, NEW mem, Kept(b, mem), 4 * (Len(b.words) + 1) < Modulus,
         NEW i, Encode(i) \in InstructionWord, i.rd \in Registers \ {31},
         NEW value \in Int,
         Execute(Executed(b.words), Encode(i)) = Wrote(Executed(b.words), i.rd, u32(value))
  PROVE  /\ Kept(Emit(b, i, value), mem)
         /\ Len(Emit(b, i, value).words) = Len(b.words) + 1
         /\ i.rd # 0 => Emit(b, i, value).registers[i.rd] = u32(value)
<1>1. Recorded(b, mem) /\ Tracks(b, mem) /\ PcAt(b, Len(b.words)) /\ b.registers[31] = Base
  BY DEF Kept
<1>2. i.rd \in Registers BY DEF Registers
<1>3. /\ Recorded(Emit(b, i, value), mem) /\ Tracks(Emit(b, i, value), mem)
      /\ PcAt(Emit(b, i, value), Len(b.words) + 1)
      /\ Len(Emit(b, i, value).words) = Len(b.words) + 1
      /\ \A r \in Registers \ {0, i.rd} : Emit(b, i, value).registers[r] = b.registers[r]
      /\ i.rd # 0 => Emit(b, i, value).registers[i.rd] = u32(value)
  BY <1>1, <1>2, EmitTracks
<1>4. 31 \in Registers \ {0, i.rd} BY DEF Registers
<1>5. Emit(b, i, value).registers[31] = Base BY <1>1, <1>3, <1>4
<1>. QED BY <1>3, <1>5 DEF Kept

\* One word of each kind.
LEMMA KeptState ==
  ASSUME NEW b, NEW mem, Kept(b, mem)
  PROVE  /\ Executed(b.words).registers = b.registers
         /\ \A r \in Registers : b.registers[r] \in Operand
         /\ b.registers[0] = 0 /\ b.registers[31] = Base
         /\ b.words \in Seq(InstructionWord) /\ Len(b.words) \in Nat
BY DEF Kept, Recorded, Tracks

\* An R-type word keeps the books.
LEMMA KeepAlu ==
  ASSUME NEW b, NEW mem, Kept(b, mem), 4 * (Len(b.words) + 1) < Modulus,
         NEW op \in DOMAIN RType, NEW dest \in Registers \ {31},
         NEW src1 \in Registers, NEW src2 \in Registers
  PROVE  LET e == Emit(b, Insn(op, dest, src1, src2, 0),
                       AluValue(op, b.registers[src1], b.registers[src2]))
         IN  Kept(e, mem) /\ Len(e.words) = Len(b.words) + 1
<1> DEFINE i == Insn(op, dest, src1, src2, 0)
           value == AluValue(op, b.registers[src1], b.registers[src2])
<1>1. Encode(i) \in InstructionWord
  <2>1. op \in DOMAIN RType \cup DOMAIN MType /\ dest \in Registers OBVIOUS
  <2>. QED BY <2>1, EncodedRegister, Zenon
<1>2. i.rd = dest BY DEF Insn
<1>3. /\ Executed(b.words).registers = b.registers
      /\ b.registers[src1] \in Operand /\ b.registers[src2] \in Operand
  BY KeptState
<1>4. /\ value \in Int
      /\ u32(value) = alu_result(AluOp[op], b.registers[src1], b.registers[src2])
  BY <1>3, AluAgrees
<1>5. Execute(Executed(b.words), Encode(i)) = Wrote(Executed(b.words), i.rd, u32(value))
  BY <1>2, <1>3, <1>4, RunAlu
<1>. HIDE DEF i, value
<1>. QED BY <1>1, <1>2, <1>4, <1>5, EmitKeeps DEF i, value

\* What the generator expects of the M extension is a number.
LEMMA MValueType == \A op \in DOMAIN MType : \A a, b \in Operand : MValue(op, a, b) \in Int
<1> SUFFICES ASSUME NEW op \in DOMAIN MType, NEW a \in Operand, NEW b \in Operand
             PROVE  MValue(op, a, b) \in Int
    OBVIOUS
<1>1. a \in Int /\ b \in Int /\ s32(a) \in Int /\ s32(b) \in Int /\ Modulus \in Nat \ {0}
  BY s32Value, ModulusLarge DEF Operand
<1>2. op \in {"mul", "mulh", "mulhsu", "mulhu", "div", "divu", "rem", "remu"} BY Tables
<1>3. \A x, y \in Int : x * y \in Int /\ (x * y) \div Modulus \in Int BY <1>1, Remainder
<1>4. b # 0 => a \div b \in Int /\ a % b \in Int
  <2>1. b # 0 => b \in Nat \ {0} BY <1>1, ModulusLarge DEF Operand
  <2>. QED BY <1>1, <2>1, Remainder
<1>5. b # 0 => s32(b) # 0
  <2>1. s32(b) = IF Negative(b) THEN b - Modulus ELSE b BY s32Value
  <2>. QED BY <1>1, <2>1 DEF Operand
<1> DEFINE quotient == IF b = 0 THEN -1
                       ELSE IF s32(a) = -(Modulus \div 2) /\ s32(b) = -1 THEN s32(a)
                       ELSE signed_quotient(s32(a), s32(b))
<1>6. \A x, y \in Int : y # 0 => signed_quotient(x, y) \in Int
  <2> SUFFICES ASSUME NEW x \in Int, NEW y \in Int, y # 0 PROVE signed_quotient(x, y) \in Int
      BY Zenon
  <2>1. Abs(x) \in Int /\ Abs(y) \in Nat \ {0} BY DEF Abs
  <2>2. Abs(x) \div Abs(y) \in Int BY <2>1, Remainder
  <2>. QED BY <2>2 DEF signed_quotient
<1>7. quotient \in Int BY <1>1, <1>5, <1>6
<1>. HIDE DEF quotient
<1>8. quotient * s32(b) \in Int /\ s32(a) - quotient * s32(b) \in Int
  <2>1. \A x \in Int : s32(a) - x \in Int BY <1>1
  <2>. QED BY <1>1, <1>3, <1>7, <2>1
<1>9. MValue(op, a, b) =
        CASE op = "mul"    -> a * b
          [] op = "mulh"   -> (s32(a) * s32(b)) \div Modulus
          [] op = "mulhsu" -> (s32(a) * b) \div Modulus
          [] op = "mulhu"  -> (a * b) \div Modulus
          [] op = "div"    -> quotient
          [] op = "rem"    -> IF b = 0 THEN s32(a) ELSE s32(a) - quotient * s32(b)
          [] op = "divu"   -> IF b = 0 THEN Modulus - 1 ELSE a \div b
          [] op = "remu"   -> IF b = 0 THEN a ELSE a % b
  BY DEF MValue, quotient
<1>10. Modulus - 1 \in Int BY <1>1
<1>. QED BY <1>1, <1>2, <1>3, <1>4, <1>7, <1>8, <1>9, <1>10

\* A word of the M extension keeps the books.
LEMMA KeepM ==
  ASSUME NEW b, NEW mem, Kept(b, mem), 4 * (Len(b.words) + 1) < Modulus,
         NEW op \in DOMAIN MType, NEW dest \in Registers \ {31},
         NEW src1 \in Registers, NEW src2 \in Registers
  PROVE  LET e == Emit(b, Insn(op, dest, src1, src2, 0),
                       MValue(op, b.registers[src1], b.registers[src2]))
         IN  Kept(e, mem) /\ Len(e.words) = Len(b.words) + 1
<1> DEFINE i == Insn(op, dest, src1, src2, 0)
           value == MValue(op, b.registers[src1], b.registers[src2])
<1>1. Encode(i) \in InstructionWord
  <2>1. op \in DOMAIN RType \cup DOMAIN MType /\ dest \in Registers OBVIOUS
  <2>. QED BY <2>1, EncodedRegister, Zenon
<1>2. i.rd = dest BY DEF Insn
<1>3. /\ Executed(b.words).registers = b.registers
      /\ b.registers[src1] \in Operand /\ b.registers[src2] \in Operand
  BY KeptState
<1>4. value \in Int BY <1>3, MValueType
<1>5. Execute(Executed(b.words), Encode(i)) = Wrote(Executed(b.words), i.rd, u32(value))
  <2>1. ASSUME NEW m
        PROVE  Execute(m, Encode(Insn(op, dest, src1, src2, 0)))
                 = Wrote(m, dest, u32(MValue(op, m.registers[src1], m.registers[src2])))
    BY ONLY RunM, op \in DOMAIN MType
  <2>. QED BY <1>2, <1>3, <2>1
<1>. HIDE DEF i, value
<1>. QED BY <1>1, <1>2, <1>4, <1>5, EmitKeeps DEF i, value

\* An I-type word keeps the books.
LEMMA KeepImmediate ==
  ASSUME NEW b, NEW mem, Kept(b, mem), 4 * (Len(b.words) + 1) < Modulus,
         NEW op \in DOMAIN IType, NEW dest \in Registers \ {31}, NEW src1 \in Registers,
         NEW v \in Signed12
  PROVE  LET e == Emit(b, Insn(op, dest, src1, 0, v), ImmediateValue(op, b.registers[src1], v))
         IN  Kept(e, mem) /\ Len(e.words) = Len(b.words) + 1
<1> DEFINE i == Insn(op, dest, src1, 0, v)
           value == ImmediateValue(op, b.registers[src1], v)
<1>1. Encode(i) \in InstructionWord
  <2>1. v \in Int BY SignedRange, Zenon
  <2>. QED BY <2>1, EncodedImmediate, Zenon
<1>2. i.rd = dest BY DEF Insn
<1>3. Executed(b.words).registers = b.registers /\ b.registers[src1] \in Operand BY KeptState
<1>4. value \in Int /\ u32(value) = alu_result(ImmediateOp[op], b.registers[src1], u32(v))
  BY <1>3, ImmediateAgrees
<1>5. Execute(Executed(b.words), Encode(i)) = Wrote(Executed(b.words), i.rd, u32(value))
  <2>1. \A m : Execute(m, Encode(i))
                 = Wrote(m, dest, alu_result(ImmediateOp[op], m.registers[src1], u32(v)))
    BY RunImmediate, ZenonT(40)
  <2>. QED BY <1>2, <1>3, <1>4, <2>1
<1>. HIDE DEF i, value
<1>. QED BY <1>1, <1>2, <1>4, <1>5, EmitKeeps DEF i, value

\* The shift amounts.
Amounts == 0 .. 31

\* An immediate shift keeps the books.
LEMMA KeepShift ==
  ASSUME NEW b, NEW mem, Kept(b, mem), 4 * (Len(b.words) + 1) < Modulus,
         NEW op \in DOMAIN ShiftType, NEW dest \in Registers \ {31}, NEW src1 \in Registers,
         NEW shamt \in Amounts
  PROVE  LET e == Emit(b, Insn(op, dest, src1, 0, shamt),
                       ImmediateValue(op, b.registers[src1], shamt))
         IN  Kept(e, mem) /\ Len(e.words) = Len(b.words) + 1
<1> DEFINE i == Insn(op, dest, src1, 0, shamt)
           value == ImmediateValue(op, b.registers[src1], shamt)
<1>0. shamt \in 0 .. 31 BY DEF Amounts
<1>1. Encode(i) \in InstructionWord
  <2>. HIDE DEF i, value
  <2>1. shamt \in Int BY <1>0, SMTT(90)
  <2>2. op \in DOMAIN IType \cup DOMAIN ShiftType \cup DOMAIN LoadType OBVIOUS
  <2>. QED BY <2>1, <2>2, EncodedImmediate, Zenon DEF i
<1>2. i.rd = dest BY DEF Insn
<1>3. Executed(b.words).registers = b.registers /\ b.registers[src1] \in Operand BY KeptState
<1>4. /\ value \in Int
      /\ u32(value) = alu_result(ImmediateOp[op], b.registers[src1],
                                 u32(2^5 * ShiftType[op][2] + shamt))
  BY <1>0, <1>3, ShiftAgrees
<1>5. Execute(Executed(b.words), Encode(i)) = Wrote(Executed(b.words), i.rd, u32(value))
  <2>1. \A m : Execute(m, Encode(i))
                 = Wrote(m, dest, alu_result(ImmediateOp[op], m.registers[src1],
                                           u32(2^5 * ShiftType[op][2] + shamt)))
    BY <1>0, RunShift, ZenonT(60)
  <2>. QED BY <1>2, <1>3, <1>4, <2>1, Zenon
<1>. HIDE DEF i, value
<1>. QED BY <1>1, <1>2, <1>4, <1>5, EmitKeeps DEF i, value

\* The address of a load or a store is x31 plus the offset.
LEMMA OffsetAddress ==
  \A offset \in Offsets :
    /\ offset \in Signed12 /\ offset \in Int
    /\ Base + offset \in DataAddress /\ u32(Base + u32(offset)) = Base + offset
<1> SUFFICES ASSUME NEW offset \in Offsets
             PROVE  /\ offset \in Signed12 /\ offset \in Int
                    /\ Base + offset \in DataAddress /\ u32(Base + u32(offset)) = Base + offset
    BY Zenon
<1>1. offset \in 0 .. 2047 /\ Base + offset < Modulus
  <2>1. \A n : n \in 0 .. 2^11 - 1 => n \in 0 .. 2047 BY SMTT(90)
  <2>2. offset \in 0 .. 2^11 - 1 /\ Base + offset < Modulus BY AddressAssumption
  <2>. QED BY <2>1, <2>2
<1>2. Base = 1024 BY SMTT(90) DEF Base
<1>3. Base + offset \in Operand /\ offset \in Operand
  BY <1>1, <1>2, ModulusLarge DEF Operand
<1>4. u32(offset) = offset /\ u32(Base + offset) = Base + offset BY <1>3, u32Operand
<1>5. offset \in Signed12 BY <1>1 DEF Signed12
<1>6. Base + offset \in DataAddress BY DEF DataAddress
<1>. QED BY <1>1, <1>4, <1>5, <1>6

\* A load keeps the books: a word never stored reads zero on both sides.
LEMMA KeepLoad ==
  ASSUME NEW b, NEW mem, Kept(b, mem), 4 * (Len(b.words) + 1) < Modulus,
         NEW dest \in Registers \ {31}, NEW offset \in Offsets
  PROVE  LET e == Emit(b, Insn("lw", dest, 31, 0, offset),
                       IF Base + offset \in DOMAIN mem THEN mem[Base + offset] ELSE 0)
         IN  Kept(e, mem) /\ Len(e.words) = Len(b.words) + 1
<1> DEFINE i == Insn("lw", dest, 31, 0, offset)
           a == Base + offset
           value == IF a \in DOMAIN mem THEN mem[a] ELSE 0
           m == Executed(b.words)
<1>1. offset \in Signed12 /\ offset \in Int /\ a \in DataAddress
        /\ u32(Base + u32(offset)) = a
  BY OffsetAddress, Zenon
<1>2. Encode(i) \in InstructionWord
  <2>1. 31 \in Registers /\ dest \in Registers BY DEF Registers
  <2>2. "lw" \in DOMAIN IType \cup DOMAIN ShiftType \cup DOMAIN LoadType BY Tables
  <2>. QED BY <1>1, <2>1, <2>2, EncodedImmediate, Zenon
<1>3. i.rd = dest BY DEF Insn
<1>4. m.registers[31] = Base BY KeptState
<1>5. m.memory[a] = value /\ value \in Operand
  <2>1. /\ m.memory \in [DataAddress -> Operand]
        /\ \A x \in DataAddress : m.memory[x] = IF x \in DOMAIN mem THEN mem[x] ELSE 0
    BY DEF Kept, Tracks
  <2>. HIDE DEF m, a
  <2>. QED BY <1>1, <2>1
<1>6. value \in Int /\ u32(value) = value
  <2>1. \A x \in Operand : x \in Int BY ModulusLarge DEF Operand
  <2>. HIDE DEF value
  <2>. QED BY <1>5, <2>1, u32Operand
<1>7. Execute(m, Encode(i)) = Wrote(m, i.rd, u32(value))
  <2>1. \A x : Execute(x, Encode(i))
                 = Wrote(x, dest, x.memory[u32(x.registers[31] + u32(offset))])
    BY <1>1, RunLoad, Zenon
  <2>. HIDE DEF m, value, i
  <2>. QED BY <1>1, <1>3, <1>4, <1>5, <1>6, <2>1
<1>. HIDE DEF i, value
<1>. QED BY <1>2, <1>3, <1>6, <1>7, EmitKeeps DEF i, value

\* A store keeps the books.
LEMMA KeepStore ==
  ASSUME NEW b, NEW mem, Kept(b, mem), 4 * (Len(b.words) + 1) < Modulus,
         NEW src \in Registers, NEW offset \in Offsets
  PROVE  LET e == [words |-> Append(b.words, Encode(Insn("sw", 0, 31, src, offset))),
                   writes |-> b.writes, registers |-> b.registers]
             stored == [a \in {Base + offset} \cup DOMAIN mem |->
                          IF a = Base + offset THEN b.registers[src] ELSE mem[a]]
         IN  Kept(e, stored) /\ Len(e.words) = Len(b.words) + 1
<1> DEFINE w == Encode(Insn("sw", 0, 31, src, offset))
           e == [words |-> Append(b.words, w), writes |-> b.writes, registers |-> b.registers]
           address == Base + offset
           stored == [a \in {address} \cup DOMAIN mem |->
                        IF a = address THEN b.registers[src] ELSE mem[a]]
           m == Executed(b.words)
<1>1. offset \in Signed12 /\ offset \in Int /\ address \in DataAddress
        /\ u32(Base + u32(offset)) = address
  BY OffsetAddress, Zenon
<1>2. w \in InstructionWord BY <1>1, EncodedStore
<1>3. /\ m.registers = b.registers /\ \A r \in Registers : b.registers[r] \in Operand
      /\ b.registers[0] = 0 /\ b.registers[31] = Base
      /\ b.words \in Seq(InstructionWord) /\ Len(b.words) \in Nat
  BY KeptState
<1>4. /\ m.commits = b.writes /\ m.memory \in [DataAddress -> Operand]
      /\ \A x \in DataAddress : m.memory[x] = IF x \in DOMAIN mem THEN mem[x] ELSE 0
      /\ m.pc = 4 * Len(b.words)
      /\ b.registers \in [Registers -> Operand]
      /\ DOMAIN mem \subseteq DataAddress /\ mem \in [DOMAIN mem -> Operand]
  BY DEF Kept, Tracks, PcAt, Recorded
<1>5. Execute(m, w) = [pc |-> u32(m.pc + 4), registers |-> m.registers,
                       memory |-> [m.memory EXCEPT ![address] = m.registers[src]],
                       commits |-> m.commits]
  <2>1. \A x : Execute(x, w)
                 = [pc |-> u32(x.pc + 4), registers |-> x.registers,
                    memory |-> [x.memory EXCEPT ![u32(x.registers[31] + u32(offset))]
                                  = x.registers[src]],
                    commits |-> x.commits]
    BY <1>1, RunStore, Zenon
  <2>2. m.registers[31] = Base BY <1>3
  <2>. HIDE DEF m, w
  <2>. QED BY <1>1, <2>1, <2>2
<1>6. u32(m.pc + 4) = 4 * (Len(b.words) + 1)
  <2>1. m.pc + 4 \in Operand /\ m.pc + 4 = 4 * (Len(b.words) + 1)
    BY <1>3, <1>4, ModulusLarge DEF Operand
  <2>. QED BY <2>1, u32Operand
<1>. HIDE DEF m, w
<1>7. Executed(e.words) = Execute(m, w) BY <1>2, <1>3, ExecutedAppend DEF m
<1>8. /\ Executed(e.words).pc = 4 * (Len(b.words) + 1)
      /\ Executed(e.words).registers = b.registers
      /\ Executed(e.words).commits = b.writes
      /\ Executed(e.words).memory = [m.memory EXCEPT ![address] = b.registers[src]]
  <2>. HIDE DEF address
  <2>. QED BY <1>3, <1>4, <1>5, <1>6, <1>7
<1>9. e.words \in Seq(InstructionWord) /\ Len(e.words) = Len(b.words) + 1 BY <1>2, <1>3
<1>10. DOMAIN stored \subseteq DataAddress /\ stored \in [DOMAIN stored -> Operand]
  <2>. HIDE DEF address
  <2>. QED BY <1>1, <1>3, <1>4
<1>11. Executed(e.words).memory \in [DataAddress -> Operand]
  <2>. HIDE DEF address
  <2>. QED BY <1>1, <1>3, <1>4, <1>8
<1>12. ASSUME NEW x \in DataAddress
       PROVE  Executed(e.words).memory[x] = IF x \in DOMAIN stored THEN stored[x] ELSE 0
  <2>. HIDE DEF address
  <2>1. CASE x = address
    <3>1. Executed(e.words).memory[x] = b.registers[src] BY <1>4, <1>8, <2>1
    <3>2. x \in DOMAIN stored /\ stored[x] = b.registers[src] BY <2>1
    <3>. QED BY <3>1, <3>2
  <2>2. CASE x # address
    <3>1. Executed(e.words).memory[x] = m.memory[x] BY <1>4, <1>8, <2>2
    <3>2. /\ x \in DOMAIN stored <=> x \in DOMAIN mem
          /\ x \in DOMAIN mem => stored[x] = mem[x]
      BY <2>2
    <3>3. m.memory[x] = IF x \in DOMAIN mem THEN mem[x] ELSE 0 BY <1>4
    <3>. HIDE DEF stored, e
    <3>. QED BY <3>1, <3>2, <3>3
  <2>. QED BY <2>1, <2>2
<1>13. e = [words |-> e.words, writes |-> e.writes, registers |-> e.registers]
         /\ e.registers = b.registers /\ e.writes = b.writes
  OBVIOUS
<1>. HIDE DEF e, stored
<1>14. Recorded(e, stored) BY <1>3, <1>4, <1>9, <1>10, <1>13 DEF Recorded
<1>15. Tracks(e, stored) BY <1>8, <1>11, <1>12, <1>13 DEF Tracks
<1>16. PcAt(e, Len(e.words)) BY <1>8, <1>9 DEF PcAt
<1>17. Kept(e, stored) BY <1>3, <1>13, <1>14, <1>15, <1>16 DEF Kept
<1>. QED BY <1>9, <1>17 DEF e, stored, w, address

\* The LUI and ADDI parts of a seed add up to it.
LEMMA PartsOfValue ==
  \A value \in Int :
    /\ UpperPart(value) \in 0 .. 2^20 - 1 /\ LowerPart(value) \in Signed12
    /\ u32(LowerPart(value) + u32(2^12 * UpperPart(value))) = u32(value)
<1> SUFFICES ASSUME NEW value \in Int
             PROVE  /\ UpperPart(value) \in 0 .. 2^20 - 1 /\ LowerPart(value) \in Signed12
                    /\ u32(LowerPart(value) + u32(2^12 * UpperPart(value))) = u32(value)
    OBVIOUS
<1> DEFINE q == (value + 2048) \div 4096
           u == UpperPart(value)
           l == LowerPart(value)
           h == q \div 2^20
<1>1. q \in Int /\ l \in Int /\ l >= -2048 /\ l <= 2047 /\ value = 4096 * q + l
  BY SMTT(90) DEF LowerPart
<1>2. u = q % 2^20 BY SMTT(90) DEF UpperPart
<1>. HIDE DEF q, l
<1>3. u \in 0 .. 2^20 - 1 /\ h \in Int /\ q = h * 2^20 + u BY <1>1, <1>2, SMTT(90)
<1>. HIDE DEF u, h
<1>4. PICK k, f \in Nat \ {0} : Modulus = 4096 * k /\ k * f = 2^20 BY ModulusDivides
<1> DEFINE y == 2^12 * u
           z == (h * f) * Modulus
<1>5. y \in Int /\ z \in Int /\ h * f \in Int /\ value = (z + y) + l
  <2>1. 4096 * 2^20 = f * Modulus
    <3>1. 4096 * (k * f) = f * (4096 * k) BY <1>4
    <3>. QED BY <1>4, <3>1
  <2>2. z = h * (f * Modulus) BY <1>3, <1>4, ModulusLarge
  <2>3. y = 4096 * u BY SMTT(90)
  <2>4. z = h * (4096 * 2^20) BY <2>1, <2>2
  <2>. HIDE DEF y, z
  <2>5. value = (z + y) + l BY <1>1, <1>3, <2>3, <2>4, SMTT(90)
  <2>6. y \in Int /\ z \in Int BY <1>3, <2>3, <2>4, SMTT(90)
  <2>7. h * f \in Int BY <1>3, <1>4
  <2>. QED BY <2>5, <2>6, <2>7
<1>. HIDE DEF y
<1>6. value = (l + y) + z /\ l + y \in Int
  <2>. HIDE DEF z
  <2>. QED BY <1>1, <1>5
<1>7. u32(value) = u32(l + y) BY <1>5, <1>6, u32Shift, Zenon
<1>8. u32(l + u32(y)) = u32(l + y)
  <2>1. l \in Int /\ y \in Int BY <1>1, <1>5
  <2>. HIDE DEF z
  <2>. QED BY ONLY <2>1, u32Sum
<1>9. l \in Signed12 BY <1>1 DEF Signed12
<1>. QED BY <1>3, <1>7, <1>8, <1>9 DEF u, l, y

\* The LUI and ADDI that seed a register keep the books.
LEMMA KeepSeed ==
  ASSUME NEW b, NEW mem, Kept(b, mem), 4 * (Len(b.words) + 2) < Modulus,
         NEW dest \in Registers \ {0, 31}, NEW value \in Int
  PROVE  LET high == Emit(b, Insn("lui", dest, 0, 0, UpperPart(value)), 2^12 * UpperPart(value))
             e == Emit(high, Insn("addi", dest, dest, 0, LowerPart(value)), value)
         IN  Kept(e, mem) /\ Len(e.words) = Len(b.words) + 2
<1> DEFINE u == UpperPart(value)
           l == LowerPart(value)
           upper == Insn("lui", dest, 0, 0, u)
           lower == Insn("addi", dest, dest, 0, l)
           high == Emit(b, upper, 2^12 * u)
           e == Emit(high, lower, value)
           y == 2^12 * u
<1>1. /\ u \in 0 .. 2^20 - 1 /\ l \in Signed12 /\ u32(l + u32(y)) = u32(value)
  BY PartsOfValue, Zenon
<1>2. u \in Int /\ y \in Int /\ l \in Int
  <2>. HIDE DEF u, l
  <2>1. u \in Int /\ y \in Int BY <1>1, SMTT(90)
  <2>. QED BY <1>1, <2>1, SignedRange
<1>3. upper.rd = dest /\ lower.rd = dest BY DEF Insn
<1>4. dest \in Registers /\ dest \in Registers \ {31} /\ dest # 0 BY DEF Registers
<1>5. Len(b.words) \in Nat /\ 4 * (Len(b.words) + 1) < Modulus BY KeptState, ModulusLarge
<1>6. Encode(upper) \in InstructionWord /\ Encode(lower) \in InstructionWord
  <2>1. "addi" \in DOMAIN IType \cup DOMAIN ShiftType \cup DOMAIN LoadType BY Tables
  <2>. QED BY <1>2, <1>4, <2>1, EncodedUpper, EncodedImmediate, Zenon
<1>7. \A m : Execute(m, Encode(upper)) = Wrote(m, dest, u32(y)) BY <1>1, RunUpper, Zenon
<1>8. \A m : Execute(m, Encode(lower))
               = Wrote(m, dest, alu_result("ADD", m.registers[dest], u32(l)))
  BY <1>1, RunAddi, Zenon
<1>. HIDE DEF u, l, y, upper, lower
<1>9. /\ Kept(high, mem) /\ Len(high.words) = Len(b.words) + 1
      /\ high.registers[dest] = u32(y)
  BY <1>2, <1>3, <1>4, <1>5, <1>6, <1>7, EmitKeeps DEF y
<1>. HIDE DEF high
<1>10. Executed(high.words).registers = high.registers BY <1>9, KeptState
<1>11. alu_result("ADD", u32(y), u32(l)) = u32(value)
  <2>1. u32(y) \in Int BY <1>2, u32Type, ModulusLarge DEF Operand
  <2>2. alu_result("ADD", u32(y), u32(l)) = u32(u32(y) + u32(l)) BY DEF alu_result, u32
  <2>3. u32(u32(y) + u32(l)) = u32(u32(y) + l) BY <1>2, <2>1, u32Sum
  <2>4. u32(y) + l = l + u32(y) BY <1>2, <2>1
  <2>. QED BY <1>1, <2>2, <2>3, <2>4
<1>12. Execute(Executed(high.words), Encode(lower))
         = Wrote(Executed(high.words), lower.rd, u32(value))
  BY <1>3, <1>8, <1>9, <1>10, <1>11
<1>13. 4 * (Len(high.words) + 1) < Modulus BY <1>5, <1>9
<1>14. Kept(e, mem) /\ Len(e.words) = Len(high.words) + 1
  BY <1>3, <1>4, <1>6, <1>9, <1>12, <1>13, EmitKeeps
<1>15. Len(e.words) = Len(b.words) + 2 BY <1>5, <1>9, <1>14
<1>. QED BY <1>14, <1>15 DEF e, high, upper, lower, u, l, y

\* The completion marker in x30 keeps the books.
LEMMA KeepMarker ==
  ASSUME NEW b, NEW mem, Kept(b, mem), 4 * (Len(b.words) + 1) < Modulus
  PROVE  LET e == Emit(b, Insn("addi", 30, 0, 0, Marker), Marker)
         IN  Kept(e, mem) /\ Len(e.words) = Len(b.words) + 1
<1> DEFINE v == ImmediateValue("addi", b.registers[0], Marker)
<1>1. Marker \in Signed12 /\ "addi" \in DOMAIN IType BY Tables DEF Marker, Signed12
<1>2. 30 \in Registers \ {31} /\ 0 \in Registers BY DEF Registers
<1>3. LET e == Emit(b, Insn("addi", 30, 0, 0, Marker), v)
      IN  Kept(e, mem) /\ Len(e.words) = Len(b.words) + 1
  BY <1>1, <1>2, KeepImmediate
<1>4. v = Marker
  <2>1. b.registers[0] = 0 BY KeptState
  <2>. QED BY <2>1 DEF ImmediateValue, Marker
<1>. QED BY <1>3, <1>4

\* The jump to itself, which writes nothing.
LEMMA KeepJump ==
  ASSUME NEW b, NEW mem, Kept(b, mem), 4 * Len(b.words) < Modulus
  PROVE  LET e == [b EXCEPT !.words = Append(@, Encode(Insn("jal", 0, 0, 0, 0)))]
         IN  /\ Recorded(e, mem) /\ e.registers = b.registers /\ Tracks(e, mem)
             /\ Len(e.words) = Len(b.words) + 1 /\ PcAt(e, Len(b.words))
<1> DEFINE w == Encode(Insn("jal", 0, 0, 0, 0))
           e == [b EXCEPT !.words = Append(@, w)]
           m == Executed(b.words)
<1>1. /\ m.registers = b.registers
      /\ b.words \in Seq(InstructionWord) /\ Len(b.words) \in Nat
  BY KeptState
<1>2. /\ m.commits = b.writes /\ m.memory \in [DataAddress -> Operand]
      /\ \A x \in DataAddress : m.memory[x] = IF x \in DOMAIN mem THEN mem[x] ELSE 0
      /\ m.pc = 4 * Len(b.words)
      /\ b.registers \in [Registers -> Operand] /\ b.registers[0] = 0
      /\ DOMAIN mem \subseteq DataAddress /\ mem \in [DOMAIN mem -> Operand]
      /\ b = [words |-> b.words, writes |-> b.writes, registers |-> b.registers]
  BY DEF Kept, Tracks, PcAt, Recorded
<1>3. Execute(m, w) = [pc |-> u32(m.pc + 0), registers |-> m.registers, memory |-> m.memory,
                       commits |-> m.commits]
  BY RunJump
<1>4. u32(m.pc + 0) = 4 * Len(b.words)
  <2>1. m.pc + 0 \in Operand /\ m.pc + 0 = 4 * Len(b.words)
    BY <1>1, <1>2, ModulusLarge DEF Operand
  <2>. QED BY <2>1, u32Operand
<1>5. /\ e.words = Append(b.words, w) /\ e.writes = b.writes /\ e.registers = b.registers
      /\ e = [words |-> e.words, writes |-> e.writes, registers |-> e.registers]
  <2>1. e = [b EXCEPT !.words = Append(@, w)] OBVIOUS
  <2>. HIDE DEF w, e
  <2>. QED BY <1>2, <2>1
<1>6. w \in InstructionWord BY EncodedJump
<1>. HIDE DEF w, m, e
<1>7. Executed(e.words) = Execute(m, w) BY <1>1, <1>5, <1>6, ExecutedAppend DEF m
<1>8. e.words \in Seq(InstructionWord) /\ Len(e.words) = Len(b.words) + 1
  BY <1>1, <1>5, <1>6
<1>9. /\ Executed(e.words).pc = 4 * Len(b.words)
      /\ Executed(e.words).registers = b.registers
      /\ Executed(e.words).commits = b.writes
      /\ Executed(e.words).memory = m.memory
  BY <1>1, <1>2, <1>3, <1>4, <1>7
<1>10. Recorded(e, mem) BY <1>2, <1>5, <1>8 DEF Recorded
<1>11. Tracks(e, mem) BY <1>2, <1>5, <1>9 DEF Tracks
<1>12. PcAt(e, Len(b.words)) BY <1>9 DEF PcAt
<1>. QED BY <1>5, <1>8, <1>10, <1>11, <1>12 DEF e, w

-----------------------------------------------------------------------------

\* The seeded registers can be counted in their order.
LEMMA SeededFinite ==
  /\ IsFiniteSet(Seeded) /\ Cardinality(Seeded) \in Nat
  /\ \A dest \in Seeded : LET before == {r \in Seeded : r < dest}
                        IN  Cardinality(before) \in Nat
                              /\ Cardinality(before) + 1 <= Cardinality(Seeded)
<1>1. IsFiniteSet(Registers)
  <2>1. 0 \in Int /\ 31 \in Int OBVIOUS
  <2>. QED BY <2>1, FS_Interval, Zenon DEF Registers
<1>2. Seeded \subseteq Registers BY ChoiceAssumption
<1>3. IsFiniteSet(Seeded) BY <1>1, <1>2, FS_Subset
<1>4. ASSUME NEW dest \in Seeded
      PROVE  /\ Cardinality({r \in Seeded : r < dest}) \in Nat
             /\ Cardinality({r \in Seeded : r < dest}) + 1 <= Cardinality(Seeded)
  <2> DEFINE before == {r \in Seeded : r < dest}
  <2>1. before \subseteq Seeded /\ dest \notin before BY <1>2 DEF Registers
  <2>2. before # Seeded BY <2>1
  <2>. HIDE DEF before
  <2>3. /\ IsFiniteSet(before) /\ Cardinality(before) <= Cardinality(Seeded)
        /\ Cardinality(before) # Cardinality(Seeded)
    <3>1. before \in SUBSET Seeded BY <2>1
    <3>. QED BY <1>3, <2>2, <3>1, FS_Subset
  <2>4. Cardinality(before) \in Nat /\ Cardinality(Seeded) \in Nat
    BY <1>3, <2>3, FS_CardinalityType
  <2>5. Cardinality(before) + 1 <= Cardinality(Seeded) BY <2>3, <2>4
  <2>. QED BY <2>4, <2>5 DEF before
<1>. QED BY <1>3, <1>4, FS_CardinalityType

\* The invariant holds once the data-memory base is in x31.
LEMMA ProgramInit == Init => ProgramInv
<1> SUFFICES ASSUME Init PROVE ProgramInv OBVIOUS
<1> DEFINE empty == [words |-> <<>>, writes |-> <<>>, registers |-> [r \in Registers |-> 0]]
           i == Insn("addi", 31, 0, 0, Base)
           based == Emit(empty, i, Base)
<1>1. /\ phase = "seed" /\ left \in Lengths /\ memory = [a \in {} |-> 0]
      /\ words = based.words /\ expected_writes = based.writes /\ registers = based.registers
  BY DEF Init
<1>2. 0 \in Operand BY ModulusLarge DEF Operand
<1>3. Executed(<<>>) = Reset BY ExecutedEmpty
<1>4. Recorded(empty, memory) BY <1>1, <1>2 DEF Recorded, Registers
<1>5. Tracks(empty, memory) BY <1>1, <1>2, <1>3 DEF Tracks, Reset
<1>6. PcAt(empty, Len(empty.words)) BY <1>3 DEF PcAt, Reset
<1>7. 4 * (Len(empty.words) + 1) < Modulus BY ModulusLarge
<1>8. Base \in Signed12 /\ Base \in Int /\ Base \in Operand /\ Base = 1024
  <2>1. Base = 1024 BY SMTT(90) DEF Base
  <2>. QED BY <2>1, ModulusLarge DEF Signed12, Operand
<1>9. Encode(i) \in InstructionWord
  <2>1. "addi" \in DOMAIN IType \cup DOMAIN ShiftType \cup DOMAIN LoadType BY Tables
  <2>2. 31 \in Registers /\ 0 \in Registers BY DEF Registers
  <2>3. Base \in Int BY <1>8
  <2>. QED BY ONLY <2>1, <2>2, <2>3, EncodedImmediate DEF i
<1>10. i.rd = 31 BY DEF Insn
<1>11. Execute(Reset, Encode(i)) = Wrote(Reset, 31, u32(Base))
  <2>1. \A m : Execute(m, Encode(i))
                 = Wrote(m, 31, alu_result("ADD", m.registers[0], u32(Base)))
    <3>1. Base \in Signed12 BY <1>8
    <3>. QED BY <3>1, RunAddi, Zenon
  <2>2. Execute(Reset, Encode(i))
          = Wrote(Reset, 31, alu_result("ADD", Reset.registers[0], u32(Base)))
    BY <2>1
  <2>3. Reset.registers[0] = 0 BY DEF Reset, Registers
  <2>4. u32(Base) = Base BY <1>8, u32Operand
  <2>5. alu_result("ADD", 0, Base) = u32(Base) BY <1>8 DEF alu_result, u32
  <2>. QED BY <2>1, <2>2, <2>3, <2>4, <2>5
<1>12. Execute(Executed(empty.words), Encode(i))
         = Wrote(Executed(empty.words), i.rd, u32(Base))
  BY <1>3, <1>10, <1>11
<1>13. 31 \in Registers /\ 31 # 0 BY DEF Registers
<1>. HIDE DEF i, based
<1>14. /\ Recorded(based, memory) /\ Tracks(based, memory) /\ PcAt(based, Len(empty.words) + 1)
       /\ Len(based.words) = Len(empty.words) + 1 /\ based.registers[31] = u32(Base)
  <2>. HIDE DEF empty
  <2>. QED BY <1>4, <1>5, <1>6, <1>7, <1>8, <1>9, <1>10, <1>12, <1>13, EmitTracks DEF based
<1>15. Len(empty.words) + 1 = 1 OBVIOUS
<1>. HIDE DEF empty
<1>16. Builder = based
  <2>1. based = [words |-> based.words, writes |-> based.writes, registers |-> based.registers]
    BY <1>14 DEF Recorded
  <2>. QED BY <1>1, <2>1 DEF Builder
<1>17. Cardinality(Seeded) \in Nat BY SeededFinite
<1>18. Fits BY <1>1, <1>14, <1>15, <1>17 DEF Fits
<1>19. left \in Nat BY <1>1, AddressAssumption
<1>20. u32(Base) = Base BY <1>8, u32Operand
<1>. QED BY <1>1, <1>14, <1>15, <1>16, <1>18, <1>19, <1>20 DEF ProgramInv

\* What the invariant says while the program is built.
LEMMA InvKept ==
  ASSUME ProgramInv, phase # "done"
  PROVE  Kept(Builder, memory) /\ Builder.words = words /\ Builder.registers = registers
           /\ Len(words) \in Nat /\ left \in Nat
<1>1. Builder.words = words /\ Builder.registers = registers BY DEF Builder
<1>. QED BY <1>1 DEF ProgramInv, Kept, Recorded

\* A step of seed or body that keeps the books keeps the invariant.
LEMMA KeptInv ==
  ASSUME NEW b, Kept(b, memory'), Becomes(b), phase' \in {"seed", "body"}, left' \in Nat, Fits'
  PROVE  ProgramInv'
<1>1. b = [words |-> b.words, writes |-> b.writes, registers |-> b.registers]
  BY DEF Kept, Recorded
<1>2. Builder' = b BY <1>1 DEF Builder, Becomes
<1>. QED BY <1>2 DEF ProgramInv, Kept, Becomes

\* A program that ends below the data ends below the modulus.
LEMMA ProgramFits ==
  \A l \in Lengths : l \in Nat /\ 4 * (2 * Cardinality(Seeded) + l + 3) <= Modulus
<1>1. Base = 1024 BY SMTT(90) DEF Base
<1>. QED BY <1>1, AddressAssumption, SeededFinite, ModulusLarge

\* There is room for the next word.
LEMMA BodyRoom ==
  ASSUME ProgramInv, phase = "body"
  PROVE  4 * (Len(words) + 1) < Modulus
<1>1. PICK l \in Lengths : Len(words) + left <= 1 + 2 * Cardinality(Seeded) + l
  BY DEF ProgramInv, Fits
<1>2. l \in Nat /\ 4 * (2 * Cardinality(Seeded) + l + 3) <= Modulus BY ProgramFits
<1>3. Len(words) \in Nat /\ left \in Nat BY InvKept
<1>. QED BY <1>1, <1>2, <1>3, SeededFinite, ModulusLarge

\* A word of the body that keeps the books keeps the invariant.
LEMMA IterationInv ==
  ASSUME ProgramInv, Iterates,
         NEW b, Kept(b, memory'), Becomes(b), Len(b.words) = Len(words) + 1
  PROVE  ProgramInv'
<1>1. phase = "body" /\ left > 0 /\ left' = left - 1 /\ phase' = "body" BY DEF Iterates
<1>2. PICK l \in Lengths : Len(words) + left <= 1 + 2 * Cardinality(Seeded) + l
  BY <1>1 DEF ProgramInv, Fits
<1>3. l \in Nat BY AddressAssumption
<1>4. Len(words) \in Nat /\ left \in Nat BY <1>1, InvKept
<1>5. Len(words') = Len(words) + 1 BY DEF Becomes
<1>6. Len(words') + left' <= 1 + 2 * Cardinality(Seeded) + l
  BY <1>1, <1>2, <1>3, <1>4, <1>5, SeededFinite
<1>7. Fits' BY <1>1, <1>6 DEF Fits
<1>8. left' \in Nat BY <1>1, <1>4
<1>. QED BY <1>1, <1>7, <1>8, KeptInv

\* What the invariant says before a word of the body.
LEMMA BodyKept ==
  ASSUME ProgramInv, Iterates
  PROVE  /\ Kept(Builder, memory) /\ 4 * (Len(Builder.words) + 1) < Modulus
         /\ Builder.words = words /\ Builder.registers = registers
BY BodyRoom, InvKept DEF Iterates

\* The generator never chooses x31 as a destination, nor seeds x0.
LEMMA ChosenRegisters ==
  /\ \A r \in Sources : r \in Registers
  /\ \A r \in Destinations : r \in Registers \ {31}
  /\ \A r \in Seeded : r \in Registers \ {0, 31}
BY ChoiceAssumption

\* A random R-type instruction keeps the invariant.
LEMMA AluStep == ProgramInv /\ Alu => ProgramInv'
<1> SUFFICES ASSUME ProgramInv, Alu PROVE ProgramInv' OBVIOUS
<1>1. Iterates /\ memory' = memory BY DEF Alu
<1>2. PICK op \in DOMAIN RType, dest \in Destinations, src1 \in Sources, src2 \in Sources :
        Becomes(Emit(Builder, Insn(op, dest, src1, src2, 0),
                     AluValue(op, registers[src1], registers[src2])))
  BY DEF Alu
<1> DEFINE e == Emit(Builder, Insn(op, dest, src1, src2, 0),
                     AluValue(op, registers[src1], registers[src2]))
<1>3. dest \in Registers \ {31} /\ src1 \in Registers /\ src2 \in Registers BY ChosenRegisters
<1>4. Kept(e, memory) /\ Len(e.words) = Len(words) + 1 BY <1>1, <1>3, BodyKept, KeepAlu
<1>. HIDE DEF e
<1>5. Becomes(e) BY <1>2 DEF e
<1>. QED BY <1>1, <1>4, <1>5, IterationInv

\* A random instruction of the M extension keeps the invariant.
LEMMA MStep == ProgramInv /\ M => ProgramInv'
<1> SUFFICES ASSUME ProgramInv, M PROVE ProgramInv' OBVIOUS
<1>1. Iterates /\ memory' = memory BY DEF M
<1>2. PICK op \in DOMAIN MType, dest \in Destinations, src1 \in Sources, src2 \in Sources :
        Becomes(Emit(Builder, Insn(op, dest, src1, src2, 0),
                     MValue(op, registers[src1], registers[src2])))
  BY DEF M
<1> DEFINE e == Emit(Builder, Insn(op, dest, src1, src2, 0),
                     MValue(op, registers[src1], registers[src2]))
<1>3. dest \in Registers \ {31} /\ src1 \in Registers /\ src2 \in Registers BY ChosenRegisters
<1>4. Kept(e, memory) /\ Len(e.words) = Len(words) + 1 BY <1>1, <1>3, BodyKept, KeepM
<1>. HIDE DEF e
<1>5. Becomes(e) BY <1>2 DEF e
<1>. QED BY <1>1, <1>4, <1>5, IterationInv

\* The generator's immediates fit their fields.
LEMMA ChosenImmediates ==
  /\ \A v \in Immediates : v \in Signed12
  /\ \A v \in Shifts : v \in Amounts
<1>1. \A v : v \in -(2^11) .. 2^11 - 1 => v \in Signed12 BY SMTT(90) DEF Signed12
<1>2. Immediates \subseteq -(2^11) .. 2^11 - 1 /\ Shifts \subseteq 0 .. 31 BY ChoiceAssumption
<1>. QED BY <1>1, <1>2, Zenon DEF Amounts

\* A random instruction with an immediate keeps the invariant.
LEMMA ImmediateStep == ProgramInv /\ Immediate => ProgramInv'
<1> SUFFICES ASSUME ProgramInv, Immediate PROVE ProgramInv' OBVIOUS
<1>1. Iterates /\ memory' = memory BY DEF Immediate
<1>2. PICK op \in DOMAIN IType \cup DOMAIN ShiftType, dest \in Destinations, src1 \in Sources :
        \E immediate \in IF op \in DOMAIN ShiftType THEN Shifts ELSE Immediates :
          Becomes(Emit(Builder, Insn(op, dest, src1, 0, immediate),
                       ImmediateValue(op, registers[src1], immediate)))
  BY DEF Immediate
<1>3. PICK v \in IF op \in DOMAIN ShiftType THEN Shifts ELSE Immediates :
        Becomes(Emit(Builder, Insn(op, dest, src1, 0, v), ImmediateValue(op, registers[src1], v)))
  BY <1>2
<1> DEFINE e == Emit(Builder, Insn(op, dest, src1, 0, v), ImmediateValue(op, registers[src1], v))
<1>4. dest \in Registers \ {31} /\ src1 \in Registers BY ChosenRegisters
<1>5. Kept(e, memory) /\ Len(e.words) = Len(words) + 1
  <2>1. CASE op \in DOMAIN ShiftType
    <3>1. v \in Amounts BY <2>1, ChosenImmediates
    <3>2. /\ Kept(Builder, memory) /\ 4 * (Len(Builder.words) + 1) < Modulus
          /\ Builder.words = words /\ Builder.registers = registers
      BY <1>1, BodyKept
    <3>3. LET f == Emit(Builder, Insn(op, dest, src1, 0, v),
                        ImmediateValue(op, Builder.registers[src1], v))
          IN  Kept(f, memory) /\ Len(f.words) = Len(Builder.words) + 1
      BY ONLY <1>4, <2>1, <3>1, <3>2, KeepShift, SMTT(60)
    <3>. QED BY <3>2, <3>3
  <2>2. CASE op \notin DOMAIN ShiftType
    <3>1. v \in Signed12 /\ op \in DOMAIN IType BY <2>2, ChosenImmediates
    <3>2. /\ Kept(Builder, memory) /\ 4 * (Len(Builder.words) + 1) < Modulus
          /\ Builder.words = words /\ Builder.registers = registers
      BY <1>1, BodyKept
    <3>3. LET f == Emit(Builder, Insn(op, dest, src1, 0, v),
                        ImmediateValue(op, Builder.registers[src1], v))
          IN  Kept(f, memory) /\ Len(f.words) = Len(Builder.words) + 1
      BY ONLY <1>4, <3>1, <3>2, KeepImmediate
    <3>. QED BY <3>2, <3>3
  <2>. QED BY <2>1, <2>2
<1>. HIDE DEF e
<1>6. Becomes(e) BY <1>3 DEF e
<1>. QED BY <1>1, <1>5, <1>6, IterationInv

\* A random load keeps the invariant.
LEMMA LoadStep == ProgramInv /\ Load => ProgramInv'
<1> SUFFICES ASSUME ProgramInv, Load PROVE ProgramInv' OBVIOUS
<1>1. Iterates /\ memory' = memory BY DEF Load
<1>2. PICK dest \in Destinations, offset \in Offsets :
        Becomes(Emit(Builder, Insn("lw", dest, 31, 0, offset),
                     IF Base + offset \in DOMAIN memory THEN memory[Base + offset] ELSE 0))
  BY DEF Load
<1> DEFINE e == Emit(Builder, Insn("lw", dest, 31, 0, offset),
                     IF Base + offset \in DOMAIN memory THEN memory[Base + offset] ELSE 0)
<1>3. dest \in Registers \ {31} BY ChosenRegisters
<1>4. Kept(e, memory) /\ Len(e.words) = Len(words) + 1 BY <1>1, <1>3, BodyKept, KeepLoad
<1>. HIDE DEF e
<1>5. Becomes(e) BY <1>2 DEF e
<1>. QED BY <1>1, <1>4, <1>5, IterationInv

\* A random store keeps the invariant.
LEMMA StoreStep == ProgramInv /\ Store => ProgramInv'
<1> SUFFICES ASSUME ProgramInv, Store PROVE ProgramInv' OBVIOUS
<1>1. Iterates /\ expected_writes' = expected_writes /\ registers' = registers BY DEF Store
<1>2. PICK source \in Sources, offset \in Offsets :
        /\ words' = Append(words, Encode(Insn("sw", 0, 31, source, offset)))
        /\ memory' = [a \in {Base + offset} \cup DOMAIN memory |->
                        IF a = Base + offset THEN registers[source] ELSE memory[a]]
  BY DEF Store
<1> DEFINE e == [words |-> Append(words, Encode(Insn("sw", 0, 31, source, offset))),
                 writes |-> expected_writes, registers |-> registers]
<1>3. source \in Registers BY ChosenRegisters
<1>4. Builder.writes = expected_writes BY DEF Builder
<1>5. Kept(e, memory') /\ Len(e.words) = Len(words) + 1
  <2>1. /\ Kept(Builder, memory) /\ 4 * (Len(Builder.words) + 1) < Modulus
        /\ Builder.words = words /\ Builder.registers = registers
    BY <1>1, BodyKept
  <2>2. LET f == [words |-> Append(Builder.words, Encode(Insn("sw", 0, 31, source, offset))),
                  writes |-> Builder.writes, registers |-> Builder.registers]
            stored == [a \in {Base + offset} \cup DOMAIN memory |->
                         IF a = Base + offset THEN Builder.registers[source] ELSE memory[a]]
        IN  Kept(f, stored) /\ Len(f.words) = Len(Builder.words) + 1
    BY ONLY <1>3, <2>1, KeepStore
  <2>. QED BY <1>2, <1>4, <2>1, <2>2
<1>6. Becomes(e) BY <1>1, <1>2 DEF Becomes
<1>. HIDE DEF e
<1>. QED BY <1>1, <1>5, <1>6, IterationInv

\* Seeding a register keeps the invariant.
LEMMA SeedStep == ProgramInv /\ Seed => ProgramInv'
<1> SUFFICES ASSUME ProgramInv, Seed PROVE ProgramInv' OBVIOUS
<1>1. phase = "seed" /\ left' = left /\ memory' = memory BY DEF Seed
<1>2. PICK dest \in Seeded, value \in SeedValues :
        /\ Len(words) = 1 + 2 * Cardinality({r \in Seeded : r < dest})
        /\ LET high == Emit(Builder, Insn("lui", dest, 0, 0, UpperPart(value)),
                            2^12 * UpperPart(value))
           IN  Becomes(Emit(high, Insn("addi", dest, dest, 0, LowerPart(value)), value))
        /\ phase' = IF Len(words') = 1 + 2 * Cardinality(Seeded) THEN "body" ELSE "seed"
  BY DEF Seed
<1> DEFINE e == Emit(Emit(Builder, Insn("lui", dest, 0, 0, UpperPart(value)),
                          2^12 * UpperPart(value)),
                     Insn("addi", dest, dest, 0, LowerPart(value)), value)
<1>3. dest \in Registers \ {0, 31} /\ value \in Int
  BY ChosenRegisters, ChoiceAssumption, ModulusLarge DEF Operand
<1>4. Kept(Builder, memory) /\ Builder.words = words /\ Len(words) \in Nat /\ left \in Nat
  BY <1>1, InvKept
<1>5. Len(words) + 2 <= 1 + 2 * Cardinality(Seeded) BY <1>2, SeededFinite
<1>6. left \in Lengths BY <1>1 DEF ProgramInv, Fits
<1>7. 4 * (Len(words) + 2) < Modulus
  <2>1. left \in Nat /\ 4 * (2 * Cardinality(Seeded) + left + 3) <= Modulus
    BY <1>6, ProgramFits
  <2>. QED BY <1>4, <1>5, <2>1, SeededFinite, ModulusLarge
<1>8. Kept(e, memory) /\ Len(e.words) = Len(words) + 2 BY <1>3, <1>4, <1>7, KeepSeed
<1>9. Becomes(e) BY <1>2
<1>. HIDE DEF e
<1>10. Len(words') = Len(words) + 2 BY <1>8, <1>9 DEF Becomes
<1>11. phase' \in {"seed", "body"} BY <1>2
<1>12. phase' = "body" => Len(words') = 1 + 2 * Cardinality(Seeded) BY <1>2
<1>13. Fits'
  <2>1. phase' = "seed" => left' \in Lengths /\ Len(words') <= 1 + 2 * Cardinality(Seeded)
    BY <1>1, <1>5, <1>6, <1>10
  <2>2. phase' = "body" =>
          Len(words') + left' <= 1 + 2 * Cardinality(Seeded) + left
    BY <1>1, <1>4, <1>12, SeededFinite
  <2>. QED BY <1>6, <2>1, <2>2 DEF Fits
<1>. QED BY <1>1, <1>4, <1>8, <1>9, <1>11, <1>13, KeptInv

\* The marker and the jump to itself end the program within the invariant.
LEMMA FinishStep == ProgramInv /\ Finish => ProgramInv'
<1> SUFFICES ASSUME ProgramInv, Finish PROVE ProgramInv' OBVIOUS
<1> DEFINE b == Emit(Builder, Insn("addi", 30, 0, 0, Marker), Marker)
           e == [b EXCEPT !.words = Append(@, Encode(Insn("jal", 0, 0, 0, 0)))]
<1>1. /\ phase = "body" /\ phase' = "done" /\ left' = left /\ memory' = memory
      /\ Becomes(e)
  BY DEF Finish
<1>2. /\ Kept(Builder, memory) /\ Builder.words = words /\ Len(words) \in Nat /\ left \in Nat
      /\ 4 * (Len(words) + 1) < Modulus
  BY <1>1, InvKept, BodyRoom
<1>3. Kept(b, memory) /\ Len(b.words) = Len(words) + 1 BY <1>2, KeepMarker
<1>. HIDE DEF b
<1>4. /\ Recorded(e, memory) /\ e.registers = b.registers /\ Tracks(e, memory)
      /\ Len(e.words) = Len(b.words) + 1 /\ PcAt(e, Len(b.words))
  BY <1>2, <1>3, KeepJump
<1>5. b.registers[31] = Base BY <1>3 DEF Kept
<1>. HIDE DEF e
<1>6. Builder' = e
  <2>1. e = [words |-> e.words, writes |-> e.writes, registers |-> e.registers]
    BY <1>4 DEF Recorded
  <2>. QED BY <1>1, <2>1 DEF Builder, Becomes
<1>7. Len(words') - 1 = Len(b.words) /\ registers' = e.registers
  BY <1>1, <1>2, <1>3, <1>4 DEF Becomes
<1>8. Fits' BY <1>1 DEF Fits
<1>. QED BY <1>1, <1>2, <1>4, <1>5, <1>6, <1>7, <1>8 DEF ProgramInv

\* Every step of the generator keeps the invariant.
LEMMA ProgramStep == ProgramInv /\ [Next]_vars => ProgramInv'
<1> SUFFICES ASSUME ProgramInv, [Next]_vars PROVE ProgramInv' OBVIOUS
<1>1. CASE Seed BY <1>1, SeedStep
<1>2. CASE Alu BY <1>2, AluStep
<1>3. CASE Immediate BY <1>3, ImmediateStep
<1>4. CASE M BY <1>4, MStep
<1>5. CASE Load BY <1>5, LoadStep
<1>6. CASE Store BY <1>6, StoreStep
<1>7. CASE Finish BY <1>7, FinishStep
<1>8. CASE UNCHANGED vars
  <2>1. Builder' = Builder BY <1>8 DEF Builder, vars
  <2>. QED BY <1>8, <2>1 DEF ProgramInv, Fits, vars
<1>. QED BY <1>1, <1>2, <1>3, <1>4, <1>5, <1>6, <1>7, <1>8 DEF Next

\* Of a finished program the invariant says what the test bench compares.
LEMMA InvExpected == ProgramInv => ExpectedOutcome
<1> SUFFICES ASSUME ProgramInv, phase = "done" PROVE ExpectedOutcome BY DEF ExpectedOutcome
<1>1. Builder.words = words /\ Builder.writes = expected_writes BY DEF Builder
<1>2. /\ Executed(words).commits = expected_writes
      /\ \A a \in DataAddress : Executed(words).memory[a]
                                  = IF a \in DOMAIN memory THEN memory[a] ELSE 0
      /\ DOMAIN memory \subseteq DataAddress
      /\ Executed(words).pc = 4 * (Len(words) - 1)
  BY <1>1 DEF ProgramInv, Tracks, Recorded, PcAt
<1>. QED BY <1>2 DEF ExpectedOutcome, Outcome

\* Whatever program generate_random_program builds, of any word size that holds
\* it, the core that executes it makes the register writes in order, leaves the
\* memory and reaches the address the generator recorded.
THEOREM ProgramsAsExpected == Spec => []ExpectedOutcome
<1>1. Init => ProgramInv BY ProgramInit
<1>2. ProgramInv /\ [Next]_vars => ProgramInv' BY ProgramStep
<1>3. ProgramInv => ExpectedOutcome BY InvExpected
<1>. QED BY <1>1, <1>2, <1>3, PTL DEF Spec

-----------------------------------------------------------------------------
(* The benches: a behaviour of MCSpec that is not a program takes no step. *)

\* The invariant of the three benches.
BenchInv ==
  /\ bench = "program" => ProgramInv
  /\ bench # "program" => phase = "idle"
  /\ bench = "word" => word \in InstructionWord
  /\ bench = "parcel" => parcel \in Parcel

\* Every bench starts in it.
LEMMA BenchInit == MCInit => BenchInv
<1> SUFFICES ASSUME MCInit PROVE BenchInv OBVIOUS
<1>1. CASE ParcelBench BY <1>1 DEF ParcelBench, BenchInv, Idle
<1>2. CASE WordBench
  <2>1. word \in InstructionWord BY <1>2, WordsAssumption DEF WordBench
  <2>. QED BY <1>2, <2>1 DEF WordBench, BenchInv, Idle
<1>3. CASE ProgramBench BY <1>3, ProgramInit DEF ProgramBench, BenchInv
<1>. QED BY <1>1, <1>2, <1>3 DEF MCInit

\* Every step keeps it.
LEMMA BenchStep == BenchInv /\ [MCNext]_<<vars, bench, parcel, word>> => BenchInv'
<1> SUFFICES ASSUME BenchInv, [MCNext]_<<vars, bench, parcel, word>> PROVE BenchInv' OBVIOUS
<1>1. [Next]_vars /\ UNCHANGED <<bench, parcel, word>> BY DEF MCNext, Body, Next
<1>2. CASE bench = "program" BY <1>1, <1>2, ProgramStep DEF BenchInv
<1>3. CASE bench # "program"
  <2>1. phase = "idle" BY <1>3 DEF BenchInv
  <2>2. ~Next BY <2>1 DEF Next, Seed, Alu, Immediate, M, Load, Store, Finish, Iterates
  <2>3. phase' = phase BY <1>1, <2>2 DEF vars
  <2>. QED BY <1>1, <1>3, <2>1, <2>3 DEF BenchInv
<1>. QED BY <1>2, <1>3

\* The same of the specification the run checks.
THEOREM BenchesAsExpected == MCSpec => []ExpectedOutcome
<1>1. BenchInv => ExpectedOutcome BY InvExpected DEF BenchInv, ExpectedOutcome
<1>. QED BY <1>1, BenchInit, BenchStep, PTL DEF MCSpec

-----------------------------------------------------------------------------
(* Single words.                                                           *)

\* The fields of a word are in range and determine it.
LEMMA Fields ==
  \A w \in InstructionWord :
    /\ w.funct7 \in 0 .. 127 /\ w.rs2 \in 0 .. 31 /\ w.rs1 \in 0 .. 31 /\ w.funct3 \in 0 .. 7
    /\ w.rd \in 0 .. 31 /\ w.opcode \in 0 .. 127
    /\ w = Word(w.funct7, w.rs2, w.rs1, w.funct3, w.rd, w.opcode)
BY DEF InstructionWord, Word

\* The upper 20 bits of a word as a number, and back.
Joined(f7, r2, r1, f3) == 8192 * f7 + 256 * r2 + 8 * r1 + f3

\* The upper 20 bits put together from their fields come apart again.
LEMMA UpperSplits ==
  \A f7 \in 0 .. 127, r2 \in 0 .. 31, r1 \in 0 .. 31, f3 \in 0 .. 7 :
    /\ Joined(f7, r2, r1, f3) \in 0 .. 2^20 - 1
    /\ \A dest, opcode : Upper(Joined(f7, r2, r1, f3), dest, opcode)
                           = Word(f7, r2, r1, f3, dest, opcode)
<1> SUFFICES ASSUME NEW f7 \in 0 .. 127, NEW r2 \in 0 .. 31, NEW r1 \in 0 .. 31,
                    NEW f3 \in 0 .. 7
             PROVE  /\ Joined(f7, r2, r1, f3) \in 0 .. 2^20 - 1
                    /\ \A dest, opcode : Upper(Joined(f7, r2, r1, f3), dest, opcode)
                                           = Word(f7, r2, r1, f3, dest, opcode)
    BY Zenon
<1> DEFINE u == Joined(f7, r2, r1, f3)
<1>0. u = 8192 * f7 + 256 * r2 + 8 * r1 + f3 BY DEF Joined
<1>. HIDE DEF u
<1>1. u \in 0 .. 2^20 - 1 BY <1>0, SMTT(90)
<1>2. Bits(u, 19, 13) = f7
  <2>1. u \div 8192 = f7 BY <1>0, SMTT(90)
  <2>. QED BY <2>1, SMTT(90) DEF Bits
<1>3. Bits(u, 12, 8) = r2
  <2>1. u \div 256 = 32 * f7 + r2 BY <1>0, SMTT(90)
  <2>2. (32 * f7 + r2) % 32 = r2 BY SMTT(90)
  <2>. QED BY <2>1, <2>2, SMTT(90) DEF Bits
<1>4. Bits(u, 7, 3) = r1
  <2>1. u \div 8 = 1024 * f7 + 32 * r2 + r1 BY <1>0, SMTT(90)
  <2>2. (1024 * f7 + 32 * r2 + r1) % 32 = r1 BY SMTT(90)
  <2>. QED BY <2>1, <2>2, SMTT(90) DEF Bits
<1>5. Bits(u, 2, 0) = f3 BY <1>0, SMTT(90) DEF Bits
<1>. QED BY <1>1, <1>2, <1>3, <1>4, <1>5, Zenon DEF Upper, u

\* A U-type word is assembled again from its upper 20 bits.
LEMMA UpperReassembles ==
  \A w \in InstructionWord :
    /\ UpperBits(w) \in 0 .. 2^20 - 1
    /\ Upper(UpperBits(w), w.rd, w.opcode) = w
<1> SUFFICES ASSUME NEW w \in InstructionWord
             PROVE  /\ UpperBits(w) \in 0 .. 2^20 - 1
                    /\ Upper(UpperBits(w), w.rd, w.opcode) = w
    OBVIOUS
<1>1. UpperBits(w) = Joined(w.funct7, w.rs2, w.rs1, w.funct3) BY SMTT(90) DEF UpperBits, Joined
<1>2. /\ w.funct7 \in 0 .. 127 /\ w.rs2 \in 0 .. 31 /\ w.rs1 \in 0 .. 31
      /\ w.funct3 \in 0 .. 7
      /\ w = Word(w.funct7, w.rs2, w.rs1, w.funct3, w.rd, w.opcode)
  BY Fields
<1>3. Joined(w.funct7, w.rs2, w.rs1, w.funct3) \in 0 .. 2^20 - 1
  BY <1>2, UpperSplits, ZenonT(30)
<1>4. \A dest, opcode : Upper(Joined(w.funct7, w.rs2, w.rs1, w.funct3), dest, opcode)
                          = Word(w.funct7, w.rs2, w.rs1, w.funct3, dest, opcode)
  BY <1>2, UpperSplits, ZenonT(30)
<1>. QED BY <1>1, <1>2, <1>3, <1>4, Zenon

\* The two fields of an immediate of 12 bits.
LEMMA ImmediateSplits ==
  \A f7 \in 0 .. 127, r2 \in 0 .. 31 :
    LET v == SignExtend(2^5 * f7 + r2, 12)
    IN  v \in Signed12 /\ Bits(v, 11, 5) = f7 /\ Bits(v, 4, 0) = r2
BY SMTT(90) DEF SignExtend, Bits, Signed12

\* The slices of a branch offset are the fields it was read from.
LEMMA BranchSplits ==
  \A f7 \in 0 .. 127, d \in 0 .. 31 :
    LET v == SignExtend(2^12 * Bits(f7, 6, 6) + 2^11 * Bits(d, 0, 0)
                          + 2^5 * Bits(f7, 5, 0) + 2 * Bits(d, 4, 1), 13)
    IN  /\ v \in Int /\ FitsSigned(v, 13) /\ Even(v)
        /\ 64 * Bits(v, 12, 12) + Bits(v, 10, 5) = f7
        /\ 2 * Bits(v, 4, 1) + Bits(v, 11, 11) = d
<1> SUFFICES ASSUME NEW f7 \in 0 .. 127, NEW d \in 0 .. 31
             PROVE  LET v == SignExtend(2^12 * Bits(f7, 6, 6) + 2^11 * Bits(d, 0, 0)
                          + 2^5 * Bits(f7, 5, 0) + 2 * Bits(d, 4, 1), 13)
                    IN  /\ v \in Int /\ FitsSigned(v, 13) /\ Even(v)
                        /\ 64 * Bits(v, 12, 12) + Bits(v, 10, 5) = f7
                        /\ 2 * Bits(v, 4, 1) + Bits(v, 11, 11) = d
    BY Zenon
<1> DEFINE a == Bits(f7, 6, 6)
           b == Bits(f7, 5, 0)
           c == Bits(d, 0, 0)
           e == Bits(d, 4, 1)
           u == 2^12 * a + 2^11 * c + 2^5 * b + 2 * e
           v == SignExtend(u, 13)
<1>1. /\ a \in 0 .. 1 /\ b \in 0 .. 63 /\ c \in 0 .. 1 /\ e \in 0 .. 15
      /\ f7 = 64 * a + b /\ d = 2 * e + c
  BY SMTT(90) DEF Bits
<1>. HIDE DEF a, b, c, e
<1>2. v = 2048 * c + 32 * b + 2 * e - 4096 * a
  BY <1>1, SMTT(90) DEF SignExtend
<1>. HIDE DEF v
<1>3. v \in Int /\ FitsSigned(v, 13) /\ Even(v) BY <1>1, <1>2, SMTT(90) DEF FitsSigned, Even
<1>4. Bits(v, 12, 12) = a /\ Bits(v, 10, 5) = b /\ Bits(v, 4, 1) = e /\ Bits(v, 11, 11) = c
  BY <1>1, <1>2, SMTT(90) DEF Bits
<1>5. 64 * Bits(v, 12, 12) + Bits(v, 10, 5) = f7 /\ 2 * Bits(v, 4, 1) + Bits(v, 11, 11) = d
  BY <1>1, <1>4
<1>. QED BY <1>3, <1>5, Zenon DEF v, u, a, b, c, e

\* The slices of a jump offset and of the 20 bits that hold them.
JumpOffset(f7, r2, r1, f3) ==
  SignExtend(2^20 * Bits(f7, 6, 6) + 2^12 * (2^3 * r1 + f3)
               + 2^11 * Bits(r2, 0, 0) + 2 * (2^4 * Bits(f7, 5, 0) + Bits(r2, 4, 1)), 21)

\* The slices of a jump offset are the fields it was read from.
LEMMA JumpSplits ==
  ASSUME NEW w \in InstructionWord,
         NEW v, v = JumpOffset(w.funct7, w.rs2, w.rs1, w.funct3)
  PROVE  /\ v \in Int /\ FitsSigned(v, 21) /\ Even(v)
         /\ 2^19 * Bits(v, 20, 20) + 2^9 * Bits(v, 10, 1) + 2^8 * Bits(v, 11, 11)
              + Bits(v, 19, 12) = Joined(w.funct7, w.rs2, w.rs1, w.funct3)
<1> DEFINE f7 == w.funct7
           r2 == w.rs2
           r1 == w.rs1
           f3 == w.funct3
<1>f. /\ f7 \in 0 .. 127 /\ r2 \in 0 .. 31 /\ r1 \in 0 .. 31 /\ f3 \in 0 .. 7
      /\ v = JumpOffset(f7, r2, r1, f3)
  BY Fields
<1>. HIDE DEF f7, r2, r1, f3
<1> DEFINE a == Bits(f7, 6, 6)
           b == Bits(f7, 5, 0)
           c == Bits(r2, 0, 0)
           e == Bits(r2, 4, 1)
           u == 2^20 * a + 2^12 * (2^3 * r1 + f3) + 2^11 * c + 2 * (2^4 * b + e)
<1>0. v = SignExtend(u, 21) BY <1>f DEF JumpOffset
<1>1. /\ a \in 0 .. 1 /\ b \in 0 .. 63 /\ c \in 0 .. 1 /\ e \in 0 .. 15
      /\ f7 = 64 * a + b /\ r2 = 2 * e + c
  BY <1>f, SMTT(90) DEF Bits
<1> DEFINE x == 8 * r1 + f3
           y == 16 * b + e
<1>2. x \in 0 .. 255 /\ y \in 0 .. 1023
  <2>. HIDE DEF a, b, c, e
  <2>. QED BY <1>1, <1>f, SMTT(90)
<1>3. u = 2^20 * a + 4096 * x + 2048 * c + 2 * y
  <2>. HIDE DEF a, b, c, e
  <2>. QED BY <1>1, <1>f, SMTT(90)
<1>. HIDE DEF a, b, c, e, u, x, y
<1>4. v = 4096 * x + 2048 * c + 2 * y - 2^20 * a
  BY <1>0, <1>1, <1>2, <1>3, SMTT(90) DEF SignExtend
<1>5. v \in Int /\ FitsSigned(v, 21) /\ Even(v)
  BY <1>1, <1>2, <1>4, SMTT(90) DEF FitsSigned, Even
<1>6. Bits(v, 20, 20) = a BY <1>1, <1>2, <1>4, SMTT(90) DEF Bits
<1>7. Bits(v, 19, 12) = x
  <2>1. v \div 4096 = x - 256 * a BY <1>1, <1>2, <1>4, SMTT(90)
  <2>2. (x - 256 * a) % 256 = x BY <1>1, <1>2, SMTT(90)
  <2>. QED BY <2>1, <2>2, SMTT(90) DEF Bits
<1>8. Bits(v, 11, 11) = c
  <2>1. v \div 2048 = 2 * x + c - 512 * a BY <1>1, <1>2, <1>4, SMTT(90)
  <2>2. (2 * x + c - 512 * a) % 2 = c BY <1>1, <1>2, SMTT(90)
  <2>. QED BY <2>1, <2>2, SMTT(90) DEF Bits
<1>9. Bits(v, 10, 1) = y
  <2>1. v \div 2 = 2048 * x + 1024 * c + y - 524288 * a BY <1>1, <1>2, <1>4, SMTT(90)
  <2>2. (2048 * x + 1024 * c + y - 524288 * a) % 1024 = y BY <1>1, <1>2, SMTT(90)
  <2>. QED BY <2>1, <2>2, SMTT(90) DEF Bits
<1>10. 2^19 * a + 2^9 * y + 2^8 * c + x = Joined(f7, r2, r1, f3)
  BY <1>1, <1>f, SMTT(90) DEF x, y, Joined
<1>. QED BY <1>5, <1>6, <1>7, <1>8, <1>9, <1>10 DEF f7, r2, r1, f3

-----------------------------------------------------------------------------
(* The name of a legal word, by opcode.                                    *)

\* A code that is in a table has a name there.
LEMMA NamedIs ==
  ASSUME NEW table, NEW code, \E m \in DOMAIN table : table[m] = code
  PROVE  Named(table, code) \in DOMAIN table /\ table[Named(table, code)] = code
BY DEF Named

\* A legal word has one of the eleven opcodes.
LEMMA LegalOpcode ==
  ASSUME NEW w, instruction_is_legal(w)
  PROVE  w.opcode \in {OP.LUI, OP.AUIPC, OP.JAL, OP.JALR, OP.BRANCH, OP.LOAD, OP.STORE, OP.IMM,
                       OP.REG, OP.MISC_MEM, OP.SYSTEM}
BY DEF instruction_is_legal

\* The function fields of a legal word, by opcode.
LEMMA LegalFunct ==
  ASSUME NEW w, instruction_is_legal(w)
  PROVE  /\ w.opcode = OP.JALR => w.funct3 = 0
         /\ w.opcode = OP.BRANCH => w.funct3 \notin {2, 3}
         /\ w.opcode = OP.LOAD => w.funct3 \in {0, 1, 2, 4, 5}
         /\ w.opcode = OP.STORE => w.funct3 \in {0, 1, 2}
         /\ w.opcode = OP.IMM => /\ w.funct3 = 1 => w.funct7 = 0
                                 /\ w.funct3 = 5 => w.funct7 \in {0, 32}
         /\ w.opcode = OP.REG => w.funct7 \in {0, 1} \/ (w.funct7 = 32 /\ w.funct3 \in {0, 5})
         /\ w.opcode = OP.MISC_MEM => w.funct3 \in {0, 1}
         /\ w.opcode = OP.SYSTEM =>
              IF w.funct3 = 0 THEN \E s \in DOMAIN SystemWords : w = SystemWords[s]
              ELSE w.funct3 # 4
BY Opcodes DEF instruction_is_legal

\* The names the opcode alone decides.
LEMMA DecodeFixed ==
  ASSUME NEW w
  PROVE  /\ w.opcode = OP.LUI => decode_instruction(w) = "lui"
         /\ w.opcode = OP.AUIPC => decode_instruction(w) = "auipc"
         /\ w.opcode = OP.JAL => decode_instruction(w) = "jal"
         /\ w.opcode = OP.JALR => decode_instruction(w) = "jalr"
BY Opcodes DEF decode_instruction

\* The name of a branch.
LEMMA DecodeBranch ==
  ASSUME NEW w \in InstructionWord, w.opcode = OP.BRANCH, w.funct3 \notin {2, 3}
  PROVE  LET m == decode_instruction(w) IN m \in DOMAIN BranchType /\ BranchType[m] = w.funct3
<1>1. decode_instruction(w) = Named(BranchType, w.funct3)
  BY Opcodes DEF decode_instruction, BranchType
<1>2. w.funct3 \in 0 .. 7 BY Fields
<1>3. \E m \in DOMAIN BranchType : BranchType[m] = w.funct3 BY <1>2 DEF BranchType
<1>. QED BY <1>1, <1>3, NamedIs

\* The name of a load.
LEMMA DecodeLoad ==
  ASSUME NEW w, w.opcode = OP.LOAD, w.funct3 \in {0, 1, 2, 4, 5}
  PROVE  LET m == decode_instruction(w) IN m \in DOMAIN LoadType /\ LoadType[m] = w.funct3
<1>1. decode_instruction(w) = Named(LoadType, w.funct3)
  BY Opcodes DEF decode_instruction, LoadType
<1>2. \E m \in DOMAIN LoadType : LoadType[m] = w.funct3 BY DEF LoadType
<1>. QED BY <1>1, <1>2, NamedIs

\* The name of a store.
LEMMA DecodeStore ==
  ASSUME NEW w, w.opcode = OP.STORE, w.funct3 \in {0, 1, 2}
  PROVE  LET m == decode_instruction(w) IN m \in DOMAIN StoreType /\ StoreType[m] = w.funct3
<1>1. decode_instruction(w) = Named(StoreType, w.funct3)
  BY Opcodes DEF decode_instruction, StoreType
<1>2. \E m \in DOMAIN StoreType : StoreType[m] = w.funct3 BY DEF StoreType
<1>. QED BY <1>1, <1>2, NamedIs

\* Among the legal values of funct7 bit 5 tells 32.
LEMMA AlternateFunct7 ==
  \A w : w.funct7 \in {0, 1, 32} => (Alternate(w) <=> w.funct7 = 32)
BY DEF Alternate, Bits

\* The name of an instruction with an immediate.
LEMMA DecodeImmediate ==
  ASSUME NEW w \in InstructionWord, w.opcode = OP.IMM,
         w.funct3 = 1 => w.funct7 = 0, w.funct3 = 5 => w.funct7 \in {0, 32}
  PROVE  LET m == decode_instruction(w)
         IN  IF w.funct3 \in {1, 5}
             THEN m \in DOMAIN ShiftType /\ ShiftType[m] = <<w.funct3, w.funct7>>
             ELSE m \in DOMAIN IType /\ IType[m] = w.funct3
<1>1. decode_instruction(w)
        = <<"addi", "slli", "slti", "sltiu", "xori", IF Alternate(w) THEN "srai" ELSE "srli",
            "ori", "andi">>[w.funct3 + 1]
  BY Opcodes DEF decode_instruction
<1>2. w.funct3 \in {0, 1, 2, 3, 4, 5, 6, 7} BY Fields
<1>3. CASE w.funct3 \in {1, 5}
  <2>1. w.funct3 = 1 => decode_instruction(w) = "slli" BY <1>1
  <2>2. w.funct3 = 5 /\ w.funct7 = 0 => decode_instruction(w) = "srli"
    BY <1>1, AlternateFunct7
  <2>3. w.funct3 = 5 /\ w.funct7 = 32 => decode_instruction(w) = "srai"
    BY <1>1, AlternateFunct7
  <2>. QED BY <1>3, <2>1, <2>2, <2>3 DEF ShiftType
<1>4. CASE w.funct3 \notin {1, 5}
  <2>1. w.funct3 \in {0, 2, 3, 4, 6, 7} BY <1>2, <1>4
  <2>2. /\ w.funct3 = 0 => decode_instruction(w) = "addi"
        /\ w.funct3 = 2 => decode_instruction(w) = "slti"
        /\ w.funct3 = 3 => decode_instruction(w) = "sltiu"
        /\ w.funct3 = 4 => decode_instruction(w) = "xori"
        /\ w.funct3 = 6 => decode_instruction(w) = "ori"
        /\ w.funct3 = 7 => decode_instruction(w) = "andi"
    BY <1>1
  <2>. QED BY <1>4, <2>1, <2>2 DEF IType
<1>. QED BY <1>3, <1>4

\* The name of an R-type instruction.
LEMMA DecodeRegister ==
  ASSUME NEW w \in InstructionWord, w.opcode = OP.REG,
         w.funct7 \in {0, 1} \/ (w.funct7 = 32 /\ w.funct3 \in {0, 5})
  PROVE  LET m == decode_instruction(w)
         IN  IF w.funct7 = 1 THEN m \in DOMAIN MType /\ MType[m] = w.funct3
             ELSE m \in DOMAIN RType /\ RType[m] = <<w.funct3, w.funct7>>
<1>1. w.funct3 \in {0, 1, 2, 3, 4, 5, 6, 7} BY Fields
<1>2. CASE w.funct7 = 1
  <2>1. decode_instruction(w)
          = <<"mul", "mulh", "mulhsu", "mulhu", "div", "divu", "rem", "remu">>[w.funct3 + 1]
    BY <1>2, Opcodes DEF decode_instruction
  <2>2. /\ w.funct3 = 0 => decode_instruction(w) = "mul"
        /\ w.funct3 = 1 => decode_instruction(w) = "mulh"
        /\ w.funct3 = 2 => decode_instruction(w) = "mulhsu"
        /\ w.funct3 = 3 => decode_instruction(w) = "mulhu"
        /\ w.funct3 = 4 => decode_instruction(w) = "div"
        /\ w.funct3 = 5 => decode_instruction(w) = "divu"
        /\ w.funct3 = 6 => decode_instruction(w) = "rem"
        /\ w.funct3 = 7 => decode_instruction(w) = "remu"
    BY <2>1
  <2>. QED BY <1>1, <1>2, <2>2 DEF MType
<1>3. CASE w.funct7 # 1
  <2>0. w.funct7 = 0 \/ (w.funct7 = 32 /\ w.funct3 \in {0, 5}) BY <1>3
  <2>1. decode_instruction(w)
          = <<IF Alternate(w) THEN "sub" ELSE "add", "sll", "slt", "sltu", "xor",
              IF Alternate(w) THEN "sra" ELSE "srl", "or", "and">>[w.funct3 + 1]
    BY <1>3, Opcodes DEF decode_instruction
  <2>2. Alternate(w) <=> w.funct7 = 32 BY <2>0, AlternateFunct7
  <2>. HIDE DEF Alternate
  <2>3. /\ w.funct3 = 0 /\ w.funct7 = 0 => decode_instruction(w) = "add"
        /\ w.funct3 = 0 /\ w.funct7 = 32 => decode_instruction(w) = "sub"
        /\ w.funct3 = 1 => decode_instruction(w) = "sll"
        /\ w.funct3 = 2 => decode_instruction(w) = "slt"
        /\ w.funct3 = 3 => decode_instruction(w) = "sltu"
        /\ w.funct3 = 4 => decode_instruction(w) = "xor"
        /\ w.funct3 = 5 /\ w.funct7 = 0 => decode_instruction(w) = "srl"
        /\ w.funct3 = 5 /\ w.funct7 = 32 => decode_instruction(w) = "sra"
        /\ w.funct3 = 6 => decode_instruction(w) = "or"
        /\ w.funct3 = 7 => decode_instruction(w) = "and"
    BY <2>1, <2>2
  <2>. QED BY <1>1, <1>3, <2>0, <2>3 DEF RType
<1>. QED BY <1>2, <1>3

\* The four system words, and those the assembler writes out.
LEMMA SystemFunct3 ==
  /\ DOMAIN SystemWords = {"ecall", "ebreak", "mret", "wfi"}
  /\ \A s \in DOMAIN SystemWords :
       /\ SystemWords[s].funct3 = 0
       /\ s # "ebreak" => s \in DOMAIN Fixed /\ Fixed[s] = SystemWords[s]
BY DEF SystemWords, Fixed, Word

\* The name of a system instruction.
LEMMA DecodeSystem ==
  ASSUME NEW w \in InstructionWord, w.opcode = OP.SYSTEM, w.funct3 # 4,
         w.funct3 = 0 => \E s \in DOMAIN SystemWords : w = SystemWords[s]
  PROVE  LET m == decode_instruction(w)
         IN  IF w.funct3 = 0 THEN m \in DOMAIN SystemWords /\ SystemWords[m] = w
             ELSE (m = "csrrc" /\ w.funct3 = 3)
                    \/ (m \in DOMAIN CsrType /\ CsrType[m] = w.funct3)
<1>1. w.funct3 \in {0, 1, 2, 3, 4, 5, 6, 7} BY Fields
<1>2. CASE w.funct3 = 0
  <2>1. decode_instruction(w) = Named(SystemWords, w)
    BY <1>2, Opcodes DEF decode_instruction
  <2>. QED BY <1>2, <2>1, NamedIs
<1>3. CASE w.funct3 # 0
  <2> DEFINE table == [csrrw |-> 1, csrrs |-> 2, csrrc |-> 3, csrrwi |-> 5, csrrsi |-> 6,
                       csrrci |-> 7]
  <2>1. ~(\E s \in DOMAIN SystemWords : w = SystemWords[s]) BY <1>3, SystemFunct3
  <2>2. decode_instruction(w) = Named(table, w.funct3)
    BY <2>1, Opcodes DEF decode_instruction
  <2>3. \E m \in DOMAIN table : table[m] = w.funct3 BY <1>1, <1>3
  <2>4. decode_instruction(w) \in DOMAIN table /\ table[decode_instruction(w)] = w.funct3
    <3>. HIDE DEF table
    <3>. QED BY <2>2, <2>3, NamedIs
  <2>. QED BY <1>3, <2>4 DEF CsrType
<1>. QED BY <1>2, <1>3

-----------------------------------------------------------------------------
(* A legal word is assembled again from its name and immediate.            *)

\* The fields an instruction is assembled again from.
LEMMA DisassembledFields ==
  ASSUME NEW w
  PROVE  LET i == Disassembled(w)
             m == decode_instruction(w)
         IN  /\ i.m = m /\ i.rd = w.rd /\ i.rs1 = w.rs1 /\ i.rs2 = w.rs2
             /\ m \in DOMAIN ShiftType => i.imm = w.rs2
             /\ m \in DOMAIN UType => i.imm = UpperBits(w)
             /\ m \in DOMAIN CsrType => i.imm = 2^5 * w.funct7 + w.rs2
             /\ m \notin DOMAIN ShiftType \cup DOMAIN UType \cup DOMAIN CsrType
                  => i.imm = o_imm(w)
BY Tables DEF Disassembled, Insn

\* The word is what the assembler makes of its own name and fields.
Reassembles(w) == LET i == Disassembled(w) IN Encodable(i) /\ Encode(i) = w

\* LUI and AUIPC.
LEMMA ReassembleUpper ==
  ASSUME NEW w \in InstructionWord, w.opcode \in {OP.LUI, OP.AUIPC}
  PROVE  Reassembles(w)
<1> DEFINE i == Disassembled(w)
<1>1. i.m \in DOMAIN UType /\ UType[i.m] = w.opcode /\ i.imm = UpperBits(w) /\ i.rd = w.rd
  BY DecodeFixed, DisassembledFields, Tables DEF UType
<1>. HIDE DEF i
<1>2. UpperBits(w) \in 0 .. 2^20 - 1 /\ Upper(UpperBits(w), w.rd, w.opcode) = w
  BY UpperReassembles
<1>3. Encode(i) = w BY <1>1, <1>2, EncodeUType
<1>4. Encodable(i) BY <1>1, <1>2, Tables, Zenon DEF Encodable, Mnemonics
<1>. QED BY <1>3, <1>4 DEF Reassembles, i

\* JAL.
LEMMA ReassembleJump ==
  ASSUME NEW w \in InstructionWord, w.opcode = OP.JAL
  PROVE  Reassembles(w)
<1> DEFINE i == Disassembled(w)
           v == o_imm(w)
<1>1. i.m = "jal" /\ i.imm = v /\ i.rd = w.rd
  BY DecodeFixed, DisassembledFields, Tables
<1>2. v = JumpOffset(w.funct7, w.rs2, w.rs1, w.funct3)
  BY Opcodes DEF o_imm, JumpOffset
<1>. HIDE DEF i, v
<1>3. /\ w.funct7 \in 0 .. 127 /\ w.rs2 \in 0 .. 31 /\ w.rs1 \in 0 .. 31
      /\ w.funct3 \in 0 .. 7
      /\ w = Word(w.funct7, w.rs2, w.rs1, w.funct3, w.rd, w.opcode)
  BY Fields
<1>4. /\ v \in Int /\ FitsSigned(v, 21) /\ Even(v)
      /\ 2^19 * Bits(v, 20, 20) + 2^9 * Bits(v, 10, 1) + 2^8 * Bits(v, 11, 11)
           + Bits(v, 19, 12) = Joined(w.funct7, w.rs2, w.rs1, w.funct3)
  BY <1>2, JumpSplits
<1>5. jal(i) = Upper(Joined(w.funct7, w.rs2, w.rs1, w.funct3), i.rd, OP.JAL)
  BY <1>1, <1>4 DEF jal
<1>6. Upper(Joined(w.funct7, w.rs2, w.rs1, w.funct3), w.rd, OP.JAL) = w
  <2>1. \A dest, opcode : Upper(Joined(w.funct7, w.rs2, w.rs1, w.funct3), dest, opcode)
                            = Word(w.funct7, w.rs2, w.rs1, w.funct3, dest, opcode)
    BY ONLY <1>3, UpperSplits, ZenonT(30)
  <2>. QED BY <1>3, <2>1
<1>7. Encode(i) = w BY <1>1, <1>5, <1>6, EncodeJal
<1>8. Encodable(i) BY <1>1, <1>4, Tables DEF Encodable, Mnemonics
<1>. QED BY <1>7, <1>8 DEF Reassembles, i

\* The range of the 12-bit immediates.
LEMMA FitsTwelve == \A v \in Signed12 : FitsSigned(v, 12)
BY SMTT(90) DEF Signed12, FitsSigned

\* The immediate of an I-type or S-type word, and its two fields.
LEMMA ImmediateOf ==
  ASSUME NEW f7 \in 0 .. 127, NEW low \in 0 .. 31, NEW v, v = SignExtend(2^5 * f7 + low, 12)
  PROVE  v \in Signed12 /\ FitsSigned(v, 12) /\ Bits(v, 11, 5) = f7 /\ Bits(v, 4, 0) = low
BY ImmediateSplits, FitsTwelve

\* The upper 12 bits as an unsigned number.
LEMMA CsrAddress ==
  ASSUME NEW w \in InstructionWord, NEW n, n = 2^5 * w.funct7 + w.rs2
  PROVE  n \in 0 .. 2^12 - 1 /\ Bits(n, 11, 5) = w.funct7 /\ Bits(n, 4, 0) = w.rs2
<1> DEFINE f7 == w.funct7
           low == w.rs2
<1>1. f7 \in 0 .. 127 /\ low \in 0 .. 31 BY Fields
<1>2. n = 2^5 * f7 + low OBVIOUS
<1>. HIDE DEF f7, low
<1>3. n \in 0 .. 2^12 - 1 BY <1>1, <1>2, SMTT(90)
<1>4. Bits(n, 11, 5) = f7 BY <1>1, <1>2, SMTT(90) DEF Bits
<1>5. Bits(n, 4, 0) = low BY <1>1, <1>2, SMTT(90) DEF Bits
<1>. QED BY <1>3, <1>4, <1>5 DEF f7, low

\* JALR, loads and register-immediate instructions other than shifts.
LEMMA ReassembleIType ==
  ASSUME NEW w \in InstructionWord, w.opcode \in {OP.JALR, OP.LOAD, OP.IMM},
         w.opcode = OP.JALR => w.funct3 = 0,
         w.opcode = OP.LOAD => w.funct3 \in {0, 1, 2, 4, 5},
         w.opcode = OP.IMM => w.funct3 \notin {1, 5}
  PROVE  Reassembles(w)
<1> DEFINE i == Disassembled(w)
           v == o_imm(w)
<1>1. /\ w.opcode = OP.JALR => i.m = "jalr"
      /\ w.opcode = OP.LOAD => i.m \in DOMAIN LoadType /\ LoadType[i.m] = w.funct3
      /\ w.opcode = OP.IMM => i.m \in DOMAIN IType /\ IType[i.m] = w.funct3
  BY DecodeFixed, DecodeLoad, DecodeImmediate, DisassembledFields
<1>2. i.m \in {"jalr"} \cup DOMAIN LoadType \cup DOMAIN IType BY <1>1
<1>3. i.imm = v /\ i.rd = w.rd /\ i.rs1 = w.rs1
  BY <1>2, DisassembledFields, Tables
<1>4. v = SignExtend(2^5 * w.funct7 + w.rs2, 12) BY Opcodes DEF o_imm
<1>. HIDE DEF i, v
<1>5. /\ w.funct7 \in 0 .. 127 /\ w.rs2 \in 0 .. 31
      /\ w = Word(w.funct7, w.rs2, w.rs1, w.funct3, w.rd, w.opcode)
  BY Fields
<1>6. FitsSigned(v, 12) /\ Bits(v, 11, 5) = w.funct7 /\ Bits(v, 4, 0) = w.rs2
  BY ONLY <1>4, <1>5, ImmediateOf, SMTT(90)
<1>7. i_type(i, v, w.funct3, w.opcode) = w BY <1>3, <1>5, <1>6 DEF i_type
<1>8. Encode(i) = w
  <2>1. CASE w.opcode = OP.JALR
    <3>1. Encode(i) = i_type(i, i.imm, 0, OP.JALR) BY <1>1, <2>1, Tables DEF Encode
    <3>. QED BY <1>3, <1>7, <2>1, <3>1
  <2>2. CASE w.opcode = OP.LOAD BY <1>1, <1>3, <1>7, <2>2, EncodeLoadType
  <2>3. CASE w.opcode = OP.IMM BY <1>1, <1>3, <1>7, <2>3, EncodeIType
  <2>. QED BY <2>1, <2>2, <2>3
<1>9. Encodable(i) BY <1>2, <1>3, <1>6, Tables DEF Encodable, Mnemonics
<1>. QED BY <1>8, <1>9 DEF Reassembles, i

\* Immediate shifts.
LEMMA ReassembleShift ==
  ASSUME NEW w \in InstructionWord, w.opcode = OP.IMM, w.funct3 \in {1, 5},
         w.funct3 = 1 => w.funct7 = 0, w.funct3 = 5 => w.funct7 \in {0, 32}
  PROVE  Reassembles(w)
<1> DEFINE i == Disassembled(w)
<1>1. i.m \in DOMAIN ShiftType /\ ShiftType[i.m] = <<w.funct3, w.funct7>>
  BY DecodeImmediate, DisassembledFields
<1>2. i.imm = w.rs2 /\ i.rd = w.rd /\ i.rs1 = w.rs1 BY <1>1, DisassembledFields
<1>. HIDE DEF i
<1>3. /\ w.funct7 \in 0 .. 127 /\ w.rs2 \in 0 .. 31
      /\ w = Word(w.funct7, w.rs2, w.rs1, w.funct3, w.rd, w.opcode)
  BY Fields
<1>4. Encode(i) = i_type(i, 2^5 * w.funct7 + w.rs2, w.funct3, OP.IMM)
  BY <1>1, <1>2, EncodeShiftType
<1>5. Encode(i) = w BY <1>2, <1>3, <1>4, CsrAddress DEF i_type
<1>6. Encodable(i) BY <1>1, <1>2, <1>3, Tables DEF Encodable, Mnemonics
<1>. QED BY <1>5, <1>6 DEF Reassembles, i

\* Stores.
LEMMA ReassembleStore ==
  ASSUME NEW w \in InstructionWord, w.opcode = OP.STORE, w.funct3 \in {0, 1, 2}
  PROVE  Reassembles(w)
<1> DEFINE i == Disassembled(w)
           v == o_imm(w)
<1>1. i.m \in DOMAIN StoreType /\ StoreType[i.m] = w.funct3
  BY DecodeStore, DisassembledFields
<1>2. i.imm = v /\ i.rs2 = w.rs2 /\ i.rs1 = w.rs1 BY <1>1, DisassembledFields, Tables
<1>3. v = SignExtend(2^5 * w.funct7 + w.rd, 12) BY Opcodes DEF o_imm
<1>. HIDE DEF i, v
<1>4. /\ w.funct7 \in 0 .. 127 /\ w.rd \in 0 .. 31
      /\ w = Word(w.funct7, w.rs2, w.rs1, w.funct3, w.rd, w.opcode)
  BY Fields
<1>5. FitsSigned(v, 12) /\ Bits(v, 11, 5) = w.funct7 /\ Bits(v, 4, 0) = w.rd
  BY ONLY <1>3, <1>4, ImmediateOf, SMTT(90)
<1>6. Encode(i) = w BY <1>1, <1>2, <1>4, <1>5, EncodeStoreType DEF store_type
<1>7. Encodable(i) BY <1>1, <1>2, <1>5, Tables DEF Encodable, Mnemonics
<1>. QED BY <1>6, <1>7 DEF Reassembles, i

\* Branches.
LEMMA ReassembleBranch ==
  ASSUME NEW w \in InstructionWord, w.opcode = OP.BRANCH, w.funct3 \notin {2, 3}
  PROVE  Reassembles(w)
<1> DEFINE i == Disassembled(w)
           v == o_imm(w)
<1>1. i.m \in DOMAIN BranchType /\ BranchType[i.m] = w.funct3
  BY DecodeBranch, DisassembledFields
<1>2. i.imm = v /\ i.rs2 = w.rs2 /\ i.rs1 = w.rs1 BY <1>1, DisassembledFields, Tables
<1>3. v = SignExtend(2^12 * Bits(w.funct7, 6, 6) + 2^11 * Bits(w.rd, 0, 0)
                      + 2^5 * Bits(w.funct7, 5, 0) + 2 * Bits(w.rd, 4, 1), 13)
  BY Opcodes DEF o_imm
<1>4. /\ w.funct7 \in 0 .. 127 /\ w.rd \in 0 .. 31
      /\ w = Word(w.funct7, w.rs2, w.rs1, w.funct3, w.rd, w.opcode)
  BY Fields
<1>. HIDE DEF i, v
<1>5. /\ v \in Int /\ FitsSigned(v, 13) /\ Even(v)
      /\ 64 * Bits(v, 12, 12) + Bits(v, 10, 5) = w.funct7
      /\ 2 * Bits(v, 4, 1) + Bits(v, 11, 11) = w.rd
  BY <1>3, <1>4, BranchSplits, ZenonT(60)
<1>6. Encode(i) = branch(i, BranchType[i.m]) BY <1>1, Tables DEF Encode
<1>7. Encode(i) = w BY <1>1, <1>2, <1>4, <1>5, <1>6 DEF branch
<1>8. Encodable(i) BY <1>1, <1>2, <1>5, Tables DEF Encodable, Mnemonics
<1>. QED BY <1>7, <1>8 DEF Reassembles, i

\* R-type instructions and the M extension.
LEMMA ReassembleRegister ==
  ASSUME NEW w \in InstructionWord, w.opcode = OP.REG,
         w.funct7 \in {0, 1} \/ (w.funct7 = 32 /\ w.funct3 \in {0, 5})
  PROVE  Reassembles(w)
<1> DEFINE i == Disassembled(w)
<1>1. /\ w.funct7 = 1 => i.m \in DOMAIN MType /\ MType[i.m] = w.funct3
      /\ w.funct7 # 1 => i.m \in DOMAIN RType /\ RType[i.m] = <<w.funct3, w.funct7>>
  BY DecodeRegister, DisassembledFields
<1>2. i.rd = w.rd /\ i.rs1 = w.rs1 /\ i.rs2 = w.rs2 BY DisassembledFields
<1>. HIDE DEF i
<1>3. w = Word(w.funct7, w.rs2, w.rs1, w.funct3, w.rd, w.opcode) BY Fields
<1>4. Encode(i) = w
  <2>1. CASE w.funct7 = 1 BY <1>1, <1>2, <1>3, <2>1, EncodeMType DEF r_type
  <2>2. CASE w.funct7 # 1 BY <1>1, <1>2, <1>3, <2>2, EncodeRType DEF r_type
  <2>. QED BY <2>1, <2>2
<1>5. i.m \in DOMAIN MType \cup DOMAIN RType BY <1>1
<1>6. Encodable(i) BY <1>5, Tables DEF Encodable, Mnemonics
<1>. QED BY <1>4, <1>6 DEF Reassembles, i

\* CSR instructions, whose CSR number the assembler takes as it is.
LEMMA ReassembleCsr ==
  ASSUME NEW w \in InstructionWord, w.opcode = OP.SYSTEM,
         LET m == decode_instruction(w) IN m \in DOMAIN CsrType /\ CsrType[m] = w.funct3
  PROVE  Reassembles(w)
<1> DEFINE i == Disassembled(w)
<1>1. i.m \in DOMAIN CsrType /\ CsrType[i.m] = w.funct3 BY DisassembledFields
<1>2. i.imm = 2^5 * w.funct7 + w.rs2 /\ i.rd = w.rd /\ i.rs1 = w.rs1
  BY <1>1, DisassembledFields
<1>. HIDE DEF i
<1>3. /\ w.funct7 \in 0 .. 127 /\ w.rs2 \in 0 .. 31 /\ w.rs1 \in 0 .. 31
      /\ w = Word(w.funct7, w.rs2, w.rs1, w.funct3, w.rd, w.opcode)
  BY Fields
<1>5. Encode(i) = csr(i, CsrType[i.m]) BY <1>1, Tables DEF Encode
<1>6. /\ Bits(i.imm, 11, 5) = w.funct7 /\ Bits(i.imm, 4, 0) = w.rs2
      /\ i.imm \in 0 .. 2^12 - 1
  BY <1>2, CsrAddress
<1>7. Encode(i) = w BY <1>1, <1>2, <1>3, <1>5, <1>6 DEF csr
<1>8. Encodable(i) BY <1>1, <1>2, <1>3, <1>6, Tables, Zenon DEF Encodable, Mnemonics
<1>. QED BY <1>7, <1>8 DEF Reassembles, i

\* The words the assembler writes out.
LEMMA ReassembleFixed ==
  ASSUME NEW w, LET m == decode_instruction(w) IN m \in DOMAIN Fixed /\ Fixed[m] = w
  PROVE  Reassembles(w)
<1> DEFINE i == Disassembled(w)
<1>1. i.m \in DOMAIN Fixed /\ Fixed[i.m] = w BY DisassembledFields
<1>. HIDE DEF i
<1>2. Encode(i) = Fixed[i.m] BY <1>1, Tables DEF Encode
<1>3. Encodable(i) BY <1>1, Tables DEF Encodable, Mnemonics
<1>. QED BY <1>1, <1>2, <1>3 DEF Reassembles, i

\* LegalWordsReassemble of one word.
LEMMA LegalWord ==
  ASSUME NEW w \in InstructionWord, instruction_is_legal(w)
  PROVE  \/ decode_instruction(w) = "None" /\ w.opcode = OP.MISC_MEM /\ w.funct3 = 0
         \/ decode_instruction(w) \in {"csrrc", "ebreak", "fence.i"}
         \/ Reassembles(w)
<1>1. CASE w.opcode \in {OP.LUI, OP.AUIPC} BY <1>1, ReassembleUpper
<1>2. CASE w.opcode = OP.JAL BY <1>2, ReassembleJump
<1>3. CASE w.opcode \in {OP.JALR, OP.LOAD}
  BY <1>3, LegalFunct, Opcodes, ReassembleIType
<1>4. CASE w.opcode = OP.BRANCH BY <1>4, LegalFunct, ReassembleBranch
<1>5. CASE w.opcode = OP.STORE BY <1>5, LegalFunct, ReassembleStore
<1>6. CASE w.opcode = OP.IMM
  <2>1. CASE w.funct3 \in {1, 5} BY <1>6, <2>1, LegalFunct, ReassembleShift
  <2>2. CASE w.funct3 \notin {1, 5} BY <1>6, <2>2, Opcodes, ReassembleIType
  <2>. QED BY <2>1, <2>2
<1>7. CASE w.opcode = OP.REG BY <1>7, LegalFunct, ReassembleRegister
<1>8. CASE w.opcode = OP.MISC_MEM
  <2>1. w.funct3 \in {0, 1} BY <1>8, LegalFunct
  <2>2. decode_instruction(w) = IF w.funct3 = 1 THEN "fence.i" ELSE "None"
    BY <1>8, Opcodes DEF decode_instruction
  <2>. QED BY <1>8, <2>1, <2>2
<1>9. CASE w.opcode = OP.SYSTEM
  <2> DEFINE m == decode_instruction(w)
  <2>1. IF w.funct3 = 0 THEN m \in DOMAIN SystemWords /\ SystemWords[m] = w
        ELSE (m = "csrrc" /\ w.funct3 = 3) \/ (m \in DOMAIN CsrType /\ CsrType[m] = w.funct3)
    <3>1. w.funct3 # 4 /\ (w.funct3 = 0 => \E s \in DOMAIN SystemWords : w = SystemWords[s])
      BY <1>9, LegalFunct
    <3>. QED BY <1>9, <3>1, DecodeSystem
  <2>2. CASE w.funct3 = 0
    <3>1. m = "ebreak" \/ (m \in DOMAIN Fixed /\ Fixed[m] = w) BY <2>1, <2>2, SystemFunct3
    <3>. QED BY <3>1, ReassembleFixed
  <2>3. CASE w.funct3 # 0 BY <1>9, <2>1, <2>3, ReassembleCsr
  <2>. QED BY <2>2, <2>3
<1>. QED BY <1>1, <1>2, <1>3, <1>4, <1>5, <1>6, <1>7, <1>8, <1>9, LegalOpcode

\* Every legal word, whatever words the bench tries, has a name under which the
\* assembler makes the same word again from the immediate the RTL decodes.
THEOREM WordsReassemble == MCSpec => []LegalWordsReassemble
<1>1. ASSUME BenchInv, bench = "word", instruction_is_legal(word)
      PROVE  LET i == Disassembled(word)
             IN  \/ i.m = "None" /\ word.opcode = OP.MISC_MEM /\ word.funct3 = 0
                 \/ i.m \in {"csrrc", "ebreak", "fence.i"}
                 \/ Encodable(i) /\ Encode(i) = word
  <2>1. word \in InstructionWord BY <1>1 DEF BenchInv
  <2>2. Disassembled(word).m = decode_instruction(word) BY DisassembledFields
  <2>. QED BY <1>1, <2>1, <2>2, LegalWord DEF Reassembles
<1>2. BenchInv => LegalWordsReassemble BY <1>1 DEF LegalWordsReassemble
<1>. QED BY <1>2, BenchInit, BenchStep, PTL DEF MCSpec

-----------------------------------------------------------------------------
(* The controls of a legal word.                                           *)

\* The kind of instruction, by opcode and funct3.
LEMMA PipelineOpOf ==
  ASSUME NEW w \in InstructionWord, instruction_is_legal(w)
  PROVE  LET m == decode_instruction(w)
             o == PipelineOp(m)
         IN  /\ w.opcode = OP.LUI => o = "lui"
             /\ w.opcode = OP.AUIPC => o = "auipc"
             /\ w.opcode = OP.JAL => o = "jal"
             /\ w.opcode = OP.JALR => o = "jalr"
             /\ w.opcode = OP.BRANCH => o = "beq"
             /\ w.opcode = OP.LOAD => o = "lw"
             /\ w.opcode = OP.STORE => o = "sw"
             /\ w.opcode = OP.IMM => o = "addi"
             /\ w.opcode = OP.REG => o \in {"add", "mul"}
             /\ w.opcode = OP.MISC_MEM => o = IF w.funct3 = 1 THEN "fence_i" ELSE "fence"
             /\ w.opcode = OP.SYSTEM =>
                  IF w.funct3 = 0
                  THEN o \in DOMAIN SystemWords /\ SystemWords[o] = w
                  ELSE \/ o = "csrrw" /\ w.funct3 = 1
                       \/ o = "csrrs" /\ w.funct3 = 2
                       \/ o = "csrrc" /\ w.funct3 = 3
                       \/ o = "csrrwi" /\ w.funct3 = 5
                       \/ o = "csrrsi" /\ w.funct3 = 6
                       \/ o = "csrrci" /\ w.funct3 = 7
<1> DEFINE m == decode_instruction(w)
<1>1. CASE w.opcode \in {OP.LUI, OP.AUIPC, OP.JAL, OP.JALR}
  BY <1>1, Opcodes, DecodeFixed, Tables DEF PipelineOp
<1>2. CASE w.opcode = OP.BRANCH
  <2>1. m \in DOMAIN BranchType BY <1>2, LegalFunct, DecodeBranch
  <2>. HIDE DEF m
  <2>. QED BY <1>2, <2>1, Opcodes, Tables DEF PipelineOp, m
<1>3. CASE w.opcode = OP.LOAD
  <2>1. m \in DOMAIN LoadType BY <1>3, LegalFunct, DecodeLoad
  <2>. QED BY <1>3, <2>1, Opcodes, Tables DEF PipelineOp
<1>4. CASE w.opcode = OP.STORE
  <2>1. m \in DOMAIN StoreType BY <1>4, LegalFunct, DecodeStore
  <2>. QED BY <1>4, <2>1, Opcodes, Tables DEF PipelineOp
<1>5. CASE w.opcode = OP.IMM
  <2>1. m \in DOMAIN IType \cup DOMAIN ShiftType BY <1>5, LegalFunct, DecodeImmediate
  <2>. QED BY <1>5, <2>1, Opcodes, Tables DEF PipelineOp
<1>6. CASE w.opcode = OP.REG
  <2>1. m \in DOMAIN RType \cup DOMAIN MType BY <1>6, LegalFunct, DecodeRegister
  <2>. QED BY <1>6, <2>1, Opcodes, Tables DEF PipelineOp
<1>7. CASE w.opcode = OP.MISC_MEM
  <2>1. m = IF w.funct3 = 1 THEN "fence.i" ELSE "None" BY <1>7, Opcodes DEF decode_instruction
  <2>. QED BY <1>7, <2>1, Opcodes, Tables DEF PipelineOp
<1>8. CASE w.opcode = OP.SYSTEM
  <2>1. w.funct3 # 4 /\ (w.funct3 = 0 => \E s \in DOMAIN SystemWords : w = SystemWords[s])
    BY <1>8, LegalFunct
  <2>2. IF w.funct3 = 0 THEN m \in DOMAIN SystemWords /\ SystemWords[m] = w
        ELSE (m = "csrrc" /\ w.funct3 = 3) \/ (m \in DOMAIN CsrType /\ CsrType[m] = w.funct3)
    BY <1>8, <2>1, DecodeSystem
  <2>. HIDE DEF m
  <2>3. CASE w.funct3 = 0
    <3>1. PipelineOp(m) = m BY <2>2, <2>3, SystemFunct3, Tables DEF PipelineOp
    <3>. QED BY <1>8, <2>2, <2>3, <3>1, Opcodes DEF m
  <2>4. CASE w.funct3 # 0
    <3>1. m \in {"csrrw", "csrrs", "csrrc", "csrrwi", "csrrsi", "csrrci"}
      BY <2>2, <2>4, Tables
    <3>2. PipelineOp(m) = m BY <3>1, Tables DEF PipelineOp
    <3>3. \/ m = "csrrw" /\ w.funct3 = 1
          \/ m = "csrrs" /\ w.funct3 = 2
          \/ m = "csrrc" /\ w.funct3 = 3
          \/ m = "csrrwi" /\ w.funct3 = 5
          \/ m = "csrrsi" /\ w.funct3 = 6
          \/ m = "csrrci" /\ w.funct3 = 7
      BY <2>2, <2>4, <3>1 DEF CsrType
    <3>. QED BY <1>8, <2>4, <3>2, <3>3, Opcodes DEF m
  <2>. QED BY <2>3, <2>4
<1>. QED BY <1>1, <1>2, <1>3, <1>4, <1>5, <1>6, <1>7, <1>8, LegalOpcode

\* The controls ControlsAsModelled compares, by opcode and CSR enable.
LEMMA ComparedControls ==
  ASSUME NEW w
  PROVE  LET c == Controls(w)
         IN  /\ c.reg_write = (w.opcode \in {OP.LUI, OP.AUIPC, OP.JAL, OP.JALR, OP.LOAD, OP.IMM,
                                             OP.REG} \/ csr_en(w))
             /\ c.mem_read = (w.opcode \in {OP.LOAD})
             /\ c.mem_write = (w.opcode \in {OP.STORE})
             /\ c.branch_en = (w.opcode \in {OP.BRANCH})
             /\ c.jal = (w.opcode \in {OP.JAL})
             /\ c.jalr = (w.opcode \in {OP.JALR})
             /\ c.rs1_read = (w.opcode \in {OP.JALR, OP.BRANCH, OP.LOAD, OP.STORE, OP.IMM, OP.REG}
                                \/ (csr_en(w) /\ w.funct3 < 4))
             /\ c.rs2_read = (w.opcode \in {OP.BRANCH, OP.STORE, OP.REG})
             /\ c.csr_en = csr_en(w)
             /\ c.csr_imm = (csr_en(w) /\ w.funct3 > 4)
             /\ c.csr_op = CASE csr_en(w) /\ w.funct3 \in {2, 6} -> "set"
                             [] csr_en(w) /\ w.funct3 \in {3, 7} -> "clear"
                             [] OTHER -> "write"
             /\ c.fence_i = (w.opcode \in {OP.MISC_MEM} /\ w.funct3 = 1)
             /\ c.system = {s \in DOMAIN SystemWords : w = SystemWords[s]}
BY Zenon DEF Controls

\* The four system words differ.
LEMMA SystemDistinct ==
  \A s, t \in DOMAIN SystemWords : SystemWords[s] = SystemWords[t] => s = t
<1>1. /\ SystemWords["ecall"].funct7 = 0 /\ SystemWords["ecall"].rs2 = 0
      /\ SystemWords["ebreak"].funct7 = 0 /\ SystemWords["ebreak"].rs2 = 1
      /\ SystemWords["mret"].funct7 = 24 /\ SystemWords["wfi"].funct7 = 8
  BY DEF SystemWords, Word
<1>. QED BY <1>1, SystemFunct3

\* A word raises the system control of its name, and only that.
LEMMA SystemControl ==
  ASSUME NEW w \in InstructionWord, instruction_is_legal(w)
  PROVE  LET o == PipelineOp(decode_instruction(w))
         IN  {s \in DOMAIN SystemWords : w = SystemWords[s]} = {o} \cap DOMAIN SystemWords
<1> DEFINE o == PipelineOp(decode_instruction(w))
<1>1. \A s \in DOMAIN SystemWords : SystemWords[s].opcode = OP.SYSTEM
  BY DEF SystemWords, Word
<1>2. CASE w.opcode = OP.SYSTEM /\ w.funct3 = 0
  <2>1. o \in DOMAIN SystemWords /\ SystemWords[o] = w BY <1>2, PipelineOpOf
  <2>. HIDE DEF o
  <2>2. \A s \in DOMAIN SystemWords : w = SystemWords[s] <=> s = o BY <2>1, SystemDistinct
  <2>. QED BY <2>1, <2>2 DEF o
<1>3. CASE ~(w.opcode = OP.SYSTEM /\ w.funct3 = 0)
  <2>1. \A s \in DOMAIN SystemWords : w # SystemWords[s] BY <1>1, <1>3, SystemFunct3
  <2>2. o \notin DOMAIN SystemWords
    <3>1. /\ w.opcode = OP.LUI => o = "lui"
          /\ w.opcode = OP.AUIPC => o = "auipc"
          /\ w.opcode = OP.JAL => o = "jal"
          /\ w.opcode = OP.JALR => o = "jalr"
          /\ w.opcode = OP.BRANCH => o = "beq"
          /\ w.opcode = OP.LOAD => o = "lw"
          /\ w.opcode = OP.STORE => o = "sw"
          /\ w.opcode = OP.IMM => o = "addi"
          /\ w.opcode = OP.REG => o \in {"add", "mul"}
          /\ w.opcode = OP.MISC_MEM => o \in {"fence_i", "fence"}
          /\ w.opcode = OP.SYSTEM => o \in {"csrrw", "csrrs", "csrrc", "csrrwi", "csrrsi", "csrrci"}
      BY <1>3, PipelineOpOf
    <3>. HIDE DEF o
    <3>. QED BY <3>1, LegalOpcode, SystemFunct3
  <2>. HIDE DEF o
  <2>. QED BY <2>1, <2>2 DEF o
<1>. QED BY <1>2, <1>3

\* The controls of a word are those the pipeline model gives its class.
Modelled(w) ==
  LET c == Controls(w)
      i == [op |-> PipelineOp(decode_instruction(w))]
  IN    /\ i.op \in Model!Op \ {"illegal", "none"}
        /\ c.reg_write = Model!RegWrite(i)
        /\ c.mem_read = Model!MemRead(i) /\ c.mem_write = Model!MemWrite(i)
        /\ c.wb_sel = Model!WbSel(i)
        /\ c.rs1_read = Model!Rs1Read(i) /\ c.rs2_read = Model!Rs2Read(i)
        /\ c.csr_en = Model!CsrEn(i) /\ c.csr_imm = Model!CsrImm(i)
        /\ c.csr_op = Model!CsrOp(i)
        /\ c.jal = (i.op = "jal") /\ c.jalr = (i.op = "jalr")
        /\ c.branch_en = (i.op = "beq") /\ c.fence_i = (i.op = "fence_i")
        /\ c.system = {i.op} \cap DOMAIN SystemWords

\* So are those of every legal word.
LEMMA LegalControls ==
  ASSUME NEW w \in InstructionWord, instruction_is_legal(w)
  PROVE  Modelled(w)
<1> DEFINE c == Controls(w)
           o == PipelineOp(decode_instruction(w))
           i == [op |-> o]
<1>2. i.op = o OBVIOUS
<1>3. c.system = {i.op} \cap DOMAIN SystemWords
  BY <1>2, ComparedControls, SystemControl
<1>4. c.wb_sel = IF w.opcode \in {OP.LOAD} THEN "MEM"
                 ELSE IF w.opcode \in {OP.JAL, OP.JALR} THEN "PC4"
                 ELSE IF w.opcode \in {OP.LUI} THEN "IMM" ELSE "ALU"
  BY ControlFields
<1>5. /\ c.reg_write = (w.opcode \in {OP.LUI, OP.AUIPC, OP.JAL, OP.JALR, OP.LOAD, OP.IMM, OP.REG}
                        \/ csr_en(w))
      /\ c.mem_read = (w.opcode \in {OP.LOAD})
      /\ c.mem_write = (w.opcode \in {OP.STORE})
      /\ c.branch_en = (w.opcode \in {OP.BRANCH})
      /\ c.jal = (w.opcode \in {OP.JAL})
      /\ c.jalr = (w.opcode \in {OP.JALR})
      /\ c.rs1_read = (w.opcode \in {OP.JALR, OP.BRANCH, OP.LOAD, OP.STORE, OP.IMM, OP.REG}
                         \/ (csr_en(w) /\ w.funct3 < 4))
      /\ c.rs2_read = (w.opcode \in {OP.BRANCH, OP.STORE, OP.REG})
      /\ c.csr_en = csr_en(w)
      /\ c.csr_imm = (csr_en(w) /\ w.funct3 > 4)
      /\ c.csr_op = CASE csr_en(w) /\ w.funct3 \in {2, 6} -> "set"
                      [] csr_en(w) /\ w.funct3 \in {3, 7} -> "clear"
                      [] OTHER -> "write"
      /\ c.fence_i = (w.opcode \in {OP.MISC_MEM} /\ w.funct3 = 1)
  BY ComparedControls
<1>6. csr_en(w) = (w.opcode = OP.SYSTEM /\ w.funct3 \notin {0, 4}) BY DEF csr_en
<1>7. /\ w.opcode = OP.LUI => o = "lui"
      /\ w.opcode = OP.AUIPC => o = "auipc"
      /\ w.opcode = OP.JAL => o = "jal"
      /\ w.opcode = OP.JALR => o = "jalr"
      /\ w.opcode = OP.BRANCH => o = "beq"
      /\ w.opcode = OP.LOAD => o = "lw"
      /\ w.opcode = OP.STORE => o = "sw"
      /\ w.opcode = OP.IMM => o = "addi"
      /\ w.opcode = OP.REG => o \in {"add", "mul"}
      /\ w.opcode = OP.MISC_MEM => o = IF w.funct3 = 1 THEN "fence_i" ELSE "fence"
      /\ w.opcode = OP.SYSTEM =>
           IF w.funct3 = 0 THEN o \in {"ecall", "ebreak", "mret", "wfi"}
           ELSE \/ o = "csrrw" /\ w.funct3 = 1
                \/ o = "csrrs" /\ w.funct3 = 2
                \/ o = "csrrc" /\ w.funct3 = 3
                \/ o = "csrrwi" /\ w.funct3 = 5
                \/ o = "csrrsi" /\ w.funct3 = 6
                \/ o = "csrrci" /\ w.funct3 = 7
  BY PipelineOpOf, SystemFunct3
<1>. HIDE DEF c, o
<1>8. w.funct3 \in {0, 1, 2, 3, 4, 5, 6, 7} BY Fields
<1>9. w.opcode = OP.SYSTEM =>
        IF w.funct3 = 0 THEN o \in {"ecall", "ebreak", "mret", "wfi"}
        ELSE o \in {"csrrw", "csrrs", "csrrc", "csrrwi", "csrrsi", "csrrci"} /\ w.funct3 # 4
  BY <1>7
<1>10. CASE w.opcode # OP.SYSTEM
  <2>1. ~csr_en(w) BY <1>6, <1>10
  <2>2. o \in {"lui", "auipc", "jal", "jalr", "beq", "lw", "sw", "addi", "add", "mul", "fence",
               "fence_i"}
    BY <1>7, <1>10, LegalOpcode
  <2>3. /\ w.opcode = OP.LUI <=> o = "lui"
        /\ w.opcode = OP.AUIPC <=> o = "auipc"
        /\ w.opcode = OP.JAL <=> o = "jal"
        /\ w.opcode = OP.JALR <=> o = "jalr"
        /\ w.opcode = OP.BRANCH <=> o = "beq"
        /\ w.opcode = OP.LOAD <=> o = "lw"
        /\ w.opcode = OP.STORE <=> o = "sw"
        /\ w.opcode = OP.IMM <=> o = "addi"
        /\ w.opcode = OP.REG <=> o \in {"add", "mul"}
        /\ w.opcode = OP.MISC_MEM /\ w.funct3 = 1 <=> o = "fence_i"
    BY <1>7, <1>10, LegalOpcode
  <2>9. /\ Model!CsrEn(i) = FALSE /\ c.csr_en = FALSE
        /\ c.csr_imm = Model!CsrImm(i) /\ c.csr_op = Model!CsrOp(i)
    <3>1. o \notin {"csrrw", "csrrs", "csrrc", "csrrwi", "csrrsi", "csrrci"} BY <2>2
    <3>2. csr_en(w) = FALSE BY <1>6, <1>10
    <3>. QED BY <1>2, <1>5, <3>1, <3>2 DEF Model!CsrEn, Model!CsrImm, Model!CsrOp
  <2>4. c.reg_write = Model!RegWrite(i) /\ c.csr_en = Model!CsrEn(i)
    <3>1. c.reg_write <=> w.opcode \in {OP.LUI, OP.AUIPC, OP.JAL, OP.JALR, OP.LOAD, OP.IMM, OP.REG}
      BY <1>5, <2>1
    <3>2. Model!RegWrite(i) <=> o \in {"lui", "auipc", "jal", "jalr", "lw", "addi", "add", "mul"}
      BY <2>2, <2>9 DEF Model!RegWrite
    <3>3. c.reg_write \in BOOLEAN /\ Model!RegWrite(i) \in BOOLEAN
      BY <1>5, <2>9 DEF Model!RegWrite
    <3>4. c.reg_write <=> Model!RegWrite(i) BY <2>3, <3>1, <3>2
    <3>. QED BY <2>9, <3>3, <3>4
  <2>5. c.mem_read = Model!MemRead(i) /\ c.mem_write = Model!MemWrite(i)
    BY <1>5, <2>3 DEF Model!MemRead, Model!MemWrite
  <2>6. c.rs1_read = Model!Rs1Read(i) /\ c.rs2_read = Model!Rs2Read(i)
    BY <1>5, <2>1, <2>2, <2>3, <2>9 DEF Model!Rs1Read, Model!Rs2Read
  <2>7. c.wb_sel = Model!WbSel(i)
    BY <1>4, <2>2, <2>3, Opcodes DEF Model!WbSel
  <2>8. c.jal = (o = "jal") /\ c.jalr = (o = "jalr") /\ c.branch_en = (o = "beq")
          /\ c.fence_i = (o = "fence_i")
    BY <1>5, <2>3
  <2>10. o \in Model!Op \ {"illegal", "none"} BY <2>2 DEF Model!Op
  <2>. QED BY <1>3, <2>9, <2>10, <2>4, <2>5, <2>6, <2>7, <2>8 DEF Modelled, c, o
<1>11. CASE w.opcode = OP.SYSTEM
  <2>1. csr_en(w) <=> o \in {"csrrw", "csrrs", "csrrc", "csrrwi", "csrrsi", "csrrci"}
    <3>1. CASE w.funct3 = 0 BY <3>1, <1>9, <1>11 DEF csr_en
    <3>2. CASE w.funct3 # 0 BY <3>2, <1>9, <1>11 DEF csr_en
    <3>. QED BY <3>1, <3>2
  <2>2. o \in {"csrrw", "csrrs", "csrrc", "csrrwi", "csrrsi", "csrrci",
               "ecall", "ebreak", "mret", "wfi"}
    BY <1>9, <1>11
  <2>3. /\ csr_en(w) /\ w.funct3 < 4 <=> o \in {"csrrw", "csrrs", "csrrc"}
        /\ csr_en(w) /\ w.funct3 > 4 <=> o \in {"csrrwi", "csrrsi", "csrrci"}
    <3>1. CASE w.funct3 = 0 BY <1>6, <1>9, <1>11, <3>1
    <3>2. CASE w.funct3 # 0
      <4>1. csr_en(w) BY <1>6, <1>9, <1>11, <3>2
      <4>2. \/ o = "csrrw" /\ w.funct3 = 1
            \/ o = "csrrs" /\ w.funct3 = 2
            \/ o = "csrrc" /\ w.funct3 = 3
            \/ o = "csrrwi" /\ w.funct3 = 5
            \/ o = "csrrsi" /\ w.funct3 = 6
            \/ o = "csrrci" /\ w.funct3 = 7
        BY <1>7, <1>11, <3>2
      <4>. QED BY <4>1, <4>2
    <3>. QED BY <3>1, <3>2
  <2>9. c.csr_imm = Model!CsrImm(i) BY <1>5, <2>3 DEF Model!CsrImm
  <2>10. c.csr_op = Model!CsrOp(i)
    <3>1. CASE w.funct3 = 0
      <4>1. c.csr_op = "write" BY <1>5, <1>6, <3>1
      <4>2. o \in {"ecall", "ebreak", "mret", "wfi"} BY <1>9, <1>11, <3>1
      <4>. QED BY <4>1, <4>2 DEF Model!CsrOp
    <3>2. CASE w.funct3 # 0
      <4>1. csr_en(w) BY <1>6, <1>9, <1>11, <3>2
      <4>2. \/ o \in {"csrrw", "csrrwi"} /\ w.funct3 \in {1, 5}
            \/ o \in {"csrrs", "csrrsi"} /\ w.funct3 \in {2, 6}
            \/ o \in {"csrrc", "csrrci"} /\ w.funct3 \in {3, 7}
        BY <1>7, <1>11, <3>2
      <4>. QED BY <1>5, <4>1, <4>2 DEF Model!CsrOp
    <3>. QED BY <3>1, <3>2
  <2>11. o \in Model!Op \ {"illegal", "none"} BY <2>2 DEF Model!Op
  <2>4. c.reg_write = Model!RegWrite(i) /\ c.csr_en = Model!CsrEn(i)
    BY <1>5, <1>11, <2>1, <2>2, Opcodes
       DEF Model!RegWrite, Model!CsrEn, Model!CsrImm, csr_en
  <2>5. c.mem_read = Model!MemRead(i) /\ c.mem_write = Model!MemWrite(i)
    BY <1>5, <1>11, <2>2, Opcodes DEF Model!MemRead, Model!MemWrite
  <2>6. c.rs1_read = Model!Rs1Read(i) /\ c.rs2_read = Model!Rs2Read(i)
    BY <1>5, <1>11, <2>1, <2>2, <2>3, Opcodes
       DEF Model!Rs1Read, Model!Rs2Read, Model!CsrEn, Model!CsrImm
  <2>7. c.wb_sel = Model!WbSel(i)
    BY <1>4, <1>11, <2>2, Opcodes DEF Model!WbSel
  <2>8. c.jal = (o = "jal") /\ c.jalr = (o = "jalr") /\ c.branch_en = (o = "beq")
          /\ c.fence_i = (o = "fence_i")
    BY <1>5, <1>11, <2>2, Opcodes
  <2>. QED BY <1>3, <2>9, <2>10, <2>11, <2>4, <2>5, <2>6, <2>7, <2>8 DEF Modelled, c, o
<1>. QED BY <1>10, <1>11

\* The controls of the RTL's control unit are, for every legal word, those the
\* pipeline model assumes of the instruction's class.
THEOREM ControlsModelled == MCSpec => []ControlsAsModelled
<1>1. BenchInv => ControlsAsModelled
  <2>1. \A w \in InstructionWord : instruction_is_legal(w) => Modelled(w) BY LegalControls
  <2>2. BenchInv /\ bench = "word" => word \in InstructionWord BY DEF BenchInv
  <2>. QED BY <2>1, <2>2, Zenon DEF ControlsAsModelled, Modelled
<1>. QED BY <1>1, BenchInit, BenchStep, PTL DEF MCSpec

-----------------------------------------------------------------------------
(* Parcels. *)

\* Digits b with weights a can be read from the left.
Readable(a, b, n) == \E g : g = [i \in 0 .. n |-> IF i = 0 THEN 0 ELSE a[i] * g[i - 1] + b[i]]

\* They can be: the recursive function exists.
LEMMA DigitsReadable ==
  ASSUME NEW a, NEW b, NEW n \in Nat
  PROVE  Readable(a, b, n)
<1> DEFINE Rule(g, k) == [i \in 0 .. k |-> IF i = 0 THEN 0 ELSE a[i] * g[i - 1] + b[i]]
           K == {k \in Nat : \E g : g = Rule(g, k)}
<1>1. 0 \in K
  <2> DEFINE g == [i \in 0 .. 0 |-> 0]
  <2>1. g = Rule(g, 0) OBVIOUS
  <2>. QED BY <2>1
<1>2. ASSUME NEW k \in K PROVE k + 1 \in K
  <2>1. PICK g : g = Rule(g, k) OBVIOUS
  <2> DEFINE h == [i \in 0 .. k + 1 |-> IF i = k + 1 THEN a[k + 1] * g[k] + b[k + 1] ELSE g[i]]
  <2>2. \A i \in 0 .. k : g[i] = IF i = 0 THEN 0 ELSE a[i] * g[i - 1] + b[i]
    <3> HIDE DEF h, K
    <3>1. ASSUME NEW i \in 0 .. k PROVE g[i] = Rule(g, k)[i] BY <2>1
    <3>. QED BY <3>1
  <2>3. ASSUME NEW i \in 0 .. k + 1
        PROVE  h[i] = IF i = 0 THEN 0 ELSE a[i] * h[i - 1] + b[i]
    <3>1. CASE i = k + 1
      <4>1. h[i] = a[i] * g[k] + b[i] /\ h[k] = g[k] BY <3>1
      <4>. QED BY <3>1, <4>1
    <3>2. CASE i \in 0 .. k
      <4>1. h[i] = g[i] /\ (i # 0 => h[i - 1] = g[i - 1]) BY <3>2
      <4>. QED BY <2>2, <3>2, <4>1
    <3>. QED BY <3>1, <3>2
  <2>4. h = Rule(h, k + 1) BY <2>3
  <2>5. \E f : f = Rule(f, k + 1)
    <3>. HIDE DEF h, Rule
    <3>. QED BY <2>4
  <2>. QED BY <2>5
<1>3. K = Nat
  <2>. HIDE DEF K
  <2>. QED BY <1>1, <1>2, SetInduction DEF K
<1>. QED BY <1>3 DEF Readable

\* g reads the slices of p from the left; the slice <<h, l>> follows what g[m] read.
Follows(g, m, p, h, l) == g[m + 1] = 2^(h - l + 1) * g[m] + Bits(p, h, l)

\* g reads all the slices.
Reads(g, p, slices) ==
  g[0] = 0 /\ \A n \in 1 .. Len(slices) : Follows(g, n - 1, p, slices[n][1], slices[n][2])

\* A concatenation of slices is what reading them from the left yields.
LEMMA CatReads ==
  ASSUME NEW p, NEW slices, Len(slices) \in Nat
  PROVE  \E g : Cat(p, slices) = g[Len(slices)] /\ Reads(g, p, slices)
<1> DEFINE m == Len(slices)
           a == [n \in 1 .. m |-> 2^(slices[n][1] - slices[n][2] + 1)]
           b == [n \in 1 .. m |-> Bits(p, slices[n][1], slices[n][2])]
           Rule(g) == [n \in 0 .. m |->
                         IF n = 0 THEN 0
                         ELSE 2^(slices[n][1] - slices[n][2] + 1) * g[n - 1]
                                + Bits(p, slices[n][1], slices[n][2])]
           value == CHOOSE g : g = Rule(g)
<1>1. ASSUME NEW g PROVE Rule(g) = [n \in 0 .. m |-> IF n = 0 THEN 0 ELSE a[n] * g[n - 1] + b[n]]
  <2>1. \A n \in 0 .. m : n # 0 => n \in 1 .. m OBVIOUS
  <2>2. \A n \in 1 .. m : /\ a[n] = 2^(slices[n][1] - slices[n][2] + 1)
                          /\ b[n] = Bits(p, slices[n][1], slices[n][2])
    OBVIOUS
  <2>. HIDE DEF a, b
  <2>. QED BY <2>1, <2>2
<1>2. \E g : g = Rule(g)
  <2>1. Readable(a, b, m)
    <3>. HIDE DEF a, b, Rule
    <3>. QED BY DigitsReadable
  <2>. HIDE DEF a, b, Rule
  <2>. QED BY <1>1, <2>1 DEF Readable
<1>3. value = Rule(value) BY <1>2
<1>4. Cat(p, slices) = value[m] BY DEF Cat
<1>. HIDE DEF value
<1>5. value[0] = 0 BY <1>3
<1>6. ASSUME NEW n \in 1 .. m
      PROVE  value[n] = 2^(slices[n][1] - slices[n][2] + 1) * value[n - 1]
                          + Bits(p, slices[n][1], slices[n][2])
  BY <1>3
<1>7. ASSUME NEW n \in 1 .. m
      PROVE  Follows(value, n - 1, p, slices[n][1], slices[n][2])
  BY <1>6 DEF Follows
<1>8. Reads(value, p, slices) BY <1>5, <1>7 DEF Reads
<1>. QED BY <1>4, <1>8

-----------------------------------------------------------------------------

\* The slices a parcel is cut into.
LEMMA Slices ==
  ASSUME NEW p \in Parcel
  PROVE  /\ quadrant(p) \in 0 .. 3 /\ funct3(p) \in 0 .. 7 /\ rd(p) \in 0 .. 31
         /\ rs2(p) \in 0 .. 31 /\ rdp(p) \in 8 .. 15 /\ rs1p(p) \in 8 .. 15
         /\ Bits(p, 11, 10) \in 0 .. 3 /\ Bits(p, 6, 5) \in 0 .. 3
         /\ Bits(p, 2, 2) \in 0 .. 1 /\ Bits(p, 5, 5) \in 0 .. 1 /\ Bits(p, 6, 6) \in 0 .. 1
         /\ Bits(p, 7, 7) \in 0 .. 1 /\ Bits(p, 8, 8) \in 0 .. 1 /\ Bits(p, 11, 11) \in 0 .. 1
         /\ Bits(p, 12, 12) \in 0 .. 1
         /\ Bits(p, 3, 2) \in 0 .. 3 /\ Bits(p, 4, 3) \in 0 .. 3 /\ Bits(p, 8, 7) \in 0 .. 3
         /\ Bits(p, 10, 9) \in 0 .. 3 /\ Bits(p, 12, 11) \in 0 .. 3
         /\ Bits(p, 5, 3) \in 0 .. 7 /\ Bits(p, 6, 4) \in 0 .. 7 /\ Bits(p, 12, 10) \in 0 .. 7
         /\ Bits(p, 10, 7) \in 0 .. 15 /\ Bits(p, 12, 9) \in 0 .. 15
         /\ Bits(p, 6, 2) \in 0 .. 31
<1>1. p \in Int BY DEF Parcel
<1>2. quadrant(p) \in 0 .. 3 /\ funct3(p) \in 0 .. 7 /\ rd(p) \in 0 .. 31 /\ rs2(p) \in 0 .. 31
  BY ONLY <1>1, SMTT(90) DEF Bits, quadrant, funct3, rd, rs2
<1>3. rdp(p) \in 8 .. 15 /\ rs1p(p) \in 8 .. 15 BY ONLY <1>1, SMTT(90) DEF Bits, rdp, rs1p
<1>4. /\ Bits(p, 2, 2) \in 0 .. 1 /\ Bits(p, 5, 5) \in 0 .. 1 /\ Bits(p, 6, 6) \in 0 .. 1
      /\ Bits(p, 7, 7) \in 0 .. 1 /\ Bits(p, 8, 8) \in 0 .. 1 /\ Bits(p, 11, 11) \in 0 .. 1
      /\ Bits(p, 12, 12) \in 0 .. 1
  BY ONLY <1>1, SMTT(90) DEF Bits
<1>5. /\ Bits(p, 11, 10) \in 0 .. 3 /\ Bits(p, 6, 5) \in 0 .. 3
      /\ Bits(p, 3, 2) \in 0 .. 3 /\ Bits(p, 4, 3) \in 0 .. 3 /\ Bits(p, 8, 7) \in 0 .. 3
      /\ Bits(p, 10, 9) \in 0 .. 3 /\ Bits(p, 12, 11) \in 0 .. 3
  BY ONLY <1>1, SMTT(90) DEF Bits
<1>6. /\ Bits(p, 5, 3) \in 0 .. 7 /\ Bits(p, 6, 4) \in 0 .. 7 /\ Bits(p, 12, 10) \in 0 .. 7
      /\ Bits(p, 10, 7) \in 0 .. 15 /\ Bits(p, 12, 9) \in 0 .. 15
      /\ Bits(p, 6, 2) \in 0 .. 31
  BY ONLY <1>1, SMTT(90) DEF Bits
<1>. QED BY ONLY <1>2, <1>3, <1>4, <1>5, <1>6, Zenon

\* The immediate of CI.
LEMMA CatImmediate ==
  ASSUME NEW p \in Parcel
  PROVE  Cat(p, << <<12, 12>>, <<6, 2>> >>) = 32 * Bits(p, 12, 12) + Bits(p, 6, 2)
<1> DEFINE slices == << <<12, 12>>, <<6, 2>> >>
<1>1. Len(slices) = 2 OBVIOUS
<1>2. /\ slices[1][1] = 12 /\ slices[1][2] = 12
      /\ slices[2][1] = 6 /\ slices[2][2] = 2
  OBVIOUS
<1>. HIDE DEF slices
<1>3. PICK g : Cat(p, slices) = g[Len(slices)] /\ Reads(g, p, slices)
  <2>. Len(slices) \in Nat BY <1>1
  <2>. QED BY CatReads
<1>4. Follows(g, 0, p, 12, 12) /\ Follows(g, 1, p, 6, 2)
  BY <1>1, <1>2, <1>3 DEF Reads
<1>5. g[0] = 0 BY <1>3 DEF Reads
<1>6. g[1] = Bits(p, 12, 12) BY <1>4, <1>5, Slices DEF Follows
<1>7. g[2] = 32 * Bits(p, 12, 12) + Bits(p, 6, 2) BY <1>4, <1>6, Slices DEF Follows
<1>. QED BY <1>1, <1>3, <1>7 DEF slices

\* The offset of CJ.
LEMMA CatJump ==
  ASSUME NEW p \in Parcel
  PROVE  Cat(p, << <<12, 12>>, <<8, 8>>, <<10, 9>>, <<6, 6>>,
                   <<7, 7>>, <<2, 2>>, <<11, 11>>, <<5, 3>> >>)
           = 1024 * Bits(p, 12, 12) + 512 * Bits(p, 8, 8) + 128 * Bits(p, 10, 9)
               + 64 * Bits(p, 6, 6) + 32 * Bits(p, 7, 7) + 16 * Bits(p, 2, 2)
               + 8 * Bits(p, 11, 11) + Bits(p, 5, 3)
<1> DEFINE slices == << <<12, 12>>, <<8, 8>>, <<10, 9>>, <<6, 6>>,
                        <<7, 7>>, <<2, 2>>, <<11, 11>>, <<5, 3>> >>
<1>1. Len(slices) = 8 OBVIOUS
<1>2. /\ slices[1][1] = 12 /\ slices[1][2] = 12
      /\ slices[2][1] = 8 /\ slices[2][2] = 8
      /\ slices[3][1] = 10 /\ slices[3][2] = 9
      /\ slices[4][1] = 6 /\ slices[4][2] = 6
      /\ slices[5][1] = 7 /\ slices[5][2] = 7
      /\ slices[6][1] = 2 /\ slices[6][2] = 2
      /\ slices[7][1] = 11 /\ slices[7][2] = 11
      /\ slices[8][1] = 5 /\ slices[8][2] = 3
  OBVIOUS
<1>. HIDE DEF slices
<1>3. PICK g : Cat(p, slices) = g[Len(slices)] /\ Reads(g, p, slices)
  <2>. Len(slices) \in Nat BY <1>1
  <2>. QED BY CatReads
<1>4. /\ Follows(g, 0, p, 12, 12) /\ Follows(g, 1, p, 8, 8) /\ Follows(g, 2, p, 10, 9)
      /\ Follows(g, 3, p, 6, 6) /\ Follows(g, 4, p, 7, 7) /\ Follows(g, 5, p, 2, 2)
      /\ Follows(g, 6, p, 11, 11) /\ Follows(g, 7, p, 5, 3)
  BY <1>1, <1>2, <1>3 DEF Reads
<1>5. g[0] = 0 BY <1>3 DEF Reads
<1>6. g[1] = Bits(p, 12, 12) BY <1>4, <1>5, Slices DEF Follows
<1>7. g[2] = 2 * Bits(p, 12, 12) + Bits(p, 8, 8) BY <1>4, <1>6, Slices DEF Follows
<1>8. g[3] = 8 * Bits(p, 12, 12) + 4 * Bits(p, 8, 8) + Bits(p, 10, 9)
  BY <1>4, <1>7, Slices DEF Follows
<1>9. g[4] = 16 * Bits(p, 12, 12) + 8 * Bits(p, 8, 8) + 2 * Bits(p, 10, 9) + Bits(p, 6, 6)
  BY <1>4, <1>8, Slices DEF Follows
<1>10. g[5] = 32 * Bits(p, 12, 12) + 16 * Bits(p, 8, 8) + 4 * Bits(p, 10, 9) + 2 * Bits(p, 6, 6)
               + Bits(p, 7, 7)
  BY <1>4, <1>9, Slices DEF Follows
<1>11. g[6] = 64 * Bits(p, 12, 12) + 32 * Bits(p, 8, 8) + 8 * Bits(p, 10, 9) + 4 * Bits(p, 6, 6)
               + 2 * Bits(p, 7, 7) + Bits(p, 2, 2)
  BY <1>4, <1>10, Slices DEF Follows
<1>12. g[7] = 128 * Bits(p, 12, 12) + 64 * Bits(p, 8, 8) + 16 * Bits(p, 10, 9)
               + 8 * Bits(p, 6, 6) + 4 * Bits(p, 7, 7) + 2 * Bits(p, 2, 2) + Bits(p, 11, 11)
  BY <1>4, <1>11, Slices DEF Follows
<1>13. g[8] = 1024 * Bits(p, 12, 12) + 512 * Bits(p, 8, 8) + 128 * Bits(p, 10, 9)
               + 64 * Bits(p, 6, 6) + 32 * Bits(p, 7, 7) + 16 * Bits(p, 2, 2)
               + 8 * Bits(p, 11, 11) + Bits(p, 5, 3)
  BY <1>4, <1>12, Slices DEF Follows
<1>. QED BY <1>1, <1>3, <1>13 DEF slices

\* The offset of CB.
LEMMA CatBranch ==
  ASSUME NEW p \in Parcel
  PROVE  Cat(p, << <<12, 12>>, <<6, 5>>, <<2, 2>>, <<11, 10>>, <<4, 3>> >>)
           = 128 * Bits(p, 12, 12) + 32 * Bits(p, 6, 5) + 16 * Bits(p, 2, 2)
               + 4 * Bits(p, 11, 10) + Bits(p, 4, 3)
<1> DEFINE slices == << <<12, 12>>, <<6, 5>>, <<2, 2>>, <<11, 10>>, <<4, 3>> >>
<1>1. Len(slices) = 5 OBVIOUS
<1>2. /\ slices[1][1] = 12 /\ slices[1][2] = 12
      /\ slices[2][1] = 6 /\ slices[2][2] = 5
      /\ slices[3][1] = 2 /\ slices[3][2] = 2
      /\ slices[4][1] = 11 /\ slices[4][2] = 10
      /\ slices[5][1] = 4 /\ slices[5][2] = 3
  OBVIOUS
<1>. HIDE DEF slices
<1>3. PICK g : Cat(p, slices) = g[Len(slices)] /\ Reads(g, p, slices)
  <2>. Len(slices) \in Nat BY <1>1
  <2>. QED BY CatReads
<1>4. /\ Follows(g, 0, p, 12, 12) /\ Follows(g, 1, p, 6, 5) /\ Follows(g, 2, p, 2, 2)
      /\ Follows(g, 3, p, 11, 10) /\ Follows(g, 4, p, 4, 3)
  BY <1>1, <1>2, <1>3 DEF Reads
<1>5. g[0] = 0 BY <1>3 DEF Reads
<1>6. g[1] = Bits(p, 12, 12) BY <1>4, <1>5, Slices DEF Follows
<1>7. g[2] = 4 * Bits(p, 12, 12) + Bits(p, 6, 5) BY <1>4, <1>6, Slices DEF Follows
<1>8. g[3] = 8 * Bits(p, 12, 12) + 2 * Bits(p, 6, 5) + Bits(p, 2, 2)
  BY <1>4, <1>7, Slices DEF Follows
<1>9. g[4] = 32 * Bits(p, 12, 12) + 8 * Bits(p, 6, 5) + 4 * Bits(p, 2, 2) + Bits(p, 11, 10)
  BY <1>4, <1>8, Slices DEF Follows
<1>10. g[5] = 128 * Bits(p, 12, 12) + 32 * Bits(p, 6, 5) + 16 * Bits(p, 2, 2)
               + 4 * Bits(p, 11, 10) + Bits(p, 4, 3)
  BY <1>4, <1>9, Slices DEF Follows
<1>. QED BY <1>1, <1>3, <1>10 DEF slices

\* The offset of C.LW and C.SW.
LEMMA CatLw ==
  ASSUME NEW p \in Parcel
  PROVE  Cat(p, << <<5, 5>>, <<12, 10>>, <<6, 6>> >>)
           = 16 * Bits(p, 5, 5) + 2 * Bits(p, 12, 10) + Bits(p, 6, 6)
<1> DEFINE slices == << <<5, 5>>, <<12, 10>>, <<6, 6>> >>
<1>1. Len(slices) = 3 OBVIOUS
<1>2. /\ slices[1][1] = 5 /\ slices[1][2] = 5
      /\ slices[2][1] = 12 /\ slices[2][2] = 10
      /\ slices[3][1] = 6 /\ slices[3][2] = 6
  OBVIOUS
<1>. HIDE DEF slices
<1>3. PICK g : Cat(p, slices) = g[Len(slices)] /\ Reads(g, p, slices)
  <2>. Len(slices) \in Nat BY <1>1
  <2>. QED BY CatReads
<1>4. Follows(g, 0, p, 5, 5) /\ Follows(g, 1, p, 12, 10) /\ Follows(g, 2, p, 6, 6)
  BY <1>1, <1>2, <1>3 DEF Reads
<1>5. g[0] = 0 BY <1>3 DEF Reads
<1>6. g[1] = Bits(p, 5, 5) BY <1>4, <1>5, Slices DEF Follows
<1>7. g[2] = 8 * Bits(p, 5, 5) + Bits(p, 12, 10) BY <1>4, <1>6, Slices DEF Follows
<1>8. g[3] = 16 * Bits(p, 5, 5) + 2 * Bits(p, 12, 10) + Bits(p, 6, 6)
  BY <1>4, <1>7, Slices DEF Follows
<1>. QED BY <1>1, <1>3, <1>8 DEF slices

\* The offset of C.ADDI4SPN.
LEMMA CatSp4 ==
  ASSUME NEW p \in Parcel
  PROVE  Cat(p, << <<10, 7>>, <<12, 11>>, <<5, 5>>, <<6, 6>> >>)
           = 16 * Bits(p, 10, 7) + 4 * Bits(p, 12, 11) + 2 * Bits(p, 5, 5) + Bits(p, 6, 6)
<1> DEFINE slices == << <<10, 7>>, <<12, 11>>, <<5, 5>>, <<6, 6>> >>
<1>1. Len(slices) = 4 OBVIOUS
<1>2. /\ slices[1][1] = 10 /\ slices[1][2] = 7
      /\ slices[2][1] = 12 /\ slices[2][2] = 11
      /\ slices[3][1] = 5 /\ slices[3][2] = 5
      /\ slices[4][1] = 6 /\ slices[4][2] = 6
  OBVIOUS
<1>. HIDE DEF slices
<1>3. PICK g : Cat(p, slices) = g[Len(slices)] /\ Reads(g, p, slices)
  <2>. Len(slices) \in Nat BY <1>1
  <2>. QED BY CatReads
<1>4. /\ Follows(g, 0, p, 10, 7) /\ Follows(g, 1, p, 12, 11) /\ Follows(g, 2, p, 5, 5)
      /\ Follows(g, 3, p, 6, 6)
  BY <1>1, <1>2, <1>3 DEF Reads
<1>5. g[0] = 0 BY <1>3 DEF Reads
<1>6. g[1] = Bits(p, 10, 7) BY <1>4, <1>5, Slices DEF Follows
<1>7. g[2] = 4 * Bits(p, 10, 7) + Bits(p, 12, 11) BY <1>4, <1>6, Slices DEF Follows
<1>8. g[3] = 8 * Bits(p, 10, 7) + 2 * Bits(p, 12, 11) + Bits(p, 5, 5)
  BY <1>4, <1>7, Slices DEF Follows
<1>9. g[4] = 16 * Bits(p, 10, 7) + 4 * Bits(p, 12, 11) + 2 * Bits(p, 5, 5) + Bits(p, 6, 6)
  BY <1>4, <1>8, Slices DEF Follows
<1>. QED BY <1>1, <1>3, <1>9 DEF slices

\* The offset of C.ADDI16SP.
LEMMA CatSp16 ==
  ASSUME NEW p \in Parcel
  PROVE  Cat(p, << <<12, 12>>, <<4, 3>>, <<5, 5>>, <<2, 2>>, <<6, 6>> >>)
           = 32 * Bits(p, 12, 12) + 8 * Bits(p, 4, 3) + 4 * Bits(p, 5, 5) + 2 * Bits(p, 2, 2)
               + Bits(p, 6, 6)
<1> DEFINE slices == << <<12, 12>>, <<4, 3>>, <<5, 5>>, <<2, 2>>, <<6, 6>> >>
<1>1. Len(slices) = 5 OBVIOUS
<1>2. /\ slices[1][1] = 12 /\ slices[1][2] = 12
      /\ slices[2][1] = 4 /\ slices[2][2] = 3
      /\ slices[3][1] = 5 /\ slices[3][2] = 5
      /\ slices[4][1] = 2 /\ slices[4][2] = 2
      /\ slices[5][1] = 6 /\ slices[5][2] = 6
  OBVIOUS
<1>. HIDE DEF slices
<1>3. PICK g : Cat(p, slices) = g[Len(slices)] /\ Reads(g, p, slices)
  <2>. Len(slices) \in Nat BY <1>1
  <2>. QED BY CatReads
<1>4. /\ Follows(g, 0, p, 12, 12) /\ Follows(g, 1, p, 4, 3) /\ Follows(g, 2, p, 5, 5)
      /\ Follows(g, 3, p, 2, 2) /\ Follows(g, 4, p, 6, 6)
  BY <1>1, <1>2, <1>3 DEF Reads
<1>5. g[0] = 0 BY <1>3 DEF Reads
<1>6. g[1] = Bits(p, 12, 12) BY <1>4, <1>5, Slices DEF Follows
<1>7. g[2] = 4 * Bits(p, 12, 12) + Bits(p, 4, 3) BY <1>4, <1>6, Slices DEF Follows
<1>8. g[3] = 8 * Bits(p, 12, 12) + 2 * Bits(p, 4, 3) + Bits(p, 5, 5)
  BY <1>4, <1>7, Slices DEF Follows
<1>9. g[4] = 16 * Bits(p, 12, 12) + 4 * Bits(p, 4, 3) + 2 * Bits(p, 5, 5) + Bits(p, 2, 2)
  BY <1>4, <1>8, Slices DEF Follows
<1>10. g[5] = 32 * Bits(p, 12, 12) + 8 * Bits(p, 4, 3) + 4 * Bits(p, 5, 5) + 2 * Bits(p, 2, 2)
               + Bits(p, 6, 6)
  BY <1>4, <1>9, Slices DEF Follows
<1>. QED BY <1>1, <1>3, <1>10 DEF slices

\* The offset of C.LWSP.
LEMMA CatLwsp ==
  ASSUME NEW p \in Parcel
  PROVE  Cat(p, << <<3, 2>>, <<12, 12>>, <<6, 4>> >>)
           = 16 * Bits(p, 3, 2) + 8 * Bits(p, 12, 12) + Bits(p, 6, 4)
<1> DEFINE slices == << <<3, 2>>, <<12, 12>>, <<6, 4>> >>
<1>1. Len(slices) = 3 OBVIOUS
<1>2. /\ slices[1][1] = 3 /\ slices[1][2] = 2
      /\ slices[2][1] = 12 /\ slices[2][2] = 12
      /\ slices[3][1] = 6 /\ slices[3][2] = 4
  OBVIOUS
<1>. HIDE DEF slices
<1>3. PICK g : Cat(p, slices) = g[Len(slices)] /\ Reads(g, p, slices)
  <2>. Len(slices) \in Nat BY <1>1
  <2>. QED BY CatReads
<1>4. Follows(g, 0, p, 3, 2) /\ Follows(g, 1, p, 12, 12) /\ Follows(g, 2, p, 6, 4)
  BY <1>1, <1>2, <1>3 DEF Reads
<1>5. g[0] = 0 BY <1>3 DEF Reads
<1>6. g[1] = Bits(p, 3, 2) BY <1>4, <1>5, Slices DEF Follows
<1>7. g[2] = 2 * Bits(p, 3, 2) + Bits(p, 12, 12) BY <1>4, <1>6, Slices DEF Follows
<1>8. g[3] = 16 * Bits(p, 3, 2) + 8 * Bits(p, 12, 12) + Bits(p, 6, 4)
  BY <1>4, <1>7, Slices DEF Follows
<1>. QED BY <1>1, <1>3, <1>8 DEF slices

\* The offset of C.SWSP.
LEMMA CatSwsp ==
  ASSUME NEW p \in Parcel
  PROVE  Cat(p, << <<8, 7>>, <<12, 9>> >>) = 16 * Bits(p, 8, 7) + Bits(p, 12, 9)
<1> DEFINE slices == << <<8, 7>>, <<12, 9>> >>
<1>1. Len(slices) = 2 OBVIOUS
<1>2. /\ slices[1][1] = 8 /\ slices[1][2] = 7
      /\ slices[2][1] = 12 /\ slices[2][2] = 9
  OBVIOUS
<1>. HIDE DEF slices
<1>3. PICK g : Cat(p, slices) = g[Len(slices)] /\ Reads(g, p, slices)
  <2>. Len(slices) \in Nat BY <1>1
  <2>. QED BY CatReads
<1>4. Follows(g, 0, p, 8, 7) /\ Follows(g, 1, p, 12, 9)
  BY <1>1, <1>2, <1>3 DEF Reads
<1>5. g[0] = 0 BY <1>3 DEF Reads
<1>6. g[1] = Bits(p, 8, 7) BY <1>4, <1>5, Slices DEF Follows
<1>7. g[2] = 16 * Bits(p, 8, 7) + Bits(p, 12, 9) BY <1>4, <1>6, Slices DEF Follows
<1>. QED BY <1>1, <1>3, <1>7 DEF slices

-----------------------------------------------------------------------------
(* The RTL agrees with the oracle.                                         *)

\* The two answers to a parcel that DecompressorMatchesOracle compares.
Agree(rtl, oracle) == rtl.illegal = oracle.illegal /\ rtl.instruction = oracle.instruction

\* Both expand to the same word.
LEMMA AgreeLegal == \A w, m : Agree(Legal(w), As(m, w))
BY DEF Agree, Legal, As

\* Both reject.
LEMMA AgreeReserved == \A reason : Agree(Illegal, Reserved(reason))
BY DEF Agree, Illegal, Reserved

\* A sign-extended number is zero when the number is.
LEMMA SignedZero ==
  /\ \A v \in 0 .. 63 : SignExtend(v, 6) \in -32 .. 31 /\ (SignExtend(v, 6) = 0 <=> v = 0)
  /\ \A v \in 0 .. 1023 : SignExtend(v, 10) \in Int /\ (SignExtend(v, 10) = 0 <=> v = 0)
BY SMTT(90) DEF SignExtend

\* Quadrant 0.
LEMMA Quadrant0Agrees == \A p \in Parcel : Agree(Quadrant0(p), Oracle0(p))
<1> SUFFICES ASSUME NEW p \in Parcel PROVE Agree(Quadrant0(p), Oracle0(p)) OBVIOUS
<1> DEFINE sp == 4 * Cat(p, << <<10, 7>>, <<12, 11>>, <<5, 5>>, <<6, 6>> >>)
           offset == Field(p, 10, 7, 6) + Field(p, 12, 11, 4) + Field(p, 5, 5, 3)
                       + Field(p, 6, 6, 2)
<1>1. sp = offset BY CatSp4, Slices DEF Field
<1>2. imm_lw(p) = OracleLw(p) BY CatLw, Slices DEF imm_lw, OracleLw, Field
<1>3. Quadrant0(p) = CASE funct3(p) = 0 -> LegalUnless(sp = 0, I(sp, 2, 0, rdp(p), OP.IMM))
                       [] funct3(p) = 2 -> Legal(I(imm_lw(p), rs1p(p), 2, rdp(p), OP.LOAD))
                       [] funct3(p) = 6 -> Legal(S(imm_lw(p), rdp(p), rs1p(p)))
                       [] OTHER         -> Illegal
  BY DEF Quadrant0
<1>4. Oracle0(p) = CASE funct3(p) = 0 -> IF offset = 0 THEN Reserved("reserved.c.addi4spn.zero")
                                         ELSE As("c.addi4spn", I(offset, 2, 0, rdp(p), OP.IMM))
                     [] funct3(p) = 2 -> As("c.lw", I(OracleLw(p), rs1p(p), 2, rdp(p), OP.LOAD))
                     [] funct3(p) = 6 -> As("c.sw", S(OracleLw(p), rdp(p), rs1p(p)))
                     [] OTHER         -> Reserved("reserved.q0")
  BY DEF Oracle0
<1>. HIDE DEF sp, offset
<1>5. CASE funct3(p) = 0
  <2>1. CASE sp = 0 BY <1>1, <1>3, <1>4, <1>5, <2>1, AgreeReserved DEF LegalUnless
  <2>2. CASE sp # 0 BY <1>1, <1>3, <1>4, <1>5, <2>2, AgreeLegal DEF LegalUnless
  <2>. QED BY <2>1, <2>2
<1>6. CASE funct3(p) = 2 BY <1>2, <1>3, <1>4, <1>6, AgreeLegal
<1>7. CASE funct3(p) = 6 BY <1>2, <1>3, <1>4, <1>7, AgreeLegal
<1>8. CASE funct3(p) \notin {0, 2, 6} BY <1>3, <1>4, <1>8, AgreeReserved
<1>. QED BY <1>5, <1>6, <1>7, <1>8

\* The two ways to write a jump.
LEMMA JumpAgrees == \A v \in Int : \A d : enc_j(v, d) = OracleJ(v, d)
<1> SUFFICES ASSUME NEW v \in Int, NEW d PROVE enc_j(v, d) = OracleJ(v, d) OBVIOUS
<1> DEFINE s == Bits(v, 20, 20)
           x == Bits(v, 19, 15)
           y == Bits(v, 14, 12)
           e == Bits(v, 11, 11)
           z == Bits(v, 10, 5)
           t == Bits(v, 4, 1)
           b == Bits(v, 0, 0)
           i == v % 2^21
           u == 2^19 * (i \div 2^20) + 2^9 * ((i \div 2) % 2^10) + 2^8 * ((i \div 2^11) % 2)
                  + ((i \div 2^12) % 2^8)
<1>1. /\ s \in 0 .. 1 /\ x \in 0 .. 31 /\ y \in 0 .. 7 /\ e \in 0 .. 1 /\ z \in 0 .. 63
      /\ t \in 0 .. 15 /\ b \in 0 .. 1
  BY SMTT(90) DEF Bits
<1>2. i = 1048576 * s + 32768 * x + 4096 * y + 2048 * e + 32 * z + 2 * t + b
  <2> DEFINE low == v % 4096
             high == v \div 4096
  <2>1. low \in 0 .. 4095 /\ high \in Int /\ v = 4096 * high + low OBVIOUS
  <2>2. low = 2048 * e + 32 * z + 2 * t + b BY SMTT(90) DEF Bits
  <2>. HIDE DEF low, high, e, z, t, b, i
  <2>3. s = (high \div 256) % 2 /\ x = (high \div 8) % 32 /\ y = high % 8
    <3>1. v \div 1048576 = high \div 256 BY ONLY <2>1, SMTT(90)
    <3>2. v \div 32768 = high \div 8 BY ONLY <2>1, SMTT(90)
    <3>3. v \div 4096 = high BY ONLY <2>1, SMTT(90)
    <3>4. s = (v \div 1048576) % 2 BY SMTT(90) DEF s, Bits
    <3>5. x = (v \div 32768) % 32 BY SMTT(90) DEF x, Bits
    <3>6. y = (v \div 4096) % 8 BY SMTT(90) DEF y, Bits
    <3>. QED BY <3>1, <3>2, <3>3, <3>4, <3>5, <3>6
  <2>4. high % 512 = 256 * s + 8 * x + y
    <3>. HIDE DEF s, x, y
    <3>. QED BY ONLY <2>1, <2>3, SMTT(90)
  <2>5. i = 4096 * (high % 512) + low BY ONLY <2>1, SMTT(90) DEF i
  <2>. HIDE DEF s, x, y
  <2>. QED BY ONLY <1>1, <2>1, <2>2, <2>4, <2>5, SMTT(90)
<1>3. enc_j(v, d) = Word(s * 64 + z, t * 2 + e, x, y, d, OP.JAL) BY DEF enc_j
<1>4. OracleJ(v, d) = Word(Bits(u, 19, 13), Bits(u, 12, 8), Bits(u, 7, 3), Bits(u, 2, 0), d, OP.JAL)
  BY DEF OracleJ, Upper
<1>. HIDE DEF s, x, y, e, z, t, b, i
<1>5. u = 524288 * s + 8192 * z + 512 * t + 256 * e + 8 * x + y
  <2>1. i \div 2^20 = s BY ONLY <1>1, <1>2, SMTT(90)
  <2>2. (i \div 2) % 2^10 = 16 * z + t
    <3>1. i \div 2 = 1024 * (512 * s + 16 * x + 2 * y + e) + 16 * z + t
      BY ONLY <1>1, <1>2, SMTT(90)
    <3>. QED BY ONLY <1>1, <3>1, SMTT(90)
  <2>3. (i \div 2^11) % 2 = e
    <3>1. i \div 2^11 = 2 * (256 * s + 8 * x + y) + e BY ONLY <1>1, <1>2, SMTT(90)
    <3>. QED BY ONLY <1>1, <3>1, SMTT(90)
  <2>4. (i \div 2^12) % 2^8 = 8 * x + y
    <3>1. i \div 2^12 = 256 * s + 8 * x + y BY ONLY <1>1, <1>2, SMTT(90)
    <3>. QED BY ONLY <1>1, <3>1, SMTT(90)
  <2>. QED BY ONLY <1>1, <2>1, <2>2, <2>3, <2>4, SMTT(90)
<1>. HIDE DEF u
<1>6. Bits(u, 19, 13) = s * 64 + z /\ Bits(u, 12, 8) = t * 2 + e
  <2> DEFINE high == 64 * s + z
             middle == 2 * t + e
             low == 8 * x + y
  <2>1. u = 256 * (32 * high + middle) + low BY ONLY <1>1, <1>5, SMTT(90)
  <2>2. high \in 0 .. 127 /\ middle \in 0 .. 31 /\ low \in 0 .. 255
    BY ONLY <1>1, SMTT(90)
  <2>. HIDE DEF high, middle, low
  <2>3. u \div 2^8 = 32 * high + middle BY ONLY <2>1, <2>2, SMTT(90)
  <2>4. u \div 2^13 = high BY ONLY <2>1, <2>2, SMTT(90)
  <2>5. Bits(u, 12, 8) = middle BY ONLY <2>2, <2>3, SMTT(90) DEF Bits
  <2>6. Bits(u, 19, 13) = high BY ONLY <2>2, <2>4, SMTT(90) DEF Bits
  <2>. QED BY <1>1, <2>5, <2>6 DEF high, middle
<1>7. Bits(u, 7, 3) = x /\ Bits(u, 2, 0) = y
  BY ONLY <1>1, <1>5, SMTT(90) DEF Bits
<1>. QED BY <1>3, <1>4, <1>6, <1>7

\* The two ways to write a branch.
LEMMA BranchAgrees == \A v \in Int : \A r, f3 : enc_b(v, r, f3) = OracleB(v, r, f3)
<1> SUFFICES ASSUME NEW v \in Int, NEW r, NEW f3 PROVE enc_b(v, r, f3) = OracleB(v, r, f3)
    OBVIOUS
<1> DEFINE s == Bits(v, 12, 12)
           e == Bits(v, 11, 11)
           z == Bits(v, 10, 5)
           t == Bits(v, 4, 1)
           b == Bits(v, 0, 0)
           i == v % 2^13
<1>1. /\ s \in 0 .. 1 /\ e \in 0 .. 1 /\ z \in 0 .. 63 /\ t \in 0 .. 15 /\ b \in 0 .. 1
  BY SMTT(90) DEF Bits
<1>2. i = 4096 * s + 2048 * e + 32 * z + 2 * t + b
  <2> DEFINE h == v \div 2
             g == v \div 32
             f == v \div 2048
             k == v \div 4096
             j == v \div 8192
  <2>1. /\ h \in Int /\ g \in Int /\ f \in Int /\ k \in Int /\ j \in Int
        /\ i \in Int /\ v = 8192 * j + i
    OBVIOUS
  <2>2. v = 2 * h + b BY SMTT(90) DEF Bits
  <2>3. h = 16 * g + t BY SMTT(90) DEF Bits
  <2>4. g = 64 * f + z BY SMTT(90) DEF Bits
  <2>5. f = 2 * k + e BY SMTT(90) DEF Bits
  <2>6. k = 2 * j + s BY SMTT(90) DEF Bits
  <2>. HIDE DEF h, g, f, k, j, s, e, z, t, b, i
  <2>. QED BY ONLY <1>1, <2>1, <2>2, <2>3, <2>4, <2>5, <2>6, SMTT(90)
<1>3. enc_b(v, r, f3) = Word(s * 64 + z, 0, r, f3, t * 2 + e, OP.BRANCH) BY DEF enc_b
<1>4. OracleB(v, r, f3) = Word(2^6 * (i \div 2^12) + ((i \div 2^5) % 2^6), 0, r, f3,
                               2 * ((i \div 2) % 2^4) + ((i \div 2^11) % 2), OP.BRANCH)
  BY DEF OracleB
<1>. HIDE DEF s, e, z, t, b, i
<1>5. /\ 2^6 * (i \div 2^12) + ((i \div 2^5) % 2^6) = s * 64 + z
      /\ 2 * ((i \div 2) % 2^4) + ((i \div 2^11) % 2) = t * 2 + e
  <2>1. i \div 2^12 = s BY ONLY <1>1, <1>2, SMTT(90)
  <2>2. i \div 2^11 = 2 * s + e BY ONLY <1>1, <1>2, SMTT(90)
  <2>3. i \div 2^5 = 128 * s + 64 * e + z BY ONLY <1>1, <1>2, SMTT(90)
  <2>4. i \div 2 = 2048 * s + 1024 * e + 16 * z + t BY ONLY <1>1, <1>2, SMTT(90)
  <2>5. (i \div 2^11) % 2 = e /\ (i \div 2^5) % 2^6 = z BY ONLY <1>1, <2>2, <2>3, SMTT(90)
  <2>6. (i \div 2) % 2^4 = t BY ONLY <1>1, <2>4, SMTT(90)
  <2>. QED BY ONLY <1>1, <2>1, <2>5, <2>6, SMTT(90)
<1>. QED BY <1>3, <1>4, <1>5

\* The 20 bits of LUI, taken before or after the reduction.
LEMMA UpperAgrees ==
  \A v \in -32 .. 31 : \A d, opcode : Upper(v % 2^20, d, opcode) = Upper(v, d, opcode)
<1> SUFFICES ASSUME NEW v \in -32 .. 31, NEW d, NEW opcode
             PROVE  Upper(v % 2^20, d, opcode) = Upper(v, d, opcode)
    OBVIOUS
<1> DEFINE u == v % 2^20
<1>1. /\ Bits(u, 19, 13) = Bits(v, 19, 13) /\ Bits(u, 12, 8) = Bits(v, 12, 8)
      /\ Bits(u, 7, 3) = Bits(v, 7, 3) /\ Bits(u, 2, 0) = Bits(v, 2, 0)
  BY SMTT(90) DEF Bits
<1>. QED BY <1>1 DEF Upper

\* The immediates of quadrant 1, as both build them.
OracleImmediate6(p) == Field(p, 12, 12, 5) + Bits(p, 6, 2)

\* The offset of CJ.
OracleImmediate12(p) == Field(p, 12, 12, 11) + Field(p, 8, 8, 10) + Field(p, 10, 9, 8)
                    + Field(p, 6, 6, 7) + Field(p, 7, 7, 6) + Field(p, 2, 2, 5)
                    + Field(p, 11, 11, 4) + Field(p, 5, 3, 1)

\* The offset of CB.
OracleImmediate9(p) == Field(p, 12, 12, 8) + Field(p, 6, 5, 6) + Field(p, 2, 2, 5)
                   + Field(p, 11, 10, 3) + Field(p, 4, 3, 1)

\* The RTL and the oracle read the same immediates.
LEMMA ImmediatesAgree ==
  ASSUME NEW p \in Parcel
  PROVE  /\ OracleImmediate6(p) \in 0 .. 63 /\ imm6(p) = SignExtend(OracleImmediate6(p), 6)
         /\ imm_j(p) = SignExtend(OracleImmediate12(p), 12) /\ imm_j(p) \in Int
         /\ imm_b(p) = SignExtend(OracleImmediate9(p), 9) /\ imm_b(p) \in Int
<1>1. Cat(p, << <<12, 12>>, <<6, 2>> >>) = OracleImmediate6(p) /\ OracleImmediate6(p) \in 0 .. 63
  BY CatImmediate, Slices DEF OracleImmediate6, Field
<1>2. /\ 2 * Cat(p, << <<12, 12>>, <<8, 8>>, <<10, 9>>, <<6, 6>>, <<7, 7>>,
                       <<2, 2>>, <<11, 11>>, <<5, 3>> >>) = OracleImmediate12(p)
      /\ OracleImmediate12(p) \in Int
  BY CatJump, Slices DEF OracleImmediate12, Field
<1>3. /\ 2 * Cat(p, << <<12, 12>>, <<6, 5>>, <<2, 2>>, <<11, 10>>, <<4, 3>> >>)
           = OracleImmediate9(p)
      /\ OracleImmediate9(p) \in Int
  BY CatBranch, Slices DEF OracleImmediate9, Field
<1>4. SignExtend(OracleImmediate12(p), 12) \in Int /\ SignExtend(OracleImmediate9(p), 9) \in Int
  BY <1>2, <1>3 DEF SignExtend
<1>. QED BY <1>1, <1>2, <1>3, <1>4 DEF imm6, imm_j, imm_b

\* C.LUI and C.ADDI16SP.
LEMMA LuiAgrees ==
  ASSUME NEW p \in Parcel
  PROVE  Agree(LuiGroup(p), OracleLui(p, OracleImmediate6(p), SignExtend(OracleImmediate6(p), 6)))
<1> DEFINE sum == 16 * Cat(p, << <<12, 12>>, <<4, 3>>, <<5, 5>>, <<2, 2>>, <<6, 6>> >>)
           sp == SignExtend(sum, 10)
           offset == Field(p, 12, 12, 9) + Field(p, 4, 3, 7) + Field(p, 5, 5, 6)
                       + Field(p, 2, 2, 5) + Field(p, 6, 6, 4)
           v == imm6(p)
<1>1. sum = offset /\ offset \in 0 .. 1023 BY CatSp16, Slices DEF Field
<1>2. v = SignExtend(OracleImmediate6(p), 6) /\ OracleImmediate6(p) \in 0 .. 63 BY ImmediatesAgree
<1>3. LuiGroup(p) = IF rd(p) = 2 THEN LegalUnless(sp = 0, I(sp, 2, 0, 2, OP.IMM))
                    ELSE IF rd(p) = 0 THEN Legal(Nop)
                    ELSE LegalUnless(v = 0, Upper(v, rd(p), OP.LUI))
  BY DEF LuiGroup
<1>4. OracleLui(p, OracleImmediate6(p), v)
        = CASE rd(p) = 2 /\ offset = 0 -> Reserved("reserved.c.addi16sp.zero")
            [] rd(p) = 2 /\ offset # 0 ->
                 As("c.addi16sp", I(SignExtend(offset, 10), 2, 0, 2, OP.IMM))
            [] rd(p) = 0               -> As("hint.c.lui.rd0", Nop)
            [] rd(p) \notin {0, 2} ->
                 IF OracleImmediate6(p) = 0 THEN Reserved("reserved.c.lui.zero")
                 ELSE As("c.lui", Upper(v % 2^20, rd(p), OP.LUI))
  BY DEF OracleLui
<1>5. sp = 0 <=> offset = 0
  <2>. HIDE DEF offset
  <2>. QED BY <1>1, SignedZero
<1>6. v \in -32 .. 31 /\ (v = 0 <=> OracleImmediate6(p) = 0) BY <1>2, SignedZero
<1>7. Upper(v % 2^20, rd(p), OP.LUI) = Upper(v, rd(p), OP.LUI)
  <2>. HIDE DEF v
  <2>. QED BY <1>6, UpperAgrees, Zenon
<1>8. sp = SignExtend(offset, 10) BY <1>1
<1>. HIDE DEF sum, sp, offset, v
<1>9. CASE rd(p) = 2
  <2>1. CASE sp = 0 BY <1>2, <1>3, <1>4, <1>5, <1>9, <2>1, AgreeReserved DEF LegalUnless
  <2>2. CASE sp # 0 BY <1>2, <1>3, <1>4, <1>5, <1>8, <1>9, <2>2, AgreeLegal DEF LegalUnless
  <2>. QED BY <2>1, <2>2
<1>10. CASE rd(p) = 0 BY <1>2, <1>3, <1>4, <1>10, AgreeLegal
<1>11. CASE rd(p) \notin {0, 2}
  <2>1. CASE v = 0 BY <1>2, <1>3, <1>4, <1>6, <1>11, <2>1, AgreeReserved DEF LegalUnless
  <2>2. CASE v # 0 BY <1>2, <1>3, <1>4, <1>6, <1>7, <1>11, <2>2, AgreeLegal DEF LegalUnless
  <2>. QED BY <2>1, <2>2
<1>. QED BY <1>9, <1>10, <1>11

\* Shifts, C.ANDI and the register forms of quadrant 1.
LEMMA ArithmeticAgrees ==
  ASSUME NEW p \in Parcel
  PROVE  Agree(ArithmeticGroup(p), OracleArithmetic(p, imm6(p)))
<1> DEFINE sub == Bits(p, 11, 10)
           op == Bits(p, 6, 5)
           alu == << <<32, 0, "c.sub">>, <<0, 4, "c.xor">>, <<0, 6, "c.or">>, <<0, 7, "c.and">> >>
                    [op + 1]
           shift == IF sub = 0 THEN "c.srli" ELSE "c.srai"
<1>1. ArithmeticGroup(p)
        = CASE sub < 2 -> LegalUnless(bit12(p), Word(32 * sub, rs2(p), rs1p(p), 5, rs1p(p), OP.IMM))
            [] sub = 2 -> Legal(I(imm6(p), rs1p(p), 7, rs1p(p), OP.IMM))
            [] sub = 3 -> LegalUnless(bit12(p), R(IF op = 0 THEN 32 ELSE 0, rdp(p), rs1p(p),
                                                  <<0, 4, 6, 7>>[op + 1], rs1p(p)))
  BY DEF ArithmeticGroup
<1>2. OracleArithmetic(p, imm6(p))
        = CASE sub < 2 -> IF bit12(p) THEN Reserved("reserved.shift.shamt5")
                          ELSE As(shift, I(IF sub = 0 THEN rs2(p) ELSE 2^10 + rs2(p),
                                           rs1p(p), 5, rs1p(p), OP.IMM))
            [] sub = 2 -> As("c.andi", I(imm6(p), rs1p(p), 7, rs1p(p), OP.IMM))
            [] sub = 3 -> IF bit12(p) THEN Reserved("reserved.ca.rv32.subw_addw")
                          ELSE As(alu[3], R(alu[1], rdp(p), rs1p(p), alu[2], rs1p(p)))
  BY DEF OracleArithmetic
<1>3. sub \in 0 .. 3 /\ op \in {0, 1, 2, 3} /\ rs2(p) \in 0 .. 31 BY Slices
<1>4. alu[1] = (IF op = 0 THEN 32 ELSE 0) /\ alu[2] = <<0, 4, 6, 7>>[op + 1] BY <1>3
<1>. HIDE DEF sub, op, alu, shift
<1>5. CASE bit12(p) /\ sub \in {0, 1, 3}
  BY <1>1, <1>2, <1>3, <1>5, AgreeReserved DEF LegalUnless
<1>6. CASE ~bit12(p) /\ sub \in {0, 1}
  <2> DEFINE x == IF sub = 0 THEN rs2(p) ELSE 2^10 + rs2(p)
  <2>1. Bits(x, 11, 5) = 32 * sub /\ Bits(x, 4, 0) = rs2(p) BY <1>3, <1>6, SMTT(90) DEF Bits
  <2>2. I(x, rs1p(p), 5, rs1p(p), OP.IMM) = Word(32 * sub, rs2(p), rs1p(p), 5, rs1p(p), OP.IMM)
    BY <2>1 DEF I
  <2>. HIDE DEF x
  <2>3. OracleArithmetic(p, imm6(p)) = As(shift, I(x, rs1p(p), 5, rs1p(p), OP.IMM))
    BY <1>2, <1>6 DEF x
  <2>. QED BY <1>1, <1>6, <2>2, <2>3, AgreeLegal DEF LegalUnless
<1>7. CASE sub = 2 BY <1>1, <1>2, <1>7, AgreeLegal
<1>8. CASE ~bit12(p) /\ sub = 3
  BY <1>1, <1>2, <1>4, <1>8, AgreeLegal DEF LegalUnless
<1>. QED BY <1>3, <1>5, <1>6, <1>7, <1>8

\* Quadrant 1.
LEMMA Quadrant1Agrees == \A p \in Parcel : Agree(Quadrant1(p), Oracle1(p))
<1> SUFFICES ASSUME NEW p \in Parcel PROVE Agree(Quadrant1(p), Oracle1(p)) OBVIOUS
<1> DEFINE v == SignExtend(OracleImmediate6(p), 6)
           j == SignExtend(OracleImmediate12(p), 12)
           b == SignExtend(OracleImmediate9(p), 9)
<1>1. v = imm6(p) /\ j = imm_j(p) /\ b = imm_b(p) /\ j \in Int /\ b \in Int BY ImmediatesAgree
<1>2. Oracle1(p) =
        CASE funct3(p) = 0 -> As(IF rd(p) = 0 /\ v = 0 THEN "c.nop" ELSE "c.addi",
                                 I(v, rd(p), 0, rd(p), OP.IMM))
          [] funct3(p) = 1 -> As("c.jal", OracleJ(j, 1))
          [] funct3(p) = 5 -> As("c.j", OracleJ(j, 0))
          [] funct3(p) = 2 -> As("c.li", I(v, 0, 0, rd(p), OP.IMM))
          [] funct3(p) = 3 -> OracleLui(p, OracleImmediate6(p), v)
          [] funct3(p) = 4 -> OracleArithmetic(p, v)
          [] funct3(p) = 6 -> As("c.beqz", OracleB(b, rs1p(p), 0))
          [] funct3(p) = 7 -> As("c.bnez", OracleB(b, rs1p(p), 1))
  BY DEF Oracle1, OracleImmediate6, OracleImmediate12, OracleImmediate9
<1>3. Quadrant1(p) =
        CASE funct3(p) = 0 -> Legal(I(v, rd(p), 0, rd(p), OP.IMM))
          [] funct3(p) = 1 -> Legal(enc_j(j, 1))
          [] funct3(p) = 2 -> Legal(I(v, 0, 0, rd(p), OP.IMM))
          [] funct3(p) = 3 -> LuiGroup(p)
          [] funct3(p) = 4 -> ArithmeticGroup(p)
          [] funct3(p) = 5 -> Legal(enc_j(j, 0))
          [] funct3(p) > 5 -> Legal(enc_b(b, rs1p(p), funct3(p) - 6))
  BY <1>1 DEF Quadrant1
<1>4. funct3(p) \in {0, 1, 2, 3, 4, 5, 6, 7} BY Slices
<1>5. Agree(LuiGroup(p), OracleLui(p, OracleImmediate6(p), v)) BY LuiAgrees
<1>6. Agree(ArithmeticGroup(p), OracleArithmetic(p, v)) BY <1>1, ArithmeticAgrees
<1>. HIDE DEF v, j, b
<1>7. enc_j(j, 0) = OracleJ(j, 0) /\ enc_j(j, 1) = OracleJ(j, 1) BY <1>1, JumpAgrees, Zenon
<1>8. /\ enc_b(b, rs1p(p), 0) = OracleB(b, rs1p(p), 0)
      /\ enc_b(b, rs1p(p), 1) = OracleB(b, rs1p(p), 1)
  BY <1>1, BranchAgrees, Zenon
<1>9. CASE funct3(p) = 0 BY <1>2, <1>3, <1>9, AgreeLegal
<1>10. CASE funct3(p) = 1 BY <1>2, <1>3, <1>7, <1>10, AgreeLegal
<1>11. CASE funct3(p) = 2 BY <1>2, <1>3, <1>11, AgreeLegal
<1>12. CASE funct3(p) = 3 BY <1>2, <1>3, <1>5, <1>12
<1>13. CASE funct3(p) = 4 BY <1>2, <1>3, <1>6, <1>13
<1>14. CASE funct3(p) = 5 BY <1>2, <1>3, <1>7, <1>14, AgreeLegal
<1>15. CASE funct3(p) = 6 BY <1>2, <1>3, <1>8, <1>15, AgreeLegal
<1>16. CASE funct3(p) = 7 BY <1>2, <1>3, <1>8, <1>16, AgreeLegal
<1>. QED BY <1>4, <1>9, <1>10, <1>11, <1>12, <1>13, <1>14, <1>15, <1>16

\* C.JR, C.JALR, C.MV, C.ADD and C.EBREAK.
LEMMA RegisterAgrees ==
  ASSUME NEW p \in Parcel
  PROVE  Agree(RegisterGroup(p), OracleRegister(p))
<1> DEFINE r2 == rs2(p)
           d == rd(p)
<1>1. RegisterGroup(p)
        = IF r2 # 0 THEN Legal(R(0, r2, IF bit12(p) THEN d ELSE 0, 0, d))
          ELSE IF d = 0 THEN LegalUnless(~bit12(p), Ebreak)
          ELSE Legal(I(0, d, 0, IF bit12(p) THEN 1 ELSE 0, OP.JALR))
  BY DEF RegisterGroup
<1>2. OracleRegister(p)
        = CASE ~bit12(p) /\ r2 = 0 -> IF d = 0 THEN Reserved("reserved.c.jr.rd0")
                                      ELSE As("c.jr", I(0, d, 0, 0, OP.JALR))
            [] ~bit12(p) /\ r2 # 0 -> As("c.mv", R(0, r2, 0, 0, d))
            [] bit12(p) /\ r2 = 0  -> IF d = 0 THEN As("c.ebreak", Ebreak)
                                      ELSE As("c.jalr", I(0, d, 0, 1, OP.JALR))
            [] bit12(p) /\ r2 # 0  -> As("c.add", R(0, r2, d, 0, d))
  BY DEF OracleRegister
<1>. HIDE DEF r2, d
<1>3. CASE bit12(p)
  <2>1. CASE r2 # 0 BY <1>1, <1>2, <1>3, <2>1, AgreeLegal
  <2>2. CASE r2 = 0 /\ d = 0 BY <1>1, <1>2, <1>3, <2>2, AgreeLegal DEF LegalUnless
  <2>3. CASE r2 = 0 /\ d # 0 BY <1>1, <1>2, <1>3, <2>3, AgreeLegal
  <2>. QED BY <2>1, <2>2, <2>3
<1>4. CASE ~bit12(p)
  <2>1. CASE r2 # 0 BY <1>1, <1>2, <1>4, <2>1, AgreeLegal
  <2>2. CASE r2 = 0 /\ d = 0 BY <1>1, <1>2, <1>4, <2>2, AgreeReserved DEF LegalUnless
  <2>3. CASE r2 = 0 /\ d # 0 BY <1>1, <1>2, <1>4, <2>3, AgreeLegal
  <2>. QED BY <2>1, <2>2, <2>3
<1>. QED BY <1>3, <1>4

\* Quadrant 2.
LEMMA Quadrant2Agrees == \A p \in Parcel : Agree(Quadrant2(p), Oracle2(p))
<1> SUFFICES ASSUME NEW p \in Parcel PROVE Agree(Quadrant2(p), Oracle2(p)) OBVIOUS
<1> DEFINE lw == 4 * Cat(p, << <<3, 2>>, <<12, 12>>, <<6, 4>> >>)
           sw == 4 * Cat(p, << <<8, 7>>, <<12, 9>> >>)
<1>1. lw = Field(p, 3, 2, 6) + Field(p, 12, 12, 5) + Field(p, 6, 4, 2)
  BY CatLwsp, Slices DEF Field
<1>2. sw = Field(p, 8, 7, 6) + Field(p, 12, 9, 2) BY CatSwsp, Slices DEF Field
<1>3. Quadrant2(p) =
        CASE funct3(p) = 0 -> LegalUnless(bit12(p), I(rs2(p), rd(p), 1, rd(p), OP.IMM))
          [] funct3(p) = 2 -> LegalUnless(rd(p) = 0, I(lw, 2, 2, rd(p), OP.LOAD))
          [] funct3(p) = 4 -> RegisterGroup(p)
          [] funct3(p) = 6 -> Legal(S(sw, rs2(p), 2))
          [] OTHER         -> Illegal
  BY DEF Quadrant2
<1>. HIDE DEF lw, sw
<1>4. Oracle2(p) =
        CASE funct3(p) = 0 -> IF bit12(p) THEN Reserved("reserved.c.slli.shamt5")
                              ELSE As("c.slli", I(rs2(p), rd(p), 1, rd(p), OP.IMM))
          [] funct3(p) = 2 -> IF rd(p) = 0 THEN Reserved("reserved.c.lwsp.rd0")
                              ELSE As("c.lwsp", I(lw, 2, 2, rd(p), OP.LOAD))
          [] funct3(p) = 4 -> OracleRegister(p)
          [] funct3(p) = 6 -> As("c.swsp", S(sw, rs2(p), 2))
          [] OTHER         -> Reserved("reserved.q2")
  BY <1>1, <1>2 DEF Oracle2
<1>5. CASE funct3(p) = 0
  <2>1. CASE bit12(p) BY <1>3, <1>4, <1>5, <2>1, AgreeReserved DEF LegalUnless
  <2>2. CASE ~bit12(p) BY <1>3, <1>4, <1>5, <2>2, AgreeLegal DEF LegalUnless
  <2>. QED BY <2>1, <2>2
<1>6. CASE funct3(p) = 2
  <2>1. CASE rd(p) = 0 BY <1>3, <1>4, <1>6, <2>1, AgreeReserved DEF LegalUnless
  <2>2. CASE rd(p) # 0 BY <1>3, <1>4, <1>6, <2>2, AgreeLegal DEF LegalUnless
  <2>. QED BY <2>1, <2>2
<1>7. CASE funct3(p) = 4 BY <1>3, <1>4, <1>7, RegisterAgrees
<1>8. CASE funct3(p) = 6 BY <1>3, <1>4, <1>8, AgreeLegal
<1>9. CASE funct3(p) \notin {0, 2, 4, 6} BY <1>3, <1>4, <1>9, AgreeReserved
<1>. QED BY <1>5, <1>6, <1>7, <1>8, <1>9

\* All parcels.
LEMMA ParcelAgrees == \A p \in Parcel : Agree(Decompress(p), decompress_rv32c(p))
<1> SUFFICES ASSUME NEW p \in Parcel PROVE Agree(Decompress(p), decompress_rv32c(p)) OBVIOUS
<1>1. quadrant(p) \in {0, 1, 2, 3} BY Slices
<1>2. CASE quadrant(p) = 0 BY <1>2, Quadrant0Agrees DEF Decompress, decompress_rv32c
<1>3. CASE quadrant(p) = 1 BY <1>3, Quadrant1Agrees DEF Decompress, decompress_rv32c
<1>4. CASE quadrant(p) = 2 BY <1>4, Quadrant2Agrees DEF Decompress, decompress_rv32c
<1>5. CASE quadrant(p) = 3 BY <1>5, AgreeReserved DEF Decompress, decompress_rv32c
<1>. QED BY <1>1, <1>2, <1>3, <1>4, <1>5

\* The decompressor and the oracle of the test bench, which build the expansion
\* in different ways, agree on every 16-bit parcel: both reject it, or both expand
\* it to the same word.
THEOREM ParcelsMatch == MCSpec => []DecompressorMatchesOracle
<1>1. BenchInv => DecompressorMatchesOracle
  <2>1. BenchInv /\ bench = "parcel" => parcel \in Parcel BY DEF BenchInv
  <2>. QED BY <2>1, ParcelAgrees DEF DecompressorMatchesOracle, Agree
<1>. QED BY <1>1, BenchInit, BenchStep, PTL DEF MCSpec

-----------------------------------------------------------------------------
(* The expansions.                                                         *)

\* The core executes the word, and under that name.
Runs(w, name) == instruction_is_legal(w) /\ decode_instruction(w) = name

\* The register-immediate words that parcels expand to.
LEMMA RunsImmediate ==
  ASSUME NEW w \in InstructionWord, w.opcode = OP.IMM
  PROVE  /\ w.funct3 = 0 => Runs(w, "addi")
         /\ w.funct3 = 7 => Runs(w, "andi")
         /\ w.funct3 = 1 /\ w.funct7 = 0 => Runs(w, "slli")
         /\ w.funct3 = 5 /\ w.funct7 = 0 => Runs(w, "srli")
         /\ w.funct3 = 5 /\ w.funct7 = 32 => Runs(w, "srai")
<1> DEFINE legal == (w.funct3 = 1 => w.funct7 = 0) /\ (w.funct3 = 5 => w.funct7 \in {0, 32})
           m == decode_instruction(w)
<1>1. legal => instruction_is_legal(w) BY DEF instruction_is_legal
<1>2. legal => IF w.funct3 \in {1, 5}
               THEN m \in DOMAIN ShiftType /\ ShiftType[m] = <<w.funct3, w.funct7>>
               ELSE m \in DOMAIN IType /\ IType[m] = w.funct3
  BY DecodeImmediate
<1>3. \A n \in DOMAIN IType : (IType[n] = 0 => n = "addi") /\ (IType[n] = 7 => n = "andi")
  BY DEF IType
<1>4. \A n \in DOMAIN ShiftType :
        /\ ShiftType[n] = <<1, 0>> => n = "slli"
        /\ ShiftType[n] = <<5, 0>> => n = "srli"
        /\ ShiftType[n] = <<5, 32>> => n = "srai"
  BY DEF ShiftType
<1>. HIDE DEF m
<1>. QED BY <1>1, <1>2, <1>3, <1>4 DEF Runs, m

\* The R-type words that parcels expand to.
LEMMA RunsRegister ==
  ASSUME NEW w \in InstructionWord, w.opcode = OP.REG
  PROVE  /\ w.funct3 = 0 /\ w.funct7 = 0 => Runs(w, "add")
         /\ w.funct3 = 0 /\ w.funct7 = 32 => Runs(w, "sub")
         /\ w.funct3 = 4 /\ w.funct7 = 0 => Runs(w, "xor")
         /\ w.funct3 = 6 /\ w.funct7 = 0 => Runs(w, "or")
         /\ w.funct3 = 7 /\ w.funct7 = 0 => Runs(w, "and")
<1> DEFINE legal == w.funct7 = 0 \/ (w.funct7 = 32 /\ w.funct3 = 0)
           m == decode_instruction(w)
<1>1. legal => instruction_is_legal(w) BY DEF instruction_is_legal
<1>2. legal => m \in DOMAIN RType /\ RType[m] = <<w.funct3, w.funct7>> BY DecodeRegister
<1>3. \A n \in DOMAIN RType :
        /\ RType[n] = <<0, 0>> => n = "add"
        /\ RType[n] = <<0, 32>> => n = "sub"
        /\ RType[n] = <<4, 0>> => n = "xor"
        /\ RType[n] = <<6, 0>> => n = "or"
        /\ RType[n] = <<7, 0>> => n = "and"
  BY DEF RType
<1>. HIDE DEF m
<1>. QED BY <1>1, <1>2, <1>3 DEF Runs, m

\* Loads, stores, branches, jumps and LUI.
LEMMA RunsOther ==
  ASSUME NEW w \in InstructionWord
  PROVE  /\ w.opcode = OP.LOAD /\ w.funct3 = 2 => Runs(w, "lw")
         /\ w.opcode = OP.STORE /\ w.funct3 = 2 => Runs(w, "sw")
         /\ w.opcode = OP.BRANCH /\ w.funct3 = 0 => Runs(w, "beq")
         /\ w.opcode = OP.BRANCH /\ w.funct3 = 1 => Runs(w, "bne")
         /\ w.opcode = OP.JALR /\ w.funct3 = 0 => Runs(w, "jalr")
         /\ w.opcode = OP.JAL => Runs(w, "jal")
         /\ w.opcode = OP.LUI => Runs(w, "lui")
<1> DEFINE m == decode_instruction(w)
<1>1. CASE w.opcode = OP.LOAD
  <2>1. \A n \in DOMAIN LoadType : LoadType[n] = 2 => n = "lw" BY DEF LoadType
  <2>2. w.funct3 = 2 => m = "lw" BY <1>1, <2>1, DecodeLoad
  <2>3. w.funct3 = 2 => instruction_is_legal(w) BY <1>1 DEF instruction_is_legal
  <2>. QED BY <1>1, <2>2, <2>3, Opcodes DEF Runs
<1>2. CASE w.opcode = OP.STORE
  <2>1. \A n \in DOMAIN StoreType : StoreType[n] = 2 => n = "sw" BY DEF StoreType
  <2>2. w.funct3 = 2 => m = "sw" BY <1>2, <2>1, DecodeStore
  <2>3. w.funct3 = 2 => instruction_is_legal(w) BY <1>2 DEF instruction_is_legal
  <2>. QED BY <1>2, <2>2, <2>3, Opcodes DEF Runs
<1>3. CASE w.opcode = OP.BRANCH
  <2>1. \A n \in DOMAIN BranchType :
          (BranchType[n] = 0 => n = "beq") /\ (BranchType[n] = 1 => n = "bne")
    BY DEF BranchType
  <2>2. (w.funct3 = 0 => m = "beq") /\ (w.funct3 = 1 => m = "bne") BY <1>3, <2>1, DecodeBranch
  <2>3. w.funct3 \in {0, 1} => instruction_is_legal(w) BY <1>3 DEF instruction_is_legal
  <2>. QED BY <1>3, <2>2, <2>3, Opcodes DEF Runs
<1>4. CASE w.opcode \in {OP.JALR, OP.JAL, OP.LUI}
  <2>1. (w.opcode = OP.JALR => w.funct3 = 0) => instruction_is_legal(w)
    BY <1>4, Opcodes DEF instruction_is_legal
  <2>. QED BY <1>4, <2>1, DecodeFixed, Opcodes DEF Runs
<1>5. CASE w.opcode \notin {OP.LOAD, OP.STORE, OP.BRANCH, OP.JALR, OP.JAL, OP.LUI} BY <1>5
<1>. QED BY <1>1, <1>2, <1>3, <1>4, <1>5

\* The expansion of C.EBREAK.
LEMMA RunsEbreak == Ebreak \in InstructionWord /\ Runs(Ebreak, "ebreak")
<1>1. Ebreak = SystemWords["ebreak"] /\ "ebreak" \in DOMAIN SystemWords
  BY DEF Ebreak, SystemWords
<1>2. Ebreak \in InstructionWord /\ Ebreak.opcode = OP.SYSTEM /\ Ebreak.funct3 = 0
  BY Opcodes DEF Ebreak, Word, InstructionWord
<1>. HIDE DEF Ebreak
<1>3. instruction_is_legal(Ebreak) BY <1>1, <1>2 DEF instruction_is_legal
<1>4. LET m == decode_instruction(Ebreak) IN m \in DOMAIN SystemWords /\ SystemWords[m] = Ebreak
  <2>1. Ebreak.funct3 # 4 BY <1>2
  <2>. QED BY <1>1, <1>2, <2>1, DecodeSystem
<1>. QED BY <1>1, <1>2, <1>3, <1>4, SystemDistinct DEF Runs

\* The values of funct3.
Functs == 0 .. 7

\* The fields of an I-type expansion.
LEMMA IWord ==
  ASSUME NEW v \in Int, NEW s \in Registers, NEW f3 \in Functs, NEW d \in Registers,
         NEW opcode \in {OP.IMM, OP.LOAD, OP.JALR}
  PROVE  /\ I(v, s, f3, d, opcode) \in InstructionWord
         /\ I(v, s, f3, d, opcode).opcode = opcode
         /\ I(v, s, f3, d, opcode).funct3 = f3
         /\ I(v, s, f3, d, opcode).rd = d
         /\ I(v, s, f3, d, opcode).funct7 = Bits(v, 11, 5)
         /\ I(v, s, f3, d, opcode).rs2 = Bits(v, 4, 0)
BY FieldRanges, Opcodes DEF I, Word, InstructionWord, Registers, Functs

\* The fields of a jump to a register.
LEMMA JumpRegisterWord ==
  \A s, d \in Registers :
    LET w == I(0, s, 0, d, OP.JALR)
    IN  w \in InstructionWord /\ w.opcode = OP.JALR /\ w.funct3 = 0
BY FieldRanges, Opcodes DEF I, Word, InstructionWord, Registers

\* The fields of a store.
LEMMA SWord ==
  ASSUME NEW v \in Int, NEW s2 \in Registers, NEW s1 \in Registers
  PROVE  /\ S(v, s2, s1) \in InstructionWord
         /\ S(v, s2, s1).opcode = OP.STORE /\ S(v, s2, s1).funct3 = 2
BY FieldRanges, Opcodes DEF S, Word, InstructionWord, Registers, Functs

\* The fields of an R-type expansion.
LEMMA RWord ==
  ASSUME NEW f7 \in {0, 32}, NEW s2 \in Registers, NEW s1 \in Registers, NEW f3 \in Functs,
         NEW d \in Registers
  PROVE  /\ R(f7, s2, s1, f3, d) \in InstructionWord
         /\ R(f7, s2, s1, f3, d).opcode = OP.REG
         /\ R(f7, s2, s1, f3, d).funct3 = f3 /\ R(f7, s2, s1, f3, d).funct7 = f7
         /\ R(f7, s2, s1, f3, d).rs2 = s2 /\ R(f7, s2, s1, f3, d).rd = d
BY Opcodes DEF R, Word, InstructionWord, Registers, Functs

\* The fields of LUI and JAL.
LEMMA UpperWord ==
  ASSUME NEW v \in Int, NEW d \in Registers, NEW opcode \in {OP.LUI, OP.JAL}
  PROVE  LET w == Upper(v, d, opcode) IN w \in InstructionWord /\ w.opcode = opcode
BY FieldRanges, Opcodes DEF Upper, Word, InstructionWord, Registers, Functs

\* The fields of a jump.
LEMMA JumpWord ==
  ASSUME NEW v \in Int, NEW d \in Registers
  PROVE  LET w == OracleJ(v, d) IN w \in InstructionWord /\ w.opcode = OP.JAL
<1> DEFINE i == v % 2^21
           u == 2^19 * (i \div 2^20) + 2^9 * ((i \div 2) % 2^10) + 2^8 * ((i \div 2^11) % 2)
                  + ((i \div 2^12) % 2^8)
<1>1. u \in Int OBVIOUS
<1>2. OracleJ(v, d) = Upper(u, d, OP.JAL) BY DEF OracleJ
<1>. HIDE DEF i, u
<1>3. Upper(u, d, OP.JAL) \in InstructionWord /\ Upper(u, d, OP.JAL).opcode = OP.JAL
  <2>1. OP.JAL \in {OP.LUI, OP.JAL} OBVIOUS
  <2>. QED BY <1>1, <2>1, UpperWord
<1>. QED BY <1>2, <1>3

\* The fields of a branch.
LEMMA BranchWord ==
  ASSUME NEW v \in Int, NEW s \in Registers, NEW f3 \in Functs
  PROVE  LET w == OracleB(v, s, f3)
         IN  w \in InstructionWord /\ w.opcode = OP.BRANCH /\ w.funct3 = f3
<1>1. OracleB(v, s, f3) = enc_b(v, s, f3) BY BranchAgrees, Zenon
<1>2. /\ Bits(v, 12, 12) * 64 + Bits(v, 10, 5) \in 0 .. 127
      /\ Bits(v, 4, 1) * 2 + Bits(v, 11, 11) \in 0 .. 31
  BY SMTT(90) DEF Bits
<1>. QED BY <1>1, <1>2, Opcodes DEF enc_b, Word, InstructionWord, Registers, Functs

\* What a mnemonic of the oracle says of the parcel and its expansion: it runs
\* as what the mnemonic abbreviates, and the assembler gives the parcel back.
Assembles(p, w, m) ==
  /\ w.rd = 0
       \/ CASE m \in {"c.addi", "c.li"} -> CEncodableImmediate(m, w.rd, o_imm(w))
            [] m \in {"c.mv", "c.add"}  -> CEncodableRegister(w.rd, w.rs2)
            [] OTHER -> TRUE
  /\ CASE m \in {"c.addi", "c.nop"} -> p = c_addi(w.rd, o_imm(w))
       [] m = "c.li"  -> p = c_li(w.rd, o_imm(w))
       [] m = "c.mv"  -> p = c_mv(w.rd, w.rs2)
       [] m = "c.add" -> p = c_add(w.rd, w.rs2)
       [] OTHER -> TRUE

\* What ExpansionsExecutable says of one parcel.
Executes(p, oracle) ==
  ~oracle.illegal => /\ Runs(oracle.instruction, Abbreviates(oracle.coverage_bin))
                     /\ Assembles(p, oracle.instruction, oracle.coverage_bin)

\* A parcel the oracle rejects.
LEMMA ReservedExecutes == \A p, reason : Executes(p, Reserved(reason))
BY DEF Executes, Reserved

\* A parcel it expands.
LEMMA LegalExecutes ==
  \A p, m, w : Runs(w, Abbreviates(m)) /\ Assembles(p, w, m) => Executes(p, As(m, w))
BY DEF Executes, As

\* An expansion the compressed assembler does not make.
LEMMA PlainExecutes ==
  \A p, w, m : m \notin {"c.nop", "c.addi", "c.li", "c.mv", "c.add"} /\ Runs(w, Abbreviates(m))
                 => Executes(p, As(m, w))
BY LegalExecutes DEF Assembles

\* The instruction each parcel abbreviates.
LEMMA Abbreviations ==
  /\ \A m \in {"c.nop", "c.addi", "c.addi4spn", "c.addi16sp", "c.li", "hint.c.lui.rd0"} :
       Abbreviates(m) = "addi"
  /\ Abbreviates("c.lw") = "lw" /\ Abbreviates("c.lwsp") = "lw"
  /\ Abbreviates("c.sw") = "sw" /\ Abbreviates("c.swsp") = "sw"
  /\ Abbreviates("c.j") = "jal" /\ Abbreviates("c.jal") = "jal"
  /\ Abbreviates("c.jr") = "jalr" /\ Abbreviates("c.jalr") = "jalr"
  /\ Abbreviates("c.mv") = "add" /\ Abbreviates("c.add") = "add"
  /\ Abbreviates("c.lui") = "lui" /\ Abbreviates("c.ebreak") = "ebreak"
  /\ Abbreviates("c.beqz") = "beq" /\ Abbreviates("c.bnez") = "bne"
  /\ Abbreviates("c.slli") = "slli" /\ Abbreviates("c.srli") = "srli"
  /\ Abbreviates("c.srai") = "srai" /\ Abbreviates("c.andi") = "andi"
  /\ Abbreviates("c.sub") = "sub" /\ Abbreviates("c.xor") = "xor"
  /\ Abbreviates("c.or") = "or" /\ Abbreviates("c.and") = "and"
BY DEF Abbreviates

\* A parcel from its fields.
LEMMA ParcelFields ==
  ASSUME NEW p \in Parcel
  PROVE  p = 8192 * funct3(p) + 4096 * Bits(p, 12, 12) + 128 * rd(p) + 4 * rs2(p) + quadrant(p)
<1>1. p \in Nat /\ p < 65536 BY SMTT(90) DEF Parcel
<1> DEFINE a == p \div 4
           b == p \div 128
           c == p \div 4096
           f3 == funct3(p)
           b12 == Bits(p, 12, 12)
           d == rd(p)
           r == rs2(p)
           q == quadrant(p)
<1>2. p = 4 * a + q BY <1>1, SMTT(90) DEF quadrant, Bits
<1>3. a = 32 * b + r BY <1>1, SMTT(90) DEF rs2, Bits
<1>4. b = 32 * c + d BY <1>1, SMTT(90) DEF rd, Bits
<1>5. c = 2 * f3 + b12
  <2> DEFINE g == p \div 8192
  <2>1. g \in 0 .. 7 BY <1>1
  <2>2. f3 = g % 8 BY <1>1, SMTT(90) DEF funct3, Bits
  <2>3. c = 2 * g + b12 BY <1>1, SMTT(90) DEF Bits
  <2>. HIDE DEF g
  <2>4. f3 = g BY <2>1, <2>2
  <2>. QED BY <2>3, <2>4
<1>6. f3 \in Int /\ b12 \in Int /\ d \in Int /\ r \in Int /\ q \in Int BY Slices
<1>. HIDE DEF a, b, c, f3, b12, d, r, q
<1>. QED BY <1>2, <1>3, <1>4, <1>5, <1>6 DEF f3, b12, d, r, q

\* The immediate of C.ADDI and C.LI reaches the expansion and comes back.
LEMMA SixBits ==
  ASSUME NEW p \in Parcel
  PROVE  LET v == SignExtend(OracleImmediate6(p), 6)
         IN  /\ v \in -32 .. 31 /\ FitsSigned(v, 6)
             /\ Bits(v, 5, 5) = Bits(p, 12, 12) /\ Bits(v, 4, 0) = rs2(p)
             /\ SignExtend(2^5 * Bits(v, 11, 5) + Bits(v, 4, 0), 12) = v
<1> DEFINE b == Bits(p, 12, 12)
           r == rs2(p)
           v == SignExtend(OracleImmediate6(p), 6)
<1>1. b \in 0 .. 1 /\ r \in 0 .. 31 BY Slices
<1>2. OracleImmediate6(p) = 32 * b + r BY <1>1 DEF OracleImmediate6, Field, rs2
<1>. HIDE DEF b, r
<1>3. v = r - 32 * b BY <1>1, <1>2, SMTT(90) DEF SignExtend
<1>. HIDE DEF v
<1>4. v \in -32 .. 31 BY <1>1, <1>3
<1>5. FitsSigned(v, 6) BY <1>4, SMTT(90) DEF FitsSigned
<1>6. Bits(v, 5, 5) = b /\ Bits(v, 4, 0) = r BY <1>1, <1>3, SMTT(90) DEF Bits
<1>7. SignExtend(2^5 * Bits(v, 11, 5) + Bits(v, 4, 0), 12) = v
  <2>1. \A x \in -32 .. 31 : SignExtend(2^5 * Bits(x, 11, 5) + Bits(x, 4, 0), 12) = x
    BY SMTT(90) DEF SignExtend, Bits
  <2>. QED BY <1>4, <2>1, Zenon
<1>. QED BY <1>4, <1>5, <1>6, <1>7 DEF v, b, r

\* Quadrant 0.
LEMMA Quadrant0Executes == \A p \in Parcel : Executes(p, Oracle0(p))
<1> SUFFICES ASSUME NEW p \in Parcel PROVE Executes(p, Oracle0(p)) OBVIOUS
<1> DEFINE offset == Field(p, 10, 7, 6) + Field(p, 12, 11, 4) + Field(p, 5, 5, 3)
                       + Field(p, 6, 6, 2)
           lw == OracleLw(p)
<1>1. offset \in Int /\ lw \in Int BY Slices DEF OracleLw, Field
<1>2. rdp(p) \in Registers /\ rs1p(p) \in Registers BY Slices DEF Registers
<1>3. Oracle0(p) = CASE funct3(p) = 0 -> IF offset = 0 THEN Reserved("reserved.c.addi4spn.zero")
                                         ELSE As("c.addi4spn", I(offset, 2, 0, rdp(p), OP.IMM))
                     [] funct3(p) = 2 -> As("c.lw", I(lw, rs1p(p), 2, rdp(p), OP.LOAD))
                     [] funct3(p) = 6 -> As("c.sw", S(lw, rdp(p), rs1p(p)))
                     [] OTHER         -> Reserved("reserved.q0")
  BY DEF Oracle0
<1>. HIDE DEF offset, lw
<1>4. Runs(I(offset, 2, 0, rdp(p), OP.IMM), "addi")
  <2>. DEFINE w == I(offset, 2, 0, rdp(p), OP.IMM)
  <2>0. OP.IMM \in {OP.IMM, OP.LOAD, OP.JALR} /\ 2 \in Registers /\ 0 \in Functs
    BY DEF Registers, Functs
  <2>1. offset \in Int /\ rdp(p) \in Registers BY <1>1, <1>2
  <2>2. w \in InstructionWord /\ w.opcode = OP.IMM /\ w.funct3 = 0
    BY ONLY <2>0, <2>1, IWord, SMTT(60)
  <2>. HIDE DEF w
  <2>. QED BY <2>2, RunsImmediate DEF w
<1>5. Runs(I(lw, rs1p(p), 2, rdp(p), OP.LOAD), "lw")
  <2>. DEFINE w == I(lw, rs1p(p), 2, rdp(p), OP.LOAD)
  <2>0. OP.LOAD \in {OP.IMM, OP.LOAD, OP.JALR} /\ 2 \in Functs BY DEF Functs
  <2>1. w \in InstructionWord /\ w.opcode = OP.LOAD /\ w.funct3 = 2
    BY <2>0, <1>1, <1>2, IWord, SMTT(60)
  <2>. HIDE DEF w
  <2>. QED BY <2>1, RunsOther DEF w
<1>6. Runs(S(lw, rdp(p), rs1p(p)), "sw")
  <2>. DEFINE w == S(lw, rdp(p), rs1p(p))
  <2>1. w \in InstructionWord /\ w.opcode = OP.STORE /\ w.funct3 = 2 BY <1>1, <1>2, SWord, SMTT(60)
  <2>. HIDE DEF w
  <2>. QED BY <2>1, RunsOther DEF w
<1>7. CASE funct3(p) = 0
  <2>1. CASE offset = 0 BY <1>3, <1>7, <2>1, ReservedExecutes
  <2>2. CASE offset # 0 BY <1>3, <1>4, <1>7, <2>2, PlainExecutes, Abbreviations
  <2>. QED BY <2>1, <2>2
<1>8. CASE funct3(p) = 2 BY <1>3, <1>5, <1>8, PlainExecutes, Abbreviations
<1>9. CASE funct3(p) = 6 BY <1>3, <1>6, <1>9, PlainExecutes, Abbreviations
<1>10. CASE funct3(p) \notin {0, 2, 6} BY <1>3, <1>10, ReservedExecutes
<1>. QED BY <1>7, <1>8, <1>9, <1>10

\* C.LUI and C.ADDI16SP.
LEMMA LuiExecutes ==
  ASSUME NEW p \in Parcel, NEW v \in Int
  PROVE  Executes(p, OracleLui(p, OracleImmediate6(p), v))
<1> DEFINE offset == Field(p, 12, 12, 9) + Field(p, 4, 3, 7) + Field(p, 5, 5, 6)
                       + Field(p, 2, 2, 5) + Field(p, 6, 6, 4)
           sp == SignExtend(offset, 10)
           six == OracleImmediate6(p)
           upper == v % 2^20
<1>1. offset \in 0 .. 1023 BY Slices DEF Field
<1>2. sp \in Int
  <2>. HIDE DEF offset
  <2>. QED BY <1>1, SignedZero
<1>3. OracleLui(p, six, v)
        = CASE rd(p) = 2 /\ offset = 0 -> Reserved("reserved.c.addi16sp.zero")
            [] rd(p) = 2 /\ offset # 0 -> As("c.addi16sp", I(sp, 2, 0, 2, OP.IMM))
            [] rd(p) = 0               -> As("hint.c.lui.rd0", Nop)
            [] rd(p) \notin {0, 2}     -> IF six = 0 THEN Reserved("reserved.c.lui.zero")
                                          ELSE As("c.lui", Upper(upper, rd(p), OP.LUI))
  BY DEF OracleLui
<1>4. rd(p) \in Registers /\ upper \in Int BY Slices DEF Registers
<1>. HIDE DEF offset, sp, six, upper
<1>5. Runs(I(sp, 2, 0, 2, OP.IMM), "addi")
  <2>. DEFINE w == I(sp, 2, 0, 2, OP.IMM)
  <2>0. OP.IMM \in {OP.IMM, OP.LOAD, OP.JALR} /\ 2 \in Registers /\ 0 \in Functs
    BY DEF Registers, Functs
  <2>1. w \in InstructionWord /\ w.opcode = OP.IMM /\ w.funct3 = 0 BY <2>0, <1>2, IWord, SMTT(60)
  <2>. HIDE DEF w
  <2>. QED BY <2>1, RunsImmediate DEF w
<1>6. Runs(Nop, "addi")
  <2>1. Nop \in InstructionWord /\ Nop.opcode = OP.IMM /\ Nop.funct3 = 0
    BY Opcodes DEF Nop, Word, InstructionWord
  <2>. QED BY <2>1, RunsImmediate
<1>7. Runs(Upper(upper, rd(p), OP.LUI), "lui")
  <2>. DEFINE w == Upper(upper, rd(p), OP.LUI)
  <2>1. w \in InstructionWord /\ w.opcode = OP.LUI BY <1>4, UpperWord
  <2>. HIDE DEF w
  <2>. QED BY <2>1, RunsOther DEF w
<1>8. CASE rd(p) = 2
  <2>1. CASE offset = 0 BY <1>3, <1>8, <2>1, ReservedExecutes DEF six
  <2>2. CASE offset # 0 BY <1>3, <1>5, <1>8, <2>2, PlainExecutes, Abbreviations DEF six
  <2>. QED BY <2>1, <2>2
<1>9. CASE rd(p) = 0 BY <1>3, <1>6, <1>9, PlainExecutes, Abbreviations DEF six
<1>10. CASE rd(p) \notin {0, 2}
  <2>1. CASE six = 0 BY <1>3, <1>10, <2>1, ReservedExecutes DEF six
  <2>2. CASE six # 0 BY <1>3, <1>7, <1>10, <2>2, PlainExecutes, Abbreviations DEF six
  <2>. QED BY <2>1, <2>2
<1>. QED BY <1>8, <1>9, <1>10

\* Shifts, C.ANDI and the register forms of quadrant 1.
LEMMA ArithmeticExecutes ==
  ASSUME NEW p \in Parcel, NEW v \in Int
  PROVE  Executes(p, OracleArithmetic(p, v))
<1> DEFINE sub == Bits(p, 11, 10)
           op == Bits(p, 6, 5)
           alu == << <<32, 0, "c.sub">>, <<0, 4, "c.xor">>, <<0, 6, "c.or">>, <<0, 7, "c.and">> >>
                    [op + 1]
           shift == IF sub = 0 THEN "c.srli" ELSE "c.srai"
           x == IF sub = 0 THEN rs2(p) ELSE 2^10 + rs2(p)
           r == rs1p(p)
<1>1. OracleArithmetic(p, v)
        = CASE sub < 2 -> IF bit12(p) THEN Reserved("reserved.shift.shamt5")
                          ELSE As(shift, I(x, r, 5, r, OP.IMM))
            [] sub = 2 -> As("c.andi", I(v, r, 7, r, OP.IMM))
            [] sub = 3 -> IF bit12(p) THEN Reserved("reserved.ca.rv32.subw_addw")
                          ELSE As(alu[3], R(alu[1], rdp(p), r, alu[2], r))
  BY DEF OracleArithmetic
<1>2. /\ sub \in {0, 1, 2, 3} /\ op \in {0, 1, 2, 3} /\ rs2(p) \in 0 .. 31
      /\ r \in Registers /\ rdp(p) \in Registers
  BY Slices DEF Registers
<1>3. sub \in {0, 1} => x \in Int /\ Bits(x, 11, 5) = 32 * sub
  BY <1>2, SMTT(90) DEF Bits
<1>4. sub \in {0, 1} => Runs(I(x, r, 5, r, OP.IMM), Abbreviates(shift))
  <2> SUFFICES ASSUME sub \in {0, 1} PROVE Runs(I(x, r, 5, r, OP.IMM), Abbreviates(shift)) OBVIOUS
  <2> DEFINE w == I(x, r, 5, r, OP.IMM)
  <2>0. OP.IMM \in {OP.IMM, OP.LOAD, OP.JALR} /\ 5 \in Functs BY DEF Functs
  <2>1. Abbreviates(shift) = IF sub = 0 THEN "srli" ELSE "srai" BY Abbreviations
  <2>. HIDE DEF x, sub, shift, r
  <2>2. w \in InstructionWord /\ w.opcode = OP.IMM /\ w.funct3 = 5 /\ w.funct7 = 32 * sub
    BY <2>0, <1>2, <1>3, IWord, SMTT(60)
  <2>. HIDE DEF w
  <2>. QED BY <2>1, <2>2, RunsImmediate DEF w
<1>5. Runs(I(v, r, 7, r, OP.IMM), "andi")
  <2> DEFINE w == I(v, r, 7, r, OP.IMM)
  <2>0. OP.IMM \in {OP.IMM, OP.LOAD, OP.JALR} /\ 7 \in Functs BY DEF Functs
  <2>. HIDE DEF r
  <2>1. w \in InstructionWord /\ w.opcode = OP.IMM /\ w.funct3 = 7 BY <2>0, <1>2, IWord, SMTT(60)
  <2>. HIDE DEF w
  <2>. QED BY <2>1, RunsImmediate DEF w
<1>6. Runs(R(alu[1], rdp(p), r, alu[2], r), Abbreviates(alu[3]))
  <2> DEFINE w == R(alu[1], rdp(p), r, alu[2], r)
  <2>1. \/ op = 0 /\ alu[1] = 32 /\ alu[2] = 0 /\ alu[3] = "c.sub"
        \/ op = 1 /\ alu[1] = 0 /\ alu[2] = 4 /\ alu[3] = "c.xor"
        \/ op = 2 /\ alu[1] = 0 /\ alu[2] = 6 /\ alu[3] = "c.or"
        \/ op = 3 /\ alu[1] = 0 /\ alu[2] = 7 /\ alu[3] = "c.and"
    BY <1>2
  <2>. HIDE DEF r, op, alu
  <2>2. alu[1] \in {0, 32} /\ alu[2] \in Functs BY <2>1 DEF Functs
  <2>3. w \in InstructionWord /\ w.opcode = OP.REG /\ w.funct3 = alu[2] /\ w.funct7 = alu[1]
    BY <1>2, <2>2, RWord, SMTT(60)
  <2>. HIDE DEF w
  <2>. QED BY <2>1, <2>3, RunsRegister, Abbreviations DEF w
<1>7. /\ alu[3] \in {"c.sub", "c.xor", "c.or", "c.and"} /\ shift \in {"c.srli", "c.srai"}
  BY <1>2
<1>. HIDE DEF sub, op, alu, shift, x, r
<1>8. CASE bit12(p) /\ sub \in {0, 1, 3} BY <1>1, <1>8, ReservedExecutes
<1>9. CASE ~bit12(p) /\ sub \in {0, 1} BY <1>1, <1>4, <1>7, <1>9, PlainExecutes
<1>10. CASE sub = 2 BY <1>1, <1>5, <1>10, PlainExecutes, Abbreviations
<1>11. CASE ~bit12(p) /\ sub = 3 BY <1>1, <1>6, <1>7, <1>11, PlainExecutes
<1>. QED BY <1>2, <1>8, <1>9, <1>10, <1>11

\* Quadrant 1.
LEMMA Quadrant1Executes == \A p \in Parcel : quadrant(p) = 1 => Executes(p, Oracle1(p))
<1> SUFFICES ASSUME NEW p \in Parcel, quadrant(p) = 1 PROVE Executes(p, Oracle1(p)) OBVIOUS
<1> DEFINE v == SignExtend(OracleImmediate6(p), 6)
           j == SignExtend(OracleImmediate12(p), 12)
           b == SignExtend(OracleImmediate9(p), 9)
           d == rd(p)
           nop == IF d = 0 /\ v = 0 THEN "c.nop" ELSE "c.addi"
           s == rs1p(p)
<1>1. v \in Int /\ j \in Int /\ b \in Int
  <2>1. imm_j(p) \in Int /\ imm_b(p) \in Int /\ j = imm_j(p) /\ b = imm_b(p) BY ImmediatesAgree
  <2>2. v \in -32 .. 31 BY SixBits
  <2>. QED BY <2>1, <2>2
<1>2. Oracle1(p) =
        CASE funct3(p) = 0 -> As(nop, I(v, d, 0, d, OP.IMM))
          [] funct3(p) = 1 -> As("c.jal", OracleJ(j, 1))
          [] funct3(p) = 5 -> As("c.j", OracleJ(j, 0))
          [] funct3(p) = 2 -> As("c.li", I(v, 0, 0, d, OP.IMM))
          [] funct3(p) = 3 -> OracleLui(p, OracleImmediate6(p), v)
          [] funct3(p) = 4 -> OracleArithmetic(p, v)
          [] funct3(p) = 6 -> As("c.beqz", OracleB(b, s, 0))
          [] funct3(p) = 7 -> As("c.bnez", OracleB(b, s, 1))
  BY DEF Oracle1, OracleImmediate6, OracleImmediate12, OracleImmediate9
<1>3. /\ funct3(p) \in {0, 1, 2, 3, 4, 5, 6, 7} /\ d \in Registers /\ s \in Registers
      /\ 0 \in Registers /\ 1 \in Registers /\ 0 \in Functs /\ 1 \in Functs
      /\ OP.IMM \in {OP.IMM, OP.LOAD, OP.JALR}
  BY Slices DEF Registers, Functs
<1>4. /\ FitsSigned(v, 6) /\ SignExtend(2^5 * Bits(v, 11, 5) + Bits(v, 4, 0), 12) = v
      /\ Bits(v, 5, 5) = Bits(p, 12, 12) /\ Bits(v, 4, 0) = rs2(p)
  BY SixBits
<1>5. p = 8192 * funct3(p) + 4096 * Bits(p, 12, 12) + 128 * d + 4 * rs2(p) + quadrant(p)
  BY ParcelFields
<1>. HIDE DEF v, j, b, d, s
<1>6. \A r \in Registers : LET w == I(v, r, 0, d, OP.IMM)
                           IN  Runs(w, "addi") /\ w.rd = d /\ o_imm(w) = v
  <2> SUFFICES ASSUME NEW r \in Registers
               PROVE  LET w == I(v, r, 0, d, OP.IMM)
                      IN  Runs(w, "addi") /\ w.rd = d /\ o_imm(w) = v
      OBVIOUS
  <2> DEFINE w == I(v, r, 0, d, OP.IMM)
  <2>1. /\ w \in InstructionWord /\ w.opcode = OP.IMM /\ w.funct3 = 0 /\ w.rd = d
        /\ w.funct7 = Bits(v, 11, 5) /\ w.rs2 = Bits(v, 4, 0)
    BY <1>1, <1>3, IWord, SMTT(60)
  <2>. HIDE DEF w
  <2>2. o_imm(w) = v BY <1>4, <2>1, Opcodes DEF o_imm
  <2>. QED BY <2>1, <2>2, RunsImmediate DEF w
<1>7. CASE funct3(p) = 0
  <2> DEFINE w == I(v, d, 0, d, OP.IMM)
  <2>1. p = c_addi(d, v) BY <1>4, <1>5, <1>7, Slices DEF c_addi, CImmediate
  <2>2. Runs(w, "addi") /\ w.rd = d /\ o_imm(w) = v BY <1>3, <1>6
  <2>. HIDE DEF w
  <2>3. nop \in {"c.nop", "c.addi"} /\ (nop = "c.nop" => d = 0) OBVIOUS
  <2>. HIDE DEF nop
  <2>4. Assembles(p, w, nop)
    BY <1>4, <2>1, <2>2, <2>3 DEF Assembles, CEncodableImmediate
  <2>5. Runs(w, Abbreviates(nop)) BY <2>2, <2>3, Abbreviations
  <2>. QED BY <1>2, <1>7, <2>4, <2>5, LegalExecutes DEF w
<1>8. CASE funct3(p) = 2
  <2> DEFINE w == I(v, 0, 0, d, OP.IMM)
  <2>1. p = c_li(d, v) BY <1>4, <1>5, <1>8, Slices DEF c_li, CImmediate
  <2>2. Runs(w, "addi") /\ w.rd = d /\ o_imm(w) = v BY <1>3, <1>6
  <2>. HIDE DEF w
  <2>4. Assembles(p, w, "c.li")
    BY <1>4, <2>1, <2>2 DEF Assembles, CEncodableImmediate
  <2>5. Runs(w, Abbreviates("c.li")) BY <2>2, Abbreviations
  <2>. QED BY <1>2, <1>8, <2>4, <2>5, LegalExecutes DEF w
<1>9. Runs(OracleJ(j, 1), "jal") /\ Runs(OracleJ(j, 0), "jal")
  <2>1. \A r \in Registers : Runs(OracleJ(j, r), "jal")
    <3>1. SUFFICES ASSUME NEW r \in Registers PROVE Runs(OracleJ(j, r), "jal") OBVIOUS
    <3>2. OracleJ(j, r) \in InstructionWord /\ OracleJ(j, r).opcode = OP.JAL
      BY <1>1, JumpWord
    <3>. QED BY <3>2, RunsOther
  <2>. QED BY <1>3, <2>1
<1>10. Runs(OracleB(b, s, 0), "beq") /\ Runs(OracleB(b, s, 1), "bne")
  <2>1. \A f3 \in Functs : /\ OracleB(b, s, f3) \in InstructionWord
                           /\ OracleB(b, s, f3).opcode = OP.BRANCH
                           /\ OracleB(b, s, f3).funct3 = f3
    BY <1>1, <1>3, BranchWord
  <2>. QED BY <1>3, <2>1, RunsOther
<1>11. Executes(p, OracleLui(p, OracleImmediate6(p), v)) /\ Executes(p, OracleArithmetic(p, v))
  BY <1>1, LuiExecutes, ArithmeticExecutes
<1>12. CASE funct3(p) = 1 BY <1>2, <1>9, <1>12, PlainExecutes, Abbreviations
<1>13. CASE funct3(p) = 5 BY <1>2, <1>9, <1>13, PlainExecutes, Abbreviations
<1>14. CASE funct3(p) \in {3, 4} BY <1>2, <1>11, <1>14
<1>15. CASE funct3(p) = 6 BY <1>2, <1>10, <1>15, PlainExecutes, Abbreviations
<1>16. CASE funct3(p) = 7 BY <1>2, <1>10, <1>16, PlainExecutes, Abbreviations
<1>. QED BY <1>3, <1>7, <1>8, <1>12, <1>13, <1>14, <1>15, <1>16

\* C.JR, C.JALR, C.MV, C.ADD and C.EBREAK.
LEMMA RegisterExecutes ==
  ASSUME NEW p \in Parcel, quadrant(p) = 2, funct3(p) = 4
  PROVE  Executes(p, OracleRegister(p))
<1> DEFINE r2 == rs2(p)
           d == rd(p)
<1>1. OracleRegister(p)
        = CASE ~bit12(p) /\ r2 = 0 -> IF d = 0 THEN Reserved("reserved.c.jr.rd0")
                                      ELSE As("c.jr", I(0, d, 0, 0, OP.JALR))
            [] ~bit12(p) /\ r2 # 0 -> As("c.mv", R(0, r2, 0, 0, d))
            [] bit12(p) /\ r2 = 0  -> IF d = 0 THEN As("c.ebreak", Ebreak)
                                      ELSE As("c.jalr", I(0, d, 0, 1, OP.JALR))
            [] bit12(p) /\ r2 # 0  -> As("c.add", R(0, r2, d, 0, d))
  BY DEF OracleRegister
<1>2. /\ d \in Registers /\ r2 \in Registers /\ 0 \in Registers /\ 1 \in Registers /\ 0 \in Functs
      /\ 0 \in Int /\ 0 \in {0, 32} /\ OP.JALR \in {OP.IMM, OP.LOAD, OP.JALR}
  BY Slices DEF Registers, Functs
<1>3. p = 8192 * 4 + 4096 * Bits(p, 12, 12) + 128 * d + 4 * r2 + 2
  BY ParcelFields
<1>4. IF bit12(p) THEN Bits(p, 12, 12) = 1 ELSE Bits(p, 12, 12) = 0 BY Slices DEF bit12
<1>5. d \in Int /\ r2 \in Int BY Slices
<1>. HIDE DEF r2, d
<1>6. \A r \in Registers : Runs(I(0, d, 0, r, OP.JALR), "jalr")
  <2>1. SUFFICES ASSUME NEW r \in Registers PROVE Runs(I(0, d, 0, r, OP.JALR), "jalr") OBVIOUS
  <2> DEFINE w == I(0, d, 0, r, OP.JALR)
  <2>2. w \in InstructionWord /\ w.opcode = OP.JALR /\ w.funct3 = 0
    BY <1>2, JumpRegisterWord
  <2>. HIDE DEF w
  <2>. QED BY <2>2, RunsOther DEF w
<1>7. \A r \in Registers : LET w == R(0, r2, r, 0, d)
                           IN  Runs(w, "add") /\ w.rd = d /\ w.rs2 = r2
  <2>1. SUFFICES ASSUME NEW r \in Registers
                 PROVE  LET w == R(0, r2, r, 0, d)
                        IN  Runs(w, "add") /\ w.rd = d /\ w.rs2 = r2
    OBVIOUS
  <2> DEFINE w == R(0, r2, r, 0, d)
  <2>2. /\ w \in InstructionWord /\ w.opcode = OP.REG /\ w.funct3 = 0 /\ w.funct7 = 0
        /\ w.rd = d /\ w.rs2 = r2
    BY <1>2, RWord, SMTT(60)
  <2>. HIDE DEF w
  <2>. QED BY <2>2, RunsRegister DEF w
<1>8. CASE r2 = 0 /\ d = 0
  BY <1>1, <1>8, ReservedExecutes, PlainExecutes, RunsEbreak, Abbreviations
<1>9. CASE r2 = 0 /\ d # 0
  BY <1>1, <1>2, <1>6, <1>9, PlainExecutes, Abbreviations
<1>10. CASE r2 # 0 /\ ~bit12(p)
  <2> DEFINE w == R(0, r2, 0, 0, d)
  <2>1. p = c_mv(d, r2) BY <1>3, <1>4, <1>5, <1>10 DEF c_mv, CRegister
  <2>2. Runs(w, "add") /\ w.rd = d /\ w.rs2 = r2 BY <1>2, <1>7
  <2>. HIDE DEF w
  <2>3. Assembles(p, w, "c.mv") BY <1>10, <2>1, <2>2 DEF Assembles, CEncodableRegister
  <2>4. Runs(w, Abbreviates("c.mv")) BY <2>2, Abbreviations
  <2>. QED BY <1>1, <1>10, <2>3, <2>4, LegalExecutes DEF w
<1>11. CASE r2 # 0 /\ bit12(p)
  <2> DEFINE w == R(0, r2, d, 0, d)
  <2>1. p = c_add(d, r2) BY <1>3, <1>4, <1>5, <1>11 DEF c_add, CRegister
  <2>2. Runs(w, "add") /\ w.rd = d /\ w.rs2 = r2 BY <1>2, <1>7
  <2>. HIDE DEF w
  <2>3. Assembles(p, w, "c.add") BY <1>11, <2>1, <2>2 DEF Assembles, CEncodableRegister
  <2>4. Runs(w, Abbreviates("c.add")) BY <2>2, Abbreviations
  <2>. QED BY <1>1, <1>11, <2>3, <2>4, LegalExecutes DEF w
<1>. QED BY <1>8, <1>9, <1>10, <1>11

\* Quadrant 2.
LEMMA Quadrant2Executes == \A p \in Parcel : quadrant(p) = 2 => Executes(p, Oracle2(p))
<1> SUFFICES ASSUME NEW p \in Parcel, quadrant(p) = 2 PROVE Executes(p, Oracle2(p)) OBVIOUS
<1> DEFINE lw == Field(p, 3, 2, 6) + Field(p, 12, 12, 5) + Field(p, 6, 4, 2)
           sw == Field(p, 8, 7, 6) + Field(p, 12, 9, 2)
           d == rd(p)
           r2 == rs2(p)
<1>1. lw \in Int /\ sw \in Int BY Slices DEF Field
<1>2. Oracle2(p) =
        CASE funct3(p) = 0 -> IF bit12(p) THEN Reserved("reserved.c.slli.shamt5")
                              ELSE As("c.slli", I(r2, d, 1, d, OP.IMM))
          [] funct3(p) = 2 -> IF d = 0 THEN Reserved("reserved.c.lwsp.rd0")
                              ELSE As("c.lwsp", I(lw, 2, 2, d, OP.LOAD))
          [] funct3(p) = 4 -> OracleRegister(p)
          [] funct3(p) = 6 -> As("c.swsp", S(sw, r2, 2))
          [] OTHER         -> Reserved("reserved.q2")
  BY DEF Oracle2
<1>3. /\ d \in Registers /\ r2 \in Registers /\ 2 \in Registers /\ 1 \in Functs /\ 2 \in Functs
      /\ OP.IMM \in {OP.IMM, OP.LOAD, OP.JALR} /\ OP.LOAD \in {OP.IMM, OP.LOAD, OP.JALR}
  BY Slices DEF Registers, Functs
<1>4. r2 \in Int /\ Bits(r2, 11, 5) = 0
  <2>1. r2 \in 0 .. 31 BY Slices
  <2>. HIDE DEF r2
  <2>. QED BY <2>1, SMTT(90) DEF Bits
<1>. HIDE DEF lw, sw, d, r2
<1>5. Runs(I(r2, d, 1, d, OP.IMM), "slli")
  <2> DEFINE w == I(r2, d, 1, d, OP.IMM)
  <2>1. w \in InstructionWord /\ w.opcode = OP.IMM /\ w.funct3 = 1 /\ w.funct7 = 0
    BY <1>3, <1>4, IWord, SMTT(60)
  <2>. HIDE DEF w
  <2>. QED BY <2>1, RunsImmediate DEF w
<1>6. Runs(I(lw, 2, 2, d, OP.LOAD), "lw")
  <2> DEFINE w == I(lw, 2, 2, d, OP.LOAD)
  <2>1. w \in InstructionWord /\ w.opcode = OP.LOAD /\ w.funct3 = 2 BY <1>1, <1>3, IWord, SMTT(60)
  <2>. HIDE DEF w
  <2>. QED BY <2>1, RunsOther DEF w
<1>7. Runs(S(sw, r2, 2), "sw")
  <2> DEFINE w == S(sw, r2, 2)
  <2>1. w \in InstructionWord /\ w.opcode = OP.STORE /\ w.funct3 = 2 BY <1>1, <1>3, SWord, SMTT(60)
  <2>. HIDE DEF w
  <2>. QED BY <2>1, RunsOther DEF w
<1>8. CASE funct3(p) = 0
  BY <1>2, <1>5, <1>8, ReservedExecutes, PlainExecutes, Abbreviations
<1>9. CASE funct3(p) = 2
  BY <1>2, <1>6, <1>9, ReservedExecutes, PlainExecutes, Abbreviations
<1>10. CASE funct3(p) = 4 BY <1>2, <1>10, RegisterExecutes
<1>11. CASE funct3(p) = 6 BY <1>2, <1>7, <1>11, PlainExecutes, Abbreviations
<1>12. CASE funct3(p) \notin {0, 2, 4, 6} BY <1>2, <1>12, ReservedExecutes
<1>. QED BY <1>8, <1>9, <1>10, <1>11, <1>12

\* All parcels.
LEMMA ParcelExecutes == \A p \in Parcel : Executes(p, decompress_rv32c(p))
<1> SUFFICES ASSUME NEW p \in Parcel PROVE Executes(p, decompress_rv32c(p)) OBVIOUS
<1>1. quadrant(p) \in {0, 1, 2, 3} BY Slices
<1>2. CASE quadrant(p) = 0 BY <1>2, Quadrant0Executes DEF decompress_rv32c
<1>3. CASE quadrant(p) = 1 BY <1>3, Quadrant1Executes DEF decompress_rv32c
<1>4. CASE quadrant(p) = 2 BY <1>4, Quadrant2Executes DEF decompress_rv32c
<1>5. CASE quadrant(p) = 3 BY <1>5, ReservedExecutes DEF decompress_rv32c
<1>. QED BY <1>1, <1>2, <1>3, <1>4, <1>5

\* Whatever the decompressor expands a parcel to, the core decodes as the
\* instruction the parcel abbreviates, and the compressed assembler makes the
\* parcel again from the expansion.
THEOREM ParcelsExecutable == MCSpec => []ExpansionsExecutable
<1>1. BenchInv => ExpansionsExecutable
  <2>1. SUFFICES ASSUME BenchInv, bench = "parcel" PROVE ExpansionsExecutable
    BY DEF ExpansionsExecutable
  <2>2. parcel \in Parcel BY <2>1 DEF BenchInv
  <2>3. /\ Agree(Decompress(parcel), decompress_rv32c(parcel))
        /\ Executes(parcel, decompress_rv32c(parcel))
    BY <2>2, ParcelAgrees, ParcelExecutes
  <2>. QED BY <2>3, Zenon DEF ExpansionsExecutable, Agree, Executes, Runs, Assembles
<1>. QED BY <1>1, BenchInit, BenchStep, PTL DEF MCSpec
=============================================================================
