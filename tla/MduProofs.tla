----------------------------- MODULE MduProofs ------------------------------
(***************************************************************************)
(* The iterative multiplier and divider compute what reference_model.py    *)
(* computes, for every width of the word, every operation and every pair   *)
(* of operands, whatever their registers held before.                      *)
(***************************************************************************)
EXTENDS MCMdu, TLAPS

-----------------------------------------------------------------------------
(* Quotients, remainders and products.                                     *)

\* A quotient and a remainder are recognised by the division identity.
LEMMA DivisionUnique ==
  \A q \in Int, b \in Nat, r \in Nat, a \in Int :
    r < b /\ a = q * b + r => a \div b = q /\ a % b = r
<1> SUFFICES ASSUME NEW q \in Int, NEW b \in Nat, NEW r \in Nat, NEW a \in Int, r < b, a = q * b + r
             PROVE  a \div b = q /\ a % b = r
  BY Zenon
<1> QED
  OBVIOUS

\* The division identity.
LEMMA Division ==
  \A a \in Int, b \in Nat : b > 0 => /\ a = (a \div b) * b + (a % b)
                                     /\ a % b \in Nat /\ a % b < b
                                     /\ a \div b \in Int
<1> SUFFICES ASSUME NEW a \in Int, NEW b \in Nat, b > 0
             PROVE  /\ a = (a \div b) * b + (a % b)
                    /\ a % b \in Nat /\ a % b < b
                    /\ a \div b \in Int
  BY Zenon
<1>1. a = (a \div b) * b + (a % b)
  OBVIOUS
<1>2. a % b \in Nat
  OBVIOUS
<1>4. a % b < b
  OBVIOUS
<1>3. a \div b \in Int
  OBVIOUS
<1> QED
  BY <1>1, <1>2, <1>3, <1>4, Zenon

\* Positive times positive is positive.
LEMMA ProductPositive ==
  \A a \in Nat, b \in Nat : a > 0 /\ b > 0 => a * b \in Nat /\ a * b > 0
OBVIOUS
\* Reducing by a multiple first changes nothing.
LEMMA ReduceTwice ==
  \A a \in Int, b \in Nat, c \in Nat : b > 0 /\ c > 0 => (a % (b * c)) % c = a % c
<1> TAKE a \in Int, b \in Nat, c \in Nat
<1>h. HAVE b > 0 /\ c > 0
<1> DEFINE w == a \div (b * c)
           v == a % (b * c)
           u == v \div c
           r == v % c
<1>1. b * c \in Nat /\ b * c > 0
  BY <1>h, ProductPositive, Zenon
<1>2. w \in Int /\ v \in Nat /\ a = w * (b * c) + v
  BY <1>1, Division, Zenon
<1>3. v \in Int
  BY <1>2
<1>4. u \in Int /\ r \in Nat /\ r < c /\ v = u * c + r
  BY <1>h, <1>3, Division, Zenon
<1> HIDE DEF w, v, u, r
<1>5. b \in Int /\ c \in Int /\ r \in Int
  BY <1>4
<1>6. a = w * (b * c) + (u * c + r)
  BY <1>2, <1>4, Zenon
<1>7. w * (b * c) + (u * c + r) = (w * b + u) * c + r
  BY <1>2, <1>4, <1>5
<1>8. w * b + u \in Int
  BY <1>2, <1>4, <1>5
<1>9. a = (w * b + u) * c + r
  BY <1>6, <1>7, Zenon
<1> QED
  <2>1. a % c = r
    BY <1>4, <1>8, <1>9, DivisionUnique, Zenon
  <2> QED
    BY <2>1, Zenon DEF r, v

\* One step of shift and add: with the product register P read as D bits of
\* product already final above F * 2 bits of multiplier left, consuming one bit
\* keeps the sum of what is accumulated and what is still owed.
LEMMA MultiplyStep ==
  \A D, F \in Nat : D > 0 /\ F > 0 => \A P, m, s, Q \in Nat :
    /\ s = (P \div (2 * (D * F))) + (P % 2) * m
    /\ Q = s * (D * F) + ((P % (2 * (D * F))) \div 2)
    => (Q \div F) + (Q % F) * (2 * D) * m = (P \div (2 * F)) + (P % (2 * F)) * D * m
<1> TAKE D, F \in Nat
<1>p. HAVE D > 0 /\ F > 0
<1> TAKE P, m, s, Q \in Nat
<1>h. HAVE /\ s = (P \div (2 * (D * F))) + (P % 2) * m
           /\ Q = s * (D * F) + ((P % (2 * (D * F))) \div 2)
<1> DEFINE U == P \div (2 * (D * F))
           L == P % (2 * (D * F))
           K == L \div 2
           b == L % 2
           f == K \div F
           g == K % F
<1>0. D * F \in Nat /\ D * F > 0
  BY <1>p, ProductPositive, Zenon
<1>x. 2 * (D * F) \in Nat /\ 2 * (D * F) > 0
  BY <1>0
<1>i. D \in Int /\ F \in Int /\ P \in Int /\ s \in Int /\ m \in Int /\ Q \in Int
  OBVIOUS
<1>1. U \in Int /\ L \in Nat /\ P = U * (2 * (D * F)) + L
  BY <1>x, <1>i, Division, Zenon
<1>6. s = U + (P % 2) * m /\ Q = s * (D * F) + K
  BY <1>h, Zenon
<1> HIDE DEF U, L
<1>2. K \in Int /\ b \in {0, 1} /\ L = 2 * K + b
  BY <1>1
<1> HIDE DEF K, b
<1>3. f \in Int /\ g \in Nat /\ g < F /\ K = f * F + g
  BY <1>2, <1>p, Division, Zenon
<1> HIDE DEF f, g
<1>j. /\ U \in Int /\ f \in Int /\ g \in Int /\ b \in Int
  BY <1>1, <1>2, <1>3
<1>k. /\ D > 0 /\ F > 0 /\ 0 <= g /\ g < F
  BY <1>p, <1>3
<1>4. P = U * (2 * (D * F)) + (2 * (f * F + g) + b)
  BY <1>1, <1>2, <1>3, Zenon
<1>5. P % 2 = b /\ P \div (2 * F) = U * D + f /\ P % (2 * F) = 2 * g + b
  <2>1. /\ U * (2 * (D * F)) + (2 * (f * F + g) + b) = (U * (D * F) + (f * F + g)) * 2 + b
        /\ U * (2 * (D * F)) + (2 * (f * F + g) + b) = (U * D + f) * (2 * F) + (2 * g + b)
    BY <1>i, <1>j
  <2> DEFINE h == U * (D * F) + (f * F + g)
             q == U * D + f
             n == 2 * F
             r == 2 * g + b
  <2>2. h \in Int /\ q \in Int
    BY <1>i, <1>j
  <2>3. b \in Nat /\ b < 2 /\ 2 \in Nat
    BY <1>2
  <2>4. r \in Nat /\ r < n /\ n \in Nat
    BY <1>i, <1>j, <1>k, <1>2
  <2>5. P = h * 2 + b
    BY <1>4, <2>1, Zenon
  <2>6. P = q * n + r
    BY <1>4, <2>1, Zenon
  <2> HIDE DEF h, q, n, r
  <2>7. P \in Int
    BY <1>i
  <2>8. P % 2 = b
    BY <2>2, <2>3, <2>5, <2>7, DivisionUnique, Zenon
  <2>9. P \div n = q /\ P % n = r
    BY <2>2, <2>4, <2>6, <2>7, DivisionUnique, Zenon
  <2> QED
    BY <2>8, <2>9, Zenon DEF q, n, r
<1>7. s = U + b * m
  BY <1>5, <1>6, Zenon
<1>8. Q \div F = s * D + f /\ Q % F = g
  <2>1. Q = s * (D * F) + (f * F + g)
    BY <1>3, <1>6, Zenon
  <2>2. s * (D * F) + (f * F + g) = (s * D + f) * F + g
    BY <1>i, <1>j
  <2> DEFINE q == s * D + f
  <2>3. q \in Int /\ F \in Nat /\ g \in Nat /\ Q \in Int /\ g < F
    BY <1>i, <1>j, <1>3
  <2>4. Q = q * F + g
    BY <2>1, <2>2, Zenon
  <2> HIDE DEF q
  <2>5. Q \div F = q /\ Q % F = g
    BY <2>3, <2>4, DivisionUnique, Zenon
  <2> QED
    BY <2>5, Zenon DEF q
<1>9. ((U + b * m) * D + f) + g * (2 * D) * m = (U * D + f) + (2 * g + b) * D * m
  BY <1>i, <1>j
<1> QED
  BY <1>5, <1>7, <1>8, <1>9, Zenon

\* The upper half of a double word reduced is the upper half, reduced.
LEMMA HighHalf ==
  \A x \in Int, M \in Nat : M > 0 => (x % (M * M)) \div M = (x \div M) % M
<1> TAKE x \in Int, M \in Nat
<1>h. HAVE M > 0
<1> DEFINE q == x \div (M * M)
           r == x % (M * M)
           h == r \div M
           l == r % M
<1>1. M * M \in Nat /\ M * M > 0
  BY <1>h, ProductPositive, Zenon
<1>2. q \in Int /\ r \in Nat /\ r < M * M /\ x = q * (M * M) + r
  BY <1>1, Division, Zenon
<1>a. r \in Int
  BY <1>2
<1>3. h \in Int /\ l \in Nat /\ l < M /\ r = h * M + l
  BY <1>2, <1>a, <1>h, Division, Zenon
<1> HIDE DEF q, r, h, l
<1>i. q \in Int /\ h \in Int /\ l \in Int /\ M \in Int
  BY <1>2, <1>3
<1>4. h \in Nat /\ h < M
  BY <1>2, <1>3
<1>5. x = (q * M + h) * M + l
  <2>1. x = q * (M * M) + (h * M + l)
    BY <1>2, <1>3, Zenon
  <2>2. q * (M * M) + (h * M + l) = (q * M + h) * M + l
    BY <1>i
  <2> QED
    BY <2>1, <2>2, Zenon
<1>6. q * M + h \in Int
  BY <1>i
<1>7. x \div M = q * M + h
  BY <1>3, <1>5, <1>6, DivisionUnique, Zenon
<1>8. (q * M + h) % M = h
  BY <1>i, <1>4, <1>6, DivisionUnique, Zenon
<1> QED
  BY <1>7, <1>8, Zenon DEF r, h

\* a factor is no larger than a product by a positive number
LEMMA FactorBelow == \A x, n \in Nat : n > 0 => x <= x * n
OBVIOUS

\* A bound carries over to a multiple.
LEMMA ScaledBound ==
  \A u, F, D \in Int : 0 <= u /\ u < F /\ D > 0 => 0 <= u * D /\ u * D < D * F
<1> TAKE u, F, D \in Int
<1>h. HAVE 0 <= u /\ u < F /\ D > 0
<1>1. F - u \in Nat /\ F - u > 0 /\ D \in Nat /\ D > 0 /\ u \in Nat
  BY <1>h
<1>2. (F - u) * D > 0
  BY <1>1, ProductPositive, Zenon
<1>3. (F - u) * D = D * F - u * D
  OBVIOUS
<1>4. u * D \in Nat
  BY <1>1
<1>5. u * D \in Int /\ D * F \in Int
  OBVIOUS
<1> HIDE <1>h
<1> QED
  BY <1>2, <1>3, <1>4, <1>5

\* The dividend's next bit: it leaves the shift register and enters what has
\* been consumed.
LEMMA DividendBits ==
  \A D, F, A \in Nat : D > 0 /\ F > 0 =>
    \A v : v = (A % (2 * F)) * D =>
      /\ v \div (D * F) \in {0, 1}
      /\ (2 * v) % (2 * (D * F)) = (A % F) * (2 * D)
      /\ A \div F = 2 * (A \div (2 * F)) + (v \div (D * F))
<1> TAKE D, F, A \in Nat
<1>h. HAVE D > 0 /\ F > 0
<1> TAKE v
<1>v. HAVE v = (A % (2 * F)) * D
<1> DEFINE c == A \div (2 * F)
           t == A % (2 * F)
           e == t \div F
           u == t % F
           W == D * F
<1>i. A \in Int /\ F \in Int /\ D \in Int /\ 2 * F \in Nat /\ 2 * F \in Int
  OBVIOUS
<1>0. 2 * F > 0
  BY <1>h
<1>1. c \in Int /\ t \in Nat /\ t < 2 * F /\ A = c * (2 * F) + t
  BY <1>0, <1>i, Division, Zenon
<1> HIDE DEF c, t
<1>a. t \in Int
  BY <1>1
<1>2. e \in Int /\ u \in Nat /\ u < F /\ t = e * F + u
  BY <1>1, <1>a, <1>h, Division, Zenon
<1> HIDE DEF e, u
<1>b. u \in Int /\ 0 <= u
  BY <1>2
<1>3. e \in {0, 1}
  BY <1>h, <1>1, <1>2
<1>4. A \div F = 2 * c + e /\ A % F = u
  <2>1. A = c * (2 * F) + (e * F + u)
    BY <1>1, <1>2, Zenon
  <2>2. c * (2 * F) + (e * F + u) = (2 * c + e) * F + u
    BY <1>1, <1>2, <1>b
  <2>3. A = (2 * c + e) * F + u
    BY <2>1, <2>2, Zenon
  <2>4. 2 * c + e \in Int
    BY <1>1, <1>2
  <2> QED
    BY <1>i, <1>2, <2>3, <2>4, DivisionUnique, Zenon
<1>5. W \in Nat /\ W \in Int /\ 2 * W \in Nat /\ u * D \in Nat /\ u * (2 * D) \in Nat
  BY <1>2
<1>6. u * D < W
  BY <1>i, <1>b, <1>2, <1>h, ScaledBound, Zenon
<1>7. t * D = e * W + u * D /\ t * D \in Int
  <2>1. t * D = (e * F + u) * D
    BY <1>2, Zenon
  <2>2. (e * F + u) * D = e * (D * F) + u * D
    BY <1>2, <1>b
  <2>3. t * D \in Int
    BY <1>a
  <2> QED
    BY <2>1, <2>2, <2>3, Zenon
<1>8. 2 * (t * D) = e * (2 * W) + u * (2 * D) /\ 2 * (t * D) \in Int
  <2>1. 2 * (e * W + u * D) = e * (2 * W) + u * (2 * D)
    BY <1>2, <1>b, <1>5
  <2>2. 2 * (t * D) \in Int
    BY <1>a
  <2> QED
    BY <1>7, <2>1, <2>2, Zenon
<1>9. u * (2 * D) < 2 * W
  <2>1. u * (2 * D) = 2 * (u * D) /\ u * D \in Int
    BY <1>b
  <2> HIDE DEF W
  <2> DEFINE y == u * D
  <2>2. y \in Int /\ y < W /\ u * (2 * D) = 2 * y
    BY <1>6, <2>1, Zenon
  <2> HIDE DEF y
  <2>3. 2 * y < 2 * W
    BY <2>2, <1>5
  <2> QED
    BY <2>2, <2>3, Zenon
<1> HIDE DEF W
<1>10. (t * D) \div W = e
  BY <1>2, <1>5, <1>6, <1>7, DivisionUnique, Zenon
<1>11. (2 * (t * D)) % (2 * W) = u * (2 * D)
  <2> DEFINE x == 2 * (t * D)
             n == 2 * W
             y == u * (2 * D)
  <2>1. x = e * n + y /\ x \in Int /\ n \in Nat /\ y \in Nat /\ y < n /\ e \in Int
    BY <1>2, <1>5, <1>8, <1>9, Zenon
  <2> HIDE DEF x, n, y
  <2>2. x % n = y
    BY <2>1, DivisionUnique
  <2> QED
    BY <2>2, Zenon DEF x, n, y
<1>12. v = t * D
  BY <1>v, Zenon DEF t
<1> QED
  BY <1>3, <1>4, <1>10, <1>11, <1>12, Zenon DEF c, W

\* A value within the word is its own residue.
LEMMA SmallResidue == \A M, v \in Nat : v < M => v % M = v /\ v \div M = 0
OBVIOUS

\* Negation within a word
LEMMA NegateWord ==
  \A M, v \in Nat : v < M => (M - v) % M = (-v) % M
<1> TAKE M, v \in Nat
<1>h. HAVE v < M
<1>1. CASE v = 0
  BY <1>1, <1>h
<1>2. CASE v > 0
  <2>1. -v = (-1) * M + (M - v) /\ -v \in Int /\ -1 \in Int /\ M - v \in Nat /\ M - v < M
    BY <1>2, <1>h
  <2>3. (-v) % M = M - v
    BY <2>1, DivisionUnique, Zenon
  <2>4. (M - v) % M = M - v
    BY <2>1, SmallResidue, Zenon
  <2> QED
    BY <2>3, <2>4, Zenon
<1> QED
  BY <1>1, <1>2

\* The product of two words fits two words.
LEMMA ProductFits ==
  \A M, A, B \in Nat : A < M /\ B < M => A * B \in Nat /\ A * B < M * M
<1> TAKE M, A, B \in Nat
<1>h. HAVE A < M /\ B < M
<1>1. 0 <= A /\ M > 0 /\ A \in Int /\ B \in Int /\ M \in Int /\ 0 <= B
  BY <1>h
<1>2. A * M < M * M
  BY <1>1, <1>h, ScaledBound, Zenon
<1>3. A * B <= A * M
  <2>1. M - B \in Nat
    BY <1>h
  <2>2. A * (M - B) \in Nat
    BY <2>1
  <2>3. A * (M - B) = A * M - A * B
    OBVIOUS
  <2>4. A * M \in Int /\ A * B \in Int
    OBVIOUS
  <2> QED
    BY <2>2, <2>3, <2>4
<1>4. A * M \in Int /\ A * B \in Nat /\ M * M \in Int
  OBVIOUS
<1> QED
  BY <1>2, <1>3, <1>4

-----------------------------------------------------------------------------
(* Words of N bits and their halves.                                       *)

\* How a word is cut after i iterations: D * 2F, and after the next: 2D * F.
LEMMA SplitWord ==
  \A i \in 0 .. N - 1 :
    LET D == 2^i
        F == 2^(N - (i + 1))
    IN  /\ D \in Nat /\ D > 0 /\ F \in Nat /\ F > 0
        /\ 2^(i + 1) = 2 * D /\ 2^(N - i) = 2 * F
        /\ Modulus = 2 * (D * F)
<1> TAKE i \in 0 .. N - 1
<1> DEFINE k == N - (i + 1)
<1>1. i \in 0 .. N /\ k \in 0 .. N /\ 1 \in 0 .. N /\ i + 1 \in 0 .. N /\ 1 \in Int
      /\ k + 1 = N - i /\ (i + 1) + k = N
  BY WidthAssumption
<1> HIDE DEF k
<1>2. 2^i \in Nat \ {0} /\ 2^k \in Nat \ {0} /\ 2^1 = 2
  BY <1>1, PowerAssumption
<1>3. 2^(i + 1) = 2^i * 2^1 /\ 2^(k + 1) = 2^k * 2^1 /\ 2^((i + 1) + k) = 2^(i + 1) * 2^k
  BY <1>1, PowerAssumption, Zenon
<1> DEFINE D == 2^i
           F == 2^k
<1>4. 2^(i + 1) = D * 2 /\ 2^(N - i) = F * 2 /\ 2^N = (D * 2) * F
  BY <1>1, <1>2, <1>3, Zenon
<1>5. D \in Nat /\ D > 0 /\ F \in Nat /\ F > 0
  BY <1>2
<1> HIDE DEF D, F
<1>6. D * 2 = 2 * D /\ F * 2 = 2 * F /\ (D * 2) * F = 2 * (D * F)
  BY <1>5
<1>7. 2^(i + 1) = 2 * D /\ 2^(N - i) = 2 * F /\ Modulus = 2 * (D * F)
  BY <1>4, <1>6, Zenon DEF Modulus
<1> QED
  BY <1>5, <1>7, Zenon DEF D, F, k

\* A word has at least two bits, so it has halves.
LEMMA WordFacts ==
  /\ Modulus \in Nat /\ Modulus > 1 /\ Modulus \div 2 \in Nat /\ Modulus \div 2 > 0
  /\ Modulus = 2 * (Modulus \div 2) /\ 2^0 = 1 /\ 2^N = Modulus
<1>1. 0 \in 0 .. N - 1
  BY WidthAssumption
<1> DEFINE D == 2^0
           F == 2^(N - (0 + 1))
           W == D * F
<1>2. D \in Nat /\ D > 0 /\ F \in Nat /\ F > 0 /\ Modulus = 2 * W
  BY <1>1, SplitWord, Zenon
<1> HIDE DEF D, F
<1>3. W \in Nat /\ W > 0
  BY <1>2, ProductPositive, Zenon
<1> HIDE DEF W
<1>4. Modulus \in Nat /\ Modulus > 1 /\ Modulus \div 2 \in Nat /\ Modulus \div 2 > 0
                   /\ Modulus = 2 * (Modulus \div 2)
  BY <1>2, <1>3
<1>5. 2^0 = 1
  OBVIOUS
<1> QED
  BY <1>4, <1>5, Zenon DEF Modulus

\* Splitting the word by what has been shifted.
LEMMA WordDivision ==
  \A D, F, P \in Nat :
    D > 0 /\ F > 0 =>
      LET M == 2 * (D * F)
      IN  /\ M \div D = 2 * F /\ (P % M) % (2 * F) = P % (2 * F)
          /\ M \div (2 * D) = F /\ (P % M) % F = P % F
<1> TAKE D, F, P \in Nat
<1>h. HAVE D > 0 /\ F > 0
<1>0. /\ D \in Int /\ F \in Int /\ P \in Int /\ 2 * (D * F) \in Int
      /\ 2 * F \in Nat /\ 2 * F \in Int /\ 2 * D \in Nat
      /\ 0 \in Nat
  OBVIOUS
<1>a. 2 * F > 0 /\ 2 * D > 0 /\ 0 < D /\ 0 < 2 * D
  BY <1>h
<1>1. 2 * (D * F) = D * (2 * F) /\ 2 * (D * F) = (2 * F) * D + 0
  OBVIOUS
<1>2. 2 * (D * F) = (2 * D) * F /\ 2 * (D * F) = F * (2 * D) + 0
  OBVIOUS
<1>3. (P % (D * (2 * F))) % (2 * F) = P % (2 * F)
  BY <1>0, <1>a, <1>h, ReduceTwice, Zenon
<1>4. (P % ((2 * D) * F)) % F = P % F
  BY <1>0, <1>a, <1>h, ReduceTwice, Zenon
<1>5. (2 * (D * F)) \div D = 2 * F
  <2> DEFINE x == 2 * (D * F)
             y == 2 * F
  <2>1. x = y * D + 0 /\ x \in Int /\ y \in Int
    BY <1>0, <1>1, Zenon
  <2> HIDE DEF x, y
  <2>2. x \div D = y
    BY <1>0, <1>a, <2>1, DivisionUnique, Zenon
  <2> QED
    BY <2>2, Zenon DEF x, y
<1>6. (2 * (D * F)) \div (2 * D) = F
  <2> DEFINE x == 2 * (D * F)
             n == 2 * D
  <2>1. x = F * n + 0 /\ x \in Int /\ n \in Nat /\ 0 < n
    BY <1>0, <1>a, <1>2, Zenon
  <2> HIDE DEF x, n
  <2>2. x \div n = F
    BY <1>0, <2>1, DivisionUnique, Zenon
  <2> QED
    BY <2>2, Zenon DEF x, n
<1> QED
  BY <1>1, <1>2, <1>3, <1>4, <1>5, <1>6, Zenon

\* How the signed value of a word relates to its magnitude.
LEMMA SignedValue ==
  \A v \in Operand :
    /\ u32(v) = v /\ s32(v) \in Int
    /\ Negative(v) => /\ Modulus - v \in Operand /\ (Modulus - v) % Modulus = Modulus - v
                      /\ Modulus - v > 0
                      /\ s32(v) = -(Modulus - v)
    /\ ~Negative(v) => s32(v) = v
<1> TAKE v \in Operand
<1>1. v \in Nat /\ v < Modulus
  BY WordFacts DEF Operand
<1>2. v % Modulus = v
  BY <1>1, WordFacts, SmallResidue, Zenon
<1>3. u32(v) = v /\ s32(v) = IF Negative(v) THEN v - Modulus ELSE v
  BY <1>2, Zenon DEF u32, s32
<1>4. Negative(v) => Modulus - v \in Nat /\ Modulus - v < Modulus /\ Modulus - v > 0
  BY <1>1, WordFacts DEF Negative
<1>5. Negative(v) => (Modulus - v) % Modulus = Modulus - v
  BY <1>4, WordFacts, SmallResidue, Zenon
<1> QED
  BY <1>1, <1>3, <1>4, <1>5, WordFacts DEF Operand

\* The reference's products, one operation at a time.
LEMMA MultiplyValues ==
  \A a, b \in Operand :
    /\ MValue("mul", a, b) = a * b
    /\ MValue("mulh", a, b) = (s32(a) * s32(b)) \div Modulus
    /\ MValue("mulhsu", a, b) = (s32(a) * b) \div Modulus
    /\ MValue("mulhu", a, b) = (a * b) \div Modulus
BY DEF MValue

-----------------------------------------------------------------------------
(* What a multiplication computes.                                         *)

\* The magnitude of an operand.
Size(v, signed) == IF signed THEN (Modulus - v) % Modulus ELSE v

\* The product of the magnitudes, negated in two words when the signs differ,
\* holds the result of the instruction: its low word for mul, its high word else.
LEMMA MultiplyResult ==
  \A op \in MultiplyOp, a, b \in Operand :
    LET sa == op \in {"mulh", "mulhsu"} /\ Negative(a)
        sb == op = "mulh" /\ Negative(b)
        magnitude == Size(a, sa) * Size(b, sb)
        product == IF sa # sb
                   THEN (Modulus * Modulus - magnitude) % (Modulus * Modulus)
                   ELSE magnitude
    IN  /\ magnitude \in 0 .. Modulus * Modulus - 1
        /\ (IF op # "mul" THEN product \div Modulus ELSE product % Modulus) = u32(MValue(op, a, b))
<1> TAKE op \in MultiplyOp, a, b \in Operand
<1> DEFINE sa == op \in {"mulh", "mulhsu"} /\ Negative(a)
           sb == op = "mulh" /\ Negative(b)
           A == Size(a, sa)
           B == Size(b, sb)
           magnitude == A * B
           MM == Modulus * Modulus
           product == IF sa # sb THEN (MM - magnitude) % MM ELSE magnitude
           \* the operands as the instruction reads them
           ra == IF op \in {"mulh", "mulhsu"} THEN s32(a) ELSE a
           rb == IF op = "mulh" THEN s32(b) ELSE b
<1>1. /\ A \in Nat /\ A < Modulus /\ ra \in Int
      /\ sa => ra = -A
      /\ ~sa => ra = A
  <2>1. /\ a \in Nat /\ a < Modulus
        /\ s32(a) \in Int
        /\ Negative(a) => /\ Modulus - a \in Operand
                          /\ (Modulus - a) % Modulus = Modulus - a
                          /\ s32(a) = -(Modulus - a)
        /\ ~Negative(a) => s32(a) = a
    BY SignedValue, WordFacts DEF Operand
  <2> QED
    BY <2>1, WordFacts DEF Size, Operand
<1>2. /\ B \in Nat /\ B < Modulus /\ rb \in Int
      /\ sb => rb = -B
      /\ ~sb => rb = B
  <2>1. /\ b \in Nat /\ b < Modulus
        /\ s32(b) \in Int
        /\ Negative(b) => /\ Modulus - b \in Operand
                          /\ (Modulus - b) % Modulus = Modulus - b
                          /\ s32(b) = -(Modulus - b)
        /\ ~Negative(b) => s32(b) = b
    BY SignedValue, WordFacts DEF Operand
  <2> QED
    BY <2>1, WordFacts DEF Size, Operand
<1> HIDE DEF A, B
<1>3. magnitude \in Nat /\ magnitude < MM
  BY <1>1, <1>2, WordFacts, ProductFits, Zenon
<1>4. MM \in Nat /\ MM > 0
  BY WordFacts
<1>5. sa \in BOOLEAN /\ sb \in BOOLEAN
  OBVIOUS
<1>6. ra * rb = IF sa # sb THEN -magnitude ELSE magnitude
  <2> HIDE DEF ra, rb, sa, sb
  <2>0. (-A) * (-B) = A * B /\ (-A) * B = -(A * B) /\ A * (-B) = -(A * B)
    BY <1>1, <1>2
  <2>1. CASE sa /\ sb
    <3>1. ra = -A /\ rb = -B /\ ~(sa # sb)
      BY <1>1, <1>2, <2>1, Zenon
    <3> QED
      BY <2>0, <3>1, Zenon
  <2>2. CASE sa /\ ~sb
    <3>1. ra = -A /\ rb = B /\ sa # sb
      BY <1>1, <1>2, <2>2, Zenon
    <3> QED
      BY <2>0, <3>1, Zenon
  <2>3. CASE ~sa /\ sb
    <3>1. ra = A /\ rb = -B /\ sa # sb
      BY <1>1, <1>2, <2>3, Zenon
    <3> QED
      BY <2>0, <3>1, Zenon
  <2>4. CASE ~sa /\ ~sb
    <3>1. ra = A /\ rb = B /\ ~(sa # sb)
      BY <1>1, <1>2, <1>5, <2>4, Zenon
    <3> QED
      BY <3>1, Zenon
  <2> QED
    BY <1>5, <2>1, <2>2, <2>3, <2>4, Zenon
<1> HIDE DEF magnitude, MM
<1>7. product = (ra * rb) % MM
  <2>1. CASE sa # sb
    BY <1>3, <1>4, <1>6, <2>1, NegateWord, Zenon
  <2>2. CASE ~(sa # sb)
    BY <1>3, <1>4, <1>6, <2>2, SmallResidue, Zenon
  <2> QED
    BY <2>1, <2>2
<1> HIDE DEF product
<1>8. ra * rb \in Int
  BY <1>1, <1>2
<1>9. ASSUME op = "mul" PROVE product % Modulus = u32(MValue(op, a, b))
  <2>1. ~sa /\ ~sb /\ ra = a /\ rb = b
    BY <1>9
  <2>2. product = a * b
    BY <1>6, <2>1, Zenon DEF product
  <2> QED
    BY <1>9, <2>2, MultiplyValues, Zenon DEF u32
<1>10. ASSUME op # "mul" PROVE product \div Modulus = u32(MValue(op, a, b))
  <2>1. (ra * rb) \div Modulus = MValue(op, a, b)
    <3>1. op \in {"mulh", "mulhsu", "mulhu"}
      BY <1>10 DEF MultiplyOp
    <3>2. CASE op = "mulh"
      BY <3>2, MultiplyValues, Zenon
    <3>3. CASE op = "mulhsu"
      <4>1. ra = s32(a) /\ rb = b
        BY <3>3
      <4> QED
        BY <3>3, <4>1, MultiplyValues, Zenon
    <3>4. CASE op = "mulhu"
      <4>1. ra = a /\ rb = b
        BY <3>4
      <4> QED
        BY <3>4, <4>1, MultiplyValues, Zenon
    <3> QED
      BY <3>1, <3>2, <3>3, <3>4
  <2>2. product \div Modulus = ((ra * rb) \div Modulus) % Modulus
    <3>1. Modulus \in Nat /\ Modulus > 0
      BY WordFacts
    <3> QED
      BY <1>7, <1>8, <3>1, HighHalf, Zenon DEF MM
  <2> QED
    BY <1>10, <2>1, <2>2, Zenon DEF u32
<1>11. magnitude \in 0 .. MM - 1
  BY <1>3, <1>4
<1> QED
  BY <1>9, <1>10, <1>11, Zenon DEF product, magnitude, MM, A, B

\* What the product register and the multiplier bits left in it add up to
\* after i iterations.
Accumulated(i, P, m) == (P \div 2^(N - i)) + (P % 2^(N - i)) * 2^i * m

\* One addition and shift of the product register.
Shifted(P, m) == ((P \div Modulus) + IF P % 2 = 1 THEN m ELSE 0) * (Modulus \div 2)
                   + ((P % Modulus) \div 2)

\* Accumulated is what PartialProductExact speaks of.
LEMMA AccumulatedIs ==
  \A i \in 0 .. N - 1, P, m \in Nat :
    LET done == 2^i
        rest == (P % Modulus) % (Modulus \div done)
        sum  == P \div (Modulus \div done)
    IN  sum + rest * done * m = Accumulated(i, P, m)
<1> TAKE i \in 0 .. N - 1, P, m \in Nat
<1> DEFINE D == 2^i
           F == 2^(N - (i + 1))
<1>1. /\ D \in Nat /\ D > 0 /\ F \in Nat /\ F > 0
      /\ 2^(N - i) = 2 * F /\ Modulus = 2 * (D * F)
  BY SplitWord, Zenon
<1> HIDE DEF D, F
<1>2. Modulus \div D = 2 * F /\ (P % Modulus) % (2 * F) = P % (2 * F)
  <2>1. D \in Nat /\ F \in Nat /\ D > 0 /\ F > 0
    BY <1>1, Zenon
  <2>2. /\ (2 * (D * F)) \div D = 2 * F
        /\ (P % (2 * (D * F))) % (2 * F) = P % (2 * F)
    BY <2>1, WordDivision, Zenon
  <2> QED
    BY <1>1, <2>2, Zenon
<1>3. 2^i = D
  BY Zenon DEF D
<1>4. Accumulated(i, P, m) = (P \div (2 * F)) + (P % (2 * F)) * D * m
  BY <1>1, <1>3, Zenon DEF Accumulated
<1> QED
  BY <1>2, <1>3, <1>4, Zenon

\* At the start nothing is accumulated and the whole product is owed.
LEMMA AccumulatedStart == \A P \in Operand, m \in Nat : Accumulated(0, P, m) = P * m
<1> TAKE P \in Operand, m \in Nat
<1>1. P \in Nat /\ P < Modulus /\ Modulus \in Nat
  BY WordFacts DEF Operand
<1>2. P \div Modulus = 0 /\ P % Modulus = P
  BY <1>1, SmallResidue, Zenon
<1>3. N - 0 = N
  BY WidthAssumption
<1>4. Accumulated(0, P, m) = 0 + P * 1 * m
  BY <1>2, <1>3, WordFacts, Zenon DEF Accumulated
<1>5. 0 + P * 1 * m = P * m
  BY <1>1
<1> QED
  BY <1>4, <1>5, Zenon

\* At the end the register is the product.
LEMMA AccumulatedEnd == \A P \in Nat, m \in Nat : Accumulated(N, P, m) = P
<1> TAKE P \in Nat, m \in Nat
<1>1. N - N = 0 /\ P \div 1 = P /\ P % 1 = 0
  BY WidthAssumption
<1>2. Accumulated(N, P, m) = P + 0 * Modulus * m
  BY <1>1, WordFacts, Zenon DEF Accumulated
<1>3. P + 0 * Modulus * m = P
  BY WordFacts
<1> QED
  BY <1>2, <1>3, Zenon

\* An iteration changes nothing of the sum.
LEMMA AccumulatedStep ==
  \A i \in 0 .. N - 1, P, m \in Nat :
    Shifted(P, m) \in Nat /\ Accumulated(i + 1, Shifted(P, m), m) = Accumulated(i, P, m)
<1> TAKE i \in 0 .. N - 1, P, m \in Nat
<1> DEFINE D == 2^i
           F == 2^(N - (i + 1))
           W == Modulus
           s == (P \div W) + (P % 2) * m
           L == (P % W) \div 2
           Q == s * (D * F) + L
<1>1. /\ D \in Nat /\ D > 0 /\ F \in Nat /\ F > 0
      /\ 2^(i + 1) = 2 * D /\ 2^(N - i) = 2 * F
      /\ Modulus = 2 * (D * F)
  BY SplitWord, Zenon
<1>w. W \in Nat /\ W > 0
  BY WordFacts
<1> HIDE DEF D, F
<1>2. D * F \in Nat
  BY <1>1
<1>3. Modulus \div 2 = D * F
  <2> DEFINE X == D * F
  <2>1. X \in Nat /\ Modulus = 2 * X
    BY <1>1, <1>2, Zenon
  <2> HIDE DEF X
  <2>2. Modulus \div 2 = X
    BY <2>1
  <2> QED
    BY <2>2, Zenon DEF X
<1> HIDE DEF W
<1>4. P \div W \in Nat /\ P % W \in Nat /\ P % 2 \in {0, 1}
  <2>1. P % W \in Nat /\ P \div W \in Int
    BY <1>w
  <2>2. P \div W \in Nat
    BY <1>w
  <2> QED
    BY <2>1, <2>2
<1>5. s \in Nat /\ L \in Nat
  BY <1>4
<1>6. (P \div W) + (IF P % 2 = 1 THEN m ELSE 0) = s
  BY <1>4
<1>7. Q \in Nat
  <2> HIDE DEF s, L
  <2> QED
    BY <1>2, <1>5
<1>8. Shifted(P, m) = Q
  BY <1>3, <1>6, Zenon DEF Shifted, W
<1>9. (Q \div F) + (Q % F) * (2 * D) * m = (P \div (2 * F)) + (P % (2 * F)) * D * m
  <2>1. s = (P \div (2 * (D * F))) + (P % 2) * m /\ Q = s * (D * F) + ((P % (2 * (D * F))) \div 2)
    BY <1>1, Zenon DEF W
  <2>2. D \in Nat /\ F \in Nat /\ D > 0 /\ F > 0 /\ s \in Nat /\ Q \in Nat
    BY <1>1, <1>5, <1>7, Zenon
  <2> HIDE DEF Q, s, L
  <2>5. D \in Nat /\ F \in Nat /\ D > 0 /\ F > 0
    BY <2>2, Zenon
  <2>3. \A p, n, x, y \in Nat :
          /\ x = (p \div (2 * (D * F))) + (p % 2) * n
          /\ y = x * (D * F) + ((p % (2 * (D * F))) \div 2)
          => (y \div F) + (y % F) * (2 * D) * n = (p \div (2 * F)) + (p % (2 * F)) * D * n
    BY <2>5, MultiplyStep, Zenon
  <2>4. \A x, y \in Nat :
          /\ x = (P \div (2 * (D * F))) + (P % 2) * m
          /\ y = x * (D * F) + ((P % (2 * (D * F))) \div 2)
          => (y \div F) + (y % F) * (2 * D) * m = (P \div (2 * F)) + (P % (2 * F)) * D * m
    BY <2>3, Zenon
  <2> QED
    BY <2>1, <2>2, <2>4, Zenon
<1> HIDE DEF Q
<1>10. Accumulated(i + 1, Q, m) = (Q \div F) + (Q % F) * (2 * D) * m
  BY <1>1, Zenon DEF Accumulated, F
<1>11. Accumulated(i, P, m) = (P \div (2 * F)) + (P % (2 * F)) * D * m
  BY <1>1, Zenon DEF Accumulated, D
<1> QED
  BY <1>7, <1>8, <1>9, <1>10, <1>11, Zenon

\* The product register never outgrows two words.
LEMMA ShiftedFits ==
  \A P \in 0 .. Modulus * Modulus - 1, m \in Operand :
    Shifted(P, m) \in 0 .. Modulus * Modulus - 1
<1> TAKE P \in 0 .. Modulus * Modulus - 1, m \in Operand
<1> DEFINE H == Modulus \div 2
           W == Modulus
           U == P \div W
           L == P % W
           s == U + IF P % 2 = 1 THEN m ELSE 0
<1>1. W \in Nat /\ W > 1 /\ H \in Nat /\ H > 0 /\ W = 2 * H
  BY WordFacts
<1>2. P \in Nat /\ P \in Int /\ P < W * W /\ m \in Nat /\ m < W
  BY WordFacts DEF Operand
<1>8. Shifted(P, m) = s * H + (L \div 2)
  BY Zenon DEF Shifted
<1> HIDE DEF W, H
<1>3. U \in Int /\ L \in Nat /\ L < W /\ P = U * W + L
  <2>1. W > 0
    BY <1>1
  <2> QED
    BY <1>1, <1>2, <2>1, Division, Zenon
<1> HIDE DEF U, L
<1>4. U \in Nat /\ U <= W - 1
  BY <1>1, <1>2, <1>3
<1>5. s \in Nat /\ s <= 2 * (W - 1)
  BY <1>1, <1>2, <1>4
<1> HIDE DEF s
<1>6. s * H \in Nat /\ s * H <= (W - 1) * W
  <2>1. 2 * (W - 1) - s \in Nat
    BY <1>1, <1>5
  <2>2. (2 * (W - 1) - s) * H \in Nat
    BY <1>1, <2>1
  <2>3. (2 * (W - 1) - s) * H = (W - 1) * (2 * H) - s * H
    BY <1>1, <1>5
  <2>4. s * H \in Nat /\ (W - 1) * W \in Int
    BY <1>1, <1>5
  <2>5. (2 * (W - 1) - s) * H = (W - 1) * W - s * H
    BY <1>1, <2>3, Zenon
  <2> DEFINE x == (2 * (W - 1) - s) * H
             y == s * H
             z == (W - 1) * W
  <2>6. x \in Nat /\ y \in Nat /\ z \in Int /\ x = z - y
    BY <2>2, <2>4, <2>5, Zenon
  <2> HIDE DEF x, y, z
  <2>7. y <= z
    BY <2>6
  <2> QED
    BY <2>6, <2>7, Zenon DEF y, z
<1>7. L \div 2 \in Nat /\ L \div 2 < W
  BY <1>1, <1>3
<1>9. (W - 1) * W = W * W - W /\ W * W \in Nat
  BY <1>1
<1> DEFINE y == s * H
           z == W * W
           l == L \div 2
<1>10. /\ W \in Nat /\ y \in Nat /\ z \in Nat /\ l \in Nat /\ y <= z - W /\ l < W
       /\ Shifted(P, m) = y + l
  BY <1>1, <1>6, <1>7, <1>8, <1>9, Zenon
<1> HIDE DEF y, z, l
<1>11. Shifted(P, m) \in 0 .. z - 1
  BY <1>10
<1> QED
  BY <1>11, Zenon DEF z, W

-----------------------------------------------------------------------------
(* The multiplier.                                                         *)

\* The multiplier's words are these words.
LEMMA SameWords ==
  /\ Mul!Modulus = Modulus /\ Mul!Operand = Operand /\ Mul!MultiplyOp = MultiplyOp
  /\ \A v : Mul!u32(v) = u32(v)
  /\ \A v : Mul!Negative(v) = Negative(v)
  /\ \A op, a, b : Mul!MValue(op, a, b) = MValue(op, a, b)
<1>1. Mul!Modulus = Modulus
  BY DEF Mul!Modulus, Modulus
<1>2. Mul!Operand = Operand /\ Mul!MultiplyOp = MultiplyOp
  BY <1>1 DEF Mul!Operand, Operand, Mul!MultiplyOp, MultiplyOp
<1>3. \A v : Mul!u32(v) = u32(v)
  BY <1>1, Zenon DEF Mul!u32, u32
<1>4. \A v : Mul!Negative(v) = Negative(v)
  BY <1>1, Zenon DEF Mul!Negative, Negative
<1>5. \A v : Mul!s32(v) = s32(v)
  BY <1>1, <1>3, <1>4, Zenon DEF Mul!s32, s32
<1>6. \A a, b : Mul!signed_quotient(a, b) = signed_quotient(a, b)
  BY Zenon DEF Mul!signed_quotient, signed_quotient, Mul!Abs, Abs
<1>7. \A op, a, b : Mul!MValue(op, a, b) = MValue(op, a, b)
  BY DEF Mul!MValue, MValue, Mul!s32, s32, Mul!u32, u32, Mul!Negative, Negative,
         Mul!Modulus, Modulus, Mul!signed_quotient, signed_quotient, Mul!Abs, Abs
<1> QED
  BY <1>1, <1>2, <1>3, <1>4, <1>7, Zenon

\* The magnitudes of the operands in EX.
SizeA == Size(ex.a, ex.op \in {"mulh", "mulhsu"} /\ Negative(ex.a))
SizeB == Size(ex.b, ex.op = "mulh" /\ Negative(ex.b))

\* What the multiplier's registers hold of the instruction in EX.
MulLoaded ==
  /\ multiplicand_q = SizeA
  /\ negate_result_q = ((ex.op \in {"mulh", "mulhsu"} /\ Negative(ex.a))
                          # (ex.op = "mulh" /\ Negative(ex.b)))
  /\ select_high_q = (ex.op # "mul")

\* The multiplier's types.
MulTypes ==
  /\ ex \in [op: MultiplyOp, a: Operand, b: Operand] \cup {NoInsn}
  /\ state_q \in {"IDLE", "RUN", "DONE"}
  /\ iteration_q \in 0 .. N - 1
  /\ product_q \in 0 .. Modulus * Modulus - 1
  /\ multiplicand_q \in Operand
  /\ negate_result_q \in BOOLEAN
  /\ select_high_q \in BOOLEAN

\* The product with its sign, and the word of it that is asked for.
Corrected(negate, product) == IF negate THEN (Modulus * Modulus - product) % (Modulus * Modulus)
                              ELSE product
Word(high, product) == IF high THEN product \div Modulus ELSE product % Modulus

\* The inductive invariant of the multiplier: while it runs, its set-up registers
\* belong to the instruction in EX and nothing of the product is lost; when it is
\* done, the word it keeps is the result.
MulInv ==
  /\ MulTypes
  /\ state_q # "IDLE" => ex # NoInsn
  /\ state_q = "RUN" => /\ MulLoaded
                        /\ Accumulated(iteration_q, product_q, multiplicand_q) = SizeA * SizeB
  /\ state_q = "DONE" => Word(select_high_q, product_q) = u32(MValue(ex.op, ex.a, ex.b))

\* The multiplier's own definitions, in the words of these.
LEMMA MulTerms ==
  /\ Mul!TypeOK <=> MulTypes
  /\ Mul!magnitude_product_next = Shifted(product_q, multiplicand_q)
  /\ Mul!corrected_product_next = Corrected(negate_result_q, Shifted(product_q, multiplicand_q))
  /\ Mul!a_signed = (ex.op \in {"mulh", "mulhsu"} /\ Negative(ex.a))
  /\ Mul!b_signed = (ex.op = "mulh" /\ Negative(ex.b))
  /\ Mul!Magnitude(ex.a, Mul!a_signed) = SizeA
  /\ Mul!Magnitude(ex.b, Mul!b_signed) = SizeB
  /\ Mul!o_result = Word(select_high_q,
                         IF Mul!final_iteration
                         THEN Corrected(negate_result_q, Shifted(product_q, multiplicand_q))
                         ELSE product_q)
<1>1. Mul!TypeOK <=> MulTypes
  BY SameWords DEF MulTypes, Mul!TypeOK, Mul!Insn, Mul!Product
<1>2. Mul!magnitude_product_next = Shifted(product_q, multiplicand_q)
  BY SameWords, Zenon DEF Mul!magnitude_product_next, Shifted
<1>3. Mul!corrected_product_next = Corrected(negate_result_q, Shifted(product_q, multiplicand_q))
  BY <1>2, SameWords, Zenon DEF Mul!corrected_product_next, Mul!TwosComplement, Corrected
<1>4. Mul!a_signed = (ex.op \in {"mulh", "mulhsu"} /\ Negative(ex.a))
  BY SameWords, Zenon DEF Mul!a_signed
<1>5. Mul!b_signed = (ex.op = "mulh" /\ Negative(ex.b))
  BY SameWords, Zenon DEF Mul!b_signed
<1>6. /\ Mul!Magnitude(ex.a, Mul!a_signed) = SizeA
      /\ Mul!Magnitude(ex.b, Mul!b_signed) = SizeB
  BY <1>4, <1>5, SameWords, Zenon DEF Mul!Magnitude, Mul!TwosComplement, SizeA, SizeB, Size
<1>7. Mul!o_result = Word(select_high_q,
                          IF Mul!final_iteration
                          THEN Corrected(negate_result_q, Shifted(product_q, multiplicand_q))
                          ELSE product_q)
  BY <1>3, SameWords, Zenon DEF Mul!o_result, Word
<1> QED
  BY <1>1, <1>2, <1>3, <1>4, <1>5, <1>6, <1>7, Zenon

\* The sizes of two operands are words.
LEMMA SizeIsWord == \A v \in Operand, s \in BOOLEAN : (s => Negative(v)) => Size(v, s) \in Operand
BY SignedValue DEF Size

\* The last iteration completes the product, and its result is the instruction's.
LEMMA MulFinal ==
  MulInv /\ Mul!final_iteration =>
    Word(select_high_q, Corrected(negate_result_q, Shifted(product_q, multiplicand_q)))
      = u32(MValue(ex.op, ex.a, ex.b))
<1> HAVE MulInv /\ Mul!final_iteration
<1>1. /\ state_q = "RUN" /\ iteration_q = N - 1
      /\ ex.op \in MultiplyOp /\ ex.a \in Operand /\ ex.b \in Operand
      /\ product_q \in Nat /\ multiplicand_q \in Nat
      /\ MulLoaded
      /\ Accumulated(N - 1, product_q, multiplicand_q) = SizeA * SizeB
  BY WordFacts DEF MulInv, MulTypes, Mul!final_iteration, Operand
<1> DEFINE Q == Shifted(product_q, multiplicand_q)
<1>2. Q = SizeA * SizeB
  <2>1. N - 1 \in 0 .. N - 1 /\ (N - 1) + 1 = N
    BY WidthAssumption
  <2>2. Q \in Nat /\ Accumulated((N - 1) + 1, Q, multiplicand_q) = SizeA * SizeB
    BY <1>1, <2>1, AccumulatedStep, Zenon
  <2> HIDE DEF Q
  <2> QED
    BY <1>1, <2>1, <2>2, AccumulatedEnd, Zenon
<1> HIDE DEF Q
<1>3. Word(select_high_q, Corrected(negate_result_q, Q)) = u32(MValue(ex.op, ex.a, ex.b))
  BY <1>1, <1>2, MultiplyResult, Zenon DEF MulLoaded, Corrected, Word, SizeA, SizeB
<1> QED
  BY <1>3, Zenon DEF Q

\* Whatever the registers power up with, the idle multiplier owes nothing.
LEMMA MulInitEstablishes == Mul!Init => MulInv
<1> HAVE Mul!Init
<1>1. Modulus \in Nat /\ Modulus > 1 /\ N \in Nat /\ N > 1
  BY WordFacts, WidthAssumption
<1>2. Modulus * Modulus \in Nat /\ Modulus * Modulus > 0
  BY <1>1
<1>3. /\ 0 \in 0 .. N - 1 /\ N - 1 \in 0 .. N - 1
      /\ 0 \in Operand /\ Modulus - 1 \in Operand
      /\ 0 \in 0 .. Modulus * Modulus - 1
      /\ Modulus * Modulus - 1 \in 0 .. Modulus * Modulus - 1
  BY <1>1, <1>2 DEF Operand
<1> QED
  BY <1>3, SameWords DEF Mul!Init, MulInv, MulTypes

\* Every edge of the multiplier preserves its invariant.
LEMMA MulStepPreserves == MulInv /\ (Mul!Next \/ UNCHANGED Mul!vars) => MulInv'
<1> HAVE MulInv /\ (Mul!Next \/ UNCHANGED Mul!vars)
<1>t. MulTypes
  BY DEF MulInv
<1>n. product_q \in Nat /\ multiplicand_q \in Nat
  BY <1>t, WordFacts DEF MulTypes, Operand
<1>1. CASE Mul!Issue
  BY <1>1, SameWords DEF Mul!Issue, Mul!Insn, Mul!control, Mul!datapath, MulInv, MulTypes
<1>2. CASE Mul!Start
  <2>0. /\ ex \in [op: MultiplyOp, a: Operand, b: Operand] /\ ex # NoInsn /\ ex' = ex
        /\ state_q' = "RUN" /\ iteration_q' = 0
        /\ product_q' = SizeB /\ multiplicand_q' = SizeA
        /\ negate_result_q' = (Mul!a_signed # Mul!b_signed)
        /\ select_high_q' = (ex.op # "mul")
    BY <1>2, <1>t, MulTerms DEF Mul!Start, MulTypes
  <2>1. SizeA \in Operand /\ SizeB \in Operand
    BY <2>0, SizeIsWord DEF SizeA, SizeB
  <2>2. SizeA' = SizeA /\ SizeB' = SizeB
    BY <2>0, Zenon DEF SizeA, SizeB
  <2>3. SizeB \in 0 .. Modulus * Modulus - 1 /\ SizeA \in Nat /\ SizeB \in Nat
    <3>1. SizeB \in Nat /\ SizeB < Modulus /\ SizeA \in Nat /\ Modulus \in Nat /\ Modulus > 0
      BY <2>1, WordFacts DEF Operand
    <3>2. Modulus <= Modulus * Modulus /\ Modulus * Modulus \in Nat
      BY <3>1, FactorBelow
    <3> QED
      BY <3>1, <3>2
  <2>4. Accumulated(0, SizeB, SizeA) = SizeA * SizeB
    <3>1. SizeB * SizeA = SizeA * SizeB
      BY <2>3
    <3> QED
      BY <2>1, <2>3, <3>1, AccumulatedStart, Zenon
  <2>5. 0 \in 0 .. N - 1
    BY WidthAssumption
  <2>6. MulTypes'
    BY <2>0, <2>1, <2>3, <2>5 DEF MulTypes
  <2>7. MulLoaded'
    BY <2>0, <2>2, MulTerms, Zenon DEF MulLoaded
  <2> QED
    BY <2>0, <2>2, <2>4, <2>6, <2>7 DEF MulInv
<1>3. CASE Mul!Iterate
  <2>0. /\ state_q = "RUN" /\ iteration_q # N - 1 /\ iteration_q' = iteration_q + 1
        /\ product_q' = Shifted(product_q, multiplicand_q)
        /\ ex' = ex /\ state_q' = state_q /\ multiplicand_q' = multiplicand_q
        /\ negate_result_q' = negate_result_q /\ select_high_q' = select_high_q
    BY <1>3, MulTerms DEF Mul!Iterate, Mul!final_iteration
  <2>1. iteration_q' \in 0 .. N - 1
    BY <1>t, <2>0, WidthAssumption DEF MulTypes
  <2>2. product_q' \in 0 .. Modulus * Modulus - 1
    BY <1>t, <2>0, ShiftedFits, Zenon DEF MulTypes
  <2>3. SizeA' = SizeA /\ SizeB' = SizeB
    BY <2>0, Zenon DEF SizeA, SizeB
  <2>4. Accumulated(iteration_q, product_q, multiplicand_q)' = SizeA * SizeB
    <3>1. Accumulated(iteration_q, product_q, multiplicand_q)'
            = Accumulated(iteration_q + 1, Shifted(product_q, multiplicand_q), multiplicand_q)
      BY <2>0, Zenon DEF Accumulated
    <3>2. iteration_q \in 0 .. N - 1
      BY <1>t DEF MulTypes
    <3>3. Accumulated(iteration_q, product_q, multiplicand_q) = SizeA * SizeB
      BY <2>0 DEF MulInv
    <3> QED
      BY <1>n, <3>1, <3>2, <3>3, AccumulatedStep, Zenon
  <2>5. MulTypes'
    BY <1>t, <2>0, <2>1, <2>2 DEF MulTypes
  <2>6. MulLoaded'
    <3>1. MulLoaded
      BY <2>0 DEF MulInv
    <3> QED
      BY <2>0, <2>3, <3>1, Zenon DEF MulLoaded
  <2> QED
    BY <2>0, <2>3, <2>4, <2>5, <2>6 DEF MulInv
<1>4. ASSUME NEW consume \in BOOLEAN, Mul!Finish(consume)
      PROVE  MulInv'
  <2>0. /\ Mul!final_iteration /\ state_q = "RUN"
        /\ product_q' = Corrected(negate_result_q, Shifted(product_q, multiplicand_q))
        /\ state_q' = IF consume THEN "IDLE" ELSE "DONE"
        /\ ex' = IF consume THEN NoInsn ELSE ex
        /\ iteration_q' = iteration_q /\ multiplicand_q' = multiplicand_q
        /\ negate_result_q' = negate_result_q /\ select_high_q' = select_high_q
    BY <1>4, MulTerms DEF Mul!Finish, Mul!final_iteration
  <2>1. product_q' \in 0 .. Modulus * Modulus - 1
    <3>1. Shifted(product_q, multiplicand_q) \in 0 .. Modulus * Modulus - 1
      BY <1>t, ShiftedFits, Zenon DEF MulTypes
    <3> DEFINE MM == Modulus * Modulus
               Q == Shifted(product_q, multiplicand_q)
    <3>2. MM \in Nat /\ MM > 0
      BY WordFacts, ProductPositive
    <3>3. Q \in 0 .. MM - 1 /\ product_q' = IF negate_result_q THEN (MM - Q) % MM ELSE Q
      BY <2>0, <3>1, Zenon DEF Corrected
    <3> HIDE DEF MM, Q
    <3>4. product_q' \in 0 .. MM - 1
      BY <3>2, <3>3
    <3> QED
      BY <3>4, Zenon DEF MM
  <2>2. MulTypes'
    BY <1>t, <2>0, <2>1 DEF MulTypes
  <2>3. CASE consume
    BY <2>0, <2>2, <2>3 DEF MulInv
  <2>4. CASE ~consume
    <3>1. Word(select_high_q, product_q)' = u32(MValue(ex.op, ex.a, ex.b))
      BY <2>0, MulFinal, Zenon DEF Word
    <3>2. u32(MValue(ex.op, ex.a, ex.b))' = u32(MValue(ex.op, ex.a, ex.b))
      BY <2>0, <2>4, Zenon
    <3> QED
      BY <2>0, <2>2, <2>4, <3>1, <3>2 DEF MulInv
  <2> QED
    BY <2>3, <2>4
<1>5. CASE Mul!Consume
  BY <1>5 DEF Mul!Consume, Mul!datapath, MulInv, MulTypes
<1>6. CASE UNCHANGED Mul!vars
  <2>1. /\ ex' = ex /\ state_q' = state_q /\ iteration_q' = iteration_q
        /\ product_q' = product_q /\ multiplicand_q' = multiplicand_q
        /\ negate_result_q' = negate_result_q /\ select_high_q' = select_high_q
    BY <1>6 DEF Mul!vars, Mul!control, Mul!datapath
  <2> QED
    BY <2>1, Zenon DEF MulInv, MulTypes, MulLoaded, Accumulated, SizeA, SizeB, Word
<1> QED
  BY <1>1, <1>2, <1>3, <1>4, <1>5, <1>6
  DEF Mul!Next, Mul!FinishHeld, Mul!FinishConsumed

\* The multiplier's properties follow.
LEMMA MulCorrect == MulInv => Mul!TypeOK /\ Mul!ResultCorrect /\ Mul!PartialProductExact
<1> HAVE MulInv
<1>1. Mul!TypeOK
  BY MulTerms DEF MulInv
<1>2. Mul!ResultCorrect
  <2>1. Mul!final_iteration => ex # NoInsn /\ Mul!o_result = u32(MValue(ex.op, ex.a, ex.b))
    BY MulTerms, MulFinal DEF MulInv, Mul!final_iteration
  <2>2. state_q = "DONE" => ex # NoInsn /\ Mul!o_result = u32(MValue(ex.op, ex.a, ex.b))
    BY MulTerms DEF MulInv, Mul!final_iteration
  <2> QED
    BY <2>1, <2>2, SameWords, Zenon DEF Mul!ResultCorrect, Mul!o_done
<1>3. Mul!PartialProductExact
  <2> SUFFICES ASSUME state_q = "RUN"
               PROVE  LET done == 2^iteration_q
                          rest == (product_q % Modulus) % (Modulus \div done)
                          sum  == product_q \div (Modulus \div done)
                      IN  sum + rest * done * multiplicand_q = SizeA * SizeB
    BY MulTerms, SameWords, Zenon DEF Mul!PartialProductExact
  <2>1. iteration_q \in 0 .. N - 1 /\ product_q \in Nat /\ multiplicand_q \in Nat
    BY WordFacts DEF MulInv, MulTypes, Operand
  <2>2. Accumulated(iteration_q, product_q, multiplicand_q) = SizeA * SizeB
    BY DEF MulInv
  <2> QED
    BY <2>1, <2>2, AccumulatedIs, Zenon
<1> QED
  BY <1>1, <1>2, <1>3

-----------------------------------------------------------------------------
(* What a division computes.                                               *)

\* One step of the divider: v is the dividend's shift register, r the partial
\* remainder, q the quotient so far, d the divisor.
Brought(v, r) == 2 * r + (v \div (Modulus \div 2))
RemainderNext(v, r, d) ==
  (IF Brought(v, r) >= d THEN Brought(v, r) - d ELSE Brought(v, r)) % Modulus
QuotientNext(v, q, r, d) == (2 * q + IF Brought(v, r) >= d THEN 1 ELSE 0) % Modulus
DividendNext(v) == (2 * v) % Modulus

\* What the divider's registers mean after i iterations on the dividend A.
Divided(i, A, d, v, q, r) ==
  /\ v = (A % 2^(N - i)) * 2^i
  /\ A \div 2^(N - i) = q * d + r
  /\ r < d

\* A quotient is a natural no larger than its dividend.
LEMMA QuotientBelow == \A A, n \in Nat : n > 0 => A \div n \in Nat /\ A \div n <= A
<1> TAKE A, n \in Nat
<1>h. HAVE n > 0
<1> DEFINE x == A \div n
           y == A % n
<1>1. A \in Int
  OBVIOUS
<1>2. A = x * n + y /\ y \in Nat /\ x \in Int
  BY <1>h, <1>1, Division, Zenon
<1>3. x \in Nat
  BY <1>h
<1> HIDE DEF x, y
<1>4. x <= x * n /\ x * n \in Nat
  BY <1>h, <1>3, FactorBelow
<1>5. x * n <= A
  <2> DEFINE z == x * n
  <2>1. A = z + y /\ z \in Nat /\ y \in Nat
    BY <1>2, <1>4, Zenon
  <2> HIDE DEF z
  <2>2. z <= A
    BY <2>1
  <2> QED
    BY <2>2, Zenon DEF z
<1>6. x <= A
  BY <1>3, <1>4, <1>5
<1> QED
  BY <1>3, <1>6, Zenon DEF x

\* At the start nothing of the dividend is consumed.
LEMMA DividedStart ==
  \A A, d \in Operand : d > 0 => Divided(0, A, d, A, 0, 0)
<1> TAKE A, d \in Operand
<1>h. HAVE d > 0
<1>1. A \in Nat /\ A < Modulus /\ Modulus \in Nat /\ d \in Nat /\ N - 0 = N
  BY WordFacts, WidthAssumption DEF Operand
<1>2. A \div Modulus = 0 /\ A % Modulus = A
  BY <1>1, SmallResidue, Zenon
<1>3. A = A * 1 /\ 0 = 0 * d + 0 /\ 0 < d
  BY <1>1, <1>h
<1> QED
  BY <1>1, <1>2, <1>3, WordFacts, Zenon DEF Divided

\* An iteration consumes one bit of the dividend and truncates nothing.
LEMMA DividedStep ==
  \A i \in 0 .. N - 1, A, d \in Operand : \A v, q, r \in Nat :
    Divided(i, A, d, v, q, r) =>
      /\ Divided(i + 1, A, d, DividendNext(v), QuotientNext(v, q, r, d), RemainderNext(v, r, d))
      /\ DividendNext(v) \in Operand
      /\ QuotientNext(v, q, r, d) \in Operand
      /\ RemainderNext(v, r, d) \in Operand
<1> TAKE i \in 0 .. N - 1, A, d \in Operand
<1> TAKE v, q, r \in Nat
<1>h. HAVE Divided(i, A, d, v, q, r)
<1> DEFINE D == 2^i
           F == 2^(N - (i + 1))
           W == Modulus
           bit == v \div (D * F)
           sh == 2 * r + bit
           r2 == IF sh >= d THEN sh - d ELSE sh
           q2 == 2 * q + IF sh >= d THEN 1 ELSE 0
<1>1. /\ D \in Nat /\ D > 0 /\ F \in Nat /\ F > 0
      /\ 2^(i + 1) = 2 * D /\ 2^(N - i) = 2 * F
      /\ W = 2 * (D * F)
  BY SplitWord, Zenon
<1>2. A \in Nat /\ A < W /\ d \in Nat /\ d < W /\ W \in Nat /\ W > 0
  BY WordFacts DEF Operand
<1>3. v = (A % (2 * F)) * D /\ A \div (2 * F) = q * d + r /\ r < d
  BY <1>1, <1>h, Zenon DEF Divided
<1> HIDE DEF D, F
<1>4. D * F \in Nat
  BY <1>1
<1>5. W \div 2 = D * F
  <2> DEFINE X == D * F
  <2>1. X \in Nat /\ W = 2 * X
    BY <1>1, <1>4, Zenon
  <2> HIDE DEF X, W
  <2>2. W \div 2 = X
    BY <2>1
  <2> QED
    BY <2>2, Zenon DEF X
<1>6. /\ bit \in {0, 1}
      /\ (2 * v) % W = (A % F) * (2 * D)
      /\ A \div F = 2 * (A \div (2 * F)) + bit
  <2>1. D \in Nat /\ F \in Nat /\ A \in Nat /\ D > 0 /\ F > 0
    BY <1>1, <1>2, Zenon
  <2>2. /\ v \div (D * F) \in {0, 1}
        /\ (2 * v) % (2 * (D * F)) = (A % F) * (2 * D)
        /\ A \div F = 2 * (A \div (2 * F)) + (v \div (D * F))
    <3>1. \A y : y = (A % (2 * F)) * D =>
            /\ y \div (D * F) \in {0, 1}
            /\ (2 * y) % (2 * (D * F)) = (A % F) * (2 * D)
            /\ A \div F = 2 * (A \div (2 * F)) + (y \div (D * F))
      BY <2>1, DividendBits, Zenon
    <3> QED
      BY <1>3, <3>1, Zenon
  <2>3. W = 2 * (D * F)
    BY <1>1, Zenon
  <2> HIDE DEF W
  <2> QED
    BY <2>2, <2>3, Zenon DEF bit
<1>7. Brought(v, r) = sh
  BY <1>5, Zenon DEF Brought
<1> HIDE DEF W, bit
<1>8. bit \in Nat
  BY <1>6
<1>9. /\ sh >= d => sh - d \in Nat /\ sh - d < d
      /\ 2 * (q * d + r) + bit = (2 * q + 1) * d + (sh - d)
      /\ 2 * (q * d + r) + bit = (2 * q + 0) * d + sh
  <2>1. sh >= d => sh - d \in Nat /\ sh - d < d
    BY <1>2, <1>3, <1>6, <1>8
  <2>2. /\ 2 * (q * d + r) + bit = (2 * q + 1) * d + (sh - d)
        /\ 2 * (q * d + r) + bit = (2 * q + 0) * d + sh
    BY <1>2, <1>8
  <2> QED
    BY <2>1, <2>2, Zenon
<1>10. A \div F = 2 * (q * d + r) + bit
  BY <1>3, <1>6, Zenon
<1>11. sh \in Nat /\ q2 \in Nat
  BY <1>8
<1> HIDE DEF sh
<1>12. r2 \in Nat /\ r2 < d /\ A \div F = q2 * d + r2
  <2>1. CASE sh >= d
    <3>1. r2 = sh - d /\ q2 = 2 * q + 1
      BY <2>1, Zenon
    <3> QED
      BY <1>9, <1>10, <2>1, <3>1, Zenon
  <2>2. CASE ~(sh >= d)
    <3>1. r2 = sh /\ q2 = 2 * q + 0
      BY <2>2, Zenon
    <3>2. sh < d
      BY <1>2, <1>11, <2>2
    <3> QED
      BY <1>9, <1>10, <1>11, <3>1, <3>2, Zenon
  <2> QED
    BY <2>1, <2>2, Zenon
<1>13. RemainderNext(v, r, d) = r2 % W /\ QuotientNext(v, q, r, d) = q2 % W
  BY <1>7, Zenon DEF RemainderNext, QuotientNext, W
<1> HIDE DEF r2, q2
<1>14. r2 < W
  BY <1>2, <1>12
<1>15. q2 < W
  <2>1. A \div F \in Nat /\ A \div F <= A
    BY <1>1, <1>2, QuotientBelow, Zenon
  <2>2. q2 <= q2 * d /\ q2 * d \in Nat
    <3>1. d > 0
      BY <1>2, <1>12
    <3> QED
      BY <1>2, <1>11, <3>1, FactorBelow
  <2> DEFINE x == q2 * d
             y == A \div F
  <2>3. y \in Nat /\ y <= A /\ q2 <= x /\ x \in Nat /\ y = x + r2
    BY <1>12, <2>1, <2>2, Zenon
  <2> HIDE DEF x, y
  <2> QED
    BY <1>2, <1>11, <1>12, <2>3
<1>16. r2 % W = r2 /\ q2 % W = q2
  BY <1>2, <1>11, <1>12, <1>14, <1>15, SmallResidue, Zenon
<1>17. Divided(i + 1, A, d, DividendNext(v), q2, r2)
  BY <1>1, <1>6, <1>12, Zenon DEF Divided, DividendNext, W, F
<1>18. DividendNext(v) \in Operand /\ q2 \in Operand /\ r2 \in Operand
  <2>1. DividendNext(v) = (2 * v) % W
    BY Zenon DEF DividendNext, W
  <2>2. (2 * v) % W \in Nat /\ (2 * v) % W < W
    <3>1. 2 * v \in Int
      OBVIOUS
    <3> QED
      BY <1>2, <3>1, Division, Zenon
  <2>3. \A x \in Nat : x < W => x \in Operand
    BY WordFacts DEF Operand, W
  <2> QED
    BY <1>11, <1>12, <1>14, <1>15, <2>1, <2>2, <2>3, Zenon
<1> QED
  BY <1>13, <1>16, <1>17, <1>18, Zenon

\* At the end the registers hold the quotient and the remainder.
LEMMA DividedEnd ==
  \A A, d \in Operand : \A v, q, r \in Nat :
    Divided(N, A, d, v, q, r) => q = A \div d /\ r = A % d
<1> TAKE A, d \in Operand
<1> TAKE v, q, r \in Nat
<1>h. HAVE Divided(N, A, d, v, q, r)
<1>1. N - N = 0 /\ A \in Int /\ A \div 1 = A /\ d \in Nat /\ q \in Int
  BY WidthAssumption, WordFacts DEF Operand
<1>2. A = q * d + r /\ r < d
  BY <1>1, <1>h, WordFacts, Zenon DEF Divided
<1> QED
  BY <1>1, <1>2, DivisionUnique, Zenon

\* A magnitude with its sign.
Sign(v, negative) == IF negative THEN (Modulus - v) % Modulus ELSE v

\* The one quotient no word can hold, as the divider tests for it.
Overflows(op, a, b) ==
  op \in {"div", "rem"} /\ a = Modulus \div 2 /\ b = Modulus - 1

\* The overflow as reference_model.py tests for it.
SignedOverflow(a, b) == s32(a) = -(Modulus \div 2) /\ s32(b) = -1

\* The reference's unsigned quotient and remainder.
LEMMA DivideUnsigned ==
  \A a, b \in Operand :
    /\ MValue("divu", a, b) = IF b = 0 THEN Modulus - 1 ELSE a \div b
    /\ MValue("remu", a, b) = IF b = 0 THEN a ELSE a % b
BY DEF MValue

\* The reference's signed operations by zero.
LEMMA DivideByZero ==
  \A a \in Operand : MValue("div", a, 0) = -1 /\ MValue("rem", a, 0) = s32(a)
BY DEF MValue

\* The reference's signed operations when the quotient overflows.
LEMMA DivideOverflow ==
  \A a, b \in Operand :
    b # 0 /\ SignedOverflow(a, b) =>
      /\ MValue("div", a, b) = s32(a)
      /\ MValue("rem", a, b) = s32(a) - s32(a) * s32(b)
BY DEF MValue, SignedOverflow

\* The reference's signed operations otherwise.
LEMMA DivideSigned ==
  \A a, b \in Operand :
    b # 0 /\ ~SignedOverflow(a, b) =>
      /\ MValue("div", a, b) = signed_quotient(s32(a), s32(b))
      /\ MValue("rem", a, b) = s32(a) - signed_quotient(s32(a), s32(b)) * s32(b)
BY DEF MValue, SignedOverflow

\* What the divider answers without dividing.
LEMMA SpecialResult ==
  \A op \in DivideOp, a, b \in Operand :
    b = 0 \/ Overflows(op, a, b) =>
      (IF b = 0 THEN IF op \in {"rem", "remu"} THEN a ELSE Modulus - 1
       ELSE IF op \in {"rem", "remu"} THEN 0 ELSE a) = u32(MValue(op, a, b))
<1> TAKE op \in DivideOp, a, b \in Operand
<1>h. HAVE b = 0 \/ Overflows(op, a, b)
<1> DEFINE M == Modulus
           H == Modulus \div 2
<1>1. M \in Nat /\ M > 1 /\ H \in Nat /\ H > 0 /\ M = 2 * H
  BY WordFacts
<1>2. a \in Nat /\ a < M /\ b \in Nat /\ b < M
  BY WordFacts DEF Operand
<1>3. /\ s32(a) \in Int /\ s32(b) \in Int
      /\ s32(a) = (IF a >= H THEN a - M ELSE a)
      /\ s32(b) = (IF b >= H THEN b - M ELSE b)
  BY <1>1, <1>2, SignedValue DEF Negative
<1>4. op \in {"div", "divu", "rem", "remu"}
  BY DEF DivideOp
<1> HIDE DEF M, H
<1>a. \A x, k \in Int, y \in Nat : y < M /\ x = k * M + y => x % M = y
  <2>1. M \in Nat
    BY <1>1
  <2> TAKE x, k \in Int, y \in Nat
  <2> HAVE y < M /\ x = k * M + y
  <2> QED
    BY <2>1, DivisionUnique
<1>5. (a - M) % M = a /\ a % M = a
  <2> DEFINE k == -1
             x == a - M
  <2>1. x \in Int /\ k \in Int /\ x = k * M + a
    BY <1>1, <1>2
  <2> HIDE DEF k, x
  <2>2. x % M = a
    BY <1>2, <1>a, <2>1, Zenon
  <2> QED
    BY <1>1, <1>2, <2>2, SmallResidue, Zenon DEF x
<1>6. (-1) % M = M - 1 /\ (M - 1) % M = M - 1 /\ (-M) % M = 0
  <2> DEFINE k == -1
             x == -M
             y == M - 1
  <2>1. /\ x \in Int /\ k \in Int /\ x = k * M + 0 /\ 0 \in Nat /\ 0 < M
        /\ k = k * M + y /\ y \in Nat /\ y < M
    BY <1>1
  <2> HIDE DEF k, x, y
  <2>2. x % M = 0 /\ k % M = y /\ y % M = y
    BY <1>1, <1>a, <2>1, SmallResidue, Zenon
  <2> QED
    BY <2>2 DEF k, x, y
<1>7. s32(a) % M = a /\ a % M = a
  BY <1>2, <1>3, <1>5
<1>8. CASE b = 0
  <2>1. /\ op = "div" => MValue(op, a, b) = -1
        /\ op = "rem" => MValue(op, a, b) = s32(a)
        /\ op = "divu" => MValue(op, a, b) = M - 1
        /\ op = "remu" => MValue(op, a, b) = a
    BY <1>8, DivideUnsigned, DivideByZero, Zenon DEF M
  <2> QED
    BY <1>4, <1>6, <1>7, <1>8, <2>1, Zenon DEF u32, M
<1>9. CASE b # 0
  <2>1. op \in {"div", "rem"} /\ a = H /\ b = M - 1
    BY <1>h, <1>9, Zenon DEF Overflows, M, H
  <2>2. s32(a) = -H /\ s32(b) = -1
    BY <1>1, <1>3, <2>1
  <2>x. SignedOverflow(a, b)
    BY <2>2, Zenon DEF SignedOverflow, H
  <2>3. op = "div" => MValue(op, a, b) = s32(a)
    BY <1>9, <2>x, DivideOverflow, Zenon
  <2>4. op = "rem" => MValue(op, a, b) = -M
    <3>1. op = "rem" => MValue(op, a, b) = s32(a) - s32(a) * s32(b)
      BY <1>9, <2>x, DivideOverflow, Zenon
    <3>2. s32(a) - s32(a) * s32(b) = -M
      BY <1>1, <2>2
    <3> QED
      BY <3>1, <3>2, Zenon
  <2>5. "div" \notin {"rem", "remu"} /\ "rem" \in {"rem", "remu"}
    OBVIOUS
  <2> QED
    BY <1>6, <1>7, <1>9, <2>1, <2>3, <2>4, <2>5, Zenon DEF u32, M
<1> QED
  BY <1>8, <1>9

\* A magnitude below the modulus, signed, is the residue of the signed value.
LEMMA SignIs ==
  \A v \in Operand, negative \in BOOLEAN :
    Sign(v, negative) = u32(IF negative THEN -v ELSE v)
<1> TAKE v \in Operand, negative \in BOOLEAN
<1>1. v \in Nat /\ v < Modulus /\ Modulus \in Nat
  BY WordFacts DEF Operand
<1>2. v % Modulus = v /\ (Modulus - v) % Modulus = (-v) % Modulus
  BY <1>1, SmallResidue, NegateWord, Zenon
<1> QED
  BY <1>2, Zenon DEF Sign, u32

\* The quotient and the remainder of the magnitudes, signed, are the
\* instruction's.
LEMMA DivideResult ==
  \A op \in DivideOp, a, b \in Operand :
    LET sa == op \in {"div", "rem"} /\ Negative(a)
        sb == op \in {"div", "rem"} /\ Negative(b)
        A == Size(a, sa)
        d == Size(b, sb)
    IN  /\ A \in Operand /\ d \in Operand
        /\ b # 0 => d > 0
        /\ b # 0 /\ ~Overflows(op, a, b) =>
             u32(MValue(op, a, b)) = IF op \in {"rem", "remu"} THEN Sign(A % d, sa)
                                     ELSE Sign(A \div d, sa # sb)
<1> TAKE op \in DivideOp, a, b \in Operand
<1> DEFINE sa == op \in {"div", "rem"} /\ Negative(a)
           sb == op \in {"div", "rem"} /\ Negative(b)
           A == Size(a, sa)
           d == Size(b, sb)
           Q == A \div d
           R == A % d
           H == Modulus \div 2
           \* the operands as the instruction reads them
           ra == IF op \in {"div", "rem"} THEN s32(a) ELSE a
           rb == IF op \in {"div", "rem"} THEN s32(b) ELSE b
<1>0. op \in {"div", "divu", "rem", "remu"} /\ sa \in BOOLEAN /\ sb \in BOOLEAN
      /\ (sa # sb) \in BOOLEAN
  BY DEF DivideOp
<1>1. /\ A \in Nat /\ A < Modulus /\ A \in Operand /\ ra \in Int
      /\ sa => ra = -A /\ A > 0
      /\ ~sa => ra = A
  <2>1. /\ a \in Nat /\ a < Modulus
        /\ s32(a) \in Int
        /\ Negative(a) => /\ Modulus - a \in Operand /\ Modulus - a > 0
                          /\ (Modulus - a) % Modulus = Modulus - a
                          /\ s32(a) = -(Modulus - a)
        /\ ~Negative(a) => s32(a) = a
    BY SignedValue, WordFacts DEF Operand
  <2> QED
    BY <2>1, WordFacts DEF Size, Operand
<1>2. /\ d \in Nat /\ d < Modulus /\ d \in Operand /\ rb \in Int
      /\ sb => rb = -d /\ d > 0
      /\ ~sb => rb = d
      /\ b # 0 => d > 0
  <2>1. /\ b \in Nat /\ b < Modulus
        /\ s32(b) \in Int
        /\ Negative(b) => /\ Modulus - b \in Operand /\ Modulus - b > 0
                          /\ (Modulus - b) % Modulus = Modulus - b
                          /\ s32(b) = -(Modulus - b)
        /\ ~Negative(b) => s32(b) = b
    BY SignedValue, WordFacts DEF Operand
  <2> QED
    BY <2>1, WordFacts DEF Size, Operand
<1>3. ASSUME b # 0, ~Overflows(op, a, b)
      PROVE  u32(MValue(op, a, b)) = IF op \in {"rem", "remu"} THEN Sign(R, sa)
                                     ELSE Sign(Q, sa # sb)
  <2>1. d > 0
    BY <1>2, <1>3
  <2> HIDE DEF A, d
  <2>2. Q \in Nat /\ Q <= A
    BY <1>1, <1>2, <2>1, QuotientBelow, Zenon
  <2>3. A = Q * d + R /\ R \in Nat /\ R < d
    <3>1. A \in Int
      BY <1>1
    <3> QED
      BY <1>2, <2>1, <3>1, Division, Zenon
  <2> HIDE DEF Q, R
  <2>4. Q \in Operand /\ R \in Operand
    BY <1>1, <1>2, <2>2, <2>3, WordFacts DEF Operand
  <2>5. CASE op = "divu"
    <3>1. ~sa /\ ~sb /\ a = A /\ b = d
      BY <2>5 DEF A, d, Size
    <3>2. MValue(op, a, b) = Q
      BY <1>3, <2>5, <3>1, DivideUnsigned, Zenon DEF Q
    <3>3. op \notin {"rem", "remu"} /\ (sa # sb) = FALSE
      BY <2>5, <3>1
    <3> QED
      BY <1>0, <2>4, <3>2, <3>3, SignIs, Zenon
  <2>6. CASE op = "remu"
    <3>1. ~sa /\ ~sb /\ a = A /\ b = d
      BY <2>6 DEF A, d, Size
    <3>2. MValue(op, a, b) = R
      BY <1>3, <2>6, <3>1, DivideUnsigned, Zenon DEF R
    <3>3. op \in {"rem", "remu"}
      BY <2>6
    <3> QED
      BY <1>0, <2>4, <3>1, <3>2, <3>3, SignIs, Zenon
  <2>7. ASSUME op \in {"div", "rem"}
        PROVE  signed_quotient(ra, rb) = (IF sa # sb THEN -Q ELSE Q)
    <3>1. Abs(ra) = A /\ Abs(rb) = d /\ (ra < 0) = sa /\ (rb < 0) = sb
      BY <1>0, <1>1, <1>2 DEF Abs
    <3> QED
      BY <3>1, Zenon DEF signed_quotient, Q
  <2>8. ASSUME op \in {"div", "rem"}
        PROVE  /\ ra = s32(a) /\ rb = s32(b)
               /\ ~SignedOverflow(a, b)
    <3>1. ra = s32(a) /\ rb = s32(b)
      BY <2>8, Zenon
    <3>2. ~(a = H /\ b = Modulus - 1)
      BY <1>3, <2>8, Zenon DEF Overflows
    <3>3. /\ Modulus \in Nat /\ H \in Nat /\ H > 0 /\ Modulus = 2 * H
          /\ a \in Nat /\ b \in Nat
      BY WordFacts DEF Operand
    <3>4. /\ s32(a) = (IF a >= H THEN a - Modulus ELSE a)
          /\ s32(b) = (IF b >= H THEN b - Modulus ELSE b)
      BY <3>3, SignedValue DEF Negative
    <3> HIDE DEF H
    <3>5. ~(s32(a) = -H /\ s32(b) = -1)
      BY <3>2, <3>3, <3>4
    <3> QED
      BY <3>1, <3>5, Zenon DEF SignedOverflow, H
  <2> HIDE DEF ra, rb
  <2>9. CASE op = "div"
    <3>1. MValue(op, a, b) = IF sa # sb THEN -Q ELSE Q
      <4>1. op \in {"div", "rem"}
        BY <2>9
      <4> QED
        BY <1>3, <2>7, <2>8, <2>9, <4>1, DivideSigned, Zenon
    <3>2. op \notin {"rem", "remu"}
      BY <2>9
    <3> QED
      BY <1>0, <2>4, <3>1, <3>2, SignIs, Zenon
  <2>10. CASE op = "rem"
    <3>0. op \in {"div", "rem"} /\ op \in {"rem", "remu"}
      BY <2>10
    <3>1. MValue(op, a, b) = ra - (IF sa # sb THEN -Q ELSE Q) * rb
      BY <1>3, <2>7, <2>8, <2>10, <3>0, DivideSigned, Zenon
    <3>2. (-Q) * (-d) = Q * d /\ (-Q) * d = -(Q * d) /\ Q * (-d) = -(Q * d)
          /\ Q * d \in Int
      BY <1>2, <2>2
    <3> DEFINE x == Q * d
    <3>3. (IF sa # sb THEN -Q ELSE Q) * rb = IF sa THEN -x ELSE x
      <4> HIDE DEF sa, sb
      <4>1. CASE sa /\ sb
        <5>1. rb = -d /\ ~(sa # sb)
          BY <1>2, <4>1, Zenon
        <5> QED
          BY <3>2, <4>1, <5>1, Zenon
      <4>2. CASE sa /\ ~sb
        <5>1. rb = d /\ (sa # sb)
          BY <1>2, <4>2, Zenon
        <5> QED
          BY <3>2, <4>2, <5>1, Zenon
      <4>3. CASE ~sa /\ sb
        <5>1. rb = -d /\ (sa # sb)
          BY <1>2, <4>3, Zenon
        <5>2. (-Q) * (-d) = x
          BY <3>2, Zenon
        <5> QED
          BY <4>3, <5>1, <5>2, Zenon
      <4>4. CASE ~sa /\ ~sb
        <5>1. rb = d /\ ~(sa # sb)
          BY <1>0, <1>2, <4>4, Zenon
        <5> QED
          BY <4>4, <5>1, Zenon
      <4> QED
        BY <1>0, <4>1, <4>2, <4>3, <4>4, Zenon
    <3>4. A = x + R /\ x \in Int
      BY <2>3, <3>2, Zenon
    <3> HIDE DEF x, sa, sb
    <3>5. ra - (IF sa THEN -x ELSE x) = IF sa THEN -R ELSE R
      BY <1>0, <1>1, <2>3, <3>4
    <3>6. MValue(op, a, b) = IF sa THEN -R ELSE R
      BY <3>1, <3>3, <3>5, Zenon
    <3> QED
      BY <1>0, <2>4, <3>0, <3>6, SignIs, Zenon
  <2> QED
    BY <1>0, <2>5, <2>6, <2>9, <2>10
<1> QED
  BY <1>1, <1>2, <1>3, Zenon

-----------------------------------------------------------------------------
(* The divider.                                                            *)

\* The divider's words are these words.
LEMMA SameDivideWords ==
  /\ Div!Modulus = Modulus /\ Div!Operand = Operand /\ Div!DivideOp = DivideOp
  /\ \A v : Div!u32(v) = u32(v)
  /\ \A v : Div!Negative(v) = Negative(v)
  /\ \A op, a, b : Div!MValue(op, a, b) = MValue(op, a, b)
<1>1. Div!Modulus = Modulus
  BY DEF Div!Modulus, Modulus
<1>2. Div!Operand = Operand /\ Div!DivideOp = DivideOp
  BY <1>1 DEF Div!Operand, Operand, Div!DivideOp, DivideOp
<1>3. \A v : Div!u32(v) = u32(v)
  BY <1>1, Zenon DEF Div!u32, u32
<1>4. \A v : Div!Negative(v) = Negative(v)
  BY <1>1, Zenon DEF Div!Negative, Negative
<1>5. \A op, a, b : Div!MValue(op, a, b) = MValue(op, a, b)
  BY DEF Div!MValue, MValue, Div!s32, s32, Div!u32, u32, Div!Negative, Negative,
         Div!Modulus, Modulus, Div!signed_quotient, signed_quotient, Div!Abs, Abs
<1> QED
  BY <1>1, <1>2, <1>3, <1>4, <1>5, Zenon

\* The signs and the magnitudes of the operands in EX.
DividendNegative == ex.op \in {"div", "rem"} /\ Negative(ex.a)
DivisorNegative == ex.op \in {"div", "rem"} /\ Negative(ex.b)
DividendSize == Size(ex.a, DividendNegative)
DivisorSize == Size(ex.b, DivisorNegative)
\* The divider does not divide.
Special == ex.b = 0 \/ Overflows(ex.op, ex.a, ex.b)

\* The divider's types.
DivTypes ==
  /\ ex \in [op: DivideOp, a: Operand, b: Operand] \cup {NoInsn}
  /\ state_q \in {"IDLE", "RUN", "DONE"}
  /\ iteration_q \in 0 .. N - 1
  /\ dividend_q \in Operand /\ divisor_q \in Operand /\ quotient_q \in Operand
  /\ remainder_q \in Operand /\ special_result_q \in Operand
  /\ quotient_negative_q \in BOOLEAN /\ remainder_negative_q \in BOOLEAN
  /\ select_remainder_q \in BOOLEAN /\ special_q \in BOOLEAN

\* What the divider's set-up registers hold of the instruction in EX.
DivLoaded ==
  /\ divisor_q = DivisorSize
  /\ quotient_negative_q = (DividendNegative # DivisorNegative)
  /\ remainder_negative_q = DividendNegative
  /\ select_remainder_q = (ex.op \in {"rem", "remu"})
  /\ special_q = Special
  /\ special_result_q = IF ex.b = 0 THEN IF ex.op \in {"rem", "remu"} THEN ex.a ELSE Modulus - 1
                        ELSE IF ex.op \in {"rem", "remu"} THEN 0 ELSE ex.a

\* The result the divider offers.
Selected(special, special_result, select_remainder, remainder, quotient) ==
  IF special THEN special_result ELSE IF select_remainder THEN remainder ELSE quotient

\* The inductive invariant of the divider: while it runs, its set-up registers
\* belong to the instruction in EX and, unless the case is special, the dividend
\* is divided exactly as far as it has been consumed; when it is done, the word
\* it keeps is the result.
DivInv ==
  /\ DivTypes
  /\ state_q # "IDLE" => ex # NoInsn
  /\ state_q = "RUN" =>
       /\ DivLoaded
       /\ ~special_q => Divided(iteration_q, DividendSize, DivisorSize,
                                dividend_q, quotient_q, remainder_q)
  /\ state_q = "DONE" =>
       Selected(special_q, special_result_q, select_remainder_q, remainder_q, quotient_q)
         = u32(MValue(ex.op, ex.a, ex.b))

\* The work registers after the next iteration.
NextQuotient == QuotientNext(dividend_q, quotient_q, remainder_q, divisor_q)
NextRemainder == RemainderNext(dividend_q, remainder_q, divisor_q)

\* The divider's own definitions, in the words of these.
LEMMA DivTerms ==
  /\ Div!TypeOK <=> DivTypes
  /\ Div!dividend_next = DividendNext(dividend_q)
  /\ Div!quotient_next = NextQuotient
  /\ Div!remainder_next = NextRemainder
  /\ Div!quotient_corrected = Sign(NextQuotient, quotient_negative_q)
  /\ Div!remainder_corrected = Sign(NextRemainder, remainder_negative_q)
  /\ Div!dividend_negative = DividendNegative
  /\ Div!divisor_negative = DivisorNegative
  /\ Div!Corrected(ex.a, Div!dividend_negative) = DividendSize
  /\ Div!Corrected(ex.b, Div!divisor_negative) = DivisorSize
  /\ (Div!divide_by_zero \/ Div!signed_overflow) = Special
<1>1. Div!TypeOK <=> DivTypes
  BY SameDivideWords DEF DivTypes, Div!TypeOK, Div!Insn
<1>2. Div!dividend_next = DividendNext(dividend_q)
  BY SameDivideWords, Zenon DEF Div!dividend_next, DividendNext
<1>3. Div!shifted_remainder = Brought(dividend_q, remainder_q)
  BY SameDivideWords, Zenon DEF Div!shifted_remainder, Brought
<1>4. Div!quotient_next = NextQuotient
  BY <1>3, SameDivideWords, Zenon DEF Div!quotient_next, Div!subtracts, NextQuotient, QuotientNext
<1>5. Div!remainder_next = NextRemainder
  BY <1>3, SameDivideWords, Zenon
  DEF Div!remainder_next, Div!subtracts, NextRemainder, RemainderNext
<1>6. \A v, negative : Div!Corrected(v, negative) = Sign(v, negative)
  BY SameDivideWords, Zenon DEF Div!Corrected, Div!TwosComplement, Sign
<1>7. Div!dividend_negative = DividendNegative /\ Div!divisor_negative = DivisorNegative
  BY SameDivideWords, Zenon
  DEF Div!dividend_negative, Div!divisor_negative, Div!signed_operation,
      DividendNegative, DivisorNegative
<1>8. \A v, negative : Size(v, negative) = Sign(v, negative)
  BY Zenon DEF Size, Sign
<1>9. (Div!divide_by_zero \/ Div!signed_overflow) = Special
  BY SameDivideWords, Zenon
  DEF Div!divide_by_zero, Div!signed_overflow, Div!signed_operation, Special, Overflows
<1> QED
  BY <1>1, <1>2, <1>4, <1>5, <1>6, <1>7, <1>8, <1>9, Zenon
  DEF Div!quotient_corrected, Div!remainder_corrected, DividendSize, DivisorSize

\* The sizes and the signs of the operands in EX.
LEMMA OperandSizes ==
  ASSUME ex \in [op: DivideOp, a: Operand, b: Operand]
  PROVE  /\ DividendSize \in Operand /\ DivisorSize \in Operand
         /\ ~Special => DivisorSize > 0
<1>1. ex.op \in DivideOp /\ ex.a \in Operand /\ ex.b \in Operand
  OBVIOUS
<1> QED
  BY <1>1, DivideResult, Zenon
  DEF DividendSize, DivisorSize, DividendNegative, DivisorNegative, Special

\* The last iteration completes the division, and its result, or the special
\* one, is the instruction's.
LEMMA DivFinal ==
  DivInv /\ Div!final_iteration =>
    Selected(special_q, special_result_q, select_remainder_q,
             Sign(NextRemainder, remainder_negative_q), Sign(NextQuotient, quotient_negative_q))
      = u32(MValue(ex.op, ex.a, ex.b))
<1> HAVE DivInv /\ Div!final_iteration
<1>1. /\ state_q = "RUN" /\ iteration_q = N - 1
      /\ ex \in [op: DivideOp, a: Operand, b: Operand]
      /\ ex.op \in DivideOp /\ ex.a \in Operand /\ ex.b \in Operand
      /\ DivLoaded
      /\ dividend_q \in Nat /\ quotient_q \in Nat /\ remainder_q \in Nat
  BY WordFacts DEF DivInv, DivTypes, Div!final_iteration, Operand
<1>2. CASE special_q
  <2>1. Special
    BY <1>1, <1>2 DEF DivLoaded
  <2>2. special_result_q = u32(MValue(ex.op, ex.a, ex.b))
    BY <1>1, <2>1, SpecialResult, Zenon DEF DivLoaded, Special
  <2> QED
    BY <1>2, <2>2, Zenon DEF Selected
<1>3. CASE ~special_q
  <2>1. ~Special
    BY <1>1, <1>3 DEF DivLoaded
  <2>2. DividendSize \in Operand /\ DivisorSize \in Operand
    BY <1>1, OperandSizes
  <2>3. Divided(N - 1, DividendSize, DivisorSize, dividend_q, quotient_q, remainder_q)
    BY <1>1, <1>3 DEF DivInv
  <2>4. N - 1 \in 0 .. N - 1 /\ (N - 1) + 1 = N
    BY WidthAssumption
  <2>5. divisor_q = DivisorSize
    BY <1>1 DEF DivLoaded
  <2> DEFINE v == DividendNext(dividend_q)
  <2>6. /\ Divided(N, DividendSize, DivisorSize, v, NextQuotient, NextRemainder)
        /\ v \in Operand /\ NextQuotient \in Operand /\ NextRemainder \in Operand
    <3> DEFINE i == N - 1
    <3>1. /\ Divided(i, DividendSize, DivisorSize, dividend_q, quotient_q, remainder_q)
          /\ i \in 0 .. N - 1 /\ i + 1 = N
          /\ dividend_q \in Nat /\ quotient_q \in Nat /\ remainder_q \in Nat
      BY <1>1, <2>3, <2>4, Zenon
    <3> HIDE DEF i
    <3>2. /\ Divided(i + 1, DividendSize, DivisorSize, v,
                     QuotientNext(dividend_q, quotient_q, remainder_q, DivisorSize),
                     RemainderNext(dividend_q, remainder_q, DivisorSize))
          /\ v \in Operand
          /\ QuotientNext(dividend_q, quotient_q, remainder_q, DivisorSize) \in Operand
          /\ RemainderNext(dividend_q, remainder_q, DivisorSize) \in Operand
      BY <2>2, <3>1, DividedStep, Zenon
    <3> QED
      BY <2>5, <3>1, <3>2, Zenon DEF NextQuotient, NextRemainder
  <2> HIDE DEF v
  <2>7. \A x \in Operand : x \in Nat
    BY WordFacts DEF Operand
  <2>8. NextQuotient = DividendSize \div DivisorSize /\ NextRemainder = DividendSize % DivisorSize
    BY <2>2, <2>6, <2>7, DividedEnd, Zenon
  <2>9. u32(MValue(ex.op, ex.a, ex.b))
          = IF ex.op \in {"rem", "remu"} THEN Sign(NextRemainder, DividendNegative)
            ELSE Sign(NextQuotient, DividendNegative # DivisorNegative)
    <3>1. /\ ex.op \in DivideOp /\ ex.a \in Operand /\ ex.b \in Operand
          /\ ex.b # 0 /\ ~Overflows(ex.op, ex.a, ex.b)
      BY <1>1, <2>1 DEF Special
    <3>2. u32(MValue(ex.op, ex.a, ex.b))
            = IF ex.op \in {"rem", "remu"} THEN Sign(DividendSize % DivisorSize, DividendNegative)
              ELSE Sign(DividendSize \div DivisorSize, DividendNegative # DivisorNegative)
      BY <3>1, DivideResult, ZenonT(40)
      DEF DividendSize, DivisorSize, DividendNegative, DivisorNegative
    <3> QED
      BY <2>8, <3>2, Zenon
  <2> QED
    BY <1>1, <1>3, <2>9, Zenon DEF Selected, DivLoaded
<1> QED
  BY <1>2, <1>3

\* Whatever the registers power up with, the idle divider owes nothing.
LEMMA DivInitEstablishes == Div!Init => DivInv
<1> HAVE Div!Init
<1>1. /\ 0 \in 0 .. N - 1 /\ N - 1 \in 0 .. N - 1
      /\ 0 \in Operand /\ Modulus - 1 \in Operand
  BY WordFacts, WidthAssumption DEF Operand
<1> QED
  BY <1>1, SameDivideWords DEF Div!Init, DivInv, DivTypes

\* A signed magnitude is a word.
LEMMA SignIsWord == \A v \in Operand, negative \in BOOLEAN : Sign(v, negative) \in Operand
<1> TAKE v \in Operand, negative \in BOOLEAN
<1>1. v \in Nat /\ v < Modulus /\ Modulus \in Nat /\ Modulus > 0
  BY WordFacts DEF Operand
<1>2. (Modulus - v) % Modulus \in 0 .. Modulus - 1
  BY <1>1
<1> QED
  BY <1>2 DEF Sign, Operand

\* A residue is a word.
LEMMA WordResidue == \A x \in Int : x % Modulus \in Operand
BY WordFacts DEF Operand

\* So are the next quotient and remainder.
LEMMA NextWords ==
  ASSUME dividend_q \in Nat, quotient_q \in Nat, remainder_q \in Nat, divisor_q \in Nat
  PROVE  NextQuotient \in Operand /\ NextRemainder \in Operand
<1>1. dividend_q \div (Modulus \div 2) \in Int
  BY WordFacts
<1>2. Brought(dividend_q, remainder_q) \in Int
  BY <1>1 DEF Brought
<1> QED
  BY <1>2, WordResidue DEF NextQuotient, NextRemainder, QuotientNext, RemainderNext

\* Every edge of the divider preserves its invariant.
LEMMA DivStepPreserves == DivInv /\ (Div!Next \/ UNCHANGED Div!vars) => DivInv'
<1> HAVE DivInv /\ (Div!Next \/ UNCHANGED Div!vars)
<1>t. DivTypes
  BY DEF DivInv
<1>n. dividend_q \in Nat /\ quotient_q \in Nat /\ remainder_q \in Nat /\ divisor_q \in Nat
  BY <1>t, WordFacts DEF DivTypes, Operand
<1>1. CASE Div!Issue
  BY <1>1, SameDivideWords
  DEF Div!Issue, Div!Insn, Div!control, Div!work, Div!setup, DivInv, DivTypes
<1>2. CASE Div!Start
  <2>0. /\ ex \in [op: DivideOp, a: Operand, b: Operand] /\ ex # NoInsn /\ ex' = ex
        /\ state_q' = "RUN" /\ iteration_q' = 0
        /\ dividend_q' = DividendSize /\ divisor_q' = DivisorSize
        /\ quotient_q' = 0 /\ remainder_q' = 0
    BY <1>2, <1>t, DivTerms DEF Div!Start, DivTypes
  <2>a. /\ quotient_negative_q' = (DividendNegative # DivisorNegative)
        /\ remainder_negative_q' = DividendNegative
        /\ select_remainder_q' = (ex.op \in {"rem", "remu"})
        /\ special_q' = Special
        /\ special_result_q' = IF ex.b = 0
                               THEN IF ex.op \in {"rem", "remu"} THEN ex.a ELSE Modulus - 1
                               ELSE IF ex.op \in {"rem", "remu"} THEN 0 ELSE ex.a
    BY <1>2, DivTerms, SameDivideWords, Zenon
    DEF Div!Start, Div!selects_remainder, Div!divide_by_zero
  <2>1. DividendSize \in Operand /\ DivisorSize \in Operand /\ (~Special => DivisorSize > 0)
    BY <2>0, OperandSizes
  <2>2. /\ DividendSize' = DividendSize /\ DivisorSize' = DivisorSize /\ Special' = Special
        /\ DividendNegative' = DividendNegative /\ DivisorNegative' = DivisorNegative
    BY <2>0, Zenon DEF DividendSize, DivisorSize, DividendNegative, DivisorNegative, Special
  <2>3. 0 \in 0 .. N - 1 /\ 0 \in Operand /\ Modulus - 1 \in Operand
        /\ ex.a \in Operand
    BY <2>0, WidthAssumption, WordFacts DEF Operand
  <2>4. ~Special => Divided(0, DividendSize, DivisorSize, DividendSize, 0, 0)
    BY <2>1, DividedStart, Zenon
  <2>5. special_result_q' \in Operand
    BY <2>a, <2>3, Zenon
  <2>b. /\ quotient_negative_q' \in BOOLEAN /\ remainder_negative_q' \in BOOLEAN
        /\ select_remainder_q' \in BOOLEAN /\ special_q' \in BOOLEAN
    BY <2>a DEF DividendNegative, DivisorNegative, Special
  <2>6. DivTypes'
    BY <2>0, <2>1, <2>3, <2>5, <2>b DEF DivTypes
  <2>7. DivLoaded'
    BY <2>0, <2>a, <2>2, Zenon DEF DivLoaded
  <2>8. (~special_q => Divided(iteration_q, DividendSize, DivisorSize,
                               dividend_q, quotient_q, remainder_q))'
    BY <2>0, <2>a, <2>2, <2>4, Zenon DEF Divided
  <2> QED
    BY <2>0, <2>6, <2>7, <2>8 DEF DivInv
<1>3. CASE Div!Iterate
  <2>0. /\ state_q = "RUN" /\ iteration_q # N - 1 /\ iteration_q' = iteration_q + 1
        /\ ex' = ex /\ state_q' = state_q /\ divisor_q' = divisor_q
        /\ quotient_negative_q' = quotient_negative_q
        /\ remainder_negative_q' = remainder_negative_q
        /\ select_remainder_q' = select_remainder_q
        /\ special_q' = special_q /\ special_result_q' = special_result_q
        /\ IF special_q
           THEN dividend_q' = dividend_q /\ quotient_q' = quotient_q /\ remainder_q' = remainder_q
           ELSE /\ dividend_q' = DividendNext(dividend_q)
                /\ quotient_q' = NextQuotient /\ remainder_q' = NextRemainder
    BY <1>3, DivTerms DEF Div!Iterate, Div!final_iteration, Div!setup, Div!work
  <2>1. iteration_q' \in 0 .. N - 1 /\ iteration_q \in 0 .. N - 1
    BY <1>t, <2>0, WidthAssumption DEF DivTypes
  <2>2. /\ DividendSize' = DividendSize /\ DivisorSize' = DivisorSize /\ Special' = Special
        /\ DividendNegative' = DividendNegative /\ DivisorNegative' = DivisorNegative
    BY <2>0, Zenon DEF DividendSize, DivisorSize, DividendNegative, DivisorNegative, Special
  <2>3. DivLoaded /\ DivLoaded'
    <3>1. DivLoaded
      BY <2>0 DEF DivInv
    <3> QED
      BY <2>0, <2>2, <3>1, Zenon DEF DivLoaded
  <2>4. CASE special_q
    <3>1. DivTypes'
      BY <1>t, <2>0, <2>1, <2>4 DEF DivTypes
    <3> QED
      BY <2>0, <2>3, <2>4, <3>1 DEF DivInv
  <2>5. CASE ~special_q
    <3>1. ex \in [op: DivideOp, a: Operand, b: Operand]
      BY <1>t, <2>0 DEF DivInv, DivTypes
    <3>2. DividendSize \in Operand /\ DivisorSize \in Operand /\ divisor_q = DivisorSize
      BY <2>3, <3>1, OperandSizes DEF DivLoaded
    <3>3. Divided(iteration_q, DividendSize, DivisorSize, dividend_q, quotient_q, remainder_q)
      BY <2>0, <2>5 DEF DivInv
    <3>4. /\ Divided(iteration_q + 1, DividendSize, DivisorSize,
                     DividendNext(dividend_q), NextQuotient, NextRemainder)
          /\ DividendNext(dividend_q) \in Operand
          /\ NextQuotient \in Operand /\ NextRemainder \in Operand
      BY <1>n, <2>1, <3>2, <3>3, DividedStep, Zenon DEF NextQuotient, NextRemainder
    <3>5. DivTypes'
      BY <1>t, <2>0, <2>1, <2>5, <3>4 DEF DivTypes
    <3>6. Divided(iteration_q, DividendSize, DivisorSize, dividend_q, quotient_q, remainder_q)'
      BY <2>0, <2>2, <2>5, <3>4, Zenon DEF Divided
    <3> QED
      BY <2>0, <2>3, <3>5, <3>6 DEF DivInv
  <2> QED
    BY <2>4, <2>5
<1>4. ASSUME NEW consume \in BOOLEAN, Div!Finish(consume)
      PROVE  DivInv'
  <2>0. /\ Div!final_iteration /\ state_q = "RUN"
        /\ state_q' = IF consume THEN "IDLE" ELSE "DONE"
        /\ ex' = IF consume THEN NoInsn ELSE ex
        /\ iteration_q' = iteration_q /\ dividend_q' = dividend_q /\ divisor_q' = divisor_q
        /\ quotient_negative_q' = quotient_negative_q
        /\ remainder_negative_q' = remainder_negative_q
        /\ select_remainder_q' = select_remainder_q
        /\ special_q' = special_q /\ special_result_q' = special_result_q
        /\ IF special_q THEN quotient_q' = quotient_q /\ remainder_q' = remainder_q
           ELSE /\ quotient_q' = Sign(NextQuotient, quotient_negative_q)
                /\ remainder_q' = Sign(NextRemainder, remainder_negative_q)
    BY <1>4, DivTerms DEF Div!Finish, Div!final_iteration, Div!setup
  <2>1. quotient_q' \in Operand /\ remainder_q' \in Operand
    <3>1. NextQuotient \in Operand /\ NextRemainder \in Operand
      BY <1>n, NextWords
    <3> QED
      BY <1>t, <2>0, <3>1, SignIsWord DEF DivTypes
  <2>2. DivTypes'
    BY <1>t, <2>0, <2>1 DEF DivTypes
  <2>3. CASE consume
    BY <2>0, <2>2, <2>3 DEF DivInv
  <2>4. CASE ~consume
    <3>1. Selected(special_q, special_result_q, select_remainder_q, remainder_q, quotient_q)'
            = u32(MValue(ex.op, ex.a, ex.b))
      BY <2>0, DivFinal, Zenon DEF Selected
    <3>2. u32(MValue(ex.op, ex.a, ex.b))' = u32(MValue(ex.op, ex.a, ex.b))
      BY <2>0, <2>4, Zenon
    <3> QED
      BY <2>0, <2>2, <2>4, <3>1, <3>2 DEF DivInv
  <2> QED
    BY <2>3, <2>4
<1>5. CASE Div!Consume
  BY <1>5 DEF Div!Consume, Div!work, Div!setup, DivInv, DivTypes
<1>6. CASE UNCHANGED Div!vars
  <2>1. /\ ex' = ex /\ state_q' = state_q /\ iteration_q' = iteration_q
        /\ dividend_q' = dividend_q /\ divisor_q' = divisor_q /\ quotient_q' = quotient_q
        /\ remainder_q' = remainder_q /\ quotient_negative_q' = quotient_negative_q
        /\ remainder_negative_q' = remainder_negative_q
        /\ select_remainder_q' = select_remainder_q
        /\ special_q' = special_q /\ special_result_q' = special_result_q
    BY <1>6 DEF Div!vars, Div!control, Div!work, Div!setup
  <2> QED
    BY <2>1, Zenon
    DEF DivInv, DivTypes, DivLoaded, Divided, DividendSize, DivisorSize, DividendNegative,
        DivisorNegative, Special, Selected
<1> QED
  BY <1>1, <1>2, <1>3, <1>4, <1>5, <1>6
  DEF Div!Next, Div!FinishHeld, Div!FinishConsumed

\* The divider's properties follow.
LEMMA DivCorrect == DivInv => Div!TypeOK /\ Div!ResultCorrect /\ Div!PartialDivisionExact
<1> HAVE DivInv
<1>1. Div!TypeOK
  BY DivTerms DEF DivInv
<1>2. Div!ResultCorrect
  <2>1. Div!final_iteration =>
          /\ ex # NoInsn
          /\ Div!o_result = Selected(special_q, special_result_q, select_remainder_q,
                                     Sign(NextRemainder, remainder_negative_q),
                                     Sign(NextQuotient, quotient_negative_q))
    BY DivTerms DEF DivInv, Div!final_iteration, Div!o_result, Selected
  <2>2. state_q = "DONE" =>
          /\ ex # NoInsn
          /\ Div!o_result = Selected(special_q, special_result_q, select_remainder_q,
                                     remainder_q, quotient_q)
    BY DivTerms DEF DivInv, Div!final_iteration, Div!o_result, Selected
  <2>3. state_q = "DONE" =>
          Selected(special_q, special_result_q, select_remainder_q, remainder_q, quotient_q)
            = u32(MValue(ex.op, ex.a, ex.b))
    BY DEF DivInv
  <2> QED
    BY <2>1, <2>2, <2>3, DivFinal, SameDivideWords, Zenon DEF Div!ResultCorrect, Div!o_done
<1>3. Div!PartialDivisionExact
  BY DivTerms, Zenon DEF DivInv, DivLoaded, Divided, Div!PartialDivisionExact
<1> QED
  BY <1>1, <1>2, <1>3

-----------------------------------------------------------------------------
\* One unit runs; the other's registers are frozen, and nothing is said of them.
MduInv == /\ unit \in {"multiplier", "divider"}
          /\ IF unit = "multiplier" THEN MulInv ELSE DivInv

\* The invariant of whichever unit the behaviour runs.
LEMMA MduInductive == Spec => []MduInv
<1>1. MulInit \/ DivInit => MduInv
  BY MulInitEstablishes, DivInitEstablishes DEF MulInit, DivInit, MduInv
<1>2. MduInv /\ [Next]_vars => MduInv'
  <2> HAVE MduInv /\ [Next]_vars
  <2>1. CASE MulNext
    BY <2>1, MulStepPreserves DEF MulNext, MduInv
  <2>2. CASE DivNext
    BY <2>2, DivStepPreserves DEF DivNext, MduInv
  <2>3. CASE UNCHANGED vars
    <3>1. unit' = unit /\ UNCHANGED Mul!vars /\ UNCHANGED Div!vars
      BY <2>3
      DEF vars, multiplier, divider, Mul!vars, Mul!control, Mul!datapath, Div!vars, Div!control,
          Div!work, Div!setup
    <3> QED
      BY <3>1, MulStepPreserves, DivStepPreserves DEF MduInv
  <2> QED
    BY <2>1, <2>2, <2>3 DEF Next
<1> QED
  BY <1>1, <1>2, PTL DEF Spec

\* The registers of both units keep their types: the counters never pass N - 1
\* and the product register never overflows 2N bits.
THEOREM MduTypeCorrect == Spec => []TypeOK
<1>1. MduInv => TypeOK
  BY MulCorrect, DivCorrect DEF MduInv, TypeOK
<1> QED
  BY <1>1, MduInductive, PTL

\* For every width of the word, every operation and every pair of operands, the
\* result a unit offers when it says done is the reference model's.
THEOREM ResultCorrectHolds == Spec => []ResultCorrect
<1>1. MduInv => ResultCorrect
  BY MulCorrect, DivCorrect DEF MduInv, ResultCorrect
<1> QED
  BY <1>1, MduInductive, PTL

\* After every iteration, what is consumed of the operands and what is
\* accumulated agree exactly, in both units.
THEOREM PartialResultExactHolds == Spec => []PartialResultExact
<1>1. MduInv => PartialResultExact
  BY MulCorrect, DivCorrect DEF MduInv, PartialResultExact
<1> QED
  BY <1>1, MduInductive, PTL
=============================================================================
