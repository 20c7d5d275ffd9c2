---------------------------- MODULE NumberTheorems -----------------------------
(***************************************************************************)
(* Arithmetic modulo a number, primes and powers: what the proofs about    *)
(* the key exchanges and about the DVNIZK proof rest on.                   *)
(***************************************************************************)
EXTENDS Numbers, FiniteSetTheorems, WellFoundedInduction, TLAPS

-----------------------------------------------------------------------------
\* Arithmetic modulo q.

LEMMA ModRange ==
    ASSUME NEW q \in Nat \ {0}, NEW a \in Int
    PROVE  a % q \in 0..(q - 1)
  OBVIOUS

LEMMA ModQuotient ==
    ASSUME NEW q \in Nat \ {0}, NEW a \in Int
    PROVE  \E k \in Int, r \in 0..(q - 1) : r = a % q /\ a = q * k + r
  <1>1. /\ a \div q \in Int
        /\ a % q \in 0..(q - 1)
        /\ a = q * (a \div q) + (a % q)
    OBVIOUS
  <1> QED BY <1>1

LEMMA ModZero ==
    ASSUME NEW q \in Nat \ {0}, NEW a \in Int, a % q = 0
    PROVE  \E k \in Int : a = q * k
  <1>1. PICK k \in Int, r \in 0..(q - 1) : r = a % q /\ a = q * k + r
    BY ModQuotient
  <1>2. q * k \in Int /\ a = q * k
    BY <1>1
  <1> QED BY <1>2

\* The remainder is the only one.
LEMMA ModUnique ==
    ASSUME NEW q \in Nat \ {0}, NEW k \in Int, NEW r \in 0..(q - 1)
    PROVE  (q * k + r) % q = r
  OBVIOUS

LEMMA ModTwice ==
    ASSUME NEW q \in Nat \ {0}, NEW a \in Int
    PROVE  (a % q) % q = a % q
  <1>1. \A r \in 0..(q - 1) : r % q = r
    OBVIOUS
  <1> QED BY <1>1, ModRange

\* Multiples of q do not matter.
LEMMA ModShift ==
    ASSUME NEW q \in Nat \ {0}, NEW k \in Int, NEW a \in Int
    PROVE  (a + q * k) % q = a % q
  <1>1. PICK m \in Int, r \in 0..(q - 1) : r = a % q /\ a = q * m + r
    BY ModQuotient
  <1>2. a + q * k = q * (m + k) + r
    <2>1. a = q * m + r
      BY <1>1
    <2>2. q * (m + k) = q * m + q * k
      OBVIOUS
    <2> QED BY <2>1, <2>2
  <1>3. (q * (m + k) + r) % q = r
    BY ModUnique
  <1> QED BY <1>1, <1>2, <1>3

LEMMA ModPlus ==
    ASSUME NEW q \in Nat \ {0}, NEW a \in Int, NEW b \in Int
    PROVE  (a + (b % q)) % q = (a + b) % q
  <1>1. PICK k \in Int, r \in 0..(q - 1) : r = b % q /\ b = q * k + r
    BY ModQuotient
  <1>2. a + b = (a + r) + q * k
    <2>1. b = q * k + r
      BY <1>1
    <2> QED BY <2>1
  <1>3. ((a + r) + q * k) % q = (a + r) % q
    <2>1. a + r \in Int
      OBVIOUS
    <2> QED BY <2>1, ModShift
  <1> QED BY <1>1, <1>2, <1>3

LEMMA ModMinus ==
    ASSUME NEW q \in Nat \ {0}, NEW a \in Int, NEW b \in Int
    PROVE  (a - (b % q)) % q = (a - b) % q
  <1>1. PICK k \in Int, r \in 0..(q - 1) : r = b % q /\ b = q * k + r
    BY ModQuotient
  <1>2. a - b = (a - r) + q * (-k)
    <2>1. b = q * k + r
      BY <1>1
    <2>2. q * (-k) = -(q * k)
      OBVIOUS
    <2> QED BY <2>1, <2>2
  <1>3. ((a - r) + q * (-k)) % q = (a - r) % q
    <2>1. a - r \in Int /\ -k \in Int
      OBVIOUS
    <2> QED BY <2>1, ModShift
  <1> QED BY <1>1, <1>2, <1>3

LEMMA ModTimes ==
    ASSUME NEW q \in Nat \ {0}, NEW a \in Int, NEW b \in Int
    PROVE  (a * (b % q)) % q = (a * b) % q
  <1>1. PICK k \in Int, r \in 0..(q - 1) : r = b % q /\ b = q * k + r
    BY ModQuotient
  <1>2. a * b = (a * r) + q * (a * k)
    <2>1. b = q * k + r
      BY <1>1
    <2>2. a * (q * k + r) = a * (q * k) + a * r
      OBVIOUS
    <2>3. a * (q * k) = q * (a * k)
      OBVIOUS
    <2> QED BY <2>1, <2>2, <2>3
  <1>3. ((a * r) + q * (a * k)) % q = (a * r) % q
    <2>1. a * r \in Int /\ a * k \in Int
      OBVIOUS
    <2> QED BY <2>1, ModShift
  <1> QED BY <1>1, <1>2, <1>3

\* Factors may be reduced.
LEMMA ModFactor ==
    ASSUME NEW q \in Nat \ {0}, NEW a \in Int, NEW b \in Int, NEW u \in Int,
           a % q = u % q
    PROVE  (a * b) % q = (u * b) % q /\ (b * a) % q = (b * u) % q
  <1>1. (b * (a % q)) % q = (b * a) % q /\ (b * (u % q)) % q = (b * u) % q
    BY ModTimes
  <1>2. a * b = b * a /\ u * b = b * u
    OBVIOUS
  <1> QED BY <1>1, <1>2

LEMMA ModTimesBoth ==
    ASSUME NEW q \in Nat \ {0}, NEW a \in Int, NEW b \in Int
    PROVE  ((a % q) * (b % q)) % q = (a * b) % q
  <1> DEFINE r == a % q
             s == b % q
  <1>1. r \in Int /\ s \in Int
    OBVIOUS
  <1>2. r % q = a % q
    BY ModTwice
  <1>3. (r * s) % q = (r * b) % q
    BY <1>1, ModTimes
  <1> HIDE DEF r, s
  <1>4. (r * b) % q = (a * b) % q
    BY <1>1, <1>2, ModFactor
  <1> QED BY <1>3, <1>4 DEF r, s

\* The remainder of one, the power with exponent zero.
LEMMA ModOne ==
    ASSUME NEW q \in Nat \ {0}
    PROVE  /\ 1 % q \in 0..(q - 1) /\ 1 % q \in Int /\ (1 % q) % q = 1 % q
           /\ ((1 % q) * (1 % q)) % q = 1 % q
           /\ \A x \in Int : (x * (1 % q)) % q = x % q
  <1> DEFINE e == 1
  <1>1. e \in Int /\ \A x \in Int : x * e = x
    OBVIOUS
  <1> HIDE DEF e
  <1>2. e % q \in 0..(q - 1) /\ e % q \in Int
    BY <1>1
  <1>3. (e % q) % q = e % q
    BY <1>1, ModTwice
  <1>4. \A x \in Int : (x * (e % q)) % q = x % q
    BY <1>1, ModTimes
  <1> QED BY <1>2, <1>3, <1>4 DEF e

LEMMA ModSubtract ==
    ASSUME NEW q \in Nat \ {0},
           NEW a \in Int, NEW b \in Int, NEW u \in Int, NEW v \in Int,
           a % q = u % q, b % q = v % q
    PROVE  (a - b) % q = (u - v) % q
  <1>1. (a - b) % q = (a - v) % q
    <2>1. (a - (b % q)) % q = (a - b) % q
      BY ModMinus
    <2>2. (a - (v % q)) % q = (a - v) % q
      BY ModMinus
    <2> QED BY <2>1, <2>2
  <1>2. ((-v) + a) % q = ((-v) + u) % q
    <2> DEFINE w == -v
    <2>1. w \in Int
      OBVIOUS
    <2> HIDE DEF w
    <2>2. (w + (a % q)) % q = (w + a) % q
      BY <2>1, ModPlus
    <2>3. (w + (u % q)) % q = (w + u) % q
      BY <2>1, ModPlus
    <2>4. (w + a) % q = (w + u) % q
      BY <2>2, <2>3
    <2> QED BY <2>4 DEF w
  <1>3. (-v) + a = a - v /\ (-v) + u = u - v
    OBVIOUS
  <1> QED BY <1>1, <1>2, <1>3

LEMMA ModDifference ==
    ASSUME NEW q \in Nat \ {0}, NEW a \in Int, NEW b \in Int,
           a % q = b % q
    PROVE  (a - b) % q = 0
  <1>1. (a - (b % q)) % q = (a - b) % q /\ (a - (a % q)) % q = (a - a) % q
    BY ModMinus
  <1>2. a - a = 0 /\ 0 % q = 0
    OBVIOUS
  <1> QED BY <1>1, <1>2

-----------------------------------------------------------------------------
\* Induction, and primes.

\* A set of naturals has a least element: the intervals that end in it are
\* finite sets, and these have a minimal one.
LEMMA Least ==
    ASSUME NEW K \in SUBSET Nat, K # {}
    PROVE  \E m \in K : \A k \in K : m <= k
  <1> DEFINE T == {1..k : k \in K}
  <1>1. T \subseteq FiniteSubsetsOf(Nat) /\ T # {}
    <2>1. \A k \in K : 1..k \subseteq Nat /\ IsFiniteSet(1..k)
      BY FS_Interval
    <2> QED BY <2>1 DEF FiniteSubsetsOf
  <1>2. PICK x \in T : \A y \in T : <<y, x>> \notin StrictSubsetOrdering(Nat)
    <2> HIDE DEF T
    <2> QED BY <1>1, FS_StrictSubsetOrderingWellFounded, WFMin
  <1>3. PICK m \in K : x = 1..m
    OBVIOUS
  <1>4. ASSUME NEW k \in K, k < m
        PROVE  FALSE
    <2>1. 1..k \subseteq 1..m /\ m \in 1..m /\ m \notin 1..k
      BY <1>4
    <2>2. 1..k \in SUBSET Nat /\ 1..m \in SUBSET Nat /\ 1..k # 1..m
      BY <2>1
    <2>3. <<1..k, 1..m>> \in (SUBSET Nat) \X (SUBSET Nat)
      BY <2>2
    <2>4. <<1..k, 1..m>> \in StrictSubsetOrdering(Nat)
      BY <2>1, <2>2, <2>3 DEF StrictSubsetOrdering
    <2> QED BY <1>2, <1>3, <2>4
  <1> QED BY <1>4

\* Induction, for a set in the place of a predicate.
LEMMA SetInduction ==
    ASSUME NEW S, 0 \in S, \A k \in Nat : k \in S => k + 1 \in S
    PROVE  \A k \in Nat : k \in S
  <1> DEFINE K == Nat \ S
  <1>1. ASSUME K # {}
        PROVE  FALSE
    <2>1. PICK m \in K : \A k \in K : m <= k
      BY <1>1, Least
    <2>2. m \in Nat /\ m # 0 /\ m - 1 \in Nat /\ m - 1 < m
      OBVIOUS
    <2>3. m - 1 \in S
      BY <2>1, <2>2
    <2>4. (m - 1) + 1 = m
      BY <2>2
    <2>5. m \in S
      BY <2>2, <2>3, <2>4
    <2> QED BY <2>5
  <1> QED BY <1>1

\* A prime that divides a product divides one of its factors: the least
\* positive number that brings b to a multiple of q divides q.
LEMMA NoZeroDivisor ==
    ASSUME NEW q, Prime(q), NEW a \in Int, NEW b \in Int, (a * b) % q = 0
    PROVE  a % q = 0 \/ b % q = 0
  <1> DEFINE K == {k \in 1..(q - 1) : (k * b) % q = 0}
  <1>0. q \in Nat \ {0}
    BY DEF Prime
  <1> SUFFICES ASSUME a % q # 0
               PROVE  b % q = 0
    OBVIOUS
  <1>1. a % q \in K
    <2>1. a % q \in 1..(q - 1)
      BY <1>0, ModRange
    <2>2. (b * (a % q)) % q = (b * a) % q
      BY <1>0, ModTimes
    <2>3. b * (a % q) = (a % q) * b /\ b * a = a * b
      BY <2>1
    <2> QED BY <2>1, <2>2, <2>3
  <1>2. PICK m \in K : \A k \in K : m <= k
    <2>1. K \subseteq Nat
      OBVIOUS
    <2> QED BY <1>1, <2>1, Least
  <1>3. m \in 1..(q - 1) /\ (m * b) % q = 0 /\ m \in Nat \ {0}
    OBVIOUS
  <1>4. PICK d \in Int, r \in 0..(m - 1) : r = q % m /\ q = m * d + r
    BY <1>0, <1>3, ModQuotient
  <1>5. r = 0
    <2>0. /\ r <= m - 1 /\ m \in Int
          /\ r \in K => m <= r
      BY <1>2, <1>3
    <2> SUFFICES ASSUME r # 0
                 PROVE  r \in K
      BY <2>0
    <2>1. r \in 1..(q - 1) /\ r \in Int
      BY <1>0, <1>3
    <2>2. PICK e \in Int, z \in 0..(q - 1) :
             z = (m * b) % q /\ m * b = q * e + z
      <3>1. m * b \in Int
        BY <1>3
      <3> QED BY <1>0, <3>1, ModQuotient
    <2>3. m * b = q * e
      BY <1>0, <1>3, <2>2
    <2>4. r * b = 0 + q * (b - d * e)
      <3>1. r = q - m * d
        BY <1>0, <1>3, <1>4, <2>1
      <3>2. (q - m * d) * b = q * b - (m * d) * b
        BY <1>0, <1>3
      <3>3. (m * d) * b = d * (m * b)
        BY <1>3
      <3>4. d * (q * e) = q * (d * e)
        BY <1>0
      <3>5. q * (b - d * e) = q * b - q * (d * e)
        BY <1>0
      <3>6. r * b = q * b - q * (d * e)
        BY <2>3, <3>1, <3>2, <3>3, <3>4
      <3>7. q * b - q * (d * e) \in Int
        BY <1>0
      <3> QED BY <3>5, <3>6, <3>7
    <2>5. (0 + q * (b - d * e)) % q = 0 % q
      <3> DEFINE k == b - d * e
      <3>1. k \in Int
        OBVIOUS
      <3> HIDE DEF k
      <3>2. \A x \in Int : (x + q * k) % q = x % q
        BY <1>0, <3>1, ModShift
      <3>3. (0 + q * k) % q = 0 % q
        BY <3>2
      <3> QED BY <3>3 DEF k
    <2>6. 0 % q = 0
      BY <1>0
    <2> QED BY <2>1, <2>4, <2>5, <2>6
  <1>6. m = 1
    BY <1>3, <1>4, <1>5 DEF Prime
  <1> QED BY <1>3, <1>6
-----------------------------------------------------------------------------
\* Powers.  The recursive function of powMod exists and is the only one.

IsPowers(g, b, k, q) ==
    g = [i \in 0..k |-> IF i = 0 THEN 1 % q ELSE (g[i - 1] * b) % q]

LEMMA PowersExist ==
    ASSUME NEW b, NEW q
    PROVE  \A k \in Nat : \E g : IsPowers(g, b, k, q)
  <1> DEFINE S == {k \in Nat : \E g : IsPowers(g, b, k, q)}
  <1>1. 0 \in S
    <2> DEFINE g == [i \in 0..0 |-> 1 % q]
    <2>1. IsPowers(g, b, 0, q)
      <3>1. \A i \in 0..0 : i = 0
        OBVIOUS
      <3> QED BY <3>1 DEF IsPowers
    <2> QED BY <2>1
  <1>2. ASSUME NEW k \in Nat, k \in S
        PROVE  k + 1 \in S
    <2>1. PICK g : IsPowers(g, b, k, q)
      BY <1>2
    <2> DEFINE h == [i \in 0..(k + 1) |->
                        IF i = k + 1 THEN (g[k] * b) % q ELSE g[i]]
               next == [i \in 0..(k + 1) |->
                        IF i = 0 THEN 1 % q ELSE (h[i - 1] * b) % q]
    <2>2. \A i \in 0..k : g[i] = IF i = 0 THEN 1 % q ELSE (g[i - 1] * b) % q
      BY <2>1 DEF IsPowers
    <2>3. \A i \in 0..(k + 1) : h[i] = next[i]
      <3>1. \A i \in 0..(k + 1) :
              /\ i # 0 => /\ i - 1 \in 0..k /\ i - 1 \in 0..(k + 1)
                          /\ i - 1 # k + 1
              /\ i # k + 1 => i \in 0..k
        OBVIOUS
      <3> QED BY <2>2, <3>1
    <2>4. h = next
      BY <2>3
    <2>5. IsPowers(h, b, k + 1, q)
      BY <2>4 DEF IsPowers
    <2>6. \E z : IsPowers(z, b, k + 1, q)
      BY <2>5
    <2> QED BY <2>6
  <1> HIDE DEF S
  <1>3. \A k \in Nat : k \in S
    BY <1>1, <1>2, SetInduction
  <1> QED BY <1>3 DEF S

LEMMA PowersSame ==
    ASSUME NEW b, NEW q, NEW k \in Nat, NEW l \in Nat,
           NEW g, IsPowers(g, b, k, q), NEW h, IsPowers(h, b, l, q)
    PROVE  \A i \in Nat : i <= k /\ i <= l => g[i] = h[i]
  <1> DEFINE S == {i \in Nat : i <= k /\ i <= l => g[i] = h[i]}
  <1>1. /\ \A i \in 0..k : g[i] = IF i = 0 THEN 1 % q ELSE (g[i - 1] * b) % q
        /\ \A i \in 0..l : h[i] = IF i = 0 THEN 1 % q ELSE (h[i - 1] * b) % q
    BY DEF IsPowers
  <1>2. 0 \in S
    BY <1>1
  <1>3. ASSUME NEW i \in Nat, i \in S
        PROVE  i + 1 \in S
    <2> SUFFICES ASSUME i + 1 <= k, i + 1 <= l
                 PROVE  g[i + 1] = h[i + 1]
      OBVIOUS
    <2>1. /\ i + 1 \in 0..k /\ i + 1 \in 0..l /\ i + 1 # 0
          /\ (i + 1) - 1 = i /\ g[i] = h[i]
      BY <1>3
    <2> QED BY <1>1, <2>1
  <1> HIDE DEF S
  <1>4. \A i \in Nat : i \in S
    BY <1>2, <1>3, SetInduction
  <1> QED BY <1>4 DEF S

\* Hence the equations that the definition of powMod suggests.
LEMMA PowMod ==
    ASSUME NEW b, NEW q, NEW k \in Nat
    PROVE  /\ powMod(b, 0, q) = 1 % q
           /\ powMod(b, k + 1, q) = (powMod(b, k, q) * b) % q
  <1> DEFINE F(j) == CHOOSE g : IsPowers(g, b, j, q)
  <1>1. \A j \in Nat : IsPowers(F(j), b, j, q)
    BY PowersExist
  <1>2. \A j \in Nat : powMod(b, j, q) = F(j)[j]
    BY DEF powMod, IsPowers
  <1> HIDE DEF F
  <1>3. F(0)[0] = 1 % q
    BY <1>1 DEF IsPowers
  <1>4. F(k + 1)[k + 1] = (F(k + 1)[k] * b) % q
    <2>1. k + 1 \in 0..(k + 1) /\ k + 1 # 0 /\ (k + 1) - 1 = k
      OBVIOUS
    <2>2. \A i \in 0..(k + 1) : F(k + 1)[i] =
             IF i = 0 THEN 1 % q ELSE (F(k + 1)[i - 1] * b) % q
      BY <1>1 DEF IsPowers
    <2> QED BY <2>1, <2>2
  <1>5. F(k + 1)[k] = F(k)[k]
    <2>1. k + 1 \in Nat /\ k <= k /\ k <= k + 1
      OBVIOUS
    <2>2. IsPowers(F(k), b, k, q) /\ IsPowers(F(k + 1), b, k + 1, q)
      BY <1>1, <2>1
    <2> QED BY <2>1, <2>2, PowersSame
  <1> QED BY <1>2, <1>3, <1>4, <1>5
LEMMA PowRange ==
    ASSUME NEW q \in Nat \ {0}, NEW b \in Int, NEW k \in Nat
    PROVE  /\ powMod(b, k, q) \in 0..(q - 1)
           /\ powMod(b, k, q) \in Int
           /\ powMod(b, k, q) % q = powMod(b, k, q)
  <1> DEFINE S == {j \in Nat : powMod(b, j, q) \in 0..(q - 1)}
  <1>1. 0 \in S
    BY PowMod, ModOne
  <1>2. ASSUME NEW j \in Nat, j \in S
        PROVE  j + 1 \in S
    <2> DEFINE x == powMod(b, j, q) * b
    <2>1. x \in Int
      BY <1>2
    <2>2. powMod(b, j + 1, q) = x % q
      BY PowMod
    <2> HIDE DEF x
    <2>3. x % q \in 0..(q - 1)
      BY <2>1
    <2> QED BY <2>2, <2>3
  <1> HIDE DEF S
  <1>3. \A j \in Nat : j \in S
    BY <1>1, <1>2, SetInduction
  <1>4. powMod(b, k, q) \in 0..(q - 1)
    BY <1>3 DEF S
  <1>5. \A r \in 0..(q - 1) : r \in Int /\ r % q = r
    OBVIOUS
  <1> QED BY <1>4, <1>5

\* Powers of bases that are equal modulo q.
LEMMA PowSameBase ==
    ASSUME NEW q \in Nat \ {0}, NEW a \in Int, NEW b \in Int, a % q = b % q,
           NEW k \in Nat
    PROVE  powMod(a, k, q) = powMod(b, k, q)
  <1> DEFINE S == {j \in Nat : powMod(a, j, q) = powMod(b, j, q)}
  <1>1. 0 \in S
    BY PowMod
  <1>2. ASSUME NEW j \in Nat, j \in S
        PROVE  j + 1 \in S
    <2> DEFINE x == powMod(b, j, q)
    <2>1. x \in Int
      BY PowRange
    <2> HIDE DEF x
    <2>2. (x * a) % q = (x * b) % q
      BY <2>1, ModFactor
    <2>3. powMod(a, j + 1, q) = (x * a) % q
      BY <1>2, PowMod DEF x
    <2>4. powMod(b, j + 1, q) = (x * b) % q
      BY PowMod DEF x
    <2> QED BY <2>2, <2>3, <2>4
  <1> HIDE DEF S
  <1>3. \A j \in Nat : j \in S
    BY <1>1, <1>2, SetInduction
  <1> QED BY <1>3 DEF S

LEMMA PowSum ==
    ASSUME NEW q \in Nat \ {0}, NEW b \in Int, NEW j \in Nat, NEW k \in Nat
    PROVE  powMod(b, j + k, q) = (powMod(b, j, q) * powMod(b, k, q)) % q
  <1> DEFINE x == powMod(b, j, q)
             S == {i \in Nat : powMod(b, j + i, q) =
                                  (x * powMod(b, i, q)) % q}
  <1>0. x \in Int /\ x % q = x
    BY PowRange
  <1>1. 0 \in S
    <2>1. powMod(b, 0, q) = 1 % q /\ j + 0 = j
      BY PowMod
    <2> HIDE DEF x
    <2>2. (x * (1 % q)) % q = x % q
      BY <1>0, ModOne
    <2>3. x = powMod(b, j, q)
      BY DEF x
    <2> QED BY <1>0, <2>1, <2>2, <2>3
  <1>2. ASSUME NEW i \in Nat, i \in S
        PROVE  i + 1 \in S
    <2> DEFINE y == powMod(b, i, q)
               z == powMod(b, j + i, q)
    <2>0. j + i \in Nat
      OBVIOUS
    <2>1. /\ y \in Int /\ z \in Int /\ z % q = z
          /\ z = (x * y) % q
      BY <1>2, <2>0, PowRange
    <2>2. /\ powMod(b, i + 1, q) = (y * b) % q
          /\ powMod(b, (j + i) + 1, q) = (z * b) % q
          /\ j + (i + 1) = (j + i) + 1
      BY <2>0, PowMod
    <2> HIDE DEF x, y, z
    <2>3. (z * b) % q = ((x * y) * b) % q
      <3>1. x * y \in Int /\ z % q = (x * y) % q
        BY <1>0, <2>1
      <3> QED BY <2>1, <3>1, ModFactor
    <2>4. (x * ((y * b) % q)) % q = (x * (y * b)) % q
      <3>1. y * b \in Int
        BY <2>1
      <3> QED BY <1>0, <3>1, ModTimes
    <2>5. x * (y * b) = (x * y) * b
      BY <1>0, <2>1
    <2>6. powMod(b, j + (i + 1), q) = (x * powMod(b, i + 1, q)) % q
      BY <2>2, <2>3, <2>4, <2>5
    <2> QED BY <2>6
  <1> HIDE DEF S
  <1>3. \A i \in Nat : i \in S
    BY <1>1, <1>2, SetInduction
  <1> QED BY <1>3 DEF S

LEMMA PowTimes ==
    ASSUME NEW q \in Nat \ {0}, NEW b \in Int, NEW j \in Nat, NEW k \in Nat
    PROVE  powMod(b, j * k, q) = powMod(powMod(b, j, q), k, q)
  <1> DEFINE x == powMod(b, j, q)
             S == {i \in Nat : powMod(b, j * i, q) = powMod(x, i, q)}
  <1>0. x \in Int
    BY PowRange
  <1>1. 0 \in S
    <2>1. j * 0 = 0
      OBVIOUS
    <2> QED BY <2>1, PowMod
  <1>2. ASSUME NEW i \in Nat, i \in S
        PROVE  i + 1 \in S
    <2>1. j * i \in Nat /\ j * (i + 1) = j * i + j
      OBVIOUS
    <2>2. powMod(b, j * i + j, q) = (powMod(b, j * i, q) * x) % q
      BY <2>1, PowSum
    <2>3. powMod(x, i + 1, q) = (powMod(x, i, q) * x) % q
      BY PowMod
    <2>4. powMod(b, j * i, q) = powMod(x, i, q)
      BY <1>2
    <2> HIDE DEF x
    <2>5. powMod(b, j * (i + 1), q) = powMod(x, i + 1, q)
      BY <2>1, <2>2, <2>3, <2>4
    <2> QED BY <2>5
  <1> HIDE DEF S
  <1>3. \A i \in Nat : i \in S
    BY <1>1, <1>2, SetInduction
  <1> QED BY <1>3 DEF S

LEMMA PowProduct ==
    ASSUME NEW q \in Nat \ {0}, NEW a \in Int, NEW b \in Int, NEW k \in Nat
    PROVE  powMod(a * b, k, q) = (powMod(a, k, q) * powMod(b, k, q)) % q
  <1> DEFINE S == {i \in Nat : powMod(a * b, i, q) =
                                  (powMod(a, i, q) * powMod(b, i, q)) % q}
  <1>1. 0 \in S
    <2>1. \A c : powMod(c, 0, q) = 1 % q
      BY PowMod
    <2> QED BY <2>1, ModOne
  <1>2. ASSUME NEW i \in Nat, i \in S
        PROVE  i + 1 \in S
    <2> DEFINE x == powMod(a, i, q)
               y == powMod(b, i, q)
               z == powMod(a * b, i, q)
               ab == a * b
    <2>1. /\ x \in Int /\ y \in Int /\ z \in Int /\ z % q = z /\ ab \in Int
          /\ z = (x * y) % q
      <3>1. a * b \in Int
        OBVIOUS
      <3> QED BY <1>2, <3>1, PowRange
    <2>2. /\ powMod(a, i + 1, q) = (x * a) % q
          /\ powMod(b, i + 1, q) = (y * b) % q
          /\ powMod(a * b, i + 1, q) = (z * ab) % q
      BY PowMod
    <2>3. \A u, v, w, c \in Int : (u * v) * (w * c) = (u * w) * (v * c)
      OBVIOUS
    <2> HIDE DEF x, y, z
    <2>4. (z * ab) % q = ((x * y) * ab) % q
      <3> DEFINE xy == x * y
      <3>a. xy \in Int /\ ab \in Int
        BY <2>1
      <3>b. z = xy % q /\ z % q = z /\ z \in Int
        BY <2>1
      <3> HIDE DEF ab, xy
      <3>1. xy \in Int /\ z % q = xy % q /\ z \in Int /\ ab \in Int
        BY <3>a, <3>b
      <3>2. (z * ab) % q = (xy * ab) % q
        BY <3>1, ModFactor
      <3> QED BY <3>2 DEF xy
    <2>5. (((x * a) % q) * ((y * b) % q)) % q = ((x * a) * (y * b)) % q
      <3> DEFINE xa == x * a
                 yb == y * b
      <3>1. xa \in Int /\ yb \in Int
        BY <2>1
      <3> HIDE DEF xa, yb
      <3>2. ((xa % q) * (yb % q)) % q = (xa * yb) % q
        BY <3>1, ModTimesBoth
      <3> QED BY <3>2 DEF xa, yb
    <2>6. (x * y) * ab = (x * a) * (y * b)
      BY <2>1, <2>3
    <2>7. powMod(a * b, i + 1, q) =
             (powMod(a, i + 1, q) * powMod(b, i + 1, q)) % q
      BY <2>2, <2>4, <2>5, <2>6
    <2> QED BY <2>7
  <1> HIDE DEF S
  <1>3. \A i \in Nat : i \in S
    BY <1>1, <1>2, SetInduction
  <1> QED BY <1>3 DEF S

\* A power is a multiple of a prime only if its base is.
LEMMA PowNotZero ==
    ASSUME NEW q, Prime(q), NEW b \in Int, b % q # 0, NEW k \in Nat
    PROVE  powMod(b, k, q) # 0
  <1> DEFINE S == {j \in Nat : powMod(b, j, q) # 0}
  <1>0. q \in Nat \ {0} /\ q > 1
    BY DEF Prime
  <1>1. 0 \in S
    <2>1. 1 % q = 1
      BY <1>0
    <2> QED BY <2>1, PowMod
  <1>2. ASSUME NEW j \in Nat, j \in S
        PROVE  j + 1 \in S
    <2> DEFINE x == powMod(b, j, q)
    <2>1. x \in Int /\ x % q = x /\ x # 0
      BY <1>0, <1>2, PowRange
    <2>2. powMod(b, j + 1, q) = (x * b) % q
      BY PowMod
    <2> HIDE DEF x
    <2>3. (x * b) % q # 0
      BY <2>1, NoZeroDivisor
    <2> QED BY <2>2, <2>3
  <1> HIDE DEF S
  <1>3. \A j \in Nat : j \in S
    BY <1>1, <1>2, SetInduction
  <1> QED BY <1>3 DEF S
=============================================================================
