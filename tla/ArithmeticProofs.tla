-------------------------- MODULE ArithmeticProofs --------------------------
(***************************************************************************)
(* What depends on nothing but numbers, for all of them: the fan-in of the *)
(* Kokkos Threads pool and that of the Thread Pool Interface are trees     *)
(* over the pool, and a RangePolicy is divided exactly among the threads.  *)
(* Last, what values joined one after another are, whoever joins them.     *)
(***************************************************************************)
EXTENDS FanTree, TPIFan, WorkRange, Bags,
        FiniteSetTheorems, NaturalsInduction, WellFoundedInduction, TLAPS

(* Every nonempty set of natural numbers has a least one.                  *)
LEMMA LeastNumber ==
  ASSUME NEW S \in SUBSET Nat, S # {}
  PROVE  \E m \in S : \A n \in S : m <= n
<1>1. IsWellFoundedOn(OpToRel(<, Nat), Nat)
  BY NatLessThanWellFounded, Zenon
<1>2. PICK m \in S : \A n \in S : ~(<<n, m>> \in OpToRel(<, Nat))
  BY <1>1, WFMin, Zenon
<1>3. \A n \in S : <<n, m>> \in OpToRel(<, Nat) <=> n < m
  BY DEF OpToRel
<1>4. \A n \in S : ~(n < m)
  BY <1>2, <1>3, Zenon
<1>5. \A n \in S : m <= n
  BY <1>4
<1>. QED
  BY <1>5

(* What holds of 0, and of a number's successor, holds of all.             *)
LEMMA UpTo ==
  ASSUME NEW n \in Nat, NEW S, 0 \in S, \A i \in 0..(n - 1) : i \in S => i + 1 \in S
  PROVE  0..n \subseteq S
<1>1. SUFFICES ASSUME (0..n) \ S # {} PROVE FALSE
  OBVIOUS
<1>2. PICK m \in (0..n) \ S : \A k \in (0..n) \ S : m <= k
  <2>1. (0..n) \ S \in SUBSET Nat
    OBVIOUS
  <2>. QED
    BY <1>1, <2>1, LeastNumber
<1>3. m - 1 \in 0..(n - 1) /\ m - 1 \in 0..n /\ ~(m <= m - 1) /\ (m - 1) + 1 = m
  BY <1>2
<1>. QED
  BY <1>2, <1>3
-----------------------------------------------------------------------------
(* Powers of two                                                           *)

Doubles(f) == f = [k \in Nat |-> IF k = 0 THEN 1 ELSE 2 * f[k - 1]]
DoublesTo(f, n) == f = [k \in 0..n |-> IF k = 0 THEN 1 ELSE 2 * f[k - 1]]

(* Two functions that double agree where both are defined.                 *)
LEMMA DoublesAgree ==
  ASSUME NEW n \in Nat, NEW m \in Nat, NEW g, NEW h, DoublesTo(g, n), DoublesTo(h, m),
         NEW l \in 0..n, l \in 0..m
  PROVE  g[l] = h[l]
<1>. DEFINE Bad == {k \in Nat : k \in 0..n /\ k \in 0..m /\ g[k] # h[k]}
<1>1. SUFFICES ASSUME Bad # {} PROVE FALSE
  OBVIOUS
<1>2. PICK k \in Bad : \A j \in Bad : k <= j
  <2>1. Bad \in SUBSET Nat
    OBVIOUS
  <2>. HIDE DEF Bad
  <2>. QED
    BY <1>1, <2>1, LeastNumber
<1>3. k \in 0..n /\ k \in 0..m /\ k \in Nat /\ g[k] # h[k]
  OBVIOUS
<1>4. k # 0
  BY <1>3 DEF DoublesTo
<1>5. k - 1 \in 0..n /\ k - 1 \in 0..m /\ k - 1 \in Nat
  BY <1>3, <1>4
<1>6. g[k - 1] = h[k - 1]
  BY <1>2, <1>3, <1>5
<1>7. g[k] = 2 * g[k - 1]
  BY <1>3, <1>4 DEF DoublesTo
<1>8. h[k] = 2 * h[k - 1]
  BY <1>3, <1>4 DEF DoublesTo
<1>. QED
  BY <1>3, <1>6, <1>7, <1>8

(* There is a function that doubles up to any number,                      *)
LEMMA DoublesToExists ==
  ASSUME NEW n \in Nat PROVE \E g : DoublesTo(g, n)
<1>. DEFINE Bad == {m \in Nat : ~\E g : DoublesTo(g, m)}
<1>1. SUFFICES ASSUME Bad # {} PROVE FALSE
  OBVIOUS
<1>2. PICK m \in Bad : \A j \in Bad : m <= j
  <2>1. Bad \in SUBSET Nat
    OBVIOUS
  <2>. HIDE DEF Bad
  <2>. QED
    BY <1>1, <2>1, LeastNumber
<1>3. m \in Nat /\ ~\E g : DoublesTo(g, m)
  OBVIOUS
<1>4. m # 0
  <2>1. DoublesTo([k \in 0..0 |-> 1], 0)
    BY DEF DoublesTo
  <2>. QED
    BY <1>3, <2>1
<1>5. m - 1 \in Nat /\ m - 1 \notin Bad
  <2>. HIDE DEF Bad
  <2>. QED
    BY <1>2, <1>3, <1>4
<1>6. PICK g : DoublesTo(g, m - 1)
  BY <1>5
<1>. DEFINE h == [k \in 0..m |-> IF k = m THEN 2 * g[m - 1] ELSE g[k]]
<1>7. ASSUME NEW k \in 0..m PROVE h[k] = IF k = 0 THEN 1 ELSE 2 * h[k - 1]
  <2>1. k \in Nat /\ k <= m
    BY <1>3
  <2>2. CASE k = m
    <3>1. h[k] = 2 * g[m - 1] /\ h[k - 1] = g[m - 1]
      BY <1>3, <1>4, <2>2
    <3>. QED
      BY <1>4, <2>2, <3>1
  <2>3. CASE k # m
    <3>1. k \in 0..(m - 1)
      BY <1>3, <2>1, <2>3
    <3>2. h[k] = g[k]
      BY <2>3
    <3>3. g[k] = IF k = 0 THEN 1 ELSE 2 * g[k - 1]
      BY <1>6, <3>1 DEF DoublesTo
    <3>4. k # 0 => h[k - 1] = g[k - 1]
      BY <1>3, <2>1, <2>3
    <3>. QED
      BY <3>2, <3>3, <3>4
  <2>. QED
    BY <2>2, <2>3
<1>8. DoublesTo(h, m)
  <2>1. h = [k \in 0..m |-> h[k]]
    OBVIOUS
  <2>. HIDE DEF h
  <2>. QED
    BY <1>7, <2>1 DEF DoublesTo
<1>. QED
  BY <1>3, <1>8

(* and so one that doubles for ever.                                       *)
LEMMA DoublesExists == \E f : Doubles(f)
<1>. DEFINE f == [n \in Nat |-> (CHOOSE g : DoublesTo(g, n))[n]]
<1>1. \A n \in Nat : DoublesTo(CHOOSE g : DoublesTo(g, n), n)
  BY DoublesToExists
<1>2. ASSUME NEW n \in Nat PROVE f[n] = IF n = 0 THEN 1 ELSE 2 * f[n - 1]
  <2>. DEFINE g == CHOOSE h : DoublesTo(h, n)
              p == CHOOSE h : DoublesTo(h, n - 1)
  <2>1. DoublesTo(g, n) /\ f[n] = g[n]
    BY <1>1
  <2>2. n # 0 => DoublesTo(p, n - 1) /\ f[n - 1] = p[n - 1]
    <3>1. n # 0 => n - 1 \in Nat
      OBVIOUS
    <3>. QED
      BY <1>1, <3>1
  <2>. HIDE DEF f, g, p
  <2>3. g[n] = IF n = 0 THEN 1 ELSE 2 * g[n - 1]
    BY <2>1 DEF DoublesTo
  <2>4. n # 0 => g[n - 1] = p[n - 1]
    <3>1. n # 0 => n - 1 \in Nat /\ n - 1 \in 0..n /\ n - 1 \in 0..(n - 1)
      OBVIOUS
    <3>. QED
      BY <2>1, <2>2, <3>1, DoublesAgree
  <2>. QED
    BY <2>1, <2>2, <2>3, <2>4
<1>3. f = [n \in Nat |-> f[n]]
  OBVIOUS
<1>. HIDE DEF f
<1>4. Doubles(f)
  BY <1>2, <1>3 DEF Doubles
<1>. QED
  BY <1>4

(* Power is that function.                                                 *)
LEMMA PowerDoubles ==
  /\ Power[0] = 1
  /\ \A k \in Nat : Power[k + 1] = 2 * Power[k]
<1>1. PICK f : Doubles(f)
  BY DoublesExists
<1>2. f = [k \in Nat |-> IF k = 0 THEN 1 ELSE 2 * f[k - 1]]
  BY <1>1 DEF Doubles
<1>3. Power = [k \in Nat |-> IF k = 0 THEN 1 ELSE 2 * Power[k - 1]]
  BY <1>2, Zenon DEF Power
<1>4. Power[0] = 1
  BY <1>3
<1>5. ASSUME NEW k \in Nat PROVE Power[k + 1] = 2 * Power[k]
  <2>1. k + 1 \in Nat /\ k + 1 # 0 /\ (k + 1) - 1 = k
    OBVIOUS
  <2>2. Power[k + 1] = 2 * Power[(k + 1) - 1]
    BY <1>3, <2>1
  <2>. QED
    BY <2>1, <2>2
<1>. QED
  BY <1>4, <1>5

(* Powers of two are above their exponents,                                *)
LEMMA PowerAbove ==
  ASSUME NEW k \in Nat PROVE Power[k] \in Nat /\ Power[k] > k
<1>. DEFINE Bad == {m \in Nat : ~(Power[m] \in Nat /\ Power[m] > m)}
<1>1. SUFFICES ASSUME Bad # {} PROVE FALSE
  OBVIOUS
<1>2. PICK m \in Bad : \A j \in Bad : m <= j
  <2>1. Bad \in SUBSET Nat
    OBVIOUS
  <2>. HIDE DEF Bad
  <2>. QED
    BY <1>1, <2>1, LeastNumber
<1>3. m \in Nat /\ ~(Power[m] \in Nat /\ Power[m] > m)
  OBVIOUS
<1>4. m # 0
  BY <1>3, PowerDoubles
<1>5. m - 1 \in Nat /\ m - 1 \notin Bad
  <2>. HIDE DEF Bad
  <2>. QED
    BY <1>2, <1>3, <1>4
<1>6. Power[m - 1] \in Nat /\ Power[m - 1] > m - 1
  BY <1>5
<1>7. Power[m] = 2 * Power[m - 1]
  <2>1. (m - 1) + 1 = m
    BY <1>3
  <2>. QED
    BY <1>5, <2>1, PowerDoubles
<1>. QED
  BY <1>3, <1>4, <1>6, <1>7

(* and each is an even multiple of every smaller one.                      *)
LEMMA PowerDivides ==
  ASSUME NEW j \in Nat, NEW i \in Nat, j < i
  PROVE  \E r \in Nat : r > 0 /\ Power[i] = (2 * r) * Power[j]
<1>. DEFINE Divides(m) == \E r \in Nat : r > 0 /\ Power[m] = (2 * r) * Power[j]
            Bad == {m \in Nat : j < m /\ ~Divides(m)}
<1>. HIDE DEF Divides
<1>1. SUFFICES ASSUME Bad # {} PROVE FALSE
  BY DEF Divides
<1>2. PICK m \in Bad : \A l \in Bad : m <= l
  <2>1. Bad \in SUBSET Nat
    OBVIOUS
  <2>. HIDE DEF Bad
  <2>. QED
    BY <1>1, <2>1, LeastNumber
<1>3. m \in Nat /\ j < m /\ ~Divides(m)
  OBVIOUS
<1>4. m - 1 \in Nat /\ m - 1 \notin Bad
  <2>. HIDE DEF Bad
  <2>. QED
    BY <1>2, <1>3
<1>5. Power[m] = 2 * Power[m - 1]
  <2>1. (m - 1) + 1 = m
    BY <1>3
  <2>. QED
    BY <1>4, <2>1, PowerDoubles
<1>6. CASE j = m - 1
  <2>1. Power[m] = (2 * 1) * Power[j]
    BY <1>5, <1>6
  <2>. QED
    BY <1>3, <2>1 DEF Divides
<1>7. CASE j # m - 1
  <2>1. Divides(m - 1)
    BY <1>3, <1>4, <1>7
  <2>2. PICK r \in Nat : r > 0 /\ Power[m - 1] = (2 * r) * Power[j]
    BY <2>1 DEF Divides
  <2>3. Power[j] \in Nat
    BY PowerAbove
  <2>. DEFINE p == Power[j]
              q == Power[m]
  <2>4. p \in Nat /\ q = 2 * ((2 * r) * p)
    BY <1>5, <2>2, <2>3
  <2>. HIDE DEF p, q
  <2>5. q = (2 * (2 * r)) * p
    BY <2>4
  <2>6. 2 * r \in Nat /\ 2 * r > 0
    BY <2>2
  <2>7. Power[m] = (2 * (2 * r)) * Power[j]
    BY <2>5 DEF p, q
  <2>. QED
    BY <1>3, <2>6, <2>7 DEF Divides
<1>. QED
  BY <1>6, <1>7

(* Powers of two grow with their exponents.                                *)
LEMMA PowerGrows ==
  ASSUME NEW j \in Nat, NEW i \in Nat, j <= i
  PROVE  Power[j] <= Power[i]
<1>1. CASE j = i
  BY <1>1, PowerAbove
<1>2. CASE j < i
  <2>1. PICK r \in Nat : r > 0 /\ Power[i] = (2 * r) * Power[j]
    BY <1>2, PowerDivides
  <2>. DEFINE p == Power[j]
              q == Power[i]
  <2>2. p \in Nat /\ q = (2 * r) * p
    BY <2>1, PowerAbove
  <2>. HIDE DEF p, q
  <2>3. (2 * r) * p >= 1 * p
    BY <2>1, <2>2
  <2>4. p <= q
    BY <2>2, <2>3
  <2>. QED
    BY <2>4 DEF p, q
<1>. QED
  BY <1>1, <1>2

(* Between two powers of two that follow each other is every number.       *)
LEMMA BetweenPowers ==
  ASSUME NEW k \in Nat, NEW x \in Nat, x > 0, x < Power[k]
  PROVE  \E i \in 0..(k - 1) : Power[i] <= x /\ x < Power[i + 1]
<1>. DEFINE Above == {m \in Nat : x < Power[m]}
<1>1. PICK m \in Above : \A l \in Above : m <= l
  <2>1. Above \in SUBSET Nat /\ k \in Above
    OBVIOUS
  <2>. HIDE DEF Above
  <2>. QED
    BY <2>1, LeastNumber
<1>2. m \in Nat /\ x < Power[m] /\ m <= k
  BY <1>1
<1>3. m # 0
  BY <1>2, PowerDoubles
<1>4. m - 1 \in Nat /\ m - 1 \notin Above
  <2>. HIDE DEF Above
  <2>. QED
    BY <1>1, <1>2, <1>3
<1>5. Power[m - 1] \in Nat /\ Power[m - 1] <= x
  BY <1>4, PowerAbove
<1>6. m - 1 \in 0..(k - 1) /\ (m - 1) + 1 = m
  BY <1>2, <1>4
<1>. QED
  BY <1>2, <1>5, <1>6
-----------------------------------------------------------------------------
(* Multiples of powers of two                                              *)

(* What \div and % compute of a multiple.                                  *)
LEMMA Multiple ==
  ASSUME NEW q \in Nat, NEW p \in Nat \ {0}
  PROVE  (q * p) \div p = q
OBVIOUS

LEMMA EvenNumber ==
  ASSUME NEW q \in Nat
  PROVE  /\ (2 * q) % 2 = 0
         /\ (2 * q + 1) % 2 # 0
         /\ q % 2 = 0 => \E r \in Nat : q = 2 * r
OBVIOUS

(* An odd multiple of a power of two: bit i is set and those below clear.  *)
LEMMA OddMultiple ==
  ASSUME NEW i \in Nat, NEW m \in Nat
  PROVE  /\ (((2 * m + 1) * Power[i]) \div Power[i]) % 2 # 0
         /\ \A j \in 0..(i - 1) : (((2 * m + 1) * Power[i]) \div Power[j]) % 2 = 0
<1>1. Power[i] \in Nat \ {0} /\ 2 * m + 1 \in Nat
  BY PowerAbove
<1>2. ((2 * m + 1) * Power[i]) \div Power[i] = 2 * m + 1
  BY <1>1, Multiple
<1>3. ASSUME NEW j \in 0..(i - 1)
      PROVE  (((2 * m + 1) * Power[i]) \div Power[j]) % 2 = 0
  <2>1. j \in Nat /\ j < i
    OBVIOUS
  <2>2. PICK r \in Nat : r > 0 /\ Power[i] = (2 * r) * Power[j]
    BY <2>1, PowerDivides
  <2>. DEFINE p == Power[j]
              c == 2 * m + 1
              d == c * r
  <2>3. p \in Nat \ {0} /\ c \in Nat /\ d \in Nat
    BY <2>1, PowerAbove
  <2>4. (2 * m + 1) * Power[i] = c * ((2 * r) * p)
    BY <2>2
  <2>. HIDE DEF p, c
  <2>5. c * ((2 * r) * p) = (2 * d) * p
    BY <2>3
  <2>. HIDE DEF d
  <2>6. ((2 * d) * p) \div p = 2 * d
    BY <2>3, Multiple
  <2>7. (2 * d) % 2 = 0
    BY <2>3, EvenNumber
  <2>. QED
    BY <2>4, <2>5, <2>6, <2>7 DEF p
<1>. QED
  BY <1>2, <1>3, EvenNumber

(* Clear low bits: the entry is a multiple of their power of two.          *)
LEMMA ClearBits ==
  ASSUME NEW e \in Nat, NEW k \in Nat,
         \A j \in 0..(k - 1) : (e \div Power[j]) % 2 = 0
  PROVE  \E q \in Nat : e = q * Power[k]
<1>. DEFINE Clear(m) == \E q \in Nat : e = q * Power[m]
            Bad == {m \in Nat : m <= k /\ ~Clear(m)}
<1>. HIDE DEF Clear
<1>1. SUFFICES ASSUME Bad # {} PROVE FALSE
  BY DEF Clear
<1>2. PICK m \in Bad : \A l \in Bad : m <= l
  <2>1. Bad \in SUBSET Nat
    OBVIOUS
  <2>. HIDE DEF Bad
  <2>. QED
    BY <1>1, <2>1, LeastNumber
<1>3. m \in Nat /\ m <= k /\ ~Clear(m)
  OBVIOUS
<1>4. m # 0
  <2>1. e = e * Power[0]
    BY PowerDoubles
  <2>2. Clear(0)
    BY <2>1 DEF Clear
  <2>. QED
    BY <1>3, <2>2
<1>5. m - 1 \in Nat /\ m - 1 \notin Bad /\ m - 1 \in 0..(k - 1)
  <2>. HIDE DEF Bad
  <2>. QED
    BY <1>2, <1>3, <1>4
<1>6. Clear(m - 1)
  BY <1>3, <1>5
<1>7. PICK q \in Nat : e = q * Power[m - 1]
  BY <1>6 DEF Clear
<1>8. Power[m] = 2 * Power[m - 1] /\ Power[m - 1] \in Nat \ {0}
  <2>1. (m - 1) + 1 = m
    BY <1>3
  <2>. QED
    BY <1>5, <2>1, PowerDoubles, PowerAbove
<1>9. e \div Power[m - 1] = q
  BY <1>7, <1>8, Multiple
<1>10. PICK r \in Nat : q = 2 * r
  <2>1. q % 2 = 0
    BY <1>5, <1>9
  <2>. QED
    BY <2>1, EvenNumber
<1>11. e = r * Power[m]
  <2>. DEFINE p == Power[m - 1]
  <2>1. p \in Nat /\ e = (2 * r) * p /\ Power[m] = 2 * p
    BY <1>7, <1>8, <1>10
  <2>. HIDE DEF p
  <2>. QED
    BY <2>1
<1>. QED
  BY <1>3, <1>11 DEF Clear
-----------------------------------------------------------------------------
(* The tree                                                                *)

(* fan_size returns at the first turn that fails.                          *)
LEMMA FanCountIs ==
  ASSUME NEW n \in Nat \ {0}, NEW e \in Entries(n)
  PROVE  /\ FanCount(e, n) \in 0..n
         /\ ~HasFan(e, FanCount(e, n), n)
         /\ \A j \in 0..(FanCount(e, n) - 1) : HasFan(e, j, n)
<1>1. e \in Nat /\ e < n
  BY DEF Entries
<1>. DEFINE First(k) == ~HasFan(e, k, n) /\ \A j \in 0..(k - 1) : HasFan(e, j, n)
            Fails == {k \in Nat : ~HasFan(e, k, n)}
<1>2. PICK k \in Fails : \A l \in Fails : k <= l
  <2>1. ~HasFan(e, n, n)
    BY <1>1, PowerAbove DEF HasFan
  <2>2. Fails \in SUBSET Nat /\ n \in Fails
    BY <2>1
  <2>. HIDE DEF Fails
  <2>. QED
    BY <2>2, LeastNumber
<1>3. k \in 0..n
  <2>1. n \in Fails
    BY <1>1, PowerAbove DEF HasFan
  <2>. QED
    BY <1>2, <2>1
<1>4. First(k)
  <2>1. ~HasFan(e, k, n)
    BY <1>2
  <2>2. ASSUME NEW j \in 0..(k - 1) PROVE HasFan(e, j, n)
    <3>1. j \in Nat /\ ~(k <= j)
      BY <1>3
    <3>. QED
      BY <1>2, <3>1
  <2>. QED
    BY <2>1, <2>2
<1>5. FanCount(e, n) = CHOOSE c \in 0..n : First(c)
  <2>1. n - ((n - (e + 1)) + 1) = e
    BY <1>1
  <2>. QED
    BY <2>1 DEF FanCount, FanSize
<1>. HIDE DEF First
<1>6. FanCount(e, n) \in 0..n /\ First(FanCount(e, n))
  BY <1>3, <1>4, <1>5
<1>. QED
  BY <1>6 DEF First

(* An entry is a multiple of the power of two of its fan size, and an even *)
(* one of those below.                                                     *)
LEMMA EntryIsMultiple ==
  ASSUME NEW n \in Nat \ {0}, NEW e \in Entries(n)
  PROVE  /\ \E q \in Nat : e = q * Power[FanCount(e, n)]
         /\ \A i \in 0..(FanCount(e, n) - 1) : \E m \in Nat : e = (2 * m) * Power[i]
<1>1. e \in Nat /\ e < n
  BY DEF Entries
<1>2. PICK k \in Nat : k = FanCount(e, n)
  BY FanCountIs
<1>3. \A j \in 0..(k - 1) : (e \div Power[j]) % 2 = 0
  BY <1>2, FanCountIs DEF HasFan
<1>4. ASSUME NEW i \in 0..(k - 1) PROVE \E m \in Nat : e = (2 * m) * Power[i]
  <2>1. i \in Nat /\ i + 1 \in Nat /\ \A j \in 0..((i + 1) - 1) : j \in 0..(k - 1)
    BY <1>2
  <2>2. PICK m \in Nat : e = m * Power[i + 1]
    BY <1>1, <1>3, <2>1, ClearBits
  <2>. DEFINE p == Power[i]
  <2>3. p \in Nat /\ e = m * (2 * p)
    BY <2>1, <2>2, PowerDoubles, PowerAbove
  <2>. HIDE DEF p
  <2>4. e = (2 * m) * p
    BY <2>3
  <2>. QED
    BY <2>4 DEF p
<1>. QED
  BY <1>1, <1>2, <1>3, <1>4, ClearBits

(* The subtree of an odd multiple of a power of two.                       *)
LEMMA SubtreeOfOdd ==
  ASSUME NEW n \in Nat \ {0}, NEW c \in Entries(n), NEW i \in Nat, NEW m \in Nat,
         c = (2 * m + 1) * Power[i]
  PROVE  Subtree(c, n) = {d \in Entries(n) : c <= d /\ d < c + Power[i]}
<1>1. c \in Nat /\ c < n /\ \A d \in Entries(n) : d \in Nat /\ d < n
  BY DEF Entries
<1>2. PICK k \in Nat : k = FanCount(c, n)
  BY FanCountIs
<1>3. ~HasFan(c, k, n) /\ \A j \in 0..(k - 1) : HasFan(c, j, n)
  BY <1>2, FanCountIs
<1>4. k <= i
  <2>1. SUFFICES ASSUME i < k PROVE FALSE
    BY <1>2
  <2>2. HasFan(c, i, n)
    BY <1>3, <2>1
  <2>. QED
    BY <2>2, OddMultiple DEF HasFan
<1>5. CASE k = i
  BY <1>2, <1>5 DEF Subtree
<1>6. CASE k # i
  <2>1. k \in 0..(i - 1)
    BY <1>4, <1>6
  <2>2. c + Power[k] >= n
    <3>1. (c \div Power[k]) % 2 = 0
      BY <2>1, OddMultiple
    <3>. QED
      BY <1>1, <1>3, <3>1, PowerAbove DEF HasFan
  <2>3. Power[k] \in Nat /\ Power[i] \in Nat /\ Power[k] <= Power[i]
    BY <1>4, PowerGrows, PowerAbove
  <2>4. \A d \in Entries(n) : d < c + Power[k] /\ d < c + Power[i]
    BY <1>1, <2>2, <2>3
  <2>. QED
    BY <1>2, <2>4 DEF Subtree
<1>. QED
  BY <1>5, <1>6

(* A child, and the part of its parent's subtree that is its own.          *)
LEMMA ChildIs ==
  ASSUME NEW n \in Nat \ {0}, NEW e \in Entries(n), NEW i \in 0..(FanCount(e, n) - 1)
  PROVE  /\ FanChild(e, i) \in Entries(n) /\ e < FanChild(e, i)
         /\ Subtree(FanChild(e, i), n) =
              {d \in Entries(n) : e + Power[i] <= d /\ d < e + Power[i + 1]}
<1>1. e \in Nat /\ e < n
  BY DEF Entries
<1>2. i \in Nat /\ HasFan(e, i, n)
  BY FanCountIs
<1>3. Power[i] \in Nat \ {0} /\ Power[i + 1] = 2 * Power[i]
  BY <1>2, PowerDoubles, PowerAbove
<1>4. FanChild(e, i) \in Entries(n) /\ e < FanChild(e, i)
  <2>1. e + Power[i] < n
    BY <1>2 DEF HasFan
  <2>. QED
    BY <1>1, <1>3, <2>1 DEF FanChild, Entries
<1>5. PICK m \in Nat : e = (2 * m) * Power[i]
  BY EntryIsMultiple
<1>6. FanChild(e, i) = (2 * m + 1) * Power[i]
  <2>. DEFINE p == Power[i]
  <2>1. p \in Nat /\ e + p = (2 * m) * p + p
    BY <1>3, <1>5
  <2>. HIDE DEF p
  <2>2. (2 * m) * p + p = (2 * m + 1) * p
    BY <2>1
  <2>. QED
    BY <2>1, <2>2 DEF p, FanChild
<1>7. Subtree(FanChild(e, i), n) =
        {d \in Entries(n) : FanChild(e, i) <= d /\ d < FanChild(e, i) + Power[i]}
  BY <1>2, <1>4, <1>6, SubtreeOfOdd
<1>8. FanChild(e, i) = e + Power[i] /\ FanChild(e, i) + Power[i] = e + Power[i + 1]
  BY <1>1, <1>3 DEF FanChild
<1>. QED
  BY <1>4, <1>7, <1>8

(* A fan-in waits, through the children, for the whole subtree.            *)
LEMMA SubtreeIs ==
  ASSUME NEW n \in Nat \ {0}, NEW e \in Entries(n)
  PROVE  Subtree(e, n) =
           {e} \cup UNION {Subtree(FanChild(e, i), n) : i \in 0..(FanCount(e, n) - 1)}
<1>1. e \in Nat /\ e < n /\ \A d \in Entries(n) : d \in Nat
  BY DEF Entries
<1>2. PICK k \in Nat : k = FanCount(e, n)
  BY FanCountIs
<1>3. Power[k] \in Nat \ {0}
  BY <1>2, PowerAbove
<1>4. ASSUME NEW d \in Subtree(e, n), d # e
      PROVE  \E i \in 0..(k - 1) : d \in Subtree(FanChild(e, i), n)
  <2>1. d \in Entries(n) /\ e <= d /\ d < e + Power[k]
    BY <1>2, <1>4 DEF Subtree
  <2>2. d - e \in Nat /\ d - e > 0 /\ d - e < Power[k]
    BY <1>1, <1>3, <1>4, <2>1
  <2>3. PICK i \in 0..(k - 1) : Power[i] <= d - e /\ d - e < Power[i + 1]
    BY <1>2, <2>2, BetweenPowers
  <2>4. Power[i] \in Nat /\ Power[i + 1] \in Nat
    BY <2>3, PowerAbove
  <2>5. e + Power[i] <= d /\ d < e + Power[i + 1]
    BY <1>1, <2>1, <2>3, <2>4
  <2>. QED
    BY <1>2, <2>1, <2>5, ChildIs
<1>5. ASSUME NEW i \in 0..(k - 1), NEW d \in Subtree(FanChild(e, i), n)
      PROVE  d \in Subtree(e, n)
  <2>1. d \in Entries(n) /\ e + Power[i] <= d /\ d < e + Power[i + 1]
    BY <1>2, <1>5, ChildIs
  <2>2. /\ Power[i] \in Nat /\ Power[i + 1] \in Nat /\ Power[i + 1] <= Power[k]
    <3>1. i \in Nat /\ i + 1 \in Nat /\ i + 1 <= k
      BY <1>2
    <3>. QED
      BY <1>2, <3>1, PowerAbove, PowerGrows
  <2>3. e <= d /\ d < e + Power[k]
    BY <1>1, <1>3, <2>1, <2>2
  <2>. QED
    BY <1>2, <2>1, <2>3 DEF Subtree
<1>6. e \in Subtree(e, n)
  BY <1>1, <1>2, <1>3 DEF Subtree
<1>. QED
  BY <1>2, <1>4, <1>5, <1>6

(* The fan-in of a pool (fan_size and the child indices of fan_in and      *)
(* barrier) is a tree over its threads, whatever their number: children    *)
(* are later entries of the pool, waiting for them waits for the whole     *)
(* subtree, no thread is a child twice, and the root waits for the pool.   *)
THEOREM FanInIsATree ==
  ASSUME NEW n \in Nat \ {0} PROVE IsFanTree(n)
<1>1. \A e \in Entries(n) : FanCount(e, n) \in 0..n
  BY FanCountIs
<1>2. ChildrenAreLater(n)
  BY ChildIs DEF ChildrenAreLater
<1>3. SubtreesNest(n)
  BY SubtreeIs DEF SubtreesNest
<1>4. SubtreesDisjoint(n)
  <2>1. ASSUME NEW e \in Entries(n), NEW i \in 0..(FanCount(e, n) - 1),
               NEW j \in 0..(FanCount(e, n) - 1), i < j
        PROVE  Subtree(FanChild(e, i), n) \cap Subtree(FanChild(e, j), n) = {}
    <3>1. e \in Nat /\ \A d \in Entries(n) : d \in Nat
      BY DEF Entries
    <3>2. i \in Nat /\ i + 1 \in Nat /\ j \in Nat /\ i + 1 <= j
      BY <2>1, FanCountIs
    <3>3. Power[i + 1] \in Nat /\ Power[j] \in Nat /\ Power[i + 1] <= Power[j]
      BY <3>2, PowerAbove, PowerGrows
    <3>4. Subtree(FanChild(e, i), n) =
            {d \in Entries(n) : e + Power[i] <= d /\ d < e + Power[i + 1]}
      BY ChildIs
    <3>5. Subtree(FanChild(e, j), n) =
            {d \in Entries(n) : e + Power[j] <= d /\ d < e + Power[j + 1]}
      BY ChildIs
    <3>6. ASSUME NEW d \in Subtree(FanChild(e, i), n), d \in Subtree(FanChild(e, j), n)
          PROVE  FALSE
      <4>1. d \in Nat /\ d < e + Power[i + 1]
        BY <3>1, <3>4
      <4>2. e + Power[j] <= d
        BY <3>5, <3>6
      <4>. QED
        BY <3>1, <3>3, <4>1, <4>2
    <3>. QED
      BY <3>6
  <2>2. ASSUME NEW e \in Entries(n), NEW i \in 0..(FanCount(e, n) - 1),
               NEW j \in 0..(FanCount(e, n) - 1), i # j
        PROVE  Subtree(FanChild(e, i), n) \cap Subtree(FanChild(e, j), n) = {}
    <3>1. i < j \/ j < i
      BY <2>2, FanCountIs
    <3>. QED
      BY <2>1, <3>1
  <2>. QED
    BY <2>2 DEF SubtreesDisjoint
<1>5. RootSpansPool(n)
  <2>1. 0 \in Entries(n) /\ \A d \in Entries(n) : d \in Nat /\ d < n
    BY DEF Entries
  <2>2. PICK k \in Nat : k = FanCount(0, n)
    BY <2>1, FanCountIs
  <2>3. Power[k] \in Nat \ {0}
    BY PowerAbove
  <2>4. (0 \div Power[k]) % 2 = 0
    BY <2>3
  <2>5. Power[k] >= n
    BY <2>1, <2>2, <2>3, <2>4, FanCountIs DEF HasFan
  <2>6. \A d \in Entries(n) : 0 <= d /\ d < 0 + Power[k]
    BY <2>1, <2>3, <2>5
  <2>. QED
    BY <2>2, <2>6 DEF RootSpansPool, Subtree
<1>. QED
  BY <1>1, <1>2, <1>3, <1>4, <1>5 DEF IsFanTree

(* The last of some entries                                                *)
LEMMA FanLastEntry ==
  ASSUME NEW n \in Nat, NEW S \in SUBSET Entries(n), S # {}
  PROVE  \E m \in S : \A x \in S : x <= m
<1>. DEFINE T == {n - x : x \in S}
<1>1. \A x \in S : x \in Int /\ 0 <= x /\ x < n
  BY DEF Entries
<1>2. T \in SUBSET Nat /\ T # {}
  BY <1>1
<1>3. PICK t \in T : \A u \in T : t <= u
  BY <1>2, LeastNumber
<1>4. PICK m \in S : t = n - m
  BY <1>3
<1>5. ASSUME NEW x \in S PROVE x <= m
  <2>1. n - m <= n - x
    BY <1>3, <1>4
  <2>. QED
    BY <1>1, <2>1
<1>. QED
  BY <1>5

(* What is proved of the fan-in tree, for one pool                         *)
LEMMA FanTreeFacts ==
  ASSUME NEW n \in Nat \ {0}
  PROVE  /\ Subtree(0, n) = Entries(n)
         /\ \A e \in Entries(n) :
              /\ FanCount(e, n) \in 0..n
              /\ e \in Subtree(e, n)
              /\ \A i \in 0..(FanCount(e, n) - 1) :
                   /\ FanChild(e, i) \in Entries(n) /\ e < FanChild(e, i)
                   /\ FanChild(e, i) \in Subtree(FanChild(e, i), n)
                   /\ Subtree(FanChild(e, i), n) \subseteq Subtree(e, n)
                   /\ \A j \in 0..(FanCount(e, n) - 1) : i # j =>
                        Subtree(FanChild(e, i), n) \cap Subtree(FanChild(e, j), n) = {}
              /\ \A d \in Subtree(e, n) : d \in Entries(n) /\ e <= d /\
                   (d = e \/ \E i \in 0..(FanCount(e, n) - 1) : d \in Subtree(FanChild(e, i), n))
<1>1. IsFanTree(n)
  BY FanInIsATree
<1>2. \A e \in Entries(n) :
        Subtree(e, n) = {e} \cup UNION {Subtree(FanChild(e, i), n) :
                                          i \in 0..(FanCount(e, n) - 1)}
  BY <1>1 DEF IsFanTree, SubtreesNest
<1>3. \A e \in Entries(n) : e \in Subtree(e, n)
  BY <1>2
<1>4. \A e \in Entries(n) : \A i \in 0..(FanCount(e, n) - 1) :
        FanChild(e, i) \in Entries(n) /\ e < FanChild(e, i)
  BY <1>1 DEF IsFanTree, ChildrenAreLater
<1>5. \A e \in Entries(n) : FanCount(e, n) \in 0..n
  BY <1>1 DEF IsFanTree
<1>6. \A e \in Entries(n) : \A d \in Subtree(e, n) : d \in Entries(n) /\ e <= d
  BY DEF Subtree
<1>7. Subtree(0, n) = Entries(n)
  BY <1>1 DEF IsFanTree, RootSpansPool
<1>8. \A e \in Entries(n) : \A i, j \in 0..(FanCount(e, n) - 1) :
        i # j => Subtree(FanChild(e, i), n) \cap Subtree(FanChild(e, j), n) = {}
  BY <1>1 DEF IsFanTree, SubtreesDisjoint
<1>9. \A e \in Entries(n) : \A i \in 0..(FanCount(e, n) - 1) :
        Subtree(FanChild(e, i), n) \subseteq Subtree(e, n)
  BY <1>2
<1>. QED
  BY <1>2, <1>3, <1>4, <1>5, <1>6, <1>7, <1>8, <1>9

(* What is below an entry is below whoever that is below.                  *)
LEMMA SubtreesBelow ==
  ASSUME NEW n \in Nat \ {0}, NEW y \in Entries(n), NEW x \in Subtree(y, n)
  PROVE  Subtree(x, n) \subseteq Subtree(y, n)
<1>. DEFINE Bad == {e \in Entries(n) : \E d \in Subtree(e, n) :
                      ~(Subtree(d, n) \subseteq Subtree(e, n))}
<1>1. SUFFICES ASSUME Bad # {} PROVE FALSE
  OBVIOUS
<1>2. PICK e \in Bad : \A f \in Bad : f <= e
  <2>1. Bad \in SUBSET Entries(n) /\ n \in Nat
    OBVIOUS
  <2>. HIDE DEF Bad
  <2>. QED
    BY <1>1, <2>1, FanLastEntry
<1>3. PICK d \in Subtree(e, n) : ~(Subtree(d, n) \subseteq Subtree(e, n))
  OBVIOUS
<1>4. d # e /\ e \in Entries(n)
  BY <1>3
<1>5. PICK i \in 0..(FanCount(e, n) - 1) : d \in Subtree(FanChild(e, i), n)
  BY <1>4, FanTreeFacts
<1>6. FanChild(e, i) \notin Bad /\ FanChild(e, i) \in Entries(n)
  <2>1. FanChild(e, i) \in Entries(n) /\ e < FanChild(e, i)
    BY <1>4, FanTreeFacts
  <2>2. e \in Int /\ FanChild(e, i) \in Int
    BY <1>4, <2>1 DEF Entries
  <2>. QED
    BY <1>2, <2>1, <2>2
<1>7. Subtree(d, n) \subseteq Subtree(FanChild(e, i), n)
  BY <1>5, <1>6
<1>8. Subtree(FanChild(e, i), n) \subseteq Subtree(e, n)
  BY <1>4, FanTreeFacts
<1>. QED
  BY <1>3, <1>7, <1>8

(* No entry is the child of two, nor twice of one.                         *)
LEMMA FanHasOneParent ==
  ASSUME NEW n \in Nat \ {0},
         NEW x \in Entries(n), NEW i \in 0..(FanCount(x, n) - 1),
         NEW e \in Entries(n), NEW j \in 0..(FanCount(e, n) - 1),
         FanChild(x, i) = FanChild(e, j)
  PROVE  x = e /\ i = j
<1>. DEFINE d == FanChild(x, i)
            S == {y \in Entries(n) : x \in Subtree(y, n) /\ e \in Subtree(y, n)}
<1>1. /\ d \in Subtree(d, n) /\ d \in Subtree(x, n) /\ d \in Subtree(e, n)
      /\ x < d /\ e < d /\ x \in Int /\ e \in Int /\ d \in Int
  <2>1. /\ d \in Subtree(d, n) /\ d \in Entries(n) /\ x < d /\ e < d
        /\ Subtree(d, n) \subseteq Subtree(x, n) /\ Subtree(d, n) \subseteq Subtree(e, n)
    BY FanTreeFacts
  <2>. QED
    BY <2>1 DEF Entries
<1>2. 0 \in S
  <2>1. 0 \in Entries(n)
    BY DEF Entries
  <2>2. Subtree(0, n) = Entries(n)
    BY FanTreeFacts
  <2>. QED
    BY <2>1, <2>2
<1>3. PICK y \in S : \A z \in S : z <= y
  <2>1. S \in SUBSET Entries(n) /\ n \in Nat
    OBVIOUS
  <2>. HIDE DEF S
  <2>. QED
    BY <1>2, <2>1, FanLastEntry
<1>4. y \in Entries(n) /\ y \in Int
  BY DEF Entries
<1>5. ASSUME NEW a \in Entries(n), NEW k \in 0..(FanCount(a, n) - 1), d = FanChild(a, k),
             NEW b \in Entries(n), b \in Subtree(a, n), b # a, b < d, d \in Subtree(b, n)
      PROVE  FALSE
  <2>1. PICK m \in 0..(FanCount(a, n) - 1) : b \in Subtree(FanChild(a, m), n)
    BY <1>5, FanTreeFacts
  <2>2. FanChild(a, m) \in Entries(n)
    BY FanTreeFacts
  <2>3. d \in Subtree(FanChild(a, m), n)
    BY <1>5, <2>1, <2>2, SubtreesBelow
  <2>4. m = k
    BY <1>1, <1>5, <2>3, FanTreeFacts
  <2>5. d <= b /\ b \in Int
    BY <1>5, <2>1, <2>2, <2>4, FanTreeFacts DEF Entries
  <2>. QED
    BY <1>1, <1>5, <2>5
<1>6. x = e
  <2>1. SUFFICES ASSUME x # e PROVE FALSE
    OBVIOUS
  <2>2. y # x /\ y # e
    BY <1>1, <1>5, <2>1
  <2>3. PICK k \in 0..(FanCount(y, n) - 1) : x \in Subtree(FanChild(y, k), n)
    BY <1>4, <2>2, FanTreeFacts
  <2>4. PICK m \in 0..(FanCount(y, n) - 1) : e \in Subtree(FanChild(y, m), n)
    BY <1>4, <2>2, FanTreeFacts
  <2>5. /\ FanChild(y, k) \in Entries(n) /\ FanChild(y, m) \in Entries(n)
        /\ y < FanChild(y, k) /\ FanChild(y, k) \in Int
    BY <1>4, FanTreeFacts DEF Entries
  <2>6. d \in Subtree(FanChild(y, k), n) /\ d \in Subtree(FanChild(y, m), n)
    BY <1>1, <2>3, <2>4, <2>5, SubtreesBelow
  <2>7. k = m
    BY <1>4, <2>6, FanTreeFacts
  <2>8. FanChild(y, k) \in S
    BY <2>3, <2>4, <2>5, <2>7
  <2>. QED
    BY <1>3, <1>4, <2>5, <2>8
<1>7. i = j
  BY <1>1, <1>6, FanTreeFacts
<1>. QED
  BY <1>6, <1>7

(* Every entry but the root is somebody's child.                            *)
LEMMA FanHasParent ==
  ASSUME NEW n \in Nat \ {0}, NEW d \in Entries(n), d # 0
  PROVE  \E e \in Entries(n) : \E i \in 0..(FanCount(e, n) - 1) : d = FanChild(e, i) /\ e < d
<1>. DEFINE S == {e \in Entries(n) : e # d /\ d \in Subtree(e, n)}
<1>1. 0 \in S
  BY FanTreeFacts DEF Entries
<1>2. PICK e \in S : \A f \in S : f <= e
  <2>1. S \in SUBSET Entries(n) /\ n \in Nat
    OBVIOUS
  <2>. HIDE DEF S
  <2>. QED
    BY <1>1, <2>1, FanLastEntry
<1>3. PICK i \in 0..(FanCount(e, n) - 1) : d \in Subtree(FanChild(e, i), n)
  BY FanTreeFacts
<1>4. FanChild(e, i) \in Entries(n) /\ e < FanChild(e, i) /\ e \in Int /\ FanChild(e, i) \in Int
  BY FanTreeFacts DEF Entries
<1>5. FanChild(e, i) \notin S
  BY <1>2, <1>4
<1>. QED
  BY <1>3, <1>4, <1>5
-----------------------------------------------------------------------------
(* The spans of the Thread Pool Interface                                  *)

(* f counts on from thread to thread where the children begin.             *)
CountsOn(f, n, t) == f = [s \in 0..t |-> IF s = 0 THEN 1 ELSE f[s - 1] + SpanSize(n, s - 1)]

(* A thread has a number of children.                                      *)
LEMMA SpanSizeType ==
  ASSUME NEW n, NEW t
  PROVE  SpanSize(n, t) \in Nat
<1>. DEFINE K == {up \in Ups : t < up /\ t + up < n}
<1>1. K \subseteq 1..128
  BY DEF Ups
<1>. HIDE DEF K
<1>2. IsFiniteSet(1..128)
  BY FS_Interval, 1 \in Int, 128 \in Int
<1>3. Cardinality(K) \in Nat
  BY <1>1, <1>2, FS_Subset, FS_CardinalityType
<1>. QED
  BY <1>3 DEF SpanSize, K

(* The counts of SpanBegin, where they are defined                          *)
LEMMA CountsAt ==
  ASSUME NEW n, NEW t \in Nat, NEW f, CountsOn(f, n, t), NEW s \in 0..t
  PROVE  f[s] = IF s = 0 THEN 1 ELSE f[s - 1] + SpanSize(n, s - 1)
<1>. DEFINE F(x) == IF x = 0 THEN 1 ELSE f[x - 1] + SpanSize(n, x - 1)
<1>1. f = [x \in 0..t |-> F(x)]
  BY DEF CountsOn
<1>. HIDE DEF F
<1>2. f[s] = F(s)
  BY <1>1
<1>. QED
  BY <1>2 DEF F

(* There is a function that counts the children.                           *)
LEMMA CountsExist ==
  ASSUME NEW n, NEW t \in Nat
  PROVE  \E f \in [0..t -> Nat] : CountsOn(f, n, t)
<1>. DEFINE S == {k \in Nat : \E f \in [0..k -> Nat] : CountsOn(f, n, k)}
<1>1. 0 \in S
  <2>1. [s \in 0..0 |-> 1] \in [0..0 -> Nat] /\ CountsOn([s \in 0..0 |-> 1], n, 0)
    BY DEF CountsOn
  <2>. QED
    BY <2>1
<1>2. ASSUME NEW k \in Nat, k \in S PROVE k + 1 \in S
  <2>1. PICK f \in [0..k -> Nat] : CountsOn(f, n, k)
    BY <1>2
  <2>2. PICK g : g = [s \in 0..(k + 1) |-> IF s <= k THEN f[s] ELSE f[k] + SpanSize(n, k)]
    OBVIOUS
  <2>3. g \in [0..(k + 1) -> Nat]
    BY <2>1, <2>2, SpanSizeType
  <2>. DEFINE G(s) == IF s = 0 THEN 1 ELSE g[s - 1] + SpanSize(n, s - 1)
  <2>4. ASSUME NEW s \in 0..(k + 1) PROVE g[s] = G(s)
    <3>1. CASE s = 0
      <4>1. 0 \in 0..k /\ 0 <= k /\ 0 \in 0..(k + 1)
        BY <1>2
      <4>2. f[0] = 1
        BY <1>2, <2>1, <4>1, CountsAt
      <4>. QED
        BY <2>2, <3>1, <4>1, <4>2
    <3>2. CASE s # 0 /\ s <= k
      <4>1. s \in 0..k /\ s - 1 \in 0..(k + 1) /\ s - 1 <= k
        BY <3>2
      <4>. QED
        BY <2>1, <2>2, <3>2, <4>1, CountsAt
    <3>3. CASE s = k + 1
      <4>1. s # 0 /\ s - 1 = k /\ k \in 0..(k + 1) /\ k <= k /\ ~(s <= k)
        BY <3>3
      <4>. QED
        BY <2>2, <4>1
    <3>. QED
      BY <3>1, <3>2, <3>3
  <2>5. g = [s \in 0..(k + 1) |-> G(s)]
    <3>. HIDE DEF G
    <3>. QED
      BY <2>3, <2>4
  <2>6. CountsOn(g, n, k + 1)
    BY <2>5 DEF CountsOn
  <2>. QED
    BY <2>3, <2>6
<1>3. 0..t \subseteq S
  <2>. HIDE DEF S
  <2>. QED
    BY <1>1, <1>2, UpTo
<1>. QED
  BY <1>3

(* Two that count the children agree where both are defined.               *)
LEMMA CountsAgree ==
  ASSUME NEW n, NEW t \in Nat, NEW f, NEW g, CountsOn(f, n, t), CountsOn(g, n, t + 1)
  PROVE  f[t] = g[t]
<1>. DEFINE S == {k \in Nat : k <= t => f[k] = g[k]}
<1>1. 0 \in S
  <2>1. f[0] = 1
    BY CountsAt, 0 \in 0..t
  <2>2. g[0] = 1
    BY CountsAt, 0 \in 0..(t + 1), t + 1 \in Nat
  <2>. QED
    BY <2>1, <2>2
<1>2. ASSUME NEW k \in 0..(t - 1), k \in S PROVE k + 1 \in S
  <2>1. k + 1 \in 0..t /\ k + 1 \in 0..(t + 1) /\ k + 1 # 0 /\ (k + 1) - 1 = k
    OBVIOUS
  <2>2. f[k + 1] = f[k] + SpanSize(n, k)
    BY <2>1, CountsAt
  <2>3. g[k + 1] = g[k] + SpanSize(n, k)
    BY <2>1, CountsAt
  <2>. QED
    BY <1>2, <2>1, <2>2, <2>3
<1>3. 0..t \subseteq S
  <2>. HIDE DEF S
  <2>. QED
    BY <1>1, <1>2, UpTo
<1>. QED
  BY <1>3

(* SpanBegin is what it was meant to be.                                    *)
LEMMA SpanBegins ==
  ASSUME NEW n, NEW t \in Nat
  PROVE  /\ SpanBegin(n, t) \in Nat /\ SpanBegin(n, 0) = 1
         /\ SpanBegin(n, t + 1) = SpanBegin(n, t) + SpanSize(n, t)
<1>1. ASSUME NEW k \in Nat PROVE \E f : CountsOn(f, n, k) /\ SpanBegin(n, k) = f[k]
  <2>. DEFINE c == CHOOSE f : CountsOn(f, n, k)
  <2>1. CountsOn(c, n, k)
    BY CountsExist
  <2>2. SpanBegin(n, k) = c[k]
    BY DEF SpanBegin, CountsOn
  <2>. QED
    BY <2>1, <2>2
<1>2. PICK f : CountsOn(f, n, t) /\ SpanBegin(n, t) = f[t]
  BY <1>1
<1>3. PICK g : CountsOn(g, n, t + 1) /\ SpanBegin(n, t + 1) = g[t + 1]
  BY <1>1
<1>4. PICK h : CountsOn(h, n, 0) /\ SpanBegin(n, 0) = h[0]
  BY <1>1
<1>5. SpanBegin(n, t) \in Nat
  <2>1. PICK e \in [0..(t + 1) -> Nat] : CountsOn(e, n, t + 1)
    BY CountsExist, t + 1 \in Nat
  <2>2. f[t] = e[t]
    BY <1>2, <2>1, CountsAgree
  <2>. QED
    BY <1>2, <2>1, <2>2
<1>6. h[0] = 1
  <2>1. 0 \in Nat /\ 0 \in 0..0
    OBVIOUS
  <2>. QED
    BY <1>4, <2>1, CountsAt
<1>7. g[t + 1] = g[t] + SpanSize(n, t)
  <2>1. t + 1 \in 0..(t + 1) /\ t + 1 # 0 /\ (t + 1) - 1 = t
    OBVIOUS
  <2>. QED
    BY <1>3, <2>1, CountsAt
<1>8. f[t] = g[t]
  BY <1>2, <1>3, CountsAgree
<1>. QED
  BY <1>2, <1>3, <1>4, <1>5, <1>6, <1>7, <1>8

(* A later thread has later children.                                      *)
LEMMA SpansGrow ==
  ASSUME NEW n, NEW t \in Nat, NEW u \in Nat, t <= u
  PROVE  SpanBegin(n, t) <= SpanBegin(n, u)
<1>. DEFINE S == {k \in Nat : SpanBegin(n, t) <= SpanBegin(n, t + k)}
<1>1. 0 \in S
  BY SpanBegins
<1>2. ASSUME NEW k \in 0..(u - t - 1), k \in S PROVE k + 1 \in S
  <2>1. t + k \in Nat /\ t + (k + 1) = (t + k) + 1 /\ k + 1 \in Nat
    OBVIOUS
  <2>2. /\ SpanBegin(n, t + k) \in Nat /\ SpanSize(n, t + k) \in Nat /\ SpanBegin(n, t) \in Nat
        /\ SpanBegin(n, t + (k + 1)) = SpanBegin(n, t + k) + SpanSize(n, t + k)
    BY <2>1, SpanBegins, SpanSizeType
  <2>. QED
    BY <1>2, <2>1, <2>2
<1>3. 0..(u - t) \subseteq S
  <2>1. u - t \in Nat
    OBVIOUS
  <2>. HIDE DEF S
  <2>. QED
    BY <1>1, <1>2, <2>1, UpTo
<1>4. u - t \in 0..(u - t) /\ t + (u - t) = u
  OBVIOUS
<1>. QED
  BY <1>3, <1>4

(* Every worker is reached through one thread, of lower rank: the one with *)
(* its highest bit cleared.                                                *)
Reached(n, t) == {m \in 1..(n - 1) : \E up \in Ups : t < up /\ m = t + up}
ReachedFirst(n, s) == UNION {Reached(n, t) : t \in 0..(s - 1)}

LEMMA HighestBit ==
  ASSUME NEW m \in 1..(THREAD_COUNT_MAX - 1)
  PROVE  \E up \in Ups : m - up \in 0..(m - 1) /\ m - up < up /\ m = (m - up) + up
<1>1. m \in Nat /\ m >= 1 /\ m < 256
  BY DEF THREAD_COUNT_MAX
<1>2. \E up \in Ups : up <= m /\ m < 2 * up
  BY <1>1 DEF Ups
<1>. QED
  BY <1>1, <1>2 DEF Ups

LEMMA OneHighestBit ==
  ASSUME NEW t \in Nat, NEW s \in Nat, NEW up \in Ups, NEW down \in Ups,
         t < up, s < down, t + up = s + down
  PROVE  t = s
<1>1. up < 2 * down /\ down < 2 * up /\ up \in Nat /\ down \in Nat
  BY DEF Ups
<1>2. up = down
  BY <1>1 DEF Ups
<1>. QED
  BY <1>1, <1>2

LEMMA ReachedSize ==
  ASSUME NEW n \in Nat, NEW t \in Nat
  PROVE  /\ IsFiniteSet(Reached(n, t))
         /\ Cardinality(Reached(n, t)) = SpanSize(n, t)
<1>. DEFINE K == {up \in Ups : t < up /\ t + up < n}
            T == Reached(n, t)
            f == [up \in K |-> t + up]
<1>1. IsFiniteSet(K)
  <2>1. K \subseteq 1..128
    BY DEF Ups
  <2>2. IsFiniteSet(1..128)
    BY FS_Interval, 1 \in Int, 128 \in Int
  <2>. HIDE DEF K
  <2>. QED
    BY <2>1, <2>2, FS_Subset
<1>2. \A up \in K : up \in Nat /\ up > 0
  BY DEF Ups
<1>3. \A up \in K : f[up] \in T
  BY <1>2 DEF Reached
<1>4. f \in [K -> T]
  <2>. HIDE DEF K, T
  <2>. QED
    BY <1>3
<1>5. \A up, down \in K : f[up] = f[down] => up = down
  BY <1>2
<1>6. \A m \in T : \E up \in K : f[up] = m
  BY DEF Reached
<1>. HIDE DEF f, T
<1>7. f \in Bijection(K, T)
  BY <1>4, <1>5, <1>6 DEF Bijection, Injection, Surjection, IsInjective
<1>8. ExistsBijection(K, T)
  BY <1>7 DEF ExistsBijection
<1>. QED
  BY <1>1, <1>8, FS_Bijection DEF SpanSize, T

LEMMA ReachedFirstSize ==
  ASSUME NEW n \in Nat, NEW s \in Nat
  PROVE  /\ IsFiniteSet(ReachedFirst(n, s))
         /\ SpanBegin(n, s) = 1 + Cardinality(ReachedFirst(n, s))
<1>. DEFINE Counted(k) == /\ IsFiniteSet(ReachedFirst(n, k))
                          /\ SpanBegin(n, k) = 1 + Cardinality(ReachedFirst(n, k))
            S == {k \in Nat : Counted(k)}
<1>1. 0 \in S
  <2>1. ReachedFirst(n, 0) = {}
    BY DEF ReachedFirst
  <2>. QED
    BY <2>1, FS_EmptySet, SpanBegins
<1>2. ASSUME NEW k \in 0..(s - 1), k \in S PROVE k + 1 \in S
  <2>. DEFINE A == ReachedFirst(n, k)
              B == Reached(n, k)
  <2>1. k \in Nat /\ k + 1 \in Nat
    OBVIOUS
  <2>2. ReachedFirst(n, k + 1) = A \cup B
    <3>1. 0..((k + 1) - 1) = (0..(k - 1)) \cup {k}
      BY <2>1
    <3>. QED
      BY <3>1 DEF ReachedFirst
  <2>3. A \cap B = {}
    <3>1. ASSUME NEW m \in A, m \in B PROVE FALSE
      <4>1. PICK t \in 0..(k - 1) : m \in Reached(n, t)
        BY <3>1 DEF ReachedFirst
      <4>2. PICK up \in Ups : t < up /\ m = t + up
        BY <4>1 DEF Reached
      <4>3. PICK down \in Ups : k < down /\ m = k + down
        BY <3>1 DEF Reached
      <4>. QED
        BY <2>1, <4>1, <4>2, <4>3, OneHighestBit
    <3>. QED
      BY <3>1
  <2>4. IsFiniteSet(A) /\ SpanBegin(n, k) = 1 + Cardinality(A)
    BY <1>2
  <2>5. IsFiniteSet(B) /\ Cardinality(B) = SpanSize(n, k)
    BY <2>1, ReachedSize
  <2>. HIDE DEF A, B
  <2>6. /\ IsFiniteSet(A \cup B)
        /\ Cardinality(A \cup B) = Cardinality(A) + Cardinality(B) - Cardinality(A \cap B)
    BY <2>4, <2>5, FS_Union
  <2>7. Cardinality(A \cap B) = 0 /\ Cardinality(A) \in Nat /\ Cardinality(B) \in Nat
    BY <2>3, <2>4, <2>5, FS_EmptySet, FS_CardinalityType
  <2>8. SpanBegin(n, k + 1) = SpanBegin(n, k) + SpanSize(n, k)
    BY <2>1, SpanBegins
  <2>9. SpanBegin(n, k + 1) = 1 + Cardinality(A \cup B)
    BY <2>4, <2>5, <2>6, <2>7, <2>8
  <2>10. Counted(k + 1)
    BY <2>2, <2>6, <2>9
  <2>. HIDE DEF Counted
  <2>. QED
    BY <2>1, <2>10
<1>3. 0..s \subseteq S
  <2>. HIDE DEF S
  <2>. QED
    BY <1>1, <1>2, UpTo
<1>. QED
  BY <1>3, s \in 0..s

(* TPI_Init gives every worker of a pool one parent, which is of lower     *)
(* rank, whatever the number of threads it is asked for.                   *)
THEOREM SpansAreATree ==
  ASSUME NEW n \in 1..THREAD_COUNT_MAX PROVE IsSpanTree(n)
<1>1. n \in Nat /\ n >= 1 /\ n <= 256 /\ n \in Int /\ n - 1 \in Int
  BY DEF THREAD_COUNT_MAX
<1>2. ASSUME NEW t \in 0..n, NEW m \in 1..t, m < n PROVE m \in ReachedFirst(n, t)
  <2>1. m \in 1..(THREAD_COUNT_MAX - 1) /\ m \in 1..(n - 1)
    BY <1>1, <1>2 DEF THREAD_COUNT_MAX
  <2>2. PICK up \in Ups : m - up \in 0..(m - 1) /\ m - up < up /\ m = (m - up) + up
    BY <2>1, HighestBit
  <2>3. m \in Reached(n, m - up)
    BY <2>1, <2>2 DEF Reached
  <2>4. m - up \in 0..(t - 1)
    BY <1>1, <1>2, <2>2
  <2>. QED
    BY <2>3, <2>4 DEF ReachedFirst
<1>3. ReachedFirst(n, n) = 1..(n - 1)
  <2>1. ReachedFirst(n, n) \subseteq 1..(n - 1)
    BY DEF ReachedFirst, Reached
  <2>2. n \in 0..n /\ \A m \in 1..(n - 1) : m \in 1..n /\ m < n
    BY <1>1
  <2>. QED
    BY <1>2, <2>1, <2>2
<1>4. SpanBegin(n, n) = n
  <2>1. Cardinality(1..(n - 1)) = n - 1
    <3>1. 1 \in Int /\ n - 1 \in Int
      BY <1>1
    <3>2. Cardinality(1..(n - 1)) = IF 1 > n - 1 THEN 0 ELSE (n - 1) - 1 + 1
      BY <3>1, FS_Interval
    <3>. QED
      BY <1>1, <3>2
  <2>2. SpanBegin(n, n) = 1 + Cardinality(1..(n - 1))
    BY <1>1, <1>3, ReachedFirstSize
  <2>. QED
    BY <1>1, <2>1, <2>2
<1>5. ASSUME NEW t \in 0..(n - 1) PROVE SpanBegin(n, t) > t
  <2>1. t \in Nat /\ t \in 0..n /\ t \in Int /\ 1 \in Int /\ \A m \in 1..t : m < n
    BY <1>1
  <2>2. 1..t \subseteq ReachedFirst(n, t)
    BY <1>2, <2>1
  <2>3. /\ IsFiniteSet(ReachedFirst(n, t))
        /\ SpanBegin(n, t) = 1 + Cardinality(ReachedFirst(n, t))
    BY <1>1, <2>1, ReachedFirstSize
  <2>4. Cardinality(1..t) = t
    <3>1. Cardinality(1..t) = IF 1 > t THEN 0 ELSE t - 1 + 1
      BY <2>1, FS_Interval
    <3>. QED
      BY <2>1, <3>1
  <2>5. t <= Cardinality(ReachedFirst(n, t)) /\ Cardinality(ReachedFirst(n, t)) \in Nat
    BY <2>2, <2>3, <2>4, FS_Subset, FS_CardinalityType
  <2>. QED
    BY <2>1, <2>3, <2>5
<1>. QED
  BY <1>4, <1>5 DEF IsSpanTree

(* The children of the threads follow each other, from 1 to the last       *)
(* thread, and those of a thread come after it.                            *)
LEMMA SpanShape ==
  ASSUME NEW n \in 1..THREAD_COUNT_MAX
  PROVE  /\ \A t \in Nat : /\ SpanBegin(n, t) \in Nat \ {0} /\ SpanEnd(n, t) \in Nat
                           /\ SpanBegin(n, t) <= SpanEnd(n, t)
         /\ \A t \in 0..(n - 1) :
              /\ SpanEnd(n, t) <= n
              /\ SpanBegin(n, t) < SpanEnd(n, t) => t < SpanBegin(n, t)
         /\ \A c \in 1..(n - 1) :
              \E t \in 0..(c - 1) : SpanBegin(n, t) <= c /\ c < SpanEnd(n, t)
         /\ \A t, u \in Nat : t < u => SpanEnd(n, t) <= SpanBegin(n, u)
<1>0. IsSpanTree(n) /\ n \in Nat \ {0}
  BY SpansAreATree DEF THREAD_COUNT_MAX
<1>1. ASSUME NEW t \in Nat
      PROVE  /\ SpanBegin(n, t) \in Nat \ {0} /\ SpanEnd(n, t) \in Nat
             /\ SpanEnd(n, t) = SpanBegin(n, t) + SpanSize(n, t) /\ SpanSize(n, t) \in Nat
  <2>1. SpanBegin(n, 0) <= SpanBegin(n, t)
    BY SpansGrow, 0 \in Nat
  <2>2. SpanBegin(n, 0) = 1 /\ SpanBegin(n, t) \in Nat
    BY SpanBegins
  <2>3. SpanEnd(n, t) = SpanBegin(n, t) + SpanSize(n, t)
    BY SpanBegins DEF SpanEnd
  <2>. QED
    BY <2>1, <2>2, <2>3, SpanSizeType
<1>2. ASSUME NEW t \in Nat, NEW u \in Nat, t < u PROVE SpanEnd(n, t) <= SpanBegin(n, u)
  BY <1>2, SpansGrow, t + 1 \in Nat, t + 1 <= u DEF SpanEnd
<1>3. ASSUME NEW t \in 0..(n - 1)
      PROVE  /\ SpanEnd(n, t) <= n
             /\ SpanBegin(n, t) < SpanEnd(n, t) => t < SpanBegin(n, t)
  <2>1. SpanEnd(n, t) <= SpanBegin(n, n)
    BY <1>0, <1>2, t \in Nat, n \in Nat, t < n
  <2>2. SpanSize(n, t) > 0 => SpanBegin(n, t) > t
    BY <1>0 DEF IsSpanTree
  <2>3. SpanBegin(n, t) \in Nat /\ SpanEnd(n, t) = SpanBegin(n, t) + SpanSize(n, t) /\ SpanSize(n, t) \in Nat
    BY <1>1
  <2>. QED
    BY <1>0, <2>1, <2>2, <2>3 DEF IsSpanTree
<1>4. ASSUME NEW c \in 1..(n - 1)
      PROVE  \E t \in 0..(c - 1) : SpanBegin(n, t) <= c /\ c < SpanEnd(n, t)
  <2>. DEFINE S == {t \in Nat : c < SpanBegin(n, t)}
  <2>1. n \in S /\ S \in SUBSET Nat
    BY <1>0 DEF IsSpanTree
  <2>2. PICK m \in S : \A k \in S : m <= k
    <3>. HIDE DEF S
    <3>. QED
      BY <2>1, LeastNumber
  <2>3. m \in Nat /\ m # 0 /\ m <= n /\ c < SpanBegin(n, m)
    BY <2>1, <2>2, SpanBegins
  <2>4. m - 1 \in 0..(n - 1) /\ (m - 1) + 1 = m /\ ~(m <= m - 1)
    BY <2>3
  <2>5. m - 1 \notin S
    <3>. HIDE DEF S
    <3>. QED
      BY <2>2, <2>4
  <2>6. SpanBegin(n, m - 1) \in Nat /\ SpanBegin(n, m - 1) <= c /\ c < SpanEnd(n, m - 1)
    BY <1>1, <2>3, <2>4, <2>5 DEF SpanEnd
  <2>7. m - 1 < SpanBegin(n, m - 1)
    BY <1>1, <1>3, <2>4, <2>6
  <2>. QED
    BY <2>4, <2>6, <2>7
<1>. QED
  BY <1>1, <1>2, <1>3, <1>4
-----------------------------------------------------------------------------
(* Ranges and their divisions                                              *)

(* What \div computes.                                                     *)
LEMMA Division ==
  ASSUME NEW n \in Int, NEW d \in Nat \ {0}
  PROVE  /\ n \div d \in Int
         /\ d * (n \div d) <= n /\ n < d * (n \div d) + d
         /\ n >= 0 => n \div d >= 0
         /\ n % d = 0 => n = d * (n \div d)
  OBVIOUS

LEMMA RoundsUp ==
  ASSUME NEW n \in Nat, NEW d \in Nat \ {0}
  PROVE  /\ CeilDiv(n, d) \in Nat
         /\ d * CeilDiv(n, d) >= n
         /\ d * CeilDiv(n, d) < n + d
         /\ n > 0 => CeilDiv(n, d) > 0
<1>1. n + d - 1 \in Nat
  OBVIOUS
<1>2. /\ CeilDiv(n, d) \in Int /\ CeilDiv(n, d) >= 0
      /\ n + d - 1 < d * CeilDiv(n, d) + d
      /\ d * CeilDiv(n, d) <= n + d - 1
  BY <1>1, Division DEF CeilDiv
<1>3. d * CeilDiv(n, d) \in Int
  BY <1>2
<1>4. d * CeilDiv(n, d) >= n
  BY <1>2, <1>3
<1>5. n > 0 => CeilDiv(n, d) # 0
  BY <1>4
<1>6. d * CeilDiv(n, d) < n + d
  BY <1>2, <1>3
<1>. QED
  BY <1>2, <1>4, <1>5, <1>6

(* A product grows with either factor.                                     *)
LEMMA Grows ==
  ASSUME NEW a \in Nat, NEW b \in Nat, NEW c \in Nat, a <= b
  PROVE  a * c <= b * c
  OBVIOUS

(* A part is a block of PartLength indices cut off at the end.             *)
LEMMA Blocks ==
  ASSUME NEW b \in Nat, NEW e \in Nat, NEW l \in Nat, NEW x \in Nat, b <= e
  PROVE  /\ Least(e, b + x)..(Least(e, b + x + l) - 1) \subseteq b..(e - 1)
         /\ \A i \in b..(e - 1) :
              i \in Least(e, b + x)..(Least(e, b + x + l) - 1)
                <=> x <= i - b /\ i - b < x + l
BY DEF Least

(* Blocks of different ranks do not meet.                                  *)
LEMMA MultiplesApart ==
  ASSUME NEW l \in Nat, NEW r \in Nat, NEW s \in Nat, r < s
  PROVE  l * r \in Nat /\ l * s \in Nat /\ l * r + l <= l * s
<1>1. l * (r + 1) <= l * s
  BY r + 1 <= s
<1>2. l * (r + 1) = l * r + l
  OBVIOUS
<1>. QED
  BY <1>1, <1>2

(* A number is its remainder and a multiple                                *)
LEMMA Remainders ==
  ASSUME NEW n \in Nat, NEW d \in Nat \ {0}
  PROVE  n = d * (n \div d) + (n % d)
  OBVIOUS

LEMMA Quotient ==
  ASSUME NEW q \in Nat, NEW d \in Nat \ {0}, NEW r \in 0..(d - 1)
  PROVE  (d * q + r) \div d = q /\ (d * q + r) % d = r
<1>. DEFINE n == d * q + r
<1>1. n \in Nat
  OBVIOUS
<1>2. n % d \in 0..(d - 1) /\ n \div d \in Nat /\ n = d * (n \div d) + (n % d)
  <2>1. n \div d \in Nat
    BY <1>1, Division
  <2>2. n % d \in 0..(d - 1)
    BY <1>1
  <2>. HIDE DEF n
  <2>. QED
    BY <1>1, <2>1, <2>2, Remainders
<1>. DEFINE k == n \div d
            m == n % d
<1>3. k \in Nat /\ m \in 0..(d - 1) /\ d * q + r = d * k + m
  BY <1>2
<1>. HIDE DEF k, m
<1>4. ~(q < k)
  <2>1. SUFFICES ASSUME q < k PROVE FALSE
    OBVIOUS
  <2>2. d * q + d <= d * k
    <3>1. d \in Nat /\ q \in Nat /\ k \in Nat /\ q < k
      BY <1>3, <2>1
    <3>. QED
      BY <3>1, MultiplesApart
  <2>. QED
    BY <1>3, <2>2
<1>5. ~(k < q)
  <2>1. SUFFICES ASSUME k < q PROVE FALSE
    OBVIOUS
  <2>2. d * k + d <= d * q
    <3>1. d \in Nat /\ q \in Nat /\ k \in Nat /\ k < q
      BY <1>3, <2>1
    <3>. QED
      BY <3>1, MultiplesApart
  <2>. QED
    BY <1>3, <2>2
<1>6. k = q /\ m = r
  BY <1>3, <1>4, <1>5
<1>. QED
  BY <1>6 DEF k, m
(* The length of a part is a multiple of the chunk size, and as many parts *)
(* as there are threads are long enough for the range.                     *)
LEMMA Lengths ==
  ASSUME NEW p, NEW parts \in Nat \ {0},
         p.begin \in Nat, p.end \in Nat, p.chunk \in Nat \ {0}, p.begin <= p.end
  PROVE  /\ \E d \in Nat : PartLength(p, parts) = d * p.chunk
         /\ PartLength(p, parts) \in Nat
         /\ PartLength(p, parts) * parts >= p.end - p.begin
         /\ p.end - p.begin > 0 => PartLength(p, parts) > 0
<1>. DEFINE n == p.end - p.begin
            l == PartLength(p, parts)
            c == CeilDiv(n, parts)
            d == CeilDiv(c, p.chunk)
<1>1. n \in Nat
  OBVIOUS
<1>2. c \in Nat /\ parts * c >= n /\ (n > 0 => c > 0)
  BY <1>1, RoundsUp
<1>. HIDE DEF c
<1>3. d \in Nat /\ p.chunk * d >= c /\ (c > 0 => d > 0)
  BY <1>2, RoundsUp
<1>4. l = d * p.chunk
  BY DEF PartLength, c
<1>. HIDE DEF d
<1>5. l \in Nat /\ l >= c
  BY <1>3, <1>4
<1>6. \E k \in Nat : l = k * p.chunk
  BY <1>3, <1>4
<1>. HIDE DEF l
<1>7. c * parts <= l * parts
  BY <1>2, <1>5, Grows
<1>8. c * parts = parts * c /\ c * parts \in Nat /\ l * parts \in Nat
  BY <1>2, <1>5
<1>9. l * parts >= n /\ (n > 0 => l > 0)
  BY <1>1, <1>2, <1>5, <1>7, <1>8
<1>. QED
  BY <1>5, <1>6, <1>9 DEF l

(* The parts of a policy whose begin is not above its end.                 *)
LEMMA PartsOfPolicy ==
  ASSUME NEW p, NEW parts \in Nat \ {0},
         p.begin \in Nat, p.end \in Nat, p.chunk \in Nat \ {0}, p.begin <= p.end
  PROVE  PartsCover(p, parts) /\ PartsAreDisjoint(p, parts)
<1>. DEFINE n == p.end - p.begin
            l == PartLength(p, parts)
<1>1. /\ p.begin \in Nat /\ p.end \in Nat /\ p.chunk \in Nat \ {0}
      /\ p.begin <= p.end
  OBVIOUS
<1>2. n \in Nat
  BY <1>1
<1>3. l \in Nat /\ l * parts >= n /\ (n > 0 => l > 0)
  BY <1>1, Lengths
<1>. HIDE DEF l
<1>4. ASSUME NEW r \in 0..(parts - 1)
      PROVE  Part(p, r, parts) =
               Least(p.end, p.begin + l * r)..(Least(p.end, p.begin + l * r + l) - 1)
  BY DEF Part, PartBegin, PartEnd, l
<1>5. ASSUME NEW r \in 0..(parts - 1)
      PROVE  Part(p, r, parts) \subseteq Indices(p)
  <2>1. l * r \in Nat /\ r \in Nat
    BY <1>3
  <2>2. Part(p, r, parts) \subseteq p.begin..(p.end - 1)
    <3>1. Least(p.end, p.begin + l * r)..(Least(p.end, p.begin + l * r + l) - 1)
            \subseteq p.begin..(p.end - 1)
      BY <1>1, <1>3, <2>1, Blocks
    <3>. QED
      BY <1>4, <3>1
  <2>. QED
    BY <2>2 DEF Indices
<1>6. PartsCover(p, parts)
  <2>1. ASSUME NEW i \in Indices(p)
        PROVE  \E r \in 0..(parts - 1) : i \in Part(p, r, parts)
    <3>. DEFINE r == (i - p.begin) \div l
    <3>1. i \in Nat /\ p.begin <= i /\ i < p.end
      BY <1>1 DEF Indices
    <3>2. n > 0 /\ l \in Nat \ {0}
      BY <1>1, <1>3, <3>1
    <3>3. /\ r \in Int /\ r >= 0
          /\ l * r <= i - p.begin /\ i - p.begin < l * r + l
      <4>1. i - p.begin \in Int /\ i - p.begin >= 0
        BY <1>1, <3>1
      <4>. QED
        BY <3>2, <4>1, Division
    <3>. HIDE DEF r
    <3>4. r < parts
      <4>1. SUFFICES ASSUME parts <= r PROVE FALSE
        BY <3>3
      <4>2. parts * l <= r * l
        BY <3>2, <3>3, <4>1, Grows
      <4>3. parts * l = l * parts /\ r * l = l * r /\ l * r \in Int /\ l * parts \in Int
        BY <3>2, <3>3
      <4>. QED
        BY <1>1, <1>2, <1>3, <3>1, <3>3, <4>2, <4>3
    <3>5. r \in 0..(parts - 1) /\ r \in Nat /\ l * r \in Nat
      BY <3>2, <3>3, <3>4
    <3>6. i \in Part(p, r, parts)
      <4>1. i \in p.begin..(p.end - 1)
        BY <1>1, <3>1
      <4>2. i \in Least(p.end, p.begin + l * r)..(Least(p.end, p.begin + l * r + l) - 1)
        BY <1>1, <1>3, <3>3, <3>5, <4>1, Blocks
      <4>. QED
        BY <1>4, <3>5, <4>2
    <3>. QED
      BY <3>5, <3>6
  <2>. QED
    BY <1>5, <2>1 DEF PartsCover
<1>7. ASSUME NEW r \in 0..(parts - 1), NEW s \in 0..(parts - 1), r < s
      PROVE  Part(p, r, parts) \cap Part(p, s, parts) = {}
  <2>1. l * r \in Nat /\ l * s \in Nat /\ l * r + l <= l * s
    BY <1>3, <1>7, MultiplesApart
  <2>. DEFINE x == l * r
              y == l * s
  <2>. HIDE DEF x, y
  <2>2. /\ x \in Nat /\ y \in Nat /\ x + l <= y
        /\ Part(p, r, parts) = Least(p.end, p.begin + x)..(Least(p.end, p.begin + x + l) - 1)
        /\ Part(p, s, parts) = Least(p.end, p.begin + y)..(Least(p.end, p.begin + y + l) - 1)
    BY <1>4, <2>1 DEF x, y
  <2>3. ASSUME NEW i \in Part(p, r, parts), i \in Part(p, s, parts)
        PROVE  FALSE
    <3>1. i \in p.begin..(p.end - 1)
      BY <1>5, <2>3 DEF Indices
    <3>2. i - p.begin < x + l
      BY <1>1, <1>3, <2>2, <2>3, <3>1, Blocks
    <3>3. y <= i - p.begin
      BY <1>1, <1>3, <2>2, <2>3, <3>1, Blocks
    <3>. QED
      BY <1>1, <1>3, <2>2, <3>1, <3>2, <3>3
  <2>. QED
    BY <2>3
<1>8. PartsAreDisjoint(p, parts)
  <2>1. ASSUME NEW r \in 0..(parts - 1), NEW s \in 0..(parts - 1), r # s
        PROVE  Part(p, r, parts) \cap Part(p, s, parts) = {}
    <3>1. CASE r < s
      BY <1>7, <3>1
    <3>2. CASE s < r
      BY <1>7, <3>2
    <3>. QED
      BY <2>1, <3>1, <3>2
  <2>. QED
    BY <2>1 DEF PartsAreDisjoint
<1>. QED
  BY <1>6, <1>8

(* The static schedule's division (WorkRange): every index of every range, *)
(* whatever its chunk size and the number of threads, is in the part of    *)
(* one thread and no part holds an index outside of the range.             *)
THEOREM StaticPartition ==
  ASSUME NEW begin \in Nat, NEW end \in Nat, NEW chunk \in Nat \ {0},
         NEW parts \in Nat \ {0}
  PROVE  IsPartition(Policy(begin, end, chunk), parts)
<1>. DEFINE p == Policy(begin, end, chunk)
<1>1. /\ p.begin \in Nat /\ p.end \in Nat /\ p.chunk \in Nat \ {0}
      /\ p.begin <= p.end
  BY DEF Policy
<1>. QED
  BY <1>1, PartsOfPolicy DEF IsPartition

-----------------------------------------------------------------------------
(* CeilDiv keeps the order, and undoes a multiplication.                   *)
LEMMA CeilDivGrows ==
  ASSUME NEW a \in Nat, NEW b \in Nat, NEW d \in Nat \ {0}, a <= b
  PROVE  CeilDiv(a, d) <= CeilDiv(b, d)
<1>. DEFINE x == CeilDiv(a, d)
            y == CeilDiv(b, d)
<1>1. x \in Nat /\ y \in Nat /\ d * x < a + d /\ d * y >= b
  BY RoundsUp
<1>. HIDE DEF x, y
<1>2. SUFFICES ASSUME y + 1 <= x PROVE FALSE
  BY <1>1 DEF x, y
<1>3. (y + 1) * d <= x * d
  BY <1>1, <1>2, Grows
<1>4. (y + 1) * d = d * y + d /\ x * d = d * x /\ d * y \in Nat /\ d * x \in Nat
  BY <1>1
<1>. QED
  BY <1>1, <1>3, <1>4

(* An index of the range is among those of chunk c just if c is the        *)
(* quotient of the index and the chunk size, and a chunk has no others.    *)
LEMMA ChunkOfIndex ==
  ASSUME NEW p, p.begin \in Nat, p.end \in Nat, p.chunk \in Nat \ {0},
         NEW i \in Indices(p), NEW c \in Nat
  PROVE  i \in ChunkIndices(p, c) <=> i \div p.chunk = c
<1>. DEFINE q == i \div p.chunk
            d == p.chunk
<1>1. i \in Nat /\ i < p.end
  BY DEF Indices
<1>2. q \in Nat /\ d * q <= i /\ i < d * q + d
  <2>1. i \in Int /\ i >= 0 /\ p.chunk \in Nat \ {0}
    BY <1>1
  <2>2. /\ q \in Int /\ q >= 0
        /\ p.chunk * q <= i /\ i < p.chunk * q + p.chunk
    BY <2>1, Division
  <2>. QED
    BY <2>2
<1>3. d * q \in Nat /\ d * c \in Nat /\ c * d = d * c
  BY <1>2
<1>4. i \in ChunkIndices(p, c) <=> d * c <= i /\ i < d * c + d
  BY <1>1, <1>3 DEF ChunkIndices, Least
<1>. HIDE DEF q
<1>5. ASSUME q < c PROVE d * q + d <= d * c
  BY <1>2, <1>5, MultiplesApart
<1>6. ASSUME c < q PROVE d * c + d <= d * q
  BY <1>2, <1>6, MultiplesApart
<1>. QED
  BY <1>1, <1>2, <1>3, <1>4, <1>5, <1>6 DEF q

(* A part is cut off at the end, and parts follow each other.              *)
LEMMA PartBounds ==
  ASSUME NEW p, NEW parts \in Nat \ {0},
         p.begin \in Nat, p.end \in Nat, p.chunk \in Nat \ {0}, p.begin <= p.end,
         NEW r \in 0..(parts - 1)
  PROVE  /\ PartBegin(p, r, parts) \in Nat /\ PartEnd(p, r, parts) \in Nat
         /\ p.begin <= PartBegin(p, r, parts)
         /\ PartBegin(p, r, parts) <= PartEnd(p, r, parts)
         /\ PartEnd(p, r, parts) <= p.end
         /\ \A s \in 0..(parts - 1) :
              r < s => PartEnd(p, r, parts) <= PartBegin(p, s, parts)
<1>. DEFINE l == PartLength(p, parts)
<1>1. l \in Nat
  BY Lengths
<1>. HIDE DEF l
<1>2. l * r \in Nat
  BY <1>1
<1>3. ASSUME NEW s \in 0..(parts - 1), r < s
      PROVE  Least(p.end, p.begin + l * r + l) <= Least(p.end, p.begin + l * s)
  <2>1. l * s \in Nat /\ l * r + l <= l * s
    BY <1>1, <1>3, MultiplesApart
  <2>. QED
    BY <1>1, <1>2, <2>1 DEF Least
<1>4. /\ Least(p.end, p.begin + l * r) \in Nat /\ Least(p.end, p.begin + l * r + l) \in Nat
      /\ p.begin <= Least(p.end, p.begin + l * r)
      /\ Least(p.end, p.begin + l * r) <= Least(p.end, p.begin + l * r + l)
      /\ Least(p.end, p.begin + l * r + l) <= p.end
  BY <1>1, <1>2 DEF Least
<1>. QED
  BY <1>3, <1>4 DEF PartBegin, PartEnd, l

(* The chunks of a part lie between two numbers, and the chunks of a       *)
(* higher rank above those of a lower one.                                 *)
LEMMA ChunkBounds ==
  ASSUME NEW p, NEW parts \in Nat \ {0},
         p.begin \in Nat, p.end \in Nat, p.chunk \in Nat \ {0}, p.begin <= p.end,
         NEW r \in 0..(parts - 1)
  PROVE  /\ FirstChunk(PartBegin(p, r, parts), p.chunk) \in Nat
         /\ LastChunk(PartBegin(p, r, parts), PartEnd(p, r, parts), p.chunk) =
              CeilDiv(PartEnd(p, r, parts), p.chunk)
         /\ CeilDiv(PartEnd(p, r, parts), p.chunk) \in Nat
         /\ FirstChunk(PartBegin(p, r, parts), p.chunk) <=
              CeilDiv(PartEnd(p, r, parts), p.chunk)
         /\ \A s \in 0..(parts - 1) :
              r < s => CeilDiv(PartEnd(p, r, parts), p.chunk) <=
                         FirstChunk(PartBegin(p, s, parts), p.chunk)
<1>. DEFINE b(s) == PartBegin(p, s, parts)
            e == PartEnd(p, r, parts)
<1>1. \A s \in 0..(parts - 1) : b(s) \in Nat
  BY PartBounds
<1>2. /\ e \in Nat /\ b(r) <= e
      /\ \A s \in 0..(parts - 1) : r < s => e <= b(s)
  BY PartBounds
<1>. HIDE DEF b, e
<1>3. LastChunk(b(r), e, p.chunk) = CeilDiv(e, p.chunk)
  <2>1. CASE e > 0
    BY <2>1 DEF LastChunk
  <2>2. CASE e = 0
    <3>1. b(r) = 0
      BY <1>1, <1>2, <2>2
    <3>. QED
      BY <2>2, <3>1 DEF LastChunk, FirstChunk
  <2>. QED
    BY <1>2, <2>1, <2>2
<1>4. FirstChunk(b(r), p.chunk) \in Nat /\ CeilDiv(e, p.chunk) \in Nat
  BY <1>1, <1>2, RoundsUp DEF FirstChunk
<1>5. FirstChunk(b(r), p.chunk) <= CeilDiv(e, p.chunk)
  BY <1>1, <1>2, CeilDivGrows DEF FirstChunk
<1>6. ASSUME NEW s \in 0..(parts - 1), r < s
      PROVE  CeilDiv(e, p.chunk) <= FirstChunk(b(s), p.chunk)
  BY <1>1, <1>2, <1>6, CeilDivGrows DEF FirstChunk
<1>. QED
  BY <1>3, <1>4, <1>5, <1>6 DEF b, e

(* Every index of a range that begins on a chunk is in a chunk of the part *)
(* it is in: rounding up a part's begin loses none of it.                  *)
LEMMA ChunksReachIndices ==
  ASSUME NEW p, NEW parts \in Nat \ {0},
         p.begin \in Nat, p.end \in Nat, p.chunk \in Nat \ {0}, p.begin <= p.end,
         p.begin % p.chunk = 0,
         NEW r \in 0..(parts - 1), NEW i \in Part(p, r, parts)
  PROVE  /\ i \div p.chunk \in Nat
         /\ FirstChunk(PartBegin(p, r, parts), p.chunk) <= i \div p.chunk
         /\ i \div p.chunk < CeilDiv(PartEnd(p, r, parts), p.chunk)
<1>. DEFINE d == p.chunk
            q == i \div p.chunk
            b == PartBegin(p, r, parts)
            e == PartEnd(p, r, parts)
<1>1. /\ b \in Nat /\ e \in Nat /\ e <= p.end
  BY PartBounds
<1>2. i \in Nat /\ b <= i /\ i < e
  BY <1>1 DEF Part
<1>3. q \in Nat /\ d * q <= i /\ i < d * q + d
  <2>1. i \in Int /\ i >= 0 /\ p.chunk \in Nat \ {0}
    BY <1>2
  <2>2. /\ q \in Int /\ q >= 0
        /\ p.chunk * q <= i /\ i < p.chunk * q + p.chunk
    BY <2>1, Division
  <2>. QED
    BY <2>2
<1>4. PICK m \in Nat : b = d * m
  <2>1. PICK k \in Nat : PartLength(p, parts) = k * p.chunk
    BY Lengths
  <2>2. b = p.begin + PartLength(p, parts) * r
    <3>1. PartLength(p, parts) * r \in Nat
      BY <2>1
    <3>. QED
      BY <1>1, <1>2, <3>1 DEF PartBegin, Least
  <2>3. PICK j \in Nat : p.begin = d * j
    <3>1. /\ p.begin \div p.chunk \in Int /\ p.begin \div p.chunk >= 0
          /\ p.begin = p.chunk * (p.begin \div p.chunk)
      BY Division
    <3>. QED
      BY <3>1
  <2>4. k * r \in Nat /\ k * d * r = d * (k * r)
    BY <2>1
  <2>5. d * (j + k * r) = d * j + d * (k * r)
    BY <2>3, <2>4
  <2>. QED
    BY <2>1, <2>2, <2>3, <2>4, <2>5
<1>5. CeilDiv(b, d) \in Nat /\ d * CeilDiv(b, d) < b + d
  BY <1>1, RoundsUp
<1>6. d * CeilDiv(e, d) >= e /\ CeilDiv(e, d) \in Nat
  BY <1>1, RoundsUp
<1>. HIDE DEF q, d, b, e
<1>7. m <= q
  <2>1. SUFFICES ASSUME q < m PROVE FALSE
    BY <1>3, <1>4
  <2>2. d \in Nat /\ d * q \in Nat /\ d * m \in Nat /\ d * q + d <= d * m
    BY <1>3, <1>4, <2>1, MultiplesApart DEF d
  <2>. QED
    BY <1>2, <1>3, <1>4, <2>2
<1>8. CeilDiv(b, d) <= m
  <2>. DEFINE v == CeilDiv(b, d)
  <2>1. SUFFICES ASSUME m < v PROVE FALSE
    BY <1>4, <1>5
  <2>. HIDE DEF v
  <2>2. v \in Nat /\ d * v < b + d
    BY <1>5 DEF v
  <2>3. d \in Nat /\ d * v \in Nat /\ d * m \in Nat /\ d * m + d <= d * v
    BY <1>4, <2>1, <2>2, MultiplesApart DEF d
  <2>. QED
    BY <1>1, <1>4, <2>2, <2>3
<1>9. q < CeilDiv(e, d)
  <2>. DEFINE u == CeilDiv(e, d)
  <2>1. SUFFICES ASSUME u <= q PROVE FALSE
    BY <1>3, <1>6
  <2>. HIDE DEF u
  <2>2. u \in Nat /\ d \in Nat /\ d * u >= e
    BY <1>6 DEF u, d
  <2>3. u * d <= q * d
    BY <1>3, <2>1, <2>2, Grows
  <2>4. u * d = d * u /\ q * d = d * q /\ d * u \in Nat /\ d * q \in Nat
    BY <1>3, <2>2
  <2>. QED
    BY <1>1, <1>2, <1>3, <2>2, <2>3, <2>4
<1>. QED
  BY <1>3, <1>4, <1>5, <1>7, <1>8, <1>9 DEF FirstChunk, q, d, b, e

(* The dynamic schedule's division (set_work_range, exec_schedule): of     *)
(* every range that begins on a chunk, every index is in one chunk of one  *)
(* thread, and no chunk holds an index outside of the range.               *)
THEOREM DynamicDivision ==
  ASSUME NEW begin \in Nat, NEW end \in Nat, NEW chunk \in Nat \ {0},
         NEW parts \in Nat \ {0}
  PROVE  IsChunked(Policy(begin, end, chunk), parts)
<1>. DEFINE p == Policy(begin, end, chunk)
<1>1. /\ p.begin \in Nat /\ p.end \in Nat /\ p.chunk \in Nat \ {0}
      /\ p.begin <= p.end
  BY DEF Policy
<1>2. PartsCover(p, parts)
  BY StaticPartition DEF IsPartition
<1>. HIDE DEF p
<1>3. ASSUME NEW r \in 0..(parts - 1)
      PROVE  Chunks(p, r, parts) =
               FirstChunk(PartBegin(p, r, parts), p.chunk)..
                 (CeilDiv(PartEnd(p, r, parts), p.chunk) - 1)
  BY <1>1, ChunkBounds DEF Chunks
<1>4. SUFFICES ASSUME p.begin % p.chunk = 0
               PROVE  ChunksCover(p, parts) /\ ChunksAreDisjoint(p, parts)
  BY DEF IsChunked, p
<1>5. ASSUME NEW i \in Indices(p)
      PROVE  \E r \in 0..(parts - 1), c \in Int :
               c \in Chunks(p, r, parts) /\ i \in ChunkIndices(p, c)
  <2>1. PICK r \in 0..(parts - 1) : i \in Part(p, r, parts)
    BY <1>2 DEF PartsCover
  <2>. DEFINE q == i \div p.chunk
  <2>2. /\ q \in Nat /\ FirstChunk(PartBegin(p, r, parts), p.chunk) <= q
        /\ q < CeilDiv(PartEnd(p, r, parts), p.chunk)
    BY <1>1, <1>4, <2>1, ChunksReachIndices
  <2>3. i \in ChunkIndices(p, q)
    BY <1>1, <2>2, ChunkOfIndex
  <2>4. q \in Chunks(p, r, parts)
    BY <1>1, <1>3, <2>2, ChunkBounds
  <2>. QED
    BY <2>2, <2>3, <2>4
<1>6. ASSUME NEW r \in 0..(parts - 1), NEW c \in Chunks(p, r, parts)
      PROVE  ChunkIndices(p, c) \subseteq Indices(p)
  <2>. DEFINE b == PartBegin(p, r, parts)
  <2>1. b \in Nat /\ p.begin <= b
    BY <1>1, PartBounds
  <2>2. /\ FirstChunk(b, p.chunk) \in Nat /\ p.chunk * FirstChunk(b, p.chunk) >= b
    BY <1>1, <2>1, RoundsUp DEF FirstChunk
  <2>3. c \in Nat /\ FirstChunk(b, p.chunk) <= c
    <3>1. CeilDiv(PartEnd(p, r, parts), p.chunk) \in Nat
      BY <1>1, ChunkBounds
    <3>. QED
      BY <1>3, <2>2, <3>1
  <2>. HIDE DEF b
  <2>4. c * p.chunk >= b /\ c * p.chunk \in Nat
    <3>. DEFINE f == FirstChunk(b, p.chunk)
    <3>. HIDE DEF f
    <3>1. f \in Nat /\ f <= c /\ p.chunk * f >= b
      BY <2>2, <2>3 DEF f
    <3>2. f * p.chunk <= c * p.chunk
      BY <1>1, <2>3, <3>1, Grows
    <3>3. f * p.chunk = p.chunk * f /\ p.chunk * f \in Nat /\ c * p.chunk \in Nat
      BY <1>1, <2>3, <3>1
    <3>. QED
      BY <2>1, <3>1, <3>2, <3>3
  <2>. QED
    BY <1>1, <2>1, <2>4 DEF ChunkIndices, Indices, Least
<1>7. ChunksCover(p, parts)
  BY <1>5, <1>6 DEF ChunksCover
<1>8. ASSUME NEW r \in 0..(parts - 1), NEW s \in 0..(parts - 1), r < s
      PROVE  Chunks(p, r, parts) \cap Chunks(p, s, parts) = {}
  <2>. DEFINE u == CeilDiv(PartEnd(p, r, parts), p.chunk)
              f == FirstChunk(PartBegin(p, s, parts), p.chunk)
              g == FirstChunk(PartBegin(p, r, parts), p.chunk)
              v == CeilDiv(PartEnd(p, s, parts), p.chunk)
  <2>1. u \in Nat /\ f \in Nat /\ g \in Nat /\ v \in Nat /\ u <= f
    BY <1>1, <1>8, ChunkBounds
  <2>2. Chunks(p, r, parts) = g..(u - 1) /\ Chunks(p, s, parts) = f..(v - 1)
    BY <1>3
  <2>. HIDE DEF u, f, g, v
  <2>. QED
    BY <2>1, <2>2
<1>9. ChunksAreDisjoint(p, parts)
  <2>1. ASSUME NEW r \in 0..(parts - 1), NEW s \in 0..(parts - 1), r # s
        PROVE  Chunks(p, r, parts) \cap Chunks(p, s, parts) = {}
    <3>1. CASE r < s
      BY <1>8, <3>1
    <3>2. CASE s < r
      BY <1>8, <3>2
    <3>. QED
      BY <2>1, <3>1, <3>2
  <2>. QED
    BY <2>1 DEF ChunksAreDisjoint
<1>. QED
  BY <1>7, <1>9
-----------------------------------------------------------------------------
(* Bags that are joined                                                    *)

(* Sets are bags,                                                          *)
LEMMA BagsOfSets == ASSUME NEW A PROVE IsABag(SetToBag(A)) /\ BagToSet(SetToBag(A)) = A
BY DEF SetToBag, BagToSet, IsABag

(* apart they join to their union,                                         *)
LEMMA SetsJoin ==
  ASSUME NEW A, NEW B, A \cap B = {}
  PROVE  SetToBag(A) (+) SetToBag(B) = SetToBag(A \cup B)
<1>1. SetToBag(A) (+) SetToBag(B) = [x \in A \cup B |-> 1]
  BY DEF SetToBag, (+)
<1>2. SetToBag(A \cup B) = [x \in A \cup B |-> 1]
  BY DEF SetToBag
<1>. QED
  BY <1>1, <1>2

(* and the join of two bags is a bag.                                      *)
LEMMA JoinedBags ==
  ASSUME NEW a, IsABag(a), NEW b, IsABag(b)
  PROVE  IsABag(a (+) b)
BY DEF IsABag, (+)

JoinsUp(f, a, b) == f = [n \in Nat |-> IF n = 0 THEN a ELSE f[n - 1] (+) b[n]]

(* The joins of a sequence of bags, from the first on, are a function.     *)
LEMMA JoinsExist ==
  ASSUME NEW a, NEW b PROVE \E f : JoinsUp(f, a, b)
<1>. DEFINE Upto(g, n) == g = [k \in 0..n |-> IF k = 0 THEN a ELSE g[k - 1] (+) b[k]]
<1>. HIDE DEF Upto
<1>1. ASSUME NEW n \in Nat, NEW m \in Nat, NEW g, NEW h, Upto(g, n), Upto(h, m),
             NEW l \in 0..n, l \in 0..m
      PROVE  g[l] = h[l]
  <2>. DEFINE Bad == {k \in Nat : k \in 0..n /\ k \in 0..m /\ g[k] # h[k]}
  <2>1. SUFFICES ASSUME Bad # {} PROVE FALSE
    <3>1. l \in Nat
      BY <1>1
    <3>. QED
      BY <1>1, <3>1
  <2>2. PICK k \in Bad : \A j \in Bad : k <= j
    <3>1. Bad \in SUBSET Nat
      OBVIOUS
    <3>. HIDE DEF Bad
    <3>. QED
      BY <2>1, <3>1, LeastNumber
  <2>3. k \in 0..n /\ k \in 0..m /\ k \in Nat /\ g[k] # h[k]
    OBVIOUS
  <2>4. k # 0
    BY <1>1, <2>3 DEF Upto
  <2>5. k - 1 \in 0..n /\ k - 1 \in 0..m /\ k - 1 \in Nat
    BY <2>3, <2>4
  <2>6. g[k - 1] = h[k - 1]
    BY <2>2, <2>3, <2>5
  <2>7. g[k] = g[k - 1] (+) b[k]
    BY <1>1, <2>3, <2>4 DEF Upto
  <2>8. h[k] = h[k - 1] (+) b[k]
    BY <1>1, <2>3, <2>4 DEF Upto
  <2>. QED
    BY <2>3, <2>6, <2>7, <2>8
<1>2. ASSUME NEW n \in Nat PROVE \E g : Upto(g, n)
  <2>. DEFINE Bad == {m \in Nat : ~\E g : Upto(g, m)}
  <2>1. SUFFICES ASSUME Bad # {} PROVE FALSE
    BY <1>2
  <2>2. PICK m \in Bad : \A j \in Bad : m <= j
    <3>1. Bad \in SUBSET Nat
      OBVIOUS
    <3>. HIDE DEF Bad
    <3>. QED
      BY <2>1, <3>1, LeastNumber
  <2>3. m \in Nat /\ ~\E g : Upto(g, m)
    OBVIOUS
  <2>4. m # 0
    <3>1. ASSUME m = 0 PROVE FALSE
      <4>1. Upto([k \in 0..0 |-> a], 0)
        BY DEF Upto
      <4>. QED
        BY <2>3, <3>1, <4>1
    <3>. QED
      BY <3>1
  <2>5. m - 1 \in Nat /\ m - 1 \notin Bad
    <3>. HIDE DEF Bad
    <3>. QED
      BY <2>2, <2>3, <2>4
  <2>6. PICK g : Upto(g, m - 1)
    BY <2>5
  <2>. DEFINE h == [k \in 0..m |-> IF k = m THEN g[m - 1] (+) b[m] ELSE g[k]]
  <2>7. \A k \in 0..m : h[k] = IF k = 0 THEN a ELSE h[k - 1] (+) b[k]
    <3>1. SUFFICES ASSUME NEW k \in 0..m PROVE h[k] = IF k = 0 THEN a ELSE h[k - 1] (+) b[k]
      OBVIOUS
    <3>2. k \in Nat /\ k <= m
      BY <2>3
    <3>3. CASE k = m
      <4>1. h[k] = g[m - 1] (+) b[m] /\ h[k - 1] = g[m - 1]
        BY <2>3, <2>4, <3>3
      <4>. QED
        BY <2>4, <3>3, <4>1
    <3>4. CASE k # m
      <4>1. k \in 0..(m - 1)
        BY <2>3, <3>2, <3>4
      <4>2. h[k] = g[k]
        BY <3>4
      <4>3. g[k] = IF k = 0 THEN a ELSE g[k - 1] (+) b[k]
        BY <2>6, <4>1 DEF Upto
      <4>4. k # 0 => h[k - 1] = g[k - 1]
        BY <2>3, <3>2, <3>4
      <4>. QED
        BY <4>2, <4>3, <4>4
    <3>. QED
      BY <3>3, <3>4
  <2>8. Upto(h, m)
    <3>1. h = [k \in 0..m |-> h[k]]
      OBVIOUS
    <3>. HIDE DEF h
    <3>. QED
      BY <2>7, <3>1 DEF Upto
  <2>. QED
    BY <2>3, <2>8
<1>. DEFINE f == [n \in Nat |-> (CHOOSE g : Upto(g, n))[n]]
<1>3. \A n \in Nat : Upto(CHOOSE g : Upto(g, n), n)
  BY <1>2
<1>4. \A n \in Nat : f[n] = IF n = 0 THEN a ELSE f[n - 1] (+) b[n]
  <2>1. SUFFICES ASSUME NEW n \in Nat PROVE f[n] = IF n = 0 THEN a ELSE f[n - 1] (+) b[n]
    OBVIOUS
  <2>. DEFINE g == CHOOSE h : Upto(h, n)
              p == CHOOSE h : Upto(h, n - 1)
  <2>2. Upto(g, n) /\ f[n] = g[n]
    BY <1>3
  <2>3. n # 0 => Upto(p, n - 1) /\ f[n - 1] = p[n - 1]
    <3>1. n # 0 => n - 1 \in Nat
      OBVIOUS
    <3>. QED
      BY <1>3, <3>1
  <2>. HIDE DEF f, g, p
  <2>4. g[n] = IF n = 0 THEN a ELSE g[n - 1] (+) b[n]
    BY <2>2 DEF Upto
  <2>5. n # 0 => g[n - 1] = p[n - 1]
    <3>1. n # 0 => n - 1 \in Nat /\ n - 1 \in 0..n /\ n - 1 \in 0..(n - 1)
      OBVIOUS
    <3>. QED
      BY <1>1, <2>2, <2>3, <3>1
  <2>. QED
    BY <2>2, <2>3, <2>4, <2>5
<1>5. f = [n \in Nat |-> f[n]]
  OBVIOUS
<1>. HIDE DEF f
<1>6. JoinsUp(f, a, b)
  BY <1>4, <1>5 DEF JoinsUp
<1>. QED
  BY <1>6
=============================================================================
