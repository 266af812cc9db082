------------------------------ MODULE Numbers ------------------------------
(***************************************************************************)
(* Facts about numbers and sequences that the proofs share.  No prover at  *)
(* hand takes an induction rule; the least element of a set of numbers     *)
(* does the same work: the least counterexample has a predecessor that is  *)
(* none.                                                                   *)
(***************************************************************************)
EXTENDS Integers, Sequences, SequenceTheorems, WellFoundedInduction, TLAPS

LEMMA Least ==
  ASSUME NEW T \in SUBSET Nat, T # {}
  PROVE  \E n \in T : \A m \in T : n <= m
<1> DEFINE R == OpToRel(<, Nat)
<1>1. IsWellFoundedOn(R, Nat)
  BY NatLessThanWellFounded
<1>2. \A x, y \in Nat : <<x, y>> \in R <=> x < y
  BY DEF OpToRel
<1> HIDE DEF R
<1>3. PICK n \in T : \A m \in T : ~ (<<m, n>> \in R)
  BY <1>1, WFMin
<1>4. \A m \in T : n <= m
  <2> TAKE m \in T
  <2>1. m \in Nat /\ n \in Nat
    OBVIOUS
  <2>2. ~ (m < n)
    BY <1>2, <1>3, <2>1
  <2> QED
    BY <2>1, <2>2
<1> QED
  BY <1>4

LEMMA Greatest ==
  ASSUME NEW n \in Nat, NEW K \in SUBSET (1 .. n), K # {}
  PROVE  \E i \in K : \A j \in K : j <= i
<1> DEFINE T == {n - i : i \in K}
<1>1. T \in SUBSET Nat /\ T # {}
  <2>1. \A i \in K : n - i \in Nat
    OBVIOUS
  <2> QED
    BY <2>1
<1>2. PICK t \in T : \A m \in T : t <= m
  BY <1>1, Least
<1>3. PICK i \in K : t = n - i
  OBVIOUS
<1>4. \A j \in K : n - i <= n - j
  BY <1>2, <1>3
<1>5. \A j \in K : j <= i
  BY <1>4
<1> QED
  BY <1>5

\* What is left of a sequence behind position n.
LEMMA BehindIs ==
  ASSUME NEW S, NEW q \in Seq(S), NEW n \in 0 .. Len(q)
  PROVE  LET e == SubSeq(q, n + 1, Len(q))
         IN  /\ e \in Seq(S) /\ Len(e) = Len(q) - n
             /\ \A i \in DOMAIN e : i + n \in DOMAIN q /\ i + n > n /\ e[i] = q[i + n]
             /\ \A j \in DOMAIN q : j > n => j - n \in DOMAIN e /\ e[j - n] = q[j]
<1> DEFINE e == SubSeq(q, n + 1, Len(q))
<1>1. Len(q) \in Nat /\ DOMAIN q = 1 .. Len(q) /\ n \in Int
  OBVIOUS
<1>2. \A i \in n + 1 .. Len(q) : q[i] \in S
  BY <1>1
<1>3. /\ e \in Seq(S)
      /\ Len(e) = IF n + 1 <= Len(q) THEN Len(q) - (n + 1) + 1 ELSE 0
      /\ \A i \in 1 .. Len(q) - (n + 1) + 1 : e[i] = q[n + 1 + i - 1]
  BY <1>1, <1>2, SubSeqProperties
<1> HIDE DEF e
<1>4. Len(e) = Len(q) - n /\ DOMAIN e = 1 .. Len(q) - n
  <2>1. n <= Len(q)
    BY <1>1
  <2>2. Len(e) = Len(q) - n
    <3>1. CASE n + 1 <= Len(q)
      BY <1>1, <1>3, <3>1
    <3>2. CASE ~ (n + 1 <= Len(q))
      <4>1. Len(q) - n = 0
        <5>1. Len(q) \in Int /\ n \in Int
          BY <1>1
        <5>2. \A a, b \in Int : b <= a /\ ~ (b + 1 <= a) => a - b = 0
          OBVIOUS
        <5> QED
          BY <2>1, <3>2, <5>1, <5>2
      <4> QED
        BY <1>3, <3>2, <4>1
    <3> QED
      BY <3>1, <3>2
  <2>3. DOMAIN e = 1 .. Len(e)
    BY <1>3
  <2> QED
    BY <2>2, <2>3
<1>5. \A i \in 1 .. Len(q) - n : e[i] = q[i + n]
  <2> TAKE i \in 1 .. Len(q) - n
  <2>1. i \in 1 .. Len(q) - (n + 1) + 1 /\ n + 1 + i - 1 = i + n
    BY <1>1
  <2> QED
    BY <1>3, <2>1
<1>6. \A i \in DOMAIN e : i + n \in DOMAIN q /\ i + n > n /\ e[i] = q[i + n]
  BY <1>1, <1>4, <1>5
<1>7. ASSUME NEW j \in DOMAIN q, j > n
      PROVE  j - n \in DOMAIN e /\ e[j - n] = q[j]
  <2>1. j - n \in 1 .. Len(q) - n /\ (j - n) + n = j
    BY <1>1, <1>7
  <2> QED
    BY <1>4, <1>5, <2>1
<1> QED
  BY <1>3, <1>4, <1>6, <1>7 DEF e

\* A sequence is one of whatever its elements are.
LEMMA SeqWithin ==
  ASSUME NEW S, NEW T, NEW q \in Seq(S), \A i \in DOMAIN q : q[i] \in T
  PROVE  q \in Seq(T)
<1>1. Len(q) \in Nat /\ DOMAIN q = 1 .. Len(q) /\ q = [i \in 1 .. Len(q) |-> q[i]]
  OBVIOUS
<1>2. q \in [1 .. Len(q) -> T]
  BY <1>1
<1> QED
  BY <1>1, <1>2, SeqDef

-----------------------------------------------------------------------------
(* Remainders.                                                             *)

LEMMA Multiples ==
  ASSUME NEW p \in Nat \ {0}
  PROVE  \A k \in Int : (k >= 1 => p * k >= p) /\ (k <= -1 => p * k <= -p)
<1>1. \A k \in Int : k >= 1 => p * k >= p
  OBVIOUS
<1>2. \A k \in Int : k <= -1 => p * k <= -p
  OBVIOUS
<1> QED
  BY <1>1, <1>2

LEMMA ModIs ==
  ASSUME NEW p \in Nat \ {0}, NEW q \in Int, NEW r \in 0 .. p - 1
  PROVE  (p * q + r) % p = r
<1> DEFINE x == p * q + r
           d == x \div p
           m == x % p
<1>1. x \in Int /\ d \in Int /\ m \in 0 .. p - 1 /\ x = p * d + m
  OBVIOUS
<1>2. p * (q - d) = m - r
  BY <1>1
<1> HIDE DEF d, m, x
<1>3. \A k \in Int : (k >= 1 => p * k >= p) /\ (k <= -1 => p * k <= -p)
  BY Multiples
<1>4. q - d \in Int /\ m - r < p /\ m - r > -p
  BY <1>1
<1>5. q - d = 0
  BY <1>1, <1>2, <1>3, <1>4
<1> QED
  BY <1>1, <1>2, <1>5 DEF m, x

LEMMA ModOf ==
  ASSUME NEW p \in Nat \ {0}, NEW x \in Int
  PROVE  x % p \in 0 .. p - 1 /\ \E q \in Int : x = p * q + (x % p)
<1>1. x \div p \in Int /\ x % p \in 0 .. p - 1 /\ x = p * (x \div p) + (x % p)
  OBVIOUS
<1> QED
  BY <1>1

\* A multiple of p does not count; nor does it matter when the remainder is
\* taken.
LEMMA ModShift ==
  ASSUME NEW p \in Nat \ {0}, NEW x \in Int, NEW z \in Int
  PROVE  (x + p * z) % p = x % p
<1>1. PICK q \in Int : x = p * q + (x % p)
  BY ModOf
<1> DEFINE r == x % p
<1>2. r \in 0 .. p - 1 /\ x = p * q + r
  BY <1>1, ModOf
<1> HIDE DEF r
<1>3. x + p * z = p * (q + z) + r /\ q + z \in Int
  BY <1>2
<1>4. (p * (q + z) + r) % p = r
  BY <1>2, <1>3, ModIs
<1> QED
  BY <1>3, <1>4 DEF r

LEMMA ModAdd ==
  ASSUME NEW p \in Nat \ {0}, NEW x \in Int, NEW y \in Int
  PROVE  ((x % p) + y) % p = (x + y) % p
<1>1. PICK q \in Int : x = p * q + (x % p)
  BY ModOf
<1> DEFINE r == x % p
<1>2. r \in 0 .. p - 1 /\ x = p * q + r
  BY <1>1, ModOf
<1> HIDE DEF r
<1>3. x + y = (r + y) + p * q /\ r + y \in Int
  BY <1>2
<1>4. ((r + y) + p * q) % p = (r + y) % p
  BY <1>3, ModShift
<1> QED
  BY <1>3, <1>4 DEF r

\* The remainders of one turn, and of the one before and the one behind.
LEMMA ModTurn ==
  ASSUME NEW p \in Nat \ {0}, NEW x \in Int
  PROVE  /\ x \in 0 .. p - 1 => x % p = x
         /\ x \in -p .. -1 => x % p = x + p
         /\ x \in p .. 2 * p - 1 => x % p = x - p
<1>1. ASSUME x \in 0 .. p - 1
      PROVE  x % p = x
  <2>1. p * 0 + x = x
    OBVIOUS
  <2> QED
    BY <1>1, <2>1, ModIs
<1>2. ASSUME x \in -p .. -1
      PROVE  x % p = x + p
  <2>1. p * (-1) + (x + p) = x /\ x + p \in 0 .. p - 1
    BY <1>2
  <2> QED
    BY <2>1, ModIs
<1>3. ASSUME x \in p .. 2 * p - 1
      PROVE  x % p = x - p
  <2>1. p * 1 + (x - p) = x /\ x - p \in 0 .. p - 1
    BY <1>3
  <2> QED
    BY <2>1, ModIs
<1> QED
  BY <1>1, <1>2, <1>3

\* The remainder by a multiple of p keeps the remainder by p.
LEMMA ModOfMod ==
  ASSUME NEW p \in Nat \ {0}, NEW l \in Nat \ {0}, l % p = 0, NEW x \in Int, NEW y \in Int
  PROVE  ((x % l) + y) % p = (x + y) % p
<1>1. PICK m \in Int : l = p * m + (l % p)
  <2>1. l \in Int
    OBVIOUS
  <2> QED
    BY <2>1, ModOf
<1>2. PICK q \in Int : x = l * q + (x % l)
  BY ModOf
<1> DEFINE r == x % l
<1>3. r \in Int /\ x = l * q + r
  BY <1>2, ModOf
<1> HIDE DEF r
<1>4. x = p * (m * q) + r
  <2>1. l = p * m
    BY <1>1
  <2>2. (p * m) * q = p * (m * q)
    OBVIOUS
  <2> QED
    BY <1>3, <2>1, <2>2
<1>5. m * q \in Int
  OBVIOUS
<1> DEFINE z == m * q
<1>6. z \in Int /\ x + y = (r + y) + p * z /\ r + y \in Int
  <2>1. p * z \in Int
    BY <1>5
  <2> QED
    BY <1>3, <1>4, <1>5, <2>1
<1> HIDE DEF z
<1>7. ((r + y) + p * z) % p = (r + y) % p
  BY <1>6, ModShift
<1> QED
  BY <1>6, <1>7 DEF r
---------------------------------------------------------------------------
(* Recursive functions: there is one, and what each step keeps holds of    *)
(* all its values.                                                         *)

LEMMA Throughout ==
  ASSUME NEW S, NEW n \in Nat, NEW f, f[0] \in S,
         \A k \in 1 .. n : f[k - 1] \in S => f[k] \in S
  PROVE  \A k \in 0 .. n : f[k] \in S
<1> DEFINE T == {k \in 0 .. n : f[k] \notin S}
<1>1. SUFFICES ASSUME T # {} PROVE FALSE
  OBVIOUS
<1>2. T \in SUBSET Nat
  OBVIOUS
<1> HIDE DEF T
<1>3. PICK k \in T : \A j \in T : k <= j
  BY <1>1, <1>2, Least
<1>4. k \in 0 .. n /\ f[k] \notin S
  BY DEF T
<1>5. k \in 1 .. n /\ k - 1 \in 0 .. n /\ ~ (k <= k - 1)
  BY <1>4
<1>6. f[k - 1] \in S
  BY <1>3, <1>5 DEF T
<1> QED
  BY <1>4, <1>5, <1>6

Steps(step, S, n) == \A k \in 1 .. n : \A x \in S : step[<<k, x>>] \in S
Recurses(f, S, first, n, step) ==
  f \in [0 .. n -> S] /\ f[0] = first /\ \A k \in 1 .. n : f[k] = step[<<k, f[k - 1]>>]

LEMMA Iterates ==
  ASSUME NEW S, NEW first \in S, NEW n \in Nat, NEW step, Steps(step, S, n)
  PROVE  \E f : Recurses(f, S, first, n, step)
<1> DEFINE Runs(f, m) == f[0] = first /\ \A k \in 1 .. m : f[k] = step[<<k, f[k - 1]>>]
           T == {m \in 0 .. n : ~ \E f \in [0 .. m -> S] : Runs(f, m)}
<1>1. CASE T # {}
  <2>1. T \in SUBSET Nat
    OBVIOUS
  <2> HIDE DEF T
  <2>2. PICK m \in T : \A j \in T : m <= j
    BY <1>1, <2>1, Least
  <2>3. m \in 0 .. n /\ ~ \E f \in [0 .. m -> S] : Runs(f, m)
    BY DEF T
  <2>4. m # 0
    <3> DEFINE g == [k \in 0 .. 0 |-> first]
    <3>1. g \in [0 .. 0 -> S] /\ g[0] = first
      OBVIOUS
    <3> HIDE DEF g
    <3>2. Runs(g, 0)
      BY <3>1
    <3> HIDE DEF Runs
    <3> QED
      BY <2>3, <3>1, <3>2
  <2>5. m - 1 \in 0 .. n /\ ~ (m <= m - 1)
    BY <2>3, <2>4
  <2>6. PICK f \in [0 .. m - 1 -> S] : Runs(f, m - 1)
    BY <2>2, <2>5 DEF T
  <2> DEFINE x == step[<<m, f[m - 1]>>]
             g == [k \in 0 .. m |-> IF k = m THEN x ELSE f[k]]
  <2>7. f[m - 1] \in S /\ m \in 1 .. n
    BY <2>3, <2>4, <2>5
  <2>8. x \in S
    BY <2>7 DEF Steps
  <2> HIDE DEF x
  <2>9. /\ g \in [0 .. m -> S] /\ g[m] = x
        /\ \A k \in 0 .. m - 1 : g[k] = f[k]
    BY <2>5, <2>7, <2>8
  <2> HIDE DEF g
  <2>10. g[0] = first
    BY <2>6, <2>7, <2>9
  <2>11. ASSUME NEW k \in 1 .. m
         PROVE  g[k] = step[<<k, g[k - 1]>>]
    <3>1. k - 1 \in 0 .. m - 1
      BY <2>7
    <3>2. CASE k = m
      BY <2>9, <3>1, <3>2 DEF x
    <3>3. CASE k # m
      <4>1. k \in 1 .. m - 1 /\ k \in 0 .. m - 1
        BY <2>7, <3>3
      <4>2. f[k] = step[<<k, f[k - 1]>>]
        BY <2>6, <4>1
      <4> QED
        BY <2>9, <3>1, <4>1, <4>2
    <3> QED
      BY <3>2, <3>3
  <2>12. Runs(g, m)
    BY <2>10, <2>11
  <2> HIDE DEF Runs
  <2> QED
    BY <2>3, <2>9, <2>12
<1>2. CASE T = {}
  <2>1. \E f \in [0 .. n -> S] : Runs(f, n)
    BY <1>2
  <2> QED
    BY <2>1 DEF Recurses
<1> QED
  BY <1>1, <1>2

LEMMA Rises ==
  ASSUME NEW n \in Nat, NEW f, \A k \in 0 .. n : f[k] \in Nat, \A k \in 1 .. n : f[k - 1] <= f[k],
         NEW j \in 0 .. n, NEW k \in j .. n
  PROVE  f[j] <= f[k]
<1> DEFINE S == {x \in Nat : f[j] <= x}
           g == [i \in 0 .. n |-> IF i < j THEN f[j] ELSE f[i]]
<1>1. g[0] \in S
  OBVIOUS
<1>2. ASSUME NEW i \in 1 .. n, g[i - 1] \in S
      PROVE  g[i] \in S
  <2>1. i \in 0 .. n /\ i - 1 \in 0 .. n
    OBVIOUS
  <2>2. CASE i <= j
    BY <2>1, <2>2
  <2>3. CASE j < i
    <3>1. ~(i - 1 < j) /\ ~(i < j)
      BY <2>3
    <3>2. f[i - 1] \in S /\ g[i] = f[i]
      BY <1>2, <2>1, <3>1
    <3> QED
      BY <2>1, <3>2
  <2> QED
    BY <2>2, <2>3
<1>3. \A i \in 1 .. n : g[i - 1] \in S => g[i] \in S
  BY <1>2
<1> HIDE DEF g, S
<1>4. \A i \in 0 .. n : g[i] \in S
  BY <1>1, <1>3, Throughout, Zenon
<1>5. k \in 0 .. n /\ ~(k < j)
  OBVIOUS
<1>6. f[k] \in S
  BY <1>4, <1>5 DEF g
<1> QED
  BY <1>6 DEF S
=============================================================================
