------------------------- MODULE Interactive_proofs -------------------------
(***************************************************************************)
(* What is proved of the interactive loop, for every set of programs and   *)
(* every window, bound and size of the ring: that checkpoints stay         *)
(* prefixes, that the ring reads back what was pushed, and that a rollback *)
(* is whole or nothing.                                                    *)
(***************************************************************************)
EXTENDS Interactive, Scheduler_proofs, Numbers

-----------------------------------------------------------------------------
(* Sequences.                                                              *)

LEMMA PrefixIs ==
  ASSUME NEW S, NEW q \in Seq(S), NEW n \in 0 .. Len(q)
  PROVE  /\ SubSeq(q, 1, n) \in Seq(S) /\ Len(SubSeq(q, 1, n)) = n
         /\ DOMAIN SubSeq(q, 1, n) = 1 .. n
         /\ \A i \in 1 .. n : i \in DOMAIN q /\ SubSeq(q, 1, n)[i] = q[i]
<1>1. Len(q) \in Nat /\ n \in Nat /\ DOMAIN q = 1 .. Len(q) /\ n <= Len(q)
  OBVIOUS
<1>2. \A i \in 1 .. n : i \in DOMAIN q /\ q[i] \in S
  BY <1>1
<1>3. SubSeq(q, 1, n) = [i \in 1 .. n |-> q[i]]
  BY <1>1
<1> QED
  BY <1>1, <1>2, <1>3

\* Two sequences of one length that agree are the same.
LEMMA SameSeq ==
  ASSUME NEW S, NEW T, NEW q \in Seq(S), NEW e \in Seq(T), Len(q) = Len(e),
         \A i \in 1 .. Len(q) : q[i] = e[i]
  PROVE  q = e
  OBVIOUS

LEMMA PrefixOfPrefix ==
  ASSUME NEW S, NEW q \in Seq(S), NEW n \in 0 .. Len(q), NEW m \in 0 .. n
  PROVE  SubSeq(SubSeq(q, 1, n), 1, m) = SubSeq(q, 1, m)
<1> DEFINE e == SubSeq(q, 1, n)
<1>1. /\ e \in Seq(S) /\ Len(e) = n /\ \A i \in 1 .. n : e[i] = q[i]
      /\ n \in Nat /\ m \in Nat /\ m <= n /\ m \in 0 .. Len(q)
  BY PrefixIs
<1> HIDE DEF e
<1>2. /\ SubSeq(e, 1, m) \in Seq(S) /\ Len(SubSeq(e, 1, m)) = m
      /\ \A i \in 1 .. m : SubSeq(e, 1, m)[i] = e[i]
  BY <1>1, PrefixIs
<1>3. /\ SubSeq(q, 1, m) \in Seq(S) /\ Len(SubSeq(q, 1, m)) = m
      /\ \A i \in 1 .. m : SubSeq(q, 1, m)[i] = q[i]
  BY <1>1, PrefixIs
<1>4. \A i \in 1 .. m : e[i] = q[i]
  BY <1>1
<1> QED
  BY <1>2, <1>3, <1>4, SameSeq DEF e

LEMMA PrefixOfAppend ==
  ASSUME NEW S, NEW q \in Seq(S), NEW x \in S, NEW n \in 0 .. Len(q)
  PROVE  SubSeq(Append(q, x), 1, n) = SubSeq(q, 1, n)
<1> DEFINE e == Append(q, x)
<1>1. /\ e \in Seq(S) /\ Len(q) \in Nat /\ DOMAIN q = 1 .. Len(q)
      /\ \A i \in DOMAIN q : e[i] = q[i]
  BY AppendIs
<1>2. Len(e) = Len(q) + 1
  OBVIOUS
<1>3. n \in 0 .. Len(e)
  BY <1>1, <1>2
<1> HIDE DEF e
<1>4. /\ SubSeq(e, 1, n) \in Seq(S) /\ Len(SubSeq(e, 1, n)) = n
      /\ \A i \in 1 .. n : SubSeq(e, 1, n)[i] = e[i]
  BY <1>1, <1>3, PrefixIs
<1>5. /\ SubSeq(q, 1, n) \in Seq(S) /\ Len(SubSeq(q, 1, n)) = n
      /\ \A i \in 1 .. n : i \in DOMAIN q /\ SubSeq(q, 1, n)[i] = q[i]
  BY PrefixIs
<1>6. \A i \in 1 .. n : SubSeq(e, 1, n)[i] = SubSeq(q, 1, n)[i]
  BY <1>1, <1>4, <1>5
<1> QED
  BY <1>4, <1>5, <1>6, SameSeq DEF e

\* The positions 1 .. m keep a prefix.
LEMMA KeepPrefix ==
  ASSUME NEW S, NEW q \in Seq(S), NEW m \in 0 .. Len(q)
  PROVE  KeepAt(q, 1 .. m) = SubSeq(q, 1, m)
<1>1. Len(q) \in Nat /\ m \in Nat
  OBVIOUS
<1>2. \A i \in 0 .. m : Cardinality(1 .. i) = i
  <2> TAKE i \in 0 .. m
  <2>1. i \in Nat /\ 1 \in Int /\ i \in Int
    BY <1>1
  <2>2. Cardinality(1 .. i) = IF 1 > i THEN 0 ELSE i - 1 + 1
    BY <2>1, FS_Interval
  <2> QED
    BY <2>1, <2>2
<1>3. ASSUME NEW i \in 1 .. m
      PROVE  Cardinality({j \in 1 .. m : j <= i}) = i
  <2>1. {j \in 1 .. m : j <= i} = 1 .. i
    BY <1>1
  <2>2. i \in 0 .. m
    BY <1>1
  <2> QED
    BY <1>2, <2>1, <2>2
<1>4. ASSUME NEW n \in 1 .. m
      PROVE  (CHOOSE i \in 1 .. m : Cardinality({j \in 1 .. m : j <= i}) = n) = n
  <2> DEFINE c == CHOOSE i \in 1 .. m : Cardinality({j \in 1 .. m : j <= i}) = n
  <2>1. Cardinality({j \in 1 .. m : j <= n}) = n
    BY <1>3
  <2>2. c \in 1 .. m /\ Cardinality({j \in 1 .. m : j <= c}) = n
    BY <2>1
  <2> HIDE DEF c
  <2>3. c = n
    BY <1>3, <2>2
  <2> QED
    BY <2>3 DEF c
<1>5. Cardinality(1 .. m) = m
  BY <1>1, <1>2
<1>6. KeepAt(q, 1 .. m) = [n \in 1 .. m |-> q[n]]
  <2>1. \A n \in 1 .. m : Nth(1 .. m, n) = n
    BY <1>4 DEF Nth
  <2>2. KeepAt(q, 1 .. m) = [n \in 1 .. Cardinality(1 .. m) |-> q[Nth(1 .. m, n)]]
    BY DEF KeepAt, Nth
  <2> QED
    BY <1>5, <2>1, <2>2
<1>7. SubSeq(q, 1, m) = [n \in 1 .. m |-> q[n]]
  BY <1>1
<1> QED
  BY <1>6, <1>7

\* A set of positions that has with each of them those before it is the first
\* m of them, for some m.
LEMMA DownwardClosed ==
  ASSUME NEW n \in Nat, NEW K \in SUBSET (1 .. n),
         \A i \in K : \A j \in 1 .. n : j <= i => j \in K
  PROVE  \E m \in 0 .. n : K = 1 .. m
<1>1. CASE K = 1 .. n
  BY <1>1
<1>2. CASE K # 1 .. n
  <2> DEFINE T == (1 .. n) \ K
  <2>1. T \in SUBSET Nat /\ T # {}
    <3>1. T \in SUBSET Nat
      OBVIOUS
    <3>2. T # {}
      BY <1>2
    <3> QED
      BY <3>1, <3>2
  <2>2. PICK t \in T : \A x \in T : t <= x
    BY <2>1, Least
  <2>3. t \in 1 .. n /\ t \notin K
    OBVIOUS
  <2>4. \A j \in 1 .. n : j < t => j \in K
    <3> SUFFICES ASSUME NEW j \in 1 .. n, j < t, j \notin K
                 PROVE  FALSE
      OBVIOUS
    <3>1. t <= j
      BY <2>2
    <3> QED
      BY <2>3, <3>1
  <2> HIDE DEF T
  <2>5. \A i \in K : i < t
    <3> SUFFICES ASSUME NEW i \in K, ~ (i < t)
                 PROVE  FALSE
      OBVIOUS
    <3>1. t <= i
      BY <2>3
    <3> QED
      BY <2>3, <3>1
  <2>6. t - 1 \in 0 .. n
    BY <2>3
  <2>7. K \subseteq 1 .. t - 1
    BY <2>3, <2>5
  <2>8. 1 .. t - 1 \subseteq K
    <3> SUFFICES ASSUME NEW j \in 1 .. t - 1
                 PROVE  j \in K
      OBVIOUS
    <3>1. j \in 1 .. n /\ j < t
      BY <2>3
    <3> QED
      BY <2>4, <3>1
  <2> QED
    BY <2>6, <2>7, <2>8
<1> QED
  BY <1>1, <1>2

\* The newest n elements.
LEMMA NewestIs ==
  ASSUME NEW S, NEW q \in Seq(S), NEW n \in Nat
  PROVE  /\ Newest(q, n) \in Seq(S) /\ Len(Newest(q, n)) <= n
         /\ \E k \in Nat : \A i \in DOMAIN Newest(q, n) :
              i + k \in DOMAIN q /\ Newest(q, n)[i] = q[i + k]
<1>0. Len(q) \in Nat /\ DOMAIN q = 1 .. Len(q)
  OBVIOUS
<1>1. CASE Len(q) > n
  <2> DEFINE k == Len(q) - n
             e == SubSeq(q, k + 1, Len(q))
  <2>1. k \in 0 .. Len(q) /\ Newest(q, n) = e
    BY <1>0, <1>1 DEF Newest
  <2> HIDE DEF k
  <2>2. /\ e \in Seq(S) /\ Len(e) = Len(q) - k
        /\ \A i \in DOMAIN e : i + k \in DOMAIN q /\ e[i] = q[i + k]
    BY <2>1, BehindIs
  <2> HIDE DEF e
  <2>3. Len(e) <= n /\ k \in Nat
    BY <1>0, <2>1, <2>2 DEF k
  <2> QED
    BY <2>1, <2>2, <2>3
<1>2. CASE ~ (Len(q) > n)
  <2>1. Newest(q, n) = q /\ Len(q) <= n
    BY <1>0, <1>2 DEF Newest
  <2>2. \A i \in DOMAIN q : i + 0 \in DOMAIN q /\ q[i] = q[i + 0]
    BY <1>0
  <2> QED
    BY <2>1, <2>2
<1> QED
  BY <1>1, <1>2

-----------------------------------------------------------------------------
(* The history of a generation: checkpoints and samples.                   *)

Marks   == [version : Nat, pc : Nat, tokenIdx : Nat, said : Seq(Tokens)]
Samples == [token : Nat, level : Nat]

\* cps are checkpoints of the output out, the newest image being v.
Noted(cps, out, v) ==
  /\ cps \in Seq(Marks)
  /\ \A i \in DOMAIN cps :
       /\ cps[i].version <= v /\ cps[i].tokenIdx <= Len(out)
       /\ cps[i].said = SubSeq(out, 1, cps[i].tokenIdx)
  /\ \A i, j \in DOMAIN cps : i < j =>
       cps[i].version < cps[j].version /\ cps[i].tokenIdx <= cps[j].tokenIdx

Heard(h, out) ==
  h \in Seq(Samples) /\ \A i \in DOMAIN h : h[i].token <= Len(out)

LEMMA NotedAt ==
  ASSUME NEW cps, NEW out, NEW v, Noted(cps, out, v), NEW i \in DOMAIN cps
  PROVE  /\ cps[i] \in Marks /\ cps[i].version \in Nat /\ cps[i].tokenIdx \in Nat
         /\ cps[i].version <= v /\ cps[i].tokenIdx <= Len(out)
         /\ cps[i].said = SubSeq(out, 1, cps[i].tokenIdx)
<1>1. cps[i] \in Marks
  BY DEF Noted
<1> QED
  BY <1>1 DEF Noted, Marks

\* A token more.
LEMMA NotedMore ==
  ASSUME NEW cps, NEW out \in Seq(Tokens), NEW v, Noted(cps, out, v), NEW t \in Tokens
  PROVE  Noted(cps, Append(out, t), v)
<1> DEFINE o == Append(out, t)
<1>1. Len(out) \in Nat /\ Len(o) = Len(out) + 1 /\ o \in Seq(Tokens)
  OBVIOUS
<1>2. ASSUME NEW i \in DOMAIN cps
      PROVE  cps[i].tokenIdx <= Len(o) /\ cps[i].said = SubSeq(o, 1, cps[i].tokenIdx)
  <2> DEFINE n == cps[i].tokenIdx
  <2>1. cps[i] \in Marks
    BY DEF Noted
  <2>2. n \in Nat /\ n <= Len(out) /\ cps[i].said = SubSeq(out, 1, n)
    BY <2>1 DEF Noted, Marks
  <2> HIDE DEF n
  <2>3. n \in 0 .. Len(out) /\ n <= Len(o)
    BY <1>1, <2>2
  <2>4. SubSeq(o, 1, n) = SubSeq(out, 1, n)
    BY <2>3, PrefixOfAppend
  <2> QED
    BY <2>2, <2>3, <2>4 DEF n
<1> HIDE DEF o
<1>3. Noted(cps, o, v)
  BY <1>2 DEF Noted
<1> QED
  BY <1>3 DEF o

\* A checkpoint more, and the oldest pruned.
LEMMA NotedFork ==
  ASSUME NEW cps, NEW out \in Seq(Tokens), NEW v \in Nat, Noted(cps, out, v), NEW pc \in Nat
  PROVE  LET m == [version |-> v + 1, pc |-> pc, tokenIdx |-> Len(out), said |-> out]
             t == Newest(Append(cps, m), HostWindow)
         IN  Noted(t, out, v + 1) /\ Len(t) <= HostWindow
<1> DEFINE m == [version |-> v + 1, pc |-> pc, tokenIdx |-> Len(out), said |-> out]
           a == Append(cps, m)
           t == Newest(a, HostWindow)
<1>1. m \in Marks
  BY DEF Marks
<1>2. m.version = v + 1 /\ m.tokenIdx = Len(out) /\ m.said = out /\ Len(out) \in Nat
  OBVIOUS
<1>3. SubSeq(out, 1, Len(out)) = out
  <2>1. Len(out) \in 0 .. Len(out)
    BY <1>2
  <2>2. /\ SubSeq(out, 1, Len(out)) \in Seq(Tokens) /\ Len(SubSeq(out, 1, Len(out))) = Len(out)
        /\ \A i \in 1 .. Len(out) : SubSeq(out, 1, Len(out))[i] = out[i]
    BY <2>1, PrefixIs
  <2> QED
    BY <2>2, SameSeq
<1> HIDE DEF m
<1>4. cps \in Seq(Marks)
  BY DEF Noted
<1>5. /\ a \in Seq(Marks) /\ Len(cps) \in Nat /\ DOMAIN cps = 1 .. Len(cps)
      /\ DOMAIN a = 1 .. Len(cps) + 1 /\ a[Len(cps) + 1] = m
      /\ \A i \in DOMAIN cps : a[i] = cps[i]
  BY <1>1, <1>4, AppendIs
<1> HIDE DEF a
<1>6. \A i \in DOMAIN a : i = Len(cps) + 1 \/ i \in DOMAIN cps
  BY <1>5
<1>7. \A i \in DOMAIN cps : /\ cps[i].version \in Nat /\ cps[i].tokenIdx \in Nat
                            /\ cps[i].version <= v /\ cps[i].tokenIdx <= Len(out)
                            /\ cps[i].said = SubSeq(out, 1, cps[i].tokenIdx)
  BY NotedAt
<1>8. ASSUME NEW i \in DOMAIN a
      PROVE  /\ a[i].version <= v + 1 /\ a[i].tokenIdx <= Len(out)
             /\ a[i].said = SubSeq(out, 1, a[i].tokenIdx)
  <2>1. CASE i = Len(cps) + 1
    BY <1>2, <1>3, <1>5, <2>1
  <2>2. CASE i \in DOMAIN cps
    BY <1>5, <1>7, <2>2
  <2> QED
    BY <1>6, <2>1, <2>2
<1>9. ASSUME NEW i \in DOMAIN a, NEW j \in DOMAIN a, i < j
      PROVE  a[i].version < a[j].version /\ a[i].tokenIdx <= a[j].tokenIdx
  <2>1. i \in DOMAIN cps
    BY <1>5, <1>9
  <2>2. CASE j = Len(cps) + 1
    BY <1>2, <1>5, <1>7, <2>1, <2>2
  <2>3. CASE j \in DOMAIN cps
    BY <1>5, <1>9, <2>1, <2>3 DEF Noted
  <2> QED
    BY <1>6, <2>2, <2>3
<1>10. HostWindow \in Nat
  BY HostAssumption
<1>11. /\ t \in Seq(Marks) /\ Len(t) <= HostWindow
       /\ \E k \in Nat : \A i \in DOMAIN t : i + k \in DOMAIN a /\ t[i] = a[i + k]
  <2>1. a \in Seq(Marks)
    BY <1>5
  <2> QED
    BY <1>10, <2>1, NewestIs
<1>12. PICK k \in Nat : \A i \in DOMAIN t : i + k \in DOMAIN a /\ t[i] = a[i + k]
  BY <1>11
<1> HIDE DEF t
<1>13. DOMAIN t \subseteq Nat
  <2>1. DOMAIN t = 1 .. Len(t)
    BY <1>11
  <2> QED
    BY <2>1
<1>14. ASSUME NEW i \in DOMAIN t, NEW j \in DOMAIN t, i < j
       PROVE  t[i].version < t[j].version /\ t[i].tokenIdx <= t[j].tokenIdx
  <2>1. i + k < j + k
    BY <1>13, <1>14
  <2> QED
    BY <1>9, <1>12, <2>1
<1>15. Noted(t, out, v + 1)
  BY <1>8, <1>11, <1>12, <1>14 DEF Noted
<1> QED
  BY <1>11, <1>15 DEF t, a, m

\* A rollback to c keeps just a prefix of the checkpoints, c with it.
LEMMA NotedBack ==
  ASSUME NEW cps, NEW out \in Seq(Tokens), NEW v, Noted(cps, out, v), NEW c \in Range(cps)
  PROVE  LET t == RetainedUpTo(cps, c.tokenIdx)
         IN  /\ c.tokenIdx \in 0 .. Len(out) /\ c.said = SubSeq(out, 1, c.tokenIdx)
             /\ Noted(t, SubSeq(out, 1, c.tokenIdx), v)
             /\ t = SubSeq(cps, 1, Len(t)) /\ Len(t) <= Len(cps) /\ c \in Range(t)
<1> DEFINE n == c.tokenIdx
           K == {i \in DOMAIN cps : cps[i].tokenIdx <= n}
           t == RetainedUpTo(cps, n)
           o == SubSeq(out, 1, n)
<1>1. PICK x \in DOMAIN cps : cps[x] = c
  BY DEF Range
<1>2. cps \in Seq(Marks) /\ Len(cps) \in Nat /\ DOMAIN cps = 1 .. Len(cps)
  BY DEF Noted
<1>3. \A i \in DOMAIN cps : /\ cps[i].version \in Nat /\ cps[i].tokenIdx \in Nat
                            /\ cps[i].version <= v /\ cps[i].tokenIdx <= Len(out)
                            /\ cps[i].said = SubSeq(out, 1, cps[i].tokenIdx)
  BY NotedAt
<1>4. n \in Nat /\ n <= Len(out) /\ c.said = SubSeq(out, 1, n) /\ Len(out) \in Nat
  BY <1>1, <1>3
<1>5. n \in 0 .. Len(out)
  BY <1>4
<1> HIDE DEF n
<1>6. PICK m \in 0 .. Len(cps) : K = 1 .. m
  <2>1. K \in SUBSET (1 .. Len(cps))
    BY <1>2
  <2>2. ASSUME NEW i \in K, NEW j \in 1 .. Len(cps), j <= i
        PROVE  j \in K
    <3>1. cps[j].tokenIdx <= cps[i].tokenIdx
      <4>1. CASE j = i
        BY <1>2, <1>3, <4>1
      <4>2. CASE j # i
        <5>1. j < i
          BY <1>2, <2>2, <4>2
        <5> QED
          BY <1>2, <5>1 DEF Noted
      <4> QED
        BY <4>1, <4>2
    <3>2. cps[i].tokenIdx \in Nat /\ cps[j].tokenIdx \in Nat /\ cps[i].tokenIdx <= n
      BY <1>2, <1>3
    <3> QED
      BY <1>2, <1>4, <3>1, <3>2
  <2> HIDE DEF K
  <2> QED
    BY <1>2, <2>1, <2>2, DownwardClosed
<1>7. t = SubSeq(cps, 1, m)
  <2>1. t = KeepAt(cps, K)
    BY DEF RetainedUpTo
  <2> QED
    BY <1>2, <1>6, <2>1, KeepPrefix
<1>8. \A i \in 1 .. m : i \in DOMAIN cps /\ cps[i].tokenIdx <= n
  BY <1>6
<1>9. x \in 1 .. m
  <2>1. x \in K
    BY <1>1, <1>4 DEF n
  <2> QED
    BY <1>6, <2>1
<1> HIDE DEF K, t
<1>10. /\ t \in Seq(Marks) /\ Len(t) = m /\ DOMAIN t = 1 .. m
       /\ \A i \in 1 .. m : t[i] = cps[i]
  BY <1>2, <1>7, PrefixIs
<1>11. o \in Seq(Tokens) /\ Len(o) = n
  BY <1>5, PrefixIs
<1>12. ASSUME NEW i \in 1 .. m
       PROVE  cps[i].said = SubSeq(o, 1, cps[i].tokenIdx)
  <2>1. cps[i].tokenIdx \in 0 .. n
    BY <1>3, <1>4, <1>8
  <2> QED
    BY <1>3, <1>5, <1>8, <2>1, PrefixOfPrefix
<1> HIDE DEF o
<1>13. Noted(t, o, v)
  <2>1. \A i \in DOMAIN t : /\ t[i].version <= v /\ t[i].tokenIdx <= Len(o)
                            /\ t[i].said = SubSeq(o, 1, t[i].tokenIdx)
    BY <1>3, <1>8, <1>10, <1>11, <1>12
  <2>2. \A i, j \in DOMAIN t : i < j =>
          t[i].version < t[j].version /\ t[i].tokenIdx <= t[j].tokenIdx
    BY <1>8, <1>10 DEF Noted
  <2> QED
    BY <1>10, <2>1, <2>2 DEF Noted
<1>14. c \in Range(t)
  BY <1>1, <1>9, <1>10 DEF Range
<1>15. Len(t) <= Len(cps)
  BY <1>2, <1>6, <1>10
<1> QED
  BY <1>4, <1>5, <1>7, <1>10, <1>13, <1>14, <1>15 DEF t, o, n

\* A sample more, of the token that comes next.
LEMMA HeardMore ==
  ASSUME NEW h, NEW out \in Seq(Tokens), Heard(h, out), NEW level \in Levels,
         NEW o \in Seq(Tokens), Len(out) <= Len(o)
  PROVE  Heard(Newest(Append(h, [token |-> Len(out), level |-> level]), MaxSamples), o)
<1> DEFINE s == [token |-> Len(out), level |-> level]
           a == Append(h, s)
           t == Newest(a, MaxSamples)
<1>1. s \in Samples /\ s.token = Len(out) /\ Len(out) \in Nat /\ Len(o) \in Nat
  BY HostAssumption DEF Samples
<1> HIDE DEF s
<1>2. h \in Seq(Samples)
  BY DEF Heard
<1>3. /\ a \in Seq(Samples) /\ Len(h) \in Nat /\ DOMAIN h = 1 .. Len(h)
      /\ DOMAIN a = 1 .. Len(h) + 1 /\ a[Len(h) + 1] = s
      /\ \A i \in DOMAIN h : a[i] = h[i]
  BY <1>1, <1>2, AppendIs
<1> HIDE DEF a
<1>4. ASSUME NEW i \in DOMAIN a
      PROVE  a[i].token <= Len(o)
  <2>1. CASE i \in DOMAIN h
    <3>1. h[i].token \in Nat /\ h[i].token <= Len(out)
      <4>1. h[i] \in Samples
        BY <1>2, <2>1
      <4> QED
        BY <2>1, <4>1 DEF Heard, Samples
    <3> QED
      BY <1>1, <1>3, <2>1, <3>1
  <2>2. CASE i = Len(h) + 1
    BY <1>1, <1>3, <2>2
  <2> QED
    BY <1>3, <2>1, <2>2
<1>5. MaxSamples \in Nat
  BY HostAssumption
<1>6. /\ t \in Seq(Samples)
      /\ \E k \in Nat : \A i \in DOMAIN t : i + k \in DOMAIN a /\ t[i] = a[i + k]
  <2>1. a \in Seq(Samples)
    BY <1>3
  <2> QED
    BY <1>5, <2>1, NewestIs
<1> HIDE DEF t
<1>7. Heard(t, o)
  BY <1>4, <1>6 DEF Heard
<1> QED
  BY <1>7 DEF t, a, s

-----------------------------------------------------------------------------
(* The context table: what never takes a context out of it.                *)

Keeps(s, t) == DOMAIN t = Fields /\ DOMAIN s.contexts \subseteq DOMAIN t.contexts

LEMMA KeepsTrans ==
  ASSUME NEW s, NEW t, NEW u, Keeps(s, t), Keeps(t, u)
  PROVE  Keeps(s, u)
  BY DEF Keeps

LEMMA SetKeeps ==
  ASSUME NEW s, DOMAIN s = Fields, NEW id
  PROVE  /\ \A c : Keeps(s, SetContext(s, id, c))
         /\ \A x : Keeps(s, SetState(s, id, x))
         /\ \A pc : Keeps(s, Moved(s, id, pc))
<1>1. \A c : Keeps(s, SetContext(s, id, c))
  BY DEF Keeps, SetContext, Fields
<1>2. Keeps(s, s)
  BY DEF Keeps
<1> QED
  BY <1>1, <1>2 DEF SetState, Moved

LEMMA QueueKeeps ==
  ASSUME NEW s, DOMAIN s = Fields
  PROVE  /\ \A p, id : Keeps(s, PushBack(s, p, id))
         /\ \A x : Keeps(s, [s EXCEPT !.current = x])
         /\ \A q : Keeps(s, [s EXCEPT !.queue = q])
         /\ \A n : Keeps(s, [s EXCEPT !.nextId = n])
         /\ \A q, x : Keeps(s, [s EXCEPT !.queue = q, !.current = x])
  BY DEF Keeps, PushBack, Fields

LEMMA YieldKeeps ==
  ASSUME NEW s, DOMAIN s = Fields
  PROVE  Keeps(s, YieldCurrent(s))
<1> DEFINE id == s.current
           t  == [s EXCEPT !.current = None]
           u  == IF StateIs(t, id, "Running") THEN SetState(t, id, "Ready") ELSE t
           v  == IF StateIs(u, id, "Ready") THEN PushBack(u, u.contexts[id].priority, id) ELSE u
<1>1. Keeps(s, t)
  BY QueueKeeps
<1> HIDE DEF t
<1>2. Keeps(s, u)
  <2>1. DOMAIN t = Fields
    BY <1>1 DEF Keeps
  <2>2. Keeps(t, SetState(t, id, "Ready"))
    BY <2>1, SetKeeps
  <2>3. Keeps(s, SetState(t, id, "Ready"))
    BY <1>1, <2>2, KeepsTrans
  <2> QED
    BY <1>1, <2>3
<1> HIDE DEF u
<1>3. Keeps(s, v)
  <2>1. DOMAIN u = Fields
    BY <1>2 DEF Keeps
  <2>2. Keeps(u, PushBack(u, u.contexts[id].priority, id))
    BY <2>1, QueueKeeps
  <2>3. Keeps(s, PushBack(u, u.contexts[id].priority, id))
    BY <1>2, <2>2, KeepsTrans
  <2> QED
    BY <1>2, <2>3
<1>4. YieldCurrent(s) = v
  BY DEF YieldCurrent, u, t
<1> QED
  BY <1>3, <1>4

LEMMA SliceKeeps ==
  ASSUME NEW s, DOMAIN s = Fields, NEW id
  PROVE  /\ \A b : Keeps(s, SliceEnds(s, id, b))
         /\ Keeps(s, SliceFails(s, id))
         /\ Keeps(s, SlicePasses(s, id))
<1>1. ASSUME NEW b
      PROVE  Keeps(s, SliceEnds(s, id, b))
  <2>1. CASE StateIs(s, id, "Running")
    <3> DEFINE t == IF b THEN Moved(s, id, s.contexts[id].pc + 1) ELSE s
               u == SetState(t, id, "Ready")
    <3>1. Keeps(s, s) /\ Keeps(s, Moved(s, id, s.contexts[id].pc + 1))
      BY SetKeeps DEF Keeps
    <3>2. Keeps(s, t)
      BY <3>1
    <3> HIDE DEF t
    <3>3. Keeps(t, u)
      BY <3>2, SetKeeps DEF Keeps
    <3> HIDE DEF u
    <3>4. Keeps(u, YieldCurrent(u))
      BY <3>3, YieldKeeps DEF Keeps
    <3>5. SliceEnds(s, id, b) = YieldCurrent(u)
      BY <2>1 DEF SliceEnds, t, u
    <3> QED
      BY <3>2, <3>3, <3>4, <3>5, KeepsTrans
  <2>2. CASE ~ StateIs(s, id, "Running")
    BY <2>2, YieldKeeps DEF SliceEnds
  <2> QED
    BY <2>1, <2>2
<1>2. Keeps(s, SliceFails(s, id))
  <2> DEFINE u == SetState(s, id, "Terminated")
  <2>1. Keeps(s, u)
    BY SetKeeps
  <2> HIDE DEF u
  <2>2. Keeps(u, YieldCurrent(u))
    BY <2>1, YieldKeeps DEF Keeps
  <2>3. SliceFails(s, id) = YieldCurrent(u)
    BY DEF SliceFails, u
  <2> QED
    BY <2>1, <2>2, <2>3, KeepsTrans
<1>3. Keeps(s, SlicePasses(s, id))
  <2> DEFINE t == Moved(s, id, s.contexts[id].pc + 1)
             u == SetState(t, id, "Ready")
  <2>1. Keeps(s, t)
    BY SetKeeps
  <2> HIDE DEF t
  <2>2. Keeps(t, u)
    BY <2>1, SetKeeps DEF Keeps
  <2> HIDE DEF u
  <2>3. Keeps(u, YieldCurrent(u))
    BY <2>2, YieldKeeps DEF Keeps
  <2>4. SlicePasses(s, id) = YieldCurrent(u)
    BY DEF SlicePasses, t, u
  <2> QED
    BY <2>1, <2>2, <2>3, <2>4, KeepsTrans
<1> QED
  BY <1>1, <1>2, <1>3

LEMMA CreateKeeps ==
  ASSUME NEW s, DOMAIN s = Fields, NEW p, NEW pc, NEW calls
  PROVE  /\ Keeps(s, CreateContext(s, p, pc, calls))
         /\ s.nextId \in DOMAIN CreateContext(s, p, pc, calls).contexts
<1> DEFINE id == s.nextId
           t == SetContext(s, id, NewContext(p, pc, calls))
           u == [t EXCEPT !.nextId = s.nextId + 1]
           v == Enqueue(u, id)
<1>1. Keeps(s, t) /\ id \in DOMAIN t.contexts
  <2>1. id \in DOMAIN t.contexts
    BY DEF SetContext, Fields
  <2> QED
    BY <2>1, SetKeeps
<1> HIDE DEF t
<1>2. Keeps(t, u)
  <2>1. DOMAIN t = Fields
    BY <1>1 DEF Keeps
  <2> QED
    BY <2>1, QueueKeeps
<1>3. CreateContext(s, p, pc, calls) = v
  BY DEF CreateContext, t
<1> HIDE DEF u
<1>4. Keeps(u, v)
  <2>1. DOMAIN u = Fields
    BY <1>2 DEF Keeps
  <2>2. Keeps(u, u) /\ Keeps(u, PushBack(u, u.contexts[id].priority, id))
    BY <2>1, QueueKeeps DEF Keeps
  <2> QED
    BY <2>2 DEF Enqueue
<1> HIDE DEF v
<1> QED
  BY <1>1, <1>2, <1>3, <1>4, KeepsTrans DEF Keeps

LEMMA OthersKeep ==
  ASSUME NEW s, DOMAIN s = Fields
  PROVE  /\ Keeps(s, PickNext(s)) /\ Keeps(s, PickNothing(s)) /\ Keeps(s, MaybePreempt(s))
         /\ \A id : DOMAIN Remove(s, id) = Fields
<1>1. Keeps(s, PickNext(s))
  <2> DEFINE p == PickBand(s)
             q == [r \in Priorities |->
                     IF Rank[r] > Rank[p] THEN <<>>
                     ELSE IF r = p THEN SubSeq(s.queue[p], PickAt(s, p) + 1, Len(s.queue[p]))
                     ELSE s.queue[r]]
             u == [s EXCEPT !.queue = q, !.current = Picked(s)]
  <2> HIDE DEF q
  <2>1. Keeps(s, u)
    BY QueueKeeps
  <2>2. PickNext(s) = SetState(u, Picked(s), "Running")
    BY DEF PickNext, q
  <2> HIDE DEF u
  <2>3. Keeps(u, SetState(u, Picked(s), "Running"))
    BY <2>1, SetKeeps DEF Keeps
  <2> QED
    BY <2>1, <2>2, <2>3, KeepsTrans
<1>2. Keeps(s, PickNothing(s))
  BY QueueKeeps DEF PickNothing
<1>3. Keeps(s, MaybePreempt(s))
  <2>1. Keeps(s, s)
    BY DEF Keeps
  <2> QED
    BY <2>1, YieldKeeps DEF MaybePreempt
<1>4. \A id : DOMAIN Remove(s, id) = Fields
  BY DEF Remove, DequeueId, Fields
<1> QED
  BY <1>1, <1>2, <1>3, <1>4

-----------------------------------------------------------------------------
(* The ring.                                                               *)

\* The heads are where the number of bytes pushed puts them; byte n, as long
\* as it is in `pushed`, is in its cell.
RingOK ==
  /\ past \in Nat /\ ring.head = past % Physical /\ ring.logical = past % Logical
  /\ \A e \in pushed :
       /\ e.from \in Nat /\ e.len \in Nat /\ e.addr = e.from % Logical
       /\ e.from + e.len <= past /\ past <= e.from + Physical
       /\ \A n \in e.from + 1 .. e.from + e.len : ring.buffer[(n - 1) % Physical] = n

\* The distance of the cell of byte n from the head is that of n from the
\* next byte.
LEMMA Distance ==
  ASSUME NEW m \in Nat, NEW n \in Nat
  PROVE  (((n - 1) % Physical) + (Physical - (m % Physical))) % Physical = (n - 1 - m) % Physical
<1>1. Physical \in Nat \ {0}
  BY HostAssumption
<1>2. PICK q \in Int : m = Physical * q + (m % Physical)
  <2>1. m \in Int
    OBVIOUS
  <2> QED
    BY <1>1, <2>1, ModOf
<1> DEFINE h == m % Physical
           c == (n - 1) % Physical
           y == Physical - h
<1>3. h \in 0 .. Physical - 1 /\ c \in 0 .. Physical - 1 /\ n - 1 \in Int
  <2>1. n - 1 \in Int
    OBVIOUS
  <2> QED
    BY <1>1, <2>1, ModOf
<1>4. m = Physical * q + h
  BY <1>2
<1> HIDE DEF h, c
<1>9. y \in Int
  BY <1>1, <1>3
<1>5. (c + y) % Physical = (n - 1 + y) % Physical
  BY <1>1, <1>3, <1>9, ModAdd DEF c
<1>6. n - 1 + y = (n - 1 - m) + Physical * (q + 1) /\ n - 1 - m \in Int /\ q + 1 \in Int
  BY <1>1, <1>3, <1>4
<1>7. ((n - 1 - m) + Physical * (q + 1)) % Physical = (n - 1 - m) % Physical
  BY <1>1, <1>6, ModShift
<1> HIDE DEF y
<1>8. (c + y) % Physical = (n - 1 - m) % Physical
  <2> DEFINE a == n - 1 - m
             z == Physical * (q + 1)
  <2>1. n - 1 + y = a + z /\ (a + z) % Physical = a % Physical
    BY <1>6, <1>7
  <2> HIDE DEF a, z
  <2>2. (n - 1 + y) % Physical = a % Physical
    BY <2>1
  <2> QED
    BY <1>5, <2>2 DEF a
<1> QED
  BY <1>8 DEF y, h, c

LEMMA HeadIs ==
  ASSUME NEW m \in Nat, NEW len \in Nat, len <= Physical
  PROVE  HeadAfter(m % Physical, len) = (m + len) % Physical
<1>1. Physical \in Nat \ {0}
  BY HostAssumption
<1> DEFINE h == m % Physical
<1>2. h \in 0 .. Physical - 1 /\ (h + len) % Physical = (m + len) % Physical
  <2>1. m \in Int /\ len \in Int
    OBVIOUS
  <2> QED
    BY <1>1, <2>1, ModOf, ModAdd
<1> HIDE DEF h
<1>3. CASE h + len <= Physical
  BY <1>2, <1>3 DEF HeadAfter, h
<1>4. CASE ~ (h + len <= Physical)
  <2> DEFINE x == h + len
  <2>1. x \in Int /\ x \in Physical .. 2 * Physical - 1
    BY <1>1, <1>2, <1>4
  <2>2. x % Physical = x - Physical
    <3> HIDE DEF x
    <3>2. x \in Physical .. 2 * Physical - 1 => x % Physical = x - Physical
      BY <1>1, <2>1, ModTurn
    <3> QED
      BY <2>1, <3>2
  <2>3. HeadAfter(h, len) = len - (Physical - h)
    BY <1>4 DEF HeadAfter
  <2>4. len - (Physical - h) = x - Physical
    BY <1>1, <1>2
  <2>5. HeadAfter(h, len) = x % Physical
    BY <2>2, <2>3, <2>4
  <2>6. HeadAfter(h, len) = (m + len) % Physical
    BY <1>2, <2>5
  <2> QED
    BY <2>6 DEF h
<1> QED
  BY <1>3, <1>4

\* What the cell of byte n holds when len bytes have been written.
LEMMA CellIs ==
  ASSUME NEW r, NEW m \in Nat, r.head = m % Physical, NEW len \in Nat, len <= Physical,
         NEW n \in Nat
  PROVE  LET b == Written(r, Data(m, len)).buffer[(n - 1) % Physical]
         IN  /\ n \in m + 1 .. m + len => b = n
             /\ n <= m /\ m + len < n + Physical => b = r.buffer[(n - 1) % Physical]
<1>1. Physical \in Nat \ {0}
  BY HostAssumption
<1> DEFINE k == (n - 1) % Physical
           d == Data(m, len)
           i == ((k + (Physical - r.head)) % Physical) + 1
           b == Written(r, d).buffer[k]
<1>2. k \in 0 .. Physical - 1
  <2>1. n - 1 \in Int
    OBVIOUS
  <2> QED
    BY <1>1, <2>1, ModOf
<1>3. i = ((n - 1 - m) % Physical) + 1
  <2>1. i = ((k + (Physical - (m % Physical))) % Physical) + 1
    OBVIOUS
  <2> QED
    BY <2>1, Distance
<1>4. Len(d) = len /\ \A x \in 1 .. len : d[x] = m + x
  BY DEF Data
<1>5. b = IF i <= Len(d) THEN d[i] ELSE r.buffer[k]
  BY <1>2 DEF Written
<1> HIDE DEF k, d, i, b
<1>6. ASSUME n \in m + 1 .. m + len
      PROVE  b = n
  <2>1. n - 1 - m \in 0 .. Physical - 1 /\ n - 1 - m \in Int
    BY <1>1, <1>6
  <2>2. i = n - m
    <3>1. i = n - 1 - m + 1
      BY <1>1, <1>3, <2>1, ModTurn
    <3> QED
      BY <3>1
  <2>3. i \in 1 .. len /\ m + i = n
    BY <1>6, <2>2
  <2> QED
    BY <1>4, <1>5, <2>3
<1>7. ASSUME n <= m, m + len < n + Physical
      PROVE  b = r.buffer[k]
  <2>1. n - 1 - m \in -Physical .. -1 /\ n - 1 - m \in Int
    BY <1>1, <1>7
  <2>2. i = n - 1 - m + Physical + 1
    BY <1>1, <1>3, <2>1, ModTurn
  <2>3. ~ (i <= len)
    BY <1>1, <1>7, <2>1, <2>2
  <2> QED
    BY <1>4, <1>5, <2>3
<1> QED
  BY <1>6, <1>7 DEF k, d, b

LEMMA PushRing ==
  ASSUME RingOK, NEW len \in Nat, Push(len)
  PROVE  RingOK'
<1>1. Physical \in Nat \ {0} /\ Logical \in Nat \ {0} /\ Logical % Physical = 0
  BY HostAssumption, RingAssumption
<1>2. CASE len > Physical
  <2>1. ring' = ring /\ past' = past /\ pushed' = pushed
    BY <1>2 DEF Push, ringVars
  <2> QED
    BY <2>1 DEF RingOK
<1>3. CASE ~ (len > Physical)
  <2> DEFINE new == [from |-> past, addr |-> ring.logical, len |-> len]
  <2>1. /\ past' = past + len /\ ring' = Written(ring, Data(past, len))
        /\ pushed' = {e \in pushed \cup {new} : past' <= e.from + Physical}
    BY <1>3 DEF Push
  <2>2. len <= Physical /\ past \in Nat
    BY <1>1, <1>3 DEF RingOK
  <2>3. past' \in Nat
    BY <2>1, <2>2
  <2>4. ring'.head = past' % Physical
    <3>1. Len(Data(past, len)) = len
      BY DEF Data
    <3>2. ring'.head = HeadAfter(ring.head, len)
      BY <2>1, <3>1 DEF Written
    <3> QED
      BY <2>1, <2>2, <3>2, HeadIs DEF RingOK
  <2>5. ring'.logical = past' % Logical
    <3>1. Len(Data(past, len)) = len
      BY DEF Data
    <3>2. ring'.logical = (ring.logical + len) % Logical
      BY <2>1, <3>1 DEF Written
    <3>3. ((past % Logical) + len) % Logical = (past + len) % Logical
      <4>1. past \in Int /\ len \in Int
        BY <2>2
      <4> QED
        BY <1>1, <4>1, ModAdd
    <3> QED
      BY <2>1, <3>2, <3>3 DEF RingOK
  <2>6. ASSUME NEW e \in pushed'
        PROVE  /\ e.from \in Nat /\ e.len \in Nat /\ e.addr = e.from % Logical
               /\ e.from + e.len <= past' /\ past' <= e.from + Physical
               /\ \A n \in e.from + 1 .. e.from + e.len : ring'.buffer[(n - 1) % Physical] = n
    <3>1. past' <= e.from + Physical
      BY <2>1
    <3>2. CASE e \in pushed
      <4>1. /\ e.from \in Nat /\ e.len \in Nat /\ e.addr = e.from % Logical
            /\ e.from + e.len <= past
            /\ \A n \in e.from + 1 .. e.from + e.len : ring.buffer[(n - 1) % Physical] = n
        BY <3>2 DEF RingOK
      <4>2. e.from + e.len <= past'
        BY <2>1, <2>2, <4>1
      <4>3. ASSUME NEW n \in e.from + 1 .. e.from + e.len
            PROVE  ring'.buffer[(n - 1) % Physical] = n
        <5>1. n \in Nat /\ n <= past /\ past + len < n + Physical
          BY <1>1, <2>1, <2>2, <3>1, <4>1
        <5>2. ring.head = past % Physical
          BY DEF RingOK
        <5>3. ring'.buffer[(n - 1) % Physical] = ring.buffer[(n - 1) % Physical]
          BY <2>1, <2>2, <5>1, <5>2, CellIs
        <5> QED
          BY <4>1, <5>3
      <4> QED
        BY <3>1, <4>1, <4>2, <4>3
    <3>3. CASE e = new
      <4>1. e.from = past /\ e.len = len /\ e.addr = past % Logical
        BY <3>3 DEF RingOK
      <4>2. ASSUME NEW n \in past + 1 .. past + len
            PROVE  ring'.buffer[(n - 1) % Physical] = n
        <5>1. n \in Nat
          BY <2>2
        <5>2. ring.head = past % Physical
          BY DEF RingOK
        <5> QED
          BY <2>1, <2>2, <5>1, <5>2, CellIs
      <4>3. past + len <= past'
        BY <2>1, <2>2
      <4> QED
        BY <2>2, <3>1, <4>1, <4>2, <4>3
    <3> QED
      BY <2>1, <3>2, <3>3
  <2> QED
    BY <2>3, <2>4, <2>5, <2>6 DEF RingOK
<1> QED
  BY <1>2, <1>3

LEMMA RingReads ==
  ASSUME RingOK
  PROVE  TemporalReadsBack
<1>1. Physical \in Nat \ {0} /\ Logical \in Nat \ {0} /\ Logical % Physical = 0
  BY HostAssumption, RingAssumption
<1>2. ASSUME NEW e \in pushed
      PROVE  TemporalRead(ring, e.addr, e.len) = Data(e.from, e.len)
  <2>1. /\ e.from \in Nat /\ e.len \in Nat /\ e.addr = e.from % Logical
        /\ \A n \in e.from + 1 .. e.from + e.len : ring.buffer[(n - 1) % Physical] = n
    BY DEF RingOK
  <2>2. ASSUME NEW i \in 1 .. e.len
        PROVE  ring.buffer[(e.addr + i - 1) % Physical] = e.from + i
    <3> DEFINE n == e.from + i
    <3>1. n \in e.from + 1 .. e.from + e.len /\ i - 1 \in Int /\ e.from + (i - 1) = n - 1
      BY <2>1
    <3> HIDE DEF n
    <3>2. ((e.from % Logical) + (i - 1)) % Physical = (e.from + (i - 1)) % Physical
      <4>1. e.from \in Int
        BY <2>1
      <4> QED
        BY ONLY <1>1, <3>1, <4>1, ModOfMod, ZenonT(30)
    <3>3. e.addr + i - 1 = (e.from % Logical) + (i - 1)
      <4>1. e.from \in Int
        BY <2>1
      <4>2. e.from % Logical \in 0 .. Logical - 1
        BY <1>1, <4>1, ModOf
      <4>3. \A a \in 0 .. Logical - 1 : a + i - 1 = a + (i - 1)
        BY <1>1
      <4> QED
        BY <2>1, <4>2, <4>3
    <3> QED
      BY <2>1, <3>1, <3>2, <3>3 DEF n
  <2> QED
    BY <2>2 DEF TemporalRead, Data
<1> QED
  BY <1>2 DEF TemporalReadsBack

-----------------------------------------------------------------------------
(* Where a rollback goes.                                                  *)

\* Sample i is the last of the highest among the first n.
Highest(h, i, n) ==
  \A j \in 1 .. n : h[j].level < h[i].level \/ (h[j].level = h[i].level /\ j <= i)

LEMMA HighestMore ==
  ASSUME NEW h \in Seq(Samples), NEW n \in 1 .. Len(h) - 1, NEW i \in 1 .. n, Highest(h, i, n)
  PROVE  \E k \in 1 .. n + 1 : Highest(h, k, n + 1)
<1> DEFINE t == n + 1
<1>1. n \in Nat /\ t \in 1 .. Len(h) /\ i \in 1 .. t /\ t \in 1 .. t
  OBVIOUS
<1>2. \A j \in 1 .. t : (j \in 1 .. n \/ j = t) /\ j <= t /\ j \in 1 .. Len(h)
  OBVIOUS
<1> HIDE DEF t
<1>3. \A j \in 1 .. t : h[j].level \in Nat
  <2>1. \A j \in 1 .. t : h[j] \in Samples
    BY <1>2
  <2> QED
    BY <2>1 DEF Samples
<1>4. CASE h[t].level < h[i].level
  <2>1. Highest(h, i, t)
    BY <1>2, <1>4 DEF Highest
  <2> QED
    BY <1>1, <2>1 DEF t
<1>5. CASE ~ (h[t].level < h[i].level)
  <2>1. ASSUME NEW j \in 1 .. t, j \in 1 .. n
        PROVE  h[j].level < h[t].level \/ h[j].level = h[t].level
    <3>1. h[j].level < h[i].level \/ h[j].level = h[i].level
      BY <2>1 DEF Highest
    <3>2. h[j].level \in Nat /\ h[i].level \in Nat /\ h[t].level \in Nat
      BY <1>1, <1>3
    <3> QED
      BY <1>5, <3>1, <3>2
  <2>2. Highest(h, t, t)
    BY <1>2, <2>1 DEF Highest
  <2> QED
    BY <1>1, <2>2 DEF t
<1> QED
  BY <1>4, <1>5

LEMMA PeakIs ==
  ASSUME NEW h \in Seq(Samples), h # <<>>
  PROVE  Peak(h) \in Samples
<1> DEFINE T == {n \in 1 .. Len(h) : ~ \E i \in 1 .. n : Highest(h, i, n)}
<1>1. Len(h) \in Nat \ {0} /\ DOMAIN h = 1 .. Len(h)
  OBVIOUS
<1>2. \A i \in 1 .. Len(h) : h[i] \in Samples
  BY <1>1
<1>3. T = {}
  <2> SUFFICES ASSUME T # {}
               PROVE  FALSE
    OBVIOUS
  <2>1. T \in SUBSET Nat
    OBVIOUS
  <2>2. \A n \in 1 .. Len(h) : n \in T <=> ~ \E i \in 1 .. n : Highest(h, i, n)
    OBVIOUS
  <2>3. T \subseteq 1 .. Len(h)
    OBVIOUS
  <2> HIDE DEF T
  <2>4. PICK t \in T : \A m \in T : t <= m
    BY <2>1, Least
  <2>5. CASE t = 1
    <3>1. Highest(h, 1, 1)
      BY DEF Highest
    <3> QED
      BY <1>1, <2>2, <2>3, <2>5, <3>1
  <2>6. CASE t # 1
    <3> DEFINE n == t - 1
    <3>1. /\ n \in 1 .. Len(h) /\ n \in 1 .. Len(h) - 1 /\ ~ (t <= n) /\ n + 1 = t
          /\ t \in 1 .. Len(h)
      BY <1>1, <2>3, <2>6
    <3> HIDE DEF n
    <3>2. n \notin T
      BY <2>4, <3>1
    <3>3. \E i \in 1 .. n : Highest(h, i, n)
      BY <2>2, <3>1, <3>2
    <3>4. \E k \in 1 .. n + 1 : Highest(h, k, n + 1)
      BY <3>1, <3>3, HighestMore
    <3> QED
      BY <2>2, <2>4, <3>1, <3>4
  <2> QED
    BY <2>5, <2>6
<1>4. Len(h) \in 1 .. Len(h)
  BY <1>1
<1>5. \E i \in 1 .. Len(h) : Highest(h, i, Len(h))
  BY <1>3, <1>4
<1> QED
  BY <1>1, <1>2, <1>5 DEF Peak, Highest

LEMMA TargetIs ==
  ASSUME NEW h, NEW out \in Seq(Tokens), Heard(h, out)
  PROVE  TargetIndex(h, Len(out)) \in Nat
<1>1. FallbackOffset \in Nat /\ Len(out) \in Nat
  BY HostAssumption
<1>2. \A n, d \in Nat : Before(n, d) \in Nat
  BY DEF Before
<1>3. h # <<>> => Peak(h).token \in Nat
  <2>1. h # <<>> => Peak(h) \in Samples
    BY PeakIs DEF Heard
  <2> QED
    BY <2>1 DEF Samples
<1> QED
  BY <1>1, <1>2, <1>3 DEF TargetIndex

\* Behind the chosen checkpoint there are only late ones; a late one is chosen
\* when all are.
LEMMA ChosenIs ==
  ASSUME NEW cps, NEW out, NEW v, Noted(cps, out, v), cps # <<>>, NEW target \in Nat
  PROVE  LET c == Chosen(cps, target)
         IN  /\ c \in Range(cps)
             /\ \A d \in Range(cps) : d.version > c.version => d.tokenIdx > target
             /\ c.tokenIdx > target => \A d \in Range(cps) : d.tokenIdx > target
<1> DEFINE fits == {i \in DOMAIN cps : cps[i].tokenIdx <= target}
           c == Chosen(cps, target)
<1>1. cps \in Seq(Marks) /\ Len(cps) \in Nat \ {0} /\ DOMAIN cps = 1 .. Len(cps)
  BY DEF Noted
<1>2. \A i \in DOMAIN cps : cps[i].version \in Nat /\ cps[i].tokenIdx \in Nat
  BY NotedAt
<1>3. \A d \in Range(cps) : \E i \in DOMAIN cps : d = cps[i]
  BY DEF Range
<1>4. CASE fits = {}
  <2>1. c = cps[1] /\ 1 \in DOMAIN cps
    BY <1>1, <1>4 DEF Chosen
  <2>2. \A i \in DOMAIN cps : cps[i].tokenIdx > target
    BY <1>2, <1>4
  <2>3. c \in Range(cps)
    BY <2>1 DEF Range
  <2> HIDE DEF c
  <2> QED
    BY <1>3, <2>2, <2>3 DEF c
<1>5. CASE fits # {}
  <2>1. fits \in SUBSET (1 .. Len(cps))
    BY <1>1
  <2> DEFINE m == CHOOSE i \in fits : \A j \in fits : j <= i
  <2>2. c = cps[m]
    BY <1>5 DEF Chosen
  <2> HIDE DEF c
  <2>3. m \in fits /\ \A j \in fits : j <= m
    <3> HIDE DEF fits
    <3>1. \E i \in fits : \A j \in fits : j <= i
      BY <1>1, <1>5, <2>1, Greatest
    <3> QED
      BY <3>1
  <2> HIDE DEF m
  <2>4. m \in DOMAIN cps /\ c.tokenIdx <= target
    BY <2>2, <2>3
  <2>5. ASSUME NEW i \in DOMAIN cps, cps[i].version > c.version
        PROVE  cps[i].tokenIdx > target
    <3>1. ~ (i <= m)
      <4>1. i # m
        BY <1>2, <2>2, <2>5
      <4>2. ~ (i < m)
        BY <1>2, <2>2, <2>4, <2>5 DEF Noted
      <4> QED
        BY <1>1, <2>4, <4>1, <4>2
    <3>2. i \notin fits
      BY <2>3, <3>1
    <3> QED
      BY <1>2, <3>2
  <2>6. c \in Range(cps)
    BY <2>2, <2>4 DEF Range
  <2>7. ~ (c.tokenIdx > target)
    BY <1>2, <2>2, <2>4
  <2> QED
    BY <1>3, <2>5, <2>6, <2>7 DEF c
<1> QED
  BY <1>4, <1>5

-----------------------------------------------------------------------------
(* The inductive invariant.                                                *)

HistoryOK ==
  /\ output \in Seq(Tokens) /\ version \in Nat
  /\ Noted(checkpoints, output, version) /\ Len(checkpoints) <= HostWindow
  /\ Heard(entropies, output)

\* The images retained are those of the newest versions.
SavedOK == DOMAIN saved = {w \in 1 .. version : w + Window > version}

\* A generation has a context to go back with.
TableOK == DOMAIN sched = Fields /\ (generating => DOMAIN sched.contexts # {})

IInv ==
  /\ program \in Programs
  /\ HistoryOK /\ SavedOK /\ TableOK /\ RingOK

LEMMA InitOK == HostInit => IInv
<1> SUFFICES ASSUME HostInit
             PROVE  IInv
  OBVIOUS
<1>1. HistoryOK
  <2>1. <<>> \in Seq(Tokens) /\ <<>> \in Seq(Marks) /\ <<>> \in Seq(Samples)
        /\ Len(<<>>) = 0 /\ DOMAIN <<>> = {}
    OBVIOUS
  <2>2. HostWindow \in Nat
    BY HostAssumption
  <2> QED
    BY <2>1, <2>2 DEF HostInit, HistoryOK, Noted, Heard
<1>2. SavedOK
  BY DEF HostInit, SavedOK
<1>3. TableOK
  <2>1. DOMAIN NewScheduler = Fields
    BY DEF NewScheduler, Fields
  <2> QED
    BY <2>1, CreateKeeps DEF HostInit, TableOK, Keeps
<1>4. RingOK
  <2>1. Physical \in Nat \ {0} /\ Logical \in Nat \ {0} /\ 0 \in Int
    BY HostAssumption, RingAssumption
  <2>2. 0 % Physical = 0 /\ 0 % Logical = 0
    BY <2>1, ModTurn
  <2> QED
    BY <2>2 DEF HostInit, RingOK
<1> QED
  BY <1>1, <1>2, <1>3, <1>4 DEF HostInit, IInv

LEMMA ProgramStays == IInv /\ [HostNext]_vars => (program \in Programs)'
BY DEF IInv, HostNext, vars, Prompt, Interrupt, Begin, End, Idle, Pick, NoDispatch, Halt, Nop,
       Other, Compute, Branch, CtxSwitch, Sample, Decode, Stream, Fork, Abort, Sense, BackToTop

\* What the actions do to the ring, and to history.
RingStep == UNCHANGED ringVars \/ \E len \in Nat : Push(len)

LEMMA RingSteps == [HostNext]_vars => RingStep
<1> SUFFICES ASSUME [HostNext]_vars
             PROVE  RingStep
  OBVIOUS
<1>1. PromptLengths \subseteq Nat
  BY HostAssumption
<1>2. CASE UNCHANGED vars
  BY <1>2 DEF RingStep, vars
<1>3. ASSUME NEW len \in PromptLengths, Interrupt(len)
      PROVE  RingStep
  <2>1. CASE checkpoints = <<>>
    BY <1>1, <1>3, <2>1 DEF RingStep, Interrupt
  <2>2. CASE checkpoints # <<>>
    BY <1>1, <1>3, <2>2 DEF RingStep, Interrupt, RollBack
  <2> QED
    BY <2>1, <2>2
<1>4. ASSUME NEW len \in PromptLengths, Begin(len)
      PROVE  RingStep
  BY <1>1, <1>4 DEF RingStep, Begin
<1>5. CASE Sense
  BY <1>5 DEF RingStep, Sense
<1>6. CASE \/ End \/ Idle \/ Pick \/ NoDispatch \/ Halt \/ Nop \/ Other \/ Compute
           \/ Branch \/ CtxSwitch \/ Sample \/ Decode \/ Stream \/ Fork \/ Abort
  BY <1>6 DEF RingStep, End, Idle, Pick, NoDispatch, Halt, Nop, Other, Compute, Branch,
              CtxSwitch, Sample, Decode, Stream, Fork, Abort
<1> QED
  BY <1>2, <1>3, <1>4, <1>5, <1>6 DEF HostNext, Prompt

LEMMA RingStays == IInv /\ [HostNext]_vars => RingOK'
<1> SUFFICES ASSUME RingOK, RingStep
             PROVE  RingOK'
  BY RingSteps DEF IInv
<1>1. CASE UNCHANGED ringVars
  BY <1>1 DEF ringVars, RingOK
<1>2. CASE \E len \in Nat : Push(len)
  BY <1>2, PushRing
<1> QED
  BY <1>1, <1>2 DEF RingStep

\* What an action does to a generation.
HistorySame == UNCHANGED <<output, checkpoints, entropies, version, saved>>

HistoryBegun ==
  output' = <<>> /\ checkpoints' = <<>> /\ entropies' = <<>> /\ UNCHANGED <<version, saved>>

HistoryBack ==
  /\ checkpoints # <<>>
  /\ LET c == Chosen(checkpoints, TargetIndex(entropies, Len(output)))
     IN  /\ output' = SubSeq(output, 1, c.tokenIdx)
         /\ checkpoints' = RetainedUpTo(checkpoints, c.tokenIdx)
  /\ entropies' = <<>> /\ UNCHANGED <<version, saved>>

\* A token or none, its entropy or none.
HistoryMore ==
  /\ UNCHANGED output \/ \E token \in Tokens : output' = Append(output, token)
  /\ UNCHANGED entropies \/ \E level \in Levels : Sampled(level)
  /\ UNCHANGED <<checkpoints, version, saved>>

HistorySteps == HistorySame \/ HistoryBegun \/ HistoryBack \/ HistoryMore \/ Fork

LEMMA HistoryStep == [HostNext]_vars => HistorySteps
<1> SUFFICES ASSUME [HostNext]_vars
             PROVE  HistorySteps
  OBVIOUS
<1>1. CASE UNCHANGED vars
  BY <1>1 DEF HistorySteps, HistorySame, vars, genVars, memVars
<1>2. ASSUME NEW len \in PromptLengths, Interrupt(len)
      PROVE  HistorySteps
  <2>1. CASE checkpoints = <<>>
    BY <1>2, <2>1 DEF HistorySteps, HistorySame, Interrupt, genVars, memVars
  <2>2. CASE checkpoints # <<>>
    BY <1>2, <2>2 DEF HistorySteps, HistorySame, HistoryBack, Interrupt, RollBack, genVars, memVars
  <2> QED
    BY <2>1, <2>2
<1>3. ASSUME NEW len \in PromptLengths, Begin(len)
      PROVE  HistorySteps
  BY <1>3 DEF HistorySteps, HistoryBegun, Begin, memVars
<1>4. CASE Sample \/ Decode \/ Stream
  BY <1>4 DEF HistorySteps, HistoryMore, Sample, Decode, Stream, memVars
<1>5. CASE Fork
  BY <1>5 DEF HistorySteps
<1>6. CASE \/ End \/ Idle \/ Pick \/ NoDispatch \/ Halt \/ Nop \/ Other \/ Compute
           \/ Branch \/ CtxSwitch \/ Abort \/ Sense
  BY <1>6 DEF HistorySteps, HistorySame, End, Idle, Pick, NoDispatch, Halt, Nop, Other, Compute,
              Branch, CtxSwitch, Abort, Sense, genVars, memVars
<1> QED
  BY <1>1, <1>2, <1>3, <1>4, <1>5, <1>6 DEF HostNext, Prompt

\* Over an output of one or more tokens than there are, all stays as it is.
LEMMA HistoryGrows ==
  ASSUME HistoryOK, HistoryMore
  PROVE  HistoryOK'
<1>1. /\ output \in Seq(Tokens) /\ Len(output) \in Nat
      /\ Noted(checkpoints, output, version) /\ Heard(entropies, output)
  BY DEF HistoryOK
<1>2. output' \in Seq(Tokens) /\ Len(output) <= Len(output') /\ Len(output') \in Nat
  <2>1. CASE UNCHANGED output
    BY <1>1, <2>1
  <2>2. CASE \E token \in Tokens : output' = Append(output, token)
    BY <1>1, <2>2
  <2> QED
    BY <2>1, <2>2 DEF HistoryMore
<1>3. Noted(checkpoints, output', version)
  <2>1. CASE \E token \in Tokens : output' = Append(output, token)
    BY <1>1, <2>1, NotedMore
  <2> QED
    BY <1>1, <2>1 DEF HistoryMore
<1>4. Heard(entropies', output')
  <2>1. CASE UNCHANGED entropies
    <3>1. \A i \in DOMAIN entropies : entropies[i] \in Samples
      BY <1>1 DEF Heard
    <3>2. \A i \in DOMAIN entropies : entropies[i].token \in Nat
      BY <3>1 DEF Samples
    <3>3. \A i \in DOMAIN entropies : entropies[i].token <= Len(output')
      BY <1>1, <1>2, <3>2 DEF Heard
    <3> QED
      BY <1>1, <2>1, <3>3 DEF Heard
  <2>2. CASE \E level \in Levels : Sampled(level)
    BY <1>1, <1>2, <2>2, HeardMore DEF Sampled
  <2> QED
    BY <2>1, <2>2 DEF HistoryMore
<1> QED
  BY <1>2, <1>3, <1>4 DEF HistoryOK, HistoryMore

LEMMA HistoryForks ==
  ASSUME program \in Programs, HistoryOK, SavedOK, Fork
  PROVE  HistoryOK' /\ SavedOK'
<1> DEFINE v     == version + 1
           entry == IF Instr.target # 0 THEN Instr.target ELSE Self.pc + 1
<1>1. /\ output \in Seq(Tokens) /\ version \in Nat /\ v \in Nat
      /\ Noted(checkpoints, output, version) /\ Heard(entropies, output)
  BY DEF HistoryOK
<1>2. entry \in Nat
  <2>1. /\ Self.pc \in DOMAIN program /\ DOMAIN program = 1 .. Len(program)
        /\ IsInstruction(Instr) /\ Instr.op = "FORK"
    BY HostAssumption DEF Fork, Fetched, Instr
  <2>2. Len(program) \in Nat /\ Self.pc + 1 \in Nat
    BY <2>1
  <2>3. Instr.target \in Nat
    BY <2>1 DEF IsInstruction
  <2> QED
    BY <2>2, <2>3
<1>3. /\ version' = v /\ output' = output /\ entropies' = entropies
      /\ checkpoints' = Newest(Append(checkpoints,
                                      [version |-> v, pc |-> entry,
                                       tokenIdx |-> Len(output), said |-> output]), HostWindow)
      /\ saved' = KeptImages([w \in DOMAIN saved \cup {v} |->
                              IF w = v THEN heap ELSE saved[w]], v)
  BY DEF Fork
<1> HIDE DEF entry
<1>4. HistoryOK'
  <2>1. Noted(checkpoints', output, version + 1) /\ Len(checkpoints') <= HostWindow
    BY <1>1, <1>2, <1>3, NotedFork
  <2> QED
    BY <1>1, <1>3, <2>1 DEF HistoryOK
<1>5. SavedOK'
  <2>1. DOMAIN saved' = {w \in DOMAIN saved \cup {v} : w + Window > v}
    BY <1>3 DEF KeptImages, Restrict
  <2>2. DOMAIN saved = {w \in 1 .. version : w + Window > version}
    BY DEF SavedOK
  <2>3. Window \in Nat \ {0}
    BY HostAssumption
  <2>4. ASSUME NEW w
        PROVE  w \in DOMAIN saved' <=> w \in {x \in 1 .. v : x + Window > v}
    BY <1>1, <2>1, <2>2, <2>3
  <2> QED
    BY <1>3, <2>4 DEF SavedOK
<1> QED
  BY <1>4, <1>5

LEMMA HistoryStays == IInv /\ [HostNext]_vars => HistoryOK' /\ SavedOK'
<1> SUFFICES ASSUME program \in Programs, HistoryOK, SavedOK, HistorySteps
             PROVE  HistoryOK' /\ SavedOK'
  BY HistoryStep DEF IInv
<1>0. HostWindow \in Nat
  BY HostAssumption
<1>1. CASE HistorySame
  BY <1>1 DEF HistorySame, HistoryOK, SavedOK
<1>2. CASE HistoryBegun
  <2>1. <<>> \in Seq(Tokens) /\ <<>> \in Seq(Marks) /\ <<>> \in Seq(Samples)
        /\ Len(<<>>) = 0 /\ DOMAIN <<>> = {}
    OBVIOUS
  <2>2. HistoryOK'
    BY <1>0, <1>2, <2>1 DEF HistoryBegun, HistoryOK, Noted, Heard
  <2> QED
    BY <1>2, <2>2 DEF HistoryBegun, SavedOK
<1>3. CASE HistoryBack
  <2> DEFINE target == TargetIndex(entropies, Len(output))
             c == Chosen(checkpoints, target)
  <2>1. target \in Nat
    BY TargetIs DEF HistoryOK
  <2> HIDE DEF target
  <2>2. c \in Range(checkpoints)
    BY <1>3, <2>1, ChosenIs DEF HistoryOK, HistoryBack
  <2>3. /\ output' = SubSeq(output, 1, c.tokenIdx) /\ version' = version /\ saved' = saved
        /\ checkpoints' = RetainedUpTo(checkpoints, c.tokenIdx) /\ entropies' = <<>>
    BY <1>3 DEF HistoryBack, target
  <2> HIDE DEF c
  <2>4. /\ c.tokenIdx \in 0 .. Len(output) /\ Noted(checkpoints', output', version)
        /\ Len(checkpoints') <= Len(checkpoints) /\ checkpoints' \in Seq(Marks)
    <3>1. output \in Seq(Tokens) /\ Noted(checkpoints, output, version)
      BY DEF HistoryOK
    <3>2. /\ c.tokenIdx \in 0 .. Len(output) /\ Noted(checkpoints', output', version)
          /\ Len(checkpoints') <= Len(checkpoints)
      BY <2>2, <2>3, <3>1, NotedBack
    <3> QED
      BY <3>2 DEF Noted
  <2>5. output' \in Seq(Tokens)
    BY <2>3, <2>4, PrefixIs DEF HistoryOK
  <2>6. Len(checkpoints') <= HostWindow
    <3>1. Len(checkpoints') \in Nat /\ Len(checkpoints) \in Nat
      BY <2>4 DEF HistoryOK, Noted
    <3> QED
      BY <1>0, <2>4, <3>1 DEF HistoryOK
  <2>7. Heard(entropies', output')
    BY <2>3 DEF Heard
  <2> QED
    BY <2>3, <2>4, <2>5, <2>6, <2>7 DEF HistoryOK, SavedOK
<1>4. CASE HistoryMore
  BY <1>4, HistoryGrows DEF HistoryMore, SavedOK
<1>5. CASE Fork
  BY <1>5, HistoryForks
<1> QED
  BY <1>1, <1>2, <1>3, <1>4, <1>5 DEF HistorySteps

\* What an action does to the table: nobody is lost; or what is left is looked
\* at; or it ends a generation or begins one.
KeepStep  == Keeps(sched, sched') /\ UNCHANGED generating
OverStep  == DOMAIN sched' = Fields /\ Over(sched')
IdleStep  == DOMAIN sched' = Fields /\ generating' = FALSE
BeginStep == DOMAIN sched' = Fields /\ DOMAIN sched'.contexts # {}

LEMMA OverSteps ==
  ASSUME DOMAIN sched = Fields,
         \/ Halt \/ Other \/ Compute \/ Branch \/ CtxSwitch \/ Sample \/ Decode \/ Stream
         \/ Fork \/ Abort \/ Sense
  PROVE  OverStep
<1>1. ASSUME NEW s, DOMAIN s = Fields
      PROVE  /\ \A b : Advance(s, b) => OverStep
             /\ Fail(s) => OverStep
  BY <1>1, SliceKeeps DEF Advance, Fail, OverStep, Keeps
<1>2. CASE Halt
  <2>1. DOMAIN SetState(sched, Running, "Terminated") = Fields
    BY SetKeeps DEF Keeps
  <2>2. DOMAIN YieldCurrent(SetState(sched, Running, "Terminated")) = Fields
    BY <2>1, YieldKeeps DEF Keeps
  <2> QED
    BY <1>2, <2>2 DEF Halt, OverStep
<1>3. CASE Other \/ Compute \/ Sample \/ Decode \/ Stream \/ Sense
  BY <1>1, <1>3 DEF Other, Compute, Sample, Decode, Stream, Sense
<1>4. CASE Branch
  <2>1. \A a : DOMAIN Moved(sched, Running, a) = Fields
    BY SetKeeps DEF Keeps
  <2>2. \A a : JumpTo(a) => OverStep
    BY <1>1, <2>1 DEF JumpTo
  <2> QED
    BY <1>1, <1>4, <2>2 DEF Branch
<1>5. CASE CtxSwitch
  <2> DEFINE c == [Self EXCEPT !.priority = Instr.prio]
  <2>1. \A x : DOMAIN SetContext(sched, Running, x) = Fields
    BY SetKeeps DEF Keeps
  <2>2. \A x : DOMAIN MaybePreempt(SetContext(sched, Running, x)) = Fields
    BY <2>1, OthersKeep DEF Keeps
  <2>3. Fail(sched) \/ Advance(MaybePreempt(SetContext(sched, Running, c)), TRUE)
    BY <1>5 DEF CtxSwitch
  <2> HIDE DEF c
  <2> QED
    BY <1>1, <2>2, <2>3
<1>6. CASE Fork
  <2> DEFINE entry == IF Instr.target # 0 THEN Instr.target ELSE Self.pc + 1
  <2>1. Advance(CreateContext(sched, Instr.prio, entry, <<>>), TRUE)
    BY <1>6 DEF Fork
  <2> HIDE DEF entry
  <2>2. DOMAIN CreateContext(sched, Instr.prio, entry, <<>>) = Fields
    BY CreateKeeps DEF Keeps
  <2> QED
    BY <1>1, <2>1, <2>2
<1>7. CASE Abort
  <2>1. \A id : DOMAIN Remove(sched, id) = Fields
    BY OthersKeep
  <2>2. Advance(sched, TRUE) \/ \E id \in 0 .. sched.nextId : Advance(Remove(sched, id), TRUE)
    BY <1>7 DEF Abort
  <2> QED
    BY <1>1, <2>1, <2>2
<1> QED
  BY <1>2, <1>3, <1>4, <1>5, <1>6, <1>7

LEMMA RewoundKeeps ==
  ASSUME NEW s, DOMAIN s = Fields, NEW pc, NEW t \in Rewound(s, pc)
  PROVE  /\ Keeps(s, t)
         /\ DOMAIN s.contexts # {} => \E id \in DOMAIN t.contexts : t.contexts[id].pc = pc
<1>1. PICK id : /\ t = Moved(s, id, pc)
                /\ DOMAIN s.contexts # {} => id \in DOMAIN s.contexts
  BY DEF Rewound, Known
<1>2. Keeps(s, t)
  BY <1>1, SetKeeps
<1>3. ASSUME DOMAIN s.contexts # {}
      PROVE  id \in DOMAIN t.contexts /\ t.contexts[id].pc = pc
  <2>1. id \in DOMAIN s.contexts
    BY <1>1, <1>3
  <2> DEFINE c == [s.contexts[id] EXCEPT !.pc = pc]
  <2>2. t = SetContext(s, id, c)
    BY <1>1, <2>1 DEF Moved, Known
  <2> HIDE DEF c
  <2>3. t.contexts = [i \in DOMAIN s.contexts \cup {id} |-> IF i = id THEN c ELSE s.contexts[i]]
    BY <2>2 DEF SetContext, Fields
  <2>4. id \in DOMAIN t.contexts /\ t.contexts[id] = c
    BY <2>3
  <2> QED
    BY <2>4 DEF c
<1> QED
  BY <1>2, <1>3

LEMMA TableStays == IInv /\ [HostNext]_vars => TableOK'
<1> SUFFICES ASSUME TableOK, [HostNext]_vars
             PROVE  TableOK'
  BY DEF IInv
<1>0. DOMAIN sched = Fields /\ Keeps(sched, sched)
  BY DEF TableOK, Keeps
<1>1. CASE UNCHANGED vars \/ End
  BY <1>0, <1>1 DEF vars, genVars, End, TableOK
<1>2. ASSUME NEW len \in PromptLengths, Interrupt(len)
      PROVE  KeepStep
  <2>1. CASE UNCHANGED sched
    BY <1>0, <1>2, <2>1 DEF KeepStep, Interrupt, RollBack, genVars
  <2>2. CASE ~ UNCHANGED sched
    <3>1. (\E pc : sched' \in Rewound(sched, pc)) /\ UNCHANGED generating
      BY <1>2, <2>2 DEF Interrupt, RollBack
    <3> QED
      BY <1>0, <3>1, RewoundKeeps DEF KeepStep
  <2> QED
    BY <2>1, <2>2
<1>3. ASSUME NEW len \in PromptLengths, Begin(len)
      PROVE  BeginStep
  <2>1. sched' = Begun(sched)
    BY <1>3 DEF Begin
  <2>2. CASE NoneActive(sched)
    <3>1. sched' = CreateContext(sched, "Green", 1, <<>>)
      BY <2>1, <2>2 DEF Begun
    <3> QED
      BY <1>0, <3>1, CreateKeeps DEF Keeps, BeginStep
  <2>3. CASE ~ NoneActive(sched)
    <3>1. DOMAIN sched.contexts # {}
      BY <2>3 DEF NoneActive
    <3>2. Keeps(sched, SetState(sched, 1, "Ready"))
      BY <1>0, SetKeeps
    <3>3. Keeps(sched, Moved(SetState(sched, 1, "Ready"), 1, 1))
      BY <3>2, SetKeeps, KeepsTrans DEF Keeps
    <3>4. sched' \in {Moved(SetState(sched, 1, "Ready"), 1, 1), sched}
      BY <2>1, <2>3 DEF Begun
    <3>5. Keeps(sched, sched')
      BY <1>0, <3>3, <3>4
    <3> QED
      BY <3>1, <3>5 DEF Keeps, BeginStep
  <2> QED
    BY <2>2, <2>3
<1>4. CASE Idle
  <2>1. IdleStep
    BY <1>0, <1>4, OthersKeep DEF Idle, IdleStep, Keeps
  <2> QED
    BY <2>1 DEF IdleStep, TableOK
<1>5. CASE Pick \/ NoDispatch \/ Nop
  <2>1. KeepStep
    BY <1>0, <1>5, OthersKeep, SetKeeps, SliceKeeps DEF Pick, NoDispatch, Nop, KeepStep, genVars
  <2> QED
    BY <2>1 DEF KeepStep, Keeps, TableOK
<1>6. CASE \/ Halt \/ Other \/ Compute \/ Branch \/ CtxSwitch \/ Sample \/ Decode \/ Stream
           \/ Fork \/ Abort \/ Sense
  <2>1. OverStep
    BY <1>0, <1>6, OverSteps
  <2>2. generating' => DOMAIN sched'.contexts # {}
    BY <2>1 DEF OverStep, Over, NoneActive
  <2> QED
    BY <2>1, <2>2 DEF OverStep, TableOK
<1>7. KeepStep => TableOK'
  BY DEF KeepStep, Keeps, TableOK
<1>8. BeginStep => TableOK'
  BY DEF BeginStep, TableOK
<1> QED
  BY <1>1, <1>2, <1>3, <1>4, <1>5, <1>6, <1>7, <1>8 DEF HostNext, Prompt

THEOREM Invariant == HostSpec => []IInv
<1>1. HostInit => IInv
  BY InitOK
<1>2. IInv /\ [HostNext]_vars => IInv'
  BY ProgramStays, HistoryStays, TableStays, RingStays DEF IInv
<1> QED
  BY <1>1, <1>2, PTL DEF HostSpec

-----------------------------------------------------------------------------
(* What follows.                                                           *)

\* Every checkpoint of the list is a point of this very output, in order, and
\* the list is no longer than its window (src/src/main.rs:459).
THEOREM CheckpointsStayPrefixes == HostSpec => []CheckpointsArePrefixes
<1>1. IInv => CheckpointsArePrefixes
  <2> SUFFICES ASSUME HistoryOK
               PROVE  CheckpointsArePrefixes
    BY DEF IInv
  <2> QED
    BY DEF HistoryOK, Noted, Heard, CheckpointsArePrefixes
<1> QED
  BY <1>1, Invariant, PTL

\* What temporal_push answered reads back what was pushed until the ring comes
\* round to it, whatever the sizes of ring and logical space, one being a
\* multiple of the other (src/src/memory.rs:816).
THEOREM PushedReadsBack == HostSpec => []TemporalReadsBack
<1>1. IInv => TemporalReadsBack
  BY RingReads DEF IInv
<1> QED
  BY <1>1, Invariant, PTL

\* The images retained and the choice agree: an image that is gone was older
\* than each that is there.
LEMMA OlderIsGone ==
  ASSUME SavedOK, version \in Nat, NEW x \in Nat, NEW y \in Nat,
         x \notin DOMAIN saved, y \in DOMAIN saved, x <= version
  PROVE  y > x
<1>1. Window \in Nat \ {0}
  BY HostAssumption
<1>2. y \in 1 .. version /\ y + Window > version
  BY DEF SavedOK
<1>3. x = 0 \/ ~ (x + Window > version)
  BY DEF SavedOK
<1> QED
  BY <1>1, <1>2, <1>3

\* A rollback is whole or it is nothing (docs/RFC-0003-RETENTION.md,
\* RFC-0011): a prompt typed into a generation takes image, output, pc and
\* checkpoints to the one FORK chosen, or changes none of them.
THEOREM RollbackIsWhole == HostSpec => RollbackAllOrNothing
<1> DEFINE target == TargetIndex(entropies, Len(output))
           late == {d \in Range(checkpoints) : d.tokenIdx > target}
           Back(c) == /\ c.version \in DOMAIN saved
                      /\ heap' = saved[c.version] /\ output' = c.said /\ entropies' = <<>>
                      /\ \E id \in DOMAIN sched'.contexts : sched'.contexts[id].pc = c.pc
                      /\ checkpoints' = SubSeq(checkpoints, 1, Len(checkpoints'))
                      /\ c \in Range(checkpoints')
                      /\ \A d \in Range(checkpoints) : d.version > c.version => d \in late
                      /\ c \in late => Range(checkpoints) = late
           Nothing == /\ UNCHANGED <<sched, genVars, memVars>>
                      /\ \A d \in Range(checkpoints) : d.version \in DOMAIN saved => d \in late
                      /\ checkpoints # <<>> =>
                           \E d \in Range(checkpoints) : d.version \notin DOMAIN saved
<1>0. AllOrNothing <=> (\E c \in Range(checkpoints) : Back(c)) \/ Nothing
  BY DEF AllOrNothing
<1>1. ASSUME IInv, NEW len, Interrupt(len)
      PROVE  (\E c \in Range(checkpoints) : Back(c)) \/ Nothing
  <2>1. CASE checkpoints = <<>>
    <3>1. UNCHANGED <<sched, genVars, memVars>>
      BY <1>1, <2>1 DEF Interrupt
    <3>2. Range(checkpoints) = {}
      BY <2>1 DEF Range
    <3> QED
      BY <2>1, <3>1, <3>2
  <2>2. CASE checkpoints # <<>>
    <3> DEFINE c == Chosen(checkpoints, target)
    <3>1. /\ output \in Seq(Tokens) /\ Noted(checkpoints, output, version)
          /\ version \in Nat /\ target \in Nat
      BY <1>1, TargetIs DEF IInv, HistoryOK
    <3>2. RollBack(c, len)
      BY <1>1, <2>2 DEF Interrupt
    <3> HIDE DEF target
    <3>3. /\ c \in Range(checkpoints)
          /\ \A d \in Range(checkpoints) : d.version > c.version => d.tokenIdx > target
          /\ c.tokenIdx > target => \A d \in Range(checkpoints) : d.tokenIdx > target
      BY <2>2, <3>1, ChosenIs
    <3> HIDE DEF c
    <3>4. CASE c.version \in DOMAIN saved
      <4>1. /\ heap' = saved[c.version] /\ sched' \in Rewound(sched, c.pc)
            /\ output' = SubSeq(output, 1, c.tokenIdx) /\ entropies' = <<>>
            /\ checkpoints' = RetainedUpTo(checkpoints, c.tokenIdx)
        BY <3>2, <3>4 DEF RollBack
      <4>2. /\ c.said = SubSeq(output, 1, c.tokenIdx) /\ c \in Range(checkpoints')
            /\ checkpoints' = SubSeq(checkpoints, 1, Len(checkpoints'))
        BY <3>1, <3>3, <4>1, NotedBack
      <4>3. \E id \in DOMAIN sched'.contexts : sched'.contexts[id].pc = c.pc
        <5>1. DOMAIN sched = Fields /\ DOMAIN sched.contexts # {}
          BY <1>1 DEF IInv, TableOK, Interrupt
        <5> QED
          BY <4>1, <5>1, RewoundKeeps
      <4>4. c \in late => Range(checkpoints) = late
        BY <3>3
      <4>5. \A d \in Range(checkpoints) : d.version > c.version => d \in late
        BY <3>3
      <4> HIDE DEF late
      <4>6. Back(c)
        BY <3>4, <4>1, <4>2, <4>3, <4>4, <4>5
      <4> QED
        BY <3>3, <4>6
    <3>5. CASE c.version \notin DOMAIN saved
      <4>1. UNCHANGED <<sched, genVars, memVars>>
        BY <3>2, <3>5 DEF RollBack
      <4>2. \A d \in Range(checkpoints) : d.version \in Nat /\ d.version <= version
        BY <3>1, NotedAt DEF Range
      <4>3. ASSUME NEW d \in Range(checkpoints), d.version \in DOMAIN saved
            PROVE  d \in late
        <5>1. d.version > c.version
          BY <1>1, <3>1, <3>3, <3>5, <4>2, <4>3, OlderIsGone DEF IInv
        <5> QED
          BY <3>3, <5>1
      <4>4. Nothing
        BY <3>3, <3>5, <4>1, <4>3
      <4> QED
        BY <4>4
    <3> QED
      BY <3>4, <3>5
  <2> QED
    BY <2>1, <2>2
<1>2. [HostNext]_vars /\ generating /\ at = "top" /\ at' = "run" =>
        \E len \in PromptLengths : Interrupt(len)
  BY DEF HostNext, Prompt, Begin, End, Idle, Pick, NoDispatch, Halt, Nop, Other, Compute, Branch,
         CtxSwitch, Sample, Decode, Stream, Fork, Abort, Sense, BackToTop, vars
<1>3. IInv /\ [HostNext]_vars =>
        [generating /\ at = "top" /\ at' = "run" => AllOrNothing]_vars
  <2> HIDE DEF Back, Nothing
  <2> QED
    BY <1>0, <1>1, <1>2
<1> QED
  BY <1>3, Invariant, PTL DEF HostSpec, RollbackAllOrNothing
=============================================================================
