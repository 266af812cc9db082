-------------------------- MODULE Scheduler_proofs --------------------------
(***************************************************************************)
(* Lemmas about the operators of Scheduler and Slice, which the proofs     *)
(* about the run loop cite: what `retain` leaves of a queue, and what each *)
(* method of the scheduler does to the table, to the queues and to the     *)
(* current context, for every state in which the queues are exact.         *)
(***************************************************************************)
EXTENDS Slice, FiniteSetTheorems, TLAPS

-----------------------------------------------------------------------------
(* KeepAt: the positions of K, in their order.                             *)

LEMMA FinitePart ==
  ASSUME NEW n \in Nat, NEW K \in SUBSET (1 .. n)
  PROVE  IsFiniteSet(K) /\ Cardinality(K) \in Nat
<1>1. IsFiniteSet(1 .. n)
  BY FS_Interval, 1 \in Int, n \in Int
<1>2. IsFiniteSet(K)
  BY <1>1, FS_Subset
<1> QED
  BY <1>2, FS_CardinalityType

LEMMA RankIs ==
  ASSUME NEW n \in Nat, NEW K \in SUBSET (1 .. n), NEW i \in K
  PROVE  Cardinality({j \in K : j <= i}) \in 1 .. Cardinality(K)
<1> DEFINE B == {j \in K : j <= i}
<1>1. IsFiniteSet(K)
  BY FinitePart
<1>2. IsFiniteSet(B) /\ Cardinality(B) <= Cardinality(K)
  BY <1>1, FS_Subset
<1>3. Cardinality(B) \in Nat /\ Cardinality(K) \in Nat
  BY <1>1, <1>2, FS_CardinalityType
<1>4. B # {}
  OBVIOUS
<1>5. Cardinality(B) # 0
  BY <1>2, <1>4, FS_EmptySet
<1> QED
  BY <1>2, <1>3, <1>5

LEMMA RankGrows ==
  ASSUME NEW n \in Nat, NEW K \in SUBSET (1 .. n), NEW i \in K, NEW k \in K, i < k
  PROVE  Cardinality({j \in K : j <= i}) < Cardinality({j \in K : j <= k})
<1> DEFINE A == {j \in K : j <= i}
           B == {j \in K : j <= k}
<1>1. IsFiniteSet(K)
  BY FinitePart
<1>2. IsFiniteSet(B) /\ A \in SUBSET B
  <2>1. B \in SUBSET K
    OBVIOUS
  <2>2. \A j \in K : j \in Int
    OBVIOUS
  <2>3. A \in SUBSET B
    <3> SUFFICES ASSUME NEW j \in K, j <= i
                 PROVE  j <= k
      OBVIOUS
    <3>1. j \in Int /\ i \in Int /\ k \in Int
      BY <2>2
    <3> QED
      BY <3>1
  <2> QED
    BY <1>1, <2>1, <2>3, FS_Subset
<1>3. k \in B /\ k \notin A
  OBVIOUS
<1>4. Cardinality(A) <= Cardinality(B) /\ Cardinality(A) # Cardinality(B)
  BY <1>2, <1>3, FS_Subset
<1>5. Cardinality(A) \in Nat /\ Cardinality(B) \in Nat
  BY <1>2, FS_Subset, FS_CardinalityType
<1> QED
  BY <1>4, <1>5

\* The n-th element of K, for n up to its size, is the one of rank n.
Nth(K, n) == CHOOSE i \in K : Cardinality({j \in K : j <= i}) = n

LEMMA NthIs ==
  ASSUME NEW n \in Nat, NEW K \in SUBSET (1 .. n)
  PROVE  /\ Cardinality(K) \in Nat
         /\ \A m \in 1 .. Cardinality(K) : Nth(K, m) \in K
         /\ \A m, k \in 1 .. Cardinality(K) : m < k => Nth(K, m) < Nth(K, k)
         /\ \A i \in K : \E m \in 1 .. Cardinality(K) : Nth(K, m) = i
<1> DEFINE rank == [i \in K |-> Cardinality({j \in K : j <= i})]
           c    == Cardinality(K)
<1>1. IsFiniteSet(K) /\ c \in Nat
  BY FinitePart
<1>2. rank \in [K -> 1 .. c]
  BY RankIs
<1>3. \A i, k \in K : i < k => rank[i] < rank[k]
  BY RankGrows
<1> HIDE DEF rank
<1>4. \A i, k \in K : rank[i] = rank[k] => i = k
  BY <1>1, <1>2, <1>3
<1>5. rank \in Injection(K, 1 .. c)
  BY <1>2, <1>4 DEF Injection, IsInjective
<1>6. IsFiniteSet(1 .. c) /\ Cardinality(1 .. c) = c
  BY <1>1, FS_Interval
<1>7. rank \in Surjection(K, 1 .. c)
  BY <1>5, <1>6, FS_Injection
<1>8. \A m \in 1 .. c : \E i \in K : rank[i] = m
  BY <1>7 DEF Surjection
<1>9. \A m \in 1 .. c : Nth(K, m) \in K /\ rank[Nth(K, m)] = m
  BY <1>8 DEF Nth, rank
<1>10. \A m, k \in 1 .. c : m < k => Nth(K, m) < Nth(K, k)
  <2> TAKE m, k \in 1 .. c
  <2> HAVE m < k
  <2>1. Nth(K, m) \in K /\ Nth(K, k) \in K /\ rank[Nth(K, m)] < rank[Nth(K, k)]
    BY <1>9
  <2> DEFINE x == Nth(K, m)
             y == Nth(K, k)
  <2> HIDE DEF x, y
  <2>2. x \in K /\ y \in K /\ rank[x] < rank[y]
    BY <2>1 DEF x, y
  <2>3. x \in Int /\ y \in Int /\ rank[x] \in Int /\ rank[y] \in Int
    BY <1>2, <2>2
  <2>4. x < y
    BY <1>3, <2>2, <2>3
  <2> QED
    BY <2>4 DEF x, y
<1>11. \A i \in K : \E m \in 1 .. c : Nth(K, m) = i
  BY <1>2, <1>4, <1>9
<1> QED
  BY <1>1, <1>9, <1>10, <1>11

\* What is kept of a queue: its elements at K, in their order.
LEMMA KeepAtIs ==
  ASSUME NEW S, NEW q \in Seq(S), NEW K \in SUBSET (DOMAIN q)
  PROVE  /\ KeepAt(q, K) \in Seq(S)
         /\ \A m \in DOMAIN KeepAt(q, K) : Nth(K, m) \in K /\ KeepAt(q, K)[m] = q[Nth(K, m)]
         /\ \A m, k \in DOMAIN KeepAt(q, K) : m < k => Nth(K, m) < Nth(K, k)
         /\ \A i \in K : \E m \in DOMAIN KeepAt(q, K) : Nth(K, m) = i
<1>1. Len(q) \in Nat /\ DOMAIN q = 1 .. Len(q)
  OBVIOUS
<1>2. K \in SUBSET (1 .. Len(q))
  BY <1>1
<1>3. /\ Cardinality(K) \in Nat
      /\ \A m \in 1 .. Cardinality(K) : Nth(K, m) \in K
      /\ \A m, k \in 1 .. Cardinality(K) : m < k => Nth(K, m) < Nth(K, k)
      /\ \A i \in K : \E m \in 1 .. Cardinality(K) : Nth(K, m) = i
  BY <1>1, <1>2, NthIs
<1>4. KeepAt(q, K) = [m \in 1 .. Cardinality(K) |-> q[Nth(K, m)]]
  BY DEF KeepAt, Nth
<1>5. \A m \in 1 .. Cardinality(K) : q[Nth(K, m)] \in S
  BY <1>1, <1>3
<1>6. KeepAt(q, K) \in [1 .. Cardinality(K) -> S]
  BY <1>4, <1>5
<1>7. KeepAt(q, K) \in Seq(S)
  BY <1>3, <1>6
<1>8. DOMAIN KeepAt(q, K) = 1 .. Cardinality(K)
  BY <1>4
<1> QED
  BY <1>3, <1>4, <1>7, <1>8

-----------------------------------------------------------------------------
(* States of the scheduler.                                                *)

Fields  == {"contexts", "queue", "nextId", "current"}
Ctxs(d) == [priority : Priorities, state : States, pc : Nat, calls : {q \in Seq(Nat) : Len(q) <= d}]

SchedOK(s, d) ==
  /\ DOMAIN s = Fields
  /\ s.nextId \in Nat \ {0}
  /\ s.contexts \in [DOMAIN s.contexts -> Ctxs(d)]
  /\ DOMAIN s.contexts \subseteq 1 .. s.nextId - 1
  /\ s.queue \in [Priorities -> Seq(Nat)]
  /\ s.current \in 0 .. s.nextId - 1

InQueue(s, p, id) == \E i \in DOMAIN s.queue[p] : s.queue[p][i] = id

\* Every place of a queue holds a Ready context of its priority, every Ready
\* context has a place, and no two places hold the same.
Exact(s) ==
  /\ \A p \in Priorities : \A i \in DOMAIN s.queue[p] :
       /\ s.queue[p][i] \in DOMAIN s.contexts
       /\ s.contexts[s.queue[p][i]].state = "Ready"
       /\ s.contexts[s.queue[p][i]].priority = p
  /\ \A id \in DOMAIN s.contexts :
       s.contexts[id].state = "Ready" => InQueue(s, s.contexts[id].priority, id)
  /\ \A p \in Priorities : \A i, j \in DOMAIN s.queue[p] :
       s.queue[p][i] = s.queue[p][j] => i = j

\* No context is Running, but r when it is the current one.
Calm(s) == \A id \in DOMAIN s.contexts : s.contexts[id].state # "Running"
Handing(s, r) ==
  /\ \A id \in DOMAIN s.contexts : s.contexts[id].state = "Running" => id = r /\ s.current = r
  /\ s.current \in {None, r}
  /\ r \in DOMAIN s.contexts /\ s.contexts[r].state = "Ready" => s.current = None

\* What is in both queues is in the same order, with nobody new before it.
InOrder(s, p, x, y) == \E k, l \in DOMAIN s.queue[p] : k < l /\ s.queue[p][k] = x /\ s.queue[p][l] = y
Fifo(s, t) ==
  \A p \in Priorities : \A i, j \in DOMAIN t.queue[p] :
    i < j /\ InQueue(s, p, t.queue[p][j]) => InOrder(s, p, t.queue[p][i], t.queue[p][j])

\* Nobody but r has changed: others may have been removed, and new ones are
\* Ready under ids never used before.
OnlySelf(s, t, r) ==
  /\ t.nextId >= s.nextId
  /\ r \in DOMAIN t.contexts => r \in DOMAIN s.contexts
  /\ \A id \in DOMAIN t.contexts \ {r} :
       \/ id \in DOMAIN s.contexts /\ t.contexts[id] = s.contexts[id]
       \/ id >= s.nextId /\ t.contexts[id].state = "Ready"

-----------------------------------------------------------------------------
(* What the operators do, field by field.                                  *)

Put(f, id, c) == [i \in DOMAIN f \cup {id} |-> IF i = id THEN c ELSE f[i]]

\* id has become c and stands at the end of its queue.
Queued(s, t, id, c) ==
  /\ t.contexts = Put(s.contexts, id, c)
  /\ t.queue = [s.queue EXCEPT ![c.priority] = Append(@, id)]

\* Nobody is current after that.
Requeued(s, t, id, c) ==
  /\ DOMAIN t = Fields
  /\ Queued(s, t, id, c)
  /\ t.nextId = s.nextId
  /\ t.current = None

\* id has become c, in no queue.
Marked(s, t, id, c) ==
  /\ DOMAIN t = Fields
  /\ t.contexts = Put(s.contexts, id, c)
  /\ t.queue = s.queue
  /\ t.nextId = s.nextId
  /\ t.current \in {None, s.current}

Closed(s, t) ==
  /\ DOMAIN t = Fields
  /\ t.contexts = s.contexts /\ t.queue = s.queue /\ t.nextId = s.nextId
  /\ t.current = None

LEMMA SetContextIs ==
  ASSUME NEW s, DOMAIN s = Fields, NEW id, NEW c
  PROVE  /\ Marked(s, SetContext(s, id, c), id, c)
         /\ SetContext(s, id, c).current = s.current
  BY DEF SetContext, Marked, Put, Fields

LEMMA PutSame ==
  ASSUME NEW D, NEW C, NEW f \in [D -> C], NEW id \in D
  PROVE  Put(f, id, f[id]) = f
  BY DEF Put

\* yield_current, for a current context that is Running or Ready, and for
\* one that is gone, Blocked or Terminated.
LEMMA YieldIs ==
  ASSUME NEW d, NEW s, SchedOK(s, d)
  PROVE  LET t  == YieldCurrent(s)
             id == s.current
         IN  /\ StateIs(s, id, "Running") =>
                  Requeued(s, t, id, [s.contexts[id] EXCEPT !.state = "Ready"])
             /\ StateIs(s, id, "Ready") => Requeued(s, t, id, s.contexts[id])
             /\ ~ StateIs(s, id, "Running") /\ ~ StateIs(s, id, "Ready") => Closed(s, t)
<1> DEFINE id == s.current
           t0 == [s EXCEPT !.current = None]
           c1 == [s.contexts[id] EXCEPT !.state = "Ready"]
           u  == IF StateIs(t0, id, "Running") THEN SetState(t0, id, "Ready") ELSE t0
<1>1. /\ DOMAIN t0 = Fields /\ t0.contexts = s.contexts /\ t0.queue = s.queue
      /\ t0.nextId = s.nextId /\ t0.current = None
  BY DEF SchedOK, Fields
<1>2. YieldCurrent(s) = IF StateIs(u, id, "Ready") THEN PushBack(u, u.contexts[id].priority, id) ELSE u
  BY DEF YieldCurrent
<1>0. u = IF StateIs(t0, id, "Running") THEN SetState(t0, id, "Ready") ELSE t0
  OBVIOUS
<1>3. CASE StateIs(s, id, "Running")
  <2> HIDE DEF u, t0
  <2>1. id \in DOMAIN s.contexts /\ s.contexts[id] \in Ctxs(d) /\ s.contexts[id].state = "Running"
    BY <1>3 DEF StateIs, Known, SchedOK
  <2>2. u = SetContext(t0, id, c1)
    BY <1>0, <1>1, <2>1 DEF StateIs, Known, SetState
  <2>3. Marked(t0, u, id, c1) /\ u.current = None
    BY <1>1, <2>2, SetContextIs
  <2>4. c1.state = "Ready" /\ c1.priority = s.contexts[id].priority /\ c1.priority \in Priorities
    BY <2>1 DEF Ctxs
  <2>5. id \in DOMAIN u.contexts /\ u.contexts[id] = c1
    BY <2>3 DEF Marked, Put
  <2>6. YieldCurrent(s) = PushBack(u, c1.priority, id)
    BY <1>2, <2>4, <2>5 DEF StateIs, Known
  <2>7. /\ DOMAIN u = Fields /\ u.contexts = Put(s.contexts, id, c1)
        /\ u.queue = s.queue /\ u.nextId = s.nextId /\ u.current = None
    BY <1>1, <2>3 DEF Marked
  <2> HIDE DEF c1
  <2>8. Requeued(s, YieldCurrent(s), id, c1)
    BY <2>6, <2>7 DEF Requeued, Queued, PushBack, Fields
  <2>9. ~ StateIs(s, id, "Ready")
    BY <2>1 DEF StateIs
  <2> QED
    BY <1>3, <2>8, <2>9 DEF c1
<1>4. CASE StateIs(s, id, "Ready")
  <2>1. id \in DOMAIN s.contexts /\ s.contexts[id].state = "Ready"
    BY <1>4 DEF StateIs, Known
  <2>2. u = t0
    BY <1>1, <2>1 DEF StateIs
  <2>3. YieldCurrent(s) = PushBack(t0, s.contexts[id].priority, id)
    BY <1>1, <1>2, <2>1, <2>2 DEF StateIs, Known
  <2>4. Put(s.contexts, id, s.contexts[id]) = s.contexts
    <3>1. s.contexts \in [DOMAIN s.contexts -> Ctxs(d)]
      BY DEF SchedOK
    <3> QED
      BY <2>1, <3>1, PutSame
  <2> HIDE DEF t0
  <2>5. Requeued(s, YieldCurrent(s), id, s.contexts[id])
    BY <1>1, <2>3, <2>4 DEF Requeued, Queued, PushBack, Fields
  <2>6. ~ StateIs(s, id, "Running")
    BY <2>1 DEF StateIs
  <2> QED
    BY <1>4, <2>5, <2>6
<1>5. CASE ~ StateIs(s, id, "Running") /\ ~ StateIs(s, id, "Ready")
  <2>1. u = t0 /\ YieldCurrent(s) = t0
    BY <1>1, <1>2, <1>5 DEF StateIs, Known
  <2> QED
    BY <1>1, <1>5, <2>1 DEF Closed
<1> QED
  BY <1>3, <1>4, <1>5

LEMMA SliceEndsIs ==
  ASSUME NEW d, NEW s, SchedOK(s, d), NEW r, Handing(s, r), NEW advance \in BOOLEAN
  PROVE  LET t == SliceEnds(s, r, advance)
         IN  /\ StateIs(s, r, "Running") =>
                  \E pc \in Nat : Requeued(s, t, r, [s.contexts[r] EXCEPT !.state = "Ready", !.pc = pc])
             /\ ~ StateIs(s, r, "Running") => Closed(s, t)
<1>1. CASE StateIs(s, r, "Running")
  <2> DEFINE c  == s.contexts[r]
             n  == IF advance THEN c.pc + 1 ELSE c.pc
             u  == IF advance THEN Moved(s, r, c.pc + 1) ELSE s
             c1 == [c EXCEPT !.pc = n]
             c2 == [c EXCEPT !.state = "Ready", !.pc = n]
             v  == SetState(u, r, "Ready")
  <2>1. r \in DOMAIN s.contexts /\ c \in Ctxs(d) /\ c.state = "Running" /\ s.current = r
    BY <1>1 DEF StateIs, Known, SchedOK, Handing
  <2>2. n \in Nat /\ c1 \in Ctxs(d) /\ c2 \in Ctxs(d) /\ c2 = [c1 EXCEPT !.state = "Ready"] /\ c2.state = "Ready"
    <3>1. c.pc \in Nat /\ n \in Nat
      BY <2>1 DEF Ctxs
    <3> HIDE DEF n, c
    <3>2. c1 \in Ctxs(d) /\ c2 \in Ctxs(d) /\ c2.state = "Ready"
      BY <2>1, <3>1 DEF Ctxs, States
    <3>3. c2 = [c1 EXCEPT !.state = "Ready"]
      BY <2>1 DEF Ctxs
    <3> QED
      BY <3>1, <3>2, <3>3
  <2>3. /\ DOMAIN u = Fields /\ u.contexts = Put(s.contexts, r, c1)
        /\ u.queue = s.queue /\ u.nextId = s.nextId /\ u.current = r
    <3>1. CASE advance
      <4>1. u = SetContext(s, r, c1)
        BY <2>1, <3>1 DEF Moved, Known
      <4> QED
        BY <2>1, <4>1, SetContextIs DEF SchedOK, Marked
    <3>2. CASE ~ advance
      <4>1. c1 = c
        BY <2>1, <3>2 DEF Ctxs
      <4>2. Put(s.contexts, r, c) = s.contexts
        <5>1. s.contexts \in [DOMAIN s.contexts -> Ctxs(d)]
          BY DEF SchedOK
        <5> QED
          BY <2>1, <5>1, PutSame
      <4> QED
        BY <2>1, <3>2, <4>1, <4>2 DEF SchedOK
    <3> QED
      BY <3>1, <3>2
  <2>4. r \in DOMAIN u.contexts /\ u.contexts[r] = c1
    BY <2>3 DEF Put
  <2> HIDE DEF u
  <2>5. v = SetContext(u, r, c2)
    BY <2>2, <2>4 DEF SetState, Known
  <2>6. /\ DOMAIN v = Fields /\ v.contexts = Put(u.contexts, r, c2)
        /\ v.queue = s.queue /\ v.nextId = s.nextId /\ v.current = r
    BY <2>3, <2>5, SetContextIs DEF Marked
  <2>7. v.contexts = Put(s.contexts, r, c2)
    BY <2>1, <2>3, <2>6, SMTT(30) DEF Put
  <2>8. SliceEnds(s, r, advance) = YieldCurrent(v)
    BY <1>1 DEF SliceEnds, u
  <2> HIDE DEF c1, c2, n, v
  <2>9. v.contexts[r] = c2 /\ r \in DOMAIN v.contexts
    BY <2>7 DEF Put
  <2>10. SchedOK(v, d)
    <3>1. DOMAIN v.contexts = DOMAIN s.contexts
      BY <2>1, <2>7 DEF Put
    <3>2. v.contexts \in [DOMAIN v.contexts -> Ctxs(d)]
      BY <2>1, <2>2, <2>7, <3>1 DEF Put, SchedOK
    <3>3. v.current \in 0 .. v.nextId - 1
      BY <2>1, <2>6 DEF SchedOK
    <3> QED
      BY <2>6, <3>1, <3>2, <3>3 DEF SchedOK
  <2>11. Requeued(v, YieldCurrent(v), r, c2)
    <3>1. StateIs(v, v.current, "Ready") /\ v.contexts[v.current] = c2
      BY <2>2, <2>6, <2>9 DEF StateIs, Known
    <3> QED
      BY <2>6, <2>10, <3>1, YieldIs
  <2>12. Put(v.contexts, r, c2) = Put(s.contexts, r, c2)
    BY <2>1, <2>7 DEF Put
  <2>13. Requeued(s, SliceEnds(s, r, advance), r, c2)
    BY <2>6, <2>8, <2>11, <2>12 DEF Requeued, Queued
  <2> QED
    BY <1>1, <2>2, <2>13 DEF c2
<1>2. CASE ~ StateIs(s, r, "Running")
  <2>1. SliceEnds(s, r, advance) = YieldCurrent(s)
    BY <1>2 DEF SliceEnds
  <2>2. ~ StateIs(s, s.current, "Running") /\ ~ StateIs(s, s.current, "Ready")
    BY <1>2 DEF Handing, StateIs, Known, SchedOK, None
  <2> QED
    BY <1>2, <2>1, <2>2, YieldIs
<1> QED
  BY <1>1, <1>2

\* A context that is Running ends; one that is gone stays so.
LEMMA SliceFailsIs ==
  ASSUME NEW d, NEW s, SchedOK(s, d), NEW r, Handing(s, r),
         StateIs(s, r, "Running") \/ ~ Known(s, r)
  PROVE  LET t == SliceFails(s, r)
         IN  /\ StateIs(s, r, "Running") =>
                  Marked(s, t, r, [s.contexts[r] EXCEPT !.state = "Terminated"])
             /\ ~ Known(s, r) => Closed(s, t)
<1> DEFINE u == SetState(s, r, "Terminated")
<1>1. CASE StateIs(s, r, "Running")
  <2> DEFINE c1 == [s.contexts[r] EXCEPT !.state = "Terminated"]
  <2>1. r \in DOMAIN s.contexts /\ s.contexts[r] \in Ctxs(d) /\ s.current = r
    BY <1>1 DEF StateIs, Known, SchedOK, Handing
  <2>2. c1 \in Ctxs(d) /\ c1.state = "Terminated"
    BY <2>1 DEF Ctxs, States
  <2>3. u = SetContext(s, r, c1)
    BY <2>1 DEF SetState, Known
  <2>4. Marked(s, u, r, c1) /\ u.current = r
    BY <2>1, <2>3, SetContextIs DEF SchedOK
  <2> HIDE DEF c1, u
  <2>5. u.contexts[r] = c1 /\ DOMAIN u.contexts = DOMAIN s.contexts
    BY <2>1, <2>4 DEF Marked, Put
  <2>6. SchedOK(u, d)
    <3>1. u.contexts \in [DOMAIN u.contexts -> Ctxs(d)]
      BY <2>1, <2>2, <2>4, <2>5 DEF Put, SchedOK, Marked
    <3> QED
      BY <2>1, <2>4, <2>5, <3>1 DEF SchedOK, Marked
  <2>7. ~ StateIs(u, u.current, "Running") /\ ~ StateIs(u, u.current, "Ready")
    BY <2>2, <2>4, <2>5 DEF StateIs
  <2>8. Closed(u, YieldCurrent(u))
    BY <2>6, <2>7, YieldIs
  <2>9. SliceFails(s, r) = YieldCurrent(u)
    BY DEF SliceFails, u
  <2>10. Marked(s, SliceFails(s, r), r, c1)
    BY <2>4, <2>8, <2>9 DEF Marked, Closed
  <2>11. Known(s, r)
    BY <2>1 DEF Known
  <2> QED
    BY <1>1, <2>10, <2>11 DEF c1
<1>2. CASE ~ Known(s, r)
  <2>1. SliceFails(s, r) = YieldCurrent(s)
    BY <1>2 DEF SliceFails, SetState
  <2>2. ~ StateIs(s, s.current, "Running") /\ ~ StateIs(s, s.current, "Ready")
    BY <1>2 DEF Handing, StateIs, Known, SchedOK, None
  <2>3. ~ StateIs(s, r, "Running")
    BY <1>2 DEF StateIs
  <2> QED
    BY <1>2, <2>1, <2>2, <2>3, YieldIs
<1> QED
  BY <1>1, <1>2

LEMMA SlicePassesIs ==
  ASSUME NEW s, NEW r, StateIs(s, r, "Running")
  PROVE  SlicePasses(s, r) = SliceEnds(s, r, TRUE)
  BY DEF SlicePasses, SliceEnds

-----------------------------------------------------------------------------
(* Exactness and order survive.                                            *)

LEMMA AppendIs ==
  ASSUME NEW S, NEW q \in Seq(S), NEW x \in S
  PROVE  /\ Append(q, x) \in Seq(S)
         /\ Len(q) \in Nat /\ DOMAIN q = 1 .. Len(q)
         /\ DOMAIN Append(q, x) = 1 .. Len(q) + 1
         /\ Append(q, x)[Len(q) + 1] = x
         /\ \A i \in DOMAIN q : Append(q, x)[i] = q[i]
  OBVIOUS

\* A context that was not Ready, or not there, is Ready and queued last.
LEMMA ExactAppend ==
  ASSUME NEW s, NEW t, NEW id \in Nat, NEW c, c.priority \in Priorities,
         Exact(s), s.queue \in [Priorities -> Seq(Nat)],
         id \in DOMAIN s.contexts => s.contexts[id].state # "Ready",
         c.state = "Ready", Queued(s, t, id, c)
  PROVE  Exact(t) /\ t.queue \in [Priorities -> Seq(Nat)]
<1>0. PICK p \in Priorities :
        /\ c.priority = p
        /\ t.contexts = Put(s.contexts, id, c)
        /\ t.queue = [s.queue EXCEPT ![p] = Append(@, id)]
  BY DEF Queued
<1>1. s.queue[p] \in Seq(Nat) /\ t.queue[p] = Append(s.queue[p], id)
  BY <1>0
<1>2. /\ t.queue[p] \in Seq(Nat)
      /\ Len(s.queue[p]) \in Nat /\ DOMAIN s.queue[p] = 1 .. Len(s.queue[p])
      /\ DOMAIN t.queue[p] = 1 .. Len(s.queue[p]) + 1
      /\ t.queue[p][Len(s.queue[p]) + 1] = id
      /\ \A i \in DOMAIN s.queue[p] : t.queue[p][i] = s.queue[p][i]
  BY <1>1, AppendIs
<1>3. \A i \in DOMAIN t.queue[p] : i \in DOMAIN s.queue[p] \/ t.queue[p][i] = id
  BY <1>2
<1>4. \A r \in Priorities \ {p} : t.queue[r] = s.queue[r]
  BY <1>0
<1>5. t.queue \in [Priorities -> Seq(Nat)]
  BY <1>0, <1>2, <1>4
<1>6. \A r \in Priorities : \A i \in DOMAIN s.queue[r] :
        /\ s.queue[r][i] \in DOMAIN s.contexts
        /\ s.contexts[s.queue[r][i]].state = "Ready"
        /\ s.contexts[s.queue[r][i]].priority = r
        /\ s.queue[r][i] # id
  BY DEF Exact
<1>7. \A x \in DOMAIN s.contexts : x # id => x \in DOMAIN t.contexts /\ t.contexts[x] = s.contexts[x]
  BY <1>0 DEF Put
<1>8. id \in DOMAIN t.contexts /\ t.contexts[id] = c
  BY <1>0 DEF Put
<1>9. \A r \in Priorities : \A i \in DOMAIN t.queue[r] :
        /\ t.queue[r][i] \in DOMAIN t.contexts
        /\ t.contexts[t.queue[r][i]].state = "Ready"
        /\ t.contexts[t.queue[r][i]].priority = r
  <2> TAKE r \in Priorities
  <2> TAKE i \in DOMAIN t.queue[r]
  <2>1. CASE r = p /\ t.queue[r][i] = id
    BY <1>0, <1>8, <2>1
  <2>2. CASE i \in DOMAIN s.queue[r] /\ t.queue[r][i] = s.queue[r][i]
    BY <1>6, <1>7, <2>2
  <2> QED
    BY <1>2, <1>3, <1>4, <2>1, <2>2
<1>10. \A x \in DOMAIN t.contexts : t.contexts[x].state = "Ready" => InQueue(t, t.contexts[x].priority, x)
  <2> SUFFICES ASSUME NEW x \in DOMAIN t.contexts, t.contexts[x].state = "Ready"
               PROVE  InQueue(t, t.contexts[x].priority, x)
    OBVIOUS
  <2>1. CASE x = id
    <3>1. Len(s.queue[p]) + 1 \in DOMAIN t.queue[p]
      BY <1>2
    <3> QED
      BY <1>0, <1>2, <1>8, <2>1, <3>1 DEF InQueue
  <2>2. CASE x # id
    <3>1. x \in DOMAIN s.contexts /\ t.contexts[x] = s.contexts[x]
      BY <1>0, <2>2 DEF Put
    <3>2. InQueue(s, s.contexts[x].priority, x)
      BY <3>1 DEF Exact
    <3>3. PICK i \in DOMAIN s.queue[s.contexts[x].priority] : s.queue[s.contexts[x].priority][i] = x
      BY <3>2 DEF InQueue
    <3>4. i \in DOMAIN t.queue[s.contexts[x].priority] /\ t.queue[s.contexts[x].priority][i] = x
      <4>1. CASE s.contexts[x].priority = p
        BY <1>0, <1>2, <3>3, <4>1
      <4>2. CASE s.contexts[x].priority # p
        <5>1. t.queue[s.contexts[x].priority] = s.queue[s.contexts[x].priority]
          BY <1>0, <3>1, <4>2
        <5> QED
          BY <3>3, <5>1
      <4> QED
        BY <4>1, <4>2
    <3> QED
      BY <3>1, <3>4 DEF InQueue
  <2> QED
    BY <2>1, <2>2
<1>11. \A r \in Priorities : \A i, j \in DOMAIN t.queue[r] : t.queue[r][i] = t.queue[r][j] => i = j
  <2> SUFFICES ASSUME NEW r \in Priorities, NEW i \in DOMAIN t.queue[r], NEW j \in DOMAIN t.queue[r],
                      t.queue[r][i] = t.queue[r][j]
               PROVE  i = j
    OBVIOUS
  <2>1. CASE r # p
    BY <1>4, <2>1 DEF Exact
  <2>2. CASE r = p
    <3>1. i \in DOMAIN s.queue[p] /\ j \in DOMAIN s.queue[p] => i = j
      BY <1>0, <1>2, <2>2 DEF Exact
    <3>2. i \notin DOMAIN s.queue[p] => i = Len(s.queue[p]) + 1 /\ t.queue[p][i] = id
      BY <1>0, <1>2, <2>2
    <3>3. j \notin DOMAIN s.queue[p] => j = Len(s.queue[p]) + 1 /\ t.queue[p][j] = id
      BY <1>0, <1>2, <2>2
    <3> QED
      BY <1>0, <1>2, <1>6, <2>2, <3>1, <3>2, <3>3
  <2> QED
    BY <2>1, <2>2
<1> QED
  BY <1>5, <1>9, <1>10, <1>11 DEF Exact

LEMMA FifoAppend ==
  ASSUME NEW s, NEW u, NEW t, NEW id \in Nat, NEW c, c.priority \in Priorities,
         Fifo(s, u), u.queue \in [Priorities -> Seq(Nat)],
         ~ InQueue(s, c.priority, id), Queued(u, t, id, c)
  PROVE  Fifo(s, t)
<1>0. PICK p \in Priorities :
        t.queue = [u.queue EXCEPT ![p] = Append(@, id)] /\ ~ InQueue(s, p, id)
  BY DEF Queued
<1> SUFFICES ASSUME NEW r \in Priorities, NEW i \in DOMAIN t.queue[r], NEW j \in DOMAIN t.queue[r],
                    i < j, InQueue(s, r, t.queue[r][j])
             PROVE  InOrder(s, r, t.queue[r][i], t.queue[r][j])
  BY DEF Fifo
<1>1. CASE r # p
  <2>1. t.queue[r] = u.queue[r]
    BY <1>0, <1>1
  <2> QED
    BY <2>1 DEF Fifo
<1>2. CASE r = p
  <2>1. u.queue[p] \in Seq(Nat) /\ t.queue[p] = Append(u.queue[p], id)
    BY <1>0
  <2>2. /\ Len(u.queue[p]) \in Nat /\ DOMAIN u.queue[p] = 1 .. Len(u.queue[p])
        /\ DOMAIN t.queue[p] = 1 .. Len(u.queue[p]) + 1
        /\ t.queue[p][Len(u.queue[p]) + 1] = id
        /\ \A k \in DOMAIN u.queue[p] : t.queue[p][k] = u.queue[p][k]
    BY <2>1, AppendIs
  <2>3. j # Len(u.queue[p]) + 1
    BY <1>0, <1>2, <2>2
  <2>4. i \in DOMAIN u.queue[p] /\ j \in DOMAIN u.queue[p]
    BY <1>2, <2>2, <2>3
  <2> QED
    BY <1>2, <2>2, <2>4 DEF Fifo
<1> QED
  BY <1>1, <1>2

LEMMA FifoSame ==
  ASSUME NEW s, NEW u, NEW t, Fifo(s, u), t.queue = u.queue
  PROVE  Fifo(s, t)
  BY DEF Fifo

LEMMA FifoSelf ==
  ASSUME NEW s
  PROVE  Fifo(s, s)
  BY DEF Fifo, InOrder

-----------------------------------------------------------------------------
(* remove, create_context, pick_next.                                      *)

\* e is q without id.
LeftOf(q, e, id) ==
  /\ e \in Seq(Nat)
  /\ \A m \in DOMAIN e : \E i \in DOMAIN q : q[i] # id /\ e[m] = q[i]
  /\ \A m, k \in DOMAIN e : m < k =>
       \E i, j \in DOMAIN q : i < j /\ e[m] = q[i] /\ e[k] = q[j]
  /\ \A i \in DOMAIN q : q[i] # id => \E m \in DOMAIN e : e[m] = q[i]
  /\ (\A i, j \in DOMAIN q : q[i] = q[j] => i = j)
       => \A m, k \in DOMAIN e : e[m] = e[k] => m = k

LEMMA RetainedIs ==
  ASSUME NEW q \in Seq(Nat), NEW id
  PROVE  LeftOf(q, Retained(q, id), id)
<1> DEFINE K == {i \in DOMAIN q : q[i] # id}
           e == Retained(q, id)
<1>1. e = KeepAt(q, K) /\ K \in SUBSET (DOMAIN q)
  BY DEF Retained
<1>2. \A i \in K : i \in DOMAIN q /\ q[i] # id
  OBVIOUS
<1>3. \A i \in DOMAIN q : q[i] # id => i \in K
  OBVIOUS
<1> HIDE DEF K, e
<1>4. /\ e \in Seq(Nat)
      /\ \A m \in DOMAIN e : Nth(K, m) \in K /\ e[m] = q[Nth(K, m)]
      /\ \A m, k \in DOMAIN e : m < k => Nth(K, m) < Nth(K, k)
      /\ \A i \in K : \E m \in DOMAIN e : Nth(K, m) = i
  BY <1>1, KeepAtIs
<1>5. \A m \in DOMAIN e : \E i \in DOMAIN q : q[i] # id /\ e[m] = q[i]
  BY <1>2, <1>4
<1>6. \A m, k \in DOMAIN e : m < k => \E i, j \in DOMAIN q : i < j /\ e[m] = q[i] /\ e[k] = q[j]
  BY <1>2, <1>4
<1>7. \A i \in DOMAIN q : q[i] # id => \E m \in DOMAIN e : e[m] = q[i]
  BY <1>3, <1>4
<1>8. ASSUME \A i, j \in DOMAIN q : q[i] = q[j] => i = j
      PROVE  \A m, k \in DOMAIN e : e[m] = e[k] => m = k
  <2> TAKE m, k \in DOMAIN e
  <2> HAVE e[m] = e[k]
  <2>1. Nth(K, m) = Nth(K, k)
    BY <1>2, <1>4, <1>8
  <2>2. m \in Nat /\ k \in Nat
    BY <1>4
  <2>3. Nth(K, m) \in Nat
    BY <1>2, <1>4
  <2>4. ~ (m < k) /\ ~ (k < m)
    BY <1>4, <2>1, <2>3
  <2> QED
    BY <2>2, <2>4
<1> QED
  BY <1>4, <1>5, <1>6, <1>7, <1>8 DEF e, LeftOf

LEMMA RemoveIs ==
  ASSUME NEW d, NEW s, SchedOK(s, d), Exact(s), NEW id
  PROVE  LET t == Remove(s, id)
         IN  /\ SchedOK(t, d) /\ Exact(t) /\ Fifo(s, t)
             /\ t.contexts = Restrict(s.contexts, DOMAIN s.contexts \ {id})
             /\ t.nextId = s.nextId
             /\ t.current = IF s.current = id THEN None ELSE s.current
<1> DEFINE t == Remove(s, id)
           rest == DOMAIN s.contexts \ {id}
<1>1. /\ DOMAIN t = Fields
      /\ t.contexts = Restrict(s.contexts, rest)
      /\ t.queue = [p \in Priorities |-> Retained(s.queue[p], id)]
      /\ t.nextId = s.nextId
      /\ t.current = IF s.current = id THEN None ELSE s.current
  BY DEF Remove, DequeueId, SchedOK, Fields
<1> HIDE DEF t
<1>2. DOMAIN t.contexts = rest /\ \A x \in rest : t.contexts[x] = s.contexts[x]
  BY <1>1 DEF Restrict
<1>3. \A p \in Priorities : s.queue[p] \in Seq(Nat) /\ t.queue[p] = Retained(s.queue[p], id)
  BY <1>1 DEF SchedOK
<1>10. ASSUME NEW p \in Priorities
       PROVE  /\ \A m, k \in DOMAIN t.queue[p] : m < k =>
                   \E i, j \in DOMAIN s.queue[p] :
                     i < j /\ t.queue[p][m] = s.queue[p][i] /\ t.queue[p][k] = s.queue[p][j]
              /\ \A i \in DOMAIN s.queue[p] : s.queue[p][i] # id =>
                   \E m \in DOMAIN t.queue[p] : t.queue[p][m] = s.queue[p][i]
              /\ \A m, k \in DOMAIN t.queue[p] : t.queue[p][m] = t.queue[p][k] => m = k
  <2> DEFINE q == s.queue[p]
             e == t.queue[p]
  <2>1. q \in Seq(Nat) /\ e = Retained(q, id)
    BY <1>3
  <2>2. \A i, j \in DOMAIN q : q[i] = q[j] => i = j
    BY DEF Exact
  <2>0. LeftOf(q, e, id)
    BY <2>1, RetainedIs
  <2> HIDE DEF q, e
  <2>3. /\ \A m, k \in DOMAIN e : m < k =>
             \E i, j \in DOMAIN q : i < j /\ e[m] = q[i] /\ e[k] = q[j]
        /\ \A i \in DOMAIN q : q[i] # id => \E m \in DOMAIN e : e[m] = q[i]
        /\ \A m, k \in DOMAIN e : e[m] = e[k] => m = k
    BY <2>0, <2>2 DEF LeftOf
  <2> QED
    BY <2>3 DEF q, e
<1>4. SchedOK(t, d)
  <2>1. t.contexts \in [DOMAIN t.contexts -> Ctxs(d)]
    BY <1>1, <1>2 DEF SchedOK, Restrict
  <2>2. t.queue \in [Priorities -> Seq(Nat)]
    BY <1>1, <1>3, RetainedIs DEF LeftOf
  <2>3. t.current \in 0 .. t.nextId - 1
    BY <1>1 DEF SchedOK, None
  <2> QED
    BY <1>1, <1>2, <2>1, <2>2, <2>3 DEF SchedOK
<1>5. Exact(t)
  <2>1. \A p \in Priorities : \A m \in DOMAIN t.queue[p] :
          /\ t.queue[p][m] \in DOMAIN t.contexts
          /\ t.contexts[t.queue[p][m]].state = "Ready"
          /\ t.contexts[t.queue[p][m]].priority = p
    <3> TAKE p \in Priorities
    <3> TAKE m \in DOMAIN t.queue[p]
    <3>1. PICK i \in DOMAIN s.queue[p] : s.queue[p][i] # id /\ t.queue[p][m] = s.queue[p][i]
      BY <1>3, RetainedIs DEF LeftOf
    <3> QED
      BY <1>2, <3>1 DEF Exact
  <2>2. \A x \in DOMAIN t.contexts : t.contexts[x].state = "Ready" => InQueue(t, t.contexts[x].priority, x)
    <3> TAKE x \in DOMAIN t.contexts
    <3> HAVE t.contexts[x].state = "Ready"
    <3>1. x \in DOMAIN s.contexts /\ x # id /\ t.contexts[x] = s.contexts[x]
      BY <1>2
    <3> DEFINE p == s.contexts[x].priority
    <3>2. p \in Priorities
      BY <3>1 DEF SchedOK, Ctxs
    <3>3. PICK i \in DOMAIN s.queue[p] : s.queue[p][i] = x
      BY <3>1 DEF Exact, InQueue
    <3>4. PICK m \in DOMAIN t.queue[p] : t.queue[p][m] = s.queue[p][i]
      BY <1>10, <3>1, <3>2, <3>3
    <3> QED
      BY <3>1, <3>3, <3>4 DEF InQueue
  <2>3. \A p \in Priorities : \A m, k \in DOMAIN t.queue[p] : t.queue[p][m] = t.queue[p][k] => m = k
    BY <1>10
  <2> QED
    BY <2>1, <2>2, <2>3 DEF Exact
<1>6. Fifo(s, t)
  <2> SUFFICES ASSUME NEW p \in Priorities, NEW m \in DOMAIN t.queue[p], NEW k \in DOMAIN t.queue[p], m < k
               PROVE  InOrder(s, p, t.queue[p][m], t.queue[p][k])
    BY DEF Fifo
  <2>1. \E i, j \in DOMAIN s.queue[p] : i < j /\ t.queue[p][m] = s.queue[p][i] /\ t.queue[p][k] = s.queue[p][j]
    BY <1>10
  <2> QED
    BY <2>1 DEF InOrder
<1> QED
  BY <1>1, <1>4, <1>5, <1>6 DEF t

LEMMA CreateIs ==
  ASSUME NEW d, NEW s, SchedOK(s, d), Exact(s),
         NEW p \in Priorities, NEW pc \in Nat, NEW calls \in Seq(Nat), Len(calls) <= d
  PROVE  LET t == CreateContext(s, p, pc, calls)
             c == NewContext(p, pc, calls)
         IN  /\ SchedOK(t, d) /\ Exact(t)
             /\ c \in Ctxs(d) /\ c.state = "Ready"
             /\ c.priority = p /\ Queued(s, t, s.nextId, c)
             /\ t.nextId = s.nextId + 1 /\ t.current = s.current
<1> DEFINE c == NewContext(p, pc, calls)
           n == s.nextId
           u == [SetContext(s, n, c) EXCEPT !.nextId = n + 1]
           t == CreateContext(s, p, pc, calls)
<1>1. c \in Ctxs(d) /\ c.state = "Ready" /\ c.priority = p
  BY DEF NewContext, Ctxs, States
<1> HIDE DEF c
<1>2. /\ DOMAIN u = Fields /\ u.contexts = Put(s.contexts, n, c)
      /\ u.queue = s.queue /\ u.nextId = n + 1 /\ u.current = s.current
  BY SetContextIs DEF SchedOK, Marked, Fields
<1>3. n \in DOMAIN u.contexts /\ u.contexts[n] = c
  BY <1>2 DEF Put
<1>4. t = Enqueue(u, n)
  BY DEF CreateContext, c
<1> HIDE DEF u, t
<1>5. t = PushBack(u, p, n)
  BY <1>1, <1>3, <1>4 DEF Enqueue, Known
<1>6. /\ DOMAIN t = Fields /\ t.contexts = Put(s.contexts, n, c)
      /\ t.queue = [s.queue EXCEPT ![p] = Append(@, n)]
      /\ t.nextId = n + 1 /\ t.current = s.current
  BY <1>2, <1>5 DEF PushBack, Fields
<1>7. n \in Nat /\ n \notin DOMAIN s.contexts
  BY DEF SchedOK
<1>8. Exact(t) /\ t.queue \in [Priorities -> Seq(Nat)]
  <2>1. s.queue \in [Priorities -> Seq(Nat)] /\ n \in Nat
    BY DEF SchedOK
  <2>2. n \in DOMAIN s.contexts => s.contexts[n].state # "Ready"
    BY <1>7
  <2>3. Queued(s, t, n, c)
    BY <1>1, <1>6 DEF Queued
  <2> HIDE DEF n
  <2> QED
    BY <1>1, <2>1, <2>2, <2>3, ExactAppend
<1>9. SchedOK(t, d)
  <2>1. t.contexts \in [DOMAIN t.contexts -> Ctxs(d)]
    BY <1>1, <1>6 DEF SchedOK, Put
  <2>2. DOMAIN t.contexts \subseteq 1 .. t.nextId - 1
    BY <1>6 DEF SchedOK, Put
  <2>3. t.current \in 0 .. t.nextId - 1
    BY <1>6 DEF SchedOK
  <2> QED
    BY <1>6, <1>7, <1>8, <2>1, <2>2, <2>3 DEF SchedOK
<1> QED
  BY <1>1, <1>6, <1>8, <1>9 DEF c, t, Queued

LEMMA NothingSkipped ==
  ASSUME NEW d, NEW s, SchedOK(s, d), Exact(s), NEW p \in Priorities
  PROVE  Pickable(s, p) = DOMAIN s.queue[p]
  BY DEF Pickable, Skipped, Exact, Known

LEMMA PickBandIs ==
  ASSUME NEW s, HasPick(s)
  PROVE  /\ PickBand(s) \in Priorities /\ Pickable(s, PickBand(s)) # {}
         /\ \A r \in Priorities : Pickable(s, r) # {} => Rank[r] <= Rank[PickBand(s)]
<1>1. \E p \in Priorities :
        /\ Pickable(s, p) # {}
        /\ \A r \in Priorities : Pickable(s, r) # {} => Rank[r] <= Rank[p]
  BY DEF HasPick, Priorities, Rank
<1> QED
  BY <1>1 DEF PickBand

LEMMA EmptyIs ==
  ASSUME NEW q \in Seq(Nat), DOMAIN q = {}
  PROVE  q = <<>>
<1>1. Len(q) \in Nat /\ DOMAIN q = 1 .. Len(q)
  OBVIOUS
<1>2. Len(q) = 0
  <2>1. ~ (1 \in 1 .. Len(q))
    BY <1>1
  <2> QED
    BY <1>1, <2>1
<1> QED
  BY <1>2

LEMMA RestIs ==
  ASSUME NEW q \in Seq(Nat), q # <<>>
  PROVE  /\ 1 \in DOMAIN q /\ Len(q) \in Nat
         /\ SubSeq(q, 2, Len(q)) \in Seq(Nat)
         /\ \A i \in DOMAIN SubSeq(q, 2, Len(q)) :
              i \in Nat /\ i + 1 \in DOMAIN q /\ i + 1 # 1 /\ SubSeq(q, 2, Len(q))[i] = q[i + 1]
         /\ \A j \in DOMAIN q : j # 1 =>
              j - 1 \in DOMAIN SubSeq(q, 2, Len(q)) /\ SubSeq(q, 2, Len(q))[j - 1] = q[j]
<1>1. Len(q) \in Nat /\ DOMAIN q = 1 .. Len(q) /\ Len(q) # 0
  OBVIOUS
<1>2. /\ SubSeq(q, 2, Len(q)) \in Seq(Nat)
      /\ Len(SubSeq(q, 2, Len(q))) = Len(q) - 1
      /\ \A i \in 1 .. Len(q) - 1 : SubSeq(q, 2, Len(q))[i] = q[i + 1]
  BY <1>1
<1>3. DOMAIN SubSeq(q, 2, Len(q)) = 1 .. Len(q) - 1
  BY <1>1, <1>2
<1> DEFINE e == SubSeq(q, 2, Len(q))
<1> HIDE DEF e
<1>4. DOMAIN e = 1 .. Len(q) - 1 /\ \A i \in 1 .. Len(q) - 1 : e[i] = q[i + 1]
  BY <1>2, <1>3 DEF e
<1>5. \A i \in DOMAIN e : i \in Nat /\ i + 1 \in DOMAIN q /\ i + 1 # 1 /\ e[i] = q[i + 1]
  BY <1>1, <1>4
<1>6. \A j \in DOMAIN q : j # 1 => j - 1 \in DOMAIN e /\ e[j - 1] = q[j]
  <2> TAKE j \in DOMAIN q
  <2> HAVE j # 1
  <2>1. j \in Int /\ j - 1 \in 1 .. Len(q) - 1 /\ (j - 1) + 1 = j
    BY <1>1
  <2>2. e[j - 1] = q[(j - 1) + 1]
    BY <1>4, <2>1
  <2> QED
    BY <1>4, <2>1, <2>2
<1>7. 1 \in DOMAIN q
  BY <1>1
<1> QED
  BY <1>1, <1>2, <1>5, <1>6, <1>7 DEF e

\* The first of the highest queue that is not empty has left it.
Served(s, t, id) ==
  \E p \in Priorities :
    /\ s.queue[p] # <<>> /\ id = s.queue[p][1]
    /\ t.queue = [s.queue EXCEPT ![p] = SubSeq(@, 2, Len(@))]
    /\ \A r \in Priorities : Rank[r] > Rank[p] => s.queue[r] = <<>>

LEMMA PickNextIs ==
  ASSUME NEW d, NEW s, SchedOK(s, d), Exact(s), HasPick(s)
  PROVE  LET t  == PickNext(s)
             id == Picked(s)
         IN  /\ Served(s, t, id)
             /\ id \in DOMAIN s.contexts /\ s.contexts[id].state = "Ready"
             /\ DOMAIN t = Fields /\ t.nextId = s.nextId /\ t.current = id
             /\ t.contexts = Put(s.contexts, id, [s.contexts[id] EXCEPT !.state = "Running"])
<1> DEFINE p  == PickBand(s)
           id == Picked(s)
           q  == [r \in Priorities |->
                    IF Rank[r] > Rank[p] THEN <<>>
                    ELSE IF r = p THEN SubSeq(s.queue[p], PickAt(s, p) + 1, Len(s.queue[p]))
                    ELSE s.queue[r]]
           u  == [s EXCEPT !.queue = q, !.current = id]
           c  == [s.contexts[id] EXCEPT !.state = "Running"]
<1>1. /\ p \in Priorities
      /\ \A r \in Priorities : Pickable(s, r) = DOMAIN s.queue[r] /\ s.queue[r] \in Seq(Nat)
      /\ DOMAIN s.queue[p] # {}
      /\ \A r \in Priorities : DOMAIN s.queue[r] # {} => Rank[r] <= Rank[p]
  <2>1. \A r \in Priorities : Pickable(s, r) = DOMAIN s.queue[r]
    BY NothingSkipped
  <2> QED
    BY <2>1, PickBandIs DEF SchedOK
<1> HIDE DEF p
<1>2. s.queue[p] # <<>> /\ 1 \in DOMAIN s.queue[p]
  <2>1. s.queue[p] # <<>>
    BY <1>1
  <2> QED
    BY <1>1, <2>1, RestIs
<1>3. PickAt(s, p) = 1
  <2>1. \A j \in Pickable(s, p) : j \in Nat /\ 1 <= j
    BY <1>1
  <2>2. 1 \in Pickable(s, p)
    BY <1>1, <1>2
  <2>3. PickAt(s, p) \in Pickable(s, p) /\ \A j \in Pickable(s, p) : PickAt(s, p) <= j
    BY <2>1, <2>2 DEF PickAt
  <2> QED
    BY <2>1, <2>2, <2>3
<1>4. id = s.queue[p][1]
  BY <1>3 DEF Picked, p
<1>5. \A r \in Priorities : Rank[r] > Rank[p] => s.queue[r] = <<>>
  <2>1. \A r \in Priorities : Rank[r] \in Int
    BY DEF Rank, Priorities
  <2>2. \A r \in Priorities : Rank[r] > Rank[p] => DOMAIN s.queue[r] = {}
    BY <1>1, <2>1, SMTT(30)
  <2> QED
    BY <1>1, <2>2, EmptyIs
<1>6. q = [s.queue EXCEPT ![p] = SubSeq(@, 2, Len(@))]
  <2>1. s.queue \in [Priorities -> Seq(Nat)]
    BY DEF SchedOK
  <2>2. ~ (Rank[p] > Rank[p])
    BY <1>1 DEF Rank, Priorities
  <2> QED
    <3>1. \A r \in Priorities \ {p} : Rank[r] > Rank[p] => s.queue[r] = <<>>
      BY <1>5
    <3>2. PickAt(s, p) + 1 = 2
      BY <1>3
    <3> QED
      BY <1>1, <2>1, <2>2, <3>1, <3>2
<1>7. id \in DOMAIN s.contexts /\ s.contexts[id].state = "Ready"
  BY <1>1, <1>2, <1>4 DEF Exact
<1>8. PickNext(s) = SetState(u, id, "Running")
  BY DEF PickNext, p
<1> HIDE DEF q, id
<1>9. DOMAIN u = Fields /\ u.contexts = s.contexts /\ u.queue = q /\ u.nextId = s.nextId /\ u.current = id
  BY DEF SchedOK, Fields
<1> HIDE DEF u
<1>10. PickNext(s) = SetContext(u, id, c)
  BY <1>7, <1>8, <1>9 DEF SetState, Known
<1>11. Marked(u, PickNext(s), id, c) /\ PickNext(s).current = id
  BY <1>9, <1>10, SetContextIs
<1>12. Served(s, PickNext(s), id)
  BY <1>1, <1>2, <1>4, <1>5, <1>6, <1>9, <1>11 DEF Served, Marked
<1> QED
  BY <1>7, <1>9, <1>11, <1>12 DEF Marked, id

LEMMA PickOK ==
  ASSUME NEW d, NEW s, SchedOK(s, d), Exact(s), Calm(s), HasPick(s)
  PROVE  LET t  == PickNext(s)
             id == Picked(s)
         IN  /\ SchedOK(t, d) /\ Exact(t) /\ Handing(t, id) /\ Fifo(s, t)
             /\ StateIs(t, id, "Running")
             /\ \A x \in DOMAIN t.contexts : t.contexts[x].state = "Ready" =>
                  Rank[t.contexts[x].priority] <= Rank[t.contexts[id].priority]
<1> DEFINE t  == PickNext(s)
           id == Picked(s)
           c  == [s.contexts[id] EXCEPT !.state = "Running"]
<1>1. /\ Served(s, t, id)
      /\ id \in DOMAIN s.contexts /\ s.contexts[id].state = "Ready"
      /\ DOMAIN t = Fields /\ t.nextId = s.nextId /\ t.current = id
      /\ t.contexts = Put(s.contexts, id, c)
  BY PickNextIs
<1> HIDE DEF t, id
<1>2. PICK p \in Priorities :
        /\ s.queue[p] # <<>> /\ id = s.queue[p][1]
        /\ t.queue = [s.queue EXCEPT ![p] = SubSeq(@, 2, Len(@))]
        /\ \A r \in Priorities : Rank[r] > Rank[p] => s.queue[r] = <<>>
  BY <1>1 DEF Served
<1>3. s.queue \in [Priorities -> Seq(Nat)] /\ s.queue[p] \in Seq(Nat)
  BY DEF SchedOK
<1>4. t.queue[p] = SubSeq(s.queue[p], 2, Len(s.queue[p])) /\ \A r \in Priorities \ {p} : t.queue[r] = s.queue[r]
  BY <1>2, <1>3
<1>5. /\ t.queue[p] \in Seq(Nat) /\ 1 \in DOMAIN s.queue[p]
      /\ \A i \in DOMAIN t.queue[p] :
           i \in Nat /\ i + 1 \in DOMAIN s.queue[p] /\ i + 1 # 1 /\ t.queue[p][i] = s.queue[p][i + 1]
      /\ \A j \in DOMAIN s.queue[p] : j # 1 => j - 1 \in DOMAIN t.queue[p] /\ t.queue[p][j - 1] = s.queue[p][j]
  BY <1>2, <1>3, <1>4, RestIs, SMTT(30)
<1>6. /\ c \in Ctxs(d) /\ c.state = "Running" /\ c.priority = p
      /\ s.contexts[id].priority = p
  <2>1. s.contexts[id] \in Ctxs(d) /\ s.contexts[id].priority = p
    <3>1. id \in DOMAIN s.contexts /\ s.contexts[id].priority = p
      <4>1. 1 \in DOMAIN s.queue[p] /\ s.queue[p][1] = id
        BY ONLY <1>2, <1>5, Zenon
      <4> QED
        BY <1>1, <4>1 DEF Exact
    <3>2. s.contexts \in [DOMAIN s.contexts -> Ctxs(d)]
      BY <1>1 DEF SchedOK
    <3> QED
      BY <3>1, <3>2
  <2> QED
    BY <2>1 DEF Ctxs, States
<1> HIDE DEF c
<1>7. /\ DOMAIN t.contexts = DOMAIN s.contexts /\ t.contexts[id] = c
      /\ \A x \in DOMAIN s.contexts : x # id => t.contexts[x] = s.contexts[x]
  BY <1>1 DEF Put
<1>8. SchedOK(t, d)
  <2>1. t.contexts \in [DOMAIN t.contexts -> Ctxs(d)]
    BY <1>1, <1>6, <1>7 DEF SchedOK, Put
  <2>2. t.queue \in [Priorities -> Seq(Nat)]
    BY <1>2, <1>3, <1>4, <1>5
  <2>3. t.current \in 0 .. t.nextId - 1
    BY <1>1 DEF SchedOK
  <2> QED
    BY <1>1, <1>7, <2>1, <2>2, <2>3 DEF SchedOK
<1>9. \A r \in Priorities : \A i \in DOMAIN t.queue[r] :
        /\ t.queue[r][i] # id /\ InQueue(s, r, t.queue[r][i])
        /\ t.queue[r][i] \in DOMAIN s.contexts
        /\ s.contexts[t.queue[r][i]].state = "Ready" /\ s.contexts[t.queue[r][i]].priority = r
  <2> TAKE r \in Priorities
  <2> TAKE i \in DOMAIN t.queue[r]
  <2>1. CASE r = p
    <3>1. i + 1 \in DOMAIN s.queue[p] /\ i + 1 # 1 /\ t.queue[r][i] = s.queue[p][i + 1]
      BY <1>5, <2>1
    <3> QED
      BY <1>2, <1>5, <2>1, <3>1, SMTT(30) DEF Exact, InQueue
  <2>2. CASE r # p
    <3>1. t.queue[r] = s.queue[r]
      BY <1>4, <2>2
    <3> QED
      BY <1>6, <2>2, <3>1 DEF Exact, InQueue
  <2> QED
    BY <2>1, <2>2
<1>10. \A x \in DOMAIN t.contexts : t.contexts[x].state = "Ready" => InQueue(t, t.contexts[x].priority, x)
  <2> TAKE x \in DOMAIN t.contexts
  <2> HAVE t.contexts[x].state = "Ready"
  <2>1. x # id /\ x \in DOMAIN s.contexts /\ t.contexts[x] = s.contexts[x]
    BY <1>6, <1>7
  <2>2. PICK r \in Priorities : r = s.contexts[x].priority
    BY <2>1 DEF SchedOK, Ctxs
  <2>3. PICK i \in DOMAIN s.queue[r] : s.queue[r][i] = x
    BY <2>1, <2>2 DEF Exact, InQueue
  <2>4. CASE r = p
    <3>1. i # 1
      BY <1>2, <2>1, <2>3, <2>4
    <3>2. i - 1 \in DOMAIN t.queue[p] /\ t.queue[p][i - 1] = x
      BY <1>5, <2>3, <2>4, <3>1
    <3> QED
      BY <2>1, <2>2, <2>4, <3>2 DEF InQueue
  <2>5. CASE r # p
    <3>1. t.queue[r] = s.queue[r]
      BY <1>4, <2>5
    <3> QED
      BY <2>1, <2>2, <2>3, <3>1 DEF InQueue
  <2> QED
    BY <2>4, <2>5
<1>11. \A r \in Priorities : \A i, j \in DOMAIN t.queue[r] : t.queue[r][i] = t.queue[r][j] => i = j
  <2> TAKE r \in Priorities
  <2> TAKE i, j \in DOMAIN t.queue[r]
  <2> HAVE t.queue[r][i] = t.queue[r][j]
  <2>1. CASE r = p
    <3>1. /\ i \in Nat /\ i + 1 \in DOMAIN s.queue[p] /\ t.queue[p][i] = s.queue[p][i + 1]
          /\ j \in Nat /\ j + 1 \in DOMAIN s.queue[p] /\ t.queue[p][j] = s.queue[p][j + 1]
      BY <1>5, <2>1
    <3>2. i + 1 = j + 1
      BY <2>1, <3>1 DEF Exact
    <3> QED
      BY <3>1, <3>2
  <2>2. CASE r # p
    <3>1. t.queue[r] = s.queue[r]
      BY <1>4, <2>2
    <3> QED
      BY <3>1 DEF Exact
  <2> QED
    BY <2>1, <2>2
<1>12. Exact(t)
  BY <1>7, <1>9, <1>10, <1>11 DEF Exact
<1>13. Handing(t, id) /\ StateIs(t, id, "Running")
  BY <1>1, <1>6, <1>7 DEF Handing, Calm, StateIs, Known
<1>14. Fifo(s, t)
  <2> SUFFICES ASSUME NEW r \in Priorities, NEW i \in DOMAIN t.queue[r], NEW j \in DOMAIN t.queue[r], i < j
               PROVE  InOrder(s, r, t.queue[r][i], t.queue[r][j])
    BY DEF Fifo
  <2>1. CASE r = p
    <3>1. /\ i \in Nat /\ i + 1 \in DOMAIN s.queue[p] /\ t.queue[p][i] = s.queue[p][i + 1]
          /\ j \in Nat /\ j + 1 \in DOMAIN s.queue[p] /\ t.queue[p][j] = s.queue[p][j + 1]
      BY <1>5, <2>1
    <3>2. i + 1 < j + 1
      BY <3>1
    <3> QED
      BY <2>1, <3>1, <3>2 DEF InOrder
  <2>2. CASE r # p
    <3>1. t.queue[r] = s.queue[r]
      BY <1>4, <2>2
    <3> QED
      BY <3>1 DEF InOrder
  <2> QED
    BY <2>1, <2>2
<1>15. \A x \in DOMAIN t.contexts : t.contexts[x].state = "Ready" =>
         Rank[t.contexts[x].priority] <= Rank[t.contexts[id].priority]
  <2> TAKE x \in DOMAIN t.contexts
  <2> HAVE t.contexts[x].state = "Ready"
  <2>1. x \in DOMAIN s.contexts /\ t.contexts[x] = s.contexts[x]
    BY <1>6, <1>7
  <2>2. PICK r \in Priorities : r = t.contexts[x].priority
    BY <2>1 DEF SchedOK, Ctxs
  <2>3. s.queue[r] # <<>>
    <3>1. PICK i \in DOMAIN s.queue[r] : TRUE
      BY <2>1, <2>2 DEF Exact, InQueue
    <3> QED
      BY <3>1
  <2>4. ~ (Rank[r] > Rank[p])
    BY <1>2, <2>3
  <2>5. Rank[r] \in Int /\ Rank[p] \in Int
    BY DEF Rank, Priorities
  <2> QED
    BY <1>6, <1>7, <2>2, <2>4, <2>5
<1> QED
  BY <1>8, <1>12, <1>13, <1>14, <1>15 DEF t, id

\* pick_next that finds nothing: the queues are empty, and nobody is Ready.
LEMMA NobodyReady ==
  ASSUME NEW d, NEW s, SchedOK(s, d), Exact(s), ~ HasPick(s)
  PROVE  /\ \A p \in Priorities : s.queue[p] = <<>>
         /\ PickNothing(s).queue = s.queue
         /\ \A id \in DOMAIN s.contexts : s.contexts[id].state # "Ready"
<1>1. \A p \in Priorities : DOMAIN s.queue[p] = {} /\ s.queue[p] \in Seq(Nat)
  BY NothingSkipped DEF HasPick, SchedOK
<1>2. \A p \in Priorities : s.queue[p] = <<>>
  BY <1>1, EmptyIs
<1>3. \A id \in DOMAIN s.contexts : s.contexts[id].state # "Ready"
  BY <1>1 DEF Exact, InQueue, SchedOK, Ctxs
<1>4. PickNothing(s).queue = [p \in Priorities |-> <<>>]
  BY DEF PickNothing, SchedOK, Fields
<1>5. s.queue = [p \in Priorities |-> <<>>]
  BY <1>2 DEF SchedOK
<1> QED
  BY <1>2, <1>3, <1>4, <1>5
=============================================================================
