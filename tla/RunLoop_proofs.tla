--------------------------- MODULE RunLoop_proofs ---------------------------
(***************************************************************************)
(* What is proved of the run loop, for every set of programs, locks,       *)
(* barriers and bounds: its invariants and its action properties but       *)
(* liveness, and that it implements the dispatcher of Dispatcher.tla.  The *)
(* lemmas about the scheduler's operators are those of Scheduler_proofs.   *)
(***************************************************************************)
EXTENDS RunLoop, Scheduler_proofs

-----------------------------------------------------------------------------
(* The end of a turn, which started in s and whose handler left u.         *)

Settled(s, u, t, r, d) ==
  /\ SchedOK(t, d) /\ Exact(t) /\ Fifo(s, t) /\ Calm(t)
  /\ t.nextId = u.nextId
  /\ DOMAIN t.contexts = DOMAIN u.contexts
  /\ \A id \in DOMAIN u.contexts \ {r} : t.contexts[id] = u.contexts[id]
  /\ StateIs(u, r, "Running") => t.contexts[r].state \in {"Ready", "Terminated"}
  /\ ~ StateIs(u, r, "Running") => t.contexts = u.contexts

LEMMA RequeuedIs ==
  ASSUME NEW d, NEW s, NEW u, SchedOK(u, d), Exact(u), NEW r, Handing(u, r),
         Fifo(s, u), \A p \in Priorities : ~ InQueue(s, p, r),
         StateIs(u, r, "Running"),
         NEW c \in Ctxs(d), c.state = "Ready", NEW t, Requeued(u, t, r, c)
  PROVE  Settled(s, u, t, r, d)
<1>1. r \in Nat /\ r \in DOMAIN u.contexts /\ u.contexts[r].state = "Running"
  BY DEF SchedOK, StateIs, Known
<1>2. c.priority \in Priorities
  BY DEF Ctxs
<1>3. /\ DOMAIN t = Fields /\ Queued(u, t, r, c) /\ t.nextId = u.nextId /\ t.current = None
      /\ t.contexts = Put(u.contexts, r, c)
  BY DEF Requeued, Queued
<1>4. u.queue \in [Priorities -> Seq(Nat)]
  BY DEF SchedOK
<1>5. Exact(t) /\ t.queue \in [Priorities -> Seq(Nat)]
  BY <1>1, <1>2, <1>3, <1>4, ExactAppend
<1>6. Fifo(s, t)
  BY <1>1, <1>2, <1>3, <1>4, FifoAppend
<1>7. /\ DOMAIN t.contexts = DOMAIN u.contexts /\ t.contexts[r] = c
      /\ \A id \in DOMAIN u.contexts \ {r} : t.contexts[id] = u.contexts[id]
  BY <1>1, <1>3 DEF Put
<1>8. SchedOK(t, d)
  <2>1. t.contexts \in [DOMAIN t.contexts -> Ctxs(d)]
    BY <1>1, <1>3, <1>7 DEF SchedOK, Put
  <2>2. t.current \in 0 .. t.nextId - 1
    BY <1>3 DEF SchedOK, None
  <2> QED
    BY <1>3, <1>5, <1>7, <2>1, <2>2 DEF SchedOK
<1>9. Calm(t)
  BY <1>7 DEF Calm, Handing
<1> QED
  BY <1>3, <1>5, <1>6, <1>7, <1>8, <1>9 DEF Settled

LEMMA ClosedIs ==
  ASSUME NEW d, NEW s, NEW u, SchedOK(u, d), Exact(u), NEW r, Handing(u, r),
         Fifo(s, u), ~ StateIs(u, r, "Running"), NEW t, Closed(u, t)
  PROVE  Settled(s, u, t, r, d)
<1>1. /\ DOMAIN t = Fields /\ t.contexts = u.contexts /\ t.queue = u.queue
      /\ t.nextId = u.nextId /\ t.current = None
  BY DEF Closed
<1>2. SchedOK(t, d)
  BY <1>1 DEF SchedOK, None
<1>3. Exact(t)
  BY <1>1 DEF Exact, InQueue
<1>4. Fifo(s, t)
  BY <1>1, FifoSame
<1>5. Calm(t)
  BY <1>1 DEF Calm, Handing, StateIs, Known
<1> QED
  BY <1>1, <1>2, <1>3, <1>4, <1>5 DEF Settled

LEMMA MarkedIs ==
  ASSUME NEW d, NEW s, NEW u, SchedOK(u, d), Exact(u), NEW r, Handing(u, r),
         Fifo(s, u), StateIs(u, r, "Running"),
         NEW c \in Ctxs(d), c.state \in {"Terminated", "Blocked"}, NEW t, Marked(u, t, r, c)
  PROVE  /\ SchedOK(t, d) /\ Exact(t) /\ Fifo(s, t) /\ Calm(t)
         /\ t.nextId = u.nextId
         /\ DOMAIN t.contexts = DOMAIN u.contexts /\ t.contexts[r] = c
         /\ \A id \in DOMAIN u.contexts \ {r} : t.contexts[id] = u.contexts[id]
<1>1. r \in DOMAIN u.contexts /\ u.contexts[r].state = "Running"
  BY DEF StateIs, Known
<1>2. /\ DOMAIN t = Fields /\ t.contexts = Put(u.contexts, r, c) /\ t.queue = u.queue
      /\ t.nextId = u.nextId /\ t.current \in {None, u.current}
  BY DEF Marked
<1>3. /\ DOMAIN t.contexts = DOMAIN u.contexts /\ t.contexts[r] = c
      /\ \A id \in DOMAIN u.contexts \ {r} : t.contexts[id] = u.contexts[id]
  BY <1>1, <1>2 DEF Put
<1>4. SchedOK(t, d)
  <2>1. t.contexts \in [DOMAIN t.contexts -> Ctxs(d)]
    BY <1>1, <1>2, <1>3 DEF SchedOK, Put
  <2>2. t.current \in 0 .. t.nextId - 1
    BY <1>2 DEF SchedOK, None
  <2> QED
    BY <1>2, <1>3, <2>1, <2>2 DEF SchedOK
<1>5. Exact(t)
  <2>1. \A p \in Priorities : \A i \in DOMAIN u.queue[p] : u.queue[p][i] # r
    BY <1>1 DEF Exact
  <2>2. \A p \in Priorities : \A i \in DOMAIN t.queue[p] :
          /\ t.queue[p][i] \in DOMAIN t.contexts
          /\ t.contexts[t.queue[p][i]].state = "Ready"
          /\ t.contexts[t.queue[p][i]].priority = p
    BY <1>2, <1>3, <2>1 DEF Exact
  <2>3. \A id \in DOMAIN t.contexts :
          t.contexts[id].state = "Ready" => InQueue(t, t.contexts[id].priority, id)
    <3> TAKE id \in DOMAIN t.contexts
    <3> HAVE t.contexts[id].state = "Ready"
    <3>1. id # r
      BY <1>3
    <3>2. id \in DOMAIN u.contexts /\ t.contexts[id] = u.contexts[id]
      BY <1>3, <3>1
    <3> QED
      BY <1>2, <3>2 DEF Exact, InQueue
  <2>4. \A p \in Priorities : \A i, j \in DOMAIN t.queue[p] : t.queue[p][i] = t.queue[p][j] => i = j
    BY <1>2 DEF Exact
  <2> QED
    BY <2>2, <2>3, <2>4 DEF Exact
<1>6. Fifo(s, t)
  BY <1>2, FifoSame
<1>7. Calm(t)
  BY <1>3 DEF Calm, Handing
<1> QED
  BY <1>2, <1>3, <1>4, <1>5, <1>6, <1>7

LEMMA EndsSettled ==
  ASSUME NEW d, NEW s, NEW u, SchedOK(u, d), Exact(u), NEW r, Handing(u, r),
         Fifo(s, u), \A p \in Priorities : ~ InQueue(s, p, r), NEW advance \in BOOLEAN
  PROVE  Settled(s, u, SliceEnds(u, r, advance), r, d)
<1> DEFINE t == SliceEnds(u, r, advance)
<1>1. /\ StateIs(u, r, "Running") =>
           \E pc \in Nat : Requeued(u, t, r, [u.contexts[r] EXCEPT !.state = "Ready", !.pc = pc])
      /\ ~ StateIs(u, r, "Running") => Closed(u, t)
  BY SliceEndsIs
<1> HIDE DEF t
<1>2. CASE StateIs(u, r, "Running")
  <2>1. PICK pc \in Nat : Requeued(u, t, r, [u.contexts[r] EXCEPT !.state = "Ready", !.pc = pc])
    BY <1>1, <1>2
  <2> DEFINE c == [u.contexts[r] EXCEPT !.state = "Ready", !.pc = pc]
  <2>2. u.contexts[r] \in Ctxs(d)
    BY <1>2 DEF SchedOK, StateIs, Known
  <2>3. c \in Ctxs(d) /\ c.state = "Ready"
    BY <2>2 DEF Ctxs, States
  <2>4. Requeued(u, t, r, c)
    BY <2>1
  <2> HIDE DEF c
  <2>5. Settled(s, u, t, r, d)
    BY <1>2, <2>3, <2>4, RequeuedIs
  <2> QED
    BY <2>5 DEF t
<1>3. CASE ~ StateIs(u, r, "Running")
  <2>1. Settled(s, u, t, r, d)
    BY <1>1, <1>3, ClosedIs
  <2> QED
    BY <2>1 DEF t
<1> QED
  BY <1>2, <1>3

LEMMA FailsSettled ==
  ASSUME NEW d, NEW s, NEW u, SchedOK(u, d), Exact(u), NEW r, Handing(u, r),
         Fifo(s, u), StateIs(u, r, "Running") \/ ~ Known(u, r)
  PROVE  Settled(s, u, SliceFails(u, r), r, d)
<1> DEFINE t == SliceFails(u, r)
<1>1. /\ StateIs(u, r, "Running") =>
           Marked(u, t, r, [u.contexts[r] EXCEPT !.state = "Terminated"])
      /\ ~ Known(u, r) => Closed(u, t)
  BY SliceFailsIs
<1> HIDE DEF t
<1>2. CASE StateIs(u, r, "Running")
  <2> DEFINE c == [u.contexts[r] EXCEPT !.state = "Terminated"]
  <2>1. u.contexts[r] \in Ctxs(d)
    BY <1>2 DEF SchedOK, StateIs, Known
  <2>2. c \in Ctxs(d) /\ c.state = "Terminated"
    BY <2>1 DEF Ctxs, States
  <2>3. Marked(u, t, r, c)
    BY <1>1, <1>2
  <2> HIDE DEF c
  <2>4. Settled(s, u, t, r, d)
    BY <1>2, <2>2, <2>3, MarkedIs DEF Settled
  <2> QED
    BY <2>4 DEF t
<1>3. CASE ~ Known(u, r)
  <2>1. ~ StateIs(u, r, "Running")
    BY <1>3 DEF StateIs
  <2>2. Settled(s, u, t, r, d)
    BY <1>1, <1>3, <2>1, ClosedIs
  <2> QED
    BY <2>2 DEF t
<1> QED
  BY <1>2, <1>3

-----------------------------------------------------------------------------
(* What the handlers leave, but those of BARRIER.                          *)

\* r is executing.
Slicing(s, r, d) == SchedOK(s, d) /\ Exact(s) /\ Handing(s, r) /\ StateIs(s, r, "Running")

\* From s, the handler of r has left u.
Mid(s, u, r, d) ==
  /\ SchedOK(u, d) /\ Exact(u) /\ Handing(u, r) /\ Fifo(s, u) /\ OnlySelf(s, u, r)
  /\ Known(u, r) => u.contexts[r].state \in {"Running", "Ready"}

\* From s, the turn of r has ended in t, and r does not wait.
Plain(s, t, r, d) ==
  /\ SchedOK(t, d) /\ Exact(t) /\ Calm(t) /\ Fifo(s, t) /\ OnlySelf(s, t, r)
  /\ Known(t, r) => t.contexts[r].state \in {"Ready", "Terminated"}

LEMMA SlicingIs ==
  ASSUME NEW d, NEW s, NEW r, Slicing(s, r, d)
  PROVE  /\ SchedOK(s, d) /\ Exact(s) /\ Handing(s, r) /\ StateIs(s, r, "Running")
         /\ r \in DOMAIN s.contexts /\ s.contexts[r].state = "Running" /\ s.contexts[r] \in Ctxs(d)
         /\ s.current = r /\ r \in Nat /\ r < s.nextId
         /\ \A p \in Priorities : ~ InQueue(s, p, r)
<1>1. SchedOK(s, d) /\ Exact(s) /\ Handing(s, r) /\ StateIs(s, r, "Running")
  BY DEF Slicing
<1>2. r \in DOMAIN s.contexts /\ s.contexts[r].state = "Running"
  BY <1>1 DEF StateIs, Known
<1>3. s.contexts[r] \in Ctxs(d) /\ s.current = r /\ r \in Nat /\ r < s.nextId
  BY <1>1, <1>2 DEF SchedOK, Handing
<1>4. \A p \in Priorities : ~ InQueue(s, p, r)
  BY <1>1, <1>2 DEF Exact, InQueue
<1> QED
  BY <1>1, <1>2, <1>3, <1>4

LEMMA SettledPlain ==
  ASSUME NEW d, NEW s, NEW r, NEW u, Mid(s, u, r, d), NEW t, Settled(s, u, t, r, d)
  PROVE  Plain(s, t, r, d) /\ t.nextId = u.nextId
<1>1. /\ SchedOK(t, d) /\ Exact(t) /\ Fifo(s, t) /\ Calm(t)
      /\ t.nextId = u.nextId /\ DOMAIN t.contexts = DOMAIN u.contexts
      /\ \A id \in DOMAIN u.contexts \ {r} : t.contexts[id] = u.contexts[id]
      /\ StateIs(u, r, "Running") => t.contexts[r].state \in {"Ready", "Terminated"}
      /\ ~ StateIs(u, r, "Running") => t.contexts = u.contexts
  BY DEF Settled
<1>2. OnlySelf(s, u, r) /\ (Known(u, r) => u.contexts[r].state \in {"Running", "Ready"})
  BY DEF Mid
<1>3. OnlySelf(s, t, r)
  BY <1>1, <1>2 DEF OnlySelf
<1>4. Known(t, r) => t.contexts[r].state \in {"Ready", "Terminated"}
  BY <1>1, <1>2 DEF Known, StateIs
<1> QED
  BY <1>1, <1>3, <1>4 DEF Plain

LEMMA MidEnds ==
  ASSUME NEW d, NEW s, NEW r, Slicing(s, r, d), NEW u, Mid(s, u, r, d), NEW advance \in BOOLEAN
  PROVE  /\ Plain(s, SliceEnds(u, r, advance), r, d)
         /\ SliceEnds(u, r, advance).nextId = u.nextId
<1>1. SchedOK(u, d) /\ Exact(u) /\ Handing(u, r) /\ Fifo(s, u)
  BY DEF Mid
<1>2. \A p \in Priorities : ~ InQueue(s, p, r)
  BY SlicingIs
<1>3. Settled(s, u, SliceEnds(u, r, advance), r, d)
  BY <1>1, <1>2, EndsSettled
<1> QED
  BY <1>3, SettledPlain

LEMMA MidFails ==
  ASSUME NEW d, NEW s, NEW r, Slicing(s, r, d), NEW u, Mid(s, u, r, d),
         StateIs(u, r, "Running") \/ ~ Known(u, r)
  PROVE  /\ Plain(s, SliceFails(u, r), r, d)
         /\ SliceFails(u, r).nextId = u.nextId
<1>1. SchedOK(u, d) /\ Exact(u) /\ Handing(u, r) /\ Fifo(s, u)
  BY DEF Mid
<1>2. Settled(s, u, SliceFails(u, r), r, d)
  BY <1>1, FailsSettled
<1> QED
  BY <1>2, SettledPlain

\* r is another, and still running.
LEMMA ChangedMid ==
  ASSUME NEW d, NEW s, NEW r, Slicing(s, r, d), NEW c \in Ctxs(d), c.state = "Running",
         NEW u, Marked(s, u, r, c), u.current = s.current
  PROVE  Mid(s, u, r, d) /\ Slicing(u, r, d) /\ u.contexts[r] = c /\ u.nextId = s.nextId
<1>1. /\ SchedOK(s, d) /\ Exact(s) /\ Handing(s, r)
      /\ r \in DOMAIN s.contexts /\ s.contexts[r].state = "Running" /\ s.current = r
  BY SlicingIs
<1>2. /\ DOMAIN u = Fields /\ u.contexts = Put(s.contexts, r, c) /\ u.queue = s.queue
      /\ u.nextId = s.nextId /\ u.current = r
  BY <1>1 DEF Marked
<1>3. /\ DOMAIN u.contexts = DOMAIN s.contexts /\ u.contexts[r] = c
      /\ \A id \in DOMAIN s.contexts \ {r} : u.contexts[id] = s.contexts[id]
  BY <1>1, <1>2 DEF Put
<1>4. SchedOK(u, d)
  <2>1. u.contexts \in [DOMAIN u.contexts -> Ctxs(d)]
    BY <1>1, <1>2, <1>3 DEF SchedOK, Put
  <2> QED
    BY <1>1, <1>2, <1>3, <2>1 DEF SchedOK
<1>5. Exact(u)
  <2>1. \A p \in Priorities : \A i \in DOMAIN s.queue[p] : s.queue[p][i] # r
    BY <1>1 DEF Exact
  <2>2. \A p \in Priorities : \A i \in DOMAIN u.queue[p] :
          /\ u.queue[p][i] \in DOMAIN u.contexts
          /\ u.contexts[u.queue[p][i]].state = "Ready"
          /\ u.contexts[u.queue[p][i]].priority = p
    BY <1>1, <1>2, <1>3, <2>1 DEF Exact
  <2>3. \A id \in DOMAIN u.contexts :
          u.contexts[id].state = "Ready" => InQueue(u, u.contexts[id].priority, id)
    <3> TAKE id \in DOMAIN u.contexts
    <3> HAVE u.contexts[id].state = "Ready"
    <3>1. id # r
      BY <1>3
    <3>2. id \in DOMAIN s.contexts /\ u.contexts[id] = s.contexts[id]
      BY <1>3, <3>1
    <3> QED
      BY <1>1, <1>2, <3>2 DEF Exact, InQueue
  <2>4. \A p \in Priorities : \A i, j \in DOMAIN u.queue[p] : u.queue[p][i] = u.queue[p][j] => i = j
    BY <1>1, <1>2 DEF Exact
  <2> QED
    BY <2>2, <2>3, <2>4 DEF Exact
<1>6. Handing(u, r) /\ StateIs(u, r, "Running")
  BY <1>1, <1>2, <1>3 DEF Handing, StateIs, Known, None
<1>7. Fifo(s, u)
  BY <1>2, FifoSelf, FifoSame
<1>8. OnlySelf(s, u, r)
  BY <1>1, <1>2, <1>3 DEF OnlySelf, SchedOK
<1> QED
  BY <1>2, <1>3, <1>4, <1>5, <1>6, <1>7, <1>8 DEF Mid, Slicing

LEMMA SameMid ==
  ASSUME NEW d, NEW s, NEW r, Slicing(s, r, d)
  PROVE  Mid(s, s, r, d)
<1>1. /\ SchedOK(s, d) /\ Exact(s) /\ Handing(s, r)
      /\ r \in DOMAIN s.contexts /\ s.contexts[r].state = "Running"
  BY SlicingIs
<1>2. Fifo(s, s)
  BY FifoSelf
<1>3. OnlySelf(s, s, r)
  BY <1>1 DEF OnlySelf, SchedOK
<1> QED
  BY <1>1, <1>2, <1>3 DEF Mid

LEMMA SetMid ==
  ASSUME NEW d, NEW s, NEW r, Slicing(s, r, d), NEW c \in Ctxs(d), c.state = "Running"
  PROVE  /\ Mid(s, SetContext(s, r, c), r, d) /\ Slicing(SetContext(s, r, c), r, d)
         /\ SetContext(s, r, c).nextId = s.nextId
<1>1. DOMAIN s = Fields
  BY SlicingIs DEF SchedOK
<1>2. Marked(s, SetContext(s, r, c), r, c) /\ SetContext(s, r, c).current = s.current
  BY <1>1, SetContextIs
<1> QED
  BY <1>2, ChangedMid

LEMMA CreateMid ==
  ASSUME NEW d, NEW s, NEW r, Slicing(s, r, d),
         NEW p \in Priorities, NEW pc \in Nat, NEW calls \in Seq(Nat), Len(calls) <= d
  PROVE  LET u == CreateContext(s, p, pc, calls)
         IN  Mid(s, u, r, d) /\ StateIs(u, r, "Running") /\ u.nextId = s.nextId + 1
<1> DEFINE u == CreateContext(s, p, pc, calls)
           n == s.nextId
           c == NewContext(p, pc, calls)
<1>1. /\ SchedOK(s, d) /\ Exact(s) /\ Handing(s, r) /\ n \in Nat
      /\ r \in DOMAIN s.contexts /\ s.contexts[r].state = "Running" /\ s.current = r /\ r < n /\ r \in Nat
  BY SlicingIs DEF SchedOK
<1>2. /\ SchedOK(u, d) /\ Exact(u) /\ c.state = "Ready" /\ c.priority = p /\ Queued(s, u, n, c)
      /\ u.nextId = n + 1 /\ u.current = s.current
  BY <1>1, CreateIs
<1>3. n \notin DOMAIN s.contexts
  BY <1>1 DEF SchedOK
<1> HIDE DEF u, c, n
<1>4. /\ DOMAIN u.contexts = DOMAIN s.contexts \cup {n} /\ u.contexts[n] = c
      /\ \A id \in DOMAIN s.contexts : u.contexts[id] = s.contexts[id]
  BY <1>2, <1>3 DEF Queued, Put
<1>5. Handing(u, r) /\ StateIs(u, r, "Running")
  BY <1>1, <1>2, <1>4 DEF Handing, StateIs, Known
<1>6. Fifo(s, u)
  <2>1. s.queue \in [Priorities -> Seq(Nat)]
    BY <1>1 DEF SchedOK
  <2>2. ~ InQueue(s, p, n)
    BY <1>1, <1>3 DEF InQueue, Exact
  <2> QED
    BY <1>1, <1>2, <2>1, <2>2, FifoSelf, FifoAppend
<1>7. OnlySelf(s, u, r)
  <2>1. n = s.nextId
    BY DEF n
  <2> QED
    BY <1>1, <1>2, <1>4, <2>1 DEF OnlySelf
<1> QED
  BY <1>1, <1>2, <1>4, <1>5, <1>6, <1>7 DEF Mid, u, n

LEMMA RemoveMid ==
  ASSUME NEW d, NEW s, NEW r, Slicing(s, r, d), NEW target
  PROVE  LET u == Remove(s, target)
         IN  /\ Mid(s, u, r, d) /\ u.nextId = s.nextId
             /\ StateIs(u, r, "Running") \/ ~ Known(u, r)
<1> DEFINE u == Remove(s, target)
<1>1. /\ SchedOK(s, d) /\ Exact(s) /\ Handing(s, r)
      /\ r \in DOMAIN s.contexts /\ s.contexts[r].state = "Running" /\ s.current = r
  BY SlicingIs
<1>2. /\ SchedOK(u, d) /\ Exact(u) /\ Fifo(s, u)
      /\ u.contexts = Restrict(s.contexts, DOMAIN s.contexts \ {target})
      /\ u.nextId = s.nextId
      /\ u.current = IF s.current = target THEN None ELSE s.current
  BY <1>1, RemoveIs
<1> HIDE DEF u
<1>3. /\ DOMAIN u.contexts = DOMAIN s.contexts \ {target}
      /\ \A id \in DOMAIN u.contexts : u.contexts[id] = s.contexts[id]
  BY <1>2 DEF Restrict
<1>4. Handing(u, r) /\ (StateIs(u, r, "Running") \/ ~ Known(u, r))
  BY <1>1, <1>2, <1>3 DEF Handing, StateIs, Known
<1>5. OnlySelf(s, u, r)
  <2>1. u.nextId >= s.nextId
    BY <1>1, <1>2 DEF SchedOK
  <2>2. \A id \in DOMAIN u.contexts : id \in DOMAIN s.contexts /\ u.contexts[id] = s.contexts[id]
    BY <1>3
  <2> QED
    BY <1>1, <2>1, <2>2 DEF OnlySelf
<1> QED
  BY <1>2, <1>3, <1>4, <1>5 DEF Mid, StateIs, u

\* Preempted, r is queued and Ready before its turn ends.
LEMMA PreemptMid ==
  ASSUME NEW d, NEW s, NEW r, Slicing(s, r, d),
         NEW u, Mid(s, u, r, d), Slicing(u, r, d)
  PROVE  Mid(s, MaybePreempt(u), r, d) /\ MaybePreempt(u).nextId = u.nextId
<1> DEFINE t == MaybePreempt(u)
<1>1. CASE t = u
  BY <1>1
<1>2. CASE t = YieldCurrent(u)
  <2> DEFINE c == [u.contexts[r] EXCEPT !.state = "Ready"]
  <2>1. /\ SchedOK(u, d) /\ Exact(u) /\ Handing(u, r) /\ StateIs(u, r, "Running") /\ u.current = r
        /\ r \in DOMAIN u.contexts /\ u.contexts[r] \in Ctxs(d) /\ Fifo(s, u) /\ OnlySelf(s, u, r)
    BY SlicingIs DEF Mid
  <2>2. Requeued(u, t, r, c)
    BY <1>2, <2>1, YieldIs
  <2>3. c \in Ctxs(d) /\ c.state = "Ready"
    BY <2>1 DEF Ctxs, States
  <2>4. \A p \in Priorities : ~ InQueue(s, p, r)
    BY SlicingIs
  <2> HIDE DEF c, t
  <2>5. Settled(s, u, t, r, d)
    BY <2>1, <2>2, <2>3, <2>4, RequeuedIs
  <2>6. t.current = None /\ t.contexts = Put(u.contexts, r, c)
    BY <2>2 DEF Requeued, Queued
  <2>7. /\ SchedOK(t, d) /\ Exact(t) /\ Fifo(s, t) /\ Calm(t) /\ t.nextId = u.nextId
        /\ DOMAIN t.contexts = DOMAIN u.contexts
        /\ \A id \in DOMAIN u.contexts \ {r} : t.contexts[id] = u.contexts[id]
    BY <2>5 DEF Settled
  <2>8. t.contexts[r] = c
    BY <2>6 DEF Put
  <2>9. Handing(t, r)
    BY <2>6, <2>7 DEF Handing, Calm
  <2>10. OnlySelf(s, t, r)
    BY <2>1, <2>7 DEF OnlySelf
  <2>11. Mid(s, t, r, d)
    BY <2>3, <2>7, <2>8, <2>9, <2>10 DEF Mid
  <2> QED
    BY <2>7, <2>11 DEF t
<1> QED
  BY <1>1, <1>2 DEF MaybePreempt

-----------------------------------------------------------------------------
(* The invariant.                                                          *)

\* Who waits is known to be Blocked, at one barrier; who is Blocked waits; an
\* open barrier counts those who wait at it and lacks an arrival.
WaitersOK(s, w) ==
  /\ w \in [BarrierIds -> Seq(Nat)]
  /\ \A b \in BarrierIds : \A i \in DOMAIN w[b] :
       w[b][i] \in 1 .. s.nextId - 1 /\ (Known(s, w[b][i]) => StateIs(s, w[b][i], "Blocked"))
  /\ \A b, c \in BarrierIds : \A i \in DOMAIN w[b], j \in DOMAIN w[c] :
       w[b][i] = w[c][j] => b = c /\ i = j

WaitsAt(w, b, id) == \E i \in DOMAIN w[b] : w[b][i] = id

BlockedWait(s, w) ==
  \A id \in DOMAIN s.contexts : s.contexts[id].state = "Blocked" => \E b \in BarrierIds : WaitsAt(w, b, id)

BarriersOK(bs, w) ==
  /\ DOMAIN bs \subseteq BarrierIds
  /\ \A b \in BarrierIds :
       IF b \in DOMAIN bs
       THEN /\ IsBarrier(bs[b])
            /\ bs[b].arrived = Len(w[b]) /\ bs[b].arrived < bs[b].expected
       ELSE w[b] = <<>>

\* A lock's holder had been issued an id.
LocksOK(ls, s) ==
  DOMAIN ls \subseteq LockIds /\ \A l \in DOMAIN ls : ls[l] \in 1 .. s.nextId - 1

\* No Ready context is of a higher priority than r.
Foremost(s, r) ==
  \A id \in DOMAIN s.contexts : s.contexts[id].state = "Ready" =>
    Rank[s.contexts[id].priority] <= Rank[s.contexts[r].priority]

LoopOK ==
  /\ program \in Programs
  /\ at \in {"pick", "exec", "done", "cut"}
  /\ running \in 0 .. sched.nextId - 1
  /\ sched.nextId <= MaxCtx + 1
  /\ SchedOK(sched, MaxDepth) /\ Exact(sched)
  /\ at = "exec" => Slicing(sched, running, MaxDepth) /\ Foremost(sched, running)
  /\ at # "exec" => Calm(sched)
  /\ at = "done" => \A id \in DOMAIN sched.contexts : sched.contexts[id].state # "Ready"

IInv ==
  /\ LoopOK
  /\ LocksOK(locks, sched)
  /\ WaitersOK(sched, waiters) /\ BlockedWait(sched, waiters) /\ BarriersOK(barriers, waiters)

\* No id is issued twice and no ended context runs again.
NoRevival(s, t) ==
  \A id \in 1 .. s.nextId - 1 :
    /\ id \notin DOMAIN s.contexts => id \notin DOMAIN t.contexts
    /\ StateIs(s, id, "Terminated") /\ id \in DOMAIN t.contexts => t.contexts[id].state = "Terminated"

Kept == IInv' /\ NoRevival(sched, sched') /\ Fifo(sched, sched')

LEMMA PlainWaits ==
  ASSUME NEW d, NEW s, NEW r, Slicing(s, r, d), NEW t, Plain(s, t, r, d),
         NEW w, WaitersOK(s, w), BlockedWait(s, w)
  PROVE  WaitersOK(t, w) /\ BlockedWait(t, w)
<1>1. r \in DOMAIN s.contexts /\ s.contexts[r].state = "Running" /\ s.nextId \in Nat
  BY SlicingIs DEF SchedOK
<1>2. OnlySelf(s, t, r) /\ SchedOK(t, d) /\ (Known(t, r) => t.contexts[r].state \in {"Ready", "Terminated"})
  BY DEF Plain
<1>3. t.nextId >= s.nextId /\ t.nextId \in Nat
  BY <1>2 DEF OnlySelf, SchedOK
<1>4. \A id \in DOMAIN t.contexts \ {r} :
        \/ id \in DOMAIN s.contexts /\ t.contexts[id] = s.contexts[id]
        \/ id >= s.nextId /\ t.contexts[id].state = "Ready"
  BY <1>2 DEF OnlySelf
<1>5. ASSUME NEW b \in BarrierIds, NEW i \in DOMAIN w[b]
      PROVE  w[b][i] \in 1 .. t.nextId - 1 /\ (Known(t, w[b][i]) => StateIs(t, w[b][i], "Blocked"))
  <2> DEFINE id == w[b][i]
  <2>1. id \in 1 .. s.nextId - 1 /\ (Known(s, id) => StateIs(s, id, "Blocked"))
    BY DEF WaitersOK
  <2> HIDE DEF id
  <2>2. id # r
    BY <1>1, <2>1 DEF StateIs, Known
  <2>3. id \in 1 .. t.nextId - 1 /\ ~ (id >= s.nextId)
    BY <1>1, <1>3, <2>1
  <2>4. Known(t, id) => StateIs(t, id, "Blocked")
    BY <1>4, <2>1, <2>2, <2>3 DEF StateIs, Known
  <2> QED
    BY <2>3, <2>4 DEF id
<1>6. WaitersOK(t, w)
  BY <1>5 DEF WaitersOK
<1>7. BlockedWait(t, w)
  BY <1>2, <1>4 DEF BlockedWait, Known
<1> QED
  BY <1>6, <1>7

LEMMA PlainDead ==
  ASSUME NEW d, NEW s, NEW r, Slicing(s, r, d), NEW t, Plain(s, t, r, d)
  PROVE  NoRevival(s, t)
<1>1. r \in DOMAIN s.contexts /\ s.contexts[r].state = "Running" /\ s.nextId \in Nat
  BY SlicingIs DEF SchedOK
<1>2. \A id \in DOMAIN t.contexts \ {r} :
        \/ id \in DOMAIN s.contexts /\ t.contexts[id] = s.contexts[id]
        \/ id >= s.nextId /\ t.contexts[id].state = "Ready"
  BY DEF Plain, OnlySelf
<1> QED
  BY <1>1, <1>2 DEF NoRevival, StateIs, Known

LEMMA LocksStay ==
  ASSUME NEW d, NEW s, SchedOK(s, d), NEW t, SchedOK(t, d), t.nextId >= s.nextId,
         NEW ls, LocksOK(ls, s)
  PROVE  LocksOK(ls, t)
<1>1. s.nextId \in Nat /\ t.nextId \in Nat
  BY DEF SchedOK
<1> QED
  BY <1>1 DEF LocksOK

\* A turn that changes neither barriers nor locks.
LEMMA TurnKeeps ==
  ASSUME IInv, at = "exec", Plain(sched, sched', running, MaxDepth),
         sched'.nextId <= MaxCtx + 1,
         \/ at' = "pick"
         \/ at' = "done" /\ \A id \in DOMAIN sched'.contexts : sched'.contexts[id].state # "Ready",
         UNCHANGED <<program, running, barriers, waiters>>, LocksOK(locks', sched')
  PROVE  Kept
<1>1. Slicing(sched, running, MaxDepth) /\ running \in 0 .. sched.nextId - 1 /\ program \in Programs
  BY DEF IInv, LoopOK
<1>2. /\ SchedOK(sched', MaxDepth) /\ Exact(sched') /\ Calm(sched') /\ Fifo(sched, sched')
      /\ sched'.nextId >= sched.nextId
  BY DEF Plain, OnlySelf
<1>3. running' \in 0 .. sched'.nextId - 1
  <2>1. sched.nextId \in Nat /\ sched'.nextId \in Nat
    BY <1>1, <1>2, SlicingIs DEF SchedOK
  <2> QED
    BY <1>1, <1>2, <2>1
<1>4. NoRevival(sched, sched')
  BY <1>1, PlainDead
<1>5. WaitersOK(sched', waiters') /\ BlockedWait(sched', waiters')
  BY <1>1, PlainWaits DEF IInv
<1>6. BarriersOK(barriers', waiters')
  BY DEF IInv
<1>7. LoopOK'
  BY <1>1, <1>2, <1>3 DEF LoopOK
<1> QED
  BY <1>2, <1>4, <1>5, <1>6, <1>7 DEF Kept, IInv

-----------------------------------------------------------------------------
(* The loop and the handlers, one by one.                                  *)

LEMMA ExecIs ==
  ASSUME IInv, at = "exec"
  PROVE  /\ Slicing(sched, running, MaxDepth)
         /\ Self \in Ctxs(MaxDepth) /\ Self.state = "Running"
         /\ sched.nextId \in Nat /\ sched.nextId <= MaxCtx + 1 /\ DOMAIN sched = Fields
         /\ Self.pc \in DOMAIN program => IsInstruction(Instr)
         /\ \A a \in DOMAIN program : a \in Nat
         /\ MaxDepth \in Nat /\ MaxCtx \in Nat
<1>1. Slicing(sched, running, MaxDepth) /\ program \in Programs /\ sched.nextId <= MaxCtx + 1
  BY DEF IInv, LoopOK
<1>2. Self \in Ctxs(MaxDepth) /\ Self.state = "Running" /\ sched.nextId \in Nat /\ DOMAIN sched = Fields
  BY <1>1, SlicingIs DEF Self, SchedOK
<1>3. DOMAIN program = 1 .. Len(program) /\ \A k \in DOMAIN program : IsInstruction(program[k])
  BY <1>1, RunAssumption
<1>4. \A a \in DOMAIN program : a \in Nat
  BY <1>3
<1> QED
  BY <1>1, <1>2, <1>3, <1>4, RunAssumption DEF Instr

LEMMA EndTurn ==
  ASSUME IInv, at = "exec", NEW u, Mid(sched, u, running, MaxDepth), u.nextId <= MaxCtx + 1,
         NEW advance \in BOOLEAN, sched' = SliceEnds(u, running, advance),
         at' = "pick", UNCHANGED <<program, running, locks, barriers, waiters>>
  PROVE  Kept
<1>1. Slicing(sched, running, MaxDepth)
  BY ExecIs
<1>2. Plain(sched, sched', running, MaxDepth) /\ sched'.nextId = u.nextId
  BY <1>1, MidEnds
<1>3. LocksOK(locks', sched')
  BY <1>1, <1>2, LocksStay DEF IInv, Plain, OnlySelf, Slicing
<1> QED
  BY <1>2, <1>3, TurnKeeps

LEMMA FailTurn ==
  ASSUME IInv, at = "exec", NEW u, Mid(sched, u, running, MaxDepth), u.nextId <= MaxCtx + 1,
         StateIs(u, running, "Running") \/ ~ Known(u, running),
         sched' = SliceFails(u, running),
         at' = "pick", UNCHANGED <<program, running, locks, barriers, waiters>>
  PROVE  Kept
<1>1. Slicing(sched, running, MaxDepth)
  BY ExecIs
<1>2. Plain(sched, sched', running, MaxDepth) /\ sched'.nextId = u.nextId
  BY <1>1, MidFails
<1>3. LocksOK(locks', sched')
  BY <1>1, <1>2, LocksStay DEF IInv, Plain, OnlySelf, Slicing
<1> QED
  BY <1>2, <1>3, TurnKeeps

\* The turn ends with the scheduler as it was, in Ok or in Err.
LEMMA SameTurn ==
  ASSUME IInv, at = "exec",
         \/ \E advance \in BOOLEAN : Turn(sched, advance)
         \/ Fail(sched),
         NextTurn, UNCHANGED Rest
  PROVE  Kept
<1>1. Slicing(sched, running, MaxDepth) /\ sched.nextId <= MaxCtx + 1
  BY ExecIs
<1>2. Mid(sched, sched, running, MaxDepth) /\ StateIs(sched, running, "Running")
  BY <1>1, SameMid, SlicingIs
<1>3. at' = "pick" /\ UNCHANGED <<program, running, locks, barriers, waiters>>
  BY DEF NextTurn, Rest
<1>4. ASSUME NEW advance \in BOOLEAN, Turn(sched, advance)
      PROVE  Kept
  BY <1>1, <1>2, <1>3, <1>4, EndTurn DEF Turn
<1>5. CASE Fail(sched)
  BY <1>1, <1>2, <1>3, <1>5, FailTurn DEF Fail
<1> QED
  BY <1>4, <1>5

LEMMA PlainSteps ==
  ASSUME IInv, Nop \/ Wide \/ Other \/ BarrierRefused
  PROVE  Kept
<1>1. at = "exec" /\ NextTurn /\ UNCHANGED Rest
  BY DEF Nop, Wide, Other, BarrierRefused, Fetched
<1>2. StateIs(sched, running, "Running")
  BY <1>1, ExecIs, SlicingIs
<1>3. CASE Nop
  <2>1. Turn(sched, TRUE)
    BY <1>2, <1>3, SlicePassesIs DEF Nop, Turn
  <2> QED
    BY <1>1, <2>1, SameTurn
<1>4. CASE Wide \/ BarrierRefused
  BY <1>1, <1>4, SameTurn DEF Wide, BarrierRefused
<1>5. CASE Other
  BY <1>1, <1>5, SameTurn DEF Other
<1> QED
  BY <1>3, <1>4, <1>5

\* The running context ends without a yield.
LEMMA EndedPlain ==
  ASSUME NEW d, NEW s, NEW r, Slicing(s, r, d)
  PROVE  LET t == SetState(s, r, "Terminated")
         IN  Plain(s, t, r, d) /\ t.nextId = s.nextId
<1> DEFINE c == [s.contexts[r] EXCEPT !.state = "Terminated"]
           t == SetState(s, r, "Terminated")
<1>1. /\ SchedOK(s, d) /\ Exact(s) /\ Handing(s, r) /\ StateIs(s, r, "Running") /\ DOMAIN s = Fields
      /\ r \in DOMAIN s.contexts /\ s.contexts[r] \in Ctxs(d)
  BY SlicingIs DEF SchedOK
<1>2. c \in Ctxs(d) /\ c.state = "Terminated"
  BY <1>1 DEF Ctxs, States
<1>3. t = SetContext(s, r, c)
  BY <1>1 DEF SetState, Known
<1>4. Marked(s, t, r, c)
  BY <1>1, <1>3, SetContextIs
<1> HIDE DEF c, t
<1>5. /\ SchedOK(t, d) /\ Exact(t) /\ Fifo(s, t) /\ Calm(t) /\ t.nextId = s.nextId
      /\ DOMAIN t.contexts = DOMAIN s.contexts /\ t.contexts[r] = c
      /\ \A id \in DOMAIN s.contexts \ {r} : t.contexts[id] = s.contexts[id]
  <2>1. Fifo(s, s) /\ c.state \in {"Terminated", "Blocked"}
    BY <1>2, FifoSelf
  <2> QED
    BY <1>1, <1>2, <1>4, <2>1, MarkedIs
<1>6. OnlySelf(s, t, r)
  BY <1>1, <1>5 DEF OnlySelf, SchedOK
<1> QED
  BY <1>2, <1>5, <1>6 DEF Plain, t

LEMMA EndSteps ==
  ASSUME IInv, FetchFails \/ Halt
  PROVE  Kept
<1>1. at = "exec" /\ UNCHANGED <<program, running, locks, barriers, waiters>>
  BY DEF FetchFails, Halt, Fetched, NextTurn, Rest
<1>2. Slicing(sched, running, MaxDepth) /\ sched.nextId <= MaxCtx + 1
  BY <1>1, ExecIs
<1>3. sched' = SetState(sched, running, "Terminated")
  BY DEF FetchFails, Halt
<1>4. Plain(sched, sched', running, MaxDepth) /\ sched'.nextId = sched.nextId
  BY <1>2, <1>3, EndedPlain
<1>5. LocksOK(locks', sched')
  BY <1>1, <1>2, <1>4, LocksStay DEF IInv, Plain, OnlySelf, Slicing
<1>6. \/ at' = "pick"
      \/ at' = "done" /\ \A id \in DOMAIN sched'.contexts : sched'.contexts[id].state # "Ready"
  BY DEF FetchFails, Halt, NextTurn, NoneActive
<1> QED
  BY <1>1, <1>2, <1>4, <1>5, <1>6, TurnKeeps

LEMMA MovedMid ==
  ASSUME NEW d, NEW s, NEW r, Slicing(s, r, d), NEW a \in Nat
  PROVE  LET u == Moved(s, r, a)
         IN  Mid(s, u, r, d) /\ StateIs(u, r, "Running") /\ u.nextId = s.nextId
<1> DEFINE c == [s.contexts[r] EXCEPT !.pc = a]
<1>1. r \in DOMAIN s.contexts /\ s.contexts[r] \in Ctxs(d) /\ s.contexts[r].state = "Running"
  BY SlicingIs
<1>2. c \in Ctxs(d) /\ c.state = "Running"
  BY <1>1 DEF Ctxs
<1>3. Moved(s, r, a) = SetContext(s, r, c)
  BY <1>1 DEF Moved, Known
<1> HIDE DEF c
<1> QED
  BY <1>2, <1>3, SetMid, SlicingIs

LEMMA JumpSteps ==
  ASSUME IInv, Jump \/ JumpIf
  PROVE  Kept
<1>1. at = "exec" /\ NextTurn /\ UNCHANGED Rest /\ (JumpTo(Instr.target) \/ Turn(sched, TRUE))
  BY DEF Jump, JumpIf, Fetched
<1>2. at' = "pick" /\ UNCHANGED <<program, running, locks, barriers, waiters>>
  BY <1>1 DEF NextTurn, Rest
<1>3. CASE Fail(sched) \/ Turn(sched, TRUE)
  BY <1>1, <1>3, SameTurn
<1>4. CASE IsTarget(Instr.target) /\ Turn(Moved(sched, running, Instr.target), FALSE)
  <2> DEFINE a == Instr.target
             u == Moved(sched, running, a)
  <2>1. a \in Nat
    BY <1>1, <1>4, ExecIs DEF IsTarget
  <2> HIDE DEF a
  <2>2. Mid(sched, u, running, MaxDepth) /\ u.nextId <= MaxCtx + 1
    BY <1>1, <2>1, ExecIs, MovedMid
  <2>3. sched' = SliceEnds(u, running, FALSE)
    BY <1>4 DEF Turn, a
  <2> HIDE DEF u
  <2> QED
    BY <1>1, <1>2, <2>2, <2>3, EndTurn
<1> QED
  BY <1>1, <1>3, <1>4 DEF JumpTo

LEMMA CallStep ==
  ASSUME IInv, Call
  PROVE  Kept
<1>1. at = "exec" /\ NextTurn /\ UNCHANGED Rest
  BY DEF Call, Fetched
<1>2. at' = "pick" /\ UNCHANGED <<program, running, locks, barriers, waiters>>
  BY <1>1 DEF NextTurn, Rest
<1>3. CASE Fail(sched)
  BY <1>1, <1>3, SameTurn
<1>4. CASE ~ Fail(sched)
  <2> DEFINE c == [Self EXCEPT !.calls = Append(@, Self.pc + 1), !.pc = Instr.target]
             u == SetContext(sched, running, c)
  <2>1. IsTarget(Instr.target) /\ Len(Self.calls) < MaxDepth /\ sched' = SliceEnds(u, running, FALSE)
    BY <1>4 DEF Call, Turn
  <2>2. Instr.target \in Nat /\ Self \in Ctxs(MaxDepth) /\ Self.state = "Running" /\ MaxDepth \in Nat
    BY <1>1, <2>1, ExecIs DEF IsTarget
  <2>3. c \in Ctxs(MaxDepth) /\ c.state = "Running"
    <3>1. PICK a \in Nat : a = Instr.target
      BY <2>2
    <3>2. PICK self \in Ctxs(MaxDepth) : self = Self
      BY <2>2
    <3>3. /\ Append(self.calls, self.pc + 1) \in Seq(Nat)
          /\ Len(Append(self.calls, self.pc + 1)) <= MaxDepth
      BY <2>1, <2>2, <3>2 DEF Ctxs
    <3>4. PICK calls \in {q \in Seq(Nat) : Len(q) <= MaxDepth} : calls = Append(self.calls, self.pc + 1)
      BY <3>3
    <3>5. c = [self EXCEPT !.calls = calls, !.pc = a]
      BY <3>1, <3>2, <3>4
    <3> QED
      BY <2>2, <3>2, <3>5 DEF Ctxs
  <2> HIDE DEF c
  <2>4. Mid(sched, u, running, MaxDepth) /\ u.nextId <= MaxCtx + 1
    BY <1>1, <2>3, ExecIs, SetMid
  <2> HIDE DEF u
  <2> QED
    BY <1>1, <1>2, <2>1, <2>4, EndTurn
<1> QED
  BY <1>3, <1>4

LEMMA RetStep ==
  ASSUME IInv, Ret
  PROVE  Kept
<1>1. at = "exec" /\ NextTurn /\ UNCHANGED Rest
  BY DEF Ret, Fetched
<1>2. at' = "pick" /\ UNCHANGED <<program, running, locks, barriers, waiters>>
  BY <1>1 DEF NextTurn, Rest
<1>3. CASE Fail(sched)
  BY <1>1, <1>3, SameTurn
<1>4. CASE ~ Fail(sched)
  <2> DEFINE c == [Self EXCEPT !.pc = Self.calls[Len(Self.calls)],
                               !.calls = SubSeq(@, 1, Len(@) - 1)]
             u == SetContext(sched, running, c)
  <2>1. Self.calls # <<>> /\ sched' = SliceEnds(u, running, FALSE)
    BY <1>4 DEF Ret, Turn
  <2>2. Self \in Ctxs(MaxDepth) /\ Self.state = "Running" /\ MaxDepth \in Nat
    BY <1>1, ExecIs
  <2>3. c \in Ctxs(MaxDepth) /\ c.state = "Running"
    <3>1. PICK self \in Ctxs(MaxDepth) : self = Self
      BY <2>2
    <3>2. self.calls \in Seq(Nat) /\ Len(self.calls) \in Nat /\ Len(self.calls) # 0 /\ Len(self.calls) <= MaxDepth
      BY <2>1, <3>1 DEF Ctxs
    <3>3. self.calls[Len(self.calls)] \in Nat
      BY <3>2
    <3>4. /\ SubSeq(self.calls, 1, Len(self.calls) - 1) \in Seq(Nat)
          /\ Len(SubSeq(self.calls, 1, Len(self.calls) - 1)) <= MaxDepth
      BY <2>2, <3>2
    <3>5. PICK a \in Nat, calls \in {q \in Seq(Nat) : Len(q) <= MaxDepth} :
            /\ a = self.calls[Len(self.calls)]
            /\ calls = SubSeq(self.calls, 1, Len(self.calls) - 1)
      BY <3>3, <3>4
    <3>6. c = [self EXCEPT !.pc = a, !.calls = calls]
      BY <3>1, <3>5
    <3> QED
      BY <2>2, <3>1, <3>6 DEF Ctxs
  <2> HIDE DEF c
  <2>4. Mid(sched, u, running, MaxDepth) /\ u.nextId <= MaxCtx + 1
    BY <1>1, <2>3, ExecIs, SetMid
  <2> HIDE DEF u
  <2> QED
    BY <1>1, <1>2, <2>1, <2>4, EndTurn
<1> QED
  BY <1>3, <1>4

\* The scheduler has room, and a child has been created for the caller.
LEMMA CreateTurn ==
  ASSUME IInv, at = "exec", Room,
         NEW p \in Priorities, NEW pc \in Nat, NEW calls \in Seq(Nat), Len(calls) <= MaxDepth,
         NEW bad, Answer(CreateContext(sched, p, pc, calls), bad),
         NextTurn, UNCHANGED Rest
  PROVE  Kept
<1> DEFINE u == CreateContext(sched, p, pc, calls)
<1>1. at' = "pick" /\ UNCHANGED <<program, running, locks, barriers, waiters>>
  BY DEF NextTurn, Rest
<1>2. Mid(sched, u, running, MaxDepth) /\ StateIs(u, running, "Running") /\ u.nextId = sched.nextId + 1
  BY ExecIs, CreateMid
<1>3. u.nextId <= MaxCtx + 1
  BY <1>2, ExecIs DEF Room
<1>4. Fail(u) \/ Turn(u, TRUE)
  BY DEF Answer
<1> HIDE DEF u
<1>5. CASE Fail(u)
  BY <1>1, <1>2, <1>3, <1>5, FailTurn DEF Fail
<1>6. CASE Turn(u, TRUE)
  BY <1>1, <1>2, <1>3, <1>6, EndTurn DEF Turn
<1> QED
  BY <1>4, <1>5, <1>6

LEMMA ForkStep ==
  ASSUME IInv, Fork
  PROVE  Kept
<1>1. at = "exec" /\ NextTurn /\ UNCHANGED Rest /\ Self.pc \in DOMAIN program /\ Instr.op = "FORK"
  BY DEF Fork, Fetched
<1>2. CASE Fail(sched)
  BY <1>1, <1>2, SameTurn
<1>3. CASE ~ Fail(sched)
  <2> DEFINE entry == IF Instr.target = 0 THEN Self.pc + 1 ELSE Instr.target
  <2>1. Room /\ Answer(CreateContext(sched, Instr.prio, entry, Self.calls), Instr.badDest)
    BY <1>3 DEF Fork
  <2>2. Instr.target \in Nat /\ Instr.prio \in Priorities
    BY <1>1, ExecIs DEF IsInstruction
  <2>3. entry \in Nat /\ Self.calls \in Seq(Nat) /\ Len(Self.calls) <= MaxDepth
    BY <1>1, <2>2, ExecIs DEF Ctxs
  <2> HIDE DEF entry
  <2> QED
    BY <1>1, <2>1, <2>2, <2>3, CreateTurn
<1> QED
  BY <1>2, <1>3

LEMMA SpawnStep ==
  ASSUME IInv, Spawn
  PROVE  Kept
<1>1. at = "exec" /\ NextTurn /\ UNCHANGED Rest /\ Self.pc \in DOMAIN program /\ Instr.op = "SPAWN"
  BY DEF Spawn, Fetched
<1>2. CASE Fail(sched)
  BY <1>1, <1>2, SameTurn
<1>3. CASE ~ Fail(sched)
  <2>1. Room /\ Answer(CreateContext(sched, Instr.prio, Instr.target, <<>>), Instr.badDest)
    BY <1>3 DEF Spawn
  <2>2. Instr.target \in Nat /\ Instr.prio \in Priorities
    BY <1>1, ExecIs DEF IsInstruction
  <2>3. <<>> \in Seq(Nat) /\ Len(<<>>) <= MaxDepth
    BY <1>1, ExecIs
  <2> QED
    BY <1>1, <2>1, <2>2, <2>3, CreateTurn
<1> QED
  BY <1>2, <1>3

\* The caller may be the one removed.
LEMMA RemoveTurn ==
  ASSUME IInv, at = "exec", NEW target,
         \/ Turn(Remove(sched, target), TRUE)
         \/ Fail(Remove(sched, target)),
         NextTurn, UNCHANGED Rest
  PROVE  Kept
<1> DEFINE u == Remove(sched, target)
<1>1. at' = "pick" /\ UNCHANGED <<program, running, locks, barriers, waiters>>
  BY DEF NextTurn, Rest
<1>2. /\ Mid(sched, u, running, MaxDepth) /\ u.nextId = sched.nextId
      /\ StateIs(u, running, "Running") \/ ~ Known(u, running)
  BY ExecIs, RemoveMid
<1>3. u.nextId <= MaxCtx + 1
  BY <1>2, ExecIs
<1>4. Fail(u) \/ Turn(u, TRUE)
  OBVIOUS
<1> HIDE DEF u
<1>5. CASE Fail(u)
  BY <1>1, <1>2, <1>3, <1>5, FailTurn DEF Fail
<1>6. CASE Turn(u, TRUE)
  BY <1>1, <1>2, <1>3, <1>6, EndTurn DEF Turn
<1> QED
  BY <1>4, <1>5, <1>6

LEMMA RemoveSteps ==
  ASSUME IInv, Kill \/ Abort
  PROVE  Kept
<1>1. at = "exec" /\ NextTurn /\ UNCHANGED Rest
  BY DEF Kill, Abort, Fetched
<1>2. \/ Fail(sched) \/ Turn(sched, TRUE)
      \/ \E target : Turn(Remove(sched, target), TRUE) \/ Fail(Remove(sched, target))
  BY DEF Kill, Abort, Answer
<1>3. CASE Fail(sched) \/ Turn(sched, TRUE)
  BY <1>1, <1>3, SameTurn
<1>4. ASSUME NEW target, Turn(Remove(sched, target), TRUE) \/ Fail(Remove(sched, target))
      PROVE  Kept
  BY <1>1, <1>4, RemoveTurn
<1> QED
  BY <1>2, <1>3, <1>4

LEMMA PreemptTurn ==
  ASSUME IInv, at = "exec", NEW u, Mid(sched, u, running, MaxDepth), Slicing(u, running, MaxDepth),
         u.nextId = sched.nextId, Turn(MaybePreempt(u), TRUE),
         NextTurn, UNCHANGED Rest
  PROVE  Kept
<1> DEFINE t == MaybePreempt(u)
<1>1. at' = "pick" /\ UNCHANGED <<program, running, locks, barriers, waiters>>
  BY DEF NextTurn, Rest
<1>2. Mid(sched, t, running, MaxDepth) /\ t.nextId = u.nextId
  BY ExecIs, PreemptMid
<1>3. t.nextId <= MaxCtx + 1 /\ sched' = SliceEnds(t, running, TRUE)
  BY <1>2, ExecIs DEF Turn
<1> HIDE DEF t
<1> QED
  BY <1>1, <1>2, <1>3, EndTurn

LEMMA YieldStep ==
  ASSUME IInv, Yield
  PROVE  Kept
<1>1. at = "exec" /\ NextTurn /\ UNCHANGED Rest /\ Turn(MaybePreempt(sched), TRUE)
  BY DEF Yield, Fetched
<1>2. Mid(sched, sched, running, MaxDepth) /\ Slicing(sched, running, MaxDepth)
  BY <1>1, ExecIs, SameMid
<1> QED
  BY <1>1, <1>2, PreemptTurn

LEMMA SetPriorityStep ==
  ASSUME IInv, SetPriority
  PROVE  Kept
<1>1. /\ at = "exec" /\ NextTurn /\ UNCHANGED Rest
      /\ Self.pc \in DOMAIN program /\ Instr.op = "PRIORITY_SET"
  BY DEF SetPriority, Fetched
<1>2. CASE Fail(sched)
  BY <1>1, <1>2, SameTurn
<1>3. CASE ~ Fail(sched)
  <2> DEFINE c == [Self EXCEPT !.priority = Instr.prio]
             u == SetContext(sched, running, c)
  <2>1. Turn(MaybePreempt(u), TRUE)
    BY <1>3 DEF SetPriority
  <2>2. Instr.prio \in Priorities
    BY <1>1, ExecIs DEF IsInstruction
  <2>3. c \in Ctxs(MaxDepth) /\ c.state = "Running"
    BY <1>1, <2>2, ExecIs DEF Ctxs
  <2> HIDE DEF c
  <2>4. Mid(sched, u, running, MaxDepth) /\ Slicing(u, running, MaxDepth) /\ u.nextId = sched.nextId
    BY <1>1, <2>3, ExecIs, SetMid
  <2> HIDE DEF u
  <2> QED
    BY <1>1, <2>1, <2>4, PreemptTurn
<1> QED
  BY <1>2, <1>3

LEMMA LockSteps ==
  ASSUME IInv, Lock \/ Unlock
  PROVE  Kept
<1>1. /\ at = "exec" /\ at' = "pick" /\ UNCHANGED <<program, running, barriers, waiters>>
      /\ Turn(sched, TRUE) \/ Fail(sched)
      /\ Self.pc \in DOMAIN program /\ Instr.op \in {"LOCK", "UNLOCK"}
  BY DEF Lock, Unlock, Fetched, NextTurn
<1>2. /\ Slicing(sched, running, MaxDepth) /\ sched.nextId <= MaxCtx + 1
      /\ Instr.id \in LockIds
  BY <1>1, ExecIs DEF IsInstruction
<1>3. Mid(sched, sched, running, MaxDepth) /\ StateIs(sched, running, "Running")
  BY <1>2, SameMid, SlicingIs
<1>4. Plain(sched, sched', running, MaxDepth) /\ sched'.nextId = sched.nextId
  <2>1. CASE Turn(sched, TRUE)
    <3>1. PICK advance \in BOOLEAN : sched' = SliceEnds(sched, running, advance)
      BY <2>1 DEF Turn
    <3>2. /\ Plain(sched, SliceEnds(sched, running, advance), running, MaxDepth)
          /\ SliceEnds(sched, running, advance).nextId = sched.nextId
      BY <1>2, <1>3, <3>1, MidEnds
    <3> QED
      BY <3>1, <3>2
  <2>2. CASE Fail(sched)
    BY <1>2, <1>3, <2>2, MidFails DEF Fail
  <2> QED
    BY <1>1, <2>1, <2>2
<1>5. running \in 1 .. sched.nextId - 1
  BY <1>2, SlicingIs DEF SchedOK
<1>6. \/ UNCHANGED locks
      \/ locks' = With(locks, Instr.id, running)
      \/ locks' = Without(locks, Instr.id)
  BY DEF Lock, Unlock
<1>7. LocksOK(locks', sched)
  <2>1. LocksOK(locks, sched)
    BY DEF IInv
  <2> QED
    BY <1>2, <1>5, <1>6, <2>1 DEF LocksOK, With, Without, Restrict
<1>8. LocksOK(locks', sched')
  BY <1>4, <1>7 DEF LocksOK
<1> QED
  BY <1>1, <1>2, <1>4, <1>8, TurnKeeps

-----------------------------------------------------------------------------
(* BARRIER: the caller waits.                                              *)

Arrives(w, b, r) == [w EXCEPT ![b] = IF r \in Range(@) THEN @ ELSE Append(@, r)]

LEMMA ArrivesIs ==
  ASSUME NEW s, NEW w, WaitersOK(s, w), BlockedWait(s, w), s.nextId \in Nat,
         NEW r, StateIs(s, r, "Running"), r \in 1 .. s.nextId - 1, NEW b \in BarrierIds,
         NEW t, t.nextId = s.nextId, DOMAIN t.contexts = DOMAIN s.contexts,
         t.contexts[r].state = "Blocked",
         \A id \in DOMAIN s.contexts \ {r} : t.contexts[id] = s.contexts[id]
  PROVE  LET x == Arrives(w, b, r)
         IN  /\ WaitersOK(t, x) /\ BlockedWait(t, x)
             /\ Len(x[b]) = Len(w[b]) + 1 /\ Len(w[b]) \in Nat
             /\ \A c \in BarrierIds \ {b} : x[c] = w[c]
<1> DEFINE x == Arrives(w, b, r)
           n == Len(w[b]) + 1
<1>1. w \in [BarrierIds -> Seq(Nat)] /\ w[b] \in Seq(Nat) /\ r \in Nat
  BY DEF WaitersOK
<1>2. \A c \in BarrierIds : \A i \in DOMAIN w[c] : w[c][i] # r
  BY DEF WaitersOK, StateIs, Known
<1>3. x[b] = Append(w[b], r) /\ \A c \in BarrierIds \ {b} : x[c] = w[c]
  BY <1>1, <1>2 DEF Arrives, Range
<1>4. x \in [BarrierIds -> Seq(Nat)]
  <2>1. Append(w[b], r) \in Seq(Nat) /\ \A c \in BarrierIds \ {b} : x[c] \in Seq(Nat)
    BY <1>1, <1>3
  <2>2. x = [c \in BarrierIds |-> x[c]]
    BY <1>1 DEF Arrives
  <2> QED
    BY <1>3, <2>1, <2>2
<1> HIDE DEF x, n
<1>5. /\ n \in Nat /\ n = Len(w[b]) + 1 /\ Len(x[b]) = n
      /\ DOMAIN w[b] = 1 .. n - 1 /\ DOMAIN x[b] = 1 .. n /\ x[b][n] = r
      /\ \A i \in DOMAIN w[b] : x[b][i] = w[b][i]
  BY <1>1, <1>3, AppendIs DEF n
<1>6. \A c \in BarrierIds : \A i \in DOMAIN x[c] :
        \/ c = b /\ i = n /\ x[c][i] = r
        \/ i \in DOMAIN w[c] /\ x[c][i] = w[c][i] /\ x[c][i] # r
  <2> TAKE c \in BarrierIds
  <2> TAKE i \in DOMAIN x[c]
  <2>1. CASE c = b
    BY <1>2, <1>5, <2>1
  <2>2. CASE c # b
    BY <1>2, <1>3, <2>2
  <2> QED
    BY <2>1, <2>2
<1>7. \A c \in BarrierIds : \A i \in DOMAIN x[c] :
        x[c][i] \in 1 .. t.nextId - 1 /\ (Known(t, x[c][i]) => StateIs(t, x[c][i], "Blocked"))
  <2> TAKE c \in BarrierIds
  <2> TAKE i \in DOMAIN x[c]
  <2>1. CASE x[c][i] = r
    BY <2>1 DEF StateIs, Known
  <2>2. CASE i \in DOMAIN w[c] /\ x[c][i] = w[c][i] /\ x[c][i] # r
    BY <2>2 DEF WaitersOK, StateIs, Known
  <2> QED
    BY <1>6, <2>1, <2>2
<1>8. \A c, e \in BarrierIds : \A i \in DOMAIN x[c], j \in DOMAIN x[e] :
        x[c][i] = x[e][j] => c = e /\ i = j
  BY <1>6 DEF WaitersOK
<1>9. BlockedWait(t, x)
  <2> SUFFICES ASSUME NEW id \in DOMAIN t.contexts, t.contexts[id].state = "Blocked"
               PROVE  \E c \in BarrierIds : WaitsAt(x, c, id)
    BY DEF BlockedWait
  <2>1. CASE id = r
    <3>1. n \in DOMAIN x[b] /\ x[b][n] = r
      BY <1>5
    <3> QED
      BY <2>1, <3>1 DEF WaitsAt
  <2>2. CASE id # r
    <3>1. PICK c \in BarrierIds : WaitsAt(w, c, id)
      BY <2>2 DEF BlockedWait
    <3>2. PICK i \in DOMAIN w[c] : w[c][i] = id
      BY <3>1 DEF WaitsAt
    <3>3. i \in DOMAIN x[c] /\ x[c][i] = id
      BY <1>3, <1>5, <3>2
    <3> QED
      BY <3>3 DEF WaitsAt
  <2> QED
    BY <2>1, <2>2
<1>10. WaitersOK(t, x)
  BY <1>4, <1>7, <1>8 DEF WaitersOK
<1> QED
  BY <1>3, <1>5, <1>9, <1>10 DEF x

LEMMA BlockIs ==
  ASSUME NEW d, NEW s, NEW r, Slicing(s, r, d),
         NEW advance \in BOOLEAN, NEW t, t = SliceEnds(SetState(s, r, "Blocked"), r, advance)
  PROVE  /\ SchedOK(t, d) /\ Exact(t) /\ Calm(t) /\ Fifo(s, t)
         /\ t.nextId = s.nextId /\ DOMAIN t.contexts = DOMAIN s.contexts
         /\ t.contexts[r].state = "Blocked"
         /\ \A id \in DOMAIN s.contexts \ {r} : t.contexts[id] = s.contexts[id]
<1> DEFINE c == [s.contexts[r] EXCEPT !.state = "Blocked"]
           u == SetState(s, r, "Blocked")
<1>1. /\ SchedOK(s, d) /\ Exact(s) /\ Handing(s, r) /\ StateIs(s, r, "Running") /\ DOMAIN s = Fields
      /\ r \in DOMAIN s.contexts /\ s.contexts[r] \in Ctxs(d) /\ s.current = r
  BY SlicingIs DEF SchedOK
<1>2. c \in Ctxs(d) /\ c.state = "Blocked"
  BY <1>1 DEF Ctxs, States
<1>3. u = SetContext(s, r, c)
  BY <1>1 DEF SetState, Known
<1>4. Marked(s, u, r, c) /\ u.current = r
  BY <1>1, <1>3, SetContextIs
<1> HIDE DEF c, u
<1>5. /\ SchedOK(u, d) /\ Exact(u) /\ Fifo(s, u) /\ Calm(u) /\ u.nextId = s.nextId
      /\ DOMAIN u.contexts = DOMAIN s.contexts /\ u.contexts[r] = c
      /\ \A id \in DOMAIN s.contexts \ {r} : u.contexts[id] = s.contexts[id]
  <2>1. Fifo(s, s) /\ c.state \in {"Terminated", "Blocked"}
    BY <1>2, FifoSelf
  <2> QED
    BY <1>1, <1>2, <1>4, <2>1, MarkedIs
<1>6. Handing(u, r) /\ ~ StateIs(u, r, "Running")
  BY <1>2, <1>4, <1>5 DEF Handing, Calm, StateIs
<1>7. \A p \in Priorities : ~ InQueue(s, p, r)
  BY SlicingIs
<1>8. Settled(s, u, SliceEnds(u, r, advance), r, d)
  BY <1>5, <1>6, <1>7, EndsSettled
<1>9. t = SliceEnds(u, r, advance)
  BY DEF u
<1> QED
  BY <1>2, <1>5, <1>6, <1>8, <1>9 DEF Settled

LEMMA WaitKeeps ==
  ASSUME IInv, at = "exec", NEW b \in BarrierIds, NEW state,
         IsBarrier(state), state.arrived = Len(waiters[b]) + 1, state.arrived < state.expected,
         Wait(b, state), NextTurn, UNCHANGED locks
  PROVE  Kept
<1>1. /\ Slicing(sched, running, MaxDepth) /\ sched.nextId \in Nat /\ sched.nextId <= MaxCtx + 1
      /\ SchedOK(sched, MaxDepth) /\ StateIs(sched, running, "Running")
      /\ running \in DOMAIN sched.contexts /\ sched.contexts[running].state = "Running"
  BY ExecIs, SlicingIs
<1>2. running \in 1 .. sched.nextId - 1
  BY <1>1 DEF SchedOK
<1>3. PICK advance \in BOOLEAN :
        sched' = SliceEnds(SetState(sched, running, "Blocked"), running, advance)
  BY DEF Wait, Turn
<1>4. /\ SchedOK(sched', MaxDepth) /\ Exact(sched') /\ Calm(sched') /\ Fifo(sched, sched')
      /\ sched'.nextId = sched.nextId /\ DOMAIN sched'.contexts = DOMAIN sched.contexts
      /\ sched'.contexts[running].state = "Blocked"
      /\ \A id \in DOMAIN sched.contexts \ {running} : sched'.contexts[id] = sched.contexts[id]
  BY <1>1, <1>3, BlockIs
<1>5. waiters' = Arrives(waiters, b, running) /\ barriers' = With(barriers, b, state)
  BY DEF Wait, Arrives
<1>6. /\ WaitersOK(sched, waiters) /\ BlockedWait(sched, waiters) /\ BarriersOK(barriers, waiters)
      /\ LocksOK(locks, sched)
  BY DEF IInv
<1>7. /\ WaitersOK(sched', waiters') /\ BlockedWait(sched', waiters')
      /\ Len(waiters'[b]) = Len(waiters[b]) + 1
      /\ \A c \in BarrierIds \ {b} : waiters'[c] = waiters[c]
  BY <1>1, <1>2, <1>4, <1>5, <1>6, ArrivesIs
<1>8. BarriersOK(barriers', waiters')
  BY <1>5, <1>6, <1>7 DEF BarriersOK, With
<1>9. LocksOK(locks', sched')
  BY <1>4, <1>6 DEF LocksOK
<1>10. NoRevival(sched, sched')
  BY <1>1, <1>4 DEF NoRevival, StateIs, Known
<1>11. LoopOK'
  <2>1. program' = program /\ running' = running /\ at' = "pick" /\ program \in Programs
    BY DEF NextTurn, IInv, LoopOK
  <2>2. running' \in 0 .. sched'.nextId - 1
    BY <1>1, <1>2, <1>4, <2>1
  <2> QED
    BY <1>1, <1>4, <2>1, <2>2 DEF LoopOK
<1> QED
  BY <1>4, <1>7, <1>8, <1>9, <1>10, <1>11 DEF Kept, IInv

LEMMA WaitSteps ==
  ASSUME IInv, BarrierCreate \/ BarrierJoin
  PROVE  Kept
<1>1. /\ at = "exec" /\ NextTurn /\ UNCHANGED locks /\ Instr.expected > 0
      /\ Self.pc \in DOMAIN program /\ Instr.op = "BARRIER"
  BY DEF BarrierCreate, BarrierJoin, Joins, Fetched
<1>2. /\ Instr.id \in BarrierIds /\ Instr.expected \in Nat /\ Instr.timed \in BOOLEAN /\ Instr.epoch \in Nat
  BY <1>1, ExecIs DEF IsInstruction
<1>3. BarriersOK(barriers, waiters) /\ waiters \in [BarrierIds -> Seq(Nat)]
  BY DEF IInv, WaitersOK
<1>4. CASE BarrierCreate
  <2>1. CASE Instr.expected = 1
    <3>1. Turn(sched, TRUE) /\ UNCHANGED Rest
      BY <1>4, <2>1 DEF BarrierCreate, Rest
    <3> QED
      BY <1>1, <3>1, SameTurn
  <2>2. CASE Instr.expected # 1
    <3> DEFINE state == [expected |-> Instr.expected, arrived |-> 1,
                         timed |-> Instr.timed, epoch |-> Instr.epoch]
    <3>1. Wait(Instr.id, state) /\ Instr.id \notin DOMAIN barriers
      BY <1>4, <2>2 DEF BarrierCreate
    <3>2. IsBarrier(state) /\ state.arrived = 1 /\ state.arrived < state.expected
      BY <1>1, <1>2, <2>2 DEF IsBarrier
    <3>3. Len(waiters[Instr.id]) = 0
      BY <1>2, <1>3, <3>1 DEF BarriersOK
    <3> HIDE DEF state
    <3> QED
      BY <1>1, <1>2, <3>1, <3>2, <3>3, WaitKeeps
  <2> QED
    BY <2>1, <2>2
<1>5. CASE BarrierJoin
  <2> DEFINE old   == barriers[Instr.id]
             state == [old EXCEPT !.arrived = @ + 1]
  <2>1. /\ Wait(Instr.id, state) /\ Instr.id \in DOMAIN barriers
        /\ old.arrived + 1 < Instr.expected /\ old.expected = Instr.expected
    BY <1>5 DEF BarrierJoin, Joins
  <2>2. IsBarrier(old) /\ old.arrived = Len(waiters[Instr.id])
    BY <1>2, <1>3, <2>1 DEF BarriersOK
  <2> HIDE DEF old
  <2>3. /\ IsBarrier(state) /\ state.arrived = Len(waiters[Instr.id]) + 1
        /\ state.arrived < state.expected
    BY <2>1, <2>2 DEF IsBarrier
  <2> HIDE DEF state
  <2> QED
    BY <1>1, <1>2, <2>1, <2>3, WaitKeeps
<1> QED
  BY <1>4, <1>5

-----------------------------------------------------------------------------
(* BARRIER: those who wait are woken.                                      *)

\* e holds the known ids of q that have priority p, once each.
WokenAt(s, q, p, e) ==
  /\ e \in Seq(Nat)
  /\ \A m \in DOMAIN e : \E i \in DOMAIN q :
       q[i] = e[m] /\ Known(s, q[i]) /\ s.contexts[q[i]].priority = p
  /\ \A i \in DOMAIN q : Known(s, q[i]) /\ s.contexts[q[i]].priority = p =>
       \E m \in DOMAIN e : e[m] = q[i]
  /\ \A m, k \in DOMAIN e : e[m] = e[k] => m = k

LEMMA WokenIs ==
  ASSUME NEW s, NEW q \in Seq(Nat), NEW p, \A i, j \in DOMAIN q : q[i] = q[j] => i = j,
         NEW K \in SUBSET (DOMAIN q),
         \A i \in DOMAIN q : i \in K <=> Known(s, q[i]) /\ s.contexts[q[i]].priority = p
  PROVE  WokenAt(s, q, p, KeepAt(q, K))
<1> DEFINE e == KeepAt(q, K)
<1>1. K \in SUBSET (DOMAIN q)
  OBVIOUS
<1>2. \A i \in K : i \in DOMAIN q /\ Known(s, q[i]) /\ s.contexts[q[i]].priority = p
  OBVIOUS
<1>3. \A i \in DOMAIN q : Known(s, q[i]) /\ s.contexts[q[i]].priority = p => i \in K
  OBVIOUS
<1>4. /\ e \in Seq(Nat)
      /\ \A m \in DOMAIN e : Nth(K, m) \in K /\ e[m] = q[Nth(K, m)]
      /\ \A m, k \in DOMAIN e : m < k => Nth(K, m) < Nth(K, k)
      /\ \A i \in K : \E m \in DOMAIN e : Nth(K, m) = i
  BY <1>1, KeepAtIs
<1> HIDE DEF e
<1>5. \A m \in DOMAIN e : \E i \in DOMAIN q :
        q[i] = e[m] /\ Known(s, q[i]) /\ s.contexts[q[i]].priority = p
  BY <1>2, <1>4
<1>6. \A i \in DOMAIN q : Known(s, q[i]) /\ s.contexts[q[i]].priority = p =>
        \E m \in DOMAIN e : e[m] = q[i]
  BY <1>3, <1>4
<1>7. \A m, k \in DOMAIN e : e[m] = e[k] => m = k
  <2> TAKE m, k \in DOMAIN e
  <2> HAVE e[m] = e[k]
  <2>1. Nth(K, m) = Nth(K, k)
    BY <1>2, <1>4
  <2>2. m \in Nat /\ k \in Nat /\ Nth(K, m) \in Nat
    BY <1>2, <1>4
  <2>3. ~ (m < k) /\ ~ (k < m)
    BY <1>4, <2>1, <2>2
  <2> QED
    BY <2>2, <2>3
<1>8. WokenAt(s, q, p, e)
  BY <1>4, <1>5, <1>6, <1>7 DEF WokenAt
<1> QED
  BY <1>8 DEF e

\* q followed by e.
Joined(q, e, z) ==
  /\ z \in Seq(Nat)
  /\ \A i \in DOMAIN z : \/ i \in DOMAIN q /\ z[i] = q[i]
                         \/ \E m \in DOMAIN e : i = Len(q) + m /\ z[i] = e[m]
  /\ \A i \in DOMAIN q : i \in DOMAIN z /\ z[i] = q[i] /\ i <= Len(q) /\ i \in Nat
  /\ \A m \in DOMAIN e : Len(q) + m \in DOMAIN z /\ z[Len(q) + m] = e[m] /\ m > 0 /\ m \in Nat
  /\ Len(q) \in Nat

LEMMA JoinedIs ==
  ASSUME NEW q \in Seq(Nat), NEW e \in Seq(Nat)
  PROVE  Joined(q, e, q \o e)
<1>1. /\ q \o e \in Seq(Nat) /\ Len(q) \in Nat /\ Len(e) \in Nat
      /\ DOMAIN q = 1 .. Len(q) /\ DOMAIN e = 1 .. Len(e)
      /\ DOMAIN (q \o e) = 1 .. Len(q) + Len(e)
      /\ \A i \in 1 .. Len(q) : (q \o e)[i] = q[i]
      /\ \A i \in Len(q) + 1 .. Len(q) + Len(e) : (q \o e)[i] = e[i - Len(q)]
  OBVIOUS
<1> DEFINE z == q \o e
           n == Len(q)
<1> HIDE DEF z, n
<1>2. /\ z \in Seq(Nat) /\ n \in Nat /\ Len(e) \in Nat
      /\ DOMAIN q = 1 .. n /\ DOMAIN e = 1 .. Len(e) /\ DOMAIN z = 1 .. n + Len(e)
      /\ \A i \in 1 .. n : z[i] = q[i]
      /\ \A i \in n + 1 .. n + Len(e) : z[i] = e[i - n]
  BY <1>1 DEF z, n
<1>3. \A m \in DOMAIN e : n + m \in DOMAIN z /\ z[n + m] = e[m] /\ m > 0 /\ m \in Nat
  <2> TAKE m \in DOMAIN e
  <2>1. m \in Nat /\ m > 0 /\ n + m \in n + 1 .. n + Len(e) /\ (n + m) - n = m /\ n + m \in DOMAIN z
    BY <1>2
  <2>2. z[n + m] = e[(n + m) - n]
    BY <1>2, <2>1
  <2> QED
    BY <2>1, <2>2
<1>4. \A i \in DOMAIN z : \/ i \in DOMAIN q /\ z[i] = q[i]
                          \/ \E m \in DOMAIN e : i = n + m /\ z[i] = e[m]
  <2> TAKE i \in DOMAIN z
  <2>1. CASE i \in 1 .. n
    BY <1>2, <2>1
  <2>2. CASE i \notin 1 .. n
    <3>1. i \in n + 1 .. n + Len(e)
      BY <1>2, <2>2
    <3>2. i - n \in DOMAIN e /\ i = n + (i - n) /\ z[i] = e[i - n]
      BY <1>2, <3>1
    <3> QED
      BY <3>2
  <2> QED
    BY <2>1, <2>2
<1>5. \A i \in DOMAIN q : i \in DOMAIN z /\ z[i] = q[i] /\ i <= n /\ i \in Nat
  BY <1>2
<1> QED
  BY <1>2, <1>3, <1>4, <1>5 DEF Joined, z, n

LEMMA WakeIs ==
  ASSUME NEW d, NEW s, NEW r, Slicing(s, r, d), WaitersOK(s, waiters), NEW b \in BarrierIds
  PROVE  LET u == BarrierWake(s, b)
         IN  /\ SchedOK(u, d) /\ Exact(u) /\ Handing(u, r) /\ Fifo(s, u) /\ StateIs(u, r, "Running")
             /\ u.nextId = s.nextId /\ DOMAIN u.contexts = DOMAIN s.contexts
             /\ \A id \in DOMAIN s.contexts :
                  IF WaitsAt(waiters, b, id)
                  THEN /\ u.contexts[id].state = "Ready" /\ s.contexts[id].state = "Blocked"
                       /\ u.contexts[id].priority = s.contexts[id].priority
                  ELSE u.contexts[id] = s.contexts[id]
<1> DEFINE q == waiters[b]
           u == BarrierWake(s, b)
           k(p) == {i \in DOMAIN q : Known(s, q[i]) /\ s.contexts[q[i]].priority = p}
<1>1. /\ SchedOK(s, d) /\ Exact(s) /\ Handing(s, r) /\ StateIs(s, r, "Running")
      /\ r \in DOMAIN s.contexts /\ s.contexts[r].state = "Running"
      /\ s.contexts \in [DOMAIN s.contexts -> Ctxs(d)] /\ s.queue \in [Priorities -> Seq(Nat)]
  BY SlicingIs DEF SchedOK
<1>2. /\ q \in Seq(Nat) /\ \A i, j \in DOMAIN q : q[i] = q[j] => i = j
      /\ \A i \in DOMAIN q : Known(s, q[i]) => StateIs(s, q[i], "Blocked")
  BY DEF WaitersOK
<1>3. /\ DOMAIN u = Fields /\ u.nextId = s.nextId /\ u.current = s.current
      /\ u.contexts = [id \in DOMAIN s.contexts |->
                         IF id \in Range(q) THEN [s.contexts[id] EXCEPT !.state = "Ready"]
                         ELSE s.contexts[id]]
      /\ u.queue = [p \in Priorities |-> s.queue[p] \o KeepAt(q, k(p))]
  BY <1>1 DEF BarrierWake, SchedOK, Fields
<1>4. \A id \in DOMAIN s.contexts : id \in Range(q) <=> WaitsAt(waiters, b, id)
  BY DEF Range, WaitsAt
<1>5. \A p \in Priorities : WokenAt(s, q, p, KeepAt(q, k(p)))
  <2> TAKE p \in Priorities
  <2>1. PICK K : K = k(p)
    OBVIOUS
  <2>2. /\ K \in SUBSET (DOMAIN q)
        /\ \A i \in DOMAIN q : i \in K <=> Known(s, q[i]) /\ s.contexts[q[i]].priority = p
    BY <2>1
  <2> HIDE DEF k, q
  <2>3. WokenAt(s, q, p, KeepAt(q, K))
    BY <1>2, <2>2, WokenIs
  <2> QED
    BY <2>1, <2>3
<1> HIDE DEF u, k
<1>6. ASSUME NEW id \in DOMAIN s.contexts, WaitsAt(waiters, b, id)
      PROVE  /\ u.contexts[id].state = "Ready" /\ s.contexts[id].state = "Blocked"
             /\ u.contexts[id].priority = s.contexts[id].priority /\ u.contexts[id] \in Ctxs(d)
  <2>1. u.contexts[id] = [s.contexts[id] EXCEPT !.state = "Ready"] /\ s.contexts[id] \in Ctxs(d)
    BY <1>1, <1>3, <1>4, <1>6
  <2>2. s.contexts[id].state = "Blocked"
    BY <1>2, <1>6 DEF WaitsAt, StateIs, Known
  <2> QED
    BY <2>1, <2>2 DEF Ctxs, States
<1>7. /\ DOMAIN u.contexts = DOMAIN s.contexts
      /\ \A id \in DOMAIN s.contexts : ~ WaitsAt(waiters, b, id) => u.contexts[id] = s.contexts[id]
  BY <1>3, <1>4
<1>8. \A p \in Priorities : s.queue[p] \in Seq(Nat) /\ u.queue[p] = s.queue[p] \o KeepAt(q, k(p))
  BY <1>1, <1>3
<1> HIDE DEF q
<1>9. \A p \in Priorities : \E e : WokenAt(s, q, p, e) /\ Joined(s.queue[p], e, u.queue[p])
  <2> TAKE p \in Priorities
  <2>1. PICK e : e = KeepAt(q, k(p))
    OBVIOUS
  <2> HIDE DEF k
  <2>2. WokenAt(s, q, p, e) /\ u.queue[p] = s.queue[p] \o e
    BY <1>5, <1>8, <2>1
  <2>4. e \in Seq(Nat)
    BY <2>2 DEF WokenAt
  <2>3. Joined(s.queue[p], e, u.queue[p])
    BY <1>8, <2>2, <2>4, JoinedIs
  <2> QED
    BY <2>2, <2>3
\* An element of a queue was there before and is untouched, or has been woken.
<1>10. ASSUME NEW p \in Priorities, NEW i \in DOMAIN u.queue[p]
       PROVE  \/ /\ i \in DOMAIN s.queue[p] /\ u.queue[p][i] = s.queue[p][i]
                 /\ ~ WaitsAt(waiters, b, u.queue[p][i])
              \/ /\ WaitsAt(waiters, b, u.queue[p][i]) /\ Known(s, u.queue[p][i])
                 /\ s.contexts[u.queue[p][i]].priority = p
                 /\ \A j \in DOMAIN s.queue[p] : j < i
  <2>1. PICK e : WokenAt(s, q, p, e) /\ Joined(s.queue[p], e, u.queue[p])
    BY <1>9
  <2>2. CASE i \in DOMAIN s.queue[p] /\ u.queue[p][i] = s.queue[p][i]
    <3>1. u.queue[p][i] \in DOMAIN s.contexts /\ s.contexts[u.queue[p][i]].state = "Ready"
      BY <1>1, <2>2 DEF Exact
    <3> QED
      BY <1>6, <2>2, <3>1
  <2>3. ASSUME NEW m \in DOMAIN e, i = Len(s.queue[p]) + m, u.queue[p][i] = e[m]
        PROVE  /\ WaitsAt(waiters, b, u.queue[p][i]) /\ Known(s, u.queue[p][i])
               /\ s.contexts[u.queue[p][i]].priority = p
               /\ \A j \in DOMAIN s.queue[p] : j < i
    <3>1. PICK n \in DOMAIN q : q[n] = e[m] /\ Known(s, q[n]) /\ s.contexts[q[n]].priority = p
      BY <2>1 DEF WokenAt
    <3>2. m > 0 /\ m \in Nat /\ Len(s.queue[p]) \in Nat
          /\ \A j \in DOMAIN s.queue[p] : j <= Len(s.queue[p]) /\ j \in Nat
      BY <2>1 DEF Joined
    <3>3. \A j \in DOMAIN s.queue[p] : j < i
      BY <2>3, <3>2
    <3> QED
      BY <2>3, <3>1, <3>3 DEF WaitsAt, q
  <2> QED
    BY <2>1, <2>2, <2>3 DEF Joined
<1>11. SchedOK(u, d)
  <2>1. u.contexts \in [DOMAIN u.contexts -> Ctxs(d)]
    <3>1. \A id \in DOMAIN s.contexts : u.contexts[id] \in Ctxs(d)
      BY <1>1, <1>6, <1>7
    <3>2. u.contexts = [id \in DOMAIN s.contexts |-> u.contexts[id]]
      BY <1>3
    <3> QED
      BY <1>7, <3>1, <3>2
  <2>2. u.queue \in [Priorities -> Seq(Nat)]
    <3>1. \A p \in Priorities : u.queue[p] \in Seq(Nat)
      BY <1>9 DEF Joined
    <3>2. u.queue = [p \in Priorities |-> u.queue[p]]
      BY <1>3
    <3> QED
      BY <3>1, <3>2
  <2> QED
    BY <1>1, <1>3, <1>7, <2>1, <2>2 DEF SchedOK
<1>12. \A p \in Priorities : \A i \in DOMAIN u.queue[p] :
         /\ u.queue[p][i] \in DOMAIN u.contexts
         /\ u.contexts[u.queue[p][i]].state = "Ready"
         /\ u.contexts[u.queue[p][i]].priority = p
  <2> TAKE p \in Priorities
  <2> TAKE i \in DOMAIN u.queue[p]
  <2>1. CASE i \in DOMAIN s.queue[p] /\ u.queue[p][i] = s.queue[p][i] /\ ~ WaitsAt(waiters, b, u.queue[p][i])
    BY <1>1, <1>7, <2>1 DEF Exact
  <2>2. CASE /\ WaitsAt(waiters, b, u.queue[p][i]) /\ Known(s, u.queue[p][i])
             /\ s.contexts[u.queue[p][i]].priority = p
    BY <1>6, <1>7, <2>2 DEF Known
  <2> QED
    BY <1>10, <2>1, <2>2
<1>13. ASSUME NEW id \in DOMAIN u.contexts, u.contexts[id].state = "Ready"
       PROVE  InQueue(u, u.contexts[id].priority, id)
  <2>1. PICK p \in Priorities : p = s.contexts[id].priority
    BY <1>1, <1>7 DEF Ctxs
  <2>2. PICK e : WokenAt(s, q, p, e) /\ Joined(s.queue[p], e, u.queue[p])
    BY <1>9
  <2>3. CASE WaitsAt(waiters, b, id)
    <3>1. u.contexts[id].priority = p
      BY <1>6, <1>7, <2>1, <2>3
    <3>2. PICK n \in DOMAIN q : q[n] = id
      BY <2>3 DEF WaitsAt, q
    <3>3. PICK m \in DOMAIN e : e[m] = id
      BY <1>7, <2>1, <2>2, <3>2 DEF WokenAt, Known
    <3>4. Len(s.queue[p]) + m \in DOMAIN u.queue[p] /\ u.queue[p][Len(s.queue[p]) + m] = id
      BY <2>2, <3>3 DEF Joined
    <3> QED
      BY <3>1, <3>4 DEF InQueue
  <2>4. CASE ~ WaitsAt(waiters, b, id)
    <3>1. u.contexts[id] = s.contexts[id]
      BY <1>7, <2>4
    <3>2. PICK i \in DOMAIN s.queue[p] : s.queue[p][i] = id
      BY <1>1, <1>7, <1>13, <2>1, <3>1 DEF Exact, InQueue
    <3>3. i \in DOMAIN u.queue[p] /\ u.queue[p][i] = id
      BY <2>2, <3>2 DEF Joined
    <3> QED
      BY <2>1, <3>1, <3>3 DEF InQueue
  <2> QED
    BY <2>3, <2>4
<1>14. ASSUME NEW p \in Priorities, NEW i \in DOMAIN u.queue[p], NEW j \in DOMAIN u.queue[p],
              u.queue[p][i] = u.queue[p][j]
       PROVE  i = j
  <2>1. PICK e : WokenAt(s, q, p, e) /\ Joined(s.queue[p], e, u.queue[p])
    BY <1>9
  <2>2. CASE WaitsAt(waiters, b, u.queue[p][i])
    <3>0. /\ ~ (i \in DOMAIN s.queue[p] /\ u.queue[p][i] = s.queue[p][i])
          /\ ~ (j \in DOMAIN s.queue[p] /\ u.queue[p][j] = s.queue[p][j])
      <4>1. s.contexts[u.queue[p][i]].state # "Ready" \/ u.queue[p][i] \notin DOMAIN s.contexts
        BY <1>6, <2>2
      <4>2. \A x \in DOMAIN s.queue[p] :
              s.queue[p][x] \in DOMAIN s.contexts /\ s.contexts[s.queue[p][x]].state = "Ready"
        BY <1>1 DEF Exact
      <4> QED
        BY <1>14, <4>1, <4>2
    <3>1. PICK m \in DOMAIN e : i = Len(s.queue[p]) + m /\ u.queue[p][i] = e[m]
      BY <2>1, <3>0 DEF Joined
    <3>2. PICK n \in DOMAIN e : j = Len(s.queue[p]) + n /\ u.queue[p][j] = e[n]
      BY <2>1, <3>0 DEF Joined
    <3>3. m = n
      BY <1>14, <2>1, <3>1, <3>2 DEF WokenAt
    <3> QED
      BY <3>1, <3>2, <3>3
  <2>3. CASE ~ WaitsAt(waiters, b, u.queue[p][i])
    <3>1. i \in DOMAIN s.queue[p] /\ u.queue[p][i] = s.queue[p][i]
      BY <1>10, <2>3
    <3>2. j \in DOMAIN s.queue[p] /\ u.queue[p][j] = s.queue[p][j]
      BY <1>10, <1>14, <2>3
    <3>3. \A x, y \in DOMAIN s.queue[p] : s.queue[p][x] = s.queue[p][y] => x = y
      BY <1>1 DEF Exact
    <3>4. s.queue[p][i] = s.queue[p][j]
      BY <1>14, <3>1, <3>2
    <3> QED
      BY <3>1, <3>2, <3>3, <3>4
  <2> QED
    BY <2>2, <2>3
<1>15. Exact(u)
  BY <1>12, <1>13, <1>14 DEF Exact
<1>16. Handing(u, r) /\ StateIs(u, r, "Running")
  <2>1. ~ WaitsAt(waiters, b, r) /\ u.contexts[r] = s.contexts[r]
    BY <1>1, <1>6, <1>7
  <2>2. \A id \in DOMAIN u.contexts : u.contexts[id].state = "Running" => id = r /\ u.current = r
    BY <1>1, <1>3, <1>6, <1>7 DEF Handing
  <2> QED
    BY <1>1, <1>3, <1>7, <2>1, <2>2 DEF Handing, StateIs, Known
<1>17. Fifo(s, u)
  <2> SUFFICES ASSUME NEW p \in Priorities, NEW i \in DOMAIN u.queue[p], NEW j \in DOMAIN u.queue[p],
                      i < j, InQueue(s, p, u.queue[p][j])
               PROVE  InOrder(s, p, u.queue[p][i], u.queue[p][j])
    BY DEF Fifo
  <2>1. u.queue[p][j] \in DOMAIN s.contexts /\ s.contexts[u.queue[p][j]].state = "Ready"
    BY <1>1 DEF Exact, InQueue
  <2>2. ~ WaitsAt(waiters, b, u.queue[p][j])
    BY <1>6, <2>1
  <2>3. j \in DOMAIN s.queue[p] /\ u.queue[p][j] = s.queue[p][j]
    BY <1>10, <2>2
  <2>4. ~ (j < i)
    <3>1. DOMAIN u.queue[p] = 1 .. Len(u.queue[p]) /\ u.queue[p] \in Seq(Nat)
      BY <1>11 DEF SchedOK
    <3> QED
      BY <3>1
  <2>5. i \in DOMAIN s.queue[p] /\ u.queue[p][i] = s.queue[p][i]
    BY <1>10, <2>3, <2>4
  <2> QED
    BY <2>3, <2>5 DEF InOrder
<1>18. \A id \in DOMAIN s.contexts :
         IF WaitsAt(waiters, b, id)
         THEN /\ u.contexts[id].state = "Ready" /\ s.contexts[id].state = "Blocked"
              /\ u.contexts[id].priority = s.contexts[id].priority
         ELSE u.contexts[id] = s.contexts[id]
  BY <1>6, <1>7
<1> QED
  BY <1>3, <1>7, <1>11, <1>15, <1>16, <1>17, <1>18 DEF u

\* After a wake-up nobody waits at b, and the others wait as before.
LEMMA OpenedIs ==
  ASSUME NEW s, NEW w, WaitersOK(s, w), BlockedWait(s, w), s.nextId \in Nat,
         NEW r, StateIs(s, r, "Running"), NEW b \in BarrierIds,
         NEW t, t.nextId = s.nextId, DOMAIN t.contexts = DOMAIN s.contexts,
         t.contexts[r].state # "Blocked",
         \A id \in DOMAIN s.contexts \ {r} :
           IF WaitsAt(w, b, id) THEN t.contexts[id].state = "Ready" ELSE t.contexts[id] = s.contexts[id]
  PROVE  LET x == [w EXCEPT ![b] = <<>>]
         IN  WaitersOK(t, x) /\ BlockedWait(t, x)
<1> DEFINE x == [w EXCEPT ![b] = <<>>]
<1>1. w \in [BarrierIds -> Seq(Nat)]
  BY DEF WaitersOK
<1>2. x \in [BarrierIds -> Seq(Nat)] /\ x[b] = <<>> /\ \A c \in BarrierIds \ {b} : x[c] = w[c]
  BY <1>1
<1> HIDE DEF x
<1>3. \A c \in BarrierIds : \A i \in DOMAIN x[c] : c # b /\ i \in DOMAIN w[c] /\ x[c][i] = w[c][i]
  BY <1>2
<1>4. ASSUME NEW c \in BarrierIds, NEW i \in DOMAIN x[c]
      PROVE  x[c][i] \in 1 .. t.nextId - 1 /\ (Known(t, x[c][i]) => StateIs(t, x[c][i], "Blocked"))
  <2>1. c # b /\ i \in DOMAIN w[c] /\ x[c][i] = w[c][i]
    BY <1>3
  <2>2. w[c][i] \in 1 .. s.nextId - 1 /\ (Known(s, w[c][i]) => StateIs(s, w[c][i], "Blocked"))
    BY <2>1 DEF WaitersOK
  <2>3. ~ WaitsAt(w, b, w[c][i])
    BY <2>1 DEF WaitersOK, WaitsAt
  <2>4. w[c][i] # r
    BY <2>2 DEF StateIs
  <2> QED
    BY <2>1, <2>2, <2>3, <2>4 DEF StateIs, Known
<1>5. \A c, e \in BarrierIds : \A i \in DOMAIN x[c], j \in DOMAIN x[e] :
        x[c][i] = x[e][j] => c = e /\ i = j
  BY <1>3 DEF WaitersOK
<1>6. BlockedWait(t, x)
  <2> SUFFICES ASSUME NEW id \in DOMAIN t.contexts, t.contexts[id].state = "Blocked"
               PROVE  \E c \in BarrierIds : WaitsAt(x, c, id)
    BY DEF BlockedWait
  <2>1. id # r /\ ~ WaitsAt(w, b, id) /\ s.contexts[id].state = "Blocked"
    OBVIOUS
  <2>2. PICK c \in BarrierIds : WaitsAt(w, c, id)
    BY <2>1 DEF BlockedWait
  <2>3. x[c] = w[c]
    BY <1>2, <2>1, <2>2
  <2> QED
    BY <2>2, <2>3 DEF WaitsAt
<1>7. WaitersOK(t, x)
  BY <1>2, <1>4, <1>5 DEF WaitersOK
<1> QED
  BY <1>6, <1>7 DEF x

LEMMA WakeKeeps ==
  ASSUME IInv, at = "exec", NEW b \in BarrierIds, Open(b),
         \/ Turn(BarrierWake(sched, b), TRUE)
         \/ Fail(BarrierWake(sched, b)),
         NextTurn, UNCHANGED locks
  PROVE  Kept
<1> DEFINE u == BarrierWake(sched, b)
<1>1. /\ Slicing(sched, running, MaxDepth) /\ sched.nextId \in Nat /\ sched.nextId <= MaxCtx + 1
      /\ StateIs(sched, running, "Running")
      /\ running \in DOMAIN sched.contexts /\ sched.contexts[running].state = "Running"
  BY ExecIs, SlicingIs
<1>2. /\ WaitersOK(sched, waiters) /\ BlockedWait(sched, waiters) /\ BarriersOK(barriers, waiters)
      /\ LocksOK(locks, sched)
  BY DEF IInv
<1>3. /\ SchedOK(u, MaxDepth) /\ Exact(u) /\ Handing(u, running) /\ Fifo(sched, u)
      /\ StateIs(u, running, "Running")
      /\ u.nextId = sched.nextId /\ DOMAIN u.contexts = DOMAIN sched.contexts
      /\ \A id \in DOMAIN sched.contexts :
           IF WaitsAt(waiters, b, id)
           THEN /\ u.contexts[id].state = "Ready" /\ sched.contexts[id].state = "Blocked"
                /\ u.contexts[id].priority = sched.contexts[id].priority
           ELSE u.contexts[id] = sched.contexts[id]
  BY <1>1, <1>2, WakeIs
<1>4. (\E advance \in BOOLEAN : sched' = SliceEnds(u, running, advance)) \/ sched' = SliceFails(u, running)
  BY DEF Turn, Fail
<1> HIDE DEF u
<1>5. Settled(sched, u, sched', running, MaxDepth)
  <2>1. \A p \in Priorities : ~ InQueue(sched, p, running)
    BY <1>1, SlicingIs
  <2>2. ASSUME NEW advance \in BOOLEAN, sched' = SliceEnds(u, running, advance)
        PROVE  Settled(sched, u, sched', running, MaxDepth)
    BY <1>3, <2>1, <2>2, EndsSettled
  <2>3. CASE sched' = SliceFails(u, running)
    BY <1>3, <2>3, FailsSettled
  <2> QED
    BY <1>4, <2>2, <2>3
<1>6. /\ SchedOK(sched', MaxDepth) /\ Exact(sched') /\ Calm(sched') /\ Fifo(sched, sched')
      /\ sched'.nextId = sched.nextId /\ DOMAIN sched'.contexts = DOMAIN sched.contexts
      /\ \A id \in DOMAIN sched.contexts \ {running} : sched'.contexts[id] = u.contexts[id]
      /\ sched'.contexts[running].state \in {"Ready", "Terminated"}
  BY <1>3, <1>5 DEF Settled
<1>7. waiters' = [waiters EXCEPT ![b] = <<>>] /\ barriers' = Without(barriers, b)
  BY DEF Open
<1>8. WaitersOK(sched', waiters') /\ BlockedWait(sched', waiters')
  <2>1. \A id \in DOMAIN sched.contexts \ {running} :
          IF WaitsAt(waiters, b, id) THEN sched'.contexts[id].state = "Ready"
          ELSE sched'.contexts[id] = sched.contexts[id]
    BY <1>3, <1>6
  <2>2. sched'.contexts[running].state # "Blocked"
    BY <1>6
  <2> QED
    BY <1>1, <1>2, <1>6, <1>7, <2>1, <2>2, OpenedIs
<1>9. BarriersOK(barriers', waiters')
  <2>1. waiters'[b] = <<>> /\ \A c \in BarrierIds \ {b} : waiters'[c] = waiters[c]
    BY <1>2, <1>7 DEF WaitersOK
  <2>2. /\ DOMAIN barriers' = DOMAIN barriers \ {b}
        /\ \A c \in DOMAIN barriers \ {b} : barriers'[c] = barriers[c]
    BY <1>7 DEF Without, Restrict
  <2> QED
    BY <1>2, <2>1, <2>2 DEF BarriersOK
<1>10. LocksOK(locks', sched')
  BY <1>2, <1>6 DEF LocksOK
<1>11. NoRevival(sched, sched')
  BY <1>1, <1>3, <1>6 DEF NoRevival, StateIs, Known
<1>12. LoopOK'
  <2>1. program' = program /\ running' = running /\ at' = "pick" /\ program \in Programs
    BY DEF NextTurn, IInv, LoopOK
  <2>2. running' \in 0 .. sched'.nextId - 1
    BY <1>6, <2>1 DEF IInv, LoopOK
  <2> QED
    BY <1>1, <1>6, <2>1, <2>2 DEF LoopOK
<1> QED
  BY <1>6, <1>8, <1>9, <1>10, <1>11, <1>12 DEF Kept, IInv

LEMMA WakeSteps ==
  ASSUME IInv, BarrierTimeout \/ BarrierRelease
  PROVE  Kept
<1>1. /\ at = "exec" /\ NextTurn /\ UNCHANGED locks /\ Open(Instr.id)
      /\ Turn(BarrierWake(sched, Instr.id), TRUE) \/ Fail(BarrierWake(sched, Instr.id))
      /\ Self.pc \in DOMAIN program /\ Instr.op = "BARRIER"
  BY DEF BarrierTimeout, BarrierRelease, Joins, Fetched
<1>2. Instr.id \in BarrierIds
  BY <1>1, ExecIs DEF IsInstruction
<1> QED
  BY <1>1, <1>2, WakeKeeps

-----------------------------------------------------------------------------
(* The scheduler's turn.                                                   *)

LEMMA PickKeeps ==
  ASSUME IInv, Pick
  PROVE  Kept
<1> DEFINE t  == PickNext(sched)
           id == Picked(sched)
           c  == [sched.contexts[id] EXCEPT !.state = "Running"]
<1>1. /\ at = "pick" /\ HasPick(sched) /\ sched' = t /\ running' = id /\ at' = "exec"
      /\ UNCHANGED <<program, locks, barriers, waiters>>
  BY DEF Pick
<1>2. /\ SchedOK(sched, MaxDepth) /\ Exact(sched) /\ Calm(sched) /\ sched.nextId <= MaxCtx + 1
      /\ WaitersOK(sched, waiters) /\ BlockedWait(sched, waiters) /\ BarriersOK(barriers, waiters)
      /\ LocksOK(locks, sched) /\ program \in Programs
  BY <1>1 DEF IInv, LoopOK
<1>3. /\ SchedOK(t, MaxDepth) /\ Exact(t) /\ Handing(t, id) /\ Fifo(sched, t)
      /\ StateIs(t, id, "Running") /\ Foremost(t, id)
  BY <1>1, <1>2, PickOK DEF Foremost
<1>4. /\ id \in DOMAIN sched.contexts /\ sched.contexts[id].state = "Ready"
      /\ t.nextId = sched.nextId /\ t.contexts = Put(sched.contexts, id, c)
  BY <1>1, <1>2, PickNextIs
<1> HIDE DEF t, id
<1>5. /\ DOMAIN t.contexts = DOMAIN sched.contexts /\ t.contexts[id].state = "Running"
      /\ \A x \in DOMAIN sched.contexts \ {id} : t.contexts[x] = sched.contexts[x]
  BY <1>3, <1>4 DEF Put, StateIs
<1>6. LoopOK'
  <2>1. running' \in 0 .. sched'.nextId - 1
    BY <1>1, <1>2, <1>4 DEF SchedOK
  <2> QED
    BY <1>1, <1>2, <1>3, <1>4, <2>1 DEF LoopOK, Slicing
<1>7. WaitersOK(t, waiters)
  <2>1. ASSUME NEW b \in BarrierIds, NEW i \in DOMAIN waiters[b]
        PROVE  /\ waiters[b][i] \in 1 .. t.nextId - 1
               /\ Known(t, waiters[b][i]) => StateIs(t, waiters[b][i], "Blocked")
    <3>1. /\ waiters[b][i] \in 1 .. sched.nextId - 1
          /\ Known(sched, waiters[b][i]) => StateIs(sched, waiters[b][i], "Blocked")
      BY <1>2 DEF WaitersOK
    <3>2. waiters[b][i] # id
      BY <1>4, <3>1 DEF StateIs, Known
    <3> QED
      BY <1>4, <1>5, <3>1, <3>2 DEF StateIs, Known
  <2> QED
    BY <1>2, <2>1 DEF WaitersOK
<1>8. BlockedWait(t, waiters)
  BY <1>2, <1>5 DEF BlockedWait
<1>9. LocksOK(locks, t)
  BY <1>2, <1>4 DEF LocksOK
<1>10. NoRevival(sched, t)
  BY <1>4, <1>5 DEF NoRevival, StateIs, Known
<1> QED
  BY <1>1, <1>2, <1>3, <1>6, <1>7, <1>8, <1>9, <1>10 DEF Kept, IInv

LEMMA StopKeeps ==
  ASSUME IInv, Idle \/ StepLimit
  PROVE  Kept
<1>1. /\ at = "pick" /\ at' \in {"done", "cut"}
      /\ UNCHANGED <<program, running, locks, barriers, waiters>>
  BY DEF Idle, StepLimit
<1>2. /\ SchedOK(sched, MaxDepth) /\ Exact(sched) /\ Calm(sched) /\ sched.nextId <= MaxCtx + 1
      /\ program \in Programs /\ running \in 0 .. sched.nextId - 1
  BY <1>1 DEF IInv, LoopOK
<1>3. /\ DOMAIN sched' = Fields
      /\ sched'.contexts = sched.contexts /\ sched'.queue = sched.queue
      /\ sched'.nextId = sched.nextId /\ sched'.current = sched.current
      /\ at' = "done" => \A id \in DOMAIN sched.contexts : sched.contexts[id].state # "Ready"
  <2>1. CASE Idle
    <3>1. /\ \A id \in DOMAIN sched.contexts : sched.contexts[id].state # "Ready"
          /\ PickNothing(sched).queue = sched.queue
      BY <1>2, <2>1, NobodyReady DEF Idle
    <3>2. sched' = PickNothing(sched)
      BY <2>1 DEF Idle
    <3>3. /\ DOMAIN PickNothing(sched) = Fields /\ PickNothing(sched).contexts = sched.contexts
          /\ PickNothing(sched).nextId = sched.nextId /\ PickNothing(sched).current = sched.current
      BY <1>2 DEF PickNothing, SchedOK, Fields
    <3> QED
      BY <3>1, <3>2, <3>3
  <2>2. CASE StepLimit
    BY <1>2, <2>2 DEF StepLimit, SchedOK
  <2> QED
    BY <2>1, <2>2
<1>4. SchedOK(sched', MaxDepth) /\ Exact(sched') /\ Calm(sched')
  BY <1>2, <1>3 DEF SchedOK, Exact, InQueue, Calm
<1>5. LoopOK'
  BY <1>1, <1>2, <1>3, <1>4 DEF LoopOK
<1>6. NoRevival(sched, sched') /\ Fifo(sched, sched')
  BY <1>3, FifoSelf, FifoSame DEF NoRevival, StateIs
<1>7. /\ LocksOK(locks', sched') /\ WaitersOK(sched', waiters')
      /\ BlockedWait(sched', waiters') /\ BarriersOK(barriers', waiters')
  BY <1>1, <1>3 DEF IInv, LocksOK, WaitersOK, BlockedWait, StateIs, Known
<1> QED
  BY <1>5, <1>6, <1>7 DEF Kept, IInv

-----------------------------------------------------------------------------
(* The invariant holds, and what it implies.                               *)

LEMMA InitOK ==
  ASSUME RunInit
  PROVE  IInv
<1>0. PICK p \in Priorities, pc \in Nat, calls \in Seq(Nat) : p = "Green" /\ pc = 1 /\ calls = <<>>
  <2>1. "Green" \in Priorities
    BY DEF Priorities
  <2>2. <<>> \in Seq(Nat) /\ 1 \in Nat
    OBVIOUS
  <2> QED
    BY <2>1, <2>2
<1> DEFINE s == NewScheduler
           c == NewContext(p, pc, calls)
           t == CreateContext(s, p, pc, calls)
<1>1. SchedOK(s, MaxDepth) /\ Exact(s) /\ s.nextId = 1 /\ DOMAIN s.contexts = {} /\ s.current = None
  BY DEF NewScheduler, SchedOK, Exact, Fields, None, Priorities
<1> HIDE DEF s
<1>2. Len(calls) <= MaxDepth
  BY <1>0, RunAssumption
<1>3. /\ SchedOK(t, MaxDepth) /\ Exact(t) /\ c.state = "Ready" /\ Queued(s, t, s.nextId, c)
      /\ t.nextId = s.nextId + 1
  BY <1>1, <1>2, CreateIs
<1> HIDE DEF t, c
<1>4. DOMAIN t.contexts = {1} /\ t.contexts[1].state = "Ready"
  BY <1>1, <1>3 DEF Queued, Put
<1>5. sched = t /\ t.nextId = 2
  BY <1>0, <1>1, <1>3 DEF RunInit, t, s
<1>6. MaxCtx \in Nat \ {0}
  BY RunAssumption
<1>7. LoopOK
  BY <1>3, <1>4, <1>5, <1>6 DEF RunInit, LoopOK, Calm, None
<1>8. LocksOK(locks, sched) /\ BarriersOK(barriers, waiters)
  BY DEF RunInit, LocksOK, BarriersOK
<1>9. WaitersOK(sched, waiters)
  <2>1. waiters = [b \in BarrierIds |-> <<>>]
    BY DEF RunInit
  <2>2. waiters \in [BarrierIds -> Seq(Nat)] /\ \A b \in BarrierIds : DOMAIN waiters[b] = {}
    BY <2>1
  <2> QED
    BY <2>2 DEF WaitersOK
<1>10. BlockedWait(sched, waiters)
  BY <1>4, <1>5 DEF BlockedWait
<1> QED
  BY <1>7, <1>8, <1>9, <1>10 DEF IInv

LEMMA NextKeeps ==
  ASSUME IInv, RunNext
  PROVE  Kept
  BY PickKeeps, StopKeeps, EndSteps, PlainSteps, JumpSteps, CallStep, RetStep, ForkStep, SpawnStep,
     RemoveSteps, YieldStep, SetPriorityStep, LockSteps, WaitSteps, WakeSteps DEF RunNext

LEMMA StutterKeeps ==
  ASSUME IInv, UNCHANGED runVars
  PROVE  IInv'
<1>1. /\ program' = program /\ sched' = sched /\ at' = at /\ running' = running
      /\ locks' = locks /\ barriers' = barriers /\ waiters' = waiters
  BY DEF runVars
<1> QED
  BY <1>1 DEF IInv, LoopOK

\* The invariant is inductive, whatever the programs, locks and barriers.
THEOREM Invariant == RunSpec => []IInv
<1>1. RunInit => IInv
  BY InitOK
<1>2. IInv /\ [RunNext]_runVars => IInv'
  BY NextKeeps, StutterKeeps DEF Kept
<1> QED
  BY <1>1, <1>2, PTL DEF RunSpec

LEMMA SeqIn ==
  ASSUME NEW q \in Seq(Nat), NEW S, \A i \in DOMAIN q : q[i] \in S
  PROVE  q \in Seq(S)
<1>1. Len(q) \in Nat /\ q = [i \in 1 .. Len(q) |-> q[i]] /\ DOMAIN q = 1 .. Len(q)
  OBVIOUS
<1>2. q \in [1 .. Len(q) -> S]
  BY <1>1
<1> QED
  BY <1>1, <1>2

LEMMA TypeHolds ==
  ASSUME IInv
  PROVE  RunTypeOK
<1>1. /\ SchedOK(sched, MaxDepth) /\ Exact(sched) /\ sched.nextId <= MaxCtx + 1
      /\ program \in Programs /\ at \in {"pick", "exec", "done", "cut"}
      /\ running \in 0 .. sched.nextId - 1
      /\ LocksOK(locks, sched) /\ WaitersOK(sched, waiters) /\ BarriersOK(barriers, waiters)
  BY DEF IInv, LoopOK
<1>2. sched.nextId \in 1 .. MaxCtx + 1 /\ MaxCtx \in Nat
  BY <1>1, RunAssumption DEF SchedOK
<1>3. /\ DOMAIN sched = {"contexts", "queue", "nextId", "current"}
      /\ DOMAIN Contexts \subseteq 1 .. sched.nextId - 1
  BY <1>1 DEF SchedOK, Fields, Contexts
<1>4. \A id \in DOMAIN Contexts : IsContext(Contexts[id])
  BY <1>1 DEF SchedOK, Contexts, Ctxs, IsContext
<1>5. Queue \in [Priorities -> Seq(Ids)]
  <2>1. Queue \in [Priorities -> Seq(Nat)]
    BY <1>1 DEF Queue, SchedOK
  <2>2. \A p \in Priorities : \A i \in DOMAIN Queue[p] : Queue[p][i] \in Ids
    BY <1>1, <1>2, <1>3 DEF Exact, Queue, Contexts, Ids
  <2>3. \A p \in Priorities : Queue[p] \in Seq(Ids)
    BY <2>1, <2>2, SeqIn
  <2> QED
    BY <2>1, <2>3
<1>6. sched.current \in {None} \cup Ids /\ running \in {None} \cup Ids
  BY <1>1, <1>2 DEF SchedOK, Ids, None
<1>7. waiters \in [BarrierIds -> Seq(1 .. sched.nextId - 1)]
  <2>1. waiters \in [BarrierIds -> Seq(Nat)]
    BY <1>1 DEF WaitersOK
  <2>2. \A b \in BarrierIds : \A i \in DOMAIN waiters[b] : waiters[b][i] \in 1 .. sched.nextId - 1
    BY <1>1 DEF WaitersOK
  <2>3. \A b \in BarrierIds : waiters[b] \in Seq(1 .. sched.nextId - 1)
    BY <2>1, <2>2, SeqIn
  <2> QED
    BY <2>1, <2>3
<1>8. DOMAIN barriers \subseteq BarrierIds /\ \A b \in DOMAIN barriers : IsBarrier(barriers[b])
  BY <1>1 DEF BarriersOK
<1> QED
  BY <1>1, <1>2, <1>3, <1>4, <1>5, <1>6, <1>7, <1>8 DEF RunTypeOK, LocksOK

LEMMA PigeonLen ==
  ASSUME NEW q \in Seq(Nat), NEW n \in Nat, \A i \in DOMAIN q : q[i] \in 1 .. n,
         \A i, j \in DOMAIN q : q[i] = q[j] => i = j
  PROVE  DOMAIN q \subseteq 1 .. n
<1>1. Len(q) \in Nat /\ DOMAIN q = 1 .. Len(q) /\ q = [i \in 1 .. Len(q) |-> q[i]]
  OBVIOUS
<1>2. q \in [1 .. Len(q) -> 1 .. n]
  BY <1>1
<1>3. q \in Injection(1 .. Len(q), 1 .. n)
  BY <1>1, <1>2 DEF Injection, IsInjective
<1>4. /\ IsFiniteSet(1 .. n) /\ Cardinality(1 .. n) = n
      /\ Cardinality(1 .. Len(q)) = Len(q)
  <2>1. 1 \in Int /\ n \in Int /\ Len(q) \in Int
    BY <1>1
  <2>2. IsFiniteSet(1 .. n) /\ Cardinality(1 .. n) = n
    BY <2>1, FS_Interval
  <2>3. Cardinality(1 .. Len(q)) = Len(q)
    <3>1. PICK m \in Nat : m = Len(q)
      BY <1>1
    <3>2. Cardinality(1 .. m) = m
      BY FS_Interval
    <3> QED
      BY <3>1, <3>2
  <2> QED
    BY <2>2, <2>3
<1>5. Len(q) <= n
  BY <1>3, <1>4, FS_Injection
<1> QED
  BY <1>1, <1>5

LEMMA QueuesHold ==
  ASSUME IInv
  PROVE  QueuesExact
<1>1. SchedOK(sched, MaxDepth) /\ Exact(sched) /\ sched.nextId <= MaxCtx + 1 /\ MaxCtx \in Nat
  BY RunAssumption DEF IInv, LoopOK
<1>2. /\ \A p \in Priorities : \A i \in DOMAIN Queue[p] :
           StateIs(sched, Queue[p][i], "Ready") /\ Contexts[Queue[p][i]].priority = p
      /\ \A p \in Priorities : \A i, j \in DOMAIN Queue[p] : Queue[p][i] = Queue[p][j] => i = j
  BY <1>1 DEF Exact, Queue, Contexts, StateIs, Known
<1>3. ASSUME NEW id \in DOMAIN Contexts, Contexts[id].state = "Ready"
      PROVE  Cardinality(Places(id)) = 1
  <2>1. PICK p \in Priorities : p = Contexts[id].priority
    BY <1>1 DEF Contexts, SchedOK, Ctxs
  <2>2. PICK i \in DOMAIN Queue[p] : Queue[p][i] = id
    BY <1>1, <1>3, <2>1 DEF Exact, Contexts, Queue, InQueue
  <2>3. DOMAIN Queue[p] \subseteq 1 .. MaxCtx
    <3>1. Queue[p] \in Seq(Nat)
      BY <1>1 DEF SchedOK, Queue
    <3>2. \A j \in DOMAIN Queue[p] : Queue[p][j] \in 1 .. MaxCtx
      <4>1. \A j \in DOMAIN Queue[p] : Queue[p][j] \in 1 .. sched.nextId - 1
        BY <1>1 DEF Exact, SchedOK, Queue
      <4>2. sched.nextId \in Nat
        BY <1>1 DEF SchedOK
      <4> QED
        BY <1>1, <4>1, <4>2
    <3> QED
      BY <1>1, <1>2, <3>1, <3>2, PigeonLen
  <2>4. <<p, i>> \in Places(id)
    BY <2>2, <2>3 DEF Places
  <2>5. \A x \in Places(id) : x = <<p, i>>
    <3> TAKE x \in Places(id)
    <3>1. PICK r \in Priorities, j \in 1 .. MaxCtx :
            x = <<r, j>> /\ j \in DOMAIN Queue[r] /\ Queue[r][j] = id
      BY DEF Places
    <3>2. r = p
      BY <1>2, <2>1, <3>1
    <3>3. j = i
      BY <1>2, <2>2, <3>1, <3>2
    <3> QED
      BY <3>1, <3>2, <3>3
  <2>6. Places(id) = {<<p, i>>}
    BY <2>4, <2>5
  <2> QED
    BY <2>6, FS_Singleton
<1> QED
  BY <1>2, <1>3 DEF QueuesExact

LEMMA WaitingHolds ==
  ASSUME IInv
  PROVE  BlockedAreWaiting
<1>1. WaitersOK(sched, waiters) /\ BlockedWait(sched, waiters) /\ BarriersOK(barriers, waiters)
  BY DEF IInv
<1>2. ASSUME NEW id \in DOMAIN Contexts, Contexts[id].state = "Blocked"
      PROVE  Cardinality({b \in BarrierIds : id \in Range(waiters[b])}) = 1
  <2> DEFINE B == {b \in BarrierIds : id \in Range(waiters[b])}
  <2>1. PICK b \in BarrierIds : WaitsAt(waiters, b, id)
    BY <1>1, <1>2 DEF BlockedWait, Contexts
  <2>2. b \in B
    BY <2>1 DEF WaitsAt, Range
  <2>3. \A c \in B : c = b
    <3> TAKE c \in B
    <3>1. PICK i \in DOMAIN waiters[c] : waiters[c][i] = id
      BY DEF Range
    <3>2. PICK j \in DOMAIN waiters[b] : waiters[b][j] = id
      BY <2>1 DEF WaitsAt
    <3> QED
      BY <1>1, <3>1, <3>2 DEF WaitersOK
  <2>4. B = {b}
    BY <2>2, <2>3
  <2> QED
    BY <2>4, FS_Singleton
<1> QED
  BY <1>1, <1>2 DEF BlockedAreWaiting, BarriersOK

LEMMA PriorityHolds ==
  ASSUME IInv
  PROVE  StrictPriority
  BY DEF IInv, LoopOK, Foremost, StrictPriority, Contexts

LEMMA IdleHolds ==
  ASSUME IInv
  PROVE  IdleMeansNothingReady
<1> SUFFICES ASSUME at = "done", NEW id \in DOMAIN sched.contexts
             PROVE  sched.contexts[id].state \in {"Terminated", "Blocked"}
  BY DEF IdleMeansNothingReady, Contexts
<1>1. /\ SchedOK(sched, MaxDepth) /\ sched.contexts[id].state # "Ready"
      /\ sched.contexts[id].state # "Running"
  BY DEF IInv, LoopOK, Calm
<1>2. sched.contexts[id].state \in States
  BY <1>1 DEF SchedOK, Ctxs
<1> QED
  BY <1>1, <1>2 DEF States

-----------------------------------------------------------------------------
(* Theorems.                                                               *)

\* Every variable of the run loop keeps its type, and no id is used that
\* create_context has not issued (context.rs).
THEOREM TypeCorrect == RunSpec => []RunTypeOK
<1>1. IInv => RunTypeOK
  BY TypeHolds
<1> QED
  BY <1>1, Invariant, PTL

\* A Ready context is in the queues once, in the queue of its priority, and
\* nothing else is in a queue: for any program, no enqueue, yield, preemption,
\* wake-up or removal queues a context twice or leaves an ended one behind.
THEOREM QueuesAreExact == RunSpec => []QueuesExact
<1>1. IInv => QueuesExact
  BY QueuesHold
<1> QED
  BY <1>1, Invariant, PTL

\* No context executes while one of a higher priority is ready (pick_next).
THEOREM PriorityIsStrict == RunSpec => []StrictPriority
<1>1. IInv => StrictPriority
  BY PriorityHolds
<1> QED
  BY <1>1, Invariant, PTL

\* No wake-up is lost: whoever is Blocked waits at just one barrier, which is
\* open and lacks an arrival (exec_barrier, barrier_wake).
THEOREM NoWakeUpLost == RunSpec => []BlockedAreWaiting
<1>1. IInv => BlockedAreWaiting
  BY WaitingHolds
<1> QED
  BY <1>1, Invariant, PTL

\* A run that ends on its own leaves nothing that could go on (Vm::run).
THEOREM IdleIsJustified == RunSpec => []IdleMeansNothingReady
<1>1. IInv => IdleMeansNothingReady
  BY IdleHolds
<1> QED
  BY <1>1, Invariant, PTL

\* No id is issued twice and no ended context runs again, though waiters and
\* locks still name it (create_context, remove, barrier_wake).
THEOREM TheDeadStayDead == RunSpec => DeadStayDead
<1>1. ASSUME IInv, [RunNext]_runVars
      PROVE  [\A id \in 1 .. sched.nextId - 1 :
                /\ id \notin DOMAIN Contexts => id \notin DOMAIN Contexts'
                /\ StateIs(sched, id, "Terminated") /\ id \in DOMAIN Contexts' =>
                     Contexts'[id].state = "Terminated"]_runVars
  <2>1. CASE RunNext
    <3>1. NoRevival(sched, sched')
      BY <1>1, <2>1, NextKeeps DEF Kept
    <3> QED
      BY <3>1 DEF NoRevival, Contexts
  <2>2. CASE UNCHANGED runVars
    BY <2>2
  <2> QED
    BY <1>1, <2>1, <2>2
<1> QED
  BY <1>1, Invariant, PTL DEF RunSpec, DeadStayDead

\* Two contexts that stay in a queue keep their order and a newcomer is behind
\* them: no handler lets a context jump its queue.
THEOREM QueuesAreFifo == RunSpec => FifoOrder
<1>1. ASSUME IInv, [RunNext]_runVars
      PROVE  [\A p \in Priorities : \A i, j \in DOMAIN Queue'[p] :
                /\ i < j
                /\ Queue'[p][j] \in Range(Queue[p])
                => \E k, l \in DOMAIN Queue[p] :
                     k < l /\ Queue[p][k] = Queue'[p][i] /\ Queue[p][l] = Queue'[p][j]]_runVars
  <2>1. CASE RunNext
    <3>1. Fifo(sched, sched')
      BY <1>1, <2>1, NextKeeps DEF Kept
    <3>2. ASSUME NEW p \in Priorities, NEW i \in DOMAIN Queue'[p], NEW j \in DOMAIN Queue'[p],
                 i < j, Queue'[p][j] \in Range(Queue[p])
          PROVE  \E k, l \in DOMAIN Queue[p] :
                   k < l /\ Queue[p][k] = Queue'[p][i] /\ Queue[p][l] = Queue'[p][j]
      <4>1. InQueue(sched, p, sched'.queue[p][j])
        BY <3>2 DEF InQueue, Range, Queue
      <4>2. InOrder(sched, p, sched'.queue[p][i], sched'.queue[p][j])
        BY <3>1, <3>2, <4>1 DEF Fifo, Queue
      <4> QED
        BY <4>2 DEF InOrder, Queue
    <3> QED
      BY <3>2
  <2>2. CASE UNCHANGED runVars
    BY <2>2
  <2> QED
    BY <1>1, <2>1, <2>2
<1> QED
  BY <1>1, Invariant, PTL DEF RunSpec, FifoOrder

\* A lock changes hands only through UNLOCK by its holder: not when the holder
\* ends, and not by another context (exec_lock, exec_unlock).
THEOREM LocksStayHeld == RunSpec => LocksAreHeld
<1>1. ASSUME RunNext, NEW l \in DOMAIN locks
      PROVE  IF l \in DOMAIN locks' THEN locks'[l] = locks[l] ELSE running = locks[l]
  <2>1. CASE UNCHANGED locks
    BY <2>1
  <2>2. CASE Lock
    <3>1. CASE /\ Instr.id \in DOMAIN locks => locks[Instr.id] = running
               /\ locks' = With(locks, Instr.id, running)
      BY <3>1 DEF With
    <3> QED
      BY <2>1, <2>2, <3>1 DEF Lock
  <2>3. CASE Unlock
    <3>1. CASE /\ Instr.id \in DOMAIN locks /\ locks[Instr.id] = running
               /\ locks' = Without(locks, Instr.id)
      BY <3>1 DEF Without, Restrict
    <3> QED
      BY <2>1, <2>3, <3>1 DEF Unlock
  <2>4. Lock \/ Unlock \/ UNCHANGED locks
    BY <1>1 DEF RunNext, Pick, Idle, StepLimit, FetchFails, Halt, Nop, Wide, Other, Jump, JumpIf, Call,
                Ret, Fork, Spawn, Kill, Abort, Yield, SetPriority, BarrierRefused, BarrierCreate,
                BarrierTimeout, BarrierRelease, BarrierJoin, Rest
  <2> QED
    BY <2>1, <2>2, <2>3, <2>4
<1>2. [RunNext]_runVars =>
        [\A l \in DOMAIN locks :
           IF l \in DOMAIN locks' THEN locks'[l] = locks[l] ELSE running = locks[l]]_runVars
  BY <1>1
<1> QED
  BY <1>2, PTL DEF RunSpec, LocksAreHeld

-----------------------------------------------------------------------------
(* A turn in the table of contexts alone: what the caller's turn leaves of *)
(* the others.                                                             *)

Tidy(s, r) == DOMAIN s = Fields /\ s.current \in {None, r} /\ None \notin DOMAIN s.contexts

\* From s to t nothing happened to any context but r, and r is still there if
\* it was.
Apart(s, t, r) ==
  /\ Tidy(t, r)
  /\ DOMAIN t.contexts = DOMAIN s.contexts
  /\ \A id \in DOMAIN s.contexts \ {r} : t.contexts[id] = s.contexts[id]
  /\ t.nextId = s.nextId

LEMMA ApartThrough ==
  ASSUME NEW s, NEW t, NEW u, NEW r, Apart(s, t, r), Apart(t, u, r)
  PROVE  Apart(s, u, r)
  BY DEF Apart

LEMMA SetApart ==
  ASSUME NEW s, NEW r, Tidy(s, r), r \in DOMAIN s.contexts, NEW c
  PROVE  Apart(s, SetContext(s, r, c), r)
<1> DEFINE t == SetContext(s, r, c)
<1>1. Marked(s, t, r, c) /\ t.current = s.current
  BY SetContextIs DEF Tidy
<1> HIDE DEF t
<1>2. Apart(s, t, r)
  BY <1>1 DEF Apart, Tidy, Marked, Put
<1> QED
  BY <1>2 DEF t

LEMMA StateApart ==
  ASSUME NEW s, NEW r, Tidy(s, r), NEW x
  PROVE  Apart(s, SetState(s, r, x), r) /\ Apart(s, Moved(s, r, x), r)
<1>1. Apart(s, s, r)
  BY DEF Apart
<1>2. CASE r \in DOMAIN s.contexts
  BY <1>2, SetApart DEF SetState, Moved, Known
<1>3. CASE r \notin DOMAIN s.contexts
  BY <1>1, <1>3 DEF SetState, Moved, Known
<1> QED
  BY <1>2, <1>3

LEMMA YieldApart ==
  ASSUME NEW s, NEW r, Tidy(s, r)
  PROVE  Apart(s, YieldCurrent(s), r) /\ Apart(s, MaybePreempt(s), r)
<1> DEFINE id == s.current
           t  == [s EXCEPT !.current = None]
           u  == IF StateIs(t, id, "Running") THEN SetState(t, id, "Ready") ELSE t
           v  == PushBack(u, u.contexts[id].priority, id)
<1>1. Apart(s, t, r) /\ Apart(s, s, r)
  BY DEF Apart, Tidy, Fields
<1>2. id \in DOMAIN t.contexts => id = r
  BY <1>1 DEF Apart, Tidy
<1> HIDE DEF t, id
<1>3. Apart(t, u, r)
  <2>1. Tidy(t, r) /\ Apart(t, t, r)
    BY <1>1 DEF Apart
  <2>2. CASE StateIs(t, id, "Running")
    BY <1>2, <2>1, <2>2, StateApart DEF StateIs, Known
  <2> QED
    BY <2>1, <2>2
<1> HIDE DEF u
<1>4. Apart(u, v, r)
  BY <1>3 DEF Apart, Tidy, PushBack, Fields
<1>5. YieldCurrent(s) = IF StateIs(u, id, "Ready") THEN v ELSE u
  BY DEF YieldCurrent, u, t, id, v
<1> HIDE DEF v
<1>6. Apart(s, YieldCurrent(s), r)
  BY <1>1, <1>3, <1>4, <1>5, ApartThrough
<1> QED
  BY <1>1, <1>6 DEF MaybePreempt

LEMMA SliceApart ==
  ASSUME NEW s, NEW r, Tidy(s, r), NEW advance
  PROVE  Apart(s, SliceEnds(s, r, advance), r) /\ Apart(s, SliceFails(s, r), r)
<1> DEFINE m == Moved(s, r, s.contexts[r].pc + 1)
           t == IF advance THEN m ELSE s
           u == SetState(t, r, "Ready")
           v == SetState(s, r, "Terminated")
<1>1. Apart(s, s, r) /\ Apart(s, m, r) /\ Apart(s, v, r)
  BY StateApart DEF Apart
<1>2. Apart(s, YieldCurrent(s), r) /\ Apart(v, YieldCurrent(v), r)
  BY <1>1, YieldApart DEF Apart
<1> HIDE DEF m, v
<1>3. Apart(s, t, r)
  BY <1>1
<1> HIDE DEF t
<1>4. Apart(t, u, r)
  BY <1>3, StateApart DEF Apart
<1> HIDE DEF u
<1>5. Apart(u, YieldCurrent(u), r)
  BY <1>4, YieldApart DEF Apart
<1>6. Apart(s, YieldCurrent(u), r) /\ Apart(s, YieldCurrent(v), r)
  BY <1>1, <1>2, <1>3, <1>4, <1>5, ApartThrough
<1>7. SliceFails(s, r) = YieldCurrent(v)
  BY DEF SliceFails, v
<1>8. SliceEnds(s, r, advance) \in {YieldCurrent(u), YieldCurrent(s)}
  BY DEF SliceEnds, u, t, m
<1> QED
  BY <1>2, <1>6, <1>7, <1>8

LEMMA ExecTidy ==
  ASSUME IInv, at = "exec"
  PROVE  /\ Tidy(sched, running) /\ running \in DOMAIN sched.contexts
         /\ sched.contexts[running].state = "Running" /\ Apart(sched, sched, running)
         /\ sched.nextId \in Nat /\ DOMAIN sched.contexts \subseteq 1 .. sched.nextId - 1
<1>1. Slicing(sched, running, MaxDepth)
  BY ExecIs
<1>2. Tidy(sched, running)
  BY <1>1, SlicingIs DEF Tidy, SchedOK, None
<1> QED
  BY <1>1, <1>2, SlicingIs DEF Apart, SchedOK

LEMMA TurnApart ==
  ASSUME NEW u, Tidy(u, running), Turn(u, TRUE) \/ Turn(u, FALSE) \/ Fail(u)
  PROVE  Apart(u, sched', running)
  BY SliceApart DEF Turn, Fail

-----------------------------------------------------------------------------
(* The order of the queues as a line.                                      *)

\* The ids that a queue holds are within the bound.
Bounded(s) == DOMAIN s.contexts \subseteq Ids

LEMMA AheadIs ==
  ASSUME NEW s, Bounded(s), Exact(s), NEW x, NEW y
  PROVE  <<x, y>> \in Ahead(s) <=> \E p \in Priorities : InOrder(s, p, x, y)
<1>1. ASSUME NEW p \in Priorities, InOrder(s, p, x, y)
      PROVE  x \in Ids /\ y \in Ids
  BY <1>1 DEF InOrder, Exact, Bounded
<1> QED
  BY <1>1 DEF Ahead, InOrder

\* Who is ready stands in the queue of its band.
LEMMA StandsIn ==
  ASSUME NEW s, Exact(s), s.queue \in [Priorities -> Seq(Nat)], NEW p \in Priorities, NEW x, NEW y
  PROVE  /\ InOrder(s, p, x, y) =>
              /\ x \in DOMAIN s.contexts /\ s.contexts[x].state = "Ready" /\ s.contexts[x].priority = p
              /\ y \in DOMAIN s.contexts /\ s.contexts[y].state = "Ready" /\ s.contexts[y].priority = p
         /\ InQueue(s, p, x) /\ InQueue(s, p, y) => x = y \/ InOrder(s, p, x, y) \/ InOrder(s, p, y, x)
         /\ ~ (InOrder(s, p, x, y) /\ InOrder(s, p, y, x))
         /\ \A z : InOrder(s, p, x, y) /\ InOrder(s, p, y, z) => InOrder(s, p, x, z)
<1> DEFINE q == s.queue[p]
<1>1. /\ \A i \in DOMAIN q : i \in Nat /\ q[i] \in DOMAIN s.contexts
                             /\ s.contexts[q[i]].state = "Ready" /\ s.contexts[q[i]].priority = p
      /\ \A i, j \in DOMAIN q : q[i] = q[j] => i = j
  BY DEF Exact
<1> HIDE DEF q
<1>2. /\ \A a, b : InOrder(s, p, a, b) <=> \E k, l \in DOMAIN q : k < l /\ q[k] = a /\ q[l] = b
      /\ \A a : InQueue(s, p, a) <=> \E i \in DOMAIN q : q[i] = a
  BY DEF InOrder, InQueue, q
<1>3. InOrder(s, p, x, y) =>
        /\ x \in DOMAIN s.contexts /\ s.contexts[x].state = "Ready" /\ s.contexts[x].priority = p
        /\ y \in DOMAIN s.contexts /\ s.contexts[y].state = "Ready" /\ s.contexts[y].priority = p
  BY <1>1, <1>2
<1>4. InQueue(s, p, x) /\ InQueue(s, p, y) => x = y \/ InOrder(s, p, x, y) \/ InOrder(s, p, y, x)
  BY <1>1, <1>2
<1>5. ~ (InOrder(s, p, x, y) /\ InOrder(s, p, y, x))
  BY <1>1, <1>2
<1>6. ASSUME NEW z, InOrder(s, p, x, y), InOrder(s, p, y, z)
      PROVE  InOrder(s, p, x, z)
  BY <1>1, <1>2, <1>6
<1> QED
  BY <1>3, <1>4, <1>5, <1>6

LEMMA LivesIs ==
  ASSUME NEW s
  PROVE  /\ DOMAIN Lives(s) = DOMAIN s.contexts
         /\ \A x \in DOMAIN s.contexts :
              Lives(s)[x].state = s.contexts[x].state /\ Lives(s)[x].band = s.contexts[x].priority
         /\ \A x : x \in Dispatches!Ready(Lives(s)) <=>
                    x \in DOMAIN s.contexts /\ s.contexts[x].state = "Ready"
  BY DEF Lives, Dispatches!Ready

LEMMA QueuesAreLine ==
  ASSUME NEW d, NEW s, SchedOK(s, d), Bounded(s), Exact(s)
  PROVE  Dispatches!IsLine(Lives(s), Ahead(s))
<1> DEFINE ready == Dispatches!Ready(Lives(s))
<1>1. s.queue \in [Priorities -> Seq(Nat)] /\ \A x \in DOMAIN s.contexts : s.contexts[x].priority \in Priorities
  BY DEF SchedOK, Ctxs
<1>2. \A x : x \in ready <=> x \in DOMAIN s.contexts /\ s.contexts[x].state = "Ready"
  BY LivesIs
<1>3. \A x \in ready : /\ x \in DOMAIN s.contexts /\ Lives(s)[x].band = s.contexts[x].priority
                       /\ InQueue(s, s.contexts[x].priority, x)
  <2>1. \A x \in DOMAIN s.contexts : s.contexts[x].state = "Ready" => InQueue(s, s.contexts[x].priority, x)
    BY DEF Exact
  <2> HIDE DEF ready
  <2> QED
    BY <1>2, <2>1, LivesIs
<1>4. \A x, y : <<x, y>> \in Ahead(s) <=> \E p \in Priorities : InOrder(s, p, x, y)
  BY AheadIs
<1> HIDE DEF ready
<1>5. Ahead(s) \subseteq ready \X ready
  <2>1. \A w \in Ahead(s) : w = <<w[1], w[2]>>
    BY DEF Ahead
  <2>2. ASSUME NEW x, NEW y, <<x, y>> \in Ahead(s)
        PROVE  x \in ready /\ y \in ready
    BY <1>1, <1>2, <1>4, <2>2, StandsIn
  <2> QED
    BY <2>1, <2>2
<1>6. ASSUME NEW x \in ready, NEW y \in ready
      PROVE  /\ IF Lives(s)[x].band = Lives(s)[y].band
                THEN x = y \/ <<x, y>> \in Ahead(s) \/ <<y, x>> \in Ahead(s)
                ELSE <<x, y>> \notin Ahead(s)
             /\ ~ (<<x, y>> \in Ahead(s) /\ <<y, x>> \in Ahead(s))
  <2>1. \A p \in Priorities : InOrder(s, p, x, y) \/ InOrder(s, p, y, x) =>
          s.contexts[x].priority = p /\ s.contexts[y].priority = p
    BY <1>1, StandsIn
  <2>2. CASE Lives(s)[x].band = Lives(s)[y].band
    <3>1. PICK p \in Priorities : p = s.contexts[x].priority /\ InQueue(s, p, x) /\ InQueue(s, p, y)
      BY <1>1, <1>3, <2>2
    <3>2. x = y \/ InOrder(s, p, x, y) \/ InOrder(s, p, y, x)
      BY <1>1, <3>1, StandsIn
    <3>3. ~ (InOrder(s, p, x, y) /\ InOrder(s, p, y, x))
      BY <1>1, StandsIn
    <3> QED
      BY <1>4, <2>1, <2>2, <3>1, <3>2, <3>3
  <2>3. CASE Lives(s)[x].band # Lives(s)[y].band
    BY <1>3, <1>4, <2>1, <2>3
  <2> QED
    BY <2>2, <2>3
<1>7. ASSUME NEW x \in ready, NEW y \in ready, NEW z \in ready,
             <<x, y>> \in Ahead(s), <<y, z>> \in Ahead(s)
      PROVE  <<x, z>> \in Ahead(s)
  <2>1. PICK p \in Priorities : InOrder(s, p, x, y)
    BY <1>4, <1>7
  <2>2. PICK r \in Priorities : InOrder(s, r, y, z)
    BY <1>4, <1>7
  <2>3. p = s.contexts[y].priority /\ r = s.contexts[y].priority
    BY <1>1, <2>1, <2>2, StandsIn
  <2>4. InOrder(s, p, x, z)
    BY <1>1, <2>1, <2>2, <2>3, StandsIn
  <2> QED
    BY <1>4, <2>4
<1> QED
  BY <1>5, <1>6, <1>7 DEF Dispatches!IsLine, ready

LEMMA BoundedIs ==
  ASSUME IInv
  PROVE  Bounded(sched) /\ SchedOK(sched, MaxDepth) /\ Exact(sched)
  BY RunAssumption DEF IInv, LoopOK, SchedOK, Bounded, Ids

LEMMA LineKept ==
  ASSUME IInv, Kept
  PROVE  Dispatches!IsLine(Lives(sched'), Ahead(sched')) /\ Dispatches!NobodyOvertakes
<1>1. Bounded(sched') /\ SchedOK(sched', MaxDepth) /\ Exact(sched')
  BY RunAssumption DEF Kept, IInv, LoopOK, SchedOK, Bounded, Ids
<1>2. Dispatches!IsLine(Lives(sched'), Ahead(sched'))
  BY <1>1, QueuesAreLine
<1>3. /\ sched.queue \in [Priorities -> Seq(Nat)] /\ sched'.queue \in [Priorities -> Seq(Nat)]
      /\ Bounded(sched) /\ Exact(sched) /\ Fifo(sched, sched')
  BY <1>1, BoundedIs DEF SchedOK, Kept
<1>4. ASSUME NEW x, NEW y, <<x, y>> \in Ahead(sched'),
             y \in Dispatches!Ready(Lives(sched)), Lives(sched)[y].band = Lives(sched')[y].band
      PROVE  <<x, y>> \in Ahead(sched)
  <2>1. PICK p \in Priorities : InOrder(sched', p, x, y)
    BY <1>1, <1>4, AheadIs
  <2>2. y \in DOMAIN sched'.contexts /\ sched'.contexts[y].priority = p
    BY <1>1, <1>3, <2>1, StandsIn
  <2>3. y \in DOMAIN sched.contexts /\ sched.contexts[y].state = "Ready" /\ sched.contexts[y].priority = p
    <3>1. y \in DOMAIN sched.contexts /\ sched.contexts[y].state = "Ready"
      BY <1>4, LivesIs
    <3>2. Lives(sched)[y].band = sched.contexts[y].priority
      BY <3>1, LivesIs
    <3>3. Lives(sched')[y].band = sched'.contexts[y].priority
      BY <2>2, LivesIs
    <3> QED
      BY <1>4, <2>2, <3>1, <3>2, <3>3
  <2>4. InQueue(sched, p, y)
    BY <1>3, <2>3 DEF Exact
  <2>5. InOrder(sched, p, x, y)
    BY <1>3, <2>1, <2>4 DEF Fifo, InOrder
  <2> QED
    BY <1>3, <2>5, AheadIs
<1> QED
  BY <1>2, <1>4 DEF Dispatches!NobodyOvertakes
-----------------------------------------------------------------------------
(* How turns end.                                                          *)

\* A turn that opens no gate but by emptying it does not leave its context
\* blocked or running.
LEMMA OverState ==
  ASSUME IInv, Kept, at = "exec", at' # "exec",
         \A b \in BarrierIds : waiters'[b] = waiters[b] \/ waiters'[b] = <<>>,
         running \in DOMAIN sched'.contexts
  PROVE  /\ sched'.contexts[running].state \in {"Ready", "Terminated"}
         /\ sched'.contexts[running].priority \in Priorities
<1>1. /\ SchedOK(sched', MaxDepth) /\ Calm(sched') /\ BlockedWait(sched', waiters')
      /\ WaitersOK(sched, waiters)
  BY DEF Kept, IInv, LoopOK
<1>2. sched'.contexts[running].state \in States /\ sched'.contexts[running].priority \in Priorities
  BY <1>1 DEF SchedOK, Ctxs
<1>3. sched'.contexts[running].state # "Running"
  BY <1>1 DEF Calm
<1>4. ASSUME sched'.contexts[running].state = "Blocked"
      PROVE  FALSE
  <2>1. PICK b \in BarrierIds : WaitsAt(waiters', b, running)
    BY <1>1, <1>4 DEF BlockedWait
  <2>2. WaitsAt(waiters, b, running)
    BY <2>1 DEF WaitsAt
  <2>3. sched.contexts[running].state = "Blocked"
    BY <1>1, <2>2, ExecTidy DEF WaitsAt, WaitersOK, StateIs, Known
  <2> QED
    BY <2>3, ExecTidy
<1> QED
  BY <1>2, <1>3, <1>4 DEF States

\* The turn of the loop's context is over, and the others are as in u.
LEMMA OverIs ==
  ASSUME IInv, Kept, at = "exec", at' # "exec",
         \A b \in BarrierIds : waiters'[b] = waiters[b] \/ waiters'[b] = <<>>,
         NEW u, Apart(u, sched', running)
  PROVE  Dispatches!Over(running, Lives(u))
<1>1. PICK st \in {"Ready", "Terminated"}, b \in Priorities :
        running \in DOMAIN sched'.contexts =>
          sched'.contexts[running].state = st /\ sched'.contexts[running].priority = b
  BY OverState DEF Priorities
<1>2. Lives(sched') = [x \in DOMAIN Lives(u) |->
                         IF x = running THEN [state |-> st, band |-> b] ELSE Lives(u)[x]]
  BY <1>1 DEF Lives, Apart
<1> QED
  BY <1>2 DEF Dispatches!Over

LEMMA OverSame ==
  ASSUME NEW u, Apart(sched, u, running), Dispatches!Over(running, Lives(u))
  PROVE  Dispatches!Over(running, Lives(sched))
<1>1. PICK st \in {"Ready", "Terminated"}, b \in Priorities :
        Lives(sched)' = [x \in DOMAIN Lives(u) |->
                           IF x = running THEN [state |-> st, band |-> b] ELSE Lives(u)[x]]
  BY DEF Dispatches!Over
<1>2. [x \in DOMAIN Lives(u) |-> IF x = running THEN [state |-> st, band |-> b] ELSE Lives(u)[x]]
        = [x \in DOMAIN Lives(sched) |->
             IF x = running THEN [state |-> st, band |-> b] ELSE Lives(sched)[x]]
  BY DEF Lives, Apart
<1> QED
  BY <1>1, <1>2 DEF Dispatches!Over

LEMMA TurnIsHis ==
  ASSUME IInv, at = "exec"
  PROVE  Dispatches!HasTurn(running)
  BY ExecTidy, LivesIs DEF Dispatches!HasTurn

\* Who waits is parked as long as nobody is told and nobody starts to wait.
LEMMA ParkedSame ==
  ASSUME IInv, Kept, at = "exec", at' # "exec", waiters' = waiters,
         NEW u, Apart(u, sched', running), u.nextId >= sched.nextId,
         \A x \in DOMAIN sched.contexts \cap DOMAIN u.contexts : u.contexts[x] = sched.contexts[x],
         \A x \in DOMAIN u.contexts \ DOMAIN sched.contexts : u.contexts[x].state = "Ready"
  PROVE  Parked(sched', waiters') = {w \in Parked(sched, waiters) : w[1] \in DOMAIN u.contexts}
<1>1. running \in DOMAIN sched'.contexts => sched'.contexts[running].state # "Blocked"
  BY OverState
<1>2. sched.contexts[running].state # "Blocked"
  BY ExecTidy
<1>3. \A x : StateIs(sched', x, "Blocked") <=> StateIs(sched, x, "Blocked") /\ x \in DOMAIN u.contexts
  BY <1>1, <1>2 DEF Apart, StateIs, Known
<1> QED
  BY <1>3 DEF Parked

\* A turn that only its own context notices.
LEMMA PassIs ==
  ASSUME IInv, Kept, at = "exec", at' # "exec", waiters' = waiters,
         NEW u, Apart(sched, u, running), Apart(u, sched', running)
  PROVE  Dispatches!Pass(running)
<1>1. Apart(sched, sched', running)
  BY ApartThrough
<1>2. Dispatches!Over(running, Lives(sched))
  BY <1>1, OverIs
<1>3. Parked(sched', waiters') = {w \in Parked(sched, waiters) : w[1] \in DOMAIN sched.contexts}
  BY <1>1, ParkedSame, ExecTidy
<1>4. Parked(sched', waiters') = Parked(sched, waiters)
  BY <1>3 DEF Parked, StateIs, Known
<1>5. sched'.nextId = sched.nextId
  BY <1>1 DEF Apart
<1> QED
  BY <1>2, <1>4, <1>5, TurnIsHis DEF Dispatches!Pass
LEMMA PassTurn ==
  ASSUME IInv, Kept, at = "exec", at' # "exec", waiters' = waiters,
         NEW u, Apart(sched, u, running), Turn(u, TRUE) \/ Turn(u, FALSE) \/ Fail(u)
  PROVE  Dispatches!Pass(running)
<1>1. Apart(u, sched', running)
  BY TurnApart DEF Apart
<1> QED
  BY <1>1, PassIs

LEMMA CreateTable ==
  ASSUME NEW s, NEW r, Tidy(s, r), s.nextId \in Nat \ {0}, NEW p, NEW pc, NEW calls
  PROVE  LET u == CreateContext(s, p, pc, calls)
         IN  /\ Tidy(u, r) /\ u.nextId = s.nextId + 1
             /\ DOMAIN u.contexts = DOMAIN s.contexts \cup {s.nextId}
             /\ u.contexts[s.nextId].state = "Ready" /\ u.contexts[s.nextId].priority = p
             /\ \A x \in DOMAIN s.contexts \ {s.nextId} : u.contexts[x] = s.contexts[x]
<1> DEFINE n == s.nextId
           c == NewContext(p, pc, calls)
           t == [SetContext(s, n, c) EXCEPT !.nextId = n + 1]
           u == Enqueue(t, n)
<1>1. c.state = "Ready" /\ c.priority = p
  BY DEF NewContext
<1> HIDE DEF c
<1>2. /\ DOMAIN t = Fields /\ t.nextId = n + 1 /\ t.current = s.current
      /\ DOMAIN t.contexts = DOMAIN s.contexts \cup {n} /\ t.contexts[n] = c
      /\ \A x \in DOMAIN s.contexts \ {n} : t.contexts[x] = s.contexts[x]
  BY DEF SetContext, Tidy, Fields
<1> HIDE DEF t
<1>3. u.contexts = t.contexts /\ DOMAIN u = Fields /\ u.nextId = t.nextId /\ u.current = t.current
  BY <1>2 DEF Enqueue, PushBack, Fields
<1>4. CreateContext(s, p, pc, calls) = u
  BY DEF CreateContext, u, t, c
<1> HIDE DEF u
<1>5. Tidy(u, r)
  BY <1>2, <1>3 DEF Tidy, None
<1> QED
  BY <1>1, <1>2, <1>3, <1>4, <1>5

LEMMA RemoveTable ==
  ASSUME NEW s, NEW r, Tidy(s, r), NEW id
  PROVE  LET u == Remove(s, id)
         IN  /\ Tidy(u, r) /\ u.nextId = s.nextId
             /\ DOMAIN u.contexts = DOMAIN s.contexts \ {id}
             /\ \A x \in DOMAIN u.contexts : u.contexts[x] = s.contexts[x]
  BY DEF Remove, DequeueId, Restrict, Tidy, Fields

LEMMA StartIs ==
  ASSUME IInv, Kept, at = "exec", at' # "exec", waiters' = waiters,
         NEW p \in Priorities, NEW pc, NEW calls, NEW u, u = CreateContext(sched, p, pc, calls),
         Turn(u, TRUE) \/ Turn(u, FALSE) \/ Fail(u)
  PROVE  Dispatches!Start(running)
<1>1. /\ Tidy(u, running) /\ u.nextId = sched.nextId + 1
      /\ DOMAIN u.contexts = DOMAIN sched.contexts \cup {sched.nextId}
      /\ u.contexts[sched.nextId].state = "Ready" /\ u.contexts[sched.nextId].priority = p
      /\ \A x \in DOMAIN sched.contexts \ {sched.nextId} : u.contexts[x] = sched.contexts[x]
  <2>1. Tidy(sched, running) /\ sched.nextId \in Nat \ {0}
    BY ExecTidy, BoundedIs DEF SchedOK
  <2> QED
    BY <2>1, CreateTable
<1>2. sched.nextId \in Nat /\ sched.nextId \notin DOMAIN sched.contexts
  BY ExecTidy
<1>3. Apart(u, sched', running)
  BY <1>1, TurnApart
<1>4. Dispatches!Over(running, Lives(u))
  BY <1>3, OverIs
<1>5. Lives(u) = [x \in DOMAIN Lives(sched) \cup {sched.nextId} |->
                    IF x = sched.nextId THEN [state |-> "Ready", band |-> p] ELSE Lives(sched)[x]]
  BY <1>1 DEF Lives
<1>6. Parked(sched', waiters') = {w \in Parked(sched, waiters) : w[1] \in DOMAIN u.contexts}
  BY <1>1, <1>2, <1>3, ParkedSame
<1>7. Parked(sched', waiters') = Parked(sched, waiters)
  BY <1>1, <1>6 DEF Parked, StateIs, Known
<1>8. sched'.nextId = sched.nextId + 1
  BY <1>1, <1>3 DEF Apart
<1> QED
  BY <1>4, <1>5, <1>7, <1>8, TurnIsHis DEF Dispatches!Start

LEMMA StopIs ==
  ASSUME IInv, Kept, at = "exec", at' # "exec", waiters' = waiters,
         NEW target, NEW u, u = Remove(sched, target),
         Turn(u, TRUE) \/ Turn(u, FALSE) \/ Fail(u)
  PROVE  \/ Dispatches!Pass(running)
         \/ target \in DOMAIN Lives(sched) /\ Dispatches!Stop(running, target)
<1>1. /\ Tidy(u, running) /\ u.nextId = sched.nextId
      /\ DOMAIN u.contexts = DOMAIN sched.contexts \ {target}
      /\ \A x \in DOMAIN u.contexts : u.contexts[x] = sched.contexts[x]
  BY ExecTidy, RemoveTable
<1>2. Apart(u, sched', running)
  BY <1>1, TurnApart
<1>3. CASE target \notin DOMAIN sched.contexts
  <2>1. Apart(sched, u, running)
    BY <1>1, <1>3 DEF Apart
  <2> QED
    BY <1>2, <2>1, PassIs
<1>4. CASE target \in DOMAIN sched.contexts
  <2>1. Dispatches!Over(running, Lives(u))
    BY <1>2, OverIs
  <2>2. Lives(u) = [y \in DOMAIN Lives(sched) \ {target} |-> Lives(sched)[y]]
    BY <1>1 DEF Lives
  <2>3. Parked(sched', waiters') = {w \in Parked(sched, waiters) : w[1] \in DOMAIN u.contexts}
    BY <1>1, <1>2, ParkedSame, ExecTidy
  <2>4. Parked(sched', waiters') = {w \in Parked(sched, waiters) : w[1] # target}
    BY <1>1, <2>3 DEF Parked, StateIs, Known
  <2>5. sched'.nextId = sched.nextId
    BY <1>1, <1>2 DEF Apart
  <2>6. target \in DOMAIN Lives(sched)
    BY <1>4 DEF Lives
  <2> QED
    BY <2>1, <2>2, <2>4, <2>5, <2>6, TurnIsHis DEF Dispatches!Stop
<1> QED
  BY <1>3, <1>4

-----------------------------------------------------------------------------
(* Waiting and waking.                                                     *)

LEMMA AppendHas ==
  ASSUME NEW q \in Seq(Nat), NEW y \in Nat, NEW x
  PROVE  (\E i \in DOMAIN Append(q, y) : Append(q, y)[i] = x) <=> (\E i \in DOMAIN q : q[i] = x) \/ x = y
<1> DEFINE e == Append(q, y)
<1>1. /\ Len(q) \in Nat /\ DOMAIN q = 1 .. Len(q) /\ DOMAIN e = 1 .. Len(q) + 1
      /\ e[Len(q) + 1] = y /\ \A i \in DOMAIN q : e[i] = q[i]
  BY AppendIs
<1> HIDE DEF e
<1>2. (\E i \in DOMAIN e : e[i] = x) <=> (\E i \in DOMAIN q : q[i] = x) \/ x = y
  BY <1>1
<1> QED
  BY <1>2 DEF e

LEMMA ParkIs ==
  ASSUME IInv, Kept, at = "exec", NEW b \in BarrierIds, NEW state, Wait(b, state)
  PROVE  Dispatches!Park(running, b)
<1>1. /\ Slicing(sched, running, MaxDepth) /\ WaitersOK(sched, waiters)
      /\ running \in DOMAIN sched.contexts /\ sched.contexts[running].state = "Running"
      /\ running \in Ids
  BY ExecIs, SlicingIs, BoundedIs DEF IInv, Bounded
<1>2. PICK advance \in BOOLEAN :
        sched' = SliceEnds(SetState(sched, running, "Blocked"), running, advance)
  BY DEF Wait, Turn
<1>3. /\ sched'.nextId = sched.nextId /\ DOMAIN sched'.contexts = DOMAIN sched.contexts
      /\ sched'.contexts[running].state = "Blocked"
      /\ \A id \in DOMAIN sched.contexts \ {running} : sched'.contexts[id] = sched.contexts[id]
  BY <1>1, <1>2, BlockIs
<1>4. sched'.contexts[running].priority = sched.contexts[running].priority
  <2> DEFINE u == SetState(sched, running, "Blocked")
  <2>1. /\ u.contexts[running].priority = sched.contexts[running].priority
        /\ u.contexts[running].state = "Blocked" /\ u.current = sched.current
        /\ DOMAIN u = Fields
    <3>1. DOMAIN sched = Fields
      BY ExecTidy DEF Tidy
    <3>2. sched.contexts[running] \in Ctxs(MaxDepth)
      BY <1>1, SlicingIs
    <3>3. PICK c : c = [sched.contexts[running] EXCEPT !.state = "Blocked"]
      OBVIOUS
    <3>4. c.state = "Blocked" /\ c.priority = sched.contexts[running].priority
      BY <3>2, <3>3 DEF Ctxs
    <3>5. u = SetContext(sched, running, c)
      BY <1>1, <3>3 DEF SetState, Known
    <3>6. Marked(sched, u, running, c) /\ u.current = sched.current
      BY <3>1, <3>5, SetContextIs
    <3> QED
      BY <1>1, <3>4, <3>6 DEF Marked, Put
  <2>2. sched.current = running
    BY <1>1, SlicingIs
  <2> HIDE DEF u
  <2>3. ~ StateIs(u, running, "Running") /\ ~ StateIs(u, running, "Ready")
    BY <2>1 DEF StateIs
  <2>4. sched' = YieldCurrent(u)
    BY <1>2, <2>3 DEF SliceEnds, u
  <2>5. YieldCurrent(u).contexts = u.contexts
    BY <2>1, <2>2, <2>3 DEF YieldCurrent, StateIs, Known, Fields
  <2> QED
    BY <2>1, <2>4, <2>5
<1>5. Lives(sched') = [Lives(sched) EXCEPT ![running].state = "Blocked"]
  BY <1>1, <1>3, <1>4 DEF Lives
<1>6. waiters' = Arrives(waiters, b, running)
  BY DEF Wait, Arrives
<1>7. \A c \in BarrierIds : \A x : WaitsAt(waiters', c, x) <=> WaitsAt(waiters, c, x) \/ (x = running /\ c = b)
  <2>1. waiters \in [BarrierIds -> Seq(Nat)] /\ running \in Nat
    BY <1>1 DEF WaitersOK, Ids
  <2>2. \A c \in BarrierIds \ {b} : waiters'[c] = waiters[c]
    BY <1>6, <2>1 DEF Arrives
  <2>3. waiters'[b] = IF running \in Range(waiters[b]) THEN waiters[b] ELSE Append(waiters[b], running)
    BY <1>6, <2>1 DEF Arrives
  <2>4. PICK q \in Seq(Nat) : q = waiters[b]
    BY <2>1
  <2>5. \A x : (\E i \in DOMAIN Append(q, running) : Append(q, running)[i] = x)
                 <=> (\E i \in DOMAIN q : q[i] = x) \/ x = running
    BY <2>1, AppendHas
  <2>6. running \in Range(waiters[b]) <=> WaitsAt(waiters, b, running)
    BY DEF Range, WaitsAt
  <2>7. \A x : WaitsAt(waiters', b, x) <=> WaitsAt(waiters, b, x) \/ x = running
    BY <2>3, <2>4, <2>5, <2>6 DEF WaitsAt
  <2> QED
    BY <2>2, <2>7 DEF WaitsAt
<1>8. \A x, c : <<x, c>> \in Parked(sched', waiters') <=> <<x, c>> \in Parked(sched, waiters) \cup {<<running, b>>}
  <2>1. \A c \in BarrierIds : ~ WaitsAt(waiters, c, running)
    BY <1>1 DEF WaitersOK, WaitsAt, StateIs, Known
  <2>2. \A x : StateIs(sched', x, "Blocked") <=> StateIs(sched, x, "Blocked") \/ x = running
    BY <1>1, <1>3 DEF StateIs, Known
  <2>3. \A c : \A x : x \in Range(waiters[c]) <=> WaitsAt(waiters, c, x)
    BY DEF Range, WaitsAt
  <2>4. \A c : \A x : x \in Range(waiters'[c]) <=> WaitsAt(waiters', c, x)
    BY DEF Range, WaitsAt
  <2> QED
    BY <1>1, <1>7, <2>1, <2>2, <2>3, <2>4 DEF Parked
<1>9. Parked(sched', waiters') = Parked(sched, waiters) \cup {<<running, b>>}
  <2>1. \A w \in Parked(sched', waiters') \cup Parked(sched, waiters) \cup {<<running, b>>} : w = <<w[1], w[2]>>
    BY DEF Parked
  <2> QED
    BY <1>8, <2>1
<1> QED
  BY <1>3, <1>5, <1>9, TurnIsHis DEF Dispatches!Park
LEMMA FreeIs ==
  ASSUME IInv, Kept, at = "exec", at' # "exec", NEW b \in BarrierIds,
         waiters' = [waiters EXCEPT ![b] = <<>>],
         NEW u, u = BarrierWake(sched, b), Turn(u, TRUE) \/ Fail(u)
  PROVE  Dispatches!Free(running, b)
<1>1. Slicing(sched, running, MaxDepth) /\ WaitersOK(sched, waiters)
  BY ExecIs DEF IInv
<1>2. /\ SchedOK(u, MaxDepth) /\ Handing(u, running)
      /\ u.nextId = sched.nextId /\ DOMAIN u.contexts = DOMAIN sched.contexts
      /\ \A id \in DOMAIN sched.contexts :
           IF WaitsAt(waiters, b, id)
           THEN /\ u.contexts[id].state = "Ready" /\ sched.contexts[id].state = "Blocked"
                /\ u.contexts[id].priority = sched.contexts[id].priority
           ELSE u.contexts[id] = sched.contexts[id]
  BY <1>1, WakeIs
<1>3. Apart(u, sched', running)
  <2>1. Tidy(u, running)
    BY <1>2 DEF Tidy, SchedOK, Handing, None
  <2> QED
    BY <2>1, TurnApart
<1>4. waiters \in [BarrierIds -> Seq(Nat)]
  BY <1>1 DEF WaitersOK
<1>5. waiters'[b] = <<>> /\ \A c \in BarrierIds \ {b} : waiters'[c] = waiters[c]
  BY <1>4
<1>6. Dispatches!Over(running, Lives(u))
  BY <1>3, <1>5, OverIs
<1>7. \A x \in DOMAIN sched.contexts : <<x, b>> \in Parked(sched, waiters) <=> WaitsAt(waiters, b, x)
  <2>1. \A x \in DOMAIN sched.contexts : WaitsAt(waiters, b, x) => StateIs(sched, x, "Blocked")
    BY <1>1 DEF WaitersOK, WaitsAt, Known
  <2>2. \A x : x \in Range(waiters[b]) <=> WaitsAt(waiters, b, x)
    BY DEF Range, WaitsAt
  <2>3. DOMAIN sched.contexts \subseteq Ids
    BY BoundedIs DEF Bounded
  <2> QED
    BY <2>1, <2>2, <2>3 DEF Parked
<1>8. Lives(u) = [x \in DOMAIN Lives(sched) |->
                    IF <<x, b>> \in Parked(sched, waiters)
                    THEN [Lives(sched)[x] EXCEPT !.state = "Ready"] ELSE Lives(sched)[x]]
  <2>1. DOMAIN Lives(u) = DOMAIN Lives(sched) /\ DOMAIN Lives(sched) = DOMAIN sched.contexts
    BY <1>2 DEF Lives
  <2>2. ASSUME NEW x \in DOMAIN sched.contexts
        PROVE  Lives(u)[x] = IF <<x, b>> \in Parked(sched, waiters)
                             THEN [Lives(sched)[x] EXCEPT !.state = "Ready"] ELSE Lives(sched)[x]
    <3>1. CASE WaitsAt(waiters, b, x)
      <4>1. /\ u.contexts[x].state = "Ready" /\ u.contexts[x].priority = sched.contexts[x].priority
            /\ <<x, b>> \in Parked(sched, waiters)
        BY <1>2, <1>7, <2>2, <3>1
      <4> QED
        BY <1>2, <2>2, <4>1 DEF Lives
    <3>2. CASE ~ WaitsAt(waiters, b, x)
      <4>1. u.contexts[x] = sched.contexts[x] /\ <<x, b>> \notin Parked(sched, waiters)
        BY <1>2, <1>7, <2>2, <3>2
      <4> QED
        BY <1>2, <2>2, <4>1 DEF Lives
    <3> QED
      BY <3>1, <3>2
  <2>3. Lives(u) = [x \in DOMAIN Lives(u) |-> Lives(u)[x]]
    BY DEF Lives
  <2> QED
    BY <2>1, <2>2, <2>3
<1>9. \A x, c : <<x, c>> \in Parked(sched', waiters') <=> <<x, c>> \in Parked(sched, waiters) /\ c # b
  <2>1. running \in DOMAIN sched'.contexts => sched'.contexts[running].state # "Blocked"
    BY <1>5, OverState
  <2>2. sched.contexts[running].state = "Running" /\ running \in DOMAIN sched.contexts
    BY ExecTidy
  <2>3. \A x : StateIs(sched', x, "Blocked") <=> StateIs(sched, x, "Blocked") /\ ~ WaitsAt(waiters, b, x)
    <3>1. ~ WaitsAt(waiters, b, running)
      BY <1>2, <2>2
    <3>2. /\ DOMAIN sched'.contexts = DOMAIN sched.contexts
          /\ \A x \in DOMAIN sched.contexts \ {running} : sched'.contexts[x] = u.contexts[x]
      BY <1>2, <1>3 DEF Apart
    <3> QED
      BY <1>2, <2>1, <2>2, <3>1, <3>2 DEF StateIs, Known
  <2>4. \A c \in BarrierIds \ {b} : \A x : ~ (WaitsAt(waiters, c, x) /\ WaitsAt(waiters, b, x))
    BY <1>1 DEF WaitersOK, WaitsAt
  <2>5. /\ \A c \in BarrierIds : \A x : x \in Range(waiters[c]) <=> WaitsAt(waiters, c, x)
        /\ \A c \in BarrierIds \ {b} : \A x : x \in Range(waiters'[c]) <=> WaitsAt(waiters, c, x)
        /\ \A x : x \notin Range(waiters'[b])
    BY <1>5 DEF Range, WaitsAt
  <2> QED
    BY <2>3, <2>4, <2>5 DEF Parked
<1>10. Parked(sched', waiters') = {w \in Parked(sched, waiters) : w[2] # b}
  <2>1. \A w \in Parked(sched', waiters') \cup Parked(sched, waiters) : w = <<w[1], w[2]>>
    BY DEF Parked
  <2>2. ASSUME NEW w
        PROVE  w \in Parked(sched', waiters') <=> w \in Parked(sched, waiters) /\ w[2] # b
    <3>1. CASE w = <<w[1], w[2]>>
      <4>1. PICK x, c : w = <<x, c>>
        BY <3>1
      <4> QED
        BY <1>9, <4>1
    <3>2. CASE w # <<w[1], w[2]>>
      BY <2>1, <3>2
    <3> QED
      BY <3>1, <3>2
  <2> QED
    BY <2>2
<1>11. sched'.nextId = sched.nextId
  BY <1>2, <1>3 DEF Apart
<1> QED
  BY <1>6, <1>8, <1>10, <1>11, TurnIsHis DEF Dispatches!Free

LEMMA DispatchIs ==
  ASSUME IInv, Pick
  PROVE  /\ running' \in DOMAIN Lives(sched) /\ Dispatches!Dispatch(running')
<1> DEFINE id == Picked(sched)
           c  == [sched.contexts[id] EXCEPT !.state = "Running"]
<1>1. /\ at = "pick" /\ HasPick(sched) /\ sched' = PickNext(sched) /\ running' = id
      /\ waiters' = waiters
  BY DEF Pick
<1>2. /\ SchedOK(sched, MaxDepth) /\ Exact(sched) /\ Calm(sched) /\ Bounded(sched)
  BY <1>1, BoundedIs DEF IInv, LoopOK
<1>3. /\ Served(sched, sched', id) /\ id \in DOMAIN sched.contexts /\ sched.contexts[id].state = "Ready"
      /\ sched'.nextId = sched.nextId /\ sched'.contexts = Put(sched.contexts, id, c)
  BY <1>1, <1>2, PickNextIs
<1>4. \A x \in DOMAIN sched'.contexts : sched'.contexts[x].state = "Ready" =>
        Rank[sched'.contexts[x].priority] <= Rank[sched'.contexts[id].priority]
  BY <1>1, <1>2, PickOK
<1>5. sched.contexts[id] \in Ctxs(MaxDepth)
  BY <1>2, <1>3 DEF SchedOK
<1>6. c.state = "Running" /\ c.priority = sched.contexts[id].priority
  BY <1>5 DEF Ctxs
<1> HIDE DEF id, c
<1>7. /\ DOMAIN sched'.contexts = DOMAIN sched.contexts /\ sched'.contexts[id] = c
      /\ \A x \in DOMAIN sched.contexts \ {id} : sched'.contexts[x] = sched.contexts[x]
  BY <1>3 DEF Put
<1>8. \A y \in DOMAIN Lives(sched) : ~ Dispatches!HasTurn(y)
  BY <1>2, LivesIs DEF Calm, Dispatches!HasTurn
<1>9. id \in Dispatches!Ready(Lives(sched))
  BY <1>3, LivesIs
<1>10. \A y \in Dispatches!Ready(Lives(sched)) : Rank[Lives(sched)[y].band] <= Rank[Lives(sched)[id].band]
  <2>1. ASSUME NEW y, y \in DOMAIN sched.contexts, sched.contexts[y].state = "Ready"
        PROVE  Rank[sched.contexts[y].priority] <= Rank[sched.contexts[id].priority]
    <3>1. CASE y = id
      <4>1. sched.contexts[id].priority \in Priorities
        BY <1>5 DEF Ctxs
      <4> QED
        BY <3>1, <4>1 DEF Rank, Priorities
    <3>2. CASE y # id
      BY <1>4, <1>6, <1>7, <2>1, <3>2
    <3> QED
      BY <3>1, <3>2
  <2>2. ASSUME NEW y \in Dispatches!Ready(Lives(sched))
        PROVE  Rank[Lives(sched)[y].band] <= Rank[Lives(sched)[id].band]
    <3>1. y \in DOMAIN sched.contexts /\ sched.contexts[y].state = "Ready"
      BY LivesIs
    <3>2. /\ Lives(sched)[y].band = sched.contexts[y].priority
          /\ Lives(sched)[id].band = sched.contexts[id].priority
      BY <1>3, <3>1, LivesIs
    <3> QED
      BY <2>1, <3>1, <3>2
  <2> QED
    BY <2>2
<1>11. \A y \in Dispatches!Ready(Lives(sched)) : <<y, id>> \notin Ahead(sched)
  <2>1. PICK p \in Priorities : sched.queue[p] # <<>> /\ id = sched.queue[p][1]
    BY <1>3 DEF Served
  <2>2. sched.queue[p] \in Seq(Nat)
    BY <1>2, <2>1 DEF SchedOK
  <2>3. 1 \in DOMAIN sched.queue[p]
    BY <2>1, <2>2, RestIs
  <2>4. \A r \in Priorities : \A i \in DOMAIN sched.queue[r] : sched.queue[r][i] = id => r = p /\ i = 1
    BY <1>2, <2>1, <2>3 DEF Exact
  <2>5. \A i \in DOMAIN sched.queue[p] : i \in Nat /\ i >= 1
    BY <2>2
  <2>6. \A y : \A r \in Priorities : ~ InOrder(sched, r, y, id)
    BY <2>4, <2>5 DEF InOrder
  <2> QED
    BY <1>2, <2>6, AheadIs
<1>12. Lives(sched') = [Lives(sched) EXCEPT ![id].state = "Running"]
  BY <1>3, <1>6, <1>7 DEF Lives
<1>13. Parked(sched', waiters') = Parked(sched, waiters)
  <2>1. \A x : StateIs(sched', x, "Blocked") <=> StateIs(sched, x, "Blocked")
    BY <1>3, <1>6, <1>7 DEF StateIs, Known
  <2> QED
    BY <1>1, <2>1 DEF Parked
<1>14. id \in DOMAIN Lives(sched)
  BY <1>3 DEF Lives
<1> QED
  BY <1>1, <1>3, <1>8, <1>9, <1>10, <1>11, <1>12, <1>13, <1>14 DEF Dispatches!Dispatch, id
-----------------------------------------------------------------------------
(* Every step of the loop is a step of the dispatcher or none.             *)

Turns ==
  \E r \in DOMAIN Lives(sched) :
    \/ Dispatches!Dispatch(r) \/ Dispatches!Pass(r) \/ Dispatches!Start(r)
    \/ \E x \in DOMAIN Lives(sched) : Dispatches!Stop(r, x)
    \/ \E g \in BarrierIds : Dispatches!Park(r, g) \/ Dispatches!Free(r, g)

LEMMA SelfLives ==
  ASSUME IInv, at = "exec"
  PROVE  running \in DOMAIN Lives(sched)
  BY ExecTidy, LivesIs

\* The handlers that leave the scheduler as it was, and those that change
\* their own context.
LEMMA OwnTurns ==
  ASSUME IInv, Kept,
         \/ FetchFails \/ Halt \/ Nop \/ Wide \/ Other \/ Jump \/ JumpIf \/ Call \/ Ret
         \/ Yield \/ SetPriority \/ Lock \/ Unlock \/ BarrierRefused
  PROVE  Turns
<1>1. at = "exec" /\ at' # "exec" /\ waiters' = waiters
  BY DEF FetchFails, Halt, Nop, Wide, Other, Jump, JumpIf, Call, Ret, Yield, SetPriority,
         Lock, Unlock, BarrierRefused, Fetched, NextTurn, Rest
<1>2. Tidy(sched, running) /\ running \in DOMAIN sched.contexts /\ Apart(sched, sched, running)
  BY <1>1, ExecTidy
<1>3. CASE Turn(sched, TRUE) \/ Turn(sched, FALSE) \/ Fail(sched)
  BY <1>1, <1>2, <1>3, PassTurn, SelfLives DEF Turns
<1>4. CASE FetchFails \/ Halt
  <2>1. Apart(sched, sched', running)
    BY <1>2, <1>4, StateApart DEF FetchFails, Halt
  <2> QED
    BY <1>1, <1>2, <2>1, PassIs, SelfLives DEF Turns
<1>5. CASE Nop
  <2>1. StateIs(sched, running, "Running")
    BY <1>1, ExecTidy DEF StateIs, Known
  <2> QED
    BY <1>3, <1>5, <2>1, SlicePassesIs DEF Nop, Turn
<1>6. CASE Wide \/ Other \/ Lock \/ Unlock \/ BarrierRefused
  BY <1>3, <1>6 DEF Wide, Other, Lock, Unlock, BarrierRefused
<1>7. CASE Jump \/ JumpIf
  <2>1. Apart(sched, Moved(sched, running, Instr.target), running)
    BY <1>2, StateApart
  <2> QED
    BY <1>1, <1>3, <1>7, <2>1, PassTurn, SelfLives DEF Jump, JumpIf, JumpTo, Turns
<1>8. ASSUME NEW c, Turn(SetContext(sched, running, c), FALSE)
      PROVE  Turns
  <2>1. Apart(sched, SetContext(sched, running, c), running)
    BY <1>2, SetApart
  <2> QED
    BY <1>1, <1>8, <2>1, PassTurn, SelfLives DEF Turns
<1>9. CASE Call \/ Ret
  BY <1>3, <1>8, <1>9 DEF Call, Ret
<1>10. ASSUME NEW u, Apart(sched, u, running), Turn(MaybePreempt(u), TRUE)
       PROVE  Turns
  <2>1. Apart(u, MaybePreempt(u), running)
    BY <1>10, YieldApart DEF Apart
  <2>2. Apart(sched, MaybePreempt(u), running)
    BY <1>10, <2>1, ApartThrough
  <2> QED
    BY <1>1, <1>10, <2>2, PassTurn, SelfLives DEF Turns
<1>11. CASE Yield
  BY <1>2, <1>10, <1>11 DEF Yield
<1>12. CASE SetPriority
  <2>1. Apart(sched, SetContext(sched, running, [Self EXCEPT !.priority = Instr.prio]), running)
    BY <1>2, SetApart
  <2> QED
    BY <1>3, <1>10, <1>12, <2>1 DEF SetPriority
<1> QED
  BY <1>4, <1>5, <1>6, <1>7, <1>9, <1>11, <1>12

\* The handlers that create and remove contexts.
LEMMA ComeAndGo ==
  ASSUME IInv, Kept, Fork \/ Spawn \/ Kill \/ Abort
  PROVE  Turns
<1>1. at = "exec" /\ at' # "exec" /\ waiters' = waiters
  BY DEF Fork, Spawn, Kill, Abort, Fetched, NextTurn, Rest
<1>2. CASE Turn(sched, TRUE) \/ Fail(sched)
  <2>1. Apart(sched, sched, running)
    BY <1>1, ExecTidy
  <2> QED
    BY <1>1, <1>2, <2>1, PassTurn, SelfLives DEF Turns
<1>3. ASSUME NEW p \in Priorities, NEW pc, NEW calls, NEW bad,
             Answer(CreateContext(sched, p, pc, calls), bad)
      PROVE  Turns
  <2>1. PICK u : u = CreateContext(sched, p, pc, calls)
    OBVIOUS
  <2>2. Turn(u, TRUE) \/ Fail(u)
    BY <1>3, <2>1 DEF Answer
  <2> QED
    BY <1>1, <2>1, <2>2, StartIs, SelfLives DEF Turns
<1>4. ASSUME NEW target,
             Turn(Remove(sched, target), TRUE) \/ Fail(Remove(sched, target))
      PROVE  Turns
  <2>1. PICK u : u = Remove(sched, target)
    OBVIOUS
  <2>2. Turn(u, TRUE) \/ Fail(u)
    BY <1>4, <2>1
  <2>3. \/ Dispatches!Pass(running)
        \/ target \in DOMAIN Lives(sched) /\ Dispatches!Stop(running, target)
    BY <1>1, <2>1, <2>2, StopIs
  <2> QED
    BY <1>1, <2>3, SelfLives DEF Turns
<1>5. CASE Fork \/ Spawn
  <2>1. Instr.prio \in Priorities
    BY <1>1, <1>5, ExecIs DEF Fork, Spawn, Fetched, IsInstruction
  <2> QED
    BY <1>2, <1>3, <1>5, <2>1 DEF Fork, Spawn
<1>6. CASE Kill \/ Abort
  <2>1. \/ Fail(sched) \/ Turn(sched, TRUE)
        \/ \E target : Turn(Remove(sched, target), TRUE) \/ Fail(Remove(sched, target))
    BY <1>6 DEF Kill, Abort, Answer
  <2> QED
    BY <1>2, <1>4, <2>1
<1> QED
  BY <1>5, <1>6

LEMMA BarrierTurns ==
  ASSUME IInv, Kept, BarrierCreate \/ BarrierJoin \/ BarrierTimeout \/ BarrierRelease
  PROVE  Turns
<1>1. /\ at = "exec" /\ at' # "exec" /\ Instr.id \in BarrierIds
  <2>1. at = "exec" /\ at' # "exec" /\ Self.pc \in DOMAIN program /\ Instr.op = "BARRIER"
    BY DEF BarrierCreate, BarrierJoin, BarrierTimeout, BarrierRelease, Joins, Fetched, NextTurn
  <2> QED
    BY <2>1, ExecIs DEF IsInstruction
<1>2. CASE BarrierCreate \/ BarrierJoin
  <2>1. CASE Turn(sched, TRUE) /\ waiters' = waiters
    <3>1. Apart(sched, sched, running)
      BY <1>1, ExecTidy
    <3> QED
      BY <1>1, <2>1, <3>1, PassTurn, SelfLives DEF Turns
  <2>2. ASSUME NEW state, Wait(Instr.id, state)
        PROVE  Turns
    BY <1>1, <2>2, ParkIs, SelfLives DEF Turns
  <2> QED
    BY <1>2, <2>1, <2>2 DEF BarrierCreate, BarrierJoin
<1>3. CASE BarrierTimeout \/ BarrierRelease
  <2>1. PICK b \in BarrierIds : b = Instr.id
    BY <1>1
  <2>2. PICK u : u = BarrierWake(sched, b)
    OBVIOUS
  <2>3. waiters' = [waiters EXCEPT ![b] = <<>>] /\ (Turn(u, TRUE) \/ Fail(u))
    BY <1>3, <2>1, <2>2 DEF BarrierTimeout, BarrierRelease, Open
  <2>4. Dispatches!Free(running, b)
    BY <1>1, <2>2, <2>3, FreeIs
  <2> QED
    BY <1>1, <2>4, SelfLives DEF Turns
<1> QED
  BY <1>2, <1>3

LEMMA StepDispatches ==
  ASSUME IInv, [RunNext]_runVars
  PROVE  [Dispatches!Next]_(Dispatches!vars)
<1>1. CASE Idle \/ StepLimit \/ UNCHANGED runVars
  <2>1. /\ sched'.contexts = sched.contexts /\ sched'.queue = sched.queue
        /\ sched'.nextId = sched.nextId /\ waiters' = waiters
    <3>1. CASE Idle
      <4>1. PickNothing(sched).queue = sched.queue
        BY <3>1, BoundedIs, NobodyReady DEF Idle
      <4>2. /\ PickNothing(sched).contexts = sched.contexts
            /\ PickNothing(sched).nextId = sched.nextId
        BY BoundedIs DEF PickNothing, SchedOK, Fields
      <4> QED
        BY <3>1, <4>1, <4>2 DEF Idle
    <3>2. CASE StepLimit \/ UNCHANGED runVars
      BY <3>2 DEF StepLimit, runVars
    <3> QED
      BY <1>1, <3>1, <3>2
  <2> QED
    BY <2>1 DEF Dispatches!vars, Lives, Ahead, Parked, StateIs, Known
<1>2. CASE RunNext /\ ~ Idle /\ ~ StepLimit
  <2>1. Kept
    BY <1>2, NextKeeps
  <2>2. Turns
    <3>1. CASE Pick
      BY <3>1, DispatchIs DEF Turns
    <3>2. CASE ~ Pick
      BY <1>2, <2>1, <3>2, OwnTurns, ComeAndGo, BarrierTurns DEF RunNext
    <3> QED
      BY <3>1, <3>2
  <2>3. Dispatches!IsLine(Lives(sched'), Ahead(sched')) /\ Dispatches!NobodyOvertakes
    BY <2>1, LineKept
  <2> QED
    BY <2>2, <2>3 DEF Turns, Dispatches!Next
<1> QED
  BY <1>1, <1>2

LEMMA InitDispatches ==
  ASSUME RunInit
  PROVE  Dispatches!Init
<1> DEFINE s == NewScheduler
           t == CreateContext(s, "Green", 1, <<>>)
<1>1. /\ s.nextId = 1 /\ DOMAIN s.contexts = {} /\ Tidy(s, None)
      /\ \A p \in Priorities : s.queue[p] = <<>>
  BY DEF NewScheduler, Tidy, Fields, None
<1> HIDE DEF s
<1>2. /\ t.nextId = 2 /\ DOMAIN t.contexts = {1}
      /\ t.contexts[1].state = "Ready" /\ t.contexts[1].priority = "Green"
  BY <1>1, CreateTable
<1>3. sched = t
  BY DEF RunInit, t, s
<1> HIDE DEF t
<1>4. Lives(sched) = [x \in {1} |-> [state |-> "Ready", band |-> "Green"]] /\ "Green" \in Priorities
  BY <1>2, <1>3 DEF Lives, Priorities
<1>5. Ahead(sched) = {}
  <2>1. Exact(sched) /\ Bounded(sched) /\ SchedOK(sched, MaxDepth)
    BY InitOK, BoundedIs
  <2>2. ASSUME NEW w \in Ahead(sched)
        PROVE  FALSE
    <3>1. PICK p \in Priorities : InOrder(sched, p, w[1], w[2])
      BY <2>2 DEF Ahead, InOrder
    <3>2. w[1] = 1 /\ w[2] = 1
      BY <1>2, <1>3, <2>1, <3>1, StandsIn DEF SchedOK
    <3> QED
      BY <2>1, <3>1, <3>2, StandsIn DEF SchedOK
  <2> QED
    BY <2>2
<1>6. Parked(sched, waiters) = {}
  BY <1>2, <1>3 DEF Parked, StateIs, Known
<1> QED
  BY <1>2, <1>3, <1>4, <1>5, <1>6 DEF Dispatches!Init

\* The queues, the waiting lists and the handlers between them are a
\* dispatcher of strict priority: whatever the programs do, a turn goes to the
\* context that has waited longest in the highest band, and a barrier frees
\* all its waiters or none.
THEOREM LoopImplementsDispatcher == RunSpec => ImplementsDispatcher
<1>1. RunInit => Dispatches!Init
  BY InitDispatches
<1>2. IInv /\ [RunNext]_runVars => [Dispatches!Next]_(Dispatches!vars)
  BY StepDispatches
<1> QED
  BY <1>1, <1>2, Invariant, PTL DEF RunSpec, ImplementsDispatcher, Dispatches!Spec
=============================================================================
