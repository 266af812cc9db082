--------------------------- MODULE Reactor_proofs ---------------------------
(***************************************************************************)
(* What is proved of the reactor, for every set of programs, every         *)
(* capacity of the bus and every bound: its invariants, and that late      *)
(* signals wake nobody.                                                    *)
(*                                                                         *)
(* The queues are not exact here, as they are in the run loop: a signal    *)
(* executes a context where it stands, so that an ended context may still  *)
(* be queued, and a context may stand in the queue of a priority that it   *)
(* no longer has.  The lemmas of Scheduler_proofs about exact queues do    *)
(* not apply; those about sequences and single operators do.               *)
(***************************************************************************)
EXTENDS Reactor, Scheduler_proofs, Numbers

-----------------------------------------------------------------------------
(* States of the scheduler.                                                *)

\* No id stands in two places, whatever the queues.
NoDoubles(q) ==
  \A p, r \in Priorities : \A i \in DOMAIN q[p], j \in DOMAIN q[r] :
    q[p][i] = q[r][j] => p = r /\ i = j

\* Who is queued is Ready or has ended; who is Ready is queued, somewhere.
Placed(s) ==
  /\ NoDoubles(s.queue)
  /\ \A p \in Priorities : \A i \in DOMAIN s.queue[p] :
       /\ s.queue[p][i] \in DOMAIN s.contexts
       /\ s.contexts[s.queue[p][i]].state \in {"Ready", "Terminated"}
  /\ \A id \in DOMAIN s.contexts :
       s.contexts[id].state = "Ready" => \E p \in Priorities : InQueue(s, p, id)

\* A current context is executed or has ended (what FETCH_FAILS and HALT leave).
Sound(s) ==
  /\ SchedOK(s, 0) /\ Placed(s)
  /\ \A id \in DOMAIN s.contexts : s.contexts[id].state # "Blocked"
  /\ s.current \in DOMAIN s.contexts => s.contexts[s.current].state \in {"Running", "Terminated"}

\* Nobody but r is Running, and r only as the current context.
OnlyRuns(s, r) ==
  \A id \in DOMAIN s.contexts : s.contexts[id].state = "Running" => id = r /\ s.current = r

\* The end of a slice leaves the other contexts of u alone.
Rests(u, t, r) ==
  /\ Sound(t) /\ Calm(t)
  /\ t.nextId = u.nextId /\ DOMAIN t.contexts = DOMAIN u.contexts
  /\ \A id \in DOMAIN u.contexts \ {r} : t.contexts[id] = u.contexts[id]

-----------------------------------------------------------------------------
(* The queues.                                                             *)

LEMMA QueuesFit ==
  ASSUME NEW s, SchedOK(s, 0), NEW p \in Priorities
  PROVE  s.queue[p] \in Seq(Nat) /\ Len(s.queue[p]) \in Nat /\ DOMAIN s.queue[p] = 1 .. Len(s.queue[p])
<1>1. s.queue[p] \in Seq(Nat)
  BY DEF SchedOK
<1> QED
  BY <1>1

\* Somebody who was in no queue is Ready and queued last.
LEMMA PlacedAppend ==
  ASSUME NEW s, NEW t, NEW id \in Nat, NEW c, c.priority \in Priorities, c.state = "Ready",
         Placed(s), s.queue \in [Priorities -> Seq(Nat)],
         \A p \in Priorities : ~ InQueue(s, p, id),
         Queued(s, t, id, c)
  PROVE  Placed(t) /\ t.queue \in [Priorities -> Seq(Nat)]
<1>0. PICK p \in Priorities :
        /\ c.priority = p
        /\ t.contexts = Put(s.contexts, id, c)
        /\ t.queue = [s.queue EXCEPT ![p] = Append(@, id)]
  BY DEF Queued
<1>1. s.queue[p] \in Seq(Nat) /\ t.queue[p] = Append(s.queue[p], id)
  BY <1>0
<1>2. /\ t.queue[p] \in Seq(Nat)
      /\ Len(s.queue[p]) \in Nat /\ DOMAIN s.queue[p] = 1 .. Len(s.queue[p])
      /\ DOMAIN t.queue[p] = 1 .. Len(s.queue[p]) + 1
      /\ t.queue[p][Len(s.queue[p]) + 1] = id
      /\ \A i \in DOMAIN s.queue[p] : t.queue[p][i] = s.queue[p][i]
  BY <1>1, AppendIs
<1>3. \A r \in Priorities \ {p} : t.queue[r] = s.queue[r]
  BY <1>0
<1>4. t.queue \in [Priorities -> Seq(Nat)]
  BY <1>0, <1>2
\* A place of t is one of s, or the new one.
<1>5. ASSUME NEW r \in Priorities, NEW i \in DOMAIN t.queue[r]
      PROVE  \/ i \in DOMAIN s.queue[r] /\ t.queue[r][i] = s.queue[r][i] /\ t.queue[r][i] # id
             \/ r = p /\ i = Len(s.queue[p]) + 1 /\ t.queue[r][i] = id
  <2>1. CASE r # p
    BY <1>3, <2>1 DEF InQueue
  <2>2. CASE r = p
    <3>1. i \in DOMAIN s.queue[p] \/ i = Len(s.queue[p]) + 1
      BY <1>2, <2>2, SMTT(30)
    <3> QED
      BY <1>2, <2>2, <3>1 DEF InQueue
  <2> QED
    BY <2>1, <2>2
<1>6. NoDoubles(t.queue)
  <2> SUFFICES ASSUME NEW r \in Priorities, NEW q \in Priorities,
                      NEW i \in DOMAIN t.queue[r], NEW j \in DOMAIN t.queue[q],
                      t.queue[r][i] = t.queue[q][j]
               PROVE  r = q /\ i = j
    BY DEF NoDoubles
  <2>1. CASE t.queue[r][i] = id
    BY <1>5, <2>1
  <2>2. CASE t.queue[r][i] # id
    <3>1. i \in DOMAIN s.queue[r] /\ j \in DOMAIN s.queue[q] /\ s.queue[r][i] = s.queue[q][j]
      BY <1>5, <2>2
    <3> QED
      BY <3>1 DEF Placed, NoDoubles
  <2> QED
    BY <2>1, <2>2
<1>7. \A x \in DOMAIN s.contexts \ {id} : x \in DOMAIN t.contexts /\ t.contexts[x] = s.contexts[x]
  BY <1>0 DEF Put
<1>8. id \in DOMAIN t.contexts /\ t.contexts[id] = c /\ DOMAIN t.contexts = DOMAIN s.contexts \cup {id}
  BY <1>0 DEF Put
<1>9. ASSUME NEW r \in Priorities, NEW i \in DOMAIN t.queue[r]
      PROVE  /\ t.queue[r][i] \in DOMAIN t.contexts
             /\ t.contexts[t.queue[r][i]].state \in {"Ready", "Terminated"}
  BY <1>5, <1>7, <1>8, SMTT(30) DEF Placed
<1>10. ASSUME NEW x \in DOMAIN t.contexts, t.contexts[x].state = "Ready"
       PROVE  \E r \in Priorities : InQueue(t, r, x)
  <2>1. CASE x = id
    <3>1. Len(s.queue[p]) + 1 \in DOMAIN t.queue[p]
      BY <1>2
    <3> QED
      BY <1>2, <2>1, <3>1 DEF InQueue
  <2>2. CASE x # id
    <3>1. PICK r \in Priorities : InQueue(s, r, x)
      BY <1>7, <1>8, <1>10, <2>2 DEF Placed
    <3>2. PICK i \in DOMAIN s.queue[r] : s.queue[r][i] = x
      BY <3>1 DEF InQueue
    <3>3. i \in DOMAIN t.queue[r] /\ t.queue[r][i] = x
      <4>1. CASE r = p
        <5>1. i \in 1 .. Len(s.queue[p]) + 1
          BY <1>2, <3>2, <4>1, SMTT(30)
        <5> QED
          BY <1>2, <3>2, <4>1, <5>1
      <4>2. CASE r # p
        BY <1>3, <3>2, <4>2
      <4> QED
        BY <4>1, <4>2
    <3> QED
      BY <3>3 DEF InQueue
  <2> QED
    BY <2>1, <2>2
<1> QED
  BY <1>4, <1>6, <1>9, <1>10 DEF Placed

\* One context has changed, but is not newly Ready.
LEMMA PlacedPut ==
  ASSUME NEW s, NEW t, NEW id \in DOMAIN s.contexts, NEW c, Placed(s),
         t.contexts = Put(s.contexts, id, c), t.queue = s.queue,
         \/ c.state = s.contexts[id].state
         \/ c.state = "Terminated"
  PROVE  Placed(t)
<1>1. /\ DOMAIN t.contexts = DOMAIN s.contexts /\ t.contexts[id] = c
      /\ \A x \in DOMAIN s.contexts \ {id} : t.contexts[x] = s.contexts[x]
  BY DEF Put
<1>2. ASSUME NEW p \in Priorities, NEW i \in DOMAIN t.queue[p]
      PROVE  /\ t.queue[p][i] \in DOMAIN t.contexts
             /\ t.contexts[t.queue[p][i]].state \in {"Ready", "Terminated"}
  BY <1>1 DEF Placed
<1>3. ASSUME NEW x \in DOMAIN t.contexts, t.contexts[x].state = "Ready"
      PROVE  \E p \in Priorities : InQueue(t, p, x)
  BY <1>1, <1>3 DEF Placed, InQueue
<1> QED
  BY <1>2, <1>3 DEF Placed

LEMMA SchedPut ==
  ASSUME NEW s, NEW t, NEW id \in DOMAIN s.contexts, NEW c \in Ctxs(0), SchedOK(s, 0),
         DOMAIN t = Fields, t.contexts = Put(s.contexts, id, c), t.queue = s.queue,
         t.nextId = s.nextId, t.current \in {None, s.current}
  PROVE  SchedOK(t, 0)
<1>1. DOMAIN t.contexts = DOMAIN s.contexts
  BY DEF Put
<1>2. t.contexts \in [DOMAIN t.contexts -> Ctxs(0)]
  BY <1>1 DEF SchedOK, Put
<1>3. t.current \in 0 .. t.nextId - 1
  BY DEF SchedOK, None
<1> QED
  BY <1>1, <1>2, <1>3 DEF SchedOK

-----------------------------------------------------------------------------
(* The end of a slice.                                                     *)

LEMMA RequeueRests ==
  ASSUME NEW u, Sound(u), NEW r, OnlyRuns(u, r), StateIs(u, r, "Running"),
         NEW c \in Ctxs(0), c.state = "Ready", NEW t, Requeued(u, t, r, c)
  PROVE  Rests(u, t, r) /\ t.contexts[r] = c /\ t.current = None
<1>1. r \in DOMAIN u.contexts /\ u.contexts[r].state = "Running" /\ r \in Nat
  BY DEF StateIs, Known, Sound, SchedOK
<1>2. /\ DOMAIN t = Fields /\ Queued(u, t, r, c) /\ t.nextId = u.nextId /\ t.current = None
      /\ t.contexts = Put(u.contexts, r, c)
  BY DEF Requeued, Queued
<1>3. c.priority \in Priorities
  BY DEF Ctxs
<1>4. \A p \in Priorities : ~ InQueue(u, p, r)
  BY <1>1 DEF Sound, Placed, InQueue
<1>5. Placed(t) /\ t.queue \in [Priorities -> Seq(Nat)]
  BY <1>1, <1>2, <1>3, <1>4, PlacedAppend DEF Sound, SchedOK
<1>6. /\ DOMAIN t.contexts = DOMAIN u.contexts /\ t.contexts[r] = c
      /\ \A id \in DOMAIN u.contexts \ {r} : t.contexts[id] = u.contexts[id]
  BY <1>1, <1>2 DEF Put
<1>7. SchedOK(t, 0)
  <2>1. t.contexts \in [DOMAIN t.contexts -> Ctxs(0)]
    BY <1>1, <1>2, <1>6 DEF Sound, SchedOK, Put
  <2>2. t.current \in 0 .. t.nextId - 1
    BY <1>2 DEF Sound, SchedOK, None
  <2> QED
    BY <1>2, <1>5, <1>6, <2>1, <2>2 DEF Sound, SchedOK
<1>8. Calm(t)
  BY <1>6 DEF Calm, OnlyRuns
<1>9. t.current \notin DOMAIN t.contexts
  BY <1>2, <1>6 DEF Sound, SchedOK, None
<1>10. \A id \in DOMAIN t.contexts : t.contexts[id].state # "Blocked"
  BY <1>6 DEF Sound
<1> QED
  BY <1>2, <1>5, <1>6, <1>7, <1>8, <1>9, <1>10 DEF Rests, Sound

LEMMA CloseRests ==
  ASSUME NEW u, Sound(u), NEW r, OnlyRuns(u, r), ~ StateIs(u, r, "Running"),
         NEW t, Closed(u, t)
  PROVE  Rests(u, t, r) /\ t.contexts = u.contexts /\ t.current = None
<1>1. /\ DOMAIN t = Fields /\ t.contexts = u.contexts /\ t.queue = u.queue
      /\ t.nextId = u.nextId /\ t.current = None
  BY DEF Closed
<1>2. SchedOK(t, 0)
  BY <1>1 DEF Sound, SchedOK, None
<1>3. Placed(t)
  BY <1>1 DEF Sound, Placed, InQueue
<1>4. Calm(t)
  BY <1>1 DEF Calm, OnlyRuns, StateIs, Known
<1>5. t.current \notin DOMAIN t.contexts
  BY <1>1 DEF Sound, SchedOK, None
<1> QED
  BY <1>1, <1>2, <1>3, <1>4, <1>5 DEF Rests, Sound

LEMMA YieldRests ==
  ASSUME NEW u, Sound(u), NEW r, OnlyRuns(u, r)
  PROVE  LET t == YieldCurrent(u)
         IN  /\ Rests(u, t, r) /\ t.current = None
             /\ StateIs(u, r, "Running") => t.contexts[r] = [u.contexts[r] EXCEPT !.state = "Ready"]
             /\ ~ StateIs(u, r, "Running") => t.contexts = u.contexts
<1> DEFINE t == YieldCurrent(u)
           id == u.current
<1>1. /\ StateIs(u, id, "Running") =>
           Requeued(u, t, id, [u.contexts[id] EXCEPT !.state = "Ready"])
      /\ ~ StateIs(u, id, "Running") /\ ~ StateIs(u, id, "Ready") => Closed(u, t)
  BY YieldIs DEF Sound
<1> HIDE DEF t
<1>2. CASE StateIs(u, r, "Running")
  <2>1. id = r
    BY <1>2 DEF OnlyRuns, StateIs, Known
  <2> DEFINE c == [u.contexts[r] EXCEPT !.state = "Ready"]
  <2>2. c \in Ctxs(0) /\ c.state = "Ready"
    BY <1>2 DEF Sound, SchedOK, StateIs, Known, Ctxs, States
  <2>3. Requeued(u, t, r, c)
    BY <1>1, <1>2, <2>1
  <2> HIDE DEF c
  <2>4. Rests(u, t, r) /\ t.contexts[r] = c /\ t.current = None
    BY <1>2, <2>2, <2>3, RequeueRests
  <2> QED
    BY <1>2, <2>4 DEF c, t
<1>3. CASE ~ StateIs(u, r, "Running")
  <2>1. ~ StateIs(u, id, "Running") /\ ~ StateIs(u, id, "Ready")
    BY <1>3 DEF Sound, OnlyRuns, StateIs, Known
  <2> QED
    BY <1>1, <1>3, <2>1, CloseRests DEF t
<1> QED
  BY <1>2, <1>3

LEMMA EndsRests ==
  ASSUME NEW u, Sound(u), NEW r, OnlyRuns(u, r), NEW advance \in BOOLEAN
  PROVE  LET t == SliceEnds(u, r, advance)
         IN  /\ Rests(u, t, r) /\ t.current = None
             /\ StateIs(u, r, "Running") => t.contexts[r].state = "Ready"
             /\ ~ StateIs(u, r, "Running") => t.contexts = u.contexts
<1> DEFINE t == SliceEnds(u, r, advance)
<1>1. CASE StateIs(u, r, "Running")
  <2>1. Handing(u, r)
    BY <1>1 DEF OnlyRuns, Handing, StateIs, Known
  <2>2. PICK pc \in Nat : Requeued(u, t, r, [u.contexts[r] EXCEPT !.state = "Ready", !.pc = pc])
    BY <1>1, <2>1, SliceEndsIs DEF Sound
  <2> HIDE DEF t
  <2> DEFINE c == [u.contexts[r] EXCEPT !.state = "Ready", !.pc = pc]
  <2>3. c \in Ctxs(0) /\ c.state = "Ready"
    BY <1>1 DEF Sound, SchedOK, StateIs, Known, Ctxs, States
  <2>4. Requeued(u, t, r, c)
    BY <2>2
  <2> HIDE DEF c
  <2>5. Rests(u, t, r) /\ t.contexts[r] = c /\ t.current = None
    BY <1>1, <2>3, <2>4, RequeueRests
  <2> QED
    BY <1>1, <2>3, <2>5 DEF t
<1>2. CASE ~ StateIs(u, r, "Running")
  <2>1. t = YieldCurrent(u)
    BY <1>2 DEF SliceEnds
  <2> HIDE DEF t
  <2>2. Rests(u, t, r) /\ t.current = None /\ t.contexts = u.contexts
    BY <1>2, <2>1, YieldRests
  <2> QED
    BY <1>2, <2>2 DEF t
<1> QED
  BY <1>1, <1>2

LEMMA FailsRests ==
  ASSUME NEW u, Sound(u), NEW r, OnlyRuns(u, r)
  PROVE  LET t == SliceFails(u, r)
         IN  /\ Rests(u, t, r) /\ t.current = None
             /\ r \in DOMAIN u.contexts =>
                  t.contexts[r] = [u.contexts[r] EXCEPT !.state = "Terminated"]
<1> DEFINE v == SetState(u, r, "Terminated")
           t == SliceFails(u, r)
<1>0. t = YieldCurrent(v)
  BY DEF SliceFails
<1>1. CASE r \in DOMAIN u.contexts
  <2> DEFINE c == [u.contexts[r] EXCEPT !.state = "Terminated"]
  <2>1. c \in Ctxs(0) /\ c.state = "Terminated"
    BY <1>1 DEF Sound, SchedOK, Ctxs, States
  <2>2. Marked(u, v, r, c) /\ v.current = u.current
    <3>1. v = SetContext(u, r, c)
      BY <1>1 DEF SetState, Known
    <3> QED
      BY <3>1, SetContextIs DEF Sound, SchedOK
  <2> HIDE DEF c, v, t
  <2>3. /\ DOMAIN v = Fields /\ v.contexts = Put(u.contexts, r, c) /\ v.queue = u.queue
        /\ v.nextId = u.nextId
    BY <2>2 DEF Marked
  <2>4. /\ DOMAIN v.contexts = DOMAIN u.contexts /\ v.contexts[r] = c
        /\ \A id \in DOMAIN u.contexts \ {r} : v.contexts[id] = u.contexts[id]
    BY <1>1, <2>3 DEF Put
  <2>5. SchedOK(v, 0)
    BY <1>1, <2>1, <2>2, <2>3, SchedPut DEF Sound
  <2>6. Placed(v)
    BY <1>1, <2>1, <2>3, PlacedPut DEF Sound
  <2>7. Sound(v)
    BY <2>1, <2>2, <2>4, <2>5, <2>6 DEF Sound
  <2>8. OnlyRuns(v, r) /\ ~ StateIs(v, r, "Running")
    BY <2>1, <2>2, <2>4 DEF OnlyRuns, StateIs
  <2>9. Rests(v, t, r) /\ t.current = None /\ t.contexts = v.contexts
    BY <1>0, <2>7, <2>8, YieldRests
  <2>10. Rests(u, t, r)
    BY <2>3, <2>4, <2>9 DEF Rests
  <2> QED
    BY <2>4, <2>9, <2>10 DEF c, t
<1>2. CASE r \notin DOMAIN u.contexts
  <2>1. v = u
    BY <1>2 DEF SetState, Known
  <2> HIDE DEF t, v
  <2>2. Rests(u, t, r) /\ t.current = None
    BY <1>0, <2>1, YieldRests
  <2> QED
    BY <1>2, <2>2 DEF t
<1> QED
  BY <1>1, <1>2

-----------------------------------------------------------------------------
(* What a handler does before the slice ends.                              *)

\* r has become c, without a change of its state.
LEMMA SetSound ==
  ASSUME NEW u, Sound(u), NEW r \in DOMAIN u.contexts, OnlyRuns(u, r),
         NEW c \in Ctxs(0), c.state = u.contexts[r].state
  PROVE  LET t == SetContext(u, r, c)
         IN  /\ Sound(t) /\ OnlyRuns(t, r)
             /\ t.nextId = u.nextId /\ t.current = u.current
             /\ DOMAIN t.contexts = DOMAIN u.contexts /\ t.contexts[r] = c
             /\ \A id \in DOMAIN u.contexts \ {r} : t.contexts[id] = u.contexts[id]
<1> DEFINE t == SetContext(u, r, c)
<1>1. /\ DOMAIN t = Fields /\ t.contexts = Put(u.contexts, r, c) /\ t.queue = u.queue
      /\ t.nextId = u.nextId /\ t.current = u.current
  BY SetContextIs DEF Sound, SchedOK, Marked
<1> HIDE DEF t
<1>2. /\ DOMAIN t.contexts = DOMAIN u.contexts /\ t.contexts[r] = c
      /\ \A id \in DOMAIN u.contexts \ {r} : t.contexts[id] = u.contexts[id]
  BY <1>1 DEF Put
<1>3. SchedOK(t, 0)
  BY <1>1, SchedPut DEF Sound
<1>4. Placed(t)
  BY <1>1, PlacedPut DEF Sound
<1>5. Sound(t) /\ OnlyRuns(t, r)
  BY <1>1, <1>2, <1>3, <1>4 DEF Sound, OnlyRuns
<1> QED
  BY <1>1, <1>2, <1>5 DEF t

LEMMA CreateSound ==
  ASSUME NEW s, Sound(s), NEW p \in Priorities, NEW pc \in Nat
  PROVE  LET t == CreateContext(s, p, pc, <<>>)
             c == NewContext(p, pc, <<>>)
         IN  /\ Sound(t) /\ t.nextId = s.nextId + 1 /\ t.current = s.current
             /\ t.contexts = Put(s.contexts, s.nextId, c)
             /\ c.state = "Ready" /\ s.nextId \notin DOMAIN s.contexts
<1> DEFINE c == NewContext(p, pc, <<>>)
           n == s.nextId
           u == [SetContext(s, n, c) EXCEPT !.nextId = n + 1]
           t == CreateContext(s, p, pc, <<>>)
<1>1. c \in Ctxs(0) /\ c.state = "Ready" /\ c.priority = p
  BY DEF NewContext, Ctxs, States
<1>2. n \in Nat \ {0} /\ n \notin DOMAIN s.contexts /\ DOMAIN s = Fields
  BY DEF Sound, SchedOK
<1> HIDE DEF c
<1>3. /\ DOMAIN u = Fields /\ u.contexts = Put(s.contexts, n, c)
      /\ u.queue = s.queue /\ u.nextId = n + 1 /\ u.current = s.current
  <2>1. /\ DOMAIN SetContext(s, n, c) = Fields /\ SetContext(s, n, c).contexts = Put(s.contexts, n, c)
        /\ SetContext(s, n, c).queue = s.queue /\ SetContext(s, n, c).current = s.current
    BY <1>2, SetContextIs DEF Marked
  <2> QED
    BY <2>1 DEF Fields
<1> HIDE DEF u
<1>4. n \in DOMAIN u.contexts /\ u.contexts[n] = c
  BY <1>3 DEF Put
<1>5. t = PushBack(u, p, n)
  <2>1. t = Enqueue(u, n)
    BY DEF CreateContext, u, c, t
  <2> QED
    BY <1>1, <1>4, <2>1 DEF Enqueue, Known
<1>6. /\ DOMAIN t = Fields /\ t.contexts = u.contexts /\ t.nextId = u.nextId
      /\ t.current = u.current /\ t.queue = [s.queue EXCEPT ![p] = Append(@, n)]
  BY <1>3, <1>5 DEF PushBack, Fields
<1> HIDE DEF t
<1>7. Queued(s, t, n, c)
  BY <1>1, <1>3, <1>6 DEF Queued
<1>8. \A q \in Priorities : ~ InQueue(s, q, n)
  BY <1>2 DEF Sound, Placed, InQueue
<1>9. Placed(t) /\ t.queue \in [Priorities -> Seq(Nat)]
  BY <1>1, <1>2, <1>7, <1>8, PlacedAppend DEF Sound, SchedOK
<1>10. /\ DOMAIN t.contexts = DOMAIN s.contexts \cup {n} /\ t.contexts[n] = c
       /\ \A id \in DOMAIN s.contexts : t.contexts[id] = s.contexts[id]
  BY <1>2, <1>3, <1>6 DEF Put
<1>11. SchedOK(t, 0)
  <2>1. t.contexts \in [DOMAIN t.contexts -> Ctxs(0)]
    BY <1>1, <1>3, <1>6, <1>10 DEF Sound, SchedOK, Put
  <2>2. DOMAIN t.contexts \subseteq 1 .. t.nextId - 1
    BY <1>2, <1>3, <1>6, <1>10 DEF Sound, SchedOK
  <2>3. t.current \in 0 .. t.nextId - 1 /\ t.nextId \in Nat \ {0}
    BY <1>2, <1>3, <1>6 DEF Sound, SchedOK
  <2> QED
    BY <1>6, <1>9, <2>1, <2>2, <2>3 DEF SchedOK
<1>12. t.current # n
  BY <1>2, <1>3, <1>6 DEF Sound, SchedOK
<1>13. Sound(t)
  BY <1>1, <1>3, <1>6, <1>9, <1>10, <1>11, <1>12 DEF Sound
<1> QED
  BY <1>1, <1>2, <1>3, <1>6, <1>13 DEF t, c

LEMMA RemoveSound ==
  ASSUME NEW s, Sound(s), NEW id
  PROVE  LET t == Remove(s, id)
         IN  /\ Sound(t) /\ t.nextId = s.nextId
             /\ t.current = IF s.current = id THEN None ELSE s.current
             /\ DOMAIN t.contexts = DOMAIN s.contexts \ {id}
             /\ \A x \in DOMAIN t.contexts : t.contexts[x] = s.contexts[x]
<1> DEFINE t == Remove(s, id)
           rest == DOMAIN s.contexts \ {id}
<1>1. /\ DOMAIN t = Fields
      /\ t.contexts = Restrict(s.contexts, rest)
      /\ t.queue = [p \in Priorities |-> Retained(s.queue[p], id)]
      /\ t.nextId = s.nextId
      /\ t.current = IF s.current = id THEN None ELSE s.current
  BY DEF Remove, DequeueId, Sound, SchedOK, Fields
<1> HIDE DEF t
<1>2. DOMAIN t.contexts = rest /\ \A x \in rest : t.contexts[x] = s.contexts[x]
  BY <1>1 DEF Restrict
<1>3. \A p \in Priorities : s.queue[p] \in Seq(Nat) /\ t.queue[p] = Retained(s.queue[p], id)
  BY <1>1 DEF Sound, SchedOK
<1>4. \A p \in Priorities : LeftOf(s.queue[p], t.queue[p], id)
  BY <1>3, RetainedIs
<1>5. SchedOK(t, 0)
  <2>1. t.contexts \in [DOMAIN t.contexts -> Ctxs(0)]
    BY <1>1, <1>2 DEF Sound, SchedOK, Restrict
  <2>2. t.queue \in [Priorities -> Seq(Nat)]
    BY <1>1, <1>4 DEF LeftOf
  <2>3. t.current \in 0 .. t.nextId - 1
    BY <1>1 DEF Sound, SchedOK, None
  <2> QED
    BY <1>1, <1>2, <2>1, <2>2, <2>3 DEF Sound, SchedOK
<1>6. NoDoubles(t.queue)
  <2> SUFFICES ASSUME NEW p \in Priorities, NEW r \in Priorities,
                      NEW m \in DOMAIN t.queue[p], NEW k \in DOMAIN t.queue[r],
                      t.queue[p][m] = t.queue[r][k]
               PROVE  p = r /\ m = k
    BY DEF NoDoubles
  <2>1. PICK i \in DOMAIN s.queue[p] : t.queue[p][m] = s.queue[p][i]
    BY <1>4, SMTT(30) DEF LeftOf
  <2>2. PICK j \in DOMAIN s.queue[r] : t.queue[r][k] = s.queue[r][j]
    BY <1>4 DEF LeftOf
  <2>3. p = r
    <3>1. s.queue[p][i] = s.queue[r][j]
      BY <2>1, <2>2
    <3> QED
      BY <3>1 DEF Sound, Placed, NoDoubles
  <2>4. \A x, y \in DOMAIN s.queue[p] : s.queue[p][x] = s.queue[p][y] => x = y
    BY DEF Sound, Placed, NoDoubles
  <2>5. m = k
    BY <1>4, <2>3, <2>4 DEF LeftOf
  <2> QED
    BY <2>3, <2>5
<1>7. ASSUME NEW p \in Priorities, NEW m \in DOMAIN t.queue[p]
      PROVE  /\ t.queue[p][m] \in DOMAIN t.contexts
             /\ t.contexts[t.queue[p][m]].state \in {"Ready", "Terminated"}
  <2>1. PICK i \in DOMAIN s.queue[p] : s.queue[p][i] # id /\ t.queue[p][m] = s.queue[p][i]
    BY <1>4 DEF LeftOf
  <2> QED
    BY <1>2, <2>1 DEF Sound, Placed
<1>8. ASSUME NEW x \in DOMAIN t.contexts, t.contexts[x].state = "Ready"
      PROVE  \E p \in Priorities : InQueue(t, p, x)
  <2>1. x \in DOMAIN s.contexts /\ x # id /\ s.contexts[x].state = "Ready"
    BY <1>2, <1>8
  <2>2. PICK p \in Priorities : \E i \in DOMAIN s.queue[p] : s.queue[p][i] = x
    BY <2>1 DEF Sound, Placed, InQueue
  <2>3. PICK m \in DOMAIN t.queue[p] : t.queue[p][m] = x
    BY <1>4, <2>1, <2>2 DEF LeftOf
  <2> QED
    BY <2>3 DEF InQueue
<1>9. Sound(t)
  <2>1. Placed(t)
    BY <1>6, <1>7, <1>8 DEF Placed
  <2>2. ASSUME t.current \in DOMAIN t.contexts
        PROVE  t.contexts[t.current].state \in {"Running", "Terminated"}
    <3>1. 0 \notin DOMAIN t.contexts
      BY <1>2 DEF Sound, SchedOK
    <3>2. t.current = s.current
      BY <1>1, <2>2, <3>1 DEF None
    <3> QED
      BY <1>2, <2>2, <3>2 DEF Sound
  <2>3. \A x \in DOMAIN t.contexts : t.contexts[x].state # "Blocked"
    BY <1>2 DEF Sound
  <2> QED
    BY <1>5, <2>1, <2>2, <2>3 DEF Sound
<1> QED
  BY <1>1, <1>2, <1>9 DEF t

\* maybe_preempt may send the current context back before its slice ends.
LEMMA PreemptSound ==
  ASSUME NEW u, Sound(u), NEW r \in DOMAIN u.contexts, OnlyRuns(u, r)
  PROVE  LET t == MaybePreempt(u)
         IN  /\ Sound(t) /\ OnlyRuns(t, r)
             /\ t.nextId = u.nextId /\ DOMAIN t.contexts = DOMAIN u.contexts
             /\ \A id \in DOMAIN u.contexts \ {r} : t.contexts[id] = u.contexts[id]
             /\ t.contexts[r].pc = u.contexts[r].pc
             /\ t.contexts[r].state = "Terminated" <=> u.contexts[r].state = "Terminated"
<1> DEFINE t == MaybePreempt(u)
<1>1. CASE t = u
  BY <1>1
<1>2. CASE t # u
  <2>1. t = YieldCurrent(u)
    BY <1>2 DEF MaybePreempt
  <2> HIDE DEF t
  <2>2. /\ Rests(u, t, r)
        /\ StateIs(u, r, "Running") => t.contexts[r] = [u.contexts[r] EXCEPT !.state = "Ready"]
        /\ ~ StateIs(u, r, "Running") => t.contexts = u.contexts
    BY <2>1, YieldRests
  <2>3. u.contexts[r] \in Ctxs(0)
    BY DEF Sound, SchedOK
  <2>4. /\ t.contexts[r].pc = u.contexts[r].pc
        /\ t.contexts[r].state = "Terminated" <=> u.contexts[r].state = "Terminated"
    <3>1. CASE StateIs(u, r, "Running")
      BY <2>2, <2>3, <3>1 DEF StateIs, Ctxs
    <3>2. CASE ~ StateIs(u, r, "Running")
      BY <2>2, <3>2
    <3> QED
      BY <3>1, <3>2
  <2>5. OnlyRuns(t, r)
    BY <2>2 DEF Rests, Calm, OnlyRuns
  <2> QED
    BY <2>2, <2>4, <2>5 DEF Rests, t
<1> QED
  BY <1>1, <1>2

LEMMA PickAtIs ==
  ASSUME NEW s, SchedOK(s, 0), NEW p \in Priorities, Pickable(s, p) # {}
  PROVE  /\ PickAt(s, p) \in DOMAIN s.queue[p] /\ PickAt(s, p) \in Nat
         /\ ~ Skipped(s, s.queue[p][PickAt(s, p)])
         /\ \A j \in DOMAIN s.queue[p] : j < PickAt(s, p) => Skipped(s, s.queue[p][j])
<1>1. DOMAIN s.queue[p] \subseteq Nat
  BY QueuesFit
<1>2. Pickable(s, p) \in SUBSET Nat
  BY <1>1 DEF Pickable
<1>3. \E i \in Pickable(s, p) : \A j \in Pickable(s, p) : i <= j
  BY <1>2, Least
<1>4. /\ PickAt(s, p) \in Pickable(s, p)
      /\ \A j \in Pickable(s, p) : PickAt(s, p) <= j
  BY <1>3 DEF PickAt
<1>5. ASSUME NEW j \in DOMAIN s.queue[p], j < PickAt(s, p)
      PROVE  Skipped(s, s.queue[p][j])
  <2>1. j \in Nat /\ PickAt(s, p) \in Nat
    BY <1>1, <1>2, <1>4
  <2>2. j \notin Pickable(s, p)
    BY <1>4, <1>5, <2>1
  <2> QED
    BY <2>2 DEF Pickable
<1> QED
  BY <1>2, <1>4, <1>5 DEF Pickable

LEMMA PickSound ==
  ASSUME NEW s, Sound(s), Calm(s), HasPick(s)
  PROVE  LET t  == PickNext(s)
             id == Picked(s)
         IN  /\ Sound(t) /\ OnlyRuns(t, id) /\ t.nextId = s.nextId
             /\ id \in DOMAIN s.contexts /\ s.contexts[id].state = "Ready"
             /\ t.contexts = Put(s.contexts, id, [s.contexts[id] EXCEPT !.state = "Running"])
<1> DEFINE p  == PickBand(s)
           n  == PickAt(s, p)
           id == Picked(s)
           c  == [s.contexts[id] EXCEPT !.state = "Running"]
           q  == [r \in Priorities |->
                    IF Rank[r] > Rank[p] THEN <<>>
                    ELSE IF r = p THEN SubSeq(s.queue[p], n + 1, Len(s.queue[p]))
                    ELSE s.queue[r]]
           u  == [s EXCEPT !.queue = q, !.current = id]
           t  == PickNext(s)
<1>1. /\ p \in Priorities /\ Pickable(s, p) # {}
      /\ \A r \in Priorities : Pickable(s, r) # {} => Rank[r] <= Rank[p]
  BY PickBandIs
<1>2. /\ n \in DOMAIN s.queue[p] /\ ~ Skipped(s, s.queue[p][n])
      /\ \A j \in DOMAIN s.queue[p] : j < n => Skipped(s, s.queue[p][j])
  BY <1>1, PickAtIs DEF Sound
<1>3. id = s.queue[p][n]
  BY DEF Picked
<1>4. id \in DOMAIN s.contexts /\ s.contexts[id].state = "Ready"
  BY <1>1, <1>2, <1>3 DEF Sound, Placed, Skipped, Known
<1>5. c \in Ctxs(0) /\ c.state = "Running"
  BY <1>4 DEF Sound, SchedOK, Ctxs, States
<1>6. /\ DOMAIN u = Fields /\ u.contexts = s.contexts /\ u.queue = q
      /\ u.nextId = s.nextId /\ u.current = id
  BY DEF Sound, SchedOK, Fields
<1>7. t = SetContext(u, id, c)
  <2>1. t = SetState(u, id, "Running")
    BY DEF PickNext
  <2> QED
    BY <1>4, <1>6, <2>1 DEF SetState, Known
<1> HIDE DEF u, c, t
<1>8. /\ DOMAIN t = Fields /\ t.contexts = Put(s.contexts, id, c) /\ t.queue = q
      /\ t.nextId = s.nextId /\ t.current = id
  BY <1>6, <1>7, SetContextIs DEF Marked
<1> HIDE DEF n, id
<1>9. /\ DOMAIN t.contexts = DOMAIN s.contexts /\ t.contexts[id] = c
      /\ \A x \in DOMAIN s.contexts \ {id} : t.contexts[x] = s.contexts[x]
  BY <1>4, <1>8 DEF Put
\* What each queue of t is.
<1>10. /\ \A r \in Priorities : Rank[r] > Rank[p] => t.queue[r] = <<>>
       /\ \A r \in Priorities : ~ (Rank[r] > Rank[p]) /\ r # p => t.queue[r] = s.queue[r]
       /\ t.queue[p] = SubSeq(s.queue[p], n + 1, Len(s.queue[p]))
  <2>1. ~ (Rank[p] > Rank[p])
    BY <1>1 DEF Rank, Priorities
  <2> QED
    BY <1>1, <1>8, <2>1
<1> HIDE DEF q
<1>11. s.queue[p] \in Seq(Nat)
  BY <1>1 DEF Sound, SchedOK
<1>12. /\ t.queue[p] \in Seq(Nat)
       /\ \A i \in DOMAIN t.queue[p] :
            i + n \in DOMAIN s.queue[p] /\ i + n > n /\ t.queue[p][i] = s.queue[p][i + n]
       /\ \A j \in DOMAIN s.queue[p] : j > n =>
            j - n \in DOMAIN t.queue[p] /\ t.queue[p][j - n] = s.queue[p][j]
  <2>1. n \in 0 .. Len(s.queue[p])
    BY <1>2, <1>11
  <2> DEFINE e == SubSeq(s.queue[p], n + 1, Len(s.queue[p]))
  <2>2. /\ e \in Seq(Nat)
        /\ \A i \in DOMAIN e : i + n \in DOMAIN s.queue[p] /\ i + n > n /\ e[i] = s.queue[p][i + n]
        /\ \A j \in DOMAIN s.queue[p] : j > n => j - n \in DOMAIN e /\ e[j - n] = s.queue[p][j]
    BY ONLY <1>11, <2>1, BehindIs, ZenonT(30)
  <2>3. t.queue[p] = e
    BY <1>10
  <2> HIDE DEF e
  <2> QED
    BY <2>2, <2>3, Zenon
<1>13. n \in Nat /\ \A r \in Priorities : DOMAIN s.queue[r] \subseteq Nat
  BY <1>2, <1>11, QueuesFit DEF Sound
<1>14. SchedOK(t, 0)
  <2>1. t.contexts \in [DOMAIN t.contexts -> Ctxs(0)]
    BY <1>4, <1>5, <1>8, <1>9 DEF Sound, SchedOK, Put
  <2>2. t.queue \in [Priorities -> Seq(Nat)]
    <3>1. t.queue = [r \in Priorities |-> t.queue[r]]
      BY <1>8 DEF q
    <3>2. \A r \in Priorities : t.queue[r] \in Seq(Nat)
      <4> TAKE r \in Priorities
      <4>1. s.queue[r] \in Seq(Nat)
        BY DEF Sound, SchedOK
      <4>2. <<>> \in Seq(Nat)
        OBVIOUS
      <4>3. CASE Rank[r] > Rank[p]
        BY <1>10, <4>2, <4>3
      <4>4. CASE ~ (Rank[r] > Rank[p])
        BY <1>10, <1>12, <4>1, <4>4
      <4> QED
        BY <4>3, <4>4
    <3> QED
      BY <3>1, <3>2
  <2>3. t.current \in 0 .. t.nextId - 1
    BY <1>4, <1>8 DEF Sound, SchedOK
  <2> QED
    BY <1>8, <1>9, <2>1, <2>2, <2>3 DEF Sound, SchedOK
\* A place of t is a place of s, further back in the queue of p.
<1>15. ASSUME NEW r \in Priorities, NEW i \in DOMAIN t.queue[r]
       PROVE  LET j == IF r = p THEN i + n ELSE i
              IN  /\ j \in DOMAIN s.queue[r] /\ t.queue[r][i] = s.queue[r][j]
                  /\ r = p => j > n
  <2>1. ~ (Rank[r] > Rank[p])
    BY <1>10, <1>15
  <2> QED
    BY <1>10, <1>12, <2>1
<1>16. NoDoubles(t.queue)
  <2> SUFFICES ASSUME NEW r \in Priorities, NEW o \in Priorities,
                      NEW i \in DOMAIN t.queue[r], NEW k \in DOMAIN t.queue[o],
                      t.queue[r][i] = t.queue[o][k]
               PROVE  r = o /\ i = k
    BY DEF NoDoubles
  <2> DEFINE a == IF r = p THEN i + n ELSE i
             b == IF o = p THEN k + n ELSE k
  <2>1. a \in DOMAIN s.queue[r] /\ b \in DOMAIN s.queue[o] /\ s.queue[r][a] = s.queue[o][b]
    BY <1>15
  <2>2. r = o /\ a = b
    BY <2>1 DEF Sound, Placed, NoDoubles
  <2>3. i \in Nat /\ k \in Nat
    <3>1. SchedOK(t, 0)
      BY <1>14
    <3> QED
      BY <3>1, QueuesFit
  <2> QED
    BY <1>13, <2>2, <2>3
<1>17. ASSUME NEW r \in Priorities, NEW i \in DOMAIN t.queue[r]
       PROVE  t.queue[r][i] # id
  <2> DEFINE a == IF r = p THEN i + n ELSE i
  <2>1. a \in DOMAIN s.queue[r] /\ t.queue[r][i] = s.queue[r][a] /\ (r = p => a > n)
    BY <1>15
  <2>2. ~ (r = p /\ a = n)
    BY <1>13, <2>1
  <2> HIDE DEF a
  <2>3. s.queue[r][a] # s.queue[p][n]
    BY <1>1, <1>2, <2>1, <2>2 DEF Sound, Placed, NoDoubles
  <2> QED
    BY <1>3, <2>1, <2>3
<1>18. ASSUME NEW r \in Priorities, NEW i \in DOMAIN t.queue[r]
       PROVE  /\ t.queue[r][i] \in DOMAIN t.contexts
              /\ t.contexts[t.queue[r][i]].state \in {"Ready", "Terminated"}
  <2>1. /\ t.queue[r][i] \in DOMAIN s.contexts
        /\ s.contexts[t.queue[r][i]].state \in {"Ready", "Terminated"}
    BY <1>15 DEF Sound, Placed
  <2> QED
    BY <1>9, <1>17, <2>1
<1>19. ASSUME NEW x \in DOMAIN t.contexts, t.contexts[x].state = "Ready"
       PROVE  \E r \in Priorities : InQueue(t, r, x)
  <2>1. x \in DOMAIN s.contexts /\ x # id /\ s.contexts[x].state = "Ready"
    BY <1>5, <1>9, <1>19
  <2>2. PICK r \in Priorities : \E i \in DOMAIN s.queue[r] : s.queue[r][i] = x
    BY <2>1 DEF Sound, Placed, InQueue
  <2>3. PICK i \in DOMAIN s.queue[r] : s.queue[r][i] = x
    BY <2>2
  <2>4. i \in Pickable(s, r)
    BY <2>1, <2>3 DEF Pickable, Skipped
  <2>5. ~ (Rank[r] > Rank[p])
    BY <1>1, <2>4 DEF Rank, Priorities
  <2>6. CASE r = p
    <3>1. ~ (i < n) /\ i # n
      BY <1>2, <1>3, <2>1, <2>3, <2>4, <2>6 DEF Pickable
    <3>2. i > n
      BY <1>13, <3>1
    <3> QED
      BY <1>12, <2>3, <2>6, <3>2 DEF InQueue
  <2>7. CASE r # p
    BY <1>10, <2>3, <2>5, <2>7 DEF InQueue
  <2> QED
    BY <2>6, <2>7
<1>20. Sound(t)
  <2>1. Placed(t)
    BY <1>16, <1>18, <1>19 DEF Placed
  <2>2. t.contexts[t.current].state = "Running"
    BY <1>5, <1>8, <1>9
  <2>3. \A x \in DOMAIN t.contexts : t.contexts[x].state # "Blocked"
    BY <1>5, <1>9 DEF Sound
  <2> QED
    BY <1>14, <2>1, <2>2, <2>3 DEF Sound
<1>21. OnlyRuns(t, id)
  BY <1>8, <1>9 DEF OnlyRuns, Calm
<1> QED
  BY <1>4, <1>8, <1>20, <1>21 DEF id, c, t

\* When there is nothing to pick, nobody is Ready and the queues hold only
\* contexts that have ended.
LEMMA NothingSound ==
  ASSUME NEW s, Sound(s), ~ HasPick(s)
  PROVE  LET t == PickNothing(s)
         IN  /\ Sound(t) /\ t.contexts = s.contexts /\ t.nextId = s.nextId
             /\ \A id \in DOMAIN s.contexts : s.contexts[id].state # "Ready"
<1> DEFINE t == PickNothing(s)
<1>1. ASSUME NEW id \in DOMAIN s.contexts, s.contexts[id].state = "Ready"
      PROVE  FALSE
  <2>1. PICK p \in Priorities : \E i \in DOMAIN s.queue[p] : s.queue[p][i] = id
    BY <1>1 DEF Sound, Placed, InQueue
  <2> QED
    BY <1>1, <2>1 DEF HasPick, Pickable, Skipped
<1>2. /\ DOMAIN t = Fields /\ t.contexts = s.contexts /\ t.nextId = s.nextId
      /\ t.current = s.current /\ t.queue = [p \in Priorities |-> <<>>]
  BY DEF PickNothing, Sound, SchedOK, Fields
<1> HIDE DEF t
<1>3. \A p \in Priorities : t.queue[p] = <<>> /\ DOMAIN t.queue[p] = {}
  BY <1>2
<1>4. t.queue \in [Priorities -> Seq(Nat)]
  BY <1>2
<1>5. Placed(t)
  BY <1>1, <1>2, <1>3 DEF Placed, NoDoubles
<1>6. SchedOK(t, 0)
  BY <1>2, <1>4 DEF Sound, SchedOK
<1> QED
  BY <1>1, <1>2, <1>5, <1>6 DEF Sound, t

-----------------------------------------------------------------------------
(* The inductive invariant.                                                *)

\* A NOP revives the context it is executed for, so that no signal may be
\* under way for an ended context that stands at one.
AtNop(p, s, id) == s.contexts[id].pc \in DOMAIN p /\ p[s.contexts[id].pc].op = "NOP"
EndedAtNop(p, s, id) == StateIs(s, id, "Terminated") /\ AtNop(p, s, id)

Growing(q) == \A i, j \in DOMAIN q : i < j => q[i] < q[j]

\* The ids are announced once each, in the order in which they are issued.
SignalsOK ==
  /\ signals \in Seq(Nat) /\ Len(signals) <= BusCapacity
  /\ \A i \in DOMAIN signals : signals[i] \in 1 .. sched.nextId - 1 /\ ~ EndedAtNop(program, sched, signals[i])
  /\ Growing(signals)

InterruptOK == interrupt \in 0 .. MaxCtx /\ unseen \in BOOLEAN /\ issued \in 1 .. MaxCtx + 1

\* Who is executed without being Running was called by its signal, the only
\* one there is for it.
ExecOK ==
  /\ running \in DOMAIN sched.contexts /\ OnlyRuns(sched, running)
  /\ ~ EndedAtNop(program, sched, running)
  /\ sched.contexts[running].state # "Running" => \A i \in DOMAIN signals : signals[i] # running

LoopOK ==
  /\ at \in {"pick", "exec", "done", "cut"} /\ running \in 0 .. MaxCtx
  /\ at = "exec" => ExecOK
  /\ at # "exec" => Calm(sched)
  /\ at = "done" => \A id \in DOMAIN sched.contexts : sched.contexts[id].state # "Ready"

IInv ==
  /\ program \in Programs
  /\ Sound(sched) /\ sched.nextId \in 2 .. MaxCtx + 1
  /\ forks \in Nat /\ forks + 2 <= sched.nextId
  /\ SignalsOK /\ InterruptOK /\ LoopOK

-----------------------------------------------------------------------------
(* What an executed instruction does to the table.                         *)

\* Others may have been removed; a new one is Ready under a fresh id.
Others(t) ==
  /\ t.nextId \in sched.nextId .. MaxCtx + 1
  /\ \A id \in DOMAIN t.contexts \ {running} :
       \/ id \in DOMAIN sched.contexts /\ t.contexts[id] = sched.contexts[id]
       \/ id >= sched.nextId /\ t.contexts[id].state = "Ready"

\* In the middle of the slice of `running`.
Touched(u) ==
  /\ Sound(u) /\ OnlyRuns(u, running) /\ Others(u)
  /\ running \in DOMAIN u.contexts =>
       (u.contexts[running].state = "Terminated" <=> Self.state = "Terminated")

\* When it has ended.
Turned(t) ==
  /\ Sound(t) /\ Calm(t) /\ Others(t)
  /\ running \in DOMAIN t.contexts =>
       IF Self.state = "Terminated" THEN t.contexts[running].state = "Terminated"
       ELSE ~ EndedAtNop(program, t, running)

LEMMA NothingTouched ==
  ASSUME IInv, at = "exec"
  PROVE  Touched(sched)
<1>1. sched.nextId \in Nat /\ MaxCtx \in Nat
  BY ReactorAssumption DEF IInv
<1> QED
  BY <1>1 DEF IInv, LoopOK, ExecOK, Touched, Others, Self

LEMMA EndsTurn ==
  ASSUME NEW u, Touched(u), NEW advance \in BOOLEAN
  PROVE  Turned(SliceEnds(u, running, advance))
<1> DEFINE t == SliceEnds(u, running, advance)
<1>1. /\ Rests(u, t, running)
      /\ StateIs(u, running, "Running") => t.contexts[running].state = "Ready"
      /\ ~ StateIs(u, running, "Running") => t.contexts = u.contexts
  BY EndsRests DEF Touched
<1> HIDE DEF t
<1>2. Sound(t) /\ Calm(t) /\ Others(t)
  BY <1>1 DEF Touched, Rests, Others
<1>3. ASSUME running \in DOMAIN t.contexts
      PROVE  IF Self.state = "Terminated" THEN t.contexts[running].state = "Terminated"
             ELSE ~ EndedAtNop(program, t, running)
  <2>1. running \in DOMAIN u.contexts
    BY <1>1, <1>3 DEF Rests
  <2>2. CASE StateIs(u, running, "Running")
    BY <1>1, <2>1, <2>2 DEF Touched, StateIs, EndedAtNop
  <2>3. CASE ~ StateIs(u, running, "Running")
    BY <1>1, <2>1, <2>3 DEF Touched, StateIs, EndedAtNop
  <2> QED
    BY <2>2, <2>3
<1> QED
  BY <1>2, <1>3 DEF Turned, t

LEMMA FailsTurn ==
  ASSUME NEW u, Touched(u), ~ AtNop(program, sched, running),
         running \in DOMAIN u.contexts => u.contexts[running].pc = Self.pc
  PROVE  Turned(SliceFails(u, running))
<1> DEFINE t == SliceFails(u, running)
<1>1. /\ Rests(u, t, running)
      /\ running \in DOMAIN u.contexts =>
           t.contexts[running] = [u.contexts[running] EXCEPT !.state = "Terminated"]
  BY FailsRests DEF Touched
<1> HIDE DEF t
<1>2. Sound(t) /\ Calm(t) /\ Others(t)
  BY <1>1 DEF Touched, Rests, Others
<1>3. ASSUME running \in DOMAIN t.contexts
      PROVE  t.contexts[running].state = "Terminated" /\ t.contexts[running].pc = Self.pc
  <2>1. running \in DOMAIN u.contexts /\ u.contexts[running] \in Ctxs(0)
    BY <1>1, <1>3 DEF Rests, Touched, Sound, SchedOK
  <2> QED
    BY <1>1, <2>1 DEF Ctxs
<1>4. running \in DOMAIN t.contexts => ~ AtNop(program, t, running)
  BY <1>3 DEF AtNop, Self
<1> QED
  BY <1>2, <1>3, <1>4 DEF Turned, EndedAtNop, t

\* FetchFails and HALT only mark the context: nobody yields.
LEMMA EndsInPlace ==
  ASSUME IInv, at = "exec", ~ AtNop(program, sched, running)
  PROVE  Turned(SetState(sched, running, "Terminated"))
<1> DEFINE c == [Self EXCEPT !.state = "Terminated"]
           t == SetState(sched, running, "Terminated")
<1>1. running \in DOMAIN sched.contexts /\ Self \in Ctxs(0) /\ Touched(sched)
  BY NothingTouched DEF IInv, LoopOK, ExecOK, Sound, SchedOK, Self
<1>2. c \in Ctxs(0) /\ c.state = "Terminated" /\ c.pc = Self.pc
  BY <1>1 DEF Ctxs, States
<1>3. Marked(sched, t, running, c)
  <2>1. t = SetContext(sched, running, c)
    BY <1>1 DEF SetState, Known, Self
  <2> QED
    BY <2>1, SetContextIs DEF IInv, Sound, SchedOK
<1> HIDE DEF c, t
<1>4. /\ DOMAIN t = Fields /\ t.contexts = Put(sched.contexts, running, c)
      /\ t.queue = sched.queue /\ t.nextId = sched.nextId /\ t.current \in {None, sched.current}
  BY <1>3 DEF Marked
<1>5. /\ DOMAIN t.contexts = DOMAIN sched.contexts /\ t.contexts[running] = c
      /\ \A id \in DOMAIN sched.contexts \ {running} : t.contexts[id] = sched.contexts[id]
  BY <1>1, <1>4 DEF Put
<1>6. SchedOK(t, 0) /\ Placed(t)
  BY <1>1, <1>2, <1>4, SchedPut, PlacedPut DEF IInv, Sound
<1>7. Sound(t)
  <2>1. ASSUME t.current \in DOMAIN t.contexts
        PROVE  t.contexts[t.current].state \in {"Running", "Terminated"}
    <3>1. t.current = sched.current
      BY <1>4, <1>5, <2>1 DEF IInv, Sound, SchedOK, None
    <3> QED
      BY <1>2, <1>5, <2>1, <3>1 DEF IInv, Sound
  <2>2. \A id \in DOMAIN t.contexts : t.contexts[id].state # "Blocked"
    BY <1>2, <1>5 DEF IInv, Sound
  <2> QED
    BY <1>6, <2>1, <2>2 DEF Sound
<1>8. Calm(t)
  BY <1>2, <1>5 DEF Calm, IInv, LoopOK, ExecOK, OnlyRuns
<1>9. Others(t)
  BY <1>1, <1>4, <1>5 DEF Touched, Others
<1>10. ~ EndedAtNop(program, t, running)
  BY <1>2, <1>5 DEF EndedAtNop, AtNop, Self
<1> QED
  BY <1>2, <1>5, <1>7, <1>8, <1>9, <1>10 DEF Turned, t

\* A context whose state is kept may get another pc or priority.
LEMMA SetTouched ==
  ASSUME IInv, at = "exec", NEW u, Touched(u), running \in DOMAIN u.contexts,
         NEW c \in Ctxs(0), c.state = u.contexts[running].state
  PROVE  /\ Touched(SetContext(u, running, c))
         /\ running \in DOMAIN SetContext(u, running, c).contexts
         /\ SetContext(u, running, c).contexts[running] = c
<1> DEFINE t == SetContext(u, running, c)
<1>1. /\ Sound(t) /\ OnlyRuns(t, running)
      /\ t.nextId = u.nextId /\ t.current = u.current
      /\ DOMAIN t.contexts = DOMAIN u.contexts /\ t.contexts[running] = c
      /\ \A id \in DOMAIN u.contexts \ {running} : t.contexts[id] = u.contexts[id]
  BY SetSound DEF Touched
<1> HIDE DEF t
<1>2. Others(t)
  BY <1>1 DEF Touched, Others
<1>3. Touched(t)
  BY <1>1, <1>2 DEF Touched
<1> QED
  BY <1>1, <1>3 DEF t

LEMMA MovedTouched ==
  ASSUME IInv, at = "exec", NEW a \in Nat
  PROVE  /\ Touched(Moved(sched, running, a))
         /\ Moved(sched, running, a) = SetContext(sched, running, [Self EXCEPT !.pc = a])
<1> DEFINE c == [Self EXCEPT !.pc = a]
<1>1. running \in DOMAIN sched.contexts /\ Self \in Ctxs(0) /\ Touched(sched)
  BY NothingTouched DEF IInv, LoopOK, ExecOK, Sound, SchedOK, Self
<1>2. c \in Ctxs(0) /\ c.state = Self.state
  BY <1>1 DEF Ctxs
<1>3. Moved(sched, running, a) = SetContext(sched, running, c)
  BY <1>1 DEF Moved, Known, Self
<1> HIDE DEF c
<1>4. Touched(SetContext(sched, running, c))
  BY <1>1, <1>2, SetTouched DEF Self
<1> QED
  BY <1>3, <1>4 DEF c

\* NOP makes its context Ready again, whatever its state: no ended context
\* gets here.
LEMMA NopTurn ==
  ASSUME IInv, at = "exec", AtNop(program, sched, running)
  PROVE  Turned(SlicePasses(sched, running))
<1>1. running \in DOMAIN sched.contexts /\ Self \in Ctxs(0) /\ Touched(sched)
  BY NothingTouched DEF IInv, LoopOK, ExecOK, Sound, SchedOK, Self
<1>2. Self.state # "Terminated"
  BY <1>1 DEF IInv, LoopOK, ExecOK, EndedAtNop, StateIs, Known, Self
<1>3. CASE Self.state = "Running"
  <2>1. SlicePasses(sched, running) = SliceEnds(sched, running, TRUE)
    BY <1>1, <1>3, SlicePassesIs DEF StateIs, Known, Self
  <2> QED
    BY <1>1, <2>1, EndsTurn
<1>4. CASE Self.state # "Running"
  <2> DEFINE u == Moved(sched, running, Self.pc + 1)
             c == [Self EXCEPT !.pc = Self.pc + 1]
             d == [c EXCEPT !.state = "Ready"]
             v == SetState(u, running, "Ready")
             t == YieldCurrent(v)
  <2>1. Self.state = "Ready"
    BY <1>1, <1>2, <1>4 DEF Ctxs, States, IInv, Sound, Self
  <2>0. Self.pc + 1 \in Nat
    BY <1>1 DEF Ctxs
  <2>2. /\ c \in Ctxs(0) /\ c.state = "Ready"
        /\ d \in Ctxs(0) /\ d.state = "Ready"
    <3>1. c \in Ctxs(0) /\ c.state = "Ready"
      BY <1>1, <2>0, <2>1 DEF Ctxs
    <3> HIDE DEF c
    <3> QED
      BY <3>1 DEF Ctxs, States
  <2>3. Touched(u) /\ u = SetContext(sched, running, c)
    BY <2>0, MovedTouched
  <2>4. running \in DOMAIN u.contexts /\ u.contexts[running] = c
    <3> HIDE DEF c
    <3>1. c.state = sched.contexts[running].state
      BY <2>1, <2>2 DEF Self
    <3> HIDE DEF u
    <3> QED
      BY <1>1, <2>2, <2>3, <3>1, SetTouched
  <2>5. SlicePasses(sched, running) = t
    BY DEF SlicePasses, Self
  <2> HIDE DEF u
  <2>6. v = SetContext(u, running, d)
    BY <2>4 DEF SetState, Known
  <2> HIDE DEF v, t, c, d
  <2>7. Touched(v) /\ running \in DOMAIN v.contexts /\ v.contexts[running] = d
    BY <2>2, <2>3, <2>4, <2>6, SetTouched
  <2>8. ~ StateIs(v, running, "Running")
    BY <2>2, <2>7 DEF StateIs
  <2>9. Rests(v, t, running) /\ t.contexts = v.contexts
    BY <2>7, <2>8, YieldRests DEF Touched, t
  <2>10. Sound(t) /\ Calm(t) /\ Others(t)
    BY <2>7, <2>9 DEF Touched, Rests, Others
  <2> QED
    BY <2>1, <2>2, <2>5, <2>7, <2>9, <2>10 DEF Turned, EndedAtNop, StateIs
<1> QED
  BY <1>3, <1>4

LEMMA SwitchTouched ==
  ASSUME IInv, at = "exec", NEW p \in Priorities
  PROVE  Touched(MaybePreempt(SetContext(sched, running, [Self EXCEPT !.priority = p])))
<1> DEFINE c == [Self EXCEPT !.priority = p]
           u == SetContext(sched, running, c)
           t == MaybePreempt(u)
<1>1. running \in DOMAIN sched.contexts /\ Self \in Ctxs(0) /\ Touched(sched)
  BY NothingTouched DEF IInv, LoopOK, ExecOK, Sound, SchedOK, Self
<1>2. c \in Ctxs(0) /\ c.state = Self.state
  BY <1>1 DEF Ctxs
<1> HIDE DEF c
<1>3. Touched(u) /\ running \in DOMAIN u.contexts
  BY <1>1, <1>2, SetTouched DEF Self
<1> HIDE DEF u
<1>4. /\ Sound(t) /\ OnlyRuns(t, running)
      /\ t.nextId = u.nextId /\ DOMAIN t.contexts = DOMAIN u.contexts
      /\ \A id \in DOMAIN u.contexts \ {running} : t.contexts[id] = u.contexts[id]
      /\ t.contexts[running].state = "Terminated" <=> u.contexts[running].state = "Terminated"
  BY <1>3, PreemptSound DEF Touched
<1> HIDE DEF t
<1>5. Others(t)
  BY <1>3, <1>4 DEF Touched, Others
<1>6. Touched(t)
  BY <1>3, <1>4, <1>5 DEF Touched
<1> QED
  BY <1>6 DEF t, u, c

LEMMA ForkTouched ==
  ASSUME IInv, at = "exec", sched.nextId <= MaxCtx, NEW p \in Priorities, NEW pc \in Nat
  PROVE  LET t == CreateContext(sched, p, pc, <<>>)
         IN  /\ Touched(t) /\ t.nextId = sched.nextId + 1
             /\ running \in DOMAIN t.contexts /\ t.contexts[running] = Self
<1> DEFINE t == CreateContext(sched, p, pc, <<>>)
           c == NewContext(p, pc, <<>>)
<1>1. running \in DOMAIN sched.contexts /\ Touched(sched)
  BY NothingTouched DEF IInv, LoopOK, ExecOK
<1>2. /\ Sound(t) /\ t.nextId = sched.nextId + 1 /\ t.current = sched.current
      /\ t.contexts = Put(sched.contexts, sched.nextId, c)
      /\ c.state = "Ready" /\ sched.nextId \notin DOMAIN sched.contexts
  BY CreateSound DEF IInv
<1> HIDE DEF t, c
<1>3. /\ DOMAIN t.contexts = DOMAIN sched.contexts \cup {sched.nextId}
      /\ t.contexts[sched.nextId] = c
      /\ \A id \in DOMAIN sched.contexts : t.contexts[id] = sched.contexts[id]
  BY <1>2 DEF Put
<1>4. sched.nextId \in Nat /\ MaxCtx \in Nat
  BY ReactorAssumption DEF IInv
<1>5. t.nextId \in sched.nextId .. MaxCtx + 1
  BY <1>2, <1>4
<1>6. Others(t)
  BY <1>2, <1>3, <1>4, <1>5 DEF Others
<1>7. OnlyRuns(t, running)
  BY <1>1, <1>2, <1>3 DEF Touched, OnlyRuns
<1>8. Touched(t)
  BY <1>1, <1>2, <1>3, <1>6, <1>7 DEF Touched, Self
<1> QED
  BY <1>1, <1>2, <1>3, <1>8 DEF t, Self

LEMMA RemoveTouched ==
  ASSUME IInv, at = "exec", NEW id
  PROVE  Touched(Remove(sched, id)) /\ Remove(sched, id).nextId = sched.nextId
<1> DEFINE t == Remove(sched, id)
<1>1. running \in DOMAIN sched.contexts /\ Touched(sched)
  BY NothingTouched DEF IInv, LoopOK, ExecOK
<1>2. /\ Sound(t) /\ t.nextId = sched.nextId
      /\ t.current = IF sched.current = id THEN None ELSE sched.current
      /\ DOMAIN t.contexts = DOMAIN sched.contexts \ {id}
      /\ \A x \in DOMAIN t.contexts : t.contexts[x] = sched.contexts[x]
  BY RemoveSound DEF IInv
<1> HIDE DEF t
<1>3. Others(t)
  BY <1>1, <1>2 DEF Touched, Others
<1>4. OnlyRuns(t, running)
  BY <1>1, <1>2 DEF Touched, OnlyRuns
<1>5. Touched(t)
  BY <1>1, <1>2, <1>3, <1>4 DEF Touched, Self
<1> QED
  BY <1>2, <1>5 DEF t

-----------------------------------------------------------------------------
(* The signals.                                                            *)

LEMMA TailIs ==
  ASSUME NEW q \in Seq(Nat), q # <<>>
  PROVE  /\ Tail(q) \in Seq(Nat) /\ Len(q) \in Nat \ {0} /\ Len(Tail(q)) = Len(q) - 1
         /\ DOMAIN q = 1 .. Len(q) /\ DOMAIN Tail(q) = 1 .. Len(q) - 1
         /\ Head(q) = q[1]
         /\ \A i \in DOMAIN Tail(q) : i + 1 \in DOMAIN q /\ i + 1 > 1 /\ Tail(q)[i] = q[i + 1]
  OBVIOUS

LEMMA GrowingTail ==
  ASSUME NEW q \in Seq(Nat), q # <<>>, Growing(q)
  PROVE  Growing(Tail(q)) /\ \A i \in DOMAIN Tail(q) : Tail(q)[i] # Head(q)
<1> DEFINE t == Tail(q)
<1>1. /\ t \in Seq(Nat) /\ Len(q) \in Nat \ {0}
      /\ DOMAIN q = 1 .. Len(q) /\ DOMAIN t = 1 .. Len(q) - 1
      /\ Head(q) = q[1]
      /\ \A i \in DOMAIN t : i + 1 \in DOMAIN q /\ i + 1 > 1 /\ t[i] = q[i + 1]
  BY TailIs
<1> HIDE DEF t
<1>2. ASSUME NEW i \in DOMAIN t, NEW j \in DOMAIN t, i < j
      PROVE  t[i] < t[j]
  <2>1. i + 1 < j + 1
    BY <1>1, <1>2
  <2> QED
    BY <1>1, <2>1 DEF Growing
<1>3. ASSUME NEW i \in DOMAIN t
      PROVE  t[i] # Head(q)
  <2>1. 1 \in DOMAIN q /\ i + 1 \in DOMAIN q /\ 1 < i + 1
    BY <1>1
  <2>2. q[1] < q[i + 1]
    BY <2>1 DEF Growing
  <2>3. q[1] \in Nat /\ q[i + 1] \in Nat
    BY <2>1
  <2> QED
    BY <1>1, <2>2, <2>3
<1> QED
  BY <1>2, <1>3 DEF Growing, t

LEMMA GrowingAppend ==
  ASSUME NEW q \in Seq(Nat), Growing(q), NEW n \in Nat, \A i \in DOMAIN q : q[i] < n
  PROVE  /\ Append(q, n) \in Seq(Nat) /\ Len(Append(q, n)) = Len(q) + 1
         /\ Growing(Append(q, n))
         /\ \A i \in DOMAIN Append(q, n) :
              Append(q, n)[i] = n \/ \E j \in DOMAIN q : Append(q, n)[i] = q[j]
<1> DEFINE t == Append(q, n)
<1>1. /\ t \in Seq(Nat) /\ Len(q) \in Nat /\ DOMAIN q = 1 .. Len(q)
      /\ DOMAIN t = 1 .. Len(q) + 1 /\ t[Len(q) + 1] = n
      /\ \A i \in DOMAIN q : t[i] = q[i]
  BY AppendIs
<1>2. Len(t) = Len(q) + 1
  OBVIOUS
<1> HIDE DEF t
<1>3. \A i \in DOMAIN t : i = Len(q) + 1 \/ i \in DOMAIN q
  BY <1>1
<1>4. ASSUME NEW i \in DOMAIN t, NEW j \in DOMAIN t, i < j
      PROVE  t[i] < t[j]
  <2>1. i \in DOMAIN q
    BY <1>1, <1>4
  <2> QED
    BY <1>1, <1>3, <1>4, <2>1 DEF Growing
<1> QED
  BY <1>1, <1>2, <1>3, <1>4 DEF Growing, t

\* A full channel forgets its oldest signal; what it keeps keeps its order.
LEMMA AnnouncedIs ==
  ASSUME signals \in Seq(Nat), Len(signals) <= BusCapacity, Growing(signals),
         NEW n \in Nat, \A i \in DOMAIN signals : signals[i] < n
  PROVE  /\ Announced(n) \in Seq(Nat) /\ Len(Announced(n)) <= BusCapacity
         /\ Growing(Announced(n))
         /\ \A i \in DOMAIN Announced(n) :
              Announced(n)[i] = n \/ \E j \in DOMAIN signals : Announced(n)[i] = signals[j]
<1>1. Len(signals) \in Nat /\ BusCapacity \in Nat \ {0}
  BY ReactorAssumption
<1>2. CASE Len(signals) = BusCapacity
  <2> DEFINE t == Tail(signals)
  <2>1. signals # <<>>
    BY <1>1, <1>2
  <2>2. /\ t \in Seq(Nat) /\ Len(t) = Len(signals) - 1
        /\ \A i \in DOMAIN t : i + 1 \in DOMAIN signals /\ t[i] = signals[i + 1]
    BY <2>1, TailIs
  <2>3. Growing(t)
    BY <2>1, GrowingTail
  <2>4. Announced(n) = Append(t, n)
    BY <1>2 DEF Announced
  <2> HIDE DEF t
  <2>5. \A i \in DOMAIN t : t[i] < n
    BY <2>2
  <2>6. /\ Append(t, n) \in Seq(Nat) /\ Len(Append(t, n)) = Len(t) + 1
        /\ Growing(Append(t, n))
        /\ \A i \in DOMAIN Append(t, n) :
             Append(t, n)[i] = n \/ \E j \in DOMAIN t : Append(t, n)[i] = t[j]
    BY <2>2, <2>3, <2>5, GrowingAppend
  <2>7. Len(Announced(n)) <= BusCapacity
    BY <1>1, <1>2, <2>2, <2>4, <2>6
  <2> QED
    BY <2>2, <2>4, <2>6, <2>7
<1>3. CASE Len(signals) # BusCapacity
  <2>1. Announced(n) = Append(signals, n)
    BY <1>3 DEF Announced
  <2>2. /\ Append(signals, n) \in Seq(Nat) /\ Len(Append(signals, n)) = Len(signals) + 1
        /\ Growing(Append(signals, n))
        /\ \A i \in DOMAIN Append(signals, n) :
             Append(signals, n)[i] = n \/ \E j \in DOMAIN signals : Append(signals, n)[i] = signals[j]
    BY GrowingAppend
  <2>3. Len(Announced(n)) <= BusCapacity
    BY <1>1, <1>3, <2>1, <2>2
  <2> QED
    BY <2>1, <2>2, <2>3
<1> QED
  BY <1>2, <1>3

-----------------------------------------------------------------------------
(* The steps.                                                              *)

LEMMA InitHolds ==
  ASSUME Init
  PROVE  IInv
<1>1. Sound(NewScheduler)
  BY DEF NewScheduler, Sound, SchedOK, Placed, NoDoubles, Calm, Fields, None, InQueue
<1>2. /\ Sound(sched) /\ sched.nextId = 2 /\ DOMAIN sched.contexts = {1}
      /\ sched.contexts[1].state = "Ready"
  <2> DEFINE c == NewContext("Green", 1, <<>>)
             t == CreateContext(NewScheduler, "Green", 1, <<>>)
  <2>1. NewScheduler.nextId = 1 /\ DOMAIN NewScheduler.contexts = {}
    BY DEF NewScheduler
  <2>2. /\ Sound(t) /\ t.nextId = NewScheduler.nextId + 1
        /\ t.contexts = Put(NewScheduler.contexts, NewScheduler.nextId, c)
        /\ c.state = "Ready"
    BY <1>1, CreateSound DEF Priorities
  <2>3. sched = t
    BY DEF Init
  <2> HIDE DEF c, t
  <2> QED
    BY <2>1, <2>2, <2>3 DEF Put
<1>3. MaxCtx \in Nat \ {0} /\ BusCapacity \in Nat \ {0}
  BY ReactorAssumption
<1>4. /\ signals = <<1>> /\ at = "pick" /\ running = 0 /\ forks = 0 /\ program \in Programs
      /\ interrupt = 0 /\ unseen = FALSE /\ issued = 1
  BY DEF Init, None
<1>5. SignalsOK
  <2>1. signals \in Seq(Nat) /\ Len(signals) = 1 /\ DOMAIN signals = {1} /\ signals[1] = 1
    BY <1>4
  <2>2. ~ EndedAtNop(program, sched, 1)
    BY <1>2 DEF EndedAtNop, StateIs
  <2> QED
    BY <1>2, <1>3, <2>1, <2>2 DEF SignalsOK, Growing
<1>6. InterruptOK
  <2>1. unseen \in BOOLEAN
    BY <1>4
  <2>2. interrupt \in 0 .. MaxCtx /\ issued \in 1 .. MaxCtx + 1
    <3>1. interrupt = 0 /\ issued = 1
      BY <1>4
    <3> QED
      BY <1>3, <3>1
  <2> QED
    BY <2>1, <2>2 DEF InterruptOK
<1>7. LoopOK
  BY <1>2, <1>3, <1>4 DEF LoopOK, Calm
<1> QED
  BY <1>2, <1>3, <1>4, <1>5, <1>6, <1>7 DEF IInv

\* What the next turn finds, when the slice has left sched', and announced one
\* child or none.
LEMMA TurnKeeps ==
  ASSUME IInv, at = "exec", Turned(sched'), InterruptOK',
         at' \in {"pick", "done"}, at' = "done" => NoneActive(sched'),
         UNCHANGED <<program, running>>,
         \/ UNCHANGED <<signals, forks>>
         \/ /\ signals' = Announced(sched.nextId) /\ forks' = forks + 1
            /\ sched'.nextId = sched.nextId + 1
  PROVE  IInv'
<1>1. /\ sched.nextId \in Nat \ {0} /\ MaxCtx \in Nat \ {0}
      /\ sched'.nextId \in sched.nextId .. MaxCtx + 1
      /\ DOMAIN sched.contexts \subseteq 1 .. sched.nextId - 1
  BY ReactorAssumption DEF IInv, Sound, SchedOK, Turned, Others
<1>2. sched'.nextId \in 2 .. MaxCtx + 1
  BY <1>1 DEF IInv
<1>3. forks' \in Nat /\ forks' + 2 <= sched'.nextId
  BY <1>1 DEF IInv
<1>4. program' = program /\ running' = running
  OBVIOUS
\* No signal is for an ended context at a NOP.
<1>5. ASSUME NEW x \in 1 .. sched.nextId - 1, ~ EndedAtNop(program, sched, x),
             x = running => Self.state # "Terminated"
      PROVE  ~ EndedAtNop(program, sched', x)
  <2>1. CASE x = running
    BY <1>4, <1>5, <2>1 DEF Turned, EndedAtNop, AtNop, StateIs, Known
  <2>2. CASE x # running
    <3>1. ~ (x >= sched.nextId)
      BY <1>1
    <3>2. x \in DOMAIN sched'.contexts => x \in DOMAIN sched.contexts /\ sched'.contexts[x] = sched.contexts[x]
      BY <2>2, <3>1 DEF Turned, Others
    <3> QED
      BY <1>4, <1>5, <3>2 DEF EndedAtNop, AtNop, StateIs, Known
  <2> QED
    BY <2>1, <2>2
<1>6. ASSUME NEW i \in DOMAIN signals
      PROVE  signals[i] \in 1 .. sched'.nextId - 1 /\ ~ EndedAtNop(program, sched', signals[i])
  <2>1. signals[i] \in 1 .. sched.nextId - 1 /\ ~ EndedAtNop(program, sched, signals[i])
    BY DEF IInv, SignalsOK
  <2>2. signals[i] = running => Self.state # "Terminated"
    BY DEF IInv, LoopOK, ExecOK, Self
  <2>3. signals[i] \in 1 .. sched'.nextId - 1
    BY <1>1, <2>1
  <2> DEFINE x == signals[i]
  <2>4. x \in 1 .. sched.nextId - 1 /\ ~ EndedAtNop(program, sched, x) /\ (x = running => Self.state # "Terminated")
    BY <2>1, <2>2
  <2>5. \A y \in 1 .. sched.nextId - 1 :
          ~ EndedAtNop(program, sched, y) /\ (y = running => Self.state # "Terminated") => ~ EndedAtNop(program, sched', y)
    BY <1>5
  <2> QED
    BY <2>3, <2>4, <2>5
<1>7. ~ EndedAtNop(program, sched', sched.nextId)
  <2>1. running \in DOMAIN sched.contexts
    BY DEF IInv, LoopOK, ExecOK
  <2>2. sched.nextId \notin DOMAIN sched.contexts
    BY <1>1
  <2>3. sched.nextId \in DOMAIN sched'.contexts => sched'.contexts[sched.nextId].state = "Ready"
    BY <2>1, <2>2 DEF Turned, Others
  <2> QED
    BY <2>3 DEF EndedAtNop, StateIs, Known
<1>8. SignalsOK'
  <2>1. /\ signals \in Seq(Nat) /\ Len(signals) <= BusCapacity /\ Growing(signals)
        /\ \A i \in DOMAIN signals : signals[i] \in 1 .. sched.nextId - 1
    BY DEF IInv, SignalsOK
  <2>2. CASE UNCHANGED <<signals, forks>>
    <3>1. signals' = signals
      BY <2>2
    <3> QED
      BY <1>4, <1>6, <2>1, <3>1 DEF SignalsOK, Growing
  <2>3. CASE signals' = Announced(sched.nextId) /\ sched'.nextId = sched.nextId + 1
    <3>1. \A i \in DOMAIN signals : signals[i] < sched.nextId
      BY <1>1, <2>1
    <3>2. /\ signals' \in Seq(Nat) /\ Len(signals') <= BusCapacity /\ Growing(signals')
          /\ \A i \in DOMAIN signals' :
               signals'[i] = sched.nextId \/ \E j \in DOMAIN signals : signals'[i] = signals[j]
      BY <1>1, <2>1, <2>3, <3>1, AnnouncedIs
    <3>3. sched.nextId \in 1 .. sched'.nextId - 1
      BY <1>1, <2>3
    <3>4. ASSUME NEW i \in DOMAIN signals'
          PROVE  signals'[i] \in 1 .. sched'.nextId - 1 /\ ~ EndedAtNop(program, sched', signals'[i])
      <4>1. CASE signals'[i] = sched.nextId
        BY <1>7, <3>3, <4>1
      <4>2. CASE signals'[i] # sched.nextId
        <5>1. PICK j \in DOMAIN signals : signals'[i] = signals[j]
          BY <3>2, <4>2
        <5> QED
          BY <1>6, <5>1
      <4> QED
        BY <4>1, <4>2
    <3> QED
      BY <1>4, <3>2, <3>4 DEF SignalsOK, Growing
  <2> QED
    BY <2>2, <2>3
<1>9. LoopOK'
  <2>1. Calm(sched')
    BY DEF Turned
  <2>2. at' = "done" => \A id \in DOMAIN sched'.contexts : sched'.contexts[id].state # "Ready"
    BY DEF NoneActive
  <2>3. running' \in 0 .. MaxCtx
    BY <1>4 DEF IInv, LoopOK
  <2> QED
    BY <2>1, <2>2, <2>3 DEF LoopOK, Calm
<1> QED
  BY <1>2, <1>3, <1>4, <1>8, <1>9 DEF IInv, Turned, Sound

LEMMA SignalKeeps ==
  ASSUME IInv, BySignal
  PROVE  IInv'
<1> DEFINE x == Head(signals)
<1>1. /\ signals # <<>> /\ signals \in Seq(Nat) /\ Len(signals) <= BusCapacity /\ Growing(signals)
      /\ signals' = Tail(signals) /\ running' = x
      /\ at' = IF Known(sched, x) THEN "exec" ELSE "pick"
      /\ program' = program /\ sched' = sched /\ interrupt' = interrupt /\ unseen' = unseen
      /\ issued' = issued /\ forks' = forks
  BY DEF BySignal, IInv, SignalsOK
<1>2. /\ Tail(signals) \in Seq(Nat) /\ Len(signals) \in Nat \ {0}
      /\ Len(Tail(signals)) = Len(signals) - 1 /\ x = signals[1] /\ 1 \in DOMAIN signals
      /\ \A i \in DOMAIN Tail(signals) : i + 1 \in DOMAIN signals /\ Tail(signals)[i] = signals[i + 1]
  BY <1>1, TailIs
<1>3. Growing(Tail(signals)) /\ \A i \in DOMAIN Tail(signals) : Tail(signals)[i] # x
  BY <1>1, GrowingTail
<1>4. Calm(sched)
  BY DEF IInv, LoopOK, BySignal
<1> HIDE DEF x
<1>5. x \in 1 .. sched.nextId - 1 /\ ~ EndedAtNop(program, sched, x)
  BY <1>2 DEF IInv, SignalsOK
<1>6. BusCapacity \in Nat /\ MaxCtx \in Nat /\ sched.nextId \in 2 .. MaxCtx + 1
  BY ReactorAssumption DEF IInv
<1>7. SignalsOK'
  <2>1. Len(Tail(signals)) <= BusCapacity
    BY <1>1, <1>2, <1>6
  <2>2. \A i \in DOMAIN Tail(signals) :
          Tail(signals)[i] \in 1 .. sched.nextId - 1 /\ ~ EndedAtNop(program, sched, Tail(signals)[i])
    BY <1>2 DEF IInv, SignalsOK
  <2> QED
    BY <1>1, <1>2, <1>3, <2>1, <2>2 DEF SignalsOK
<1>8. LoopOK'
  <2>1. running' \in 0 .. MaxCtx
    BY <1>1, <1>5, <1>6
  <2>2. CASE Known(sched, x)
    <3>1. OnlyRuns(sched, x)
      BY <1>4 DEF Calm, OnlyRuns
    <3>2. ExecOK'
      BY <1>1, <1>3, <1>5, <2>2, <3>1 DEF ExecOK, Known
    <3> QED
      BY <1>1, <2>1, <2>2, <3>2 DEF LoopOK
  <2>3. CASE ~ Known(sched, x)
    BY <1>1, <1>4, <2>1, <2>3 DEF LoopOK
  <2> QED
    BY <2>2, <2>3
<1> QED
  BY <1>1, <1>7, <1>8 DEF IInv, InterruptOK

LEMMA AskKeeps ==
  ASSUME IInv, at = "pick", AskScheduler, UNCHANGED <<program, signals, forks>>, InterruptOK'
  PROVE  IInv'
<1>1. Sound(sched) /\ Calm(sched) /\ MaxCtx \in Nat /\ sched.nextId \in 2 .. MaxCtx + 1
  BY ReactorAssumption DEF IInv, LoopOK
<1>2. program' = program /\ signals' = signals /\ forks' = forks
  OBVIOUS
<1>3. CASE HasPick(sched)
  <2> DEFINE id == Picked(sched)
             c  == [sched.contexts[id] EXCEPT !.state = "Running"]
  <2>1. sched' = PickNext(sched) /\ running' = id /\ at' = "exec"
    BY <1>3 DEF AskScheduler
  <2>2. /\ Sound(sched') /\ OnlyRuns(sched', id) /\ sched'.nextId = sched.nextId
        /\ id \in DOMAIN sched.contexts /\ sched.contexts[id].state = "Ready"
        /\ sched'.contexts = Put(sched.contexts, id, c)
    BY <1>1, <1>3, <2>1, PickSound
  <2> HIDE DEF id
  <2>3. c.state = "Running"
    <3>1. sched.contexts[id] \in Ctxs(0)
      BY <1>1, <2>2 DEF Sound, SchedOK
    <3> QED
      BY <3>1 DEF Ctxs
  <2> HIDE DEF c
  <2>4. /\ DOMAIN sched'.contexts = DOMAIN sched.contexts
        /\ sched'.contexts[id] = c
        /\ \A x \in DOMAIN sched.contexts \ {id} : sched'.contexts[x] = sched.contexts[x]
    BY <2>2 DEF Put
  <2>5. \A x : ~ EndedAtNop(program, sched, x) => ~ EndedAtNop(program, sched', x)
    BY <2>3, <2>4 DEF EndedAtNop, AtNop, StateIs, Known
  <2>6. ~ EndedAtNop(program, sched', id)
    BY <2>3, <2>4 DEF EndedAtNop, StateIs
  <2>7. SignalsOK'
    BY <1>2, <2>2, <2>5 DEF IInv, SignalsOK
  <2>8. id \in 0 .. MaxCtx
    <3>1. id \in 1 .. sched.nextId - 1
      BY <1>1, <2>2 DEF Sound, SchedOK
    <3> QED
      BY <1>1, <3>1
  <2>9. LoopOK'
    <3>1. ExecOK'
      BY <1>2, <2>1, <2>2, <2>3, <2>4, <2>6 DEF ExecOK
    <3> QED
      BY <2>1, <2>8, <3>1 DEF LoopOK
  <2> QED
    BY <1>2, <2>2, <2>7, <2>9 DEF IInv
<1>4. CASE ~ HasPick(sched)
  <2>1. sched' = PickNothing(sched) /\ running' = running /\ at' = "done"
    BY <1>4 DEF AskScheduler
  <2>2. /\ Sound(sched') /\ sched'.contexts = sched.contexts /\ sched'.nextId = sched.nextId
        /\ \A id \in DOMAIN sched.contexts : sched.contexts[id].state # "Ready"
    BY <1>1, <1>4, <2>1, NothingSound
  <2>3. \A x : ~ EndedAtNop(program, sched, x) => ~ EndedAtNop(program, sched', x)
    BY <2>2 DEF EndedAtNop, AtNop, StateIs, Known
  <2>4. SignalsOK'
    BY <1>2, <2>2, <2>3 DEF IInv, SignalsOK
  <2>5. LoopOK'
    BY <1>1, <2>1, <2>2 DEF IInv, LoopOK, Calm
  <2> QED
    BY <1>2, <2>2, <2>4, <2>5 DEF IInv
<1> QED
  BY <1>3, <1>4

\* The instructions that announce nobody and raise no interrupt.
LEMMA PlainKeeps ==
  ASSUME IInv, at = "exec", Turned(sched'), NextTurn, UNCHANGED forks, Quiet
  PROVE  IInv'
<1>1. InterruptOK'
  BY DEF IInv, InterruptOK, Quiet
<1>2. at' = "pick" /\ UNCHANGED <<program, running>> /\ UNCHANGED <<signals, forks>>
  BY DEF NextTurn, Quiet
<1> QED
  BY <1>1, <1>2, TurnKeeps

\* What is executed is an instruction, and not a NOP when it is another.
LEMMA FetchedIs ==
  ASSUME IInv, NEW op, Fetched(op)
  PROVE  /\ at = "exec" /\ running \in DOMAIN sched.contexts
         /\ Instr.op = op /\ IsInstruction(Instr) /\ Self \in Ctxs(0) /\ Self.pc \in Nat
         /\ DOMAIN program \subseteq Nat
         /\ op # "NOP" => ~ AtNop(program, sched, running)
         /\ op = "NOP" => AtNop(program, sched, running)
<1>1. at = "exec" /\ running \in DOMAIN sched.contexts /\ Self \in Ctxs(0)
      /\ Self.pc \in DOMAIN program /\ Instr.op = op
  BY DEF Fetched, IInv, LoopOK, ExecOK, Sound, SchedOK, Self
<1>2. IsInstruction(Instr) /\ DOMAIN program = 1 .. Len(program)
  BY <1>1, ReactorAssumption DEF IInv, Instr
<1>3. DOMAIN program \subseteq Nat
  BY <1>2
<1> QED
  BY <1>1, <1>2, <1>3 DEF AtNop, Self, Instr, Ctxs

LEMMA JumpTurns ==
  ASSUME IInv, NEW op, Fetched(op), op \in {"JUMP", "IF"}, JumpTo(Instr.target)
  PROVE  Turned(sched')
<1>1. Touched(sched) /\ ~ AtNop(program, sched, running) /\ Instr.target \in Nat
  BY FetchedIs, NothingTouched DEF IsInstruction
<1>2. CASE Instr.target \in DOMAIN program
  <2>1. Touched(Moved(sched, running, Instr.target))
    BY <1>1, FetchedIs, MovedTouched
  <2>2. sched' = SliceEnds(Moved(sched, running, Instr.target), running, FALSE)
    BY <1>2 DEF JumpTo, Turn
  <2> QED
    BY <2>1, <2>2, EndsTurn
<1>3. CASE Instr.target \notin DOMAIN program
  <2>1. sched' = SliceFails(sched, running)
    BY <1>3 DEF JumpTo, Fail
  <2> QED
    BY <1>1, <2>1, FailsTurn DEF Self
<1> QED
  BY <1>2, <1>3

LEMMA ExecTurns ==
  ASSUME IInv, FetchFails \/ Halt \/ Nop \/ Unknown \/ Other \/ Attn \/ Jump \/ JumpIf \/ CtxSwitch
               \/ Fork \/ Abort
  PROVE  at = "exec" /\ Turned(sched')
<1>1. ASSUME at = "exec", Turn(sched, TRUE)
      PROVE  Turned(sched')
  <2>1. Touched(sched)
    BY <1>1, NothingTouched
  <2> QED
    BY <1>1, <2>1, EndsTurn DEF Turn
<1>2. ASSUME at = "exec", ~ AtNop(program, sched, running), Fail(sched)
      PROVE  Turned(sched')
  <2>1. Touched(sched)
    BY <1>2, NothingTouched
  <2> QED
    BY <1>2, <2>1, FailsTurn DEF Fail, Self
<1>3. CASE FetchFails
  <2>1. at = "exec" /\ ~ AtNop(program, sched, running)
    BY <1>3 DEF FetchFails, AtNop, Self
  <2> QED
    BY <1>3, <2>1, EndsInPlace DEF FetchFails
<1>4. CASE Halt
  <2>1. at = "exec" /\ ~ AtNop(program, sched, running)
    BY <1>4, FetchedIs DEF Halt
  <2> QED
    BY <1>4, <2>1, EndsInPlace DEF Halt
<1>5. CASE Nop
  <2>1. at = "exec" /\ AtNop(program, sched, running)
    BY <1>5, FetchedIs DEF Nop
  <2> QED
    BY <1>5, <2>1, NopTurn DEF Nop
<1>6. CASE Unknown
  <2>1. at = "exec" /\ ~ AtNop(program, sched, running)
    BY <1>6, FetchedIs DEF Unknown
  <2> QED
    BY <1>2, <1>6, <2>1 DEF Unknown
<1>7. CASE Other
  <2>1. at = "exec" /\ ~ AtNop(program, sched, running)
    BY <1>7, FetchedIs DEF Other
  <2> QED
    BY <1>1, <1>2, <1>7, <2>1 DEF Other
<1>8. CASE Attn
  <2>1. at = "exec" /\ ~ AtNop(program, sched, running)
    BY <1>8, FetchedIs DEF Attn
  <2> QED
    BY <1>1, <1>2, <1>8, <2>1 DEF Attn
<1>9. CASE Jump
  BY <1>9, JumpTurns, FetchedIs DEF Jump
<1>10. CASE JumpIf
  <2>1. at = "exec" /\ Fetched("IF")
    BY <1>10 DEF JumpIf, Fetched
  <2> QED
    BY <1>1, <1>10, <2>1, JumpTurns DEF JumpIf
<1>11. CASE CtxSwitch
  <2>1. at = "exec" /\ ~ AtNop(program, sched, running) /\ Instr.prio \in Priorities
    <3>1. Fetched("CTX_SWITCH")
      BY <1>11 DEF CtxSwitch
    <3> QED
      BY <3>1, FetchedIs DEF IsInstruction
  <2>2. ASSUME Turn(MaybePreempt(SetContext(sched, running, [Self EXCEPT !.priority = Instr.prio])), TRUE)
        PROVE  Turned(sched')
    <3> DEFINE u == MaybePreempt(SetContext(sched, running, [Self EXCEPT !.priority = Instr.prio]))
    <3>1. Touched(u)
      BY <2>1, SwitchTouched
    <3>2. sched' = SliceEnds(u, running, TRUE)
      BY <2>2 DEF Turn
    <3> HIDE DEF u
    <3> QED
      BY <3>1, <3>2, EndsTurn
  <2> QED
    BY <1>2, <1>11, <2>1, <2>2 DEF CtxSwitch
<1>12. CASE Fork
  <2> DEFINE t == CreateContext(sched, Instr.prio, Self.pc + 1, <<>>)
  <2>1. /\ at = "exec" /\ ~ AtNop(program, sched, running)
        /\ Instr.prio \in Priorities /\ Self.pc + 1 \in Nat
    <3>1. Fetched("FORK")
      BY <1>12 DEF Fork
    <3> QED
      BY <3>1, FetchedIs DEF IsInstruction
  <2>2. Touched(t) /\ t.contexts[running] = Self
    BY <1>12, <2>1, ForkTouched DEF Fork
  <2>3. sched' = SliceEnds(t, running, TRUE) \/ sched' = SliceFails(t, running)
    BY <1>12 DEF Fork, Turn, Fail
  <2> HIDE DEF t
  <2> QED
    BY <2>1, <2>2, <2>3, EndsTurn, FailsTurn
<1>13. CASE Abort
  <2>1. at = "exec" /\ ~ AtNop(program, sched, running)
    BY <1>13, FetchedIs DEF Abort
  <2>2. ASSUME NEW target \in 1 .. MaxCtx, Turn(Remove(sched, target), TRUE)
        PROVE  Turned(sched')
    <3>1. Touched(Remove(sched, target))
      BY <2>1, RemoveTouched
    <3> QED
      BY <2>2, <3>1, EndsTurn DEF Turn
  <2> QED
    BY <1>1, <1>2, <1>13, <2>1, <2>2 DEF Abort
<1> QED
  BY <1>3, <1>4, <1>5, <1>6, <1>7, <1>8, <1>9, <1>10, <1>11, <1>12, <1>13

LEMMA HaltKeeps ==
  ASSUME IInv, Halt
  PROVE  IInv'
<1>1. at = "exec" /\ Turned(sched')
  BY ExecTurns
<1>2. InterruptOK'
  BY DEF IInv, InterruptOK, Quiet, Halt
<1>3. /\ at' \in {"pick", "done"} /\ (at' = "done" => NoneActive(sched'))
      /\ UNCHANGED <<program, running>> /\ UNCHANGED <<signals, forks>>
  BY DEF Halt, Quiet
<1> QED
  BY <1>1, <1>2, <1>3, TurnKeeps

LEMMA ForkKeeps ==
  ASSUME IInv, Fork
  PROVE  IInv'
<1>1. at = "exec" /\ Turned(sched')
  BY ExecTurns
<1>2. InterruptOK'
  BY DEF IInv, InterruptOK, Fork
<1>3. at' = "pick" /\ UNCHANGED <<program, running>>
  BY DEF Fork, NextTurn
<1>4. CASE UNCHANGED <<signals, forks>>
  BY <1>1, <1>2, <1>3, <1>4, TurnKeeps
<1>5. CASE ~ UNCHANGED <<signals, forks>>
  <2> DEFINE t == CreateContext(sched, Instr.prio, Self.pc + 1, <<>>)
  <2>1. sched' = SliceEnds(t, running, TRUE) /\ signals' = Announced(sched.nextId) /\ forks' = forks + 1
    BY <1>5 DEF Fork, Turn
  <2>2. Instr.prio \in Priorities /\ Self.pc + 1 \in Nat /\ sched.nextId <= MaxCtx
    <3>1. Fetched("FORK") /\ sched.nextId <= MaxCtx
      BY DEF Fork
    <3> QED
      BY <3>1, FetchedIs DEF IsInstruction
  <2>3. Touched(t) /\ t.nextId = sched.nextId + 1
    BY <1>1, <2>2, ForkTouched
  <2> HIDE DEF t
  <2>4. sched'.nextId = t.nextId
    BY <2>1, <2>3, EndsRests DEF Touched, Rests
  <2> QED
    BY <1>1, <1>2, <1>3, <2>1, <2>3, <2>4, TurnKeeps
<1> QED
  BY <1>4, <1>5

LEMMA AbortKeeps ==
  ASSUME IInv, Abort
  PROVE  IInv'
<1>1. at = "exec" /\ Turned(sched')
  BY ExecTurns
<1>2. InterruptOK'
  <2>1. CASE UNCHANGED <<interrupt, unseen, issued>>
    BY <2>1 DEF IInv, InterruptOK
  <2>2. CASE \E target \in 1 .. MaxCtx : interrupt' = target /\ unseen' = TRUE /\ issued' = sched.nextId
    <3>1. PICK target \in 1 .. MaxCtx : interrupt' = target /\ unseen' = TRUE /\ issued' = sched.nextId
      BY <2>2
    <3>2. unseen' \in BOOLEAN
      BY <3>1
    <3>3. interrupt' \in 0 .. MaxCtx
      BY <3>1
    <3>4. issued' \in 1 .. MaxCtx + 1
      <4>1. sched.nextId \in 2 .. MaxCtx + 1 /\ MaxCtx \in Nat
        BY ReactorAssumption DEF IInv
      <4> QED
        BY <3>1, <4>1
    <3> QED
      BY <3>2, <3>3, <3>4 DEF InterruptOK
  <2> QED
    BY <2>1, <2>2 DEF Abort
<1>3. at' = "pick" /\ UNCHANGED <<program, running>> /\ UNCHANGED <<signals, forks>>
  BY DEF Abort, NextTurn
<1> QED
  BY <1>1, <1>2, <1>3, TurnKeeps

LEMMA NextKeeps ==
  ASSUME IInv, Next
  PROVE  IInv'
<1>1. CASE BySignal
  BY <1>1, SignalKeeps
<1>2. CASE ByTimer
  <2>1. at = "pick" /\ AskScheduler /\ UNCHANGED <<program, signals, forks>> /\ InterruptOK'
    BY <1>2 DEF ByTimer, Quiet, IInv, InterruptOK
  <2> QED
    BY <2>1, AskKeeps
<1>3. CASE ByInterrupt
  <2>1. unseen' \in BOOLEAN
    BY <1>3 DEF ByInterrupt
  <2>2. InterruptOK'
    BY <1>3, <2>1 DEF ByInterrupt, IInv, InterruptOK
  <2>3. at = "pick" /\ AskScheduler /\ UNCHANGED <<program, signals, forks>>
    BY <1>3 DEF ByInterrupt
  <2> QED
    BY <2>2, <2>3, AskKeeps
<1>4. CASE StepLimit
  <2>1. at = "pick" /\ at' = "cut" /\ UNCHANGED <<program, sched, running, forks, signals, interrupt, unseen, issued>>
    BY <1>4 DEF StepLimit, Quiet
  <2>2. LoopOK'
    BY <2>1 DEF IInv, LoopOK
  <2>3. SignalsOK' /\ InterruptOK'
    BY <2>1 DEF IInv, SignalsOK, InterruptOK
  <2> QED
    BY <2>1, <2>2, <2>3 DEF IInv
<1>5. CASE FetchFails \/ Nop \/ Unknown \/ Other \/ Attn \/ Jump \/ JumpIf \/ CtxSwitch
  <2>1. at = "exec" /\ Turned(sched')
    BY <1>5, ExecTurns
  <2>2. NextTurn /\ UNCHANGED forks /\ Quiet
    BY <1>5 DEF FetchFails, Nop, Unknown, Other, Attn, Jump, JumpIf, CtxSwitch
  <2> QED
    BY <2>1, <2>2, PlainKeeps
<1>6. CASE Halt
  BY <1>6, HaltKeeps
<1>7. CASE Fork
  BY <1>7, ForkKeeps
<1>8. CASE Abort
  BY <1>8, AbortKeeps
<1> QED
  BY <1>1, <1>2, <1>3, <1>4, <1>5, <1>6, <1>7, <1>8 DEF Next

LEMMA Invariant == Spec => []IInv
<1>1. Init => IInv
  BY InitHolds
<1>2. IInv /\ [Next]_vars => IInv'
  <2> SUFFICES ASSUME IInv, [Next]_vars
               PROVE  IInv'
    OBVIOUS
  <2>1. CASE Next
    BY <2>1, NextKeeps
  <2>2. CASE UNCHANGED vars
    <3>1. UNCHANGED <<program, sched, at, running, signals, interrupt, unseen, issued, forks>>
      BY <2>2 DEF vars
    <3>2. SignalsOK' /\ InterruptOK' /\ LoopOK'
      BY <3>1 DEF IInv, SignalsOK, InterruptOK, LoopOK, ExecOK
    <3> QED
      BY <3>1, <3>2 DEF IInv
  <2> QED
    BY <2>1, <2>2
<1> QED
  BY <1>1, <1>2, PTL DEF Spec

-----------------------------------------------------------------------------
(* What the invariant says.                                                *)

LEMMA TypeHolds ==
  ASSUME IInv
  PROVE  TypeOK
<1>1. /\ SchedOK(sched, 0) /\ sched.nextId \in 2 .. MaxCtx + 1 /\ MaxCtx \in Nat \ {0}
      /\ forks \in Nat /\ forks + 2 <= sched.nextId
  BY ReactorAssumption DEF IInv, Sound
<1>2. /\ DOMAIN sched = {"contexts", "queue", "nextId", "current"}
      /\ sched.nextId \in 1 .. MaxCtx + 1
      /\ DOMAIN Contexts \subseteq 1 .. sched.nextId - 1
  BY <1>1 DEF SchedOK, Fields, Contexts
<1>3. \A id \in DOMAIN Contexts : IsContext(Contexts[id])
  <2> TAKE id \in DOMAIN Contexts
  <2> DEFINE c == Contexts[id]
  <2>1. c \in Ctxs(0)
    BY <1>1 DEF SchedOK, Contexts
  <2> HIDE DEF c
  <2>2. /\ DOMAIN c = {"priority", "state", "pc", "calls"}
        /\ c.priority \in Priorities /\ c.state \in States /\ c.pc \in Nat
        /\ c.calls \in Seq(Nat) /\ Len(c.calls) <= 0
    BY <2>1 DEF Ctxs
  <2>3. c.calls = <<>>
    BY <2>2
  <2> QED
    BY <2>2, <2>3 DEF IsContext, c
<1>4. sched.queue \in [Priorities -> Seq(Ids)]
  <2>1. sched.queue = [p \in Priorities |-> sched.queue[p]]
    BY <1>1 DEF SchedOK
  <2>2. ASSUME NEW p \in Priorities
        PROVE  sched.queue[p] \in Seq(Ids)
    <3>1. /\ sched.queue[p] \in Seq(Nat) /\ Len(sched.queue[p]) \in Nat
          /\ DOMAIN sched.queue[p] = 1 .. Len(sched.queue[p])
      BY <1>1, QueuesFit
    <3>2. \A i \in DOMAIN sched.queue[p] : sched.queue[p][i] \in 1 .. sched.nextId - 1
      BY <1>1 DEF IInv, Sound, Placed, SchedOK
    <3>3. 1 .. sched.nextId - 1 \subseteq Ids
      BY <1>1 DEF Ids
    <3> QED
      BY <3>1, <3>2, <3>3, SeqWithin
  <2> QED
    BY <2>1, <2>2
<1>5. sched.current \in {None} \cup Ids
  BY <1>1 DEF SchedOK, None, Ids
<1>6. running \in {None} \cup Ids
  BY <1>1 DEF IInv, LoopOK, None, Ids
<1>7. signals \in Seq(1 .. sched.nextId - 1) /\ Len(signals) <= BusCapacity
  <2>1. signals \in Seq(Nat) /\ Len(signals) <= BusCapacity
        /\ \A i \in DOMAIN signals : signals[i] \in 1 .. sched.nextId - 1
    BY DEF IInv, SignalsOK
  <2> QED
    BY <2>1, SeqWithin
<1>8. interrupt \in {None} \cup Ids
  BY <1>1 DEF IInv, InterruptOK, None, Ids
<1>9. forks \in 0 .. MaxCtx
  BY <1>1
<1> QED
  BY <1>2, <1>3, <1>4, <1>5, <1>6, <1>7, <1>8, <1>9 DEF TypeOK, IInv, LoopOK, InterruptOK

LEMMA PlacesHold ==
  ASSUME IInv
  PROVE  ReadyQueuedOnce
<1> DEFINE q == sched.queue
           total == Len(q["Red"]) + Len(q["Blue"]) + Len(q["Green"])
<1>1. Sound(sched)
  BY DEF IInv
<1>2. NoDoubles(q)
  BY <1>1 DEF Sound, Placed
<1>3. \A p \in Priorities : Len(q[p]) \in Nat /\ DOMAIN q[p] = 1 .. Len(q[p])
  BY <1>1, QueuesFit DEF Sound
<1>4. \A p \in Priorities : DOMAIN q[p] \subseteq 1 .. total
  <2>1. Len(q["Red"]) \in Nat /\ Len(q["Blue"]) \in Nat /\ Len(q["Green"]) \in Nat
    BY <1>3 DEF Priorities
  <2>2. /\ \A p \in Priorities : Len(q[p]) <= total
        /\ total \in Nat
    <3>1. \A a, b, c \in Nat : /\ a <= a + b + c /\ b <= a + b + c /\ c <= a + b + c
                               /\ a + b + c \in Nat
      OBVIOUS
    <3>2. Len(q["Red"]) <= total /\ Len(q["Blue"]) <= total /\ Len(q["Green"]) <= total /\ total \in Nat
      BY <2>1, <3>1
    <3> HIDE DEF total
    <3>3. ASSUME NEW p \in Priorities
          PROVE  Len(q[p]) <= total
      <4>1. p = "Red" \/ p = "Blue" \/ p = "Green"
        BY DEF Priorities
      <4> QED
        BY <3>2, <4>1
    <3> QED
      BY <3>2, <3>3
  <2> HIDE DEF total
  <2> QED
    <3> SUFFICES ASSUME NEW p \in Priorities, NEW i \in DOMAIN q[p]
                 PROVE  i \in 1 .. total
      OBVIOUS
    <3>1. DOMAIN q[p] = 1 .. Len(q[p]) /\ Len(q[p]) \in Nat
      BY <1>3
    <3>2. Len(q[p]) <= total /\ total \in Nat
      BY <2>2
    <3> QED
      BY <3>1, <3>2
<1>5. ASSUME NEW id \in Ids, NEW x \in Places(id), NEW y \in Places(id)
      PROVE  x = y
  <2>1. /\ x \in Priorities \X (1 .. total) /\ x[2] \in DOMAIN q[x[1]] /\ q[x[1]][x[2]] = id
        /\ y \in Priorities \X (1 .. total) /\ y[2] \in DOMAIN q[y[1]] /\ q[y[1]][y[2]] = id
    BY DEF Places
  <2> HIDE DEF total
  <2>2. x[1] \in Priorities /\ y[1] \in Priorities /\ x = <<x[1], x[2]>> /\ y = <<y[1], y[2]>>
    BY <2>1
  <2>3. x[1] = y[1] /\ x[2] = y[2]
    BY <1>2, <2>1, <2>2 DEF NoDoubles
  <2> QED
    BY <2>2, <2>3
<1>6. ASSUME NEW id \in Ids, NEW x \in Places(id)
      PROVE  Cardinality(Places(id)) = 1
  <2>1. Places(id) = {x}
    BY <1>5
  <2> QED
    BY <2>1, FS_Singleton
<1>7. ASSUME NEW id \in Ids, Places(id) = {}
      PROVE  Cardinality(Places(id)) = 0
  BY <1>7, FS_EmptySet
<1>8. ASSUME NEW id \in Ids, StateIs(sched, id, "Ready")
      PROVE  Places(id) # {}
  <2>1. PICK p \in Priorities : \E i \in DOMAIN q[p] : q[p][i] = id
    BY <1>1, <1>8 DEF Sound, Placed, InQueue, StateIs, Known
  <2>2. PICK i \in DOMAIN q[p] : q[p][i] = id
    BY <2>1
  <2>3. i \in 1 .. total
    BY <1>4, <2>2
  <2> DEFINE x == <<p, i>>
  <2>4. x \in Priorities \X (1 .. total) /\ x[1] = p /\ x[2] = i
    BY <2>3
  <2> HIDE DEF x, total
  <2>5. x \in Places(id)
    BY <2>2, <2>4 DEF Places, total
  <2> QED
    BY <2>5
<1>9. ASSUME NEW id \in Ids
      PROVE  /\ Cardinality(Places(id)) <= 1
             /\ StateIs(sched, id, "Ready") => Cardinality(Places(id)) = 1
  <2>1. CASE Places(id) = {}
    BY <1>7, <1>8, <2>1
  <2>2. CASE Places(id) # {}
    BY <1>6, <2>2
  <2> QED
    BY <2>1, <2>2
<1> QED
  BY <1>9 DEF ReadyQueuedOnce

LEMMA EndHolds ==
  ASSUME IInv
  PROVE  EndsWhenAllEnded
<1> SUFFICES ASSUME at = "done", NEW id \in DOMAIN sched.contexts
             PROVE  sched.contexts[id].state = "Terminated"
  BY DEF EndsWhenAllEnded, Contexts
<1>1. /\ sched.contexts[id] \in Ctxs(0) /\ sched.contexts[id].state # "Blocked"
      /\ sched.contexts[id].state # "Ready" /\ sched.contexts[id].state # "Running"
  BY DEF IInv, Sound, SchedOK, LoopOK, Calm
<1> QED
  BY <1>1 DEF Ctxs, States

\* What a step does to an id that has been issued.
NoRevival(s, t) ==
  \A id \in 1 .. s.nextId - 1 :
    /\ id \notin DOMAIN s.contexts => id \notin DOMAIN t.contexts
    /\ StateIs(s, id, "Terminated") => ~ (Known(t, id) /\ t.contexts[id].state # "Terminated")

LEMMA NextRevivesNobody ==
  ASSUME IInv, Next
  PROVE  NoRevival(sched, sched')
<1>1. CASE at = "exec" /\ Turned(sched')
  <2>1. running \in DOMAIN sched.contexts /\ sched.nextId \in Nat
    BY <1>1 DEF IInv, LoopOK, ExecOK
  <2>2. ASSUME NEW id \in 1 .. sched.nextId - 1, id # running, id \in DOMAIN sched'.contexts
        PROVE  id \in DOMAIN sched.contexts /\ sched'.contexts[id] = sched.contexts[id]
    <3>1. ~ (id >= sched.nextId)
      BY <2>1
    <3> QED
      BY <1>1, <2>2, <3>1 DEF Turned, Others
  <2>3. ASSUME running \in DOMAIN sched'.contexts, StateIs(sched, running, "Terminated")
        PROVE  sched'.contexts[running].state = "Terminated"
    BY <1>1, <2>3 DEF Turned, Self, StateIs
  <2> QED
    BY <2>1, <2>2, <2>3 DEF NoRevival, StateIs, Known
<1>2. CASE at = "pick" /\ AskScheduler
  <2>1. CASE HasPick(sched)
    <3> DEFINE id == Picked(sched)
               c  == [sched.contexts[id] EXCEPT !.state = "Running"]
    <3>1. Sound(sched) /\ Calm(sched) /\ sched' = PickNext(sched)
      BY <1>2, <2>1 DEF IInv, LoopOK, AskScheduler
    <3>2. /\ id \in DOMAIN sched.contexts /\ sched.contexts[id].state = "Ready"
          /\ sched'.contexts = Put(sched.contexts, id, c)
      BY <2>1, <3>1, PickSound
    <3> HIDE DEF id, c
    <3> QED
      BY <3>2 DEF NoRevival, Put, StateIs, Known
  <2>2. CASE ~ HasPick(sched)
    <3>1. sched'.contexts = sched.contexts
      BY <1>2, <2>2, NothingSound DEF IInv, AskScheduler
    <3> QED
      BY <3>1 DEF NoRevival, StateIs, Known
  <2> QED
    BY <2>1, <2>2
<1>3. CASE UNCHANGED sched
  BY <1>3 DEF NoRevival, StateIs, Known
<1>4. \/ FetchFails \/ Halt \/ Nop \/ Unknown \/ Other \/ Attn \/ Jump \/ JumpIf \/ CtxSwitch
      \/ Fork \/ Abort
      \/ at = "pick" /\ AskScheduler
      \/ UNCHANGED sched
  BY DEF Next, BySignal, ByTimer, ByInterrupt, StepLimit
<1> QED
  BY <1>1, <1>2, <1>3, <1>4, ExecTurns

-----------------------------------------------------------------------------
(* Theorems.                                                               *)

\* Every variable of the reactor keeps its type, and no signal, queue entry or
\* context has an id that create_context has not issued (run_nop).
THEOREM TypeCorrect == Spec => []TypeOK
<1>1. IInv => TypeOK
  BY TypeHolds
<1> QED
  BY <1>1, Invariant, PTL

\* A Ready context is queued, and once: for any program and any capacity of
\* the bus, no signal that is late, early or lost loses a context or doubles
\* one (the select! of run_nop, pick_next, yield_current).
THEOREM ReadyAreQueuedOnce == Spec => []ReadyQueuedOnce
<1>1. IInv => ReadyQueuedOnce
  BY PlacesHold
<1> QED
  BY <1>1, Invariant, PTL

\* The reactor ends on its own only when every context has ended: what the bus
\* has forgotten, the timer finds (run_nop).
THEOREM EndIsJustified == Spec => []EndsWhenAllEnded
<1>1. IInv => EndsWhenAllEnded
  BY EndHolds
<1> QED
  BY <1>1, Invariant, PTL

\* A signal that comes after its context has ended or was removed brings
\* nobody back, although NOP makes its context Ready whatever its state
\* (run_nop, exec_fork_nop, exec_abort_nop).
THEOREM SignalsWakeNobody == Spec => LateSignalsWakeNobody
<1>1. ASSUME IInv, [Next]_vars
      PROVE  [\A id \in 1 .. sched.nextId - 1 :
                /\ id \notin DOMAIN Contexts => id \notin DOMAIN Contexts'
                /\ StateIs(sched, id, "Terminated") => ~ (Known(sched', id)
                     /\ sched'.contexts[id].state # "Terminated")]_vars
  <2>1. CASE Next
    <3>1. NoRevival(sched, sched')
      BY <1>1, <2>1, NextRevivesNobody
    <3> QED
      BY <3>1 DEF NoRevival, Contexts
  <2>2. CASE UNCHANGED vars
    BY <2>2
  <2> QED
    BY <1>1, <2>1, <2>2
<1> QED
  BY <1>1, Invariant, PTL DEF Spec, LateSignalsWakeNobody
=============================================================================
