----------------------------- MODULE Scheduler -----------------------------
(***************************************************************************)
(* The context table and the three run queues: `Scheduler` of              *)
(* src/src/context.rs.                                                     *)
(*                                                                         *)
(* Its methods are operators on the scheduler's state, a record            *)
(*   [contexts, queue, nextId, current]                                    *)
(* because a handler of the VM makes several calls in a row.  They say     *)
(* nothing of when they are called: RunLoop.tla does.                      *)
(*                                                                         *)
(* Abstraction: of a context only what scheduling and control flow read    *)
(* is kept (priority, state, pc, call_stack); the pc counts instructions,  *)
(* not bytes.                                                              *)
(***************************************************************************)
EXTENDS Naturals, Sequences, FiniteSets, Functions

Priorities == {"Red", "Blue", "Green"}
States     == {"Ready", "Running", "Blocked", "Terminated"}

\* Red > Blue > Green.
Rank == [Red |-> 2, Blue |-> 1, Green |-> 0]

\* `current: None`; the ids start at 1, 0 is reserved.
None == 0

NewScheduler ==
  [contexts |-> [id \in {} |-> None],
   queue    |-> [p \in Priorities |-> <<>>],
   nextId   |-> 1,
   current  |-> None]

NewContext(p, pc, calls) ==
  [priority |-> p, state |-> "Ready", pc |-> pc, calls |-> calls]

Known(s, id)      == id \in DOMAIN s.contexts
StateIs(s, id, x) == Known(s, id) /\ s.contexts[id].state = x

SetContext(s, id, c) ==
  [s EXCEPT !.contexts = [i \in DOMAIN s.contexts \cup {id} |->
                            IF i = id THEN c ELSE s.contexts[i]]]

\* get_mut(id).map(|c| c.state = x): nothing happens to an id that is gone.
SetState(s, id, x) ==
  IF Known(s, id) THEN SetContext(s, id, [s.contexts[id] EXCEPT !.state = x]) ELSE s

PushBack(s, p, id) ==
  [s EXCEPT !.queue = [s.queue EXCEPT ![p] = Append(@, id)]]

Enqueue(s, id) ==
  IF Known(s, id) /\ s.contexts[id].state # "Terminated"
  THEN PushBack(s, s.contexts[id].priority, id) ELSE s

\* create_context: a new Ready context under an id never used before.
CreateContext(s, p, pc, calls) ==
  Enqueue([SetContext(s, s.nextId, NewContext(p, pc, calls)) EXCEPT !.nextId = s.nextId + 1],
          s.nextId)

\* The subsequence of q at the positions K (SelectSeq, without the recursion).
KeepAt(q, K) ==
  [n \in 1 .. Cardinality(K) |->
     q[CHOOSE i \in K : Cardinality({j \in K : j <= i}) = n]]

\* `retain(|&x| x != id)` on one queue.
Retained(q, id) == KeepAt(q, {i \in DOMAIN q : q[i] # id})

DequeueId(s, id) == [s EXCEPT !.queue = [p \in Priorities |-> Retained(s.queue[p], id)]]

\* Mutated: the queues are left alone.
RemoveLeavesQueue(s, id) ==
  [s EXCEPT !.contexts = Restrict(s.contexts, DOMAIN s.contexts \ {id}),
            !.current  = IF s.current = id THEN None ELSE s.current]

Remove(s, id) ==
  [DequeueId(s, id)
     EXCEPT !.contexts = Restrict(s.contexts, DOMAIN s.contexts \ {id}),
            !.current  = IF s.current = id THEN None ELSE s.current]

-----------------------------------------------------------------------------
(* pick_next.                                                              *)

\* What pick_next throws away when it is at the front of a queue.
Skipped(s, id) == Known(s, id) /\ s.contexts[id].state \in {"Terminated", "Blocked"}

Pickable(s, p) == {i \in DOMAIN s.queue[p] : ~ Skipped(s, s.queue[p][i])}

HasPick(s) == \E p \in Priorities : Pickable(s, p) # {}

\* Mutated: Blue and Green are looked at before Red.
PickBandReversed(s) ==
  CHOOSE p \in Priorities :
    /\ Pickable(s, p) # {}
    /\ \A r \in Priorities : Pickable(s, r) # {} => Rank[p] <= Rank[r]

PickBand(s) ==
  CHOOSE p \in Priorities :
    /\ Pickable(s, p) # {}
    /\ \A r \in Priorities : Pickable(s, r) # {} => Rank[r] <= Rank[p]

PickAt(s, p) == CHOOSE i \in Pickable(s, p) : \A j \in Pickable(s, p) : i <= j

Picked(s) == s.queue[PickBand(s)][PickAt(s, PickBand(s))]

\* The first context that is not skipped, from the highest queue that has
\* one, leaves its queue with the skipped ones before it and is Running.
PickNext(s) ==
  LET p == PickBand(s)
      q == [r \in Priorities |->
              IF Rank[r] > Rank[p] THEN <<>>
              ELSE IF r = p THEN SubSeq(s.queue[p], PickAt(s, p) + 1, Len(s.queue[p]))
              ELSE s.queue[r]]
  IN  SetState([s EXCEPT !.queue = q, !.current = Picked(s)], Picked(s), "Running")

\* pick_next that ends in Err: the three queues have been emptied.
PickNothing(s) == [s EXCEPT !.queue = [p \in Priorities |-> <<>>]]

-----------------------------------------------------------------------------
(* Time slices.                                                            *)

\* Mutated: the context goes back to the front of its queue.
YieldCurrentToFront(s) ==
  LET id == s.current
      t  == [s EXCEPT !.current = None]
      u  == IF StateIs(t, id, "Running") THEN SetState(t, id, "Ready") ELSE t
      p  == u.contexts[id].priority
  IN  IF StateIs(u, id, "Ready")
      THEN [u EXCEPT !.queue = [u.queue EXCEPT ![p] = <<id>> \o @]] ELSE u

YieldCurrent(s) ==
  LET id == s.current
      t  == [s EXCEPT !.current = None]
      u  == IF StateIs(t, id, "Running") THEN SetState(t, id, "Ready") ELSE t
  IN  IF StateIs(u, id, "Ready") THEN PushBack(u, u.contexts[id].priority, id) ELSE u

\* A Red in wait sends a current context of another priority back.
MaybePreempt(s) ==
  IF s.queue["Red"] # <<>> /\ Known(s, s.current) /\ s.contexts[s.current].priority # "Red"
  THEN YieldCurrent(s) ELSE s

\* active_count() = 0.
NoneActive(s) == \A id \in DOMAIN s.contexts : s.contexts[id].state = "Terminated"
=============================================================================
