---------------------------- MODULE Dispatcher -----------------------------
(***************************************************************************)
(* What the scheduler of src/src/context.rs promises to the contexts, with *)
(* the time they have waited in the place of the three queues, and the     *)
(* gates of docs/RFC-0018-CLUSTER-LOCAL.md in the place of the barriers:   *)
(* one context has the turn, it is the one that has waited longest in the  *)
(* highest band, whoever waits at a gate does nothing until the gate frees *)
(* all that wait there, and what has ended or is gone stays so.            *)
(***************************************************************************)
EXTENDS Naturals

CONSTANTS
  Bands, Rank, \* the bands, and a number for each: the higher goes first
  Gates        \* where contexts wait for one another

VARIABLES
  life,   \* the contexts: id -> its state and its band
  next,   \* the ids from here on have not been given out
  ahead,  \* <<x, y>>: x and y are ready in one band, x has waited longer
  parked  \* <<x, g>>: x is blocked at the gate g

vars == <<life, next, ahead, parked>>

Ready(l)   == {x \in DOMAIN l : l[x].state = "Ready"}
HasTurn(x) == x \in DOMAIN life /\ life[x].state = "Running"

\* a says of any two contexts of l that are ready in one band who has waited
\* longer.
IsLine(l, a) ==
  /\ a \subseteq Ready(l) \X Ready(l)
  /\ \A x, y \in Ready(l) :
       IF l[x].band = l[y].band
       THEN x = y \/ <<x, y>> \in a \/ <<y, x>> \in a
       ELSE <<x, y>> \notin a
  /\ \A x, y \in Ready(l) : ~ (<<x, y>> \in a /\ <<y, x>> \in a)
  /\ \A x, y, z \in Ready(l) : <<x, y>> \in a /\ <<y, z>> \in a => <<x, z>> \in a

\* Whoever stays ready in a band is overtaken by nobody.
NobodyOvertakes ==
  \A x, y \in Ready(life') :
    /\ <<x, y>> \in ahead'
    /\ y \in Ready(life) /\ life[y].band = life'[y].band
    => <<x, y>> \in ahead

Init ==
  /\ \E b \in Bands : life = [x \in {1} |-> [state |-> "Ready", band |-> b]]
  /\ next = 2
  /\ ahead = {}
  /\ parked = {}

\* The turn goes to the one that has waited longest in the highest band.
Dispatch(x) ==
  /\ \A y \in DOMAIN life : ~ HasTurn(y)
  /\ x \in Ready(life)
  /\ \A y \in Ready(life) : Rank[life[y].band] <= Rank[life[x].band]
  /\ \A y \in Ready(life) : <<y, x>> \notin ahead
  /\ life' = [life EXCEPT ![x].state = "Running"]
  /\ UNCHANGED <<next, parked>>

\* The turn of r is over, if r still exists: it is ready for another one, in
\* the band it likes, or has ended.  The others are as in l.
Over(r, l) ==
  \E s \in {"Ready", "Terminated"}, b \in Bands :
    life' = [x \in DOMAIN l |-> IF x = r THEN [state |-> s, band |-> b] ELSE l[x]]

\* A turn that touches no other context.
Pass(r) == HasTurn(r) /\ Over(r, life) /\ UNCHANGED <<next, parked>>

\* A new context, under an id that was never used.
Start(r) ==
  /\ HasTurn(r)
  /\ \E b \in Bands :
       Over(r, [x \in DOMAIN life \cup {next} |->
                  IF x = next THEN [state |-> "Ready", band |-> b] ELSE life[x]])
  /\ next' = next + 1
  /\ UNCHANGED parked

\* x is no more: another one, parked or not, or r itself.
Stop(r, x) ==
  /\ HasTurn(r)
  /\ Over(r, [y \in DOMAIN life \ {x} |-> life[y]])
  /\ parked' = {w \in parked : w[1] # x}
  /\ UNCHANGED next

Park(r, g) ==
  /\ HasTurn(r)
  /\ life' = [life EXCEPT ![r].state = "Blocked"]
  /\ parked' = parked \cup {<<r, g>>}
  /\ UNCHANGED next

\* All that wait at g are ready, and nobody else.
Free(r, g) ==
  /\ HasTurn(r)
  /\ Over(r, [x \in DOMAIN life |->
                IF <<x, g>> \in parked THEN [life[x] EXCEPT !.state = "Ready"] ELSE life[x]])
  /\ parked' = {w \in parked : w[2] # g}
  /\ UNCHANGED next

Next ==
  /\ \E r \in DOMAIN life :
       \/ Dispatch(r) \/ Pass(r) \/ Start(r)
       \/ \E x \in DOMAIN life : Stop(r, x)
       \/ \E g \in Gates : Park(r, g) \/ Free(r, g)
  /\ IsLine(life', ahead')
  /\ NobodyOvertakes

Spec == Init /\ [][Next]_vars
=============================================================================
