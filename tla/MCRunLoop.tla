----------------------------- MODULE MCRunLoop ------------------------------
(***************************************************************************)
(* RunLoop on small programs.  Every instruction is in one of them; each   *)
(* program is made for one kind of interleaving.                           *)
(***************************************************************************)
EXTENDS RunLoop

Ins(op)          == [op |-> op]
To(op, a)        == [op |-> op, target |-> a]
Start(op, p, a)  == [op |-> op, prio |-> p, target |-> a, badDest |-> FALSE]
Doomed(op, p, a) == [op |-> op, prio |-> p, target |-> a, badDest |-> TRUE]
Prio(p)          == [op |-> "PRIORITY_SET", prio |-> p]
OnLock(op)       == [op |-> op, id |-> 1]
Killing(bad)     == [op |-> "KILL", badDest |-> bad]
Bar(n, t, e)     == [op |-> "BARRIER", id |-> 1, expected |-> n, timed |-> t, epoch |-> e]

\* A loop of the given instructions, each of which a context may skip, behind
\* a prologue that starts the contexts.  What the contexts execute is then any
\* interleaving that the scheduler allows of any sequences of them.
Menu(prologue, body) ==
  LET first == Len(prologue) + 1
      last  == Len(prologue) + 2 * Len(body) + 1
  IN  [k \in 1 .. last |->
         IF k < first THEN prologue[k]
         ELSE IF k = last THEN To("JUMP", first)
         ELSE IF (k - first) % 2 = 0 THEN To("IF", k + 2)
         ELSE body[(k - first + 1) \div 2]]

Trio(n) == <<Start("SPAWN", "Red", n), Start("SPAWN", "Blue", n)>>

\* Three contexts change priority around each other and contend for a lock.
Bands == Menu(Trio(3), <<Prio("Green"), OnLock("LOCK"), Prio("Red"), OnLock("UNLOCK"),
                         Ins("HALT")>>)

\* Barriers of two and of three, a deadline, waiters that are killed.
Meet == Menu(Trio(3), <<Bar(2, TRUE, 0), Killing(FALSE), Bar(3, FALSE, 0)>>)

\* Another generation, EXPECT=0 and 1, ABORT, YIELD.
Stray == Menu(<<Start("FORK", "Red", 0)>>,
              <<Bar(2, FALSE, 0), Ins("ABORT"), Bar(2, FALSE, 1), Bar(1, FALSE, 0),
                Bar(0, FALSE, 0), Ins("YIELD"), Prio("Blue"), Ins("W64")>>)

\* Calls, bad jumps, children that outlive the Err of their parent.
Flow == <<To("CALL", 4), Ins("OTHER"), Killing(TRUE), To("IF", 1), Start("SPAWN", "Red", 7),
          Ins("RET"), Ins("NOP"), To("IF", 1), Doomed("FORK", "Blue", 2), To("JUMP", 99)>>

\* Contexts that never end, lower and raise themselves and now and then wait.
Restless == Menu(Trio(3), <<Prio("Green"), Bar(2, TRUE, 0), Prio("Red")>>)

\* A parent and its child meet at a barrier and end.
Pair == <<Start("FORK", "Green", 0), Bar(2, FALSE, 0), Ins("HALT")>>

MCPrograms   == {Bands, Meet, Stray, Flow, <<Start("FORK", "Red", 99)>>, <<Ins("NOP")>>}
PairPrograms == {Pair}
LivePrograms == {Restless}
MCLocks      == {1}
MCBarriers   == {1}
=============================================================================
