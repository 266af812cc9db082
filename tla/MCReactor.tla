------------------------------ MODULE MCReactor -----------------------------
(***************************************************************************)
(* Reactor on small programs: loops whose instructions a context may skip, *)
(* so that the contexts execute any interleaving of any sequences of them. *)
(***************************************************************************)
EXTENDS Reactor

Ins(op)         == [op |-> op]
To(op, a)       == [op |-> op, target |-> a]
Forks(p, bad)   == [op |-> "FORK", prio |-> p, badDest |-> bad]
Switch(p)       == [op |-> "CTX_SWITCH", prio |-> p]

Menu(body) ==
  [k \in 1 .. 2 * Len(body) + 1 |->
     IF k = 2 * Len(body) + 1 THEN To("JUMP", 1)
     ELSE IF k % 2 = 1 THEN To("IF", k + 2)
     ELSE body[k \div 2]]

\* Children of two priorities, late signals, kills, priority changes.
Family == Menu(<<Forks("Red", FALSE), Ins("ABORT"), Switch("Blue")>>)

\* A child that is never announced, attention under an interrupt.
Faults == Menu(<<Forks("Red", TRUE), Ins("ATTN"), Ins("ABORT")>>)

MCPrograms       == {Family, Faults, <<Ins("OTHER"), Ins("NOP"), To("JUMP", 9)>>, <<Ins("UNKNOWN")>>,
                     <<Ins("HALT")>>, <<Ins("NOP")>>}
StraightPrograms == {<<Forks("Red", FALSE), Ins("HALT")>>}
AbortPrograms    == {<<Ins("ABORT"), Forks("Red", FALSE), Ins("ATTN"), Ins("HALT")>>}
=============================================================================
