--------------------------- MODULE MCInteractive ----------------------------
(***************************************************************************)
(* Interactive on small programs.  The ring is shorter than two prompts,   *)
(* the windows are shorter than the generation, and prompts come at any    *)
(* time.                                                                   *)
(***************************************************************************)
EXTENDS Interactive

Ins(op)      == [op |-> op]
To(op, a)    == [op |-> op, target |-> a]
Forks(p, a)  == [op |-> "FORK", prio |-> p, target |-> a]
Switch(p)    == [op |-> "CTX_SWITCH", prio |-> p]

\* Checkpoints between tokens, an entropy for every token.
Talk == <<Forks("Blue", 2), Ins("SAMPLE"), Ins("STREAM"), Ins("DECODE"), Forks("Green", 3),
          Ins("COMPUTE"), To("JUMP", 1)>>

\* Contexts that are killed, memory restored by the program.
Meddle == <<Forks("Red", 0), Ins("DECODE"), Ins("ABORT"), Ins("COMPUTE"), Ins("HALT")>>

\* Generations that end by themselves and begin again.
Short == <<Ins("SENSE"), To("IF", 4), Switch("Blue"), Forks("Green", 9), Ins("NOP"), Ins("HALT")>>

MCPrograms == {Talk, Meddle, Short, <<Ins("OTHER")>>, <<Ins("W64")>>}
=============================================================================
