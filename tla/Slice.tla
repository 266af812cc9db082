------------------------------- MODULE Slice -------------------------------
(***************************************************************************)
(* The end of a time slice, the same lines in the two loops that drive     *)
(* the scheduler: `Vm::run` (src/src/vm.rs) and `Reactor::run_nop`         *)
(* (src/src/reactor.rs).  id is the context whose instruction the loop has *)
(* executed; the handler may have killed or blocked it.                    *)
(***************************************************************************)
EXTENDS Scheduler

Moved(s, id, pc) ==
  IF Known(s, id) THEN SetContext(s, id, [s.contexts[id] EXCEPT !.pc = pc]) ELSE s

\* The handler answered Ok(advance): a context that is still Running moves on
\* and is Ready; then the slice ends.
SliceEnds(s, id, advance) ==
  IF StateIs(s, id, "Running")
  THEN LET t == IF advance THEN Moved(s, id, s.contexts[id].pc + 1) ELSE s
       IN  YieldCurrent(SetState(t, id, "Ready"))
  ELSE YieldCurrent(s)

\* The handler answered Err: only this context ends.
SliceFails(s, id) == YieldCurrent(SetState(s, id, "Terminated"))

\* NOP moves on and is Ready whatever its state was.
SlicePasses(s, id) ==
  YieldCurrent(SetState(Moved(s, id, s.contexts[id].pc + 1), id, "Ready"))
=============================================================================
