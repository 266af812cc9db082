------------------------------ MODULE Reactor ------------------------------
(***************************************************************************)
(* The event-driven loop, `Reactor::run_nop` of src/src/reactor.rs, with   *)
(* two of the buses of src/src/bus.rs: the scheduler bus (a broadcast      *)
(* channel that a FORK publishes its child on) and the interrupt bus (a    *)
(* watch that an ABORT publishes its target on).                           *)
(*                                                                         *)
(* A turn begins with a select! over three events: a signal of the         *)
(* scheduler bus, whose context is executed as it is, a millisecond        *)
(* without an event, and an interrupt; the last two ask the scheduler.     *)
(* The stream bus delays a STREAM and changes no context: not modelled.    *)
(***************************************************************************)
EXTENDS Slice

CONSTANTS
  Programs,    \* the programs a run may be given
  BusCapacity, \* the scheduler bus keeps this many unread signals
  HasMaxSteps, \* config.max_steps is Some
  MaxCtx       \* bound: contexts created in a run

\* OTHER computes or fails; UNKNOWN has no dispatch in the reactor.
Ops == {"HALT", "NOP", "UNKNOWN", "OTHER", "ATTN", "JUMP", "IF", "FORK", "ABORT", "CTX_SWITCH"}

IsInstruction(i) ==
  /\ i.op \in Ops
  /\ i.op \in {"JUMP", "IF"}         => i.target \in Nat
  /\ i.op \in {"FORK", "CTX_SWITCH"} => i.prio \in Priorities
  /\ i.op = "FORK"                   => i.badDest \in BOOLEAN

ASSUME ReactorAssumption ==
  /\ {BusCapacity, MaxCtx} \subseteq Nat \ {0}
  /\ HasMaxSteps \in BOOLEAN
  /\ \A p \in Programs : /\ DOMAIN p = 1 .. Len(p)
                         /\ \A k \in DOMAIN p : IsInstruction(p[k])

VARIABLES
  program, sched,
  at,        \* "pick", "exec", "done" or, by max_steps, "cut"
  running,   \* the loop's ctx_id
  signals,   \* sched_rx: the contexts announced and not yet received
  interrupt, \* the watch: the last target published, None at first
  unseen,    \* interrupt_rx has not looked at it yet
  issued,    \* history: the first id not yet issued when it was published
  forks      \* stats.forks

vars == <<program, sched, at, running, signals, interrupt, unseen, issued, forks>>

Self  == sched.contexts[running]
Instr == program[Self.pc]

Fetched(op) == at = "exec" /\ Self.pc \in DOMAIN program /\ Instr.op = op

Turn(s, advance) == sched' = SliceEnds(s, running, advance)
Fail(s)          == sched' = SliceFails(s, running)

NextTurn == at' = "pick" /\ UNCHANGED <<program, running>>
Quiet    == UNCHANGED <<signals, interrupt, unseen, issued>>

-----------------------------------------------------------------------------
(* The select!.                                                            *)

\* Mutated: a channel without a capacity.
AnnouncedUnbounded(id) == Append(signals, id)

\* A broadcast channel that is full forgets its oldest signal.
Announced(id) ==
  IF Len(signals) = BusCapacity THEN Append(Tail(signals), id) ELSE Append(signals, id)

\* Mutated: a signal takes the context out of its queue, as pick_next does.
BySignalDequeues ==
  /\ at = "pick" /\ signals # <<>>
  /\ signals' = Tail(signals)
  /\ running' = Head(signals)
  /\ sched' = DequeueId(sched, Head(signals))
  /\ at' = IF Known(sched, Head(signals)) THEN "exec" ELSE "pick"
  /\ UNCHANGED <<program, interrupt, unseen, issued, forks>>

\* Mutated: a signal makes its context the current one.
BySignalRuns ==
  /\ at = "pick" /\ signals # <<>>
  /\ signals' = Tail(signals)
  /\ running' = Head(signals)
  /\ sched' = SetState(DequeueId([sched EXCEPT !.current = Head(signals)], Head(signals)),
                       Head(signals), "Running")
  /\ at' = IF Known(sched, Head(signals)) THEN "exec" ELSE "pick"
  /\ UNCHANGED <<program, interrupt, unseen, issued, forks>>

\* The context of a signal is executed where it stands: it stays in its
\* queue, its state stays what it is, `current` does not change.
BySignal ==
  /\ at = "pick" /\ signals # <<>>
  /\ signals' = Tail(signals)
  /\ running' = Head(signals)
  /\ at' = IF Known(sched, Head(signals)) THEN "exec" ELSE "pick"
  /\ UNCHANGED <<program, sched, interrupt, unseen, issued, forks>>

\* pick_next, or the end of the run when nothing is ready.
AskScheduler ==
  IF HasPick(sched)
  THEN sched' = PickNext(sched) /\ running' = Picked(sched) /\ at' = "exec"
  ELSE sched' = PickNothing(sched) /\ UNCHANGED running /\ at' = "done"

\* Mutated: a millisecond without an event is the end.
ByTimerGivesUp ==
  /\ at = "pick"
  /\ at' = "done"
  /\ UNCHANGED <<program, sched, running, forks>> /\ Quiet

\* The millisecond may pass whatever else is ready.
ByTimer ==
  /\ at = "pick"
  /\ AskScheduler
  /\ UNCHANGED <<program, forks>> /\ Quiet

ByInterrupt ==
  /\ at = "pick" /\ unseen
  /\ unseen' = FALSE
  /\ AskScheduler
  /\ UNCHANGED <<program, signals, interrupt, issued, forks>>

StepLimit ==
  /\ at = "pick" /\ HasMaxSteps
  /\ at' = "cut"
  /\ UNCHANGED <<program, sched, running, forks>> /\ Quiet

-----------------------------------------------------------------------------
(* The instructions.                                                       *)

\* The pc is outside the program, or on a 64-byte form.
FetchFails ==
  /\ at = "exec" /\ Self.pc \notin DOMAIN program
  /\ sched' = SetState(sched, running, "Terminated")
  /\ NextTurn /\ UNCHANGED forks /\ Quiet

Halt ==
  /\ Fetched("HALT")
  /\ sched' = SetState(sched, running, "Terminated")
  /\ at' = IF NoneActive(sched') THEN "done" ELSE "pick"
  /\ UNCHANGED <<program, running, forks>> /\ Quiet

Nop ==
  /\ Fetched("NOP")
  /\ sched' = SlicePasses(sched, running)
  /\ NextTurn /\ UNCHANGED forks /\ Quiet

Unknown ==
  /\ Fetched("UNKNOWN")
  /\ Fail(sched)
  /\ NextTurn /\ UNCHANGED forks /\ Quiet

\* TENSOR, NORM, FFN, STREAM, SENSE and what is delegated to the VM.
Other ==
  /\ Fetched("OTHER")
  /\ Turn(sched, TRUE) \/ Fail(sched)
  /\ NextTurn /\ UNCHANGED forks /\ Quiet

\* Dense and sparse ATTN look at the watch before they compute.
Attn ==
  /\ Fetched("ATTN")
  /\ \/ interrupt # running /\ Turn(sched, TRUE)
     \/ Fail(sched)
  /\ NextTurn /\ UNCHANGED forks /\ Quiet

\* JUMP and the conditional jumps, by Vm::step_instruction.
JumpTo(a) ==
  IF a \in DOMAIN program THEN Turn(Moved(sched, running, a), FALSE) ELSE Fail(sched)

Jump ==
  /\ Fetched("JUMP")
  /\ JumpTo(Instr.target)
  /\ NextTurn /\ UNCHANGED forks /\ Quiet

JumpIf ==
  /\ Fetched("IF")
  /\ JumpTo(Instr.target) \/ Turn(sched, TRUE)
  /\ NextTurn /\ UNCHANGED forks /\ Quiet

\* CTX_SWITCH, by Vm::step_instruction; a pipeline that does not exist is an
\* Err.
CtxSwitch ==
  /\ Fetched("CTX_SWITCH")
  /\ \/ Fail(sched)
     \/ Turn(MaybePreempt(SetContext(sched, running, [Self EXCEPT !.priority = Instr.prio])), TRUE)
  /\ NextTurn /\ UNCHANGED forks /\ Quiet

\* exec_fork_nop: the child starts behind the FORK with an empty call stack,
\* and is announced, unless the destination register is bad.
Fork ==
  /\ Fetched("FORK")
  /\ sched.nextId <= MaxCtx
  /\ LET child == CreateContext(sched, Instr.prio, Self.pc + 1, <<>>)
     IN  IF Instr.badDest
         THEN Fail(child) /\ UNCHANGED <<signals, forks>>
         ELSE /\ Turn(child, TRUE)
              /\ signals' = Announced(sched.nextId)
              /\ forks' = forks + 1
  /\ NextTurn /\ UNCHANGED <<interrupt, unseen, issued>>

\* exec_abort_nop: the target is published and removed; target 0 is ignored,
\* and a register that does not exist is an Err.
Abort ==
  /\ Fetched("ABORT")
  /\ \/ Turn(sched, TRUE) /\ UNCHANGED <<interrupt, unseen, issued>>
     \/ Fail(sched) /\ UNCHANGED <<interrupt, unseen, issued>>
     \/ \E target \in 1 .. MaxCtx :
          /\ interrupt' = target /\ unseen' = TRUE /\ issued' = sched.nextId
          /\ Turn(Remove(sched, target), TRUE)
  /\ NextTurn /\ UNCHANGED <<signals, forks>>

-----------------------------------------------------------------------------
\* load_mixed, and the bootstrap of run_nop: the contexts there are, the one
\* of the program, are announced.
Init ==
  /\ program \in Programs
  /\ sched = CreateContext(NewScheduler, "Green", 1, <<>>)
  /\ at = "pick"
  /\ running = None
  /\ signals = <<1>>
  /\ interrupt = None /\ unseen = FALSE /\ issued = 1
  /\ forks = 0

Next ==
  \/ BySignal \/ ByTimer \/ ByInterrupt \/ StepLimit
  \/ FetchFails \/ Halt \/ Nop \/ Unknown \/ Other \/ Attn
  \/ Jump \/ JumpIf \/ CtxSwitch \/ Fork \/ Abort

Spec == Init /\ [][Next]_vars

-----------------------------------------------------------------------------
(* Properties.                                                             *)

Contexts == sched.contexts
Ids      == 1 .. MaxCtx

IsContext(c) ==
  /\ DOMAIN c = {"priority", "state", "pc", "calls"}
  /\ c.priority \in Priorities /\ c.state \in States /\ c.pc \in Nat /\ c.calls = <<>>

\* Every variable has its type.
TypeOK ==
  /\ program \in Programs
  /\ DOMAIN sched = {"contexts", "queue", "nextId", "current"}
  /\ sched.nextId \in 1 .. MaxCtx + 1
  /\ DOMAIN Contexts \subseteq 1 .. sched.nextId - 1
  /\ \A id \in DOMAIN Contexts : IsContext(Contexts[id])
  /\ sched.queue \in [Priorities -> Seq(Ids)]
  /\ sched.current \in {None} \cup Ids
  /\ at \in {"pick", "exec", "done", "cut"}
  /\ running \in {None} \cup Ids
  /\ signals \in Seq(1 .. sched.nextId - 1) /\ Len(signals) <= BusCapacity
  /\ interrupt \in {None} \cup Ids /\ unseen \in BOOLEAN /\ issued \in 1 .. MaxCtx + 1
  /\ forks \in 0 .. MaxCtx

Places(id) == {x \in Priorities \X (1 .. Len(sched.queue["Red"]) +
                   Len(sched.queue["Blue"]) + Len(sched.queue["Green"])) :
                 x[2] \in DOMAIN sched.queue[x[1]] /\ sched.queue[x[1]][x[2]] = id}

\* Although a signal executes a context behind the scheduler's back, a Ready
\* context is always queued, and queued once: whatever signals are lost or
\* come late, the scheduler still finds it, and not twice.
ReadyQueuedOnce ==
  \A id \in Ids :
    /\ Cardinality(Places(id)) <= 1
    /\ StateIs(sched, id, "Ready") => Cardinality(Places(id)) = 1

\* The reactor ends on its own only when every context has ended: a lost
\* signal strands nobody.
EndsWhenAllEnded ==
  at = "done" => \A id \in DOMAIN Contexts : Contexts[id].state = "Terminated"

\* A signal that comes late does not bring its context back: an ended context
\* stays ended, a removed one stays removed.
LateSignalsWakeNobody ==
  [][\A id \in 1 .. sched.nextId - 1 :
       /\ id \notin DOMAIN Contexts => id \notin DOMAIN Contexts'
       /\ StateIs(sched, id, "Terminated") => ~ (Known(sched', id)
            /\ sched'.contexts[id].state # "Terminated")]_vars

Straight == \A k \in DOMAIN program : program[k].op \notin {"JUMP", "IF"}
NumForks == Cardinality({k \in DOMAIN program : program[k].op = "FORK"})

\* reactor.rs:3 "Substitui `loop { scheduler.next() }`": as in that loop, a
\* context passes an instruction once.  In a program without jumps, n FORKs
\* then have at most 2^n - 1 children.
OneChildPerFork == Straight => forks <= 2 ^ NumForks - 1

\* reactor.rs:449 "Limpa interrupção ... limpa no próximo ciclo": an interrupt
\* never preempts the ATTN of a context that was created after it was raised.
InterruptsAreFresh ==
  interrupt # None /\ Known(sched, interrupt) => interrupt < issued
=============================================================================
