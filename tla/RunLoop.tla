------------------------------ MODULE RunLoop ------------------------------
(***************************************************************************)
(* The run loop of the VM, `Vm::run` of src/src/vm.rs, and the handlers    *)
(* that move contexts about: jumps and calls, FORK and the spawns, ABORT   *)
(* and the kills, YIELD and the priority changes, LOCK and UNLOCK, and     *)
(* BARRIER.                                                                *)
(*                                                                         *)
(* One turn of the loop is two steps: the scheduler picks a context (Pick),*)
(* then that context's instruction is fetched and executed and the slice   *)
(* ends.  Registers are not modelled: an id that a handler reads from a    *)
(* register may be any id, and a conditional jump may go either way.       *)
(***************************************************************************)
EXTENDS Slice

CONSTANTS
  Programs,    \* the programs a run may be given, sequences of instructions
  LockIds, BarrierIds,
  MaxDepth,    \* MAX_CALL_DEPTH
  HasMaxSteps, \* config.max_steps is Some: a run may be cut off
  MaxCtx       \* bound: contexts created in a run

Ops == {"HALT", "NOP", "W64", "OTHER", "JUMP", "IF", "CALL", "RET", "FORK", "SPAWN",
        "KILL", "ABORT", "YIELD", "PRIORITY_SET", "LOCK", "UNLOCK", "BARRIER"}

\* An instruction and the operands that its handler uses here.
IsInstruction(i) ==
  /\ i.op \in Ops
  /\ i.op \in {"JUMP", "IF", "CALL", "FORK", "SPAWN"}  => i.target \in Nat
  /\ i.op \in {"FORK", "SPAWN", "PRIORITY_SET"}        => i.prio \in Priorities
  /\ i.op \in {"FORK", "SPAWN", "KILL"}                => i.badDest \in BOOLEAN
  /\ i.op \in {"LOCK", "UNLOCK"}                       => i.id \in LockIds
  /\ i.op = "BARRIER" =>
       i.id \in BarrierIds /\ i.expected \in Nat /\ i.timed \in BOOLEAN /\ i.epoch \in Nat

ASSUME RunAssumption ==
  /\ MaxDepth \in Nat /\ MaxCtx \in Nat \ {0}
  /\ HasMaxSteps \in BOOLEAN
  /\ \A p \in Programs : /\ DOMAIN p = 1 .. Len(p)
                         /\ \A k \in DOMAIN p : IsInstruction(p[k])

VARIABLES
  program,  \* the instructions loaded, never changed by a run
  sched,    \* the scheduler
  at,       \* where the loop is: "pick", "exec", "done" or, by max_steps, "cut"
  running,  \* the loop's ctx_id
  locks,    \* lock id -> holder, for the locks that are held
  barriers, \* barrier id -> BarrierState, for the barriers that are open
  waiters   \* barrier id -> contexts that wait, in order of arrival

runVars == <<program, sched, at, running, locks, barriers, waiters>>

Ids == 1 .. MaxCtx

Self  == sched.contexts[running]
Instr == program[Self.pc]

\* The loop fetched an instruction of this kind in its current turn.
Fetched(op) == at = "exec" /\ Self.pc \in DOMAIN program /\ Instr.op = op

\* check_jump_target: the address is the start of an instruction.
IsTarget(a) == a \in DOMAIN program

Without(f, x) == Restrict(f, DOMAIN f \ {x})
With(f, x, y) == [z \in DOMAIN f \cup {x} |-> IF z = x THEN y ELSE f[z]]

-----------------------------------------------------------------------------
(* How a turn of the loop ends.                                            *)

Turn(s, advance) == sched' = SliceEnds(s, running, advance)

\* An Err, or an instruction that has no dispatch (the 64-byte forms).
Fail(s) == sched' = SliceFails(s, running)

NextTurn == at' = "pick" /\ UNCHANGED <<program, running>>

Rest == <<locks, barriers, waiters>>

-----------------------------------------------------------------------------
(* The loop itself.                                                        *)

Pick ==
  /\ at = "pick" /\ HasPick(sched)
  /\ sched' = PickNext(sched)
  /\ running' = Picked(sched)
  /\ at' = "exec"
  /\ UNCHANGED <<program, locks, barriers, waiters>>

\* No context is ready: the run ends.
Idle ==
  /\ at = "pick" /\ ~ HasPick(sched)
  /\ sched' = PickNothing(sched)
  /\ at' = "done"
  /\ UNCHANGED <<program, running, locks, barriers, waiters>>

\* max_steps has been reached.
StepLimit ==
  /\ at = "pick" /\ HasMaxSteps
  /\ at' = "cut"
  /\ UNCHANGED <<program, sched, running, locks, barriers, waiters>>

\* The pc is outside the program: Terminated, and no yield.
FetchFails ==
  /\ at = "exec" /\ Self.pc \notin DOMAIN program
  /\ sched' = SetState(sched, running, "Terminated")
  /\ NextTurn /\ UNCHANGED Rest

\* Mutated: HALT stops the machine.
HaltStopsRun ==
  /\ Fetched("HALT")
  /\ sched' = SetState(sched, running, "Terminated")
  /\ at' = "done"
  /\ UNCHANGED <<program, running>> /\ UNCHANGED Rest

\* HALT ends its context, without a yield, and the run when it was the last.
Halt ==
  /\ Fetched("HALT")
  /\ sched' = SetState(sched, running, "Terminated")
  /\ at' = IF NoneActive(sched') THEN "done" ELSE "pick"
  /\ UNCHANGED <<program, running>> /\ UNCHANGED Rest

Nop ==
  /\ Fetched("NOP")
  /\ sched' = SlicePasses(sched, running)
  /\ NextTurn /\ UNCHANGED Rest

\* A 64-byte form.
Wide ==
  /\ Fetched("W64")
  /\ Fail(sched)
  /\ NextTurn /\ UNCHANGED Rest

\* Any other opcode: it computes, or its operands are refused.
Other ==
  /\ Fetched("OTHER")
  /\ Turn(sched, TRUE) \/ Fail(sched)
  /\ NextTurn /\ UNCHANGED Rest

-----------------------------------------------------------------------------
(* Control flow.                                                           *)

JumpTo(a) == IF IsTarget(a) THEN Turn(Moved(sched, running, a), FALSE) ELSE Fail(sched)

Jump ==
  /\ Fetched("JUMP")
  /\ JumpTo(Instr.target)
  /\ NextTurn /\ UNCHANGED Rest

\* IF_EQUAL, IF_INTERRUPT.
JumpIf ==
  /\ Fetched("IF")
  /\ JumpTo(Instr.target) \/ Turn(sched, TRUE)
  /\ NextTurn /\ UNCHANGED Rest

\* Mutated: no ceiling on the call stack.
CallUnbounded ==
  /\ Fetched("CALL")
  /\ IF IsTarget(Instr.target)
     THEN Turn(SetContext(sched, running, [Self EXCEPT !.calls = Append(@, Self.pc + 1),
                                                       !.pc = Instr.target]), FALSE)
     ELSE Fail(sched)
  /\ NextTurn /\ UNCHANGED Rest

\* CALL: a bad target and a full stack are Errs.
Call ==
  /\ Fetched("CALL")
  /\ IF IsTarget(Instr.target) /\ Len(Self.calls) < MaxDepth
     THEN Turn(SetContext(sched, running, [Self EXCEPT !.calls = Append(@, Self.pc + 1),
                                                       !.pc = Instr.target]), FALSE)
     ELSE Fail(sched)
  /\ NextTurn /\ UNCHANGED Rest

\* RET: an empty stack is an Err.
Ret ==
  /\ Fetched("RET")
  /\ IF Self.calls # <<>>
     THEN Turn(SetContext(sched, running,
                 [Self EXCEPT !.pc = Self.calls[Len(Self.calls)],
                              !.calls = SubSeq(@, 1, Len(@) - 1)]), FALSE)
     ELSE Fail(sched)
  /\ NextTurn /\ UNCHANGED Rest

-----------------------------------------------------------------------------
(* Contexts come and go.                                                   *)

\* Room for one more context within the bound.
Room == sched.nextId <= MaxCtx

\* A destination register that does not exist is found out last, when all the
\* rest has been done: the caller ends, the child or the kill stays.
Answer(s, badDest) == IF badDest THEN Fail(s) ELSE Turn(s, TRUE)

\* FORK: the child starts behind the FORK or at a label, with the parent's
\* call stack.
Fork ==
  /\ Fetched("FORK")
  /\ \/ /\ Instr.target # 0 /\ ~ IsTarget(Instr.target)
        /\ Fail(sched)
     \/ /\ Instr.target = 0 \/ IsTarget(Instr.target)
        /\ Room
        /\ LET entry == IF Instr.target = 0 THEN Self.pc + 1 ELSE Instr.target
           IN  Answer(CreateContext(sched, Instr.prio, entry, Self.calls), Instr.badDest)
  /\ NextTurn /\ UNCHANGED Rest

\* SPAWN_CONTEXT and REMOTE_SPAWN: nothing is inherited.  A node that is not
\* the local one, an unknown model or a bad entry point are Errs.
Spawn ==
  /\ Fetched("SPAWN")
  /\ \/ Fail(sched)
     \/ /\ IsTarget(Instr.target) /\ Room
        /\ Answer(CreateContext(sched, Instr.prio, Instr.target, <<>>), Instr.badDest)
  /\ NextTurn /\ UNCHANGED Rest

\* KILL_CONTEXT, SIGNAL HALT and SIGNAL ABORT: a target that is not there is
\* an Err.  A context may kill itself.
Kill ==
  /\ Fetched("KILL")
  /\ \E target \in 0 .. MaxCtx :
       IF Known(sched, target) THEN Answer(Remove(sched, target), Instr.badDest)
       ELSE Fail(sched)
  /\ NextTurn /\ UNCHANGED Rest

\* ABORT: a target that is not there is only logged; target 0 is ignored.  A
\* register that does not exist is an Err, here and below.
Abort ==
  /\ Fetched("ABORT")
  /\ \/ Fail(sched)
     \/ \E target \in 0 .. MaxCtx :
          Turn(IF target = 0 THEN sched ELSE Remove(sched, target), TRUE)
  /\ NextTurn /\ UNCHANGED Rest

Yield ==
  /\ Fetched("YIELD")
  /\ Turn(MaybePreempt(sched), TRUE)
  /\ NextTurn /\ UNCHANGED Rest

\* PRIORITY_SET and CTX_SWITCH: the field changes, and a Red in wait preempts
\* a context that is no longer Red.  A preempted context is queued with its
\* pc on this instruction, which it will execute again.  A priority or a
\* pipeline that does not exist is an Err.
SetPriority ==
  /\ Fetched("PRIORITY_SET")
  /\ \/ Fail(sched)
     \/ Turn(MaybePreempt(SetContext(sched, running, [Self EXCEPT !.priority = Instr.prio])), TRUE)
  /\ NextTurn /\ UNCHANGED Rest

-----------------------------------------------------------------------------
(* Locks.                                                                  *)

\* try-lock: free or one's own is Ok, another's is an Err that ends the caller.
Lock ==
  /\ Fetched("LOCK")
  /\ \/ /\ Instr.id \in DOMAIN locks => locks[Instr.id] = running
        /\ locks' = With(locks, Instr.id, running) /\ Turn(sched, TRUE)
     \/ UNCHANGED locks /\ Fail(sched)
  /\ NextTurn /\ UNCHANGED <<barriers, waiters>>

\* Mutated: the holder is not looked at.
UnlockAny ==
  /\ Fetched("UNLOCK")
  /\ \/ /\ Instr.id \in DOMAIN locks
        /\ locks' = Without(locks, Instr.id) /\ Turn(sched, TRUE)
     \/ UNCHANGED locks /\ Fail(sched)
  /\ NextTurn /\ UNCHANGED <<barriers, waiters>>

Unlock ==
  /\ Fetched("UNLOCK")
  /\ \/ /\ Instr.id \in DOMAIN locks /\ locks[Instr.id] = running
        /\ locks' = Without(locks, Instr.id) /\ Turn(sched, TRUE)
     \/ UNCHANGED locks /\ Fail(sched)
  /\ NextTurn /\ UNCHANGED <<barriers, waiters>>

-----------------------------------------------------------------------------
(* BARRIER.                                                                *)

\* Mutated: only the first waiter is told.
BarrierWakeFirst(s, b) ==
  LET id == waiters[b][1]
  IN  IF waiters[b] # <<>> THEN Enqueue(SetState(s, id, "Ready"), id) ELSE s

\* barrier_wake: the waiters that still exist are Ready and are queued in
\* order of arrival.
BarrierWake(s, b) ==
  LET woken(p) == KeepAt(waiters[b],
                         {i \in DOMAIN waiters[b] : /\ Known(s, waiters[b][i])
                                                    /\ s.contexts[waiters[b][i]].priority = p})
  IN  [s EXCEPT !.contexts = [id \in DOMAIN s.contexts |->
                    IF id \in Range(waiters[b]) THEN [s.contexts[id] EXCEPT !.state = "Ready"]
                    ELSE s.contexts[id]],
                !.queue = [p \in Priorities |-> s.queue[p] \o woken(p)]]

\* The barrier is no more; those who waited at it are awake.
Open(b) ==
  /\ barriers' = Without(barriers, b)
  /\ waiters' = [waiters EXCEPT ![b] = <<>>]

\* The caller waits, with `arrived` arrivals counted.
Wait(b, state) ==
  /\ barriers' = With(barriers, b, state)
  /\ waiters' = [waiters EXCEPT ![b] =
                   IF running \in Range(@) THEN @ ELSE Append(@, running)]
  /\ Turn(SetState(sched, running, "Blocked"), TRUE)

\* BARRIER with EXPECT=0, or of another generation than the one that is open.
BarrierRefused ==
  /\ Fetched("BARRIER")
  /\ \/ Instr.expected = 0
     \/ /\ Instr.id \in DOMAIN barriers
        /\ <<barriers[Instr.id].expected, barriers[Instr.id].epoch>>
             # <<Instr.expected, Instr.epoch>>
  /\ Fail(sched)
  /\ NextTurn /\ UNCHANGED Rest

\* The first to arrive: EXPECT=1 goes on, more than one wait.
BarrierCreate ==
  /\ Fetched("BARRIER")
  /\ Instr.expected > 0 /\ Instr.id \notin DOMAIN barriers
  /\ IF Instr.expected = 1
     THEN Turn(sched, TRUE) /\ UNCHANGED <<barriers, waiters>>
     ELSE Wait(Instr.id, [expected |-> Instr.expected, arrived |-> 1,
                          timed |-> Instr.timed, epoch |-> Instr.epoch])
  /\ NextTurn /\ UNCHANGED locks

\* Another one arrives at a barrier of its own generation.
Joins ==
  /\ Fetched("BARRIER")
  /\ Instr.expected > 0 /\ Instr.id \in DOMAIN barriers
  /\ barriers[Instr.id].expected = Instr.expected
  /\ barriers[Instr.id].epoch = Instr.epoch

\* Mutated: the barrier goes, nobody is told.
BarrierTimeoutSilent ==
  /\ Joins /\ barriers[Instr.id].timed
  /\ Open(Instr.id)
  /\ Fail(sched)
  /\ NextTurn /\ UNCHANGED locks

\* The deadline has passed: the others are released, the caller ends.
BarrierTimeout ==
  /\ Joins /\ barriers[Instr.id].timed
  /\ Open(Instr.id)
  /\ Fail(BarrierWake(sched, Instr.id))
  /\ NextTurn /\ UNCHANGED locks

BarrierRelease ==
  /\ Joins /\ barriers[Instr.id].arrived + 1 >= Instr.expected
  /\ Open(Instr.id)
  /\ Turn(BarrierWake(sched, Instr.id), TRUE)
  /\ NextTurn /\ UNCHANGED locks

BarrierJoin ==
  /\ Joins /\ barriers[Instr.id].arrived + 1 < Instr.expected
  /\ Wait(Instr.id, [barriers[Instr.id] EXCEPT !.arrived = @ + 1])
  /\ NextTurn /\ UNCHANGED locks

-----------------------------------------------------------------------------
\* load_mixed: the program, and one Green context at its first instruction.
RunInit ==
  /\ program \in Programs
  /\ sched = CreateContext(NewScheduler, "Green", 1, <<>>)
  /\ at = "pick"
  /\ running = None
  /\ locks = [l \in {} |-> None]
  /\ barriers = [b \in {} |-> None]
  /\ waiters = [b \in BarrierIds |-> <<>>]

RunNext ==
  \/ Pick \/ Idle \/ StepLimit
  \/ FetchFails \/ Halt \/ Nop \/ Wide \/ Other
  \/ Jump \/ JumpIf \/ Call \/ Ret
  \/ Fork \/ Spawn \/ Kill \/ Abort
  \/ Yield \/ SetPriority
  \/ Lock \/ Unlock
  \/ BarrierRefused \/ BarrierCreate \/ BarrierTimeout \/ BarrierRelease \/ BarrierJoin

RunSpec == RunInit /\ [][RunNext]_runVars

\* One thread runs the loop, and no handler modelled here waits for anything.
FairRunSpec == RunSpec /\ WF_runVars(RunNext)

-----------------------------------------------------------------------------
(* Properties.                                                             *)

Contexts == sched.contexts
Queue    == sched.queue

IsContext(c) ==
  /\ DOMAIN c = {"priority", "state", "pc", "calls"}
  /\ c.priority \in Priorities /\ c.state \in States /\ c.pc \in Nat
  /\ c.calls \in Seq(Nat) /\ Len(c.calls) <= MaxDepth

IsBarrier(b) ==
  /\ DOMAIN b = {"expected", "arrived", "timed", "epoch"}
  /\ b.expected \in Nat /\ b.arrived \in Nat /\ b.timed \in BOOLEAN /\ b.epoch \in Nat

\* Every variable has its type; ids were issued before they are used.
RunTypeOK ==
  /\ program \in Programs
  /\ DOMAIN sched = {"contexts", "queue", "nextId", "current"}
  /\ sched.nextId \in 1 .. MaxCtx + 1
  /\ DOMAIN Contexts \subseteq 1 .. sched.nextId - 1
  /\ \A id \in DOMAIN Contexts : IsContext(Contexts[id])
  /\ Queue \in [Priorities -> Seq(Ids)]
  /\ sched.current \in {None} \cup Ids
  /\ at \in {"pick", "exec", "done", "cut"}
  /\ running \in {None} \cup Ids
  /\ DOMAIN locks \subseteq LockIds /\ \A l \in DOMAIN locks : locks[l] \in 1 .. sched.nextId - 1
  /\ DOMAIN barriers \subseteq BarrierIds /\ \A b \in DOMAIN barriers : IsBarrier(barriers[b])
  /\ waiters \in [BarrierIds -> Seq(1 .. sched.nextId - 1)]

Places(id) == {x \in Priorities \X (1 .. MaxCtx) :
                 x[2] \in DOMAIN Queue[x[1]] /\ Queue[x[1]][x[2]] = id}

\* RFC-0018's fix ("Enfileirar aqui duplicaria presença", vm.rs:3669): a Ready
\* context is in the queues once, in the queue of its priority, and nothing
\* else is in a queue: no Blocked, ended or removed context.
QueuesExact ==
  /\ \A p \in Priorities : \A i \in DOMAIN Queue[p] :
       StateIs(sched, Queue[p][i], "Ready") /\ Contexts[Queue[p][i]].priority = p
  /\ \A id \in DOMAIN Contexts :
       Contexts[id].state = "Ready" => Cardinality(Places(id)) = 1
  /\ \A p \in Priorities : \A i, j \in DOMAIN Queue[p] :
       Queue[p][i] = Queue[p][j] => i = j

\* Red > Blue > Green, strictly: no context executes while one of a higher
\* priority is ready (context.rs, pick_next).
StrictPriority ==
  at = "exec" =>
    \A id \in DOMAIN Contexts :
      Contexts[id].state = "Ready" =>
        Rank[Contexts[id].priority] <= Rank[Contexts[running].priority]

\* No wake-up is lost: a Blocked context waits at just one barrier, that
\* barrier is open, and it still lacks an arrival.
BlockedAreWaiting ==
  /\ \A id \in DOMAIN Contexts : Contexts[id].state = "Blocked" =>
       Cardinality({b \in BarrierIds : id \in Range(waiters[b])}) = 1
  /\ \A b \in BarrierIds :
       IF b \in DOMAIN barriers
       THEN /\ barriers[b].arrived = Len(waiters[b])
            /\ barriers[b].arrived < barriers[b].expected
       ELSE waiters[b] = <<>>

\* The run ends on its own only when nothing can go on: what is not ended is
\* Blocked at a barrier.
IdleMeansNothingReady ==
  at = "done" =>
    \A id \in DOMAIN Contexts : Contexts[id].state \in {"Terminated", "Blocked"}

\* An id that the scheduler has forgotten is never issued again, and an ended
\* context never runs again, though waiters and locks still name them.  The
\* runs check this as a part of ImplementsDispatcher; it is proved by itself.
DeadStayDead ==
  [][\A id \in 1 .. sched.nextId - 1 :
       /\ id \notin DOMAIN Contexts => id \notin DOMAIN Contexts'
       /\ StateIs(sched, id, "Terminated") /\ id \in DOMAIN Contexts' =>
            Contexts'[id].state = "Terminated"]_runVars

\* FIFO within a band: two contexts that stay in a queue keep their order,
\* and a newcomer is behind them.
FifoOrder ==
  [][\A p \in Priorities : \A i, j \in DOMAIN Queue'[p] :
       /\ i < j
       /\ Queue'[p][j] \in Range(Queue[p])
       => \E k, l \in DOMAIN Queue[p] :
            k < l /\ Queue[p][k] = Queue'[p][i] /\ Queue[p][l] = Queue'[p][j]]_runVars

\* A lock changes hands only through UNLOCK by its holder: not when the
\* holder ends, and not by another context.
LocksAreHeld ==
  [][\A l \in DOMAIN locks :
       IF l \in DOMAIN locks' THEN locks'[l] = locks[l] ELSE running = locks[l]]_runVars

\* Round robin in the highest band: a Red context that is ready gets its turn
\* or is removed (context.rs: "Escalonador estrito", FIFO inside a band).
RedIsServed ==
  \A id \in Ids :
    (StateIs(sched, id, "Ready") /\ Contexts[id].priority = "Red")
      ~> (~ Known(sched, id) \/ Contexts[id].state = "Running")

\* RFC-0018 (docs/RFC-0018-CLUSTER-LOCAL.md:67) "arrived>=expected releases
\* all": in a program where all the parties of a barrier arrive at it, none is
\* still waiting when the run ends.
BarrierReleasesAll ==
  at = "done" => \A id \in DOMAIN Contexts : Contexts[id].state # "Blocked"
-----------------------------------------------------------------------------
(* The loop as a dispatcher: the queues seen as who waits longer than whom. *)

Lives(s) == [id \in DOMAIN s.contexts |->
               [state |-> s.contexts[id].state, band |-> s.contexts[id].priority]]

Ahead(s) == {x \in Ids \X Ids :
               \E p \in Priorities : \E k, l \in DOMAIN s.queue[p] :
                 k < l /\ s.queue[p][k] = x[1] /\ s.queue[p][l] = x[2]}

Parked(s, w) == {x \in Ids \X BarrierIds :
                   StateIs(s, x[1], "Blocked") /\ x[1] \in Range(w[x[2]])}

Dispatches == INSTANCE Dispatcher WITH
  Bands <- Priorities, Rank <- Rank, Gates <- BarrierIds,
  life <- Lives(sched), next <- sched.nextId,
  ahead <- Ahead(sched), parked <- Parked(sched, waiters)

\* The three queues, the waiting lists and the handlers between them are a
\* dispatcher of strict priority (context.rs: "Escalonador estrito"): a turn
\* goes to the context that has waited longest in the highest band, it ends in
\* one of five ways, nobody who waits is overtaken in a band, and a
\* barrier frees all its waiters in one step or none.
ImplementsDispatcher == Dispatches!Spec
=============================================================================
