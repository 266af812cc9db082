--------------------------- MODULE EngineRollback --------------------------
(***************************************************************************)
(* Rollback of the engine states beside the memory: the handlers of FORK,  *)
(* SNAPSHOT, CTX_SWITCH, RESTORE, ABORT and SIGNAL in src/src/vm.rs.       *)
(*                                                                         *)
(* The VM keeps seven engine states outside `MemoryManager` (ssm_states,   *)
(* rank1_layers, snn_layers, arenas, dep_kv, rag_store, models), each with *)
(* a stack of (memory version, copy).  FORK and SNAPSHOT push on the seven *)
(* stacks with the version they have just taken; ABORT and RESTORE pop     *)
(* down to a version and apply the entry that carries it, if it is there.  *)
(* Scheduling is left to Scheduler.tla: which context runs a handler, and  *)
(* which context ABORT or SIGNAL kills, changes nothing here.              *)
(***************************************************************************)
EXTENDS SnapshotStore, Sequences, FiniteSetsExt

CONSTANTS
  Engines,        \* the engine states of the VM
  SignalEngines,  \* those that SIGNAL ABORT pops: ssm, rank1 and snn
  MaxMoves        \* bound: engine operations in a run

ASSUME EngineAssumption == SignalEngines \subseteq Engines /\ MaxMoves \in Nat

VARIABLES
  eng,     \* eng[e]: the current state of engine e
  stack,   \* stack[e]: its stack of [ver, val], the last entry on top
  sealed,  \* history: the engine states at each FORK and SNAPSHOT, by version
  moves    \* how many engine operations there were, for the bound only

engVars == <<eng, stack, sealed, moves>>
vars    == <<memVars, engVars>>

-----------------------------------------------------------------------------
(* One stack.                                                              *)

\* Where `while last.version > v { pop }` stops: the highest entry at or
\* below v, 0 for an emptied stack.
Height(st, v) == Max({0} \cup {i \in DOMAIN st : st[i].ver <= v})

Holds(st, v) == Height(st, v) > 0 /\ st[Height(st, v)].ver = v

\* The version-gated pops of ABORT ts # 0 and RESTORE: entries above v are
\* dropped; the entry of v, if it is then on top, is popped and applied.
Rewound(st, v) ==
  SubSeq(st, 1, IF Holds(st, v) THEN Height(st, v) - 1 ELSE Height(st, v))

RewoundTo(st, v, now) == IF Holds(st, v) THEN st[Height(st, v)].val ELSE now

\* The single pop of ABORT ts = 0 and of SIGNAL ABORT.
Popped(st)         == SubSeq(st, 1, Len(st) - 1)
PoppedTo(st, now)  == IF st = <<>> THEN now ELSE st[Len(st)].val

-----------------------------------------------------------------------------
(* Effects shared by the handlers.                                         *)

\* Mutated: the entry goes to the bottom of the stack.
PushAllAtBottom(v) ==
  /\ stack' = [e \in Engines |-> <<[ver |-> v, val |-> eng[e]]>> \o stack[e]]
  /\ UNCHANGED eng

\* Mutated: an engine that was never used is not worth an entry.
PushUsed(v) ==
  /\ stack' = [e \in Engines |->
                 IF eng[e] = Empty THEN stack[e]
                 ELSE Append(stack[e], [ver |-> v, val |-> eng[e]])]
  /\ UNCHANGED eng

PushAll(v) ==
  /\ stack' = [e \in Engines |-> Append(stack[e], [ver |-> v, val |-> eng[e]])]
  /\ UNCHANGED eng

PopEach(es) ==
  /\ eng'   = [e \in Engines |-> IF e \in es THEN PoppedTo(stack[e], eng[e])
                                 ELSE eng[e]]
  /\ stack' = [e \in Engines |-> IF e \in es THEN Popped(stack[e]) ELSE stack[e]]

\* Mutated: the pops of before RFC-0011, one entry whatever its version.
RewindAllBlind(v) == PopEach(Engines)

RewindAll(v) ==
  /\ eng'   = [e \in Engines |-> RewoundTo(stack[e], v, eng[e])]
  /\ stack' = [e \in Engines |-> Rewound(stack[e], v)]

\* Mutated: entries are tagged with the version before the snapshot.
CheckpointOldTag ==
  /\ Snapshot
  /\ PushAll(version)
  /\ sealed' = Put(sealed, version + 1, eng)
  /\ UNCHANGED moves

\* memory.snapshot() and a push on every stack: a point one can return to.
Checkpoint ==
  /\ Snapshot
  /\ PushAll(version + 1)
  /\ sealed' = Put(sealed, version + 1, eng)
  /\ UNCHANGED moves

\* memory.snapshot() alone.
Fence == Snapshot /\ UNCHANGED engVars

-----------------------------------------------------------------------------
(* The handlers.                                                           *)

\* exec_fork, once the child's entry point and rdest have been accepted.
Fork == Checkpoint

\* exec_fork that ends in Err (label outside the program, bad rdest): the
\* memory version was taken first and stays, no engine state was pushed.
ForkErr == Fence

\* exec_snapshot with the full mask.
SnapshotOp == Checkpoint

\* exec_ctx_switch: a fence, a version of the memory alone.
CtxSwitch == Fence

\* exec_restore: an unknown version is an Err before any stack is touched.
RestoreOp(v) ==
  /\ Restore(v)
  /\ IF Restorable(v) THEN RewindAll(v) ELSE UNCHANGED <<eng, stack>>
  /\ UNCHANGED <<sealed, moves>>

\* exec_abort with ts # 0: a memory that refuses the version is only logged,
\* the stacks are rewound all the same (RFC-0011, 4).
AbortTo(v) ==
  /\ v # 0
  /\ Restore(v)
  /\ RewindAll(v)
  /\ UNCHANGED <<sealed, moves>>

\* exec_abort with ts = 0: one pop of every stack, the memory stays.
AbortLatest == Read /\ PopEach(Engines) /\ UNCHANGED <<sealed, moves>>

\* exec_signal, kind ABORT: one pop of some of the stacks, the memory stays.
SignalAbort == Read /\ PopEach(SignalEngines) /\ UNCHANGED <<sealed, moves>>

\* Mutated: the last entry shares its storage with the current state.
EngineStepShared(e, x) ==
  /\ eng' = [eng EXCEPT ![e] = x]
  /\ stack' = [stack EXCEPT ![e] =
                 [i \in DOMAIN @ |-> IF i = Len(@) THEN [ver |-> @[i].ver, val |-> x] ELSE @[i]]]
  /\ Read
  /\ moves < MaxMoves /\ moves' = moves + 1
  /\ UNCHANGED sealed

\* An opcode of an engine (SSM_SCAN, RANK1_UPDATE, SPIKE_STEP, ARENA_ALLOC,
\* DEPFORMER, RAG_*, LOAD_MODEL) moves its state on; what it does to the
\* memory is a MemoryStep of its own.
EngineStep(e, x) ==
  /\ eng' = [eng EXCEPT ![e] = x]
  /\ Read
  /\ moves < MaxMoves /\ moves' = moves + 1
  /\ UNCHANGED <<stack, sealed>>

\* An opcode that writes memory, and the host's window setting.
MemoryStep ==
  /\ Mutate \/ \E max \in Windows : SetSnapshotWindow(max)
  /\ UNCHANGED engVars

Init ==
  /\ MemInit
  /\ eng = [e \in Engines |-> Empty]
  /\ stack = [e \in Engines |-> <<>>]
  /\ sealed = EmptyMap
  /\ moves = 0

Next ==
  \/ Fork \/ ForkErr \/ SnapshotOp \/ CtxSwitch
  \/ \E v \in 0 .. MaxVersion : RestoreOp(v) \/ AbortTo(v)
  \/ AbortLatest \/ SignalAbort
  \/ \E e \in Engines, x \in Vals : EngineStep(e, x)
  \/ MemoryStep

Spec == Init /\ [][Next]_vars

-----------------------------------------------------------------------------
(* Properties.                                                             *)

Entries(st)    == {st[i] : i \in DOMAIN st}
VersionsOf(st) == [i \in DOMAIN st |-> st[i].ver]

\* Every variable has its type.
TypeOK ==
  /\ MemTypeOK
  /\ eng \in [Engines -> Vals]
  /\ stack \in [Engines -> Seq([ver : Versions, val : Vals])]
  /\ IsMap(sealed, Versions, [Engines -> Vals])
  /\ moves \in 0 .. MaxMoves

\* What the pops rely on and never check: from bottom to top the versions of
\* a stack go strictly up, and none is newer than the memory's counter.
StacksOrdered ==
  \A e \in Engines :
    /\ \A i, j \in DOMAIN stack[e] : i < j => stack[e][i].ver < stack[e][j].ver
    /\ \A i \in DOMAIN stack[e] : stack[e][i].ver <= version

\* "as quatro casas, sem exceção" (vm.rs:512): engines that the same handlers
\* pop have the same versions on their stacks, so that one handler never
\* returns two of them to different moments.
GroupsAligned ==
  \A e, f \in Engines :
    (e \in SignalEngines <=> f \in SignalEngines) =>
       VersionsOf(stack[e]) = VersionsOf(stack[f])

\* An entry is the state its engine had at the FORK or SNAPSHOT that issued
\* its version, however long ago that was.
EntriesFaithful ==
  \A e \in Engines : \A i \in DOMAIN stack[e] :
    LET entry == stack[e][i]
    IN  entry.ver \in DOMAIN sealed /\ entry.val = sealed[entry.ver][e]

\* RESTORE v, or ABORT to v, of a version the memory still has: an engine
\* whose stack carries v anywhere returns to its state at v, and its stack
\* loses what is as new as v and nothing older.
RewindExact ==
  [][\A v \in Versions : answer' = Restored(v) =>
       \A e \in Engines :
         /\ (\E x \in Entries(stack[e]) : x.ver = v) => eng'[e] = sealed[v][e]
         /\ Entries(stack'[e]) = {x \in Entries(stack[e]) : x.ver < v}]_vars

\* RFC-0024 (docs/RFC-0024-SNAPSHOT-VIEWS.md:17): "`RESTORE` rewinds memory +
\* engine maps to it", it being the version of a SNAPSHOT that the memory has.
RestoreReturnsEngines ==
  [][\A v \in DOMAIN sealed : answer' = Restored(v) => eng' = sealed[v]]_vars

\* RFC-0018 and vm.rs:3887 ("Pops de engine como exec_abort"): SIGNAL ABORT
\* pops the engines as ABORT does, so that the stacks of all of them agree.
StacksAligned ==
  \A e, f \in Engines : VersionsOf(stack[e]) = VersionsOf(stack[f])
=============================================================================
