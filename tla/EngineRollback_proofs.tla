----------------------- MODULE EngineRollback_proofs ------------------------
(***************************************************************************)
(* Proofs about EngineRollback: types, the order of the stacks, that an    *)
(* entry is its engine's state at the version it carries, that engines     *)
(* popped together stay in step, and that a rewind is exact.  The memory   *)
(* half of the state is handled by the invariant of SnapshotStore_proofs.  *)
(***************************************************************************)
EXTENDS EngineRollback, SnapshotStore_proofs, WellFoundedInduction

-----------------------------------------------------------------------------
(* Stacks.                                                                 *)

LEMMA HighestExists ==
  ASSUME NEW n \in Nat, NEW S \in SUBSET (0 .. n), S # {}
  PROVE  Max(S) \in S /\ \A y \in S : y <= Max(S)
<1> DEFINE Rest == {n - x : x \in S}
<1> DEFINE R == OpToRel(<, Nat)
<1>1. Rest \in SUBSET Nat /\ Rest # {}
  <2>1. \A x \in S : n - x \in Nat
    OBVIOUS
  <2>2. \A x \in S : n - x \in Rest
    OBVIOUS
  <2> QED
    BY <2>1, <2>2
<1>2. IsWellFoundedOn(R, Nat)
  BY NatLessThanWellFounded
<1>3. \A i, j \in Nat : i < j => <<i, j>> \in R
  BY DEF OpToRel
<1> HIDE DEF R
<1>4. PICK k \in Rest : \A j \in Rest : ~ (<<j, k>> \in R)
  <2> HIDE DEF Rest
  <2> QED
    BY <1>1, <1>2, WFMin
<1>5. PICK x \in S : k = n - x
  OBVIOUS
<1>6. \A y \in S : x >= y
  <2> SUFFICES ASSUME NEW y \in S, ~ (x >= y)
               PROVE  FALSE
    OBVIOUS
  <2>1. n - y \in Rest /\ n - y < k /\ n - y \in Nat /\ k \in Nat
    BY <1>1, <1>5
  <2> QED
    BY <1>3, <1>4, <2>1
<1> QED
  BY <1>6 DEF Max

Entry == [ver : Versions, val : Vals]

LEMMA HeightIs ==
  ASSUME NEW st \in Seq(Entry), NEW v
  PROVE  /\ Height(st, v) \in 0 .. Len(st)
         /\ Height(st, v) > 0 => st[Height(st, v)].ver <= v
         /\ \A i \in DOMAIN st : st[i].ver <= v => i <= Height(st, v)
<1> DEFINE S == {0} \cup {i \in DOMAIN st : st[i].ver <= v}
<1>1. S \in SUBSET (0 .. Len(st)) /\ S # {} /\ Len(st) \in Nat
  OBVIOUS
<1>2. Max(S) \in S /\ \A y \in S : y <= Max(S)
  <2> HIDE DEF S
  <2> QED
    BY <1>1, HighestExists
<1>3. Height(st, v) = Max(S)
  BY DEF Height
<1> HIDE DEF S
<1>4. Height(st, v) \in S /\ \A y \in S : y <= Height(st, v)
  BY <1>2, <1>3
<1> QED
  BY <1>4 DEF S

\* How many entries a version-gated pop leaves.
Left(st, v) == IF Holds(st, v) THEN Height(st, v) - 1 ELSE Height(st, v)

LEMMA PrefixIs ==
  ASSUME NEW T, NEW st \in Seq(T), NEW n \in 0 .. Len(st)
  PROVE  /\ SubSeq(st, 1, n) \in Seq(T)
         /\ DOMAIN SubSeq(st, 1, n) = 1 .. n
         /\ \A i \in 1 .. n : SubSeq(st, 1, n)[i] = st[i]
OBVIOUS

\* The pops leave a prefix of the stack.
LEMMA PopsCut ==
  ASSUME NEW st \in Seq(Entry), NEW v, NEW now \in Vals
  PROVE  /\ Left(st, v) \in 0 .. Len(st)
         /\ Rewound(st, v) = SubSeq(st, 1, Left(st, v))
         /\ RewoundTo(st, v, now) \in Vals
         /\ Popped(st) = SubSeq(st, 1, IF st = <<>> THEN 0 ELSE Len(st) - 1)
         /\ PoppedTo(st, now) \in Vals
<1>1. Height(st, v) \in 0 .. Len(st)
  BY HeightIs
<1>2. \A i \in 1 .. Len(st) : st[i].val \in Vals
  <2>1. \A i \in 1 .. Len(st) : st[i] \in Entry
    OBVIOUS
  <2> QED
    BY <2>1 DEF Entry
<1>3. Left(st, v) \in 0 .. Len(st)
  BY <1>1 DEF Left, Holds
<1>4. Rewound(st, v) = SubSeq(st, 1, Left(st, v))
  BY DEF Rewound, Left
<1>5. RewoundTo(st, v, now) \in Vals
  BY <1>1, <1>2 DEF RewoundTo, Holds
<1>6. Popped(st) = SubSeq(st, 1, IF st = <<>> THEN 0 ELSE Len(st) - 1)
  BY DEF Popped
<1>7. PoppedTo(st, now) \in Vals
  BY <1>2 DEF PoppedTo
<1> QED
  BY <1>3, <1>4, <1>5, <1>6, <1>7

-----------------------------------------------------------------------------
(* Steps.                                                                  *)

\* Every handler is, for the memory, a step of its own or no step at all.
LEMMA MemoryHalf ==
  ASSUME [Next]_vars
  PROVE  [MemNext]_memVars
BY DEF Next, Fork, ForkErr, SnapshotOp, CtxSwitch, Checkpoint, Fence, RestoreOp,
       AbortTo, AbortLatest, SignalAbort, EngineStep, MemoryStep, MemNext, vars

\* A step that pushes: one entry on every stack, for a version just issued.
Pushes ==
  /\ version + 1 \in Versions /\ version' = version + 1
  /\ stack' = [e \in Engines |-> Append(stack[e], [ver |-> version + 1, val |-> eng[e]])]
  /\ eng' = eng
  /\ sealed' = Put(sealed, version + 1, eng)
  /\ moves' = moves

\* A step that cuts: every stack is left a prefix, stacks of the same
\* versions and the same group are left prefixes of the same length.
Cuts ==
  /\ version' \in Nat /\ version' >= version
  /\ \E n \in [Engines -> Nat] :
       /\ \A e \in Engines : n[e] <= Len(stack[e])
       /\ stack' = [e \in Engines |-> SubSeq(stack[e], 1, n[e])]
       /\ \A e, f \in Engines :
            /\ e \in SignalEngines <=> f \in SignalEngines
            /\ VersionsOf(stack[e]) = VersionsOf(stack[f])
            => n[e] = n[f]
  /\ eng' \in [Engines -> Vals]
  /\ sealed' = sealed
  /\ moves' \in 0 .. MaxMoves

EngTypeOK ==
  /\ eng \in [Engines -> Vals]
  /\ stack \in [Engines -> Seq(Entry)]
  /\ IsMap(sealed, Versions, [Engines -> Vals])
  /\ moves \in 0 .. MaxMoves

LEMMA TypeHalves == TypeOK <=> MemTypeOK /\ EngTypeOK
BY DEF TypeOK, EngTypeOK, Entry

LEMMA SameVersions ==
  ASSUME NEW a \in Seq(Entry), NEW b \in Seq(Entry), VersionsOf(a) = VersionsOf(b), NEW v
  PROVE  Len(a) = Len(b) /\ Left(a, v) = Left(b, v)
<1>1. DOMAIN a = DOMAIN b /\ \A i \in DOMAIN a : a[i].ver = b[i].ver
  BY DEF VersionsOf
<1>2. Len(a) = Len(b)
  BY <1>1
<1>3. {i \in DOMAIN a : a[i].ver <= v} = {i \in DOMAIN b : b[i].ver <= v}
  BY <1>1
<1>4. Height(a, v) = Height(b, v)
  BY <1>3 DEF Height
<1>5. Height(a, v) \in 0 .. Len(a)
  BY HeightIs
<1>6. Holds(a, v) <=> Holds(b, v)
  BY <1>1, <1>4, <1>5 DEF Holds
<1> QED
  BY <1>2, <1>4, <1>6 DEF Left

\* A prefix of the whole length is the stack itself.
LEMMA WholePrefix ==
  ASSUME NEW T, NEW st \in Seq(T)
  PROVE  SubSeq(st, 1, Len(st)) = st
OBVIOUS

LEMMA RewindCuts ==
  ASSUME EngTypeOK, version' \in Nat, version' >= version, NEW v, RewindAll(v), UNCHANGED <<sealed, moves>>
  PROVE  Cuts
<1> DEFINE n == [e \in Engines |-> Left(stack[e], v)]
<1>1. \A e \in Engines : stack[e] \in Seq(Entry) /\ eng[e] \in Vals
  BY DEF EngTypeOK
<1>2. \A e \in Engines : /\ Left(stack[e], v) \in 0 .. Len(stack[e])
                         /\ Len(stack[e]) \in Nat
                         /\ Rewound(stack[e], v) = SubSeq(stack[e], 1, Left(stack[e], v))
                         /\ RewoundTo(stack[e], v, eng[e]) \in Vals
  <2> TAKE e \in Engines
  <2>1. stack[e] \in Seq(Entry) /\ eng[e] \in Vals
    BY <1>1
  <2>2. Len(stack[e]) \in Nat
    BY <2>1
  <2> QED
    BY <2>1, <2>2, PopsCut
<1>3. n \in [Engines -> Nat] /\ \A e \in Engines : n[e] <= Len(stack[e])
  BY <1>2
<1>4. stack' = [e \in Engines |-> SubSeq(stack[e], 1, n[e])]
  BY <1>2 DEF RewindAll
<1>5. \A e, f \in Engines : VersionsOf(stack[e]) = VersionsOf(stack[f]) => n[e] = n[f]
  BY <1>1, SameVersions
<1>6. eng' \in [Engines -> Vals]
  BY <1>2 DEF RewindAll
<1>7. moves' \in 0 .. MaxMoves
  BY DEF EngTypeOK
<1> HIDE DEF n
<1> QED
  BY <1>3, <1>4, <1>5, <1>6, <1>7 DEF Cuts

LEMMA PopCuts ==
  ASSUME EngTypeOK, version' \in Nat, version' >= version, NEW es \in {Engines, SignalEngines}, PopEach(es),
         UNCHANGED <<sealed, moves>>
  PROVE  Cuts
<1> DEFINE n == [e \in Engines |-> IF e \in es
                                     THEN IF stack[e] = <<>> THEN 0 ELSE Len(stack[e]) - 1
                                     ELSE Len(stack[e])]
<1>1. \A e \in Engines : stack[e] \in Seq(Entry) /\ eng[e] \in Vals
  BY DEF EngTypeOK
<1>2. \A e \in Engines : /\ Len(stack[e]) \in Nat
                         /\ stack[e] # <<>> => Len(stack[e]) > 0
                         /\ PoppedTo(stack[e], eng[e]) \in Vals
                         /\ SubSeq(stack[e], 1, Len(stack[e])) = stack[e]
                         /\ Popped(stack[e]) = SubSeq(stack[e], 1,
                              IF stack[e] = <<>> THEN 0 ELSE Len(stack[e]) - 1)
  <2> TAKE e \in Engines
  <2>1. stack[e] \in Seq(Entry) /\ eng[e] \in Vals
    BY <1>1
  <2>2. Len(stack[e]) \in Nat /\ (stack[e] # <<>> => Len(stack[e]) > 0)
    BY <2>1
  <2>3. SubSeq(stack[e], 1, Len(stack[e])) = stack[e]
    BY <2>1, WholePrefix
  <2>4. /\ PoppedTo(stack[e], eng[e]) \in Vals
        /\ Popped(stack[e]) = SubSeq(stack[e], 1,
                                     IF stack[e] = <<>> THEN 0 ELSE Len(stack[e]) - 1)
    BY <2>1, PopsCut
  <2> QED
    BY <2>2, <2>3, <2>4
<1>3. n \in [Engines -> Nat] /\ \A e \in Engines : n[e] <= Len(stack[e])
  BY <1>2
<1>4. stack' = [e \in Engines |-> SubSeq(stack[e], 1, n[e])]
  BY <1>2 DEF PopEach
<1>5. \A e, f \in Engines : /\ e \in SignalEngines <=> f \in SignalEngines
                            /\ VersionsOf(stack[e]) = VersionsOf(stack[f])
                            => n[e] = n[f]
  <2> SUFFICES ASSUME NEW e \in Engines, NEW f \in Engines,
                      e \in SignalEngines <=> f \in SignalEngines,
                      VersionsOf(stack[e]) = VersionsOf(stack[f])
               PROVE  n[e] = n[f]
    OBVIOUS
  <2>1. Len(stack[e]) = Len(stack[f])
    BY <1>1, SameVersions
  <2>2. stack[e] = <<>> <=> stack[f] = <<>>
    BY <1>1, <2>1
  <2> QED
    BY <2>1, <2>2
<1>6. eng' \in [Engines -> Vals]
  BY <1>1, <1>2 DEF PopEach
<1>7. moves' \in 0 .. MaxMoves
  BY DEF EngTypeOK
<1> HIDE DEF n
<1> QED
  BY <1>3, <1>4, <1>5, <1>6, <1>7 DEF Cuts

LEMMA KeepCuts ==
  ASSUME EngTypeOK, version' \in Nat, version' >= version, stack' = stack, sealed' = sealed,
         eng' \in [Engines -> Vals], moves' \in 0 .. MaxMoves
  PROVE  Cuts
<1> DEFINE n == [e \in Engines |-> Len(stack[e])]
<1>1. \A e \in Engines : stack[e] \in Seq(Entry)
  BY DEF EngTypeOK
<1>2. \A e \in Engines : /\ Len(stack[e]) \in Nat
                         /\ SubSeq(stack[e], 1, Len(stack[e])) = stack[e]
  BY <1>1, WholePrefix
<1>3. n \in [Engines -> Nat] /\ \A e \in Engines : n[e] <= Len(stack[e])
  BY <1>2
<1>4. stack' = [e \in Engines |-> SubSeq(stack[e], 1, n[e])]
  <2>1. stack = [e \in Engines |-> stack[e]]
    BY DEF EngTypeOK
  <2> QED
    BY <1>2, <2>1
<1>5. \A e, f \in Engines : VersionsOf(stack[e]) = VersionsOf(stack[f]) => n[e] = n[f]
  BY <1>1, SameVersions
<1> HIDE DEF n
<1> QED
  BY <1>3, <1>4, <1>5 DEF Cuts

LEMMA PushOrCut ==
  ASSUME MemTypeOK, EngTypeOK, [Next]_vars
  PROVE  Pushes \/ Cuts
<1>0. version \in 0 .. MaxVersion /\ MaxVersion \in Nat /\ MaxMoves \in Nat
  BY BoundAssumption, EngineAssumption DEF MemTypeOK
<1>1. eng \in [Engines -> Vals] /\ moves \in 0 .. MaxMoves
  BY DEF EngTypeOK
<1>2. CASE Checkpoint
  BY <1>0, <1>2 DEF Checkpoint, Snapshot, PushAll, Pushes, Versions
<1>3. CASE Fence
  <2>1. version' \in Nat /\ version' >= version /\ UNCHANGED engVars
    BY <1>0, <1>3 DEF Fence, Snapshot
  <2> QED
    BY <1>1, <2>1, KeepCuts DEF engVars
<1>4. ASSUME NEW v \in 0 .. MaxVersion, RestoreOp(v)
      PROVE  Cuts
  <2>1. version' \in Nat /\ version' >= version /\ UNCHANGED <<sealed, moves>>
    BY <1>0, <1>4 DEF RestoreOp, Restore
  <2>2. CASE Restorable(v)
    BY <2>1, <2>2, <1>4, RewindCuts DEF RestoreOp
  <2>3. CASE ~ Restorable(v)
    BY <1>1, <2>1, <2>3, <1>4, KeepCuts DEF RestoreOp
  <2> QED
    BY <2>2, <2>3
<1>5. ASSUME NEW v \in 0 .. MaxVersion, AbortTo(v)
      PROVE  Cuts
  <2>1. version' \in Nat /\ version' >= version /\ UNCHANGED <<sealed, moves>>
    BY <1>0, <1>5 DEF AbortTo, Restore
  <2> QED
    BY <2>1, <1>5, RewindCuts DEF AbortTo
<1>6. CASE AbortLatest \/ SignalAbort
  <2>1. version' \in Nat /\ version' >= version /\ UNCHANGED <<sealed, moves>>
    BY <1>0, <1>6 DEF AbortLatest, SignalAbort, Read
  <2>2. PICK es \in {Engines, SignalEngines} : PopEach(es)
    BY <1>6 DEF AbortLatest, SignalAbort
  <2> QED
    BY <2>1, <2>2, PopCuts
<1>7. ASSUME NEW e \in Engines, NEW x \in Vals, EngineStep(e, x)
      PROVE  Cuts
  <2>1. version' \in Nat /\ version' >= version /\ UNCHANGED <<stack, sealed>>
    BY <1>0, <1>7 DEF EngineStep, Read
  <2>2. eng' \in [Engines -> Vals] /\ moves' \in 0 .. MaxMoves
    BY <1>0, <1>1, <1>7 DEF EngineStep
  <2> QED
    BY <2>1, <2>2, KeepCuts
<1>8. CASE MemoryStep
  <2>1. version' \in Nat /\ version' >= version
    <3>1. version' = version
      BY <1>8 DEF MemoryStep, SetSnapshotWindow, Mutate, AllocGlobal, AllocDense,
                  AllocSparse, AllocFromModel, WriteGlobal, RemoveTensor, MutateKv,
                  MutateKvExtra, KvClear, KvReinit, AllocKv, WriteKvHeap, Edit
    <3> QED
      BY <1>0, <3>1
  <2>2. UNCHANGED engVars
    BY <1>8 DEF MemoryStep
  <2> QED
    BY <1>1, <2>1, <2>2, KeepCuts DEF engVars
<1>9. CASE UNCHANGED vars
  <2>1. version' \in Nat /\ version' >= version /\ UNCHANGED engVars
    BY <1>0, <1>9 DEF vars, memVars
  <2> QED
    BY <1>1, <2>1, KeepCuts DEF engVars
<1> QED
  BY <1>2, <1>3, <1>4, <1>5, <1>6, <1>7, <1>8, <1>9
     DEF Next, Fork, ForkErr, SnapshotOp, CtxSwitch

-----------------------------------------------------------------------------
(* The inductive invariant.                                                *)

RollbackInv ==
  MemInv /\ EngTypeOK /\ StacksOrdered /\ EntriesFaithful /\ GroupsAligned

LEMMA InitRollbackInv == Init => RollbackInv
<1> SUFFICES ASSUME Init
             PROVE  RollbackInv
  OBVIOUS
<1>1. MemInv
  BY MemInitInv DEF Init
<1>2. \A e \in Engines : stack[e] = <<>>
  BY DEF Init
<1>3. EngTypeOK
  BY ContentAssumption, EngineAssumption, EmptyIsMap DEF Init, EngTypeOK
<1>4. StacksOrdered /\ EntriesFaithful /\ GroupsAligned
  BY <1>2 DEF StacksOrdered, EntriesFaithful, GroupsAligned
<1> QED
  BY <1>1, <1>3, <1>4 DEF RollbackInv

\* What a push does to one stack.
LEMMA AppendIs ==
  ASSUME NEW T, NEW st \in Seq(T), NEW x \in T
  PROVE  /\ Append(st, x) \in Seq(T)
         /\ Len(st) \in Nat /\ DOMAIN st = 1 .. Len(st)
         /\ DOMAIN Append(st, x) = 1 .. Len(st) + 1
         /\ \A i \in 1 .. Len(st) : Append(st, x)[i] = st[i]
         /\ Append(st, x)[Len(st) + 1] = x
OBVIOUS

LEMMA PushKeepsInv ==
  ASSUME RollbackInv, Pushes
  PROVE  EngTypeOK' /\ StacksOrdered' /\ EntriesFaithful' /\ GroupsAligned'
<1>0. version \in Nat /\ version' = version + 1 /\ version + 1 \in Versions
  BY BoundAssumption DEF RollbackInv, MemInv, MemTypeOK, Pushes
<1>1. \A e \in Engines : stack[e] \in Seq(Entry)
  BY DEF RollbackInv, EngTypeOK
<1>2. ASSUME NEW e \in Engines
      PROVE  /\ stack'[e] \in Seq(Entry)
             /\ Len(stack[e]) \in Nat /\ DOMAIN stack[e] = 1 .. Len(stack[e])
             /\ DOMAIN stack'[e] = 1 .. Len(stack[e]) + 1
             /\ \A i \in 1 .. Len(stack[e]) : stack'[e][i] = stack[e][i]
             /\ stack'[e][Len(stack[e]) + 1].ver = version + 1
             /\ stack'[e][Len(stack[e]) + 1].val = eng[e]
  <2> DEFINE top == [ver |-> version + 1, val |-> eng[e]]
  <2>1. stack[e] \in Seq(Entry) /\ stack'[e] = Append(stack[e], top)
    BY <1>1 DEF Pushes
  <2>2. top \in Entry /\ top.ver = version + 1 /\ top.val = eng[e]
    BY <1>0 DEF RollbackInv, EngTypeOK, Entry
  <2> HIDE DEF top
  <2>3. /\ Append(stack[e], top) \in Seq(Entry)
        /\ Len(stack[e]) \in Nat /\ DOMAIN stack[e] = 1 .. Len(stack[e])
        /\ DOMAIN Append(stack[e], top) = 1 .. Len(stack[e]) + 1
        /\ \A i \in 1 .. Len(stack[e]) : Append(stack[e], top)[i] = stack[e][i]
        /\ Append(stack[e], top)[Len(stack[e]) + 1] = top
    BY <2>1, <2>2, AppendIs
  <2> QED
    BY <2>1, <2>2, <2>3
<1>3. EngTypeOK'
  <2>1. stack' \in [Engines -> Seq(Entry)]
    BY <1>2 DEF Pushes
  <2>2. IsMap(sealed', Versions, [Engines -> Vals])
    <3>1. eng \in [Engines -> Vals] /\ IsMap(sealed, Versions, [Engines -> Vals])
      BY DEF RollbackInv, EngTypeOK
    <3> QED
      BY <1>0, <3>1, PutMap DEF Pushes
  <2> QED
    BY <2>1, <2>2 DEF EngTypeOK, RollbackInv, Pushes
<1>4. ASSUME NEW e \in Engines, NEW i \in DOMAIN stack[e]
      PROVE  stack[e][i].ver \in Nat /\ stack[e][i].ver <= version
  <2>1. stack[e] \in Seq(Entry)
    BY <1>1
  <2>2. stack[e][i] \in Entry
    BY <2>1
  <2> QED
    BY <2>2 DEF RollbackInv, StacksOrdered, Entry, Versions
<1>5. StacksOrdered'
  <2> SUFFICES ASSUME NEW e \in Engines
               PROVE  /\ \A i, j \in DOMAIN stack'[e] : i < j => stack'[e][i].ver < stack'[e][j].ver
                      /\ \A i \in DOMAIN stack'[e] : stack'[e][i].ver <= version'
    BY DEF StacksOrdered
  <2>1. \A i \in DOMAIN stack[e] : stack[e][i].ver \in Nat /\ stack[e][i].ver <= version
    BY <1>4
  <2>2. \A i, j \in DOMAIN stack[e] : i < j => stack[e][i].ver < stack[e][j].ver
    BY DEF RollbackInv, StacksOrdered
  <2>3. stack'[e][Len(stack[e]) + 1].ver = version + 1
    BY <1>2
  <2> DEFINE n == Len(stack[e])
  <2>4. n \in Nat /\ DOMAIN stack[e] = 1 .. n /\ DOMAIN stack'[e] = 1 .. n + 1
    BY <1>2
  <2>5. \A i \in 1 .. n : /\ stack'[e][i].ver = stack[e][i].ver
                           /\ stack[e][i].ver \in Nat
                           /\ stack[e][i].ver < version + 1
    BY <1>0, <1>2, <2>1, <2>4
  <2>6. stack'[e][n + 1].ver = version + 1
    BY <2>3
  <2> HIDE DEF n
  <2>7. \A i, j \in 1 .. n + 1 : i < j => stack'[e][i].ver < stack'[e][j].ver
    <3> TAKE i, j \in 1 .. n + 1
    <3> HAVE i < j
    <3>1. i \in 1 .. n
      BY <2>4
    <3>2. CASE j \in 1 .. n
      BY <2>2, <2>4, <2>5, <3>1, <3>2
    <3>3. CASE j = n + 1
      BY <2>5, <2>6, <3>1, <3>3
    <3> QED
      BY <2>4, <3>2, <3>3
  <2>8. \A i \in 1 .. n + 1 : stack'[e][i].ver <= version'
    BY <1>0, <2>4, <2>5, <2>6
  <2> QED
    BY <2>4, <2>7, <2>8
<1>6. EntriesFaithful'
  <2> SUFFICES ASSUME NEW e \in Engines, NEW i \in DOMAIN stack'[e]
               PROVE  /\ stack'[e][i].ver \in DOMAIN sealed'
                      /\ stack'[e][i].val = sealed'[stack'[e][i].ver][e]
    BY DEF EntriesFaithful
  <2>1. sealed' = Put(sealed, version + 1, eng)
    BY DEF Pushes
  <2>2. CASE i = Len(stack[e]) + 1
    BY <1>2, <2>1, <2>2 DEF Put
  <2>3. CASE i \in DOMAIN stack[e]
    <3>1. stack'[e][i] = stack[e][i]
      BY <1>2, <2>3
    <3>2. /\ stack[e][i].ver \in DOMAIN sealed
          /\ stack[e][i].val = sealed[stack[e][i].ver][e]
      BY <2>3 DEF RollbackInv, EntriesFaithful
    <3>3. stack[e][i].ver # version + 1
      BY <1>0, <1>4, <2>3
    <3> QED
      BY <2>1, <3>1, <3>2, <3>3 DEF Put
  <2> QED
    BY <1>2, <2>2, <2>3
<1>7. GroupsAligned'
  <2> SUFFICES ASSUME NEW e \in Engines, NEW f \in Engines,
                      e \in SignalEngines <=> f \in SignalEngines
               PROVE  VersionsOf(stack'[e]) = VersionsOf(stack'[f])
    BY DEF GroupsAligned
  <2>1. VersionsOf(stack[e]) = VersionsOf(stack[f])
    BY DEF RollbackInv, GroupsAligned
  <2>2. DOMAIN stack[e] = DOMAIN stack[f] /\ \A i \in DOMAIN stack[e] : stack[e][i].ver = stack[f][i].ver
    BY <2>1 DEF VersionsOf
  <2>3. Len(stack[e]) = Len(stack[f])
    BY <1>1, <2>2
  <2>4. DOMAIN stack'[e] = DOMAIN stack'[f]
    BY <1>2, <2>3
  <2>5. \A i \in DOMAIN stack'[e] : stack'[e][i].ver = stack'[f][i].ver
    <3>1. ASSUME NEW i \in 1 .. Len(stack[e])
          PROVE  stack'[e][i].ver = stack'[f][i].ver
      BY <1>2, <2>2, <2>3
    <3>2. stack'[e][Len(stack[e]) + 1].ver = stack'[f][Len(stack[e]) + 1].ver
      BY <1>2, <2>3
    <3>3. DOMAIN stack'[e] = 1 .. Len(stack[e]) + 1 /\ Len(stack[e]) \in Nat
      BY <1>2
    <3> DEFINE n == Len(stack[e])
    <3>4. \A i \in 1 .. n + 1 : i \in 1 .. n \/ i = n + 1
      BY <3>3
    <3> HIDE DEF n
    <3> QED
      BY <3>1, <3>2, <3>3, <3>4 DEF n
  <2> QED
    BY <2>4, <2>5 DEF VersionsOf
<1> QED
  BY <1>3, <1>5, <1>6, <1>7

LEMMA CutKeepsInv ==
  ASSUME RollbackInv, Cuts
  PROVE  EngTypeOK' /\ StacksOrdered' /\ EntriesFaithful' /\ GroupsAligned'
<1>0. version \in Nat /\ version' \in Nat /\ version' >= version /\ sealed' = sealed
  BY BoundAssumption DEF RollbackInv, MemInv, MemTypeOK, Cuts
<1>1. PICK n \in [Engines -> Nat] :
        /\ \A e \in Engines : n[e] <= Len(stack[e])
        /\ stack' = [e \in Engines |-> SubSeq(stack[e], 1, n[e])]
        /\ \A e, f \in Engines :
             /\ e \in SignalEngines <=> f \in SignalEngines
             /\ VersionsOf(stack[e]) = VersionsOf(stack[f])
             => n[e] = n[f]
  BY DEF Cuts
<1>2. ASSUME NEW e \in Engines
      PROVE  /\ stack'[e] \in Seq(Entry)
             /\ DOMAIN stack'[e] = 1 .. n[e]
             /\ DOMAIN stack'[e] \subseteq DOMAIN stack[e]
             /\ \A i \in DOMAIN stack'[e] : stack'[e][i] = stack[e][i]
  <2>1. stack[e] \in Seq(Entry) /\ n[e] \in 0 .. Len(stack[e])
    BY <1>1 DEF RollbackInv, EngTypeOK
  <2>2. stack'[e] = SubSeq(stack[e], 1, n[e])
    BY <1>1
  <2>3. /\ SubSeq(stack[e], 1, n[e]) \in Seq(Entry)
        /\ DOMAIN SubSeq(stack[e], 1, n[e]) = 1 .. n[e]
        /\ \A i \in 1 .. n[e] : SubSeq(stack[e], 1, n[e])[i] = stack[e][i]
    BY <2>1, PrefixIs
  <2>4. 1 .. n[e] \subseteq DOMAIN stack[e]
    BY <2>1
  <2> QED
    BY <2>2, <2>3, <2>4
<1>3. EngTypeOK'
  BY <1>1, <1>2 DEF EngTypeOK, RollbackInv, Cuts
<1>4. StacksOrdered'
  <2> SUFFICES ASSUME NEW e \in Engines
               PROVE  /\ \A i, j \in DOMAIN stack'[e] : i < j => stack'[e][i].ver < stack'[e][j].ver
                      /\ \A i \in DOMAIN stack'[e] : stack'[e][i].ver <= version'
    BY DEF StacksOrdered
  <2>1. \A i \in DOMAIN stack[e] : stack[e][i].ver \in Nat /\ stack[e][i].ver <= version
    <3>1. stack[e] \in Seq(Entry)
      BY DEF RollbackInv, EngTypeOK
    <3>2. \A i \in DOMAIN stack[e] : stack[e][i] \in Entry
      BY <3>1
    <3> QED
      BY <3>2 DEF RollbackInv, StacksOrdered, Entry, Versions
  <2>2. \A i, j \in DOMAIN stack[e] : i < j => stack[e][i].ver < stack[e][j].ver
    BY DEF RollbackInv, StacksOrdered
  <2> QED
    BY <1>0, <1>2, <2>1, <2>2
<1>5. EntriesFaithful'
  <2> SUFFICES ASSUME NEW e \in Engines, NEW i \in DOMAIN stack'[e]
               PROVE  /\ stack'[e][i].ver \in DOMAIN sealed'
                      /\ stack'[e][i].val = sealed'[stack'[e][i].ver][e]
    BY DEF EntriesFaithful
  <2>1. i \in DOMAIN stack[e] /\ stack'[e][i] = stack[e][i]
    BY <1>2
  <2> QED
    BY <1>0, <2>1 DEF RollbackInv, EntriesFaithful
<1>6. GroupsAligned'
  <2> SUFFICES ASSUME NEW e \in Engines, NEW f \in Engines,
                      e \in SignalEngines <=> f \in SignalEngines
               PROVE  VersionsOf(stack'[e]) = VersionsOf(stack'[f])
    BY DEF GroupsAligned
  <2>1. VersionsOf(stack[e]) = VersionsOf(stack[f])
    BY DEF RollbackInv, GroupsAligned
  <2>2. DOMAIN stack[e] = DOMAIN stack[f] /\ \A i \in DOMAIN stack[e] : stack[e][i].ver = stack[f][i].ver
    BY <2>1 DEF VersionsOf
  <2>3. n[e] = n[f]
    BY <1>1, <2>1
  <2>4. DOMAIN stack'[e] = DOMAIN stack'[f]
    BY <1>2, <2>3
  <2>5. \A i \in DOMAIN stack'[e] : stack'[e][i].ver = stack'[f][i].ver
    BY <1>2, <2>2, <2>4
  <2> QED
    BY <2>4, <2>5 DEF VersionsOf
<1> QED
  BY <1>3, <1>4, <1>5, <1>6

LEMMA RollbackInvStep ==
  ASSUME RollbackInv, [Next]_vars
  PROVE  RollbackInv'
<1>1. MemInv'
  BY MemInvStep, MemoryHalf DEF RollbackInv
<1>2. Pushes \/ Cuts
  BY PushOrCut DEF RollbackInv, MemInv
<1>3. EngTypeOK' /\ StacksOrdered' /\ EntriesFaithful' /\ GroupsAligned'
  BY <1>2, PushKeepsInv, CutKeepsInv
<1> QED
  BY <1>1, <1>3 DEF RollbackInv

LEMMA RollbackInvAlways == Spec => []RollbackInv
BY InitRollbackInv, RollbackInvStep, PTL DEF Spec

\* The engines, their stacks and the history have their types, beside the
\* memory of SnapshotStore (vm.rs:490-515).
THEOREM RollbackTypeCorrect == Spec => []TypeOK
<1>1. RollbackInv => TypeOK
  BY TypeHalves DEF RollbackInv, MemInv
<1> QED
  BY <1>1, RollbackInvAlways, PTL

\* No sequence of FORK, SNAPSHOT, RESTORE, ABORT and SIGNAL puts a stack out
\* of order, which is what the version-gated pops rely on.
THEOREM StacksStayOrdered == Spec => []StacksOrdered
BY RollbackInvAlways, PTL DEF RollbackInv

\* Engines that the same handlers pop never get out of step.
THEOREM GroupsStayAligned == Spec => []GroupsAligned
BY RollbackInvAlways, PTL DEF RollbackInv

\* Every entry is its engine's state at the version it is tagged with.
THEOREM EntriesAreFaithful == Spec => []EntriesFaithful
BY RollbackInvAlways, PTL DEF RollbackInv

-----------------------------------------------------------------------------
(* A rewind is exact.                                                      *)

\* On an ordered stack the pops of ABORT and RESTORE leave just the entries
\* older than v, and the entry of v, wherever it is, is found.
LEMMA RewoundIs ==
  ASSUME NEW st \in Seq(Entry), NEW v \in Versions,
         \A i, j \in DOMAIN st : i < j => st[i].ver < st[j].ver
  PROVE  /\ \A i \in DOMAIN st : st[i].ver = v => Holds(st, v) /\ i = Height(st, v)
         /\ Entries(Rewound(st, v)) = {x \in Entries(st) : x.ver < v}
<1> DEFINE h == Height(st, v)
<1>1. /\ h \in 0 .. Len(st)
      /\ h > 0 => st[h].ver <= v
      /\ \A i \in DOMAIN st : st[i].ver <= v => i <= h
  BY HeightIs
<1>2. DOMAIN st = 1 .. Len(st) /\ Len(st) \in Nat /\ v \in Nat
  BY DEF Versions
<1>3. \A i \in DOMAIN st : st[i].ver \in Nat
  <2>1. \A i \in DOMAIN st : st[i] \in Entry
    BY <1>2
  <2> QED
    BY <2>1 DEF Entry, Versions
<1> DEFINE n == Left(st, v)
<1>4. n \in 0 .. Len(st) /\ Rewound(st, v) = SubSeq(st, 1, n)
  <2>1. PICK now : now \in Vals
    BY ContentAssumption
  <2> QED
    BY <2>1, PopsCut
<1>5. /\ DOMAIN SubSeq(st, 1, n) = 1 .. n
      /\ \A i \in 1 .. n : SubSeq(st, 1, n)[i] = st[i]
  <2> HIDE DEF n
  <2> QED
    BY <1>4, PrefixIs
<1>6. Holds(st, v) <=> h > 0 /\ st[h].ver = v
  BY DEF Holds
<1>7. n = IF h > 0 /\ st[h].ver = v THEN h - 1 ELSE h
  BY <1>6 DEF Left
<1> HIDE DEF h, n
<1>8. ASSUME NEW i \in DOMAIN st, st[i].ver = v
      PROVE  Holds(st, v) /\ i = h
  <2>1. i <= h /\ h \in DOMAIN st /\ h > 0
    BY <1>1, <1>2, <1>3, <1>8
  <2>2. ~ (i < h)
    <3>1. i < h => st[i].ver < st[h].ver
      BY <2>1
    <3> QED
      BY <1>1, <1>2, <1>3, <1>8, <2>1, <3>1
  <2>3. i = h
    BY <1>2, <2>1, <2>2
  <2> QED
    BY <1>6, <1>8, <2>1, <2>3
<1>9. \A i \in DOMAIN st : i \in 1 .. n <=> st[i].ver < v
  <2> TAKE i \in DOMAIN st
  <2>1. CASE st[i].ver < v
    <3>1. i <= h
      BY <1>1, <1>2, <1>3, <2>1
    <3>2. i # h \/ st[h].ver # v
      BY <1>2, <1>3, <2>1
    <3> QED
      BY <1>1, <1>2, <1>7, <2>1, <3>1, <3>2
  <2>2. CASE ~ (st[i].ver < v)
    <3>1. st[i].ver = v => n = h - 1 /\ i = h
      BY <1>6, <1>7, <1>8
    <3>2. st[i].ver > v => ~ (i <= h)
      <4> SUFFICES ASSUME st[i].ver > v, i <= h
                   PROVE  FALSE
        OBVIOUS
      <4>1. h \in DOMAIN st /\ h > 0
        BY <1>1, <1>2
      <4>2. i = h \/ st[i].ver < st[h].ver
        BY <1>2, <4>1
      <4> QED
        BY <1>1, <1>2, <1>3, <4>1, <4>2
    <3> QED
      BY <1>1, <1>2, <1>3, <1>4, <1>7, <2>2, <3>1, <3>2
  <2> QED
    BY <2>1, <2>2
<1>10. Entries(Rewound(st, v)) = {x \in Entries(st) : x.ver < v}
  <2>1. Entries(Rewound(st, v)) = {st[i] : i \in 1 .. n}
    BY <1>4, <1>5 DEF Entries
  <2>2. 1 .. n \subseteq DOMAIN st
    BY <1>2, <1>4
  <2> QED
    BY <1>9, <2>1, <2>2 DEF Entries
<1> QED
  BY <1>8, <1>10 DEF h

LEMMA StepExact ==
  ASSUME RollbackInv, [Next]_vars, NEW v \in Versions, answer' = Restored(v), ~ UNCHANGED vars,
         NEW e \in Engines
  PROVE  /\ (\E x \in Entries(stack[e]) : x.ver = v) => eng'[e] = sealed[v][e]
         /\ Entries(stack'[e]) = {x \in Entries(stack[e]) : x.ver < v}
<1>1. RewindAll(v)
  <2>1. answer' # Done
    BY DEF Done, Restored
  <2>2. \A w : Refused(w) # Restored(v) /\ (Restored(w) = Restored(v) => w = v)
    BY DEF Refused, Restored
  <2>3. PICK w \in 0 .. MaxVersion : RestoreOp(w) \/ AbortTo(w)
    BY <2>1 DEF Next, Fork, ForkErr, SnapshotOp, CtxSwitch, Checkpoint, Fence, Snapshot,
                AbortLatest, SignalAbort, EngineStep, Read, MemoryStep, SetSnapshotWindow,
                Mutate, AllocGlobal, AllocDense, AllocSparse, AllocFromModel, WriteGlobal,
                RemoveTensor, MutateKv, MutateKvExtra, KvClear, KvReinit, AllocKv,
                WriteKvHeap, Edit
  <2>4. Restore(w)
    BY <2>3 DEF RestoreOp, AbortTo
  <2>5. Restorable(w) /\ w = v
    BY <2>2, <2>4 DEF Restore
  <2> QED
    BY <2>3, <2>5 DEF RestoreOp, AbortTo
<1>2. /\ stack[e] \in Seq(Entry)
      /\ \A i, j \in DOMAIN stack[e] : i < j => stack[e][i].ver < stack[e][j].ver
  BY DEF RollbackInv, EngTypeOK, StacksOrdered
<1>3. /\ \A i \in DOMAIN stack[e] :
            stack[e][i].ver = v => Holds(stack[e], v) /\ i = Height(stack[e], v)
      /\ Entries(Rewound(stack[e], v)) = {x \in Entries(stack[e]) : x.ver < v}
  BY <1>2, RewoundIs
<1>4. eng'[e] = RewoundTo(stack[e], v, eng[e]) /\ stack'[e] = Rewound(stack[e], v)
  BY <1>1 DEF RewindAll
<1>5. ASSUME NEW i \in DOMAIN stack[e], stack[e][i].ver = v
      PROVE  eng'[e] = sealed[v][e]
  <2>1. eng'[e] = stack[e][i].val
    BY <1>3, <1>4, <1>5 DEF RewoundTo
  <2> QED
    BY <1>5, <2>1 DEF RollbackInv, EntriesFaithful
<1> QED
  BY <1>3, <1>4, <1>5 DEF Entries

\* RESTORE v and ABORT to v bring every engine whose stack carries v back to
\* what it was at v, and forget just the entries that are not older than v.
THEOREM RewindsAreExact == Spec => RewindExact
<1>1. RollbackInv /\ [Next]_vars =>
        [\A v \in Versions : answer' = Restored(v) =>
           \A e \in Engines :
             /\ (\E x \in Entries(stack[e]) : x.ver = v) => eng'[e] = sealed[v][e]
             /\ Entries(stack'[e]) = {x \in Entries(stack[e]) : x.ver < v}]_vars
  BY StepExact
<1> QED
  BY <1>1, RollbackInvAlways, PTL DEF Spec, RewindExact
=============================================================================
