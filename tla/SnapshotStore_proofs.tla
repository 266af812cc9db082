------------------------ MODULE SnapshotStore_proofs ------------------------
(***************************************************************************)
(* Proofs about SnapshotStore: its type invariant, the agreement of the    *)
(* six maps, the window, address freshness, metadata coherence, the        *)
(* immutability of versions, and the refinement of VersionArchive.         *)
(***************************************************************************)
EXTENDS SnapshotStore, FiniteSetTheorems, TLAPS

-----------------------------------------------------------------------------
(* Maps.                                                                   *)

LEMMA PutMap ==
  ASSUME NEW S, NEW T, NEW f, IsMap(f, S, T), NEW x \in S, NEW y \in T
  PROVE  IsMap(Put(f, x, y), S, T)
BY DEF IsMap, Put

LEMMA WithoutMap ==
  ASSUME NEW S, NEW T, NEW f, IsMap(f, S, T), NEW gone
  PROVE  IsMap(Without(f, gone), S, T)
BY DEF IsMap, Without, Restrict

LEMMA EmptyIsMap ==
  ASSUME NEW S, NEW T
  PROVE  IsMap(EmptyMap, S, T)
BY DEF IsMap, EmptyMap

-----------------------------------------------------------------------------
(* Type correctness.                                                       *)

\* The live stores have their types, whatever the snapshots hold.
LiveOK ==
  /\ live = [s \in Stores |-> live[s]]
  /\ IsMap(live["heap"], Addr, Vals)
  /\ IsMap(live["kvHeap"], Addr, Vals)
  /\ live["kv"] \in Vals
  /\ live["kvExtra"] \in Vals
  /\ live["sparse"] \subseteq Addr
  /\ IsMap(live["meta"], Addr \cup Weights, {"dense", "sparse"})

LEMMA ContentCases ==
  ASSUME NEW x
  PROVE  /\ IsContent("heap", x) <=> IsMap(x, Addr, Vals)
         /\ IsContent("kvHeap", x) <=> IsMap(x, Addr, Vals)
         /\ IsContent("kv", x) <=> x \in Vals
         /\ IsContent("kvExtra", x) <=> x \in Vals
         /\ IsContent("sparse", x) <=> x \subseteq Addr
         /\ IsContent("meta", x) <=> IsMap(x, Addr \cup Weights, {"dense", "sparse"})
BY DEF IsContent

LEMMA LiveContents == LiveTypeOK => LiveOK
BY ContentCases DEF LiveOK, LiveTypeOK, Stores

\* A change of some stores to contents of theirs keeps the live stores typed.
LEMMA BecomeOK ==
  ASSUME NEW changes, LiveTypeOK, Become(changes),
         \A s \in Stores \cap DOMAIN changes : IsContent(s, changes[s])
  PROVE  LiveTypeOK'
<1>1. live' = [s \in Stores |-> live'[s]]
  BY DEF Become
<1>2. \A s \in Stores : IsContent(s, live'[s])
  BY DEF Become, LiveTypeOK
<1> QED
  BY <1>1, <1>2 DEF LiveTypeOK

LEMMA MutateOK ==
  ASSUME LiveTypeOK, PointersTypeOK, Mutate
  PROVE  LiveTypeOK' /\ PointersTypeOK'
<1> USE ContentAssumption, BoundAssumption
<1> LiveOK
  BY LiveContents
<1>0. /\ nextAddr <= MaxAddr => nextAddr \in Addr
      /\ kvNext <= MaxAddr => kvNext \in Addr
  BY DEF PointersTypeOK, Addr
<1>1. CASE AllocGlobal
  <2>1. IsContent("heap", Put(live["heap"], nextAddr, Empty))
    BY <1>0, <1>1, PutMap, ContentCases DEF AllocGlobal, LiveOK
  <2> QED
    BY <2>1, <1>1, BecomeOK DEF AllocGlobal, PointersTypeOK, Edit
<1>2. CASE AllocDense
  <2>1. IsContent("heap", Put(live["heap"], nextAddr, Empty))
    BY <1>0, <1>2, PutMap, ContentCases DEF AllocDense, LiveOK
  <2>2. IsContent("meta", Put(live["meta"], nextAddr, "dense"))
    BY <1>0, <1>2, PutMap, ContentCases DEF AllocDense, LiveOK
  <2> QED
    BY <2>1, <2>2, <1>2, BecomeOK DEF AllocDense, PointersTypeOK, Edit
<1>3. CASE AllocSparse
  <2>1. IsContent("heap", Put(live["heap"], nextAddr, Empty))
    BY <1>0, <1>3, PutMap, ContentCases DEF AllocSparse, LiveOK
  <2>2. IsContent("meta", Put(live["meta"], nextAddr, "sparse"))
    BY <1>0, <1>3, PutMap, ContentCases DEF AllocSparse, LiveOK
  <2>3. IsContent("sparse", live["sparse"] \cup {nextAddr})
    BY <1>0, <1>3, ContentCases DEF AllocSparse, LiveOK
  <2> QED
    BY <2>1, <2>2, <2>3, <1>3, BecomeOK DEF AllocSparse, PointersTypeOK, Edit
<1>4. ASSUME NEW w \in Weights, AllocFromModel(w)
      PROVE  LiveTypeOK' /\ PointersTypeOK'
  <2>1. IsContent("meta", Put(live["meta"], w, "dense"))
    BY <1>4, PutMap, ContentCases DEF LiveOK
  <2> QED
    BY <2>1, <1>4, BecomeOK DEF AllocFromModel, PointersTypeOK, Edit
<1>5. ASSUME NEW a \in Addr, NEW x \in Vals, WriteGlobal(a, x)
      PROVE  LiveTypeOK' /\ PointersTypeOK'
  <2>1. IsContent("heap", Put(live["heap"], a, x))
    BY <1>5, PutMap, ContentCases DEF LiveOK
  <2> QED
    BY <2>1, <1>5, BecomeOK DEF WriteGlobal, PointersTypeOK, Edit
<1>6. ASSUME NEW a \in Addr \cup Weights, RemoveTensor(a)
      PROVE  LiveTypeOK' /\ PointersTypeOK'
  <2>1. IsContent("heap", Without(live["heap"], {a}))
    BY WithoutMap, ContentCases DEF LiveOK
  <2>2. IsContent("meta", Without(live["meta"], {a}))
    BY WithoutMap, ContentCases DEF LiveOK
  <2>3. IsContent("sparse", live["sparse"] \ {a})
    BY ContentCases DEF LiveOK
  <2> QED
    <3> DEFINE changes == [heap   |-> Without(live["heap"], {a}),
                           sparse |-> live["sparse"] \ {a},
                           meta   |-> Without(live["meta"], {a})]
    <3>1. \A s \in Stores \cap DOMAIN changes : IsContent(s, changes[s])
      BY <2>1, <2>2, <2>3
    <3>2. Become(changes)
      BY <1>6 DEF RemoveTensor
    <3>3. PointersTypeOK'
      BY <1>6 DEF RemoveTensor, PointersTypeOK, Edit
    <3> HIDE DEF changes
    <3> QED
      BY <3>1, <3>2, <3>3, BecomeOK
<1>7. ASSUME NEW x \in Vals, MutateKv(x) \/ MutateKvExtra(x)
      PROVE  LiveTypeOK' /\ PointersTypeOK'
  <2>1. IsContent("kv", x) /\ IsContent("kvExtra", x)
    BY ContentCases
  <2>2. CASE MutateKv(x)
    BY <2>1, <2>2, BecomeOK DEF MutateKv, PointersTypeOK, Edit
  <2>3. CASE MutateKvExtra(x)
    BY <2>1, <2>3, BecomeOK DEF MutateKvExtra, PointersTypeOK, Edit
  <2> QED
    BY <1>7, <2>2, <2>3
<1>8. CASE KvClear \/ KvReinit
  <2>1. IsContent("kv", Empty) /\ IsContent("kvExtra", Empty)
    BY ContentCases
  <2>2. CASE KvClear
    BY <2>1, <2>2, BecomeOK DEF KvClear, PointersTypeOK, Edit
  <2>3. CASE KvReinit
    BY <2>1, <2>3, BecomeOK DEF KvReinit, PointersTypeOK, Edit
  <2> QED
    BY <1>8, <2>2, <2>3
<1>9. CASE AllocKv
  <2>1. IsContent("kvHeap", Put(live["kvHeap"], kvNext, Empty))
    BY <1>0, <1>9, PutMap, ContentCases DEF AllocKv, LiveOK
  <2> QED
    BY <2>1, <1>9, BecomeOK DEF AllocKv, PointersTypeOK, Edit
<1>10. ASSUME NEW a \in Addr, NEW x \in Vals, WriteKvHeap(a, x)
       PROVE  LiveTypeOK' /\ PointersTypeOK'
  <2>1. IsContent("kvHeap", Put(live["kvHeap"], a, x))
    BY <1>10, PutMap, ContentCases DEF LiveOK
  <2> QED
    BY <2>1, <1>10, BecomeOK DEF WriteKvHeap, PointersTypeOK, Edit
<1> QED
  BY <1>1, <1>2, <1>3, <1>4, <1>5, <1>6, <1>7, <1>8, <1>9, <1>10 DEF Mutate

-----------------------------------------------------------------------------
(* The retention window.                                                   *)

\* When the keys are the newest versions without a gap, what the eviction
\* loop takes out can be read off the version numbers.
LEMMA EvictedVersions ==
  ASSUME NEW top \in Nat, NEW K \in SUBSET (1 .. top),
         \A v \in K : v .. top \subseteq K, NEW m \in Nat
  PROVE  Evicted(K, m) = {v \in K : m # 0 /\ v + m <= top}
<1>1. ASSUME NEW v \in K
      PROVE  Cardinality({w \in K : w > v}) = top - v
  <2>1. v \in Nat /\ v <= top /\ v .. top \subseteq K
    OBVIOUS
  <2>2. {w \in K : w > v} = (v + 1) .. top
    <3>1. ASSUME NEW w \in K, w > v PROVE w \in (v + 1) .. top
      BY <2>1, <3>1
    <3>2. ASSUME NEW w \in (v + 1) .. top PROVE w \in K /\ w > v
      <4>1. w \in v .. top /\ w > v
        BY <2>1
      <4> QED
        BY <4>1, <2>1
    <3> QED
      BY <3>1, <3>2
  <2>3. Cardinality((v + 1) .. top) = IF v + 1 > top THEN 0 ELSE top - (v + 1) + 1
    BY <2>1, FS_Interval
  <2>4. Cardinality((v + 1) .. top) = top - v
    BY <2>1, <2>3
  <2> QED
    BY <2>2, <2>4
<1>2. \A v \in K : Cardinality({w \in K : w > v}) >= m <=> v + m <= top
  BY <1>1
<1> QED
  BY <1>2 DEF Evicted

-----------------------------------------------------------------------------
(* What the steps that touch the six maps do to them.                      *)

\* The inductive form of RetainsNewest: the window in terms of the version
\* numbers, not of a cardinality.
Newest ==
  /\ \A v \in Retained : v .. version \subseteq Retained
  /\ version > 0 => version \in Retained
  /\ window # 0 => \A v \in Retained : v + window > version

LEMMA RetainedVersions ==
  ASSUME MemTypeOK
  PROVE  /\ Retained \subseteq 1 .. version
         /\ version \in Nat
         /\ window \in Nat
BY WindowAssumption, BoundAssumption DEF MemTypeOK, SnapsTypeOK, Retained, Stores

\* snapshot(): the new version beside the old ones that the window keeps, in
\* the six maps alike.
LEMMA SnapshotMaps ==
  ASSUME MemTypeOK, SixMapsAgree, Newest, Snapshot, NEW s \in Stores
  PROVE  /\ DOMAIN snaps'[s] = {v \in Retained \cup {version + 1} :
                                  window = 0 \/ v + window > version + 1}
         /\ \A v \in DOMAIN snaps'[s] :
               snaps'[s][v] = IF v = version + 1 THEN live[s] ELSE snaps[s][v]
         /\ snaps'[s] = [v \in DOMAIN snaps'[s] |-> snaps'[s][v]]
<1> DEFINE maps == [t \in Stores |-> Put(snaps[t], version + 1, live[t])]
           keys == Retained \cup {version + 1}
<1>1. \A t \in Stores : DOMAIN maps[t] = keys
  BY DEF Put, SixMapsAgree
<1>2. snaps' = EvictOld(maps, window)
  BY DEF Snapshot
<1>3. Evicted(keys, window) = {v \in keys : window # 0 /\ v + window <= version + 1}
  <2>1. version + 1 \in Nat /\ keys \in SUBSET (1 .. version + 1)
    BY RetainedVersions
  <2>2. \A v \in keys : v .. version + 1 \subseteq keys
    <3>1. ASSUME NEW v \in Retained, NEW w \in v .. version + 1, w # version + 1
          PROVE  w \in Retained
      <4>1. w \in v .. version
        BY <3>1, RetainedVersions
      <4> QED
        BY <4>1 DEF Newest
    <3>2. \A w \in version + 1 .. version + 1 : w = version + 1
      BY RetainedVersions
    <3> QED
      BY <3>1, <3>2
  <2> QED
    BY <2>1, <2>2, EvictedVersions, RetainedVersions
<1>4. DOMAIN maps["heap"] = keys
  BY <1>1 DEF Stores
<1>5. DOMAIN snaps'[s] = keys \ Evicted(keys, window)
  <2> HIDE DEF maps, keys
  <2> QED
    BY <1>1, <1>2, <1>4 DEF EvictOld, Without, Restrict
<1>6. DOMAIN snaps'[s] = {v \in keys : window = 0 \/ v + window > version + 1}
  BY <1>3, <1>5, RetainedVersions
<1>7. /\ \A v \in DOMAIN snaps'[s] : snaps'[s][v] = maps[s][v]
      /\ snaps'[s] = [v \in DOMAIN snaps'[s] |-> snaps'[s][v]]
  <2> HIDE DEF maps
  <2> QED
    BY <1>2 DEF EvictOld, Without, Restrict
<1>8. \A v \in keys : maps[s][v] = IF v = version + 1 THEN live[s] ELSE snaps[s][v]
  BY DEF Put, SixMapsAgree
<1> QED
  BY <1>6, <1>7, <1>8

\* set_snapshot_window(max): the versions that max keeps.
LEMMA SetWindowMaps ==
  ASSUME MemTypeOK, SixMapsAgree, Newest,
         NEW max \in Windows, SetSnapshotWindow(max), NEW s \in Stores
  PROVE  /\ DOMAIN snaps'[s] = {v \in Retained : max = 0 \/ v + max > version}
         /\ \A v \in DOMAIN snaps'[s] : snaps'[s][v] = snaps[s][v]
         /\ snaps'[s] = [v \in DOMAIN snaps'[s] |-> snaps'[s][v]]
<1>1. snaps' = EvictOld(snaps, max)
  BY DEF SetSnapshotWindow
<1>2. max \in Nat
  BY WindowAssumption
<1>3. Evicted(Retained, max) = {v \in Retained : max # 0 /\ v + max <= version}
  BY <1>2, EvictedVersions, RetainedVersions DEF Newest
<1>4. DOMAIN snaps'[s] = Retained \ Evicted(Retained, max)
  <2>1. DOMAIN snaps[s] = Retained /\ DOMAIN snaps["heap"] = Retained
    BY DEF SixMapsAgree, Retained
  <2> QED
    BY <1>1, <2>1 DEF EvictOld, Without, Restrict
<1>5. DOMAIN snaps'[s] = {v \in Retained : max = 0 \/ v + max > version}
  BY <1>2, <1>3, <1>4, RetainedVersions
<1> QED
  BY <1>1, <1>5 DEF EvictOld, Without, Restrict

-----------------------------------------------------------------------------
(* The type invariant.                                                     *)

\* What the proofs carry from step to step.
MemInv == MemTypeOK /\ SixMapsAgree /\ Newest

LEMMA SnapshotTyped ==
  ASSUME MemInv, Snapshot
  PROVE  SnapsTypeOK'
<1>1. snaps' = [s \in Stores |-> snaps'[s]]
  BY DEF Snapshot, EvictOld
<1>2. ASSUME NEW s \in Stores
      PROVE  /\ DOMAIN snaps'[s] \subseteq 1 .. version'
             /\ snaps'[s] = [v \in DOMAIN snaps'[s] |-> snaps'[s][v]]
             /\ \A v \in DOMAIN snaps'[s] : IsContent(s, snaps'[s][v])
  <2>1. version' = version + 1
    BY DEF Snapshot
  <2>2. DOMAIN snaps'[s] \subseteq 1 .. version'
    <3>1. Retained \cup {version + 1} \subseteq 1 .. version + 1
      BY RetainedVersions DEF MemInv
    <3>2. DOMAIN snaps'[s] \subseteq Retained \cup {version + 1}
      BY SnapshotMaps DEF MemInv
    <3> QED
      BY <2>1, <3>1, <3>2
  <2>3. IsContent(s, live[s])
    BY DEF MemInv, MemTypeOK, LiveTypeOK
  <2>4. \A v \in Retained : IsContent(s, snaps[s][v])
    BY DEF MemInv, MemTypeOK, SnapsTypeOK, SixMapsAgree
  <2>5. \A v \in DOMAIN snaps'[s] : IsContent(s, snaps'[s][v])
    <3>1. MemTypeOK /\ SixMapsAgree /\ Newest
      BY DEF MemInv
    <3>2. /\ DOMAIN snaps'[s] \subseteq Retained \cup {version + 1}
          /\ \A v \in DOMAIN snaps'[s] :
               snaps'[s][v] = IF v = version + 1 THEN live[s] ELSE snaps[s][v]
      BY <3>1, SnapshotMaps
    <3> QED
      BY <2>3, <2>4, <3>2
  <2> QED
    BY <2>2, <2>5, SnapshotMaps DEF MemInv
<1> QED
  BY <1>1, <1>2 DEF SnapsTypeOK

LEMMA SetWindowTyped ==
  ASSUME MemInv, NEW max \in Windows, SetSnapshotWindow(max)
  PROVE  SnapsTypeOK'
<1>1. snaps' = [s \in Stores |-> snaps'[s]]
  BY DEF SetSnapshotWindow, EvictOld
<1>2. ASSUME NEW s \in Stores
      PROVE  /\ DOMAIN snaps'[s] \subseteq 1 .. version'
             /\ snaps'[s] = [v \in DOMAIN snaps'[s] |-> snaps'[s][v]]
             /\ \A v \in DOMAIN snaps'[s] : IsContent(s, snaps'[s][v])
  <2>1. version' = version
    BY DEF SetSnapshotWindow
  <2>2. DOMAIN snaps'[s] \subseteq 1 .. version'
    BY <2>1, SetWindowMaps, RetainedVersions DEF MemInv
  <2>3. \A v \in Retained : IsContent(s, snaps[s][v])
    BY DEF MemInv, MemTypeOK, SnapsTypeOK, SixMapsAgree
  <2>4. \A v \in DOMAIN snaps'[s] : IsContent(s, snaps'[s][v])
    BY <2>3, SetWindowMaps DEF MemInv
  <2> QED
    BY <2>2, <2>4, SetWindowMaps DEF MemInv
<1> QED
  BY <1>1, <1>2 DEF SnapsTypeOK

LEMMA RestoreTyped ==
  ASSUME MemTypeOK, NEW v, Restore(v)
  PROVE  LiveTypeOK'
<1>1. live' = [s \in Stores |-> live'[s]]
  BY DEF Restore
<1>2. \A s \in Stores : IsContent(s, live'[s])
  BY DEF Restore, MemTypeOK, LiveTypeOK, SnapsTypeOK
<1> QED
  BY <1>1, <1>2 DEF LiveTypeOK

LEMMA MemInitInv == MemInit => MemInv
<1> SUFFICES ASSUME MemInit PROVE MemInv
  OBVIOUS
<1> USE DEF MemInit
<1>1. LiveTypeOK
  BY ContentAssumption, EmptyIsMap, ContentCases DEF LiveTypeOK, FirstImage, Stores
<1>2. \A s \in Stores : DOMAIN snaps[s] = {}
  BY DEF EmptyMap
<1>3. \A s \in Stores : snaps[s] = [v \in DOMAIN snaps[s] |-> snaps[s][v]]
  BY DEF EmptyMap
<1>4. MemTypeOK
  BY <1>1, <1>2, <1>3, WindowAssumption, BoundAssumption
     DEF MemTypeOK, PointersTypeOK, SnapsTypeOK, Answers
<1>5. SixMapsAgree /\ Newest
  BY <1>2 DEF SixMapsAgree, Newest, Retained, Stores
<1> QED
  BY <1>4, <1>5 DEF MemInv

LEMMA MemTypeStep ==
  ASSUME MemInv, [MemNext]_memVars
  PROVE  MemTypeOK'
<1> USE DEF MemInv
<1>1. CASE Mutate
  <2>1. LiveTypeOK' /\ PointersTypeOK'
    BY <1>1, MutateOK DEF MemTypeOK
  <2>2. Edit
    BY <1>1 DEF Mutate, AllocGlobal, AllocDense, AllocSparse, AllocFromModel,
       WriteGlobal, RemoveTensor, MutateKv, MutateKvExtra, KvClear, KvReinit,
       AllocKv, WriteKvHeap
  <2>3. /\ version' = version /\ window' = window /\ snaps' = snaps
        /\ edits' \in 0 .. MaxEdits /\ answer' = Done
    BY <2>2, BoundAssumption DEF Edit, MemTypeOK
  <2> QED
    BY <2>1, <2>3 DEF MemTypeOK, SnapsTypeOK, Answers
<1>2. CASE Snapshot
  <2>1. /\ live' = live /\ nextAddr' = nextAddr /\ kvNext' = kvNext
        /\ window' = window /\ edits' = edits /\ answer' = Done
        /\ version' \in 0 .. MaxVersion
    BY <1>2, BoundAssumption DEF Snapshot, MemTypeOK
  <2>2. LiveTypeOK' /\ PointersTypeOK'
    BY <2>1 DEF MemTypeOK, LiveTypeOK, PointersTypeOK
  <2> QED
    BY <1>2, <2>1, <2>2, SnapshotTyped DEF MemTypeOK, Answers
<1>3. ASSUME NEW max \in Windows, SetSnapshotWindow(max)
      PROVE  MemTypeOK'
  <2>1. /\ live' = live /\ nextAddr' = nextAddr /\ kvNext' = kvNext
        /\ window' = max /\ edits' = edits /\ answer' = Done
        /\ version' = version
    BY <1>3 DEF SetSnapshotWindow
  <2>2. LiveTypeOK' /\ PointersTypeOK'
    BY <2>1 DEF MemTypeOK, LiveTypeOK, PointersTypeOK
  <2> QED
    BY <1>3, <2>1, <2>2, SetWindowTyped DEF MemTypeOK, Answers
<1>4. ASSUME NEW v \in 0 .. MaxVersion, Restore(v)
      PROVE  MemTypeOK'
  <2>1. /\ nextAddr' = nextAddr /\ kvNext' = kvNext /\ version' = version
        /\ window' = window /\ snaps' = snaps /\ edits' = edits
    BY <1>4 DEF Restore
  <2>2. Restorable(v) => v \in Versions
    BY BoundAssumption DEF MemTypeOK, SnapsTypeOK, Restorable, Versions
  <2>3. answer' \in Answers
    BY <1>4, <2>2 DEF Restore, Answers
  <2>4. LiveTypeOK' /\ PointersTypeOK'
    BY <1>4, <2>1, RestoreTyped DEF MemTypeOK, PointersTypeOK
  <2> QED
    BY <2>1, <2>3, <2>4 DEF MemTypeOK, SnapsTypeOK
<1>5. CASE Read \/ UNCHANGED memVars
  BY <1>5 DEF Read, memVars, MemTypeOK, SnapsTypeOK, LiveTypeOK, PointersTypeOK, Answers
<1> QED
  BY <1>1, <1>2, <1>3, <1>4, <1>5 DEF MemNext

-----------------------------------------------------------------------------
(* The six maps and the window.                                            *)

\* A step that is no snapshot and no change of the window leaves the six maps
\* alone.
LEMMA SnapsStep ==
  ASSUME [MemNext]_memVars
  PROVE  \/ Snapshot
         \/ \E max \in Windows : SetSnapshotWindow(max)
         \/ UNCHANGED <<version, window, snaps>>
<1>1. Mutate => Edit
  BY DEF Mutate, AllocGlobal, AllocDense, AllocSparse, AllocFromModel,
     WriteGlobal, RemoveTensor, MutateKv, MutateKvExtra, KvClear, KvReinit,
     AllocKv, WriteKvHeap
<1> QED
  BY <1>1 DEF MemNext, Edit, Restore, Read, memVars

LEMMA MemInvStep ==
  ASSUME MemInv, [MemNext]_memVars
  PROVE  MemInv'
<1>1. MemTypeOK'
  BY MemTypeStep
<1>2. CASE Snapshot
  <2> DEFINE kept == {v \in Retained \cup {version + 1} :
                        window = 0 \/ v + window > version + 1}
  <2>1. /\ \A s \in Stores : DOMAIN snaps'[s] = kept
        /\ version' = version + 1 /\ window' = window
    BY <1>2, SnapshotMaps DEF MemInv, Snapshot
  <2>2. Retained' = kept
    BY <2>1 DEF Retained, Stores
  <2>3. SixMapsAgree'
    BY <2>1, <2>2 DEF SixMapsAgree
  <2>4. ASSUME NEW v \in kept, NEW w \in v .. version + 1
        PROVE  w \in kept
    <3>1. CASE w = version + 1
      BY <3>1, <2>4, RetainedVersions DEF MemInv
    <3>2. CASE w # version + 1
      <4>1. v \in Retained /\ w \in v .. version
        BY <3>2, RetainedVersions DEF MemInv
      <4>2. w \in Retained
        BY <4>1 DEF MemInv, Newest
      <4> QED
        BY <4>1, <4>2, RetainedVersions DEF MemInv
    <3> QED
      BY <3>1, <3>2
  <2>5. version + 1 \in kept
    BY RetainedVersions DEF MemInv
  <2>6. Newest'
    BY <2>1, <2>2, <2>4, <2>5 DEF Newest
  <2> QED
    BY <1>1, <2>3, <2>6 DEF MemInv
<1>3. ASSUME NEW max \in Windows, SetSnapshotWindow(max)
      PROVE  MemInv'
  <2> DEFINE kept == {v \in Retained : max = 0 \/ v + max > version}
  <2>1. /\ \A s \in Stores : DOMAIN snaps'[s] = kept
        /\ version' = version /\ window' = max
    BY <1>3, SetWindowMaps DEF MemInv, SetSnapshotWindow
  <2>2. Retained' = kept
    BY <2>1 DEF Retained, Stores
  <2>3. SixMapsAgree'
    BY <2>1, <2>2 DEF SixMapsAgree
  <2>4. ASSUME NEW v \in kept, NEW w \in v .. version
        PROVE  w \in kept
    <3>1. w \in Retained
      BY DEF MemInv, Newest
    <3> QED
      BY <3>1, RetainedVersions, WindowAssumption DEF MemInv
  <2>5. version > 0 => version \in kept
    BY RetainedVersions, WindowAssumption DEF MemInv, Newest
  <2>6. Newest'
    BY <2>1, <2>2, <2>4, <2>5 DEF Newest
  <2> QED
    BY <1>1, <2>3, <2>6 DEF MemInv
<1>4. CASE UNCHANGED <<version, window, snaps>>
  BY <1>1, <1>4 DEF MemInv, SixMapsAgree, Newest, Retained
<1> QED
  BY <1>2, <1>3, <1>4, SnapsStep

\* The invariant of all the theorems below.
LEMMA MemInvAlways == MemSpec => []MemInv
BY MemInitInv, MemInvStep, PTL DEF MemSpec

\* Every variable keeps its type, in particular every copy a snapshot map
\* holds is a content of the store it is restored to.
THEOREM MemTypeCorrect == MemSpec => []MemTypeOK
BY MemInvAlways, PTL DEF MemInv

\* The six maps always hold the same versions (memory.rs:1227).
THEOREM MapsNeverDiverge == MemSpec => []SixMapsAgree
BY MemInvAlways, PTL DEF MemInv

LEMMA NewestSuffices == MemInv => RetainsNewest
<1> SUFFICES ASSUME MemInv PROVE RetainsNewest
  OBVIOUS
<1>1. ASSUME window # 0 PROVE Cardinality(Retained) <= window
  <2> DEFINE lo == IF version < window THEN 1 ELSE version - window + 1
  <2>1. version \in Nat /\ window \in Nat /\ lo \in Nat
    BY RetainedVersions DEF MemInv
  <2>2. Retained \subseteq lo .. version
    BY <1>1, <2>1, RetainedVersions DEF MemInv, Newest
  <2>3. /\ IsFiniteSet(lo .. version)
        /\ Cardinality(lo .. version) = IF lo > version THEN 0 ELSE version - lo + 1
    <3> HIDE DEF lo
    <3> QED
      BY <2>1, FS_Interval
  <2>4. Cardinality(lo .. version) <= window
    BY <2>1, <2>3
  <2>5. Cardinality(Retained) <= Cardinality(lo .. version)
    <3> HIDE DEF lo
    <3> QED
      BY <2>2, <2>3, FS_Subset
  <2>6. Cardinality(Retained) \in Nat
    <3> HIDE DEF lo
    <3> QED
      BY <2>2, <2>3, FS_Subset, FS_CardinalityType
  <2> QED
    BY <2>1, <2>3, <2>4, <2>5, <2>6
<1> QED
  BY <1>1 DEF MemInv, Newest, RetainsNewest

\* The retention window keeps exactly a newest run of the versions issued,
\* never more than max_snapshots of them.
THEOREM WindowRetainsNewest == MemSpec => []RetainsNewest
BY MemInvAlways, NewestSuffices, PTL

-----------------------------------------------------------------------------
(* Versions are immutable.                                                 *)

LEMMA StepImmutable ==
  ASSUME MemInv, [MemNext]_memVars
  PROVE  /\ version' >= version
         /\ \A s \in Stores : \A v \in 1 .. version :
              v \in DOMAIN snaps'[s] =>
                 v \in DOMAIN snaps[s] /\ snaps'[s][v] = snaps[s][v]
<1> version \in Nat
  BY RetainedVersions DEF MemInv
<1>1. \A s \in Stores : DOMAIN snaps[s] = Retained
  BY DEF MemInv, SixMapsAgree
<1>2. CASE Snapshot
  <2>1. version' = version + 1
    BY <1>2 DEF Snapshot
  <2>2. ASSUME NEW s \in Stores, NEW v \in 1 .. version, v \in DOMAIN snaps'[s]
        PROVE  v \in DOMAIN snaps[s] /\ snaps'[s][v] = snaps[s][v]
    <3>1. v # version + 1
      OBVIOUS
    <3> QED
      BY <1>1, <1>2, <2>2, <3>1, SnapshotMaps DEF MemInv
  <2> QED
    BY <2>1, <2>2
<1>3. ASSUME NEW max \in Windows, SetSnapshotWindow(max)
      PROVE  /\ version' = version
             /\ \A s \in Stores : \A v \in DOMAIN snaps'[s] :
                  v \in DOMAIN snaps[s] /\ snaps'[s][v] = snaps[s][v]
  BY <1>1, <1>3, SetWindowMaps DEF MemInv, SetSnapshotWindow
<1> QED
  BY <1>2, <1>3, SnapsStep

\* I-Persist and I-Mono: content of a version never changes, an evicted
\* version never comes back, the counter never goes back.
THEOREM VersionsNeverChange == MemSpec => VersionsImmutable
<1>1. MemInv /\ [MemNext]_memVars =>
        [/\ version' >= version
         /\ \A s \in Stores : \A v \in 1 .. version :
              v \in DOMAIN snaps'[s] =>
                 v \in DOMAIN snaps[s] /\ snaps'[s][v] = snaps[s][v]]_memVars
  BY StepImmutable
<1> QED
  BY <1>1, MemInvAlways, PTL DEF MemSpec, VersionsImmutable

-----------------------------------------------------------------------------
(* Addresses are fresh.                                                    *)

LEMMA MutateHeap ==
  ASSUME Mutate, LiveTypeOK, PointersTypeOK
  PROVE  /\ nextAddr' \in {nextAddr, nextAddr + 1}
         /\ \A a \in DOMAIN live'["heap"] :
              a \in DOMAIN live["heap"] \/ (a = nextAddr /\ nextAddr' = nextAddr + 1)
<1> "heap" \in Stores
  BY DEF Stores
<1> USE DEF Become, Put
<1>1. CASE AllocGlobal \/ AllocDense \/ AllocSparse
  <2>1. CASE AllocGlobal
    BY <2>1 DEF AllocGlobal
  <2>2. CASE AllocDense
    BY <2>2 DEF AllocDense
  <2>3. CASE AllocSparse
    BY <2>3 DEF AllocSparse
  <2> QED
    BY <1>1, <2>1, <2>2, <2>3
<1>2. ASSUME NEW a \in Addr, NEW x \in Vals, WriteGlobal(a, x)
      PROVE  nextAddr' = nextAddr /\ DOMAIN live'["heap"] = DOMAIN live["heap"]
  BY <1>2 DEF WriteGlobal
<1>3. ASSUME NEW a \in Addr \cup Weights, RemoveTensor(a)
      PROVE  nextAddr' = nextAddr /\ DOMAIN live'["heap"] \subseteq DOMAIN live["heap"]
  BY <1>3 DEF RemoveTensor, Without, Restrict
<1>4. CASE \/ \E w \in Weights : AllocFromModel(w)
           \/ \E x \in Vals : MutateKv(x) \/ MutateKvExtra(x)
           \/ KvClear \/ KvReinit \/ AllocKv
           \/ \E a \in Addr, x \in Vals : WriteKvHeap(a, x)
  BY <1>4 DEF AllocFromModel, MutateKv, MutateKvExtra, KvClear, KvReinit,
              AllocKv, WriteKvHeap
<1> QED
  BY <1>1, <1>2, <1>3, <1>4 DEF Mutate

\* FreshAddress, the live heap and the versions apart.
HeapBelow ==
  /\ \A a \in DOMAIN live["heap"] : a < nextAddr
  /\ \A v \in Retained : \A a \in DOMAIN snaps["heap"][v] : a < nextAddr

LEMMA HeapBelowStep ==
  ASSUME MemInv, HeapBelow, [MemNext]_memVars
  PROVE  HeapBelow'
<1> "heap" \in Stores
  BY DEF Stores
<1> nextAddr \in Nat
  BY BoundAssumption DEF MemInv, MemTypeOK, PointersTypeOK
<1> \A a \in DOMAIN live["heap"] : a \in Nat
  BY BoundAssumption DEF MemInv, MemTypeOK, LiveTypeOK, IsContent, IsMap, Addr
<1> \A v \in Retained : \A a \in DOMAIN snaps["heap"][v] : a \in Nat
  BY BoundAssumption DEF MemInv, MemTypeOK, SnapsTypeOK, IsContent, IsMap, Addr, Retained
<1>1. CASE Mutate
  <2>1. snaps' = snaps
    BY <1>1 DEF Mutate, AllocGlobal, AllocDense, AllocSparse, AllocFromModel,
       WriteGlobal, RemoveTensor, MutateKv, MutateKvExtra, KvClear, KvReinit,
       AllocKv, WriteKvHeap, Edit
  <2> QED
    BY <1>1, <2>1, MutateHeap DEF HeapBelow, MemInv, MemTypeOK, Retained
<1>2. CASE Snapshot
  <2>1. live' = live /\ nextAddr' = nextAddr
    BY <1>2 DEF Snapshot
  <2> QED
    BY <1>2, <2>1, SnapshotMaps DEF HeapBelow, MemInv, Retained
<1>3. ASSUME NEW max \in Windows, SetSnapshotWindow(max)
      PROVE  HeapBelow'
  <2>1. live' = live /\ nextAddr' = nextAddr
    BY <1>3 DEF SetSnapshotWindow
  <2> QED
    BY <1>3, <2>1, SetWindowMaps DEF HeapBelow, MemInv, Retained
<1>4. ASSUME NEW v, Restore(v)
      PROVE  HeapBelow'
  BY <1>4 DEF Restore, HeapBelow, Retained
<1>5. CASE Read \/ UNCHANGED memVars
  BY <1>5 DEF Read, memVars, HeapBelow, Retained
<1> QED
  BY <1>1, <1>2, <1>3, <1>4, <1>5 DEF MemNext

\* No address is handed out while the live heap, or a version that can still
\* be restored, maps it.
THEOREM AddressesFresh == MemSpec => []FreshAddress
<1>1. MemInit => HeapBelow
  BY DEF MemInit, HeapBelow, FirstImage, Retained, EmptyMap, Stores
<1>2. HeapBelow => FreshAddress
  BY DEF HeapBelow, FreshAddress
<1> QED
  BY <1>1, <1>2, MemInvAlways, HeapBelowStep, PTL DEF MemSpec

-----------------------------------------------------------------------------
(* Metadata and heap stay together.                                        *)

LiveCoherent == Coherent(live["heap"], live["sparse"], live["meta"])

LEMMA MutateCoherent ==
  ASSUME Mutate, LiveTypeOK, PointersTypeOK, LiveCoherent,
         \A a \in DOMAIN live["heap"] : a < nextAddr
  PROVE  LiveCoherent'
<1> USE DEF Become, Put, LiveCoherent
<1> {"heap", "sparse", "meta"} \subseteq Stores
  BY DEF Stores
<1>1. nextAddr \in Nat /\ (nextAddr <= MaxAddr => nextAddr \in Addr)
  BY BoundAssumption DEF PointersTypeOK, Addr
<1>2. nextAddr \notin DOMAIN live["heap"]
  BY <1>1
<1>3. nextAddr \in Addr => nextAddr \notin DOMAIN live["meta"] \cup live["sparse"]
  BY <1>2 DEF Coherent
<1>4. CASE AllocGlobal
  BY <1>4 DEF AllocGlobal, Coherent
<1>5. CASE AllocDense
  <2>1. /\ nextAddr \in Addr
        /\ live'["heap"] = Put(live["heap"], nextAddr, Empty)
        /\ live'["sparse"] = live["sparse"]
        /\ live'["meta"] = Put(live["meta"], nextAddr, "dense")
    BY <1>1, <1>5 DEF AllocDense
  <2> QED
    BY <1>3, <2>1 DEF Coherent
<1>6. CASE AllocSparse
  <2>1. /\ nextAddr \in Addr
        /\ live'["heap"] = Put(live["heap"], nextAddr, Empty)
        /\ live'["sparse"] = live["sparse"] \cup {nextAddr}
        /\ live'["meta"] = Put(live["meta"], nextAddr, "sparse")
    BY <1>1, <1>6 DEF AllocSparse
  <2> QED
    BY <1>3, <2>1 DEF Coherent
<1>7. ASSUME NEW w \in Weights, AllocFromModel(w)
      PROVE  LiveCoherent'
  <2>1. /\ w \notin DOMAIN live["meta"] /\ w \notin Addr
        /\ live'["heap"] = live["heap"]
        /\ live'["sparse"] = live["sparse"]
        /\ live'["meta"] = Put(live["meta"], w, "dense")
    BY <1>7, RegionAssumption DEF AllocFromModel
  <2> QED
    BY <2>1 DEF Coherent
<1>8. ASSUME NEW a \in Addr, NEW x \in Vals, WriteGlobal(a, x)
      PROVE  LiveCoherent'
  BY <1>8 DEF WriteGlobal, Coherent
<1>9. ASSUME NEW a \in Addr \cup Weights, RemoveTensor(a)
      PROVE  LiveCoherent'
  <2>1. /\ live'["heap"] = Without(live["heap"], {a})
        /\ live'["sparse"] = live["sparse"] \ {a}
        /\ live'["meta"] = Without(live["meta"], {a})
    BY <1>9 DEF RemoveTensor
  <2> QED
    BY <2>1 DEF Coherent, Without, Restrict
<1>10. CASE \/ \E x \in Vals : MutateKv(x) \/ MutateKvExtra(x)
            \/ KvClear \/ KvReinit \/ AllocKv
            \/ \E a \in Addr, x \in Vals : WriteKvHeap(a, x)
  <2>1. /\ live'["heap"] = live["heap"]
        /\ live'["sparse"] = live["sparse"]
        /\ live'["meta"] = live["meta"]
    BY <1>10 DEF MutateKv, MutateKvExtra, KvClear, KvReinit, AllocKv, WriteKvHeap
  <2> QED
    BY <2>1
<1> QED
  BY <1>4, <1>5, <1>6, <1>7, <1>8, <1>9, <1>10 DEF Mutate

LEMMA CoherentStep ==
  ASSUME MemInv, HeapBelow, MetaMatchesHeap, [MemNext]_memVars
  PROVE  MetaMatchesHeap'
<1> {"heap", "sparse", "meta"} \subseteq Stores
  BY DEF Stores
<1> USE DEF MetaMatchesHeap
<1>1. CASE Mutate
  <2>1. snaps' = snaps
    BY <1>1 DEF Mutate, AllocGlobal, AllocDense, AllocSparse, AllocFromModel,
       WriteGlobal, RemoveTensor, MutateKv, MutateKvExtra, KvClear, KvReinit,
       AllocKv, WriteKvHeap, Edit
  <2>2. LiveCoherent'
    BY <1>1, MutateCoherent DEF LiveCoherent, HeapBelow, MemInv, MemTypeOK
  <2> QED
    BY <2>1, <2>2 DEF LiveCoherent, Retained
<1>2. CASE Snapshot
  <2>1. live' = live
    BY <1>2 DEF Snapshot
  <2>2. \A v \in Retained' : \/ v \in Retained /\ \A s \in Stores : snaps'[s][v] = snaps[s][v]
                             \/ \A s \in Stores : snaps'[s][v] = live[s]
    <3>1. \A s \in Stores : DOMAIN snaps'[s] = Retained'
      BY MemInvStep DEF MemInv, SixMapsAgree
    <3>2. Retained' \subseteq Retained \cup {version + 1}
      BY <1>2, SnapshotMaps DEF MemInv, Retained
    <3>3. \A s \in Stores : \A v \in Retained' :
             snaps'[s][v] = IF v = version + 1 THEN live[s] ELSE snaps[s][v]
      BY <1>2, <3>1, SnapshotMaps DEF MemInv
    <3> QED
      BY <3>2, <3>3
  <2> QED
    BY <2>1, <2>2
<1>3. ASSUME NEW max \in Windows, SetSnapshotWindow(max)
      PROVE  MetaMatchesHeap'
  <2>1. live' = live
    BY <1>3 DEF SetSnapshotWindow
  <2>2. \A v \in Retained' : v \in Retained /\ \A s \in Stores : snaps'[s][v] = snaps[s][v]
    BY <1>3, SetWindowMaps DEF MemInv, Retained
  <2> QED
    BY <2>1, <2>2
<1>4. ASSUME NEW v, Restore(v)
      PROVE  MetaMatchesHeap'
  <2>1. snaps' = snaps
    BY <1>4 DEF Restore
  <2>2. CASE v \in Retained
    <3>1. \A s \in Stores : live'[s] = snaps[s][v]
      BY <1>4, <2>2 DEF Restore, MemInv, SixMapsAgree
    <3> QED
      BY <2>1, <2>2, <3>1 DEF Retained
  <2>3. CASE v \notin Retained
    <3>1. \A s \in Stores : live'[s] = live[s]
      BY <1>4, <2>3 DEF Restore, MemInv, SixMapsAgree
    <3> QED
      BY <2>1, <3>1 DEF Retained
  <2> QED
    BY <2>2, <2>3
<1>5. CASE Read \/ UNCHANGED memVars
  BY <1>5 DEF Read, memVars, Retained
<1> QED
  BY <1>1, <1>2, <1>3, <1>4, <1>5 DEF MemNext

\* RFC-0016: whatever is allocated, removed and restored, the metadata
\* describe the heap, now and in every version that can come back.
THEOREM MetadataCoherent == MemSpec => []MetaMatchesHeap
<1>1. MemInit => HeapBelow /\ MetaMatchesHeap
  BY DEF MemInit, HeapBelow, MetaMatchesHeap, Coherent, FirstImage, Retained,
         EmptyMap, Stores
<1> QED
  BY <1>1, MemInvAlways, HeapBelowStep, CoherentStep, PTL DEF MemSpec

-----------------------------------------------------------------------------
(* The six maps implement the archive of whole images.                     *)

LEMMA InitRefines == MemInit => Archive!Init
BY DEF MemInit, Archive!Init, Archive!Done, Done, Retained, EmptyMap, Stores,
       FullImage

LEMMA StepRefines ==
  ASSUME MemInv, MemInv', [MemNext]_memVars
  PROVE  [Archive!Next]_(Archive!vars)
<1> USE DEF Archive!Next, Archive!vars
<1> "heap" \in Stores
  BY DEF Stores
<1> version \in Nat /\ window \in Nat
  BY RetainedVersions DEF MemInv
<1>0. live = [s \in Stores |-> live[s]] /\ live' = [s \in Stores |-> live'[s]]
  BY DEF MemInv, MemTypeOK, LiveTypeOK
<1>1. CASE Mutate
  <2>1. Edit
    BY <1>1 DEF Mutate, AllocGlobal, AllocDense, AllocSparse, AllocFromModel,
       WriteGlobal, RemoveTensor, MutateKv, MutateKvExtra, KvClear, KvReinit,
       AllocKv, WriteKvHeap
  <2> QED
    BY <2>1 DEF Edit, Archive!Change, Archive!Done, Done, Retained, FullImage
<1>2. CASE Snapshot
  <2>1. /\ version' = version + 1 /\ answer' = Done
        /\ live' = live /\ window' = window
    BY <1>2 DEF Snapshot
  <2>2. \A s \in Stores : DOMAIN snaps'[s] = Retained'
    BY DEF MemInv, SixMapsAgree
  <2>3. Retained' = {v \in Retained \cup {version + 1} :
                       window = 0 \/ v + window > version + 1}
    BY <1>2, SnapshotMaps DEF MemInv, Retained
  <2>4. ASSUME NEW v \in Retained'
        PROVE  [s \in Stores |-> snaps'[s][v]] =
                  IF v = version + 1 THEN live ELSE [s \in Stores |-> snaps[s][v]]
    <3>1. MemTypeOK /\ SixMapsAgree /\ Newest
      BY DEF MemInv
    <3>2. ASSUME NEW s \in Stores
          PROVE  snaps'[s][v] = IF v = version + 1 THEN live[s] ELSE snaps[s][v]
      BY <1>2, <2>2, <3>1, SnapshotMaps
    <3>3. CASE v = version + 1
      <4>1. live = [s \in Stores |-> live[s]]
        BY <3>1 DEF MemTypeOK, LiveTypeOK
      <4> QED
        BY <3>2, <3>3, <4>1
    <3>4. CASE v # version + 1
      BY <3>2, <3>4
    <3> QED
      BY <3>3, <3>4
  <2>5. [v \in Retained' |-> [s \in Stores |-> snaps'[s][v]]] =
          Archive!Kept([v \in Retained \cup {version + 1} |->
                          IF v = version + 1 THEN live ELSE [s \in Stores |-> snaps[s][v]]],
                       window, version + 1)
    BY <2>3, <2>4 DEF Archive!Kept
  <2>6. Archive!Take
    BY <2>1, <2>5 DEF Archive!Take, Archive!Done, Done, FullImage
  <2> QED
    BY <2>6
<1>3. ASSUME NEW max \in Windows, SetSnapshotWindow(max)
      PROVE  Archive!Next
  <2>1. /\ version' = version /\ answer' = Done
        /\ live' = live /\ window' = max
    BY <1>3 DEF SetSnapshotWindow
  <2>2. \A s \in Stores : DOMAIN snaps'[s] = Retained'
    BY DEF MemInv, SixMapsAgree
  <2>3. Retained' = {v \in Retained : max = 0 \/ v + max > version}
    BY <1>3, SetWindowMaps DEF MemInv, Retained
  <2>4. ASSUME NEW v \in Retained'
        PROVE  [s \in Stores |-> snaps'[s][v]] = [s \in Stores |-> snaps[s][v]]
    <3>1. \A s \in Stores : snaps'[s][v] = snaps[s][v]
      BY <1>3, <2>2, SetWindowMaps DEF MemInv
    <3> QED
      BY <3>1
  <2>5. [v \in Retained' |-> [s \in Stores |-> snaps'[s][v]]] =
          Archive!Kept([v \in Retained |-> [s \in Stores |-> snaps[s][v]]], max, version)
    BY <2>3, <2>4 DEF Archive!Kept
  <2>6. Archive!SetWindow(max)
    BY <2>1, <2>5 DEF Archive!SetWindow, Archive!Done, Done, FullImage
  <2> QED
    BY <2>6
<1>4. ASSUME NEW v \in 0 .. MaxVersion, Restore(v)
      PROVE  Archive!Next
  <2>1. /\ version' = version /\ window' = window /\ snaps' = snaps
    BY <1>4 DEF Restore
  <2>2. Restorable(v) <=> v \in Retained
    BY DEF Restorable, MemInv, SixMapsAgree
  <2>3. CASE v \in Retained
    <3>1. live' = [s \in Stores |-> snaps[s][v]] /\ answer' = Restored(v)
      BY <1>4, <2>2, <2>3 DEF Restore, MemInv, SixMapsAgree
    <3>2. Archive!Return(v)
      BY <2>1, <2>3, <3>1 DEF Archive!Return, Restored, FullImage, Retained
    <3> QED
      BY <3>2
  <2>4. CASE v \notin Retained
    <3>1. live' = live /\ answer' = Refused(v)
      BY <1>0, <1>4, <2>2, <2>4 DEF Restore, MemInv, SixMapsAgree
    <3>2. Archive!Refuse(v)
      BY <2>1, <2>4, <3>1 DEF Archive!Refuse, Refused, FullImage, Retained
    <3> QED
      BY <3>2
  <2> QED
    BY <2>3, <2>4
<1>5. CASE Read \/ UNCHANGED memVars
  <2>1. CASE Read
    BY <2>1 DEF Read, Archive!Change, Archive!Done, Done, Retained, FullImage
  <2>2. CASE UNCHANGED memVars
    BY <2>2 DEF memVars, Retained, FullImage
  <2> QED
    BY <1>5, <2>1, <2>2
<1> QED
  BY <1>1, <1>2, <1>3, <1>4, <1>5 DEF MemNext

\* The six maps, with their separate lookups and their eviction loop, are an
\* archive of whole images: a restore is exact and all or nothing.
THEOREM StoreImplementsArchive == MemSpec => ImplementsArchive
BY InitRefines, StepRefines, MemInvAlways, PTL DEF MemSpec, ImplementsArchive, Archive!Spec
=============================================================================
