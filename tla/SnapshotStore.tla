--------------------------- MODULE SnapshotStore ---------------------------
(***************************************************************************)
(* The versioned snapshot store of the VM: `MemoryManager` of              *)
(* src/src/memory.rs.                                                      *)
(*                                                                         *)
(* The manager keeps six live stores and, for each of them, a map from     *)
(* version to a copy of that store.  A snapshot writes one entry in each   *)
(* of the six maps, the retention window evicts from the six of them, and  *)
(* a restore looks the version up in each of them separately.  TEMPORAL    *)
(* (a ring of input bytes) and PERSISTENT (a mapped file) are not part of  *)
(* a snapshot and are not modelled here.                                   *)
(*                                                                         *)
(* Abstraction: the bytes of a block and the rows of the K/V layers are    *)
(* elements of Vals; a block of the bump allocator is one unit long; a     *)
(* copy-on-write `Arc` is a value, so that sharing never shows.            *)
(***************************************************************************)
EXTENDS Naturals, FiniteSets, Functions

CONSTANTS
  Vals,        \* contents of a block, or of the K/V layers as a whole
  Empty,       \* the content of fresh (zeroed or cleared) storage
  Weights,     \* addresses of model tensors in the mapped GGUF file
  Windows,     \* arguments given to set_snapshot_window; 0 is "unlimited"
  DefaultWindow,
  MaxAddr,     \* bound: blocks the allocators hand out
  MaxVersion,  \* bound: snapshots taken in a run
  MaxEdits     \* bound: mutations of the live stores in a run

ASSUME ContentAssumption == Empty \in Vals
ASSUME WindowAssumption  == Windows \subseteq Nat /\ DefaultWindow \in Windows
ASSUME BoundAssumption   == {MaxAddr, MaxVersion, MaxEdits} \subseteq Nat

VARIABLES
  live,      \* the six live stores: global_heap, sparse_heap, ...
  nextAddr,  \* next_global_offset, the bump pointer of the GLOBAL region
  kvNext,    \* kv_next_offset, the bump pointer of the KV_CACHE region
  version,   \* the version counter
  window,    \* max_snapshots
  snaps,     \* the six snapshot maps: version -> copy of the store
  answer,    \* what the last call was told
  edits      \* how many mutations there were, for the bound only

memVars == <<live, nextAddr, kvNext, version, window, snaps, answer, edits>>

Stores == {"heap", "sparse", "kv", "kvExtra", "kvHeap", "meta"}

Addr     == 1 .. MaxAddr
Versions == 1 .. MaxVersion

\* Model tensors are in the PERSISTENT region, blocks in GLOBAL and KV_CACHE.
ASSUME RegionAssumption == Weights \cap Addr = {}

\* f is a partial function from S to T: the HashMaps of the source.
IsMap(f, S, T) == DOMAIN f \subseteq S /\ f \in [DOMAIN f -> T]

\* What each store can hold.
IsContent(s, x) ==
  /\ s \in {"heap", "kvHeap"} => IsMap(x, Addr, Vals)
  /\ s \in {"kv", "kvExtra"}  => x \in Vals
  /\ s = "sparse"             => x \subseteq Addr
  /\ s = "meta"               => IsMap(x, Addr \cup Weights, {"dense", "sparse"})

\* Answers of the interface: `restore` says Ok for a version or Err; every
\* other call answers Done.
Done        == [kind |-> "done", of |-> 0]
Refused(v)  == [kind |-> "refused", of |-> v]
Restored(v) == [kind |-> "restored", of |-> v]

Put(f, x, y)    == [z \in DOMAIN f \cup {x} |-> IF z = x THEN y ELSE f[z]]
Without(f, gone) == Restrict(f, DOMAIN f \ gone)

EmptyMap == [x \in {} |-> Empty]

-----------------------------------------------------------------------------
(* Snapshots.                                                              *)

\* Mutated: the loop evicts the newest versions instead of the oldest.
EvictedNewest(keys, max) ==
  IF max = 0 THEN {}
  ELSE {v \in keys : Cardinality({w \in keys : w < v}) >= max}

\* Versions the `while snapshots.len() > max` loop of evict_old_snapshots
\* takes out, smallest first: those with max or more larger keys.  The keys
\* are read from the map of the heap alone.
Evicted(keys, max) ==
  IF max = 0 THEN {}
  ELSE {v \in keys : Cardinality({w \in keys : w > v}) >= max}

\* Mutated: the sixth map, added last, is forgotten by the eviction.
EvictOldFiveMaps(maps, max) ==
  LET gone == Evicted(DOMAIN maps["heap"], max)
  IN  [s \in Stores |-> IF s = "kvExtra" THEN maps[s] ELSE Without(maps[s], gone)]

EvictOld(maps, max) ==
  LET gone == Evicted(DOMAIN maps["heap"], max)
  IN  [s \in Stores |-> Without(maps[s], gone)]

\* snapshot(): the counter goes up, the six stores are copied, the oldest
\* versions beyond the window are evicted.
Snapshot ==
  /\ version < MaxVersion
  /\ version' = version + 1
  /\ snaps' = EvictOld([s \in Stores |-> Put(snaps[s], version + 1, live[s])],
                       window)
  /\ answer' = Done
  /\ UNCHANGED <<live, nextAddr, kvNext, window, edits>>

SetSnapshotWindow(max) ==
  /\ window' = max
  /\ snaps' = EvictOld(snaps, max)
  /\ answer' = Done
  /\ UNCHANGED <<live, nextAddr, kvNext, version, edits>>

\* restore(v) answers Ok when some of the six maps holds v.
Restorable(v) == \E s \in Stores : v \in DOMAIN snaps[s]

\* Mutated: metadata are not restored (the state of things before RFC-0016).
RestoreNoMeta(v) ==
  /\ live' = [s \in Stores |->
                IF s # "meta" /\ v \in DOMAIN snaps[s] THEN snaps[s][v] ELSE live[s]]
  /\ answer' = IF Restorable(v) THEN Restored(v) ELSE Refused(v)
  /\ UNCHANGED <<nextAddr, kvNext, version, window, snaps, edits>>

\* Mutated: the counter goes back with the state, so ids are issued again.
RestoreLowersCounter(v) ==
  /\ live' = [s \in Stores |->
                IF v \in DOMAIN snaps[s] THEN snaps[s][v] ELSE live[s]]
  /\ version' = IF Restorable(v) THEN v ELSE version
  /\ answer' = IF Restorable(v) THEN Restored(v) ELSE Refused(v)
  /\ UNCHANGED <<nextAddr, kvNext, window, snaps, edits>>

\* Mutated: the extra K/V streams stay as they are.
RestoreNoExtra(v) ==
  /\ live' = [s \in Stores |->
                IF s # "kvExtra" /\ v \in DOMAIN snaps[s] THEN snaps[s][v] ELSE live[s]]
  /\ answer' = IF Restorable(v) THEN Restored(v) ELSE Refused(v)
  /\ UNCHANGED <<nextAddr, kvNext, version, window, snaps, edits>>

\* Each store comes back from its own map, if that map holds v.  The counter
\* and the allocators' pointers stay where they are.
Restore(v) ==
  /\ live' = [s \in Stores |->
                IF v \in DOMAIN snaps[s] THEN snaps[s][v] ELSE live[s]]
  /\ answer' = IF Restorable(v) THEN Restored(v) ELSE Refused(v)
  /\ UNCHANGED <<nextAddr, kvNext, version, window, snaps, edits>>

\* read() and the lookups: nothing changes.
Read ==
  /\ answer' = Done
  /\ UNCHANGED <<live, nextAddr, kvNext, version, window, snaps, edits>>

-----------------------------------------------------------------------------
(* Mutations of the live stores.                                           *)

Become(changes) ==
  live' = [s \in Stores |-> IF s \in DOMAIN changes THEN changes[s] ELSE live[s]]

Edit ==
  /\ edits < MaxEdits
  /\ edits' = edits + 1
  /\ answer' = Done
  /\ UNCHANGED <<version, window, snaps>>

\* alloc_global: a zeroed block at the bump pointer.
AllocGlobal ==
  /\ nextAddr <= MaxAddr
  /\ Become([heap |-> Put(live["heap"], nextAddr, Empty)])
  /\ nextAddr' = nextAddr + 1
  /\ UNCHANGED kvNext /\ Edit

\* alloc_tensor finds a model tensor of that shape which is not mapped yet:
\* only metadata, the data stay in the file.
AllocFromModel(w) ==
  /\ w \notin DOMAIN live["meta"]
  /\ Become([meta |-> Put(live["meta"], w, "dense")])
  /\ UNCHANGED <<nextAddr, kvNext>> /\ Edit

\* alloc_tensor without a match in the model, and alloc_tensor_bytes.
AllocDense ==
  /\ nextAddr <= MaxAddr
  /\ Become([heap |-> Put(live["heap"], nextAddr, Empty),
             meta |-> Put(live["meta"], nextAddr, "dense")])
  /\ nextAddr' = nextAddr + 1
  /\ UNCHANGED kvNext /\ Edit

AllocSparse ==
  /\ nextAddr <= MaxAddr
  /\ Become([heap   |-> Put(live["heap"], nextAddr, Empty),
             sparse |-> live["sparse"] \cup {nextAddr},
             meta   |-> Put(live["meta"], nextAddr, "sparse")])
  /\ nextAddr' = nextAddr + 1
  /\ UNCHANGED kvNext /\ Edit

\* write() to a mapped GLOBAL block; an unmapped address is an Err.
WriteGlobal(a, x) ==
  /\ a \in DOMAIN live["heap"]
  /\ Become([heap |-> Put(live["heap"], a, x)])
  /\ UNCHANGED <<nextAddr, kvNext>> /\ Edit

\* Mutated: the removed block is given back to the bump allocator.
RemoveTensorReclaims(a) ==
  /\ Become([heap   |-> Without(live["heap"], {a}),
             sparse |-> live["sparse"] \ {a},
             meta   |-> Without(live["meta"], {a})])
  /\ nextAddr' = IF a \in DOMAIN live["heap"] /\ a + 1 = nextAddr THEN a ELSE nextAddr
  /\ UNCHANGED kvNext /\ Edit

\* remove_tensor (SEND_TENSOR in MOVE mode): three of the live stores, and
\* no snapshot.
RemoveTensor(a) ==
  /\ Become([heap   |-> Without(live["heap"], {a}),
             sparse |-> live["sparse"] \ {a},
             meta   |-> Without(live["meta"], {a})])
  /\ UNCHANGED <<nextAddr, kvNext>> /\ Edit

\* kv_cache_append / truncate / compress on stream 0, and on another stream.
MutateKv(x) ==
  /\ Become([kv |-> x])
  /\ UNCHANGED <<nextAddr, kvNext>> /\ Edit

MutateKvExtra(x) ==
  /\ Become([kvExtra |-> x])
  /\ UNCHANGED <<nextAddr, kvNext>> /\ Edit

\* kv_cache_init with the geometry the layers have: kv_cache_clear.
KvClear ==
  /\ Become([kv |-> Empty, kvExtra |-> Empty])
  /\ UNCHANGED <<nextAddr, kvNext>> /\ Edit

\* Mutated: the byte-heap pointer restarts at the null address.
KvReinitAtNull ==
  /\ Become([kv |-> Empty])
  /\ kvNext' = 0
  /\ UNCHANGED nextAddr /\ Edit

\* kv_cache_init with another geometry: new layers, and the byte-heap
\* pointer goes back to its start; the other streams and kv_heap stay.
KvReinit ==
  /\ Become([kv |-> Empty])
  /\ kvNext' = 1
  /\ UNCHANGED nextAddr /\ Edit

AllocKv ==
  /\ kvNext <= MaxAddr
  /\ Become([kvHeap |-> Put(live["kvHeap"], kvNext, Empty)])
  /\ kvNext' = kvNext + 1
  /\ UNCHANGED nextAddr /\ Edit

WriteKvHeap(a, x) ==
  /\ a \in DOMAIN live["kvHeap"]
  /\ Become([kvHeap |-> Put(live["kvHeap"], a, x)])
  /\ UNCHANGED <<nextAddr, kvNext>> /\ Edit

Mutate ==
  \/ AllocGlobal \/ AllocDense \/ AllocSparse
  \/ \E w \in Weights : AllocFromModel(w)
  \/ \E a \in Addr, x \in Vals : WriteGlobal(a, x)
  \/ \E a \in Addr \cup Weights : RemoveTensor(a)
  \/ \E x \in Vals : MutateKv(x) \/ MutateKvExtra(x)
  \/ KvClear \/ KvReinit \/ AllocKv
  \/ \E a \in Addr, x \in Vals : WriteKvHeap(a, x)

-----------------------------------------------------------------------------
\* with_persistent_file: everything empty, version 0, the default window.
FirstImage == [s \in Stores |-> IF s \in {"kv", "kvExtra"} THEN Empty
                                ELSE IF s = "sparse" THEN {} ELSE EmptyMap]

MemInit ==
  /\ live = FirstImage
  /\ nextAddr = 1
  /\ kvNext = 1
  /\ version = 0
  /\ window = DefaultWindow
  /\ snaps = [s \in Stores |-> EmptyMap]
  /\ answer = Done
  /\ edits = 0

MemNext ==
  \/ Mutate \/ Read
  \/ Snapshot
  \/ \E max \in Windows : SetSnapshotWindow(max)
  \/ \E v \in 0 .. MaxVersion : Restore(v)

MemSpec == MemInit /\ [][MemNext]_memVars

-----------------------------------------------------------------------------
(* Properties.                                                             *)

LiveTypeOK ==
  /\ live = [s \in Stores |-> live[s]]
  /\ \A s \in Stores : IsContent(s, live[s])

SnapsTypeOK ==
  /\ snaps = [s \in Stores |-> snaps[s]]
  /\ \A s \in Stores :
        /\ DOMAIN snaps[s] \subseteq 1 .. version
        /\ snaps[s] = [v \in DOMAIN snaps[s] |-> snaps[s][v]]
        /\ \A v \in DOMAIN snaps[s] : IsContent(s, snaps[s][v])

PointersTypeOK == nextAddr \in 1 .. MaxAddr + 1 /\ kvNext \in 1 .. MaxAddr + 1

Answers == {Done} \cup {Restored(v) : v \in Versions}
                  \cup {Refused(v) : v \in 0 .. MaxVersion}

\* Every variable has its type; the copies in a snapshot map are contents of
\* that map's store, under versions that were issued.
MemTypeOK ==
  /\ LiveTypeOK /\ SnapsTypeOK /\ PointersTypeOK
  /\ version \in 0 .. MaxVersion
  /\ window \in Windows
  /\ answer \in Answers
  /\ edits \in 0 .. MaxEdits

\* The versions retained, as snapshot_count() counts them.
Retained == DOMAIN snaps["heap"]

\* "mesma chave ou nenhuma" (memory.rs:1227): the six maps hold the same
\* versions, so that no restore can mix stores of two moments.
SixMapsAgree == \A s \in Stores : DOMAIN snaps[s] = Retained

\* The window keeps the newest versions without a gap, at least the last one
\* issued, and never more than max_snapshots of them (evict_old_snapshots).
RetainsNewest ==
  /\ \A v \in Retained : v .. version \subseteq Retained
  /\ version > 0 => version \in Retained
  /\ window # 0 => Cardinality(Retained) <= window

\* The bump pointer is not rolled back, so an address is never handed out
\* while the live heap or any version that can come back maps it.
FreshAddress ==
  \A a \in DOMAIN live["heap"] \cup UNION {DOMAIN snaps["heap"][v] : v \in Retained} :
     a < nextAddr

\* An image whose metadata describe its heap: GLOBAL metadata have a block,
\* and the sparse matrices are those the metadata call sparse (RFC-0016).
Coherent(heap, sparse, meta) ==
  /\ DOMAIN meta \cap Addr \subseteq DOMAIN heap
  /\ sparse = {a \in DOMAIN meta : meta[a] = "sparse"}

\* Metadata and heap never come apart: not after a restore, whatever was
\* allocated or removed since, nor in any version that can come back.
MetaMatchesHeap ==
  /\ Coherent(live["heap"], live["sparse"], live["meta"])
  /\ \A v \in Retained :
        Coherent(snaps["heap"][v], snaps["sparse"][v], snaps["meta"][v])

\* I-Persist and I-Mono (ESPEC 6.3) as a step property: a version that stays
\* keeps its content in the six maps, a version that is gone never comes
\* back, and the counter goes up to a number no map has ever held.
VersionsImmutable ==
  [][/\ version' >= version
     /\ \A s \in Stores : \A v \in 1 .. version :
          v \in DOMAIN snaps'[s] =>
             v \in DOMAIN snaps[s] /\ snaps'[s][v] = snaps[s][v]]_memVars

-----------------------------------------------------------------------------
(* The six maps implement one archive of whole images.                     *)

FullImage(v) == [s \in Stores |-> snaps[s][v]]

Archive == INSTANCE VersionArchive WITH
  FirstWindow <- DefaultWindow,
  Asked       <- 0 .. MaxVersion,
  cur         <- live,
  archive     <- [v \in Retained |-> FullImage(v)]

\* Every behaviour of the six maps is one of the archive of whole images
\* (VersionArchive.tla): restore is all or nothing and exact, and refuses
\* just the versions that were evicted or never issued.
ImplementsArchive == Archive!Spec
=============================================================================
