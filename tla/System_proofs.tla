--------------------------- MODULE System_proofs ---------------------------
(***************************************************************************)
(* Proofs about System.tla, for every set of tasks and all limits.         *)
(*                                                                         *)
(* The run: the blocks of an arena never overlap, whatever is reset,       *)
(* refused or rolled back, and no opcode reaches the RAG store that a      *)
(* snapshot holds.  Both are about the engines, their snapshots and the    *)
(* stores; what the tensors hold does not matter, so the handlers that     *)
(* compute are one case.                                                   *)
(*                                                                         *)
(* The way in: a container that opens is the program that was saved, for   *)
(* every program and every fault, and control stays inside the program     *)
(* that was loaded.                                                        *)
(*                                                                         *)
(* The memory: addresses are for ever, and a refused opcode has done       *)
(* nothing or all of its work.  Here it matters that what an opcode makes  *)
(* has a size: the fields that make its shape are numbers, so the shape is *)
(* a sequence of numbers.                                                  *)
(*                                                                         *)
(* The encoding and the labels: a field reads back what was written, and   *)
(* jumps and loads go where the source says, which relates every line of   *)
(* the source to the instruction it became.                                *)
(***************************************************************************)
EXTENDS System, Numbers, FiniteSetTheorems

---------------------------------------------------------------------------
(* Numbers and finite maps.                                                *)

LEMMA MaxIs ==
  ASSUME NEW n \in Nat
  PROVE  Max(0..n) = n
<1>1. n \in 0..n /\ \A y \in 0..n : n >= y
  OBVIOUS
<1>2. \A x \in 0..n : (\A y \in 0..n : x >= y) => x = n
  OBVIOUS
<1> QED
  BY <1>1, <1>2 DEF Max

LEMMA WithIs ==
  ASSUME NEW f, NEW k, NEW v
  PROVE  /\ DOMAIN With(f, k, v) = DOMAIN f \cup {k}
         /\ With(f, k, v)[k] = v
         /\ \A x \in DOMAIN f : x # k => With(f, k, v)[x] = f[x]
BY DEF With

\* A sequence, whatever it is a sequence of.
IsSeq(q) == \E S : q \in Seq(S)

LEMMA SeqIs ==
  ASSUME NEW S, NEW q \in Seq(S)
  PROVE  IsSeq(q)
BY DEF IsSeq

LEMMA AppendIs ==
  ASSUME NEW q, IsSeq(q), NEW e
  PROVE  /\ IsSeq(Append(q, e))
         /\ \A i \in DOMAIN Append(q, e) :
              \/ i \in DOMAIN q /\ Append(q, e)[i] = q[i]
              \/ i \notin DOMAIN q /\ Append(q, e)[i] = e
         /\ \A i \in DOMAIN q : i \in DOMAIN Append(q, e) /\ Append(q, e)[i] = q[i]
<1>1. PICK R : q \in Seq(R)
  BY DEF IsSeq
<1> DEFINE S == R \cup {e}
<1>2. q \in Seq(S)
  BY <1>1, SeqMonotonic
<1>3. e \in S
  OBVIOUS
<1> HIDE DEF S
<1>4. Append(q, e) \in Seq(S)
  BY <1>2, <1>3
<1>5. IsSeq(Append(q, e))
  BY <1>4 DEF IsSeq
<1>6. /\ DOMAIN q = 1 .. Len(q) /\ Len(q) \in Nat
      /\ DOMAIN Append(q, e) = 1 .. Len(q) + 1
      /\ \A i \in 1 .. Len(q) : Append(q, e)[i] = q[i]
      /\ Append(q, e)[Len(q) + 1] = e
  BY <1>2, <1>3
<1>7. \A i \in 1 .. Len(q) + 1 : i \in 1 .. Len(q) \/ (i = Len(q) + 1 /\ i \notin 1 .. Len(q))
  BY <1>6
<1> QED
  BY <1>5, <1>6, <1>7

LEMMA PrefixIs ==
  ASSUME NEW q, IsSeq(q), NEW n \in 0 .. Len(q)
  PROVE  /\ IsSeq(SubSeq(q, 1, n))
         /\ \A i \in DOMAIN SubSeq(q, 1, n) : i \in DOMAIN q /\ SubSeq(q, 1, n)[i] = q[i]
<1>1. PICK S : q \in Seq(S)
  BY DEF IsSeq
<1>2. Len(q) \in Nat /\ DOMAIN q = 1 .. Len(q) /\ n \in Nat /\ n <= Len(q)
  BY <1>1
<1>3. \A i \in 1 .. n : q[i] \in S
  BY <1>1, <1>2
<1>4. /\ SubSeq(q, 1, n) \in Seq(S)
      /\ DOMAIN SubSeq(q, 1, n) = 1 .. n
      /\ \A i \in 1 .. n : SubSeq(q, 1, n)[i] = q[i]
  BY <1>1, <1>2
<1>5. IsSeq(SubSeq(q, 1, n))
  BY <1>4 DEF IsSeq
<1>6. \A i \in 1 .. n : i \in 1 .. Len(q)
  BY <1>2
<1> QED
  BY <1>2, <1>4, <1>5, <1>6

---------------------------------------------------------------------------
(* The fields of ARENA_ALLOC are numbers, whatever the bytes: a getter      *)
(* gives what it read where that is a number, and its default elsewhere.    *)

AllocLayout == <<F("size", 0, 8), F("align", 8, 4), F("arena", 12, 1)>>

\* Only one of the tables has the name.
LEMMA MergedIs ==
  ASSUME NEW tables, NEW i \in DOMAIN tables, NEW op \in DOMAIN tables[i],
         \A j \in DOMAIN tables : j # i => op \notin DOMAIN tables[j]
  PROVE  op \in DOMAIN Merged(tables) /\ Merged(tables)[op] = tables[i][op]
<1>1. \A j \in DOMAIN tables : op \in DOMAIN tables[j] => j = i
  OBVIOUS
<1>2. (CHOOSE j \in DOMAIN tables : op \in DOMAIN tables[j]) = i
  BY <1>1
<1>3. op \in UNION {DOMAIN tables[j] : j \in DOMAIN tables}
  OBVIOUS
<1> QED
  BY <1>2, <1>3 DEF Merged

LEMMA MergedOut ==
  ASSUME NEW tables, NEW op, \A i \in DOMAIN tables : op \notin DOMAIN tables[i]
  PROVE  op \notin DOMAIN Merged(tables)
BY DEF Merged

LEMMA OpsIs ==
  ASSUME NEW names, NEW form, NEW layout
  PROVE  /\ DOMAIN Ops(names, form, layout) = names
         /\ \A op \in names : Ops(names, form, layout)[op].layout = layout
BY DEF Ops

LEMMA AllocRow ==
  OpTable["ARENA_ALLOC"].layout = AllocLayout
<1> DEFINE op == "ARENA_ALLOC"
           tables == <<TensorOps, CoreOps, SequenceOps, PipeOps, ClusterOps, IndexOps, RandomOps, TelemetryOps,
                       MoveOps, ArenaOps, SnapshotOps, CastOps, OrderOps, ActivationOps, CallOps, CacheOps,
                       AudioOps, ImmOps, EngineOps, StoreOps>>
<1>1. op \notin DOMAIN TensorOps
  BY DEF TensorOps, Ops
<1>2. op \notin DOMAIN CoreOps
  BY DEF CoreOps, Ops, Merged
<1>3. op \notin DOMAIN SequenceOps
  BY DEF SequenceOps, Ops, Merged
<1>4. op \notin DOMAIN PipeOps
  BY DEF PipeOps, Ops, Merged
<1>5. op \notin DOMAIN ClusterOps
  BY DEF ClusterOps, Ops, Merged
<1>6. op \notin DOMAIN IndexOps
  BY DEF IndexOps, Ops, Merged
<1>7. op \notin DOMAIN RandomOps
  BY DEF RandomOps, Ops, Merged
<1>8. op \notin DOMAIN TelemetryOps
  <2> DEFINE rows == <<
        Ops({"CYCLES_COUNT", "PREEMPT_CHECK", "GET_DEADLINE", "PRIORITY_GET"}, D, <<>>),
        Ops({"TRACE_EVENT"}, AB, <<>>),
        Ops({"SANITY_CHECK"}, <<"d", "a", "c">>, <<>>),
        Ops({"ASSERT"}, A, <<F("code", 0, 2)>>),
        Ops({"DUMP", "YIELD", "FENCE"}, None, <<>>),
        Ops({"SET_DEADLINE", "PRIORITY_SET", "LOCK", "UNLOCK"}, A, <<>>)>>
  <2>1. TelemetryOps = Merged(rows)
    BY DEF TelemetryOps
  <2>2. /\ DOMAIN rows = 1..6 /\ DOMAIN rows[2] = {"TRACE_EVENT"} /\ DOMAIN rows[3] = {"SANITY_CHECK"}
        /\ DOMAIN rows[1] = {"CYCLES_COUNT", "PREEMPT_CHECK", "GET_DEADLINE", "PRIORITY_GET"}
        /\ DOMAIN rows[4] = {"ASSERT"} /\ DOMAIN rows[5] = {"DUMP", "YIELD", "FENCE"}
        /\ DOMAIN rows[6] = {"SET_DEADLINE", "PRIORITY_SET", "LOCK", "UNLOCK"}
    BY OpsIs
  <2> HIDE DEF rows
  <2>3. \A j \in DOMAIN rows : op \notin DOMAIN rows[j]
    BY <2>2
  <2> QED
    BY <2>1, <2>3, MergedOut
<1>9. op \notin DOMAIN MoveOps
  BY DEF MoveOps, Ops, Merged
<1>10. op \in DOMAIN ArenaOps /\ ArenaOps[op].layout = AllocLayout
  <2> DEFINE rows == <<
        Ops({"SLICE"}, DA, <<F("start", 0, 4), F("len", 4, 4)>>),
        Ops({"ARENA_ALLOC"}, D, AllocLayout),
        Ops({"ARENA_RESET"}, None, <<F("arena", 0, 1)>>),
        Ops({"MEMCPY"}, DA, <<F("len", 0, 8), F("src", 8, 8), F("dst", 16, 8), F("dir", 24, 1)>>),
        Ops({"MEMSET"}, D, <<F("pattern", 0, 1), F("len", 1, 4), F("offset", 5, 8)>>)>>
  <2>1. ArenaOps = Merged(rows)
    BY DEF ArenaOps, AllocLayout
  <2>2. /\ DOMAIN rows = 1..5 /\ DOMAIN rows[1] = {"SLICE"} /\ DOMAIN rows[2] = {"ARENA_ALLOC"}
        /\ DOMAIN rows[3] = {"ARENA_RESET"} /\ DOMAIN rows[4] = {"MEMCPY"} /\ DOMAIN rows[5] = {"MEMSET"}
        /\ rows[2]["ARENA_ALLOC"].layout = AllocLayout
    BY OpsIs
  <2> HIDE DEF rows
  <2>3. \A j \in DOMAIN rows : j # 2 => op \notin DOMAIN rows[j]
    BY <2>2
  <2> QED
    BY <2>1, <2>2, <2>3, MergedIs
<1>11. op \notin DOMAIN SnapshotOps
  BY DEF SnapshotOps, Ops, Merged
<1>12. op \notin DOMAIN CastOps
  BY DEF CastOps, Ops, Merged
<1>13. op \notin DOMAIN OrderOps
  BY DEF OrderOps, Ops, Merged
<1>14. op \notin DOMAIN ActivationOps
  BY DEF ActivationOps, Ops, Merged, Activations
<1>15. op \notin DOMAIN CallOps
  BY DEF CallOps, Ops, Merged
<1>16. op \notin DOMAIN CacheOps
  BY DEF CacheOps, Ops, Merged
<1>17. op \notin DOMAIN AudioOps
  BY DEF AudioOps, Ops, Merged
<1>18. op \notin DOMAIN ImmOps
  BY DEF ImmOps, Ops, Merged
<1>19. op \notin DOMAIN EngineOps
  BY DEF EngineOps, Ops, Merged
<1>20. op \notin DOMAIN StoreOps
  BY DEF StoreOps, Ops, Merged
<1> HIDE DEF op
<1>21. DOMAIN tables = 1..20 /\ tables[10] = ArenaOps
  OBVIOUS
<1>22. \A j \in 1..20 : j # 10 => op \notin DOMAIN tables[j]
  BY <1>1, <1>2, <1>3, <1>4, <1>5, <1>6, <1>7, <1>8, <1>9, <1>11, <1>12, <1>13, <1>14, <1>15, <1>16, <1>17, <1>18, <1>19, <1>20
<1>23. OpTable = Merged(tables)
  BY DEF OpTable
<1> HIDE DEF tables
<1>24. OpTable[op] = ArenaOps[op]
  <2>1. 10 \in DOMAIN tables /\ op \in DOMAIN tables[10]
    BY <1>10, <1>21
  <2>2. \A j \in DOMAIN tables : j # 10 => op \notin DOMAIN tables[j]
    BY <1>21, <1>22
  <2>3. Merged(tables)[op] = tables[10][op]
    BY <2>1, <2>2, MergedIs
  <2> QED
    BY <1>21, <1>23, <2>3
<1> QED
  BY <1>10, <1>24 DEF op

LEMMA AllocFields ==
  ASSUME NEW ins, ins.op = "ARENA_ALLOC"
  PROVE  Params(ins).size \in Nat /\ Params(ins).align \in Nat
<1> DEFINE row == AllocLayout
           field(n) == row[CHOOSE k \in DOMAIN row : row[k].name = n]
           names == {f.name : f \in ToSet(row)}
<1>1. /\ DOMAIN row = 1..3
      /\ row[1].name = "size" /\ row[2].name = "align" /\ row[3].name = "arena"
      /\ row[1].plain = Nat /\ row[1].default = 0 /\ row[2].plain = Nat /\ row[2].default = 0
  BY DEF AllocLayout, F
<1>2. Params(ins) = Unit(ins, [n \in names |-> Get(ins.payload, field(n))])
  BY AllocRow DEF Params, Fields
<1>3. "size" \in names /\ "align" \in names
  BY <1>1 DEF ToSet
<1>4. (CHOOSE k \in DOMAIN row : row[k].name = "size") = 1
  BY <1>1
<1>5. (CHOOSE k \in DOMAIN row : row[k].name = "align") = 2
  BY <1>1
<1> HIDE DEF row
<1>6. Get(ins.payload, row[1]) \in Nat /\ Get(ins.payload, row[2]) \in Nat
  BY <1>1 DEF Get
<1>7. Params(ins) = [n \in names |-> Get(ins.payload, field(n))]
  BY <1>2 DEF Unit
<1> HIDE DEF names
<1>8. Params(ins).size = Get(ins.payload, row[1]) /\ Params(ins).align = Get(ins.payload, row[2])
  BY <1>3, <1>4, <1>5, <1>7
<1> QED
  BY <1>6, <1>8

---------------------------------------------------------------------------
(* Arenas.                                                                 *)

LEMMA AlignUpIs ==
  ASSUME NEW off \in Nat, NEW align \in Nat \ {0}
  PROVE  /\ AlignUp(off, align) \in Nat
         /\ AlignUp(off, align) >= off
         /\ AlignUp(off, align) % align = 0
<1> DEFINE x == off + align - 1
           q == x \div align
           r == x % align
<1>1. x \in Nat /\ align \in Int
  OBVIOUS
<1>2. q \in Int /\ r \in 0 .. align - 1 /\ x = align * q + r
  BY <1>1
<1>3. AlignUp(off, align) = q * align
  BY DEF AlignUp
<1> DEFINE m == align * q
<1>4. q * align = m /\ m \in Int
  BY <1>1, <1>2
<1>5. x = m + r
  BY <1>2
<1>6. m % align = 0
  <2>1. 0 \in 0 .. align - 1
    OBVIOUS
  <2>2. (align * q + 0) % align = 0
    BY <1>2, <2>1, ModIs
  <2>3. align * q + 0 = m
    BY <1>4
  <2> QED
    BY <2>2, <2>3
<1> HIDE DEF q, r, m
<1>7. m >= off
  BY <1>2, <1>4, <1>5
<1>8. m \in Nat
  BY <1>4, <1>7
<1> QED
  BY <1>3, <1>4, <1>6, <1>7, <1>8

\* SMT reckons with a power of two numbers, Zenon takes a number for another.
LEMMA PowersAre ==
  \A k \in 0..24 : 2 ^ k \in Nat
<1>1. /\ 2 ^ 0 \in Nat /\ 2 ^ 1 \in Nat /\ 2 ^ 2 \in Nat /\ 2 ^ 3 \in Nat /\ 2 ^ 4 \in Nat
      /\ 2 ^ 5 \in Nat /\ 2 ^ 6 \in Nat /\ 2 ^ 7 \in Nat /\ 2 ^ 8 \in Nat /\ 2 ^ 9 \in Nat
      /\ 2 ^ 10 \in Nat /\ 2 ^ 11 \in Nat /\ 2 ^ 12 \in Nat /\ 2 ^ 13 \in Nat /\ 2 ^ 14 \in Nat
      /\ 2 ^ 15 \in Nat /\ 2 ^ 16 \in Nat /\ 2 ^ 17 \in Nat /\ 2 ^ 18 \in Nat /\ 2 ^ 19 \in Nat
      /\ 2 ^ 20 \in Nat /\ 2 ^ 21 \in Nat /\ 2 ^ 22 \in Nat /\ 2 ^ 23 \in Nat /\ 2 ^ 24 \in Nat
  OBVIOUS
<1>2. \A k \in 0..24 : \/ k \in {0, 1, 2, 3, 4}
                       \/ k \in {5, 6, 7, 8, 9}
                       \/ k \in {10, 11, 12, 13, 14}
                       \/ k \in {15, 16, 17, 18, 19}
                       \/ k \in {20, 21, 22, 23, 24}
  OBVIOUS
<1>3. \A k \in {0, 1, 2, 3, 4} : 2 ^ k \in Nat
  BY <1>1, Zenon
<1>4. \A k \in {5, 6, 7, 8, 9} : 2 ^ k \in Nat
  BY <1>1, Zenon
<1>5. \A k \in {10, 11, 12, 13, 14} : 2 ^ k \in Nat
  BY <1>1, Zenon
<1>6. \A k \in {15, 16, 17, 18, 19} : 2 ^ k \in Nat
  BY <1>1, Zenon
<1>7. \A k \in {20, 21, 22, 23, 24} : 2 ^ k \in Nat
  BY <1>1, Zenon
<1> QED
  BY <1>2, <1>3, <1>4, <1>5, <1>6, <1>7, Zenon

\* The doublings of a capacity reach whatever the limit allows.
LEMMA DoubledToIs ==
  ASSUME NEW cap \in Nat, NEW end \in Nat, end <= ArenaMax
  PROVE  DoubledTo(cap, end) \in Nat /\ DoubledTo(cap, end) >= end
<1>3. end <= 1073741824
  <2>1. 2 ^ 30 = 1073741824
    OBVIOUS
  <2> QED
    BY <2>1, MachineConstants
<1> DEFINE first == IF cap < 64 THEN 64 ELSE cap
           T == {k \in 0..24 : first * 2 ^ k >= end}
           times == CHOOSE k \in 0..24 : first * 2 ^ k >= end /\ \A j \in 0..(k - 1) : first * 2 ^ j < end
<1>1. first \in Nat /\ first >= 64
  OBVIOUS
<1>2. \A k \in 0..24 : 2 ^ k \in Nat
  BY PowersAre
<1> HIDE DEF first
<1>4. \A k \in 0..24 : first * 2 ^ k \in Nat
  <2> TAKE k \in 0..24
  <2>1. \A x \in Nat : first * x \in Nat
    BY <1>1
  <2> QED
    BY <1>2, <2>1
<1>5. 24 \in T
  <2>1. 2 ^ 24 = 16777216
    OBVIOUS
  <2>2. first * 16777216 >= 1073741824
    BY <1>1
  <2>3. first * 16777216 >= end
    BY <1>1, <1>3, <2>2
  <2> QED
    BY <2>1, <2>3
<1>6. PICK k \in T : \A j \in T : k <= j
  <2>1. \A j \in T : j \in Nat
    OBVIOUS
  <2> HIDE DEF T
  <2>2. T \in SUBSET Nat /\ T # {}
    BY <1>5, <2>1
  <2> QED
    BY <2>2, Least
<1>7. k \in 0..24 /\ first * 2 ^ k >= end
  OBVIOUS
<1>8. \A j \in 0..(k - 1) : first * 2 ^ j < end
  <2> TAKE j \in 0..(k - 1)
  <2>1. j \in 0..24 /\ ~(k <= j)
    BY <1>7
  <2>2. j \notin T
    BY <1>6, <2>1
  <2>3. ~(first * 2 ^ j >= end)
    BY <2>1, <2>2
  <2>4. \A x, y \in Nat : ~(x >= y) => x < y
    OBVIOUS
  <2> QED
    BY <1>4, <2>1, <2>3, <2>4
<1>9. times \in 0..24 /\ first * 2 ^ times >= end
  BY <1>7, <1>8
<1>10. DoubledTo(cap, end) = IF end <= cap THEN cap ELSE first * 2 ^ times
  BY DEF DoubledTo, first
<1> HIDE DEF times
<1> QED
  BY <1>4, <1>9, <1>10

---------------------------------------------------------------------------
(* The invariant.                                                          *)

\* The arenas and the blocks of theirs that are good, now or when a snapshot
\* was taken.
ArenasOK(arenas, good) ==
  /\ \A id \in DOMAIN arenas :
       /\ arenas[id] \in [cursor : Nat, cap : Nat]
       /\ arenas[id].cursor <= arenas[id].cap
       /\ arenas[id].cursor <= ArenaMax
  /\ \A b \in good :
       /\ b.arena \in DOMAIN arenas
       /\ b.off \in Nat /\ b.size \in Nat /\ b.align \in Nat \ {0}
       /\ b.off % b.align = 0
       /\ b.off + b.size <= arenas[b.arena].cursor
  /\ \A b, c \in good :
       b.arena = c.arena /\ b # c => b.off + b.size <= c.off \/ c.off + c.size <= b.off

Formed(e) == e = [arenas |-> e.arenas, layers |-> e.layers, rag |-> e.rag]
EnginesOK == Formed(engines) /\ ArenasOK(engines.arenas, blocks)
StackOK   == IsSeq(stack) /\ \A i \in DOMAIN stack : ArenasOK(stack[i].arenas, stack[i].blocks)
StoresOK ==
  /\ \E n \in Nat : DOMAIN stores = 0 .. n
  /\ engines.rag \in DOMAIN stores
  /\ \A i \in DOMAIN stack : stack[i].rag \in DOMAIN stores

IInv == EnginesOK /\ StackOK /\ StoresOK

---------------------------------------------------------------------------
(* What a step does to the engines.                                        *)

Keeps    == /\ Formed(engines')
            /\ engines'.arenas = engines.arenas /\ engines'.rag = engines.rag
            /\ UNCHANGED <<stores, stack, blocks>>
WritesRag == \E store : WriteRag(store) /\ UNCHANGED <<stack, blocks>>
Allocates == \E ins : ins.op = "ARENA_ALLOC" /\ ArenaAlloc(ins, Params(ins))
Resets    == \E p : ArenaReset(p) /\ p.arena \in DOMAIN engines.arenas
Pushes   == \E e : /\ e.arenas = engines.arenas /\ e.rag = engines.rag /\ e.blocks = blocks
                   /\ stack' = Append(stack, e) /\ UNCHANGED <<engines, stores, blocks>>
Pops     == \E ins : RestoreTo(ins) /\ IsReg(ins.a) /\ regs[ins.a] \in DOMAIN saved

EngineStep == Keeps \/ WritesRag \/ Allocates \/ Resets \/ Pushes \/ Pops

LEMMA Untouched ==
  ASSUME Formed(engines), UNCHANGED engVars
  PROVE  Keeps
BY DEF engVars, Keeps

LEMMA ExecuteIs ==
  ASSUME Formed(engines), NEW ins, ins = Current, NEW p, p = Params(ins), Execute(ins, p)
  PROVE  EngineStep
<1>1. CASE NewTensor(ins, p)
  BY <1>1, Untouched DEF NewTensor, EngineStep
<1>2. CASE Compute(ins, p)
  <2>1. \A r : Complete(r, ins) => UNCHANGED engVars
    BY DEF Complete, Crashes, Refuse
  <2> QED
    BY <1>2, <2>1, Untouched DEF Compute, Finish, EngineStep
<1>3. CASE Attention(ins, p) \/ EmbedRow(ins, p) \/ Sample(ins, p) \/ RagSearch(ins, p)
  <2>1. \A r : Complete(r, ins) => UNCHANGED engVars
    BY DEF Complete, Crashes, Refuse
  <2>2. UNCHANGED engVars
    BY <1>3, <2>1 DEF Attention, Finish, EmbedRow, Sample, RagSearch, FoundBy, Refuse
  <2> QED
    BY <2>2, Untouched DEF EngineStep
<1>4. CASE RankOne(ins, p)
  <2>1. ASSUME NEW r, PutRankOne(r, ins, p)
        PROVE  Keeps
    <3>1. CASE r.res = "ok" /\ TensorBytes(r.out) > 0
      <4> DEFINE lay == With(engines.layers, p.layer, cursor)
      <4>1. engines' = [engines EXCEPT !.layers = lay] /\ UNCHANGED <<stores, stack, blocks>>
        BY <2>1, <3>1 DEF PutRankOne
      <4> HIDE DEF lay
      <4>2. engines' = [arenas |-> engines.arenas, layers |-> lay, rag |-> engines.rag]
        BY <4>1 DEF Formed
      <4> QED
        BY <4>1, <4>2 DEF Keeps, Formed
    <3>2. CASE ~(r.res = "ok" /\ TensorBytes(r.out) > 0)
      BY <2>1, <3>2, Untouched DEF PutRankOne, Refuse
    <3> QED
      BY <3>1, <3>2
  <2> QED
    BY <1>4, <2>1 DEF RankOne, EngineStep
<1>5. CASE Move(ins, p) \/ Compare(ins, p) \/ Jump(ins, p) \/ Call(p) \/ Ret
  <2>1. UNCHANGED engVars
    BY <1>5 DEF Move, Compare, Jump, Call, Ret, Refuse
  <2> QED
    BY <2>1, Untouched DEF EngineStep
<1>6. CASE ArenaAlloc(ins, p)
  <2>1. ins.op = "ARENA_ALLOC"
    BY <1>6 DEF ArenaAlloc, Fetches
  <2> QED
    BY <1>6, <2>1 DEF EngineStep, Allocates
<1>7. CASE ArenaReset(p)
  <2>1. p.arena \notin DOMAIN engines.arenas => UNCHANGED engVars
    BY <1>7 DEF ArenaReset, Refuse
  <2> QED
    BY <1>7, <2>1, Untouched DEF EngineStep, Resets
<1>8. CASE CopyBytes(ins, p) \/ FillBytes(ins, p) \/ Halt \/ Nop
  <2>1. UNCHANGED engVars
    BY <1>8 DEF CopyBytes, FillBytes, Halt, Nop, Refuse
  <2> QED
    BY <2>1, Untouched DEF EngineStep
<1>9. CASE RagAdd(ins)
  <2>1. WritesRag \/ UNCHANGED engVars
    BY <1>9 DEF RagAdd, WritesRag, Refuse
  <2> QED
    BY <2>1, Untouched DEF EngineStep
<1>10. CASE RagDel(ins)
  <2>1. WritesRag \/ UNCHANGED engVars
    BY <1>10 DEF RagDel, WritesRag, Refuse
  <2> QED
    BY <2>1, Untouched DEF EngineStep
<1>11. CASE TakeSnapshot(ins, p)
  <2>1. Pushes \/ UNCHANGED engVars
    BY <1>11 DEF TakeSnapshot, Entry, Pushes, Refuse
  <2> QED
    BY <2>1, Untouched DEF EngineStep
<1>12. CASE RestoreTo(ins)
  <2>1. ~(IsReg(ins.a) /\ regs[ins.a] \in DOMAIN saved) => UNCHANGED engVars
    BY <1>12 DEF RestoreTo, Refuse
  <2> QED
    BY <1>12, <2>1, Untouched DEF EngineStep, Pops
<1> QED
  BY <1>1, <1>2, <1>3, <1>4, <1>5, <1>6, <1>7, <1>8, <1>9, <1>10, <1>11, <1>12 DEF Execute

LEMMA NextIs ==
  ASSUME Formed(engines), [Next]_vars
  PROVE  EngineStep
<1>1. CASE AssembleData \/ Damage \/ \E ext \in {"m3asm", "m3bin", "m3bc"} : Save(ext)
  <2>1. UNCHANGED engVars
    BY <1>1 DEF AssembleData, Damage, Save, machineVars
  <2> QED
    BY <2>1, Untouched DEF EngineStep
<1>2. CASE Open
  <2>1. ASSUME NEW r, NEW ext, Start(r, ext)
        PROVE  UNCHANGED engVars
    BY <2>1 DEF Start, LoadProgram, machineVars
  <2> QED
    BY <1>2, <2>1, Untouched DEF Open, EngineStep
<1>3. CASE LoadAssembled
  <2>1. UNCHANGED engVars
    BY <1>3 DEF LoadAssembled, LoadProgram, machineVars
  <2> QED
    BY <2>1, Untouched DEF EngineStep
<1>4. CASE Run
  <2>1. CASE FetchFails
    BY <2>1, Untouched DEF FetchFails, Refuse, EngineStep
  <2>2. CASE Execute(Current, Params(Current))
    BY <2>2, ExecuteIs
  <2> QED
    BY <1>4, <2>1, <2>2 DEF Run, Step
<1>5. CASE UNCHANGED vars
  <2>1. UNCHANGED engVars
    BY <1>5 DEF vars, machineVars
  <2> QED
    BY <2>1, Untouched DEF EngineStep
<1> QED
  BY <1>1, <1>2, <1>3, <1>4, <1>5 DEF Next

---------------------------------------------------------------------------
(* Allocation and reset.                                                   *)

LEMMA BumpIs ==
  ASSUME NEW arena \in [cursor : Nat, cap : Nat], NEW size \in Nat, NEW align \in Nat,
         ArenaFits(arena, size, align)
  PROVE  LET off == AlignUp(arena.cursor, AlignOf(align))
             new == Grown(arena, size, align)
         IN  /\ AlignOf(align) \in Nat \ {0}
             /\ off \in Nat /\ off >= arena.cursor /\ off % AlignOf(align) = 0
             /\ new \in [cursor : Nat, cap : Nat]
             /\ new.cursor = off + size /\ new.cursor <= new.cap /\ new.cursor <= ArenaMax
<1> DEFINE off == AlignUp(arena.cursor, AlignOf(align))
           end == off + size
<1>1. AlignOf(align) \in Nat \ {0}
  BY DEF AlignOf
<1>2. off \in Nat /\ off >= arena.cursor /\ off % AlignOf(align) = 0
  BY <1>1, AlignUpIs
<1>3. off + size <= ArenaMax
  BY DEF ArenaFits
<1> HIDE DEF off
<1>4. end \in Nat /\ end <= ArenaMax
  BY <1>2, <1>3
<1> HIDE DEF end
<1>5. DoubledTo(arena.cap, end) \in Nat /\ DoubledTo(arena.cap, end) >= end
  BY <1>4, DoubledToIs
<1>6. Grown(arena, size, align) = [cursor |-> end, cap |-> DoubledTo(arena.cap, end)]
  BY DEF Grown, Bump, off, end
<1>7. Grown(arena, size, align) \in [cursor : Nat, cap : Nat]
  BY <1>4, <1>5, <1>6
<1>8. /\ Grown(arena, size, align).cursor = off + size
      /\ Grown(arena, size, align).cursor <= Grown(arena, size, align).cap
      /\ Grown(arena, size, align).cursor <= ArenaMax
  BY <1>4, <1>5, <1>6 DEF end
<1> QED
  BY <1>1, <1>2, <1>7, <1>8 DEF off

\* A block between the old cursor of an arena and a new one.
LEMMA MoreBlocks ==
  ASSUME NEW arenas, NEW good, ArenasOK(arenas, good), NEW id,
         NEW arena, NEW new,
         id \in DOMAIN arenas => arena = arenas[id],
         new \in [cursor : Nat, cap : Nat], new.cursor <= new.cap, new.cursor <= ArenaMax,
         arena.cursor \in Nat,
         NEW b, b.arena = id, b.off \in Nat, b.size \in Nat, b.align \in Nat \ {0},
         b.off % b.align = 0, b.off >= arena.cursor, b.off + b.size = new.cursor
  PROVE  ArenasOK(With(arenas, id, new), good \cup {b})
<1> DEFINE w == With(arenas, id, new)
<1>1. /\ DOMAIN w = DOMAIN arenas \cup {id} /\ w[id] = new
      /\ \A x \in DOMAIN arenas : x # id => w[x] = arenas[x]
  BY DEF With
<1> HIDE DEF w
<1>2. \A x \in DOMAIN w : w[x] \in [cursor : Nat, cap : Nat] /\ w[x].cursor <= w[x].cap /\ w[x].cursor <= ArenaMax
  BY <1>1 DEF ArenasOK
<1>3. ASSUME NEW c \in good
      PROVE  /\ c.arena \in DOMAIN w
             /\ c.off \in Nat /\ c.size \in Nat /\ c.align \in Nat \ {0} /\ c.off % c.align = 0
             /\ c.off + c.size <= w[c.arena].cursor
             /\ c.arena = id => c.off + c.size <= b.off
  <2>1. /\ c.arena \in DOMAIN arenas
        /\ c.off \in Nat /\ c.size \in Nat /\ c.align \in Nat \ {0} /\ c.off % c.align = 0
        /\ c.off + c.size <= arenas[c.arena].cursor
        /\ arenas[c.arena].cursor \in Nat
    BY DEF ArenasOK
  <2>2. CASE c.arena = id
    <3>1. c.off + c.size <= b.off /\ b.off <= new.cursor
      <4>1. c.off + c.size <= arena.cursor
        BY <2>1, <2>2
      <4>2. c.off + c.size \in Nat
        BY <2>1
      <4> QED
        BY <4>1, <4>2
    <3>2. c.off + c.size <= new.cursor
      BY <2>1, <3>1
    <3> QED
      BY <1>1, <2>1, <2>2, <3>1, <3>2
  <2>3. CASE c.arena # id
    BY <1>1, <2>1, <2>3
  <2> QED
    BY <2>2, <2>3
<1>4. \A c \in good \cup {b} :
        /\ c.arena \in DOMAIN w
        /\ c.off \in Nat /\ c.size \in Nat /\ c.align \in Nat \ {0} /\ c.off % c.align = 0
        /\ c.off + c.size <= w[c.arena].cursor
  <2>1. b.off + b.size <= w[b.arena].cursor /\ b.arena \in DOMAIN w
    BY <1>1
  <2> QED
    BY <1>3, <2>1
<1>5. \A c, d \in good \cup {b} :
        c.arena = d.arena /\ c # d => c.off + c.size <= d.off \/ d.off + d.size <= c.off
  <2> TAKE c, d \in good \cup {b}
  <2>1. CASE c \in good /\ d \in good
    BY <2>1 DEF ArenasOK
  <2>2. CASE c \in good /\ d = b
    BY <1>3, <2>2
  <2>3. CASE c = b /\ d \in good
    BY <1>3, <2>3
  <2> QED
    BY <2>1, <2>2, <2>3
<1> QED
  BY <1>2, <1>4, <1>5 DEF ArenasOK, w

\* The same blocks, and an arena that is new or as it was.
LEMMA SameBlocks ==
  ASSUME NEW arenas, NEW good, ArenasOK(arenas, good), NEW id, NEW new,
         new = IF id \in DOMAIN arenas THEN arenas[id] ELSE EmptyArena
  PROVE  ArenasOK(With(arenas, id, new), good)
<1> DEFINE w == With(arenas, id, new)
<1>1. /\ DOMAIN w = DOMAIN arenas \cup {id} /\ w[id] = new
      /\ \A x \in DOMAIN arenas : x # id => w[x] = arenas[x]
  BY DEF With
<1> HIDE DEF w
<1>2. \A x \in DOMAIN arenas : w[x] = arenas[x]
  BY <1>1
<1>3. EmptyArena \in [cursor : Nat, cap : Nat] /\ EmptyArena.cursor <= EmptyArena.cap /\ EmptyArena.cursor <= ArenaMax
  BY MachineConstants DEF EmptyArena
<1>4. \A x \in DOMAIN w : w[x] \in [cursor : Nat, cap : Nat] /\ w[x].cursor <= w[x].cap /\ w[x].cursor <= ArenaMax
  BY <1>1, <1>2, <1>3 DEF ArenasOK
<1>5. \A b \in good :
       /\ b.arena \in DOMAIN w
       /\ b.off \in Nat /\ b.size \in Nat /\ b.align \in Nat \ {0}
       /\ b.off % b.align = 0
       /\ b.off + b.size <= w[b.arena].cursor
  BY <1>1, <1>2 DEF ArenasOK
<1>6. \A b, c \in good :
       b.arena = c.arena /\ b # c => b.off + b.size <= c.off \/ c.off + c.size <= b.off
  BY DEF ArenasOK
<1> QED
  BY <1>4, <1>5, <1>6 DEF ArenasOK, w

LEMMA AllocatesKeeps ==
  ASSUME EnginesOK, Allocates
  PROVE  EnginesOK' /\ UNCHANGED <<stores, stack>> /\ engines'.rag = engines.rag
<1>1. PICK ins : ins.op = "ARENA_ALLOC" /\ ArenaAlloc(ins, Params(ins))
  BY DEF Allocates
<1> DEFINE p == Params(ins)
           id == p.arena
           size == p.size
           align == p.align
           arena == Arena(id)
           new == Grown(arena, size, align)
           off == AlignUp(arena.cursor, AlignOf(align))
           b == [arena |-> id, off |-> off, size |-> size, align |-> AlignOf(align), nth |-> Cardinality(blocks)]
           w == With(engines.arenas, id, new)
<1>2. size \in Nat /\ align \in Nat
  BY <1>1, AllocFields
<1>3. /\ engines' = [engines EXCEPT !.arenas = w]
      /\ \/ ArenaFits(arena, size, align) /\ blocks' = blocks \cup {b}
         \/ blocks' = blocks
      /\ UNCHANGED <<stores, stack>>
  BY <1>1 DEF ArenaAlloc
<1>4. /\ id \in DOMAIN engines.arenas => arena = engines.arenas[id]
      /\ id \notin DOMAIN engines.arenas => arena = EmptyArena
  BY DEF Arena
<1>5. arena \in [cursor : Nat, cap : Nat] /\ arena.cursor \in Nat
  BY <1>4 DEF EnginesOK, ArenasOK, EmptyArena
<1> HIDE DEF id, size, align, arena
<1>6. CASE ArenaFits(arena, size, align)
  <2>1. /\ AlignOf(align) \in Nat \ {0}
        /\ off \in Nat /\ off >= arena.cursor /\ off % AlignOf(align) = 0
        /\ new \in [cursor : Nat, cap : Nat]
        /\ new.cursor = off + size /\ new.cursor <= new.cap /\ new.cursor <= ArenaMax
    BY <1>2, <1>5, <1>6, BumpIs
  <2> DEFINE to == AlignOf(align)
  <2>2. /\ b.arena = id /\ b.off = off /\ b.size = size /\ b.align = to
    OBVIOUS
  <2> HIDE DEF to, b, off, new
  <2>3. /\ b.off \in Nat /\ b.size \in Nat /\ b.align \in Nat \ {0}
        /\ b.off % b.align = 0 /\ b.off >= arena.cursor /\ b.off + b.size = new.cursor
    BY <1>2, <2>1, <2>2 DEF to
  <2>4. ArenasOK(engines.arenas, blocks)
    BY DEF EnginesOK
  <2>5. ArenasOK(w, blocks \cup {b})
    BY <1>4, <1>5, <2>1, <2>2, <2>3, <2>4, MoreBlocks
  <2> HIDE DEF w
  <2>6. ArenasOK(w, blocks)
    BY <2>5 DEF ArenasOK
  <2>7. engines' = [arenas |-> w, layers |-> engines.layers, rag |-> engines.rag]
    BY <1>3 DEF EnginesOK, Formed
  <2>8. blocks' = blocks \cup {b} \/ blocks' = blocks
    BY <1>3 DEF b, off
  <2>9. ArenasOK(w, blocks')
    BY <2>5, <2>6, <2>8
  <2> QED
    BY <1>3, <2>7, <2>9 DEF EnginesOK, Formed
<1>7. CASE ~ArenaFits(arena, size, align)
  <2>1. new = arena
    BY <1>7 DEF Grown
  <2> HIDE DEF new
  <2>2. ArenasOK(w, blocks)
    BY <1>4, <2>1, SameBlocks DEF EnginesOK
  <2> HIDE DEF w
  <2>3. engines' = [arenas |-> w, layers |-> engines.layers, rag |-> engines.rag]
    BY <1>3 DEF EnginesOK, Formed
  <2> QED
    BY <1>3, <1>7, <2>2, <2>3 DEF EnginesOK, Formed
<1> QED
  BY <1>6, <1>7

LEMMA ResetsKeeps ==
  ASSUME EnginesOK, Resets
  PROVE  EnginesOK' /\ UNCHANGED <<stores, stack>> /\ engines'.rag = engines.rag
<1>1. PICK p : ArenaReset(p) /\ p.arena \in DOMAIN engines.arenas
  BY DEF Resets
<1> DEFINE id == p.arena
           arenas == engines.arenas
           w == [arenas EXCEPT ![id].cursor = 0]
           good == {b \in blocks : b.arena # id}
<1>2. /\ engines' = [engines EXCEPT !.arenas[id].cursor = 0]
      /\ blocks' = good /\ UNCHANGED <<stores, stack>>
  BY <1>1 DEF ArenaReset
<1>3. engines' = [arenas |-> w, layers |-> engines.layers, rag |-> engines.rag]
  BY <1>2 DEF EnginesOK, Formed
<1>4. ArenasOK(arenas, blocks)
  BY DEF EnginesOK
<1> HIDE DEF arenas
<1>5. id \in DOMAIN arenas
  BY <1>1 DEF arenas
<1> HIDE DEF id
<1>6. /\ DOMAIN w = DOMAIN arenas /\ \A x \in DOMAIN arenas : x # id => w[x] = arenas[x]
      /\ w[id] = [arenas[id] EXCEPT !.cursor = 0]
  BY <1>5
<1>7. /\ w[id] \in [cursor : Nat, cap : Nat] /\ w[id].cursor = 0 /\ w[id].cursor <= w[id].cap
  BY <1>4, <1>5, <1>6 DEF ArenasOK
<1> HIDE DEF w
<1>8. \A x \in DOMAIN w : w[x] \in [cursor : Nat, cap : Nat] /\ w[x].cursor <= w[x].cap /\ w[x].cursor <= ArenaMax
  BY <1>4, <1>6, <1>7, MachineConstants DEF ArenasOK
<1>9. \A b \in good :
        /\ b.arena \in DOMAIN w
        /\ b.off \in Nat /\ b.size \in Nat /\ b.align \in Nat \ {0}
        /\ b.off % b.align = 0
        /\ b.off + b.size <= w[b.arena].cursor
  BY <1>4, <1>6 DEF ArenasOK
<1>10. \A b, c \in good :
         b.arena = c.arena /\ b # c => b.off + b.size <= c.off \/ c.off + c.size <= b.off
  BY <1>4 DEF ArenasOK
<1> HIDE DEF good
<1>11. ArenasOK(w, good)
  BY <1>8, <1>9, <1>10 DEF ArenasOK
<1> QED
  BY <1>2, <1>3, <1>11 DEF EnginesOK, Formed

---------------------------------------------------------------------------
(* Snapshots, restores and the stores.                                     *)

LEMMA PushesKeeps ==
  ASSUME IInv, Pushes
  PROVE  IInv' /\ UNCHANGED stores
<1>1. PICK e : /\ e.arenas = engines.arenas /\ e.rag = engines.rag /\ e.blocks = blocks
               /\ stack' = Append(stack, e) /\ UNCHANGED <<engines, stores, blocks>>
  BY DEF Pushes
<1> DEFINE s == Append(stack, e)
<1>2. /\ IsSeq(s)
      /\ \A i \in DOMAIN s : \/ i \in DOMAIN stack /\ s[i] = stack[i]
                             \/ s[i] = e
  BY AppendIs DEF IInv, StackOK
<1> HIDE DEF s
<1>3. EnginesOK'
  BY <1>1 DEF IInv, EnginesOK, Formed
<1>4. StackOK'
  <2>1. \A i \in DOMAIN s : ArenasOK(s[i].arenas, s[i].blocks)
    BY <1>1, <1>2 DEF IInv, StackOK, EnginesOK
  <2> QED
    BY <1>1, <1>2, <2>1 DEF StackOK, s
<1>5. StoresOK'
  <2>1. \A i \in DOMAIN s : s[i].rag \in DOMAIN stores
    BY <1>1, <1>2 DEF IInv, StoresOK
  <2> QED
    BY <1>1, <2>1 DEF IInv, StoresOK, s
<1> QED
  BY <1>1, <1>3, <1>4, <1>5 DEF IInv

\* What RESTORE pops down to is a height of the stack.
LEMMA HeightIs ==
  ASSUME IsSeq(stack), NEW v
  PROVE  Height(v) \in 0 .. Len(stack)
<1>1. PICK S : stack \in Seq(S)
  BY DEF IsSeq
<1>2. DOMAIN stack = 1 .. Len(stack) /\ Len(stack) \in Nat
  BY <1>1
<1> DEFINE Below == {i \in DOMAIN stack : stack[i].ver <= v}
           H == {0} \cup Below
<1>3. H \subseteq 0 .. Len(stack)
  BY <1>2
<1>4. \E h \in H : \A y \in H : h >= y
  <2>1. CASE Below = {}
    BY <2>1
  <2>2. CASE Below # {}
    <3>1. Below \in SUBSET (1 .. Len(stack))
      BY <1>2
    <3> HIDE DEF Below
    <3>2. PICK i \in Below : \A j \in Below : j <= i
      BY <1>2, <2>2, <3>1, Greatest
    <3>3. i >= 0 /\ i \in Nat /\ \A j \in Below : j \in Nat
      BY <1>2, <3>1
    <3>4. \A y \in H : i >= y
      BY <3>2, <3>3
    <3> QED
      BY <3>2, <3>4
  <2> QED
    BY <2>1, <2>2
<1> HIDE DEF Below, H
<1>5. Max(H) \in H
  BY <1>4 DEF Max
<1>6. Height(v) = Max(H)
  BY DEF Height, H, Below
<1> QED
  BY <1>3, <1>5, <1>6

LEMMA PopsKeeps ==
  ASSUME IInv, Pops
  PROVE  IInv' /\ UNCHANGED stores
<1>1. PICK ins : RestoreTo(ins) /\ IsReg(ins.a) /\ regs[ins.a] \in DOMAIN saved
  BY DEF Pops
<1> DEFINE v == regs[ins.a]
           top == Height(v)
           hit == top > 0 /\ stack[top].ver = v
           n == IF hit THEN top - 1 ELSE top
           s == SubSeq(stack, 1, n)
<1>2. /\ stack' = s /\ UNCHANGED stores
      /\ IF hit THEN /\ engines' = [arenas |-> stack[top].arenas, layers |-> stack[top].layers, rag |-> stack[top].rag]
                     /\ blocks' = stack[top].blocks
         ELSE UNCHANGED <<engines, blocks>>
  BY <1>1 DEF RestoreTo
<1>3. IsSeq(stack) /\ top \in 0 .. Len(stack)
  BY HeightIs DEF IInv, StackOK
<1> HIDE DEF top
<1>4. PICK S : stack \in Seq(S)
  BY <1>3 DEF IsSeq
<1>5. DOMAIN stack = 1 .. Len(stack) /\ Len(stack) \in Nat
  BY <1>4
<1>6. hit => top \in DOMAIN stack
  BY <1>3, <1>5
<1>7. n \in 0 .. Len(stack)
  BY <1>3, <1>5
<1> HIDE DEF hit, n
<1>8. IsSeq(s) /\ \A i \in DOMAIN s : i \in DOMAIN stack /\ s[i] = stack[i]
  BY <1>3, <1>7, PrefixIs
<1> HIDE DEF s
<1>9. EnginesOK'
  <2>1. CASE hit
    <3>1. ArenasOK(stack[top].arenas, stack[top].blocks)
      BY <1>6, <2>1 DEF IInv, StackOK
    <3>2. engines'.arenas = stack[top].arenas /\ blocks' = stack[top].blocks /\ Formed(engines')
      BY <1>2, <2>1 DEF Formed
    <3> QED
      BY <3>1, <3>2 DEF EnginesOK, Formed
  <2>2. CASE ~hit
    BY <1>2, <2>2 DEF IInv, EnginesOK, Formed
  <2> QED
    BY <2>1, <2>2
<1>10. StackOK'
  BY <1>2, <1>8 DEF IInv, StackOK
<1>11. StoresOK'
  <2>1. \A i \in DOMAIN s : s[i].rag \in DOMAIN stores
    BY <1>8 DEF IInv, StoresOK
  <2>2. engines'.rag \in DOMAIN stores
    BY <1>2, <1>6 DEF IInv, StoresOK
  <2> QED
    BY <1>2, <2>1, <2>2 DEF IInv, StoresOK
<1> QED
  BY <1>2, <1>9, <1>10, <1>11 DEF IInv

\* A write goes to a store that no snapshot holds.
LEMMA WritesRagKeeps ==
  ASSUME IInv, WritesRag
  PROVE  /\ IInv'
         /\ \A i \in DOMAIN stack : stores'[stack[i].rag] = stores[stack[i].rag]
<1>1. PICK store : WriteRag(store) /\ UNCHANGED <<stack, blocks>>
  BY DEF WritesRag
<1>2. PICK n \in Nat : DOMAIN stores = 0 .. n
  BY DEF IInv, StoresOK
<1> DEFINE at == IF Shared THEN Max(DOMAIN stores) + 1 ELSE engines.rag
           w == With(stores, at, store)
<1>3. stores' = w /\ engines' = [engines EXCEPT !.rag = at]
  BY <1>1 DEF WriteRag
<1>4. Max(DOMAIN stores) = n
  BY <1>2, MaxIs
<1>5. at = n + 1 \/ (at = engines.rag /\ ~Shared)
  BY <1>4
<1>6. /\ at \in 0 .. n + 1
      /\ \A i \in DOMAIN stack : at # stack[i].rag
  <2>1. engines.rag \in 0 .. n /\ \A i \in DOMAIN stack : stack[i].rag \in 0 .. n
    BY <1>2 DEF IInv, StoresOK
  <2> HIDE DEF at
  <2>2. CASE at = n + 1
    BY <2>1, <2>2
  <2>3. CASE at = engines.rag /\ ~Shared
    BY <2>1, <2>3 DEF Shared
  <2> QED
    BY <1>5, <2>2, <2>3
<1> HIDE DEF at
<1>7. DOMAIN w = DOMAIN stores \cup {at} /\ \A x \in DOMAIN stores : x # at => w[x] = stores[x]
  BY DEF With
<1> HIDE DEF w
<1>8. engines' = [arenas |-> engines.arenas, layers |-> engines.layers, rag |-> at]
  BY <1>3 DEF IInv, EnginesOK, Formed
<1>9. EnginesOK'
  BY <1>1, <1>8 DEF IInv, EnginesOK, Formed
<1>10. StackOK'
  BY <1>1 DEF IInv, StackOK
<1>11. StoresOK'
  <2>1. \E m \in Nat : DOMAIN w = 0 .. m
    <3>1. CASE at = n + 1
      <4>1. (0 .. n) \cup {n + 1} = 0 .. (n + 1)
        OBVIOUS
      <4>2. DOMAIN w = 0 .. (n + 1) /\ n + 1 \in Nat
        BY <1>2, <1>7, <3>1, <4>1
      <4> QED
        BY <4>2
    <3>2. CASE at # n + 1
      <4>1. at \in 0 .. n
        BY <1>6, <3>2
      <4>2. DOMAIN w = 0 .. n
        BY <1>2, <1>7, <4>1
      <4> QED
        BY <4>2
    <3> QED
      BY <3>1, <3>2
  <2>2. at \in DOMAIN w /\ \A i \in DOMAIN stack : stack[i].rag \in DOMAIN w
    BY <1>7 DEF IInv, StoresOK
  <2>3. stores' = w /\ engines'.rag = at /\ stack' = stack
    BY <1>1, <1>3, <1>8
  <2> QED
    BY <2>1, <2>2, <2>3 DEF StoresOK
<1>12. \A i \in DOMAIN stack : stores'[stack[i].rag] = stores[stack[i].rag]
  BY <1>3, <1>6, <1>7 DEF IInv, StoresOK
<1> QED
  BY <1>9, <1>10, <1>11, <1>12 DEF IInv

---------------------------------------------------------------------------
(* The invariant and what follows from it.                                 *)

LEMMA InitOK ==
  Init => IInv
<1> SUFFICES ASSUME Init PROVE IInv
  OBVIOUS
<1>1. PICK t \in Tasks : MachineInit(t.tensors)
  BY DEF Init
<1>2. /\ engines = [arenas |-> <<>>, layers |-> <<>>, rag |-> 0]
      /\ stores = [i \in {0} |-> NewStore] /\ stack = <<>> /\ blocks = {}
  BY <1>1 DEF MachineInit
<1>3. EnginesOK
  BY <1>2 DEF EnginesOK, Formed, ArenasOK
<1>4. StackOK
  <2>1. stack \in Seq({}) /\ DOMAIN stack = {}
    BY <1>2
  <2> QED
    BY <2>1 DEF StackOK, IsSeq
<1>5. StoresOK
  <2>1. DOMAIN stores = 0 .. 0 /\ 0 \in Nat
    BY <1>2
  <2>2. engines.rag \in DOMAIN stores /\ DOMAIN stack = {}
    BY <1>2
  <2> QED
    BY <2>1, <2>2 DEF StoresOK
<1> QED
  BY <1>3, <1>4, <1>5 DEF IInv

LEMMA StepOK ==
  ASSUME IInv, [Next]_vars
  PROVE  /\ IInv'
         /\ \/ UNCHANGED stores
            \/ \A i \in DOMAIN stack : stores'[stack[i].rag] = stores[stack[i].rag]
<1>1. EngineStep
  BY NextIs DEF IInv, EnginesOK
<1>2. CASE Keeps
  BY <1>2 DEF Keeps, IInv, EnginesOK, StackOK, StoresOK, Formed
<1>3. CASE WritesRag
  BY <1>3, WritesRagKeeps
<1>4. CASE Allocates \/ Resets
  <2>1. EnginesOK' /\ UNCHANGED <<stores, stack>> /\ engines'.rag = engines.rag
    BY <1>4, AllocatesKeeps, ResetsKeeps DEF IInv
  <2> QED
    BY <2>1 DEF IInv, StackOK, StoresOK
<1>5. CASE Pushes
  BY <1>5, PushesKeeps
<1>6. CASE Pops
  BY <1>6, PopsKeeps
<1> QED
  BY <1>1, <1>2, <1>3, <1>4, <1>5, <1>6 DEF EngineStep

\* The inductive invariant: the arenas with their blocks, now and in every
\* snapshot, and stores that are numbered without a gap.
THEOREM Invariant == Spec => []IInv
<1>1. Init => IInv
  BY InitOK
<1>2. IInv /\ [Next]_vars => IInv'
  BY StepOK
<1> QED
  BY <1>1, <1>2, PTL DEF Spec

LEMMA MinIs ==
  ASSUME NEW x \in Nat, NEW y \in Nat, NEW z \in Nat, z <= x, z <= y
  PROVE  z <= Min({x, y})
<1>1. \E m \in {x, y} : \A k \in {x, y} : m <= k
  OBVIOUS
<1>2. Min({x, y}) \in {x, y}
  BY <1>1 DEF Min
<1> QED
  BY <1>2

\* Two blocks of an arena that are both good never share a byte, lie below
\* the cursor and begin where they were asked to; the cursor stays within the
\* capacity and the limit (arena_alloc, arena_reset and the arena snapshots
\* of vm.rs).
THEOREM BlocksNeverOverlap == Spec => []ArenaBlocksDisjoint
<1>1. IInv => ArenaBlocksDisjoint
  <2> SUFFICES ASSUME IInv, NEW b \in blocks
               PROVE  LET arena == engines.arenas[b.arena] IN
                      /\ b.arena \in DOMAIN engines.arenas
                      /\ b.off % b.align = 0 /\ b.off + b.size <= arena.cursor
                      /\ arena.cursor <= Min({arena.cap, ArenaMax})
                      /\ \A c \in blocks : c.arena = b.arena /\ c # b =>
                           b.off + b.size <= c.off \/ c.off + c.size <= b.off
    BY DEF ArenaBlocksDisjoint
  <2> DEFINE arena == engines.arenas[b.arena]
  <2>1. ArenasOK(engines.arenas, blocks)
    BY DEF IInv, EnginesOK
  <2>2. /\ b.arena \in DOMAIN engines.arenas
        /\ b.off % b.align = 0 /\ b.off + b.size <= arena.cursor
    BY <2>1 DEF ArenasOK
  <2>3. arena.cursor \in Nat /\ arena.cap \in Nat /\ arena.cursor <= arena.cap /\ arena.cursor <= ArenaMax
    BY <2>1, <2>2 DEF ArenasOK
  <2>4. \A c \in blocks : c.arena = b.arena /\ c # b =>
           b.off + b.size <= c.off \/ c.off + c.size <= b.off
    BY <2>1 DEF ArenasOK
  <2> HIDE DEF arena
  <2>5. arena.cursor <= Min({arena.cap, ArenaMax})
    BY <2>3, MachineConstants, MinIs
  <2> QED
    BY <2>2, <2>4, <2>5 DEF arena
<1> QED
  BY <1>1, Invariant, PTL

\* No ADD and no DEL reaches the store that a snapshot holds: whoever writes
\* first takes a copy, and the copy is nobody's (rag_store_mut of vm.rs).
THEOREM SnapshotsKeepTheirStore == Spec => RagSnapshotsIsolated
<1>1. IInv /\ [Next]_vars => [SavedStoresStay]_vars
  <2> SUFFICES ASSUME IInv, [Next]_vars
               PROVE  SavedStoresStay
    OBVIOUS
  <2>1. CASE UNCHANGED stores
    BY <2>1 DEF SavedStoresStay
  <2>2. CASE \A i \in DOMAIN stack : stores'[stack[i].rag] = stores[stack[i].rag]
    BY <2>2 DEF SavedStoresStay
  <2> QED
    BY <2>1, <2>2, StepOK
<1> QED
  BY <1>1, Invariant, PTL DEF Spec, RagSnapshotsIsolated

---------------------------------------------------------------------------
(* The assembler makes sequences.                                          *)

LEMMA SeqByDomain ==
  ASSUME NEW n \in Nat, NEW f, DOMAIN f = 1 .. n, f = [i \in 1 .. n |-> f[i]]
  PROVE  IsSeq(f) /\ Len(f) = n
<1> DEFINE S == {f[i] : i \in 1 .. n}
<1>1. \A i \in 1 .. n : f[i] \in S
  OBVIOUS
<1> HIDE DEF S
<1>2. f \in [1 .. n -> S]
  BY <1>1
<1>3. f \in Seq(S)
  BY <1>2, SeqDef
<1> QED
  BY <1>3 DEF IsSeq

LEMMA SeqFacts ==
  ASSUME NEW q, IsSeq(q)
  PROVE  /\ Len(q) \in Nat /\ DOMAIN q = 1 .. Len(q)
         /\ q = [i \in 1 .. Len(q) |-> q[i]]
<1>1. PICK S : q \in Seq(S)
  BY DEF IsSeq
<1> QED
  BY <1>1

\* A source: of its lines only the values of a blob must have a form.
BlobLine(line) == line.kind = "blob" => IsSeq(line.vals)
LineOK(line) ==
  /\ line.kind \in {"reg", "equ", "text", "data", "blob", "code"}
  /\ line.kind = "blob" => IsSeq(line.vals) /\ line.type \notin Mnemonics \cup {""}
  /\ line.kind = "code" => IsSeq(line.toks)
SourceOK(source) == IsSeq(source) /\ \A i \in DOMAIN source : LineOK(source[i])

\* The state of the first pass.
PassOK(p) ==
  /\ DOMAIN p = {"ok", "inData", "alias", "equ", "labels", "code", "data"}
  /\ IsSeq(p.code)
  /\ IsSeq(p.data) /\ \A i \in DOMAIN p.data : BlobLine(p.data[i])

LEMMA TakeLineOK ==
  ASSUME NEW p, PassOK(p), NEW line, LineOK(line), NEW base
  PROVE  PassOK(TakeLine(p, line, base))
<1>1. ASSUME NEW ln
      PROVE  PassOK(TakeCode(p, ln, base))
  <2> DEFINE lab == With(p.labels, ln.label, base + Len(p.code) * InstrSize)
             named == IF ln.label = "" THEN p ELSE [p EXCEPT !.labels = lab]
             code == Append(p.code, ln)
  <2>1. TakeCode(p, ln, base) = IF ln.op = "" THEN named ELSE [named EXCEPT !.code = Append(named.code, ln)]
    BY DEF TakeCode
  <2>2. IsSeq(code)
    BY AppendIs DEF PassOK
  <2> HIDE DEF lab
  <2>3. PassOK(named) /\ named.code = p.code
    BY DEF PassOK
  <2>4. Append(named.code, ln) = code
    BY <2>3
  <2> HIDE DEF named, code
  <2>5. PassOK([named EXCEPT !.code = code])
    BY <2>2, <2>3 DEF PassOK
  <2> QED
    BY <2>1, <2>3, <2>4, <2>5
<1>2. PassOK(DeclareReg(p, line))
  <2> DEFINE ali == With(p.alias, <<line.name[1] - 1, line.name[2]>>, line.value)
  <2>1. DeclareReg(p, line) = [p EXCEPT !.ok = FALSE] \/ DeclareReg(p, line) = [p EXCEPT !.alias = ali]
    BY DEF DeclareReg
  <2> HIDE DEF ali
  <2> QED
    BY <2>1 DEF PassOK
<1>3. PassOK(DeclareEqu(p, line))
  <2> DEFINE eq == With(p.equ, line.name[2], line.value)
  <2>1. DeclareEqu(p, line) = [p EXCEPT !.ok = FALSE] \/ DeclareEqu(p, line) = [p EXCEPT !.equ = eq]
    BY DEF DeclareEqu
  <2> HIDE DEF eq
  <2> QED
    BY <2>1 DEF PassOK
<1>4. PassOK([p EXCEPT !.inData = FALSE]) /\ PassOK([p EXCEPT !.inData = TRUE])
  BY DEF PassOK
<1>5. PassOK([p EXCEPT !.data = Append(p.data, line)])
  <2> DEFINE d == Append(p.data, line)
  <2>1. /\ IsSeq(d)
        /\ \A i \in DOMAIN d : (i \in DOMAIN p.data /\ d[i] = p.data[i]) \/ d[i] = line
    BY AppendIs DEF PassOK
  <2> HIDE DEF d
  <2>2. \A i \in DOMAIN d : BlobLine(d[i])
    BY <2>1 DEF PassOK, LineOK, BlobLine
  <2>3. PassOK([p EXCEPT !.data = d])
    <3> DEFINE e == [p EXCEPT !.data = d]
    <3>1. DOMAIN e = DOMAIN p /\ e.code = p.code /\ e.data = d
      BY DEF PassOK
    <3> HIDE DEF e
    <3>2. PassOK(e)
      BY <2>1, <2>2, <3>1 DEF PassOK
    <3> QED
      BY <3>2 DEF e
  <2> QED
    BY <2>3 DEF d
<1>6. PassOK(TakeContent(p, line, base))
  BY <1>1, <1>5 DEF TakeContent
<1>7. line.kind \in {"reg", "equ", "text", "data", "blob", "code"}
  BY DEF LineOK
<1>8. p.ok \/ ~p.ok
  OBVIOUS
<1> QED
  BY ONLY PassOK(p), <1>2, <1>3, <1>4, <1>6, <1>7 DEF TakeLine

\* The recursion is one over the lines: each has the state before it.
LEMMA FirstPassRuns ==
  ASSUME NEW source, SourceOK(source), NEW base
  PROVE  \E after : /\ after[0] = Pass1
                    /\ \A k \in 1 .. Len(source) : after[k] = TakeLine(after[k - 1], source[k], base)
                    /\ FirstPass(source, base) = after[Len(source)]
<1> DEFINE n == Len(source)
           Runs(f, m) == f = [k \in 0 .. m |-> IF k = 0 THEN Pass1 ELSE TakeLine(f[k - 1], source[k], base)]
<1>1. n \in Nat /\ \A k \in 1 .. n : LineOK(source[k])
  BY SeqFacts DEF SourceOK
<1> HIDE DEF n
<1>2. \A m \in Nat : \E f : Runs(f, m)
  <2> DEFINE T == {m \in Nat : ~ \E f : Runs(f, m)}
  <2>1. SUFFICES ASSUME T # {} PROVE FALSE
    OBVIOUS
  <2>2. T \in SUBSET Nat
    OBVIOUS
  <2> HIDE DEF T
  <2>3. PICK m \in T : \A j \in T : m <= j
    BY <2>1, <2>2, Least
  <2> USE DEF T
  <2>4. m \in Nat /\ ~ \E f : Runs(f, m)
    OBVIOUS
  <2> HIDE DEF T
  <2>5. m # 0
    <3>1. Runs([k \in 0 .. 0 |-> Pass1], 0)
      OBVIOUS
    <3> HIDE DEF Runs
    <3> QED
      BY <2>4, <3>1
  <2>6. m - 1 \in Nat /\ ~ (m <= m - 1)
    BY <2>4, <2>5
  <2>7. m - 1 \notin T
    BY <2>3, <2>6
  <2>8. PICK f : Runs(f, m - 1)
    BY <2>6, <2>7 DEF T
  <2> DEFINE g == [k \in 0 .. m |-> IF k = m THEN TakeLine(f[m - 1], source[m], base) ELSE f[k]]
  <2>9. Runs(g, m)
    <3>1. \A k \in 0 .. m - 1 : f[k] = IF k = 0 THEN Pass1 ELSE TakeLine(f[k - 1], source[k], base)
      BY <2>8
    <3>2. \A k \in 0 .. m : k # 0 => k - 1 \in 0 .. m - 1
      BY <2>4
    <3>3. \A k \in 0 .. m - 1 : g[k] = f[k]
      BY <2>4
    <3>4. g[m] = TakeLine(g[m - 1], source[m], base)
      BY <2>4, <2>6, <3>3
    <3>5. \A k \in 0 .. m : k = m \/ k \in 0 .. m - 1
      BY <2>4
    <3>6. \A k \in 0 .. m : g[k] = IF k = 0 THEN Pass1 ELSE TakeLine(g[k - 1], source[k], base)
      <4> TAKE k \in 0 .. m
      <4>1. CASE k = m
        BY <2>5, <3>4, <4>1
      <4>2. CASE k \in 0 .. m - 1
        <5>1. k # 0 => g[k - 1] = f[k - 1]
          <6>1. k # 0 => k - 1 \in 0 .. m - 1
            BY <2>4, <4>2
          <6> HIDE DEF g
          <6> QED
            BY <3>3, <6>1
        <5>2. g[k] = f[k]
          BY <3>3, <4>2
        <5> HIDE DEF g
        <5> QED
          BY <3>1, <4>2, <5>1, <5>2
      <4> QED
        BY <3>5, <4>1, <4>2
    <3>7. g = [k \in 0 .. m |-> g[k]]
      OBVIOUS
    <3> HIDE DEF g
    <3> QED
      BY <3>6, <3>7
  <2> QED
    BY <2>4, <2>9
<1> DEFINE after == CHOOSE f : Runs(f, n)
<1>3. Runs(after, n)
  BY <1>1, <1>2
<1>4. FirstPass(source, base) = after[n]
  BY DEF FirstPass, n
<1> HIDE DEF after
<1>5. after[0] = Pass1 /\ \A k \in 1 .. n : after[k] = TakeLine(after[k - 1], source[k], base)
  <2>1. \A k \in 0 .. n : after[k] = IF k = 0 THEN Pass1 ELSE TakeLine(after[k - 1], source[k], base)
    BY <1>3
  <2>2. 0 \in 0 .. n /\ \A k \in 1 .. n : k \in 0 .. n /\ k # 0
    BY <1>1
  <2> QED
    BY <2>1, <2>2
<1> QED
  BY <1>4, <1>5 DEF n

LEMMA FirstPassIs ==
  ASSUME NEW source, SourceOK(source), NEW base
  PROVE  PassOK(FirstPass(source, base))
<1> DEFINE n == Len(source)
<1>1. n \in Nat /\ \A k \in 1 .. n : LineOK(source[k])
  BY SeqFacts DEF SourceOK
<1>2. PICK after : /\ after[0] = Pass1
                   /\ \A k \in 1 .. n : after[k] = TakeLine(after[k - 1], source[k], base)
                   /\ FirstPass(source, base) = after[n]
  BY FirstPassRuns
<1> HIDE DEF n
<1>3. PassOK(after[0])
  <2>1. <<>> \in Seq({})
    OBVIOUS
  <2> QED
    BY <1>2, <2>1 DEF PassOK, Pass1, IsSeq
<1>4. \A k \in 1 .. n : PassOK(after[k - 1]) => PassOK(after[k])
  BY <1>1, <1>2, TakeLineOK
<1>5. \A k \in 0 .. n : PassOK(after[k])
  <2> DEFINE T == {k \in 0 .. n : ~ PassOK(after[k])}
  <2>1. SUFFICES ASSUME T # {} PROVE FALSE
    OBVIOUS
  <2>2. T \in SUBSET Nat
    BY <1>1
  <2> HIDE DEF T
  <2>3. PICK k \in T : \A j \in T : k <= j
    BY <2>1, <2>2, Least
  <2>4. k \in 0 .. n /\ ~ PassOK(after[k])
    BY DEF T
  <2>5. k # 0
    BY <1>3, <2>4
  <2>6. k \in 1 .. n /\ k - 1 \in 0 .. n /\ ~ (k <= k - 1)
    BY <1>1, <2>4, <2>5
  <2>7. PassOK(after[k - 1])
    BY <2>3, <2>6 DEF T
  <2> QED
    BY <1>4, <2>4, <2>6, <2>7
<1> QED
  BY <1>1, <1>2, <1>5

LEMMA AssembleIs ==
  ASSUME NEW source, SourceOK(source), NEW base, NEW dataBase
  PROVE  /\ AssembleFull(source, base, dataBase).res = "ok" => IsSeq(AssembleFull(source, base, dataBase).instrs)
         /\ Assemble(source).res = "ok" => IsSeq(Assemble(source).instrs)
<1>1. ASSUME NEW at, NEW to, AssembleFull(source, at, to).res = "ok"
      PROVE  IsSeq(AssembleFull(source, at, to).instrs)
  <2> DEFINE p == FirstPass(source, at)
             taken == TakeBlobs(p)
             syms == Symbols(p, taken.blobs, to)
             parsed == [i \in DOMAIN p.code |-> ParseLine(p.code[i].op, p.code[i].toks, syms)]
             instrs == [i \in DOMAIN parsed |-> parsed[i].ins]
             full == [res |-> "ok", instrs |-> instrs, blobs |-> taken.blobs, base |-> to, syms |-> syms]
             bad == {i \in DOMAIN parsed : parsed[i].res # "ok"}
  <2>1. IsSeq(p.code)
    BY FirstPassIs DEF PassOK
  <2>2. AssembleFull(source, at, to) = AssembleLines(p, taken, to)
    BY DEF AssembleFull
  <2> HIDE DEF p, taken
  <2>3. AssembleLines(p, taken, to) = Err \/ AssembleLines(p, taken, to) = FirstError(parsed, full)
    BY DEF AssembleLines, SecondPass
  <2> HIDE DEF syms
  <2>4. DOMAIN p.code = 1 .. Len(p.code) /\ Len(p.code) \in Nat
    BY <2>1, SeqFacts
  <2>5. DOMAIN parsed = 1 .. Len(p.code)
    BY <2>4
  <2>6. FirstError(parsed, full) = IF bad = {} THEN full ELSE parsed[Min(bad)]
    BY DEF FirstError
  <2>7. IsSeq(instrs)
    <3>1. DOMAIN instrs = 1 .. Len(p.code) /\ instrs = [i \in 1 .. Len(p.code) |-> instrs[i]]
      BY <2>5
    <3> HIDE DEF instrs
    <3> QED
      BY <2>4, <3>1, SeqByDomain
  <2>8. full.instrs = instrs
    OBVIOUS
  <2> HIDE DEF parsed, instrs, full
  <2>9. ASSUME bad # {}
        PROVE  parsed[Min(bad)].res # "ok"
    <3>1. bad \in SUBSET Nat
      BY <2>4, <2>5
    <3> HIDE DEF bad
    <3>2. PICK i \in bad : \A j \in bad : i <= j
      BY <2>9, <3>1, Least
    <3>3. Min(bad) \in bad
      BY <3>2 DEF Min
    <3> QED
      BY <3>3 DEF bad
  <2> HIDE DEF bad
  <2>10. Err.res # "ok"
    BY DEF Err
  <2> QED
    BY <1>1, <2>2, <2>3, <2>6, <2>7, <2>8, <2>9, <2>10
<1>2. Assemble(source) = Err \/ Assemble(source) = AssembleFull(source, ProgramBase, DataBase)
  BY DEF Assemble, WithoutData
<1>3. Err.res # "ok"
  BY DEF Err
<1> QED
  BY <1>1, <1>2, <1>3

---------------------------------------------------------------------------
(* A program that is saved is the program that is opened.                  *)

\* A sequence with one more element, as a function.
LEMMA AppendOf ==
  ASSUME NEW q, IsSeq(q), NEW e
  PROVE  /\ IsSeq(Append(q, e)) /\ Len(Append(q, e)) = Len(q) + 1
         /\ Append(q, e) = [i \in 1 .. Len(q) + 1 |-> IF i = Len(q) + 1 THEN e ELSE q[i]]
<1> DEFINE r == Append(q, e)
<1>1. Len(q) \in Nat /\ DOMAIN q = 1 .. Len(q)
  BY SeqFacts
<1>2. /\ IsSeq(r)
      /\ \A i \in DOMAIN r : \/ i \in DOMAIN q /\ r[i] = q[i]
                             \/ i \notin DOMAIN q /\ r[i] = e
  BY AppendIs
<1>3. Len(r) = Len(q) + 1
  <2>1. PICK R : q \in Seq(R)
    BY DEF IsSeq
  <2> DEFINE S == R \cup {e}
  <2>2. q \in Seq(S) /\ e \in S
    BY <2>1, SeqFacts
  <2> HIDE DEF S
  <2> QED
    BY <2>2
<1> HIDE DEF r
<1>4. DOMAIN r = 1 .. Len(q) + 1 /\ r = [i \in 1 .. Len(q) + 1 |-> r[i]]
  BY <1>2, <1>3, SeqFacts
<1>5. \A i \in 1 .. Len(q) + 1 : r[i] = IF i = Len(q) + 1 THEN e ELSE q[i]
  BY <1>1, <1>2, <1>4
<1>6. r = [i \in 1 .. Len(q) + 1 |-> IF i = Len(q) + 1 THEN e ELSE q[i]]
  BY <1>4, <1>5
<1> QED
  BY <1>2, <1>3, <1>6 DEF r

LEMMA StateIs ==
  ASSUME NEW x, NEW f, NEW h, x = [ok |-> TRUE, need |-> 0, frames |-> f]
  PROVE  [x EXCEPT !.need = 0, !.frames = h] = [ok |-> TRUE, need |-> 0, frames |-> h]
<1> DEFINE names == {"ok", "need", "frames"}
           y == [x EXCEPT !.need = 0]
           z == [y EXCEPT !.frames = h]
<1>1. DOMAIN x = names /\ x["ok"] = TRUE /\ x["need"] = 0
  OBVIOUS
<1>2. y = [n \in names |-> IF n = "need" THEN 0 ELSE x[n]]
  BY <1>1
<1>3. z = [n \in names |-> IF n = "frames" THEN h ELSE y[n]]
  BY <1>2
<1> HIDE DEF y, z
<1>4. z = [n \in names |-> z[n]]
  BY <1>3
<1>5. z["ok"] = TRUE
  BY <1>1, <1>2, <1>3
<1>6. z["need"] = 0 /\ z["frames"] = h
  BY <1>1, <1>2, <1>3
<1>7. z = [ok |-> TRUE, need |-> 0, frames |-> h]
  BY <1>4, <1>5, <1>6
<1> QED
  BY <1>7 DEF y, z

\* Cells of one instruction each are frames of one cell each.
LEMMA SplitNarrow ==
  ASSUME NEW f, IsSeq(f.cells), \A i \in DOMAIN f.cells : f.cells[i].class = "w32",
         f.tail = 0
  PROVE  SplitFrames(f) =
           [res |-> "ok", frames |-> [i \in 1 .. Len(f.cells) |-> Frame("w32", <<f.cells[i]>>)]]
<1> DEFINE cells == f.cells
           n == Len(cells)
           Start0 == [ok |-> TRUE, need |-> 0, frames |-> <<>>]
           Runs(s) == s = [k \in 0 .. n |-> IF k = 0 THEN Start0 ELSE Split(s[k - 1], cells[k])]
           upto(k) == [i \in 1 .. k |-> Frame("w32", <<cells[i]>>)]
           g == [k \in 0 .. n |-> [ok |-> TRUE, need |-> 0, frames |-> upto(k)]]
<1>1. n \in Nat /\ DOMAIN cells = 1 .. n /\ \A i \in 1 .. n : cells[i].class = "w32"
  BY SeqFacts
<1>2. SplitFrames(f) = LET all == (CHOOSE s : Runs(s))[n]
                       IN  IF all.ok /\ all.need = 0 /\ f.tail = 0 THEN [res |-> "ok", frames |-> all.frames] ELSE Err
  BY DEF SplitFrames
<1> HIDE DEF cells, n
<1>3. \A k \in 1 .. n : upto(k) = Append(upto(k - 1), Frame("w32", <<cells[k]>>))
  <2> TAKE k \in 1 .. n
  <2> DEFINE q == upto(k - 1)
             e == Frame("w32", <<cells[k]>>)
  <2>1. k - 1 \in Nat /\ k \in Nat
    BY <1>1
  <2>2. DOMAIN q = 1 .. k - 1 /\ q = [i \in 1 .. k - 1 |-> q[i]]
    OBVIOUS
  <2>3. \A i \in 1 .. k - 1 : q[i] = Frame("w32", <<cells[i]>>)
    OBVIOUS
  <2> HIDE DEF q, e
  <2>4. IsSeq(q) /\ Len(q) = k - 1
    BY <2>1, <2>2, SeqByDomain
  <2>6. Append(q, e) = [i \in 1 .. k |-> IF i = k THEN e ELSE q[i]]
    BY <2>1, <2>4, AppendOf
  <2>7. \A i \in 1 .. k : i = k \/ i \in 1 .. k - 1
    BY <2>1
  <2>8. upto(k) = [i \in 1 .. k |-> IF i = k THEN e ELSE q[i]]
    BY <2>3, <2>7 DEF e
  <2> QED
    BY <2>6, <2>8 DEF q, e
<1>4. \A k \in 1 .. n : Split(g[k - 1], cells[k]) = g[k]
  <2> TAKE k \in 1 .. n
  <2> DEFINE old == upto(k - 1)
             new == Append(old, Frame("w32", <<cells[k]>>))
  <2>1. k - 1 \in 0 .. n /\ k \in 0 .. n
    BY <1>1
  <2>2. upto(k) = new
    BY <1>3
  <2>3. g[k - 1] = [ok |-> TRUE, need |-> 0, frames |-> old] /\ g[k] = [ok |-> TRUE, need |-> 0, frames |-> upto(k)]
    BY <2>1
  <2> HIDE DEF g, upto
  <2>4. cells[k].class = "w32"
    BY <1>1
  <2>5. FrameCells["w32"] - 1 = 0 /\ "w32" \in DOMAIN FrameCells
    BY DEF FrameCells
  <2> HIDE DEF old
  <2>6. Split(g[k - 1], cells[k]) =
          [g[k - 1] EXCEPT !.need = FrameCells["w32"] - 1, !.frames = Append(g[k - 1].frames, Frame("w32", <<cells[k]>>))]
    BY <2>3, <2>4, <2>5 DEF Split
  <2> HIDE DEF new
  <2>7. g[k - 1].frames = old
    BY <2>3
  <2>8. Split(g[k - 1], cells[k]) = [g[k - 1] EXCEPT !.need = 0, !.frames = new]
    BY <2>5, <2>6, <2>7 DEF new
  <2>9. Split(g[k - 1], cells[k]) = [ok |-> TRUE, need |-> 0, frames |-> new]
    <3>1. g[k - 1] = [ok |-> TRUE, need |-> 0, frames |-> old]
      BY <2>3
    <3> DEFINE x == g[k - 1]
    <3>2. x = [ok |-> TRUE, need |-> 0, frames |-> old]
      BY <3>1
    <3> HIDE DEF x
    <3>3. [x EXCEPT !.need = 0, !.frames = new] = [ok |-> TRUE, need |-> 0, frames |-> new]
      BY ONLY <3>2, StateIs, Zenon
    <3> QED
      BY ONLY <2>8, <3>3, Zenon DEF x
  <2> QED
    BY <2>2, <2>3, <2>9
<1>5. Runs(g)
  <2>1. \A k \in 0 .. n : g[k] = IF k = 0 THEN Start0 ELSE Split(g[k - 1], cells[k])
    <3> TAKE k \in 0 .. n
    <3>1. CASE k = 0
      <4>1. upto(0) = <<>>
        OBVIOUS
      <4>2. g[0] = [ok |-> TRUE, need |-> 0, frames |-> upto(0)]
        BY <1>1
      <4> HIDE DEF upto, g
      <4> QED
        BY <3>1, <4>1, <4>2
    <3>2. CASE k # 0
      <4>1. k \in 1 .. n
        BY <1>1, <3>2
      <4> HIDE DEF g
      <4> QED
        BY <1>4, <3>2, <4>1
    <3> QED
      BY <3>1, <3>2
  <2>2. g = [k \in 0 .. n |-> g[k]]
    OBVIOUS
  <2> HIDE DEF g
  <2> QED
    BY <2>1, <2>2
<1> DEFINE after == CHOOSE s : Runs(s)
<1>6. Runs(after)
  <2> HIDE DEF g, Runs
  <2> QED
    BY <1>5
<1> HIDE DEF after
<1>7. \A k \in 0 .. n : after[k] = IF k = 0 THEN Start0 ELSE Split(after[k - 1], cells[k])
  BY <1>6
<1>8. \A k \in 0 .. n : g[k] = IF k = 0 THEN Start0 ELSE Split(g[k - 1], cells[k])
  BY <1>5
<1> DEFINE Differ == {k \in 0 .. n : after[k] # g[k]}
<1>9. Differ = {}
  <2>1. SUFFICES ASSUME Differ # {} PROVE FALSE
    OBVIOUS
  <2>2. Differ \in SUBSET Nat
    BY <1>1
  <2> HIDE DEF g
  <2>3. \A k \in Differ : k \in 0 .. n /\ after[k] # g[k]
    OBVIOUS
  <2>4. \A k \in 0 .. n : k \notin Differ => after[k] = g[k]
    OBVIOUS
  <2> HIDE DEF Differ
  <2>5. PICK k \in Differ : \A j \in Differ : k <= j
    BY <2>1, <2>2, Least
  <2>6. k \in 0 .. n /\ k # 0
    BY <1>1, <1>7, <1>8, <2>3
  <2>7. k - 1 \in 0 .. n /\ ~ (k <= k - 1)
    BY <1>1, <2>6
  <2>8. after[k - 1] = g[k - 1]
    BY <2>4, <2>5, <2>7
  <2> QED
    BY <1>7, <1>8, <2>3, <2>6, <2>8
<1>10. after[n] = g[n] /\ g[n] = [ok |-> TRUE, need |-> 0, frames |-> upto(n)]
  <2>1. n \in 0 .. n
    BY <1>1
  <2>2. g[n] = [ok |-> TRUE, need |-> 0, frames |-> upto(n)]
    BY <2>1
  <2> HIDE DEF g
  <2> QED
    BY <1>9, <2>1, <2>2
<1> HIDE DEF g, upto
<1>11. SplitFrames(f) = [res |-> "ok", frames |-> upto(n)]
  BY <1>2, <1>10 DEF after
<1> QED
  BY <1>11 DEF upto, n, cells
---------------------------------------------------------------------------
(* What a step does to the control.                                        *)

Stays    == UNCHANGED <<pc, calls>>
Advances == pc \in Starts /\ pc' = pc + InstrSize /\ UNCHANGED calls
Goes     == pc' \in Starts /\ UNCHANGED calls
Enters   == /\ pc \in Starts /\ Current.op = "CALL" /\ Len(calls) < MaxCalls
            /\ pc' \in Starts /\ calls' = Append(calls, pc + InstrSize)
Returns  == calls # <<>> /\ pc' = Last(calls) /\ calls' = Front(calls)
ControlStep == UNCHANGED prog /\ (Stays \/ Advances \/ Goes \/ Enters \/ Returns)

LEMMA HowItEnds ==
  /\ \A why : Stop(why) => ControlStep
  /\ \A r, v : pc \in Starts /\ (SetTo(r, v) \/ SetAny(r, v)) => ControlStep
  /\ Refuse => ControlStep
  /\ Crashes => ControlStep
  /\ pc \in Starts /\ Advance => ControlStep
  /\ \A r, ins : pc \in Starts /\ Complete(r, ins) => ControlStep
<1>1. ASSUME NEW why, Stop(why) PROVE ControlStep
  BY <1>1 DEF Stop, ControlStep, Stays
<1>2. (Refuse => ControlStep) /\ (Crashes => ControlStep)
  BY <1>1 DEF Refuse, Crashes
<1>3. pc \in Starts /\ Advance => ControlStep
  BY DEF Advance, ControlStep, Advances
<1>4. ASSUME NEW r, NEW v, pc \in Starts, SetTo(r, v) \/ SetAny(r, v) PROVE ControlStep
  BY <1>1, <1>3, <1>4 DEF SetTo, SetAny
<1>5. ASSUME NEW r, NEW ins, pc \in Starts, Complete(r, ins) PROVE ControlStep
  BY <1>2, <1>4, <1>5 DEF Complete, Deliver
<1> QED
  BY <1>1, <1>2, <1>3, <1>4, <1>5

LEMMA ExecuteControls ==
  ASSUME NEW ins, NEW p, Execute(ins, p)
  PROVE  ControlStep
<1> USE HowItEnds
<1>1. \A ops : Fetches(ops) => pc \in Starts
  BY DEF Fetches
<1>2. CASE NewTensor(ins, p)
  <2>1. pc \in Starts
    BY <1>1, <1>2 DEF NewTensor
  <2>2. ASSUME NEW shape, NEW dtype, MakeTensorOf(ins, p, shape, dtype)
        PROVE  ControlStep
    BY <2>1, <2>2 DEF MakeTensorOf, Deliver
  <2> QED
    BY <1>2, <2>2 DEF NewTensor
<1>3. CASE Compute(ins, p) \/ Attention(ins, p) \/ EmbedRow(ins, p) \/ RagSearch(ins, p)
  BY <1>1, <1>3 DEF Compute, Attention, Finish, EmbedRow, RagSearch, FoundBy
<1>4. CASE Sample(ins, p)
  BY <1>1, <1>4 DEF Sample
<1>5. CASE RankOne(ins, p)
  <2>1. pc \in Starts
    BY <1>1, <1>5 DEF RankOne
  <2>2. ASSUME NEW r, PutRankOne(r, ins, p)
        PROVE  ControlStep
    BY <2>1, <2>2 DEF PutRankOne
  <2> QED
    BY <1>5, <2>2 DEF RankOne
<1>6. CASE Move(ins, p)
  BY <1>1, <1>6 DEF Move
<1>7. CASE Compare(ins, p)
  BY <1>1, <1>7 DEF Compare, ControlStep, Advances
<1>8. CASE Jump(ins, p)
  BY <1>1, <1>8 DEF Jump, JumpTo, ControlStep, Goes
<1>9. CASE Call(p)
  BY <1>9 DEF Call, JumpTo, Fetches, ControlStep, Enters
<1>10. CASE Ret
  BY <1>10 DEF Ret, JumpTo, ControlStep, Returns
<1>11. CASE ArenaAlloc(ins, p)
  BY <1>1, <1>11 DEF ArenaAlloc
<1>12. CASE ArenaReset(p)
  BY <1>1, <1>12 DEF ArenaReset
<1>13. CASE CopyBytes(ins, p)
  BY <1>1, <1>13 DEF CopyBytes
<1>14. CASE FillBytes(ins, p)
  BY <1>1, <1>14 DEF FillBytes
<1>15. CASE RagAdd(ins)
  BY <1>1, <1>15 DEF RagAdd
<1>16. CASE RagDel(ins)
  BY <1>1, <1>16 DEF RagDel
<1>17. CASE TakeSnapshot(ins, p)
  BY <1>1, <1>17 DEF TakeSnapshot
<1>18. CASE RestoreTo(ins)
  BY <1>1, <1>18 DEF RestoreTo
<1>19. CASE Halt
  BY <1>19 DEF Halt
<1>20. CASE Nop
  BY <1>1, <1>20 DEF Nop
<1> QED
  BY <1>2, <1>3, <1>4, <1>5, <1>6, <1>7, <1>8, <1>9, <1>10, <1>11, <1>12, <1>13, <1>14, <1>15, <1>16,
     <1>17, <1>18, <1>19, <1>20 DEF Execute
Idle == prog = <<>> /\ pc = ProgramBase /\ calls = <<>>
ControlInv ==
  /\ IsSeq(prog) /\ IsSeq(calls)
  /\ stage # "loaded" => Idle
  /\ ControlStaysInside

\* The start of the instruction after the k-th, or the end.
LEMMA AfterIs ==
  ASSUME IsSeq(prog), NEW k \in DOMAIN prog
  PROVE  ProgramBase + k * InstrSize \in Starts \cup {ProgramBase + Size}
<1>1. Len(prog) \in Nat /\ DOMAIN prog = 1 .. Len(prog)
  BY SeqFacts
<1>2. k \in Nat /\ (k = Len(prog) \/ k \in 0 .. Len(prog) - 1)
  BY <1>1
<1> QED
  BY <1>1, <1>2 DEF Starts, Size

\* The start of an instruction names it.
LEMMA CurrentIs ==
  ASSUME IsSeq(prog), pc \in Starts
  PROVE  \E k \in DOMAIN prog : Current = prog[k] /\ pc + InstrSize = ProgramBase + k * InstrSize
<1>1. Len(prog) \in Nat /\ DOMAIN prog = 1 .. Len(prog)
  BY SeqFacts
<1>2. PICK j \in 0 .. Len(prog) - 1 : pc = ProgramBase + j * InstrSize
  BY DEF Starts
<1>3. j + 1 \in DOMAIN prog
  BY <1>1
<1>4. (pc - ProgramBase) \div InstrSize = j /\ pc + InstrSize = ProgramBase + (j + 1) * InstrSize
  BY <1>1, <1>2 DEF ProgramBase, InstrSize
<1> QED
  BY <1>3, <1>4 DEF Current

LEMMA ControlKeeps ==
  ASSUME IsSeq(prog), IsSeq(calls), ControlStaysInside, ControlStep
  PROVE  IsSeq(prog)' /\ IsSeq(calls)' /\ ControlStaysInside'
<1> DEFINE After(c) == \E k \in DOMAIN prog : prog[k].op = "CALL" /\ c = ProgramBase + k * InstrSize
           Within(c) == c \in Starts \cup {ProgramBase + Size}
<1>1. /\ prog' = prog /\ Starts' = Starts /\ Size' = Size
      /\ Within(pc) /\ Len(calls) <= MaxCalls /\ \A i \in DOMAIN calls : After(calls[i])
  BY DEF ControlStep, ControlStaysInside, Starts, Size
<1>2. Within(pc') /\ Len(calls') <= MaxCalls /\ IsSeq(calls') /\ (\A i \in DOMAIN calls' : After(calls'[i]))
      => IsSeq(prog)' /\ IsSeq(calls)' /\ ControlStaysInside'
  BY <1>1 DEF ControlStaysInside
<1>3. Len(calls) \in Nat /\ DOMAIN calls = 1 .. Len(calls)
  BY SeqFacts
<1>4. \A c : After(c) => Within(c)
  BY AfterIs
<1>5. CASE Stays
  BY <1>1, <1>2, <1>5 DEF Stays
<1>6. CASE Advances
  <2>1. Within(pc')
    BY <1>6, CurrentIs, AfterIs DEF Advances
  <2> HIDE DEF Within, After
  <2> QED
    BY <1>1, <1>2, <1>6, <2>1 DEF Advances
<1>7. CASE Goes
  <2>1. Within(pc')
    BY <1>1, <1>7 DEF Goes
  <2> HIDE DEF Within, After
  <2> QED
    BY <1>1, <1>2, <1>7, <2>1 DEF Goes
<1>8. CASE Enters
  <2>1. Within(pc')
    BY <1>1, <1>8 DEF Enters
  <2>2. After(pc + InstrSize)
    BY <1>8, CurrentIs DEF Enters
  <2> HIDE DEF Within, After
  <2>3. calls' = Append(calls, pc + InstrSize) /\ Len(calls) < MaxCalls
    BY <1>8 DEF Enters
  <2>4. IsSeq(calls') /\ Len(calls') = Len(calls) + 1
    BY <2>3, AppendOf
  <2>5. \A i \in DOMAIN calls' : After(calls'[i])
    BY <1>1, <2>2, <2>3, AppendIs
  <2>6. Len(calls') <= MaxCalls
    BY <1>3, <2>3, <2>4, MachineConstants
  <2> QED
    BY <1>2, <2>1, <2>4, <2>5, <2>6
<1>9. CASE Returns
  <2>1. Len(calls) # 0
    <3>1. PICK S : calls \in Seq(S)
      BY DEF IsSeq
    <3> QED
      BY <1>9, <3>1 DEF Returns
  <2>2. Len(calls) \in DOMAIN calls /\ Len(calls) - 1 \in 0 .. Len(calls)
    BY <1>3, <2>1
  <2>3. Within(pc')
    <3>1. After(calls[Len(calls)])
      BY <1>1, <2>2
    <3> HIDE DEF Within, After
    <3> QED
      BY <1>4, <1>9, <3>1 DEF Returns, Last
  <2> HIDE DEF Within, After
  <2>4. calls' = SubSeq(calls, 1, Len(calls) - 1)
    BY <1>9 DEF Returns, Front
  <2>5. IsSeq(calls') /\ \A i \in DOMAIN calls' : After(calls'[i])
    BY <1>1, <2>2, <2>4, PrefixIs
  <2>6. Len(calls') = Len(calls) - 1
    <3>1. PICK S : calls \in Seq(S)
      BY DEF IsSeq
    <3> QED
      BY <1>3, <2>2, <2>4, <3>1
  <2>7. Len(calls') <= MaxCalls
    BY <1>1, <1>3, <2>6, MachineConstants
  <2> QED
    BY <1>2, <2>3, <2>5, <2>7
<1> QED
  BY <1>5, <1>6, <1>7, <1>8, <1>9 DEF ControlStep

\* A program that is loaded into a fresh context starts at its first
\* instruction, or at its end.
LEMMA LoadControls ==
  ASSUME NEW instrs, IsSeq(instrs), Idle, LoadProgram(instrs)
  PROVE  IsSeq(prog)' /\ IsSeq(calls)' /\ ControlStaysInside'
<1>1. prog' = instrs /\ pc' = ProgramBase /\ calls' = <<>>
  BY DEF LoadProgram, Idle
<1>2. Len(prog') \in Nat
  BY <1>1, SeqFacts
<1>3. pc' \in Starts' \cup {ProgramBase + Size'}
  <2>1. CASE Len(prog') = 0
    BY <1>1, <2>1 DEF Size, InstrSize, ProgramBase
  <2>2. CASE Len(prog') # 0
    <3>1. 0 \in 0 .. Len(prog') - 1 /\ ProgramBase = ProgramBase + 0 * InstrSize
      BY <1>2, <2>2 DEF InstrSize, ProgramBase
    <3> QED
      BY <1>1, <3>1 DEF Starts
  <2> QED
    BY <2>1, <2>2
<1>4. IsSeq(<<>>) /\ Len(<<>>) <= MaxCalls /\ DOMAIN <<>> = {}
  <2>1. <<>> \in Seq({})
    OBVIOUS
  <2> QED
    BY <2>1, MachineConstants DEF IsSeq
<1> QED
  BY <1>1, <1>3, <1>4 DEF ControlStaysInside
---------------------------------------------------------------------------
(* What opening a file gives.                                              *)

\* A file of instructions, whole or damaged: of a container, the checksum is
\* the one of the program that was saved.
Held(f, instrs, ext) ==
  /\ f.kind = "binary" /\ IsSeq(f.cells)
  /\ ext = "m3bin" => f.head = NoHeader
  /\ ext = "m3bc" =>
       /\ f.crc = Covered(Header(1, RequiredBits(instrs), 0), Encoded(instrs), 0)
       /\ f.head.magic \/ (f.head # NoHeader /\ f.tail = 0)

LEMMA EncodedIs ==
  ASSUME NEW instrs, IsSeq(instrs)
  PROVE  /\ IsSeq(Encoded(instrs)) /\ Len(Encoded(instrs)) = Len(instrs)
         /\ DOMAIN Encoded(instrs) = DOMAIN instrs
         /\ \A i \in DOMAIN instrs : Encoded(instrs)[i] = Narrow(instrs[i])
<1>1. Len(instrs) \in Nat /\ DOMAIN instrs = 1 .. Len(instrs)
  BY SeqFacts
<1> DEFINE q == Encoded(instrs)
<1>2. q = [i \in 1 .. Len(instrs) |-> Narrow(instrs[i])]
  BY <1>1 DEF Encoded
<1> HIDE DEF q
<1>3. DOMAIN q = 1 .. Len(instrs) /\ q = [i \in 1 .. Len(instrs) |-> q[i]]
  BY <1>2
<1>4. IsSeq(q) /\ Len(q) = Len(instrs)
  BY <1>1, <1>3, SeqByDomain
<1> QED
  BY <1>1, <1>2, <1>3, <1>4 DEF q

LEMMA HeadersDiffer ==
  ASSUME NEW major, NEW required, NEW entry
  PROVE  /\ Header(major, required, entry) # NoHeader
         /\ Header(major, required, entry).magic /\ ~NoHeader.magic
BY DEF Header, NoHeader

\* Instruction::decode of what encode wrote is the instruction.
LEMMA DecodeIs ==
  ASSUME NEW instrs, IsSeq(instrs)
  PROVE  DecodeAll(Encoded(instrs)) = Loaded(instrs)
<1> DEFINE q == Encoded(instrs)
<1>1. DOMAIN q = DOMAIN instrs /\ \A i \in DOMAIN instrs : q[i].class = "w32" /\ q[i].ins = instrs[i]
  <2>1. DOMAIN q = DOMAIN instrs /\ \A i \in DOMAIN instrs : q[i] = Narrow(instrs[i])
    BY EncodedIs
  <2> HIDE DEF q
  <2> QED
    BY <2>1 DEF Narrow, Chunk
<1>2. instrs = [i \in DOMAIN instrs |-> instrs[i]]
  BY SeqFacts
<1> HIDE DEF q
<1>3. [i \in DOMAIN q |-> q[i].ins] = instrs
  BY <1>1, <1>2
<1> QED
  BY <1>1, <1>3 DEF DecodeAll, q

\* A container that opens is whole.
LEMMA M3bcIs ==
  ASSUME NEW instrs, IsSeq(instrs), NEW f,
         f.crc = Covered(Header(1, RequiredBits(instrs), 0), Encoded(instrs), 0)
  PROVE  /\ LoadM3bc(f).res = "ok" => LoadM3bc(f) = Loaded(instrs)
         /\ f.head = Header(1, RequiredBits(instrs), 0) /\ f.cells = Encoded(instrs) /\ f.tail = 0
            => LoadM3bc(f) = Loaded(instrs)
<1> DEFINE Whole == f.head = Header(1, RequiredBits(instrs), 0) /\ f.cells = Encoded(instrs) /\ f.tail = 0
<1>1. ASSUME LoadM3bc(f).res = "ok"
      PROVE  Whole
  <2>1. Err.res # "ok"
    BY DEF Err
  <2>2. f.crc = Covered(f.head, f.cells, f.tail)
    BY <1>1, <2>1 DEF LoadM3bc
  <2> QED
    BY <2>2 DEF Covered
<1>2. ASSUME Whole
      PROVE  LoadM3bc(f) = Loaded(instrs)
  <2> DEFINE q == Encoded(instrs)
             frames == [i \in 1 .. Len(q) |-> Frame("w32", <<q[i]>>)]
             split == SplitFrames(f)
  <2>1. IsSeq(q) /\ DOMAIN q = DOMAIN instrs /\ \A i \in DOMAIN instrs : q[i] = Narrow(instrs[i])
    BY EncodedIs
  <2>2. DOMAIN q = 1 .. Len(q)
    BY <2>1, SeqFacts
  <2>3. \A i \in DOMAIN q : q[i].class = "w32" /\ q[i].ins = instrs[i]
    BY <2>1 DEF Narrow, Chunk
  <2> HIDE DEF q
  <2>4. f.cells = q /\ f.tail = 0
    BY <1>2 DEF q
  <2>5. split = [res |-> "ok", frames |-> frames]
    BY <2>1, <2>3, <2>4, SplitNarrow
  <2>6. Instructions32(frames) = Loaded(instrs)
    <3>1. DOMAIN frames = DOMAIN instrs
      BY <2>1, <2>2
    <3>2. \A i \in DOMAIN instrs : frames[i].class = "w32" /\ frames[i].cells[1].ins = instrs[i]
      BY <2>1, <2>2, <2>3 DEF Frame
    <3> HIDE DEF frames
    <3>3. [i \in DOMAIN frames |-> frames[i].cells[1].ins] = [i \in DOMAIN instrs |-> instrs[i]]
      BY <3>1, <3>2
    <3>4. instrs = [i \in DOMAIN instrs |-> instrs[i]]
      BY SeqFacts
    <3> QED
      BY <3>1, <3>2, <3>3, <3>4 DEF Instructions32
  <2> HIDE DEF frames
  <2>7. f.head.major = 1 /\ f.head.entry = 0 /\ f.head.required = RequiredBits(instrs)
    BY <1>2 DEF Header
  <2>8. RequiredBits(instrs) \ Supported = {}
    BY DEF RequiredBits, Supported
  <2>9. f.crc = Covered(f.head, f.cells, f.tail)
    BY <1>2
  <2>10. split.res = "ok" /\ split.frames = frames
    BY <2>5
  <2> HIDE DEF split
  <2>11. LoadM3bc(f) = CASE f.head.major # 1 -> Err
                         [] f.head.required \ Supported # {} -> Err
                         [] f.crc # Covered(f.head, f.cells, f.tail) -> Err
                         [] split.res # "ok" -> Err
                         [] f.head.entry \notin FrameStarts(split.frames) \cup {0} -> Err
                         [] OTHER -> Instructions32(split.frames)
    BY DEF LoadM3bc, split
  <2>12. f.head.entry \in FrameStarts(split.frames) \cup {0} /\ f.head.required \ Supported = {}
    BY <2>7, <2>8
  <2> QED
    BY <2>6, <2>7, <2>9, <2>10, <2>11, <2>12
<1> QED
  BY <1>1, <1>2

\* A program that is saved and opened under its own name is itself; opened
\* without an extension, it is itself or refused.
LEMMA WholeOpens ==
  ASSUME NEW instrs, IsSeq(instrs), NEW ext \in {"m3bin", "m3bc"}
  PROVE  /\ RunFile(SaveProgram(instrs, ext), ext) = Loaded(instrs)
         /\ RunFile(SaveProgram(instrs, ext), "other").res = "ok"
            => RunFile(SaveProgram(instrs, ext), "other") = Loaded(instrs)
<1> DEFINE f == SaveProgram(instrs, ext)
<1>1. f.kind = "binary" /\ f.cells = Encoded(instrs) /\ f.tail = 0
  BY DEF SaveProgram, EncodeM3bc, File
<1>2. ASSUME ext = "m3bc"
      PROVE  /\ f.head = Header(1, RequiredBits(instrs), 0)
             /\ f.crc = Covered(Header(1, RequiredBits(instrs), 0), Encoded(instrs), 0)
  BY <1>2 DEF SaveProgram, EncodeM3bc, File
<1>3. ext = "m3bin" => f.head = NoHeader
  BY DEF SaveProgram, File
<1> HIDE DEF f
<1>4. CASE ext = "m3bc"
  <2>1. IsM3bc(f)
    BY <1>1, <1>2, <1>4, HeadersDiffer DEF IsM3bc
  <2>2. LoadM3bc(f) = Loaded(instrs)
    BY <1>1, <1>2, <1>4, M3bcIs
  <2>3. RunFile(f, ext) = LoadM3bc(f) /\ RunFile(f, "other") = LoadM3bc(f)
    BY <1>1, <1>4, <2>1 DEF RunFile, Load, Recognised
  <2> QED
    BY <2>2, <2>3 DEF f
<1>5. CASE ext = "m3bin"
  <2>1. ~IsM3bc(f)
    BY <1>3, <1>5, HeadersDiffer DEF IsM3bc
  <2>2. DecodeAll(f.cells) = Loaded(instrs)
    BY <1>1, DecodeIs
  <2>3. Len(f.cells) \in Nat
    BY <1>1, EncodedIs, SeqFacts
  <2>4. Bytes(f) % InstrSize = 0 /\ (Bytes(f) + 0) % InstrSize = 0
    BY <1>1, <2>3 DEF Bytes, InstrSize
  <2>5. RunFile(f, ext) = DecodeAll(f.cells)
    <3>1. RunFile(f, "m3bin") = LoadLegacy(f)
      BY <1>1 DEF RunFile
    <3>2. LoadLegacy(f) = DecodeAll(f.cells)
      BY <1>3, <1>5, <2>4 DEF LoadLegacy
    <3> QED
      BY <1>5, <3>1, <3>2
  <2>6. RunFile(f, "other") = DecodeAll(f.cells) \/ RunFile(f, "other") = Err
    BY <1>1, <2>1 DEF RunFile, Recognised
  <2>7. Err.res # "ok"
    BY DEF Err
  <2> QED
    BY <2>2, <2>5, <2>6, <2>7 DEF f
<1> QED
  BY <1>4, <1>5

\* A container that was damaged and opens all the same is the program that
\* was saved; a raw file that opens is some program.
LEMMA HeldOpens ==
  ASSUME NEW instrs, IsSeq(instrs), NEW ext \in {"m3bin", "m3bc"}, NEW f, Held(f, instrs, ext),
         NEW name \in {ext, "other"}, RunFile(f, name).res = "ok"
  PROVE  /\ IsSeq(RunFile(f, name).prog)
         /\ ext = "m3bc" => RunFile(f, name) = Loaded(instrs)
<1>1. Err.res # "ok"
  BY DEF Err
<1>2. Len(f.cells) \in Nat /\ DOMAIN f.cells = 1 .. Len(f.cells)
  BY SeqFacts DEF Held
<1>3. Loaded(instrs).prog = instrs
  BY DEF Loaded
<1>4. CASE ext = "m3bc"
  <2>1. LoadM3bc(f).res = "ok" => LoadM3bc(f) = Loaded(instrs)
    BY <1>4, M3bcIs DEF Held
  <2>2. CASE IsM3bc(f)
    <3>1. RunFile(f, name) = LoadM3bc(f)
      BY <1>4, <2>2 DEF RunFile, Load, Recognised, IsM3bc
    <3> QED
      BY <1>3, <2>1, <3>1
  <2>3. CASE ~IsM3bc(f)
    <3>1. f.kind = "binary" /\ f.head # NoHeader /\ f.tail = 0
      BY <1>4, <2>3 DEF Held, IsM3bc
    <3>2. (Bytes(f) + HeaderLen) % InstrSize # 0
      <4> DEFINE n == Len(f.cells)
      <4>1. n \in Int /\ n + 1 \in Int
        BY <1>2
      <4> HIDE DEF n
      <4>2. (32 * (n + 1) + 2) % 32 = 2
        BY <4>1, ModIs
      <4>3. Bytes(f) + HeaderLen = 32 * (n + 1) + 2
        BY <3>1, <4>1 DEF Bytes, HeaderLen, InstrSize, n
      <4> QED
        BY <4>2, <4>3 DEF InstrSize
    <3>3. LoadLegacy(f) = Err
      BY <3>1, <3>2 DEF LoadLegacy
    <3>4. RunFile(f, name) = Err
      BY <1>4, <2>3, <3>1, <3>3 DEF RunFile, Load, Recognised, ProbablyBin
    <3> QED
      BY <1>1, <3>4
  <2> QED
    BY <2>2, <2>3
<1>5. CASE ext = "m3bin"
  <2>1. f.kind = "binary" /\ f.head = NoHeader
    BY <1>5 DEF Held
  <2>2. ~IsM3bc(f)
    BY <2>1, HeadersDiffer DEF IsM3bc
  <2>3. RunFile(f, name) = DecodeAll(f.cells) \/ RunFile(f, name) = Err
    <3>1. RunFile(f, "m3bin") = LoadLegacy(f) /\ RunFile(f, "other") = Recognised(f)
      BY <2>1 DEF RunFile
    <3>2. LoadLegacy(f) = DecodeAll(f.cells) \/ LoadLegacy(f) = Err
      BY DEF LoadLegacy
    <3>3. Recognised(f) = DecodeAll(f.cells) \/ Recognised(f) = Err
      BY <2>2 DEF Recognised
    <3> QED
      BY <1>5, <3>1, <3>2, <3>3
  <2>4. DecodeAll(f.cells).res = "ok"
        => DecodeAll(f.cells) = Loaded([i \in 1 .. Len(f.cells) |-> f.cells[i].ins])
    BY <1>1, <1>2 DEF DecodeAll
  <2> DEFINE q == [i \in 1 .. Len(f.cells) |-> f.cells[i].ins]
  <2>5. DOMAIN q = 1 .. Len(f.cells) /\ q = [i \in 1 .. Len(f.cells) |-> q[i]]
    OBVIOUS
  <2> HIDE DEF q
  <2>6. IsSeq(q)
    BY <1>2, <2>5, SeqByDomain
  <2>7. RunFile(f, name) = Loaded(q)
    BY <1>1, <2>3, <2>4 DEF q
  <2> QED
    BY <1>5, <2>6, <2>7 DEF Loaded
<1> QED
  BY <1>4, <1>5
---------------------------------------------------------------------------
(* Every fault leaves a file of instructions.                              *)

Filed(f) == f = [kind |-> f.kind, head |-> f.head, crc |-> f.crc, cells |-> f.cells, tail |-> f.tail]

\* One fault changes the cells, with or without the tail, or the header.
LEMMA FaultIs ==
  ASSUME NEW f, Filed(f), IsSeq(f.cells), f.cells # <<>>, NEW g \in Faults(f)
  PROVE  /\ g.kind = f.kind /\ g.crc = f.crc /\ IsSeq(g.cells)
         /\ \/ g.head = f.head
            \/ /\ f.head # NoHeader /\ g.tail = f.tail
               /\ \/ g.head = [f.head EXCEPT !.magic = FALSE]
                  \/ g.head = [f.head EXCEPT !.major = 2]
                  \/ \E r : g.head = [f.head EXCEPT !.required = r]
                  \/ g.head = [f.head EXCEPT !.entry = InstrSize]
<1> DEFINE n == Len(f.cells)
<1>1. n \in Nat /\ DOMAIN f.cells = 1 .. n /\ n - 1 \in 0 .. n
  <2>1. n \in Nat /\ DOMAIN f.cells = 1 .. n
    BY SeqFacts
  <2>2. n # 0
    <3>1. PICK S : f.cells \in Seq(S)
      BY DEF IsSeq
    <3> QED
      BY <3>1
  <2> QED
    BY <2>1, <2>2
<1>2. ASSUME NEW c, g = [f EXCEPT !.cells = c], IsSeq(c)
      PROVE  g.kind = f.kind /\ g.crc = f.crc /\ IsSeq(g.cells) /\ g.head = f.head
  BY <1>2 DEF Filed
<1>3. ASSUME NEW h, g = [f EXCEPT !.head = h]
      PROVE  g.kind = f.kind /\ g.crc = f.crc /\ IsSeq(g.cells) /\ g.head = h /\ g.tail = f.tail
  BY <1>3 DEF Filed
<1>4. IsSeq(Front(f.cells))
  BY <1>1, PrefixIs DEF Front
<1>5. \A i \in 1 .. n : \A x : IsSeq([f.cells EXCEPT ![i] = x])
  <2> TAKE i \in 1 .. n
  <2> TAKE x
  <2> DEFINE q == [f.cells EXCEPT ![i] = x]
  <2>1. DOMAIN q = 1 .. n /\ q = [j \in 1 .. n |-> q[j]]
    BY <1>1
  <2> HIDE DEF q
  <2>2. IsSeq(q)
    BY <1>1, <2>1, SeqByDomain
  <2> QED
    BY <2>2 DEF q
<1>6. CASE g = [f EXCEPT !.cells = Front(@)]
  BY <1>2, <1>4, <1>6
<1>7. CASE g = [f EXCEPT !.cells = Front(@), !.tail = 16]
  <2> DEFINE c == Front(f.cells)
  <2>1. g = [f EXCEPT !.cells = c, !.tail = 16] /\ IsSeq(c)
    BY <1>4, <1>7
  <2> HIDE DEF c
  <2> QED
    BY <2>1 DEF Filed
<1>8. CASE \E x \in {"w64", "w128", "w256", "escape", "reserved"} : g = [f EXCEPT !.cells[n].class = x]
  <2>1. PICK x : g = [f EXCEPT !.cells[n].class = x]
    BY <1>8
  <2>2. g = [f EXCEPT !.cells = [f.cells EXCEPT ![n] = [f.cells[n] EXCEPT !.class = x]]]
    BY <2>1
  <2>3. n \in 1 .. n
    BY <1>1
  <2> QED
    BY <1>2, <1>5, <2>2, <2>3
<1>9. CASE \E i \in 1..n : \E slot \in {"d", "a", "b", "c"} : \E r \in {15, 16} :
             g = [f EXCEPT !.cells[i].ins[slot] = r]
  <2>1. PICK i \in 1..n : \E slot \in {"d", "a", "b", "c"} : \E r \in {15, 16} :
          g = [f EXCEPT !.cells[i].ins[slot] = r]
    BY <1>9
  <2>2. PICK slot, r : g = [f EXCEPT !.cells = [f.cells EXCEPT ![i] =
                                [f.cells[i] EXCEPT !.ins = [f.cells[i].ins EXCEPT ![slot] = r]]]]
    BY <2>1
  <2> QED
    BY <1>2, <1>5, <2>2
<1>10. CASE /\ f.head # NoHeader
            /\ g \in {[f EXCEPT !.head.magic = FALSE], [f EXCEPT !.head.major = 2],
                      [f EXCEPT !.head.required = {"V9"}], [f EXCEPT !.head.required = {"V3"}],
                      [f EXCEPT !.head.entry = InstrSize]}
  <2>1. \/ g = [f EXCEPT !.head = [f.head EXCEPT !.magic = FALSE]]
        \/ g = [f EXCEPT !.head = [f.head EXCEPT !.major = 2]]
        \/ \E r : g = [f EXCEPT !.head = [f.head EXCEPT !.required = r]]
        \/ g = [f EXCEPT !.head = [f.head EXCEPT !.entry = InstrSize]]
    BY <1>10
  <2> QED
    BY <1>3, <1>10, <2>1
<1> QED
  <2>1. \/ g = [f EXCEPT !.cells = Front(@)] \/ g = [f EXCEPT !.cells = Front(@), !.tail = 16]
        \/ \E x \in {"w64", "w128", "w256", "escape", "reserved"} : g = [f EXCEPT !.cells[n].class = x]
        \/ \E i \in 1..n : \E slot \in {"d", "a", "b", "c"} : \E r \in {15, 16} :
             g = [f EXCEPT !.cells[i].ins[slot] = r]
        \/ /\ f.head # NoHeader
           /\ g \in {[f EXCEPT !.head.magic = FALSE], [f EXCEPT !.head.major = 2],
                      [f EXCEPT !.head.required = {"V9"}], [f EXCEPT !.head.required = {"V3"}],
                      [f EXCEPT !.head.entry = InstrSize]}
    <3> DEFINE Slots == {"d", "a", "b", "c"}
               Codes == {15, 16}
               Classes == {[f EXCEPT !.cells[n].class = c] : c \in {"w64", "w128", "w256", "escape", "reserved"}}
               Headers == {[f EXCEPT !.head.magic = FALSE], [f EXCEPT !.head.major = 2],
                           [f EXCEPT !.head.required = {"V9"}], [f EXCEPT !.head.required = {"V3"}],
                           [f EXCEPT !.head.entry = InstrSize]}
    <3>1. \A x \in RegisterFaults(f) : \E i \in 1..n : \E slot \in Slots : \E r \in Codes :
            x = [f EXCEPT !.cells[i].ins[slot] = r]
      <4> HIDE DEF Slots, Codes
      <4> QED
        BY DEF RegisterFaults, Slots, Codes
    <3>2. \A x \in Classes : \E c \in {"w64", "w128", "w256", "escape", "reserved"} :
            x = [f EXCEPT !.cells[n].class = c]
      OBVIOUS
    <3>3. g \in {[f EXCEPT !.cells = Front(@)], [f EXCEPT !.cells = Front(@), !.tail = 16]} \cup Classes
                 \cup RegisterFaults(f) \cup (IF f.head = NoHeader THEN {} ELSE Headers)
      BY Zenon DEF Faults
    <3> HIDE DEF Classes, Headers
    <3>4. \/ g = [f EXCEPT !.cells = Front(@)] \/ g = [f EXCEPT !.cells = Front(@), !.tail = 16]
          \/ g \in Classes \/ g \in RegisterFaults(f) \/ (f.head # NoHeader /\ g \in Headers)
      BY <3>3
    <3> QED
      BY <3>1, <3>2, <3>4 DEF Headers
  <2> QED
    BY ONLY <1>6, <1>7, <1>8, <1>9, <1>10, <2>1

LEMMA SavedIsHeld ==
  ASSUME NEW instrs, IsSeq(instrs), NEW ext \in {"m3bin", "m3bc"}
  PROVE  LET f == SaveProgram(instrs, ext)
         IN  Filed(f) /\ Held(f, instrs, ext)
<1> DEFINE f == SaveProgram(instrs, ext)
<1>1. f.cells = Encoded(instrs) /\ f.kind = "binary" /\ Filed(f)
  BY DEF SaveProgram, EncodeM3bc, File, Filed
<1>2. ext = "m3bin" => f.head = NoHeader
  BY DEF SaveProgram, File
<1>3. ASSUME ext = "m3bc"
      PROVE  /\ f.head = Header(1, RequiredBits(instrs), 0)
             /\ f.crc = Covered(Header(1, RequiredBits(instrs), 0), Encoded(instrs), 0)
  BY <1>3 DEF SaveProgram, EncodeM3bc, File
<1> HIDE DEF f
<1>4. Held(f, instrs, ext)
  BY <1>1, <1>2, <1>3, EncodedIs, HeadersDiffer DEF Held
<1> QED
  BY <1>1, <1>4 DEF f

LEMMA DamagedIsHeld ==
  ASSUME NEW instrs, IsSeq(instrs), NEW ext \in {"m3bin", "m3bc"},
         NEW f, f = SaveProgram(instrs, ext), f.cells # <<>>, NEW g \in Faults(f)
  PROVE  Held(g, instrs, ext)
<1>1. Filed(f) /\ Held(f, instrs, ext)
  BY SavedIsHeld
<1>2. f.kind = "binary" /\ IsSeq(f.cells)
  BY <1>1 DEF Held
<1>3. g.kind = "binary" /\ g.crc = f.crc /\ IsSeq(g.cells)
  BY <1>1, <1>2, FaultIs
<1>4. CASE ext = "m3bin"
  <2>1. g.head = NoHeader
    BY <1>1, <1>2, <1>4, FaultIs DEF Held
  <2> QED
    BY <1>3, <1>4, <2>1 DEF Held
<1>5. CASE ext = "m3bc"
  <2> DEFINE h == f.head
  <2>1. h = Header(1, RequiredBits(instrs), 0) /\ f.tail = 0
    BY <1>5 DEF SaveProgram, EncodeM3bc, File
  <2>2. h.magic /\ DOMAIN h = {"magic", "major", "required", "entry"} /\ DOMAIN NoHeader = {"magic"}
    BY <2>1 DEF Header, NoHeader
  <2>3. \/ g.head = h
        \/ /\ g.tail = 0
           /\ \/ g.head = [h EXCEPT !.magic = FALSE]
              \/ g.head = [h EXCEPT !.major = 2]
              \/ \E r : g.head = [h EXCEPT !.required = r]
              \/ g.head = [h EXCEPT !.entry = InstrSize]
    <3>1. \/ g.head = f.head
          \/ /\ f.head # NoHeader /\ g.tail = f.tail
             /\ \/ g.head = [f.head EXCEPT !.magic = FALSE]
                \/ g.head = [f.head EXCEPT !.major = 2]
                \/ \E r : g.head = [f.head EXCEPT !.required = r]
                \/ g.head = [f.head EXCEPT !.entry = InstrSize]
      BY ONLY <1>1, <1>2, f.cells # <<>>, g \in Faults(f), FaultIs, Zenon
    <3> HIDE DEF h
    <3>2. f.head = h
      BY DEF h
    <3> QED
      BY ONLY <2>1, <3>1, <3>2, Zenon
  <2> HIDE DEF h
  <2>4. \A r : /\ [h EXCEPT !.major = 2].magic = h.magic
               /\ [h EXCEPT !.required = r].magic = h.magic
               /\ [h EXCEPT !.entry = InstrSize].magic = h.magic
    BY <2>2
  <2>5. [h EXCEPT !.magic = FALSE] # NoHeader
    <3>1. DOMAIN [h EXCEPT !.magic = FALSE] = DOMAIN h
      OBVIOUS
    <3> QED
      BY <2>2, <3>1
  <2>6. g.head.magic \/ (g.head # NoHeader /\ g.tail = 0)
    BY <2>2, <2>3, <2>4, <2>5
  <2>7. f.crc = Covered(Header(1, RequiredBits(instrs), 0), Encoded(instrs), 0)
    BY <1>1, <1>5 DEF Held
  <2> QED
    BY <1>3, <1>5, <2>6, <2>7 DEF Held
<1> QED
  BY <1>4, <1>5
---------------------------------------------------------------------------
(* The way in.                                                             *)

SavedFile ==
  /\ file = [ext |-> file.ext, damaged |-> file.damaged, content |-> file.content]
  /\ file.damaged \in BOOLEAN
  /\ \/ /\ file.ext = "m3asm" /\ ~file.damaged
        /\ file.content = TextFile(task.source) /\ asm = Assemble(task.source)
     \/ /\ file.ext \in {"m3bin", "m3bc"} /\ asm.res = "ok"
        /\ Held(file.content, asm.instrs, file.ext)
        /\ ~file.damaged => file.content = SaveProgram(asm.instrs, file.ext)

WayInv ==
  /\ SourceOK(task.source)
  /\ asm.res = "ok" => IsSeq(asm.instrs)
  /\ stage \in {"source", "assembled"} => file = NoFile
  /\ stage = "assembled" => asm.res = "ok"
  /\ stage = "saved" => SavedFile
  /\ FileIsTheProgram

LoadInv == WayInv /\ ControlInv

LEMMA SourcesOK ==
  ASSUME NEW t \in Tasks
  PROVE  SourceOK(t.source)
<1>1. t.source \in Seq(Range(t.source))
  BY SystemConstants
<1>2. \A i \in DOMAIN t.source : t.source[i] \in Range(t.source)
  BY DEF Range
<1>3. \A line \in Range(t.source) :
        /\ line.kind \in {"reg", "equ", "text", "data", "blob", "code"}
        /\ line.kind = "blob" => line.vals \in Seq(Range(line.vals)) /\ line.type \notin Mnemonics \cup {""}
        /\ line.kind = "code" => line.toks \in Seq(Range(line.toks))
  BY SystemConstants
<1> QED
  BY <1>1, <1>2, <1>3, SeqIs DEF SourceOK, LineOK

LEMMA LoadInit ==
  ASSUME Init
  PROVE  LoadInv
<1>1. PICK t \in Tasks : task = t /\ MachineInit(t.tensors)
  BY DEF Init
<1>2. stage = "source" /\ asm = [res |-> "none"] /\ file = NoFile
  BY DEF Init
<1>3. SourceOK(task.source)
  BY <1>1, SourcesOK
<1>4. WayInv
  BY <1>2, <1>3 DEF WayInv, FileIsTheProgram
<1>5. prog = <<>> /\ pc = ProgramBase /\ calls = <<>>
  BY <1>1 DEF MachineInit
<1>6. IsSeq(<<>>) /\ Len(<<>>) = 0 /\ DOMAIN <<>> = {}
  <2>1. <<>> \in Seq({})
    OBVIOUS
  <2> QED
    BY <2>1 DEF IsSeq
<1>7. ControlStaysInside
  BY <1>5, <1>6, MachineConstants DEF ControlStaysInside, Size, ProgramBase, InstrSize
<1> QED
  BY <1>4, <1>5, <1>6, <1>7 DEF LoadInv, ControlInv, Idle

\* As long as nothing is loaded, the control waits.
LEMMA WaitsOK ==
  ASSUME LoadInv, stage # "loaded", UNCHANGED <<prog, pc, calls>>
  PROVE  ControlInv'
BY DEF LoadInv, ControlInv, Idle, ControlStaysInside, Starts, Size

LEMMA AssembleOK ==
  ASSUME LoadInv, AssembleData
  PROVE  LoadInv'
<1>1. /\ stage = "source" /\ UNCHANGED <<prog, pc, calls>> /\ UNCHANGED <<task, file>>
      /\ IF asm'.res = "ok" THEN stage' = "assembled" ELSE stage' = "refused"
  BY DEF AssembleData, Refused, machineVars, ctxVars
<1>2. file' = NoFile /\ SourceOK(task.source)
  BY <1>1 DEF LoadInv, WayInv
<1>3. PICK base : asm' = AssembleFull(task.source, ProgramBase, base)
  BY DEF AssembleData, AssembleWithData
<1>4. asm'.res = "ok" => IsSeq(asm'.instrs)
  BY <1>2, <1>3, AssembleIs
<1>5. WayInv'
  BY <1>1, <1>2, <1>4 DEF WayInv, FileIsTheProgram
<1>6. ControlInv'
  BY <1>1, WaitsOK
<1> QED
  BY <1>5, <1>6 DEF LoadInv

LEMMA SaveOK ==
  ASSUME LoadInv, NEW ext \in {"m3asm", "m3bin", "m3bc"}, Save(ext)
  PROVE  LoadInv'
<1> DEFINE full == Assemble(task.source)
           content == IF ext = "m3asm" THEN TextFile(task.source) ELSE SaveProgram(full.instrs, ext)
<1>1. /\ stage = "source" /\ UNCHANGED <<prog, pc, calls>> /\ UNCHANGED task /\ asm' = full
      /\ IF ext # "m3asm" /\ full.res # "ok" THEN stage' = "refused" /\ UNCHANGED file
         ELSE stage' = "saved" /\ file' = [ext |-> ext, damaged |-> FALSE, content |-> content]
  BY DEF Save, SaveAs, Refused, machineVars, ctxVars
<1>2. file = NoFile /\ SourceOK(task.source)
  BY <1>1 DEF LoadInv, WayInv
<1>3. full.res = "ok" => IsSeq(full.instrs)
  BY <1>2, AssembleIs
<1>4. ControlInv'
  BY <1>1, WaitsOK
<1>5. CASE ext # "m3asm" /\ full.res # "ok"
  <2>1. WayInv'
    BY <1>1, <1>2, <1>3, <1>5 DEF WayInv, FileIsTheProgram
  <2> QED
    BY <1>4, <2>1 DEF LoadInv
<1>6. CASE ~(ext # "m3asm" /\ full.res # "ok")
  <2> HIDE DEF content, full
  <2>1. stage' = "saved" /\ file' = [ext |-> ext, damaged |-> FALSE, content |-> content]
    BY <1>1, <1>6
  <2>2. file'.ext = ext /\ ~file'.damaged /\ file'.damaged = FALSE /\ file'.content = content
    BY <2>1
  <2>3. file' = [ext |-> file'.ext, damaged |-> file'.damaged, content |-> file'.content]
    BY <2>1
  <2>4. CASE ext = "m3asm"
    <3>1. SavedFile'
      BY <1>1, <2>2, <2>3, <2>4 DEF SavedFile, content, full
    <3> QED
      BY <1>1, <1>2, <1>3, <1>4, <2>1, <3>1 DEF LoadInv, WayInv, FileIsTheProgram
  <2>5. CASE ext # "m3asm"
    <3>1. full.res = "ok" /\ ext \in {"m3bin", "m3bc"} /\ content = SaveProgram(full.instrs, ext)
      BY <1>6, <2>5 DEF content
    <3>2. Held(content, full.instrs, ext)
      BY <1>3, <3>1, SavedIsHeld
    <3>3. SavedFile'
      BY <1>1, <2>2, <2>3, <3>1, <3>2 DEF SavedFile
    <3> QED
      BY <1>1, <1>2, <1>3, <1>4, <2>1, <3>3 DEF LoadInv, WayInv, FileIsTheProgram
  <2> QED
    BY <2>4, <2>5
<1> QED
  BY <1>5, <1>6

LEMMA DamageOK ==
  ASSUME LoadInv, Damage
  PROVE  LoadInv'
<1>1. /\ stage = "saved" /\ UNCHANGED <<prog, pc, calls>> /\ UNCHANGED <<task, asm, stage>>
      /\ file.ext # "m3asm" /\ ~file.damaged /\ file.content.cells # <<>>
  BY DEF Damage, machineVars, ctxVars
<1>2. PICK f \in Faults(file.content) : file' = [file EXCEPT !.damaged = TRUE, !.content = f]
  BY DEF Damage
<1>3. SavedFile /\ SourceOK(task.source) /\ (asm.res = "ok" => IsSeq(asm.instrs))
  BY <1>1 DEF LoadInv, WayInv
<1>4. /\ file.ext \in {"m3bin", "m3bc"} /\ asm.res = "ok"
      /\ file.content = SaveProgram(asm.instrs, file.ext)
  BY <1>1, <1>3 DEF SavedFile
<1>5. Held(f, asm.instrs, file.ext)
  BY <1>1, <1>2, <1>3, <1>4, DamagedIsHeld
<1>6. file' = [ext |-> file.ext, damaged |-> TRUE, content |-> f]
  <2>1. file = [ext |-> file.ext, damaged |-> file.damaged, content |-> file.content]
    BY <1>3 DEF SavedFile
  <2> QED
    BY <1>2, <2>1
<1>7. file'.ext = file.ext /\ file'.damaged = TRUE /\ file'.damaged /\ file'.content = f
  BY <1>6
<1>8. file' = [ext |-> file'.ext, damaged |-> file'.damaged, content |-> file'.content]
  BY <1>6
<1>9. SavedFile'
  BY <1>1, <1>4, <1>5, <1>7, <1>8 DEF SavedFile
<1>10. WayInv'
  BY <1>1, <1>3, <1>4, <1>9 DEF WayInv, FileIsTheProgram
<1>11. ControlInv'
  BY <1>1, WaitsOK
<1> QED
  BY <1>10, <1>11 DEF LoadInv
LEMMA OpensAs ==
  ASSUME SavedFile, SourceOK(task.source), asm.res = "ok" => IsSeq(asm.instrs),
         NEW ext \in {file.ext, "other"}
  PROVE  LET r == RunFile(file.content, ext)
         IN  /\ r.res = "ok" => /\ IsSeq(r.prog) /\ asm.res = "ok"
                                /\ file.ext = "m3bc" \/ ~file.damaged => r.prog = asm.instrs
             /\ r.res # "ok" /\ ~file.damaged /\ ext # "other" => asm.res # "ok"
<1> DEFINE r == RunFile(file.content, ext)
<1>1. \A prog1 : Loaded(prog1).res = "ok" /\ Loaded(prog1).prog = prog1
  BY DEF Loaded
<1>2. CASE file.ext = "m3asm"
  <2>1. file.content = TextFile(task.source) /\ asm = Assemble(task.source)
    BY <1>2 DEF SavedFile
  <2>2. file.content.kind = "text" /\ file.content.source = task.source
    BY <2>1 DEF TextFile
  <2>3. r = AsText(file.content)
    BY <1>2, <2>2 DEF RunFile
  <2>4. r = LoadedFrom(asm)
    BY <2>1, <2>2, <2>3 DEF AsText
  <2> HIDE DEF r
  <2>5. IF asm.res = "ok" THEN r = Loaded(asm.instrs) ELSE r = asm
    BY <2>4 DEF LoadedFrom
  <2>6. /\ r.res = "ok" => IsSeq(r.prog) /\ asm.res = "ok" /\ r.prog = asm.instrs
        /\ r.res # "ok" => asm.res # "ok"
    BY <1>1, <2>5
  <2> QED
    BY <2>6 DEF r
<1>3. CASE file.ext # "m3asm"
  <2>1. /\ file.ext \in {"m3bin", "m3bc"} /\ asm.res = "ok"
        /\ Held(file.content, asm.instrs, file.ext)
        /\ ~file.damaged => file.content = SaveProgram(asm.instrs, file.ext)
    BY <1>3 DEF SavedFile
  <2>2. r.res = "ok" => IsSeq(r.prog) /\ (file.ext = "m3bc" => r = Loaded(asm.instrs))
    BY <2>1, HeldOpens
  <2>3. ASSUME ~file.damaged
        PROVE  /\ ext # "other" => r = Loaded(asm.instrs)
               /\ r.res = "ok" => r = Loaded(asm.instrs)
    <3>1. file.content = SaveProgram(asm.instrs, file.ext)
      BY <2>1, <2>3
    <3>2. CASE ext = "other"
      BY <2>1, <3>1, <3>2, WholeOpens
    <3>3. CASE ext = file.ext
      BY <2>1, <3>1, <3>3, WholeOpens
    <3> QED
      BY <3>2, <3>3
  <2> HIDE DEF r
  <2>4. /\ r.res = "ok" => /\ IsSeq(r.prog) /\ asm.res = "ok"
                           /\ file.ext = "m3bc" \/ ~file.damaged => r.prog = asm.instrs
        /\ r.res # "ok" /\ ~file.damaged /\ ext # "other" => asm.res # "ok"
    BY <1>1, <2>1, <2>2, <2>3
  <2> QED
    BY <2>4 DEF r
<1> QED
  BY <1>2, <1>3

LEMMA OpenOK ==
  ASSUME LoadInv, Open
  PROVE  LoadInv'
<1>1. stage = "saved" /\ UNCHANGED <<task, asm>>
  BY DEF Open
<1>2. PICK ext \in {file.ext, "other"} : Start(RunFile(file.content, ext), ext)
  BY DEF Open
<1> DEFINE r == RunFile(file.content, ext)
<1>3. SavedFile /\ SourceOK(task.source) /\ (asm.res = "ok" => IsSeq(asm.instrs)) /\ Idle
  BY <1>1 DEF LoadInv, WayInv, ControlInv
<1>4. /\ r.res = "ok" => /\ IsSeq(r.prog)
                         /\ file.ext = "m3bc" \/ ~file.damaged => r.prog = asm.instrs
      /\ r.res # "ok" /\ ~file.damaged /\ ext # "other" => asm.res # "ok"
  BY <1>3, OpensAs
<1>5. Start(r, ext)
  BY <1>2
<1> HIDE DEF r
<1>6. CASE r.res = "ok"
  <2>1. stage' = "loaded" /\ LoadProgram(r.prog) /\ UNCHANGED file
    BY <1>5, <1>6 DEF Start
  <2>2. IsSeq(prog)' /\ IsSeq(calls)' /\ ControlStaysInside'
    BY <1>3, <1>4, <1>6, <2>1, LoadControls
  <2>3. prog' = r.prog
    BY <2>1 DEF LoadProgram
  <2>4. FileIsTheProgram'
    BY <1>1, <1>4, <1>6, <2>1, <2>3 DEF FileIsTheProgram
  <2>5. WayInv'
    BY <1>1, <1>3, <2>1, <2>4 DEF WayInv
  <2> QED
    BY <2>1, <2>2, <2>5 DEF LoadInv, ControlInv
<1>7. CASE r.res # "ok"
  <2> DEFINE name == IF ext = file.ext THEN file.ext ELSE ext
  <2>1. stage' = "refused" /\ file' = [file EXCEPT !.ext = name] /\ UNCHANGED machineVars
    BY <1>5, <1>7 DEF Start, Refused
  <2>2. name = ext
    OBVIOUS
  <2> HIDE DEF name
  <2>3. file = [ext |-> file.ext, damaged |-> file.damaged, content |-> file.content]
    BY <1>3 DEF SavedFile
  <2>4. file'.ext = ext /\ file'.damaged = file.damaged
    BY <2>1, <2>2, <2>3
  <2>5. FileIsTheProgram'
    BY <1>1, <1>4, <1>7, <2>1, <2>4 DEF FileIsTheProgram
  <2>6. WayInv'
    BY <1>1, <1>3, <2>1, <2>5 DEF WayInv
  <2>7. ControlInv'
    BY <1>1, <2>1, WaitsOK DEF machineVars, ctxVars
  <2> QED
    BY <2>6, <2>7 DEF LoadInv
<1> QED
  BY <1>6, <1>7

LEMMA LoadAssembledOK ==
  ASSUME LoadInv, LoadAssembled
  PROVE  LoadInv'
<1>1. stage = "assembled" /\ UNCHANGED <<task, asm, file>>
  BY DEF LoadAssembled
<1>2. /\ file = NoFile /\ SourceOK(task.source) /\ Idle
      /\ asm.res = "ok" /\ IsSeq(asm.instrs)
  BY <1>1 DEF LoadInv, WayInv, ControlInv
<1>3. \/ stage' = "loaded" /\ LoadProgram(asm.instrs)
      \/ stage' = "refused" /\ UNCHANGED <<prog, pc, calls>>
  BY DEF LoadAssembled, Refused, machineVars, ctxVars
<1>4. WayInv'
  <2>1. FileIsTheProgram'
    BY <1>1, <1>2 DEF FileIsTheProgram
  <2> QED
    BY <1>1, <1>2, <1>3, <2>1 DEF WayInv
<1>5. CASE stage' = "loaded" /\ LoadProgram(asm.instrs)
  BY <1>2, <1>4, <1>5, LoadControls DEF LoadInv, ControlInv
<1>6. CASE stage' = "refused" /\ UNCHANGED <<prog, pc, calls>>
  BY <1>1, <1>4, <1>6, WaitsOK DEF LoadInv
<1> QED
  BY <1>3, <1>5, <1>6

LEMMA RunOK ==
  ASSUME LoadInv, Run
  PROVE  LoadInv'
<1>1. stage = "loaded" /\ UNCHANGED <<stage, task, asm, file>> /\ Step
  BY DEF Run, fileVars
<1>2. ControlStep
  <2>1. CASE FetchFails
    BY <2>1, HowItEnds DEF FetchFails
  <2>2. CASE Execute(Current, Params(Current))
    BY <2>2, ExecuteControls
  <2> QED
    BY <1>1, <2>1, <2>2 DEF Step
<1>3. IsSeq(prog)' /\ IsSeq(calls)' /\ ControlStaysInside'
  BY <1>2, ControlKeeps DEF LoadInv, ControlInv
<1>4. prog' = prog
  BY <1>2 DEF ControlStep
<1>5. WayInv'
  BY <1>1, <1>4 DEF LoadInv, WayInv, FileIsTheProgram
<1> QED
  BY <1>1, <1>3, <1>5 DEF LoadInv, ControlInv

\* The inductive invariant of the way in: what the assembler gave, what the
\* file holds of it, and a context that waits until it is loaded.
THEOREM LoadInvariant == Spec => []LoadInv
<1>1. Init => LoadInv
  BY LoadInit
<1>2. LoadInv /\ [Next]_vars => LoadInv'
  <2> SUFFICES ASSUME LoadInv, [Next]_vars PROVE LoadInv'
    OBVIOUS
  <2>1. CASE UNCHANGED vars
    <3>1. UNCHANGED <<prog, pc, calls, stage, task, asm, file>>
      BY <2>1 DEF vars, machineVars, ctxVars, fileVars
    <3>2. WayInv'
      BY <3>1 DEF LoadInv, WayInv, SavedFile, FileIsTheProgram
    <3>3. ControlInv'
      BY <3>1 DEF LoadInv, ControlInv, Idle, ControlStaysInside, Starts, Size
    <3> QED
      BY <3>2, <3>3 DEF LoadInv
  <2>2. CASE Next
    BY <2>2, AssembleOK, SaveOK, DamageOK, OpenOK, LoadAssembledOK, RunOK DEF Next
  <2> QED
    BY <2>1, <2>2
<1> QED
  BY <1>1, <1>2, PTL DEF Spec

\* A container that opens is the program that was saved, whatever fault the
\* file had, and a whole file opens under its own name as the program of its
\* source (assemble_file of opcodes.rs, load_m3bc and split_frames of m3bc.rs,
\* run_file of the CLI).
THEOREM FilesKeepTheProgram == Spec => []FileIsTheProgram
<1>1. LoadInv => FileIsTheProgram
  BY DEF LoadInv, WayInv
<1> QED
  BY <1>1, LoadInvariant, PTL

\* The program counter stays at the start of an instruction or at the end of
\* the program, and open calls, never too many, return to the instruction
\* after a CALL (check_jump_target, CALL and RET of vm.rs).
THEOREM ControlIsConfined == Spec => []ControlStaysInside
<1>1. LoadInv => ControlStaysInside
  BY DEF LoadInv, ControlInv
<1> QED
  BY <1>1, LoadInvariant, PTL

---------------------------------------------------------------------------
(* The size of a tensor.                                                   *)

LEMMA NumelIs ==
  ASSUME NEW shape \in Seq(Nat)
  PROVE  Numel(shape) \in Nat
<1> DEFINE n == Len(shape)
           Runs(f) == f = [k \in 0 .. n |-> IF k = 0 THEN 1 ELSE f[k - 1] * shape[k]]
           step == [e \in (1 .. n) \X Nat |-> e[2] * shape[e[1]]]
           upTo == CHOOSE f : Runs(f)
<1>1. n \in Nat /\ \A k \in 1 .. n : shape[k] \in Nat
  OBVIOUS
<1>2. \A k \in 1 .. n : \A x \in Nat : step[<<k, x>>] = x * shape[k] /\ step[<<k, x>>] \in Nat
  BY <1>1
<1>3. Numel(shape) = upTo[n]
  BY DEF Numel
<1> HIDE DEF n, step
<1>4. PICK g \in [0 .. n -> Nat] : g[0] = 1 /\ \A k \in 1 .. n : g[k] = step[<<k, g[k - 1]>>]
  <2>1. 1 \in Nat /\ Steps(step, Nat, n)
    BY <1>2 DEF Steps
  <2>2. \E g : Recurses(g, Nat, 1, n, step)
    BY <1>1, <2>1, Iterates
  <2> QED
    BY <2>2 DEF Recurses
<1>5. Runs(g)
  <2>1. ASSUME NEW k \in 0 .. n
        PROVE  g[k] = IF k = 0 THEN 1 ELSE g[k - 1] * shape[k]
    <3>1. CASE k = 0
      BY <1>4, <3>1
    <3>2. CASE k # 0
      <4>1. k \in 1 .. n /\ g[k - 1] \in Nat
        BY <1>1, <3>2
      <4> QED
        BY <1>2, <1>4, <3>2, <4>1
    <3> QED
      BY <3>1, <3>2
  <2>2. g = [k \in 0 .. n |-> g[k]]
    OBVIOUS
  <2> QED
    BY <2>1, <2>2
<1>6. Runs(upTo)
  BY <1>5
<1> HIDE DEF upTo
<1>7. upTo[0] = 1 /\ \A k \in 1 .. n : upTo[k] = upTo[k - 1] * shape[k]
  <2>1. \A k \in 0 .. n : upTo[k] = IF k = 0 THEN 1 ELSE upTo[k - 1] * shape[k]
    BY <1>6
  <2>2. 0 \in 0 .. n /\ \A k \in 1 .. n : k \in 0 .. n /\ k # 0
    BY <1>1
  <2> QED
    BY <2>1, <2>2
<1>8. \A k \in 0 .. n : upTo[k] \in Nat
  <2>1. \A k \in 1 .. n : upTo[k - 1] \in Nat => upTo[k] \in Nat
    <3> TAKE k \in 1 .. n
    <3> HAVE upTo[k - 1] \in Nat
    <3>1. upTo[k] = upTo[k - 1] * shape[k] /\ shape[k] \in Nat
      BY <1>1, <1>7
    <3>2. \A x, y \in Nat : x * y \in Nat
      OBVIOUS
    <3> QED
      BY <3>1, <3>2
  <2>2. upTo[0] \in Nat
    BY <1>7
  <2> HIDE DEF Runs
  <2> QED
    BY <1>1, <2>1, <2>2, Throughout, Zenon
<1> QED
  BY <1>1, <1>3, <1>8

\* One entry of a shape changed: a number, if there is such an axis.
LEMMA ShapeExcept ==
  ASSUME NEW s \in Seq(Nat), NEW i, NEW n, i \in DOMAIN s => n \in Nat
  PROVE  [s EXCEPT ![i] = n] \in Seq(Nat)
<1>1. Len(s) \in Nat /\ DOMAIN s = 1 .. Len(s) /\ \A j \in 1 .. Len(s) : s[j] \in Nat
  OBVIOUS
<1> DEFINE e == [s EXCEPT ![i] = n]
<1>2. e = [j \in 1 .. Len(s) |-> IF j = i THEN n ELSE s[j]]
  BY <1>1
<1>3. e \in [1 .. Len(s) -> Nat]
  BY <1>1, <1>2
<1> QED
  BY <1>1, <1>3, SeqDef

LEMMA MaxOf ==
  ASSUME NEW x \in Nat, NEW y \in Nat
  PROVE  Max({x, y}) \in {x, y} /\ Max({x, y}) >= x
<1>1. \E m \in {x, y} : \A k \in {x, y} : m >= k
  OBVIOUS
<1>2. Max({x, y}) \in {x, y} /\ \A k \in {x, y} : Max({x, y}) >= k
  BY <1>1 DEF Max
<1> QED
  BY <1>2

Dense(t) ==
  /\ DOMAIN t = {"shape", "dtype", "data", "sparse"}
  /\ t.shape \in Seq(Nat) /\ t.sparse = FALSE

LEMMA DenseBytes ==
  ASSUME NEW t, Dense(t)
  PROVE  TensorBytes(t) \in Nat
<1> DEFINE n == Numel(t.shape)
           w == Width(t.dtype)
           q == QuantBytes(t.dtype)
<1>1. n \in Nat /\ w \in Nat /\ q \in Nat
  BY NumelIs DEF Dense, Width, QuantBytes
<1>2. TensorBytes(t) = n * w \/ TensorBytes(t) = (n \div QBlock) * q
  BY DEF TensorBytes, Dense
<1> HIDE DEF n, w, q
<1>3. n * w \in Nat /\ n \div QBlock \in Nat
  BY <1>1, TensorConstants
<1>4. (n \div QBlock) * q \in Nat
  BY <1>1, <1>3
<1> QED
  BY <1>2, <1>3, <1>4

---------------------------------------------------------------------------
(* The fields that make a shape are numbers.                               *)

SizeFields ==
  {<<"TENSOR", "rows">>, <<"TENSOR", "cols">>, <<"TENSOR", "density">>, <<"TOPK", "k">>,
   <<"PAD", "before">>, <<"PAD", "after">>, <<"TILE", "reps">>, <<"TRANSPOSE", "ndim">>,
   <<"SLICE", "len">>, <<"DISTANCE", "topk">>, <<"PQ_ENCODE", "nsub">>, <<"PQ_DECODE", "nsub">>,
   <<"SAMPLE", "topk">>, <<"RAG_SEARCH", "topk">>}
  \cup {"BROADCAST", "RESHAPE"} \X {"ndim", "d0", "d1", "d2", "d3"}

Numeric(f) == f.plain \subseteq Nat /\ f.default \in Nat
Sized(op, layout) ==
  \A n : <<op, n>> \in SizeFields =>
    /\ \E k \in DOMAIN layout : layout[k].name = n
    /\ \A k \in DOMAIN layout : layout[k].name = n => Numeric(layout[k])
TableOK(table) == \A op \in DOMAIN table : Sized(op, table[op].layout)

LEMMA OpsOK ==
  ASSUME NEW names, NEW form, NEW layout, \A op \in names : Sized(op, layout)
  PROVE  TableOK(Ops(names, form, layout))
BY OpsIs DEF TableOK

LEMMA MergedOK ==
  ASSUME NEW tables, \A i \in DOMAIN tables : TableOK(tables[i])
  PROVE  TableOK(Merged(tables))
<1> SUFFICES ASSUME NEW op \in DOMAIN Merged(tables)
             PROVE  Sized(op, Merged(tables)[op].layout)
  BY DEF TableOK
<1> DEFINE i == CHOOSE j \in DOMAIN tables : op \in DOMAIN tables[j]
<1>1. op \in UNION {DOMAIN tables[j] : j \in DOMAIN tables} /\ Merged(tables)[op] = tables[i][op]
  BY DEF Merged
<1>2. i \in DOMAIN tables /\ op \in DOMAIN tables[i]
  BY <1>1
<1> QED
  BY <1>1, <1>2 DEF TableOK

LEMMA FieldIs ==
  ASSUME NEW name, NEW at, NEW width
  PROVE  Numeric(F(name, at, width)) /\ F(name, at, width).name = name
BY DEF Numeric, F

\* A row of a table no opcode of which takes a size.
Sizeless(names) == \A e \in SizeFields : e[1] \notin names

LEMMA SizelessOK ==
  ASSUME NEW names, NEW form, NEW layout, Sizeless(names)
  PROVE  TableOK(Ops(names, form, layout))
<1>1. \A op \in names : Sized(op, layout)
  <2> SUFFICES ASSUME NEW op \in names, NEW n, <<op, n>> \in SizeFields PROVE FALSE
    BY DEF Sized
  <2>1. <<op, n>>[1] = op
    OBVIOUS
  <2> QED
    BY <2>1 DEF Sizeless
<1> QED
  BY <1>1, OpsOK

LEMMA PlainTableOK ==
  ASSUME NEW table, Sizeless(DOMAIN table)
  PROVE  TableOK(table)
<1> SUFFICES ASSUME NEW op \in DOMAIN table, NEW n, <<op, n>> \in SizeFields PROVE FALSE
  BY DEF TableOK, Sized
<1>1. <<op, n>>[1] = op
  OBVIOUS
<1> QED
  BY <1>1 DEF Sizeless

LEMMA PlainTables ==
  /\ TableOK(SequenceOps) /\ TableOK(PipeOps) /\ TableOK(ClusterOps) /\ TableOK(RandomOps)
  /\ TableOK(TelemetryOps) /\ TableOK(MoveOps) /\ TableOK(CastOps) /\ TableOK(ActivationOps)
  /\ TableOK(CallOps) /\ TableOK(CacheOps) /\ TableOK(AudioOps) /\ TableOK(ImmOps) /\ TableOK(EngineOps)
<1>1. Sizeless(DOMAIN SequenceOps)
  BY DEF SequenceOps, Merged, Ops, Sizeless, SizeFields
<1>2. Sizeless(DOMAIN PipeOps)
  BY DEF PipeOps, Merged, Ops, Sizeless, SizeFields
<1>3. Sizeless(DOMAIN ClusterOps)
  BY DEF ClusterOps, Merged, Ops, Sizeless, SizeFields
<1>4. Sizeless(DOMAIN RandomOps)
  BY DEF RandomOps, Merged, Ops, Sizeless, SizeFields
<1>5. TableOK(TelemetryOps)
  <2>1. /\ Sizeless({"CYCLES_COUNT", "PREEMPT_CHECK", "GET_DEADLINE", "PRIORITY_GET"})
        /\ Sizeless({"TRACE_EVENT"}) /\ Sizeless({"SANITY_CHECK"}) /\ Sizeless({"ASSERT"})
        /\ Sizeless({"DUMP", "YIELD", "FENCE"})
        /\ Sizeless({"SET_DEADLINE", "PRIORITY_SET", "LOCK", "UNLOCK"})
    BY DEF Sizeless, SizeFields
  <2> QED
    BY <2>1, SizelessOK, MergedOK DEF TelemetryOps
<1>6. Sizeless(DOMAIN MoveOps)
  BY DEF MoveOps, Merged, Ops, Sizeless, SizeFields
<1>7. Sizeless(DOMAIN CastOps)
  BY DEF CastOps, Merged, Ops, Sizeless, SizeFields
<1>8. Sizeless(DOMAIN ActivationOps)
  BY DEF ActivationOps, Merged, Ops, Sizeless, SizeFields, Activations
<1>9. Sizeless(DOMAIN CallOps)
  BY DEF CallOps, Merged, Ops, Sizeless, SizeFields
<1>10. Sizeless(DOMAIN CacheOps)
  BY DEF CacheOps, Merged, Ops, Sizeless, SizeFields
<1>11. Sizeless(DOMAIN AudioOps)
  BY DEF AudioOps, Merged, Ops, Sizeless, SizeFields
<1>12. Sizeless(DOMAIN ImmOps)
  BY DEF ImmOps, Merged, Ops, Sizeless, SizeFields
<1>13. Sizeless(DOMAIN EngineOps)
  BY DEF EngineOps, Merged, Ops, Sizeless, SizeFields
<1> QED
  BY <1>1, <1>2, <1>3, <1>4, <1>5, <1>6, <1>7, <1>8, <1>9, <1>10, <1>11, <1>12, <1>13, PlainTableOK

LEMMA CoreTable ==
  TableOK(CoreOps)
<1>1. /\ Sizeless({"ATTN", "NORM"}) /\ Sizeless({"FFN"})
      /\ Sizeless({"EMBED", "ADD", "MATVEC", "MUL"}) /\ Sizeless({"SENSE", "SILU"})
      /\ Sizeless({"STREAM", "ABORT"}) /\ Sizeless({"FORK"}) /\ Sizeless({"COMPARE"})
      /\ Sizeless({"IF_EQUAL", "JUMP"}) /\ Sizeless({"IF_INTERRUPT"}) /\ Sizeless({"HALT", "NOP"})
  BY DEF Sizeless, SizeFields
<1>2. Sized("SAMPLE", <<F("temp", 0, 4), F("topk", 4, 2)>>)
  BY FieldIs DEF Sized, SizeFields
<1> QED
  BY <1>1, <1>2, SizelessOK, OpsOK, MergedOK DEF CoreOps

LEMMA TensorTable ==
  TableOK(TensorOps)
<1>1. Sized("TENSOR", <<ZeroIs(2, F("rows", 0, 8)), ZeroIs(2, F("cols", 8, 8)),
                        F("dtype", 16, 1), F("sparse", 17, 1),
                        [F("density", 18, 4) EXCEPT !.plain = 1..100, !.default = 5],
                        F("fill", 22, 4)>>)
  <2> DEFINE rows == ZeroIs(2, F("rows", 0, 8))
             cols == ZeroIs(2, F("cols", 8, 8))
             density == [F("density", 18, 4) EXCEPT !.plain = 1..100, !.default = 5]
  <2>1. /\ Numeric(rows) /\ rows.name = "rows"
        /\ Numeric(cols) /\ cols.name = "cols"
        /\ Numeric(density) /\ density.name = "density"
    BY DEF Numeric, F, ZeroIs
  <2> HIDE DEF rows, cols, density
  <2>2. Sized("TENSOR", <<rows, cols, F("dtype", 16, 1), F("sparse", 17, 1), density, F("fill", 22, 4)>>)
    BY <2>1, FieldIs DEF Sized, SizeFields
  <2> QED
    BY <2>2 DEF rows, cols, density
<1> QED
  BY <1>1, OpsOK DEF TensorOps

LEMMA IndexTable ==
  TableOK(IndexOps)
<1>1. Sizeless({"GATHER"}) /\ Sizeless({"RANK1_UPDATE"})
  BY DEF Sizeless, SizeFields
<1>2. Sized("DISTANCE", <<F("metric", 0, 1), F("topk", 1, 2)>>)
  BY FieldIs DEF Sized, SizeFields
<1> QED
  BY <1>1, <1>2, SizelessOK, OpsOK, MergedOK DEF IndexOps

LEMMA ArenaTable ==
  TableOK(ArenaOps)
<1>1. Sizeless({"ARENA_ALLOC"}) /\ Sizeless({"ARENA_RESET"}) /\ Sizeless({"MEMCPY"}) /\ Sizeless({"MEMSET"})
  BY DEF Sizeless, SizeFields
<1>2. Sized("SLICE", <<F("start", 0, 4), F("len", 4, 4)>>)
  BY FieldIs DEF Sized, SizeFields
<1> QED
  BY <1>1, <1>2, SizelessOK, OpsOK, MergedOK DEF ArenaOps

LEMMA DimsAre ==
  Sized("RESHAPE", Dims) /\ Sized("BROADCAST", Dims)
BY FieldIs DEF Dims, Sized, SizeFields

LEMMA SnapshotTable ==
  TableOK(SnapshotOps)
<1>1. Sizeless({"SNAPSHOT"}) /\ Sizeless({"RESTORE"}) /\ Sizeless({"PREFETCH"}) /\ Sizeless({"CONCAT"})
  BY DEF Sizeless, SizeFields
<1> QED
  BY <1>1, DimsAre, SizelessOK, OpsOK, MergedOK DEF SnapshotOps

LEMMA OrderTable ==
  TableOK(OrderOps)
<1>1. Sizeless({"SORT"}) /\ Sizeless({"ARGMAX"}) /\ Sizeless({"REDUCE"})
  BY DEF Sizeless, SizeFields
<1>2. Sized("TOPK", <<F("axis", 0, 1), F("k", 1, 2), F("largest", 3, 1), F("sorted", 4, 1)>>)
  BY FieldIs DEF Sized, SizeFields
<1>3. Sized("PAD", <<F("value", 0, 4), F("axis", 4, 1), F("before", 5, 4), F("after", 9, 4)>>)
  BY FieldIs DEF Sized, SizeFields
<1>4. Sized("TILE", <<F("reps", 0, 4), F("axis", 4, 1)>>)
  BY FieldIs DEF Sized, SizeFields
<1>5. Sized("TRANSPOSE", <<F("ndim", 0, 1), F("p0", 1, 1), F("p1", 2, 1), F("p2", 3, 1), F("p3", 4, 1)>>)
  BY FieldIs DEF Sized, SizeFields
<1> QED
  BY <1>1, <1>2, <1>3, <1>4, <1>5, DimsAre, SizelessOK, OpsOK, MergedOK DEF OrderOps

LEMMA StoreTable ==
  TableOK(StoreOps)
<1>1. /\ Sizeless({"FOREST"}) /\ Sizeless({"RAG_INDEX_ADD"}) /\ Sizeless({"RAG_INDEX_DEL", "EMBED_LOOKUP"})
      /\ Sizeless({"LOAD_MODEL"}) /\ Sizeless({"SPAWN_CONTEXT"}) /\ Sizeless({"KILL_CONTEXT"})
      /\ Sizeless({"SET_MODEL"})
  BY DEF Sizeless, SizeFields
<1>2. Sized("RAG_SEARCH", <<F("topk", 0, 2), F("metric", 2, 1)>>)
  BY FieldIs DEF Sized, SizeFields
<1>3. \A op \in {"PQ_ENCODE", "PQ_DECODE"} : Sized(op, <<F("nsub", 0, 2)>>)
  BY FieldIs DEF Sized, SizeFields
<1> QED
  BY <1>1, <1>2, <1>3, SizelessOK, OpsOK, MergedOK DEF StoreOps

LEMMA OpTableOK ==
  TableOK(OpTable)
BY PlainTables, CoreTable, TensorTable, IndexTable, ArenaTable, SnapshotTable, OrderTable, StoreTable,
   MergedOK DEF OpTable

\* Such an opcode is in the table.
LEMMA SizedListed ==
  \A e \in SizeFields : e[1] \in DOMAIN OpTable
<1>1. \A tables : \A i \in DOMAIN tables : DOMAIN tables[i] \subseteq DOMAIN Merged(tables)
  BY DEF Merged
<1>2. "TENSOR" \in DOMAIN TensorOps
  BY DEF TensorOps, Ops
<1>3. "SAMPLE" \in DOMAIN CoreOps
  BY OpsIs, <1>1 DEF CoreOps
<1>4. "DISTANCE" \in DOMAIN IndexOps
  BY OpsIs, <1>1 DEF IndexOps
<1>5. "SLICE" \in DOMAIN ArenaOps
  BY OpsIs, <1>1 DEF ArenaOps
<1>6. "RESHAPE" \in DOMAIN SnapshotOps
  BY OpsIs, <1>1 DEF SnapshotOps
<1>7. {"TOPK", "BROADCAST", "PAD", "TILE", "TRANSPOSE"} \subseteq DOMAIN OrderOps
  BY OpsIs, <1>1 DEF OrderOps
<1>8. {"RAG_SEARCH", "PQ_ENCODE", "PQ_DECODE"} \subseteq DOMAIN StoreOps
  BY OpsIs, <1>1 DEF StoreOps
<1>9. /\ DOMAIN TensorOps \subseteq DOMAIN OpTable /\ DOMAIN CoreOps \subseteq DOMAIN OpTable
      /\ DOMAIN IndexOps \subseteq DOMAIN OpTable /\ DOMAIN ArenaOps \subseteq DOMAIN OpTable
      /\ DOMAIN SnapshotOps \subseteq DOMAIN OpTable /\ DOMAIN OrderOps \subseteq DOMAIN OpTable
      /\ DOMAIN StoreOps \subseteq DOMAIN OpTable
  BY <1>1 DEF OpTable
<1> QED
  BY <1>2, <1>3, <1>4, <1>5, <1>6, <1>7, <1>8, <1>9 DEF SizeFields

\* A getter gives what it read where that is a number, else its default.
LEMMA SizesAre ==
  ASSUME NEW ins, NEW n, <<ins.op, n>> \in SizeFields
  PROVE  Params(ins)[n] \in Nat
<1> DEFINE row == OpTable[ins.op].layout
           names == {f.name : f \in ToSet(row)}
           k == CHOOSE k \in DOMAIN row : row[k].name = n
<1>1. Sized(ins.op, row)
  <2>1. <<ins.op, n>>[1] \in DOMAIN OpTable
    BY SizedListed
  <2> QED
    BY <2>1, OpTableOK DEF TableOK
<1>2. Params(ins) = Unit(ins, [m \in names |->
                      Get(ins.payload, row[CHOOSE j \in DOMAIN row : row[j].name = m])])
  BY DEF Params, Fields
<1> HIDE DEF row
<1>3. k \in DOMAIN row /\ row[k].name = n /\ Numeric(row[k])
  BY <1>1 DEF Sized
<1>4. n \in names
  BY <1>3 DEF ToSet
<1>5. ins.op # "RNG_UNIFORM"
  BY DEF SizeFields
<1>6. Params(ins)[n] = Get(ins.payload, row[k])
  BY <1>2, <1>4, <1>5 DEF Unit
<1> HIDE DEF k
<1>7. Get(ins.payload, row[k]) \in Nat
  BY <1>3 DEF Get, Numeric
<1> QED
  BY <1>6, <1>7

---------------------------------------------------------------------------
(* What an opcode makes of dense tensors is a dense tensor.                *)

Made(r) == r.res \notin {"err", "panic"} => Dense(r.out)

\* A tensor of a register: its shape is one, whatever the tensor.
HasShape(t) == t.shape \in Seq(Nat)

LEMMA Shapes ==
  /\ \A m, n \in Nat : <<m, n>> \in Seq(Nat)
  /\ \A n \in Nat : <<n>> \in Seq(Nat)
  /\ HasShape(NoTensor)
<1>1. <<>> \in Seq(Nat)
  OBVIOUS
<1> QED
  BY <1>1 DEF HasShape, NoTensor

LEMMA RanksAre ==
  ASSUME NEW t, HasShape(t)
  PROVE  /\ Len(t.shape) \in Nat /\ DOMAIN t.shape = 1 .. Len(t.shape)
         /\ \A i \in DOMAIN t.shape : t.shape[i] \in Nat
         /\ Two(t) => Rows(t) \in Nat /\ Cols(t) \in Nat
BY DEF HasShape, Two, Rank, Rows, Cols

LEMMA MatrixMade ==
  ASSUME NEW x, HasShape(x), NEW y, HasShape(y), NEW z, HasShape(z)
  PROVE  /\ Made(MatVec(x, y))
         /\ Made(Norm(x, y, z))
<1>1. Made(MatVec(x, y))
  BY RanksAre, Shapes DEF MatVec, Made, Dense, When, F32, Ok, Tensor, Fail
<1>2. Made(Norm(x, y, z))
  BY DEF Norm, Made, Dense, When, F32, Ok, Tensor, Fail, HasShape
<1> QED
  BY <1>1, <1>2

LEMMA FfnMade ==
  ASSUME NEW x, HasShape(x), NEW y, HasShape(y), NEW z, HasShape(z), NEW b, NEW c
  PROVE  Made(Ffn(x, y, z, b, c))
BY RanksAre, Shapes DEF Ffn, Made, Dense, When, F32, Ok, Tensor, Fail

LEMMA SortMade ==
  ASSUME NEW x, HasShape(x), NEW axis, NEW order
  PROVE  Made(Sort(x, axis, order))
<1>1. [x.shape EXCEPT ![axis + 1] = Dim(x, axis)] \in Seq(Nat)
  BY RanksAre, ShapeExcept DEF HasShape, Dim
<1> QED
  BY <1>1 DEF Sort, AlongLanes, Made, Dense, When, Ok, Tensor, Fail

\* Opcodes that replace one axis of the shape.
LEMMA AxisMade ==
  ASSUME NEW x, HasShape(x), NEW axis, NEW k \in Nat, NEW m \in Nat, NEW u, NEW v, NEW w
  PROVE  /\ Made(TopK(x, axis, k, u, v)) /\ Made(ArgMax(x, axis)) /\ Made(Reduce(x, u, axis))
         /\ Made(Pad(x, axis, k, m, u)) /\ Made(Tile(x, axis, k)) /\ Made(Softmax(x, axis, u))
         /\ \A y : HasShape(y) => Made(Gather(x, y, axis))
<1>1. \A at : at \in DOMAIN x.shape => x.shape[at] \in Nat
  BY RanksAre
<1>2. \A at, n : (at \in DOMAIN x.shape => n \in Nat) => [x.shape EXCEPT ![at] = n] \in Seq(Nat)
  BY ShapeExcept DEF HasShape
<1>3. Made(TopK(x, axis, k, u, v))
  <2>1. [x.shape EXCEPT ![axis + 1] = 2 * k] \in Seq(Nat)
    BY <1>2
  <2> QED
    BY <2>1 DEF TopK, AlongLanes, Made, Dense, When, Ok, Tensor, Fail
<1>4. [x.shape EXCEPT ![axis + 1] = 1] \in Seq(Nat)
  BY <1>2
<1>5. Made(ArgMax(x, axis))
  BY <1>4 DEF ArgMax, AlongLanes, Made, Dense, When, Ok, Tensor, Fail
<1>6. Made(Reduce(x, u, axis))
  BY <1>4, Shapes DEF Reduce, AlongLanes, Made, Dense, When, Ok, Tensor, Fail
<1>7. Made(Pad(x, axis, k, m, u))
  <2>1. axis + 1 \in DOMAIN x.shape => Dim(x, axis) + k + m \in Nat
    BY <1>1 DEF Dim
  <2>2. [x.shape EXCEPT ![axis + 1] = Dim(x, axis) + k + m] \in Seq(Nat)
    BY <1>2, <2>1
  <2> QED
    BY <2>2 DEF Pad, AlongLanes, Made, Dense, When, Ok, Tensor, Fail
<1>8. Made(Tile(x, axis, k))
  <2>1. axis + 1 \in DOMAIN x.shape => Dim(x, axis) * k \in Nat
    BY <1>1 DEF Dim
  <2>2. [x.shape EXCEPT ![axis + 1] = Dim(x, axis) * k] \in Seq(Nat)
    BY <1>2, <2>1
  <2> QED
    BY <2>2 DEF Tile, AlongLanes, Made, Dense, When, Ok, Tensor, Fail
<1>9. Made(Softmax(x, axis, u))
  <2> DEFINE at == IF axis = NoAxis THEN Len(x.shape) - 1 ELSE axis
  <2>1. [x.shape EXCEPT ![at + 1] = Dim(x, at)] \in Seq(Nat)
    BY <1>1, <1>2 DEF Dim
  <2> QED
    BY <2>1 DEF Softmax, AlongLanes, Made, Dense, When, Ok, Tensor, Fail
<1>10. ASSUME NEW y, HasShape(y)
       PROVE  Made(Gather(x, y, axis))
  <2>1. [x.shape EXCEPT ![axis + 1] = Numel(y.shape)] \in Seq(Nat)
    BY <1>2, <1>10, NumelIs DEF HasShape
  <2>2. AsF32(x).shape = x.shape
    BY DEF AsF32, Tensor
  <2> QED
    BY <2>1, <2>2 DEF Gather, AlongLanes, Made, Dense, When, Ok, Tensor, Fail
<1> QED
  BY <1>3, <1>5, <1>6, <1>7, <1>8, <1>9, <1>10

\* Opcodes that keep the shape of an operand.
LEMMA SameShapeMade ==
  ASSUME NEW x, HasShape(x), NEW y, HasShape(y), NEW z, HasShape(z), NEW u, NEW v, NEW w, NEW a, NEW b
  PROVE  /\ Made(Unary(x, u)) /\ Made(Clip(x, u, v)) /\ Made(Add(x, y)) /\ Made(Mul(x, y))
         /\ Made(Cast(x, u)) /\ Made(Quantize(x, u)) /\ Made(Dequant(x))
         /\ Made(Rope(x, u, v, w))
         /\ Made(Scatter(x, y, u, v, z))
         /\ Made(Rank1(x, y, z, a, u, v, w))
         /\ Made(When(Readable(x), F32(x.shape, [j \in DOMAIN Floats(x) |-> Kernel("silu", <<Floats(x)[j]>>)])))
<1>1. Made(Unary(x, u)) /\ Made(Clip(x, u, v))
  BY DEF Unary, Clip, HasShape, Made, Dense, When, Ok, Tensor, Fail
<1>2. Made(Add(x, y)) /\ Made(Mul(x, y))
  BY DEF Add, Mul, Binary, HasShape, Made, Dense, When, Ok, Tensor, Fail
<1>3. Made(Cast(x, u)) /\ Made(Quantize(x, u)) /\ Made(Dequant(x))
  BY DEF Cast, Quantize, Dequant, HasShape, Made, Dense, When, Ok, Tensor, Fail
<1>4. Made(Rope(x, u, v, w))
  BY DEF Rope, F32, HasShape, Made, Dense, When, Ok, Tensor, Fail
<1>5. Made(Scatter(x, y, u, v, z))
  BY DEF Scatter, F32, HasShape, Made, Dense, When, Ok, Tensor, Fail
<1>6. Made(Rank1(x, y, z, a, u, v, w))
  BY DEF Rank1, F32, HasShape, Made, Dense, When, Ok, Tensor, Fail
<1>7. Made(When(Readable(x), F32(x.shape, [j \in DOMAIN Floats(x) |-> Kernel("silu", <<Floats(x)[j]>>)])))
  BY DEF F32, HasShape, Made, Dense, When, Ok, Tensor, Fail
<1> QED
  BY <1>1, <1>2, <1>3, <1>4, <1>5, <1>6, <1>7

LEMMA MinOf ==
  ASSUME NEW x \in Nat, NEW y \in Nat
  PROVE  Min({x, y}) \in Nat
<1>1. \E m \in {x, y} : \A k \in {x, y} : m <= k
  OBVIOUS
<1> QED
  BY <1>1 DEF Min

LEMMA SidesAre ==
  ASSUME NEW t, HasShape(t)
  PROVE  /\ Two(t) => Rows(t) \in Nat /\ Cols(t) \in Nat
         /\ ~(Rank(t) < 2) => Rows(t) \in Nat /\ Cols(t) \in Nat
<1>1. Len(t.shape) \in Nat /\ \A i \in 1 .. Len(t.shape) : t.shape[i] \in Nat
  BY RanksAre
<1>2. ASSUME Two(t) \/ ~(Rank(t) < 2)
      PROVE  1 \in 1 .. Len(t.shape) /\ 2 \in 1 .. Len(t.shape)
  <2>1. \A r \in Nat : r = 2 \/ ~(r < 2) => r >= 2
    OBVIOUS
  <2>2. Len(t.shape) >= 2
    BY <1>1, <1>2, <2>1 DEF Two, Rank
  <2> QED
    BY <1>1, <2>2
<1> QED
  BY <1>1, <1>2 DEF Rows, Cols

\* Opcodes that make a matrix, a row or a window.
LEMMA RowMade ==
  ASSUME NEW x, HasShape(x), NEW y, HasShape(y), NEW z, HasShape(z), NEW n \in Nat, NEW m \in Nat, NEW u, NEW v
  PROVE  /\ Made(Attn(x, y, z)) /\ Made(Embed(u, x)) /\ Made(EmbedLookup(x, y))
         /\ Made(Distance(x, y, u, n)) /\ Made(SampleTopK(u, m, n)) /\ Made(Search(x, u, v, n))
         /\ Made(PqEncode(x, y, n)) /\ Made(PqDecode(x, y, n)) /\ Made(Slice(x, u, n))
<1>1. \A i, j \in Nat : <<i, j>> \in Seq(Nat)
  BY Shapes
<1>2. ASSUME NEW t, HasShape(t)
      PROVE  /\ Two(t) => Rows(t) \in Nat /\ Cols(t) \in Nat
             /\ ~(Rank(t) < 2) => Rows(t) \in Nat /\ Cols(t) \in Nat
  BY <1>2, SidesAre
<1>3. Made(Attn(x, y, z))
  BY <1>1, <1>2 DEF Attn, F32, Panic, Made, Dense, When, Ok, Tensor, Fail
<1>4. Made(Embed(u, x))
  BY <1>1, <1>2 DEF Embed, F32, Panic, Made, Dense, When, Ok, Tensor, Fail
<1>5. Made(EmbedLookup(x, y))
  BY <1>1, <1>2 DEF EmbedLookup, F32, Made, Dense, When, Ok, Tensor, Fail
<1>6. Made(Distance(x, y, u, n))
  <2>1. Two(y) => Min({n, Rows(y)}) \in Nat /\ 2 * Min({n, Rows(y)}) \in Nat
    BY <1>2, MinOf
  <2> QED
    BY <1>1, <1>2, <2>1 DEF Distance, F32, Made, Dense, When, Ok, Tensor, Fail
<1>8. Made(Search(x, u, v, n))
  BY <1>1 DEF Search, F32, Made, Dense, When, Ok, Tensor, Fail
<1>9. Made(PqEncode(x, y, n))
  BY <1>1, Zenon DEF PqEncode, F32, Made, Dense, When, Ok, Tensor, Fail
<1>10. Made(PqDecode(x, y, n))
  <2>1. PqShape(n * Cols(y), n, y) => Cols(y) \in Nat
    BY <1>2 DEF PqShape
  <2> QED
    BY <1>1, <2>1 DEF PqDecode, F32, Made, Dense, When, Ok, Tensor, Fail
<1>11. Made(Slice(x, u, n))
  BY <1>1 DEF Slice, F32, Made, Dense, When, Ok, Tensor, Fail
<1>12. Made(SampleTopK(u, m, n))
  BY <1>1, MinOf DEF SampleTopK, F32, Made, Dense, When, Ok, Tensor, Fail
<1> QED
  BY <1>3, <1>4, <1>5, <1>6, <1>8, <1>9, <1>10, <1>11, <1>12

\* The dimensions of a target, as far as there are numbers for them.
LEMMA TargetIs ==
  ASSUME NEW p, p.ndim \in Nat, p.d0 \in Nat, p.d1 \in Nat, p.d2 \in Nat, p.d3 \in Nat,
         Len(DimsOf(p)) \in 1 .. 4
  PROVE  DimsOf(p) \in Seq(Nat)
<1> DEFINE q == <<p.d0, p.d1, p.d2, p.d3>>
           s == SubSeq(q, 1, p.ndim)
<1>1. \A i \in 1 .. 4 : q[i] \in Nat
  OBVIOUS
<1>2. s = [i \in 1 .. p.ndim |-> q[(1 + i) - 1]]
  OBVIOUS
<1>3. Len(s) = p.ndim
  BY <1>2
<1>4. p.ndim \in 1 .. 4
  BY <1>3 DEF DimsOf
<1> HIDE DEF q
<1>5. s \in Seq(Nat)
  <2>1. ASSUME NEW i \in 1 .. p.ndim
        PROVE  q[(1 + i) - 1] \in Nat
    <3>1. (1 + i) - 1 = i /\ i \in 1 .. 4
      BY <1>4
    <3> QED
      BY <1>1, <3>1
  <2> HIDE DEF s
  <2>2. s \in [1 .. p.ndim -> Nat]
    BY <1>2, <2>1
  <2> QED
    BY <2>2, SeqDef
<1> QED
  BY <1>5 DEF DimsOf, q

LEMMA TargetMade ==
  ASSUME NEW x, HasShape(x), NEW p, p.ndim \in Nat, p.d0 \in Nat, p.d1 \in Nat, p.d2 \in Nat, p.d3 \in Nat
  PROVE  Made(Broadcast(x, DimsOf(p))) /\ Made(Reshape(x, DimsOf(p)))
<1> DEFINE target == DimsOf(p)
<1>1. Len(target) \in 1 .. 4 => target \in Seq(Nat)
  BY TargetIs
<1> HIDE DEF target
<1>2. Made(Broadcast(x, target))
  BY <1>1 DEF Broadcast, Panic, Made, Dense, When, Ok, Tensor, Fail
<1>3. Made(Reshape(x, target))
  BY <1>1 DEF Reshape, Made, Dense, When, Ok, Tensor, Fail
<1> QED
  BY <1>2, <1>3 DEF target

LEMMA TransposeMade ==
  ASSUME NEW x, HasShape(x), NEW p, p.ndim \in Nat
  PROVE  Made(Transpose(x, Axes(p)))
<1> DEFINE perm == Axes(p)
           rank == Len(x.shape)
           shape == [i \in 1 .. rank |-> x.shape[perm[i] + 1]]
           ok == Len(perm) = rank /\ ToSet(perm) = 0 .. (rank - 1)
<1>1. rank \in Nat /\ DOMAIN x.shape = 1 .. rank /\ \A i \in 1 .. rank : x.shape[i] \in Nat
  BY RanksAre
<1>2. DOMAIN perm = 1 .. p.ndim /\ Len(perm) = p.ndim
  BY DEF Axes
<1> HIDE DEF perm, rank
<1>3. ok => shape \in Seq(Nat)
  <2> HAVE ok
  <2>1. ASSUME NEW i \in 1 .. rank
        PROVE  x.shape[perm[i] + 1] \in Nat
    <3>1. i \in DOMAIN perm
      BY <1>2
    <3>2. perm[i] \in 0 .. (rank - 1)
      BY <3>1 DEF ToSet
    <3>3. perm[i] + 1 \in 1 .. rank
      BY <1>1, <3>2
    <3> QED
      BY <1>1, <3>3
  <2>2. shape \in [1 .. rank -> Nat]
    BY <2>1
  <2> QED
    BY <1>1, <2>2, SeqDef
<1>4. Transpose(x, perm).res \notin {"err", "panic"} => ok /\ Dense(Transpose(x, perm).out)
  BY <1>3, Zenon DEF Transpose, rank, Dense, When, Ok, Tensor, Fail
<1> QED
  BY <1>4 DEF Made, perm

LEMMA ConcatMade ==
  ASSUME NEW x, HasShape(x), NEW y, HasShape(y), NEW axis
  PROVE  Made(Concat(x, y, axis))
<1> DEFINE s == [x.shape EXCEPT ![axis + 1] = @ + y.shape[axis + 1]]
           n == x.shape[axis + 1] + y.shape[axis + 1]
<1>1. ASSUME Len(x.shape) = Len(y.shape)
      PROVE  s \in Seq(Nat)
  <2>1. axis + 1 \in DOMAIN x.shape => n \in Nat
    BY <1>1, RanksAre
  <2>2. s = [x.shape EXCEPT ![axis + 1] = n]
    OBVIOUS
  <2> HIDE DEF n, s
  <2> QED
    BY <2>1, <2>2, ShapeExcept DEF HasShape
<1> QED
  BY <1>1 DEF Concat, Made, Dense, When, Ok, Tensor, Fail

LEMMA FieldsAre ==
  ASSUME NEW ins, NEW p, p = Params(ins)
  PROVE  /\ ins.op = "TENSOR" => p.rows \in Nat /\ p.cols \in Nat /\ p.density \in Nat
         /\ ins.op = "TOPK" => p.k \in Nat
         /\ ins.op = "PAD" => p.before \in Nat /\ p.after \in Nat
         /\ ins.op = "TILE" => p.reps \in Nat
         /\ ins.op = "TRANSPOSE" => p.ndim \in Nat
         /\ ins.op = "SLICE" => p.len \in Nat
         /\ ins.op \in {"DISTANCE", "SAMPLE", "RAG_SEARCH"} => p.topk \in Nat
         /\ ins.op \in {"PQ_ENCODE", "PQ_DECODE"} => p.nsub \in Nat
         /\ ins.op \in {"BROADCAST", "RESHAPE"} =>
              p.ndim \in Nat /\ p.d0 \in Nat /\ p.d1 \in Nat /\ p.d2 \in Nat /\ p.d3 \in Nat
<1>1. \A n : <<ins.op, n>> \in SizeFields => p[n] \in Nat
  BY SizesAre
<1> QED
  BY <1>1 DEF SizeFields

Shaped == \A a \in DOMAIN heap : HasShape(heap[a])

LEMMA OperandIs ==
  ASSUME Shaped, NEW r
  PROVE  HasShape(TensorAt(r))
BY Shapes DEF Shaped, TensorAt, HasTensor

LEMMA ReshapedMade ==
  ASSUME NEW ins, NEW p, p = Params(ins), NEW x, HasShape(x), NEW y, HasShape(y)
  PROVE  Made(Reshaped(ins.op, p, x, y))
<1> DEFINE op == ins.op
           r == Reshaped(op, p, x, y)
<1>1. CASE op = "SORT"
  BY <1>1, SortMade DEF Reshaped
<1>2. CASE op = "TOPK"
  BY <1>2, FieldsAre, AxisMade DEF Reshaped
<1>3. CASE op = "ARGMAX"
  BY <1>3, AxisMade DEF Reshaped
<1>4. CASE op = "REDUCE"
  BY <1>4, AxisMade DEF Reshaped
<1>5. CASE op = "BROADCAST"
  BY <1>5, FieldsAre, TargetMade DEF Reshaped
<1>6. CASE op = "PAD"
  BY <1>6, FieldsAre, AxisMade DEF Reshaped
<1>7. CASE op = "TILE"
  BY <1>7, FieldsAre, AxisMade DEF Reshaped
<1>8. CASE op = "TRANSPOSE"
  BY <1>8, FieldsAre, TransposeMade DEF Reshaped
<1>9. CASE op = "SOFTMAX"
  BY <1>9, AxisMade DEF Reshaped
<1>10. CASE op = "CLIP"
  BY <1>10, SameShapeMade DEF Reshaped
<1>11. CASE op = "RESHAPE"
  BY <1>11, FieldsAre, TargetMade DEF Reshaped
<1>12. CASE op = "CONCAT"
  BY <1>12, ConcatMade DEF Reshaped
<1>13. CASE op = "SLICE"
  BY <1>13, FieldsAre, RowMade DEF Reshaped
<1>14. CASE op = "CAST"
  BY <1>14, SameShapeMade DEF Reshaped
<1>15. CASE op = "QUANTIZE"
  BY <1>15, SameShapeMade DEF Reshaped
<1>16. CASE op = "DEQUANT"
  BY <1>16, SameShapeMade DEF Reshaped
<1>17. CASE op \notin {"SORT", "TOPK", "ARGMAX", "REDUCE", "BROADCAST", "PAD", "TILE", "TRANSPOSE", "SOFTMAX",
                       "CLIP", "RESHAPE", "CONCAT", "SLICE", "CAST", "QUANTIZE", "DEQUANT"}
  BY <1>17, SameShapeMade DEF Reshaped
<1> QED
  BY <1>1, <1>2, <1>3, <1>4, <1>5, <1>6, <1>7, <1>8, <1>9, <1>10, <1>11, <1>12, <1>13, <1>14, <1>15, <1>16, <1>17

LEMMA CombinedMade ==
  ASSUME NEW ins, NEW p, p = Params(ins), ins.op \in Combining,
         NEW x, HasShape(x), NEW y, HasShape(y), NEW z, HasShape(z)
  PROVE  Made(Combined(ins.op, p, x, y, z))
<1> DEFINE op == ins.op
<1>1. CASE op \in {"ADD", "MUL"}
  BY <1>1, SameShapeMade DEF Combined
<1>2. CASE op = "SILU"
  BY <1>2, SameShapeMade DEF Combined
<1>3. CASE op \in {"MATVEC", "NORM"}
  BY <1>3, MatrixMade DEF Combined
<1>4. CASE op = "FFN"
  BY <1>4, FfnMade DEF Combined
<1>5. CASE op = "ROPE"
  <2>1. Made(Rope(x, p.pos, p.headdim, p.heads)) /\ Made(Fail)
    BY SameShapeMade DEF Made, Fail
  <2> QED
    BY <1>5, <2>1 DEF Combined, When
<1>6. CASE op = "EMBED_LOOKUP"
  BY <1>6, RowMade DEF Combined
<1>7. CASE op = "GATHER"
  <2>1. /\ Made(Gather(x, y, p.axis)) /\ Made(Scatter(x, y, p.axis, Scatters[p.mode + 1], z)) /\ Made(Fail)
    BY AxisMade, SameShapeMade DEF Made, Fail
  <2> QED
    BY <1>7, <2>1 DEF Combined, When
<1>8. CASE op = "DISTANCE"
  BY <1>8, FieldsAre, RowMade DEF Combined
<1>9. CASE op = "PQ_ENCODE"
  BY <1>9, FieldsAre, RowMade DEF Combined
<1>10. CASE op = "PQ_DECODE"
  BY <1>10, FieldsAre, RowMade DEF Combined
<1> QED
  BY <1>1, <1>2, <1>3, <1>4, <1>5, <1>6, <1>7, <1>8, <1>9, <1>10 DEF Combining

LEMMA ResultMade ==
  ASSUME Shaped, NEW ins, NEW p, p = Params(ins)
  PROVE  Made(Result(ins, p))
<1> DEFINE x == TensorAt(ins.a)
           y == TensorAt(ins.b)
           z == TensorAt(ins.c)
<1>1. HasShape(x) /\ HasShape(y) /\ HasShape(z)
  BY OperandIs
<1>2. Made(Fail)
  BY DEF Made, Fail
<1>3. ins.op \in Combining => Made(Combined(ins.op, p, x, y, z))
  BY <1>1, CombinedMade
<1>4. Made(Reshaped(ins.op, p, x, y))
  BY <1>1, ReshapedMade
<1> QED
  BY <1>2, <1>3, <1>4 DEF Result

\* A tensor the memory may hold: dense or sparse, with a size.
Storable(t) ==
  /\ DOMAIN t = {"shape", "dtype", "data", "sparse"}
  /\ t.shape \in Seq(Nat)
  /\ TensorBytes(t) \in Nat \ {0}

LEMMA DenseStorable ==
  ASSUME NEW t, Dense(t), TensorBytes(t) # 0
  PROVE  Storable(t)
BY DenseBytes DEF Dense, Storable, Tensor

LEMMA StorableShape ==
  ASSUME NEW t, Storable(t)
  PROVE  HasShape(t)
BY DEF Storable, HasShape

---------------------------------------------------------------------------
(* What a step does to the memory.                                         *)

Patchwork(a, d) ==
  /\ heap' = [heap EXCEPT ![a] = [heap[a] EXCEPT !.data = d]]
  /\ UNCHANGED <<cursor, saved, version>>
Puts    == \E t : Storable(t) /\ Allocate(t)
Patches == \E a \in DOMAIN heap : ~heap[a].sparse /\ \E d : Patchwork(a, d)
Saves   == version' = version + 1 /\ saved' = With(saved, version + 1, heap) /\ UNCHANGED <<heap, cursor>>
Backs   == \E v \in DOMAIN saved : Restored(v)
MemoryStep == UNCHANGED memVars \/ Puts \/ Patches \/ Saves \/ Backs

LEMMA DeliverIs ==
  ASSUME NEW t, TensorBytes(t) # 0 => Storable(t), NEW ins, Deliver(t, ins)
  PROVE  UNCHANGED memVars \/ Puts
BY DEF Deliver, Puts, Refuse

LEMMA CompleteIs ==
  ASSUME NEW r, Made(r), NEW ins, Complete(r, ins)
  PROVE  UNCHANGED memVars \/ Puts
<1>1. CASE r.res \notin {"err", "panic"}
  <2>1. Dense(r.out)
    BY <1>1 DEF Made
  <2>2. Deliver(r.out, ins)
    BY <1>1 DEF Complete
  <2> QED
    BY <2>1, <2>2, DenseStorable, DeliverIs
<1>2. CASE r.res \in {"err", "panic"}
  BY <1>2 DEF Complete, Crashes, Refuse
<1> QED
  BY <1>1, <1>2

LEMMA SparseStorable ==
  ASSUME NEW n \in Nat, NEW r \in Nat, NEW c \in Nat, NEW dtype
  PROVE  Storable(SparseOf(<<r, c>>, dtype, n))
<1> DEFINE shape == <<r, c>>
           t == SparseOf(shape, dtype, n)
           w == Width(dtype) + 4
<1>1. shape \in Seq(Nat)
  BY Shapes
<1>2. n \in Nat
  OBVIOUS
<1>3. /\ DOMAIN t = {"shape", "dtype", "data", "sparse"}
      /\ t.shape = shape /\ t.dtype = dtype /\ t.sparse = TRUE
      /\ t.data = [j \in 1 .. n |-> 0]
  BY DEF SparseOf
<1> HIDE DEF t
<1>4. Len(t.data) = n
  BY <1>2, <1>3
<1>5. t.shape[1] = r
  BY <1>3
<1> DEFINE b == n * w + (r + 1) * 4
<1>6. b \in Nat
  <2>1. w \in Nat
    BY DEF Width
  <2>2. \A x, y \in Nat : x * y \in Nat
    OBVIOUS
  <2>3. n * w \in Nat
    BY <1>2, <2>1, <2>2
  <2>4. (r + 1) * 4 \in Nat
    OBVIOUS
  <2> QED
    BY <2>3, <2>4
<1>7. TensorBytes(t) = Max({64, b})
  BY <1>3, <1>4, <1>5 DEF TensorBytes
<1> HIDE DEF b
<1>8. TensorBytes(t) \in Nat \ {0}
  BY <1>6, <1>7, MaxOf
<1> QED
  BY <1>1, <1>3, <1>8 DEF Storable, t

LEMMA SparseTensorIs ==
  ASSUME NEW p, p.density \in Nat, NEW r \in Nat, NEW c \in Nat, NEW dtype
  PROVE  Storable(SparseTensor(p, <<r, c>>, dtype))
<1> DEFINE n == (Numel(<<r, c>>) * p.density) \div 100
<1>1. n \in Nat
  <2>1. Numel(<<r, c>>) \in Nat
    BY Shapes, NumelIs
  <2>2. \A x, y \in Nat : x * y \in Nat
    OBVIOUS
  <2>3. \A x \in Nat : x \div 100 \in Nat
    OBVIOUS
  <2> QED
    BY <2>1, <2>2, <2>3
<1> QED
  BY <1>1, SparseStorable DEF SparseTensor

\* Of a sparse operand ATTN makes a tensor that can be stored, or none.
LEMMA SparseAttnIs ==
  ASSUME NEW q, HasShape(q), NEW k, NEW v, HasShape(v), NEW r \in SparseAttn(q, k, v)
  PROVE  r.res \notin {"err", "panic"} => Storable(r.out)
<1> DEFINE n == Rows(q) * Cols(v)
<1>1. r \in {Panic, Fail} => r.res \in {"err", "panic"}
  BY DEF Panic, Fail
<1>2. CASE ~(Rank(q) < 2) /\ ~(Rank(v) < 2)
  <2>1. Rows(q) \in Nat /\ Cols(v) \in Nat
    BY <1>2, SidesAre
  <2>2. n \in Nat
    BY <2>1
  <2> HIDE DEF n
  <2>3. \A stored \in (n \div 100)..n : stored \in Nat
    BY <2>2
  <2>4. \/ r \in {Panic, Fail}
        \/ \E stored \in (n \div 100)..n : r = [res |-> "ok", out |-> SparseOf(<<Rows(q), Cols(v)>>, "F32", stored)]
    BY DEF SparseAttn, n
  <2> QED
    BY <1>1, <2>1, <2>3, <2>4, SparseStorable
<1>3. CASE Rank(q) < 2 \/ Rank(v) < 2
  BY <1>1, <1>3 DEF SparseAttn
<1> QED
  BY <1>2, <1>3

LEMMA NewTensorIs ==
  ASSUME NEW ins, ins = Current, NEW p, p = Params(ins), NewTensor(ins, p)
  PROVE  UNCHANGED memVars \/ Puts
<1> DEFINE r == TensorRowCount(ins, p)
           shape == <<r, p.cols>>
           dtype == TensorDType(ins, p)
           t == Tensor(shape, dtype, Flat(Numel(shape), LAMBDA j : 0))
<1>1. p.rows \in Nat /\ p.cols \in Nat /\ p.density \in Nat
  BY FieldsAre DEF NewTensor, Fetches
<1>2. r \in Nat
  <2>1. ASSUME NEW m, NEW n \in 1 .. m
        PROVE  n \in Nat
    OBVIOUS
  <2>2. regs[ins.a] \in 1 .. (RowLimit - 1) => regs[ins.a] \in Nat
    BY ONLY <2>1, Zenon
  <2> QED
    BY <1>1, <2>2, Zenon DEF TensorRowCount
<1>3. shape \in Seq(Nat)
  BY <1>1, <1>2, Shapes
<1>4. MakeTensorOf(ins, p, shape, dtype)
  BY DEF NewTensor
<1>5. Storable(SparseTensor(p, shape, dtype))
  BY <1>1, <1>2, SparseTensorIs
<1>6. Dense(DenseTensor(ins, p, shape, dtype))
  BY <1>3 DEF Dense, DenseTensor, Tensor
<1>7. CASE p.sparse = 0 /\ Numel(shape) # 0 /\ Filled(ins) /\ dtype # "F32"
  <2>1. Allocate(t)
    BY <1>4, <1>7 DEF MakeTensorOf
  <2>2. Dense(t) /\ t.dtype = dtype /\ t.shape = shape /\ t.sparse = FALSE
    BY <1>3 DEF Dense, Tensor
  <2> HIDE DEF t
  <2>3. dtype \in Plain /\ Width(dtype) \in Nat \ {0}
    BY DEF TensorDType, TensorType, Plain, Width
  <2>4. TensorBytes(t) = Numel(shape) * Width(dtype)
    BY <2>2, <2>3 DEF TensorBytes
  <2>5. Numel(shape) \in Nat \ {0}
    BY <1>3, <1>7, NumelIs
  <2>6. \A x, y \in Nat \ {0} : x * y # 0
    OBVIOUS
  <2>7. TensorBytes(t) # 0
    BY <2>3, <2>4, <2>5, <2>6
  <2> QED
    BY <2>1, <2>2, <2>7, DenseStorable DEF Puts
<1>8. CASE ~(p.sparse = 0 /\ Numel(shape) # 0 /\ Filled(ins) /\ dtype # "F32")
  <2> DEFINE made == IF p.sparse = 1 THEN SparseTensor(p, shape, dtype) ELSE DenseTensor(ins, p, shape, dtype)
  <2>1. Deliver(made, ins)
    BY <1>4, <1>8 DEF MakeTensorOf
  <2>2. TensorBytes(made) # 0 => Storable(made)
    BY <1>5, <1>6, DenseStorable
  <2> QED
    BY <2>1, <2>2, DeliverIs
<1> QED
  BY <1>7, <1>8

\* MEMCPY and MEMSET write into a tensor that is there.
LEMMA BytesAre ==
  ASSUME NEW ins, NEW p, CopyBytes(ins, p) \/ FillBytes(ins, p)
  PROVE  UNCHANGED memVars \/ Patches
<1> DEFINE a == regs[ins.d]
<1>1. ASSUME NEW t, t = TensorAt(ins.d), HasTensor(ins.d), ~t.sparse,
             NEW at, NEW len, NEW whole(_),
             heap' = [heap EXCEPT ![a] = Patched(t, at, len, whole)],
             UNCHANGED <<cursor, saved, version>>
      PROVE  Patches
  <2>1. a \in DOMAIN heap /\ t = heap[a]
    BY <1>1 DEF HasTensor, TensorAt
  <2>2. PICK d : Patched(t, at, len, whole) = [t EXCEPT !.data = d]
    BY DEF Patched
  <2> QED
    BY <1>1, <2>1, <2>2 DEF Patches, Patchwork
<1>2. CASE CopyBytes(ins, p)
  BY <1>1, <1>2 DEF CopyBytes, Refuse
<1>3. CASE FillBytes(ins, p)
  BY <1>1, <1>3 DEF FillBytes, Refuse
<1> QED
  BY <1>2, <1>3

LEMMA AttentionIs ==
  ASSUME Shaped, NEW ins, NEW p, Attention(ins, p)
  PROVE  UNCHANGED memVars \/ Puts
<1> DEFINE q == Attended(ins.a)
           k == Attended(ins.b)
           v == Attended(ins.c)
<1>1. HasShape(q) /\ HasShape(k) /\ HasShape(v)
  BY OperandIs, Shapes DEF Attended, HasShape, Tensor
<1> HIDE DEF q, k, v
<1>2. Made(Attn(q, k, v)) /\ Made(Fail)
  BY <1>1, RowMade DEF Made, Fail
<1>3. \/ Refuse
      \/ \E result \in SparseAttn(q, k, v) : Complete(result, ins)
      \/ Complete(Attn(q, k, v), ins) \/ Complete(Fail, ins)
  BY DEF Attention, Finish, q, k, v
<1>4. ASSUME NEW r \in SparseAttn(q, k, v), Complete(r, ins)
      PROVE  UNCHANGED memVars \/ Puts
  <2>1. r.res \notin {"err", "panic"} => Storable(r.out)
    BY <1>1, SparseAttnIs
  <2> QED
    BY <1>4, <2>1, DeliverIs DEF Complete, Crashes, Refuse
<1> QED
  BY <1>2, <1>3, <1>4, CompleteIs DEF Refuse

LEMMA ExecuteMemory ==
  ASSUME Shaped, NEW ins, ins = Current, NEW p, p = Params(ins), Execute(ins, p)
  PROVE  MemoryStep
<1>1. CASE NewTensor(ins, p)
  BY <1>1, NewTensorIs DEF MemoryStep
<1>2. CASE Compute(ins, p)
  <2>1. Made(Result(ins, p)) /\ Complete(Result(ins, p), ins)
    BY <1>2, ResultMade DEF Compute, Finish
  <2> QED
    BY <2>1, CompleteIs DEF MemoryStep
<1>3. CASE EmbedRow(ins, p)
  <2>1. \A token : Made(Embed(token, TensorAt(ins.b)))
    BY OperandIs, RowMade
  <2>2. Made(Fail)
    BY DEF Made, Fail
  <2>3. Complete(Fail, ins) \/ \E token : Complete(Embed(token, TensorAt(ins.b)), ins)
    BY <1>3 DEF EmbedRow
  <2> QED
    BY <2>1, <2>2, <2>3, CompleteIs DEF MemoryStep
<1>4. CASE Sample(ins, p)
  <2>1. p.topk \in Nat
    BY <1>4, FieldsAre DEF Sample, Fetches
  <2>2. LogitCount(ins) \in Nat
    BY OperandIs, NumelIs DEF LogitCount, HasShape
  <2>3. Made(SampleTopK(Logits(ins), LogitCount(ins), p.topk))
    BY <2>1, <2>2, OperandIs, RowMade
  <2>4. CASE RegOrNone(ins.a) /\ p.topk > 0
    BY <1>4, <2>3, <2>4, CompleteIs DEF Sample, MemoryStep
  <2>5. CASE ~(RegOrNone(ins.a) /\ p.topk > 0)
    BY <1>4, <2>5 DEF Sample, Refuse, MemoryStep
  <2> QED
    BY <2>4, <2>5
<1>5. CASE RagSearch(ins, p)
  <2> DEFINE found == Search(TensorAt(ins.a), Rag.idx[regs[ins.b]], RagMetrics[p.metric + 1], p.topk)
  <2>1. p.topk \in Nat
    BY <1>5, FieldsAre DEF RagSearch, Fetches
  <2>2. Made(found) /\ Made(Fail)
    BY <2>1, OperandIs, RowMade DEF Made, Fail
  <2>3. PICK r : Made(r) /\ Complete(r, ins)
    BY <1>5, <2>2 DEF RagSearch, FoundBy
  <2> QED
    BY <2>3, CompleteIs DEF MemoryStep
<1>6. CASE RankOne(ins, p)
  <2>1. ASSUME NEW r, Made(r), PutRankOne(r, ins, p)
        PROVE  MemoryStep
    <3>1. CASE r.res = "ok" /\ TensorBytes(r.out) > 0
      <4>1. Dense(r.out) /\ Allocate(r.out)
        BY <2>1, <3>1 DEF Made, PutRankOne
      <4>2. TensorBytes(r.out) # 0
        BY <3>1
      <4> QED
        BY <4>1, <4>2, DenseStorable DEF MemoryStep, Puts
    <3>2. CASE ~(r.res = "ok" /\ TensorBytes(r.out) > 0)
      BY <2>1, <3>2 DEF PutRankOne, Refuse, MemoryStep
    <3> QED
      BY <3>1, <3>2
  <2>2. ASSUME NEW mask
        PROVE  Made(Rank1(TensorAt(ins.d), TensorAt(ins.a), TensorAt(ins.b), mask,
                          Learning[p.mode + 1], p.alpha, p.beta))
    BY OperandIs, SameShapeMade
  <2>3. Made(Fail)
    BY DEF Made, Fail
  <2>4. PICK r : Made(r) /\ PutRankOne(r, ins, p)
    BY <1>6, <2>2, <2>3 DEF RankOne
  <2> QED
    BY <2>1, <2>4
<1>7. CASE Move(ins, p) \/ Compare(ins, p) \/ Jump(ins, p) \/ Call(p) \/ Ret
  BY <1>7 DEF Move, Compare, Jump, Call, Ret, Refuse, MemoryStep
<1>8. CASE ArenaAlloc(ins, p) \/ ArenaReset(p) \/ Halt \/ Nop
  BY <1>8 DEF ArenaAlloc, ArenaReset, Halt, Nop, Refuse, MemoryStep
<1>9. CASE CopyBytes(ins, p) \/ FillBytes(ins, p)
  BY <1>9, BytesAre DEF MemoryStep
<1>10. CASE RagAdd(ins) \/ RagDel(ins)
  BY <1>10 DEF RagAdd, RagDel, Refuse, MemoryStep
<1>11. CASE TakeSnapshot(ins, p)
  BY <1>11 DEF TakeSnapshot, Saves, Refuse, MemoryStep
<1>12. CASE RestoreTo(ins)
  BY <1>12 DEF RestoreTo, Backs, Refuse, MemoryStep
<1>13. CASE Attention(ins, p)
  BY <1>13, AttentionIs DEF MemoryStep
<1> QED
  BY <1>1, <1>2, <1>3, <1>4, <1>5, <1>6, <1>7, <1>8, <1>9, <1>10, <1>11, <1>12, <1>13 DEF Execute

---------------------------------------------------------------------------
(* Addresses: the live map of tensors and every saved one agree on what    *)
(* stands where, and all of it is below the cursor.                        *)

Below(m, c) ==
  \A a \in DOMAIN m : a \in Nat /\ a % 64 = 0 /\ Storable(m[a]) /\ a + TensorBytes(m[a]) <= c
Agree(m, n) ==
  \A a \in DOMAIN m, b \in DOMAIN n :
    /\ a = b => m[a].shape = n[b].shape /\ m[a].dtype = n[b].dtype
    /\ a < b => a + TensorBytes(m[a]) <= b
Maps == {heap} \cup Range(saved)
MapsOK(maps, c) ==
  /\ \A m \in maps : Below(m, c)
  /\ \A m, n \in maps : Agree(m, n)
CursorOK == cursor \in Nat /\ cursor % 64 = 0
MemoryInv ==
  /\ CursorOK
  /\ version \in Nat /\ DOMAIN saved = 1 .. version
  /\ MapsOK(Maps, cursor)

LEMMA InvIsShaped ==
  ASSUME MemoryInv
  PROVE  Shaped
BY StorableShape DEF MemoryInv, MapsOK, Maps, Below, Shaped

LEMMA Ahead ==
  ASSUME CursorOK, NEW n \in Nat
  PROVE  LET c == cursor + AlignUp(n, 64)
         IN  c \in Nat /\ c % 64 = 0 /\ cursor + n <= c
<1> DEFINE k == AlignUp(n, 64)
<1>1. k \in Nat /\ n <= k /\ k % 64 = 0
  BY AlignUpIs
<1> HIDE DEF k
<1>2. cursor + k \in Nat /\ (cursor + k) % 64 = 0 /\ cursor + n <= cursor + k
  BY <1>1 DEF CursorOK
<1> QED
  BY <1>2 DEF k

LEMMA MoreRoom ==
  ASSUME NEW maps, NEW c \in Nat, NEW d \in Nat, c <= d, MapsOK(maps, c)
  PROVE  MapsOK(maps, d)
<1>1. ASSUME NEW m \in maps, NEW a \in DOMAIN m
      PROVE  a \in Nat /\ a % 64 = 0 /\ Storable(m[a]) /\ a + TensorBytes(m[a]) <= d
  <2>1. a \in Nat /\ a % 64 = 0 /\ Storable(m[a]) /\ a + TensorBytes(m[a]) <= c
    BY <1>1 DEF MapsOK, Below
  <2>2. TensorBytes(m[a]) \in Nat
    BY <2>1 DEF Storable
  <2> QED
    BY <2>1, <2>2
<1> QED
  BY <1>1 DEF MapsOK, Below

LEMMA FewerMaps ==
  ASSUME NEW maps, NEW c, MapsOK(maps, c), NEW some \in SUBSET maps
  PROVE  MapsOK(some, c)
BY DEF MapsOK

\* A new tensor at the cursor.
LEMMA MapsWith ==
  ASSUME NEW maps, NEW c \in Nat, c % 64 = 0, NEW d \in Nat, MapsOK(maps, c), NEW h \in maps,
         NEW t, Storable(t), c + TensorBytes(t) <= d
  PROVE  MapsOK(maps \cup {With(h, c, t)}, d)
<1> DEFINE w == With(h, c, t)
<1>1. TensorBytes(t) \in Nat \ {0}
  BY DEF Storable
<1>2. c <= d
  BY <1>1
<1>3. MapsOK(maps, d)
  BY <1>2, MoreRoom
<1>4. /\ DOMAIN w = DOMAIN h \cup {c} /\ w[c] = t
      /\ \A a \in DOMAIN h : a # c => w[a] = h[a]
  BY DEF With
<1> HIDE DEF w
<1>5. ASSUME NEW m \in maps, NEW a \in DOMAIN m
      PROVE  a \in Nat /\ a # c /\ a < c /\ a + TensorBytes(m[a]) <= c
  <2>1. a \in Nat /\ Storable(m[a]) /\ a + TensorBytes(m[a]) <= c
    BY <1>5 DEF MapsOK, Below
  <2>2. TensorBytes(m[a]) \in Nat \ {0}
    BY <2>1 DEF Storable
  <2> QED
    BY <2>1, <2>2
<1>6. Below(w, d)
  <2> SUFFICES ASSUME NEW a \in DOMAIN w
               PROVE  a \in Nat /\ a % 64 = 0 /\ Storable(w[a]) /\ a + TensorBytes(w[a]) <= d
    BY DEF Below
  <2>1. CASE a = c
    BY <1>4, <2>1
  <2>2. CASE a # c
    <3>1. a \in DOMAIN h /\ w[a] = h[a]
      BY <1>4, <2>2
    <3> QED
      BY <1>3, <3>1 DEF MapsOK, Below
  <2> QED
    BY <2>1, <2>2
<1>7. ASSUME NEW n \in maps
      PROVE  Agree(w, n) /\ Agree(n, w)
  <2>1. ASSUME NEW a \in DOMAIN w, NEW b \in DOMAIN n
        PROVE  /\ a = b => w[a].shape = n[b].shape /\ w[a].dtype = n[b].dtype
               /\ a < b => a + TensorBytes(w[a]) <= b
               /\ b < a => b + TensorBytes(n[b]) <= a
    <3>1. b \in Nat /\ b # c /\ b < c /\ b + TensorBytes(n[b]) <= c
      BY <1>5, <1>7, <2>1
    <3>2. CASE a = c
      BY <3>1, <3>2
    <3>3. CASE a # c
      <4>1. a \in DOMAIN h /\ w[a] = h[a]
        BY <1>4, <2>1, <3>3
      <4>2. Agree(h, n) /\ Agree(n, h)
        BY <1>7 DEF MapsOK
      <4> QED
        BY <2>1, <4>1, <4>2 DEF Agree
    <3> QED
      BY <3>2, <3>3
  <2> QED
    BY <2>1 DEF Agree
<1>8. Agree(w, w)
  <2> SUFFICES ASSUME NEW a \in DOMAIN w, NEW b \in DOMAIN w, a < b
               PROVE  a + TensorBytes(w[a]) <= b
    BY DEF Agree
  <2>1. a \in Nat
    BY <1>6 DEF Below
  <2>2. a # c
    <3>1. b = c \/ b \in DOMAIN h
      BY <1>4
    <3>2. b = c \/ (b \in Nat /\ b < c)
      BY <1>5, <3>1
    <3> QED
      BY <3>2
  <2>3. a \in DOMAIN h
    BY <1>4, <2>2
  <2>4. Agree(h, w)
    BY <1>7
  <2>5. a + TensorBytes(h[a]) <= b
    BY <2>3, <2>4 DEF Agree
  <2> QED
    BY <1>4, <2>2, <2>3, <2>5
<1>9. MapsOK(maps \cup {w}, d)
  BY <1>3, <1>6, <1>7, <1>8 DEF MapsOK
<1> QED
  BY <1>9 DEF w

\* Bytes written into a dense tensor.
LEMMA MapsPatched ==
  ASSUME NEW maps, NEW c, MapsOK(maps, c), NEW h \in maps, NEW a \in DOMAIN h, ~h[a].sparse, NEW e
  PROVE  MapsOK(maps \cup {[h EXCEPT ![a] = [h[a] EXCEPT !.data = e]]}, c)
<1> DEFINE t == [h[a] EXCEPT !.data = e]
           q == [h EXCEPT ![a] = t]
<1>1. \A b \in DOMAIN h : Storable(h[b])
  BY DEF MapsOK, Below
<1>2. /\ DOMAIN t = DOMAIN h[a] /\ t.shape = h[a].shape /\ t.dtype = h[a].dtype /\ t.sparse = h[a].sparse
  BY <1>1 DEF Storable
<1> HIDE DEF t
<1>3. TensorBytes(t) = TensorBytes(h[a])
  BY <1>2 DEF TensorBytes
<1>4. Storable(t)
  BY <1>1, <1>2, <1>3 DEF Storable
<1>5. DOMAIN q = DOMAIN h
  OBVIOUS
<1>6. ASSUME NEW b \in DOMAIN h
      PROVE  /\ q[b].shape = h[b].shape /\ q[b].dtype = h[b].dtype
             /\ TensorBytes(q[b]) = TensorBytes(h[b]) /\ Storable(q[b])
  BY <1>1, <1>2, <1>3, <1>4
<1> HIDE DEF q
<1>7. Below(q, c)
  BY <1>5, <1>6 DEF MapsOK, Below
<1>8. \A n \in maps : Agree(q, n) /\ Agree(n, q)
  BY <1>5, <1>6 DEF MapsOK, Agree
<1>9. Agree(q, q)
  BY <1>5, <1>6, <1>8 DEF Agree
<1>10. MapsOK(maps \cup {q}, c)
  BY <1>7, <1>8, <1>9 DEF MapsOK
<1> QED
  BY <1>10 DEF q, t

LEMMA PutsOK ==
  ASSUME MemoryInv, Puts
  PROVE  MemoryInv'
<1>1. PICK t : Storable(t) /\ Allocate(t)
  BY DEF Puts
<1>2. /\ heap' = With(heap, cursor, t) /\ cursor' = cursor + AlignUp(TensorBytes(t), 64)
      /\ saved' = saved /\ version' = version
  BY <1>1 DEF Allocate
<1>3. CursorOK /\ TensorBytes(t) \in Nat
  BY <1>1 DEF MemoryInv, Storable
<1>4. cursor' \in Nat /\ cursor' % 64 = 0 /\ cursor + TensorBytes(t) <= cursor'
  BY <1>2, <1>3, Ahead
<1>5. cursor \in Nat /\ cursor % 64 = 0 /\ MapsOK(Maps, cursor) /\ heap \in Maps
  BY DEF MemoryInv, CursorOK, Maps
<1>6. MapsOK(Maps \cup {heap'}, cursor')
  BY <1>1, <1>2, <1>4, <1>5, MapsWith
<1>7. Maps' \in SUBSET (Maps \cup {heap'})
  BY <1>2 DEF Maps
<1>8. MapsOK(Maps', cursor')
  BY <1>6, <1>7, FewerMaps
<1> QED
  BY <1>2, <1>4, <1>8 DEF MemoryInv, CursorOK

LEMMA PatchesOK ==
  ASSUME MemoryInv, Patches
  PROVE  MemoryInv'
<1>1. PICK a \in DOMAIN heap : ~heap[a].sparse /\ \E d : Patchwork(a, d)
  BY DEF Patches
<1>2. PICK d : Patchwork(a, d)
  BY <1>1
<1>3. /\ heap' = [heap EXCEPT ![a] = [heap[a] EXCEPT !.data = d]]
      /\ cursor' = cursor /\ saved' = saved /\ version' = version
  BY <1>2 DEF Patchwork
<1>4. MapsOK(Maps, cursor) /\ heap \in Maps
  BY DEF MemoryInv, Maps
<1>5. MapsOK(Maps \cup {heap'}, cursor)
  BY <1>1, <1>3, <1>4, MapsPatched
<1>6. Maps' \in SUBSET (Maps \cup {heap'})
  BY <1>3 DEF Maps
<1>7. MapsOK(Maps', cursor')
  BY <1>3, <1>5, <1>6, FewerMaps
<1> QED
  BY <1>3, <1>7 DEF MemoryInv, CursorOK

LEMMA SavesOK ==
  ASSUME MemoryInv, Saves
  PROVE  MemoryInv'
<1> DEFINE v == version + 1
<1>1. version' = v /\ saved' = With(saved, v, heap) /\ heap' = heap /\ cursor' = cursor
  BY DEF Saves
<1>2. version \in Nat /\ DOMAIN saved = 1 .. version /\ MapsOK(Maps, cursor)
  BY DEF MemoryInv
<1>3. v \in Nat /\ 1 .. v = (1 .. version) \cup {v}
  BY <1>2
<1>4. DOMAIN saved' = DOMAIN saved \cup {v} /\ \A x \in DOMAIN saved' : saved'[x] = heap \/
        (x \in DOMAIN saved /\ saved'[x] = saved[x])
  BY <1>1 DEF With
<1> HIDE DEF v
<1>5. Maps' \in SUBSET Maps
  BY <1>1, <1>4 DEF Maps, Range
<1>6. MapsOK(Maps', cursor')
  BY <1>1, <1>2, <1>5, FewerMaps
<1> QED
  BY <1>1, <1>2, <1>3, <1>4, <1>6 DEF MemoryInv, CursorOK

LEMMA BacksOK ==
  ASSUME MemoryInv, Backs
  PROVE  MemoryInv'
<1>1. PICK v \in DOMAIN saved : heap' = saved[v] /\ UNCHANGED <<cursor, saved, version>>
  BY DEF Backs, Restored
<1>2. Maps' \in SUBSET Maps
  BY <1>1 DEF Maps, Range
<1>3. MapsOK(Maps', cursor')
  BY <1>1, <1>2, FewerMaps DEF MemoryInv
<1> QED
  BY <1>1, <1>3 DEF MemoryInv, CursorOK

\* A block that is not a tensor.
LEMMA SkipsOK ==
  ASSUME MemoryInv, NEW n \in Nat, cursor' = cursor + AlignUp(n, 64), UNCHANGED <<heap, saved, version>>
  PROVE  MemoryInv'
<1>1. CursorOK /\ MapsOK(Maps, cursor)
  BY DEF MemoryInv
<1>2. cursor' \in Nat /\ cursor' % 64 = 0 /\ cursor + n <= cursor'
  BY <1>1, Ahead
<1>3. cursor \in Nat /\ cursor <= cursor'
  BY <1>1, <1>2 DEF CursorOK
<1>4. MapsOK(Maps, cursor')
  BY <1>1, <1>2, <1>3, MoreRoom
<1>5. Maps' = Maps
  BY DEF Maps
<1> QED
  BY <1>2, <1>4, <1>5 DEF MemoryInv, CursorOK

LEMMA HoldsOK ==
  ASSUME MemoryInv, UNCHANGED memVars
  PROVE  MemoryInv'
BY DEF memVars, MemoryInv, CursorOK, Maps

LEMMA MemoryStepOK ==
  ASSUME MemoryInv, MemoryStep
  PROVE  MemoryInv'
BY HoldsOK, PutsOK, PatchesOK, SavesOK, BacksOK DEF MemoryStep

\* What the host has given the VM: tensors one after the other.
LEMMA MemoryInit ==
  ASSUME NEW tensors, tensors \in Seq(Range(tensors)), MachineInit(tensors),
         \A x \in Range(tensors) : x = Tensor(x.shape, x.dtype, x.data) /\ x.shape \in Seq(Nat) /\ TensorBytes(x) # 0
  PROVE  MemoryInv
<1> DEFINE n == Len(tensors)
           size(k) == AlignUp(TensorBytes(tensors[k]), 64)
           Runs(f) == f = [k \in 0 .. n |-> IF k = 0 THEN DataBase ELSE f[k - 1] + size(k)]
           end == TensorEnds(tensors)
<1>1. n \in Nat /\ DOMAIN tensors = 1 .. n /\ \A k \in 1 .. n : tensors[k] \in Range(tensors)
  BY DEF Range
<1>2. ASSUME NEW k \in 1 .. n
      PROVE  /\ Storable(tensors[k]) /\ TensorBytes(tensors[k]) \in Nat \ {0}
             /\ size(k) \in Nat /\ size(k) % 64 = 0 /\ TensorBytes(tensors[k]) <= size(k)
  <2>1. Dense(tensors[k]) /\ TensorBytes(tensors[k]) # 0
    BY <1>1 DEF Dense, Tensor
  <2>2. Storable(tensors[k])
    BY <2>1, DenseStorable
  <2>3. TensorBytes(tensors[k]) \in Nat \ {0}
    BY <2>2 DEF Storable
  <2>4. \A x \in Nat : AlignUp(x, 64) \in Nat /\ AlignUp(x, 64) >= x /\ AlignUp(x, 64) % 64 = 0
    BY ONLY AlignUpIs
  <2>5. \A x, y \in Nat : y >= x => x <= y
    OBVIOUS
  <2> QED
    BY <2>2, <2>3, <2>4, <2>5, Zenon
<1> DEFINE step == [e \in (1 .. n) \X Nat |-> e[2] + size(e[1])]
           ends == CHOOSE f : Runs(f)
<1>3. end = ends
  BY DEF TensorEnds
<1>4. \A k \in 1 .. n : \A x \in Nat : step[<<k, x>>] = x + size(k) /\ step[<<k, x>>] \in Nat
  <2> HIDE DEF size
  <2> QED
    BY <1>2
<1>5. DataBase \in Nat /\ DataBase % 64 = 0
  BY DEF DataBase
<1> HIDE DEF n, size, step
<1>6. \E f : Runs(f)
  <2>1. Steps(step, Nat, n)
    BY <1>4 DEF Steps
  <2>2. PICK g : Recurses(g, Nat, DataBase, n, step)
    BY <1>1, <1>5, <2>1, Iterates
  <2>3. /\ g \in [0 .. n -> Nat] /\ g[0] = DataBase
        /\ \A k \in 1 .. n : g[k] = step[<<k, g[k - 1]>>]
    BY <2>2 DEF Recurses
  <2>4. ASSUME NEW k \in 0 .. n
        PROVE  g[k] = IF k = 0 THEN DataBase ELSE g[k - 1] + size(k)
    <3>1. CASE k = 0
      BY <2>3, <3>1
    <3>2. CASE k # 0
      <4>1. k \in 1 .. n /\ g[k - 1] \in Nat
        BY <1>1, <2>3, <3>2
      <4> QED
        BY <1>4, <2>3, <3>2, <4>1
    <3> QED
      BY <3>1, <3>2
  <2>5. g = [k \in 0 .. n |-> g[k]]
    BY <2>3
  <2>6. Runs(g)
    BY <2>4, <2>5
  <2> QED
    BY <2>6
<1>7. Runs(ends)
  BY <1>6
<1> HIDE DEF ends
<1>8. ends[0] = DataBase /\ \A k \in 1 .. n : ends[k] = ends[k - 1] + size(k)
  <2>1. \A k \in 0 .. n : ends[k] = IF k = 0 THEN DataBase ELSE ends[k - 1] + size(k)
    BY <1>7
  <2>2. 0 \in 0 .. n /\ \A k \in 1 .. n : k \in 0 .. n /\ k # 0
    BY <1>1
  <2> QED
    BY <2>1, <2>2
<1> HIDE DEF Runs
<1> DEFINE S == {x \in Nat : x % 64 = 0}
<1>9. \A k \in 0 .. n : ends[k] \in S
  <2>1. \A k \in 1 .. n : ends[k - 1] \in S => ends[k] \in S
    <3>1. \A x, y \in S : x + y \in S
      <4>1. ASSUME NEW x \in Nat, NEW y \in Nat, x % 64 = 0, y % 64 = 0
            PROVE  x + y \in Nat /\ (x + y) % 64 = 0
        BY ONLY <4>1
      <4> QED
        BY <4>1
    <3>2. \A k \in 1 .. n : size(k) \in S
      BY <1>2
    <3> HIDE DEF S
    <3> QED
      BY <1>8, <3>1, <3>2, Zenon
  <2>2. ends[0] \in S
    BY <1>5, <1>8
  <2> HIDE DEF S
  <2> QED
    BY <1>1, <2>1, <2>2, Throughout, Zenon
\* Later tensors start where earlier ones have ended.
<1>10. ASSUME NEW j \in 1 .. n, NEW k \in j .. n
       PROVE  ends[j - 1] + TensorBytes(tensors[j]) <= ends[k]
  <2>1. \A i \in 0 .. n : ends[i] \in Nat
    BY <1>9
  <2>2. \A i \in 1 .. n : ends[i - 1] <= ends[i]
    <3>1. ASSUME NEW i \in 1 .. n PROVE ends[i - 1] <= ends[i]
      <4>1. i - 1 \in 0 .. n
        BY <1>1
      <4>2. ends[i] = ends[i - 1] + size(i) /\ size(i) \in Nat /\ ends[i - 1] \in Nat
        BY <1>2, <1>8, <2>1, <4>1
      <4> QED
        BY <4>2
    <3> QED
      BY <3>1
  <2>3. j \in 0 .. n /\ j - 1 \in 0 .. n /\ k \in 0 .. n
    BY <1>1
  <2>4. ends[j] <= ends[k]
    BY <1>1, <2>1, <2>2, <2>3, Rises
  <2>5. ends[j] = ends[j - 1] + size(j) /\ ends[j - 1] \in Nat /\ ends[k] \in Nat
    BY <1>8, <2>1, <2>3
  <2>6. TensorBytes(tensors[j]) \in Nat /\ size(j) \in Nat /\ TensorBytes(tensors[j]) <= size(j)
    BY <1>2
  <2> QED
    BY <2>4, <2>5, <2>6
<1>11. /\ heap = [a \in {end[k - 1] : k \in 1 .. n} |-> tensors[CHOOSE k \in 1 .. n : end[k - 1] = a]]
       /\ cursor = end[n] /\ saved = <<>> /\ version = 0
  BY DEF MachineInit, n
<1> HIDE DEF end
<1>12. ASSUME NEW a \in DOMAIN heap
       PROVE  \E k \in 1 .. n : a = ends[k - 1] /\ heap[a] = tensors[k]
  BY <1>3, <1>11
<1>13. cursor = ends[n] /\ n \in 0 .. n /\ cursor \in S
  BY <1>1, <1>3, <1>9, <1>11
<1>14. Below(heap, cursor)
  <2> SUFFICES ASSUME NEW a \in DOMAIN heap
               PROVE  a \in Nat /\ a % 64 = 0 /\ Storable(heap[a]) /\ a + TensorBytes(heap[a]) <= cursor
    BY DEF Below
  <2>1. PICK k \in 1 .. n : a = ends[k - 1] /\ heap[a] = tensors[k]
    BY <1>12
  <2>2. k - 1 \in 0 .. n /\ n \in k .. n
    BY <1>1
  <2> QED
    BY <1>2, <1>9, <1>10, <1>13, <2>1, <2>2
<1>15. Agree(heap, heap)
  <2> SUFFICES ASSUME NEW a \in DOMAIN heap, NEW b \in DOMAIN heap, a < b
               PROVE  a + TensorBytes(heap[a]) <= b
    BY DEF Agree
  <2>1. PICK j \in 1 .. n : a = ends[j - 1] /\ heap[a] = tensors[j]
    BY <1>12
  <2>2. PICK k \in 1 .. n : b = ends[k - 1] /\ heap[b] = tensors[k]
    BY <1>12
  <2>3. CASE j < k
    <3>1. k - 1 \in j .. n
      BY <1>1, <2>3
    <3> QED
      BY <1>10, <2>1, <2>2, <3>1
  <2>4. CASE j = k
    <3>1. a \in Nat
      BY <1>14 DEF Below
    <3> QED
      BY <2>1, <2>2, <2>4, <3>1
  <2>5. CASE k < j
    <3>1. j - 1 \in k .. n /\ j - 1 \in 0 .. n /\ k - 1 \in 0 .. n
      BY <1>1, <2>5
    <3>2. ends[k - 1] + TensorBytes(tensors[k]) <= ends[j - 1] /\ TensorBytes(tensors[k]) \in Nat
      BY <1>2, <1>10, <3>1
    <3>3. ends[k - 1] \in Nat /\ ends[j - 1] \in Nat
      BY <1>9, <3>1
    <3> QED
      BY <2>1, <2>2, <3>2, <3>3
  <2> QED
    BY <1>1, <2>3, <2>4, <2>5
<1>16. Maps = {heap}
  BY <1>11 DEF Maps, Range
<1>17. MapsOK(Maps, cursor)
  BY <1>14, <1>15, <1>16 DEF MapsOK
<1>18. version \in Nat /\ DOMAIN saved = 1 .. version
  BY <1>11
<1> QED
  BY <1>13, <1>17, <1>18 DEF MemoryInv, CursorOK

---------------------------------------------------------------------------
(* The size of a data section.                                             *)

BlobsOK(blobs) == IsSeq(blobs) /\ \A i \in DOMAIN blobs : BlobBytes(blobs[i]) \in Nat

LEMMA ParsedBlobIs ==
  ASSUME NEW line, BlobLine(line), NEW syms, ParseBlob(line, syms).res = "ok"
  PROVE  BlobBytes(ParseBlob(line, syms)) \in Nat
<1> DEFINE codes == [i \in DOMAIN line.vals |-> BlobValue(line.type, line.vals[i], syms)]
           blob == [res |-> "ok", name |-> line.name, type |-> line.type, shape |-> line.shape, vals |-> codes]
<1>1. Err.res # "ok"
  BY DEF Err
<1>2. line.kind = "blob" /\ ParseBlob(line, syms) = blob
  BY <1>1 DEF ParseBlob
<1>3. IsSeq(line.vals)
  BY <1>2 DEF BlobLine
<1>4. Len(line.vals) \in Nat /\ DOMAIN line.vals = 1 .. Len(line.vals)
  BY <1>3, SeqFacts
<1>5. DOMAIN codes = 1 .. Len(line.vals) /\ codes = [i \in 1 .. Len(line.vals) |-> codes[i]]
  BY <1>4
<1> HIDE DEF codes
<1>6. Len(codes) \in Nat
  BY <1>4, <1>5, SeqByDomain
<1>7. blob.vals = codes
  OBVIOUS
<1> HIDE DEF blob
<1>8. BlobBytes(blob) \in Nat
  BY <1>6, <1>7 DEF BlobBytes
<1> QED
  BY <1>2, <1>8

LEMMA TakenBlobsOK ==
  ASSUME NEW p, PassOK(p), TakeBlobs(p).res = "ok"
  PROVE  BlobsOK(TakeBlobs(p).blobs)
<1> DEFINE blobs == [i \in DOMAIN p.data |-> ParseBlob(p.data[i], p)]
<1>1. Err.res # "ok"
  BY DEF Err
<1>2. TakeBlobs(p).blobs = blobs /\ \A i \in DOMAIN blobs : blobs[i].res = "ok"
  BY <1>1 DEF TakeBlobs
<1>3. Len(p.data) \in Nat /\ DOMAIN p.data = 1 .. Len(p.data) /\ \A i \in DOMAIN p.data : BlobLine(p.data[i])
  BY SeqFacts DEF PassOK
<1>4. \A i \in DOMAIN blobs : BlobBytes(blobs[i]) \in Nat
  BY <1>2, <1>3, ParsedBlobIs
<1>5. DOMAIN blobs = 1 .. Len(p.data) /\ blobs = [i \in 1 .. Len(p.data) |-> blobs[i]]
  BY <1>3
<1> HIDE DEF blobs
<1>6. IsSeq(blobs)
  BY <1>3, <1>5, SeqByDomain
<1> QED
  BY <1>2, <1>4, <1>6 DEF BlobsOK

LEMMA FullIs ==
  ASSUME NEW source, SourceOK(source), NEW at, NEW to, AssembleFull(source, at, to).res = "ok"
  PROVE  LET p == FirstPass(source, at)
             full == AssembleFull(source, at, to)
         IN  /\ PassOK(p) /\ TakeBlobs(p).res = "ok"
             /\ full.blobs = TakeBlobs(p).blobs /\ full.base = to
             /\ full.syms = Symbols(p, full.blobs, to)
             /\ p.ok /\ DOMAIN full.instrs = DOMAIN p.code
             /\ \A i \in DOMAIN p.code :
                  LET line == ParseLine(p.code[i].op, p.code[i].toks, full.syms)
                  IN  line.res = "ok" /\ full.instrs[i] = line.ins
<1> DEFINE p == FirstPass(source, at)
           taken == TakeBlobs(p)
           syms == Symbols(p, taken.blobs, to)
           parsed == [i \in DOMAIN p.code |-> ParseLine(p.code[i].op, p.code[i].toks, syms)]
           full == [res |-> "ok", instrs |-> [i \in DOMAIN parsed |-> parsed[i].ins],
                    blobs |-> taken.blobs, base |-> to, syms |-> syms]
           bad == {i \in DOMAIN parsed : parsed[i].res # "ok"}
<1>1. PassOK(p)
  BY FirstPassIs
<1>2. AssembleFull(source, at, to) = AssembleLines(p, taken, to)
  BY DEF AssembleFull
<1>3. DOMAIN p.code = 1 .. Len(p.code) /\ Len(p.code) \in Nat
  BY <1>1, SeqFacts DEF PassOK
<1> HIDE DEF p, taken
<1>4. Err.res # "ok"
  BY DEF Err
<1>5. p.ok /\ taken.res = "ok" /\ AssembleLines(p, taken, to) = FirstError(parsed, full)
  BY <1>2, <1>4 DEF AssembleLines, SecondPass
<1> HIDE DEF syms
<1>6. FirstError(parsed, full) = IF bad = {} THEN full ELSE parsed[Min(bad)]
  BY DEF FirstError
<1>7. DOMAIN parsed = 1 .. Len(p.code)
  BY <1>3
<1>8. /\ full.blobs = taken.blobs /\ full.base = to /\ full.syms = syms
      /\ full.instrs = [i \in DOMAIN parsed |-> parsed[i].ins]
  OBVIOUS
<1> HIDE DEF parsed, full
<1>9. ASSUME bad # {}
      PROVE  parsed[Min(bad)].res # "ok"
  <2>1. bad \in SUBSET Nat
    BY <1>3, <1>7
  <2> HIDE DEF bad
  <2>2. PICK i \in bad : \A j \in bad : i <= j
    BY <1>9, <2>1, Least
  <2>3. Min(bad) \in bad
    BY <2>2 DEF Min
  <2> QED
    BY <2>3 DEF bad
<1> HIDE DEF bad
<1>10. bad = {} /\ AssembleFull(source, at, to) = full
  BY <1>2, <1>5, <1>6, <1>9
<1>11. /\ DOMAIN p.code = DOMAIN parsed
       /\ \A i \in DOMAIN parsed : parsed[i] = ParseLine(p.code[i].op, p.code[i].toks, syms)
  BY <1>3, <1>7 DEF parsed
<1>12. /\ DOMAIN full.instrs = DOMAIN p.code
       /\ \A i \in DOMAIN p.code : parsed[i].res = "ok" /\ full.instrs[i] = parsed[i].ins
  BY <1>8, <1>10, <1>11 DEF bad
<1> QED
  BY <1>1, <1>5, <1>8, <1>10, <1>11, <1>12 DEF p, taken, syms

\* What the assembler says of the data section: a blob for each name, and the
\* address of each.
SectionOK(a) ==
  /\ BlobsOK(a.blobs)
  /\ \A i, j \in DOMAIN a.blobs : a.blobs[i].name = a.blobs[j].name => i = j
  /\ \A i \in DOMAIN a.blobs : a.syms.addrs[a.blobs[i].name] = a.base + Layout(a.blobs).starts[i]

LEMMA SectionIs ==
  ASSUME NEW source, SourceOK(source), NEW at, NEW to, AssembleFull(source, at, to).res = "ok"
  PROVE  SectionOK(AssembleFull(source, at, to))
<1> DEFINE p == FirstPass(source, at)
           a == AssembleFull(source, at, to)
           blobs == a.blobs
<1>1. /\ PassOK(p) /\ TakeBlobs(p).res = "ok"
      /\ blobs = TakeBlobs(p).blobs /\ a.base = to
      /\ a.syms = Symbols(p, blobs, to)
  BY FullIs
<1> HIDE DEF p, a, blobs
<1>2. BlobsOK(blobs)
  BY <1>1, TakenBlobsOK
<1>3. Err.res # "ok"
  BY DEF Err
<1>4. /\ blobs = [i \in DOMAIN p.data |-> ParseBlob(p.data[i], p)]
      /\ \A i \in DOMAIN p.data : ParseBlob(p.data[i], p).res = "ok" /\ FreeName(p, i)
  BY <1>1, <1>3 DEF TakeBlobs
<1>5. \A i \in DOMAIN blobs : i \in DOMAIN p.data /\ blobs[i].name = p.data[i].name
  BY <1>3, <1>4 DEF ParseBlob
<1>6. DOMAIN p.data = 1 .. Len(p.data) /\ Len(p.data) \in Nat
  BY <1>1, SeqFacts DEF PassOK
<1>7. ASSUME NEW i \in DOMAIN blobs, NEW j \in DOMAIN blobs, blobs[i].name = blobs[j].name
      PROVE  i = j
  <2>1. i \in 1 .. Len(p.data) /\ j \in 1 .. Len(p.data) /\ p.data[i].name = p.data[j].name
    BY <1>5, <1>6, <1>7
  <2>2. FreeName(p, i) /\ FreeName(p, j)
    BY <1>4, <1>6, <2>1
  <2>3. ~(j \in 1 .. (i - 1)) /\ ~(i \in 1 .. (j - 1))
    BY <2>1, <2>2 DEF FreeName
  <2> QED
    BY <1>6, <2>1, <2>3
<1>8. ASSUME NEW i \in DOMAIN blobs
      PROVE  a.syms.addrs[blobs[i].name] = a.base + Layout(blobs).starts[i]
  <2> DEFINE names == {b.name : b \in ToSet(blobs)}
             addrs == [n \in names |-> to + Layout(blobs).starts[CHOOSE k \in DOMAIN blobs : blobs[k].name = n]]
  <2>1. a.syms.addrs = addrs
    BY <1>1 DEF Symbols
  <2>2. blobs[i].name \in names
    BY DEF ToSet
  <2>3. (CHOOSE k \in DOMAIN blobs : blobs[k].name = blobs[i].name) = i
    BY <1>7
  <2> HIDE DEF names
  <2>4. addrs[blobs[i].name] = to + Layout(blobs).starts[i]
    BY <2>2, <2>3
  <2> QED
    BY <1>1, <2>1, <2>4
<1> QED
  BY <1>2, <1>7, <1>8 DEF SectionOK, blobs, a

\* The offset after n blobs is a number that only grows, so the blobs stand one
\* behind the other, each on a boundary of its own.
Stacked(blobs) ==
  LET starts == Layout(blobs).starts
      end(i) == starts[i] + BlobBytes(blobs[i])
  IN  /\ LayoutTotal(blobs) \in Nat
      /\ \A i \in DOMAIN blobs :
           starts[i] \in Nat /\ starts[i] % BlobAlign(blobs[i]) = 0 /\ end(i) <= LayoutTotal(blobs)
      /\ \A i, j \in DOMAIN blobs : i < j => end(i) <= starts[j]

LEMMA LayoutIs ==
  ASSUME NEW blobs, BlobsOK(blobs)
  PROVE  Stacked(blobs)
<1> DEFINE n == Len(blobs)
           start(x, k) == AlignUp(x, BlobAlign(blobs[k]))
           next(x, k) == AlignUp(start(x, k) + BlobBytes(blobs[k]), BlobPad)
           Runs(f) == f = [k \in 0 .. n |-> IF k = 0 THEN 0 ELSE next(f[k - 1], k)]
           step == [e \in (1 .. n) \X Nat |-> next(e[2], e[1])]
           off == CHOOSE f : Runs(f)
<1>1. n \in Nat /\ DOMAIN blobs = 1 .. n /\ \A k \in 1 .. n : BlobBytes(blobs[k]) \in Nat
  BY SeqFacts DEF BlobsOK
<1>2. ASSUME NEW k \in 1 .. n, NEW x \in Nat
      PROVE  /\ start(x, k) \in Nat /\ x <= start(x, k) /\ start(x, k) % BlobAlign(blobs[k]) = 0
             /\ next(x, k) \in Nat /\ start(x, k) + BlobBytes(blobs[k]) <= next(x, k)
             /\ step[<<k, x>>] = next(x, k)
  <2>1. BlobAlign(blobs[k]) \in Nat \ {0} /\ BlobPad \in Nat \ {0}
    BY DEF BlobAlign, BlobPad
  <2>2. start(x, k) \in Nat /\ x <= start(x, k) /\ start(x, k) % BlobAlign(blobs[k]) = 0
    BY <2>1, AlignUpIs
  <2> HIDE DEF start
  <2>3. start(x, k) + BlobBytes(blobs[k]) \in Nat
    BY <1>1, <2>2
  <2>4. next(x, k) \in Nat /\ start(x, k) + BlobBytes(blobs[k]) <= next(x, k)
    BY <2>1, <2>3, AlignUpIs
  <2> HIDE DEF next
  <2>5. step[<<k, x>>] = next(x, k)
    OBVIOUS
  <2> QED
    BY <2>2, <2>4, <2>5
<1>3. /\ LayoutTotal(blobs) = off[n]
      /\ \A k \in DOMAIN blobs : Layout(blobs).starts[k] = start(off[k - 1], k)
  BY DEF LayoutTotal, Layout
<1> HIDE DEF n, start, next, step
<1>4. \E f : Runs(f)
  <2>1. Steps(step, Nat, n)
    BY <1>2 DEF Steps
  <2>2. 0 \in Nat
    OBVIOUS
  <2>3. PICK g : Recurses(g, Nat, 0, n, step)
    BY <1>1, <2>1, <2>2, Iterates
  <2>4. g \in [0 .. n -> Nat] /\ g[0] = 0 /\ \A k \in 1 .. n : g[k] = step[<<k, g[k - 1]>>]
    BY <2>3 DEF Recurses
  <2>5. ASSUME NEW k \in 0 .. n
        PROVE  g[k] = IF k = 0 THEN 0 ELSE next(g[k - 1], k)
    <3>1. CASE k = 0
      BY <2>4, <3>1
    <3>2. CASE k # 0
      <4>1. k \in 1 .. n /\ g[k - 1] \in Nat
        BY <1>1, <2>4, <3>2
      <4> QED
        BY <1>2, <2>4, <3>2, <4>1
    <3> QED
      BY <3>1, <3>2
  <2>6. g = [k \in 0 .. n |-> g[k]]
    BY <2>4
  <2>7. Runs(g)
    BY <2>5, <2>6
  <2> QED
    BY <2>7
<1>5. Runs(off)
  BY <1>4
<1> HIDE DEF off
<1>6. off[0] = 0 /\ \A k \in 1 .. n : off[k] = next(off[k - 1], k)
  <2>1. \A k \in 0 .. n : off[k] = IF k = 0 THEN 0 ELSE next(off[k - 1], k)
    BY <1>5
  <2>2. 0 \in 0 .. n /\ \A k \in 1 .. n : k \in 0 .. n /\ k # 0
    BY <1>1
  <2> QED
    BY <2>1, <2>2
<1> HIDE DEF Runs
<1>7. \A k \in 0 .. n : off[k] \in Nat
  <2>1. \A k \in 1 .. n : off[k - 1] \in Nat => off[k] \in Nat
    BY <1>2, <1>6
  <2>2. off[0] \in Nat
    BY <1>6
  <2> QED
    BY <1>1, <2>1, <2>2, Throughout, Zenon
<1> DEFINE at == Layout(blobs).starts
           end(i) == at[i] + BlobBytes(blobs[i])
<1>8. ASSUME NEW k \in 1 .. n
      PROVE  /\ at[k] \in Nat /\ at[k] % BlobAlign(blobs[k]) = 0 /\ BlobBytes(blobs[k]) \in Nat
             /\ off[k - 1] <= at[k] /\ end(k) <= off[k]
  <2>1. k - 1 \in 0 .. n
    BY <1>1
  <2>2. off[k - 1] \in Nat /\ at[k] = start(off[k - 1], k) /\ off[k] = next(off[k - 1], k)
    BY <1>1, <1>3, <1>6, <1>7, <2>1
  <2>3. /\ start(off[k - 1], k) \in Nat /\ off[k - 1] <= start(off[k - 1], k)
        /\ start(off[k - 1], k) % BlobAlign(blobs[k]) = 0
        /\ start(off[k - 1], k) + BlobBytes(blobs[k]) <= next(off[k - 1], k)
    BY <1>2, <2>2
  <2> HIDE DEF at
  <2>4. BlobBytes(blobs[k]) \in Nat
    BY <1>1
  <2> QED
    BY <2>2, <2>3, <2>4
<1> HIDE DEF at
<1>9. \A k \in 1 .. n : off[k - 1] <= off[k]
  <2> TAKE k \in 1 .. n
  <2>1. off[k - 1] \in Nat /\ off[k] \in Nat
    BY <1>1, <1>7
  <2> QED
    BY <1>8, <2>1
<1>10. \A j \in 0 .. n : \A k \in j .. n : off[j] <= off[k]
  BY <1>1, <1>7, <1>9, Rises
<1>11. ASSUME NEW i \in 1 .. n
       PROVE  end(i) <= off[n] /\ \A j \in 1 .. n : i < j => end(i) <= at[j]
  <2>1. i \in 0 .. n /\ n \in i .. n /\ off[i] \in Nat /\ off[n] \in Nat /\ end(i) \in Nat
    BY <1>1, <1>7, <1>8
  <2>2. end(i) <= off[n]
    BY <1>8, <1>10, <2>1
  <2>3. ASSUME NEW j \in 1 .. n, i < j
        PROVE  end(i) <= at[j]
    <3>1. j - 1 \in i .. n /\ off[j - 1] \in Nat
      BY <1>1, <1>7, <2>3
    <3>2. off[i] <= off[j - 1] /\ off[j - 1] <= at[j] /\ end(i) <= off[i] /\ at[j] \in Nat
      BY <1>8, <1>10, <2>1, <3>1
    <3> QED
      BY <2>1, <3>1, <3>2
  <2> QED
    BY <2>2, <2>3
<1>12. off[n] \in Nat
  BY <1>1, <1>7
<1> QED
  BY <1>1, <1>3, <1>8, <1>11, <1>12 DEF Stacked, at

---------------------------------------------------------------------------
(* Addresses are for ever.                                                 *)

AddressInv ==
  /\ task \in Tasks
  /\ stage = "assembled" => SectionOK(asm)
  /\ MemoryInv

LEMMA AddressInit ==
  ASSUME Init
  PROVE  AddressInv
<1>1. PICK t \in Tasks : task = t /\ MachineInit(t.tensors)
  BY DEF Init
<1>2. stage = "source"
  BY DEF Init
<1>3. /\ t.tensors \in Seq(Range(t.tensors))
      /\ \A x \in Range(t.tensors) :
           x = Tensor(x.shape, x.dtype, x.data) /\ x.shape \in Seq(Nat) /\ TensorBytes(x) # 0
  BY SystemConstants
<1>4. MemoryInv
  BY <1>1, <1>3, MemoryInit
<1> QED
  BY <1>1, <1>2, <1>4 DEF AddressInv

LEMMA AssembleAddresses ==
  ASSUME AddressInv, AssembleData
  PROVE  AddressInv'
<1>1. UNCHANGED memVars /\ UNCHANGED task
  BY DEF AssembleData, machineVars
<1>2. stage' = "assembled" => asm'.res = "ok"
  BY DEF AssembleData, Refused
<1>3. PICK base : asm' = AssembleFull(task.source, ProgramBase, base)
  BY DEF AssembleData, AssembleWithData
<1>4. SourceOK(task.source)
  BY SourcesOK DEF AddressInv
<1>5. stage' = "assembled" => SectionOK(asm')
  BY <1>2, <1>3, <1>4, SectionIs
<1>6. MemoryInv'
  BY <1>1, HoldsOK DEF AddressInv
<1> QED
  BY <1>1, <1>5, <1>6 DEF AddressInv

LEMMA LoadAddresses ==
  ASSUME AddressInv, LoadAssembled
  PROVE  AddressInv'
<1> DEFINE total == LayoutTotal(asm.blobs)
<1>1. stage = "assembled" /\ UNCHANGED <<task, asm>> /\ stage' # "assembled"
  BY DEF LoadAssembled, Refused
<1>2. total \in Nat
  BY <1>1, LayoutIs DEF AddressInv, SectionOK, Stacked
<1>3. \/ UNCHANGED memVars
      \/ cursor' = cursor + AlignUp(total, 64) /\ UNCHANGED <<heap, saved, version>>
  BY DEF LoadAssembled, machineVars
<1>4. MemoryInv'
  BY <1>2, <1>3, HoldsOK, SkipsOK DEF AddressInv
<1> QED
  BY <1>1, <1>4 DEF AddressInv

LEMMA RunsMemory ==
  ASSUME MemoryInv, Run
  PROVE  MemoryStep
<1>1. Step
  BY DEF Run
<1>2. Shaped
  BY InvIsShaped
<1>3. CASE FetchFails
  BY <1>3 DEF FetchFails, Refuse, MemoryStep
<1>4. CASE Execute(Current, Params(Current))
  BY <1>2, <1>4, ExecuteMemory
<1> QED
  BY <1>1, <1>3, <1>4 DEF Step

LEMMA RunAddresses ==
  ASSUME AddressInv, Run
  PROVE  AddressInv'
<1>1. stage = "loaded" /\ UNCHANGED <<stage, task, asm>> /\ Step
  BY DEF Run, fileVars
<1>2. MemoryInv'
  BY RunsMemory, MemoryStepOK DEF AddressInv
<1> QED
  BY <1>1, <1>2 DEF AddressInv

LEMMA QuietAddresses ==
  ASSUME AddressInv, UNCHANGED memVars, UNCHANGED task, stage' # "assembled"
  PROVE  AddressInv'
BY HoldsOK DEF AddressInv

\* The inductive invariant of the memory: live and saved tensors have a size,
\* stand apart below an aligned cursor, and no two maps disagree.
THEOREM AddressInvariant == Spec => []AddressInv
<1>1. Init => AddressInv
  BY AddressInit
<1>2. AddressInv /\ [Next]_vars => AddressInv'
  <2> SUFFICES ASSUME AddressInv, [Next]_vars PROVE AddressInv'
    OBVIOUS
  <2>1. CASE UNCHANGED vars
    <3>1. UNCHANGED memVars /\ UNCHANGED <<task, stage, asm>>
      BY <2>1 DEF vars, machineVars, fileVars
    <3> QED
      BY <3>1, HoldsOK DEF AddressInv
  <2>2. CASE AssembleData
    BY <2>2, AssembleAddresses
  <2>3. CASE Damage
    <3>1. UNCHANGED memVars /\ UNCHANGED task /\ stage' # "assembled"
      BY <2>3 DEF Damage, machineVars
    <3> QED
      BY <3>1, QuietAddresses
  <2>4. CASE Open
    <3>1. UNCHANGED memVars /\ UNCHANGED task /\ stage' # "assembled"
      BY <2>4 DEF Open, Start, Refused, machineVars
    <3> QED
      BY <3>1, QuietAddresses
  <2>5. CASE LoadAssembled
    BY <2>5, LoadAddresses
  <2>6. CASE Run
    BY <2>6, RunAddresses
  <2>7. CASE \E ext \in {"m3asm", "m3bin", "m3bc"} : Save(ext)
    <3>1. UNCHANGED memVars /\ UNCHANGED task /\ stage' # "assembled"
      BY <2>7 DEF Save, SaveAs, Refused, machineVars
    <3> QED
      BY <3>1, QuietAddresses
  <2> QED
    BY <2>1, <2>2, <2>3, <2>4, <2>5, <2>6, <2>7 DEF Next
<1> QED
  BY <1>1, <1>2, PTL DEF Spec

\* An address stands for one tensor for ever: the live map and every saved
\* version agree on the shape and type at an address, every address is
\* aligned and below the cursor, and no two tensors of any two maps overlap
\* (alloc_tensor, snapshot and restore of memory.rs).
THEOREM AddressesNeverMove == Spec => []AddressesAreForever
<1>1. AddressInv => AddressesAreForever
  <2> SUFFICES ASSUME MemoryInv PROVE AddressesAreForever
    BY DEF AddressInv
  <2>1. ASSUME NEW m \in Maps, NEW n \in Maps, NEW a \in DOMAIN m, NEW b \in DOMAIN n
        PROVE  /\ a = b => m[a].shape = n[b].shape /\ m[a].dtype = n[b].dtype
               /\ a < b => a + TensorBytes(m[a]) <= b
               /\ a < cursor /\ a % 64 = 0
    <3>1. Agree(m, n)
      BY DEF MemoryInv, MapsOK
    <3>2. a \in Nat /\ a % 64 = 0 /\ Storable(m[a]) /\ a + TensorBytes(m[a]) <= cursor
      BY DEF MemoryInv, MapsOK, Below
    <3>3. TensorBytes(m[a]) \in Nat \ {0} /\ cursor \in Nat
      BY <3>2 DEF Storable, MemoryInv, CursorOK
    <3>4. a < cursor
      BY <3>2, <3>3
    <3> QED
      BY <3>1, <3>2, <3>4 DEF Agree
  <2> QED
    BY <2>1 DEF AddressesAreForever, Maps, MemoryInv
<1> QED
  BY <1>1, AddressInvariant, PTL

---------------------------------------------------------------------------
(* The data section keeps its block: it was taken from the cursor, and     *)
(* every tensor of any map is below it or above it.                        *)

Clear(m, from, to) == \A h \in DOMAIN m : h + TensorBytes(m[h]) <= from \/ to <= h
Block ==
  LET end == asm.base + LayoutTotal(asm.blobs)
  IN  /\ asm.base \in Nat /\ asm.base % 64 = 0 /\ end <= cursor
      /\ data = Written(asm.blobs, asm.base)
      /\ \A m \in Maps : Clear(m, asm.base, end)
DataInv ==
  /\ stage \in {"source", "assembled"} => data = <<>>
  /\ stage = "loaded" /\ file = NoFile =>
       SectionOK(asm) /\ IF asm.blobs = <<>> THEN data = <<>> ELSE Block

LEMMA LoadData ==
  ASSUME DataInv, AddressInv, LoadAssembled
  PROVE  DataInv'
<1> DEFINE total == LayoutTotal(asm.blobs)
           end == asm.base + total
<1>1. stage = "assembled" /\ UNCHANGED <<asm, file>> /\ stage' \notin {"source", "assembled"}
  BY DEF LoadAssembled, Refused
<1>2. SectionOK(asm) /\ SectionOK(asm') /\ data = <<>>
  BY <1>1 DEF AddressInv, DataInv, SectionOK
<1>3. total \in Nat
  BY <1>2, LayoutIs DEF SectionOK, Stacked
<1>4. CASE asm.blobs = <<>>
  BY <1>1, <1>2, <1>4 DEF LoadAssembled, DataInv
<1>5. CASE asm.blobs # <<>>
  <2>1. stage' # "loaded" \/
          /\ cursor' = cursor + AlignUp(total, 64) /\ UNCHANGED <<heap, saved, version>>
          /\ cursor = asm.base /\ data' = Written(asm.blobs, asm.base)
    BY <1>5 DEF LoadAssembled, Refused
  <2>2. CASE stage' # "loaded"
    BY <1>1, <2>2 DEF DataInv
  <2>3. CASE stage' = "loaded"
    <3>1. /\ cursor' = cursor + AlignUp(total, 64) /\ UNCHANGED <<heap, saved, version>>
          /\ cursor = asm.base /\ data' = Written(asm.blobs, asm.base)
      BY <2>1, <2>3
    <3>2. CursorOK /\ MapsOK(Maps, cursor)
      BY DEF AddressInv, MemoryInv
    <3>3. cursor + total <= cursor'
      BY <1>3, <3>1, <3>2, Ahead
    <3>4. Maps' = Maps /\ \A m \in Maps : Clear(m, asm.base, end)
      BY <3>1, <3>2 DEF Maps, MapsOK, Below, Clear
    <3>5. Block'
      BY <1>1, <3>1, <3>2, <3>3, <3>4 DEF Block, CursorOK
    <3> QED
      BY <1>1, <1>2, <1>5, <3>5 DEF DataInv
  <2> QED
    BY <2>2, <2>3
<1> QED
  BY <1>4, <1>5

\* Tensors come at the cursor, behind the block; the others keep their size.
LEMMA BlockHolds ==
  ASSUME Block, MemoryInv, LayoutTotal(asm.blobs) \in Nat, MemoryStep, UNCHANGED <<asm, data>>
  PROVE  Block'
<1> DEFINE from == asm.base
           end == asm.base + LayoutTotal(asm.blobs)
<1>1. /\ from \in Nat /\ from % 64 = 0 /\ end \in Nat /\ end <= cursor /\ data = Written(asm.blobs, asm.base)
      /\ \A m \in Maps : Clear(m, from, end)
  BY DEF Block
<1>2. CursorOK /\ MapsOK(Maps, cursor) /\ heap \in Maps
  BY DEF MemoryInv, Maps
<1>3. end <= cursor' /\ \A m \in Maps' : Clear(m, from, end)
  <2> HIDE DEF from, end
  <2>1. CASE UNCHANGED memVars
    BY <1>1, <2>1 DEF memVars, Maps
  <2>2. CASE Puts
    <3>1. PICK t : Storable(t) /\ Allocate(t)
      BY <2>2 DEF Puts
    <3>2. /\ heap' = With(heap, cursor, t) /\ cursor' = cursor + AlignUp(TensorBytes(t), 64)
          /\ saved' = saved
      BY <3>1 DEF Allocate
    <3>3. cursor' \in Nat /\ cursor + TensorBytes(t) <= cursor' /\ TensorBytes(t) \in Nat
      BY <1>2, <3>1, <3>2, Ahead DEF Storable
    <3>4. end <= cursor'
      BY <1>1, <1>2, <3>3 DEF CursorOK
    <3>5. /\ DOMAIN heap' = DOMAIN heap \cup {cursor}
          /\ \A h \in DOMAIN heap : h # cursor => heap'[h] = heap[h]
      BY <3>2 DEF With
    <3>6. Clear(heap', from, end)
      BY <1>1, <1>2, <3>5 DEF Clear
    <3>7. \A m \in Maps' : m = heap' \/ m \in Maps
      BY <3>2 DEF Maps
    <3> QED
      BY <1>1, <3>4, <3>6, <3>7
  <2>3. CASE Patches
    <3>1. PICK a \in DOMAIN heap : ~heap[a].sparse /\ \E d : Patchwork(a, d)
      BY <2>3 DEF Patches
    <3>2. PICK d : Patchwork(a, d)
      BY <3>1
    <3> DEFINE t == [heap[a] EXCEPT !.data = d]
    <3>3. heap' = [heap EXCEPT ![a] = t] /\ cursor' = cursor /\ saved' = saved
      BY <3>2 DEF Patchwork
    <3>4. Storable(heap[a])
      BY <1>2 DEF MapsOK, Below
    <3>5. t.shape = heap[a].shape /\ t.dtype = heap[a].dtype /\ t.sparse = heap[a].sparse
      BY <3>4 DEF Storable
    <3> HIDE DEF t
    <3>6. TensorBytes(t) = TensorBytes(heap[a])
      BY <3>1, <3>5 DEF TensorBytes
    <3>7. Clear(heap', from, end)
      BY <1>1, <1>2, <3>3, <3>6 DEF Clear
    <3>8. \A m \in Maps' : m = heap' \/ m \in Maps
      BY <3>3 DEF Maps
    <3> QED
      BY <1>1, <3>3, <3>7, <3>8
  <2>4. CASE Saves
    <3>1. saved' = With(saved, version + 1, heap) /\ heap' = heap /\ cursor' = cursor
      BY <2>4 DEF Saves
    <3>2. \A x \in DOMAIN saved' : saved'[x] = heap \/ (x \in DOMAIN saved /\ saved'[x] = saved[x])
      BY <3>1 DEF With
    <3>3. Maps' \in SUBSET Maps
      BY <3>1, <3>2 DEF Maps, Range
    <3> QED
      BY <1>1, <3>1, <3>3
  <2>5. CASE Backs
    <3>1. PICK v \in DOMAIN saved : heap' = saved[v] /\ UNCHANGED <<cursor, saved, version>>
      BY <2>5 DEF Backs, Restored
    <3>2. Maps' \in SUBSET Maps
      BY <3>1 DEF Maps, Range
    <3> QED
      BY <1>1, <3>1, <3>2
  <2> QED
    BY <2>1, <2>2, <2>3, <2>4, <2>5 DEF MemoryStep
<1> QED
  BY <1>1, <1>3 DEF Block

\* The inductive invariant of the data section.
THEOREM DataInvariant == Spec => []DataInv
<1>1. Init => DataInv
  BY DEF Init, DataInv
<1>2. LoadInv /\ AddressInv /\ DataInv /\ [Next]_vars => DataInv'
  <2> SUFFICES ASSUME LoadInv, AddressInv, DataInv, [Next]_vars PROVE DataInv'
    OBVIOUS
  <2>1. CASE UNCHANGED vars
    <3>1. UNCHANGED memVars /\ UNCHANGED <<stage, asm, file, data>>
      BY <2>1 DEF vars, machineVars, fileVars
    <3> QED
      BY <3>1 DEF DataInv, Block, Maps, memVars, SectionOK
  <2>2. CASE AssembleData
    BY <2>2 DEF AssembleData, Refused, DataInv
  <2>3. CASE Damage
    BY <2>3 DEF Damage, DataInv
  <2>4. CASE Open
    <3>1. SavedFile
      BY <2>4 DEF Open, LoadInv, WayInv
    <3>2. file # NoFile
      BY <3>1 DEF SavedFile, NoFile
    <3>3. (stage' = "loaded" /\ file' = file) \/ stage' = "refused"
      BY <2>4 DEF Open, Start, Refused
    <3> QED
      BY <3>2, <3>3 DEF DataInv
  <2>5. CASE LoadAssembled
    BY <2>5, LoadData
  <2>6. CASE Run
    <3>1. stage = "loaded" /\ UNCHANGED <<stage, task, asm, file, data>> /\ Step
      BY <2>6 DEF Run, fileVars
    <3>2. CASE file = NoFile
      <4>1. SectionOK(asm) /\ IF asm.blobs = <<>> THEN data = <<>> ELSE Block
        BY <3>1, <3>2 DEF DataInv
      <4>2. CASE asm.blobs = <<>>
        BY <3>1, <4>1, <4>2 DEF DataInv, SectionOK
      <4>3. CASE asm.blobs # <<>>
        <5>1. LayoutTotal(asm.blobs) \in Nat
          BY <4>1, LayoutIs DEF SectionOK, Stacked
        <5>2. MemoryInv /\ MemoryStep
          BY <2>6, RunsMemory DEF AddressInv
        <5>3. Block'
          BY <3>1, <4>1, <4>3, <5>1, <5>2, BlockHolds
        <5> QED
          BY <3>1, <4>1, <4>3, <5>3 DEF DataInv, SectionOK
      <4> QED
        BY <4>2, <4>3
    <3>3. CASE file # NoFile
      BY <3>1, <3>3 DEF DataInv
    <3> QED
      BY <3>2, <3>3
  <2>7. CASE \E ext \in {"m3asm", "m3bin", "m3bc"} : Save(ext)
    BY <2>7 DEF Save, SaveAs, Refused, DataInv
  <2> QED
    BY <2>1, <2>2, <2>3, <2>4, <2>5, <2>6, <2>7 DEF Next
<1> QED
  BY <1>1, <1>2, LoadInvariant, AddressInvariant, PTL DEF Spec

\* The places of the blobs share no byte, so that what is written last at a
\* byte is the blob it belongs to.
LEMMA WrittenIs ==
  ASSUME NEW blobs, Stacked(blobs), BlobsOK(blobs), NEW base \in Nat,
         NEW i \in DOMAIN blobs, NEW k \in 0 .. (BlobBytes(blobs[i]) - 1)
  PROVE  LET a == base + Layout(blobs).starts[i] + k
         IN  a \in DOMAIN Written(blobs, base) /\ Written(blobs, base)[a] = <<blobs[i].name, k>>
<1> DEFINE at == Layout(blobs).starts
           a == base + at[i] + k
           bytes(j) == BlobBytes(blobs[j])
<1>1. DOMAIN blobs \in SUBSET Nat
  BY SeqFacts DEF BlobsOK
<1>2. /\ \A j \in DOMAIN blobs : at[j] \in Nat /\ bytes(j) \in Nat
      /\ \A j, l \in DOMAIN blobs : j < l => at[j] + bytes(j) <= at[l]
  BY DEF Stacked, BlobsOK
<1>3. \A j \in DOMAIN blobs : PlaceOf(blobs, base, j) = {(base + at[j]) + x : x \in 0 .. (bytes(j) - 1)}
  BY DEF PlaceOf
<1> HIDE DEF at, bytes
<1>4. k \in 0 .. (bytes(i) - 1)
  BY DEF bytes
<1>5. a \in PlaceOf(blobs, base, i)
  BY <1>2, <1>3, <1>4
<1>6. ASSUME NEW j \in DOMAIN blobs, a \in PlaceOf(blobs, base, j)
      PROVE  j = i
  <2>1. PICK x \in 0 .. (bytes(j) - 1) : a = (base + at[j]) + x
    BY <1>3, <1>6
  <2>2. at[j] \in Nat /\ at[i] \in Nat /\ bytes(j) \in Nat /\ bytes(i) \in Nat
    BY <1>2
  <2>3. at[j] <= at[i] + k /\ at[i] <= at[j] + x /\ at[i] + k < at[j] + bytes(j) /\ at[j] + x < at[i] + bytes(i)
    BY <1>4, <2>1, <2>2
  <2>4. ~(j < i) /\ ~(i < j)
    BY <1>2, <1>4, <2>1, <2>2, <2>3
  <2> QED
    BY <1>1, <2>4
<1>7. LastAt(blobs, base, a) = i
  <2>1. /\ a \in PlaceOf(blobs, base, i)
        /\ \A j \in DOMAIN blobs : a \in PlaceOf(blobs, base, j) => j <= i
    BY <1>1, <1>5, <1>6
  <2> HIDE DEF a
  <2> QED
    BY <1>6, <2>1 DEF LastAt
<1>8. a - (base + at[i]) = k
  BY <1>2, <1>4
<1> HIDE DEF a
<1>9. a \in UNION {PlaceOf(blobs, base, j) : j \in DOMAIN blobs}
  BY <1>5
<1>10. a \in DOMAIN Written(blobs, base) /\ Written(blobs, base)[a] = <<blobs[i].name, k>>
  BY <1>7, <1>8, <1>9 DEF Written, at
<1> QED
  BY <1>10 DEF a, at

\* Every byte of the data section stays where the assembler said, in a block
\* no tensor comes to lie on: labels and loads agree with load_assembled
\* (data_layout_addrs_at of opcodes.rs, load_assembled of vm.rs).
THEOREM DataStaysWhereSaid == Spec => []DataWhereSaid
<1>1. MemoryInv /\ DataInv => DataWhereSaid
  <2> SUFFICES ASSUME MemoryInv, DataInv, stage = "loaded", file = NoFile
               PROVE  /\ \A i \in DOMAIN asm.blobs :
                           LET b == asm.blobs[i]  at == asm.syms.addrs[b.name] IN
                           /\ \A k \in 0..(BlobBytes(b) - 1) :
                                at + k \in DOMAIN data /\ data[at + k] = <<b.name, k>>
                           /\ b.type # ".str" => at % 4 = 0
                      /\ \A a \in DOMAIN data : a < cursor /\ \A h \in DOMAIN heap :
                           a < h \/ a >= h + TensorBytes(heap[h])
    BY DEF DataWhereSaid
  <2> DEFINE blobs == asm.blobs
             starts == Layout(blobs).starts
             base == asm.base
             total == LayoutTotal(blobs)
  <2>1. SectionOK(asm) /\ IF blobs = <<>> THEN data = <<>> ELSE Block
    BY DEF DataInv
  <2>2. CASE blobs = <<>>
    BY <2>1, <2>2
  <2>3. CASE blobs # <<>>
    <3>1. Block /\ BlobsOK(blobs) /\ Stacked(blobs)
      BY <2>1, <2>3, LayoutIs DEF SectionOK
    <3>2. /\ base \in Nat /\ base % 64 = 0 /\ base + total <= cursor /\ data = Written(blobs, base)
          /\ Clear(heap, base, base + total)
      BY <3>1 DEF Block, Maps
    <3>3. ASSUME NEW i \in DOMAIN blobs
          PROVE  LET b == blobs[i]  at == asm.syms.addrs[b.name] IN
                 /\ \A k \in 0..(BlobBytes(b) - 1) :
                      at + k \in DOMAIN data /\ data[at + k] = <<b.name, k>>
                 /\ b.type # ".str" => at % 4 = 0
      <4>1. asm.syms.addrs[blobs[i].name] = base + starts[i]
        BY <2>1 DEF SectionOK
      <4>2. starts[i] \in Nat /\ starts[i] % BlobAlign(blobs[i]) = 0
        BY <3>1 DEF Stacked
      <4>3. \A k \in 0..(BlobBytes(blobs[i]) - 1) :
              LET a == base + starts[i] + k
              IN  a \in DOMAIN Written(blobs, base) /\ Written(blobs, base)[a] = <<blobs[i].name, k>>
        BY <3>1, <3>2, WrittenIs
      <4> HIDE DEF blobs, starts, base
      <4>4. ASSUME blobs[i].type # ".str"
            PROVE  (base + starts[i]) % 4 = 0
        <5>1. starts[i] % 4 = 0
          BY <4>2, <4>4 DEF BlobAlign
        <5> QED
          BY ONLY <3>2, <4>2, <5>1
      <4> QED
        BY <3>2, <4>1, <4>3, <4>4
    <3>4. ASSUME NEW a \in DOMAIN data
          PROVE  a \in Nat /\ base <= a /\ a < base + total
      <4>1. PICK i \in DOMAIN blobs : a \in PlaceOf(blobs, base, i)
        BY <3>2, <3>4 DEF Written
      <4>2. /\ starts[i] \in Nat /\ total \in Nat /\ BlobBytes(blobs[i]) \in Nat
            /\ starts[i] + BlobBytes(blobs[i]) <= total
        BY <3>1 DEF Stacked, BlobsOK
      <4>3. PICK k \in 0 .. (BlobBytes(blobs[i]) - 1) : a = (base + starts[i]) + k
        BY <4>1 DEF PlaceOf
      <4> HIDE DEF blobs, starts, base, total
      <4> QED
        BY <3>2, <4>2, <4>3
    <3>5. ASSUME NEW a \in DOMAIN data
          PROVE  a < cursor /\ \A h \in DOMAIN heap : a < h \/ a >= h + TensorBytes(heap[h])
      <4>1. \A h \in DOMAIN heap : h \in Nat /\ TensorBytes(heap[h]) \in Nat
        BY DEF MemoryInv, MapsOK, Maps, Below, Storable
      <4>2. total \in Nat /\ cursor \in Nat
        BY <3>1 DEF Stacked, MemoryInv, CursorOK
      <4> HIDE DEF base, total
      <4> QED
        BY <3>2, <3>4, <4>1, <4>2 DEF Clear
    <3> QED
      BY <3>3, <3>5
  <2> QED
    BY <2>2, <2>3
<1>2. AddressInv => MemoryInv
  BY DEF AddressInv
<1> QED
  BY <1>1, <1>2, AddressInvariant, DataInvariant, PTL

---------------------------------------------------------------------------
(* The RAG store counts its indexes: a new one never takes the place of    *)
(* one that is there.  An index has as many ids as vectors.                *)

IndexOK(i) ==
  /\ DOMAIN i = {"dim", "next", "ids", "vecs"}
  /\ IsSeq(i.ids) /\ IsSeq(i.vecs) /\ Len(i.ids) = Len(i.vecs)
StoreOK(s) ==
  /\ s = [next |-> s.next, idx |-> s.idx] /\ s.next \in Nat
  /\ \A db \in DOMAIN s.idx : db \in Nat /\ db < s.next /\ IndexOK(s.idx[db])
RagInv == \A i \in DOMAIN stores : StoreOK(stores[i])
WritesStore == \E s : StoreOK(s) /\ WriteRag(s)

\* What RAG_INDEX_ADD and RAG_INDEX_DEL write: the same contents, an empty
\* index more, or a vector more or less.
Copies == WriteRag(Rag)
Begins == \E n : WriteRag([next |-> Rag.next + 1, idx |-> With(Rag.idx, Rag.next, NewIndex(n))])
Grows ==
  \E vec, id :
    \/ WriteRag([next |-> Rag.next + 1, idx |-> With(Rag.idx, Rag.next, AddTo(NewIndex(Len(vec)), vec, id))])
    \/ \E db \in DOMAIN Rag.idx :
         WriteRag([next |-> Rag.next, idx |-> With(Rag.idx, db, AddTo(Rag.idx[db], vec, id))])
Shrinks ==
  \E db \in DOMAIN Rag.idx : \E id \in ToSet(Rag.idx[db].ids) :
    WriteRag([Rag EXCEPT !.idx[db] = Without(Rag.idx[db], id)])

Beside == UNCHANGED <<memVars, stack, blocks>>

LEMMA RagAddIs ==
  ASSUME NEW ins, RagAdd(ins)
  PROVE  \/ Refuse
         \/ (Copies \/ Begins) /\ Beside /\ UNCHANGED regs
         \/ Grows /\ Beside /\ ins.d # Absent /\ \E v : SetTo(ins.d, v)
<1> DEFINE vec == TensorAt(ins.b).data
           id == IF ins.c = Absent THEN NoId ELSE regs[ins.c]
           new == regs[ins.a] = 0
           db == IF new THEN Rag.next ELSE regs[ins.a]
           index == IF new THEN NewIndex(Len(vec)) ELSE Rag.idx[db]
           made(i) == [next |-> IF new THEN Rag.next + 1 ELSE Rag.next, idx |-> With(Rag.idx, db, i)]
<1>1. \/ Refuse
      \/ WriteRag(IF new THEN made(index) ELSE Rag) /\ Beside /\ UNCHANGED regs
      \/ /\ new \/ db \in DOMAIN Rag.idx
         /\ WriteRag(made(AddTo(index, vec, id))) /\ Beside /\ ins.d # Absent /\ \E v : SetTo(ins.d, v)
  BY DEF RagAdd, Beside
<1>2. CASE new
  <2>1. /\ made(index) = [next |-> Rag.next + 1, idx |-> With(Rag.idx, Rag.next, NewIndex(Len(vec)))]
        /\ made(AddTo(index, vec, id)) =
             [next |-> Rag.next + 1, idx |-> With(Rag.idx, Rag.next, AddTo(NewIndex(Len(vec)), vec, id))]
    BY <1>2
  <2> HIDE DEF vec, id, db, index, made
  <2> QED
    BY <1>1, <1>2, <2>1 DEF Begins, Grows
<1>3. CASE ~new
  <2>1. made(AddTo(index, vec, id)) =
          [next |-> Rag.next, idx |-> With(Rag.idx, db, AddTo(Rag.idx[db], vec, id))]
    BY <1>3
  <2> HIDE DEF vec, id, db, index, made
  <2> QED
    BY <1>1, <1>3, <2>1 DEF Copies, Grows
<1> QED
  BY <1>2, <1>3

LEMMA RagDelIs ==
  ASSUME NEW ins, RagDel(ins)
  PROVE  \/ Refuse
         \/ Copies /\ Beside /\ UNCHANGED regs
         \/ Shrinks /\ Beside /\ ins.d # Absent /\ \E v : SetTo(ins.d, v)
<1> DEFINE db == regs[ins.a]
           id == regs[ins.b]
<1>1. \/ Refuse
      \/ WriteRag(Rag) /\ Beside /\ UNCHANGED regs
      \/ /\ db \in DOMAIN Rag.idx /\ id \in ToSet(Rag.idx[db].ids)
         /\ WriteRag([Rag EXCEPT !.idx[db] = Without(Rag.idx[db], id)])
         /\ Beside /\ ins.d # Absent /\ \E v : SetTo(ins.d, v)
  BY DEF RagDel, Beside
<1> HIDE DEF db, id
<1> QED
  BY <1>1 DEF Copies, Shrinks

LEMMA RemoveIs ==
  ASSUME NEW q, IsSeq(q), NEW k \in DOMAIN q
  PROVE  IsSeq(RemoveAt(q, k)) /\ Len(RemoveAt(q, k)) = Len(q) - 1
<1>1. PICK S : q \in Seq(S)
  BY DEF IsSeq
<1>2. Len(q) \in Nat /\ k \in 1 .. Len(q)
  BY <1>1
<1> DEFINE s == SubSeq(q, 1, k - 1)
           t == SubSeq(q, k + 1, Len(q))
<1>3. s \in Seq(S) /\ Len(s) = k - 1
  <2>1. \A i \in 1 .. k - 1 : q[i] \in S
    BY <1>1, <1>2
  <2> QED
    BY <1>1, <1>2, <2>1
<1>4. t \in Seq(S) /\ Len(t) = Len(q) - k
  <2>1. \A i \in k + 1 .. Len(q) : q[i] \in S
    BY <1>1, <1>2
  <2> QED
    BY <1>1, <1>2, <2>1
<1> HIDE DEF s, t
<1>5. s \o t \in Seq(S) /\ Len(s \o t) = Len(q) - 1
  BY <1>2, <1>3, <1>4
<1> QED
  BY <1>5 DEF RemoveAt, IsSeq, s, t

LEMMA RemoveLast ==
  ASSUME NEW q, IsSeq(q), NEW e
  PROVE  /\ IsSeq(Append(q, e)) /\ Len(Append(q, e)) = Len(q) + 1 /\ Len(q) + 1 \in DOMAIN Append(q, e)
         /\ SubSeq(Append(q, e), 1, Len(q)) = q /\ Append(q, e)[Len(q) + 1] = e
         /\ RemoveAt(Append(q, e), Len(q) + 1) = q
<1>1. PICK R : q \in Seq(R)
  BY DEF IsSeq
<1> DEFINE S == R \cup {e}
           more == Append(q, e)
           n == Len(q)
<1>2. q \in Seq(S) /\ e \in S
  BY <1>1, SeqMonotonic
<1> HIDE DEF S
<1>3. /\ n \in Nat /\ more \in Seq(S) /\ Len(more) = n + 1
      /\ DOMAIN more = 1 .. n + 1 /\ more[n + 1] = e
      /\ \A i \in 1 .. n : more[i] = q[i]
  BY <1>2
<1> HIDE DEF more
<1>4. SubSeq(more, 1, n) = q
  <2>1. /\ SubSeq(more, 1, n) \in Seq(S) /\ Len(SubSeq(more, 1, n)) = n
        /\ \A i \in 1 .. n : SubSeq(more, 1, n)[i] = more[i]
    BY <1>3
  <2> HIDE DEF n
  <2> QED
    BY <1>2, <1>3, <2>1 DEF n
<1>5. SubSeq(more, (n + 1) + 1, n + 1) = <<>>
  BY <1>3
<1>6. (n + 1) - 1 = n
  BY <1>3
<1>7. RemoveAt(more, n + 1) = q \o <<>>
  BY <1>3, <1>4, <1>5, <1>6 DEF RemoveAt
<1>8. q \o <<>> = q
  BY <1>2
<1>9. IsSeq(more)
  BY <1>3 DEF IsSeq
<1> QED
  BY <1>3, <1>4, <1>7, <1>8, <1>9 DEF more

LEMMA AddIs ==
  ASSUME NEW index, IndexOK(index), NEW vec, NEW id
  PROVE  LET more == AddTo(index, vec, id)
         IN  IndexOK(more) /\ IsGone(more, index) /\ more.dim = index.dim
<1> DEFINE more == AddTo(index, vec, id)
<1>1. PICK x :
        /\ more.dim = index.dim /\ DOMAIN more = {"dim", "next", "ids", "vecs"}
        /\ more.ids = Append(index.ids, x) /\ more.vecs = Append(index.vecs, vec)
  <2> DEFINE y == Append(index.ids, IF id = NoId THEN index.next ELSE id)
             m == IF id = NoId THEN index.next + 1 ELSE index.next
             z == Append(index.vecs, vec)
  <2>1. more = [index EXCEPT !.ids = y, !.next = m, !.vecs = z]
    BY Zenon DEF AddTo
  <2> HIDE DEF m, y, z, more
  <2>2. more.dim = index.dim /\ DOMAIN more = DOMAIN index /\ more.ids = y /\ more.vecs = z
    BY <2>1 DEF IndexOK
  <2> QED
    BY <2>2 DEF y, z, IndexOK
<1> HIDE DEF more
<1>2. IsSeq(index.ids) /\ IsSeq(index.vecs) /\ Len(index.ids) = Len(index.vecs)
  BY DEF IndexOK
<1>3. /\ IsSeq(more.ids) /\ Len(more.ids) = Len(index.ids) + 1
      /\ IsSeq(more.vecs) /\ Len(more.vecs) = Len(index.vecs) + 1
  <2>1. \A q, e : IsSeq(q) => IsSeq(Append(q, e)) /\ Len(Append(q, e)) = Len(q) + 1
    BY RemoveLast
  <2> QED
    BY <1>1, <1>2, <2>1
<1>4. IndexOK(more)
  BY <1>1, <1>2, <1>3 DEF IndexOK
<1>5. IsGone(more, index)
  <2> DEFINE k == Len(index.ids) + 1
  <2>1. k \in DOMAIN more.ids /\ RemoveAt(more.ids, k) = index.ids
    BY <1>1, <1>2, RemoveLast
  <2>2. RemoveAt(more.vecs, Len(index.vecs) + 1) = index.vecs
    BY <1>1, <1>2, RemoveLast
  <2> HIDE DEF k
  <2>3. RemoveAt(more.vecs, k) = index.vecs
    BY <1>2, <2>2 DEF k
  <2> QED
    BY <2>1, <2>3 DEF IsGone
<1> QED
  BY <1>1, <1>4, <1>5 DEF more

LEMMA WithoutIs ==
  ASSUME NEW index, IndexOK(index), NEW id \in ToSet(index.ids)
  PROVE  LET less == Without(index, id)
         IN  IndexOK(less) /\ IsGone(index, less) /\ less.dim = index.dim
<1> DEFINE places == {k \in DOMAIN index.ids : index.ids[k] = id}
           pos == Min(places)
           less == Without(index, id)
<1>1. IsSeq(index.ids) /\ IsSeq(index.vecs) /\ Len(index.ids) = Len(index.vecs)
  BY DEF IndexOK
<1>2. DOMAIN index.ids = 1 .. Len(index.ids) /\ DOMAIN index.vecs = 1 .. Len(index.vecs) /\ Len(index.ids) \in Nat
  BY <1>1, SeqFacts
<1>3. pos \in places
  <2>1. places \in SUBSET Nat /\ places # {}
    BY <1>2 DEF ToSet
  <2> HIDE DEF places
  <2>2. \E x \in places : \A y \in places : x <= y
    BY <2>1, Least
  <2> QED
    BY <2>2 DEF Min
<1>4. pos \in DOMAIN index.ids /\ pos \in DOMAIN index.vecs
  BY <1>1, <1>2, <1>3
<1>5. /\ less.dim = index.dim /\ DOMAIN less = {"dim", "next", "ids", "vecs"}
      /\ less.ids = RemoveAt(index.ids, pos) /\ less.vecs = RemoveAt(index.vecs, pos)
  <2> DEFINE x == RemoveAt(index.ids, pos)
             y == RemoveAt(index.vecs, pos)
  <2>1. less = [index EXCEPT !.ids = x, !.vecs = y]
    BY Zenon DEF Without
  <2> HIDE DEF pos, x, y, less
  <2>2. less.dim = index.dim /\ DOMAIN less = DOMAIN index /\ less.ids = x /\ less.vecs = y
    BY <2>1 DEF IndexOK
  <2> QED
    BY <2>2 DEF x, y, IndexOK
<1> HIDE DEF pos, less
<1>6. IndexOK(less)
  BY <1>1, <1>4, <1>5, RemoveIs DEF IndexOK
<1>7. IsGone(index, less)
  BY <1>4, <1>5 DEF IsGone
<1> QED
  BY <1>5, <1>6, <1>7 DEF less

LEMMA NewIndexOK ==
  ASSUME NEW n
  PROVE  IndexOK(NewIndex(n)) /\ NewIndex(n).ids = <<>> /\ NewIndex(n).dim = n
<1>1. IsSeq(<<>>)
  <2>1. <<>> \in Seq({})
    OBVIOUS
  <2> QED
    BY <2>1, SeqIs
<1> QED
  BY <1>1 DEF NewIndex, IndexOK

\* The store after the write is the one that was written.
LEMMA WriteIs ==
  ASSUME Formed(engines), NEW s, WriteRag(s)
  PROVE  /\ stores'[engines'.rag] = s
         /\ engines'.arenas = engines.arenas /\ engines'.layers = engines.layers
<1>1. PICK at : stores' = With(stores, at, s) /\ engines' = [engines EXCEPT !.rag = at]
  BY DEF WriteRag
<1>2. engines'.rag = at /\ engines'.arenas = engines.arenas /\ engines'.layers = engines.layers
  BY <1>1 DEF Formed
<1> QED
  BY <1>1, <1>2 DEF With

\* One index of the store replaced, or made.
LEMMA IndexWritten ==
  ASSUME StoreOK(Rag), NEW db, NEW i, IndexOK(i),
         NEW next \in Nat, next >= Rag.next, db \in DOMAIN Rag.idx \/ (db = Rag.next /\ next = Rag.next + 1)
  PROVE  StoreOK([next |-> next, idx |-> With(Rag.idx, db, i)])
<1> DEFINE w == With(Rag.idx, db, i)
           s == [next |-> next, idx |-> w]
<1>1. /\ DOMAIN w = DOMAIN Rag.idx \cup {db} /\ w[db] = i
      /\ \A x \in DOMAIN Rag.idx : x # db => w[x] = Rag.idx[x]
  BY DEF With
<1> HIDE DEF w
<1>2. s.next = next /\ s.idx = w /\ s = [next |-> s.next, idx |-> s.idx]
  OBVIOUS
<1> HIDE DEF s
<1>3. Rag.next \in Nat /\ \A x \in DOMAIN Rag.idx : x \in Nat /\ x < Rag.next /\ IndexOK(Rag.idx[x])
  BY DEF StoreOK
<1>4. \A x \in DOMAIN w : x \in Nat /\ x < next /\ IndexOK(w[x])
  BY <1>1, <1>3
<1> QED
  BY <1>2, <1>4 DEF StoreOK, s, w

LEMMA GrowsIs ==
  ASSUME Formed(engines), StoreOK(Rag), Grows
  PROVE  WritesStore /\ OneIndexChanged /\ engines'.arenas = engines.arenas /\ engines'.layers = engines.layers
<1> DEFINE before == Rag.idx
<1>1. PICK db, i, old, next :
        /\ IndexOK(old) /\ IndexOK(i) /\ IsGone(i, old) /\ i.dim = old.dim
        /\ old = IF db \in DOMAIN before THEN before[db] ELSE NewIndex(i.dim)
        /\ next \in Nat /\ next >= Rag.next /\ (db \in DOMAIN before \/ (db = Rag.next /\ next = Rag.next + 1))
        /\ WriteRag([next |-> next, idx |-> With(before, db, i)])
  <2>1. Rag.next \in Nat /\ \A x \in DOMAIN before : x \in Nat /\ x < Rag.next /\ IndexOK(before[x])
    BY DEF StoreOK
  <2>2. Rag.next \notin DOMAIN before
    BY <2>1
  <2>3. PICK vec, id :
          \/ WriteRag([next |-> Rag.next + 1, idx |-> With(before, Rag.next, AddTo(NewIndex(Len(vec)), vec, id))])
          \/ \E db \in DOMAIN before :
               WriteRag([next |-> Rag.next, idx |-> With(before, db, AddTo(before[db], vec, id))])
    BY DEF Grows
  <2>4. CASE WriteRag([next |-> Rag.next + 1, idx |-> With(before, Rag.next, AddTo(NewIndex(Len(vec)), vec, id))])
    <3> DEFINE old == NewIndex(Len(vec))
               i == AddTo(old, vec, id)
    <3>1. IndexOK(old) /\ old.dim = Len(vec)
      BY NewIndexOK
    <3>2. IndexOK(i) /\ IsGone(i, old) /\ i.dim = old.dim
      BY <3>1, AddIs
    <3>3. old = NewIndex(i.dim)
      BY <3>1, <3>2
    <3>4. Rag.next + 1 \in Nat /\ Rag.next + 1 >= Rag.next
      BY <2>1
    <3> HIDE DEF old, i
    <3>5. WriteRag([next |-> Rag.next + 1, idx |-> With(before, Rag.next, i)])
      BY <2>4 DEF i, old
    <3> HIDE DEF before
    <3> QED
      BY <2>2, <3>1, <3>2, <3>3, <3>4, <3>5
  <2>5. CASE \E db \in DOMAIN before :
               WriteRag([next |-> Rag.next, idx |-> With(before, db, AddTo(before[db], vec, id))])
    <3>1. PICK db \in DOMAIN before :
            WriteRag([next |-> Rag.next, idx |-> With(before, db, AddTo(before[db], vec, id))])
      BY <2>5
    <3> DEFINE old == before[db]
               i == AddTo(old, vec, id)
    <3>2. IndexOK(old)
      BY <2>1
    <3>3. IndexOK(i) /\ IsGone(i, old) /\ i.dim = old.dim
      BY <3>2, AddIs
    <3>4. Rag.next >= Rag.next
      BY <2>1
    <3> HIDE DEF i
    <3>5. WriteRag([next |-> Rag.next, idx |-> With(before, db, i)])
      BY <3>1 DEF i
    <3> HIDE DEF before
    <3> QED
      BY <2>1, <3>2, <3>3, <3>4, <3>5
  <2> QED
    BY <2>3, <2>4, <2>5
<1> DEFINE w == With(before, db, i)
           s == [next |-> next, idx |-> w]
<1>2. StoreOK(s) /\ WriteRag(s)
  BY <1>1, IndexWritten
<1>3. DOMAIN w = DOMAIN before \cup {db} /\ w[db] = i
  BY DEF With
<1>4. s.idx = w /\ w = With(before, db, w[db])
  BY <1>3
<1> HIDE DEF s, w
<1>5. stores'[engines'.rag].idx = w /\ engines'.arenas = engines.arenas /\ engines'.layers = engines.layers
  BY <1>2, <1>4, WriteIs
<1>6. OneIndexChanged
  BY <1>1, <1>3, <1>4, <1>5 DEF OneIndexChanged, Rag
<1> QED
  BY <1>2, <1>5, <1>6 DEF WritesStore

LEMMA ShrinksIs ==
  ASSUME Formed(engines), StoreOK(Rag), Shrinks
  PROVE  WritesStore /\ OneIndexChanged /\ engines'.arenas = engines.arenas /\ engines'.layers = engines.layers
<1> DEFINE before == Rag.idx
<1>1. PICK db \in DOMAIN before : \E id \in ToSet(before[db].ids) :
        WriteRag([Rag EXCEPT !.idx[db] = Without(before[db], id)])
  BY DEF Shrinks
<1>0. PICK id \in ToSet(before[db].ids) : WriteRag([Rag EXCEPT !.idx[db] = Without(before[db], id)])
  BY <1>1
<1> DEFINE i == Without(before[db], id)
           w == With(before, db, i)
           s == [next |-> Rag.next, idx |-> w]
<1>2. IndexOK(before[db]) /\ Rag.next \in Nat /\ Rag.next >= Rag.next
  BY DEF StoreOK
<1>3. IndexOK(i) /\ IsGone(before[db], i) /\ i.dim = before[db].dim
  BY <1>2, WithoutIs
<1> HIDE DEF i
<1>4. w = [before EXCEPT ![db] = i]
  BY DEF With
<1>5. [Rag EXCEPT !.idx[db] = i] = s
  BY <1>4 DEF StoreOK
<1>6. StoreOK(s) /\ WriteRag(s)
  BY <1>0, <1>2, <1>3, <1>5, IndexWritten DEF i
<1>7. DOMAIN w = DOMAIN before \cup {db} /\ w[db] = i
  BY DEF With
<1>8. s.idx = w /\ w = With(before, db, w[db])
  BY <1>7
<1> HIDE DEF s, w
<1>9. stores'[engines'.rag].idx = w /\ engines'.arenas = engines.arenas /\ engines'.layers = engines.layers
  BY <1>6, <1>8, WriteIs
<1>10. OneIndexChanged
  BY <1>3, <1>7, <1>8, <1>9 DEF OneIndexChanged, Rag
<1> QED
  BY <1>6, <1>9, <1>10 DEF WritesStore

\* The same contents, or an empty index more, under a number of its own.
LEMMA CopiesIs ==
  ASSUME Formed(engines), StoreOK(Rag), Copies \/ Begins
  PROVE  WritesStore /\ IndexesStay /\ engines'.arenas = engines.arenas /\ engines'.layers = engines.layers
<1> DEFINE before == Rag.idx
<1>1. CASE Copies
  <2>1. stores'[engines'.rag] = Rag /\ engines'.arenas = engines.arenas /\ engines'.layers = engines.layers
    BY <1>1, WriteIs DEF Copies
  <2> QED
    BY <1>1, <2>1 DEF Copies, WritesStore, IndexesStay, Rag
<1>2. CASE Begins
  <2>1. PICK n : WriteRag([next |-> Rag.next + 1, idx |-> With(before, Rag.next, NewIndex(n))])
    BY <1>2 DEF Begins
  <2> DEFINE w == With(before, Rag.next, NewIndex(n))
             s == [next |-> Rag.next + 1, idx |-> w]
  <2>2. Rag.next \in Nat /\ \A x \in DOMAIN before : x \in Nat /\ x < Rag.next
    BY DEF StoreOK
  <2>3. Rag.next \notin DOMAIN before /\ Rag.next + 1 \in Nat /\ Rag.next + 1 >= Rag.next
    BY <2>2
  <2>4. IndexOK(NewIndex(n)) /\ NewIndex(n).ids = <<>>
    BY NewIndexOK
  <2>5. StoreOK(s) /\ WriteRag(s)
    BY <2>1, <2>3, <2>4, IndexWritten
  <2>6. /\ DOMAIN w = DOMAIN before \cup {Rag.next} /\ w[Rag.next] = NewIndex(n)
        /\ \A x \in DOMAIN before : x # Rag.next => w[x] = before[x]
    BY DEF With
  <2>7. s.idx = w
    OBVIOUS
  <2> HIDE DEF s, w
  <2>8. stores'[engines'.rag].idx = w /\ engines'.arenas = engines.arenas /\ engines'.layers = engines.layers
    BY <2>5, <2>7, WriteIs
  <2>9. IndexesStay
    BY <2>3, <2>4, <2>6, <2>8 DEF IndexesStay, Rag
  <2> QED
    BY <2>5, <2>8, <2>9 DEF WritesStore
<1> QED
  BY <1>1, <1>2

LEMMA RagWrites ==
  ASSUME IInv, RagInv, NEW ins, RagAdd(ins) \/ RagDel(ins)
  PROVE  UNCHANGED stores \/ WritesStore
<1>1. StoreOK(Rag) /\ Formed(engines)
  BY DEF IInv, EnginesOK, StoresOK, RagInv, Rag
<1>2. Refuse \/ Copies \/ Begins \/ Grows \/ Shrinks
  BY RagAddIs, RagDelIs
<1> QED
  BY <1>1, <1>2, GrowsIs, ShrinksIs, CopiesIs DEF Refuse, engVars

LEMMA StoresAre ==
  ASSUME IInv, RagInv, Next
  PROVE  UNCHANGED stores \/ WritesStore
<1>1. CASE AssembleData \/ Damage \/ \E ext \in {"m3asm", "m3bin", "m3bc"} : Save(ext)
  BY <1>1 DEF AssembleData, Damage, Save, machineVars, engVars
<1>2. CASE Open
  <2>1. ASSUME NEW r, NEW ext, Start(r, ext)
        PROVE  UNCHANGED engVars
    BY <2>1 DEF Start, LoadProgram, machineVars
  <2> QED
    BY <1>2, <2>1 DEF Open, engVars
<1>3. CASE LoadAssembled
  BY <1>3 DEF LoadAssembled, LoadProgram, machineVars, engVars
<1>4. CASE Run
  <2>1. CASE FetchFails
    BY <2>1 DEF FetchFails, Refuse, engVars
  <2> DEFINE ins == Current
             p == Params(Current)
  <2>2. CASE Execute(ins, p)
    <3>1. \A r : Complete(r, ins) => UNCHANGED engVars
      BY DEF Complete, Crashes, Refuse
    <3>2. CASE \/ NewTensor(ins, p) \/ Compute(ins, p) \/ Attention(ins, p) \/ EmbedRow(ins, p) \/ Sample(ins, p)
               \/ RagSearch(ins, p)
      <4>1. UNCHANGED engVars
        BY <3>1, <3>2 DEF NewTensor, Compute, Attention, Finish, EmbedRow, Sample, RagSearch, FoundBy, Refuse
      <4> QED
        BY <4>1 DEF engVars
    <3>3. CASE RankOne(ins, p)
      <4>1. \A r : PutRankOne(r, ins, p) => UNCHANGED stores
        BY DEF PutRankOne, Refuse, engVars
      <4> QED
        BY <3>3, <4>1 DEF RankOne
    <3>4. CASE Move(ins, p) \/ Compare(ins, p) \/ Jump(ins, p) \/ Call(p) \/ Ret
      BY <3>4 DEF Move, Compare, Jump, Call, Ret, Refuse, engVars
    <3>5. CASE ArenaAlloc(ins, p) \/ ArenaReset(p) \/ CopyBytes(ins, p) \/ FillBytes(ins, p) \/ Halt \/ Nop
      BY <3>5 DEF ArenaAlloc, ArenaReset, CopyBytes, FillBytes, Halt, Nop, Refuse, engVars
    <3>6. CASE RagAdd(ins) \/ RagDel(ins)
      BY <3>6, RagWrites
    <3>7. CASE TakeSnapshot(ins, p) \/ RestoreTo(ins)
      BY <3>7 DEF TakeSnapshot, RestoreTo, Refuse, engVars
    <3> QED
      BY <2>2, <3>2, <3>3, <3>4, <3>5, <3>6, <3>7 DEF Execute
  <2> QED
    BY <1>4, <2>1, <2>2 DEF Run, Step
<1> QED
  BY <1>1, <1>2, <1>3, <1>4 DEF Next

THEOREM RagInvariant == Spec => []RagInv
<1>1. Init => RagInv
  <2> SUFFICES ASSUME Init PROVE RagInv
    OBVIOUS
  <2>1. stores = [i \in {0} |-> NewStore]
    BY DEF Init, MachineInit
  <2>2. StoreOK(NewStore)
    BY DEF StoreOK, NewStore
  <2> QED
    BY <2>1, <2>2 DEF RagInv
<1>2. IInv /\ RagInv /\ [Next]_vars => RagInv'
  <2> SUFFICES ASSUME IInv, RagInv, [Next]_vars PROVE RagInv'
    OBVIOUS
  <2>1. CASE UNCHANGED stores
    BY <2>1 DEF RagInv
  <2>2. CASE WritesStore
    <3>1. PICK s : StoreOK(s) /\ WriteRag(s)
      BY <2>2 DEF WritesStore
    <3>2. PICK at : stores' = With(stores, at, s)
      BY <3>1 DEF WriteRag
    <3>3. \A i \in DOMAIN stores' : stores'[i] = s \/ (i \in DOMAIN stores /\ stores'[i] = stores[i])
      BY <3>2 DEF With
    <3> QED
      BY <3>1, <3>3 DEF RagInv
  <2>3. UNCHANGED vars => UNCHANGED stores
    BY DEF vars, machineVars, engVars
  <2> QED
    BY <2>1, <2>2, <2>3, StoresAre
<1> QED
  BY <1>1, <1>2, Invariant, PTL DEF Spec

---------------------------------------------------------------------------
(* What a refused opcode leaves behind: nothing of its work, or all of it  *)
(* where only the register was missing.                                    *)

LeavesTensor == (\E t : Allocate(t)) /\ UNCHANGED <<regs, engVars>>
LeavesArena ==
  /\ Beside /\ UNCHANGED <<regs, stores>>
  /\ \E id : engines' = [engines EXCEPT !.arenas = With(@, id, Arena(id))]
LeavesIndex == (Copies \/ Begins) /\ Beside /\ UNCHANGED regs
Refusal == UNCHANGED <<regs, memVars, engVars>> \/ LeavesTensor \/ LeavesArena \/ LeavesIndex

GrowsArena ==
  /\ Beside /\ UNCHANGED <<regs, stores>>
  /\ \E ins, p : /\ ins.op = "ARENA_ALLOC" /\ p = Params(ins)
                 /\ ArenaFits(Arena(p.arena), p.size, p.align)
                 /\ engines' = [engines EXCEPT !.arenas =
                      With(@, p.arena, Grown(Arena(p.arena), p.size, p.align))]
ChangesIndex == (Grows \/ Shrinks) /\ Beside /\ UNCHANGED regs
TakesVersion ==
  /\ version' = version + 1 /\ saved' = With(saved, version', heap)
  /\ stack' = Append(stack, Entry(version'))
  /\ UNCHANGED <<regs, heap, cursor, engines, stores, blocks>>
Late == GrowsArena \/ ChangesIndex \/ TakesVersion

Fails == phase = "running" /\ phase' \in {"err", "panic"}

LEMMA GoesOn ==
  ASSUME Fails
  PROVE  /\ ~Advance /\ ~UNCHANGED phase
         /\ \A r, v : SetTo(r, v) => ~IsReg(r) /\ UNCHANGED regs
         /\ \A r, v : SetAny(r, v) => ~RegOrNone(r) /\ UNCHANGED regs
<1>1. ~Advance /\ ~UNCHANGED phase
  BY DEF Fails, Advance
<1>2. \A r, v : SetTo(r, v) => ~IsReg(r) /\ UNCHANGED regs
  BY <1>1 DEF SetTo
<1> QED
  BY <1>1, <1>2 DEF SetAny, RegOrNone

LEMMA DeliverFails ==
  ASSUME Fails, NEW t, NEW ins, Deliver(t, ins)
  PROVE  UNCHANGED <<regs, memVars, engVars>> \/ (UNCHANGED regs /\ Allocate(t))
BY GoesOn DEF Deliver, Refuse

LEMMA CompleteFails ==
  ASSUME Fails, NEW r, NEW ins, Complete(r, ins)
  PROVE  Refusal
BY DeliverFails DEF Complete, Crashes, Refuse, Refusal, LeavesTensor

LEMMA ArenaFails ==
  ASSUME Fails, NEW ins, ins = Current, NEW p, p = Params(ins), ArenaAlloc(ins, p)
  PROVE  Refusal \/ (Late /\ ~RegOrNone(ins.d))
<1> DEFINE arena == Arena(p.arena)
           new == Grown(arena, p.size, p.align)
<1>0. ins.op = "ARENA_ALLOC"
  BY DEF ArenaAlloc, Fetches
<1>1. /\ engines' = [engines EXCEPT !.arenas = With(engines.arenas, p.arena, new)]
      /\ UNCHANGED <<memVars, stores, stack>>
  BY DEF ArenaAlloc
<1>2. CASE ArenaFits(arena, p.size, p.align)
  <2>1. ~RegOrNone(ins.d) /\ UNCHANGED <<regs, blocks>>
    BY <1>2, GoesOn DEF ArenaAlloc
  <2> QED
    BY <1>0, <1>1, <1>2, <2>1 DEF GrowsArena, Beside, Late
<1>3. CASE ~ArenaFits(arena, p.size, p.align)
  <2>1. UNCHANGED <<regs, blocks>>
    BY <1>3 DEF ArenaAlloc
  <2>2. new = arena
    BY <1>3 DEF Grown
  <2> QED
    BY <1>1, <2>1, <2>2 DEF LeavesArena, Beside, Refusal
<1> QED
  BY <1>2, <1>3

LEMMA RagFails ==
  ASSUME Fails, NEW ins, RagAdd(ins) \/ RagDel(ins)
  PROVE  Refusal \/ (Late /\ ~RegOrNone(ins.d))
<1>1. \/ Refuse
      \/ (Copies \/ Begins) /\ Beside /\ UNCHANGED regs
      \/ (Grows \/ Shrinks) /\ Beside /\ ins.d # Absent /\ \E v : SetTo(ins.d, v)
  BY RagAddIs, RagDelIs
<1> QED
  BY <1>1, GoesOn DEF Refuse, Refusal, LeavesIndex, ChangesIndex, Late, RegOrNone

LEMMA ExecuteFails ==
  ASSUME Fails, NEW ins, ins = Current, NEW p, p = Params(ins), Execute(ins, p)
  PROVE  Refusal \/ (Late /\ ~RegOrNone(ins.d))
<1>1. CASE NewTensor(ins, p)
  <2>1. ASSUME NEW t, Deliver(t, ins)
        PROVE  UNCHANGED <<regs, memVars, engVars>> \/ (UNCHANGED regs /\ \E u : Allocate(u))
    BY <2>1, DeliverFails
  <2> QED
    BY <1>1, <2>1 DEF NewTensor, MakeTensorOf, Refusal, LeavesTensor
<1>2. CASE Compute(ins, p) \/ Attention(ins, p) \/ EmbedRow(ins, p) \/ RagSearch(ins, p)
  <2>1. Refuse \/ \E r : Complete(r, ins)
    BY <1>2 DEF Compute, Attention, Finish, EmbedRow, RagSearch, FoundBy
  <2> QED
    BY <2>1, CompleteFails DEF Refuse, Refusal
<1>3. CASE RankOne(ins, p)
  <2>1. \A r : PutRankOne(r, ins, p) => UNCHANGED <<regs, memVars, engVars>>
    BY GoesOn DEF PutRankOne, Refuse
  <2> QED
    BY <1>3, <2>1 DEF RankOne, Refusal
<1>4. CASE Move(ins, p) \/ Compare(ins, p) \/ Jump(ins, p) \/ Call(p) \/ Ret
  BY <1>4, GoesOn DEF Move, Compare, Jump, Call, Ret, JumpTo, Refuse, Refusal
<1>5. CASE ArenaAlloc(ins, p)
  BY <1>5, ArenaFails
<1>6. CASE ArenaReset(p) \/ CopyBytes(ins, p) \/ FillBytes(ins, p) \/ Nop
  BY <1>6, GoesOn DEF ArenaReset, CopyBytes, FillBytes, Nop, Refuse, Refusal
<1>7. CASE Halt
  BY <1>7 DEF Halt, Stop, Fails
<1>8. CASE RagAdd(ins) \/ RagDel(ins)
  BY <1>8, RagFails
<1>9. CASE TakeSnapshot(ins, p)
  BY <1>9, GoesOn DEF TakeSnapshot, Refuse, Refusal, TakesVersion, Late
<1>10. CASE RestoreTo(ins)
  BY <1>10, GoesOn DEF RestoreTo, Refuse, Refusal
<1>11. CASE Sample(ins, p)
  <2>1. \/ Refuse \/ Complete(SampleTopK(Logits(ins), LogitCount(ins), p.topk), ins)
        \/ (\E tok : SetAny(ins.d, tok)) /\ UNCHANGED <<memVars, engVars>>
    BY <1>11 DEF Sample
  <2> QED
    BY <2>1, CompleteFails, GoesOn DEF Refuse, Refusal
<1> QED
  BY <1>1, <1>2, <1>3, <1>4, <1>5, <1>6, <1>7, <1>8, <1>9, <1>10, <1>11 DEF Execute

\* Only a step of the run ends in an error.
LEMMA OnlyRunsFail ==
  ASSUME Fails, Next
  PROVE  Refusal \/ (Late /\ pc \in Starts /\ ~RegOrNone(Current.d))
<1>1. CASE Run
  <2>1. CASE FetchFails
    BY <2>1 DEF FetchFails, Refuse, Refusal
  <2>2. CASE Execute(Current, Params(Current))
    <3>1. Refusal \/ (Late /\ ~RegOrNone(Current.d))
      BY <2>2, ExecuteFails
    <3>2. pc \in Starts
      <4>1. \A ops : Fetches(ops) => pc \in Starts
        BY DEF Fetches
      <4> QED
        BY <2>2, <4>1 DEF Execute, NewTensor, Compute, Attention, EmbedRow, Sample, RankOne, Move, Compare,
           Jump, Call, Ret, ArenaAlloc, ArenaReset, CopyBytes, FillBytes, RagAdd, RagDel, RagSearch,
           TakeSnapshot, RestoreTo, Halt, Nop
    <3> QED
      BY <3>1, <3>2
  <2> QED
    BY <1>1, <2>1, <2>2 DEF Run, Step
<1>2. CASE AssembleData \/ Damage \/ \E ext \in {"m3asm", "m3bin", "m3bc"} : Save(ext)
  BY <1>2, GoesOn DEF AssembleData, Damage, Save, machineVars
<1>3. CASE Open
  <2>1. ASSUME NEW r, NEW ext, Start(r, ext)
        PROVE  UNCHANGED phase \/ phase' = "running"
    BY <2>1 DEF Start, LoadProgram, machineVars
  <2> QED
    BY <1>3, <2>1 DEF Open, Fails
<1>4. CASE LoadAssembled
  <2>1. UNCHANGED phase \/ phase' = "running"
    BY <1>4 DEF LoadAssembled, LoadProgram, machineVars
  <2> QED
    BY <2>1 DEF Fails
<1> QED
  BY <1>1, <1>2, <1>3, <1>4 DEF Next

\* The engines other than the one an opcode is about.
LEMMA EnginesStay ==
  /\ engines'.arenas = engines.arenas => ArenasStay
  /\ engines'.rag = engines.rag /\ stores' = stores => IndexesStay
  /\ Beside => VersionsStay
BY DEF ArenasStay, IndexesStay, Beside, memVars, VersionsStay

LEMMA RefusalDoesNothing ==
  ASSUME MemoryInv, IInv, RagInv, Refusal
  PROVE  OperandsStay /\ NothingDone
<1>1. Formed(engines) /\ StoreOK(Rag)
  BY DEF IInv, EnginesOK, StoresOK, RagInv, Rag
<1>2. cursor \notin DOMAIN heap
  <2>1. ASSUME NEW a \in DOMAIN heap PROVE a # cursor
    <3>1. a \in Nat /\ Storable(heap[a]) /\ a + TensorBytes(heap[a]) <= cursor
      BY DEF MemoryInv, MapsOK, Maps, Below
    <3>2. TensorBytes(heap[a]) \in Nat \ {0}
      BY <3>1 DEF Storable
    <3> QED
      BY <3>1, <3>2
  <2> QED
    BY <2>1
<1>3. CASE UNCHANGED <<regs, memVars, engVars>>
  BY <1>3, EnginesStay DEF memVars, engVars, OperandsStay, NothingDone, Beside
<1>4. CASE LeavesTensor
  <2>1. PICK t : Allocate(t)
    BY <1>4 DEF LeavesTensor
  <2>2. \A a \in DOMAIN heap : heap'[a] = heap[a]
    BY <1>2, <2>1 DEF Allocate, With
  <2>3. UNCHANGED <<regs, engines, stores, stack, blocks, saved, version>>
    BY <1>4, <2>1 DEF LeavesTensor, Allocate, engVars
  <2>4. VersionsStay
    BY <2>3 DEF VersionsStay
  <2> QED
    BY <2>2, <2>3, <2>4, EnginesStay DEF OperandsStay, NothingDone
<1>5. CASE LeavesArena
  <2>1. PICK id : engines' = [engines EXCEPT !.arenas = With(engines.arenas, id, Arena(id))]
    BY <1>5 DEF LeavesArena
  <2> DEFINE w == With(engines.arenas, id, Arena(id))
  <2>2. \A i \in DOMAIN w : w[i] = IF i \in DOMAIN engines.arenas THEN engines.arenas[i] ELSE EmptyArena
    BY DEF With, Arena
  <2> HIDE DEF w
  <2>3. engines'.arenas = w /\ engines'.layers = engines.layers /\ engines'.rag = engines.rag
    BY <1>1, <2>1 DEF Formed, w
  <2>4. ArenasStay
    BY <2>2, <2>3 DEF ArenasStay
  <2> QED
    BY <1>5, <2>3, <2>4, EnginesStay DEF LeavesArena, Beside, memVars, OperandsStay, NothingDone
<1>6. CASE LeavesIndex
  <2>1. IndexesStay /\ engines'.arenas = engines.arenas /\ engines'.layers = engines.layers
    BY <1>1, <1>6, CopiesIs DEF LeavesIndex
  <2> QED
    BY <1>6, <2>1, EnginesStay DEF LeavesIndex, Beside, memVars, OperandsStay, NothingDone
<1> QED
  BY <1>3, <1>4, <1>5, <1>6 DEF Refusal

LEMMA ArenaGrew ==
  ASSUME IInv, GrowsArena
  PROVE  OneArenaGrew /\ engines'.layers = engines.layers /\ engines'.rag = engines.rag
<1>1. PICK ins, p :
        /\ ins.op = "ARENA_ALLOC" /\ p = Params(ins)
        /\ ArenaFits(Arena(p.arena), p.size, p.align)
        /\ engines' = [engines EXCEPT !.arenas = With(@, p.arena, Grown(Arena(p.arena), p.size, p.align))]
  BY DEF GrowsArena
<1> DEFINE id == p.arena
           size == p.size
           align == p.align
           arena == Arena(id)
           new == Grown(arena, size, align)
           off == AlignUp(arena.cursor, AlignOf(align))
           w == With(engines.arenas, id, new)
<1>2. size \in Nat /\ align \in Nat
  BY <1>1, AllocFields
<1>3. arena \in [cursor : Nat, cap : Nat] /\ arena.cursor \in Nat
  BY DEF Arena, IInv, EnginesOK, ArenasOK, EmptyArena
<1>4. engines' = [engines EXCEPT !.arenas = w]
  BY <1>1
<1> HIDE DEF id, size, align
<1>5. ArenaFits(arena, size, align)
  BY <1>1 DEF id, size, align
<1> HIDE DEF arena
<1>6. /\ off \in Nat /\ off >= arena.cursor
      /\ new \in [cursor : Nat, cap : Nat]
      /\ new.cursor = off + size /\ new.cursor <= new.cap /\ new.cursor <= ArenaMax
  BY <1>2, <1>3, <1>5, BumpIs
<1> HIDE DEF off, new
<1>7. size # 0
  BY <1>5 DEF ArenaFits
<1>8. arena.cursor < new.cursor
  BY <1>2, <1>3, <1>6, <1>7
<1>9. new.cursor <= Min({new.cap, ArenaMax})
  BY <1>6, MinIs, MachineConstants
<1>10. id \in DOMAIN w /\ w[id] = new
  BY DEF With
<1>11. w = With(engines.arenas, id, w[id])
  BY <1>10
<1> HIDE DEF w
<1>12. engines'.arenas = w /\ engines'.layers = engines.layers /\ engines'.rag = engines.rag
  BY <1>4 DEF IInv, EnginesOK, Formed
<1> QED
  BY <1>8, <1>9, <1>10, <1>11, <1>12 DEF OneArenaGrew, arena

LEMMA LateDoesAll ==
  ASSUME IInv, RagInv, Late
  PROVE  OperandsStay /\ AllDone
<1>1. Formed(engines) /\ StoreOK(Rag)
  BY DEF IInv, EnginesOK, StoresOK, RagInv, Rag
<1>2. CASE GrowsArena
  <2>1. OneArenaGrew /\ engines'.layers = engines.layers /\ engines'.rag = engines.rag
    BY <1>2, ArenaGrew
  <2>2. UNCHANGED <<heap, regs, stores, blocks>> /\ VersionsStay
    BY <1>2, EnginesStay DEF GrowsArena, Beside, memVars
  <2> QED
    BY <2>1, <2>2, EnginesStay DEF OperandsStay, AllDone
<1>3. CASE ChangesIndex
  <2>1. OneIndexChanged /\ engines'.arenas = engines.arenas /\ engines'.layers = engines.layers
    BY <1>1, <1>3, GrowsIs, ShrinksIs DEF ChangesIndex
  <2>2. UNCHANGED <<heap, regs, blocks>> /\ VersionsStay
    BY <1>3, EnginesStay DEF ChangesIndex, Beside, memVars
  <2> QED
    BY <2>1, <2>2, EnginesStay DEF OperandsStay, AllDone
<1>4. CASE TakesVersion
  <2>1. IsSeq(stack)
    BY DEF IInv, StackOK
  <2>2. /\ Len(stack') = Len(stack) + 1 /\ SubSeq(stack', 1, Len(stack)) = stack
        /\ stack'[Len(stack')] = Entry(version')
    BY <1>4, <2>1, RemoveLast DEF TakesVersion
  <2>3. OneVersionMore
    BY <1>4, <2>2 DEF TakesVersion, OneVersionMore
  <2>4. UNCHANGED <<heap, regs, engines, stores, blocks>>
    BY <1>4 DEF TakesVersion
  <2> QED
    BY <2>3, <2>4, EnginesStay DEF OperandsStay, AllDone
<1> QED
  BY <1>2, <1>3, <1>4 DEF Late

\* A refused opcode has done nothing, or, where its destination is no register
\* and the handler finds out when it writes it, all: an arena that gave a block
\* away, an index with one vector and one id more or less, a version of the
\* memory with its entry for the engines (exec_arena_alloc, exec_rag_index_add,
\* exec_rag_index_del and exec_snapshot of vm.rs, Context::set_reg).
THEOREM RefusalsAreWhole == Spec => RefusedOrWhole
<1>1. MemoryInv /\ IInv /\ RagInv /\ [Next]_vars => [RefusalIsWhole]_vars
  <2>1. Next /\ Fails => Refusal \/ (Late /\ pc \in Starts /\ ~RegOrNone(Current.d))
    BY OnlyRunsFail
  <2> QED
    BY <2>1, RefusalDoesNothing, LateDoesAll DEF RefusalIsWhole, Fails
<1>2. AddressInv => MemoryInv
  BY DEF AddressInv
<1> QED
  BY <1>1, <1>2, AddressInvariant, Invariant, RagInvariant, PTL DEF Spec, RefusedOrWhole

---------------------------------------------------------------------------
(* A field reads what was written: the digits of a number make it again.   *)

LEMMA QuotientsAre ==
  ASSUME NEW v \in Nat, NEW width \in Nat
  PROVE  LET q == Quotients(v, width)
         IN  /\ q[0] = v /\ \A k \in 1 .. width : q[k] = q[k - 1] \div Byte
             /\ \A k \in 0 .. width : q[k] \in Nat
<1> DEFINE Runs(f) == f = [k \in 0 .. width |-> IF k = 0 THEN v ELSE f[k - 1] \div Byte]
           step == [e \in (1 .. width) \X Nat |-> e[2] \div Byte]
           q == CHOOSE f : Runs(f)
<1>0. \A x \in Nat : x \div Byte \in Nat
  BY DEF Byte
<1>1. \A k \in 1 .. width : \A x \in Nat : step[<<k, x>>] = x \div Byte /\ step[<<k, x>>] \in Nat
  BY <1>0
<1>2. Quotients(v, width) = q
  BY DEF Quotients
<1> HIDE DEF step
<1>3. PICK g \in [0 .. width -> Nat] : g[0] = v /\ \A k \in 1 .. width : g[k] = step[<<k, g[k - 1]>>]
  <2>1. Steps(step, Nat, width)
    BY <1>1 DEF Steps
  <2>2. \E g : Recurses(g, Nat, v, width, step)
    BY <2>1, Iterates
  <2> QED
    BY <2>2 DEF Recurses
<1>4. Runs(g)
  <2>1. ASSUME NEW k \in 0 .. width
        PROVE  g[k] = IF k = 0 THEN v ELSE g[k - 1] \div Byte
    <3>1. CASE k = 0
      BY <1>3, <3>1
    <3>2. CASE k # 0
      <4>1. k \in 1 .. width /\ g[k - 1] \in Nat
        BY <1>3, <3>2
      <4> QED
        BY <1>1, <1>3, <3>2, <4>1
    <3> QED
      BY <3>1, <3>2
  <2>2. g = [k \in 0 .. width |-> g[k]]
    OBVIOUS
  <2> QED
    BY <2>1, <2>2
<1>5. Runs(q)
  BY <1>4
<1> HIDE DEF q
<1>6. q[0] = v /\ \A k \in 1 .. width : q[k] = q[k - 1] \div Byte
  <2>1. \A k \in 0 .. width : q[k] = IF k = 0 THEN v ELSE q[k - 1] \div Byte
    BY <1>5
  <2>2. 0 \in 0 .. width /\ \A k \in 1 .. width : k \in 0 .. width /\ k # 0
    OBVIOUS
  <2> QED
    BY <2>1, <2>2
<1>7. \A k \in 0 .. width : q[k] \in Nat
  <2>1. q[0] \in Nat /\ \A k \in 1 .. width : q[k - 1] \in Nat => q[k] \in Nat
    BY <1>0, <1>6
  <2> HIDE DEF Runs
  <2> QED
    BY <2>1, Throughout, Zenon
<1> QED
  BY <1>2, <1>6, <1>7

\* The recursion of Number is one.
LEMMA NumberIs ==
  ASSUME NEW n \in Nat, NEW bytes \in [1 .. n -> Nat]
  PROVE  \E f : /\ f[0] = 0 /\ \A k \in 1 .. n : f[k] = f[k - 1] * Byte + bytes[n - k + 1]
                /\ Number(bytes) = f[n]
<1> DEFINE Runs(f) == f = [k \in 0 .. n |-> IF k = 0 THEN 0 ELSE f[k - 1] * Byte + bytes[n - k + 1]]
           step == [e \in (1 .. n) \X Nat |-> e[2] * Byte + bytes[n - e[1] + 1]]
           read == CHOOSE f : Runs(f)
<1>0. /\ Len(bytes) = n
      /\ \A k \in 1 .. n : n - k + 1 \in 1 .. n /\ bytes[n - k + 1] \in Nat
      /\ \A x, y \in Nat : x * Byte + y \in Nat
  <2>1. bytes \in Seq(Nat) /\ Len(bytes) = n
    BY SeqDef
  <2> QED
    BY <2>1 DEF Byte
<1>1. \A k \in 1 .. n : \A x \in Nat : /\ step[<<k, x>>] = x * Byte + bytes[n - k + 1]
                                       /\ step[<<k, x>>] \in Nat
  BY <1>0
<1>2. Number(bytes) = read[n]
  BY <1>0 DEF Number
<1> HIDE DEF step
<1>3. PICK g \in [0 .. n -> Nat] : g[0] = 0 /\ \A k \in 1 .. n : g[k] = step[<<k, g[k - 1]>>]
  <2>1. 0 \in Nat /\ Steps(step, Nat, n)
    BY <1>1 DEF Steps
  <2>2. \E g : Recurses(g, Nat, 0, n, step)
    BY <2>1, Iterates
  <2> QED
    BY <2>2 DEF Recurses
<1>4. Runs(g)
  <2>1. ASSUME NEW k \in 0 .. n
        PROVE  g[k] = IF k = 0 THEN 0 ELSE g[k - 1] * Byte + bytes[n - k + 1]
    <3>1. CASE k = 0
      BY <1>3, <3>1
    <3>2. CASE k # 0
      <4>1. k \in 1 .. n /\ g[k - 1] \in Nat
        BY <1>3, <3>2
      <4> QED
        BY <1>1, <1>3, <3>2, <4>1
    <3> QED
      BY <3>1, <3>2
  <2>2. g = [k \in 0 .. n |-> g[k]]
    OBVIOUS
  <2> QED
    BY <2>1, <2>2
<1>5. Runs(read)
  BY <1>4
<1> HIDE DEF read
<1>6. read[0] = 0 /\ \A k \in 1 .. n : read[k] = read[k - 1] * Byte + bytes[n - k + 1]
  <2>1. \A k \in 0 .. n : read[k] = IF k = 0 THEN 0 ELSE read[k - 1] * Byte + bytes[n - k + 1]
    BY <1>5
  <2>2. 0 \in 0 .. n /\ \A k \in 1 .. n : k \in 0 .. n /\ k # 0
    OBVIOUS
  <2> QED
    BY <2>1, <2>2
<1> QED
  BY <1>2, <1>6

\* Read from the last digit down, the quotients come back one by one.
LEMMA DigitsMakeIt ==
  ASSUME NEW v, NEW width \in Nat, Fits(v, width)
  PROVE  Number(Digits(v, width)) = v
<1> DEFINE q == Quotients(v, width)
           bytes == Digits(v, width)
<1>1. v \in Nat /\ q[width] = 0
  BY DEF Fits
<1>2. /\ q[0] = v /\ \A k \in 1 .. width : q[k] = q[k - 1] \div Byte
      /\ \A k \in 0 .. width : q[k] \in Nat
  BY <1>1, QuotientsAre
<1>3. bytes = [k \in 1 .. width |-> q[k - 1] % Byte]
  BY DEF Digits
<1> HIDE DEF q, bytes
<1>4. bytes \in [1 .. width -> Nat]
  <2>1. \A k \in 1 .. width : k - 1 \in 0 .. width
    OBVIOUS
  <2>2. \A k \in 1 .. width : q[k - 1] \in Nat
    BY <1>2, <2>1
  <2>3. \A x \in Nat : x % Byte \in Nat
    BY DEF Byte
  <2> QED
    BY ONLY <1>3, <2>2, <2>3
<1>5. PICK f : /\ f[0] = 0 /\ \A k \in 1 .. width : f[k] = f[k - 1] * Byte + bytes[width - k + 1]
               /\ Number(bytes) = f[width]
  BY <1>4, NumberIs
<1> DEFINE T == {k \in 0 .. width : f[k] # q[width - k]}
<1>6. T = {}
  <2>1. SUFFICES ASSUME T # {} PROVE FALSE
    OBVIOUS
  <2>2. T \in SUBSET Nat
    OBVIOUS
  <2> HIDE DEF T
  <2>3. PICK k \in T : \A m \in T : k <= m
    BY <2>1, <2>2, Least
  <2>4. k \in 0 .. width /\ f[k] # q[width - k]
    BY DEF T
  <2>5. k # 0
    <3>1. width - 0 = width
      OBVIOUS
    <3> QED
      BY <1>1, <1>5, <2>4, <3>1
  <2> DEFINE j == width - k + 1
  <2>6. k \in 1 .. width /\ k - 1 \in 0 .. width /\ ~ (k <= k - 1)
    BY <2>4, <2>5
  <2>7. j \in 1 .. width /\ j - 1 = width - k /\ width - (k - 1) = j /\ j - 1 \in 0 .. width
    BY <2>6
  <2>8. f[k - 1] = q[j]
    <3>1. k - 1 \notin T
      BY <2>3, <2>6
    <3>2. f[k - 1] = q[width - (k - 1)]
      BY <2>6, <3>1 DEF T
    <3> QED
      BY <2>7, <3>2
  <2>9. q[j] = q[j - 1] \div Byte /\ bytes[j] = q[j - 1] % Byte /\ q[j - 1] \in Nat
    BY <1>2, <1>3, <2>7
  <2>10. f[k] = f[k - 1] * Byte + bytes[j]
    BY <1>5, <2>6
  <2>11. \A x \in Nat : (x \div Byte) * Byte + (x % Byte) = x
    BY DEF Byte
  <2>12. f[k] = q[j - 1]
    <3>1. f[k] = (q[j - 1] \div Byte) * Byte + (q[j - 1] % Byte)
      BY <2>8, <2>9, <2>10
    <3> HIDE DEF j
    <3> QED
      BY <2>9, <2>11, <3>1
  <2> QED
    BY <2>4, <2>7, <2>12
<1>7. f[width] = q[0]
  <2>1. width \in 0 .. width /\ width - width = 0
    OBVIOUS
  <2>2. f[width] = q[width - width]
    BY <1>6, <2>1
  <2> QED
    BY <2>1, <2>2
<1> QED
  BY <1>2, <1>5, <1>7 DEF bytes

\* Fields that lie apart, inside the payload, under names of their own.
Tidy(layout) ==
  /\ DOMAIN layout \subseteq Nat
  /\ \A i \in DOMAIN layout : /\ layout[i].at \in Nat /\ layout[i].width \in Nat
                              /\ layout[i].at + layout[i].width <= 26
  /\ \A i, j \in DOMAIN layout : i # j =>
       /\ layout[i].name # layout[j].name
       /\ Place(layout[i]) \cap Place(layout[j]) = {}

\* The value a setter takes: a narrow field cuts it.
CutTo(f, v) == IF f.cut THEN Min({v, Largest(f.width)}) ELSE v

LEMMA MaxOne ==
  ASSUME NEW i \in Nat
  PROVE  Max({i}) = i
<1>1. i >= i
  OBVIOUS
<1> QED
  BY <1>1 DEF Max

LEMMA GetPut ==
  ASSUME NEW layout, Tidy(layout), NEW i \in DOMAIN layout, NEW vals,
         layout[i].name \in DOMAIN vals, NEW v, v = CutTo(layout[i], vals[layout[i].name]),
         Fits(v, layout[i].width), v \in layout[i].plain
  PROVE  Get(Put(layout, vals), layout[i]) = v
<1> DEFINE f == layout[i]
           on(k) == {j \in DOMAIN layout : layout[j].name \in DOMAIN vals /\ k \in Place(layout[j])}
           p == Put(layout, vals)
<1>1. f.at \in Nat /\ f.width \in Nat /\ f.at + f.width <= 26
  BY DEF Tidy
<1>2. ASSUME NEW k \in Place(f)
      PROVE  k \in Payload /\ on(k) = {i} /\ Max(on(k)) = i
  <2>1. k \in Payload
    BY <1>1 DEF Place, Payload
  <2>2. \A j \in DOMAIN layout : j # i => k \notin Place(layout[j])
    BY DEF Tidy
  <2>3. on(k) = {i}
    BY <2>2
  <2> HIDE DEF on
  <2>4. Max({i}) = i
    BY MaxOne DEF Tidy
  <2> QED
    BY <2>1, <2>3, <2>4
<1>3. ASSUME NEW k \in Place(f)
      PROVE  p[k] = Digits(v, f.width)[k - f.at + 1]
  <2>1. p[k] = Digits(CutTo(layout[Max(on(k))], vals[layout[Max(on(k))].name]), layout[Max(on(k))].width)[k - layout[Max(on(k))].at + 1]
    BY <1>2 DEF Put, CutTo
  <2> QED
    BY <1>2, <2>1
<1> HIDE DEF p, on
<1>4. Fits(v, f.width) /\ v \in f.plain
  OBVIOUS
<1> HIDE DEF f
<1> DEFINE digits == Digits(v, f.width)
<1>5. \A k \in 1 .. f.width : f.at + k - 1 \in Place(f) /\ (f.at + k - 1) - f.at + 1 = k
  BY <1>1 DEF Place
<1>6. digits = [k \in 1 .. f.width |-> digits[k]]
  BY DEF Digits
<1> HIDE DEF digits
<1>7. \A k \in 1 .. f.width : p[f.at + k - 1] = digits[k]
  BY <1>3, <1>5 DEF digits
<1>8. [k \in 1 .. f.width |-> p[f.at + k - 1]] = digits
  BY <1>6, <1>7
<1>9. Number(digits) = v
  BY <1>1, <1>4, DigitsMakeIt DEF digits
<1>10. Get(p, f) = v
  BY <1>4, <1>8, <1>9 DEF Get
<1> QED
  BY <1>10 DEF p, f

LEMMA FieldAt ==
  ASSUME NEW name, NEW at, NEW width, NEW default
  PROVE  LET f == F(name, at, width)
         IN  /\ f.name = name /\ f.at = at /\ f.width = width /\ f.plain = Nat /\ ~f.cut
             /\ ZeroIs(default, f).name = name /\ ZeroIs(default, f).at = at /\ ZeroIs(default, f).width = width
             /\ Cut(ZeroIs(default, f)).name = name /\ Cut(ZeroIs(default, f)).at = at
             /\ Cut(ZeroIs(default, f)).width = width
BY DEF F, ZeroIs, Cut

Bounds(layout) ==
  /\ DOMAIN layout \subseteq Nat
  /\ \A i \in DOMAIN layout : /\ layout[i].at \in Nat /\ layout[i].width \in Nat
                              /\ layout[i].at + layout[i].width <= 26
  /\ \A i, j \in DOMAIN layout : i # j => layout[i].name # layout[j].name
  /\ \A i, j \in DOMAIN layout : i < j => layout[i].at + layout[i].width <= layout[j].at

LEMMA BoundsTidy == 
  ASSUME NEW layout, Bounds(layout)
  PROVE  Tidy(layout)
<1>1. ASSUME NEW i \in DOMAIN layout, NEW j \in DOMAIN layout, i < j
      PROVE  Place(layout[i]) \cap Place(layout[j]) = {}
  BY <1>1 DEF Bounds, Place
<1>2. \A i, j \in DOMAIN layout : i # j => i < j \/ j < i
  BY DEF Bounds
<1> QED
  BY <1>1, <1>2 DEF Tidy, Bounds

Immediate == Jumping \cup {"LOADI"}
RowOK(names, layout) == Bounds(layout) /\ \A op \in names : op \in Immediate => layout = <<Imm>>
RowsOK(table) ==
  \A op \in DOMAIN table : Bounds(table[op].layout) /\ (op \in Immediate => table[op].layout = <<Imm>>)

LEMMA EmptyOK ==
  ASSUME NEW names, names \cap Immediate = {}
  PROVE  RowOK(names, <<>>)
BY DEF RowOK, Bounds

LEMMA OpsRows ==
  ASSUME NEW names, NEW form, NEW layout, RowOK(names, layout)
  PROVE  RowsOK(Ops(names, form, layout))
BY OpsIs DEF RowsOK, RowOK

LEMMA MergedRows ==
  ASSUME NEW tables, \A i \in DOMAIN tables : RowsOK(tables[i])
  PROVE  RowsOK(Merged(tables))
<1> SUFFICES ASSUME NEW op \in DOMAIN Merged(tables)
             PROVE  /\ Bounds(Merged(tables)[op].layout)
                    /\ op \in Immediate => Merged(tables)[op].layout = <<Imm>>
  BY DEF RowsOK
<1> DEFINE i == CHOOSE j \in DOMAIN tables : op \in DOMAIN tables[j]
<1>1. op \in UNION {DOMAIN tables[j] : j \in DOMAIN tables} /\ Merged(tables)[op] = tables[i][op]
  BY DEF Merged
<1>2. i \in DOMAIN tables /\ op \in DOMAIN tables[i]
  BY <1>1
<1> QED
  BY <1>1, <1>2 DEF RowsOK

LEMMA TensorLaid == RowsOK(TensorOps)
<1> DEFINE rows == ZeroIs(2, F("rows", 0, 8))
           cols == ZeroIs(2, F("cols", 8, 8))
           dtype == F("dtype", 16, 1)
           sparse == F("sparse", 17, 1)
           density == [F("density", 18, 4) EXCEPT !.plain = 1..100, !.default = 5]
           fill == F("fill", 22, 4)
           layout == <<rows, cols, dtype, sparse, density, fill>>
<1>1. /\ rows.name = "rows" /\ rows.at = 0 /\ rows.width = 8
      /\ cols.name = "cols" /\ cols.at = 8 /\ cols.width = 8
  BY FieldAt
<1>5. /\ dtype.name = "dtype" /\ dtype.at = 16 /\ dtype.width = 1
      /\ sparse.name = "sparse" /\ sparse.at = 17 /\ sparse.width = 1
      /\ fill.name = "fill" /\ fill.at = 22 /\ fill.width = 4
  BY DEF F
<1>2. density.name = "density" /\ density.at = 18 /\ density.width = 4
  BY DEF F
<1>3. TensorOps = Ops({"TENSOR"}, DAB, layout)
  BY DEF TensorOps
<1> HIDE DEF rows, cols, dtype, sparse, density, fill
<1>4. RowOK({"TENSOR"}, layout)
  BY <1>1, <1>2, <1>5 DEF RowOK, Bounds, Immediate, Jumping
<1> QED
  BY <1>3, <1>4, OpsRows

LEMMA CoreLaid == RowsOK(CoreOps)
<1>1. RowOK({"ATTN", "NORM"}, <<>>) /\ RowOK({"EMBED", "ADD", "MATVEC", "MUL"}, <<>>) /\ RowOK({"SENSE", "SILU"}, <<>>) /\ RowOK({"STREAM", "ABORT"}, <<>>) /\ RowOK({"HALT", "NOP"}, <<>>)
  BY EmptyOK, Zenon DEF Immediate, Jumping
<1>2. RowOK({"FFN"}, <<F("b1", 0, 1), F("b2", 1, 1)>>)
  BY FieldAt DEF RowOK, Bounds, F, Immediate, Jumping, Imm
<1>3. RowOK({"FORK"}, <<Imm>>)
  BY FieldAt DEF RowOK, Bounds, F, Immediate, Jumping, Imm
<1>4. RowOK({"SAMPLE"}, <<F("temp", 0, 4), F("topk", 4, 2)>>)
  BY FieldAt DEF RowOK, Bounds, F, Immediate, Jumping, Imm
<1>5. RowOK({"COMPARE"}, <<Imm, F("pred", 16, 1)>>)
  BY FieldAt DEF RowOK, Bounds, F, Immediate, Jumping, Imm
<1>6. RowOK({"IF_EQUAL", "JUMP"}, <<Imm>>)
  BY FieldAt DEF RowOK, Bounds, F, Immediate, Jumping, Imm
<1>7. RowOK({"IF_INTERRUPT"}, <<Imm>>)
  BY FieldAt DEF RowOK, Bounds, F, Immediate, Jumping, Imm
<1> QED
  BY <1>1, <1>2, <1>3, <1>4, <1>5, <1>6, <1>7, OpsRows, MergedRows DEF CoreOps

LEMMA SequenceLaid == RowsOK(SequenceOps)
<1> DEFINE state == <<Cut(ZeroIs(1, F("inner", 0, 2))), Cut(ZeroIs(1, F("state", 2, 2))), F("layer", 4, 1)>>
<1>1. RowOK({"SSM_SCAN"}, state)
  BY FieldAt DEF RowOK, Bounds, F, Immediate, Jumping, Imm
<1>2. RowOK({"SSM_RESET"}, state)
  BY FieldAt DEF RowOK, Bounds, F, Immediate, Jumping, Imm
<1>3. RowOK({"ROPE"}, <<F("pos", 0, 4), Cut(ZeroIs(2, F("headdim", 4, 2))), Cut(ZeroIs(1, F("heads", 6, 2))), ZeroIs(10000, F("theta", 8, 4))>>)
  BY FieldAt DEF RowOK, Bounds, F, Immediate, Jumping, Imm
<1>4. RowOK({"AUDIO_ALIGN"}, <<ZeroIs(24000, F("rate", 0, 4)), ZeroIs(1920, F("frame", 4, 4)), ZeroIs(1250, F("hz100", 8, 4)), ZeroIs(16000, F("delay100", 12, 4))>>)
  BY FieldAt DEF RowOK, Bounds, F, Immediate, Jumping, Imm
<1> QED
  BY <1>1, <1>2, <1>3, <1>4, OpsRows, MergedRows DEF SequenceOps

LEMMA PipeLaid == RowsOK(PipeOps)
<1>1. RowOK({"CODEC_ENC", "CODEC_DEC"}, <<>>)
  BY EmptyOK, Zenon DEF Immediate, Jumping
<1>2. RowOK({"CTX_SWITCH"}, <<F("pipe", 0, 1), F("magic", 1, 1)>>)
  BY FieldAt DEF RowOK, Bounds, F, Immediate, Jumping, Imm
<1> QED
  BY <1>1, <1>2, OpsRows, MergedRows DEF PipeOps

LEMMA ClusterLaid == RowsOK(ClusterOps)
<1>1. RowOK({"REMOTE_SPAWN"}, <<F("node", 0, 4), F("entry", 4, 8), F("prio", 12, 1)>>)
  BY FieldAt DEF RowOK, Bounds, F, Immediate, Jumping, Imm
<1>2. RowOK({"SIGNAL"}, <<F("node", 0, 4), F("ctx", 4, 8), F("seq", 12, 8)>>)
  BY FieldAt DEF RowOK, Bounds, F, Immediate, Jumping, Imm
<1>3. RowOK({"SEND_TENSOR"}, <<F("node", 0, 4), F("offset", 4, 8), F("len", 12, 4), F("mode", 16, 1)>>)
  BY FieldAt DEF RowOK, Bounds, F, Immediate, Jumping, Imm
<1>4. RowOK({"BARRIER"}, <<F("id", 0, 4), F("expected", 4, 2), F("timeout", 6, 2), F("epoch", 8, 4)>>)
  BY FieldAt DEF RowOK, Bounds, F, Immediate, Jumping, Imm
<1> QED
  BY <1>1, <1>2, <1>3, <1>4, OpsRows, MergedRows DEF ClusterOps

LEMMA IndexLaid == RowsOK(IndexOps)
<1>1. RowOK({"GATHER"}, <<F("axis", 0, 1), F("mode", 1, 1), F("hint", 2, 2)>>)
  BY FieldAt DEF RowOK, Bounds, F, Immediate, Jumping, Imm
<1>2. RowOK({"DISTANCE"}, <<F("metric", 0, 1), F("topk", 1, 2)>>)
  BY FieldAt DEF RowOK, Bounds, F, Immediate, Jumping, Imm
<1>3. RowOK({"RANK1_UPDATE"}, <<F("alpha", 0, 4), F("beta", 4, 4), F("mode", 8, 1), F("layer", 9, 1)>>)
  BY FieldAt DEF RowOK, Bounds, F, Immediate, Jumping, Imm
<1> QED
  BY <1>1, <1>2, <1>3, OpsRows, MergedRows DEF IndexOps

LEMMA RandomLaid == RowsOK(RandomOps)
<1>1. RowOK({"RNG_SEED"}, <<>>) /\ RowOK({"RNG_NEXT"}, <<>>) /\ RowOK({"HASH", "CHECKSUM"}, <<>>) /\ RowOK({"HMAC"}, <<>>)
  BY EmptyOK, Zenon DEF Immediate, Jumping
<1>2. RowOK({"RNG_UNIFORM"}, <<F("lo", 0, 4), F("hi", 4, 4)>>)
  BY FieldAt DEF RowOK, Bounds, F, Immediate, Jumping, Imm
<1>3. RowOK({"RNG_NORMAL"}, <<F("mean", 0, 4), ZeroIs(1, F("std", 4, 4))>>)
  BY FieldAt DEF RowOK, Bounds, F, Immediate, Jumping, Imm
<1> QED
  BY <1>1, <1>2, <1>3, OpsRows, MergedRows DEF RandomOps

LEMMA TelemetryLaid == RowsOK(TelemetryOps)
<1>1. RowOK({"CYCLES_COUNT", "PREEMPT_CHECK", "GET_DEADLINE", "PRIORITY_GET"}, <<>>) /\ RowOK({"TRACE_EVENT"}, <<>>) /\ RowOK({"SANITY_CHECK"}, <<>>) /\ RowOK({"DUMP", "YIELD", "FENCE"}, <<>>) /\ RowOK({"SET_DEADLINE", "PRIORITY_SET", "LOCK", "UNLOCK"}, <<>>)
  BY EmptyOK, Zenon DEF Immediate, Jumping
<1>2. RowOK({"ASSERT"}, <<F("code", 0, 2)>>)
  BY FieldAt DEF RowOK, Bounds, F, Immediate, Jumping, Imm
<1> QED
  BY <1>1, <1>2, OpsRows, MergedRows DEF TelemetryOps

LEMMA MoveLaid == RowsOK(MoveOps)
<1>1. RowOK({"MOV"}, <<>>)
  BY EmptyOK, Zenon DEF Immediate, Jumping
<1>2. RowOK({"LOADI"}, <<Imm>>)
  BY FieldAt DEF RowOK, Bounds, F, Immediate, Jumping, Imm
<1>3. RowOK({"KV_TRUNCATE"}, <<F("stream", 0, 2)>>)
  BY FieldAt DEF RowOK, Bounds, F, Immediate, Jumping, Imm
<1> QED
  BY <1>1, <1>2, <1>3, OpsRows, MergedRows DEF MoveOps

LEMMA ArenaLaid == RowsOK(ArenaOps)
<1>1. RowOK({"SLICE"}, <<F("start", 0, 4), F("len", 4, 4)>>)
  BY FieldAt DEF RowOK, Bounds, F, Immediate, Jumping, Imm
<1>2. RowOK({"ARENA_ALLOC"}, <<F("size", 0, 8), F("align", 8, 4), F("arena", 12, 1)>>)
  BY FieldAt DEF RowOK, Bounds, F, Immediate, Jumping, Imm
<1>3. RowOK({"ARENA_RESET"}, <<F("arena", 0, 1)>>)
  BY FieldAt DEF RowOK, Bounds, F, Immediate, Jumping, Imm
<1>4. RowOK({"MEMCPY"}, <<F("len", 0, 8), F("src", 8, 8), F("dst", 16, 8), F("dir", 24, 1)>>)
  BY FieldAt DEF RowOK, Bounds, F, Immediate, Jumping, Imm
<1>5. RowOK({"MEMSET"}, <<F("pattern", 0, 1), F("len", 1, 4), F("offset", 5, 8)>>)
  BY FieldAt DEF RowOK, Bounds, F, Immediate, Jumping, Imm
<1> QED
  BY <1>1, <1>2, <1>3, <1>4, <1>5, OpsRows, MergedRows DEF ArenaOps

LEMMA SnapshotLaid == RowsOK(SnapshotOps)
<1>1. RowOK({"RESTORE"}, <<>>)
  BY EmptyOK, Zenon DEF Immediate, Jumping
<1>2. RowOK({"SNAPSHOT"}, <<F("mask", 0, 1)>>)
  BY FieldAt DEF RowOK, Bounds, F, Immediate, Jumping, Imm
<1>3. RowOK({"PREFETCH"}, <<F("len", 0, 4), F("offset", 4, 8)>>)
  BY FieldAt DEF RowOK, Bounds, F, Immediate, Jumping, Imm
<1>4. RowOK({"RESHAPE"}, Dims)
  BY FieldAt DEF RowOK, Bounds, F, Immediate, Jumping, Dims
<1>5. RowOK({"CONCAT"}, <<F("axis", 0, 1)>>)
  BY FieldAt DEF RowOK, Bounds, F, Immediate, Jumping, Imm
<1> QED
  BY <1>1, <1>2, <1>3, <1>4, <1>5, OpsRows, MergedRows DEF SnapshotOps

LEMMA CastLaid == RowsOK(CastOps)
<1>1. RowOK({"DEQUANT"}, <<>>)
  BY EmptyOK, Zenon DEF Immediate, Jumping
<1>2. RowOK({"CAST"}, <<F("dst", 0, 1)>>)
  BY FieldAt DEF RowOK, Bounds, F, Immediate, Jumping, Imm
<1>3. RowOK({"QUANTIZE"}, <<F("type", 0, 1)>>)
  BY FieldAt DEF RowOK, Bounds, F, Immediate, Jumping, Imm
<1> QED
  BY <1>1, <1>2, <1>3, OpsRows, MergedRows DEF CastOps

LEMMA OrderLaid == RowsOK(OrderOps)
<1>1. RowOK({"SORT"}, <<F("axis", 0, 1), F("order", 1, 1)>>)
  BY FieldAt DEF RowOK, Bounds, F, Immediate, Jumping, Imm
<1>2. RowOK({"TOPK"}, <<F("axis", 0, 1), F("k", 1, 2), F("largest", 3, 1), F("sorted", 4, 1)>>)
  BY FieldAt DEF RowOK, Bounds, F, Immediate, Jumping, Imm
<1>3. RowOK({"ARGMAX"}, <<F("axis", 0, 1)>>)
  BY FieldAt DEF RowOK, Bounds, F, Immediate, Jumping, Imm
<1>4. RowOK({"REDUCE"}, <<F("op", 0, 1), F("axis", 1, 1)>>)
  BY FieldAt DEF RowOK, Bounds, F, Immediate, Jumping, Imm
<1>5. RowOK({"BROADCAST"}, Dims)
  BY FieldAt DEF RowOK, Bounds, F, Immediate, Jumping, Dims
<1>6. RowOK({"PAD"}, <<F("value", 0, 4), F("axis", 4, 1), F("before", 5, 4), F("after", 9, 4)>>)
  BY FieldAt DEF RowOK, Bounds, F, Immediate, Jumping, Imm
<1>7. RowOK({"TILE"}, <<F("reps", 0, 4), F("axis", 4, 1)>>)
  BY FieldAt DEF RowOK, Bounds, F, Immediate, Jumping, Imm
<1>8. RowOK({"TRANSPOSE"}, <<F("ndim", 0, 1), F("p0", 1, 1), F("p1", 2, 1), F("p2", 3, 1), F("p3", 4, 1)>>)
  BY FieldAt DEF RowOK, Bounds, F, Immediate, Jumping, Imm
<1> QED
  BY <1>1, <1>2, <1>3, <1>4, <1>5, <1>6, <1>7, <1>8, OpsRows, MergedRows DEF OrderOps

LEMMA ActivationLaid == RowsOK(ActivationOps)
<1>1. RowOK(Activations, <<>>)
  BY EmptyOK, Zenon DEF Immediate, Jumping, Activations
<1>2. RowOK({"SOFTMAX"}, <<F("axis", 0, 1), F("temp", 1, 4)>>)
  BY FieldAt DEF RowOK, Bounds, F, Immediate, Jumping, Imm
<1>3. RowOK({"CLIP"}, <<F("min", 0, 4), F("max", 4, 4)>>)
  BY FieldAt DEF RowOK, Bounds, F, Immediate, Jumping, Imm
<1> QED
  BY <1>1, <1>2, <1>3, OpsRows, MergedRows DEF ActivationOps

LEMMA CallLaid == RowsOK(CallOps)
<1>1. RowOK({"RET"}, <<>>)
  BY EmptyOK, Zenon DEF Immediate, Jumping
<1>2. RowOK({"DEPFORMER"}, <<F("stream", 0, 1), F("layer", 1, 1), F("ncb", 2, 2), F("nheads", 4, 2), F("levels", 6, 2), F("context", 8, 2), F("temp", 10, 4), F("topk", 14, 2)>>)
  BY FieldAt DEF RowOK, Bounds, F, Immediate, Jumping, Imm
<1>3. RowOK({"CALL"}, <<Imm>>)
  BY FieldAt DEF RowOK, Bounds, F, Immediate, Jumping, Imm
<1> QED
  BY <1>1, <1>2, <1>3, OpsRows, MergedRows DEF CallOps

LEMMA CacheLaid == RowsOK(CacheOps)
<1>1. RowOK({"KV_COMPRESS"}, <<F("sink", 0, 2), F("window", 2, 2), F("mode", 4, 1), F("stream", 5, 2)>>)
  BY FieldAt DEF RowOK, Bounds, F, Immediate, Jumping, Imm
<1>2. RowOK({"FLASH_ATTN"}, <<F("block", 0, 2)>>)
  BY FieldAt DEF RowOK, Bounds, F, Immediate, Jumping, Imm
<1>3. RowOK({"ATTN_SPARSE"}, <<F("metric", 0, 1), F("topk", 1, 2)>>)
  BY FieldAt DEF RowOK, Bounds, F, Immediate, Jumping, Imm
<1> QED
  BY <1>1, <1>2, <1>3, OpsRows, MergedRows DEF CacheOps

LEMMA AudioLaid == RowsOK(AudioOps)
<1>1. RowOK({"VAD_DETECT"}, <<F("mode", 0, 1)>>)
  BY FieldAt DEF RowOK, Bounds, F, Immediate, Jumping, Imm
<1>2. RowOK({"STREAM_MERGE"}, <<F("gain", 0, 4), F("n", 4, 2), F("mode", 6, 1)>>)
  BY FieldAt DEF RowOK, Bounds, F, Immediate, Jumping, Imm
<1>3. RowOK({"AUDIO_RESAMPLE"}, <<F("src", 0, 4), F("dst", 4, 4)>>)
  BY FieldAt DEF RowOK, Bounds, F, Immediate, Jumping, Imm
<1>4. RowOK({"AUDIO_FILTER"}, <<F("mode", 0, 1)>>)
  BY FieldAt DEF RowOK, Bounds, F, Immediate, Jumping, Imm
<1>5. RowOK({"AUDIO_WINDOW"}, <<F("type", 0, 1)>>)
  BY FieldAt DEF RowOK, Bounds, F, Immediate, Jumping, Imm
<1> QED
  BY <1>1, <1>2, <1>3, <1>4, <1>5, OpsRows, MergedRows DEF AudioOps

LEMMA ImmLaid == RowsOK(ImmOps)
<1>1. RowOK({"STEPS"}, <<>>)
  BY EmptyOK, Zenon DEF Immediate, Jumping
<1>2. RowOK({"ADD_IMM", "SUB_IMM"}, <<Imm>>)
  BY FieldAt DEF RowOK, Bounds, F, Immediate, Jumping, Imm
<1> QED
  BY <1>1, <1>2, OpsRows, MergedRows DEF ImmOps

LEMMA EngineLaid == RowsOK(EngineOps)
<1>1. RowOK({"DENOISE_STEP"}, <<F("alpha", 0, 4), F("beta", 4, 4), F("sigma", 8, 4), F("step", 12, 4)>>)
  BY FieldAt DEF RowOK, Bounds, F, Immediate, Jumping, Imm
<1>2. RowOK({"ODE_STEP"}, <<F("dt", 0, 4), F("method", 4, 1), F("layer", 5, 1)>>)
  BY FieldAt DEF RowOK, Bounds, F, Immediate, Jumping, Imm
<1>3. RowOK({"SPIKE_STEP"}, <<F("thresh", 0, 4), F("decay", 4, 4), F("reset", 8, 4), F("layer", 12, 1), F("refr", 13, 1)>>)
  BY FieldAt DEF RowOK, Bounds, F, Immediate, Jumping, Imm
<1>4. RowOK({"CONV"}, <<F("stride", 0, 2), F("pad", 2, 2), F("dilation", 4, 2), ZeroIs(1, F("groups", 6, 1)), F("act", 7, 1)>>)
  BY FieldAt DEF RowOK, Bounds, F, Immediate, Jumping, Imm
<1> QED
  BY <1>1, <1>2, <1>3, <1>4, OpsRows, MergedRows DEF EngineOps

LEMMA StoreLaid == RowsOK(StoreOps)
<1>1. RowOK({"RAG_INDEX_ADD"}, <<>>) /\ RowOK({"RAG_INDEX_DEL", "EMBED_LOOKUP"}, <<>>) /\ RowOK({"KILL_CONTEXT"}, <<>>) /\ RowOK({"SET_MODEL"}, <<>>)
  BY EmptyOK, Zenon DEF Immediate, Jumping
<1>2. RowOK({"FOREST"}, <<F("trees", 0, 2), F("depth", 2, 2), F("mode", 4, 1)>>)
  BY FieldAt DEF RowOK, Bounds, F, Immediate, Jumping, Imm
<1>3. RowOK({"RAG_SEARCH"}, <<F("topk", 0, 2), F("metric", 2, 1)>>)
  BY FieldAt DEF RowOK, Bounds, F, Immediate, Jumping, Imm
<1>4. RowOK({"PQ_ENCODE", "PQ_DECODE"}, <<F("nsub", 0, 2)>>)
  BY FieldAt DEF RowOK, Bounds, F, Immediate, Jumping, Imm
<1>5. RowOK({"LOAD_MODEL"}, <<F("id", 0, 2)>>)
  BY FieldAt DEF RowOK, Bounds, F, Immediate, Jumping, Imm
<1>6. RowOK({"SPAWN_CONTEXT"}, <<Imm>>)
  BY FieldAt DEF RowOK, Bounds, F, Immediate, Jumping, Imm
<1> QED
  BY <1>1, <1>2, <1>3, <1>4, <1>5, <1>6, OpsRows, MergedRows DEF StoreOps


LEMMA OpTableLaid == RowsOK(OpTable)
BY TensorLaid, CoreLaid, SequenceLaid, PipeLaid, ClusterLaid, IndexLaid, RandomLaid, TelemetryLaid, MoveLaid,
   ArenaLaid, SnapshotLaid, CastLaid, OrderLaid, ActivationLaid, CallLaid, CacheLaid, AudioLaid, ImmLaid,
   EngineLaid, StoreLaid, MergedRows DEF OpTable

\* What a constructor makes: the opcode it was asked for, with the payload
\* its setters wrote.
LEMMA MakeIs ==
  ASSUME NEW op, NEW flags, NEW given, NEW vals
  PROVE  /\ Make(op, flags, given, vals).op = op
         /\ Make(op, flags, given, vals).payload = Put(OpTable[op].layout, vals)
<1> DEFINE ins(d, a, b, c) == [Instr(op, flags, d, a, b, c) EXCEPT !.payload = Put(OpTable[op].layout, vals)]
<1>1. \A d, a, b, c : /\ ins(d, a, b, c).op = op
                      /\ ins(d, a, b, c).payload = Put(OpTable[op].layout, vals)
  BY DEF Instr
<1>2. \E d, a, b, c : Make(op, flags, given, vals) = ins(d, a, b, c)
  BY Zenon DEF Make, Built
<1> HIDE DEF ins
<1> QED
  BY <1>1, <1>2

(* A field of an opcode keeps what its setter is given: for every opcode of  *)
(* the table and every field of its layout, a value that fits the field and  *)
(* that the getter takes as it is comes back, whatever the other setters     *)
(* write before and after (the set_ and get_ pairs of opcodes.rs).           *)
THEOREM FieldsSurvive ==
  ASSUME NEW op \in DOMAIN OpTable, NEW i \in DOMAIN OpTable[op].layout,
         NEW flags, NEW given, NEW vals, NEW v,
         OpTable[op].layout[i].name \in DOMAIN vals,
         v = CutTo(OpTable[op].layout[i], vals[OpTable[op].layout[i].name]),
         Fits(v, OpTable[op].layout[i].width), v \in OpTable[op].layout[i].plain,
         op # "RNG_UNIFORM"
  PROVE  Params(Make(op, flags, given, vals))[OpTable[op].layout[i].name] = v
<1> DEFINE layout == OpTable[op].layout
           ins == Make(op, flags, given, vals)
           field(n) == layout[CHOOSE k \in DOMAIN layout : layout[k].name = n]
           names == {f.name : f \in ToSet(layout)}
<1>1. Tidy(layout)
  BY OpTableLaid, BoundsTidy DEF RowsOK
<1>2. ins.op = op /\ ins.payload = Put(layout, vals)
  BY MakeIs
<1>3. layout[i].name \in DOMAIN vals /\ v = CutTo(layout[i], vals[layout[i].name])
      /\ Fits(v, layout[i].width) /\ v \in layout[i].plain
  OBVIOUS
<1>4. Params(ins) = [n \in names |-> Get(ins.payload, field(n))]
  BY <1>2 DEF Params, Fields, Unit
<1> HIDE DEF ins, layout
<1>5. i \in DOMAIN layout
  BY DEF layout
<1>6. layout[i].name \in names
  BY <1>5 DEF ToSet
<1>7. field(layout[i].name) = layout[i]
  <2>1. \A k \in DOMAIN layout : layout[k].name = layout[i].name => k = i
    BY <1>1, <1>5 DEF Tidy
  <2>2. (CHOOSE k \in DOMAIN layout : layout[k].name = layout[i].name) = i
    BY <1>5, <2>1
  <2> QED
    BY <2>2
<1>8. Get(Put(layout, vals), layout[i]) = v
  BY <1>1, <1>3, <1>5, GetPut
<1>9. Params(ins)[layout[i].name] = Get(ins.payload, field(layout[i].name))
  BY <1>4, <1>6
<1> QED
  BY <1>2, <1>7, <1>8, <1>9 DEF ins, layout

LEMMA ImmediateListed ==
  Immediate \subseteq DOMAIN OpTable
<1> DEFINE tables == <<TensorOps, CoreOps, SequenceOps, PipeOps, ClusterOps, IndexOps, RandomOps, TelemetryOps,
                       MoveOps, ArenaOps, SnapshotOps, CastOps, OrderOps, ActivationOps, CallOps, CacheOps,
                       AudioOps, ImmOps, EngineOps, StoreOps>>
<1>1. {"JUMP", "IF_EQUAL", "IF_INTERRUPT"} \subseteq DOMAIN CoreOps
  BY DEF CoreOps, Ops, Merged
<1>2. "LOADI" \in DOMAIN MoveOps
  BY DEF MoveOps, Ops, Merged
<1>3. "CALL" \in DOMAIN CallOps
  BY DEF CallOps, Ops, Merged
<1>4. OpTable = Merged(tables)
  BY DEF OpTable
<1>5. DOMAIN tables = 1..20 /\ tables[2] = CoreOps /\ tables[9] = MoveOps /\ tables[15] = CallOps
  OBVIOUS
<1> HIDE DEF tables
<1>6. \A j \in DOMAIN tables : DOMAIN tables[j] \subseteq DOMAIN OpTable
  BY <1>4 DEF Merged
<1>7. /\ DOMAIN CoreOps \subseteq DOMAIN OpTable /\ DOMAIN MoveOps \subseteq DOMAIN OpTable
      /\ DOMAIN CallOps \subseteq DOMAIN OpTable
  BY <1>5, <1>6
<1> QED
  BY <1>1, <1>2, <1>3, <1>7, Zenon DEF Immediate, Jumping

LEMMA ImmediateSurvives ==
  ASSUME NEW op \in Immediate, NEW flags, NEW given, NEW v, Fits(v, 16)
  PROVE  Params(Make(op, flags, given, [imm |-> v])).imm = v
<1> DEFINE vals == [imm |-> v]
<1>1. op \in DOMAIN OpTable /\ OpTable[op].layout = <<Imm>> /\ op # "RNG_UNIFORM"
  BY ImmediateListed, OpTableLaid DEF RowsOK, Immediate, Jumping
<1>2. /\ Imm.name = "imm" /\ Imm.width = 16 /\ Imm.plain = Nat /\ ~Imm.cut
  BY DEF Imm, F
<1>3. DOMAIN <<Imm>> = {1} /\ <<Imm>>[1] = Imm
  OBVIOUS
<1>4. DOMAIN vals = {"imm"} /\ vals["imm"] = v
  OBVIOUS
<1> HIDE DEF vals
<1>5. v = CutTo(Imm, vals["imm"]) /\ v \in Nat
  BY <1>2, <1>4 DEF CutTo, Fits
<1>6. Params(Make(op, flags, given, vals))["imm"] = v
  <2>1. 1 \in DOMAIN OpTable[op].layout /\ OpTable[op].layout[1] = Imm
    BY <1>1, <1>3
  <2> QED
    BY <1>1, <1>2, <1>4, <1>5, <2>1, FieldsSurvive
<1> QED
  BY <1>6 DEF vals

\* A line that is assembled becomes an instruction of its own opcode.
Makes(parsed, op) ==
  parsed.res = "ok" => \E flags, given, vals : parsed = Good(Make(op, flags, given, vals))

LEMMA ErrMakes ==
  ASSUME NEW op
  PROVE  Makes(Err, op) /\ Makes(Crash, op)
BY DEF Makes, Err, Crash

LEMMA GoodMakes ==
  ASSUME NEW op, NEW flags, NEW given, NEW vals
  PROVE  Makes(Good(Make(op, flags, given, vals)), op)
BY Zenon DEF Makes

LEMMA TryMakes ==
  ASSUME NEW op, NEW flags, NEW given, NEW vals, NEW guard
  PROVE  Makes(Try(guard, Make(op, flags, given, vals)), op)
BY ErrMakes, GoodMakes, Zenon DEF Try

LEMMA RowMakes ==
  ASSUME NEW op, NEW row, NEW toks, NEW syms
  PROVE  Makes(ParseRow(op, row, toks, syms), op)
BY ErrMakes, GoodMakes, Zenon DEF ParseRow

LEMMA TensorMakes ==
  ASSUME NEW toks, NEW syms
  PROVE  Makes(ParseTensor(toks, syms), "TENSOR")
<1>1. \A given, rows, cols, dtype, rest : Makes(MakeTensor(given, rows, cols, dtype, rest), "TENSOR")
  BY TryMakes, Zenon DEF MakeTensor
<1>2. Makes(LiteralTensor(toks, syms), "TENSOR")
  BY <1>1, ErrMakes, Zenon DEF LiteralTensor
<1> QED
  BY <1>1, <1>2, ErrMakes, Zenon DEF ParseTensor

LEMMA CompareMakes ==
  ASSUME NEW toks, NEW syms
  PROVE  Makes(ParseCompare(toks, syms), "COMPARE")
BY RowMakes, ErrMakes, GoodMakes, Zenon DEF ParseCompare, Then

LEMMA MadeHas ==
  ASSUME NEW parsed, NEW op, Makes(parsed, op), parsed.res = "ok"
  PROVE  parsed.ins.op = op
BY MakeIs DEF Makes, Good

LEMMA OwnMake ==
  ASSUME NEW toks, NEW syms
  PROVE  /\ Makes(ParseStream(toks, syms), "STREAM")
         /\ Makes(ParseFork(toks, syms), "FORK")
         /\ Makes(ParseSense(toks, syms), "SENSE")
         /\ Makes(ParseFfn(toks, syms), "FFN")
         /\ Makes(ParseSample(toks, syms), "SAMPLE")
         /\ \A op : Makes(ParseCodec(op, toks, syms), op)
         /\ Makes(ParseSwitch(toks, syms), "CTX_SWITCH")
         /\ Makes(ParseSeed(toks, syms), "RNG_SEED")
         /\ Makes(ParseSpawn(toks, syms), "REMOTE_SPAWN")
         /\ Makes(ParseSpawnContext(toks, syms), "SPAWN_CONTEXT")
<1>1. Makes(ParseStream(toks, syms), "STREAM")
  BY ErrMakes, TryMakes, Zenon DEF ParseStream
<1>2. Makes(ParseFork(toks, syms), "FORK")
  BY ErrMakes, TryMakes, Zenon DEF ParseFork
<1>3. Makes(ParseSense(toks, syms), "SENSE")
  BY ErrMakes, TryMakes, Zenon DEF ParseSense
<1>4. Makes(ParseFfn(toks, syms), "FFN")
  <2>1. ParseFfn(toks, syms) \in {Err, Crash} \/ \E given, vals : ParseFfn(toks, syms) = Good(Make("FFN", 0, given, vals))
    BY Zenon DEF ParseFfn
  <2> QED
    BY <2>1, ErrMakes, GoodMakes
<1>5. Makes(ParseSample(toks, syms), "SAMPLE")
  BY RowMakes, Zenon DEF ParseSample
<1>6. \A op : Makes(ParseCodec(op, toks, syms), op)
  BY ErrMakes, TryMakes, Zenon DEF ParseCodec
<1>7. Makes(ParseSwitch(toks, syms), "CTX_SWITCH")
  BY TryMakes DEF ParseSwitch
<1>8. Makes(ParseSeed(toks, syms), "RNG_SEED")
  BY TryMakes, Zenon DEF ParseSeed
<1>9. Makes(ParseSpawn(toks, syms), "REMOTE_SPAWN")
  BY RowMakes, Zenon DEF ParseSpawn
<1>10. Makes(ParseSpawnContext(toks, syms), "SPAWN_CONTEXT")
  BY ErrMakes, TryMakes, Zenon DEF ParseSpawnContext
<1> QED
  BY <1>1, <1>2, <1>3, <1>4, <1>5, <1>6, <1>7, <1>8, <1>9, <1>10

\* Two opcodes change the instruction of their row: never the opcode.
LEMMA ChangedHas ==
  ASSUME NEW toks, NEW syms
  PROVE  /\ ParseSignal(toks, syms).res = "ok" => ParseSignal(toks, syms).ins.op = "SIGNAL"
         /\ ParseScan(toks, syms).res = "ok" => ParseScan(toks, syms).ins.op = "SSM_SCAN"
<1>1. \A op, flags, given, vals, v :
        /\ [Make(op, flags, given, vals) EXCEPT !.a = v].op = op
        /\ [Make(op, flags, given, vals) EXCEPT !.flags = v].op = op
  BY DEF Make, Built, Instr
<1>2. \A e : Good(e).res = "ok" /\ Good(e).ins = e
  BY DEF Good
<1>3. ASSUME ParseSignal(toks, syms).res = "ok"
      PROVE  ParseSignal(toks, syms).ins.op = "SIGNAL"
  <2>1. PICK row, kind : /\ ParseRow("SIGNAL", row, toks, syms).res = "ok"
                         /\ ParseSignal(toks, syms) = Good([ParseRow("SIGNAL", row, toks, syms).ins EXCEPT !.a = kind])
    BY <1>3, Zenon DEF ParseSignal, Then
  <2> DEFINE parsed == ParseRow("SIGNAL", row, toks, syms)
  <2>2. Makes(parsed, "SIGNAL")
    BY RowMakes
  <2> HIDE DEF parsed
  <2>3. PICK flags, given, vals : parsed = Good(Make("SIGNAL", flags, given, vals))
    BY <2>1, <2>2 DEF Makes, parsed
  <2> DEFINE made == Make("SIGNAL", flags, given, vals)
             changed == [made EXCEPT !.a = kind]
  <2>4. changed.op = "SIGNAL"
    BY <1>1
  <2>5. parsed.ins = made
    BY <1>2, <2>3
  <2> HIDE DEF made
  <2>6. ParseSignal(toks, syms) = Good(changed)
    BY <2>1, <2>5 DEF parsed
  <2> HIDE DEF changed
  <2> QED
    BY <1>2, <2>4, <2>6
<1>4. ASSUME ParseScan(toks, syms).res = "ok"
      PROVE  ParseScan(toks, syms).ins.op = "SSM_SCAN"
  <2>1. PICK row, bits : /\ ParseRow("SSM_SCAN", row, toks, syms).res = "ok"
                         /\ ParseScan(toks, syms) = Good([ParseRow("SSM_SCAN", row, toks, syms).ins EXCEPT !.flags = bits])
    BY <1>4, Zenon DEF ParseScan, Then
  <2> DEFINE parsed == ParseRow("SSM_SCAN", row, toks, syms)
  <2>2. Makes(parsed, "SSM_SCAN")
    BY RowMakes
  <2> HIDE DEF parsed
  <2>3. PICK flags, given, vals : parsed = Good(Make("SSM_SCAN", flags, given, vals))
    BY <2>1, <2>2 DEF Makes, parsed
  <2> DEFINE made == Make("SSM_SCAN", flags, given, vals)
             changed == [made EXCEPT !.flags = bits]
  <2>4. changed.op = "SSM_SCAN"
    BY <1>1
  <2>5. parsed.ins = made
    BY <1>2, <2>3
  <2> HIDE DEF made
  <2>6. ParseScan(toks, syms) = Good(changed)
    BY <2>1, <2>5 DEF parsed
  <2> HIDE DEF changed
  <2> QED
    BY <1>2, <2>4, <2>6
<1> QED
  BY <1>3, <1>4

\* Which grammar reads a line.
LEMMA LineIs ==
  ASSUME NEW op, NEW toks, NEW syms
  PROVE  /\ op = "TENSOR" => ParseLine(op, toks, syms) = ParseTensor(toks, syms)
         /\ op = "STREAM" => ParseLine(op, toks, syms) = ParseStream(toks, syms)
         /\ op = "FORK" => ParseLine(op, toks, syms) = ParseFork(toks, syms)
         /\ op = "SENSE" => ParseLine(op, toks, syms) = ParseSense(toks, syms)
         /\ op = "FFN" => ParseLine(op, toks, syms) = ParseFfn(toks, syms)
         /\ op = "SAMPLE" => ParseLine(op, toks, syms) = ParseSample(toks, syms)
         /\ op = "COMPARE" => ParseLine(op, toks, syms) = ParseCompare(toks, syms)
         /\ op = "CTX_SWITCH" => ParseLine(op, toks, syms) = ParseSwitch(toks, syms)
         /\ op = "RNG_SEED" => ParseLine(op, toks, syms) = ParseSeed(toks, syms)
         /\ op = "LOADI" => ParseLine(op, toks, syms) = ParseLoadi(toks, syms)
         /\ op = "REMOTE_SPAWN" => ParseLine(op, toks, syms) = ParseSpawn(toks, syms)
         /\ op = "SIGNAL" => ParseLine(op, toks, syms) = ParseSignal(toks, syms)
         /\ op = "SPAWN_CONTEXT" => ParseLine(op, toks, syms) = ParseSpawnContext(toks, syms)
         /\ op = "SSM_SCAN" => ParseLine(op, toks, syms) = ParseScan(toks, syms)
         /\ op = "SCATTER_ADD" => ParseLine(op, toks, syms) = ParseRow("GATHER", RowTable[op], toks, syms)
         /\ op \in Jumping => ParseLine(op, toks, syms) = ParseJump(op, toks, syms)
         /\ op \in {"CODEC_ENC", "CODEC_DEC"} => ParseLine(op, toks, syms) = ParseCodec(op, toks, syms)
         /\ op \in DOMAIN RowTable \ OwnGrammar => ParseLine(op, toks, syms) = ParseRow(op, RowTable[op], toks, syms)
         /\ op \notin Mnemonics => ParseLine(op, toks, syms) = Err
<1>1. op = "TENSOR" => ParseLine(op, toks, syms) = ParseTensor(toks, syms)
  BY DEF ParseLine, Jumping, OwnGrammar
<1>2. op = "STREAM" => ParseLine(op, toks, syms) = ParseStream(toks, syms)
  BY DEF ParseLine, Jumping, OwnGrammar
<1>3. op = "FORK" => ParseLine(op, toks, syms) = ParseFork(toks, syms)
  BY DEF ParseLine, Jumping, OwnGrammar
<1>4. op = "SENSE" => ParseLine(op, toks, syms) = ParseSense(toks, syms)
  BY DEF ParseLine, Jumping, OwnGrammar
<1>5. op = "FFN" => ParseLine(op, toks, syms) = ParseFfn(toks, syms)
  BY DEF ParseLine, Jumping, OwnGrammar
<1>6. op = "SAMPLE" => ParseLine(op, toks, syms) = ParseSample(toks, syms)
  BY DEF ParseLine, Jumping, OwnGrammar
<1>7. op = "COMPARE" => ParseLine(op, toks, syms) = ParseCompare(toks, syms)
  BY DEF ParseLine, Jumping, OwnGrammar
<1>8. op = "CTX_SWITCH" => ParseLine(op, toks, syms) = ParseSwitch(toks, syms)
  BY DEF ParseLine, Jumping, OwnGrammar
<1>9. op = "RNG_SEED" => ParseLine(op, toks, syms) = ParseSeed(toks, syms)
  BY DEF ParseLine, Jumping, OwnGrammar
<1>10. op = "LOADI" => ParseLine(op, toks, syms) = ParseLoadi(toks, syms)
  BY DEF ParseLine, Jumping, OwnGrammar
<1>11. op = "REMOTE_SPAWN" => ParseLine(op, toks, syms) = ParseSpawn(toks, syms)
  BY DEF ParseLine, Jumping, OwnGrammar
<1>12. op = "SIGNAL" => ParseLine(op, toks, syms) = ParseSignal(toks, syms)
  BY DEF ParseLine, Jumping, OwnGrammar
<1>13. op = "SPAWN_CONTEXT" => ParseLine(op, toks, syms) = ParseSpawnContext(toks, syms)
  BY DEF ParseLine, Jumping, OwnGrammar
<1>14. op = "SSM_SCAN" => ParseLine(op, toks, syms) = ParseScan(toks, syms)
  BY DEF ParseLine, Jumping, OwnGrammar
<1>15. op = "SCATTER_ADD" => ParseLine(op, toks, syms) = ParseRow("GATHER", RowTable[op], toks, syms)
  BY DEF ParseLine, Jumping, OwnGrammar
<1>16. op \in Jumping => ParseLine(op, toks, syms) = ParseJump(op, toks, syms)
  BY DEF ParseLine, Jumping, OwnGrammar
<1>17. op \in {"CODEC_ENC", "CODEC_DEC"} => ParseLine(op, toks, syms) = ParseCodec(op, toks, syms)
  BY DEF ParseLine, Jumping, OwnGrammar
<1>18. op \in DOMAIN RowTable \ OwnGrammar => ParseLine(op, toks, syms) = ParseRow(op, RowTable[op], toks, syms)
  BY DEF ParseLine, Jumping, OwnGrammar
<1>19. op \notin Mnemonics => ParseLine(op, toks, syms) = Err
  BY DEF ParseLine, Jumping, OwnGrammar, Mnemonics
<1> QED
  BY <1>1, <1>2, <1>3, <1>4, <1>5, <1>6, <1>7, <1>8, <1>9, <1>10,
     <1>11, <1>12, <1>13, <1>14, <1>15, <1>16, <1>17, <1>18, <1>19, Zenon

\* Only the line of a jump becomes a jump, and only a LOADI a LOADI.
LEMMA ImmediateLine ==
  ASSUME NEW op, NEW toks, NEW syms,
         ParseLine(op, toks, syms).res = "ok", ParseLine(op, toks, syms).ins.op \in Immediate
  PROVE  op = ParseLine(op, toks, syms).ins.op
<1> DEFINE parsed == ParseLine(op, toks, syms)
           made == parsed.ins.op
<1>1. op \in Jumping => made = op
  <2>1. Makes(ParseJump(op, toks, syms), op)
    BY ErrMakes, TryMakes, Zenon DEF ParseJump
  <2> QED
    BY <2>1, LineIs, MadeHas
<1>2. op = "LOADI" => made = op
  <2>1. Makes(ParseLoadi(toks, syms), "LOADI")
    BY ErrMakes, TryMakes, Zenon DEF ParseLoadi
  <2> QED
    BY <2>1, LineIs, MadeHas
<1>3. op = "TENSOR" => made = op
  BY TensorMakes, LineIs, MadeHas
<1>4. op = "COMPARE" => made = op
  BY CompareMakes, LineIs, MadeHas
<1>5. op \in {"STREAM", "FORK", "SENSE", "FFN", "SAMPLE"} => made = op
  BY OwnMake, LineIs, MadeHas
<1>6. op \in {"CTX_SWITCH", "RNG_SEED", "REMOTE_SPAWN", "SPAWN_CONTEXT"} => made = op
  BY OwnMake, LineIs, MadeHas
<1>7. op \in {"CODEC_ENC", "CODEC_DEC"} => made = op
  BY OwnMake, LineIs, MadeHas
<1>8. op \in {"SIGNAL", "SSM_SCAN"} => made = op
  BY ChangedHas, LineIs
<1>9. op = "SCATTER_ADD" => made = "GATHER"
  BY RowMakes, LineIs, MadeHas
<1>10. op \in DOMAIN RowTable \ OwnGrammar => made = op
  BY RowMakes, LineIs, MadeHas
<1>11. op \in Mnemonics
  BY LineIs DEF Err
<1>12. made \in Immediate
  OBVIOUS
<1> HIDE DEF made
<1>13. op \in OwnGrammar => made = op \/ made = "GATHER"
  BY <1>1, <1>2, <1>3, <1>4, <1>5, <1>6, <1>7, <1>8, <1>9 DEF OwnGrammar
<1>14. made = op \/ made = "GATHER"
  BY <1>10, <1>11, <1>13 DEF Mnemonics
<1> QED
  BY <1>12, <1>14 DEF Immediate, Jumping, made

---------------------------------------------------------------------------
(* What the first pass makes of the text section.                          *)

\* The lines of code above a line.
LinesAbove(l) == {i \in CodeLines : i < l}
Count(l) == Cardinality(LinesAbove(l))

LEMMA CodeListed ==
  ASSUME IsSeq(task.source)
  PROVE  CodeLines \subseteq 1 .. Len(task.source)
<1>1. DOMAIN task.source = 1 .. Len(task.source)
  BY SeqFacts
<1> QED
  BY <1>1, Zenon DEF CodeLines

LEMMA CountIs ==
  ASSUME IsSeq(task.source)
  PROVE  /\ Count(1) = 0
         /\ \A k \in 1 .. Len(task.source) :
              /\ Count(k) \in Nat
              /\ Count(k + 1) = IF k \in CodeLines THEN Count(k) + 1 ELSE Count(k)
<1> DEFINE n == Len(task.source)
<1>1. n \in Nat /\ DOMAIN task.source = 1 .. n
  BY SeqFacts
<1> HIDE DEF n
<1>2. CodeLines \subseteq 1 .. n
  BY CodeListed DEF n
<1>3. LinesAbove(1) = {}
  <2>1. \A i \in CodeLines : ~(i < 1)
    BY <1>1, <1>2
  <2> QED
    BY <2>1, Zenon DEF LinesAbove
<1>4. ASSUME NEW k \in 1 .. n
      PROVE  /\ Count(k) \in Nat
             /\ Count(k + 1) = IF k \in CodeLines THEN Count(k) + 1 ELSE Count(k)
  <2>1. IsFiniteSet(1 .. n)
    BY <1>1, FS_Interval
  <2>2. LinesAbove(k) \in SUBSET (1 .. n)
    BY <1>2 DEF LinesAbove
  <2>3. IsFiniteSet(LinesAbove(k)) /\ Count(k) \in Nat
    BY <2>1, <2>2, FS_Subset, FS_CardinalityType DEF Count
  <2>4. k \notin LinesAbove(k)
    BY DEF LinesAbove
  <2>5. CASE k \in CodeLines
    <3>1. LinesAbove(k + 1) = LinesAbove(k) \cup {k}
      BY <1>1, <1>2, <2>5 DEF LinesAbove
    <3> QED
      BY <2>3, <2>4, <2>5, <3>1, FS_AddElement DEF Count
  <2>6. CASE k \notin CodeLines
    <3>1. \A i \in CodeLines : i < k + 1 <=> i < k
      <4>1. \A i \in 1 .. n : i # k => (i < k + 1 <=> i < k)
        BY <1>1
      <4> QED
        BY <1>2, <2>6, <4>1
    <3>2. LinesAbove(k + 1) = LinesAbove(k)
      BY <3>1, Zenon DEF LinesAbove
    <3> QED
      BY <2>3, <2>6, <3>2 DEF Count
  <2> QED
    BY <2>5, <2>6
<1> QED
  BY <1>3, <1>4, FS_EmptySet DEF Count, n

\* The line before decides the section.
LEMMA InTextIs ==
  ASSUME IsSeq(task.source)
  PROVE  /\ InText(1)
         /\ \A k \in 1 .. Len(task.source) :
              InText(k + 1) <=> \/ task.source[k].kind = "text"
                                \/ task.source[k].kind \notin {"text", "data"} /\ InText(k)
<1> DEFINE n == Len(task.source)
           sections(i) == {j \in 1 .. (i - 1) : task.source[j].kind \in {"text", "data"}}
<1>1. n \in Nat
  BY SeqFacts
<1> HIDE DEF n
<1>2. sections(1) = {}
  OBVIOUS
<1>3. \A i : InText(i) <=> sections(i) = {} \/ task.source[Max(sections(i))].kind = "text"
  BY DEF InText
<1>4. ASSUME NEW k \in 1 .. n
      PROVE  InText(k + 1) <=> \/ task.source[k].kind = "text"
                               \/ task.source[k].kind \notin {"text", "data"} /\ InText(k)
  <2>1. CASE task.source[k].kind \in {"text", "data"}
    <3>1. k \in sections(k + 1) /\ \A j \in sections(k + 1) : k >= j /\ j \in Nat
      BY <1>1, <2>1
    <3> DEFINE S == sections(k + 1)
    <3> HIDE DEF sections
    <3>2. \A x \in S : (\A j \in S : x >= j) => x = k
      BY <1>1, <3>1
    <3>3. Max(S) = k
      BY <3>1, <3>2 DEF Max
    <3> QED
      BY <1>3, <2>1, <3>1, <3>3
  <2>2. CASE task.source[k].kind \notin {"text", "data"}
    <3>1. sections(k + 1) = sections(k)
      BY <1>1, <2>2
    <3> HIDE DEF sections
    <3> QED
      BY <1>3, <2>2, <3>1
  <2> QED
    BY <2>1, <2>2
<1> QED
  BY <1>2, <1>3, <1>4 DEF n

\* From p to q, a line of the text section is taken.
Takes(p, q, ln) ==
  /\ q.ok = p.ok /\ q.inData = p.inData
  /\ q.code = IF ln.op = "" THEN p.code ELSE Append(p.code, ln)
  /\ q.labels = IF ln.label = "" THEN p.labels
                ELSE With(p.labels, ln.label, ProgramBase + Len(p.code) * InstrSize)

LEMMA TakeCodeIs ==
  ASSUME NEW p, PassOK(p), NEW ln
  PROVE  Takes(p, TakeCode(p, ln, ProgramBase), ln)
<1> DEFINE bare == ln.op = ""
           plain == ln.label = ""
           lab == With(p.labels, ln.label, ProgramBase + Len(p.code) * InstrSize)
           named == IF plain THEN p ELSE [p EXCEPT !.labels = lab]
           q == TakeCode(p, ln, ProgramBase)
<1>1. q = IF bare THEN named ELSE [named EXCEPT !.code = Append(named.code, ln)]
  BY Zenon DEF TakeCode
<1> HIDE DEF bare, plain, lab, q
<1>2. /\ named.ok = p.ok /\ named.inData = p.inData /\ named.code = p.code
      /\ named.labels = IF plain THEN p.labels ELSE lab
      /\ DOMAIN named = {"ok", "inData", "alias", "equ", "labels", "code", "data"}
  BY DEF PassOK
<1> HIDE DEF named
<1>3. /\ q.ok = p.ok /\ q.inData = p.inData
      /\ q.code = IF bare THEN p.code ELSE Append(p.code, ln)
      /\ q.labels = IF plain THEN p.labels ELSE lab
  <2> DEFINE code == Append(p.code, ln)
  <2>1. q = IF bare THEN named ELSE [named EXCEPT !.code = code]
    BY <1>1, <1>2
  <2> HIDE DEF code
  <2>2. /\ q.ok = named.ok /\ q.inData = named.inData /\ q.labels = named.labels
        /\ q.code = IF bare THEN named.code ELSE code
    BY <1>2, <2>1
  <2> QED
    BY <1>2, <2>2 DEF code
<1> QED
  BY <1>3, Zenon DEF Takes, bare, plain, lab, q

\* A line no mnemonic begins: the file does not assemble.
Foreign(p) == \E j \in DOMAIN p.code : p.code[j].op \notin Mnemonics

\* After k lines: the instructions so far are the lines of code so far, one
\* for one, and each label is the place of a line that has it.
CodeIs(p, k) ==
  /\ Len(p.code) = Count(k + 1)
  /\ \A i \in CodeLines : i <= k => Count(i) + 1 \in DOMAIN p.code /\ p.code[Count(i) + 1] = task.source[i]
  /\ \A m \in DOMAIN p.code : \E i \in CodeLines : i <= k /\ Count(i) + 1 = m
LabelsAre(p, k) ==
  \A x \in DOMAIN p.labels : \E l \in 1 .. k :
    Opens(l) /\ task.source[l].label = x /\ p.labels[x] = ProgramBase + Count(l) * InstrSize
Scan(p, k) ==
  p.ok => /\ p.inData <=> ~InText(k + 1)
          /\ Foreign(p) \/ (CodeIs(p, k) /\ LabelsAre(p, k))

LEMMA CodeKeeps ==
  ASSUME IsSeq(task.source), NEW k \in 1 .. Len(task.source), NEW p, NEW q,
         CodeIs(p, k - 1), q.code = p.code, k \notin CodeLines
  PROVE  CodeIs(q, k)
<1>1. Len(task.source) \in Nat /\ (k - 1) + 1 = k /\ CodeLines \subseteq 1 .. Len(task.source)
  BY SeqFacts, CodeListed
<1>2. Count(k + 1) = Count(k)
  BY CountIs
<1>3. \A i \in CodeLines : i <= k <=> i <= k - 1
  BY <1>1
<1> QED
  BY <1>1, <1>2, <1>3 DEF CodeIs

LEMMA CodeGrows ==
  ASSUME IsSeq(task.source), NEW k \in CodeLines, NEW p, NEW q,
         CodeIs(p, k - 1), IsSeq(p.code), q.code = Append(p.code, task.source[k])
  PROVE  CodeIs(q, k)
<1> DEFINE n == Count(k)
           line == task.source[k]
<1>1. Len(task.source) \in Nat /\ CodeLines \subseteq 1 .. Len(task.source)
  BY SeqFacts, CodeListed
<1>2. k \in 1 .. Len(task.source) /\ (k - 1) + 1 = k
  BY <1>1
<1>3. n \in Nat /\ Count(k + 1) = n + 1 /\ Len(p.code) = n
  BY <1>2, CountIs DEF CodeIs
<1>4. DOMAIN p.code = 1 .. n
  BY <1>3, SeqFacts
<1>5. /\ IsSeq(q.code) /\ Len(q.code) = n + 1
      /\ q.code = [i \in 1 .. n + 1 |-> IF i = n + 1 THEN line ELSE p.code[i]]
  BY <1>3, AppendOf
<1>6. DOMAIN q.code = 1 .. n + 1 /\ q.code[n + 1] = line /\ \A i \in 1 .. n : q.code[i] = p.code[i]
  BY <1>3, <1>5
<1>7. \A i \in CodeLines : i <= k => i = k \/ i <= k - 1
  BY <1>1
<1>8. ASSUME NEW i \in CodeLines, i <= k
      PROVE  Count(i) + 1 \in DOMAIN q.code /\ q.code[Count(i) + 1] = task.source[i]
  <2>1. CASE i = k
    BY <1>3, <1>6, <2>1
  <2>2. CASE i <= k - 1
    <3>1. Count(i) + 1 \in 1 .. n /\ p.code[Count(i) + 1] = task.source[i]
      BY <1>4, <2>2 DEF CodeIs
    <3>2. 1 .. n \subseteq 1 .. n + 1
      BY <1>3
    <3> HIDE DEF n
    <3> QED
      BY <1>6, <3>1, <3>2
  <2> QED
    BY <1>7, <1>8, <2>1, <2>2
<1>9. ASSUME NEW m \in DOMAIN q.code
      PROVE  \E i \in CodeLines : i <= k /\ Count(i) + 1 = m
  <2>1. CASE m = n + 1
    BY <1>2, <2>1
  <2>2. CASE m \in 1 .. n
    <3>1. PICK i \in CodeLines : i <= k - 1 /\ Count(i) + 1 = m
      BY <1>4, <2>2 DEF CodeIs
    <3>2. i <= k
      BY <1>1, <1>2, <3>1
    <3> QED
      BY <3>1, <3>2
  <2>3. m = n + 1 \/ m \in 1 .. n
    BY <1>3, <1>6
  <2> QED
    BY <2>1, <2>2, <2>3
<1> QED
  BY <1>3, <1>5, <1>8, <1>9 DEF CodeIs

LEMMA LabelsKeep ==
  ASSUME IsSeq(task.source), NEW k \in 1 .. Len(task.source), NEW p, NEW q,
         LabelsAre(p, k - 1), q.labels = p.labels
  PROVE  LabelsAre(q, k)
<1>1. \A l \in 1 .. k - 1 : l \in 1 .. k
  BY SeqFacts
<1> QED
  BY <1>1 DEF LabelsAre

LEMMA LabelsGrow ==
  ASSUME IsSeq(task.source), NEW k \in 1 .. Len(task.source), NEW p, NEW q,
         LabelsAre(p, k - 1), Opens(k), Len(p.code) = Count(k),
         q.labels = With(p.labels, task.source[k].label, ProgramBase + Len(p.code) * InstrSize)
  PROVE  LabelsAre(q, k)
<1> DEFINE name == task.source[k].label
           pc1 == ProgramBase + Count(k) * InstrSize
<1>1. k \in 1 .. k /\ \A l \in 1 .. k - 1 : l \in 1 .. k
  BY SeqFacts
<1>2. q.labels = With(p.labels, name, pc1)
  OBVIOUS
<1>3. /\ DOMAIN q.labels = DOMAIN p.labels \cup {name} /\ q.labels[name] = pc1
      /\ \A x \in DOMAIN p.labels : x # name => q.labels[x] = p.labels[x]
  <2> DEFINE labels == With(p.labels, name, pc1)
  <2> HIDE DEF name, pc1
  <2>1. /\ DOMAIN labels = DOMAIN p.labels \cup {name} /\ labels[name] = pc1
        /\ \A x \in DOMAIN p.labels : x # name => labels[x] = p.labels[x]
    BY DEF With
  <2>2. q.labels = labels
    BY <1>2
  <2> HIDE DEF labels
  <2> QED
    BY <2>1, <2>2
<1>4. ASSUME NEW x \in DOMAIN q.labels
      PROVE  \E l \in 1 .. k : /\ Opens(l) /\ task.source[l].label = x
                               /\ q.labels[x] = ProgramBase + Count(l) * InstrSize
  <2>1. CASE x = name
    BY <1>1, <1>3, <2>1
  <2>2. CASE x # name
    BY <1>1, <1>3, <2>2 DEF LabelsAre
  <2> QED
    BY <2>1, <2>2
<1> QED
  BY <1>4 DEF LabelsAre

LEMMA ForeignStays ==
  ASSUME NEW p, NEW q, IsSeq(p.code), Foreign(p), NEW ln,
         q.code = p.code \/ q.code = Append(p.code, ln)
  PROVE  Foreign(q)
<1>1. PICK j \in DOMAIN p.code : p.code[j].op \notin Mnemonics
  BY DEF Foreign
<1> DEFINE longer == Append(p.code, ln)
<1>2. j \in DOMAIN longer /\ longer[j] = p.code[j]
  BY AppendIs
<1> HIDE DEF longer
<1>3. q.code = p.code \/ q.code = longer
  BY DEF longer
<1>4. j \in DOMAIN q.code /\ q.code[j] = p.code[j]
  BY <1>1, <1>2, <1>3
<1> QED
  BY <1>1, <1>4 DEF Foreign

LEMMA ForeignNew ==
  ASSUME NEW p, NEW q, IsSeq(p.code), NEW ln, ln.op \notin Mnemonics, q.code = Append(p.code, ln)
  PROVE  Foreign(q)
<1> DEFINE n == Len(p.code) + 1
<1>1. Append(p.code, ln) = [i \in 1 .. n |-> IF i = n THEN ln ELSE p.code[i]]
  BY AppendOf
<1>2. n \in 1 .. n
  BY SeqFacts
<1> HIDE DEF n
<1>3. n \in DOMAIN q.code /\ q.code[n] = ln
  BY <1>1, <1>2
<1> QED
  BY <1>3 DEF Foreign

\* One line of the first pass.
LEMMA ScanLine ==
  ASSUME SourceOK(task.source), NEW k \in 1 .. Len(task.source), NEW p, PassOK(p), Scan(p, k - 1)
  PROVE  Scan(TakeLine(p, task.source[k], ProgramBase), k)
<1> DEFINE line == task.source[k]
           q == TakeLine(p, line, ProgramBase)
<1> SUFFICES ASSUME q.ok
             PROVE  /\ q.inData <=> ~InText(k + 1)
                    /\ Foreign(q) \/ (CodeIs(q, k) /\ LabelsAre(q, k))
  BY DEF Scan
<1>1. IsSeq(task.source) /\ IsSeq(p.code) /\ LineOK(line) /\ k \in DOMAIN task.source /\ (k - 1) + 1 = k
  BY SeqFacts DEF SourceOK, PassOK
<1>2. line.kind \in {"reg", "equ", "text", "data", "blob", "code"}
  BY <1>1 DEF LineOK
<1>3. InText(k + 1) <=> line.kind = "text" \/ (line.kind \notin {"text", "data"} /\ InText(k))
  BY <1>1, InTextIs
<1>4. Opens(k) <=> line.kind = "code" /\ InText(k)
  BY DEF Opens
<1>5. k \in CodeLines => Opens(k)
  BY Zenon DEF CodeLines
<1>6. p.ok
  <2>1. ~p.ok => q = p
    BY DEF TakeLine
  <2> QED
    BY <2>1
<1>7. /\ p.inData <=> ~InText(k)
      /\ Foreign(p) \/ (CodeIs(p, k - 1) /\ LabelsAre(p, k - 1))
  BY <1>1, <1>6 DEF Scan
<1>8. /\ DOMAIN p = {"ok", "inData", "alias", "equ", "labels", "code", "data"}
  BY DEF PassOK
<1>9. ASSUME q.code = p.code, q.labels = p.labels, k \notin CodeLines
      PROVE  Foreign(q) \/ (CodeIs(q, k) /\ LabelsAre(q, k))
  <2> HIDE DEF q
  <2>1. Foreign(p) => Foreign(q)
    BY <1>9 DEF Foreign
  <2>2. CodeIs(p, k - 1) => CodeIs(q, k)
    BY <1>1, <1>9, CodeKeeps
  <2>3. LabelsAre(p, k - 1) => LabelsAre(q, k)
    BY <1>1, <1>9, LabelsKeep
  <2> QED
    BY <1>7, <2>1, <2>2, <2>3
<1>10. CASE line.kind = "reg"
  <2> DEFINE alias == With(p.alias, <<line.name[1] - 1, line.name[2]>>, line.value)
  <2>1. q = [p EXCEPT !.ok = FALSE] \/ q = [p EXCEPT !.alias = alias]
    BY <1>6, <1>10 DEF TakeLine, DeclareReg
  <2> HIDE DEF alias, q
  <2>2. q.inData = p.inData /\ q.code = p.code /\ q.labels = p.labels
    BY <1>8, <2>1
  <2> QED
    BY <1>3, <1>4, <1>5, <1>7, <1>9, <1>10, <2>2
<1>11. CASE line.kind = "equ"
  <2> DEFINE equ == With(p.equ, line.name[2], line.value)
  <2>1. q = [p EXCEPT !.ok = FALSE] \/ q = [p EXCEPT !.equ = equ]
    BY <1>6, <1>11 DEF TakeLine, DeclareEqu
  <2> HIDE DEF equ, q
  <2>2. q.inData = p.inData /\ q.code = p.code /\ q.labels = p.labels
    BY <1>8, <2>1
  <2> QED
    BY <1>3, <1>4, <1>5, <1>7, <1>9, <1>11, <2>2
<1>12. CASE line.kind = "text"
  <2>1. q = [p EXCEPT !.inData = FALSE]
    BY <1>6, <1>12 DEF TakeLine
  <2> HIDE DEF q
  <2>2. ~q.inData /\ q.code = p.code /\ q.labels = p.labels
    BY <1>8, <2>1
  <2> QED
    BY <1>3, <1>4, <1>5, <1>9, <1>12, <2>2
<1>13. CASE line.kind = "data"
  <2>1. q = [p EXCEPT !.inData = TRUE]
    BY <1>6, <1>13 DEF TakeLine
  <2> HIDE DEF q
  <2>2. q.inData /\ q.code = p.code /\ q.labels = p.labels
    BY <1>8, <2>1
  <2> QED
    BY <1>3, <1>4, <1>5, <1>9, <1>13, <2>2
<1>14. CASE line.kind \in {"blob", "code"} /\ p.inData
  <2> DEFINE data1 == Append(p.data, line)
  <2>1. q = [p EXCEPT !.data = data1]
    BY <1>6, <1>14 DEF TakeLine, TakeContent
  <2> HIDE DEF q, data1
  <2>2. q.inData = p.inData /\ q.code = p.code /\ q.labels = p.labels
    BY <1>8, <2>1
  <2> QED
    BY <1>3, <1>4, <1>5, <1>7, <1>9, <1>14, <2>2
<1>15. CASE line.kind = "blob" /\ ~p.inData
  <2> DEFINE ln == Code(line.name, line.type, <<>>)
  <2>1. q = TakeCode(p, ln, ProgramBase)
    BY <1>6, <1>15 DEF TakeLine, TakeContent
  <2>2. ln.op = line.type
    BY DEF Code
  <2>3. line.type \notin Mnemonics /\ line.type # ""
    BY <1>1, <1>15, Zenon DEF LineOK
  <2> HIDE DEF q, ln
  <2>4. q.inData = p.inData /\ q.code = Append(p.code, ln)
    <3>1. Takes(p, q, ln)
      BY <2>1, TakeCodeIs
    <3> QED
      BY <2>2, <2>3, <3>1, Zenon DEF Takes
  <2>5. Foreign(q)
    BY <1>1, <2>2, <2>3, <2>4, ForeignNew, Zenon
  <2> QED
    BY <1>3, <1>7, <1>15, <2>4, <2>5
<1>16. CASE line.kind = "code" /\ ~p.inData
  <2>1. q = TakeCode(p, line, ProgramBase)
    BY <1>6, <1>16 DEF TakeLine, TakeContent
  <2>2. Opens(k)
    BY <1>4, <1>7, <1>16
  <2>3. k \in CodeLines <=> line.op # ""
    BY <1>1, <2>2, Zenon DEF CodeLines
  <2> HIDE DEF q, line
  <2>4. Takes(p, q, line)
    BY <2>1, TakeCodeIs
  <2>5. /\ q.inData = p.inData
        /\ k \notin CodeLines => q.code = p.code
        /\ k \in CodeLines => q.code = Append(p.code, line)
        /\ \/ q.labels = p.labels
           \/ q.labels = With(p.labels, line.label, ProgramBase + Len(p.code) * InstrSize)
    BY <2>3, <2>4, Zenon DEF Takes
  <2>6. Foreign(p) => Foreign(q)
    BY <1>1, <2>5, ForeignStays, Zenon
  <2>7. CodeIs(p, k - 1) => CodeIs(q, k)
    <3>1. CASE k \in CodeLines
      BY <1>1, <2>5, <3>1, CodeGrows DEF line
    <3>2. CASE k \notin CodeLines
      BY <1>1, <2>5, <3>2, CodeKeeps
    <3> QED
      BY <3>1, <3>2
  <2>8. CodeIs(p, k - 1) /\ LabelsAre(p, k - 1) => LabelsAre(q, k)
    <3>1. CodeIs(p, k - 1) => Len(p.code) = Count(k)
      BY <1>1 DEF CodeIs
    <3>2. CASE q.labels = p.labels
      BY <1>1, <3>2, LabelsKeep
    <3>3. CASE q.labels = With(p.labels, line.label, ProgramBase + Len(p.code) * InstrSize)
      BY <1>1, <2>2, <3>1, <3>3, LabelsGrow DEF line
    <3> QED
      BY <2>5, <3>2, <3>3
  <2> QED
    BY <1>3, <1>7, <1>16, <2>5, <2>6, <2>7, <2>8 DEF line
<1> QED
  BY <1>2, <1>10, <1>11, <1>12, <1>13, <1>14, <1>15, <1>16

LEMMA ScanAll ==
  ASSUME SourceOK(task.source)
  PROVE  Scan(FirstPass(task.source, ProgramBase), Len(task.source))
<1> DEFINE source == task.source
           n == Len(source)
<1>1. n \in Nat /\ IsSeq(source) /\ DOMAIN source = 1 .. n /\ \A k \in 1 .. n : LineOK(source[k])
  BY SeqFacts DEF SourceOK
<1>2. PICK after : /\ after[0] = Pass1
                   /\ \A k \in 1 .. n : after[k] = TakeLine(after[k - 1], source[k], ProgramBase)
                   /\ FirstPass(source, ProgramBase) = after[n]
  BY FirstPassRuns
<1> DEFINE Scanned(k) == PassOK(after[k]) /\ Scan(after[k], k)
<1>3. Scanned(0)
  <2>1. <<>> \in Seq({}) /\ Len(<<>>) = 0 /\ DOMAIN <<>> = {} /\ 0 + 1 = 1
    OBVIOUS
  <2>2. PassOK(Pass1)
    BY <2>1 DEF PassOK, Pass1, IsSeq
  <2>3. InText(1) /\ Count(1) = 0
    <3>1. 1 .. (1 - 1) = {}
      OBVIOUS
    <3>2. InText(1)
      BY <3>1 DEF InText
    <3> QED
      BY <1>1, <3>2, CountIs
  <2>4. \A i \in CodeLines : ~(i <= 0)
    <3>1. CodeLines \subseteq 1 .. n
      BY <1>1, CodeListed
    <3> QED
      BY <1>1, <3>1
  <2>5. CodeIs(Pass1, 0)
    BY <2>1, <2>3, <2>4 DEF CodeIs, Pass1
  <2>6. LabelsAre(Pass1, 0)
    BY <2>1 DEF LabelsAre, Pass1
  <2>7. Scan(Pass1, 0)
    BY <2>1, <2>3, <2>5, <2>6 DEF Scan, Pass1
  <2> QED
    BY <1>2, <2>2, <2>7
<1>4. \A k \in 1 .. n : Scanned(k - 1) => Scanned(k)
  <2> TAKE k \in 1 .. n
  <2> HAVE Scanned(k - 1)
  <2>1. PassOK(TakeLine(after[k - 1], source[k], ProgramBase))
    BY <1>1, TakeLineOK
  <2>2. Scan(TakeLine(after[k - 1], source[k], ProgramBase), k)
    BY ScanLine
  <2> QED
    BY <1>2, <2>1, <2>2
<1> HIDE DEF Scanned, n
<1>5. \A k \in 0 .. n : Scanned(k)
  <2> DEFINE T == {k \in 0 .. n : ~ Scanned(k)}
  <2>1. SUFFICES ASSUME T # {} PROVE FALSE
    OBVIOUS
  <2>2. T \in SUBSET Nat
    BY <1>1
  <2> HIDE DEF T
  <2>3. PICK k \in T : \A j \in T : k <= j
    BY <2>1, <2>2, Least
  <2>4. k \in 0 .. n /\ ~ Scanned(k)
    BY DEF T
  <2>5. k # 0
    BY <1>3, <2>4
  <2>6. k \in 1 .. n /\ k - 1 \in 0 .. n /\ ~ (k <= k - 1)
    BY <1>1, <2>4, <2>5
  <2>7. Scanned(k - 1)
    BY <2>3, <2>6 DEF T
  <2> QED
    BY <1>4, <2>4, <2>6, <2>7
<1> QED
  BY <1>1, <1>2, <1>5 DEF Scanned, n

---------------------------------------------------------------------------
(* What was loaded is what the assembler made of the source.               *)

EndOf == TensorEnds(task.tensors)[Len(task.tensors)]
Assembled ==
  /\ task \in Tasks
  /\ stage = "source" => cursor = EndOf
  /\ asm.res = "ok" => \E base \in {DataBase, EndOf} : asm = AssembleWithData(task.source, base)
  /\ file # NoFile /\ asm.res = "ok" => asm.blobs = <<>>
  /\ stage = "loaded" /\ ~(file # NoFile /\ file.damaged) => asm.res = "ok" /\ prog = asm.instrs

LEMMA AssembledInit ==
  ASSUME Init
  PROVE  Assembled
<1>1. PICK t \in Tasks : task = t /\ MachineInit(t.tensors)
  BY DEF Init
<1>2. stage = "source" /\ asm = [res |-> "none"] /\ file = NoFile
  BY DEF Init
<1>3. cursor = EndOf
  BY <1>1 DEF MachineInit, EndOf
<1> QED
  BY <1>1, <1>2, <1>3 DEF Assembled

LEMMA AssembledData ==
  ASSUME Assembled, LoadInv, AssembleData
  PROVE  Assembled'
<1>1. /\ stage = "source" /\ stage' \in {"assembled", "refused"} /\ UNCHANGED <<task, file>>
  BY DEF AssembleData, Refused
<1>2. file' = NoFile
  BY <1>1 DEF LoadInv, WayInv
<1>3. \E base \in {DataBase, EndOf} : asm' = AssembleWithData(task.source, base)
  BY <1>1 DEF AssembleData, Assembled
<1>4. EndOf' = EndOf
  BY <1>1 DEF EndOf
<1> QED
  BY <1>1, <1>2, <1>3, <1>4 DEF Assembled

LEMMA AssembledSave ==
  ASSUME Assembled, NEW ext \in {"m3asm", "m3bin", "m3bc"}, Save(ext)
  PROVE  Assembled'
<1>1. /\ stage' \in {"saved", "refused"} /\ UNCHANGED task /\ asm' = Assemble(task.source)
  BY DEF Save, SaveAs, Refused
<1>2. EndOf' = EndOf
  BY <1>1 DEF EndOf
<1> DEFINE full == AssembleFull(task.source, ProgramBase, DataBase)
<1>3. Err.res # "ok"
  BY DEF Err
<1>4. asm' = IF full.res = "ok" /\ full.blobs # <<>> THEN Err ELSE full
  BY <1>1 DEF Assemble, WithoutData
<1>5. asm'.res = "ok" => asm' = full /\ asm'.blobs = <<>>
  BY <1>3, <1>4
<1>6. full = AssembleWithData(task.source, DataBase)
  BY DEF AssembleWithData
<1> HIDE DEF full
<1> QED
  BY <1>1, <1>2, <1>5, <1>6 DEF Assembled

LEMMA AssembledDamage ==
  ASSUME Assembled, LoadInv, Damage
  PROVE  Assembled'
<1>1. stage = "saved" /\ UNCHANGED <<stage, task, asm>>
  BY DEF Damage
<1>2. file # NoFile
  BY <1>1 DEF LoadInv, WayInv, SavedFile, NoFile
<1>3. EndOf' = EndOf
  BY <1>1 DEF EndOf
<1> QED
  BY <1>1, <1>2, <1>3 DEF Assembled

LEMMA AssembledOpen ==
  ASSUME Assembled, LoadInv, Open
  PROVE  Assembled'
<1>1. stage = "saved" /\ UNCHANGED <<task, asm>>
  BY DEF Open
<1>2. PICK ext \in {file.ext, "other"} : Start(RunFile(file.content, ext), ext)
  BY DEF Open
<1> DEFINE r == RunFile(file.content, ext)
<1>3. SavedFile /\ SourceOK(task.source) /\ (asm.res = "ok" => IsSeq(asm.instrs))
  BY <1>1 DEF LoadInv, WayInv
<1>4. file # NoFile
  BY <1>3 DEF SavedFile, NoFile
<1>5. r.res = "ok" => asm.res = "ok" /\ (~file.damaged => r.prog = asm.instrs)
  BY <1>3, OpensAs
<1>6. EndOf' = EndOf
  BY <1>1 DEF EndOf
<1>7. Start(r, ext)
  BY <1>2
<1> HIDE DEF r
<1>8. \/ r.res = "ok" /\ stage' = "loaded" /\ prog' = r.prog /\ UNCHANGED file
      \/ stage' = "refused"
  BY <1>7 DEF Start, LoadProgram, Refused
<1> QED
  BY <1>1, <1>4, <1>5, <1>6, <1>8 DEF Assembled

LEMMA AssembledLoad ==
  ASSUME Assembled, LoadInv, LoadAssembled
  PROVE  Assembled'
<1>1. stage = "assembled" /\ UNCHANGED <<task, asm, file>>
  BY DEF LoadAssembled
<1>2. file = NoFile /\ asm.res = "ok"
  BY <1>1 DEF LoadInv, WayInv
<1>3. (stage' = "loaded" /\ prog' = asm.instrs) \/ stage' = "refused"
  BY DEF LoadAssembled, LoadProgram, Refused
<1>4. EndOf' = EndOf
  BY <1>1 DEF EndOf
<1> QED
  BY <1>1, <1>2, <1>3, <1>4 DEF Assembled

LEMMA AssembledRun ==
  ASSUME Assembled, Run
  PROVE  Assembled'
<1>1. stage = "loaded" /\ UNCHANGED <<stage, task, asm, file>> /\ Step
  BY DEF Run, fileVars
<1>2. ControlStep
  <2>1. CASE FetchFails
    BY <2>1, HowItEnds DEF FetchFails
  <2>2. CASE Execute(Current, Params(Current))
    BY <2>2, ExecuteControls
  <2> QED
    BY <1>1, <2>1, <2>2 DEF Step
<1>3. prog' = prog
  BY <1>2 DEF ControlStep
<1>4. EndOf' = EndOf
  BY <1>1 DEF EndOf
<1> QED
  BY <1>1, <1>3, <1>4 DEF Assembled

\* What runs, unless its file was damaged, is what the assembler made of the
\* source, and a file has no data section.
THEOREM AssembledInvariant == Spec => []Assembled
<1>1. Init => Assembled
  BY AssembledInit
<1>2. LoadInv /\ Assembled /\ [Next]_vars => Assembled'
  <2> SUFFICES ASSUME LoadInv, Assembled, [Next]_vars PROVE Assembled'
    OBVIOUS
  <2>1. CASE UNCHANGED vars
    <3>1. UNCHANGED <<prog, cursor, stage, task, asm, file>>
      BY <2>1 DEF vars, machineVars, ctxVars, memVars, fileVars
    <3>2. EndOf' = EndOf
      BY <3>1 DEF EndOf
    <3> QED
      BY <3>1, <3>2 DEF Assembled
  <2>2. CASE Next
    BY <2>2, AssembledData, AssembledSave, AssembledDamage, AssembledOpen, AssembledLoad, AssembledRun DEF Next
  <2> QED
    BY <2>1, <2>2
<1> QED
  BY <1>1, <1>2, LoadInvariant, PTL DEF Spec

LEMMA BlobsSized ==
  ASSUME NEW a, SectionOK(a)
  PROVE  /\ IsSeq(a.blobs)
         /\ \A i \in DOMAIN a.blobs : BlobBytes(a.blobs[i]) \in Nat
BY DEF SectionOK, BlobsOK

\* What was assembled, line by line: an instruction is what the line says it
\* came from, and every label is the place of a line that has it.
Landed(n) ==
  LET source == task.source IN
  /\ n \in Nat /\ IsSeq(source) /\ DOMAIN source = 1 .. n /\ \A i \in 1 .. n : LineOK(source[i])
  /\ \A k \in DOMAIN asm.instrs :
       /\ LineOf(k) \in CodeLines
       /\ LET line == source[LineOf(k)]  parsed == ParseLine(line.op, line.toks, asm.syms) IN
          parsed.res = "ok" /\ asm.instrs[k] = parsed.ins
  /\ \A x \in DOMAIN asm.syms.labels : \E l \in 1 .. n :
       Opens(l) /\ source[l].label = x /\ asm.syms.labels[x] = ProgramBase + Count(l) * InstrSize
  /\ asm.syms.addrs = [x \in {b.name : b \in ToSet(asm.blobs)} |-> asm.syms.addrs[x]]
  /\ SectionOK(asm)
  /\ \A v \in Range(asm.syms.labels) \cup Range(asm.syms.addrs) : Fits(v, 16)

LEMMA LandedIs ==
  ASSUME LoadInv, Assembled, asm.res = "ok"
  PROVE  Landed(Len(task.source))
<1> DEFINE source == task.source
           n == Len(source)
           p == FirstPass(source, ProgramBase)
<1>1. PICK base \in {DataBase, EndOf} : asm = AssembleFull(source, ProgramBase, base)
  BY DEF Assembled, AssembleWithData
<1>2. SourceOK(source)
  BY DEF LoadInv, WayInv
<1>3. n \in Nat /\ IsSeq(source) /\ DOMAIN source = 1 .. n /\ \A i \in 1 .. n : LineOK(source[i])
  BY <1>2, SeqFacts DEF SourceOK
<1>4. /\ asm.syms = Symbols(p, asm.blobs, base)
      /\ p.ok /\ DOMAIN asm.instrs = DOMAIN p.code
      /\ \A i \in DOMAIN p.code :
           ParseLine(p.code[i].op, p.code[i].toks, asm.syms).res = "ok"
           /\ asm.instrs[i] = ParseLine(p.code[i].op, p.code[i].toks, asm.syms).ins
  BY <1>1, <1>2, FullIs
<1>5. SectionOK(asm)
  BY <1>1, <1>2, SectionIs
<1>6. Scan(p, n)
  BY <1>2, ScanAll
<1>7. ~Foreign(p)
  <2> SUFFICES ASSUME NEW i \in DOMAIN p.code, p.code[i].op \notin Mnemonics PROVE FALSE
    BY DEF Foreign
  <2>1. ParseLine(p.code[i].op, p.code[i].toks, asm.syms) = Err
    BY LineIs
  <2> QED
    BY <1>4, <2>1 DEF Err
<1>8. CodeIs(p, n) /\ LabelsAre(p, n)
  BY <1>4, <1>6, <1>7 DEF Scan
<1> HIDE DEF p, n
<1>9. ASSUME NEW k \in DOMAIN asm.instrs
      PROVE  /\ LineOf(k) \in CodeLines
             /\ LET line == source[LineOf(k)]  parsed == ParseLine(line.op, line.toks, asm.syms) IN
                parsed.res = "ok" /\ asm.instrs[k] = parsed.ins
  <2>1. k \in DOMAIN p.code
    BY <1>4
  <2>2. PICK i \in CodeLines : i <= n /\ Count(i) + 1 = k
    BY <1>8, <2>1 DEF CodeIs
  <2>3. CodeLines \subseteq 1 .. n
    BY <1>3, CodeListed DEF n
  <2>4. \A j \in CodeLines : Count(j) \in Nat /\ j <= n
    BY <1>3, <2>3, CountIs DEF n
  <2>5. Cardinality({j \in CodeLines : j < i}) = k - 1
    BY <2>2, <2>4 DEF Count, LinesAbove
  <2> DEFINE l == LineOf(k)
  <2>6. l \in CodeLines /\ Cardinality({j \in CodeLines : j < l}) = k - 1
    BY <2>2, <2>5 DEF LineOf
  <2> HIDE DEF l
  <2>7. Count(l) = k - 1
    BY <2>6 DEF Count, LinesAbove
  <2>8. Count(l) + 1 = k
    BY <2>2, <2>4, <2>6, <2>7
  <2>9. p.code[k] = source[l]
    BY <1>8, <2>4, <2>6, <2>8 DEF CodeIs
  <2> QED
    BY <1>4, <2>1, <2>6, <2>9 DEF l
<1>10. asm.syms.labels = p.labels
  BY <1>4 DEF Symbols
<1>11. \A x \in DOMAIN asm.syms.labels : \E l \in 1 .. n :
         Opens(l) /\ source[l].label = x /\ asm.syms.labels[x] = ProgramBase + Count(l) * InstrSize
  BY <1>8, <1>10 DEF LabelsAre
<1>12. asm.syms.addrs = [x \in {b.name : b \in ToSet(asm.blobs)} |-> asm.syms.addrs[x]]
  BY <1>4 DEF Symbols
<1>13. \A v \in Range(asm.syms.labels) \cup Range(asm.syms.addrs) : Fits(v, 16)
  <2>1. task \in Tasks /\ asm = AssembleWithData(task.source, base)
    BY <1>1 DEF Assembled, AssembleWithData
  <2>2. base \in {DataBase, TensorEnds(task.tensors)[Len(task.tensors)]}
    BY DEF EndOf
  <2> QED
    BY <2>1, <2>2, AddressSpace
<1> QED
  BY <1>3, <1>5, <1>9, <1>11, <1>12, <1>13 DEF Landed, n

\* A jump writes the address of its label, and LOADI that of its blob.
LEMMA JumpMeans ==
  ASSUME NEW op \in Jumping, NEW toks, NEW syms, ParseJump(op, toks, syms).res = "ok",
         \A v \in Range(syms.labels) : Fits(v, 16)
  PROVE  /\ Last(toks).s \in DOMAIN syms.labels
         /\ Params(ParseJump(op, toks, syms).ins).imm = syms.labels[Last(toks).s]
<1> DEFINE given == IF op = "IF_INTERRUPT" /\ Len(toks) = 2 THEN <<ParseReg(toks[1], syms)>> ELSE <<>>
           v == Label(Last(toks), syms)
           made == Make(op, 0, given, [imm |-> v])
<1>1. Err.res # "ok"
  BY DEF Err
<1> HIDE DEF made, given, v
<1>2. v # Bad /\ ParseJump(op, toks, syms) = Good(made)
  BY <1>1 DEF ParseJump, Try, made, given, v
<1>3. Last(toks).s \in DOMAIN syms.labels /\ v = syms.labels[Last(toks).s]
  BY <1>2 DEF v, Label, Lookup
<1>4. Fits(v, 16)
  BY <1>3 DEF Range
<1>5. Params(made).imm = v
  BY <1>4, ImmediateSurvives DEF made, Immediate
<1>6. ParseJump(op, toks, syms).ins = made
  BY <1>2 DEF Good
<1> QED
  BY <1>3, <1>5, <1>6

LEMMA LoadiMeans ==
  ASSUME NEW toks, IsSeq(toks), NEW syms, ParseLoadi(toks, syms).res = "ok",
         \A v \in Range(syms.addrs) : Fits(v, 16),
         NEW t \in ToSet(toks), t.k = "at"
  PROVE  /\ t.s \in DOMAIN syms.addrs
         /\ Params(ParseLoadi(toks, syms).ins).imm = syms.addrs[t.s]
<1> DEFINE v == IF toks[2].k = "at" THEN Lookup(syms.addrs, toks[2].s) ELSE ParseImm(toks[2], syms)
           made == Make("LOADI", 0, <<ParseReg(toks[1], syms)>>, [imm |-> v])
<1>1. Err.res # "ok"
  BY DEF Err
<1> HIDE DEF made, v
<1>2. Len(toks) = 2 /\ ParseReg(toks[1], syms) # Bad /\ v # Bad /\ ParseLoadi(toks, syms) = Good(made)
  BY <1>1 DEF ParseLoadi, Try, made, v
<1>3. DOMAIN toks = 1 .. 2
  BY <1>2, SeqFacts
<1>4. t = toks[1] \/ t = toks[2]
  BY <1>3 DEF ToSet
<1>5. t # toks[1]
  BY <1>2 DEF ParseReg
<1>6. v = Lookup(syms.addrs, t.s)
  BY <1>4, <1>5 DEF v
<1>7. t.s \in DOMAIN syms.addrs /\ v = syms.addrs[t.s]
  BY <1>2, <1>6 DEF Lookup
<1>8. Fits(v, 16)
  BY <1>7 DEF Range
<1>9. Params(made).imm = v
  BY <1>8, ImmediateSurvives DEF made, Immediate
<1>10. ParseLoadi(toks, syms).ins = made
  BY <1>2 DEF Good
<1> QED
  BY <1>7, <1>9, <1>10

LEMMA JumpsAre ==
  ASSUME LoadInv, Assembled, DataWhereSaid
  PROVE  JumpsLand
<1> SUFFICES ASSUME stage = "loaded", ~(file # NoFile /\ file.damaged), NEW k \in DOMAIN prog
             PROVE  LET line == task.source[LineOf(k)]
                        name == line.toks[Len(line.toks)].s
                        at == {i \in DOMAIN task.source : Opens(i) /\ task.source[i].label = name}
                    IN  /\ prog[k].op \in Jumping /\ Cardinality(at) = 1 =>
                          Params(prog[k]).imm =
                            ProgramBase + InstrSize * Cardinality({i \in CodeLines : \E l \in at : i < l})
                        /\ prog[k].op = "LOADI" /\ pc = ProgramBase => \A t \in ToSet(line.toks) : t.k = "at" =>
                             \E b \in ToSet(asm.blobs) : b.name = t.s /\
                               (BlobBytes(b) > 0 => data[Params(prog[k]).imm] = <<t.s, 0>>)
  BY DEF JumpsLand
<1> DEFINE source == task.source
           n == Len(source)
           line == source[LineOf(k)]
           toks == line.toks
           syms == asm.syms
           name == toks[Len(toks)].s
           at == {i \in DOMAIN source : Opens(i) /\ source[i].label = name}
           parsed == ParseLine(line.op, toks, syms)
<1>1. asm.res = "ok" /\ prog = asm.instrs
  BY DEF Assembled
<1>2. Landed(n)
  BY <1>1, LandedIs
<1>3. /\ n \in Nat /\ IsSeq(source) /\ DOMAIN source = 1 .. n /\ \A i \in 1 .. n : LineOK(source[i])
      /\ LineOf(k) \in CodeLines /\ parsed.res = "ok" /\ prog[k] = parsed.ins
      /\ \A x \in DOMAIN syms.labels : \E l \in 1 .. n :
           Opens(l) /\ source[l].label = x /\ syms.labels[x] = ProgramBase + Count(l) * InstrSize
      /\ syms.addrs = [x \in {b.name : b \in ToSet(asm.blobs)} |-> syms.addrs[x]]
      /\ SectionOK(asm)
      /\ \A v \in Range(syms.labels) \cup Range(syms.addrs) : Fits(v, 16)
  BY <1>1, <1>2 DEF Landed
<1>4. IsSeq(toks)
  <2>1. LineOf(k) \in DOMAIN source /\ line.kind = "code"
    BY <1>3 DEF CodeLines, Opens
  <2> QED
    BY <1>3, <2>1 DEF LineOK
<1>5. prog[k].op \in Immediate => line.op = prog[k].op
  BY <1>3, ImmediateLine
<1> HIDE DEF syms, n, source
<1>6. ASSUME prog[k].op \in Jumping, Cardinality(at) = 1
      PROVE  Params(prog[k]).imm = ProgramBase + InstrSize * Cardinality({i \in CodeLines : \E l \in at : i < l})
  <2> HIDE DEF line
  <2>1. line.op \in Jumping /\ parsed = ParseJump(line.op, toks, syms)
    BY <1>5, <1>6, LineIs DEF Immediate
  <2>2. name \in DOMAIN syms.labels /\ Params(prog[k]).imm = syms.labels[name]
    <3>1. name = Last(toks).s
      BY DEF Last
    <3>2. ParseJump(line.op, toks, syms).res = "ok" /\ \A v \in Range(syms.labels) : Fits(v, 16)
      BY <1>3, <2>1
    <3> HIDE DEF name, toks, parsed
    <3>3. /\ Last(toks).s \in DOMAIN syms.labels
          /\ Params(ParseJump(line.op, toks, syms).ins).imm = syms.labels[Last(toks).s]
      BY <2>1, <3>2, JumpMeans
    <3> QED
      BY <1>3, <2>1, <3>1, <3>3
  <2> HIDE DEF name
  <2>3. PICK l \in 1 .. n : Opens(l) /\ source[l].label = name /\ syms.labels[name] = ProgramBase + Count(l) * InstrSize
    BY <1>3, <2>2
  <2>4. l \in at
    BY <1>3, <2>3
  <2>5. IsFiniteSet(at)
    <3>1. at \in SUBSET (1 .. n)
      BY <1>3
    <3> HIDE DEF at
    <3>2. 1 \in Int /\ n \in Int
      BY <1>3
    <3>3. IsFiniteSet(1 .. n)
      BY ONLY <3>2, FS_Interval
    <3> QED
      BY ONLY <3>1, <3>3, FS_Subset
  <2> HIDE DEF at
  <2>6. at = {l}
    <3>1. PICK x : at = {x}
      BY <1>6, <2>5, FS_Singleton
    <3> QED
      BY <2>4, <3>1
  <2>7. {i \in CodeLines : \E j \in at : i < j} = LinesAbove(l)
    BY <2>6 DEF LinesAbove
  <2>8. Count(l) \in Nat
    <3>1. IsSeq(task.source) /\ l \in 1 .. Len(task.source)
      BY <1>3, <2>3 DEF n, source
    <3> QED
      BY ONLY <3>1, CountIs
  <2>9. Cardinality({i \in CodeLines : \E j \in at : i < j}) = Count(l)
    BY <2>7 DEF Count
  <2>10. Count(l) * InstrSize = InstrSize * Count(l)
    BY <2>8 DEF InstrSize
  <2> QED
    BY <2>2, <2>3, <2>9, <2>10, Zenon
<1>7. ASSUME prog[k].op = "LOADI", NEW t \in ToSet(toks), t.k = "at"
      PROVE  \E b \in ToSet(asm.blobs) : b.name = t.s /\
               (BlobBytes(b) > 0 => data[Params(prog[k]).imm] = <<t.s, 0>>)
  <2> HIDE DEF line
  <2>1. line.op = "LOADI" /\ parsed = ParseLoadi(toks, syms)
    BY <1>5, <1>7, LineIs DEF Immediate
  <2>2. t.s \in DOMAIN syms.addrs /\ Params(prog[k]).imm = syms.addrs[t.s]
    BY <1>3, <1>4, <1>7, <2>1, LoadiMeans
  <2>3. PICK b \in ToSet(asm.blobs) : b.name = t.s
    BY <1>3, <2>2
  <2>4. PICK i \in DOMAIN asm.blobs : asm.blobs[i] = b
    BY <2>3 DEF ToSet
  <2>5. file = NoFile
    <3>1. asm.blobs # <<>>
      BY <2>4
    <3> QED
      BY <1>1, <3>1 DEF Assembled
  <2>6. BlobBytes(b) \in Nat
    BY <1>3, <2>4, BlobsSized
  <2>7. BlobBytes(b) > 0 => 0 \in 0 .. (BlobBytes(b) - 1)
    BY <2>6
  <2>8. BlobBytes(b) > 0 => data[asm.syms.addrs[b.name] + 0] = <<b.name, 0>>
    BY <2>4, <2>5, <2>7 DEF DataWhereSaid
  <2>9. syms.addrs[t.s] \in Nat
    BY <1>3, <2>2 DEF Range, Fits
  <2>10. asm.syms.addrs[b.name] + 0 = syms.addrs[t.s]
    BY <2>3, <2>9 DEF syms
  <2> QED
    BY <2>2, <2>3, <2>8, <2>10
<1> QED
  BY <1>6, <1>7 DEF source

\* A jump goes where its label stands and a name of the data section to its
\* first byte: what was loaded agrees with the source line by line (the two
\* passes of assemble_full and data_layout_addrs_at of opcodes.rs).
THEOREM JumpsLandRight == Spec => []JumpsLand
<1>1. LoadInv /\ Assembled /\ DataWhereSaid => JumpsLand
  BY JumpsAre
<1> QED
  BY <1>1, LoadInvariant, AssembledInvariant, DataStaysWhereSaid, PTL
=============================================================================
