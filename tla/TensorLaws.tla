----------------------------- MODULE TensorLaws -----------------------------
(***************************************************************************)
(* What the opcodes promise of a tensor they make, said in coordinates.    *)
(* The handlers, and Tensors and TensorMath with them, work on flat        *)
(* positions; nothing below uses a stride, an inner size or a ranking.     *)
(* last holds the operands, the fields and the result of the last step.    *)
(***************************************************************************)
EXTENDS Machine

Coords(shape) ==
  {c \in [DOMAIN shape -> 0..Max(ToSet(shape) \cup {0})] : \A i \in DOMAIN shape : c[i] < shape[i]}
FlatAt(shape, c) == FoldLeft(LAMBDA j, i : j * shape[i] + c[i], 0, [i \in DOMAIN shape |-> i])
Val(t, c) == t.data[FlatAt(t.shape, c) + 1]

Did(ops) == last.op \in ops
X   == last.args[1]
Y   == last.args[2]
Z   == last.args[3]
Out == last.out
Ax  == last.p.axis + 1

\* The values of t along the axis ax through c.
Along(t, c, ax) == [k \in 1..t.shape[ax] |-> Val(t, [c EXCEPT ![ax] = k - 1])]
\* One coordinate for every line along the axis of the instruction.
LinesOf(t) == {c \in Coords(t.shape) : c[Ax] = 0}

AllF32(args) == \A t \in ToSet(args) : t.dtype = "F32" /\ ~t.sparse

Exceeds(x, y) == y # NaN /\ (x = NaN \/ x > y)
Occurs(x, line) == Cardinality({i \in DOMAIN line : line[i] = x})
Distinct(line) == \A i, j \in DOMAIN line : line[i] = line[j] => i = j

\* The chosen are the best of all, and of equals the ones that come first;
\* worse(x, y) says that x is to come after y.
Chosen(all, chosen, worse(_, _)) ==
  /\ Distinct(chosen)
  /\ \A i \in ToSet(chosen), j \in (0..(Len(all) - 1)) \ ToSet(chosen) :
       ~worse(all[i + 1], all[j + 1]) /\ (worse(all[j + 1], all[i + 1]) \/ i < j)
InTurn(all, chosen, worse(_, _)) ==
  \A r, s \in DOMAIN chosen : r < s =>
    LET x == all[chosen[r] + 1]  y == all[chosen[s] + 1]
    IN  ~worse(x, y) /\ (worse(y, x) \/ chosen[r] < chosen[s])

SortLaw ==
  Did({"SORT"}) => \A c \in LinesOf(X) :
    LET x == Along(X, c, Ax)  y == Along(Out, c, Ax)
    IN  /\ \A v \in ToSet(x) : Occurs(v, x) = Occurs(v, y)
        /\ \A i, j \in DOMAIN y : i < j =>
             IF last.p.order = 0 THEN ~Exceeds(y[i], y[j]) ELSE ~Exceeds(y[j], y[i])

TopKLaw ==
  Did({"TOPK"}) => \A c \in LinesOf(X) :
    LET x == Along(X, c, Ax)  y == Along(Out, c, Ax)  k == last.p.k
        values == SubSeq(y, 1, k)  at == SubSeq(y, k + 1, 2 * k)
        worse(u, v) == IF last.p.largest = 1 THEN Exceeds(v, u) ELSE Exceeds(u, v)
    IN  /\ \A r \in 1..k : values[r] = x[at[r] + 1]
        /\ Chosen(x, at, worse)
        /\ IF last.p.sorted = 1 THEN InTurn(x, at, worse)
           ELSE \A r, s \in 1..k : r < s => at[r] < at[s]

ArgMaxLaw ==
  Did({"ARGMAX"}) => \A c \in LinesOf(Out) :
    LET x == Along(X, c, Ax)  best == Val(Out, c) + 1
    IN  IF ToSet(x) = {NaN} THEN best = 1
        ELSE /\ x[best] # NaN
             /\ \A i \in DOMAIN x : x[i] # NaN => x[i] < x[best] \/ (x[i] = x[best] /\ best <= i)

\* DISTANCE and RAG_SEARCH give distances, then the rows or ids they are of.
Closer(u, v) == u > v
DistanceLaw ==
  Did({"DISTANCE"}) /\ last.p.topk > 0 /\ AllF32(<<X, Y>>) =>
    LET k == Len(Out.data) \div 2
        row(r) == [i \in DOMAIN X.data |-> Val(Y, <<r - 1, i - 1>>)]
        all == [r \in 1..Y.shape[1] |-> MetricDist(Metrics[last.p.metric + 1], X.data, row(r))]
        at == SubSeq(Out.data, k + 1, 2 * k)
    IN  /\ k = Min({last.p.topk, Y.shape[1]})
        /\ Chosen(all, at, Closer) /\ InTurn(all, at, Closer)
        /\ \A r \in 1..k : Out.data[r] = all[at[r] + 1]

SearchLaw ==
  Did({"RAG_SEARCH"}) =>
    LET k == Len(Out.data) \div 2
        all == [i \in DOMAIN Y.ids |-> <<MetricDist(RagMetrics[last.p.metric + 1], X.data, Y.vecs[i]), Y.ids[i]>>]
        found == [r \in 1..k |-> <<Out.data[r], Out.data[k + r]>>]
        farther(u, v) == u[1] > v[1] \/ (u[1] = v[1] /\ u[2] > v[2])
    IN  /\ k = last.p.topk /\ \A r \in 1..k : Occurs(found[r], found) <= Occurs(found[r], all)
        /\ \A r, s \in 1..k : r < s => ~farther(found[r], found[s])
        /\ \A r \in 1..k, i \in DOMAIN all : farther(found[r], all[i]) => all[i] \in ToSet(found)

\* An order, a selection, a nearest neighbour: whatever NaNs and ties a tensor
\* has, the result is a selection of it, the best one, in its order, and of
\* two equals the one with the lower index.
OrderLaws == SortLaw /\ TopKLaw /\ ArgMaxLaw /\ DistanceLaw /\ SearchLaw

---------------------------------------------------------------------------
FullLaw ==
  Did(Reshaping \cup Combining \cup {"ATTN"}) /\ Out.dtype \in Plain => Len(Out.data) = Numel(Out.shape)

TransposeLaw ==
  Did({"TRANSPOSE"}) =>
    LET perm == Axes(last.p)
        back(c) == [a \in DOMAIN X.shape |-> c[CHOOSE i \in DOMAIN perm : perm[i] = a - 1]]
    IN  /\ \A i \in DOMAIN perm : Out.shape[i] = X.shape[perm[i] + 1]
        /\ \A c \in Coords(Out.shape) : Val(Out, c) = Val(X, back(c))

BroadcastLaw ==
  Did({"BROADCAST"}) =>
    LET off == Len(Out.shape) - Len(X.shape)
        back(c) == [a \in DOMAIN X.shape |-> IF X.shape[a] = 1 THEN 0 ELSE c[a + off]]
    IN  Out.shape = DimsOf(last.p) /\ \A c \in Coords(Out.shape) : Val(Out, c) = Val(X, back(c))

PadLaw ==
  Did({"PAD"}) => \A c \in Coords(Out.shape) :
    LET k == c[Ax] - last.p.before
    IN  Val(Out, c) = IF k \in 0..(X.shape[Ax] - 1) THEN Val(X, [c EXCEPT ![Ax] = k]) ELSE last.p.value

TileLaw ==
  Did({"TILE"}) =>
    /\ Out.shape = [X.shape EXCEPT ![Ax] = @ * last.p.reps]
    /\ \A c \in Coords(X.shape), r \in 0..(last.p.reps - 1) :
         Val(Out, [c EXCEPT ![Ax] = @ + r * X.shape[Ax]]) = Val(X, c)

ConcatLaw ==
  Did({"CONCAT"}) => \A c \in Coords(Out.shape) :
    Val(Out, c) = IF c[Ax] < X.shape[Ax] THEN Val(X, c) ELSE Val(Y, [c EXCEPT ![Ax] = @ - X.shape[Ax]])

ViewLaw ==
  /\ Did({"RESHAPE"}) => Out.data = X.data /\ Out.shape = DimsOf(last.p)
  /\ Did({"SLICE"}) /\ X.dtype = "F32" =>
       \A k \in 0..(last.p.len - 1) : Out.data[k + 1] = X.data[last.p.start + k + 1]

\* A tensor is as long as its shape says, and every element of a moved,
\* stretched, padded, tiled or joined tensor is the one that the definition of
\* the opcode puts at its coordinates.
ShapeLaws ==
  FullLaw /\ TransposeLaw /\ BroadcastLaw /\ PadLaw /\ TileLaw /\ ConcatLaw /\ ViewLaw

---------------------------------------------------------------------------
Sum0(S, f(_)) == MapThenFoldSet(Plus, 0, f, LAMBDA T : CHOOSE x \in T : TRUE, S)

GatherLaw ==
  Did({"GATHER"}) /\ last.p.mode = 0 /\ AllF32(<<X, Y>>) => \A c \in Coords(Out.shape) :
    Val(Out, c) = Val(X, [c EXCEPT ![Ax] = Y.data[@ + 1]])

\* Every row of the accumulator takes what the indices send to it, no other.
ScatterLaw ==
  Did({"GATHER"}) /\ last.p.mode > 0 /\ AllF32(<<X, Y, Z>>) => \A c \in Coords(Out.shape) :
    LET sent == {k \in DOMAIN Y.data : Y.data[k] = c[Ax]}
        value(k) == Val(X, [c EXCEPT ![Ax] = k - 1])
        all == {value(k) : k \in sent} \cup {Val(Z, c)}
    IN  Val(Out, c) = IF last.p.mode = 1 THEN Plus(Val(Z, c), Sum0(sent, value))
                      ELSE IF all = {NaN} THEN NaN ELSE Max(all \ {NaN})

MatVecLaw ==
  Did({"MATVEC"}) /\ AllF32(<<X, Y>>) => \A c \in Coords(Out.shape) :
    Val(Out, c) = Sum0(0..(X.shape[2] - 1), LAMBDA k : Times(Val(X, <<c[1], k>>), Val(Y, <<k, c[2]>>)))

\* A code names the nearest row of its codebook, the first of several; it
\* decodes to that row.
PqLaw ==
  LET n == last.p.nsub
      K0 == Y.shape[1] \div n
      sub(d, s) == LET w == Len(d) \div n IN [i \in 1..w |-> d[s * w + i]]
      word(s, c) == [i \in 1..Y.shape[2] |-> Val(Y, <<s * K0 + c, i - 1>>)]
      far(u, v) == Sum0(DOMAIN u, LAMBDA i : (u[i] - v[i]) * (u[i] - v[i]))
      worse(u, v) == u > v
  IN  /\ Did({"PQ_ENCODE"}) => \A s \in 0..(n - 1) :
           Chosen([c \in 1..K0 |-> far(sub(X.data, s), word(s, c - 1))], <<Out.data[s + 1]>>, worse)
      /\ Did({"PQ_DECODE"}) => \A s \in 0..(n - 1) : sub(Out.data, s) = word(s, X.data[s + 1])

EmbedLaw ==
  Did({"EMBED_LOOKUP"}) => \A c \in 0..(Y.shape[2] - 1) :
    Val(Out, <<0, c>>) =
      Kernel("mean", <<Sum0(DOMAIN X.data, LAMBDA k : Val(Y, <<X.data[k], c>>)), Len(X.data)>>)

\* An index that a tensor holds reaches the row it names, whatever the axis,
\* the rank or the number of codebooks.
IndexLaws ==
  /\ GatherLaw /\ ScatterLaw /\ MatVecLaw /\ EmbedLaw
  /\ Did({"PQ_ENCODE", "PQ_DECODE"}) => PqLaw
=============================================================================
