------------------------------ MODULE Tensors ------------------------------
(***************************************************************************)
(* Tensors and the opcodes that give a tensor a new shape or order:        *)
(* SORT, TOPK, ARGMAX, REDUCE, BROADCAST, PAD, TILE, TRANSPOSE, CONCAT,    *)
(* SLICE, RESHAPE, CAST, QUANTIZE, DEQUANT, the elementwise ones.          *)
(*                                                                         *)
(* A tensor holds its elements in a sequence, the last axis fastest, and   *)
(* the handlers of vm.rs do all their work on flat positions in it.  The   *)
(* definitions below keep that arithmetic.  Elements are integers or NaN;  *)
(* what a floating-point kernel computes is Kernel(name, arguments).       *)
(***************************************************************************)
EXTENDS Integers, SequencesExt

CONSTANTS NaN,            \* the element that is not a number
          Kernel(_, _),   \* a numeric kernel: its name, its arguments
          QBlock,         \* elements in a quantised block (32 in the code)
          SuperBlock      \* elements in a block of the Q4_K decoder (256)

ASSUME TensorConstants ==
  NaN \in Int /\ QBlock \in Nat \ {0} /\ SuperBlock \in Nat \ {0}

Numel(shape) ==
  LET upTo[k \in 0..Len(shape)] == IF k = 0 THEN 1 ELSE upTo[k - 1] * shape[k]
  IN  upTo[Len(shape)]

Plain == {"F32", "F16", "BF16", "I8", "U8"}
Width(dtype) == CASE dtype = "F32" -> 4
                  [] dtype \in {"F16", "BF16"} -> 2
                  [] OTHER -> 1

(***************************************************************************)
(* What a handler computes: a tensor to allocate, an error, or a panic.    *)
(***************************************************************************)
Tensor(shape, dtype, data) ==
  [shape |-> shape, dtype |-> dtype, data |-> data, sparse |-> FALSE]
SparseOf(shape, dtype, stored) ==
  [shape |-> shape, dtype |-> dtype, data |-> [j \in 1..stored |-> 0], sparse |-> TRUE]
Ok(shape, dtype, data) == [res |-> "ok", out |-> Tensor(shape, dtype, data)]
Fail  == [res |-> "err"]
Panic == [res |-> "panic"]
When(guard, result) == IF guard THEN result ELSE Fail

At(data, i) == data[i + 1]
Flat(n, f(_)) == [j \in 1..n |-> f(j - 1)]

\* A tensor takes its bytes, in a block of whole steps of 64.
QuantBytes(dtype) == IF dtype = "Q4_0" THEN 18 ELSE 34
TensorBytes(t) ==
  CASE t.sparse -> Max({64, Len(t.data) * (Width(t.dtype) + 4) + (t.shape[1] + 1) * 4})
    [] ~t.sparse /\ t.dtype \in Plain -> Numel(t.shape) * Width(t.dtype)
    [] OTHER -> (Numel(t.shape) \div QBlock) * QuantBytes(t.dtype)
BlockBytes(t) == ((TensorBytes(t) + 63) \div 64) * 64

\* read_f32_tensor: F32 as it is, quantised blocks decoded on the way; Q8_0 has
\* no case of its own and goes through the decoder of Q4_K.  Of any other
\* tensor it takes four bytes an element, if the block has as many: the bytes
\* of the narrow elements, and zeros, as in the block of a sparse one.
Readable(t) ==
  CASE t.dtype = "Q4_0" -> Numel(t.shape) % QBlock = 0
    [] t.dtype = "Q8_0" -> Numel(t.shape) % SuperBlock = 0
    [] OTHER -> 4 * Numel(t.shape) <= BlockBytes(t)
Decoded(codec, t, block) ==
  Flat(Numel(t.shape), LAMBDA j : Kernel(codec, <<At(t.data, j \div block), j % block>>))
Floats(t) ==
  CASE t.sparse -> Flat(Numel(t.shape), LAMBDA j : 0)
    [] ~t.sparse /\ t.dtype = "F32" -> t.data
    [] ~t.sparse /\ t.dtype = "Q4_0" -> Decoded("dequant", t, QBlock)
    [] ~t.sparse /\ t.dtype = "Q8_0" -> Decoded("q4k", t, QBlock)
    [] OTHER -> Flat(Numel(t.shape), LAMBDA j : Kernel("word", <<j>> \o t.data))

\* Most handlers refuse a sparse tensor before they read.
ReadableDense(t) == ~t.sparse /\ Readable(t)
AsF32(t) == Tensor(t.shape, "F32", Floats(t))

\* read_dense_f32
DenseF32(t) == ~t.sparse /\ t.dtype = "F32" /\ Numel(t.shape) > 0
Flatly(t)   == ~t.sparse /\ t.dtype \in Plain

\* axis_decomp: the sizes before, at and after an axis.
HasAxis(t, axis) == axis < Len(t.shape)
Outer(t, axis) == Numel(SubSeq(t.shape, 1, axis))
Dim(t, axis)   == t.shape[axis + 1]
Inner(t, axis) == Numel(SubSeq(t.shape, axis + 2, Len(t.shape)))

\* The elements of t along an axis, at outer position o and inner position i.
Lane(t, axis, o, i) ==
  Flat(Dim(t, axis), LAMBDA k :
         At(t.data, (o * Dim(t, axis) + k) * Inner(t, axis) + i))

\* Each lane replaced by F of it, a lane of n elements.
AlongLanes(t, axis, n, F(_)) ==
  LET inner == Inner(t, axis)
  IN  Ok([t.shape EXCEPT ![axis + 1] = n], t.dtype,
         Flat(Outer(t, axis) * n * inner, LAMBDA j :
                At(F(Lane(t, axis, j \div (n * inner), j % inner)),
                   (j \div inner) % n)))

---------------------------------------------------------------------------
\* lane_cmp: NaN above every number; equal values keep their order in both
\* directions.  Positions start at 0.
Above(x, y) == x # y /\ (x = NaN \/ (y # NaN /\ x > y))

\* Mutant of Precedes: descending is ascending read backwards.
PrecedesBackwards(lane, desc, i, j) ==
  LET x == At(lane, i) y == At(lane, j)
  IN  IF desc THEN Above(x, y) \/ (x = y /\ j < i) ELSE Above(y, x) \/ (x = y /\ i < j)

Precedes(lane, desc, i, j) ==
  LET x == At(lane, i) y == At(lane, j)
  IN  IF x = y THEN i < j
      ELSE IF desc THEN Above(x, y) ELSE Above(y, x)

\* The positions of a lane, sorted.
Ranking(lane, desc) ==
  LET P == 0..(Len(lane) - 1)
  IN  Flat(Len(lane), LAMBDA k :
        CHOOSE i \in P : Cardinality({j \in P : Precedes(lane, desc, j, i)}) = k)

Sort(t, axis, order) ==
  When(order \in {0, 1} /\ DenseF32(t) /\ HasAxis(t, axis),
    AlongLanes(t, axis, Dim(t, axis), LAMBDA lane :
      LET r == Ranking(lane, order = 1)
      IN  [k \in DOMAIN lane |-> At(lane, r[k])]))

TopK(t, axis, k, largest, sorted) ==
  When(largest <= 1 /\ sorted <= 1 /\ k # 0 /\ DenseF32(t) /\ HasAxis(t, axis)
         /\ k <= Dim(t, axis),
    AlongLanes(t, axis, 2 * k, LAMBDA lane :
      LET best == SubSeq(Ranking(lane, largest # 0), 1, k)
          sel  == IF sorted = 0 THEN SetToSortSeq(ToSet(best), <) ELSE best
      IN  [j \in 1..k |-> At(lane, sel[j])] \o sel))

\* NaN is skipped, unless the whole lane is NaN.
ArgMax(t, axis) ==
  When(DenseF32(t) /\ HasAxis(t, axis),
    AlongLanes(t, axis, 1, LAMBDA lane :
      LET P == 0..(Len(lane) - 1)
          numbers == {k \in P : At(lane, k) # NaN}
          best == {k \in numbers : \A j \in numbers : At(lane, j) <= At(lane, k)}
      IN  IF numbers = {} THEN <<0>> ELSE <<Min(best)>>))

\* REDUCE: sums and products propagate NaN, MAX and MIN skip it.
Plus(x, y)  == IF NaN \in {x, y} THEN NaN ELSE x + y
Times(x, y) == IF NaN \in {x, y} THEN NaN ELSE x * y
Numbers(lane) == ToSet(lane) \ {NaN}
Folded(op, lane) ==
  CASE op = "SUM"  -> FoldLeft(Plus, 0, lane)
    [] op = "MEAN" -> Kernel("mean", <<FoldLeft(Plus, 0, lane), Len(lane)>>)
    [] op = "PROD" -> FoldLeft(Times, 1, lane)
    [] OTHER -> IF Numbers(lane) = {} THEN NaN
                ELSE IF op = "MAX" THEN Max(Numbers(lane)) ELSE Min(Numbers(lane))

NoAxis == 255
Reduce(t, op, axis) ==
  When(DenseF32(t),
    IF axis = NoAxis THEN Ok(<<1>>, t.dtype, <<Folded(op, t.data)>>)
    ELSE When(HasAxis(t, axis),
           AlongLanes(t, axis, 1, LAMBDA lane : <<Folded(op, lane)>>)))

Pad(t, axis, before, after, value) ==
  When(DenseF32(t) /\ HasAxis(t, axis) /\ (before # 0 \/ after # 0),
    AlongLanes(t, axis, Dim(t, axis) + before + after, LAMBDA lane :
      [k \in 1..before |-> value] \o lane \o [k \in 1..after |-> value]))

Tile(t, axis, reps) ==
  When(reps # 0 /\ DenseF32(t) /\ HasAxis(t, axis),
    AlongLanes(t, axis, Dim(t, axis) * reps, LAMBDA lane :
      Flat(Len(lane) * reps, LAMBDA k : At(lane, k % Len(lane)))))

\* SOFTMAX is over the last axis by default; a temperature is positive.
Softmax(t, axisP, temp) ==
  LET axis == IF axisP = NoAxis THEN Len(t.shape) - 1 ELSE axisP
  IN  When(temp > 0 /\ DenseF32(t) /\ t.shape # <<>> /\ HasAxis(t, axis),
        AlongLanes(t, axis, Dim(t, axis), LAMBDA lane :
          [k \in DOMAIN lane |-> Kernel("softmax", <<temp, lane[k]>> \o lane)]))

---------------------------------------------------------------------------
\* BROADCAST.  The strides are products of the TARGET's dimensions, and 0
\* where the source has the dimension 1; a position outside the source is an
\* index out of bounds.
BroadcastDim(t, target, i) ==
  LET off == Len(target) - Len(t.shape)
  IN  IF i <= off THEN 1 ELSE t.shape[i - off]
BroadcastStride(t, target, i) ==
  LET d == BroadcastDim(t, target, i)
  IN  IF target[i] = d /\ d # 1 THEN Numel(SubSeq(target, i + 1, Len(target)))
      ELSE 0

\* Mutant of Coordinate: one axis too many in the stride.
CoordinateOff(shape, j, i) ==
  (j \div Numel(SubSeq(shape, i, Len(shape)))) % shape[i]

Coordinate(shape, j, i) ==
  (j \div Numel(SubSeq(shape, i + 1, Len(shape)))) % shape[i]
BroadcastFrom(t, target, j) ==
  FoldLeft(LAMBDA sum, i : sum + Coordinate(target, j, i) * BroadcastStride(t, target, i),
           0, [i \in 1..Len(target) |-> i])

Broadcast(t, target) ==
  LET n == Numel(target)
  IN  When(/\ Len(target) \in 1..4 /\ 0 \notin ToSet(target)
           /\ DenseF32(t) /\ Len(target) >= Len(t.shape)
           /\ \A i \in 1..Len(target) : BroadcastDim(t, target, i) \in {1, target[i]},
        IF \E j \in 0..(n - 1) : BroadcastFrom(t, target, j) >= Len(t.data)
        THEN Panic
        ELSE Ok(target, t.dtype, Flat(n, LAMBDA j : At(t.data, BroadcastFrom(t, target, j)))))

\* TRANSPOSE: perm[i] is the source axis (from 0) that becomes axis i.
Transpose(t, perm) ==
  LET rank == Len(t.shape)
      shape == [i \in 1..rank |-> t.shape[perm[i] + 1]]
      stride(a) == Numel(SubSeq(t.shape, a + 2, rank))
      from(j) == FoldLeft(LAMBDA sum, i : sum + Coordinate(shape, j, i) * stride(perm[i]),
                          0, [i \in 1..rank |-> i])
  IN  When(DenseF32(t) /\ rank \in 1..4 /\ Len(perm) = rank
             /\ ToSet(perm) = 0..(rank - 1),
        Ok(shape, t.dtype, Flat(Len(t.data), LAMBDA j : At(t.data, from(j)))))

\* CONCAT copies a chunk of each operand for every outer position.
Concat(a, b, axis) ==
  LET chunkA == Dim(a, axis) * Inner(a, axis)
      chunkB == Dim(b, axis) * Inner(b, axis)
      chunk  == chunkA + chunkB
  IN  When(/\ ~a.sparse /\ ~b.sparse /\ a.dtype = b.dtype
           /\ Len(a.shape) = Len(b.shape) /\ HasAxis(a, axis)
           /\ \A i \in DOMAIN a.shape : i # axis + 1 => a.shape[i] = b.shape[i]
           /\ Flatly(a) /\ Flatly(b),
        Ok([a.shape EXCEPT ![axis + 1] = @ + b.shape[axis + 1]], a.dtype,
           Flat(Outer(a, axis) * chunk, LAMBDA j :
             LET o == j \div chunk  r == j % chunk
             IN  IF r < chunkA THEN At(a.data, o * chunkA + r)
                 ELSE At(b.data, o * chunkB + r - chunkA))))

\* SLICE takes a flat window; RESHAPE keeps the data under another shape.
Slice(t, start, len) ==
  When(len # 0 /\ start + len <= Numel(t.shape) /\ ReadableDense(t),
    Ok(<<1, len>>, "F32", SubSeq(Floats(t), start + 1, start + len)))
Reshape(t, dims) ==
  When(/\ Len(dims) \in 1..4 /\ 0 \notin ToSet(dims)
       /\ ~t.sparse /\ Numel(dims) = Numel(t.shape) /\ Flatly(t),
    Ok(dims, t.dtype, t.data))

---------------------------------------------------------------------------
\* Elementwise opcodes.
Unary(t, name) ==
  When(DenseF32(t), Ok(t.shape, "F32", [j \in DOMAIN t.data |-> Kernel(name, <<t.data[j]>>)]))
Clip(t, min, max) ==
  When(NaN \notin {min, max} /\ min <= max /\ DenseF32(t),
    Ok(t.shape, "F32", [j \in DOMAIN t.data |->
       CASE t.data[j] = NaN -> NaN [] t.data[j] < min -> min
         [] t.data[j] > max -> max [] OTHER -> t.data[j]]))
Binary(a, b, op(_, _)) ==
  When(a.shape = b.shape /\ Readable(a) /\ Readable(b),
    Ok(a.shape, "F32", Flat(Numel(a.shape), LAMBDA j : op(At(Floats(a), j), At(Floats(b), j)))))
Add(a, b) == When(~a.sparse /\ ~b.sparse, Binary(a, b, Plus))
Mul(a, b) == Binary(a, b, Times)

\* CAST: between F32 and another plain type, never to the same one.
Cast(t, dst) ==
  When(/\ dst \in Plain /\ Flatly(t) /\ t.dtype # dst
       /\ "F32" \in {t.dtype, dst} /\ Numel(t.shape) # 0,
    Ok(t.shape, dst, [j \in DOMAIN t.data |-> Kernel(dst, <<t.data[j]>>)]))

\* QUANTIZE and DEQUANT: a block of QBlock elements is one value.
Quantize(t, q) ==
  When(/\ q \in {"Q4_0", "Q8_0"} /\ DenseF32(t)
       /\ Numel(t.shape) % QBlock = 0 /\ NaN \notin ToSet(t.data),
    Ok(t.shape, q, Flat(Len(t.data) \div QBlock, LAMBDA k :
       Kernel(q, SubSeq(t.data, k * QBlock + 1, (k + 1) * QBlock)))))
Dequant(t) ==
  LET block == IF t.dtype \in {"F32", "F16"} THEN 1 ELSE QBlock
  IN  When(/\ ~t.sparse /\ t.dtype \in {"F32", "F16", "Q4_0", "Q8_0"}
           /\ Numel(t.shape) # 0 /\ Numel(t.shape) % block = 0,
        Ok(t.shape, "F32",
           IF t.dtype = "F32" THEN t.data ELSE Decoded("dequant", t, block)))
=============================================================================
