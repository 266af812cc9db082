----------------------------- MODULE TensorMath -----------------------------
(***************************************************************************)
(* The opcodes that combine the elements of several tensors: matrix and    *)
(* attention opcodes, lookups by index, distances, product quantisation.   *)
(* Sums and products are exact; roots, exponentials and quotients are      *)
(* Kernels of the exact values they are taken of.                          *)
(***************************************************************************)
EXTENDS Tensors

CONSTANT FMax    \* f32::MAX, the distance of what has no finite one

Rank(t) == Len(t.shape)
Two(t)  == Rank(t) = 2
Rows(t) == t.shape[1]
Cols(t) == t.shape[2]
F32(shape, data) == Ok(shape, "F32", data)
Matrix(m, n, f(_, _)) == Flat(m * n, LAMBDA j : f(j \div n, j % n))
Cell(t, r, c) == At(Floats(t), r * Cols(t) + c)
Sigma(n, f(_)) == FoldLeft(LAMBDA s, k : Plus(s, f(k)), 0, Flat(n, LAMBDA k : k))
Dot(n, f(_), g(_)) == Sigma(n, LAMBDA k : Times(f(k), g(k)))
Finite(data) == NaN \notin ToSet(data)

MatVec(x, w) ==
  When(Two(x) /\ Two(w) /\ Cols(x) = Rows(w) /\ Readable(x) /\ Readable(w),
    F32(<<Rows(x), Cols(w)>>, Matrix(Rows(x), Cols(w), LAMBDA r, c :
      Dot(Cols(x), LAMBDA k : Cell(x, r, k), LAMBDA k : Cell(w, k, c)))))

\* A bias or scale of a matrix: one row, the whole matrix, else the default.
\* NoTensor stands for a register that is absent or names no tensor.
NoTensor == [shape |-> <<>>]
Spread(t, rows, cols, r, c, default) ==
  LET n == IF t = NoTensor THEN 0 ELSE Numel(t.shape)
  IN  CASE n = 0 \/ ~Readable(t) -> default
        [] n = cols -> At(Floats(t), c)
        [] n # cols /\ n = rows * cols -> At(Floats(t), r * cols + c)
        [] OTHER -> default

Norm(x, gamma, beta) ==
  When(Two(x) /\ Readable(x),
    F32(x.shape, Matrix(Rows(x), Cols(x), LAMBDA r, c :
      LET squares == Dot(Cols(x), LAMBDA k : Cell(x, r, k), LAMBDA k : Cell(x, r, k))
          scaled  == Kernel("rms", <<Cell(x, r, c), squares, Cols(x)>>)
      IN  Plus(Times(scaled, Spread(gamma, Rows(x), Cols(x), r, c, 1)),
               Spread(beta, Rows(x), Cols(x), r, c, 0)))))

Ffn(x, w1, w2, b1, b2) ==
  LET m == Rows(x) d == Cols(x) h == Cols(w1) o == Cols(w2)
      gated(r, k) ==
        Kernel("silu", <<Plus(Dot(d, LAMBDA i : Cell(x, r, i), LAMBDA i : Cell(w1, i, k)),
                              Spread(b1, m, h, r, k, 0))>>)
  IN  When(/\ Two(x) /\ Two(w1) /\ Two(w2) /\ Cols(x) = Rows(w1) /\ Cols(w1) = Rows(w2)
           /\ Readable(x) /\ Readable(w1) /\ Readable(w2),
        F32(<<m, o>>, Matrix(m, o, LAMBDA r, c :
          Plus(Dot(h, LAMBDA k : gated(r, k), LAMBDA k : Cell(w2, k, c)),
               Spread(b2, m, o, r, c, 0)))))

\* ATTN on dense tensors indexes two axes before it has looked at the ranks.
Attn(q, k, v) ==
  LET scores(r) == Flat(Rows(k), LAMBDA i :
        Dot(Cols(q), LAMBDA d : Cell(q, r, d), LAMBDA d : Cell(k, i, d)))
      weight(r, i) == Kernel("softmax", <<Cols(q), At(scores(r), i)>> \o scores(r))
  IN  When(Readable(q) /\ Readable(k) /\ Readable(v),
        IF \E t \in {q, k, v} : Rank(t) < 2 THEN Panic
        ELSE When(/\ Cols(q) = Cols(k) /\ Rows(k) = Rows(v)
                  /\ \A t \in {q, k, v} : Numel(t.shape) = Rows(t) * Cols(t),
               F32(<<Rows(q), Cols(v)>>, Matrix(Rows(q), Cols(v), LAMBDA r, c :
                 Dot(Rows(k), LAMBDA i : weight(r, i), LAMBDA i : Cell(v, i, c))))))

\* ATTN where one of the three is sparse: the others are made sparse first, and
\* two axes must hold all they have.  The result has room for a hundredth of its
\* elements at least; how many are not zero is left open.
SparseAttn(q, k, v) ==
  LET n == Rows(q) * Cols(v)
      result(stored) == [res |-> "ok", out |-> SparseOf(<<Rows(q), Cols(v)>>, "F32", stored)]
  IN  IF \E t \in {q, k, v} : Rank(t) < 2 \/ Numel(t.shape) # Rows(t) * Cols(t) THEN {Panic}
      ELSE IF Cols(q) = Cols(k) /\ Rows(k) = Rows(v) THEN {result(stored) : stored \in (n \div 100)..n}
      ELSE {Fail}

\* ROPE turns the pairs (i, i + half) of every head.
Rope(t, pos, headDim, heads) ==
  LET n == Numel(t.shape)  half == headDim \div 2
      twin(j) == IF j % headDim < half THEN j + half ELSE j - half
      side(j) == IF j % headDim < half THEN "rope-left" ELSE "rope-right"
  IN  When(headDim % 2 = 0 /\ n % (heads * headDim) = 0 /\ Readable(t),
        F32(t.shape, Flat(n, LAMBDA j :
          Kernel(side(j), <<pos, (j % headDim) % half, At(Floats(t), j), At(Floats(t), twin(j))>>))))

---------------------------------------------------------------------------
\* Lookups.  EMBED wraps a token around the table; EMBED_LOOKUP averages rows
\* and refuses what is no row.
Embed(token, table) ==
  When(Two(table) /\ ReadableDense(table),
    IF Rows(table) = 0 THEN Panic
    ELSE F32(<<1, Cols(table)>>, Flat(Cols(table), LAMBDA c :
           Cell(table, token % Rows(table), c))))

IsIndex(x) == x # NaN /\ x >= 0
EmbedLookup(ids, table) ==
  When(/\ DenseF32(ids) /\ DenseF32(table) /\ Two(table)
       /\ \A x \in ToSet(ids.data) : IsIndex(x) /\ x < Rows(table),
    F32(<<1, Cols(table)>>, Flat(Cols(table), LAMBDA c :
      Kernel("mean", <<Sigma(Len(ids.data), LAMBDA k : Cell(table, At(ids.data, k), c)),
                       Len(ids.data)>>))))

\* GATHER takes the rows of the table that idx names, along an axis.
Gather(t, idx, axis) ==
  LET n == Numel(idx.shape) IN
  When(/\ HasAxis(t, axis) /\ ReadableDense(idx) /\ ReadableDense(t)
       /\ \A x \in ToSet(Floats(idx)) : IsIndex(x) /\ x < Dim(t, axis),
    AlongLanes(AsF32(t), axis, n, LAMBDA lane : Flat(n, LAMBDA j : At(lane, At(Floats(idx), j)))))

\* The scatter modes put the rows of vals into acc, in the order of idx.
Scatter(vals, idx, axis, mode, acc) ==
  LET n == Numel(idx.shape)  inner == Inner(vals, axis)
      step(x, y) == IF mode = "ADD" THEN Plus(x, y)
                    ELSE IF y = NaN THEN x ELSE IF x = NaN \/ y > x THEN y ELSE x
      cell(j) ==
        LET o == j \div (Dim(acc, axis) * inner)  r == (j \div inner) % Dim(acc, axis)
            hits == SelectSeq(Flat(n, LAMBDA k : k), LAMBDA k : At(Floats(idx), k) = r)
        IN  FoldLeft(LAMBDA x, k : step(x, At(Floats(vals), ((o * n + k) * inner) + (j % inner))),
                     At(Floats(acc), j), hits)
  IN  When(/\ HasAxis(vals, axis) /\ ReadableDense(vals) /\ ReadableDense(idx)
           /\ Dim(vals, axis) = n /\ Rank(acc) = Rank(vals) /\ ReadableDense(acc)
           /\ \A i \in DOMAIN vals.shape : i # axis + 1 => vals.shape[i] = acc.shape[i]
           /\ \A x \in ToSet(Floats(idx)) : IsIndex(x) /\ x < Dim(acc, axis),
        F32(acc.shape, Flat(Numel(acc.shape), cell)))

---------------------------------------------------------------------------
\* Distances; nearest first, the smaller index of two equally near.
MetricDist(metric, q, row) ==
  LET n == Len(q)
      dot == Dot(n, LAMBDA k : At(q, k), LAMBDA k : At(row, k))
      norm(v) == Dot(n, LAMBDA k : At(v, k), LAMBDA k : At(v, k))
      gap(k) == IF NaN \in {At(q, k), At(row, k)} THEN NaN ELSE At(row, k) - At(q, k)
      dist == CASE metric = "EUCLID" -> Kernel("sqrt", <<Dot(n, gap, gap)>>)
                [] metric = "MANHATTAN" ->
                     Sigma(n, LAMBDA k : IF gap(k) = NaN THEN NaN
                                         ELSE IF gap(k) < 0 THEN -gap(k) ELSE gap(k))
                [] metric = "DOT" -> Times(-1, dot)
                [] OTHER -> IF 0 \in {norm(q), norm(row)} THEN 1
                            ELSE Kernel("cosine", <<dot, norm(q), norm(row)>>)
  IN  IF dist = NaN THEN FMax ELSE dist

RowOf(t, r) == SubSeq(Floats(t), r * Cols(t) + 1, (r + 1) * Cols(t))
Nearest(dists, k) == SubSeq(Ranking(dists, FALSE), 1, k)

Distance(q, bank, metric, topk) ==
  LET dists == Flat(Rows(bank), LAMBDA r : MetricDist(metric, Floats(q), RowOf(bank, r)))
      k == Min({topk, Rows(bank)})
      near == Nearest(dists, k)
  IN  When(/\ Two(q) /\ Rows(q) = 1 /\ Two(bank) /\ Cols(bank) = Cols(q)
           /\ Rows(bank) # 0 /\ Cols(q) # 0 /\ ReadableDense(q) /\ ReadableDense(bank),
        IF topk = 0 THEN F32(<<1, Rows(bank)>>, dists)
        ELSE F32(<<1, 2 * k>>, [j \in 1..k |-> At(dists, near[j])] \o near))

\* SAMPLE with TOPK: the indices of the largest of n logits.  The sort of up to
\* 20 of them inserts one after the other; a NaN is equal to all, so that what
\* went in before stays before it.  The other form draws one index, any.
Before(logits, i, j) ==
  LET x == At(logits, i)  y == At(logits, j)
  IN  IF x = y \/ NaN \in {x, y} THEN i < j ELSE x > y
Inserted(logits, order, i) ==
  InsertAt(order, Max({0} \cup {k \in DOMAIN order : ~Before(logits, i, order[k])}) + 1, i)
Sorted(logits) ==
  FoldLeft(LAMBDA order, i : Inserted(logits, order, i), <<>>, Flat(Len(logits), LAMBDA i : i))
SampleTopK(logits, n, topk) ==
  LET k == Min({topk, n})
  IN  When(k # 0, F32(<<1, k>>, SubSeq(Sorted(logits), 1, k)))

\* RANK1_UPDATE.  The quotient of the delta rule is a kernel.
RankOneSum(h, v, k, mask, mode, alpha, beta) ==
  LET dd == Rows(h) kk == Cols(h)
      hk(i) == Dot(kk, LAMBDA j : Cell(h, i, j), LAMBDA j : At(Floats(k), j))
      knorm == Dot(kk, LAMBDA j : At(Floats(k), j), LAMBDA j : At(Floats(k), j))
      push(i, j) ==
        IF mode = "DELTA"
        THEN Kernel("delta", <<beta, At(Floats(v), i), hk(i), At(Floats(k), j), knorm>>)
        ELSE Times(Times(beta, At(Floats(v), i)), At(Floats(k), j))
  IN  Matrix(dd, kk, LAMBDA i, j :
        Plus(Times(Times(alpha, Spread(mask, dd, kk, i, j, 1)), Cell(h, i, j)), push(i, j)))
Rank1(h, v, k, mask, mode, alpha, beta) ==
  LET dd == Rows(h) kk == Cols(h)  out == RankOneSum(h, v, k, mask, mode, alpha, beta)
  IN  When(/\ NaN \notin {alpha, beta} /\ Two(h) /\ ReadableDense(h)
           /\ Numel(v.shape) = dd /\ ReadableDense(v) /\ Numel(k.shape) = kk /\ ReadableDense(k)
           /\ mask # NoTensor => Numel(mask.shape) = dd * kk /\ ReadableDense(mask)
           /\ mode = "FORGET" => alpha \in 0..1 /\ alpha # 0
           /\ Finite(out),
        F32(h.shape, out))

\* Product quantisation: a codebook has K rows for each of NSUB subvectors.
PqShape(d, nsub, cb) ==
  /\ nsub # 0 /\ d # 0 /\ Two(cb) /\ DenseF32(cb) /\ Finite(cb.data)
  /\ d % nsub = 0 /\ Rows(cb) % nsub = 0 /\ Cols(cb) = d \div nsub
PqEncode(v, cb, nsub) ==
  LET sub == Numel(v.shape) \div nsub  K == Rows(cb) \div nsub
      far(s, c) == LET gap(i) == At(v.data, s * sub + i) - Cell(cb, s * K + c, i)
                   IN  Dot(sub, gap, gap)
      best(s) == CHOOSE c \in 0..(K - 1) :
        \A e \in 0..(K - 1) : far(s, c) < far(s, e) \/ (far(s, c) = far(s, e) /\ c <= e)
  IN  When(DenseF32(v) /\ Finite(v.data) /\ PqShape(Numel(v.shape), nsub, cb),
        F32(<<1, nsub>>, Flat(nsub, best)))

\* Mutant of PqDecode: every code reads the codebook of the first subvector.
PqDecodeFirstBook(codes, cb, nsub) ==
  LET K == Rows(cb) \div nsub  sub == Cols(cb)
  IN  When(/\ DenseF32(codes) /\ Numel(codes.shape) = nsub
           /\ PqShape(nsub * Cols(cb), nsub, cb)
           /\ \A x \in ToSet(codes.data) : IsIndex(x) /\ x < K,
        F32(<<1, nsub * sub>>, Flat(nsub * sub, LAMBDA j :
          Cell(cb, At(codes.data, j \div sub), j % sub))))

PqDecode(codes, cb, nsub) ==
  LET K == Rows(cb) \div nsub  sub == Cols(cb)
  IN  When(/\ DenseF32(codes) /\ Numel(codes.shape) = nsub
           /\ PqShape(nsub * Cols(cb), nsub, cb)
           /\ \A x \in ToSet(codes.data) : IsIndex(x) /\ x < K,
        F32(<<1, nsub * sub>>, Flat(nsub * sub, LAMBDA j :
          Cell(cb, (j \div sub) * K + At(codes.data, j \div sub), j % sub))))
=============================================================================
