------------------------------ MODULE MCSystem ------------------------------
(***************************************************************************)
(* System on small programs: all sequences of a few lines over menus made  *)
(* for one part of the machine each, and sources and files made for the    *)
(* assembler and the container.                                            *)
(***************************************************************************)
EXTENDS System

\* A kernel is a number made of its name and arguments; roots keep the order.
KernelNames ==
  <<"half", "bytes", "mean", "softmax", "silu", "rms", "rope-left", "rope-right", "cosine", "delta",
    "dequant", "q4k", "torn", "filled", "F32", "F16", "BF16", "I8", "U8", "Q4_0", "Q8_0",
    "GELU", "SIGMOID", "TANH", "RELU", "EXP", "LOG", "word", "bits">>
MCKernel(name, args) ==
  CASE name = "sqrt" -> args[1]
    [] name = "half" -> args[1]
    [] OTHER -> FoldLeft(LAMBDA h, x : (h * 5 + x) % 31, CHOOSE k \in DOMAIN KernelNames : KernelNames[k] = name, args)

MCNaN  == 1000001
MCFMax == 1000000
R(n)   == Reg(n)
M(shape, xs) == Tensor(shape, "F32", xs)

Task(source, tensors) == [source |-> source, tensors |-> tensors, files |-> FALSE]
OnFile(source) == [source |-> source, tensors |-> <<>>, files |-> TRUE]
Seqs(lines, n) == [1..n -> lines]

---------------------------------------------------------------------------
\* One tensor in, one out.
Lanes(d, a) ==
  {Line("SORT", <<R(d), R(a)>>), Line("SORT", <<R(d), R(a), Key("AXIS", 1), Word("DESC")>>),
   Line("TOPK", <<R(d), R(a), Key("K", 2), Key("AXIS", 1)>>),
   Line("TOPK", <<R(d), R(a), Key("K", 2), Word("SMALLEST"), Word("UNSORTED")>>),
   Line("ARGMAX", <<R(d), R(a), Key("AXIS", 1)>>),
   Line("REDUCE", <<R(d), R(a), KeyWord("OP", "MAX"), Key("AXIS", 1)>>),
   Line("REDUCE", <<R(d), R(a), KeyWord("OP", "MEAN")>>),
   Line("PAD", <<R(d), R(a), Key("VALUE", 7), Key("BEFORE", 1), Key("AFTER", 2), Key("AXIS", 1)>>),
   Line("TILE", <<R(d), R(a), Key("REPS", 2), Key("AXIS", 1)>>),
   Line("SOFTMAX", <<R(d), R(a)>>)}
Folds == {Line("REDUCE", <<R(8), R(0), KeyWord("OP", op), Key("AXIS", 0)>>) : op \in {"SUM", "MIN", "PROD"}}
Views(d, a) ==
  {Line("BROADCAST", <<R(d), R(a), KeyDims("SHAPE", <<2, 2, 3>>)>>),
   Line("BROADCAST", <<R(d), R(a), KeyDims("SHAPE", <<2, 3>>)>>),
   Line("TRANSPOSE", <<R(d), R(a), KeyDims("AXES", <<1, 0>>)>>),
   Line("TRANSPOSE", <<R(d), R(a), KeyDims("AXES", <<2, 0, 1>>)>>),
   Line("RESHAPE", <<R(d), R(a), KeyDims("SHAPE", <<1, 3, 2>>)>>),
   Line("CONCAT", <<R(d), R(a), R(0), Key("AXIS", 1)>>),
   Line("SLICE", <<R(d), R(a), Key("START", 1), Key("LEN", 4)>>),
   Line("CLIP", <<R(d), R(a), Key("MIN", 2), Key("MAX", 4)>>), Line("GELU", <<R(d), R(a)>>)}
Casts(d, a) ==
  {Line("CAST", <<R(d), R(a), KeyWord("DST", "F16")>>), Line("DEQUANT", <<R(d), R(a)>>),
   Line("QUANTIZE", <<R(d), R(a), KeyWord("Q", "Q4_0")>>),
   Line("QUANTIZE", <<R(d), R(a), KeyWord("Q", "Q8_0")>>)}
Unaries(d, a) == Lanes(d, a) \cup Views(d, a) \cup Casts(d, a)

Grid  == M(<<2, 3>>, <<3, MCNaN, 3, 1, 5, 5>>)
Row1  == M(<<1, 3>>, <<4, MCNaN, 4>>)
Cube  == M(<<2, 3, 2>>, <<1, 2, 3, 4, 5, 6, 6, 5, 4, 3, 2, 1>>)
Column == M(<<2, 1>>, <<1, 2>>)
Shapes ==
  {Task(<<u>>, <<t>>) : u \in Unaries(8, 0) \cup Folds, t \in {Grid, Row1, Cube, Column}}
  \cup {Task(<<u, v>>, <<t>>) : u \in Views(8, 0) \cup Casts(8, 0), v \in Unaries(9, 8), t \in {Grid}}

---------------------------------------------------------------------------
\* Several tensors in.  r0 2x3, r1 3x2, r2 two indices, r3 1x2, r4 3x2, r5 4x2.
Hosted == <<M(<<2, 3>>, <<1, 2, 3, 2, 1, MCNaN>>), M(<<3, 2>>, <<1, 0, 2, 2, 1, 0>>), M(<<1, 2>>, <<1, 0>>),
          M(<<1, 2>>, <<2, 1>>), M(<<3, 2>>, <<5, 4, 3, 2, 1, 0>>),
            M(<<4, 2>>, <<5, 4, 3, 2, 1, 1, 1, 2>>), Cube>>
Pairs ==
  {Line(op, <<R(8), R(1), R(4)>>) : op \in {"ADD", "MUL", "MATVEC"}}
  \cup {Line("MATVEC", <<R(8), R(0), R(1)>>), Line("SILU", <<R(8), R(0)>>),
        Line("ATTN", <<R(8), R(3), R(1), R(4)>>), Line("NORM", <<R(8), R(1), R(3)>>),
        Line("NORM", <<R(8), R(0), R(4), R(2)>>), Line("FFN", <<R(8), R(0), R(1), R(7)>>),
        Line("FFN", <<R(8), R(3), R(7), R(7), R(3)>>), Line("FFN", <<R(8), R(3), R(7), R(3), R(7), R(3)>>),
        Line("ROPE", <<R(8), R(1), Key("POS", 1), Key("HDIM", 2), Key("NHEADS", 3)>>),
        Line("ROPE", <<R(8), R(1), Key("HDIM", 4)>>)}
Indexed ==
  {Line("GATHER", <<R(8), R(t), R(2), Key("AXIS", x)>>) : t \in {0, 1}, x \in {0, 1, 2}}
  \cup {Line(op, <<R(8), R(1), R(2), R(4), Key("AXIS", 1)>>) : op \in {"SCATTER_ADD"}}
  \cup {Line("GATHER", <<R(8), R(0), R(2), R(0), KeyWord("MODE", m)>>) : m \in {"SCATTER_ADD", "SCATTER_MAX"}}
  \cup {Line("GATHER", <<R(8), R(3), R(9), R(1), KeyWord("MODE", "SCATTER_MAX")>>),
        Line("EMBED_LOOKUP", <<R(8), R(2), R(4)>>), Line("EMBED_LOOKUP", <<R(8), R(4), R(4)>>),
        Line("EMBED", <<R(8), R(15), R(4)>>), Line("EMBED", <<R(8), R(0), R(4)>>),
        Line("SAMPLE", <<R(8), R(3)>>), Line("SAMPLE", <<R(8), R(0), Key("TOPK", 4)>>),
        Line("RANK1_UPDATE", <<R(1), R(9), R(3), Key("BETA", 2)>>),
        Line("RANK1_UPDATE", <<R(1), R(9), R(3), KeyWord("MODE", "DELTA"), Key("ALPHA", 0)>>)}
Nearness ==
  {Line("DISTANCE", <<R(8), R(3), R(1), KeyWord("METRIC", m), Key("TOPK", k)>>) :
     m \in {"EUCLID", "COSINE", "MANHATTAN", "DOT"}, k \in {0, 2, 4}}
  \cup {Line("PQ_ENCODE", <<R(8), R(a), R(b), Key("NSUB", n)>>) : a \in {3, 4}, b \in {1, 5, 7}, n \in {1, 2, 3}}
  \cup {Line("PQ_DECODE", <<R(8), R(2), R(b), Key("NSUB", 2)>>) : b \in {5, 7}}
  \cup {Line("PQ_ENCODE", <<R(8), R(10), R(5), Key("NSUB", 2)>>), Line("DISTANCE", <<R(8), R(9), R(0), Key("TOPK", 2)>>),
        Line("GATHER", <<R(8), R(6), R(2), Key("AXIS", 1)>>)}
\* r7 is a 2x2 tensor the program makes, r9 and r10 are slices.
Prepared == <<Line("TENSOR", <<R(7), Num(2), Num(2)>>), Line("SLICE", <<R(9), R(4), Key("START", 1), Key("LEN", 3)>>),
              Line("SLICE", <<R(10), R(5), Key("START", 2), Key("LEN", 4)>>)>>
Kernels == {Task(Prepared \o <<k>>, Hosted) : k \in Pairs \cup Indexed \cup Nearness}

\* Tensors that are sparse, narrow or not there.  r7 is sparse and 2x2, r8 has
\* five bytes, r9 twenty floats, r10 is an address inside it, r11 the address of
\* nothing, r12 one in the temporal buffer and r13 one in the persistent.
Odd == <<Line("TENSOR", <<R(7), Num(2), Num(2), Key("DENSITY", 50)>>), Line("TENSOR", <<R(8), Num(1), Num(5), Word("U8")>>),
         Line("TENSOR", <<R(9), Num(4), Num(5)>>), Line("ADD_IMM", <<R(10), R(9), Key("IMM", 4)>>),
         Line("LOADI", <<R(11), Num(1000000)>>), Line("LOADI", <<R(12), Num(1048576)>>), Line("LOADI", <<R(13), Num(2097152)>>)>>
Attns == {Line("ATTN", <<R(14), R(q), R(k), R(v)>>) : q \in {3, 7, 10}, k \in {7, 10, 12}, v \in {1, 5, 7, 10, 11}}
OddReads ==
  {Line("EMBED", <<R(14), R(t), R(4)>>) : t \in 10..13}
  \cup {Line("SAMPLE", <<R(14), R(t), Key("TOPK", k)>>) : t \in {7, 8, 10, 11, 12, 13}, k \in {0, 2}}
  \cup {Line(op, <<R(14), R(7), R(7)>>) : op \in {"ADD", "MUL", "MATVEC"}}
  \cup {Line("SILU", <<R(14), R(8)>>), Line("SLICE", <<R(14), R(8), Key("START", 1), Key("LEN", 2)>>),
        Line("SLICE", <<R(14), R(7), Key("START", 1), Key("LEN", 2)>>),
        Line("ATTN", <<R(14), R(6), R(7), R(7)>>)}
Strange == {Task(Odd \o <<k>>, Hosted) : k \in Attns \cup OddReads}

---------------------------------------------------------------------------
Loadi(r, n) == Line("LOADI", <<R(r), Num(n)>>)
SnapTo(r)    == Line("SNAPSHOT", <<R(r)>>)
BackTo(r)    == Line("RESTORE", <<R(r)>>)
Block(r, size, rest) == Line("ARENA_ALLOC", <<R(r), Key("SIZE", size), Key("ARENA", 1)>> \o rest)
Arenas ==
  LET lines == {Block(8, 3, <<>>), Block(9, 40, <<Key("ALIGN", 8)>>), Block(9, 70, <<Key("ALIGN", 64)>>),
                Block(9, 3, <<Key("ALIGN", 3)>>), Line("ARENA_RESET", <<Key("ARENA", 1)>>), SnapTo(10), BackTo(10)}
  IN  {Task(<<Block(7, 20, <<>>)>> \o p \o s, <<>>) : p \in {<<>>, <<SnapTo(10)>>}, s \in Seqs(lines, 3)}

\* An index of two-component vectors is 1; r12 is an id, r10 asks for a new one.
Rags ==
  LET add(db, rest) == Line("RAG_INDEX_ADD", <<R(9), R(db), R(1)>> \o rest)
      lines == {add(11, <<>>), add(11, <<R(12)>>), add(10, <<>>), Line("RAG_INDEX_DEL", <<R(9), R(11), R(12)>>),
                Line("RAG_SEARCH", <<R(8), R(0), R(11), Key("TOPK", 2), KeyWord("METRIC", "EUCLID")>>), SnapTo(14), BackTo(14)}
      start == <<Loadi(11, 1), Line("RAG_INDEX_ADD", <<R(9), R(10), R(0)>>)>>
      vectors == {<<M(<<1, 2>>, <<1, 2>>), M(<<1, 2>>, <<2, 2>>)>>}
  IN  {Task(start \o p \o s, v) : p \in {<<>>, <<SnapTo(14)>>}, s \in Seqs(lines, 3), v \in vectors}
      \cup {Task(start \o <<Line("RAG_INDEX_ADD", <<R(9), R(10), R(1)>>), add(11, <<>>)>>,
                 <<M(<<1, 2>>, <<1, 2>>), M(<<1, 1>>, <<MCNaN>>)>>)}

Heaps ==
  LET make(r, rows, rest) == Line("TENSOR", <<R(r), Num(rows), Num(5)>> \o rest)
      lines == {make(8, 4, <<>>), make(8, 1, <<Word("U8")>>), SnapTo(9), SnapTo(10), BackTo(9), BackTo(10),
                Line("MEMSET", <<R(8), Key("PATTERN", 1), Key("LEN", 3), Key("OFF", 1)>>),
                Line("MEMCPY", <<R(8), R(0), Key("LEN", 4), Key("DST_OFF", 4)>>)}
      odd == {make(8, 2, <<KeyWord("Q", "X")>>), make(8, 2, <<Key("DENSITY", 50)>>), make(8, 2, <<Key("FILL", 3)>>),
              make(8, 2, <<Word("F16"), Key("FILL", 3)>>), Line("TENSOR", <<R(8), R(0), R(7), Shape(2, 3)>>)}
  IN  {Task(p \o s, <<Row1>>) : p \in {<<>>, <<SnapTo(9), make(8, 2, <<>>)>>}, s \in Seqs(lines, 3)}
      \cup {Task(<<o, Line("MEMSET", <<R(8), Key("PATTERN", 0)>>), Line("MEMCPY", <<R(0), R(8)>>)>>, <<Row1>>) : o \in odd}
      \cup {Task(<<SnapTo(9), make(8, 4, <<>>), SnapTo(10), BackTo(9), make(8, 1, <<>>)>>, <<>>)}

---------------------------------------------------------------------------
\* Labels, calls, comparisons, aliases, constants, sections.
Goto(op, l) == Line(op, <<Word(l)>>)
Mark(l)     == Code(l, "", <<>>)
Halts       == Line("HALT", <<>>)
Compared(pred, toks) == Line("COMPARE", <<R(1)>> \o toks \o <<KeyWord("PRED", pred)>>)

Loop == <<Loadi(1, 2), Mark("L"), Line("SUB_IMM", <<R(1), R(1), Key("IMM", 1)>>), Compared("NE", <<R(2)>>),
          Goto("IF_EQUAL", "L"), Halts>>
Calls == <<Goto("CALL", "F"), Halts, Code("F", "CALL", <<Word("G")>>), Line("RET", <<>>), Mark("G"), Line("RET", <<>>)>>
Deep  == <<Code("F", "CALL", <<Word("F")>>)>>
Alone == <<Line("RET", <<>>)>>
Past  == <<Line("NOP", <<>>), Goto("JUMP", "E"), Mark("E")>>
Branch == <<Line("IF_INTERRUPT", <<R(1), Word("E")>>), Loadi(1, 2), Compared("EQ", <<Word("EOS_TOKEN")>>),
            Goto("IF_EQUAL", "E"), Halts, Code("E", "IF_INTERRUPT", <<R(1), Word("E2")>>), Halts, Code("E2", "MOV", <<R(1), R(2)>>), Halts>>
Named1 == <<RegLine(1, "acc", 3), EquLine("N", 20), Loadi(3, 4), Line("ADD_IMM", <<RWord(1, "acc"), RWord(2, "acc"), KeyWord("IMM", "N")>>),
            Line("TENSOR", <<R(4), Num(1), Word("N")>>), Halts>>
Twice == <<Mark("A"), Goto("JUMP", "B"), Mark("A"), Mark("B"), Halts>>
Numbers4 == [k \in 1..4 |-> Num(k)]
Mixed(tail) ==
  <<Mark("A"), Section("data"), Blob("s", ".str", <<>>, Numbers4 \o <<Num(9)>>), Blob("m", ".f32", <<2, 2>>, Numbers4),
    Section("text"), Code("", "LOADI", <<R(1), AtName("m")>>), Section("data"), Blob("n", ".u32", <<>>, <<Num(7)>>),
    Section("text"), Code("B", "LOADI", <<R(2), AtName("n")>>), Line("IF_EQUAL", <<Word("A")>>), Goto("JUMP", "C"),
    Code("C", "LOADI", <<R(3), AtName("s")>>)>> \o tail
Empty == <<Section("data"), Blob("s", ".str", <<>>, <<>>), Section("text"), Halts>>
Wrong == {<<Blob("x", ".u32", <<>>, <<Num(1)>>)>>, <<Goto("JUMP", "X")>>, <<RegLine(0, "a", 1)>>, <<EquLine("F32", 1)>>,
          <<Line("FFN", <<R(1), R(2), R(3)>>)>>, <<Section("data"), Halts>>}
Sources == {Loop, Calls, Deep, Alone, Past, Branch, Named1, Twice, Empty, Mixed(<<Halts>>)} \cup Wrong
Controls == {Task(s, t) : s \in Sources \cup {Mixed(<<Line("MEMSET", <<R(0), Key("PATTERN", 3)>>)>>)}, t \in {<<>>, <<Row1>>}}

\* Every row of the grammar with its registers and all its keys.
KeyToken(s, key) ==
  IF key.names # <<>> THEN KeyWord(s, CHOOSE w \in DOMAIN key.names : TRUE)
  ELSE Key(s, CHOOSE v \in {4660, 201, 9} : v \in key.range /\ (v = 4660 \/ (v = 201 /\ 4660 \notin key.range) \/ 201 \notin key.range))
FullLine(op) ==
  LET row == RowTable[op]
      keys == {s \in DOMAIN row.keys : (\E v \in {4660, 201, 9} : v \in row.keys[s].range) \/ row.keys[s].names # <<>>}
      dims == IF row.dims = "" THEN <<>> ELSE <<KeyDims(row.dims, <<1, 2, 3>>)>>
  IN  Line(op, [i \in 1..(row.regs + row.extra) |-> R(i + 8)] \o FoldSet(LAMBDA s, toks : Append(toks, KeyToken(s, row.keys[s])), <<>>, keys) \o dims)
Grammar == {Task(<<Halts, FullLine(op)>>, <<>>) : op \in DOMAIN RowTable}

\* Each opcode that does something and then writes a register.
Chain == <<Loadi(11, 1), Line("TENSOR", <<R(1), Num(1), Num(2)>>), Line("RAG_INDEX_ADD", <<R(9), R(10), R(1)>>),
           Line("RAG_INDEX_ADD", <<R(9), R(11), R(1)>>), SnapTo(14), Line("RAG_INDEX_DEL", <<R(9), R(11), R(12)>>),
           Block(8, 3, <<>>), Line("SAMPLE", <<R(3), R(1)>>), Line("MOV", <<R(3), R(9)>>), Compared("EQ", <<R(3)>>),
           Line("NORM", <<R(2), R(1), R(1)>>), Halts>>
Files ==
  {OnFile(s) : s \in {Branch, Calls, Empty, <<Loadi(1, 2), Halts>>, <<Line("NOP", <<>>), Loadi(1, 2), Line("NOP", <<>>)>>,
                       <<Halts, FullLine("RAG_SEARCH"), Line("NOP", <<>>)>>, <<Goto("JUMP", "X")>>, Chain}}

MCTasks == Shapes \cup Kernels \cup Strange \cup Arenas \cup Rags \cup Heaps \cup Controls \cup Grammar \cup Files
=============================================================================
