----------------------------- MODULE Assembler -----------------------------
(***************************************************************************)
(* The text assembler of opcodes.rs: directives, labels, registers and     *)
(* their aliases, constants, the .data section, and one grammar row for    *)
(* each mnemonic.                                                          *)
(*                                                                         *)
(* A token is a record: a register rN, a blank (_ x - ff), a decimal       *)
(* number, a shape RxC, an identifier (v is the number of r's it starts    *)
(* with, s the rest), an address @s, or KEY=value, where the value is a    *)
(* number v, a word w or a list of dimensions.                             *)
(***************************************************************************)
EXTENDS Encoding, FiniteSetsExt, TLC

Token(k, s, v, w, dims) == [k |-> k, s |-> s, v |-> v, w |-> w, dims |-> dims]
Reg(n)          == Token("reg", "", n, "", <<>>)
Blank           == Token("blank", "", 0, "", <<>>)
Num(n)          == Token("num", "", n, "", <<>>)
Word(s)         == Token("word", s, 0, "", <<>>)
RWord(rs, s)    == Token("word", s, rs, "", <<>>)
AtName(s)       == Token("at", s, 0, "", <<>>)
Shape(r, c)     == Token("shape", "", 0, "", <<r, c>>)
Key(s, v)       == Token("key", s, v, "", <<>>)
KeyWord(s, w)   == Token("key", s, 0, w, <<>>)
KeyDims(s, d)   == Token("key", s, 0, "dims", d)

Bad == -1                  \* what a token that does not parse reads as
Err   == [res |-> "err"]
Crash == [res |-> "panic"]
Good(ins) == [res |-> "ok", ins |-> ins]
Try(guard, ins) == IF guard THEN Good(ins) ELSE Err
Then(result, next(_)) == IF result.res = "ok" THEN Good(next(result.ins)) ELSE result

(***************************************************************************)
(* Symbols: aliases of registers, constants, addresses of blobs, labels.   *)
(***************************************************************************)
Lookup(f, x) == IF x \in DOMAIN f THEN f[x] ELSE Bad

\* parse_reg drops every leading r of an identifier before it looks it up.
ParseReg(tok, syms) ==
  CASE tok.k = "blank" -> Absent
    [] tok.k \in {"reg", "num"} -> IF tok.v < 16 THEN tok.v ELSE Bad
    [] tok.k = "word" -> Lookup(syms.alias, <<0, tok.s>>)
    [] OTHER -> Bad
Const(tok, syms) == IF tok.k = "word" /\ tok.v = 0 THEN Lookup(syms.equ, tok.s) ELSE Bad
ParseImm(tok, syms) == IF tok.k = "num" THEN tok.v ELSE Const(tok, syms)
Label(tok, syms) == IF tok.k = "word" /\ tok.v = 0 THEN Lookup(syms.labels, tok.s) ELSE Bad

(***************************************************************************)
(* Grammar rows.  A key writes a field: a number of a range, the name of a *)
(* constant where equ allows one, or one of a set of words; digits says    *)
(* that the code of a word may be written instead.                         *)
(***************************************************************************)
U8  == 0..255
U16 == 0..65535
Big == 0..2147483646       \* the range of wider and floating-point values

K(field, range, default) ==
  [field |-> field, range |-> range, default |-> default, must |-> FALSE,
   equ |-> FALSE, names |-> <<>>, digits |-> FALSE]
Must(key)  == [key EXCEPT !.must = TRUE]
Equ(key)   == [key EXCEPT !.equ = TRUE]
Choice(field, names, default) == [K(field, {}, default) EXCEPT !.names = names]
Coded(field, names, default)  == [Choice(field, names, default) EXCEPT !.digits = TRUE]
Layer == "LAYER" :> K("layer", U8, 0)
Axis  == "AXIS" :> K("axis", U8, 0)

Colours == "GREEN" :> 0 @@ "BLUE" :> 1 @@ "RED" :> 2

KeyValue(key, tok, syms) ==
  CASE tok.w = "dims" -> Bad
    [] tok.w # "" /\ tok.w \in DOMAIN key.names -> key.names[tok.w]
    [] tok.w # "" /\ key.equ /\ Lookup(syms.equ, tok.w) \in key.range -> syms.equ[tok.w]
    [] tok.w = "" /\ (tok.v \in key.range \/ (key.digits /\ tok.v \in Range(key.names))) -> tok.v
    [] OTHER -> Bad

\* regs operands are registers; extra more may be; one more is tried and, if
\* it is no register, left to the keys.  bare are the words allowed, each
\* setting a field or, under the name "flags", bits of the flags.  dims names
\* the key of a list of one to four dimensions, at least lo each.
Row(regs, keys) == [op |-> "", regs |-> regs, extra |-> 0, try |-> FALSE, keys |-> keys,
                    bare |-> <<>>, dims |-> "", lo |-> 0]
Plus1(row)  == [row EXCEPT !.extra = 1]
Maybe(row)  == [row EXCEPT !.try = TRUE]
Bare(row, words)    == [row EXCEPT !.bare = words]
DimsKey(row, k, lo) == [row EXCEPT !.dims = k, !.lo = lo]
Sets(field, value)  == <<field, value>>
Regs(n) == Row(n, <<>>)
Named(names, row) == [op \in names |-> row]

DimFields(k) == IF k = "AXES" THEN <<"p0", "p1", "p2", "p3">> ELSE <<"d0", "d1", "d2", "d3">>

Known(row, tok, syms) ==
  CASE tok.k = "key" /\ tok.s = row.dims ->
         tok.w = "dims" /\ Len(tok.dims) \in 1..4 /\ \A d \in ToSet(tok.dims) : d >= row.lo
    [] tok.k = "key" -> tok.s \in DOMAIN row.keys /\ KeyValue(row.keys[tok.s], tok, syms) # Bad
    [] tok.k = "word" -> tok.v = 0 /\ tok.s \in DOMAIN row.bare
    [] OTHER -> FALSE

\* The fields a token sets; of a key given twice the last wins.
SetBy(row, tok, syms) ==
  CASE tok.k = "word" -> row.bare[tok.s][1] :> row.bare[tok.s][2]
    [] tok.s = row.dims ->
         "ndim" :> Len(tok.dims) @@ [f \in {DimFields(tok.s)[i] : i \in DOMAIN tok.dims} |->
            tok.dims[CHOOSE i \in DOMAIN tok.dims : DimFields(tok.s)[i] = f]]
    [] OTHER -> row.keys[tok.s].field :> KeyValue(row.keys[tok.s], tok, syms)
Required(row) ==
  {k \in DOMAIN row.keys : row.keys[k].must} \cup (IF row.dims = "" THEN {} ELSE {row.dims})
Defaults(row) ==
  LET ks == {k \in DOMAIN row.keys : row.keys[k].default # Bad}
  IN  [f \in {row.keys[k].field : k \in ks} |->
         row.keys[CHOOSE k \in ks : row.keys[k].field = f].default]

Operands(row, toks, syms) ==
  LET sure == row.regs + Min({row.extra, Max({Len(toks) - row.regs, 0})})
      more == row.try /\ Len(toks) > sure /\ ParseReg(toks[sure + 1], syms) # Bad
  IN  IF more THEN sure + 1 ELSE sure

ParseRow(op, row, toks, syms) ==
  LET n == Operands(row, toks, syms)
      regs == [i \in 1..n |-> ParseReg(toks[i], syms)]
      rest == SubSeq(toks, n + 1, Len(toks))
      vals == FoldLeft(LAMBDA f, t : SetBy(row, t, syms) @@ f, Defaults(row), rest)
      flags == IF "flags" \in DOMAIN vals THEN vals.flags ELSE 0
  IN  IF Len(toks) < row.regs \/ (\E i \in 1..n : regs[i] = Bad)
           \/ (\E t \in ToSet(rest) : ~Known(row, t, syms))
           \/ (\E k \in Required(row) : \A t \in ToSet(rest) : t.k # "key" \/ t.s # k)
      THEN Err
      ELSE Good(Make(op, flags, regs, vals))

---------------------------------------------------------------------------
\* The rows, in the order of the source.  A key that starts with a dash is
\* there for the default of its field: no token writes it.
TensorRows ==
  "NORM" :> [Regs(2) EXCEPT !.extra = 2]
  @@ Named({"EMBED", "ADD", "MATVEC", "MUL"}, Regs(3))
  @@ Named({"ABORT", "SILU"}, Regs(2))
  @@ "ATTN" :> Bare(Regs(4), [w \in {"NOTIFY", "NOTIFY_EACH", "NOTIFY_EACH_HEAD"} |-> Sets("flags", 1)])

AlignRows ==
  "AUDIO_ALIGN" :> Row(3, "SR" :> K("rate", Big, 24000) @@ "FRAME" :> K("frame", Big, 1920)
                          @@ "HZ" :> K("hz100", Big, 1250) @@ "DELAY" :> K("delay100", Big, 16000))
  @@ "ROPE" :> Bare(Row(2, "POS" :> K("pos", Big, 0) @@ "HDIM" :> K("headdim", Big, 2)
                           @@ "NHEADS" :> K("heads", Big, 1) @@ "THETA" :> K("theta", Big, 10000)),
                    "INPLACE" :> Sets("flags", 1))
SsmRows ==
  LET keys == "D_INNER" :> K("inner", Big, 1) @@ "D_STATE" :> K("state", Big, 1) @@ Layer
  IN  "SSM_SCAN" :> Bare(Row(4, keys), "CONV" :> Sets("conv", 1) @@ "GATE" :> Sets("gate", 2))
      @@ "SSM_RESET" :> Row(1, keys)

IndexRows ==
  LET modes == "GATHER" :> 0 @@ "SCATTER_ADD" :> 1 @@ "SCATTER_MAX" :> 2
      gather(m) == Maybe(Row(3, Axis @@ "MODE" :> Choice("mode", modes, m)))
  IN  "GATHER" :> gather(0) @@ "SCATTER_ADD" :> gather(1)
      @@ "DISTANCE" :> Row(3, "TOPK" :> K("topk", U16, 0)
           @@ "METRIC" :> Choice("metric", "EUCLID" :> 0 @@ "COSINE" :> 1 @@ "MANHATTAN" :> 2 @@ "DOT" :> 3, 0))
      @@ "RANK1_UPDATE" :> Row(3, "ALPHA" :> K("alpha", Big, 1) @@ "BETA" :> K("beta", Big, 1) @@ Layer
           @@ "MODE" :> Choice("mode", "HEBBIAN" :> 0 @@ "DELTA" :> 1 @@ "FORGET" :> 2, 0))

RandomRows ==
  "RNG_NEXT" :> Regs(1)
  @@ "RNG_UNIFORM" :> Row(1, "A" :> K("lo", Big, 0) @@ "B" :> K("hi", Big, 1))
  @@ "RNG_NORMAL" :> Row(1, "MEAN" :> K("mean", Big, 0) @@ "STD" :> K("std", Big, 1))
  @@ Named({"HASH", "CHECKSUM"}, Regs(2)) @@ "HMAC" :> Regs(3)

TelemetryRows ==
  Named({"CYCLES_COUNT", "PREEMPT_CHECK", "SET_DEADLINE", "GET_DEADLINE", "PRIORITY_SET",
         "PRIORITY_GET", "LOCK", "UNLOCK"}, Regs(1))
  @@ "TRACE_EVENT" :> Regs(2) @@ "SANITY_CHECK" :> Plus1(Regs(2))
  @@ "ASSERT" :> Row(1, "CODE" :> Equ(K("code", U16, 0)))
  @@ Named({"DUMP", "YIELD", "FENCE"}, Regs(0))

MoveRows ==
  "MOV" :> Regs(2) @@ "KV_TRUNCATE" :> Row(1, "STREAM" :> K("stream", U16, 0))
  @@ "SLICE" :> Row(2, "START" :> Must(Equ(K("start", Big, Bad))) @@ "LEN" :> Must(Equ(K("len", Big, Bad))))

ArenaRows ==
  "ARENA_ALLOC" :> Row(1, "SIZE" :> Must(K("size", Big, Bad)) @@ "ALIGN" :> K("align", Big, 0)
                          @@ "ARENA" :> K("arena", U8, 0))
  @@ "ARENA_RESET" :> Row(0, "ARENA" :> K("arena", U8, 0))
  @@ "MEMCPY" :> Row(2, "LEN" :> K("len", Big, 0) @@ "SRC_OFF" :> K("src", Big, 0)
       @@ "DST_OFF" :> K("dst", Big, 0)
       @@ "DIR" :> Coded("dir", "HOST" :> 0 @@ "GPU" :> 1 @@ "NIC" :> 2, 0))
  @@ "MEMSET" :> Row(1, "PATTERN" :> Must(K("pattern", U8, Bad)) @@ "LEN" :> K("len", Big, 0)
                        @@ "OFF" :> K("offset", Big, 0))
SnapshotRows ==
  "SNAPSHOT" :> Row(1, "MASK" :> K("mask", U8, 7)) @@ "RESTORE" :> Regs(1)
  @@ "PREFETCH" :> Row(1, "LEN" :> K("len", Big, 0) @@ "OFF" :> K("offset", Big, 0))
  @@ "RESHAPE" :> DimsKey(Regs(2), "SHAPE", 1) @@ "CONCAT" :> Row(3, Axis)
CastRows ==
  "CAST" :> Row(2, "DST" :> Must(Coded("dst", "F32" :> 0 @@ "F16" :> 1 @@ "BF16" :> 2 @@ "I8" :> 3
                                              @@ "U8" :> 4, Bad)))
  @@ "QUANTIZE" :> Row(2, "Q" :> Must(Coded("type", "Q4_0" :> 4 @@ "Q8_0" :> 8, Bad)))
  @@ "DEQUANT" :> Regs(2) @@ "STEPS" :> Regs(1)
  @@ Named({"ADD_IMM", "SUB_IMM"}, Row(2, "IMM" :> Must(Equ(K("imm", Big, Bad)))))

OrderRows ==
  "SORT" :> Bare(Row(2, Axis @@ "ORDER" :> Choice("order", "ASC" :> 0 @@ "DESC" :> 1, 0)),
                 "ASC" :> Sets("order", 0) @@ "DESC" :> Sets("order", 1))
  @@ "TOPK" :> Bare(Row(2, Axis @@ "K" :> Must(K("k", U16, Bad)) @@ "-largest" :> K("largest", {}, 1)
                           @@ "-sorted" :> K("sorted", {}, 1)),
                    "LARGEST" :> Sets("largest", 1) @@ "SMALLEST" :> Sets("largest", 0)
                    @@ "SORTED" :> Sets("sorted", 1) @@ "UNSORTED" :> Sets("sorted", 0))
  @@ "ARGMAX" :> Row(2, Axis)
  @@ "REDUCE" :> Row(2, "AXIS" :> K("axis", U8, 255) @@ "OP" :> Must(Coded("op",
                   "SUM" :> 0 @@ "MEAN" :> 1 @@ "MAX" :> 2 @@ "MIN" :> 3 @@ "PROD" :> 4, Bad)))
  @@ "BROADCAST" :> DimsKey(Regs(2), "SHAPE", 1)
ShapeRows ==
  "PAD" :> Row(2, Axis @@ "VALUE" :> Must(K("value", Big, Bad)) @@ "BEFORE" :> K("before", Big, 0)
                  @@ "AFTER" :> K("after", Big, 0))
  @@ "TILE" :> Row(2, Axis @@ "REPS" :> Must(K("reps", Big, Bad)))
  @@ "TRANSPOSE" :> DimsKey(Regs(2), "AXES", 0)
  @@ "SOFTMAX" :> Row(2, "AXIS" :> K("axis", U8, 255) @@ "TEMP" :> K("temp", Big, 1))
  @@ Named(Activations, Regs(2))

CacheRows ==
  "CLIP" :> Row(2, "MIN" :> Must(K("min", Big, Bad)) @@ "MAX" :> Must(K("max", Big, Bad)))
  @@ "KV_COMPRESS" :> Row(0, "SINK" :> Must(K("sink", U16, Bad)) @@ "WINDOW" :> Must(K("window", U16, Bad))
       @@ "MODE" :> Coded("mode", "SINK_WINDOW" :> 0, 0) @@ "STREAM" :> K("stream", U16, 0))
  @@ "FLASH_ATTN" :> Row(4, "BLOCK" :> K("block", U16, 0))
  @@ "ATTN_SPARSE" :> Row(4, "TOPK" :> K("topk", U16, 0) @@ "METRIC" :> Coded("metric", "DOT" :> 0, 0))
  @@ "VAD_DETECT" :> Row(2, "MODE" :> Coded("mode", "ENERGY" :> 0 @@ "ZCR" :> 1 @@ "ML" :> 2, 0))
  @@ "STREAM_MERGE" :> Row(3, "GAIN" :> Must(K("gain", Big, Bad)) @@ "N_STREAMS" :> K("n", U16, 0))
AudioRows ==
  "AUDIO_RESAMPLE" :> Row(2, "SRC" :> Must(K("src", Big, Bad)) @@ "DST" :> Must(K("dst", Big, Bad)))
  @@ "AUDIO_FILTER" :> Row(3, "MODE" :> Coded("mode", "FIR" :> 0 @@ "IIR" :> 1, 0))
  @@ "AUDIO_WINDOW" :> Row(2, "TYPE" :> Coded("type", "HANN" :> 0 @@ "HAMMING" :> 1, 0))
  @@ "DEPFORMER" :> Row(3, "STREAM" :> K("stream", U8, 0) @@ Layer @@ "NCB" :> K("ncb", U16, 0)
       @@ "NHEADS" :> K("nheads", U16, 0) @@ "LEVELS" :> K("levels", U16, 0)
       @@ "CONTEXT" :> K("context", U16, 0) @@ "TEMP" :> K("temp", Big, 1) @@ "TOPK" :> K("topk", U16, 0))
  @@ "RET" :> Regs(0)

ClusterRows ==
  "SEND_TENSOR" :> Bare(Maybe(Row(1, "NODE" :> K("node", Big, 0) @@ "OFF" :> K("offset", Big, 0)
                                     @@ "LEN" :> K("len", Big, 0))),
                        "MOVE" :> Sets("mode", 1) @@ "COPY" :> Sets("mode", 0))
  @@ "BARRIER" :> Row(0, "ID" :> Must(K("id", Big, Bad)) @@ "EXPECT" :> Must(K("expected", U16, Bad))
       @@ "TIMEOUT" :> K("timeout", U16, 0) @@ "EPOCH" :> K("epoch", Big, 0))

\* Thousandths stand for the fractions of these defaults.
EngineRows ==
  "DENOISE_STEP" :> Maybe(Row(3, "ALPHA" :> K("alpha", Big, 980) @@ "BETA" :> K("beta", Big, 20)
                                 @@ "SIGMA" :> K("sigma", Big, 0) @@ "T" :> K("step", Big, 500)))
  @@ "ODE_STEP" :> Maybe(Row(3, "DT" :> K("dt", Big, 10) @@ Layer
       @@ "METHOD" :> Choice("method", "EULER" :> 0 @@ "RK2" :> 1 @@ "RK4" :> 2, 0)))
  @@ "SPIKE_STEP" :> Maybe(Row(3, "THRESH" :> K("thresh", Big, 1000) @@ "DECAY" :> K("decay", Big, 900)
       @@ "RESET" :> K("reset", Big, 0) @@ Layer @@ "REFRACT" :> K("refr", U8, 2)))
  @@ "CONV" :> Maybe(Row(3, "STRIDE" :> K("stride", U16, 1) @@ "PAD" :> K("pad", U16, 0)
       @@ "DILATION" :> K("dilation", U16, 1) @@ "GROUPS" :> K("groups", U8, 1)
       @@ "ACT" :> Choice("act", "NONE" :> 0 @@ "SILU" :> 1 @@ "RELU" :> 2, 0)))

StoreRows ==
  "FOREST" :> Row(4, "TREES" :> Equ(K("trees", 1..65535, 1)) @@ "DEPTH" :> Equ(K("depth", 1..16, 1))
                     @@ "MODE" :> Choice("mode", "VOTE" :> 0 @@ "MEAN" :> 1, 0))
  @@ "RAG_INDEX_ADD" :> Plus1(Regs(3)) @@ Named({"RAG_INDEX_DEL", "EMBED_LOOKUP"}, Regs(3))
  @@ "RAG_SEARCH" :> Row(3, "TOPK" :> Equ(K("topk", 1..65535, 1))
       @@ "METRIC" :> Coded("metric", "COSINE" :> 0 @@ "EUCLID" :> 1 @@ "DOT" :> 2, 0))
ModelRows ==
  Named({"PQ_ENCODE", "PQ_DECODE"}, Row(3, "NSUB" :> Must(Equ(K("nsub", 1..65535, Bad)))))
  @@ "LOAD_MODEL" :> Row(1, "MODEL" :> Must(Equ(K("id", 1..65535, Bad))))
  @@ "KILL_CONTEXT" :> Regs(1) @@ "SET_MODEL" :> Regs(2) @@ Named({"HALT", "NOP"}, Regs(0))

RowTable == TensorRows @@ AlignRows @@ SsmRows @@ IndexRows @@ RandomRows @@ TelemetryRows @@ MoveRows
  @@ ArenaRows @@ SnapshotRows @@ CastRows @@ OrderRows @@ ShapeRows @@ CacheRows @@ AudioRows
  @@ ClusterRows @@ EngineRows @@ StoreRows @@ ModelRows

---------------------------------------------------------------------------
\* Mnemonics with a grammar of their own.  OneOf reads a word or its code.
OneOf(tok, names) ==
  CASE tok.k = "word" /\ tok.v = 0 /\ tok.s \in DOMAIN names -> names[tok.s]
    [] tok.k = "num" /\ tok.v \in Range(names) -> tok.v
    [] OTHER -> Bad
From(toks, i) == SubSeq(toks, i, Len(toks))
Only(toks, words) == \A t \in ToSet(toks) : t.k = "word" /\ t.v = 0 /\ t.s \in words
Has(toks, words)  == \E t \in ToSet(toks) : Only(<<t>>, words)

\* TENSOR.  What follows the shape: SPARSE, DENSITY, FILL, in any order.
DTypes == "F32" :> 0 @@ "F16" :> 1 @@ "I8" :> 2 @@ "U8" :> 3 @@ "BF16" :> 64
IsDim(tok, syms) == ParseImm(tok, syms) # Bad
MakeTensor(regs, rows, cols, dtype, rest) ==
  LET given(s) == SelectSeq(rest, LAMBDA t : t.k = "key" /\ t.s = s)
      sparse == Has(rest, {"SPARSE"}) \/ given("DENSITY") # <<>>
      field(f, s) == IF given(s) = <<>> THEN <<>> ELSE f :> Last(given(s)).v
      vals == "rows" :> rows @@ "cols" :> cols @@ "dtype" :> dtype @@ field("fill", "FILL")
              @@ (IF sparse THEN "sparse" :> 1 @@ field("density", "DENSITY") @@ "density" :> 5 ELSE <<>>)
  IN  Try(/\ Bad \notin Range(regs) /\ dtype # Bad
          /\ \A t \in ToSet(rest) : Only(<<t>>, {"SPARSE"}) \/ (t.k = "key" /\ t.s \in {"DENSITY", "FILL"})
          /\ ~(sparse /\ given("FILL") # <<>>),
         Make("TENSOR", IF given("FILL") = <<>> THEN 0 ELSE 1, regs, vals))

\* A literal shape: RxC or two numbers.  A first number that no second one
\* follows is read past: the shape is then two by two.
LiteralTensor(toks, syms) ==
  LET pair == toks[2].k = "shape"
      two == ~pair /\ IsDim(toks[3], syms)
      rows == IF pair THEN toks[2].dims[1] ELSE IF two THEN ParseImm(toks[2], syms) ELSE 2
      cols == IF pair THEN toks[2].dims[2] ELSE IF two THEN ParseImm(toks[3], syms) ELSE 2
      after == From(toks, IF two THEN 4 ELSE 3)
      types == {i \in DOMAIN after : OneOf(after[i], DTypes) # Bad}
      dtype == IF types = {} THEN 0 ELSE OneOf(after[Min(types)], DTypes)
      rest == IF types = {} THEN after ELSE RemoveAt(after, Min(types))
  IN  IF pair \/ two \/ toks[2].k = "num"
      THEN MakeTensor(<<ParseReg(toks[1], syms)>>, rows, cols, dtype, rest)
      ELSE Err

\* The form with registers.  A lone DENSITY in the fifth place is passed over.
ParseTensor(toks, syms) ==
  LET n == Len(toks)
      regs == [i \in 1..Min({n, 3}) |-> ParseReg(toks[i], syms)]
      pair == n > 3 /\ toks[4].k = "shape"
      first == IF n < 4 \/ pair THEN 0 ELSE OneOf(toks[4], DTypes)
      loose == n > 4 /\ (Has(<<toks[5]>>, {"SPARSE"}) \/ (toks[5].k = "key" /\ toks[5].s = "DENSITY"))
      dtype == IF first = Bad \/ n < 5 \/ loose THEN first ELSE OneOf(toks[5], DTypes)
      rest == IF n = 5 /\ Has(<<toks[5]>>, {"SPARSE"}) THEN From(toks, 5) ELSE From(toks, 6)
  IN  CASE n = 0 -> Err
        [] n >= 3 /\ (toks[2].k = "shape" \/ IsDim(toks[2], syms)) -> LiteralTensor(toks, syms)
        [] pair -> MakeTensor(regs, toks[4].dims[1], toks[4].dims[2], dtype, rest)
        [] OTHER -> MakeTensor(regs, 2, 2, dtype, rest)

ParseStream(toks, syms) ==
  LET sink == OneOf(toks[2], "OUTPUT" :> 0 @@ "INPUT" :> 1 @@ "SAMPLE" :> 2 @@ "DECODED" :> 4)
      regs == <<ParseReg(toks[1], syms), IF sink # Bad THEN sink ELSE ParseReg(toks[2], syms)>>
      mode == IF Len(toks) < 3 THEN 1 ELSE IF Has(<<toks[3]>>, {"BLOCKING"}) THEN 1
              ELSE IF Has(<<toks[3]>>, {"DROP"}) THEN 2 ELSE Bad
  IN  IF Len(toks) \notin 2..3 THEN Err
      ELSE Try(Bad \notin (Range(regs) \cup {mode}), Make("STREAM", mode, regs, <<>>))

\* FORK to a label, or with the classic operands.  A label hides a priority
\* of the same name.
ParseFork(toks, syms) ==
  LET target == Label(toks[2], syms)
      notes  == {"NOTIFY", "NOTIFY_SCHEDULER"}
      prio == CASE target = Bad -> OneOf(toks[2], Colours)
                [] Len(toks) < 3 \/ Only(<<toks[3]>>, notes) -> 0
                [] OTHER -> OneOf(toks[3], Colours)
      rest == From(toks, 3)
      note == IF target = Bad THEN rest # <<>> /\ Only(<<rest[1]>>, notes) ELSE Has(rest, notes)
  IN  IF Len(toks) < 2 THEN Err
      ELSE Try(/\ ParseReg(toks[1], syms) # Bad /\ prio # Bad
               /\ \A t \in ToSet(rest) : Only(<<t>>, notes)
                    \/ (target # Bad /\ OneOf(t, Colours) # Bad),
               Make("FORK", prio + (IF note THEN 4 ELSE 0), <<ParseReg(toks[1], syms)>>,
                    IF target = Bad THEN <<>> ELSE "imm" :> target))

ParseSense(toks, syms) ==
  LET names == "AUDIO" :> 0 @@ "VAD" :> 1 @@ "TOKEN" :> 3 @@ "USER_INPUT" :> 5 @@ "PCM" :> 6 @@ "CODEC_FRAME" :> 7
      from == IF Len(toks) = 2 /\ toks[2].k = "num" /\ toks[2].v \in U8 THEN toks[2].v
              ELSE IF Len(toks) = 2 THEN OneOf(toks[2], names) ELSE Bad
  IN  IF from = Bad THEN Err
      ELSE Try(ParseReg(toks[1], syms) # Bad, Make("SENSE", 0, <<ParseReg(toks[1], syms), from>>, <<>>))

\* FFN takes four, five or six registers.  The length it asks for is one
\* short, and the fourth is then indexed all the same.
ParseFfn(toks, syms) ==
  LET n == Min({Len(toks), 6})
      r == [i \in 1..n |-> ParseReg(toks[i], syms)]
      w2 == IF n = 6 THEN r[5] ELSE r[4]
      biases == "b1" :> (IF n = 6 THEN r[4] ELSE Absent)
                @@ "b2" :> (IF n = 6 THEN r[6] ELSE IF n = 5 THEN r[5] ELSE Absent)
  IN  IF Len(toks) \notin 3..6 \/ Bad \in Range(r) THEN Err
      ELSE IF n = 3 THEN Crash ELSE Good(Make("FFN", 0, <<r[1], r[2], r[3], w2>>, biases))

ParseSample(toks, syms) ==
  LET row == Row(2, "TEMP" :> K("temp", Big, 1) @@ "TOPK" :> K("topk", U16, 0))
      named == [i \in DOMAIN toks |-> IF i > 2 /\ toks[i].k = "num" THEN Key("TEMP", toks[i].v) ELSE toks[i]]
  IN  ParseRow("SAMPLE", row, named, syms)

\* The second operand is EOS_TOKEN, else a register, else a number: a number
\* below 16 names a register.
Predicates == "EQ" :> 0 @@ "NE" :> 1 @@ "LT" :> 2 @@ "LE" :> 3 @@ "GT" :> 4 @@ "GE" :> 5
EosToken   == 2
ParseCompare(toks, syms) ==
  LET eos == Has(<<toks[2]>>, {"EOS_TOKEN"})
      reg == IF eos THEN Bad ELSE ParseReg(toks[2], syms)
      imm == IF eos THEN EosToken ELSE IF reg # Bad THEN 0 ELSE ParseImm(toks[2], syms)
      row == Row(1, "PRED" :> Choice("pred", Predicates, 0))
      with(rest) == Make("COMPARE", 0, <<rest.a, IF reg = Bad THEN Absent ELSE reg>>,
                         "imm" :> imm @@ "pred" :> Params(rest).pred)
  IN  IF Len(toks) < 2 \/ imm = Bad THEN Err
      ELSE Then(ParseRow("COMPARE", row, <<toks[1]>> \o From(toks, 3), syms), with)

ParseJump(op, toks, syms) ==
  LET regs == IF op = "IF_INTERRUPT" /\ Len(toks) = 2 THEN <<ParseReg(toks[1], syms)>> ELSE <<>>
  IN  IF Len(toks) # Len(regs) + 1 THEN Err
      ELSE Try(Bad \notin Range(regs) /\ Label(Last(toks), syms) # Bad,
               Make(op, 0, regs, [imm |-> Label(Last(toks), syms)]))

\* With TENSOR among the extra operands, the others are not looked at.
ParseCodec(op, toks, syms) ==
  LET regs == [i \in 1..2 |-> ParseReg(toks[i], syms)]
      tensor == Has(From(toks, 3), {"TENSOR"})
  IN  IF Len(toks) < 2 THEN Err
      ELSE Try(Bad \notin Range(regs) /\ (tensor \/ Len(toks) = 2),
               Make(op, IF tensor THEN 1 ELSE 0, regs, <<>>))

ParseSwitch(toks, syms) ==
  LET pipe == IF toks = <<>> THEN Bad
              ELSE OneOf(toks[1], "MAMBA" :> 0 @@ "TRANSFORMER" :> 1 @@ "AUDIO" :> 2)
  IN  Try(pipe # Bad /\ \A t \in ToSet(Tail(toks)) : OneOf(t, Colours) # Bad,
          Make("CTX_SWITCH", IF Len(toks) = 1 THEN 0 ELSE OneOf(Last(toks), Colours), <<pipe>>,
               "pipe" :> pipe @@ "magic" :> 165))

ParseSeed(toks, syms) ==
  LET reg == IF Len(toks) # 1 THEN Bad
             ELSE IF Has(toks, {"DEFAULT"}) THEN Absent ELSE ParseReg(toks[1], syms)
  IN  Try(reg # Bad, Make("RNG_SEED", 0, <<reg>>, <<>>))

ParseLoadi(toks, syms) ==
  IF Len(toks) # 2 THEN Err
  ELSE LET v == IF toks[2].k = "at" THEN Lookup(syms.addrs, toks[2].s) ELSE ParseImm(toks[2], syms)
       IN  Try(ParseReg(toks[1], syms) # Bad /\ v # Bad,
               Make("LOADI", 0, <<ParseReg(toks[1], syms)>>, [imm |-> v]))

\* The labels are words an ENTRY may name.
ParseSpawn(toks, syms) ==
  LET entry == [Must(K("entry", Big, Bad)) EXCEPT !.names = syms.labels]
      digits == [i \in DOMAIN toks |-> IF i > 1 /\ toks[i].k = "num" /\ toks[i].v \in 0..2
                                       THEN Key("PRI", toks[i].v) ELSE toks[i]]
      row == Bare(Row(1, "NODE" :> K("node", Big, 0) @@ "ENTRY" :> entry @@ "PRI" :> Coded("prio", Colours, 0)),
                  [w \in DOMAIN Colours |-> Sets("prio", Colours[w])])
  IN  ParseRow("REMOTE_SPAWN", row, digits, syms)

ParseSignal(toks, syms) ==
  LET kinds == "ABORT" :> 0 @@ "FORK_REQ" :> 1 @@ "HALT" :> 2 @@ "PING" :> 3
      row == Row(1, "KIND" :> Coded("kind", kinds, 3) @@ "NODE" :> K("node", Big, 0)
                    @@ "CTX" :> K("ctx", Big, 0) @@ "SEQ" :> K("seq", Big, 0))
      given == SelectSeq(toks, LAMBDA t : t.k = "key" /\ t.s = "KIND")
      kind == IF given = <<>> THEN 3 ELSE KeyValue(row.keys["KIND"], Last(given), syms)
  IN  Then(ParseRow("SIGNAL", row, toks, syms), LAMBDA ins : [ins EXCEPT !.a = kind])

ParseSpawnContext(toks, syms) ==
  LET models == SelectSeq(From(toks, 4), LAMBDA t : t.k = "key" /\ t.s = "MODEL")
      reg(t) == ParseReg(IF t.w = "" THEN Num(t.v) ELSE Word(t.w), syms)
      model == IF models = <<>> THEN Absent ELSE reg(Last(models))
  IN  IF Len(toks) < 3 THEN Err
      ELSE Try(/\ Bad \notin {ParseReg(toks[1], syms), Label(toks[2], syms), OneOf(toks[3], Colours), model}
               /\ Len(models) = Len(toks) - 3 /\ \A t \in ToSet(models) : reg(t) # Bad,
               Make("SPAWN_CONTEXT", OneOf(toks[3], Colours), <<ParseReg(toks[1], syms), model>>,
                    "imm" :> Label(toks[2], syms)))

\* SSM_SCAN collects its two flags; SCATTER_ADD is a mode of GATHER.
ParseScan(toks, syms) ==
  LET bit(w, b) == IF Has(From(toks, 5), {w}) THEN b ELSE 0
  IN  Then(ParseRow("SSM_SCAN", RowTable["SSM_SCAN"], toks, syms),
           LAMBDA ins : [ins EXCEPT !.flags = bit("CONV", 1) + bit("GATE", 2)])

Jumping == {"JUMP", "IF_EQUAL", "IF_INTERRUPT", "CALL"}
OwnGrammar ==
  Jumping \cup {"TENSOR", "STREAM", "FORK", "SENSE", "FFN", "SAMPLE", "COMPARE", "CODEC_ENC", "CODEC_DEC",
               "CTX_SWITCH", "RNG_SEED", "LOADI", "REMOTE_SPAWN", "SIGNAL", "SPAWN_CONTEXT", "SSM_SCAN", "SCATTER_ADD"}
Mnemonics == OwnGrammar \cup DOMAIN RowTable

ParseLine(op, toks, syms) ==
  CASE op = "TENSOR" -> ParseTensor(toks, syms)
    [] op = "STREAM" -> ParseStream(toks, syms)
    [] op = "FORK" -> ParseFork(toks, syms)
    [] op = "SENSE" -> ParseSense(toks, syms)
    [] op = "FFN" -> ParseFfn(toks, syms)
    [] op = "SAMPLE" -> ParseSample(toks, syms)
    [] op = "COMPARE" -> ParseCompare(toks, syms)
    [] op \in Jumping -> ParseJump(op, toks, syms)
    [] op \in {"CODEC_ENC", "CODEC_DEC"} -> ParseCodec(op, toks, syms)
    [] op = "CTX_SWITCH" -> ParseSwitch(toks, syms)
    [] op = "RNG_SEED" -> ParseSeed(toks, syms)
    [] op = "LOADI" -> ParseLoadi(toks, syms)
    [] op = "REMOTE_SPAWN" -> ParseSpawn(toks, syms)
    [] op = "SIGNAL" -> ParseSignal(toks, syms)
    [] op = "SPAWN_CONTEXT" -> ParseSpawnContext(toks, syms)
    [] op = "SSM_SCAN" -> ParseScan(toks, syms)
    [] op = "SCATTER_ADD" -> ParseRow("GATHER", RowTable[op], toks, syms)
    [] op \in DOMAIN RowTable \ OwnGrammar -> ParseRow(op, RowTable[op], toks, syms)
    [] OTHER -> Err
=============================================================================
