------------------------------ MODULE Encoding ------------------------------
(***************************************************************************)
(* The 32-byte instruction: an opcode, flags, four registers and a payload *)
(* of 26 bytes.  Each opcode has a form, the registers its constructor     *)
(* fills, and a layout, the fields its setters write and its getters read. *)
(* Opcodes are names; floating-point fields hold integers.                 *)
(***************************************************************************)
EXTENDS Integers, SequencesExt

Byte    == 256
Payload == 0..25
Absent  == 255        \* 0xFF: no register

Instr(op, flags, d, a, b, c) ==
  [op |-> op, flags |-> flags, d |-> d, a |-> a, b |-> b, c |-> c,
   payload |-> [k \in Payload |-> 0]]

\* The registers a constructor takes, in order.
None == <<>>
D    == <<"d">>
A    == <<"a">>
AB   == <<"a", "b">>
DA   == <<"d", "a">>
DAB  == <<"d", "a", "b">>
DABC == <<"d", "a", "b", "c">>

\* A field: where it lies, and the values its getter takes as they are; any
\* other reads as the default.  A narrow field is cut to its largest value by
\* the setter, the others have the type of their value.
F(name, at, width) ==
  [name |-> name, at |-> at, width |-> width, plain |-> Nat, default |-> 0, cut |-> FALSE]
ZeroIs(default, f) == [f EXCEPT !.plain = Nat \ {0}, !.default = default]
Cut(f) == [f EXCEPT !.cut = TRUE]
Imm    == F("imm", 0, 16)

\* Little-endian bytes of v, least significant first.
Quotients(v, width) ==
  LET q[k \in 0..width] == IF k = 0 THEN v ELSE q[k - 1] \div Byte IN q
Digits(v, width) == [k \in 1..width |-> Quotients(v, width)[k - 1] % Byte]
Number(bytes) ==
  LET n == Len(bytes)
      read[k \in 0..n] == IF k = 0 THEN 0 ELSE read[k - 1] * Byte + bytes[n - k + 1]
  IN  read[n]

Largest(width) == IF width >= 4 THEN 2147483647 ELSE Byte ^ width - 1

\* Mutant of Place: the most significant byte is not written.
PlaceShort(f) == f.at..(f.at + f.width - 2)
Place(f)      == f.at..(f.at + f.width - 1)

\* The setters, in the order of the layout: each writes its value over what
\* an earlier one has written there.
Put(layout, vals) ==
  LET on(k) == {i \in DOMAIN layout : layout[i].name \in DOMAIN vals /\ k \in Place(layout[i])}
      taken(f) == IF f.cut THEN Min({vals[f.name], Largest(f.width)}) ELSE vals[f.name]
      byte(f, k) == Digits(taken(f), f.width)[k - f.at + 1]
  IN  [k \in Payload |-> IF on(k) = {} THEN 0 ELSE byte(layout[Max(on(k))], k)]
Get(payload, f) ==
  LET v == Number([k \in 1..f.width |-> payload[f.at + k - 1]])
  IN  IF v \in f.plain THEN v ELSE f.default

---------------------------------------------------------------------------
\* Forms and layouts, by the blocks of the source.  No name is in two tables.
Merged(tables) ==
  [x \in UNION {DOMAIN tables[i] : i \in DOMAIN tables} |->
     tables[CHOOSE i \in DOMAIN tables : x \in DOMAIN tables[i]][x]]
Ops(names, form, layout) == [op \in names |-> [form |-> form, layout |-> layout]]

\* TENSOR has three setters: shape and dtype, sparsity, and the fill.
TensorOps ==
  Ops({"TENSOR"}, DAB, <<ZeroIs(2, F("rows", 0, 8)), ZeroIs(2, F("cols", 8, 8)),
                        F("dtype", 16, 1), F("sparse", 17, 1),
                        [F("density", 18, 4) EXCEPT !.plain = 1..100, !.default = 5],
                        F("fill", 22, 4)>>)

CoreOps ==
  Merged(<<
    Ops({"ATTN", "NORM"}, DABC, <<>>),
    Ops({"FFN"}, DABC, <<F("b1", 0, 1), F("b2", 1, 1)>>),
    Ops({"EMBED", "ADD", "MATVEC", "MUL"}, DAB, <<>>),
    Ops({"SENSE", "SILU"}, DA, <<>>),
    Ops({"STREAM", "ABORT"}, AB, <<>>),
    Ops({"FORK"}, D, <<Imm>>),
    Ops({"SAMPLE"}, DA, <<F("temp", 0, 4), F("topk", 4, 2)>>),
    Ops({"COMPARE"}, AB, <<Imm, F("pred", 16, 1)>>),
    Ops({"IF_EQUAL", "JUMP"}, None, <<Imm>>),
    Ops({"IF_INTERRUPT"}, A, <<Imm>>),
    Ops({"HALT", "NOP"}, None, <<>>)>>)

SequenceOps ==
  LET state == <<Cut(ZeroIs(1, F("inner", 0, 2))), Cut(ZeroIs(1, F("state", 2, 2))),
                 F("layer", 4, 1)>>
  IN  Merged(<<
        Ops({"SSM_SCAN"}, DABC, state),
        Ops({"SSM_RESET"}, A, state),
        Ops({"ROPE"}, DA, <<F("pos", 0, 4), Cut(ZeroIs(2, F("headdim", 4, 2))),
                               Cut(ZeroIs(1, F("heads", 6, 2))), ZeroIs(10000, F("theta", 8, 4))>>),
        Ops({"AUDIO_ALIGN"}, DAB,
              <<ZeroIs(24000, F("rate", 0, 4)), ZeroIs(1920, F("frame", 4, 4)),
                ZeroIs(1250, F("hz100", 8, 4)), ZeroIs(16000, F("delay100", 12, 4))>>)>>)

PipeOps ==
  Merged(<<
    Ops({"CODEC_ENC", "CODEC_DEC"}, DA, <<>>),
    Ops({"CTX_SWITCH"}, A, <<F("pipe", 0, 1), F("magic", 1, 1)>>)>>)

ClusterOps ==
  Merged(<<
    Ops({"REMOTE_SPAWN"}, D, <<F("node", 0, 4), F("entry", 4, 8), F("prio", 12, 1)>>),
    Ops({"SIGNAL"}, DA, <<F("node", 0, 4), F("ctx", 4, 8), F("seq", 12, 8)>>),
    Ops({"SEND_TENSOR"}, DA, <<F("node", 0, 4), F("offset", 4, 8), F("len", 12, 4),
                                  F("mode", 16, 1)>>),
    Ops({"BARRIER"}, None, <<F("id", 0, 4), F("expected", 4, 2), F("timeout", 6, 2),
                                F("epoch", 8, 4)>>)>>)

IndexOps ==
  Merged(<<
    Ops({"GATHER"}, DABC, <<F("axis", 0, 1), F("mode", 1, 1), F("hint", 2, 2)>>),
    Ops({"DISTANCE"}, DAB, <<F("metric", 0, 1), F("topk", 1, 2)>>),
    Ops({"RANK1_UPDATE"}, DAB, <<F("alpha", 0, 4), F("beta", 4, 4), F("mode", 8, 1),
                                    F("layer", 9, 1)>>)>>)

RandomOps ==
  Merged(<<
    Ops({"RNG_SEED"}, A, <<>>),
    Ops({"RNG_NEXT"}, D, <<>>),
    Ops({"RNG_UNIFORM"}, D, <<F("lo", 0, 4), F("hi", 4, 4)>>),
    Ops({"RNG_NORMAL"}, D, <<F("mean", 0, 4), ZeroIs(1, F("std", 4, 4))>>),
    Ops({"HASH", "CHECKSUM"}, DA, <<>>),
    Ops({"HMAC"}, DAB, <<>>)>>)

TelemetryOps ==
  Merged(<<
    Ops({"CYCLES_COUNT", "PREEMPT_CHECK", "GET_DEADLINE", "PRIORITY_GET"}, D, <<>>),
    Ops({"TRACE_EVENT"}, AB, <<>>),
    Ops({"SANITY_CHECK"}, <<"d", "a", "c">>, <<>>),
    Ops({"ASSERT"}, A, <<F("code", 0, 2)>>),
    Ops({"DUMP", "YIELD", "FENCE"}, None, <<>>),
    Ops({"SET_DEADLINE", "PRIORITY_SET", "LOCK", "UNLOCK"}, A, <<>>)>>)

MoveOps ==
  Merged(<<
    Ops({"LOADI"}, D, <<Imm>>),
    Ops({"MOV"}, DA, <<>>),
    Ops({"KV_TRUNCATE"}, A, <<F("stream", 0, 2)>>)>>)

ArenaOps ==
  Merged(<<
    Ops({"SLICE"}, DA, <<F("start", 0, 4), F("len", 4, 4)>>),
    Ops({"ARENA_ALLOC"}, D, <<F("size", 0, 8), F("align", 8, 4), F("arena", 12, 1)>>),
    Ops({"ARENA_RESET"}, None, <<F("arena", 0, 1)>>),
    Ops({"MEMCPY"}, DA, <<F("len", 0, 8), F("src", 8, 8), F("dst", 16, 8), F("dir", 24, 1)>>),
    Ops({"MEMSET"}, D, <<F("pattern", 0, 1), F("len", 1, 4), F("offset", 5, 8)>>)>>)

Dims == <<F("ndim", 0, 1), F("d0", 1, 4), F("d1", 5, 4), F("d2", 9, 4), F("d3", 13, 4)>>
SnapshotOps ==
  Merged(<<
    Ops({"SNAPSHOT"}, D, <<F("mask", 0, 1)>>),
    Ops({"RESTORE"}, A, <<>>),
    Ops({"PREFETCH"}, D, <<F("len", 0, 4), F("offset", 4, 8)>>),
    Ops({"RESHAPE"}, DA, Dims),
    Ops({"CONCAT"}, DAB, <<F("axis", 0, 1)>>)>>)

CastOps ==
  Merged(<<
    Ops({"CAST"}, DA, <<F("dst", 0, 1)>>),
    Ops({"QUANTIZE"}, DA, <<F("type", 0, 1)>>),
    Ops({"DEQUANT"}, DA, <<>>)>>)

OrderOps ==
  Merged(<<
    Ops({"SORT"}, DA, <<F("axis", 0, 1), F("order", 1, 1)>>),
    Ops({"TOPK"}, DA, <<F("axis", 0, 1), F("k", 1, 2), F("largest", 3, 1), F("sorted", 4, 1)>>),
    Ops({"ARGMAX"}, DA, <<F("axis", 0, 1)>>),
    Ops({"REDUCE"}, DA, <<F("op", 0, 1), F("axis", 1, 1)>>),
    Ops({"BROADCAST"}, DA, Dims),
    Ops({"PAD"}, DA, <<F("value", 0, 4), F("axis", 4, 1), F("before", 5, 4), F("after", 9, 4)>>),
    Ops({"TILE"}, DA, <<F("reps", 0, 4), F("axis", 4, 1)>>),
    Ops({"TRANSPOSE"}, DA, <<F("ndim", 0, 1), F("p0", 1, 1), F("p1", 2, 1), F("p2", 3, 1),
                                F("p3", 4, 1)>>)>>)

Activations == {"GELU", "SIGMOID", "TANH", "RELU", "EXP", "LOG"}
ActivationOps ==
  Merged(<<
    Ops({"SOFTMAX"}, DA, <<F("axis", 0, 1), F("temp", 1, 4)>>),
    Ops({"CLIP"}, DA, <<F("min", 0, 4), F("max", 4, 4)>>),
    Ops(Activations, DA, <<>>)>>)

CallOps ==
  Merged(<<
    Ops({"DEPFORMER"}, DAB,
        <<F("stream", 0, 1), F("layer", 1, 1), F("ncb", 2, 2), F("nheads", 4, 2),
          F("levels", 6, 2), F("context", 8, 2), F("temp", 10, 4), F("topk", 14, 2)>>),
    Ops({"CALL"}, None, <<Imm>>),
    Ops({"RET"}, None, <<>>)>>)

CacheOps ==
  Merged(<<
    Ops({"KV_COMPRESS"}, None, <<F("sink", 0, 2), F("window", 2, 2), F("mode", 4, 1),
                                 F("stream", 5, 2)>>),
    Ops({"FLASH_ATTN"}, DABC, <<F("block", 0, 2)>>),
    Ops({"ATTN_SPARSE"}, DABC, <<F("metric", 0, 1), F("topk", 1, 2)>>)>>)

AudioOps ==
  Merged(<<
    Ops({"VAD_DETECT"}, DA, <<F("mode", 0, 1)>>),
    Ops({"STREAM_MERGE"}, DAB, <<F("gain", 0, 4), F("n", 4, 2), F("mode", 6, 1)>>),
    Ops({"AUDIO_RESAMPLE"}, DA, <<F("src", 0, 4), F("dst", 4, 4)>>),
    Ops({"AUDIO_FILTER"}, DAB, <<F("mode", 0, 1)>>),
    Ops({"AUDIO_WINDOW"}, DA, <<F("type", 0, 1)>>)>>)

ImmOps ==
  Merged(<<
    Ops({"ADD_IMM", "SUB_IMM"}, DA, <<Imm>>),
    Ops({"STEPS"}, D, <<>>)>>)

EngineOps ==
  Merged(<<
    Ops({"DENOISE_STEP"}, DABC, <<F("alpha", 0, 4), F("beta", 4, 4), F("sigma", 8, 4),
                                  F("step", 12, 4)>>),
    Ops({"ODE_STEP"}, DABC, <<F("dt", 0, 4), F("method", 4, 1), F("layer", 5, 1)>>),
    Ops({"SPIKE_STEP"}, DABC, <<F("thresh", 0, 4), F("decay", 4, 4), F("reset", 8, 4),
                                   F("layer", 12, 1), F("refr", 13, 1)>>),
    Ops({"CONV"}, DABC, <<F("stride", 0, 2), F("pad", 2, 2), F("dilation", 4, 2),
                             ZeroIs(1, F("groups", 6, 1)), F("act", 7, 1)>>)>>)

StoreOps ==
  Merged(<<
    Ops({"FOREST"}, DABC, <<F("trees", 0, 2), F("depth", 2, 2), F("mode", 4, 1)>>),
    Ops({"RAG_INDEX_ADD"}, DABC, <<>>),
    Ops({"RAG_INDEX_DEL", "EMBED_LOOKUP"}, DAB, <<>>),
    Ops({"RAG_SEARCH"}, DAB, <<F("topk", 0, 2), F("metric", 2, 1)>>),
    Ops({"PQ_ENCODE", "PQ_DECODE"}, DAB, <<F("nsub", 0, 2)>>),
    Ops({"LOAD_MODEL"}, D, <<F("id", 0, 2)>>),
    Ops({"SPAWN_CONTEXT"}, DA, <<Imm>>),
    Ops({"KILL_CONTEXT"}, A, <<>>),
    Ops({"SET_MODEL"}, AB, <<>>)>>)

OpTable ==
  Merged(<<TensorOps, CoreOps, SequenceOps, PipeOps, ClusterOps, IndexOps, RandomOps, TelemetryOps, MoveOps,
           ArenaOps, SnapshotOps, CastOps, OrderOps, ActivationOps, CallOps, CacheOps, AudioOps, ImmOps,
           EngineOps, StoreOps>>)

---------------------------------------------------------------------------
\* A constructor: the registers it is given go where its form says, the
\* fields it is given are set in the order of the layout.
Built(row, op, flags, regs, vals) ==
  LET reg(slot) == IF \E k \in DOMAIN row.form : row.form[k] = slot /\ k <= Len(regs)
                   THEN regs[CHOOSE k \in DOMAIN row.form : row.form[k] = slot] ELSE Absent
  IN  [Instr(op, flags, reg("d"), reg("a"), reg("b"), reg("c")) EXCEPT !.payload = Put(row.layout, vals)]
Make(op, flags, regs, vals) == Built(OpTable[op], op, flags, regs, vals)

\* The getters.  UNIFORM with both bounds zero is the unit interval.
Unit(ins, read) == IF ins.op = "RNG_UNIFORM" /\ read = [lo |-> 0, hi |-> 0] THEN [lo |-> 0, hi |-> 1] ELSE read
Fields(layout, ins) ==
  LET field(n) == layout[CHOOSE k \in DOMAIN layout : layout[k].name = n]
  IN  Unit(ins, [n \in {f.name : f \in ToSet(layout)} |-> Get(ins.payload, field(n))])
Params(ins) == Fields(OpTable[ins.op].layout, ins)
=============================================================================
