------------------------------- MODULE Machine -------------------------------
(***************************************************************************)
(* One context of the VM at work on a loaded program: fetch, dispatch and  *)
(* the opcodes that compute, with the registers, the tensors, the arenas,  *)
(* the RAG store and the snapshots they touch.  The scheduler and the      *)
(* opcodes of several contexts are RunLoop's.                              *)
(*                                                                         *)
(* A tensor lives at its address from its allocation to the end of the     *)
(* run; only RESTORE takes the map of tensors back.  An opcode that fails  *)
(* ends its context: "err".  A panic ends the VM.                          *)
(***************************************************************************)
EXTENDS Container, TensorMath

CONSTANTS ArenaMax,      \* ARENA_MAX_BYTES, 2^30 in the code
          MaxCalls,      \* MAX_CALL_DEPTH, 1024 in the code
          RegLimit       \* registers hold 0..(RegLimit - 1); 2^128 in the code

ASSUME MachineConstants == ArenaMax \in Nat /\ ArenaMax <= 2 ^ 30 /\ MaxCalls \in Nat /\ RegLimit \in Nat \ {0}

VARIABLES
  prog,      \* Vm::program: instructions
  pc,        \* Context::pc
  cmp,       \* Context::cmp_equal
  calls,     \* Context::call_stack
  regs,      \* Context::regs
  heap,      \* MemoryManager::tensor_meta and the contents: address -> tensor
  cursor,    \* MemoryManager::next_global_offset
  saved,     \* MemoryManager::snapshots: version -> heap
  version,   \* MemoryManager::version
  engines,   \* Vm::arenas, rank1_layers and rag_store: [arenas, layers, rag]
  stores,    \* what the Arcs of RAG stores point to
  stack,     \* the engine snapshots, from bottom to top
  data,      \* the data section, a block of its own: address -> <<blob, byte>>
  blocks,    \* history: arena blocks handed out and still good
  last,      \* history: the operands and the result of the last step
  phase      \* "running", "ended", "err" or "panic"

ctxVars == <<pc, cmp, calls, regs>>
memVars == <<heap, cursor, saved, version>>
engVars == <<engines, stores, stack, blocks>>
machineVars == <<prog, ctxVars, memVars, engVars, last, phase>>

Registers == 0..15

---------------------------------------------------------------------------
\* Fetch: a program counter is the start of an instruction or nothing.
Size == Len(prog) * InstrSize
Starts == {ProgramBase + k * InstrSize : k \in 0..(Len(prog) - 1)}
Current == prog[(pc - ProgramBase) \div InstrSize + 1]
Fetches(ops) == phase = "running" /\ pc \in Starts /\ Current.op \in ops

Advance == pc' = pc + InstrSize /\ UNCHANGED <<prog, calls, cmp, phase>>
Quiet   == last' = [op |-> "none"]

\* An error: what the handler did before it stays.
Stop(why) == phase' = why /\ UNCHANGED <<prog, pc, cmp, calls>>
Refuse == Stop("err") /\ UNCHANGED <<regs, memVars, engVars>>
Crashes == Stop("panic") /\ UNCHANGED <<regs, memVars, engVars>>

\* A byte for a register names one, or nothing, or is an error to use.
IsReg(r) == r \in Registers
RegOrNone(r) == IsReg(r) \/ r = Absent
SetReg(r, v) == regs' = [regs EXCEPT ![r] = v]

\* The end of most handlers: set_reg, which may still fail.
SetTo(r, v) == IF IsReg(r) THEN SetReg(r, v) /\ Advance ELSE UNCHANGED regs /\ Stop("err")
\* A destination that may be left out.
SetAny(r, v) == IF r = Absent THEN UNCHANGED regs /\ Advance ELSE SetTo(r, v)

HasTensor(r) == IsReg(r) /\ regs[r] \in DOMAIN heap
TensorAt(r)  == IF HasTensor(r) THEN heap[regs[r]] ELSE NoTensor

---------------------------------------------------------------------------
\* MemoryManager::read, of n bytes: inside the block of a tensor or of the data
\* section, or in one of the two regions that are buffers.  The region is the
\* top byte of an address; that of the KV cache holds nothing here.
Region(a) == a \div (RegLimit \div 256)
Global == 0
Temporal == 16
Persistent == 32
Inside(a, n, base, bytes) == base <= a /\ a + n <= base + AlignUp(bytes, 64)
Holders(a, n) == {h \in DOMAIN heap : Inside(a, n, h, TensorBytes(heap[h]))}
InData(a, n) ==
  data # <<>> /\ LET base == Min(DOMAIN data) IN Inside(a, n, base, Max(DOMAIN data) + 1 - base)
CanRead(a, n) ==
  \/ Region(a) = Global /\ (Holders(a, n) # {} \/ InData(a, n))
  \/ Region(a) \in {Temporal, Persistent}

\* The four bytes at an address: an element, zeros, or some other number.
WordIn(h, off) ==
  LET t == heap[h] IN
  CASE t.sparse \/ off >= TensorBytes(t) -> 0
    [] ~t.sparse /\ off < TensorBytes(t) /\ t.dtype = "F32" /\ off % 4 = 0 -> At(t.data, off \div 4)
    [] OTHER -> Kernel("word", <<off>> \o t.data)
WordAt(a) ==
  IF Holders(a, 4) # {} THEN LET h == Max(Holders(a, 4)) IN WordIn(h, a - h)
  ELSE IF Region(a) = Temporal THEN 0 ELSE Kernel("word", <<a>>)
Words(a, n) == Flat(n, LAMBDA k : WordAt(a + 4 * k))

---------------------------------------------------------------------------
\* Allocation: 64-byte steps from a cursor that never goes back.
Allocate(t) ==
  /\ heap' = With(heap, cursor, t)
  /\ cursor' = cursor + AlignUp(TensorBytes(t), 64)
  /\ UNCHANGED <<saved, version>>

\* Opcodes that check their destination first, and those that can do without
\* one.  The others find out when the tensor is there.
Checked ==
  {"SORT", "TOPK", "ARGMAX", "REDUCE", "BROADCAST", "PAD", "TILE", "TRANSPOSE", "SOFTMAX", "CLIP",
   "RESHAPE", "CAST", "QUANTIZE", "DEQUANT", "RAG_SEARCH", "EMBED_LOOKUP", "PQ_ENCODE", "PQ_DECODE"}
  \cup Activations
Optional == {"SAMPLE", "SLICE", "CONCAT"}

\* A new tensor of the data d, in the destination of the instruction.
Deliver(t, ins) ==
  IF TensorBytes(t) = 0 THEN Refuse
  ELSE /\ Allocate(t)
       /\ IF ins.op \in Optional THEN SetAny(ins.d, cursor) ELSE SetTo(ins.d, cursor)

---------------------------------------------------------------------------
\* TENSOR.  A register may give the rows, another the type; the contents are
\* a ramp in halves, or the fill, which only F32 may have.
TensorType(code) ==
  CASE code = 1 -> "F16" [] code = 2 -> "I8" [] code = 3 -> "U8" [] code = 64 -> "BF16"
    [] OTHER -> "F32"
RowLimit == 1000000
TensorRowCount(ins, p) == IF IsReg(ins.a) /\ regs[ins.a] \in 1..(RowLimit - 1) THEN regs[ins.a] ELSE p.rows
TensorDType(ins, p) == TensorType(IF IsReg(ins.b) /\ regs[ins.b] <= 3 THEN regs[ins.b] ELSE p.dtype)
Filled(ins) == ins.flags = 1

InitialData(ins, p, n, dtype) ==
  CASE dtype = "F32" -> Flat(n, LAMBDA j : IF Filled(ins) THEN p.fill ELSE Kernel("half", <<j + 1>>))
    [] dtype = "F16" -> Flat(n, LAMBDA j : Kernel("bytes", <<(2 * j) % 256, (2 * j + 1) % 256>>))
    [] dtype = "BF16" -> Flat(n, LAMBDA j : 0)
    [] OTHER -> Flat(n, LAMBDA j : j % 256)

\* The contents of a sparse tensor are drawn; their number is what matters.
DenseTensor(ins, p, shape, dtype) == Tensor(shape, dtype, InitialData(ins, p, Numel(shape), dtype))
SparseTensor(p, shape, dtype) == SparseOf(shape, dtype, (Numel(shape) * p.density) \div 100)
MakeTensorOf(ins, p, shape, dtype) ==
  IF p.sparse = 0 /\ Numel(shape) # 0 /\ Filled(ins) /\ dtype # "F32"
  THEN /\ Allocate(Tensor(shape, dtype, Flat(Numel(shape), LAMBDA j : 0)))
       /\ Stop("err") /\ UNCHANGED regs
  ELSE Deliver(IF p.sparse = 1 THEN SparseTensor(p, shape, dtype) ELSE DenseTensor(ins, p, shape, dtype), ins)
NewTensor(ins, p) ==
  /\ Fetches({"TENSOR"})
  /\ MakeTensorOf(ins, p, <<TensorRowCount(ins, p), p.cols>>, TensorDType(ins, p))
  /\ UNCHANGED engVars /\ Quiet

---------------------------------------------------------------------------
\* The opcodes that make a tensor of the tensors in their registers.
Axes(p) == SubSeq(<<p.p0, p.p1, p.p2, p.p3>>, 1, p.ndim)
DimsOf(p) == SubSeq(<<p.d0, p.d1, p.d2, p.d3>>, 1, p.ndim)
Reductions == <<"SUM", "MEAN", "MAX", "MIN", "PROD">>
Scatters   == <<"GATHER", "ADD", "MAX">>
Metrics    == <<"EUCLID", "COSINE", "MANHATTAN", "DOT">>
RagMetrics == <<"COSINE", "EUCLID", "DOT">>
Learning   == <<"HEBBIAN", "DELTA", "FORGET">>

Reshaped(op, p, x, y) ==
  CASE op = "SORT" -> Sort(x, p.axis, p.order)
    [] op = "TOPK" -> TopK(x, p.axis, p.k, p.largest, p.sorted)
    [] op = "ARGMAX" -> ArgMax(x, p.axis)
    [] op = "REDUCE" -> Reduce(x, Reductions[p.op + 1], p.axis)
    [] op = "BROADCAST" -> Broadcast(x, DimsOf(p))
    [] op = "PAD" -> Pad(x, p.axis, p.before, p.after, p.value)
    [] op = "TILE" -> Tile(x, p.axis, p.reps)
    [] op = "TRANSPOSE" -> Transpose(x, Axes(p))
    [] op = "SOFTMAX" -> Softmax(x, p.axis, p.temp)
    [] op = "CLIP" -> Clip(x, p.min, p.max)
    [] op = "RESHAPE" -> Reshape(x, DimsOf(p))
    [] op = "CONCAT" -> Concat(x, y, p.axis)
    [] op = "SLICE" -> Slice(x, p.start, p.len)
    [] op = "CAST" -> Cast(x, <<"F32", "F16", "BF16", "I8", "U8">>[p.dst + 1])
    [] op = "QUANTIZE" -> Quantize(x, IF p.type = 4 THEN "Q4_0" ELSE "Q8_0")
    [] op = "DEQUANT" -> Dequant(x)
    [] OTHER -> Unary(x, op)
Reshaping == (Checked \cup {"SLICE", "CONCAT"}) \ {"RAG_SEARCH", "EMBED_LOOKUP", "PQ_ENCODE", "PQ_DECODE"}

Combined(op, p, x, y, z) ==
  CASE op = "ADD" -> Add(x, y)
    [] op = "MUL" -> Mul(x, y)
    [] op = "SILU" -> When(Readable(x), F32(x.shape, [j \in DOMAIN Floats(x) |-> Kernel("silu", <<Floats(x)[j]>>)]))
    [] op = "MATVEC" -> MatVec(x, y)
    [] op = "NORM" -> Norm(x, y, z)
    [] op = "FFN" -> Ffn(x, y, z, TensorAt(p.b1), TensorAt(p.b2))
    [] op = "ROPE" -> When(p.headdim # 0, Rope(x, p.pos, p.headdim, p.heads))
    [] op = "EMBED_LOOKUP" -> EmbedLookup(x, y)
    [] op = "GATHER" -> IF p.mode = 0 THEN Gather(x, y, p.axis)
                        ELSE When(z # NoTensor, Scatter(x, y, p.axis, Scatters[p.mode + 1], z))
    [] op = "DISTANCE" -> Distance(x, y, Metrics[p.metric + 1], p.topk)
    [] op = "PQ_ENCODE" -> PqEncode(x, y, p.nsub)
    [] OTHER -> PqDecode(x, y, p.nsub)
Combining == {"ADD", "MUL", "SILU", "MATVEC", "NORM", "FFN", "ROPE", "EMBED_LOOKUP", "GATHER",
              "DISTANCE", "PQ_ENCODE", "PQ_DECODE"}

\* The registers that must name tensors: all an opcode reads, but for a bias,
\* a scale and the accumulator of GATHER.  The scales of NORM may be left out.
Needed(op) ==
  CASE op = "NORM" -> {"a"} [] op = "GATHER" -> {"a", "b"} [] OTHER -> ToSet(OpTable[op].form) \ {"d"}
Source(ins, slot) == CASE slot = "a" -> ins.a [] slot = "b" -> ins.b [] OTHER -> ins.c

Result(ins, p) ==
  LET op == ins.op  x == TensorAt(ins.a)  y == TensorAt(ins.b)  z == TensorAt(ins.c)
  IN  IF \/ op \in Checked /\ ins.d = Absent
         \/ op = "NORM" /\ ~(RegOrNone(ins.b) /\ RegOrNone(ins.c))
         \/ \E slot \in Needed(op) : ~HasTensor(Source(ins, slot))
      THEN Fail
      ELSE IF op \in Combining THEN Combined(op, p, x, y, z) ELSE Reshaped(op, p, x, y)

Remember(result, ins, p) ==
  last' = IF result.res = "ok"
          THEN [op |-> ins.op, p |-> p, out |-> result.out,
                args |-> <<TensorAt(ins.a), TensorAt(ins.b), TensorAt(ins.c)>>]
          ELSE [op |-> "none"]

\* What becomes of a result.
Complete(result, ins) ==
  CASE result.res = "panic" -> Crashes
    [] result.res = "err" -> Refuse
    [] OTHER -> Deliver(result.out, ins) /\ UNCHANGED engVars
Finish(result, ins, p) == Complete(result, ins) /\ Remember(result, ins, p)
Compute(ins, p) == Fetches(Reshaping \cup Combining) /\ Finish(Result(ins, p), ins, p)

\* ATTN takes four words as a 2x2 tensor where there is none.
Attended(r) == IF HasTensor(r) THEN TensorAt(r) ELSE Tensor(<<2, 2>>, "F32", Words(regs[r], 4))
IsSparse(r) == HasTensor(r) /\ TensorAt(r).sparse
Attention(ins, p) ==
  LET slots == {ins.a, ins.b, ins.c}
      q == Attended(ins.a)  k == Attended(ins.b)  v == Attended(ins.c)
      dense == IF \A r \in slots : IsReg(r) /\ (HasTensor(r) \/ CanRead(regs[r], 16))
               THEN Attn(q, k, v) ELSE Fail
  IN  /\ Fetches({"ATTN"})
      /\ IF \E r \in slots : IsSparse(r)
         THEN /\ IF \A r \in slots : IsReg(r)
                 THEN \E result \in SparseAttn(q, k, v) : Complete(result, ins)
                 ELSE Refuse
              /\ Quiet
         ELSE Finish(dense, ins, p)

\* EMBED takes the token in its register, or, from a million on, at the address
\* that is there.
TokenLimit == 1000000
EmbedRow(ins, p) ==
  LET token == IF regs[ins.a] < TokenLimit THEN regs[ins.a] ELSE Kernel("bits", Words(regs[ins.a], 1))
      found == IsReg(ins.a) /\ (regs[ins.a] < TokenLimit \/ CanRead(regs[ins.a], 4))
  IN  /\ Fetches({"EMBED"})
      /\ Complete(IF found /\ HasTensor(ins.b) THEN Embed(token, TensorAt(ins.b)) ELSE Fail, ins)
      /\ Quiet

\* SAMPLE: the best indices, or one index drawn, of a tensor or of the 16 words
\* at an address; what cannot be read counts as four equal logits.
LogitsAt(ins) == IF ins.a = Absent THEN 0 ELSE regs[ins.a]
Logits(ins) ==
  CASE HasTensor(ins.a) /\ Readable(TensorAt(ins.a)) -> Floats(TensorAt(ins.a))
    [] ~HasTensor(ins.a) /\ CanRead(LogitsAt(ins), 64) -> Words(LogitsAt(ins), 16)
    [] OTHER -> <<0, 0, 0, 0>>
LogitCount(ins) ==
  CASE HasTensor(ins.a) /\ Readable(TensorAt(ins.a)) -> Numel(TensorAt(ins.a).shape)
    [] ~HasTensor(ins.a) /\ CanRead(LogitsAt(ins), 64) -> 16
    [] OTHER -> 4
Sample(ins, p) ==
  /\ Fetches({"SAMPLE"})
  /\ CASE ~RegOrNone(ins.a) -> Refuse
       [] RegOrNone(ins.a) /\ p.topk > 0 -> Complete(SampleTopK(Logits(ins), LogitCount(ins), p.topk), ins)
       [] OTHER -> /\ \E tok \in 0..(LogitCount(ins) - 1) : SetAny(ins.d, tok)
                   /\ UNCHANGED <<memVars, engVars>>
  /\ Quiet

\* RANK1_UPDATE puts a new matrix in the place of the one in its destination
\* and notes its address under the layer.
PutRankOne(r, ins, p) ==
  IF r.res = "ok" /\ TensorBytes(r.out) > 0
  THEN /\ Allocate(r.out) /\ SetReg(ins.d, cursor) /\ Advance
       /\ engines' = [engines EXCEPT !.layers = With(@, p.layer, cursor)]
       /\ UNCHANGED <<stores, stack, blocks>>
  ELSE Refuse
RankOne(ins, p) ==
  LET named == HasTensor(ins.d) /\ HasTensor(ins.a) /\ HasTensor(ins.b)
               /\ (ins.c = Absent \/ HasTensor(ins.c))
      mask == IF ins.c = Absent THEN NoTensor ELSE TensorAt(ins.c)
  IN  /\ Fetches({"RANK1_UPDATE"})
      /\ PutRankOne(IF named THEN Rank1(TensorAt(ins.d), TensorAt(ins.a), TensorAt(ins.b), mask,
                                        Learning[p.mode + 1], p.alpha, p.beta)
                    ELSE Fail, ins, p)
      /\ Quiet

---------------------------------------------------------------------------
\* Registers, comparisons and jumps.  Sums and differences wrap.
Move(ins, p) ==
  LET ok == CASE ins.op = "LOADI" -> TRUE
              [] ins.op = "MOV" -> IsReg(ins.a)
              [] OTHER -> IsReg(ins.a) /\ ins.d # Absent
      v == CASE ins.op = "LOADI" -> p.imm
             [] ins.op = "MOV" -> regs[ins.a]
             [] ins.op = "ADD_IMM" -> (regs[ins.a] + p.imm) % RegLimit
             [] OTHER -> (regs[ins.a] - p.imm) % RegLimit
  IN  /\ Fetches({"LOADI", "MOV", "ADD_IMM", "SUB_IMM"})
      /\ IF ok THEN SetAny(ins.d, v) /\ UNCHANGED <<memVars, engVars>> ELSE Refuse
      /\ Quiet

Compares(pred, x, y) ==
  CASE pred = 0 -> x = y [] pred = 1 -> x # y [] pred = 2 -> x < y [] pred = 3 -> x <= y
    [] pred = 4 -> x > y [] OTHER -> x >= y
Compare(ins, p) ==
  /\ Fetches({"COMPARE"})
  /\ IF IsReg(ins.a) /\ RegOrNone(ins.b) /\ p.pred <= 5
     THEN /\ cmp' = Compares(p.pred, regs[ins.a], IF ins.b = Absent THEN p.imm ELSE regs[ins.b])
          /\ pc' = pc + InstrSize
          /\ UNCHANGED <<prog, calls, regs, phase, memVars, engVars>>
     ELSE Refuse
  /\ Quiet

\* check_jump_target: a jump goes to the start of an instruction or fails.
JumpTo(target) == pc' = target /\ UNCHANGED <<prog, cmp, phase>>

\* No interrupt is pending here: IF_INTERRUPT looks at a register or goes on.
Taken(ins) == CASE ins.op = "JUMP" -> TRUE
           [] ins.op = "IF_EQUAL" -> cmp
           [] OTHER -> IsReg(ins.a) /\ regs[ins.a] # 0
Jump(ins, p) ==
  /\ Fetches({"JUMP", "IF_EQUAL", "IF_INTERRUPT"})
  /\ CASE ~Taken(ins) -> Advance /\ UNCHANGED <<regs, memVars, engVars>>
       [] Taken(ins) /\ p.imm \in Starts -> JumpTo(p.imm) /\ UNCHANGED <<calls, regs, memVars, engVars>>
       [] OTHER -> Refuse
  /\ Quiet

\* Mutant of Call: the depth is compared after the push that reaches it.
CallTooDeep(p) ==
  /\ Fetches({"CALL"})
  /\ IF p.imm \in Starts /\ Len(calls) <= MaxCalls
     THEN /\ JumpTo(p.imm) /\ calls' = Append(calls, pc + InstrSize)
          /\ UNCHANGED <<regs, memVars, engVars>>
     ELSE Refuse
  /\ Quiet
Call(p) ==
  /\ Fetches({"CALL"})
  /\ IF p.imm \in Starts /\ Len(calls) < MaxCalls
     THEN /\ JumpTo(p.imm) /\ calls' = Append(calls, pc + InstrSize)
          /\ UNCHANGED <<regs, memVars, engVars>>
     ELSE Refuse
  /\ Quiet
Ret ==
  /\ Fetches({"RET"})
  /\ IF calls # <<>>
     THEN /\ JumpTo(Last(calls)) /\ calls' = Front(calls)
          /\ UNCHANGED <<regs, memVars, engVars>>
     ELSE Refuse
  /\ Quiet

---------------------------------------------------------------------------
\* Arenas: a cursor that is aligned up, a capacity that doubles.
EmptyArena == [cursor |-> 0, cap |-> 0]
Arena(id)  == IF id \in DOMAIN engines.arenas THEN engines.arenas[id] ELSE EmptyArena
PowersOfTwo == {2 ^ k : k \in 0..30}
AlignOf(align) == IF align = 0 THEN 16 ELSE align
\* `while cap < end`: 24 doublings of 64 bytes reach the limit of the code.
DoubledTo(cap, end) ==
  LET first == IF cap < 64 THEN 64 ELSE cap
      times == CHOOSE k \in 0..24 : first * 2 ^ k >= end /\ \A j \in 0..(k - 1) : first * 2 ^ j < end
  IN  IF end <= cap THEN cap ELSE first * 2 ^ times

ArenaFits(arena, size, align) ==
  /\ size # 0 /\ AlignOf(align) \in PowersOfTwo
  /\ AlignUp(arena.cursor, AlignOf(align)) + size <= ArenaMax

\* Mutant of Bump: the gap that aligns the block is not counted.
BumpUnaligned(arena, size, align) ==
  [cursor |-> arena.cursor + size, cap |-> DoubledTo(arena.cap, arena.cursor + size)]

Bump(arena, size, align) ==
  LET end == AlignUp(arena.cursor, AlignOf(align)) + size
  IN  [cursor |-> end, cap |-> DoubledTo(arena.cap, end)]

Grown(arena, size, align) == IF ArenaFits(arena, size, align) THEN Bump(arena, size, align) ELSE arena

\* An arena is there once it has been asked, whatever the answer.  A block whose
\* offset no register took is nobody's.
ArenaAlloc(ins, p) ==
  LET arena == Arena(p.arena)
      off == AlignUp(arena.cursor, AlignOf(p.align))
      fits == ArenaFits(arena, p.size, p.align)
      block == [arena |-> p.arena, off |-> off, size |-> p.size, align |-> AlignOf(p.align),
                nth |-> Cardinality(blocks)]
  IN  /\ Fetches({"ARENA_ALLOC"})
      /\ engines' = [engines EXCEPT !.arenas = With(@, p.arena, Grown(arena, p.size, p.align))]
      /\ IF fits THEN /\ SetAny(ins.d, off)
                      /\ blocks' = IF RegOrNone(ins.d) THEN blocks \cup {block} ELSE blocks
         ELSE Stop("err") /\ UNCHANGED <<regs, blocks>>
      /\ UNCHANGED <<memVars, stores, stack>> /\ Quiet

ArenaReset(p) ==
  /\ Fetches({"ARENA_RESET"})
  /\ IF p.arena \in DOMAIN engines.arenas
     THEN /\ engines' = [engines EXCEPT !.arenas[p.arena].cursor = 0]
          /\ blocks' = {b \in blocks : b.arena # p.arena}
          /\ Advance /\ UNCHANGED <<regs, memVars, stores, stack>>
     ELSE Refuse
  /\ Quiet

---------------------------------------------------------------------------
\* MEMCPY and MEMSET write bytes of a tensor in its place.  An element that
\* only some of the bytes fall in is Kernel("torn", ...).
UnitBytes(t) == TensorBytes(t) \div Len(t.data)
Patched(t, at, len, whole(_)) ==
  LET w == UnitBytes(t)
      cell(j) == IF (j + 1) * w <= at \/ j * w >= at + len THEN At(t.data, j)
                 ELSE IF j * w >= at /\ (j + 1) * w <= at + len THEN whole(j * w - at)
                 ELSE Kernel("torn", <<At(t.data, j), at, len>>)
  IN  [t EXCEPT !.data = Flat(Len(t.data), cell)]

CopyBytes(ins, p) ==
  LET s == TensorAt(ins.a)  t == TensorAt(ins.d)
      len == IF p.len = 0 THEN TensorBytes(s) ELSE p.len
      ok == /\ HasTensor(ins.a) /\ HasTensor(ins.d) /\ p.dir = 0
            /\ ~s.sparse /\ ~t.sparse
            /\ p.len = 0 => p.src = 0 /\ p.dst = 0
            /\ p.src + len <= TensorBytes(s) /\ p.dst + len <= TensorBytes(t)
      whole(k) == IF s.dtype = t.dtype /\ (p.src + k) % UnitBytes(s) = 0
                  THEN At(s.data, (p.src + k) \div UnitBytes(s))
                  ELSE Kernel("torn", <<k, p.src, len>>)
  IN  /\ Fetches({"MEMCPY"})
      /\ IF ok THEN /\ heap' = [heap EXCEPT ![regs[ins.d]] = Patched(t, p.dst, len, whole)]
                    /\ Advance /\ UNCHANGED <<regs, cursor, saved, version, engVars>>
         ELSE Refuse
      /\ Quiet

FillBytes(ins, p) ==
  LET t == TensorAt(ins.d)
      len == IF p.len = 0 THEN TensorBytes(t) ELSE p.len
      ok == /\ HasTensor(ins.d) /\ ~t.sparse
            /\ p.len = 0 => p.offset = 0
            /\ p.offset + len <= TensorBytes(t)
      whole(k) == IF p.pattern = 0 \/ UnitBytes(t) = 1 THEN p.pattern ELSE Kernel("filled", <<p.pattern>>)
  IN  /\ Fetches({"MEMSET"})
      /\ IF ok THEN /\ heap' = [heap EXCEPT ![regs[ins.d]] = Patched(t, p.offset, len, whole)]
                    /\ Advance /\ UNCHANGED <<regs, cursor, saved, version, engVars>>
         ELSE Refuse
      /\ Quiet

---------------------------------------------------------------------------
\* The RAG store.  Snapshots share it: who writes first takes a copy.
NewStore == [next |-> 1, idx |-> <<>>]
NewIndex(dim) == [dim |-> dim, next |-> 0, ids |-> <<>>, vecs |-> <<>>]
Rag == stores[engines.rag]
Shared == \E i \in DOMAIN stack : stack[i].rag = engines.rag

\* Mutant of WriteRag: in place, whoever shares it.
WriteRagInPlace(store) ==
  stores' = With(stores, engines.rag, store) /\ UNCHANGED engines

\* rag_store_mut, then the new contents.
WriteRag(store) ==
  LET at == IF Shared THEN Max(DOMAIN stores) + 1 ELSE engines.rag
  IN  stores' = With(stores, at, store) /\ engines' = [engines EXCEPT !.rag = at]

\* An id that is asked for must be free; the others count up.
NoId == -1
CanAdd(index, vec, id) ==
  Len(vec) = index.dim /\ Finite(vec) /\ (id # NoId => id \notin ToSet(index.ids))
AddTo(index, vec, id) ==
  [index EXCEPT !.ids = Append(@, IF id = NoId THEN index.next ELSE id),
                !.next = IF id = NoId THEN @ + 1 ELSE @,
                !.vecs = Append(@, vec)]

RagAdd(ins) ==
  LET ok == ins.d # Absent /\ IsReg(ins.a) /\ HasTensor(ins.b) /\ DenseF32(TensorAt(ins.b)) /\ RegOrNone(ins.c)
      vec == TensorAt(ins.b).data
      id == IF ins.c = Absent THEN NoId ELSE regs[ins.c]
      new == regs[ins.a] = 0
      db == IF new THEN Rag.next ELSE regs[ins.a]
      index == IF new THEN NewIndex(Len(vec)) ELSE Rag.idx[db]
      known == new \/ db \in DOMAIN Rag.idx
      fits == CanAdd(index, vec, id)
      made(i) == [next |-> IF new THEN Rag.next + 1 ELSE Rag.next, idx |-> With(Rag.idx, db, i)]
  IN  /\ Fetches({"RAG_INDEX_ADD"})
      /\ CASE ok /\ known /\ fits ->
                /\ WriteRag(made(AddTo(index, vec, id)))
                /\ SetTo(ins.d, IF new THEN db ELSE Len(index.ids) + 1)
                /\ UNCHANGED <<memVars, stack, blocks>>
           [] ok /\ ~(known /\ fits) ->
                \* a new index stays, empty; a copy of a shared store stays, too
                /\ WriteRag(IF new THEN made(index) ELSE Rag)
                /\ Stop("err") /\ UNCHANGED <<regs, memVars, stack, blocks>>
           [] OTHER -> Refuse
      /\ Quiet

Without(index, id) ==
  LET pos == Min({k \in DOMAIN index.ids : index.ids[k] = id})
  IN  [index EXCEPT !.ids = RemoveAt(@, pos), !.vecs = RemoveAt(@, pos)]

RagDel(ins) ==
  LET ok == ins.d # Absent /\ IsReg(ins.a) /\ IsReg(ins.b) /\ regs[ins.a] # 0
      db == regs[ins.a]  id == regs[ins.b]
      less == Without(Rag.idx[db], id)
      there == db \in DOMAIN Rag.idx /\ id \in ToSet(Rag.idx[db].ids)
  IN  /\ Fetches({"RAG_INDEX_DEL"})
      /\ CASE ok /\ there ->
                /\ WriteRag([Rag EXCEPT !.idx[db] = less])
                /\ SetTo(ins.d, Len(less.ids))
                /\ UNCHANGED <<memVars, stack, blocks>>
           [] ok /\ ~there ->
                /\ WriteRag(Rag)
                /\ Stop("err") /\ UNCHANGED <<regs, memVars, stack, blocks>>
           [] OTHER -> Refuse
      /\ Quiet

\* By distance, then by id.  Ids above 2^24 have no exact float.
LargestExactId == 16777216
TopKById(index, dists, k) ==
  LET D0 == DOMAIN index.ids
      before(i, j) == dists[i] < dists[j] \/ (dists[i] = dists[j] /\ index.ids[i] < index.ids[j])
                      \/ (dists[i] = dists[j] /\ index.ids[i] = index.ids[j] /\ i < j)
  IN  [r \in 1..k |-> CHOOSE i \in D0 : Cardinality({j \in D0 : before(j, i)}) = r - 1]
Search(q, index, metric, k) ==
  LET dists == [i \in DOMAIN index.vecs |-> MetricDist(metric, q.data, index.vecs[i])]
      top == TopKById(index, dists, k)
      ids == [r \in 1..k |-> index.ids[top[r]]]
  IN  When(/\ k # 0 /\ DenseF32(q) /\ Finite(q.data) /\ Len(q.data) = index.dim /\ k <= Len(index.ids)
           /\ \A r \in 1..k : ids[r] <= LargestExactId,
        F32(<<1, 2 * k>>, [r \in 1..k |-> dists[top[r]]] \o ids))
FoundBy(r, ins, p) ==
  /\ Complete(r, ins)
  /\ last' = IF r.res = "ok" THEN [op |-> "RAG_SEARCH", p |-> p, out |-> r.out,
                                   args |-> <<TensorAt(ins.a), Rag.idx[regs[ins.b]]>>]
             ELSE [op |-> "none"]
RagSearch(ins, p) ==
  LET ok == ins.d # Absent /\ HasTensor(ins.a) /\ IsReg(ins.b) /\ regs[ins.b] \in DOMAIN Rag.idx
  IN  /\ Fetches({"RAG_SEARCH"})
      /\ FoundBy(IF ok THEN Search(TensorAt(ins.a), Rag.idx[regs[ins.b]], RagMetrics[p.metric + 1], p.topk)
                 ELSE Fail, ins, p)

---------------------------------------------------------------------------
\* SNAPSHOT and RESTORE.  The memory keeps every version (its window does not
\* fill here), each engine a stack of its own; the stacks of these engines
\* always hold the same versions.
Entry(v) == [ver |-> v, arenas |-> engines.arenas, layers |-> engines.layers, rag |-> engines.rag,
             blocks |-> blocks]

\* Mutant of TakeSnapshot: the register is written before the engines are saved.
TakeSnapshotLate(ins, p) ==
  /\ Fetches({"SNAPSHOT"})
  /\ IF p.mask = 7
     THEN /\ version' = version + 1
          /\ saved' = With(saved, version', heap)
          /\ stack' = IF RegOrNone(ins.d) THEN Append(stack, Entry(version')) ELSE stack
          /\ SetAny(ins.d, version')
          /\ UNCHANGED <<heap, cursor, engines, stores, blocks>>
     ELSE Refuse
  /\ Quiet
TakeSnapshot(ins, p) ==
  /\ Fetches({"SNAPSHOT"})
  /\ IF p.mask = 7
     THEN /\ version' = version + 1
          /\ saved' = With(saved, version', heap)
          /\ stack' = Append(stack, Entry(version'))
          /\ SetAny(ins.d, version')
          /\ UNCHANGED <<heap, cursor, engines, stores, blocks>>
     ELSE Refuse
  /\ Quiet

\* Mutant of Restored: the cursor goes back with the tensors.
RestoredWithCursor(v) ==
  /\ heap' = saved[v] /\ UNCHANGED <<saved, version>>
  /\ cursor' = Max({DataBase} \cup {a + AlignUp(TensorBytes(saved[v][a]), 64) : a \in DOMAIN saved[v]})
\* The map of tensors goes back, the cursor does not.
Restored(v) == heap' = saved[v] /\ UNCHANGED <<cursor, saved, version>>

\* Where `while last.0 > version` stops to pop: 0 for an emptied stack.
Height(v) == Max({0} \cup {i \in DOMAIN stack : stack[i].ver <= v})

\* The entry of the version, if it is on top then, is popped and applied.
RestoreTo(ins) ==
  LET v == regs[ins.a]
      top == Height(v)
      hit == top > 0 /\ stack[top].ver = v
      entry == stack[top]
  IN  /\ Fetches({"RESTORE"})
      /\ IF IsReg(ins.a) /\ v \in DOMAIN saved
         THEN /\ Restored(v) /\ stack' = SubSeq(stack, 1, IF hit THEN top - 1 ELSE top)
              /\ IF hit
                 THEN /\ engines' = [arenas |-> entry.arenas, layers |-> entry.layers, rag |-> entry.rag]
                      /\ blocks' = entry.blocks
                 ELSE UNCHANGED <<engines, blocks>>
              /\ Advance /\ UNCHANGED <<regs, stores>>
         ELSE Refuse
      /\ Quiet

---------------------------------------------------------------------------
\* A program counter past the end, HALT, NOP.
FetchFails ==
  /\ phase = "running" /\ pc \notin Starts
  /\ Refuse /\ Quiet
Halt ==
  /\ Fetches({"HALT"})
  /\ Stop("ended") /\ UNCHANGED <<regs, memVars, engVars>> /\ Quiet
Nop ==
  /\ Fetches({"NOP"})
  /\ Advance /\ UNCHANGED <<regs, memVars, engVars>> /\ Quiet

\* execute_instruction: the handlers read the instruction and its fields.
Execute(ins, p) ==
  \/ NewTensor(ins, p) \/ Compute(ins, p) \/ Attention(ins, p) \/ EmbedRow(ins, p) \/ Sample(ins, p) \/ RankOne(ins, p)
  \/ Move(ins, p) \/ Compare(ins, p) \/ Jump(ins, p) \/ Call(p) \/ Ret
  \/ ArenaAlloc(ins, p) \/ ArenaReset(p) \/ CopyBytes(ins, p) \/ FillBytes(ins, p)
  \/ RagAdd(ins) \/ RagDel(ins) \/ RagSearch(ins, p) \/ TakeSnapshot(ins, p) \/ RestoreTo(ins)
  \/ Halt \/ Nop
Step == FetchFails \/ Execute(Current, Params(Current))

\* A fresh VM to which the host has given tensors, in the registers from 0.
\* Where n tensors end, allocated one after the other.
TensorEnds(tensors) ==
  LET end[k \in 0..Len(tensors)] ==
        IF k = 0 THEN DataBase ELSE end[k - 1] + AlignUp(TensorBytes(tensors[k]), 64)
  IN  end
MachineInit(tensors) ==
  LET end == TensorEnds(tensors)  n == Len(tensors)
  IN  /\ prog = <<>> /\ pc = ProgramBase /\ cmp = FALSE /\ calls = <<>>
      /\ regs = [r \in Registers |-> IF r < n THEN end[r] ELSE 0]
      /\ heap = [a \in {end[k - 1] : k \in 1..n} |-> tensors[CHOOSE k \in 1..n : end[k - 1] = a]]
      /\ cursor = end[n]
      /\ saved = <<>> /\ version = 0
      /\ engines = [arenas |-> <<>>, layers |-> <<>>, rag |-> 0]
      /\ stores = [i \in {0} |-> NewStore] /\ stack = <<>> /\ blocks = {}
      /\ last = [op |-> "none"]
      /\ phase = "idle"

\* load_program: the context starts at the first instruction.
LoadProgram(instructions) ==
  /\ prog' = instructions /\ pc' = ProgramBase /\ phase' = "running"
  /\ UNCHANGED <<cmp, calls, regs, engVars, last>>
=============================================================================
