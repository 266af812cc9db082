------------------------------- MODULE System -------------------------------
(***************************************************************************)
(* A program on its way: a source text is assembled or saved to a file,    *)
(* the file may be damaged, it is opened again, and what was loaded runs.  *)
(* There are two ways in.  The CLI writes and opens files on a fresh VM;   *)
(* the API (assemble_with_data_base, load_assembled) puts the data section *)
(* into the memory of a VM that may hold tensors already.                  *)
(***************************************************************************)
EXTENDS TensorLaws

CONSTANT Tasks        \* [source, tensors, files]: what may be run, and how

\* A source is a sequence of lines, the values of a blob and the tokens of a
\* line are sequences, and no type of a blob is a mnemonic (it starts with a
\* dot); a tensor of the host is dense and not empty.
ASSUME SystemConstants ==
  \A t \in Tasks :
    /\ t.source \in Seq(Range(t.source))
    /\ \A line \in Range(t.source) :
         /\ line.kind \in {"reg", "equ", "text", "data", "blob", "code"}
         /\ line.kind = "blob" => line.vals \in Seq(Range(line.vals)) /\ line.type \notin Mnemonics \cup {""}
         /\ line.kind = "code" => line.toks \in Seq(Range(line.toks))
    /\ t.tensors \in Seq(Range(t.tensors))
    /\ \A x \in Range(t.tensors) :
         x = Tensor(x.shape, x.dtype, x.data) /\ x.shape \in Seq(Nat) /\ TensorBytes(x) # 0

\* Addresses are u128: the program and its data end before 2^128.
Fits(v, width) == v \in Nat /\ Quotients(v, width)[width] = 0
ASSUME AddressSpace ==
  \A t \in Tasks : \A base \in {DataBase, TensorEnds(t.tensors)[Len(t.tensors)]} :
    LET full == AssembleWithData(t.source, base) IN
    full.res = "ok" => \A a \in Range(full.syms.labels) \cup Range(full.syms.addrs) : Fits(a, 16)

VARIABLES
  task,        \* the source and the tensors of the host
  stage,       \* "source", "assembled", "saved", "refused" or "loaded"
  asm,         \* the AssembledProgram
  file         \* the file, its extension and whether it was damaged

fileVars == <<task, asm, file, data>>
vars == <<machineVars, stage, fileVars>>

NoFile == [ext |-> "none"]
Refused == stage' = "refused"

\* assemble_with_data_base, for the start of a fresh memory or for the cursor.
AssembleData ==
  /\ stage = "source" /\ ~task.files
  /\ \E base \in {DataBase, cursor} : asm' = AssembleWithData(task.source, base)
  /\ IF asm'.res = "ok" THEN stage' = "assembled" ELSE Refused
  /\ UNCHANGED <<machineVars, task, file, data>>

\* assemble_file writes what the assembler gave; a text is saved as it is.
SaveAs(ext, full) ==
  /\ asm' = full
  /\ IF ext # "m3asm" /\ full.res # "ok" THEN Refused /\ UNCHANGED file
     ELSE /\ stage' = "saved"
          /\ file' = [ext |-> ext, damaged |-> FALSE,
                      content |-> IF ext = "m3asm" THEN TextFile(task.source) ELSE SaveProgram(full.instrs, ext)]
Save(ext) ==
  /\ stage = "source" /\ task.files
  /\ SaveAs(ext, Assemble(task.source))
  /\ UNCHANGED <<machineVars, task, data>>

\* One fault on the disk or on the way: a lost end, a changed byte.  15 is the
\* last register, 16 stands for the 239 bytes that are none and not Absent.
RegisterFaults(f) ==
  {[f EXCEPT !.cells[i].ins[slot] = r] : i \in 1..Len(f.cells), slot \in {"d", "a", "b", "c"}, r \in {15, 16}}
Faults(f) ==
  LET n == Len(f.cells) IN
  {[f EXCEPT !.cells = Front(@)], [f EXCEPT !.cells = Front(@), !.tail = 16]}
  \cup {[f EXCEPT !.cells[n].class = c] : c \in {"w64", "w128", "w256", "escape", "reserved"}}
  \cup RegisterFaults(f)
  \cup (IF f.head = NoHeader THEN {}
        ELSE {[f EXCEPT !.head.magic = FALSE], [f EXCEPT !.head.major = 2],
              [f EXCEPT !.head.required = {"V9"}], [f EXCEPT !.head.required = {"V3"}],
              [f EXCEPT !.head.entry = InstrSize]})
Damage ==
  /\ stage = "saved" /\ file.ext # "m3asm" /\ ~file.damaged /\ file.content.cells # <<>>
  /\ \E f \in Faults(file.content) :
       file' = [file EXCEPT !.damaged = TRUE, !.content = f]
  /\ UNCHANGED <<machineVars, stage, task, asm, data>>

\* run_file, under the name it was saved by or without an extension.
Start(r, ext) ==
  IF r.res = "ok"
  THEN stage' = "loaded" /\ LoadProgram(r.prog) /\ UNCHANGED <<memVars, file>>
  ELSE /\ Refused /\ file' = [file EXCEPT !.ext = IF ext = file.ext THEN @ ELSE ext]
       /\ UNCHANGED machineVars
Open ==
  /\ stage = "saved"
  /\ \E ext \in {file.ext, "other"} : Start(RunFile(file.content, ext), ext)
  /\ UNCHANGED <<task, asm, data>>

\* load_assembled.  The data section is one block, which must come to lie
\* where the addresses of the program say; the block stays if it does not.
PlaceOf(blobs, base, i) ==
  LET at == base + Layout(blobs).starts[i] IN {at + k : k \in 0..(BlobBytes(blobs[i]) - 1)}
\* They are written in their order: what a later one covers is its own.
LastAt(blobs, base, a) ==
  CHOOSE i \in DOMAIN blobs :
    /\ a \in PlaceOf(blobs, base, i)
    /\ \A j \in DOMAIN blobs : a \in PlaceOf(blobs, base, j) => j <= i
Written(blobs, base) ==
  [a \in UNION {PlaceOf(blobs, base, i) : i \in DOMAIN blobs} |->
     LET i == LastAt(blobs, base, a) IN <<blobs[i].name, a - (base + Layout(blobs).starts[i])>>]
LoadAssembled ==
  LET total == LayoutTotal(asm.blobs)
  IN  /\ stage = "assembled"
      /\ CASE asm.blobs = <<>> ->
                stage' = "loaded" /\ LoadProgram(asm.instrs) /\ UNCHANGED <<memVars, data>>
           [] asm.blobs # <<>> /\ total = 0 ->
                Refused /\ UNCHANGED <<machineVars, data>>
           [] OTHER ->
                /\ cursor' = cursor + AlignUp(total, 64) /\ UNCHANGED <<heap, saved, version>>
                /\ IF cursor = asm.base
                   THEN /\ data' = Written(asm.blobs, asm.base)
                        /\ stage' = "loaded" /\ LoadProgram(asm.instrs)
                   ELSE Refused /\ UNCHANGED <<prog, ctxVars, engVars, last, phase, data>>
      /\ UNCHANGED <<task, asm, file>>

Run == stage = "loaded" /\ Step /\ UNCHANGED <<stage, fileVars>>

Init ==
  \E t \in Tasks :
    /\ task = t /\ MachineInit(t.tensors)
    /\ stage = "source" /\ asm = [res |-> "none"] /\ file = NoFile /\ data = <<>>

Next ==
  \/ AssembleData \/ Damage \/ Open \/ LoadAssembled \/ Run
  \/ \E ext \in {"m3asm", "m3bin", "m3bc"} : Save(ext)

Spec == Init /\ [][Next]_vars

---------------------------------------------------------------------------
(* Properties of the way in.                                               *)

\* Lines of the text section that hold an instruction, by their place in the
\* source alone.
InText(i) ==
  LET sections == {j \in 1..(i - 1) : task.source[j].kind \in {"text", "data"}}
  IN  sections = {} \/ task.source[Max(sections)].kind = "text"
Opens(i) == task.source[i].kind = "code" /\ InText(i)
CodeLines == {i \in DOMAIN task.source : Opens(i) /\ task.source[i].op # ""}
LineOf(k) == CHOOSE i \in CodeLines : Cardinality({j \in CodeLines : j < i}) = k - 1

\* A jump goes where its label stands: past as many instructions as there are
\* lines of code above the one line that has the label.  A call returns to
\* the instruction after a CALL.  Alignment, sections, directives and labels
\* on lines of their own must not move it.  A name of the data section is the
\* address of the first byte of its blob.
JumpsLand ==
  stage = "loaded" /\ ~(file # NoFile /\ file.damaged) =>
    \A k \in DOMAIN prog :
      LET line == task.source[LineOf(k)]
          name == line.toks[Len(line.toks)].s
          at == {i \in DOMAIN task.source : Opens(i) /\ task.source[i].label = name}
      IN  /\ prog[k].op \in Jumping /\ Cardinality(at) = 1 =>
            Params(prog[k]).imm =
              ProgramBase + InstrSize * Cardinality({i \in CodeLines : \E l \in at : i < l})
          /\ prog[k].op = "LOADI" /\ pc = ProgramBase => \A t \in ToSet(line.toks) : t.k = "at" =>
               \E b \in ToSet(asm.blobs) : b.name = t.s /\
                 (BlobBytes(b) > 0 => data[Params(prog[k]).imm] = <<t.s, 0>>)

\* Control stays inside: the pc is the start of an instruction or the end of
\* the program, and whatever calls are open return to the instruction after a
\* CALL, at most as deep as the limit.
ControlStaysInside ==
  /\ pc \in Starts \cup {ProgramBase + Size}
  /\ Len(calls) <= MaxCalls
  /\ \A i \in DOMAIN calls :
       \E k \in DOMAIN prog : prog[k].op = "CALL" /\ calls[i] = ProgramBase + k * InstrSize

\* What a line writes is what the opcode reads: the registers in their order
\* and, for each key, its last value.  Fields that overlap, or are cut to too
\* few bytes, would lose it.
OperandsSurvive ==
  stage = "loaded" /\ pc = ProgramBase /\ ~(file # NoFile /\ file.damaged) =>
    \A k \in DOMAIN prog :
      LET line == task.source[LineOf(k)]
          row  == RowTable[line.op]
          n    == Operands(row, line.toks, asm.syms)
          slots == [i \in 1..n |-> LET f == OpTable[prog[k].op].form[i] IN
                      IF f = "d" THEN prog[k].d ELSE Source(prog[k], f)]
      IN  line.op \in DOMAIN RowTable =>
            /\ \A i \in 1..n : slots[i] = ParseReg(line.toks[i], asm.syms)
            /\ \A i \in (n + 1)..Len(line.toks) :
                 LET t == line.toks[i] IN
                 t.k = "key" /\ t.s \in DOMAIN row.keys
                   /\ (\A j \in (i + 1)..Len(line.toks) : line.toks[j].s # t.s)
                   /\ row.keys[t.s].field \in DOMAIN Params(prog[k])
                 => Params(prog[k])[row.keys[t.s].field] = KeyValue(row.keys[t.s], t, asm.syms)

\* Each byte of the data section is at the address the assembler gave its
\* blob: no blob overlaps another, words are aligned, and the block that was
\* allocated holds all of it and no tensor.
DataWhereSaid ==
  stage = "loaded" /\ file = NoFile =>
    /\ \A i \in DOMAIN asm.blobs :
         LET b == asm.blobs[i]  at == asm.syms.addrs[b.name] IN
         /\ \A k \in 0..(BlobBytes(b) - 1) :
              at + k \in DOMAIN data /\ data[at + k] = <<b.name, k>>
         /\ b.type # ".str" => at % 4 = 0
    /\ \A a \in DOMAIN data : a < cursor /\ \A h \in DOMAIN heap :
         a < h \/ a >= h + TensorBytes(heap[h])

\* A container that opens is the program that was saved, whatever happened to
\* the file; and a file that nothing happened to opens under its own name, as
\* the program of its source.
FileIsTheProgram ==
  file # NoFile =>
    /\ stage = "loaded" /\ (file.ext = "m3bc" \/ ~file.damaged) => prog = asm.instrs
    /\ stage = "refused" /\ ~file.damaged /\ file.ext # "other" => asm.res # "ok"

---------------------------------------------------------------------------
(* Properties of the run.                                                  *)

\* Blocks of one arena that are still good share no byte, start where they
\* were asked to and end before the cursor, inside the arena and its limit:
\* across resets, refusals, growth and RESTORE.
ArenaBlocksDisjoint ==
  \A b \in blocks :
    LET arena == engines.arenas[b.arena] IN
    /\ b.arena \in DOMAIN engines.arenas
    /\ b.off % b.align = 0 /\ b.off + b.size <= arena.cursor
    /\ arena.cursor <= Min({arena.cap, ArenaMax})
    /\ \A c \in blocks : c.arena = b.arena /\ c # b =>
         b.off + b.size <= c.off \/ c.off + c.size <= b.off

\* An address stands for one tensor for ever: in the live map and in every
\* saved version (and every version is saved) an address has the same shape
\* and type, it is aligned, and no two tensors of any of them overlap.  A
\* register that outlives a RESTORE can miss its tensor but never find another.
AddressesAreForever ==
  LET maps == {heap} \cup Range(saved)
  IN  /\ DOMAIN saved = 1..version
      /\ \A m, n \in maps : \A a \in DOMAIN m, b \in DOMAIN n :
           /\ a = b => m[a].shape = n[b].shape /\ m[a].dtype = n[b].dtype
           /\ a < b => a + TensorBytes(m[a]) <= b
           /\ a < cursor /\ a % 64 = 0

\* What a snapshot saved of the RAG store no later ADD or DEL can reach: the
\* store of an entry keeps its contents as long as the entry is there.
SavedStoresStay ==
  \A i \in DOMAIN stack' : i \in DOMAIN stack /\ stack'[i] = stack[i] =>
    stores'[stack[i].rag] = stores[stack[i].rag]
RagSnapshotsIsolated == [][SavedStoresStay]_vars

\* What no refusal touches: tensors, registers, layers.
OperandsStay ==
  /\ \A a \in DOMAIN heap : heap'[a] = heap[a]
  /\ \A r \in Registers : regs'[r] = regs[r]
  /\ engines'.layers = engines.layers /\ blocks' = blocks

\* Nothing was done, but that an arena or an index is there, empty, and that a
\* tensor was made that no register names.
ArenasStay ==
  \A id \in DOMAIN engines'.arenas :
    engines'.arenas[id] = IF id \in DOMAIN engines.arenas THEN engines.arenas[id] ELSE EmptyArena
IndexesStay ==
  LET before == stores[engines.rag].idx  after == stores'[engines'.rag].idx IN
  /\ \A db \in DOMAIN before : after[db] = before[db]
  /\ \A db \in DOMAIN after \ DOMAIN before : after[db].ids = <<>>
VersionsStay == version' = version /\ saved' = saved /\ stack' = stack
NothingDone == ArenasStay /\ IndexesStay /\ VersionsStay

\* All was done, but for the register that was to tell of it: one arena has
\* given a block away, one index has one vector more or less, or there is one
\* more version, of the memory and of every engine.
OneArenaGrew ==
  \E id \in DOMAIN engines'.arenas :
    LET after == engines'.arenas[id] IN
    /\ engines'.arenas = With(engines.arenas, id, after)
    /\ Arena(id).cursor < after.cursor /\ after.cursor <= Min({after.cap, ArenaMax})
IsGone(more, less) ==
  \E k \in DOMAIN more.ids : less.ids = RemoveAt(more.ids, k) /\ less.vecs = RemoveAt(more.vecs, k)
OneIndexChanged ==
  LET before == stores[engines.rag].idx  after == stores'[engines'.rag].idx IN
  \E db \in DOMAIN after :
    LET old == IF db \in DOMAIN before THEN before[db] ELSE NewIndex(after[db].dim) IN
    /\ after = With(before, db, after[db]) /\ after[db].dim = old.dim
    /\ IsGone(after[db], old) \/ IsGone(old, after[db])
OneVersionMore ==
  /\ version' = version + 1 /\ saved' = With(saved, version', heap)
  /\ Len(stack') = Len(stack) + 1 /\ SubSeq(stack', 1, Len(stack)) = stack
  /\ stack'[Len(stack')] = Entry(version')
AllDone ==
  \/ OneArenaGrew /\ IndexesStay /\ VersionsStay
  \/ ArenasStay /\ OneIndexChanged /\ VersionsStay
  \/ ArenasStay /\ IndexesStay /\ OneVersionMore

\* An opcode that is refused has done nothing, and where its destination is
\* no register, which the handler finds out when it writes it, nothing or all:
\* no offset is given twice, no vector lacks its id, no version its engines.
RefusalIsWhole ==
  phase = "running" /\ phase' \in {"err", "panic"} =>
    /\ OperandsStay
    /\ NothingDone \/ (pc \in Starts /\ ~RegOrNone(Current.d) /\ AllDone)
RefusedOrWhole == [][RefusalIsWhole]_vars
=============================================================================
