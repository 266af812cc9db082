------------------------------ MODULE Container ------------------------------
(***************************************************************************)
(* Programs in files: the raw .m3bin of 32-byte instructions and the .m3bc *)
(* container with a header, a checksum and frames of several widths.       *)
(*                                                                         *)
(* A file is a header or none, cells of 32 bytes and a tail of fewer.  A   *)
(* cell is the width class of its first byte and, where that is w32, an    *)
(* instruction.  A checksum is the content it covers: two contents with    *)
(* one CRC-32 are left out.  A file of text holds source lines.            *)
(***************************************************************************)
EXTENDS SourceFile

Header(major, required, entry) ==
  [magic |-> TRUE, major |-> major, required |-> required, entry |-> entry]
NoHeader == [magic |-> FALSE]

Chunk(class, ins) == [class |-> class, ins |-> ins]
Narrow(ins) == Chunk("w32", ins)

File(head, crc, cells, tail) ==
  [kind |-> "binary", head |-> head, crc |-> crc, cells |-> cells, tail |-> tail]
TextFile(source) == [kind |-> "text", source |-> source]

HeaderLen == 34
Bytes(file) == Len(file.cells) * InstrSize + file.tail
Covered(head, cells, tail) == <<head, cells, tail>>

(***************************************************************************)
(* Writing.                                                                *)
(***************************************************************************)
Retrieval == {"RAG_INDEX_ADD", "RAG_INDEX_DEL", "RAG_SEARCH", "EMBED_LOOKUP",
              "PQ_ENCODE", "PQ_DECODE"}
Uses(prog, ops) == \E i \in DOMAIN prog : prog[i].op \in ops

Encoded(prog) == [i \in DOMAIN prog |-> Narrow(prog[i])]
EncodeM3bc(head, cells, tail) == File(head, Covered(head, cells, tail), cells, tail)

\* assemble_file: the bit of the retrieval opcodes is the only one it sets.
RequiredBits(prog) == IF Uses(prog, Retrieval) THEN {"V2"} ELSE {}
SaveProgram(prog, ext) ==
  IF ext = "m3bc" THEN EncodeM3bc(Header(1, RequiredBits(prog), 0), Encoded(prog), 0)
  ELSE File(NoHeader, <<>>, Encoded(prog), 0)

(***************************************************************************)
(* Reading.  A frame is as wide as the class of its first byte says.       *)
(***************************************************************************)
Loaded(prog) == [res |-> "ok", prog |-> prog]

\* Instruction::decode refuses every cell that is not 32 bytes wide.
DecodeAll(cells) ==
  IF \A i \in DOMAIN cells : cells[i].class = "w32"
  THEN Loaded([i \in DOMAIN cells |-> cells[i].ins])
  ELSE Err

FrameCells == [w32 |-> 1, w64 |-> 2, w128 |-> 4, w256 |-> 8]
Frame(class, cells) == [class |-> class, cells |-> cells]

\* split_frames, the cells one by one: need is how many more the frame that
\* was begun takes.
Split(s, cell) ==
  IF s.need > 0
  THEN [s EXCEPT !.need = @ - 1, !.frames[Len(s.frames)].cells = Append(@, cell)]
  ELSE IF cell.class \notin DOMAIN FrameCells THEN [s EXCEPT !.ok = FALSE]
  ELSE [s EXCEPT !.need = FrameCells[cell.class] - 1,
                 !.frames = Append(@, Frame(cell.class, <<cell>>))]
SplitFrames(file) ==
  LET after[k \in 0..Len(file.cells)] ==
        IF k = 0 THEN [ok |-> TRUE, need |-> 0, frames |-> <<>>] ELSE Split(after[k - 1], file.cells[k])
      all == after[Len(file.cells)]
  IN  IF all.ok /\ all.need = 0 /\ file.tail = 0
      THEN [res |-> "ok", frames |-> all.frames]
      ELSE Err

FrameStarts(frames) ==
  {FoldLeft(LAMBDA n, f : n + InstrSize * Len(f.cells), 0, SubSeq(frames, 1, k)) :
     k \in 0..(Len(frames) - 1)}

\* The frames of 32 bytes; a wider one is refused, by name.
Instructions32(frames) ==
  IF \A i \in DOMAIN frames : frames[i].class = "w32"
  THEN Loaded([i \in DOMAIN frames |-> frames[i].cells[1].ins])
  ELSE Err

Supported == {"V2", "V3"}

\* Mutant of LoadM3bc: the checksum is not compared.
LoadM3bcUnchecked(file) ==
  LET split == SplitFrames(file)
  IN  CASE file.head.major # 1 -> Err
        [] file.head.required \ Supported # {} -> Err
        [] split.res # "ok" -> Err
        [] file.head.entry \notin FrameStarts(split.frames) \cup {0} -> Err
        [] OTHER -> Instructions32(split.frames)

\* load_m3bc, in its order: version, features, checksum, frames, entry.
LoadM3bc(file) ==
  LET split == SplitFrames(file)
  IN  CASE file.head.major # 1 -> Err
        [] file.head.required \ Supported # {} -> Err
        [] file.crc # Covered(file.head, file.cells, file.tail) -> Err
        [] split.res # "ok" -> Err
        [] file.head.entry \notin FrameStarts(split.frames) \cup {0} -> Err
        [] OTHER -> Instructions32(split.frames)

\* load_legacy: without its MAGIC, a header is 34 bytes of instructions.
LoadLegacy(file) ==
  LET header == IF file.head = NoHeader THEN 0 ELSE HeaderLen
  IN  IF (Bytes(file) + header) % InstrSize # 0 THEN Err ELSE DecodeAll(file.cells)

IsM3bc(file) == file.kind = "binary" /\ file.head.magic
Load(file) == IF IsM3bc(file) THEN LoadM3bc(file) ELSE LoadLegacy(file)

\* is_probably_bin looks at the first byte alone.
FirstBytes ==
  {"HALT", "TENSOR", "ATTN", "STREAM", "FORK", "ABORT", "SENSE", "NORM", "FFN", "EMBED",
   "ADD", "SAMPLE", "COMPARE", "IF_EQUAL", "JUMP", "IF_INTERRUPT", "MATVEC", "MUL", "SILU",
   "SSM_SCAN", "SSM_RESET", "CODEC_ENC", "CODEC_DEC", "AUDIO_ALIGN", "CTX_SWITCH", "ROPE",
   "NOP"}
ProbablyBin(file) ==
  /\ file.kind = "binary" /\ file.head = NoHeader
  /\ Len(file.cells) > 0 /\ file.cells[1].class = "w32"
  /\ file.cells[1].ins.op \in FirstBytes

LoadedFrom(full) == IF full.res = "ok" THEN Loaded(full.instrs) ELSE full
AsText(file) == IF file.kind = "text" THEN LoadedFrom(Assemble(file.source)) ELSE Err

\* run_file, by the extension.  A text that happens to start with a byte of
\* FirstBytes (white space has such codes) is not among the files here.  The
\* entry a container names is not used: a program starts at its first
\* instruction.
Recognised(file) ==
  IF IsM3bc(file) THEN LoadM3bc(file)
  ELSE IF Bytes(file) % InstrSize = 0 /\ ProbablyBin(file) THEN DecodeAll(file.cells) ELSE Err
RunFile(file, ext) ==
  CASE file.kind = "text" /\ ext \in {"m3asm", "other"} -> AsText(file)
    [] file.kind = "binary" /\ ext = "m3bin" -> LoadLegacy(file)
    [] file.kind = "binary" /\ ext = "m3bc" -> Load(file)
    [] file.kind = "binary" /\ ext = "other" -> Recognised(file)
    [] OTHER -> Err
=============================================================================
