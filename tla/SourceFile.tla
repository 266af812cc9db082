----------------------------- MODULE SourceFile -----------------------------
(***************************************************************************)
(* A source file, its assembly in passes, and the .data section.           *)
(*                                                                         *)
(* A line is a directive .reg, .equ, .text or .data; a blob of the data    *)
(* section, name: .type [shape] values; or code, an optional label and an  *)
(* optional instruction.  Directives hold for the whole file: lines are    *)
(* parsed once every label, alias, constant and address is known.          *)
(***************************************************************************)
EXTENDS Assembler

RegLine(rs, stem, n)  == [kind |-> "reg", name |-> <<rs, stem>>, value |-> n]
EquLine(stem, v)      == [kind |-> "equ", name |-> <<0, stem>>, value |-> v]
Section(name)         == [kind |-> name]
Blob(name, type, shape, vals) ==
  [kind |-> "blob", name |-> name, type |-> type, shape |-> shape, vals |-> vals]
Code(label, op, toks) == [kind |-> "code", label |-> label, op |-> op, toks |-> toks]
Line(op, toks)        == Code("", op, toks)

InstrSize   == 32
ProgramBase == 4096        \* 0x1000
DataBase    == 4096        \* GLOBAL_HEAP_START
BlobPad     == 8

\* An entry of a map, new or in the place of an old one.
With(f, k, v) == [x \in DOMAIN f \cup {k} |-> IF x = k THEN v ELSE f[x]]

(***************************************************************************)
(* First pass: directives, labels, and the lines of either section.        *)
(***************************************************************************)
Pass1 == [ok |-> TRUE, inData |-> FALSE, alias |-> <<>>, equ |-> <<>>, labels |-> <<>>,
          code |-> <<>>, data |-> <<>>]

\* .reg drops one leading r of the name.  An alias has one register, a
\* register one alias.
DeclareReg(p, line) ==
  LET name == <<line.name[1] - 1, line.name[2]>>
  IN  IF line.name[1] = 0 \/ name \in DOMAIN p.alias \/ line.value >= 16
           \/ line.value \in Range(p.alias)
      THEN [p EXCEPT !.ok = FALSE]
      ELSE [p EXCEPT !.alias = With(@, name, line.value)]

Reserved == DOMAIN DTypes \cup {"SPARSE", "EOS_TOKEN"}
DeclareEqu(p, line) ==
  LET name == line.name[2]
  IN  IF name \in Reserved \/ name \in DOMAIN p.equ \/ line.value < 0
      THEN [p EXCEPT !.ok = FALSE]
      ELSE [p EXCEPT !.equ = With(@, name, line.value)]

\* Mutant of TakeCode: a label is bound once its line is counted.
TakeCodeAfter(p, line, base) ==
  LET taken == IF line.op = "" THEN p ELSE [p EXCEPT !.code = Append(@, line)]
  IN  IF line.label = "" THEN taken
      ELSE [taken EXCEPT !.labels = With(@, line.label, base + Len(taken.code) * InstrSize)]

\* A label is the address of the next instruction; a second label of the
\* same name takes the first one's place.
TakeCode(p, line, base) ==
  LET pc == base + Len(p.code) * InstrSize
      named == IF line.label = "" THEN p ELSE [p EXCEPT !.labels = With(@, line.label, pc)]
  IN  IF line.op = "" THEN named ELSE [named EXCEPT !.code = Append(@, line)]

\* In the text section the line of a blob reads as a label and a mnemonic.
TakeContent(p, line, base) ==
  IF p.inData THEN [p EXCEPT !.data = Append(@, line)]
  ELSE TakeCode(p, IF line.kind = "blob" THEN Code(line.name, line.type, <<>>) ELSE line, base)

\* After an error nothing changes any more.
TakeLine(p, line, base) ==
  CASE p.ok /\ line.kind = "reg" -> DeclareReg(p, line)
    [] p.ok /\ line.kind = "equ" -> DeclareEqu(p, line)
    [] p.ok /\ line.kind = "text" -> [p EXCEPT !.inData = FALSE]
    [] p.ok /\ line.kind = "data" -> [p EXCEPT !.inData = TRUE]
    [] p.ok /\ line.kind \in {"blob", "code"} -> TakeContent(p, line, base)
    [] ~p.ok -> p

(***************************************************************************)
(* The data section.  Values are tokens; a blob holds their codes.         *)
(***************************************************************************)
Scalars == {".u32", ".i32", ".f32"}
BlobValue(type, tok, syms) == IF type = ".f32" THEN IF tok.k = "num" THEN tok.v ELSE Bad
                              ELSE ParseImm(tok, syms)
NestedOk(shape, vals) ==
  /\ Len(shape) \in 1..2
  /\ \A d \in Range(shape) : d > 0
  /\ Len(vals) = FoldLeft(LAMBDA a, d : a * d, 1, shape)

ParseBlob(line, syms) ==
  LET codes == [i \in DOMAIN line.vals |-> BlobValue(line.type, line.vals[i], syms)]
      formed == IF line.type = ".str"
                THEN line.shape = <<>> /\ \A t \in ToSet(line.vals) : t.k = "num"
                ELSE /\ Bad \notin Range(codes)
                     /\ IF line.shape = <<>> THEN line.type \in Scalars /\ Len(codes) = 1
                        ELSE line.type = ".f32" /\ NestedOk(line.shape, line.vals)
  IN  IF line.kind = "blob" /\ formed
      THEN [res |-> "ok", name |-> line.name, type |-> line.type, shape |-> line.shape,
            vals |-> codes]
      ELSE Err

BlobBytes(blob) == IF blob.type = ".str" THEN Len(blob.vals) ELSE 4 * Len(blob.vals)
AlignUp(off, align) == ((off + align - 1) \div align) * align
BlobAlign(blob) == IF blob.type = ".str" THEN 1 ELSE 4

\* Mutant of Layout: blobs end to end.
LayoutPacked(blobs) ==
  FoldLeft(LAMBDA at, b : [off |-> at.off + BlobBytes(b), starts |-> Append(at.starts, at.off)],
           [off |-> 0, starts |-> <<>>], blobs)

\* Where each blob starts, from the end of the one before it.
Layout(blobs) ==
  LET start(off, b) == AlignUp(off, BlobAlign(b))
      off[k \in 0..Len(blobs)] ==
        IF k = 0 THEN 0 ELSE AlignUp(start(off[k - 1], blobs[k]) + BlobBytes(blobs[k]), BlobPad)
  IN  [off |-> off[Len(blobs)], starts |-> [k \in DOMAIN blobs |-> start(off[k - 1], blobs[k])]]
LayoutTotal(blobs) == Layout(blobs).off

\* A blob may share its name with no label, no constant and no other blob.
FreeName(p, i) ==
  /\ p.data[i].name \notin DOMAIN p.labels \cup DOMAIN p.equ
  /\ \A j \in 1..(i - 1) : p.data[j].name # p.data[i].name
TakeBlobs(p) ==
  LET blobs == [i \in DOMAIN p.data |-> ParseBlob(p.data[i], p)]
  IN  IF \A i \in DOMAIN blobs : blobs[i].res = "ok" /\ FreeName(p, i)
      THEN [res |-> "ok", blobs |-> blobs] ELSE Err

(***************************************************************************)
(* assemble_full: an error of any line is an error of the file.            *)
(***************************************************************************)
Symbols(p, blobs, base) ==
  [alias |-> p.alias, equ |-> p.equ, labels |-> p.labels,
   addrs |-> [n \in {b.name : b \in ToSet(blobs)} |->
     base + Layout(blobs).starts[CHOOSE i \in DOMAIN blobs : blobs[i].name = n]]]

FirstError(results, instructions) ==
  LET bad == {i \in DOMAIN results : results[i].res # "ok"}
  IN  IF bad = {} THEN instructions ELSE results[Min(bad)]
SecondPass(p, blobs, syms, dataBase) ==
  LET assembled(parsed) ==
        FirstError(parsed, [res |-> "ok", instrs |-> [i \in DOMAIN parsed |-> parsed[i].ins],
                            blobs |-> blobs, base |-> dataBase, syms |-> syms])
  IN  assembled([i \in DOMAIN p.code |-> ParseLine(p.code[i].op, p.code[i].toks, syms)])
AssembleLines(p, data, dataBase) ==
  IF ~p.ok \/ data.res # "ok" THEN Err
  ELSE SecondPass(p, data.blobs, Symbols(p, data.blobs, dataBase), dataBase)
FirstPass(source, base) ==
  LET after[k \in 0..Len(source)] == IF k = 0 THEN Pass1 ELSE TakeLine(after[k - 1], source[k], base)
  IN  after[Len(source)]
AssembleFull(source, programBase, dataBase) ==
  LET p == FirstPass(source, programBase)
  IN  AssembleLines(p, TakeBlobs(p), dataBase)

AssembleWithData(source, dataBase) == AssembleFull(source, ProgramBase, dataBase)

\* assemble: the entry that has nowhere to put a data section.
WithoutData(full) == IF full.res = "ok" /\ full.blobs # <<>> THEN Err ELSE full
Assemble(source)  == WithoutData(AssembleFull(source, ProgramBase, DataBase))
=============================================================================
