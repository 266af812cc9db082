---------------------------- MODULE Interactive ----------------------------
(***************************************************************************)
(* The interactive host loop, `run_interactive` of src/src/main.rs: a user *)
(* types a prompt, the loop runs the program's contexts and collects the   *)
(* tokens they stream; a prompt typed meanwhile rolls the generation back  *)
(* to a checkpoint that a FORK left, chosen by src/src/rollback.rs, and is *)
(* pushed into the TEMPORAL ring of src/src/memory.rs.                     *)
(*                                                                         *)
(* A turn of the loop polls the input, picks a context and executes one    *)
(* instruction of it.  A prompt is a step of its own (the thread that      *)
(* reads stdin sends it at any time), and so is the execution; an empty    *)
(* poll is part of the step that picks.                                    *)
(*                                                                         *)
(* Abstraction: the memory is the archive of whole images that             *)
(* SnapshotStore.tla implements; an image, a token and an entropy are      *)
(* members of small sets; registers are not modelled.                      *)
(***************************************************************************)
EXTENDS Slice

CONSTANTS
  Programs,       \* the programs a run may be given
  Images,         \* contents of the heap
  Tokens,         \* the texts streamed
  Levels,         \* entropies of the logits; level 1 stands for 0.5
  Window,         \* max_snapshots of the memory
  HostWindow,     \* HOST_CHECKPOINT_WINDOW
  MaxSamples,     \* EntropyTracker::new(50)
  FallbackOffset,
  Physical,       \* TEMPORAL_PHYSICAL_SIZE
  Logical,        \* TEMPORAL_LOGICAL_SIZE
  PromptLengths,  \* bytes in a prompt
  MaxVersion, MaxOutput, MaxBytes, MaxCtx
                  \* bounds: FORKs, tokens in the output, bytes pushed, contexts

Ops == {"HALT", "NOP", "W64", "OTHER", "COMPUTE", "JUMP", "IF", "CTX_SWITCH", "SAMPLE",
        "DECODE", "STREAM", "FORK", "ABORT", "SENSE"}

IsInstruction(i) ==
  /\ i.op \in Ops
  /\ i.op \in {"JUMP", "IF", "FORK"}       => i.target \in Nat
  /\ i.op \in {"CTX_SWITCH", "FORK"}       => i.prio \in Priorities

ASSUME HostAssumption ==
  /\ {Window, HostWindow, MaxSamples, Physical} \subseteq Nat \ {0}
  /\ Levels \subseteq Nat /\ PromptLengths \subseteq Nat \ {0}
  /\ {FallbackOffset, MaxVersion, MaxOutput, MaxBytes, MaxCtx} \subseteq Nat
  /\ \A p \in Programs : /\ DOMAIN p = 1 .. Len(p)
                         /\ \A k \in DOMAIN p : IsInstruction(p[k])

\* The logical space is a whole number of turns of the ring: 1 GiB and 64 MiB.
ASSUME RingAssumption == Logical \in Nat \ {0} /\ Logical % Physical = 0

VARIABLES
  program,     \* the instructions loaded
  sched,       \* vm.scheduler
  at,          \* "top" of the loop, "run" (a prompt was read), "exec" (a context was
               \* picked) or "ended"
  generating,  \* is_generating
  output,      \* output_buffer
  checkpoints, \* oldest first
  entropies,   \* the history of entropy_tracker
  heap,        \* the live image of the memory
  version, saved,  \* the version counter, and the images retained
  ring,        \* the TEMPORAL ring: buffer, physical and logical heads
  past,        \* history: how many bytes have been pushed
  pushed       \* history: of the data pushed and not yet overwritten, how many bytes
               \* were pushed before them, the address answered and the length

genVars  == <<generating, output, checkpoints, entropies>>
memVars  == <<heap, version, saved>>
ringVars == <<ring, past, pushed>>
vars     == <<program, sched, at, genVars, memVars, ringVars>>

\* The newest n elements of a sequence.
Newest(s, n) == IF Len(s) > n THEN SubSeq(s, Len(s) - n + 1, Len(s)) ELSE s

-----------------------------------------------------------------------------
(* The TEMPORAL ring.                                                      *)

\* Mutated: behind the end of the buffer the head starts again at zero.
HeadAfterReset(head, len) == IF head + len < Physical THEN head + len ELSE 0

HeadAfter(head, len) ==
  IF head + len <= Physical THEN (head + len) % Physical ELSE len - (Physical - head)

\* temporal_push: the cells from the physical head on, with a wrap.
Written(r, data) ==
  [buffer  |-> [k \in 0 .. Physical - 1 |->
                  LET i == ((k + Physical - r.head) % Physical) + 1
                  IN  IF i <= Len(data) THEN data[i] ELSE r.buffer[k]],
   head    |-> HeadAfter(r.head, Len(data)),
   logical |-> (r.logical + Len(data)) % Logical]

\* read() in the TEMPORAL region.
TemporalRead(r, addr, len) == [i \in 1 .. len |-> r.buffer[(addr + i - 1) % Physical]]

\* The bytes pushed are told apart by their numbers, the first being 1.
Data(from, len) == [i \in 1 .. len |-> from + i]

\* Data longer than the ring are an Err.
Push(len) ==
  IF len > Physical THEN UNCHANGED ringVars
  ELSE /\ past + len <= MaxBytes
       /\ past' = past + len
       /\ ring' = Written(ring, Data(past, len))
       /\ pushed' = {e \in pushed \cup {[from |-> past, addr |-> ring.logical, len |-> len]} :
                       past' <= e.from + Physical}

-----------------------------------------------------------------------------
(* src/src/rollback.rs: where to go back to.                               *)

\* EntropyTracker::push.
Sampled(level) ==
  entropies' = Newest(Append(entropies, [token |-> Len(output), level |-> level]), MaxSamples)

\* max_by: the last of the highest samples.
Peak(h) ==
  h[CHOOSE i \in DOMAIN h : \A j \in DOMAIN h :
      h[j].level < h[i].level \/ (h[j].level = h[i].level /\ j <= i)]

Before(n, d) == IF n >= d THEN n - d ELSE 0

\* determine_target_token_index: the token before the peak, else a few back.
TargetIndex(h, total) ==
  IF h # <<>> /\ Peak(h).level >= 1 THEN Before(Peak(h).token, 1)
  ELSE Before(total, FallbackOffset)

\* The newest checkpoint at or before the target, else the first.
Chosen(cps, target) ==
  LET fits == {i \in DOMAIN cps : cps[i].tokenIdx <= target}
  IN  IF fits = {} THEN cps[1] ELSE cps[CHOOSE i \in fits : \A j \in fits : j <= i]

\* Mutated: the list is left as it is.
RetainedAll(cps, tokenIdx) == cps

\* checkpoints.retain(|c| c.token_idx <= tok_idx)
RetainedUpTo(cps, tokenIdx) == KeepAt(cps, {i \in DOMAIN cps : cps[i].tokenIdx <= tokenIdx})

-----------------------------------------------------------------------------
(* A prompt arrives.                                                       *)

\* The pc of context 1, or of any other when 1 is gone, is set; its state
\* and its registers stay.
Rewound(s, pc) ==
  {Moved(s, id, pc) : id \in IF Known(s, 1) \/ DOMAIN s.contexts = {} THEN {1}
                             ELSE DOMAIN s.contexts}

\* Mutated: the answer of restore is dropped, as `run_real_interactive` does.
RollBackRegardless(c, len) ==
  /\ heap' = IF c.version \in DOMAIN saved THEN saved[c.version] ELSE heap
  /\ sched' \in Rewound(sched, c.pc)
  /\ output' = SubSeq(output, 1, c.tokenIdx)
  /\ entropies' = <<>>
  /\ checkpoints' = RetainedUpTo(checkpoints, c.tokenIdx)
  /\ Push(len)
  /\ UNCHANGED <<generating, version, saved>>

\* restore answers Ok, and all that follows happens; or Err, which is only
\* printed, and the prompt is lost.
RollBack(c, len) ==
  IF c.version \in DOMAIN saved
  THEN /\ heap' = saved[c.version]
       /\ sched' \in Rewound(sched, c.pc)
       /\ output' = SubSeq(output, 1, c.tokenIdx)
       /\ entropies' = <<>>
       /\ checkpoints' = RetainedUpTo(checkpoints, c.tokenIdx)
       /\ Push(len)
       /\ UNCHANGED <<generating, version, saved>>
  ELSE UNCHANGED <<sched, genVars, memVars, ringVars>>

Interrupt(len) ==
  /\ at = "top" /\ generating
  /\ IF checkpoints # <<>>
     THEN RollBack(Chosen(checkpoints, TargetIndex(entropies, Len(output))), len)
     ELSE Push(len) /\ UNCHANGED <<sched, genVars, memVars>>
  /\ at' = "run" /\ UNCHANGED program

\* A new generation: a new context when none is active; an ended context 1
\* is made Ready, in no queue.
Begun(s) ==
  IF NoneActive(s) THEN CreateContext(s, "Green", 1, <<>>)
  ELSE IF StateIs(s, 1, "Terminated") THEN Moved(SetState(s, 1, "Ready"), 1, 1)
  ELSE s

Begin(len) ==
  /\ at = "top" /\ ~ generating /\ sched.nextId <= MaxCtx
  /\ Push(len)
  /\ sched' = Begun(sched)
  /\ generating' = TRUE
  /\ output' = <<>> /\ checkpoints' = <<>> /\ entropies' = <<>>
  /\ at' = "run" /\ UNCHANGED <<program, memVars>>

\* stdin has come to its end, nothing is generated and no context is active.
\* (A loop that max_steps cuts off has done part of what one without does.)
End ==
  /\ at = "top" /\ ~ generating /\ NoneActive(sched)
  /\ at' = "ended" /\ UNCHANGED <<program, sched, genVars, memVars, ringVars>>

-----------------------------------------------------------------------------
(* A turn executes an instruction.                                         *)

\* pick_next has taken a context.
Pick ==
  /\ at \in {"top", "run"} /\ generating /\ HasPick(sched)
  /\ sched' = PickNext(sched)
  /\ at' = "exec" /\ UNCHANGED <<program, genVars, memVars, ringVars>>

Running == sched.current
Self    == sched.contexts[Running]
Instr   == program[Self.pc]

Fetched(op) == at = "exec" /\ Self.pc \in DOMAIN program /\ Instr.op = op

BackToTop == at' = "top" /\ UNCHANGED program

\* The generation is over when no context is active.
Over(s) == generating' = ~ NoneActive(s)

Advance(s, moveOn) == sched' = SliceEnds(s, Running, moveOn) /\ Over(sched')
Fail(s)            == sched' = SliceFails(s, Running) /\ Over(sched')

\* No context is ready: back to idle.
Idle ==
  /\ at \in {"top", "run"} /\ generating /\ ~ HasPick(sched)
  /\ sched' = PickNothing(sched)
  /\ generating' = FALSE
  /\ BackToTop /\ UNCHANGED <<output, checkpoints, entropies, memVars, ringVars>>

\* Outside of the program, or a 64-byte form: Terminated, without a yield and
\* without a look at what is left.
NoDispatch ==
  /\ at = "exec"
  /\ Self.pc \in DOMAIN program => Instr.op = "W64"
  /\ sched' = SetState(sched, Running, "Terminated")
  /\ BackToTop /\ UNCHANGED <<genVars, memVars, ringVars>>

Halt ==
  /\ Fetched("HALT")
  /\ sched' = YieldCurrent(SetState(sched, Running, "Terminated"))
  /\ Over(sched')
  /\ BackToTop /\ UNCHANGED <<output, checkpoints, entropies, memVars, ringVars>>

Nop ==
  /\ Fetched("NOP")
  /\ sched' = SlicePasses(sched, Running)
  /\ BackToTop /\ UNCHANGED <<genVars, memVars, ringVars>>

\* An opcode that the loop does not dispatch is an Err.
Other ==
  /\ Fetched("OTHER")
  /\ Fail(sched)
  /\ BackToTop /\ UNCHANGED <<output, checkpoints, entropies, memVars, ringVars>>

\* The opcodes shared with the VM, and the stand-ins for ATTN, NORM and FFN:
\* the heap changes, or the operands are refused.
Compute ==
  /\ Fetched("COMPUTE")
  /\ \/ heap' \in Images /\ Advance(sched, TRUE)
     \/ UNCHANGED heap /\ Fail(sched)
  /\ BackToTop /\ UNCHANGED <<output, checkpoints, entropies, version, saved, ringVars>>

JumpTo(a) ==
  IF a \in DOMAIN program THEN Advance(Moved(sched, Running, a), FALSE)
  ELSE Fail(sched)

Branch ==
  /\ \/ Fetched("JUMP") /\ JumpTo(Instr.target)
     \/ Fetched("IF") /\ (JumpTo(Instr.target) \/ Advance(sched, TRUE))
  /\ BackToTop /\ UNCHANGED <<output, checkpoints, entropies, memVars, ringVars>>

CtxSwitch ==
  /\ Fetched("CTX_SWITCH")
  /\ \/ Fail(sched)
     \/ Advance(MaybePreempt(SetContext(sched, Running,
                                        [Self EXCEPT !.priority = Instr.prio])), TRUE)
  /\ BackToTop /\ UNCHANGED <<output, checkpoints, entropies, memVars, ringVars>>

\* STREAM r, SAMPLE: the entropy of the logits, under the index of the token
\* that will come.
Sample ==
  /\ Fetched("SAMPLE")
  /\ \E level \in Levels : Sampled(level)
  /\ Advance(sched, TRUE)
  /\ BackToTop /\ UNCHANGED <<output, checkpoints, memVars, ringVars>>

\* STREAM r, OUTPUT_DECODED: a token.
Decode ==
  /\ Fetched("DECODE") /\ Len(output) < MaxOutput
  /\ \E token \in Tokens : output' = Append(output, token)
  /\ Advance(sched, TRUE)
  /\ BackToTop /\ UNCHANGED <<checkpoints, entropies, memVars, ringVars>>

\* STREAM to the console: a token and the entropy of its logits.
Stream ==
  /\ Fetched("STREAM") /\ Len(output) < MaxOutput
  /\ \E token \in Tokens : output' = Append(output, token)
  /\ \E level \in Levels : Sampled(level)
  /\ Advance(sched, TRUE)
  /\ BackToTop /\ UNCHANGED <<checkpoints, memVars, ringVars>>

\* The versions that evict_old_snapshots leaves when v is the newest.
KeptImages(images, v) == Restrict(images, {w \in DOMAIN images : w + Window > v})

\* FORK: a snapshot, a child at the label (which is not checked) or behind the
\* FORK, and a checkpoint.  `said` is a history field.
Fork ==
  /\ Fetched("FORK") /\ version < MaxVersion /\ sched.nextId <= MaxCtx
  /\ LET v     == version + 1
         entry == IF Instr.target # 0 THEN Instr.target ELSE Self.pc + 1
     IN  /\ version' = v
         /\ saved' = KeptImages([w \in DOMAIN saved \cup {v} |->
                                 IF w = v THEN heap ELSE saved[w]], v)
         /\ Advance(CreateContext(sched, Instr.prio, entry, <<>>), TRUE)
         /\ checkpoints' = Newest(Append(checkpoints,
                                         [version |-> v, pc |-> entry,
                                          tokenIdx |-> Len(output), said |-> output]),
                                  HostWindow)
  /\ BackToTop /\ UNCHANGED <<output, entropies, heap, ringVars>>

\* ABORT: the target is removed and, when a version is named, the memory is
\* restored; whether there is such a target or version is not looked at.
Abort ==
  /\ Fetched("ABORT")
  /\ \E target \in 0 .. sched.nextId, v \in 0 .. version :
       IF target = 0 THEN Advance(sched, TRUE) /\ UNCHANGED heap
       ELSE /\ Advance(Remove(sched, target), TRUE)
            /\ heap' = IF v \in DOMAIN saved THEN saved[v] ELSE heap
  /\ BackToTop /\ UNCHANGED <<output, checkpoints, entropies, version, saved, ringVars>>

\* SENSE pushes what it reads (the user's queue may be empty).
Sense ==
  /\ Fetched("SENSE")
  /\ Push(1) \/ UNCHANGED ringVars
  /\ Advance(sched, TRUE)
  /\ BackToTop /\ UNCHANGED <<output, checkpoints, entropies, memVars>>

-----------------------------------------------------------------------------
HostInit ==
  /\ program \in Programs
  /\ sched = CreateContext(NewScheduler, "Green", 1, <<>>)
  /\ at = "top"
  /\ generating = FALSE
  /\ output = <<>> /\ checkpoints = <<>> /\ entropies = <<>>
  /\ heap \in Images /\ version = 0 /\ saved = [v \in {} |-> heap]
  /\ ring = [buffer |-> [k \in 0 .. Physical - 1 |-> 0], head |-> 0, logical |-> 0]
  /\ past = 0 /\ pushed = {}

Prompt == \E len \in PromptLengths : Interrupt(len) \/ Begin(len)

HostNext ==
  \/ Prompt \/ End \/ Idle \/ Pick
  \/ NoDispatch \/ Halt \/ Nop \/ Other \/ Compute \/ Branch \/ CtxSwitch
  \/ Sample \/ Decode \/ Stream \/ Fork \/ Abort \/ Sense

HostSpec == HostInit /\ [][HostNext]_vars

-----------------------------------------------------------------------------
(* Properties.                                                             *)

\* Every checkpoint can still be gone back to: what had been said when it was
\* taken is a prefix of what has been said now, none lies in the future, they
\* are in the order of their versions, and no entropy is of a token to come
\* but the next (src/src/main.rs:459, `checkpoints.retain`).
CheckpointsArePrefixes ==
  /\ Len(checkpoints) <= HostWindow
  /\ \A i \in DOMAIN checkpoints :
       /\ checkpoints[i].version <= version
       /\ checkpoints[i].tokenIdx <= Len(output)
       /\ checkpoints[i].said = SubSeq(output, 1, checkpoints[i].tokenIdx)
       /\ \A j \in DOMAIN checkpoints : i < j =>
            /\ checkpoints[i].version < checkpoints[j].version
            /\ checkpoints[i].tokenIdx <= checkpoints[j].tokenIdx
  /\ \A i \in DOMAIN entropies : entropies[i].token <= Len(output)

\* The address that temporal_push answered reads back what was pushed, for as
\* long as the ring has not come round to it: also across the end of the
\* buffer and of the logical space (src/src/memory.rs:816).
TemporalReadsBack ==
  \A e \in pushed : TemporalRead(ring, e.addr, e.len) = Data(e.from, e.len)

\* docs/RFC-0003-RETENTION.md, RFC-0011: a rollback is whole or it is nothing.
\* A prompt typed into a generation takes image, output, pc and checkpoints
\* to one moment, that of a FORK: the latest that is not behind the peak of
\* entropy, or the oldest.  Or, that version being recycled (or no FORK having
\* run), it leaves all of them as they are.
AllOrNothing ==
  LET late == {d \in Range(checkpoints) :
                 d.tokenIdx > TargetIndex(entropies, Len(output))}
  IN  \/ \E c \in Range(checkpoints) :
           /\ c.version \in DOMAIN saved
           /\ heap' = saved[c.version] /\ output' = c.said /\ entropies' = <<>>
           /\ \E id \in DOMAIN sched'.contexts : sched'.contexts[id].pc = c.pc
           /\ checkpoints' = SubSeq(checkpoints, 1, Len(checkpoints'))
           /\ c \in Range(checkpoints')
           /\ \A d \in Range(checkpoints) : d.version > c.version => d \in late
           /\ c \in late => Range(checkpoints) = late
      \/ /\ UNCHANGED <<sched, genVars, memVars>>
         /\ \A d \in Range(checkpoints) : d.version \in DOMAIN saved => d \in late
         /\ checkpoints # <<>> => \E d \in Range(checkpoints) : d.version \notin DOMAIN saved

RollbackAllOrNothing == [][generating /\ at = "top" /\ at' = "run" => AllOrNothing]_vars
=============================================================================
