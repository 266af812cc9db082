# A TLA+ development of the M³-AVM

M³-AVM (`src/`) is a virtual machine for language-model inference: a set of
*contexts* (green threads with registers, a program counter and a call stack)
execute a program of 32- and 64-byte instructions over a memory of 128-bit
addresses that can be snapshot and restored in constant time. FORK creates a
context and a snapshot, ABORT kills a context and goes back to a snapshot.
This directory models the snapshots, the engine state that has to go back with
them, the scheduler and the loops that drive it; the way a program takes from a
source text through the assembler, a file and the loader to its execution; and
the opcodes that compute, down to the elements of a tensor.

## 1. Inventory

| component | code | state | operations |
|---|---|---|---|
| memory manager | `src/src/memory.rs` | four byte stores (GLOBAL heap, KV heap), sparse heap, K/V rows, extra K/V stores, tensor metadata; six maps from versions to images; bump pointers, version counter, window | alloc, read, write, remove, K/V append, truncate, compress, clear; snapshot, set window, restore |
| engine state | `src/src/vm.rs` (fields `*_snapshots`) | seven engines (SSM, rank-1, SNN, arenas, depformer KV, RAG store, models), each with a stack of (version, state) | pushed by FORK and SNAPSHOT, popped by ABORT, SIGNAL ABORT and RESTORE |
| contexts, scheduler | `src/src/context.rs` | table of contexts, three FIFO queues, current, next id | create, remove, enqueue, dequeue, pick_next, yield_current, maybe_preempt |
| run loop, control handlers | `src/src/vm.rs` | locks, barriers, barrier waiters | one instruction per turn; jumps, calls, FORK, SPAWN, KILL, ABORT, YIELD, PRIORITY_SET, CTX_SWITCH, LOCK, UNLOCK, BARRIER |
| reactor | `src/src/reactor.rs` | the VM and the receivers of two buses | `select!` over signal, timer, interrupt; its own FORK and ABORT |
| buses | `src/src/bus.rs` | interrupt watch, stream and scheduler broadcast (64 unread) | publish, subscribe, clear |
| data opcodes | `src/src/vm.rs` (`exec_*`) | registers, tensors with their data, compare flag, call stack | some sixty opcodes: order, shape, conversion, arithmetic, attention, lookups, product codes, arenas, RAG, memory copies |
| TEMPORAL ring | `src/src/memory.rs` | a ring buffer, a physical and a logical head | push, read |
| host loops | `src/src/main.rs`, `rollback.rs` | checkpoints (at most 16), output tokens, entropy window | run, roll back on interruption |
| instruction set, assembler | `src/src/opcodes.rs` | aliases, constants, labels, data addresses while it assembles | encode and decode fields, parse, two passes, layout of `.data` |
| container | `src/src/m3bc.rs`, `main.rs` | none | write, check, open, sniff |
| arena, RAG store | `arena.rs`, `rag.rs` | bump arenas, indexes shared by snapshots | alloc, grow, reset; add, delete, search |
| depformer KV | `depformer.rs` | K/V per stream and layer | append |
| numeric code | `matvec*.rs`, `quant.rs`, `ssm.rs`, `inference*.rs`, `moshi.rs`, `mimi.rs`, `stt.rs`, ... | tensors | floating point |

How they interact: the run loop (or the reactor, or the host loop) asks the
scheduler for a context, executes one instruction of it, and gives the context
back. A handler changes the scheduler (it may create, kill, block or wake any
context, the caller too), the memory and the engines. Versions tie memory and
engines together: the memory issues a number, the engine stacks are stamped
with it, and a rewind has to take both to the same number. Contexts meet at
barriers and locks, and, in the reactor, through signals on the buses. The
assembler and the loader meet in addresses: labels are counted in bytes from
0x1000 and data addresses from the cursor that the memory will have, before
either exists. The host loop executes instructions itself, with its own
handlers of FORK and ABORT, and names the memory's versions in its checkpoints.

What is hard here:

* six maps and seven stacks are kept in step by hand, in five handlers, with
  error returns between the steps;
* versions are evicted while stacks still name them, bump pointers are not
  rolled back while heaps are, and a rewind may go to a version older than
  several others;
* a handler runs in the middle of a time slice, and may end, block, preempt or
  re-queue the context whose slice the loop will close afterwards;
* ids are named by waiters, locks, signals and interrupts after their context
  is gone;
* signals are lost when a bus is full, come late, and execute a context that
  the scheduler has not picked;
* a prompt comes between any two instructions and goes back to a version that
  may be recycled, while contexts, output, entropies and checkpoints have to go
  to the same moment;
* ninety opcodes share 26 bytes of payload through offsets written by hand, and
  labels and data are addressed before they are laid out;
* a handler may find out that it must refuse after it has allocated or created
  something, or after it has done all its work but for the register that tells
  of it; and snapshots of the RAG store share one store by reference count;
* flat positions, ties and NaN in the tensor opcodes.

The memory is correct when the six maps behave as one archive of whole
immutable images; the engines when a rewind returns them exactly to the state
they had; the scheduler when every ready context is in just one place of just
the right queue; the run loop when priority is strict, no wake-up is lost and
what has ended stays ended; the reactor when lost and late signals do not
change any of it. The assembler is correct when jumps, operands and data mean
what the source says, and the container when a file opens as the program that
was saved or not at all; an opcode when its result is what its coordinates say
and a refusal comes before all of its work or after all of it; the host loop when a rollback is whole or
nothing. `PROJECT.json` lists the hazards line by line.

## 2. Modules

| module | models | extends |
|---|---|---|
| `VersionArchive` | abstract: an archive of immutable images with retention | |
| `SnapshotStore` | the memory manager; implements `VersionArchive` | |
| `SnapshotStore_proofs` | its theorems | `SnapshotStore` |
| `EngineRollback` | the engine stacks beside the memory | `SnapshotStore` |
| `EngineRollback_proofs` | its theorems | `EngineRollback`, `SnapshotStore_proofs` |
| `Scheduler` | contexts and queues, as operators on a scheduler record | |
| `Slice` | the end of a time slice, common to both loops | `Scheduler` |
| `Scheduler_proofs` | lemmas about the operators of both | `Slice` |
| `Dispatcher` | abstract: one turn at a time, strict priority, first come first served, gates | |
| `RunLoop` | `Vm::run` and the handlers that move contexts; implements `Dispatcher` | `Slice` |
| `RunLoop_proofs` | its theorems | `RunLoop`, `Scheduler_proofs` |
| `Numbers` | facts about numbers, division and recursive sequences that proofs share | |
| `Reactor` | `Reactor::run_nop`, its FORK and ABORT, two buses | `Slice` |
| `Reactor_proofs` | its theorems | `Reactor`, `Scheduler_proofs`, `Numbers` |
| `Tensors` | tensors and the opcodes that give one a new shape, order or type | |
| `TensorMath` | the opcodes that combine tensors: matrices, attention, lookups, distances, product codes | `Tensors` |
| `Encoding` | the 32-byte instruction: forms, fields, setters, getters | |
| `Assembler` | tokens, registers, constants, one grammar row per mnemonic | `Encoding` |
| `SourceFile` | directives, sections, labels, the layout of `.data`, two passes | `Assembler` |
| `Container` | `.m3bin` and `.m3bc` files, the loader | `SourceFile` |
| `Machine` | one context at work on a loaded program | `Container`, `TensorMath` |
| `TensorLaws` | what the tensor opcodes promise, in coordinates | `Machine` |
| `System` | from the source text to the run, with files and damage in between | `TensorLaws` |
| `System_proofs` | its theorems | `System`, `Numbers` |
| `Interactive` | `run_interactive`, checkpoints, the choice among them, the TEMPORAL ring | `Slice` |
| `Interactive_proofs` | its theorems | `Interactive`, `Scheduler_proofs`, `Numbers` |
| `MC*` | instances for TLC | |

**SnapshotStore.** `live` holds the six live stores by name (GLOBAL heap, sparse
heap, K/V layers, extra K/V stores, KV heap, metadata); `snaps` maps each name
to its versions, one map per field `*_snapshots` of `MemoryManager`. The bytes
of a block are one value of `Vals`, a block is one unit of address, and the
rows of the K/V layers are one value. A copy-on-write `Arc` is a value: what
the code shares, the model copies. `answer` is what the last call returned. The
actions are the methods: the two allocators with their sparse and model-backed
forms, write, remove, the K/V mutators, `snapshot` (which evicts),
`set_snapshot_window`, `restore`. `restore` looks every map up by itself, as
the code does, so that a version missing from one map would show.

**VersionArchive.** One map from versions to whole images, with put, evict and
get. `SnapshotStore` implements it under the mapping that reads the six maps
as one (`ImplementsArchive`). Partial restores, partial evictions and images
that change after the fact are steps that the archive does not have.

**EngineRollback.** `eng[e]` is an engine's state and `stack[e]` its stack of
tagged entries, for a set of engines split in the two groups the handlers
distinguish (those that SIGNAL ABORT pops, and the others). FORK takes the
memory version before it can fail, which `ForkErr` keeps. The engines' own
opcodes (SSM_SCAN, SNN step, arena allocations, ...) are one abstract step that
gives an engine any value; the memory's operations interleave with all of it.
`sealed` is a history variable, the engine states at each FORK and SNAPSHOT;
no guard reads it.

**Scheduler, Slice.** A scheduler is the record of `context.rs`'s fields and
each method is an operator. `retain` is `KeepAt`; `pick_next` skips ids that
are not Ready and drops them, a branch that `RunLoop` shows to be idle
(`QueuesExact`) and that the reactor does use.

**RunLoop.** A turn is `Pick` and then one action for the instruction, which
contains the handler and the end of the slice with it, because the code does
not interleave anything between them. A program is a sequence of instructions;
a PC is an index of it, and "not the start of an instruction" is "outside the
program". Registers hold any value, so a target read from a register is any
id, a conditional jump goes either way, and a register that does not exist is
an `Err`; a deadline may have passed or not at every arrival. PRIORITY_SET
also stands for CTX_SWITCH, which does the same to the scheduler. A context
that PRIORITY_SET or YIELD preempts keeps its PC and executes the instruction
again, as in the code. "OTHER" is every opcode that only computes.

**Dispatcher.** What the scheduler and the barriers promise together, without
queues: a table of contexts, who of two ready contexts of a band has waited
longer (`ahead`), and who is parked at which gate. A turn goes to the one that
has waited longest in the highest band, and ends in one of five ways: it leaves
the others alone, creates one, removes one, parks its context or frees all that
are parked at a gate. Nobody who stays ready is overtaken. `RunLoop` implements
it (`ImplementsDispatcher`): `ahead` is the order in the queues, `parked` are
the Blocked contexts of the waiting lists, without the removed ones that the
lists still name. A context that is queued twice or dropped from a queue of several, a
wake-up for some of the waiters only, an id that is used again, and an ended
context that runs are steps that the dispatcher does not have. In what order
newcomers of one turn stand behind the others is left open.

**Reactor.** `signals` is the loop's receiver of the scheduler bus, which
forgets its oldest signal when full. `interrupt` is the watch, `unseen` whether
the loop's receiver still has to be told. The timer may fire although a signal
is there: `select!` takes a branch at random among those that are ready, and a
slow handler makes both ready. `issued` and `forks` are history (the second is
`stats.forks`).

**Tensors, TensorMath.** A tensor is a shape, a type and a sequence of elements,
the last axis fastest; each handler `exec_*` is an operator that answers a
tensor, an error or a panic, and keeps the arithmetic on flat positions of the
code (outer, axis and inner sizes, odometers, strides). An element is an integer
or NaN. Sums, products and comparisons are exact; what floating point does
beyond them (a root, a softmax, a conversion between formats) is
`Kernel(name, arguments)`, a value that depends on the name and on the exact
arguments and on nothing else, so that a wrong element, a wrong row or a wrong
order of arguments is a different value. Errors and their order are those of the
code: shapes, types, sparse operands, NaN, zero sizes.

**Encoding, Assembler, SourceFile.** A payload is 26 bytes, numbers are written
and read byte by byte at the offsets of the code's setters and getters, so that
two fields that overlap or a number that is cut would show. Characters are not
modelled: a line is a record with tokens (a register, a number, an identifier,
`KEY=value`, `@name`). A mnemonic is a row of a table (its registers, its keys
with their ranges, defaults and names), the irregular ones (TENSOR, COMPARE,
STREAM, FFN, ...) are written out. The two passes, the rules of `.reg` and `.equ`
(one register per alias, no second definition, the leading `r` that is dropped)
and the layout of `.data` with its alignment and padding are operators on the
sequence of lines.

**Container.** A file is a header or none, cells of 32 bytes and a tail; a cell
is the width class of its first byte and an instruction. A checksum *is* the
content it covers, that is, a CRC-32 without collisions. Writing, checking,
opening with frames of mixed width, feature bits, entry point, the legacy format
and the sniffing by name and by first byte are operators.

**Machine.** The variables are those of one context and of the parts it touches;
the program is a sequence of instructions and the pc a byte address. A step
fetches and executes one instruction: `Compute` for the tensor opcodes, and an
action for each of the others. An opcode that returns `Err` ends in `Refuse`, or,
with what it has done before, in `Stop`; a Rust panic ends the VM (`Crashes`).
Most handlers write their register last, by `set_reg`, which takes the bytes
0..15 only: `SetTo`, and `SetAny` where 0xFF stands for no register. Any other
byte, which the assembler does not write and a damaged `.m3bin` may hold, fails
there, when the tensor is made, the arena has moved, the vector is in the index
or the version is issued. Some opcodes read memory where there is no tensor (ATTN
words for a 2x2 tensor, EMBED a token of a million or more, SAMPLE 16 logits):
`CanRead` says which addresses can be read, inside the block of a tensor or of the
data section or in the two regions that are buffers, and `Words` what is there:
elements, zeros, or numbers of the kernel. Addresses are bytes, aligned to 64
as in the allocator; a tensor keeps its contents at its address, and the window
of retained versions is left to `SnapshotStore`: no run here takes enough
snapshots to evict one. The seven engine stacks are one stack, of the three
engines that have opcodes here: SNAPSHOT and RESTORE push and pop all of them
alike, and `EngineRollback` is about the ways in which they part. The RAG store
is reached through `engines.rag`, a reference into `stores`; the copy on write by
reference count is `WriteRag`. Jump targets, registers and flags are the real
ones here.

**System.** `stage` says how far a program has come. There are two ways in: the
CLI assembles, writes a file and opens it in another process (with at most one
fault between the two: a file cut short or one byte changed, the class of a
cell, a field of the header or any register of any instruction, which becomes 15,
the last register, or 16, which stands for the 239 bytes that name none), the
API assembles
for a memory that may hold tensors already and loads code and data into it.

**TensorLaws.** `last` records the operands, fields and result of the last
instruction. The laws say in coordinates what the result must be; none of them
uses a stride, an inner size or a ranking, so that they are a second, independent
definition of each opcode.

**Interactive.** One action for each thing a turn of the loop can do: end, idle,
begin a generation or roll one back (`Prompt`), pick a context, and one action
for each instruction that the loop treats by itself (its own FORK, ABORT,
CTX_SWITCH and streams). A prompt may arrive at every turn, because a thread of
its own reads stdin. The memory is the archive of whole images that
`SnapshotStore` implements; entropies are levels, of which 1 stands for the
threshold 0.5. The ring has `Physical` cells and answers logical addresses that
wrap at `Logical`. Three history variables are read by no guard but the bound
`MaxBytes`: `said` of a checkpoint (the output when it was taken), `past` (how
many bytes have been pushed; byte *n* of all that were pushed has the value *n*)
and `pushed`, the set of the pushes that are not overwritten.

## 3. Runs

| run | states | what it asks |
|---|---|---|
| `SnapshotStore` | 312 603 | types, the six maps agree, retention, address freshness, metadata, immutability, refinement of the archive |
| `EngineRollback` | 321 910 | types, ordered and aligned stacks, faithful entries, exact rewinds |
| `RunLoop` | 542 477 | types, exact queues, strict priority, FIFO, barriers without lost wake-ups, locks, end of the run, refinement of the dispatcher |
| `RunLoopLive` | 24 796 | a ready Red context is served |
| `Reactor` | 756 055 | types, ready contexts queued once, nobody stranded, late signals wake nobody |
| `System` | 38 834 | labels, operands, data, files, control; order, shape and index laws of the opcodes; arenas, addresses, RAG snapshots, refusals that did nothing or all |
| `Interactive` | 544 738 | checkpoints are prefixes of the output, the ring reads back, a rollback is whole or nothing |
| `RestoreTwice` | violation | a second RESTORE of a version rewinds the memory and not the engines |
| `SignalAbort` | violation | SIGNAL ABORT pops three of seven stacks |
| `BarrierPair` | violation | a released waiter executes the BARRIER again and blocks for ever |
| `ForkTwice` | violation | a FORK executed on a signal is executed again by the scheduler |
| `StaleInterrupt` | violation | an interrupt is never cleared and meets a later context |

The five violations are disagreements between the code and a sentence of the
repository, quoted in `PROJECT.json`.

### Bounds

* `SnapshotStore`: windows 0, 1 and 2 (0 means "unlimited" in the code, 1
  evicts on every snapshot, 2 leaves a version between the newest and the
  evicted), three versions so that each window is exceeded, two addresses, two
  data values, three edits between snapshots (`MaxEdits`, a bound on the
  counter `edits` that exists for this only).
* `EngineRollback`: windows 0 and 2, three versions, two engines that
  SIGNAL ABORT pops (interchangeable, hence the symmetry) and one that it does
  not, two engine values, two engine steps (`MaxMoves`), and a memory cut down
  to its K/V layers. Two engines in a group show that they stay aligned, the
  third that the groups do not; three versions make a rewind that skips one and
  lands on another.
* `RunLoop`: three contexts (a waiter, an arriver and one to be preempted),
  call depth 1 in the place of `MAX_CALL_DEPTH` (the ceiling is met), one
  barrier and one lock (a barrier and a lock never look at another one), and programs built by `Menu`: a loop in which each instruction of a
  list may be executed or skipped, so that contexts execute every interleaving
  of every sequence of them, without end.
* `Reactor`: three contexts and a bus of two unread signals where the code has
  64, so that signals are lost after one FORK too many.
* `System`: every row of the grammar with all its keys (values of one and of two
  bytes), every tensor opcode on tensors of up to three axes with ties and NaN,
  alone and after another opcode; all sequences of three lines over a menu for
  arenas, for the RAG store and for tensors with SNAPSHOT and RESTORE, with and
  without a snapshot before them; sources with every kind of line; every file in
  every format with every fault of `Faults`. Blocks of quantised tensors have 2
  and 4 elements where the code has 32 and 256, an arena ends at 128 bytes where
  the code has 2^30 (it doubles up to there and is refused beyond), the call depth
  is 2 (it is met), registers wrap at 2^24 instead of 2^128.
* `Interactive`: both windows are 2, and up to four FORKs exceed either; outputs
  of three tokens with two texts, so that what is said again after a rollback may
  differ; three entropies (below, at and above the threshold) in a tracker of two;
  a ring of 4 cells, 8 logical, with prompts of 3 and 5 bytes: two prompts wrap
  the buffer, three wrap the logical space, and one does not fit; five contexts.

Deadlock checking is off in the runs of the loops and of `System`: a run of the
program ends (and in `Interactive` the bounds on tokens and FORKs stop the
counters), and `at = "done"` is its end in the run loop. `IdleMeansNothingReady` and
`EndsWhenAllEnded` say when it may.

### Fairness

`RunLoopLive` assumes weak fairness of the whole next-state relation,
`WF_runVars(RunNext)`: one thread runs the loop, no handler modelled here waits
for anything, so that the thread goes on while it has something to do. Nothing
fairer is assumed: which instruction comes next is the program's, and which
context comes next is the scheduler's. `RedIsServed` holds on the queue
discipline alone.

## 4. Proofs

TLAPS proves, for all values of the constants (any contents, windows, bounds,
any sets of engines, any programs, sources, locks and barriers):

* `SnapshotStore_proofs`: type correctness, `SixMapsAgree`, `RetainsNewest`,
  `VersionsImmutable`, `FreshAddress`, `MetaMatchesHeap`, and
  `ImplementsArchive`, that every step of the memory manager is a step of the
  archive or a stutter.
* `EngineRollback_proofs`: type correctness, `StacksOrdered`, `GroupsAligned`,
  `EntriesFaithful`, `RewindExact`.
* `RunLoop_proofs`: type correctness, `QueuesExact`, `StrictPriority`,
  `BlockedAreWaiting`, `IdleMeansNothingReady`, `FifoOrder`, `LocksAreHeld`, and
  `ImplementsDispatcher`, that every step of the loop is a step of the dispatcher
  or a stutter: every property of the run `RunLoop`; and `DeadStayDead`, which
  that run checks as a part of the refinement.
* `Reactor_proofs`: type correctness, `ReadyQueuedOnce`, `EndsWhenAllEnded`,
  `LateSignalsWakeNobody`: every property of the run `Reactor`.
* `Interactive_proofs`: `CheckpointsArePrefixes`, `TemporalReadsBack`,
  `RollbackAllOrNothing`: every property of the run `Interactive`.
* `System_proofs`: `ArenaBlocksDisjoint`, `RagSnapshotsIsolated`,
  `FileIsTheProgram`, `ControlStaysInside`, `AddressesAreForever`,
  `RefusedOrWhole`, `DataWhereSaid`, `JumpsLand`; and `FieldsSurvive`,
  that every field of every opcode, but for those of RNG_UNIFORM, which share
  bytes, is decoded as it was encoded, if the value fits the field and is none
  that the getter reads as another.

The assumptions are the named `ASSUME`s of the modules on their constants (the
fresh content is a content, the windows and bounds are natural numbers, model
tensors have addresses of their own, the engines that SIGNAL pops are engines,
the operands of an instruction have the types of its fields, the logical space
of the ring is a whole number of turns, an arena ends at 2^30 bytes at the
latest, a source is a sequence of lines and a blob has a sequence of values,
the addresses of a file's labels and blobs fit the 128 bits of a register, a
tensor of the host is dense and not empty), which TLC evaluates in every run.
Note that a program of the theorems is any sequence of instructions over any
ids, and that the registers are free in the models of the loops: what is proved
of them holds whatever the programs compute.

The inductive invariant of the memory is `MemInv`: the types, the agreement of
the six maps, and that the retained versions are an interval that ends at the
last version issued. Agreement alone is not inductive for eviction without the
types, and retention needs the interval: what `evict` removes is the oldest by
number only because the numbers have no gap. Immutability, freshness and the
refinement follow from it step by step.

The inductive invariant of the rollback is `RollbackInv`: `MemInv`, the types,
and `StacksOrdered`, `EntriesFaithful` and `GroupsAligned` together. Each of the
handlers either pushes the newest version on stacks or cuts stacks (lemma
`PushOrCut`), and it is shown once for each of the two that order, fidelity and
alignment survive. `RewindExact` then follows: on an ordered stack the entry of
a version is unique and everything above it is newer, so that a cut at the
version is exact. That a stack has a highest entry not newer than the target is
the one place where induction over numbers is needed; it is taken from the
well-foundedness of `<` on the naturals. Lemma `MemoryHalf` lifts every step of
`EngineRollback` to a step of the memory, so that the theorems on the memory are
reused and not proved again.

The inductive invariant of the run loop is `IInv`: the types (`SchedOK`), exact
queues (`Exact`), where the loop is (`Slicing`: while an instruction executes,
its context is the only one Running, and current; otherwise nobody is Running),
that its context was the foremost (`Foremost`), and who waits (`WaitersOK`,
`BlockedWait`, `BarriersOK`: known waiters are Blocked, nobody waits twice,
whoever is Blocked waits, an open barrier counts its waiters and lacks an
arrival). Exactness of the queues is not inductive alone: that a yield queues
nobody twice needs that the current context is Running and in no queue, which
only `Slicing` says, and that a wake-up queues nobody twice needs that waiters
are Blocked. `Scheduler_proofs` shows, for each method of the scheduler, what it
does to the table and to the queues and that order and exactness survive: a
queue that `retain` has gone over (`KeepAt`) is the queue without one id, in its
order, by counting ranks, since induction over the queue is not to be had. In
`RunLoop_proofs` a turn is cut in two: what the handler leaves (`Mid`), and the
end of the slice (`Settled`); any handler but those of BARRIER ends in `Plain`,
nobody but its context changed, and one lemma (`TurnKeeps`) shows that `Plain`
keeps the invariant. Waiting and waking have lemmas of their own (`ArrivesIs`,
`WakeIs`, `OpenedIs`). The action properties come out of the same lemmas, which
carry the order of the queues (`Fifo`) and the fate of the ended (`NoRevival`)
along. The refinement uses what has been proved twice: `Exact` makes the queues
a strict order of the ready contexts of each band (`QueuesAreLine`), and `Fifo`
says that nobody is overtaken (`LineKept`). What is left is the table of
contexts: a handler changes the caller and at most creates one, removes one or
wakes the waiters of one barrier (`Apart`, `CreateTable`, `RemoveTable`,
`WakeIs`), and that a turn does not leave its context Blocked unless it waits
comes from `BlockedWait` (`OverState`).

The inductive invariant of the reactor is weaker where the code is: a signal
executes a context where it stands, so that an ended context may still be
queued, and nobody is exact about the queue of a context (`Placed`: nobody
stands twice, who is queued is Ready or has ended, who is Ready is queued). To
it come the announcements (`SignalsOK`: ids are announced once each and in
order) and the loop (`ExecOK`: whoever executes without being Running was called
by its only signal). One fact in it is not obvious and was found by the proof: a
NOP of the reactor puts the state of its context back to Ready, so that a late
signal for an ended context *that stands at a NOP* would revive it; the
invariant says that there is no such signal (`EndedAtNop`), because a context
ends where it stands, at a HALT or at an instruction that fails, and a NOP does
not fail.

The inductive invariant of the interactive loop is `IInv`: the checkpoints are
prefixes of the output with growing versions (`HistoryOK`), the memory retains
just the newest versions (`SavedOK`), a generation has a context (`TableOK`) and
the ring holds, cell by cell, the last bytes that were pushed (`RingOK`). That a
rollback is whole needs all of it: the checkpoint chosen is there, its version
is in the memory or every older one is not either, and truncating the output at
its index gives what had been said. `RingOK` is about two moduli, of which one
divides the other (`ModOfMod`).

Of `System` four things are shown. Of the run, that arenas are sound in the
engines and in every entry of the snapshot stack (`ArenasOK`; an ARENA_RESET and
a RESTORE bring old cursors back, together with the blocks that were good at
that time), and that the stores of the RAG index are numbered without a gap, so
that the copy that a write makes is under a new number, never under one that a
snapshot names. The proof showed a limit of the model that no run had met: a
CHOOSE over doublings of the capacity without a largest one, which is now 24,
what an arena of at most 2^30 bytes needs. Of the way in, `LoadInv`: what a file
holds that was saved and perhaps damaged (`Held`), and where control may be. A
damaged `.m3bc` opens only if the checksum, which determines the content it
covers, finds header and cells unchanged; what is left is then the tail and the
magic, and the frames of a narrow program are split just where they were put
together (`SplitNarrow`). Control stays inside because an instruction goes on to
the next, to an immediate that is checked to be the start of one, or to an
address that a CALL has pushed.

Of the memory, `AddressInv`: all maps of tensors, the live one and the saved
ones, agree with each other and end before an aligned cursor (`MapsOK`).
Agreement has to be between *any two* maps, not only with the live one: a
RESTORE makes an old map live, and the next tensor must not meet what any other
version holds. A new tensor stands at the cursor, so all depends on its size
being a number and not zero: `Deliver` refuses a size of zero, and the rest is
one lemma for each opcode (`Made`: what it makes is dense and its shape is a
sequence of numbers), which rests on the operands having such shapes, by the
same invariant, and on the fields of the payload being numbers, by every row of
the opcode table (`OpTableOK`, `SizesAre`). The data section needs its size too,
for which the first pass keeps the form of the blobs (`PassOK`, `LayoutIs`).

That a refusal is whole (`RefusedOrWhole`) splits the errors in two. An opcode
that refuses by itself has done nothing (`Refusal`): the address of a tensor that
is left behind was free (`AddressInv`), an arena that is left behind is empty, and
an index has a number that no index had (`RagInv`). One that fails at `set_reg`
(`Late`) has a destination that is no register, and has done all it does when it
succeeds: the cursor of one arena has moved inside its capacity, one index has one
vector and one id more or less, at the same place of both (`AddIs`, `WithoutIs`),
or the version has its entry for the engines on top of the stack. The property
does not claim that the code refuses before it acts: it does not. It excludes that
the work is done by half, as it would be if the register were written between two
of its parts, which is the mutant. Some `CASE`s of the model had arms that were not exclusive,
which TLC had decided by their order and the proof could not: they are exclusive
now.

That the data section stays where the assembler said (`DataWhereSaid`) needs
both ends. The assembler gives every blob a name of its own and an address
(`SectionIs`), on boundaries and one behind the other (`LayoutIs`, from offsets
that only grow); the loader takes a block at the cursor, and `DataInv` keeps
every tensor of every map below it or above it, so that a RESTORE cannot bring
back a tensor that lies on it. For this proof `Written` says byte by byte which
blob was written last there, in the place of a fold over the blobs; `WrittenIs`
shows that it is the only one.

That a jump lands on the line that its label names (`JumpsLand`) goes through
the whole way in. The first pass (`Scan`): after k lines the instructions are
the lines of code so far, each label is the place of a line that has it, and
what a line adds is `ScanLine`, by the grammar that reads it
(`LineIs`). The second pass puts the value of the label into the one field of
the payload that the row of the opcode gives it. The encoding: a number is made
again from its digits, and no two fields of a layout share a byte, so that what
is written into one is not lost by writing another (`FieldsSurvive`, one lemma
for the layouts of a form). The loader: `Assembled`, what runs is what the
assembler made of the source, or was read from a file that was saved of it,
where `LoadInv` says that it is the same.

Induction over data is replaced in these places by the least element of a set of
numbers (`Least`, and `Throughout`, `Iterates` and `Rises` of `Numbers`, which
say it once for recursions over numbers): what a recursive *function* computes
(`FirstPass`, `SplitFrames`, `Numel`, `Layout`, `TensorEnds`) is shown to be
what was claimed because there is no least place at which it is not.

Only model-checked, and why:

* `RedIsServed`: liveness.
* `OrderLaws`, `ShapeLaws`, `IndexLaws`: the operators of `Tensors` and
  `TensorMath` are folds over sequences of any length, and a statement about all
  of them would need induction over data, which the prover does not do here.
* `OperandsSurvive`: what the folds over the tokens of a line leave in the fields
  of an instruction (`Assembler`) would need the same. Its second half, that what
  is left in the fields survives encoding and decoding, is `FieldsSurvive`.

## 5. Disagreements met that no run is about

Read in the code while modelling. Those marked (m) are in the models as the code
has them, as an outcome that the properties allow.

Data opcodes:

* (m) BROADCAST advances the stride of the source by the dimension of the target
  (`vm.rs:5406`): from [2,1] to [2,3] it runs out of the source and panics, where
  `docs/RFC-0027-SHAPE-OPS.md:64` defines a result.
* (m) ATTN on a tensor of one axis panics (`vm.rs:1755`), and FFN with three
  operands panics in the parser (`opcodes.rs:3748`).
* (m) The sequential id of RAG_INDEX_ADD is not checked against ids that the
  caller gave, so that an index may hold one id twice (`rag.rs:122`); for an id
  that is given the comment at `rag.rs:110` calls a collision an error.
* (m) RAG_INDEX_ADD that is refused leaves a new, empty index behind
  (`vm.rs:4192`).
* (m) A destination byte of 16 to 254 is refused after the work: ARENA_ALLOC has
  moved the cursor (`vm.rs:4018-4022`), RAG_INDEX_ADD has added the vector
  (`vm.rs:4192-4205`), RAG_INDEX_DEL has deleted the id (`vm.rs:4225-4227`), and
  SNAPSHOT has issued the version (`vm.rs:4582-4592`). A `.m3bin` has no checksum
  that would keep such a byte out.
* (m) SAMPLE takes four equal logits where it can read none (`vm.rs:2105`), and
  ATTN a 2x2 tensor where there is none (`vm.rs:1740`).
* (m) `read_f32_tensor` decodes Q8_0 as Q4_K (`memory.rs:1326`), EMBED takes any
  register below 1 000 000 for a token number, an address included
  (`vm.rs:2038`), and reads the token at the address from there on.
* FORK does not copy `model_handle`, which `vm.rs:533` says the child inherits.

Assembler and files:

* (m) A label that is defined twice is overwritten without an error
  (`opcodes.rs:2890`); COMPARE reads an immediate below 16 as a register
  (`opcodes.rs:3814`); a single number after TENSOR's register is ignored
  (`opcodes.rs:3490`); `.reg` strips one leading `r` of a name and a use strips all
  of them (`opcodes.rs:2775`, `3053`).
* (m) A data section that holds only an empty `.str` is refused when it is loaded.
* (m) `is_probably_bin` looks at the first byte only; `run_file` ignores the entry
  point of the header; the REQUIRED bit V3 is understood and never written
  (`main.rs:1144`).

Host loop:

* (m) A rollback whose restore fails is printed and the prompt is lost
  (`main.rs:472`); only context 1 gets the pc of the checkpoint; a context 1 that
  has ended is made Ready and enqueued nowhere (`main.rs:495`); the label of FORK
  is not checked (`main.rs:788`); checkpoints older than the memory's window stay
  in the list.
* (m) Context 1 is Ready from `load_program` on: a stdin that closes before the
  first prompt leaves the loop idling (`main.rs:510`), against the comment at
  `main.rs:430`.
* The engine stacks are not restored by a rollback of the host.

## 6. What is not modelled, and why

* Floating-point code (kernels, inference, speech, shaders) below the level of
  `Kernel`: TLC has no floating point, and no order of events depends on it.
* Opcodes of SSM, SNN, audio, depformer, K/V rows and attention over them,
  random numbers, audio and token streams, models: they are decoded and assembled
  by the models and not executed. Their work is numeric or with devices; what they
  do to snapshots is the abstract engine step of `EngineRollback`, and what they
  do to contexts is "OTHER" in `RunLoop`.
* In `RunLoop`, register contents, RNG state and flags: targets and conditions
  are nondeterministic there. The model handle of a context is left out
  everywhere; that FORK does not copy it is listed as a hazard.
* Retention in `Machine`: versions are never evicted there.
* The PERSISTENT mapping (an mmap of a file) and the contents of K/V rows.
* The stream bus: waiting on it delays a STREAM and moves no context.
* The memory side of the reactor's FORK and ABORT, which snapshot and restore
  the memory without the engine stacks (a hazard without a property).
* `run_real_interactive`: the same loop around a language model. The difference
  that matters, that it drops the answer of `restore`, is the mutated form of
  `RollBack`, which breaks `RollbackAllOrNothing`. The other commands of the CLI
  print or measure.
* Publishers outside the reactor (threads that feed audio): nothing in the
  repository's reactor runs one.
* Characters: comments, number formats and the wording of errors are below the
  tokens of `Assembler`. Two contents with one CRC-32 are left out.
* `memory_wgpu.rs` mirrors the memory manager on a GPU and delegates snapshots
  to it; terminal UI, logging, benches and the Lean files are left aside.

## 7. Plan

Done: memory and archive, engine rollback, scheduler, run loop, reactor;
encoding, assembler, source files, container, one context with its data
opcodes, arena and RAG store; the interactive host loop with its checkpoints and
the TEMPORAL ring; proofs about all of them (section 4).

Left:

1. Abstract specifications: a barrier as a one-shot counter, which `RunLoop`
   implements up to the release; the reactor as a dispatcher whose contexts also
   run on signals; `Interactive` over `SnapshotStore` in the place of its archive.
2. A fair host: the loop ends when stdin has ended and nothing is left to do.
3. The KV address space across `kv_cache_init`, K/V streams (append, truncate,
   compress) with their rows; the memory of the reactor.
4. The opcodes that are decoded and not executed, first RNG and depformer KV.
