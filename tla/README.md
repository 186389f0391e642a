# AgInfer: a TLA+ model of its compiler passes and runtime

AgInfer compiles a model offline (Python, `src/aginfer`) into an AIM container
and replays it from a small C++/CUDA runtime behind a C ABI (`cpp`, `include`).
This directory specifies the parts whose correctness depends on order, state,
failure, index arithmetic and on two programs reading the same bytes, checks
them with TLC on small instances and proves what matters most of the allocator,
the command order, the replays, the session, the handles, the container, the
plan and the command payloads with TLAPS.

Paths below are relative to the repository root. Run from this directory:

    tlc -workers 2 -config MCArenaAllocator.cfg MCArenaAllocator
    tlapm CommandMemoryProofs.tla

## 1. Inventory

### Compile time

| Component | State it keeps | Operations | What makes it correct |
|---|---|---|---|
| IR, verifier, executor (`ir/`) | program, SSA values, states | verify, execute | single assignment, states typed, reads follow writes |
| Recipes, frontend, source manifest | checkpoint identities | import a checkpoint | the program is the checkpoint's; files unchanged |
| Program rewrites (`compiler/projection_fusion.py`, `resident_kv.py`, `linear_precision.py`) | program | rewrite | same values, renumbered consistently |
| Inventory and schedule (`lowering/inventory.py`, `schedule.py`) | inlined op list, value table, states | inline calls and repeats | every use after its producer, state versions threaded through iterations |
| Capabilities (`lowering/capability.py`), providers (`providers/`) | claims of ops by kernels | match, resolve, encode payloads | each op claimed once; a fusion covers exactly what it replaces |
| Memory plan (`lowering/memory.py`) | roots, liveness, free list, arena | plan, replan at command boundaries | live values disjoint, inside the arena, nothing lost |
| Command assembly (`lowering/assemble.py`, `command.py`) | placements, dependencies, heap | order, assemble | producers first, state accesses in source order |
| Dead commands, constant folding (`compiler/`) | command list, computed constants | remove, fold, replan | what survives still has its producers |
| Weights (`packed_weights.py`, `constant_store.py`) | spans, output file | pack | each constant once, spans disjoint |
| Executable plan, AIM (`executable.py`, `aim.py`) | tables, sections, temporary file | write, read, verify | readers accept exactly canonical files; replace is atomic |
| Pipeline (`compiler/pipeline.py`) | source identities, scratch | compile | the artifact describes one state of the checkpoint |

### Run time

| Component | State it keeps | Operations | What makes it correct |
|---|---|---|---|
| C API (`cpp/runtime.cc`) | runtime (device, provider cache), model (mapping), session | create, load, destroy, bind, prepare, enqueue, query | handles outlive users; failures leave no handle |
| V1 session (`cpp/runtime.cc`) | bindings, module, functions | same | launches with the current bindings |
| V2 session (`cpp/executable_session.cc`) | bindings, driver, regions, commands, graph, ledger | same, two private captures | frozen addresses, complete preparation, exact ledger, ordered release |
| Plan and command parsers (`cpp/executable_plan.cc`, `command_stream.cc`) | views | parse | bounded, canonical, same as the Python parsers |
| Provider dispatch and payloads (`cpp/providers`, `cpp/*_payload.cc`) | prepared commands | prepare, execute | a record becomes the command it describes or is refused |
| CUDA driver wrapper (`cpp/cuda_driver.cc`) | library, primary context | load, allocate, copy, launch | releases what it retained |

### How they interact

The passes run one after the other and pass immutable values: program,
inventory, schedule, memory plan, placements, ordered commands, memory plan
again, plan bytes, container. `replan_memory_for_commands` calls
`order_command_placements` and then `_allocate_intervals`. At run time the
caller calls the C API, which calls the session, which calls the driver. A
session is externally synchronized. The arena and the state region live in the
device and carry their bytes from one replay to the next.

### What is hard

Order (fusion moves commands away from their source position), reuse (arena
bytes are shared over time and never cleared), partial failure (every driver
call of `Prepare` can fail), the private captures (begun captures must be
ended), release order, bookkeeping under partial submission, aliases of mutable
states, the publication of a container beside crashes, other writers and files
that change while they are read, two implementations of every binary format,
pattern matchers that replace a dozen operations by one kernel, and the
provider cache of a runtime. The full list, each at its line, is `hazards` in
`PROJECT.json`.

## 2. Plan

| Order | Modules | Model | State |
|---|---|---|---|
| 1 | `ArenaAllocator` | `_allocate_intervals`, `_merge_free`, `_verify_memory_plan` | done, proved |
| 2 | `SessionContract`, `ExecutableSession` | contract of the docs; v2 session, which implements it | done, proved |
| 3 | `CommandOrder`, `CommandMemory` | order, replan, allocate, run | done, proved |
| 4 | `AimContainer` | both writers, crashes, edited payloads, reader and mapping runtime | done, proved |
| 5 | `OpTypes`, `TensorOps` | verifier rule and executor arithmetic of each opcode | done |
| 6 | `ProgramIR`, `ReferenceExecutor`, `Schedule`, `LoweredReplay` | from program to replay, against the reference executor | done, schedules proved |
| 7 | `ScheduledGraph`, `ScheduleEdits`, `RegionMatchers`, `ProviderRegions` | provider matchers and what they replace | twelve matchers done |
| 8 | `CommandFusions` | the fusion passes of the native compiler | done |
| 9 | `PayloadEncoders`, `PayloadDecoders`, `PayloadParsers`, `KernelExtents`, `CommandPayloads` | payloads in both languages, launches | done, proved |
| 10 | `CommandStream`, `ExecutablePlan`, `PlanCompiler` | stream and plan, both parsers each | done, accepted plans proved sound |
| 11 | `CompilePipeline`, `RuntimeApi`, `PlanPackage` | checkpoint and kernels under change; handles, probes, failures | done, handles, stored plans and artifacts proved |
| 12 | program rewrites, constant folding, v1 bind and enqueue | as named | not modelled, see section 6 |

Abstract specifications: the session contract; the reference executor, which
`LoweredReplay` compares a replay with; `Meanings` of a schedule, which the
matchers and fusions are compared with; the compiler's decoder, which the
runtime's parsers are compared with. Proofs are in `CommandMemoryProofs`,
`ExecutableSessionProofs`, `RuntimeApiProofs`, `AimContainerProofs`,
`PlanPackageProofs`, `ScheduleProofs`, `PayloadCodecProofs` and
`CommandPayloadsProofs`.

## 3. Modules

### ArenaAllocator

`todo` is what is left of `sorted(pending)`, `active` and `free` the two lists
of the loop, `placed` its result; `arena_end` and `peak_live` are the code's.
One iteration is `RetireExpired` (the values dead before the interval starts
give up their blocks), `MergeFree` steps (the joins of `_merge_free`, lowest
first), then `PlaceInFreeBlock` (first fit, remainder kept), `PlaceAtEnd`
(align, grow) or `RejectOverflow`. `Commit` holds the overlap assertion and the
bookkeeping. `VerifyPlan` is the sweep of `_verify_memory_plan`. Lists are
sets: offsets are distinct, and the code sorts wherever the order matters.
The alias and constant receipts of `_verify_memory_plan` are left out.

### CommandOrder

A placement is its anchor, the roots its command reads and writes, and its
state accesses with the source operations they stand for (`events`). Roots,
operand ids and covered indices are taken as resolved: the checks that a table
is complete, an alias chain acyclic and an index in range are left out. The
validations become `InvalidPlacements`, in `RejectPlacements`. Entry inputs and
constants are `Immutable`. `BuildDependencies` makes the dependency sets,
`PopReady` is one turn of the heap loop, `FinishOrder` its end. A command that
reads what it writes depends on itself and is refused, as in the code. A source
write of a state belongs to one command (`WritesCoveredOnce`), because a
placement owns the operations it covers; a source read may be shared.

### CommandMemory

Composes the two: `OrderCommands` takes the steps of `CommandOrder`; `Replan`
computes first write and last use over the *ordered* commands, moves outputs to
the caller and hands the intervals to the allocator (the steps of
`ArenaAllocator`, started with no workload and without `VerifyPlan`, which this
path does not call); `CreateArena` and `RunCommand` run the plan. `memory` gives, for
each arena byte, the value and replay it was last written for. The outputs of
the running command are written before its inputs are looked at: kernels write
while they read. State and output buffers are not in the arena and are left out
here; states are ordered in `CommandOrder`.

### SessionContract and ExecutableSession

`SessionContract` is the caller's view: open, prepared, poisoned or closed;
bindings; complete replays. `ExecutableSession` is `executable_session.cc`: `pc`
is the position in the running `Prepare` or destructor, `device` the resources
the driver holds for the session, `bindings`, `cuda`, `prepared`,
`graph_launches`, `submissions`, `enqueues` the members of the class.
`executed` counts what really reached the device and exists only in the model.
Every driver call has a failing and a succeeding action. Both private captures
share the actions of stream creation, begin, record and end, with `capture`
telling which one runs, as the two functions have the same shape. The build
with the CUDA providers is modelled. A zero-sized region is not allocated.
Operand validation (`Prepare`, lines 182-205) is one of the ways
`PrepareCommand` may fail. The session implements the contract under the
mapping at the end of the module.

### AimContainer

`write_streaming` from its first read to its last, one action per chunk read,
write, sync, rename, per writing process; `write`, which takes bytes instead of
files and parses no plan; `AimReader.read` (`Intact`, `CubinsOnly`,
`PlansParse`) and the loader of a build without checksums (`LoadAccepts`).
`pc`, `at`, `buffer`, `identity`, `table` are the local variables of a call,
`fd` its open file. Digests are the bytes themselves. A container is header,
directory, kernels, plans and checksum, and `Chunks` blocks make one payload;
header, directory and checksum hold exactly what their digests cover. Variants
with the same bytes share one section: `Image` numbers the distinct payloads in
the order `add_file` meets them. A kernel or plan is for one architecture
(`Cubins`, `Plans`).
The manifest, graph, tensor and compatibility sections never change and are
part of the header. Around the code stand an editor of payload files, `Kill`,
and `PowerLoss`, which takes any subset of the unsynced blocks and the unsynced
directory entry back; the code never syncs the directory, so an older container
may come back, but a whole one. Only the entry of the destination is taken back,
not an unsynced removal of the temporary file. `Abort` stands for every call that may raise.
Process ids of concurrent writers differ, which holds on one host and not for
containers that share a volume. The order in which inodes are used is fixed.

### OpTypes and TensorOps

`OpTypes` is `_verify_op`: one rule per opcode over tensor types (element type,
shape, device; a positive dimension is static, a negative one a symbol).
`TensorOps` is the executor's half: `Concrete` binds symbols, each `*Sources`
operator says which input elements an output element is computed from, by the
strides and loops of the code rather than by what the operation means. The
property `LoopsReadTheirElements` states the meaning in coordinates.
`KeepsBytes` is the planner's test for operations it elides. Some verified
programs are refused only when executed (BOOL sums, products and reductions, a
broadcast to a symbol no input binds); `Fail` names them.

### ProgramIR, ReferenceExecutor, Schedule and LoweredReplay

`ProgramIR` has programs, the verifier's structural rules and the bounded call
expansion of the inventory. `ReferenceExecutor` evaluates a program to terms:
a tensor is the term that computes its bytes. It is recursive and only TLC uses
it. `Schedule` is `build_execution_schedule` with the recursion of `inline` as a
stack of frames, one action per operation, call, repeat and return.
`LoweredReplay` goes on: storage and aliases of values (`build_memory_plan`),
coverings of operations by commands, alone or as a producer fused with its
user, in either list order; `CommandOrder` on them; dead commands; and one
replay, command by command, over storage with states. Then outputs and states
are compared with the reference executor. The coverings are a stand-in for the
matchers and are larger than what the matchers produce.

### ScheduledGraph, ScheduleEdits, RegionMatchers, ProviderRegions

`ScheduledGraph` is the view each lowering builds first (producers, users,
views, exports). `RegionMatchers` has, for each of twelve providers, its
anchors, the conditions it checks and the region it replaces. `ProviderRegions`
lowers a schedule: an anchor that does not match refuses the schedule, as in the
code. `ScheduleEdits` is the environment: the template a kernel was written for,
and an edit of it (rewire an input, exchange two inputs, another attribute,
another call, a published value, one more user, a literal, an elided view).
`RegionMeansKernel` evaluates the replaced operations to terms and compares
with the kernel's. One fact met here: the exclusive use of the adaptive norm's
regions is not checked by its matcher (`aot_adaptive_rms_norm.py`), and such
schedules are refused later by the memory plan; `RegionsPrivate` says so by
leaving that provider to the planner.

### CommandFusions

The passes `lower_native_program` runs on the lowered groups, in its order and
under each choice of options: GELU-multiply, FFN and residual fusion, KV and
QKV packing, compact gates, residual with norm. A pass drops reads and writes,
moves operands and joins commands. Left out: providers that insist on a region
elsewhere in the program, and state events, which `LoweredReplay` has. A
`ones_tokens` operation behind its anchor in the list makes
`placements_from_partial_lowering` refuse; that is fail-closed and allowed.

### PayloadEncoders, PayloadDecoders, PayloadParsers, KernelExtents, CommandPayloads

A payload is its magic, its size and a map from byte offset to field. The
encoders follow the order and widths given to `struct.pack`; the runtime's
parsers read at the fixed offsets of the C++ code, so a field in another place
is seen. `CommandPayloads` lowers a problem, changes one field, the magic or the
command record, decodes, re-lowers and prepares. `KernelExtents` has grid, guard
and strides of each kernel: how many leading bytes of each operand a launch
touches. `Tolerated` lists where compiler and runtime differ on bytes the
compiler does not write: alignments of a CUDA-kernel payload below its element
size, activations for an architecture other than 120, a nested patch
projection with minor 1 and mode 1. A cuBLASLt payload with minor 1 and mode 1
is decoded and written again with minor 0. Pointer alignment and overlap are
left to the session.

### CommandStream, ExecutablePlan, PlanCompiler, PlanPackage

Streams and plans are headers and tables; offsets count records, not bytes, and
integers are kept modulo `MaxU32 + 1` and `MaxU64 + 1`, set to 32 and 64 so that
every sum can wrap. `CommandStream` has the writer and both parsers,
`ExecutablePlan` both parsers of the plan, check by check, `PlanCompiler` the
packing of constants and `compile_executable_plan`, including the parse of its
own result. A digest is its content. `PlanPackage`, scenario "store", compiles a
request, damages any one field of any record (digests stale or taken again),
drops or repeats a table's last row, or rewrites the storage of two value
records, and both parsers judge the result.

### CompilePipeline

`compile_source`, one action per read of the outside world: kernel, kernel
record, source package, program, identities, constants, identities again, and
the write. Other processes edit shards and the configuration, rebuild kernels and
records, and run the same command again. An edit writes new bytes or gives a file
back bytes it had before. `source` keeps all contents of a file, the present one
last, and `at`, in an identity, says which of them was hashed: it is history, like
`checked` in an artifact, that the code neither has nor compares. A constant's
content is read at once, where `iter_chunks` streams a mapped file.

### RuntimeApi

Runtimes, models, sessions and the wrappers that own them. A call acquires in
steps and may fail at each (`CallFails` is the guard with its `delete`);
installed libraries may be upgraded between steps. `ProviderVersion` caches per
runtime what it probed first. `PrepareStep` acquires the driver resources of a
v1 session in the code's order. `SelectVariant` leaves out the validation of
`ai_session_options` (`runtime.cc:733-740`), whose refusal ends a call as
`CallFails` does. `Delete` gives all resources of an object back in one step, so
a destructor that forgets one is not expressed. The wrappers are used one call at a time, and a
caller ends sessions before their runtime and model, which `runtime.hpp` leaves
to it. A library's version stays cached for the life of the runtime. `Allocate`
waits for a free address of `Objects`; an allocator without one is `CallFails`.

### MC modules

`MC*.tla` give the constants their values; `MC*.cfg` name the properties.
Definitions marked *Fault* are variants of the definition that follows them with
one plausible mistake each; nothing uses them. Each property fails when the
definition is replaced by the variant `PROJECT.json` pairs with it, so each
property is known to depend on the code it is about.

## 4. Runs

| Run | Configuration | Question | Bounds |
|---|---|---|---|
| `arena` | `MCArenaAllocator.cfg` | Does reuse ever overlap live values, lose bytes or leave the range? | 4 values, 3 steps, sizes of 1 or 3 units, alignment 2, limit 15 bytes |
| `memory` | `MCCommandMemory.cfg` | Are producers first and states in source order, and does every command read what its producer wrote in this replay? | families of 3 and 4 commands; 5 temporaries; one state with a read before and after each write; list and anchors agreeing or opposed; 2 sizes, 2 replays, arena limit 12 |
| `shared_read` | `MCCommandMemorySharedRead.cfg` | Is a refused model really cyclic? | as `memory`; violated |
| `session` | `MCExecutableSession.cfg` | Does a session keep its contract under every failure, with and without a graph? | 3 commands, 1 library command, 2 ports, 2 addresses, 2 replays, 3 non-empty regions |
| `session_retry` | `MCExecutableSessionRetry.cfg` | Does a failed Prepare poison the session, as the docs say? | as `session`; violated |
| `aim` | `MCAimContainer.cfg` | Is what the destination names whole and executable, and does a mapping keep its bytes? | six scenarios: one writer with an edit and a crash; two writers; both entry points with a mapped model; two variants that share a payload, streamed with two edits and from memory; two variants that start as copies, with one edit |
| `tensor_ops` | `MCTensorOps.cfg` | Does what the verifier accepts fit the executor, and do its loops read the right elements? | every opcode; ranks to 3 or 4, dimensions 0 to 3 as the opcode needs, attributes at and past their limits |
| `lowered_replay` | `MCLoweredReplay.cfg` | Does one replay of the pruned, ordered commands compute the program? | hand-picked programs with nested and repeated calls, shared constants, two states; at most 14 expanded and 12 lowered operations |
| `provider_regions` | `MCProviderRegions.cfg` | Does each matcher accept only what its kernel computes? | 12 templates, two invocations, every schedule one edit away |
| `command_fusions` | `MCCommandFusions.cfg` | Do the fused commands compute the schedule? | blocks of the passes, all options, one edit |
| `command_payloads` | `MCCommandPayloads.cfg` | Do both languages agree on payloads, and do launches stay in bounds? | 88 problems, each field changed to the values of `MCValues` |
| `package` | `MCPlanPackage.cfg` | Do both plan parsers agree and accept only sound plans, does an artifact record its source, and do calls release what they took? | 12 requests, one field or two value records changed; 1 compiler, 2 edits, 1 rebuild; 1 runtime, 1 model, 2 sessions, 5 objects |

Why the bounds suffice. *arena*: a bad reuse needs a block to be split, its
neighbour retired, both joined and the result placed next to a live value:
four values do that, and a unit of three leaves remainders of two. Values that
start together, end together, and are nested or touching all occur. The limit
of 15 makes aligning and adding overflow in separate workloads; above it the
code does not look at absolute values. *memory*: cycles and interleavings of
two accesses per state need two commands, a third makes a chain through another
command; a foreign byte needs a producer, a consumer, a value between them, and
a fourth to reuse a block of the second; the second replay finds the first
one's bytes. *session*: the loop over commands is uniform; three commands have a
first, a middle and a last one, and only the middle one is a library command, so
the preflight skips on both sides. One region is empty. *aim*: a payload of two
chunks can be torn, one of another length breaks the plan's size, and one crash
falls between any two steps; one edit, because `DestinationExecutable` is true
up to there, see below (one scenario has two, for the other properties). Files beyond the inodes given could only be garbage.
*tensor_ops*: index arithmetic goes wrong at a stride, so no two dimensions of a
case need be equal, and each case has its neighbours on both sides of every
limit. *lowered_replay*: a stale state needs a read, a write and a read over two
turns. *provider_regions*: every condition of a matcher concerns one operand,
attribute or user, so one edit breaks any one condition; two edits on all
templates were run once (145,000 states, no violation). *command_payloads*: a
check concerns one field or a relation of a changed field to unchanged ones.
*package*: two value records are enough for a chain of aliases, a shared range
and a twice-bound root; with 5-bit and 6-bit integers every sum that can wrap
does; two sessions share one runtime's cache and one model. The refused requests
(stale memory or stream, missing, overlapping or misaligned spans, an output
that is an input, inputs that share storage, reads of unused storage or past
the end, two versions of one provider) start from states the passes hand over.

What the runs show beyond their properties:

- `shared_read`: accesses are sorted by (source operation, list position). Two
  commands that consume the *same* `state_read` are chained by list position
  although reads commute. When the first of the two needs the second's output,
  the model is refused with "fused command dependencies contain a cycle" while
  a valid order exists. The docstring of `order_command_placements` promises
  the refusal only for orders that cannot be preserved. `CycleIsReal` is the
  part that holds: without a shared read, every refused cycle is real.
- `session_retry`: when `CudaDriver::Create` fails, `cuda_` is still null, and
  the session stays open: ports can be rebound, a later `Prepare` may succeed.
  `docs/runtime-contract.md` says a failed prepare leaves the session unusable.
  Once the driver exists, the statement holds (`ImplementsContract`).
- `aim`: with two edits under one writer, `DestinationExecutable` fails. A kernel or plan
  that is bad when it is digested, replaced by a good one while it is
  validated, and put back before it is copied, passes every comparison and is
  published; the verification that refuses it runs after the old container is
  gone. The caller is told by an exception, and nothing in the repository
  promises more; the compile pipeline writes from a private directory.
- `aim`, two architectures: if the kernels or plan of the second have the bytes of
  the first's when they are digested and are put right before they are validated,
  `add_file` finds the digest in its table, reuses the section and never reads
  the file again. The container is published with the first's bytes, and the
  writer's own `AimReader.read` refuses it after `os.replace`. The proof of
  `DestinationExecutable` found it: the property now says `Executable \/ Reused`.
- `aim`, two writers: a call may verify, and describe, the container another process
  put in place after it. No document speaks of concurrent writers.

- `package`: the comparison of identities (`pipeline.py:115-117`) sees sizes and
  digests, so it misses a shard that is edited after its first identity and put
  back before its second. A weight packed in between is published under the
  identity of other bytes. TLC finds that in the bounds of the run if
  `RecordedSource` is stated without its last condition; two edits of the shard
  during one compilation are needed, and no document promises more.
- `package`: the identity of the checkpoint is taken after the program was
  imported. Content edited in between is recorded as if it had been imported,
  unless its layout changed, which the constant store refuses. `RecordedSource`
  covers what is read after that, and the kernels.
- `CompilePipeline` with a second compiler of the same output: `Start` looks for
  the output once, and the later `Publish` replaces the earlier artifact, while
  `docs/candidate-compilation.md` says that compilation refuses to overwrite.
  The window is the whole compilation; no configuration kept here shows it.
- `lowered_replay`: a constant's identity is its namespace and name joined by a
  colon, so two constants may share one; `Conflict` refuses them when the types
  differ.

The passing runs check safety properties only: the calls are straight-line code
or loops over finite lists, wait for nothing, and so return. Fairness is stated
for one run. `FairSpec` of `ExecutableSession`, which `session_retry` uses,
assumes that a `Prepare` or a destructor that has begun takes its next step;
nothing is assumed about the caller. Deadlock is not checked: a planner stops
with its result and a closed session does nothing.

## 5. Proofs

Eight modules hold theorems. Each has an inductive invariant, one lemma per
action, and the properties of the runs as consequences. All hold for every value
of the constants under the named assumptions of the module they extend.

### The allocator (`CommandMemoryProofs`, first part)

`Spec` of `ArenaAllocator` implies `[]ArenaInv`, and from it `[]TypeOK`, `[]LiveDisjoint`,
`[]NoAssertion` and `[]InsideArena`, and `[]ArenaTiled` and `[]ReceiptsOrdered`. Assumed: positive alignment, a natural
limit, and workloads of intervals with distinct ids that do not end before they
start and whose sizes are positive multiples of the alignment.

`LiveDisjoint` is not inductive: it says nothing of free blocks, from which the
next placement is taken, nor why a released block may be reused. `ArenaInv` adds
`BlocksDisjoint` (held and free blocks share no byte and lie below
`arena_end`), `TimeAdvances` (the sort order: what was placed started no later
than what is to come, and what was released is dead before it) and `Ordered`.
A value in `placed` that is not in `active` cannot meet the new one because of
`TimeAdvances`; one that is in `active` cannot overlap it because of
`BlocksDisjoint`. `VerifyPlan` cannot fail because its sweep asks for what
`LiveDisjoint` states.

`TilingInv` adds that every byte below `arena_end` is in a block and was once
placed, and that the arena ends at a multiple of the alignment: growing it from
there leaves no gap. What the two properties count with a fold over a set,
`CoveredBytes` and its neighbours turn into the number of pairs of a block and a
byte of it. Blocks that do not overlap make it the number of bytes; placements
that do, more.

### The command order (`CommandMemoryProofs`, second part)

`OrderSpec` implies `ProducersFirst`, `StateVersionsKept` and `CycleIsReal`, for
every list of placements. The invariant `OrderInv`: what has been popped is
closed under dependencies (`DependenciesFirst`), nothing is popped twice, and
`deps` and `ready` are what is left of the dependencies (`HeapInv`).

*StateVersionsKept* needs an argument beyond the invariant: the pass links only
neighbouring accesses of a state, so order between distant ones follows from the
chain. Take the first access, by (event, record), that stands before an earlier
one; the last access before it is its neighbour, so it stands in place, and the
earlier one stands before that neighbour because the neighbour is no
counterexample. Assumed: `WritesCoveredOnce`. *CycleIsReal*: of the records
left, take the one a supposed order places first; it has an open dependency, that
dependency is left too, and the order must place it earlier. Without
`~SharedEvent` the last step fails, which is the finding of `shared_read`. The
least and greatest element of a set of numbers come from the well-foundedness of
strict inclusion (`FiniteSetTheorems`).

### Planning and replay (`CommandMemoryProofs`, third part)

`MemorySpec` implies `OperandsIntact` and `HandoverSound`, and keeps the theorems
of both passes inside the composition. `MemoryInv` joins `OrderInv` and
`ArenaInv` with three parts: the passes run in turn (`StageInv`), each interval
is to be served or was placed exactly once with its own bounds (`HandoverInv`),
and a value between its first write and its last use still holds the bytes of
this replay (`ReplayInv`). `LiveBetween` shows that every command that touches a
value runs in its interval, from the checks of the replanning pass. A command
then writes only bytes of values that live while it runs, and `LiveDisjoint`
keeps these away from any other live value; a value that lives across the start
of a replay would have been written before the first command.

### The session (`ExecutableSessionProofs`)

`Spec` implies `ReleasedInOrder`, `NothingLeaks`, `AddressesFrozen`,
`LedgerExact`, `CaptureEnded` and `ImplementsContract`, for every number of commands, ports and
regions and every failing driver call. `SessionInv` says what is held at each
step of `Prepare` (`DriverInv`, `BringUpInv`), of a private capture
(`CaptureInv`) and of the destructor (`HoldInv`, `ReleaseInv`); `LedgerInv`
relates the counters to what reached the device. `StreamInv` is about the private
stream: what `Prepare` does outside a capture starts none (`OutsideKeepsStreamInv`),
and the steps of a capture, failing ones included, go through its end
(`CaptureKeepsStreamInv`). With `HoldInv`, by which an instantiated graph was captured
whole, this is `CaptureEnded`. `ImplementsContract` follows
action by action: the abstract variables are functions of `pc`, `prepared`,
`bindings` and the ledger, and an action either maps to one of the contract or
leaves them alone.

### The handles (`RuntimeApiProofs`)

`ApiSpec` implies `SessionsSound`, for any number of objects, wrappers, files,
options and library versions. Assumed (`ApiAssumption`): disjoint kinds of
wrappers, a null pointer that is no address, and options, containers and
versions of the types the headers give them. `ApiInv` adds to the property what a
call in progress knows: a wrapper holds an object of its kind that no other
wrapper holds (`HandleInv`), an object without a wrapper is the one being built
(`OwnerInv`), nobody else uses that one (`BuildInv`), and what
`ai_session_create` has checked so far still holds (`AdmissionInv`).
`SessionsInv` strengthens "admitted" by the wrappers that keep a session's
runtime and model alive. The step that matters is a probe: a runtime may learn a
version while other sessions use it (`LearnKeepsInv`), and it only learns what
was unknown, so what those sessions were admitted with does not change
(`AppendedVersion`).

### The container (`AimContainerProofs`)

`Spec` implies `DestinationIntact`, `MappedUnchanged`, `TemporaryOwned` and
`DestinationExecutable`, for any number of writers, variants, edits, crashes and
mapped models. Assumed: payloads are sequences of `Chunks`, every variant names
a file for each kind, and "no file" is neither an inode nor a directory. The
invariant is proved in layers, each of which uses only those below: `FrameInv`
(types, how far the local variables of each call are, which inode it has open),
`OwnerInv` (an inode has one owner; what the destination may name after a crash
is nobody's temporary), `ContentInv` (what a temporary file holds at each location
of its writer; what may be named is whole *and on disk*, without which the
invariant breaks at `PowerLoss`), and `TemporaryOwned`. `ReadInv` is a second
invariant beside it, for `DestinationExecutable` (streaming, at most one edit):
between a digest and the comparison that ends the copy, a file either has not
changed, or was changed by the only edit there is and fails the comparison.

### The stored plan (`PlanPackageProofs`)

`AcceptedPlansAreSound` is about any bytes: whatever is stored, as long as it
decodes to tables of numbers whose lengths are the counts of the headers
(`DecodedPlan`), `ParseExecutablePlan` accepts it only if `LoadedPlanSound`
holds. `StoredPlansAreSound` is `PackageSpec => []LoadedPlanSound`, and
`ParsersAlwaysAgree` is `PackageSpec => []PlanParsersAgree`: on the same stored
plans `parse_executable_plan` and `ParseExecutablePlan` give the same answer.

The parser accepts with wrapping sums, cursors and a sort; the property speaks
of sets of bytes. *Streams*: the cursor over the commands is a fold, which
`FoldsBy` turns into a sequence of its partial sums; `StreamScan` shows that the
spans of the commands follow one another and that every operand belongs to one.
*Roots*: the walk through aliases is bounded by the number of values; its end is
a value that is no alias (`StorageRootFacts`). *Weights*: only neighbours in the
order of (start, end, id) are compared; among the weights that come after one
and are not clear of it there would be a first, which is its neighbour
(`WeightsApart`). *Ports and states*: the root of each row is unmarked when it is
reached, so no root has two, and every root is marked at the end (`NamedOnce`).
*Providers*: ids increase, so a command is under one row only.

`ParsersAgree` compares the two parsers of any decoded plan, table by table.
*Streams* (`StreamsAgree`): Python compares the start of each command with the
sum of the sizes before it and the last sums with the header, the runtime carries
two cursors and stops at the first command that does not fit; the partial sums
are the same, and since they are bounded by what is left the differences the
runtime takes do not wrap. *Headers* (`HeadersAgree`): the offsets the runtime
checks for overflow one by one are places in a section that has a size.
*Values* (`TensorsAgree`, `StoragesAgree`): a product of positive dimensions is
at least each partial product, so the checked multiplications fail exactly when
the final bound does; an alias below a 32-bit count is not `None`. *Weights*: all
pairs apart is the same as neighbours in order apart. *Ports and states*: no root
is named twice, and every root of the region is named, in a set or by marks.
*Providers* (`ProvidersAgree`): Python compares the table with the one it would
make itself; the runtime has rows with increasing ids that describe their
commands and a row for each command. The rows are then as many as the providers
and the k-th row has the k-th id (`IncreasingRanks`). *Operands*: the spans of an
accepted stream cover its operand table.

For the theorems about stored plans, `StoredInv` says that of a stored plan the counts are
right or the offsets are; damage to one field cannot spoil both. A plan with
wrong counts is refused, because the parser computes the offsets from them
(`SizedDecodes`), and so is it by the reader of the compiler. As long as it may be
rewritten once more, both are right (`Whole`). Assumed (`PackageAssumption`): what
the compiler returns for a request, or for any weights a build may pack, decodes;
`MaxRewrites` is positive; and the region numbers fit a 32-bit field
(`PlanConstants`).

### The artifact (`PlanPackageProofs`)

`ArtifactsDescribeThemselves` is `PackageSpec => []RecordedSource`: for any set of
compilers and shards and any number of edits, every weight of a published artifact
has bytes its shard had between the two identities, they are the recorded bytes
unless the shard was edited at least twice in between, and both parsers accept the
plan.

`PipelineInv` says of every build, at every step, what it has read (`BuildStage`),
that each reading is a content of the file's history (`ReadFrom`, `ReadBetween`), and
that readings follow each other in it (`BuildOrdered`): identity, packed bytes,
identity. An edit only lengthens a history, so it disturbs none of this
(`EditedFiles`, `StillRead`, `OrderKept`), and nothing in the invariant speaks of two
builds. When the two lists of identities have equal contents and at most one edit
lies between them, there are at most two contents to read, the first and the last,
and they are equal (`BetweenTwo`, `PublishRecords`). That the assets and constants are
each listed, once, is `AssetsListed` and `ConstantsListed`: an asset missing from
the manifest's order would never be compared.

What the plan says of the weights is about the whole compiler: `PackedSpans` follows
the packer's fold over the constants, one span each; `PlannedDigests` finds each
span again among the value records, by `RegionFor`, and no other record in the
weights. That the runtime accepts the plan is `ParsersAgree`, as the compiler's
reader did. Assumed (`PipelineAssumption`): the program has constants, none of
them a port, of known sizes, and each is stored in one of the shards.

### The schedule (`ScheduleProofs`)

`Spec` of `Schedule` implies `ScheduleVerified` and `BindingsTyped`, for any set
of programs, verified or not, and any bound on the expansion. Assumed
(`ScheduleAssumption`): what the dataclasses hold of any program (`IsProgram`:
functions, operations, operands and states are tuples, and states are ordered by
name). Everything else comes from the verifier, which the model runs first.

`BindingsTyped` speaks of one frame; the steps that matter leave or enter one. On
a return the caller's names are bound to the callee's results, and before the
next turn of a repeat the results become inputs. `ScheduleInv` therefore says how
the frames hang together: each frame below the running one is at a call of the
function above it (`FramesOK`), so the types `CallVerified` compared are those of
the values handed over. Numbers that are kept for later (of states, shared
constants, operands, aliases, producers) stay in range while values are appended
(`ValuesInv`). A constant met again keeps its first number; its type is the
declared one because `Conflict` refuses any other. `DefinedMembers` and
`StatePlaces` state what the flattened definitions and the order of the states
contain: every operand of a verified function is defined before it, and each
state has exactly one number. The run `lowered_replay` checks both on
its programs; that a schedule means its program (`ReplayMeansProgram`) is about
recursive evaluators and stays with TLC.

### The codecs (`PayloadCodecProofs`)

`WrittenIsReadBack`: for every problem a lowering may state, `from_bytes` reads
the same problem from what `to_bytes` wrote and the runtime's parser accepts it;
`BuildBinding` tests the first half of one payload at compile time. `ParsersAgree`:
for any numbers in the fields of a payload of a known form, `from_bytes` accepts it
only if the parser in `src/cpp` does, and the parser accepts no more than
`Tolerated` names. Assumed (`ProblemsAssumption`): a problem has the fields of its
dataclass (`Problem`), its `__post_init__` has accepted it (`Valid`), and it is
written under the magic of its form.

`Packed` is a fold over a list of parts, and `WFMin` with the set of prefixes
stands in for induction over that list (`UpTo`, `FoldsBy`): `PackedFour` to
`PackedSeven` give the fields of a payload part by part (`HeldFour`, ...). Each form
then has four lemmas: `...Lays` (where its fields start), `...Writes` (`to_bytes`
writes these and no others), `...Back` (`Read` gives the problem back) and
`...Agree`. A decoder accepts what it would write again, so `...Agree` comes down to
equations on fields, and the parser's conditions are shown to be the same ones:
tables of kernels and shapes (`CudaTypes`, `RoundedShaped`), the words compared one
by one, the bounds of the dataclass. A patch projection carries a matrix product
behind its header; both are taken apart and joined again (`PatchJoined`,
`NestedIs`).

### The payloads (`CommandPayloadsProofs`)

`Spec` of `CommandPayloads` implies `DecodersAgree`, `LoweredIsPrepared`,
`PreparedInBounds` and `OutputsComplete`, under the same assumption, for any values
a field may come to hold, any change of magic within a family and any change of the
command record.

`ParsedFits` is the substance of `PreparedInBounds`. One lemma per form (`RopeFits`,
`GeluMulFits`, `CublasLtFits`, ...) takes a payload its parser in `src/cpp` accepts
and shows that the sizes `dispatch.cc` asks for are at least what the launched
kernels touch, and that accesses are those of the contract. Forms without parameters
fix every dimension in the parser, so this is arithmetic on the parsed fields;
grid-stride kernels (`StridedAll`, `GuardedAll`) reach at most their element
count whatever the grid; the tiled kernel (`TiledAll`, `ColumnsCovered`) needs
the grid of `PrepareGeluMul` and the width bound of its parser; rounded attention
writes its score scratch before the softmax reads it (`RoundedScratch`).

`LoweredPrepares` is that of the other two: provider, tag, operands, workspace,
module and architecture that the compiler derives from a problem (`Operands`,
`Workspace`) are those the runtime derives from its bytes (`FormDispatched`,
`WorkspaceAsked`, `ModuleRead`, `TargetRead`), so `Prepare` does not refuse, and the
kernels it prepares reach the last byte of each operand they write (`Filled`).

The invariant (`Judged`) carries this through the steps: the payload keeps the
layout of its form (`LaidWhole`: changing a number or, within a family, the magic
does not move a field), the command stays a record with a list of operands, a
command that counts as lowered is the one lowered from a problem that is decoded
from this payload, and an outcome is what the runtime's conditions give. The
runs' properties alone are not inductive: they do not tie the command to the
payload before it is prepared.

### Only model-checked

The terms of `tensor_ops`, `lowered_replay`, `provider_regions` and
`command_fusions`, whose evaluators are recursive.

## 6. Not modelled

- Program rewrites before lowering (`projection_fusion.py`, `resident_kv.py`,
  `linear_precision.py`, dead code): straight functions from program to program
  that go through the verifier again. The reference executor could compare both
  sides as it does for replays.
- Constant folding, casts and literal materialization: what they compute is
  floating-point data. That the compiler reads a constant's bytes after its
  identity is in `CompilePipeline`.
- Matchers for cuBLASLt, the generic CUDA kernels and FlashInfer as regions;
  their payloads and launches are modelled, and their operations appear in
  `CommandFusions`. Bodies of kernels beyond the bytes they touch.
- The v1 session beyond what `Prepare` acquires: `Bind` checks a view and
  records its address, and `Launch` passes the recorded addresses to the kernels
  in plan order. A v1 session may be bound again at any time, so nothing is
  frozen that could go stale. Its plan parser.
- The alias and constant receipts of `_verify_memory_plan`, and offsets of the
  state region.
- Safetensors parsing, JSON, manifests, digests as computations, recipes, the
  command line and tools: formatting and I/O without state between steps.
- The caller's streams and buffers. Two ports that share a buffer, two threads
  on one runtime, and a handle destroyed before its users are left to the caller
  by the headers; they are hazards without a property.
