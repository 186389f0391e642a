------------------------- MODULE ExecutableSession -------------------------
(***************************************************************************)
(* The v2 execution session, cpp/executable_session.cc: Bind, Prepare,     *)
(* PreflightLibraries, PrepareGraph, Enqueue, the submission ledger and    *)
(* the destructor, over the CUDA driver it calls (cpp/cuda_driver.cc).     *)
(*                                                                         *)
(* A session is externally synchronized: one call runs at a time.  Prepare *)
(* and the destructor are modelled step by step, because every driver call *)
(* in Prepare can fail and leaves the session where it stopped.            *)
(***************************************************************************)
EXTENDS Naturals, Sequences, FiniteSets

CONSTANTS
  Ports,         \* external ports of the plan
  Addresses,     \* device addresses a caller may bind
  NumCommands,   \* commands in the stream
  Library,       \* the commands for which NeedsLibraryPreflight() holds
  Regions,       \* device regions with a size above zero
  Modes,         \* the values of the cuda_graph constructor argument
  MaxSubmits,    \* bound on submissions of any command
  NULL           \* no address

RegionOrder == <<"weights", "arena", "state", "workspace">>

Commands == 1..NumCommands

ASSUME SessionAssumption ==
  /\ NumCommands \in Nat \ {0}
  /\ Library \subseteq Commands
  /\ Regions \subseteq {"weights", "arena", "state", "workspace"}
  /\ Modes \subseteq BOOLEAN
  /\ MaxSubmits \in Nat
  /\ NULL \notin Addresses

VARIABLES
  cuda_graph,      \* cuda_graph_, fixed by the constructor
  pc,              \* where the running call is; "idle" between calls
  cursor,          \* position in the loop the running call is in
  status,          \* status of the last finished call
  bindings,        \* bindings_
  cuda,            \* cuda_: "null", or the context it is "ambient"/"retained"
  prepared,        \* prepared_
  device,          \* resources the driver holds for this session
  resolved,        \* port addresses baked into the prepared commands
  capture,         \* what the private capture is for, or "none"
  capturing,       \* the private stream is in capture mode
  recorded,        \* commands recorded into the private capture
  failed,          \* a recorded command failed, the capture still has to end
  graph_nodes,     \* commands in the instantiated graph
  graph_launches,  \* graph_launches_
  submissions,     \* submissions_
  enqueues,        \* enqueues_
  executed         \* times each command really reached a stream to run

captureVars == <<capture, capturing, recorded, failed>>

prepareVars == <<cuda, prepared, device, resolved, captureVars, graph_nodes>>

ledgerVars == <<graph_launches, submissions, enqueues, executed>>

vars == <<cuda_graph, pc, cursor, status, bindings, prepareVars, ledgerVars>>

AllBound == \A p \in Ports : bindings[p] # NULL

Temporaries == {"capture_stream", "capture_graph", "capture_exec"}

-----------------------------------------------------------------------------
(* Construction *)

Init ==
  /\ cuda_graph \in Modes
  /\ pc = "idle" /\ cursor = 0 /\ status = <<"construct", "OK">>
  /\ bindings = [p \in Ports |-> NULL]
  /\ cuda = "null" /\ prepared = FALSE
  /\ device = {}
  /\ resolved = [p \in Ports |-> NULL]
  /\ capture = "none" /\ capturing = FALSE /\ recorded = {} /\ failed = FALSE
  /\ graph_nodes = {}
  /\ graph_launches = 0 /\ enqueues = 0
  /\ submissions = [c \in Commands |-> 0]
  /\ executed = [c \in Commands |-> 0]

\* A call that answers at once and changes nothing but the status.
Answer(call, code) ==
  /\ pc = "idle"
  /\ status' = <<call, code>>
  /\ UNCHANGED <<pc, cursor, bindings, prepareVars, ledgerVars>>

-----------------------------------------------------------------------------
(* Bind *)

\* Fault: addresses are frozen only once Prepare has succeeded.
BindAllowedUntilPrepared(p, a) == ~prepared \/ bindings[p] = a

\* Addresses are frozen once Prepare begins; rebinding the same one is fine.
BindAllowed(p, a) == cuda = "null" \/ bindings[p] = a

Bind(p, a) ==
  /\ pc = "idle"
  /\ BindAllowed(p, a)
  /\ bindings' = [bindings EXCEPT ![p] = a]
  /\ status' = <<"bind", "OK">>
  /\ UNCHANGED <<pc, cursor, prepareVars, ledgerVars>>

BindFrozen(p, a) == ~BindAllowed(p, a) /\ Answer("bind", "INVALID_STATE")

\* A null view, an unknown port, or a dtype, shape, stride or size mismatch.
BindInvalid == Answer("bind", "INVALID_ARGUMENT")

-----------------------------------------------------------------------------
(* Prepare *)

\* Idempotent after success: only the context is made current, which may fail.
PrepareAgain == prepared /\ \E code \in {"OK", "CUDA_ERROR"} : Answer("prepare", code)

PreparePoisoned == ~prepared /\ cuda # "null" /\ Answer("prepare", "INVALID_STATE")

PrepareUnbound ==
  ~prepared /\ cuda = "null" /\ ~AllBound /\ Answer("prepare", "INVALID_STATE")

\* Fault: a failed session may be prepared again.
PrepareMayRetry == ~prepared /\ AllBound

PrepareMayBegin == ~prepared /\ cuda = "null" /\ AllBound

\* CudaDriver::Create failed: cuda_ stays null and the session may retry.
CreateDriverFails == PrepareMayBegin /\ Answer("prepare", "CUDA_ERROR")

\* The driver retains the primary context unless the thread has a current one.
CreateDriver ==
  /\ pc = "idle"
  /\ PrepareMayBegin
  /\ \E context \in {"ambient", "retained"} :
       /\ cuda' = context
       /\ device' = IF context = "retained" THEN device \cup {"context"} ELSE device
  /\ pc' = "module"
  /\ UNCHANGED <<cursor, status, bindings, prepared, resolved, captureVars,
                 graph_nodes, ledgerVars>>

\* Fault: the error path does not destroy the temporaries of the capture.
KeptWithTemporaries == device

\* What a failing Prepare acquired stays with the session; the temporaries of a
\* capture are destroyed by their scope.
KeptAfterFailure == device \ Temporaries

\* Prepare returns an error.
PrepareFails ==
  /\ pc' = "idle"
  /\ \E code \in {"CUDA_ERROR", "OUT_OF_MEMORY", "INVALID_ARGUMENT", "INVALID_STATE"} :
       status' = <<"prepare", code>>
  /\ cursor' = 0
  /\ device' = KeptAfterFailure
  /\ capture' = "none" /\ recorded' = {} /\ failed' = FALSE
  /\ UNCHANGED <<bindings, cuda, prepared, resolved, graph_nodes, ledgerVars>>

\* A driver call of Prepare other than those of a capture returns an error.
DriverCallFails ==
  /\ pc \in {"module", "allocate", "upload", "zero", "commands"}
  /\ PrepareFails
  /\ UNCHANGED capturing

LoadModule ==
  /\ pc = "module"
  /\ device' = device \cup {"module"}
  /\ pc' = "allocate" /\ cursor' = 1
  /\ UNCHANGED <<status, bindings, cuda, prepared, resolved, captureVars,
                 graph_nodes, ledgerVars>>

\* Allocate of zero bytes yields the null pointer and nothing to free.
Allocated(region) == {region} \cap Regions

AllocateRegion ==
  /\ pc = "allocate"
  /\ device' = device \cup Allocated(RegionOrder[cursor])
  /\ IF cursor < Len(RegionOrder)
       THEN cursor' = cursor + 1 /\ pc' = pc
       ELSE cursor' = 0 /\ pc' = "upload"
  /\ UNCHANGED <<status, bindings, cuda, prepared, resolved, captureVars,
                 graph_nodes, ledgerVars>>

UploadWeights ==
  /\ pc = "upload"
  /\ pc' = "zero"
  /\ UNCHANGED <<cursor, status, bindings, prepareVars, ledgerVars>>

\* Zero the state region, then resolve every value to an address; ports take
\* the caller's bindings.
ZeroStateAndResolve ==
  /\ pc = "zero"
  /\ pc' = "commands"
  /\ cursor' = 1
  /\ resolved' = bindings
  /\ UNCHANGED <<status, bindings, cuda, prepared, device, captureVars,
                 graph_nodes, ledgerVars>>

\* The private captures Prepare still has to make after its commands.
NextCapture(after) ==
  IF after = "commands" /\ Library # {} THEN "preflight"
  ELSE IF after # "graph" /\ cuda_graph THEN "graph"
  ELSE "none"

\* Prepare goes on with the next capture or returns OK.
GoOnAfter(stage) ==
  LET next == NextCapture(stage) IN
  /\ capture' = next
  /\ recorded' = {}
  /\ cursor' = 0
  /\ failed' = FALSE
  /\ prepared' = (next = "none")
  /\ pc' = IF next = "none" THEN "idle" ELSE "capture_stream"
  /\ status' = IF next = "none" THEN <<"prepare", "OK">> ELSE status

\* PrepareProviderCommand on the operands of one command.
PrepareCommand ==
  /\ pc = "commands"
  /\ device' = device \cup {"commands"}
  /\ IF cursor < NumCommands
       THEN cursor' = cursor + 1 /\ UNCHANGED <<pc, status, prepared, capture, recorded, failed>>
       ELSE GoOnAfter("commands")
  /\ UNCHANGED <<bindings, cuda, resolved, capturing, graph_nodes, ledgerVars>>

-----------------------------------------------------------------------------
(* The private captures: library preflight and the model graph *)

CaptureCallFails ==
  /\ pc \in {"capture_stream", "capture_begin", "instantiate"}
  /\ PrepareFails
  /\ UNCHANGED capturing

CreateCaptureStream ==
  /\ pc = "capture_stream"
  /\ device' = device \cup {"capture_stream"}
  /\ pc' = "capture_begin"
  /\ UNCHANGED <<cursor, status, bindings, cuda, prepared, resolved, captureVars,
                 graph_nodes, ledgerVars>>

BeginCapture ==
  /\ pc = "capture_begin"
  /\ capturing' = TRUE
  /\ pc' = "record" /\ cursor' = 1
  /\ UNCHANGED <<status, bindings, cuda, prepared, device, resolved, capture,
                 recorded, failed, graph_nodes, ledgerVars>>

\* Fault: the graph records only what the preflight did.
RecordsLibrary(c) == c \in Library

\* The preflight records only library commands; the graph records all.
Records(c) == capture = "graph" \/ c \in Library

\* Execute on the capture stream: it records nodes and submits nothing.
RecordCommand ==
  /\ pc = "record"
  /\ recorded' = IF Records(cursor) THEN recorded \cup {cursor} ELSE recorded
  /\ IF cursor < NumCommands
       THEN cursor' = cursor + 1 /\ pc' = pc
       ELSE cursor' = 0 /\ pc' = "capture_end"
  /\ UNCHANGED <<status, bindings, cuda, prepared, device, resolved, capture,
                 capturing, failed, graph_nodes, ledgerVars>>

\* Fault: a command that fails returns from Prepare inside the loop.
RecordFailsReturns ==
  /\ pc = "record"
  /\ Records(cursor)
  /\ PrepareFails
  /\ UNCHANGED capturing

\* A command that fails leaves the loop, and the capture is ended all the same.
RecordFails ==
  /\ pc = "record"
  /\ Records(cursor)
  /\ failed' = TRUE
  /\ cursor' = 0 /\ pc' = "capture_end"
  /\ UNCHANGED <<status, bindings, cuda, prepared, device, resolved, capture,
                 capturing, recorded, graph_nodes, ledgerVars>>

\* cudaStreamEndCapture always runs; Prepare then fails if it failed or if a
\* recorded command had failed.
EndCaptureFails ==
  /\ pc = "capture_end"
  /\ PrepareFails
  /\ capturing' = FALSE

EndPreflight ==
  /\ pc = "capture_end" /\ ~failed
  /\ capture = "preflight"
  /\ capturing' = FALSE
  /\ device' = device \ Temporaries
  /\ GoOnAfter("preflight")
  /\ UNCHANGED <<bindings, cuda, resolved, graph_nodes, ledgerVars>>

EndGraphCapture ==
  /\ pc = "capture_end" /\ ~failed
  /\ capture = "graph"
  /\ capturing' = FALSE
  /\ device' = device \cup {"capture_graph"}
  /\ pc' = "instantiate"
  /\ UNCHANGED <<cursor, status, bindings, cuda, prepared, resolved, capture,
                 recorded, failed, graph_nodes, ledgerVars>>

\* Instantiate, upload and synchronize; the executable moves to the session
\* and the scope destroys the rest.  An empty graph is a failure.
InstantiateGraph ==
  /\ pc = "instantiate"
  /\ recorded # {}
  /\ device' = (device \ Temporaries) \cup {"graph_exec"}
  /\ graph_nodes' = recorded
  /\ GoOnAfter("graph")
  /\ UNCHANGED <<bindings, cuda, resolved, capturing, ledgerVars>>

-----------------------------------------------------------------------------
(* Enqueue *)

EnqueueUnprepared == ~prepared /\ Answer("enqueue", "INVALID_STATE")

GraphMode == "graph_exec" \in device

\* The caller's stream is capturing, or the query or the launch fails.
EnqueueRefused ==
  /\ prepared /\ GraphMode
  /\ \E code \in {"INVALID_STATE", "CUDA_ERROR"} : Answer("enqueue", code)

EnqueueGraph ==
  /\ pc = "idle" /\ prepared /\ GraphMode
  /\ graph_launches < MaxSubmits
  /\ graph_launches' = graph_launches + 1
  /\ enqueues' = enqueues + 1
  /\ executed' = [c \in Commands |-> IF c \in graph_nodes THEN executed[c] + 1 ELSE executed[c]]
  /\ status' = <<"enqueue", "OK">>
  /\ UNCHANGED <<pc, cursor, bindings, prepareVars, submissions>>

\* enqueues_ counts a direct submission only if its last command was submitted.
EnqueuesAfter(done) == IF done = NumCommands THEN enqueues + 1 ELSE enqueues

\* Direct submission stops at the first command that fails; the ones before it
\* stay submitted and counted.  On a capturing stream a submission is only a
\* recording, and is counted too.
EnqueueDirect ==
  /\ pc = "idle" /\ prepared /\ ~GraphMode
  /\ \A c \in Commands : submissions[c] < MaxSubmits
  /\ \E done \in 0..NumCommands, recording \in BOOLEAN :
       /\ submissions' = [c \in Commands |->
            IF c <= done THEN submissions[c] + 1 ELSE submissions[c]]
       /\ executed' = [c \in Commands |->
            IF c <= done /\ ~recording THEN executed[c] + 1 ELSE executed[c]]
       /\ enqueues' = EnqueuesAfter(done)
       /\ status' = <<"enqueue", IF done = NumCommands THEN "OK" ELSE "CUDA_ERROR">>
  /\ UNCHANGED <<pc, cursor, bindings, prepareVars, graph_launches>>

\* submitted(provider), for the commands of one provider: here per command.
Submitted(c) == submissions[c] + graph_launches

-----------------------------------------------------------------------------
(* The destructor *)

\* Fault: the module is unloaded before the commands and the graph that use it.
ReleaseModuleFirst == <<"module", "graph_exec", "commands", "workspace", "state",
                        "arena", "weights", "context">>

ReleaseOrder == <<"graph_exec", "commands", "workspace", "state", "arena",
                  "weights", "module", "context">>

Destroy ==
  /\ pc = "idle"
  /\ pc' = "closing" /\ cursor' = 1
  /\ UNCHANGED <<status, bindings, prepareVars, ledgerVars>>

\* Without cuda_ the destructor returns at once and finds nothing to free.
ReleaseNext ==
  /\ pc = "closing"
  /\ device' = IF cuda # "null" THEN device \ {ReleaseOrder[cursor]} ELSE device
  /\ IF cuda # "null" /\ cursor < Len(ReleaseOrder)
       THEN cursor' = cursor + 1 /\ pc' = pc
       ELSE cursor' = 0 /\ pc' = "closed"
  /\ UNCHANGED <<status, bindings, cuda, prepared, resolved, captureVars,
                 graph_nodes, ledgerVars>>

-----------------------------------------------------------------------------

PrepareStep ==
  \/ DriverCallFails
  \/ LoadModule
  \/ AllocateRegion
  \/ UploadWeights
  \/ ZeroStateAndResolve
  \/ PrepareCommand
  \/ CaptureCallFails
  \/ CreateCaptureStream
  \/ BeginCapture
  \/ RecordCommand
  \/ RecordFails
  \/ EndCaptureFails
  \/ EndPreflight
  \/ EndGraphCapture
  \/ InstantiateGraph

Step ==
  \/ \E p \in Ports, a \in Addresses : Bind(p, a) \/ BindFrozen(p, a)
  \/ BindInvalid
  \/ PrepareAgain
  \/ PreparePoisoned
  \/ PrepareUnbound
  \/ CreateDriverFails
  \/ CreateDriver
  \/ PrepareStep
  \/ EnqueueUnprepared
  \/ EnqueueRefused
  \/ EnqueueGraph
  \/ EnqueueDirect
  \/ Destroy
  \/ ReleaseNext

Next == UNCHANGED cuda_graph /\ Step

Spec == Init /\ [][Next]_vars

\* A call that has begun runs to its return: the code has no wait but the
\* synchronization of the private stream, and driver calls return.
FairSpec ==
  /\ Spec
  /\ WF_vars(UNCHANGED cuda_graph /\ PrepareStep)
  /\ WF_vars(UNCHANGED cuda_graph /\ ReleaseNext)

-----------------------------------------------------------------------------
(* Properties *)

\* Nothing the device could still use is released before its user: at every
\* step of Prepare and of the destructor the graph executable has its commands,
\* the commands have their module and memory, and a retained context outlives
\* everything ("Graph resources are destroyed before their commands, memory and
\* CUBIN module").
ReleasedInOrder ==
  /\ "graph_exec" \in device => "commands" \in device
  /\ "commands" \in device => {"module"} \cup Regions \subseteq device
  /\ cuda = "retained" /\ device # {} => "context" \in device

\* However far Prepare came before a failure, the destructor leaves nothing
\* with the driver, and no capture temporary survives the call that made it.
NothingLeaks ==
  /\ pc = "closed" => device = {}
  /\ pc \in {"idle", "closing", "closed"} => device \cap Temporaries = {}

\* The addresses compiled into prepared commands and into the graph stay those
\* the caller bound, whatever is bound afterwards.
AddressesFrozen ==
  "commands" \in device => resolved = bindings /\ AllBound

\* The ledger counts what reached the device.  In graph mode it is exact and a
\* replay runs every command; preflight and graph recording are not counted.
\* In direct mode a failed enqueue may leave a prefix counted, never a suffix,
\* and enqueues_ counts the submissions that reached the last command.
LedgerExact ==
  /\ cuda_graph => \A c \in Commands : Submitted(c) = executed[c] /\ executed[c] = enqueues
  /\ \A c \in Commands : executed[c] <= Submitted(c)
  /\ \A c, d \in Commands : c <= d => Submitted(d) <= Submitted(c)
  /\ enqueues = Submitted(NumCommands)

\* A failing command leaves no capture open: the private stream captures only
\* while the call records and up to its EndCapture, and is not destroyed before
\* ("Always end a begun capture, including the invalidated/error path").  And a
\* capture that failed becomes no graph: the executable has every command.
CaptureEnded ==
  /\ capturing => pc \in {"record", "capture_end"} /\ "capture_stream" \in device
  /\ "graph_exec" \in device => graph_nodes = Commands

\* The session implements the contract of docs/runtime-contract.md.
ContractPhase ==
  IF pc \in {"closing", "closed"} THEN "closed"
  ELSE IF prepared THEN "prepared"
  ELSE IF cuda # "null" /\ pc = "idle" THEN "poisoned"
  ELSE "open"

Contract == INSTANCE SessionContract
              WITH phase <- ContractPhase, bound <- bindings, replays <- enqueues

ImplementsContract == Contract!Spec

\* docs/runtime-contract.md, phase 4: "A failed prepare leaves the session
\* unusable; recreate it rather than retrying a partial initialization."
FailedPrepare ==
  status[1] = "prepare" /\ status[2] \in {"CUDA_ERROR", "OUT_OF_MEMORY"} /\ ~prepared

FailedPrepareUnusable == [](FailedPrepare => []~prepared)
=============================================================================
