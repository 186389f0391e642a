----------------------- MODULE ExecutableSessionProofs -----------------------
(***************************************************************************)
(* The session of cpp/executable_session.cc releases in order, leaks       *)
(* nothing, freezes addresses, keeps an exact ledger, leaves no capture     *)
(* open and implements the contract of SessionContract, for any number of  *)
(* ports, addresses, commands and library commands, whichever regions are  *)
(* empty.                                                                  *)
(*                                                                         *)
(* SessionInv says what the driver holds for the session at every step of  *)
(* Prepare and of the destructor.                                          *)
(***************************************************************************)
EXTENDS ExecutableSession, TLAPS

CaptureSteps == {"capture_stream", "capture_begin", "record", "capture_end", "instantiate"}

PrepareSteps == {"module", "allocate", "upload", "zero", "commands"} \cup CaptureSteps

Resources ==
  {"context", "module", "weights", "arena", "state", "workspace", "commands", "graph_exec"}
    \cup Temporaries

\* What prepared commands need.
Base == {"module"} \cup Regions

SessionTypeOK ==
  /\ cuda_graph \in BOOLEAN
  /\ pc \in PrepareSteps \cup {"idle", "closing", "closed"}
  /\ cursor \in Nat
  /\ bindings \in [Ports -> Addresses \cup {NULL}]
  /\ cuda \in {"null", "ambient", "retained"}
  /\ prepared \in BOOLEAN
  /\ device \subseteq Resources
  /\ capture \in {"none", "preflight", "graph"}
  /\ failed \in BOOLEAN
  /\ recorded \subseteq Commands
  /\ graph_nodes \subseteq Commands

\* Without a driver nothing is held and no call is on its way; with one, every
\* port was bound, and the session is prepared only between calls.
DriverInv ==
  /\ cuda = "null" => device = {} /\ pc \in {"idle", "closing", "closed"} /\ ~prepared
  /\ cuda # "null" => AllBound
  /\ prepared => pc \in {"idle", "closing", "closed"}

\* What is held while Prepare brings the session up.
BringUpInv ==
  /\ pc = "module" => device \subseteq {"context"}
  /\ pc = "allocate" =>
       /\ "module" \in device /\ device \subseteq {"context"} \cup Base
       /\ cursor \in 1..4
       /\ \A k \in 1..(cursor - 1) : RegionOrder[k] \in Regions => RegionOrder[k] \in device
  /\ pc \in {"upload", "zero"} =>
       Base \subseteq device /\ device \subseteq {"context"} \cup Base
  /\ pc = "commands" =>
       /\ Base \subseteq device /\ device \subseteq {"context", "commands"} \cup Base
       /\ resolved = bindings /\ cursor \in Commands

\* What is held and recorded while Prepare captures.
CaptureInv ==
  /\ pc \in CaptureSteps =>
       /\ "commands" \in device /\ "graph_exec" \notin device
       /\ capture = "graph" => cuda_graph
  /\ pc \notin CaptureSteps => device \cap Temporaries = {}
  /\ pc \in {"capture_stream", "capture_begin"} => recorded = {}
  /\ pc = "record" => cursor \in Commands /\ (capture = "graph" => recorded = 1..(cursor - 1))
  /\ pc = "capture_end" => (~failed /\ capture = "graph" => recorded = Commands)
  /\ pc = "instantiate" => capture = "graph" /\ recorded = Commands

\* What is held for what, in every step.
HoldInv ==
  /\ "graph_exec" \in device => "commands" \in device /\ cuda_graph /\ graph_nodes = Commands
  /\ "commands" \in device => Base \subseteq device /\ resolved = bindings
  /\ cuda = "retained" /\ pc # "closed" => "context" \in device
  /\ prepared /\ pc = "idle" /\ cuda_graph => "graph_exec" \in device

\* What the destructor has already released.
ReleaseInv ==
  /\ pc = "closing" =>
       /\ cursor \in 1..Len(ReleaseOrder)
       /\ cuda # "null" => \A k \in 1..(cursor - 1) : ReleaseOrder[k] \notin device
  /\ pc = "closed" => device = {}

SessionInv ==
  SessionTypeOK /\ DriverInv /\ BringUpInv /\ CaptureInv /\ HoldInv /\ ReleaseInv

\* The ledger: graph mode counts replays, direct mode counts each command.
LedgerInv ==
  /\ graph_launches \in Nat /\ enqueues \in Nat
  /\ submissions \in [Commands -> Nat] /\ executed \in [Commands -> Nat]
  /\ cuda_graph =>
       /\ enqueues = graph_launches
       /\ \A c \in Commands : submissions[c] = 0 /\ executed[c] = graph_launches
  /\ ~cuda_graph =>
       /\ graph_launches = 0 /\ enqueues = submissions[NumCommands]
       /\ \A c \in Commands : executed[c] <= submissions[c]
       /\ \A c, d \in Commands : c <= d => submissions[d] <= submissions[c]

-----------------------------------------------------------------------------
(* Facts about the constants and the order of the loops *)

\* The regions allocated are among the four of the loop.
LEMMA RegionsAreResources ==
  /\ Regions \subseteq {RegionOrder[k] : k \in 1..4}
  /\ Regions \subseteq {"weights", "arena", "state", "workspace"}
  /\ Base \subseteq Resources /\ Base \cap Temporaries = {}
  /\ {"context", "commands", "graph_exec"} \cap (Base \cup Temporaries) = {}
  BY SessionAssumption DEF RegionOrder, Base, Resources, Temporaries

-----------------------------------------------------------------------------
(* SessionInv is inductive *)

\* A new session holds nothing.
LEMMA InitSessionInv == Init => SessionInv
  <1> SUFFICES ASSUME Init PROVE SessionInv
    OBVIOUS
  <1>1. SessionTypeOK
    BY SessionAssumption DEF Init, SessionTypeOK, PrepareSteps, CaptureSteps
  <1> QED
    BY <1>1 DEF Init, SessionInv, DriverInv, BringUpInv, CaptureInv, CaptureSteps, HoldInv,
           ReleaseInv

\* A step that only writes the status or the ledger keeps the invariant.
LEMMA QuietKeepsInv ==
  SessionInv /\ UNCHANGED <<cuda_graph, pc, cursor, bindings, prepareVars>> => SessionInv'
  BY DEF SessionInv, prepareVars, captureVars, SessionTypeOK, DriverInv, AllBound, BringUpInv,
         CaptureInv, HoldInv, ReleaseInv

\* Prepare begins with all ports bound and holds at most the context.
LEMMA CreateDriverKeepsInv == SessionInv /\ UNCHANGED cuda_graph /\ CreateDriver => SessionInv'
  <1> SUFFICES ASSUME SessionInv, UNCHANGED cuda_graph, CreateDriver PROVE SessionInv'
    OBVIOUS
  <1> USE RegionsAreResources, SessionAssumption DEF SessionInv
  <1>1. SessionTypeOK'
    BY DEF CreateDriver, captureVars, SessionTypeOK, PrepareSteps, Resources
  <1>2. DriverInv'
    BY DEF CreateDriver, PrepareMayBegin, DriverInv, AllBound
  <1>3. BringUpInv'
    BY DEF CreateDriver, PrepareMayBegin, DriverInv, BringUpInv
  <1>4. CaptureInv'
    BY DEF CreateDriver, CaptureInv, CaptureSteps
  <1>5. HoldInv'
    BY DEF CreateDriver, HoldInv
  <1>6. ReleaseInv'
    BY DEF CreateDriver, ReleaseInv
  <1> QED
    BY <1>1, <1>2, <1>3, <1>4, <1>5, <1>6

\* The module is loaded on top of the context.
LEMMA LoadModuleKeepsInv == SessionInv /\ UNCHANGED cuda_graph /\ LoadModule => SessionInv'
  <1> SUFFICES ASSUME SessionInv, UNCHANGED cuda_graph, LoadModule PROVE SessionInv'
    OBVIOUS
  <1> USE RegionsAreResources, SessionAssumption DEF SessionInv
  <1>1. SessionTypeOK'
    BY DEF LoadModule, captureVars, SessionTypeOK, Base, PrepareSteps
  <1>2. DriverInv'
    BY DEF LoadModule, DriverInv, AllBound
  <1>3. BringUpInv'
    BY DEF LoadModule, BringUpInv, Base
  <1>4. CaptureInv'
    BY DEF LoadModule, CaptureInv, Base, CaptureSteps
  <1>5. HoldInv'
    BY DEF LoadModule, HoldInv
  <1>6. ReleaseInv'
    BY DEF LoadModule, ReleaseInv
  <1> QED
    BY <1>1, <1>2, <1>3, <1>4, <1>5, <1>6

\* Each turn of the loop allocates one region that is not empty.
LEMMA AllocateKeepsInv == SessionInv /\ UNCHANGED cuda_graph /\ AllocateRegion => SessionInv'
  <1> SUFFICES ASSUME SessionInv, UNCHANGED cuda_graph, AllocateRegion PROVE SessionInv'
    OBVIOUS
  <1> USE RegionsAreResources, SessionAssumption DEF SessionInv
  <1>1. SessionTypeOK'
    <2>1. cursor \in 1..4 /\ cursor' \in Nat /\ pc' \in {"allocate", "upload"}
      BY DEF AllocateRegion, BringUpInv, RegionOrder
    <2>2. Allocated(RegionOrder[cursor]) \subseteq Resources
      BY DEF Allocated, Resources
    <2> QED
      BY <2>1, <2>2 DEF AllocateRegion, captureVars, SessionTypeOK, PrepareSteps
  <1>2. DriverInv'
    BY DEF AllocateRegion, DriverInv, AllBound
  <1>3. BringUpInv'
    <2>1. /\ cursor \in 1..4 /\ device \subseteq {"context"} \cup Base /\ "module" \in device
          /\ \A k \in 1..(cursor - 1) : RegionOrder[k] \in Regions => RegionOrder[k] \in device
      BY DEF AllocateRegion, BringUpInv
    <2>2. \A k \in 1..cursor : RegionOrder[k] \in Regions => RegionOrder[k] \in device'
      BY <2>1 DEF AllocateRegion, Allocated
    <2>3. device' \subseteq {"context"} \cup Base /\ "module" \in device'
      BY <2>1 DEF AllocateRegion, Allocated, Base
    <2>4. CASE cursor < 4
      <3>1. pc' = "allocate" /\ cursor' = cursor + 1
        BY <2>4 DEF AllocateRegion, RegionOrder
      <3> QED
        BY <2>1, <2>2, <2>3, <2>4, <3>1 DEF BringUpInv
    <2>5. CASE cursor = 4
      <3>1. pc' = "upload"
        BY <2>5 DEF AllocateRegion, RegionOrder
      <3>2. Regions \subseteq device'
        BY <2>2, <2>5
      <3> QED
        BY <2>3, <3>1, <3>2 DEF BringUpInv, Base
    <2> QED
      BY <2>1, <2>4, <2>5
  <1>4. CaptureInv'
    BY DEF AllocateRegion, Allocated, CaptureInv, Base, CaptureSteps
  <1>5. HoldInv'
    BY DEF AllocateRegion, Allocated, HoldInv
  <1>6. ReleaseInv'
    BY DEF AllocateRegion, ReleaseInv
  <1> QED
    BY <1>1, <1>2, <1>3, <1>4, <1>5, <1>6

\* Uploading changes nothing the session holds.
LEMMA UploadKeepsInv == SessionInv /\ UNCHANGED cuda_graph /\ UploadWeights => SessionInv'
  <1> SUFFICES ASSUME SessionInv, UNCHANGED cuda_graph, UploadWeights PROVE SessionInv'
    OBVIOUS
  <1> USE RegionsAreResources, SessionAssumption DEF SessionInv
  <1>1. SessionTypeOK'
    BY DEF UploadWeights, prepareVars, captureVars, SessionTypeOK, PrepareSteps
  <1>2. DriverInv'
    BY DEF UploadWeights, prepareVars, DriverInv, AllBound
  <1>3. BringUpInv'
    BY DEF UploadWeights, prepareVars, BringUpInv
  <1>4. CaptureInv'
    BY DEF UploadWeights, prepareVars, CaptureInv, CaptureSteps
  <1>5. HoldInv'
    BY DEF UploadWeights, prepareVars, HoldInv
  <1>6. ReleaseInv'
    BY DEF UploadWeights, ReleaseInv
  <1> QED
    BY <1>1, <1>2, <1>3, <1>4, <1>5, <1>6

\* Resolution bakes the bindings of the moment into the operands.
LEMMA ResolveKeepsInv == SessionInv /\ UNCHANGED cuda_graph /\ ZeroStateAndResolve => SessionInv'
  <1> SUFFICES ASSUME SessionInv, UNCHANGED cuda_graph, ZeroStateAndResolve PROVE SessionInv'
    OBVIOUS
  <1> USE RegionsAreResources, SessionAssumption DEF SessionInv
  <1>1. SessionTypeOK'
    BY DEF ZeroStateAndResolve, captureVars, SessionTypeOK, PrepareSteps
  <1>2. DriverInv'
    BY DEF ZeroStateAndResolve, DriverInv, AllBound
  <1>3. BringUpInv'
    BY DEF ZeroStateAndResolve, BringUpInv, Commands
  <1>4. CaptureInv'
    BY DEF ZeroStateAndResolve, CaptureInv, CaptureSteps
  <1>5. HoldInv'
    BY DEF ZeroStateAndResolve, HoldInv
  <1>6. ReleaseInv'
    BY DEF ZeroStateAndResolve, ReleaseInv
  <1> QED
    BY <1>1, <1>2, <1>3, <1>4, <1>5, <1>6

\* A command is prepared once module and regions are there.
LEMMA PrepareCommandKeepsInv == SessionInv /\ UNCHANGED cuda_graph /\ PrepareCommand => SessionInv'
  <1> SUFFICES ASSUME SessionInv, UNCHANGED cuda_graph, PrepareCommand PROVE SessionInv'
    OBVIOUS
  <1> USE RegionsAreResources, SessionAssumption DEF SessionInv
  <1>1. SessionTypeOK'
    <2>1. cursor' \in Nat /\ failed' \in BOOLEAN /\ recorded' \subseteq Commands
      <3>1. CASE cursor < NumCommands
        BY <3>1 DEF PrepareCommand, SessionTypeOK
      <3>2. CASE ~(cursor < NumCommands)
        <4>1. cursor' = 0 /\ failed' = FALSE /\ recorded' = {}
          BY <3>2, Zenon DEF PrepareCommand, GoOnAfter
        <4> QED
          BY <4>1
      <3> QED
        BY <3>1, <3>2
    <2>3. prepared' \in BOOLEAN
      <3>1. CASE cursor < NumCommands
        BY <3>1 DEF PrepareCommand, SessionTypeOK
      <3>2. CASE ~(cursor < NumCommands)
        BY <3>2, Zenon DEF PrepareCommand, GoOnAfter
      <3> QED
        BY <3>1, <3>2
    <2>2. /\ capture' \in {"none", "preflight", "graph"}
          /\ pc' \in {"commands", "capture_stream", "idle"}
      BY DEF PrepareCommand, GoOnAfter, NextCapture, SessionTypeOK
    <2>4. device' \subseteq Resources
      BY DEF PrepareCommand, SessionTypeOK, Resources
    <2> QED
      BY <2>1, <2>2, <2>3, <2>4 DEF PrepareCommand, SessionTypeOK, PrepareSteps, CaptureSteps
  <1>2. DriverInv'
    BY DEF PrepareCommand, GoOnAfter, DriverInv, AllBound
  <1>3. BringUpInv'
    BY DEF PrepareCommand, GoOnAfter, BringUpInv, Commands
  <1>4. CaptureInv'
    BY DEF PrepareCommand, GoOnAfter, NextCapture, BringUpInv, CaptureInv
  <1>5. HoldInv'
    BY DEF PrepareCommand, GoOnAfter, NextCapture, BringUpInv, HoldInv
  <1>6. ReleaseInv'
    BY DEF PrepareCommand, GoOnAfter, ReleaseInv
  <1> QED
    BY <1>1, <1>2, <1>3, <1>4, <1>5, <1>6

\* A failing Prepare gives back the temporaries of its capture and keeps the rest.
LEMMA PrepareFailsKeepsInv == SessionInv /\ UNCHANGED cuda_graph /\ (pc \in PrepareSteps /\ PrepareFails) => SessionInv'
  <1> SUFFICES ASSUME SessionInv, UNCHANGED cuda_graph, (pc \in PrepareSteps /\ PrepareFails) PROVE SessionInv'
    OBVIOUS
  <1> USE RegionsAreResources, SessionAssumption DEF SessionInv
  <1>1. SessionTypeOK'
    BY DEF PrepareFails, KeptAfterFailure, SessionTypeOK
  <1>2. DriverInv'
    BY DEF PrepareFails, KeptAfterFailure, DriverInv, AllBound
  <1>3. BringUpInv'
    BY DEF PrepareFails, BringUpInv
  <1>4. CaptureInv'
    BY DEF PrepareFails, KeptAfterFailure, CaptureInv, CaptureSteps
  <1>5. HoldInv'
    BY DEF PrepareFails, KeptAfterFailure, DriverInv, HoldInv, PrepareSteps, CaptureSteps
  <1>6. ReleaseInv'
    BY DEF PrepareFails, ReleaseInv
  <1> QED
    BY <1>1, <1>2, <1>3, <1>4, <1>5, <1>6

\* The capture stream is a temporary.
LEMMA CreateStreamKeepsInv == SessionInv /\ UNCHANGED cuda_graph /\ CreateCaptureStream => SessionInv'
  <1> SUFFICES ASSUME SessionInv, UNCHANGED cuda_graph, CreateCaptureStream PROVE SessionInv'
    OBVIOUS
  <1> USE RegionsAreResources, SessionAssumption DEF SessionInv
  <1>1. SessionTypeOK'
    BY DEF CreateCaptureStream, captureVars, SessionTypeOK, PrepareSteps, CaptureSteps, Resources,
           Temporaries
  <1>2. DriverInv'
    BY DEF CreateCaptureStream, DriverInv, AllBound
  <1>3. BringUpInv'
    BY DEF CreateCaptureStream, BringUpInv
  <1>4. CaptureInv'
    BY DEF CreateCaptureStream, captureVars, CaptureInv, CaptureSteps
  <1>5. HoldInv'
    BY DEF CreateCaptureStream, HoldInv
  <1>6. ReleaseInv'
    BY DEF CreateCaptureStream, ReleaseInv
  <1> QED
    BY <1>1, <1>2, <1>3, <1>4, <1>5, <1>6

\* A capture begins with nothing recorded.
LEMMA BeginCaptureKeepsInv == SessionInv /\ UNCHANGED cuda_graph /\ BeginCapture => SessionInv'
  <1> SUFFICES ASSUME SessionInv, UNCHANGED cuda_graph, BeginCapture PROVE SessionInv'
    OBVIOUS
  <1> USE RegionsAreResources, SessionAssumption DEF SessionInv
  <1>1. SessionTypeOK'
    BY DEF BeginCapture, SessionTypeOK, PrepareSteps, CaptureSteps
  <1>2. DriverInv'
    BY DEF BeginCapture, DriverInv, AllBound
  <1>3. BringUpInv'
    BY DEF BeginCapture, BringUpInv
  <1>4. CaptureInv'
    BY DEF BeginCapture, CaptureInv, CaptureSteps, Commands
  <1>5. HoldInv'
    BY DEF BeginCapture, HoldInv
  <1>6. ReleaseInv'
    BY DEF BeginCapture, ReleaseInv
  <1> QED
    BY <1>1, <1>2, <1>3, <1>4, <1>5, <1>6

\* The graph records every command in turn.
LEMMA RecordKeepsInv == SessionInv /\ UNCHANGED cuda_graph /\ RecordCommand => SessionInv'
  <1> SUFFICES ASSUME SessionInv, UNCHANGED cuda_graph, RecordCommand PROVE SessionInv'
    OBVIOUS
  <1> USE RegionsAreResources, SessionAssumption DEF SessionInv
  <1>1. SessionTypeOK'
    BY DEF RecordCommand, SessionTypeOK, CaptureInv, PrepareSteps, CaptureSteps
  <1>2. DriverInv'
    BY DEF RecordCommand, DriverInv, AllBound
  <1>3. BringUpInv'
    BY DEF RecordCommand, BringUpInv
  <1>4. CaptureInv'
    <2>1. cursor \in Commands /\ (capture = "graph" => recorded = 1..(cursor - 1))
      BY DEF RecordCommand, CaptureInv, CaptureSteps
    <2>2. capture = "graph" => recorded' = 1..cursor
      BY <2>1 DEF RecordCommand, Records, Commands
    <2>3. /\ "commands" \in device' /\ "graph_exec" \notin device'
          /\ capture' = "graph" => cuda_graph'
      BY DEF RecordCommand, CaptureInv, CaptureSteps
    <2>4. CASE cursor < NumCommands
      <3>1. pc' = "record" /\ cursor' = cursor + 1 /\ capture' = capture
        BY <2>4 DEF RecordCommand
      <3> QED
        BY <2>1, <2>2, <2>3, <2>4, <3>1 DEF CaptureInv, CaptureSteps, Commands
    <2>5. CASE ~(cursor < NumCommands)
      <3>1. pc' = "capture_end" /\ capture' = capture
        BY <2>5 DEF RecordCommand
      <3>2. cursor = NumCommands
        BY <2>1, <2>5 DEF Commands
      <3> QED
        BY <2>2, <2>3, <3>1, <3>2 DEF CaptureInv, CaptureSteps, Commands
    <2> QED
      BY <2>4, <2>5
  <1>5. HoldInv'
    BY DEF RecordCommand, HoldInv
  <1>6. ReleaseInv'
    BY DEF RecordCommand, ReleaseInv
  <1> QED
    BY <1>1, <1>2, <1>3, <1>4, <1>5, <1>6

\* A command that fails leads to the end of the capture.
LEMMA RecordFailsKeepsInv == SessionInv /\ UNCHANGED cuda_graph /\ RecordFails => SessionInv'
  <1> SUFFICES ASSUME SessionInv, UNCHANGED cuda_graph, RecordFails PROVE SessionInv'
    OBVIOUS
  <1> USE RegionsAreResources, SessionAssumption DEF SessionInv
  <1>1. SessionTypeOK'
    BY DEF RecordFails, SessionTypeOK, PrepareSteps, CaptureSteps
  <1>2. DriverInv'
    BY DEF RecordFails, DriverInv, AllBound
  <1>3. BringUpInv'
    BY DEF RecordFails, BringUpInv
  <1>4. CaptureInv'
    BY DEF RecordFails, CaptureInv, CaptureSteps
  <1>5. HoldInv'
    BY DEF RecordFails, HoldInv
  <1>6. ReleaseInv'
    BY DEF RecordFails, ReleaseInv
  <1> QED
    BY <1>1, <1>2, <1>3, <1>4, <1>5, <1>6

\* The preflight ends and Prepare goes on.
LEMMA EndPreflightKeepsInv == SessionInv /\ UNCHANGED cuda_graph /\ EndPreflight => SessionInv'
  <1> SUFFICES ASSUME SessionInv, UNCHANGED cuda_graph, EndPreflight PROVE SessionInv'
    OBVIOUS
  <1> USE RegionsAreResources, SessionAssumption DEF SessionInv
  <1>1. SessionTypeOK'
    BY DEF EndPreflight, GoOnAfter, NextCapture, SessionTypeOK, PrepareSteps, CaptureSteps
  <1>2. DriverInv'
    BY DEF EndPreflight, GoOnAfter, DriverInv, AllBound
  <1>3. BringUpInv'
    BY DEF EndPreflight, GoOnAfter, BringUpInv
  <1>4. CaptureInv'
    BY DEF EndPreflight, GoOnAfter, NextCapture, SessionTypeOK, CaptureInv, PrepareSteps
  <1>5. HoldInv'
    BY DEF EndPreflight, GoOnAfter, NextCapture, HoldInv
  <1>6. ReleaseInv'
    BY DEF EndPreflight, GoOnAfter, ReleaseInv
  <1> QED
    BY <1>1, <1>2, <1>3, <1>4, <1>5, <1>6

\* The captured graph holds every command.
LEMMA EndGraphKeepsInv == SessionInv /\ UNCHANGED cuda_graph /\ EndGraphCapture => SessionInv'
  <1> SUFFICES ASSUME SessionInv, UNCHANGED cuda_graph, EndGraphCapture PROVE SessionInv'
    OBVIOUS
  <1> USE RegionsAreResources, SessionAssumption DEF SessionInv
  <1>1. SessionTypeOK'
    BY DEF EndGraphCapture, SessionTypeOK, PrepareSteps, CaptureSteps, Resources, Temporaries
  <1>2. DriverInv'
    BY DEF EndGraphCapture, DriverInv, AllBound
  <1>3. BringUpInv'
    BY DEF EndGraphCapture, BringUpInv
  <1>4. CaptureInv'
    BY DEF EndGraphCapture, CaptureInv, CaptureSteps
  <1>5. HoldInv'
    BY DEF EndGraphCapture, HoldInv
  <1>6. ReleaseInv'
    BY DEF EndGraphCapture, ReleaseInv
  <1> QED
    BY <1>1, <1>2, <1>3, <1>4, <1>5, <1>6

\* The executable graph stays, the temporaries go.
LEMMA InstantiateKeepsInv == SessionInv /\ UNCHANGED cuda_graph /\ InstantiateGraph => SessionInv'
  <1> SUFFICES ASSUME SessionInv, UNCHANGED cuda_graph, InstantiateGraph PROVE SessionInv'
    OBVIOUS
  <1> USE RegionsAreResources, SessionAssumption DEF SessionInv
  <1>1. SessionTypeOK'
    BY DEF InstantiateGraph, GoOnAfter, NextCapture, SessionTypeOK, Resources
  <1>2. DriverInv'
    BY DEF InstantiateGraph, GoOnAfter, DriverInv, AllBound
  <1>3. BringUpInv'
    BY DEF InstantiateGraph, GoOnAfter, BringUpInv
  <1>4. CaptureInv'
    BY DEF InstantiateGraph, GoOnAfter, NextCapture, CaptureInv, CaptureSteps
  <1>5. HoldInv'
    BY DEF InstantiateGraph, SessionTypeOK, CaptureInv, HoldInv, PrepareSteps
  <1>6. ReleaseInv'
    BY DEF InstantiateGraph, GoOnAfter, ReleaseInv
  <1> QED
    BY <1>1, <1>2, <1>3, <1>4, <1>5, <1>6

\* The destructor begins with everything the session holds.
LEMMA DestroyKeepsInv == SessionInv /\ UNCHANGED cuda_graph /\ Destroy => SessionInv'
  <1> SUFFICES ASSUME SessionInv, UNCHANGED cuda_graph, Destroy PROVE SessionInv'
    OBVIOUS
  <1> USE RegionsAreResources, SessionAssumption DEF SessionInv
  <1>1. SessionTypeOK'
    BY DEF Destroy, prepareVars, captureVars, SessionTypeOK
  <1>2. DriverInv'
    BY DEF Destroy, prepareVars, DriverInv, AllBound
  <1>3. BringUpInv'
    BY DEF Destroy, BringUpInv
  <1>4. CaptureInv'
    BY DEF Destroy, prepareVars, CaptureInv, CaptureSteps
  <1>5. HoldInv'
    BY DEF Destroy, prepareVars, HoldInv
  <1>6. ReleaseInv'
    BY DEF Destroy, ReleaseOrder, ReleaseInv
  <1> QED
    BY <1>1, <1>2, <1>3, <1>4, <1>5, <1>6

\* The destructor's next release leaves the users of what is left released.
LEMMA ReleaseKeepsInv == SessionInv /\ UNCHANGED cuda_graph /\ ReleaseNext => SessionInv'
  <1> SUFFICES ASSUME SessionInv, UNCHANGED cuda_graph, ReleaseNext PROVE SessionInv'
    OBVIOUS
  <1> USE RegionsAreResources, SessionAssumption DEF SessionInv
  <1>1. /\ pc = "closing" /\ pc' \in {"closing", "closed"}
        /\ UNCHANGED <<bindings, cuda, prepared, resolved, capture, recorded, failed, graph_nodes>>
    BY DEF ReleaseNext, captureVars
  <1>2. cursor \in 1..8 /\ Len(ReleaseOrder) = 8
    BY <1>1 DEF ReleaseInv, ReleaseOrder
  <1>3. device' \subseteq device /\ cursor' \in Nat
    BY <1>2 DEF ReleaseNext
  <1>4. CASE cuda = "null"
    <2>1. device = {} /\ device' = {} /\ pc' = "closed"
      BY <1>3, <1>4 DEF DriverInv, ReleaseNext
    <2> QED
      BY <1>1, <1>3, <1>4, <2>1 DEF SessionTypeOK, DriverInv, BringUpInv, CaptureInv, CaptureSteps,
             HoldInv, ReleaseInv
  <1>5. CASE cuda # "null"
    <2>1. \A k \in 1..(cursor - 1) : ReleaseOrder[k] \notin device
      BY <1>1, <1>5 DEF ReleaseInv
    <2>2. device' = device \ {ReleaseOrder[cursor]}
      BY <1>5 DEF ReleaseNext
    <2>3. \A k \in 1..cursor : ReleaseOrder[k] \notin device'
      BY <1>2, <2>1, <2>2
    <2>4. SessionTypeOK'
      BY <1>1, <1>3 DEF SessionTypeOK
    <2>5. DriverInv'
      BY <1>1, <1>5 DEF DriverInv, AllBound
    <2>6. BringUpInv'
      BY <1>1 DEF BringUpInv
    <2>7. CaptureInv'
      BY <1>1, <1>3 DEF CaptureInv, CaptureSteps
    <2>8. "graph_exec" \in device' => "commands" \in device'
      <3>1. cursor = 1 => ReleaseOrder[cursor] = "graph_exec"
        BY DEF ReleaseOrder
      <3>2. cursor > 1 => ReleaseOrder[1] = "graph_exec" /\ 1 \in 1..cursor
        BY <1>2 DEF ReleaseOrder
      <3> QED
        BY <1>2, <2>2, <2>3, <3>1, <3>2
    <2>9. "commands" \in device' => Base \subseteq device'
      <3>1. cursor >= 2 => ReleaseOrder[2] = "commands" /\ 2 \in 1..cursor
        BY <1>2 DEF ReleaseOrder
      <3>2. cursor = 1 => ReleaseOrder[cursor] = "graph_exec" /\ "graph_exec" \notin Base
        BY DEF ReleaseOrder
      <3> QED
        BY <1>2, <1>3, <2>2, <2>3, <3>1, <3>2 DEF HoldInv
    <2>10. CASE cursor < 8
      <3>1. pc' = "closing" /\ cursor' = cursor + 1 /\ ReleaseOrder[cursor] # "context"
        BY <1>2, <1>5, <2>10 DEF ReleaseNext, ReleaseOrder
      <3>2. HoldInv'
        BY <1>1, <1>3, <2>2, <2>8, <2>9, <3>1 DEF HoldInv
      <3>3. ReleaseInv'
        BY <1>1, <1>2, <2>3, <2>10, <3>1 DEF ReleaseInv
      <3> QED
        BY <2>4, <2>5, <2>6, <2>7, <3>2, <3>3
    <2>11. CASE cursor = 8
      <3>1. pc' = "closed"
        BY <1>2, <2>11 DEF ReleaseNext
      <3>2. device' \cap Temporaries = {}
        BY <1>1, <1>3 DEF CaptureInv, CaptureSteps
      <3>3. {ReleaseOrder[k] : k \in 1..8} \cap device' = {}
        BY <2>3, <2>11
      <3>4. Resources = {ReleaseOrder[k] : k \in 1..8} \cup Temporaries
        BY DEF Resources, ReleaseOrder
      <3>5. device' = {}
        BY <1>3, <3>2, <3>3, <3>4 DEF SessionTypeOK
      <3>6. HoldInv' /\ ReleaseInv'
        BY <3>1, <3>5 DEF HoldInv, ReleaseInv
      <3> QED
        BY <2>4, <2>5, <2>6, <2>7, <3>6
    <2> QED
      BY <1>2, <2>10, <2>11
  <1> QED
    BY <1>4, <1>5

\* Binding another address happens only before there is a driver, when no
\* command is prepared; binding the same address again changes nothing.
LEMMA BindKeepsInv ==
  ASSUME SessionInv, UNCHANGED cuda_graph, NEW p \in Ports, NEW a \in Addresses, Bind(p, a)
  PROVE  SessionInv'
  <1> USE DEF SessionInv
  <1>1. UNCHANGED <<pc, cursor, cuda, prepared, device, resolved, capture, recorded, failed, graph_nodes>>
    BY DEF Bind, prepareVars, captureVars
  <1>2. bindings' \in [Ports -> Addresses \cup {NULL}]
    BY DEF Bind, SessionTypeOK
  <1>3. CASE cuda = "null"
    BY <1>1, <1>2, <1>3 DEF SessionTypeOK, DriverInv, BringUpInv, CaptureInv, HoldInv, ReleaseInv
  <1>4. CASE bindings[p] = a
    <2>1. bindings' = bindings
      BY <1>4 DEF Bind, SessionTypeOK
    <2> QED
      BY <1>1, <2>1 DEF SessionTypeOK, DriverInv, AllBound, BringUpInv, CaptureInv, HoldInv,
             ReleaseInv
  <1> QED
    BY <1>3, <1>4 DEF Bind, BindAllowed

\* Every step of Next, and stuttering, keeps the invariant.
LEMMA NextKeepsSessionInv == SessionInv /\ [Next]_vars => SessionInv'
  <1> SUFFICES ASSUME SessionInv, [Next]_vars PROVE SessionInv'
    OBVIOUS
  <1>1. CASE UNCHANGED vars
    BY <1>1, QuietKeepsInv DEF vars
  <1>2. CASE Next
    <2>1. UNCHANGED cuda_graph /\ Step
      BY <1>2 DEF Next
    <2>2. ASSUME NEW call, NEW code, Answer(call, code) PROVE SessionInv'
      BY <2>1, <2>2, QuietKeepsInv DEF Answer
    <2>3. CASE \E p \in Ports, a \in Addresses : Bind(p, a) \/ BindFrozen(p, a)
      BY <2>1, <2>2, <2>3, BindKeepsInv DEF BindFrozen
    <2>4. CASE BindInvalid \/ PrepareAgain \/ PreparePoisoned \/ PrepareUnbound \/ CreateDriverFails
      BY <2>2, <2>4 DEF BindInvalid, PrepareAgain, PreparePoisoned, PrepareUnbound,
             CreateDriverFails
    <2>5. CASE CreateDriver
      BY <2>1, <2>5, CreateDriverKeepsInv
    <2>6. CASE PrepareStep
      <3>1. DriverCallFails \/ CaptureCallFails \/ EndCaptureFails => pc \in PrepareSteps /\ PrepareFails
        BY DEF DriverCallFails, CaptureCallFails, EndCaptureFails, PrepareSteps, CaptureSteps
      <3> QED
        BY <2>1, <2>6, <3>1, PrepareFailsKeepsInv, LoadModuleKeepsInv, AllocateKeepsInv, UploadKeepsInv,
           ResolveKeepsInv, PrepareCommandKeepsInv, CreateStreamKeepsInv, BeginCaptureKeepsInv, RecordKeepsInv,
           RecordFailsKeepsInv, EndPreflightKeepsInv, EndGraphKeepsInv, InstantiateKeepsInv DEF PrepareStep
    <2>7. CASE EnqueueUnprepared \/ EnqueueRefused
      BY <2>2, <2>7 DEF EnqueueUnprepared, EnqueueRefused
    <2>8. CASE EnqueueGraph \/ EnqueueDirect
      BY <2>1, <2>8, QuietKeepsInv DEF EnqueueGraph, EnqueueDirect
    <2>9. CASE Destroy
      BY <2>1, <2>9, DestroyKeepsInv
    <2>10. CASE ReleaseNext
      BY <2>1, <2>10, ReleaseKeepsInv
    <2> QED
      BY <2>1, <2>3, <2>4, <2>5, <2>6, <2>7, <2>8, <2>9, <2>10 DEF Step
  <1> QED
    BY <1>1, <1>2

-----------------------------------------------------------------------------
(* The ledger *)

\* A new session has counted nothing.
LEMMA InitLedgerInv == Init => LedgerInv
  BY SessionAssumption DEF Init, LedgerInv, Commands

\* A replay of the graph runs every command once.
LEMMA ReplayKeepsLedger == SessionInv /\ LedgerInv /\ UNCHANGED cuda_graph /\ EnqueueGraph => LedgerInv'
  <1> SUFFICES ASSUME SessionInv, LedgerInv, UNCHANGED cuda_graph, EnqueueGraph PROVE LedgerInv'
    OBVIOUS
  <1>1. cuda_graph /\ graph_nodes = Commands
    BY DEF EnqueueGraph, GraphMode, SessionInv, HoldInv
  <1>2. executed' = [c \in Commands |-> executed[c] + 1]
    BY <1>1 DEF EnqueueGraph, LedgerInv
  <1> QED
    BY <1>1, <1>2 DEF EnqueueGraph, LedgerInv

\* A direct submission counts a prefix of the commands.
LEMMA DirectKeepsLedger == SessionInv /\ LedgerInv /\ UNCHANGED cuda_graph /\ EnqueueDirect => LedgerInv'
  <1> SUFFICES ASSUME SessionInv, LedgerInv, UNCHANGED cuda_graph, EnqueueDirect PROVE LedgerInv'
    OBVIOUS
  <1>1. ~cuda_graph
    BY DEF EnqueueDirect, GraphMode, SessionInv, HoldInv, SessionTypeOK
  <1>2. PICK done \in 0..NumCommands, recording \in BOOLEAN :
          /\ submissions' = [c \in Commands |-> IF c <= done THEN submissions[c] + 1 ELSE submissions[c]]
          /\ executed' = [c \in Commands |-> IF c <= done /\ ~recording THEN executed[c] + 1 ELSE executed[c]]
          /\ enqueues' = EnqueuesAfter(done)
    BY DEF EnqueueDirect
  <1>3. NumCommands \in Commands /\ Commands \subseteq Nat
    BY SessionAssumption DEF Commands
  <1>4. /\ submissions' \in [Commands -> Nat] /\ executed' \in [Commands -> Nat]
        /\ enqueues' \in Nat
    BY <1>2, <1>3 DEF LedgerInv, EnqueuesAfter
  <1>5. \A c \in Commands : executed'[c] <= submissions'[c]
    BY <1>1, <1>2 DEF LedgerInv
  <1>6. \A c, d \in Commands : c <= d => submissions'[d] <= submissions'[c]
    BY <1>1, <1>2, <1>3 DEF LedgerInv
  <1>7. enqueues' = submissions'[NumCommands]
    BY <1>1, <1>2, <1>3 DEF LedgerInv, EnqueuesAfter
  <1>8. graph_launches' = graph_launches
    BY DEF EnqueueDirect
  <1> QED
    BY <1>1, <1>4, <1>5, <1>6, <1>7, <1>8 DEF LedgerInv

\* No other step writes the ledger.
LEMMA OnlyEnqueueCounts ==
  ASSUME [Next]_vars
  PROVE  UNCHANGED <<cuda_graph, ledgerVars>> \/ EnqueueGraph \/ EnqueueDirect
  BY DEF Next, Step, vars, Bind, BindFrozen, BindInvalid, Answer, PrepareAgain, PreparePoisoned,
         PrepareUnbound, CreateDriverFails, CreateDriver, PrepareStep, PrepareFails,
         DriverCallFails, LoadModule, AllocateRegion, UploadWeights, ZeroStateAndResolve,
         PrepareCommand, CaptureCallFails, CreateCaptureStream, BeginCapture, RecordCommand,
         RecordFails, EndCaptureFails, EndPreflight, EndGraphCapture, InstantiateGraph,
         EnqueueUnprepared, EnqueueRefused, Destroy, ReleaseNext

\* Every step keeps the ledger exact.
LEMMA NextKeepsLedgerInv == SessionInv /\ LedgerInv /\ [Next]_vars => LedgerInv'
  <1> SUFFICES ASSUME SessionInv, LedgerInv, [Next]_vars PROVE LedgerInv'
    OBVIOUS
  <1>1. UNCHANGED cuda_graph
    BY DEF Next, vars
  <1>2. UNCHANGED ledgerVars => LedgerInv'
    BY <1>1 DEF ledgerVars, LedgerInv
  <1> QED
    BY <1>1, <1>2, OnlyEnqueueCounts, ReplayKeepsLedger, DirectKeepsLedger

-----------------------------------------------------------------------------
(* The capture of the private stream *)

\* A capture is open only between its begin and its end, on a stream that is there.
StreamInv ==
  /\ capturing \in BOOLEAN
  /\ capturing => pc \in {"record", "capture_end"}
  /\ pc \in {"capture_begin", "record", "capture_end"} => "capture_stream" \in device

\* The steps that are not part of a capture neither begin one nor return from one.
LEMMA OutsideKeepsStreamInv ==
  ASSUME StreamInv, pc \notin CaptureSteps, pc' \notin CaptureSteps \ {"capture_stream"}, UNCHANGED capturing
  PROVE  StreamInv'
  BY DEF StreamInv, CaptureSteps

\* Prepare goes on with another capture or is idle.
LEMMA GoOnLeaves ==
  ASSUME NEW stage, GoOnAfter(stage)
  PROVE  pc' \in {"idle", "capture_stream"}
  BY DEF GoOnAfter

\* Every step of a capture, the failing ones included, ends what it has begun
\* before Prepare returns.
LEMMA CaptureKeepsStreamInv ==
  ASSUME StreamInv,
         CaptureCallFails \/ CreateCaptureStream \/ BeginCapture \/ RecordCommand \/ RecordFails
           \/ EndCaptureFails \/ EndPreflight \/ EndGraphCapture \/ InstantiateGraph
  PROVE  StreamInv'
  <1>1. CASE CaptureCallFails
    BY <1>1 DEF CaptureCallFails, PrepareFails, StreamInv
  <1>2. CASE CreateCaptureStream
    BY <1>2 DEF CreateCaptureStream, captureVars, StreamInv
  <1>3. CASE BeginCapture
    BY <1>3 DEF BeginCapture, StreamInv
  <1>4. CASE RecordCommand
    BY <1>4 DEF RecordCommand, StreamInv
  <1>5. CASE RecordFails
    BY <1>5 DEF RecordFails, StreamInv
  <1>6. CASE EndCaptureFails
    BY <1>6 DEF EndCaptureFails, PrepareFails, StreamInv
  <1>7. CASE EndPreflight
    BY <1>7, GoOnLeaves DEF EndPreflight, StreamInv
  <1>8. CASE EndGraphCapture
    BY <1>8 DEF EndGraphCapture, StreamInv
  <1>9. CASE InstantiateGraph
    BY <1>9, GoOnLeaves DEF InstantiateGraph, StreamInv
  <1> QED
    BY <1>1, <1>2, <1>3, <1>4, <1>5, <1>6, <1>7, <1>8, <1>9

\* Every step of the session leaves no capture open.
LEMMA NextKeepsStreamInv == StreamInv /\ [Next]_vars => StreamInv'
  <1> SUFFICES ASSUME StreamInv, [Next]_vars PROVE StreamInv'
    OBVIOUS
  <1>1. CASE UNCHANGED vars
    BY <1>1 DEF vars, prepareVars, captureVars, StreamInv
  <1>2. ASSUME NEW call, NEW code, Answer(call, code) PROVE StreamInv'
    BY <1>2 DEF Answer, prepareVars, captureVars, StreamInv
  <1>3. CASE \E p \in Ports, a \in Addresses : Bind(p, a) \/ BindFrozen(p, a)
    BY <1>2, <1>3 DEF Bind, BindFrozen, prepareVars, captureVars, StreamInv
  <1>4. CASE \/ BindInvalid \/ PrepareAgain \/ PreparePoisoned \/ PrepareUnbound \/ CreateDriverFails
             \/ EnqueueUnprepared \/ EnqueueRefused
    BY <1>2, <1>4 DEF BindInvalid, PrepareAgain, PreparePoisoned, PrepareUnbound, CreateDriverFails,
           EnqueueUnprepared, EnqueueRefused
  <1>5. CASE CreateDriver \/ LoadModule \/ AllocateRegion \/ UploadWeights \/ ZeroStateAndResolve
    BY <1>5, OutsideKeepsStreamInv
       DEF CreateDriver, LoadModule, AllocateRegion, UploadWeights, ZeroStateAndResolve, prepareVars,
           captureVars, CaptureSteps
  <1>6. CASE DriverCallFails
    BY <1>6, OutsideKeepsStreamInv DEF DriverCallFails, PrepareFails, CaptureSteps
  <1>7. CASE PrepareCommand
    <2>1. pc = "commands" /\ UNCHANGED capturing /\ (pc' = pc \/ pc' \in {"idle", "capture_stream"})
      BY <1>7, GoOnLeaves DEF PrepareCommand
    <2> QED
      BY <2>1, OutsideKeepsStreamInv DEF CaptureSteps
  <1>8. CASE EnqueueGraph \/ EnqueueDirect
    BY <1>8 DEF EnqueueGraph, EnqueueDirect, prepareVars, captureVars, StreamInv
  <1>9. CASE Destroy \/ ReleaseNext
    BY <1>9, OutsideKeepsStreamInv DEF Destroy, ReleaseNext, prepareVars, captureVars, CaptureSteps
  <1>10. CASE Next
    BY <1>3, <1>4, <1>5, <1>6, <1>7, <1>8, <1>9, <1>10, CaptureKeepsStreamInv DEF Next, Step, PrepareStep
  <1> QED
    BY <1>1, <1>10

-----------------------------------------------------------------------------
(* The theorems *)

\* SessionInv and LedgerInv hold in every reachable state of a session.
THEOREM SessionInvariant == Spec => [](SessionInv /\ LedgerInv)
  <1>1. Init => SessionInv /\ LedgerInv
    BY InitSessionInv, InitLedgerInv
  <1>2. (SessionInv /\ LedgerInv) /\ [Next]_vars => (SessionInv /\ LedgerInv)'
    BY NextKeepsSessionInv, NextKeepsLedgerInv
  <1> QED
    BY <1>1, <1>2, PTL DEF Spec

\* At every step of Prepare, of a failing Prepare and of ~ExecutableSession, what
\* the device could still use is held: graph before commands before module,
\* memory and context.
THEOREM SessionReleasesInOrder == Spec => []ReleasedInOrder
  <1>1. SessionInv => ReleasedInOrder
    BY DEF SessionInv, HoldInv, ReleaseInv, ReleasedInOrder, Base
  <1> QED
    BY <1>1, SessionInvariant, PTL

\* The destructor leaves nothing with the driver, however far Prepare came, and
\* no call leaves a temporary of a capture.
THEOREM SessionLeaksNothing == Spec => []NothingLeaks
  <1>1. SessionInv => NothingLeaks
    BY DEF SessionInv, CaptureInv, CaptureSteps, ReleaseInv, NothingLeaks
  <1> QED
    BY <1>1, SessionInvariant, PTL

\* Prepared commands and the graph keep the addresses that are bound, and all
\* ports are bound.
THEOREM SessionAddressesFrozen == Spec => []AddressesFrozen
  <1>1. SessionInv => AddressesFrozen
    BY DEF SessionInv, DriverInv, HoldInv, AddressesFrozen
  <1> QED
    BY <1>1, SessionInvariant, PTL

\* The ledger is exact in graph mode and a prefix in direct mode.
THEOREM SessionLedgerExact == Spec => []LedgerExact
  <1>1. LedgerInv => LedgerExact
    <2> SUFFICES ASSUME LedgerInv PROVE LedgerExact
      OBVIOUS
    <2>1. NumCommands \in Commands
      BY SessionAssumption DEF Commands
    <2>2. CASE cuda_graph
      BY <2>1, <2>2 DEF LedgerInv, LedgerExact, Submitted
    <2>3. CASE ~cuda_graph
      BY <2>1, <2>3 DEF LedgerInv, LedgerExact, Submitted
    <2> QED
      BY <2>2, <2>3
  <1> QED
    BY <1>1, SessionInvariant, PTL

\* PreflightLibraries and PrepareGraph end every capture they begin, whichever
\* call or command fails, before the stream is destroyed and Prepare returns,
\* and the graph a session keeps has all of its commands.
THEOREM SessionCapturesEnded == Spec => []CaptureEnded
  <1>1. Init => StreamInv
    BY DEF Init, StreamInv
  <1>2. SessionInv /\ StreamInv => CaptureEnded
    BY DEF SessionInv, HoldInv, StreamInv, CaptureEnded
  <1> QED
    BY <1>1, <1>2, NextKeepsStreamInv, SessionInvariant, PTL DEF Spec

-----------------------------------------------------------------------------
(* Refinement *)

\* A new session is an open one.
LEMMA InitImplements == Init => Contract!Init
  BY DEF Init, Contract!Init, ContractPhase

\* The phases of the steps of a call.
LEMMA PhaseOfPrepare ==
  ASSUME SessionInv, pc \in PrepareSteps
  PROVE  ContractPhase = "open" /\ ~prepared /\ AllBound /\ cuda # "null"
  BY DEF SessionInv, DriverInv, PrepareSteps, CaptureSteps, ContractPhase

\* A call that answers at once, or a step inside a call, is not seen.
LEMMA QuietStutters ==
  ASSUME UNCHANGED <<pc, prepared, cuda, bindings, enqueues>>
  PROVE  UNCHANGED Contract!contractVars
  BY DEF Contract!contractVars, ContractPhase

\* A step of Prepare is not seen, ends it with success or poisons the session.
LEMMA PrepareImplements ==
  ASSUME SessionInv, PrepareStep
  PROVE  Contract!Next \/ UNCHANGED Contract!contractVars
  <1>1. pc \in PrepareSteps
    BY DEF PrepareStep, DriverCallFails, LoadModule, AllocateRegion, UploadWeights,
           ZeroStateAndResolve, PrepareCommand, CaptureCallFails, CreateCaptureStream, BeginCapture,
           RecordCommand, RecordFails, EndCaptureFails, EndPreflight, EndGraphCapture,
           InstantiateGraph, PrepareSteps, CaptureSteps
  <1>2. ContractPhase = "open" /\ ~prepared /\ AllBound /\ cuda # "null"
    BY <1>1, PhaseOfPrepare
  <1>3. UNCHANGED <<bindings, cuda, enqueues>>
    BY DEF PrepareStep, PrepareFails, DriverCallFails, LoadModule, AllocateRegion, UploadWeights,
           ZeroStateAndResolve, PrepareCommand, CaptureCallFails, CreateCaptureStream, BeginCapture,
           RecordCommand, RecordFails, EndCaptureFails, EndPreflight, EndGraphCapture,
           InstantiateGraph, ledgerVars, prepareVars
  <1>4. \/ pc' = "idle" /\ prepared' = prepared
        \/ pc' = "idle" /\ prepared'
        \/ pc' \in PrepareSteps /\ ~prepared'
    <2>1. ASSUME NEW stage, GoOnAfter(stage)
          PROVE  (pc' = "idle" /\ prepared') \/ (pc' \in PrepareSteps /\ ~prepared')
      BY <2>1, Zenon DEF GoOnAfter, PrepareSteps, CaptureSteps
    <2> QED
      BY <1>2, <2>1 DEF PrepareStep, PrepareFails, DriverCallFails, LoadModule, AllocateRegion,
             UploadWeights, ZeroStateAndResolve, PrepareCommand, CaptureCallFails,
             CreateCaptureStream, BeginCapture, RecordCommand, RecordFails, EndCaptureFails,
             EndPreflight, EndGraphCapture, InstantiateGraph, PrepareSteps, CaptureSteps,
             prepareVars
  <1>5. CASE pc' = "idle" /\ prepared' = prepared
    <2>1. ContractPhase' = "poisoned"
      BY <1>2, <1>3, <1>5 DEF ContractPhase
    <2>2. Contract!PrepareFails
      BY <1>2, <1>3, <2>1 DEF Contract!PrepareFails, AllBound
    <2> QED
      BY <2>2 DEF Contract!Next
  <1>6. CASE pc' = "idle" /\ prepared'
    <2>1. ContractPhase' = "prepared"
      BY <1>6 DEF ContractPhase
    <2>2. Contract!PrepareSucceeds
      BY <1>2, <1>3, <2>1 DEF Contract!PrepareSucceeds, AllBound
    <2> QED
      BY <2>2 DEF Contract!Next
  <1>7. CASE pc' \in PrepareSteps /\ ~prepared'
    <2>1. ContractPhase' = "open"
      BY <1>7 DEF ContractPhase, PrepareSteps, CaptureSteps
    <2> QED
      BY <1>2, <1>3, <2>1 DEF Contract!contractVars
  <1> QED
    BY <1>4, <1>5, <1>6, <1>7

\* Binding is a Bind of the contract while the session is open and changes
\* nothing afterwards.
LEMMA BindImplements ==
  ASSUME SessionInv, NEW p \in Ports, NEW a \in Addresses, Bind(p, a)
  PROVE  Contract!Next \/ UNCHANGED Contract!contractVars
  <1>1. UNCHANGED <<pc, prepared, cuda, enqueues>> /\ bindings' = [bindings EXCEPT ![p] = a]
    BY DEF Bind, prepareVars, ledgerVars
  <1>2. CASE cuda = "null"
    <2>1. ContractPhase = "open" /\ ContractPhase' = "open"
      BY <1>1, <1>2 DEF Bind, SessionInv, DriverInv, ContractPhase
    <2>2. Contract!Bind(p, a)
      BY <1>1, <2>1 DEF Contract!Bind
    <2> QED
      BY <2>2 DEF Contract!Next
  <1>3. CASE bindings[p] = a
    <2>1. bindings' = bindings
      BY <1>1, <1>3 DEF SessionInv, SessionTypeOK
    <2> QED
      BY <1>1, <2>1, QuietStutters
  <1> QED
    BY <1>2, <1>3 DEF Bind, BindAllowed

\* A submission that reached the last command is one replay.
LEMMA EnqueueImplements ==
  ASSUME SessionInv, EnqueueGraph \/ EnqueueDirect
  PROVE  Contract!Next \/ UNCHANGED Contract!contractVars
  <1>1. UNCHANGED <<pc, prepared, cuda, bindings>>
    BY DEF EnqueueGraph, EnqueueDirect, prepareVars
  <1>2. ContractPhase = "prepared" /\ ContractPhase' = "prepared"
    BY <1>1 DEF EnqueueGraph, EnqueueDirect, ContractPhase
  <1>3. enqueues' \in {enqueues, enqueues + 1}
    BY DEF EnqueueGraph, EnqueueDirect, EnqueuesAfter
  <1>4. CASE enqueues' = enqueues
    BY <1>1, <1>4, QuietStutters
  <1>5. CASE enqueues' = enqueues + 1
    <2>1. Contract!Replay
      BY <1>1, <1>2, <1>5 DEF Contract!Replay
    <2> QED
      BY <2>1 DEF Contract!Next
  <1> QED
    BY <1>3, <1>4, <1>5

\* The destructor closes the session with its first step.
LEMMA DestroyImplements ==
  ASSUME SessionInv, Destroy \/ ReleaseNext
  PROVE  Contract!Next \/ UNCHANGED Contract!contractVars
  <1>1. UNCHANGED <<bindings, enqueues>> /\ ContractPhase' = "closed"
    BY DEF Destroy, ReleaseNext, ledgerVars, ContractPhase
  <1>2. CASE Destroy
    <2>1. ContractPhase # "closed"
      BY <1>2 DEF Destroy, ContractPhase
    <2>2. Contract!Close
      BY <1>1, <2>1 DEF Contract!Close
    <2> QED
      BY <2>2 DEF Contract!Next
  <1>3. CASE ReleaseNext
    <2>1. ContractPhase = "closed"
      BY <1>3 DEF ReleaseNext, ContractPhase
    <2> QED
      BY <1>1, <2>1 DEF Contract!contractVars
  <1> QED
    BY <1>2, <1>3

\* Every step of the session is a step of the contract or leaves it alone.
LEMMA NextImplements == SessionInv /\ [Next]_vars => [Contract!Next]_Contract!contractVars
  <1> SUFFICES ASSUME SessionInv, [Next]_vars
               PROVE  Contract!Next \/ UNCHANGED Contract!contractVars
    OBVIOUS
  <1>1. CASE UNCHANGED vars
    BY <1>1, QuietStutters DEF vars, prepareVars, ledgerVars
  <1>2. CASE Next
    <2>1. ASSUME NEW call, NEW code, Answer(call, code) PROVE UNCHANGED Contract!contractVars
      BY <2>1, QuietStutters DEF Answer, prepareVars, ledgerVars
    <2>2. CASE \E p \in Ports, a \in Addresses : Bind(p, a) \/ BindFrozen(p, a)
      BY <2>1, <2>2, BindImplements DEF BindFrozen
    <2>3. CASE BindInvalid \/ PrepareAgain \/ PreparePoisoned \/ PrepareUnbound \/ CreateDriverFails
      BY <2>1, <2>3 DEF BindInvalid, PrepareAgain, PreparePoisoned, PrepareUnbound,
             CreateDriverFails
    <2>4. CASE CreateDriver
      <3>1. /\ ContractPhase = "open" /\ ContractPhase' = "open"
            /\ UNCHANGED <<bindings, enqueues>>
        BY <2>4 DEF CreateDriver, PrepareMayBegin, ContractPhase, ledgerVars
      <3> QED
        BY <3>1 DEF Contract!contractVars
    <2>5. CASE PrepareStep
      BY <2>5, PrepareImplements
    <2>6. CASE EnqueueUnprepared \/ EnqueueRefused
      BY <2>1, <2>6 DEF EnqueueUnprepared, EnqueueRefused
    <2>7. CASE EnqueueGraph \/ EnqueueDirect
      BY <2>7, EnqueueImplements
    <2>8. CASE Destroy \/ ReleaseNext
      BY <2>8, DestroyImplements
    <2> QED
      BY <1>2, <2>2, <2>3, <2>4, <2>5, <2>6, <2>7, <2>8 DEF Next, Step
  <1> QED
    BY <1>1, <1>2

\* The session implements the phases of docs/runtime-contract.md.
THEOREM SessionImplementsContract == Spec => ImplementsContract
  <1>1. Init => Contract!Init
    BY InitImplements
  <1>2. SessionInv /\ [Next]_vars => [Contract!Next]_Contract!contractVars
    BY NextImplements
  <1> QED
    BY <1>1, <1>2, SessionInvariant, PTL DEF Spec, ImplementsContract, Contract!Spec
=============================================================================
