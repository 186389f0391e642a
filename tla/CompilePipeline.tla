--------------------------- MODULE CompilePipeline ---------------------------
(***************************************************************************)
(* compile_source of compiler/pipeline.py: what a compilation reads, and   *)
(* when, while other processes edit the checkpoint, rebuild the kernels    *)
(* and compile to the same output.  An asset's content is its version (the *)
(* bytes) and its layout (sizes and tensor headers); an edit writes bytes  *)
(* the file never had or gives it back earlier ones.  What lowering does   *)
(* with the program is in the modules of the compiler; here a compilation  *)
(* has one request with constants that come from the checkpoint's shards.  *)
(***************************************************************************)
EXTENDS PlanCompiler

CONSTANTS
  Compilers,      \* processes that compile to one output path
  Config,         \* the metadata asset the frontend builds the program from
  Shards,         \* the assets that hold tensors
  Request,        \* schedule, memory plan and commands of the program
  ShardOf,        \* constant value -> the shard that stores it
  MaxEdits,       \* bound on edits of the checkpoint
  MaxBuilds,      \* bound on rebuilds of the kernels
  NoFile          \* no artifact at the output path

Assets == {Config} \cup Shards
AssetOrder == SetToSeq(Assets)
Constants == SortedSeq(ConstantRoots(Request))

\* A program with weights, none of them a port, each in a shard of its own or a shared one.
ASSUME PipelineAssumption ==
  /\ IsFiniteSet(Shards) /\ MaxEdits \in Nat
  /\ {"schedule", "memory", "stream", "spans", "weightsBytes"} \subseteq DOMAIN Request
  /\ Request.memory.alignment \in Nat \ {0}
  /\ IsFiniteSet(ConstantRoots(Request)) /\ ConstantRoots(Request) \subseteq Nat /\ ConstantRoots(Request) # {}
  /\ \A id \in ConstantRoots(Request) : Allocation(Request, id).bytes \in Nat
  /\ ConstantRoots(Request) \cap (InputRoots(Request) \cup OutputRoots(Request)) = {}
  /\ ShardOf \in [ConstantRoots(Request) -> Shards]

VARIABLES
  source,     \* asset -> the contents [version, layout] its file has had, the present one last
  kernel,     \* version of the CUBIN on disk
  record,     \* the CUBIN its build record describes
  output,     \* the artifact at the output path
  builds,     \* the compilations, by process
  edits       \* edits and rebuilds so far

pipelineVars == <<source, kernel, record, output, builds, edits>>

File(a) == Last(source[a])

NoBuild == [pc |-> "start", cubin |-> 0, kernelRecord |-> 0, layouts |-> <<>>, program |-> 0,
            before |-> <<>>, packed |-> <<>>, plans |-> {}, after |-> <<>>]

PipelineInit ==
  /\ source = [a \in Assets |-> <<[version |-> 0, layout |-> 0]>>]
  /\ kernel = 0 /\ record = 0
  /\ output = NoFile
  /\ builds = [c \in Compilers |-> NoBuild]
  /\ edits = [checkpoint |-> 0, kernels |-> 0]

At(c, pc) == builds[c].pc = pc /\ UNCHANGED <<source, kernel, record, edits>>
Refuse(c) == builds' = [builds EXCEPT ![c] = [NoBuild EXCEPT !.pc = "refused"]]
Advance(c, build) == builds' = [builds EXCEPT ![c] = build] /\ UNCHANGED output

-----------------------------------------------------------------------------
(* The steps of compile_source *)

Start(c) ==
  /\ At(c, "start")
  /\ IF output # NoFile THEN Refuse(c) /\ UNCHANGED output
     ELSE Advance(c, [builds[c] EXCEPT !.pc = "cubin"])

\* The CUBIN is read once; these bytes are validated, frozen and stored.
ReadKernel(c) ==
  /\ At(c, "cubin")
  /\ Advance(c, [builds[c] EXCEPT !.pc = "record", !.cubin = kernel])

ValidateKernelRecord(c) ==
  /\ At(c, "record")
  /\ IF record # builds[c].cubin THEN Refuse(c) /\ UNCHANGED output
     ELSE Advance(c, [builds[c] EXCEPT !.pc = "open", !.kernelRecord = record])

\* open_source_package: the manifest records sizes and tensor headers.
OpenSource(c) ==
  /\ At(c, "open")
  /\ Advance(c, [builds[c] EXCEPT !.pc = "import", !.layouts = [a \in Assets |-> File(a).layout]])

SameLayout(c, a) == File(a).layout = builds[c].layouts[a]

ImportProgram(c) ==
  /\ At(c, "import")
  /\ IF ~SameLayout(c, Config) THEN Refuse(c) /\ UNCHANGED output
     ELSE Advance(c, [builds[c] EXCEPT !.pc = "before", !.program = File(Config).version])

\* file_identity of the next asset, in the order of the manifest: its content.
\* Which of the file's contents that was, "at", is history the compiler does not know.
Identity(identities) ==
  LET a == AssetOrder[Len(identities) + 1]
  IN Append(identities, [content |-> File(a), at |-> Len(source[a])])

IdentifyBefore(c) ==
  /\ At(c, "before")
  /\ LET before == Identity(builds[c].before)
     IN Advance(c, [builds[c] EXCEPT !.before = before,
                    !.pc = IF Len(before) = Len(AssetOrder) THEN "pack" ELSE @])

\* iter_chunks re-checks the tensor record, then copies the bytes of today.
PackConstant(c) ==
  /\ At(c, "pack")
  /\ LET id == Constants[Len(builds[c].packed) + 1]
         packed == Append(builds[c].packed, [constant |-> id, version |-> File(ShardOf[id]).version])
     IN IF ~SameLayout(c, ShardOf[id]) THEN Refuse(c) /\ UNCHANGED output
        ELSE Advance(c, [builds[c] EXCEPT !.packed = packed,
                         !.pc = IF Len(packed) = Len(Constants) THEN "plan" ELSE @])

PackedRequest(packed) ==
  LET content == [id \in ConstantRoots(Request) |-> packed[CHOOSE k \in DOMAIN Constants : Constants[k] = id]]
      spans == PackCommandWeights(Request, content)
  IN [Request EXCEPT !.spans = spans, !.weightsBytes = BlobBytes(Request, spans)]

CompilePlan(c) ==
  /\ At(c, "plan")
  /\ LET plans == CompileExecutablePlan(PackedRequest(builds[c].packed))
     IN IF plans = {} THEN Refuse(c) /\ UNCHANGED output
        ELSE Advance(c, [builds[c] EXCEPT !.pc = "after", !.plans = plans])

IdentifyAfter(c) ==
  /\ At(c, "after")
  /\ LET after == Identity(builds[c].after)
     IN Advance(c, [builds[c] EXCEPT !.after = after,
                    !.pc = IF Len(after) = Len(AssetOrder) THEN "compare" ELSE @])

\* Fault: the identities taken after packing are recorded without comparing.
UnchangedUnchecked(build) == TRUE
\* Sizes and digests are compared, so a file that has its old bytes again is unchanged.
Unchanged(build) == \A j \in DOMAIN AssetOrder : build.after[j].content = build.before[j].content

Compare(c) ==
  /\ At(c, "compare")
  /\ IF ~Unchanged(builds[c]) THEN Refuse(c) /\ UNCHANGED output
     ELSE Advance(c, [builds[c] EXCEPT !.pc = "publish"])

ByAsset(identities) == [a \in Assets |-> identities[CHOOSE k \in DOMAIN AssetOrder : AssetOrder[k] = a]]

\* "checked", the identities after packing, is compared and then dropped: here it is history.
Artifact(build) ==
  [kernel |-> build.cubin, kernelRecord |-> build.kernelRecord, program |-> build.program,
   sources |-> ByAsset(build.before), checked |-> ByAsset(build.after),
   weights |-> build.packed, plans |-> build.plans]

\* write_streaming ends in os.replace, whatever is at the path by then.
Publish(c) ==
  /\ At(c, "publish")
  /\ output' = Artifact(builds[c])
  /\ builds' = [builds EXCEPT ![c] = [NoBuild EXCEPT !.pc = "done"]]

\* A file cannot be read, changes while it is hashed, or the disk is full.
CompileFails(c) ==
  /\ builds[c].pc \notin {"start", "done", "refused"}
  /\ Refuse(c)
  /\ UNCHANGED <<source, kernel, record, output, edits>>

\* The command is run again, whatever became of the last one.
RunAgain(c) ==
  /\ builds[c].pc \in {"done", "refused"}
  /\ builds' = [builds EXCEPT ![c] = NoBuild]
  /\ UNCHANGED <<source, kernel, record, output, edits>>

CompileStep(c) ==
  \/ RunAgain(c) \/ Start(c) \/ ReadKernel(c) \/ ValidateKernelRecord(c) \/ OpenSource(c) \/ ImportProgram(c)
  \/ IdentifyBefore(c) \/ PackConstant(c) \/ CompilePlan(c) \/ IdentifyAfter(c) \/ Compare(c) \/ Publish(c)
  \/ CompileFails(c)

-----------------------------------------------------------------------------
(* External: the checkpoint is edited and the kernels are rebuilt *)

NewContents(a) ==
  {[version |-> edits.checkpoint + 1, layout |-> layout] : layout \in {File(a).layout, File(a).layout + 1}}
EarlierContents(a) == ToSet(source[a]) \ {File(a)}

Edit(a) ==
  /\ edits.checkpoint < MaxEdits
  /\ edits' = [edits EXCEPT !.checkpoint = @ + 1]
  /\ \E content \in NewContents(a) \cup EarlierContents(a) :
       source' = [source EXCEPT ![a] = Append(@, content)]
  /\ UNCHANGED <<kernel, record, output, builds>>

\* CMake writes the module first and its record afterwards.
BuildKernel ==
  /\ edits.kernels < MaxBuilds /\ record = kernel
  /\ edits' = [edits EXCEPT !.kernels = @ + 1]
  /\ kernel' = kernel + 1
  /\ UNCHANGED <<source, record, output, builds>>

RecordKernel ==
  /\ record # kernel /\ record' = kernel
  /\ UNCHANGED <<source, kernel, output, builds, edits>>

PipelineNext ==
  \/ \E c \in Compilers : CompileStep(c)
  \/ \E a \in Assets : Edit(a)
  \/ BuildKernel \/ RecordKernel

-----------------------------------------------------------------------------
(* Property *)

\* The artifact at the output path describes itself: its kernel record is that
\* of the kernel it stores, both parsers accept its plan, and the digests of the
\* plan are those of its weights.  Each weight has bytes that its shard had at
\* some time between the two identities of the shard, and they are the recorded
\* ones unless the shard was edited at least twice in between: what the comparison of
\* sizes and digests cannot see is an edit that another one takes back.
RecordedSource ==
  output # NoFile =>
    /\ output.kernelRecord = output.kernel
    /\ \A w \in ToSet(output.weights) :
         LET a == ShardOf[w.constant]
             first == output.sources[a]
             last == output.checked[a]
         IN /\ \E n \in first.at..last.at : source[a][n].version = w.version
            /\ last.at < first.at + 2 => w.version = first.content.version
    /\ output.plans # {}
    /\ \A p \in output.plans :
          /\ ParseExecutablePlan(p, p.arch, p.weightsBytes)
          /\ {v.digest : v \in {x \in ToSet(p.values) : x.region = Weights}} = {Sha(w) : w \in ToSet(output.weights)}
=============================================================================
