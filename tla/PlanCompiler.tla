---------------------------- MODULE PlanCompiler ----------------------------
(***************************************************************************)
(* The last two steps of a compilation: pack_command_weights lays the      *)
(* constants that commands refer to into one blob, and                     *)
(* compile_executable_plan turns schedule, memory plan, command stream and *)
(* packed spans into a plan, which it parses back before returning it.     *)
(*                                                                         *)
(* A request is a record of schedule (typed values, entry ports, states),  *)
(* memory (its allocations), stream (commands in memory), spans and        *)
(* weightsBytes.  Value id i is entry i+1 of a table.                      *)
(***************************************************************************)
EXTENDS ExecutablePlan

AlignUp(number, alignment) == ((number + alignment - 1) \div alignment) * alignment
SortedSeq(ids) ==
  LET below(id) == {other \in ids : other < id}
  IN [k \in 1..Cardinality(ids) |-> CHOOSE id \in ids : Cardinality(below(id)) = k - 1]

Allocation(in, id) == in.memory.allocations[id + 1]
MemoryRoot(in, id) ==
  StorageRoot([k \in 1..Len(in.memory.allocations) |->
                 LET a == in.memory.allocations[k]
                 IN [region |-> IF a.region = "alias" THEN Alias ELSE Unused, alias |-> a.alias]], id)
RootsOf(in, ids) == {MemoryRoot(in, id) : id \in ids}
OperandIds(in) == UNION {{o.value : o \in ToSet(c.operands)} : c \in ToSet(in.stream.commands)}
ConstantRoots(in) == {r \in RootsOf(in, OperandIds(in)) : Allocation(in, r).region = "constant"}

-----------------------------------------------------------------------------
(* pack_command_weights: referenced roots in order, each one aligned.      *)

AppendSpan(in, spans, root, content) ==
  LET end == IF spans = <<>> THEN 0 ELSE Last(spans).offset + Last(spans).bytes
  IN Append(spans, [value |-> root, offset |-> AlignUp(end, in.memory.alignment),
                    bytes |-> Allocation(in, root).bytes, digest |-> Sha(content)])

PackCommandWeights(in, content) ==
  FoldLeft(LAMBDA spans, root : AppendSpan(in, spans, root, content[root]), <<>>, SortedSeq(ConstantRoots(in)))

BlobBytes(in, spans) ==
  IF spans = <<>> THEN 0 ELSE AlignUp(Last(spans).offset + Last(spans).bytes, in.memory.alignment)

-----------------------------------------------------------------------------
(* compile_executable_plan: its refusals, then the records it writes.      *)

Ids(in) == 0..Len(in.schedule.values)-1
InputRoots(in) == RootsOf(in, ToSet(in.schedule.inputs))
OutputRoots(in) == RootsOf(in, ToSet(in.schedule.outputs))
SpanIds(in) == {span.value : span \in ToSet(in.spans)}

SameIdentities(in) ==
  /\ in.weightsBytes > 0
  /\ in.memory.scheduleDigest = Sha(in.schedule)
  /\ in.stream.arch \in KnownArch
  /\ in.stream.valueCount = Len(in.schedule.values)
  /\ in.stream.memoryDigest = Sha(in.memory)
  /\ in.stream.arenaBytes = in.memory.arenaBytes
  /\ in.stream.stateBytes = in.memory.stateBytes
  /\ Len(in.schedule.values) \in 1..MaxValues
  /\ Len(in.schedule.inputs) + Len(in.schedule.outputs) <= MaxPorts
  /\ Len(in.schedule.states) <= MaxStates

PortsHaveRoots(in) ==
  /\ Len(in.memory.allocations) = Len(in.schedule.values)
  /\ \A id \in Ids(in) : MemoryRoot(in, id) # None
  /\ InputRoots(in) \cap OutputRoots(in) = {}
  /\ Cardinality(OutputRoots(in)) = Len(in.schedule.outputs)

SpansFit(in) ==
  /\ Cardinality(SpanIds(in)) = Len(in.spans)
  /\ \A span \in ToSet(in.spans) :
        /\ span.value \in Ids(in)
        /\ span.bytes = Allocation(in, span.value).bytes
        /\ span.offset % in.memory.alignment = 0
        /\ span.offset <= in.weightsBytes
        /\ span.bytes <= in.weightsBytes - span.offset
        /\ \A other \in ToSet(in.spans) :
              other.value # span.value =>
                other.offset + other.bytes <= span.offset \/ span.offset + span.bytes <= other.offset
  /\ SpanIds(in) = ConstantRoots(in)

TensorBytes(v) == Product(v.shape) * DTypeBytes[v.dtype]
Padded(shape) == [d \in 1..MaxTensorRank |-> IF d <= Len(shape) THEN shape[d] ELSE 0]

\* The region a value gets: aliases first, then the ports, then its allocation.
RegionFor(in, id) ==
  LET a == Allocation(in, id)
  IN CASE MemoryRoot(in, id) # id -> Alias
       [] id \in InputRoots(in) -> ExternalInput
       [] id \in OutputRoots(in) -> ExternalOutput
       [] a.region = "constant" -> IF id \in SpanIds(in) THEN Weights ELSE Unused
       [] a.region = "unused" -> Unused
       [] a.region = "state" -> State
       [] a.region = "arena" -> Arena
       [] OTHER -> None

ValueRecord(in, id) ==
  LET v == in.schedule.values[id + 1]
      a == Allocation(in, id)
      region == RegionFor(in, id)
      span == CHOOSE s \in ToSet(in.spans) : s.value = id
      owned == region \in {State, Arena}
  IN [id |-> id, region |-> region, dtype |-> v.dtype, rank |-> Len(v.shape), reserved |-> 0,
      alias |-> IF region = Alias THEN MemoryRoot(in, id) ELSE None,
      producer |-> v.producer,
      offset |-> CASE region = Weights -> span.offset [] owned -> a.offset [] OTHER -> 0,
      bytes |-> TensorBytes(v),
      allocation |-> CASE region = Weights -> span.bytes [] owned -> a.allocation
                       [] region \in External -> TensorBytes(v) [] OTHER -> 0,
      shape |-> Padded(v.shape),
      digest |-> IF region = Weights THEN span.digest ELSE NoDigest]

ValuesFit(in) ==
  \A id \in Ids(in) :
     LET v == in.schedule.values[id + 1]
     IN /\ Len(v.shape) \in 1..MaxTensorRank
        /\ \A d \in DOMAIN v.shape : v.shape[d] > 0
        /\ TensorBytes(v) <= MaxU64
        /\ TensorBytes(v) = Allocation(in, id).bytes
        /\ RegionFor(in, id) # None

OperandsFit(in) ==
  \A c \in ToSet(in.stream.commands) : \A o \in ToSet(c.operands) :
     LET root == MemoryRoot(in, o.value)
     IN /\ RegionFor(in, root) # Unused
        /\ o.offset < Allocation(in, root).bytes

PlanFor(in) ==
  LET s == ToBytes(in.stream)
      n == Len(in.schedule.values)
      inputs == Len(in.schedule.inputs)
      entry == in.schedule.inputs \o in.schedule.outputs
      values == [i \in 1..n |-> ValueRecord(in, i - 1)]
      ports == [k \in 1..Len(entry) |->
                  [id |-> k - 1, kind |-> IF k <= inputs THEN Input ELSE Output, value |-> entry[k],
                   location |-> 2, reserved |-> 0]]
      states == [k \in 1..Len(in.schedule.states) |->
                  [id |-> k - 1, value |-> in.schedule.states[k], init |-> Zero, reserved |-> 0]]
      providers == Providers(s)
      at(t) == HeaderSize + Total(SubSeq(<<n, Len(ports), Len(states), Len(providers)>>, 1, t - 1))
  IN [minor |-> 0, reserved |-> 0, arch |-> in.stream.arch,
      valueCount |-> n, portCount |-> Len(ports), stateCount |-> Len(states),
      providerCount |-> Len(providers), alignment |-> in.memory.alignment,
      arenaBytes |-> in.memory.arenaBytes, stateBytes |-> in.memory.stateBytes,
      workspaceBytes |-> in.stream.workspaceBytes, weightsBytes |-> in.weightsBytes,
      valuesAt |-> at(1), portsAt |-> at(2), statesAt |-> at(3), providersAt |-> at(4),
      commandsAt |-> at(5), commandBytes |-> StreamSize(s), sectionSize |-> at(5) + StreamSize(s),
      scheduleDigest |-> Sha(in.schedule), memoryDigest |-> Sha(in.memory), commandDigest |-> Sha(s),
      bodyDigest |-> Sha(<<<<values, ports, states, providers>>, s>>),
      values |-> values, ports |-> ports, states |-> states, providers |-> providers, stream |-> s]

\* The plan a request compiles to, as a set: empty when it is refused.
CompileExecutablePlan(in) ==
  IF /\ SameIdentities(in) /\ PortsHaveRoots(in) /\ SpansFit(in) /\ ValuesFit(in) /\ OperandsFit(in)
     /\ OneAbi(ToBytes(in.stream))
     /\ Cardinality(ProviderIds(ToBytes(in.stream))) <= MaxProviders
  THEN {p \in {PlanFor(in)} : PyParse(p, p.arch, in.weightsBytes)}
  ELSE {}
=============================================================================
