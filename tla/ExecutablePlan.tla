--------------------------- MODULE ExecutablePlan ---------------------------
(***************************************************************************)
(* The execution plan v2: compile_executable_plan, and the two parsers     *)
(* that read its bytes back, parse_executable_plan of the writer, reader   *)
(* and verifier, and ParseExecutablePlan of the runtime.  A plan is its    *)
(* header, four tables and a command stream; value ids count from zero,    *)
(* and MaxU32 in a 32-bit field means "none".                              *)
(***************************************************************************)
EXTENDS CommandStream, FiniteSets

CONSTANTS MaxTensorRank, MaxAlignment, MaxValues, MaxPorts, MaxStates, MaxProviders

ASSUME PlanConstants ==
  /\ {MaxTensorRank, MaxAlignment, MaxValues, MaxPorts, MaxStates, MaxProviders} \subseteq Nat \ {0}
  /\ MaxU32 > 6   \* every region has a number, and none is None

None == MaxU32
Regions == 0..6
Unused == 0
ExternalInput == 1
ExternalOutput == 2
Weights == 3
State == 4
Arena == 5
Alias == 6
External == {ExternalInput, ExternalOutput}
Stored == {Weights, State, Arena}
DTypeBytes == <<4, 2, 2, 4, 1>>   \* f32, f16, bf16, i32, bool
Input == 1
Output == 2
Zero == 1

PowerOfTwo(n) == \E k \in 0..20 : n = 2^k
Product(shape) == FoldLeft(LAMBDA product, d : product * d, 1, shape)

Tables(p) == <<p.values, p.ports, p.states, p.providers>>
PlanBody(p) == <<Tables(p), p.stream>>
PlanSize(p) == HeaderSize + Total([t \in 1..4 |-> Len(Tables(p)[t])]) + StreamSize(p.stream)

\* Where the first parser finds each table when the counts are right.
TableAt(p, t) ==
  HeaderSize + Total([k \in 1..t-1 |-> <<p.valueCount, p.portCount, p.stateCount, p.providerCount>>[k]])

\* The value whose storage a value uses, None when its aliases form a cycle.
StorageRoot(values, id) ==
  LET hop[d \in 0..Len(values)] ==
        IF d = 0 THEN id
        ELSE LET v == values[hop[d-1] + 1] IN IF v.region = Alias THEN v.alias ELSE hop[d-1]
      last == hop[Len(values)]
  IN IF values[last + 1].region = Alias THEN None ELSE last

-----------------------------------------------------------------------------
(* _providers: the table a command stream implies, or a refusal when the   *)
(* commands of one provider name several ABI versions.                     *)

CommandsOf(s, id) == SelectSeq([i \in 1..Len(s.commands) |-> i], LAMBDA i : s.commands[i].provider = id)
ProviderIds(s) == {c.provider : c \in ToSet(s.commands)}
OneAbi(s) == \A c, d \in ToSet(s.commands) :
                c.provider = d.provider => <<c.major, c.minor>> = <<d.major, d.minor>>
Usage(s, own) == Sha([k \in 1..Len(own) |-> <<s.commands[own[k]].capability, Sha(PayloadOf(s, own[k]))>>])

ProviderRow(s, id) ==
  LET own == {i \in DOMAIN s.commands : s.commands[i].provider = id}
      c == s.commands[CHOOSE i \in own : TRUE]
  IN [id |-> id, major |-> c.major, minor |-> c.minor, tags |-> {s.commands[i].tag : i \in own},
      count |-> Cardinality(own), captures |-> Cardinality({i \in own : CaptureSafe(s.commands[i])}),
      reserved |-> 0, usage |-> Usage(s, CommandsOf(s, id))]

\* One row for each provider, in the order of their ids.
Providers(s) ==
  LET ids == ProviderIds(s)
      below(id) == {other \in ids : other < id}
  IN [k \in 1..Cardinality(ids) |-> ProviderRow(s, CHOOSE id \in ids : Cardinality(below(id)) = k - 1)]

-----------------------------------------------------------------------------
(* parse_executable_plan.                                                  *)

PyPlanHeader(p, arch, weights) ==
  /\ p.minor = 0 /\ p.reserved = 0
  /\ p.arch \in KnownArch /\ p.arch = arch /\ p.weightsBytes = weights
  /\ p.valueCount \in 1..MaxValues /\ p.portCount \in 1..MaxPorts
  /\ p.stateCount <= MaxStates /\ p.providerCount \in 1..MaxProviders
  /\ p.alignment \in 1..MaxAlignment /\ PowerOfTwo(p.alignment)
  /\ p.weightsBytes # 0
  /\ <<p.valuesAt, p.portsAt, p.statesAt, p.providersAt, p.commandsAt>> = [t \in 1..5 |-> TableAt(p, t)]
  /\ p.commandsAt <= PlanSize(p)
  /\ p.commandBytes = PlanSize(p) - p.commandsAt
  /\ p.sectionSize = PlanSize(p)
  /\ NoDigest \notin {p.scheduleDigest, p.memoryDigest, p.commandDigest, p.bodyDigest}
  /\ p.bodyDigest = Sha(PlanBody(p))
  /\ p.commandDigest = Sha(p.stream)

StreamMatches(p) ==
  <<p.stream.arch, p.stream.valueCount, p.stream.memoryDigest, p.stream.arenaBytes, p.stream.stateBytes,
    p.stream.workspaceBytes>> = <<p.arch, p.valueCount, p.memoryDigest, p.arenaBytes, p.stateBytes, p.workspaceBytes>>

Limit(p, region) == CASE region = Weights -> p.weightsBytes [] region = State -> p.stateBytes
                      [] region = Arena -> p.arenaBytes

PyTensorContract(p, i) ==
  LET v == p.values[i]
      dims == SubSeq(v.shape, 1, IF v.rank < MaxTensorRank THEN v.rank ELSE MaxTensorRank)
  IN /\ v.region \in Regions /\ v.dtype \in DOMAIN DTypeBytes
     /\ Product(dims) \in 1..(MaxU64 \div DTypeBytes[v.dtype])
     /\ v.id = i - 1 /\ v.reserved = 0
     /\ v.rank \in 1..MaxTensorRank
     /\ \A d \in 1..v.rank : v.shape[d] > 0
     /\ \A d \in v.rank+1..MaxTensorRank : v.shape[d] = 0
     /\ v.bytes = Product(dims) * DTypeBytes[v.dtype]

OwnsNothing(v) == v.offset = 0 /\ v.allocation = 0 /\ v.digest = NoDigest

PyStorage(p, v) ==
  IF v.region = Alias
  THEN v.alias # None /\ v.alias < p.valueCount /\ v.alias # v.id /\ OwnsNothing(v)
  ELSE /\ v.alias = None
       /\ v.region = Unused => OwnsNothing(v)
       /\ v.region \in External => v.offset = 0 /\ v.allocation = v.bytes /\ v.digest = NoDigest
       /\ v.region \in Stored =>
            /\ v.allocation >= v.bytes
            /\ v.offset <= Limit(p, v.region)
            /\ v.allocation <= Limit(p, v.region) - v.offset
            /\ (v.region = Weights) = (v.digest # NoDigest)
            /\ v.offset % p.alignment = 0

SpansDisjoint(values) ==
  \A v, w \in {x \in ToSet(values) : x.region = Weights} :
     v.id # w.id => v.offset + v.allocation <= w.offset \/ w.offset + w.allocation <= v.offset

\* A port or a state names a value whose root nobody named before.
Roots(p, rows) == [k \in 1..Len(rows) |-> StorageRoot(p.values, rows[k].value)]
RegionOf(p, id) == p.values[id + 1].region
NamesOnce(p, rows, regions) ==
  /\ \A k \in 1..Len(rows) : rows[k].id = k - 1 /\ rows[k].value < p.valueCount /\ rows[k].reserved = 0
  /\ \A k \in 1..Len(rows) :
        /\ RegionOf(p, Roots(p, rows)[k]) = regions[k]
        /\ \A j \in 1..k-1 : Roots(p, rows)[j] # Roots(p, rows)[k]
IdsIn(p, regions) == {v.id : v \in {x \in ToSet(p.values) : x.region \in regions}}

PyPorts(p) ==
  /\ \A q \in ToSet(p.ports) : q.kind \in {Input, Output} /\ q.location = 2
  /\ NamesOnce(p, p.ports, [k \in DOMAIN p.ports |->
                          IF p.ports[k].kind = Input THEN ExternalInput ELSE ExternalOutput])
  /\ \E q \in ToSet(p.ports) : q.kind = Output
  /\ ToSet(Roots(p, p.ports)) = IdsIn(p, External)

PyStates(p) ==
  /\ \A q \in ToSet(p.states) : q.init = Zero
  /\ NamesOnce(p, p.states, [k \in DOMAIN p.states |-> State])
  /\ ToSet(Roots(p, p.states)) = IdsIn(p, {State})

PyProviders(p) ==
  /\ \A k \in 1..p.providerCount :
        LET r == p.providers[k]
        IN /\ IF k = 1 THEN r.id > 0 ELSE r.id > p.providers[k-1].id
           /\ r.major # 0 /\ r.tags # {} /\ r.tags \subseteq KnownTag
           /\ r.count # 0 /\ r.captures <= r.count /\ r.reserved = 0 /\ r.usage # NoDigest
  /\ OneAbi(p.stream)
  /\ p.providers = Providers(p.stream)

OperandInside(p, o) ==
  LET root == p.values[StorageRoot(p.values, o.value) + 1]
  IN root.region # Unused /\ o.offset < root.bytes

PyParse(p, arch, weights) ==
  /\ PyPlanHeader(p, arch, weights)
  /\ FromBytes(p.stream)
  /\ StreamMatches(p)
  /\ \A i \in 1..p.valueCount : PyTensorContract(p, i) /\ PyStorage(p, p.values[i])
  /\ SpansDisjoint(p.values)
  /\ \A v \in ToSet(p.values) :
        LET root == StorageRoot(p.values, v.id)
        IN root # None /\ (v.region = Alias => v.bytes = p.values[root + 1].bytes)
  /\ PyPorts(p)
  /\ PyStates(p)
  /\ PyProviders(p)
  /\ \A o \in ToSet(p.stream.operands) : OperandInside(p, o)

-----------------------------------------------------------------------------
(* ParseExecutablePlan of the runtime.                                     *)

PlanTables(p) ==
  /\ \A t \in 1..5 : Fits(TableAt(p, t))
  /\ Fits(TableAt(p, 5) + p.commandBytes)
  /\ p.valuesAt = HeaderSize
  /\ p.portsAt = TableAt(p, 2) /\ p.statesAt = TableAt(p, 3)
  /\ p.providersAt = TableAt(p, 4) /\ p.commandsAt = TableAt(p, 5)
  /\ p.sectionSize = PlanSize(p)
  /\ TableAt(p, 5) + p.commandBytes = PlanSize(p)

PlanHeader(p, arch, weights) ==
  /\ p.minor = 0 /\ p.reserved = 0
  /\ p.arch \in KnownArch /\ p.arch = arch
  /\ p.weightsBytes # 0 /\ p.weightsBytes = weights
  /\ p.valueCount # 0 /\ p.valueCount <= MaxValues
  /\ p.portCount # 0 /\ p.portCount <= MaxPorts
  /\ p.stateCount <= MaxStates
  /\ p.providerCount # 0 /\ p.providerCount <= MaxProviders
  /\ p.alignment # 0 /\ p.alignment <= MaxAlignment /\ PowerOfTwo(p.alignment)
  /\ PlanTables(p)
  /\ \A d \in {p.scheduleDigest, p.memoryDigest, p.commandDigest, p.bodyDigest} : d # NoDigest
  /\ p.bodyDigest = Sha(PlanBody(p))
  /\ p.commandDigest = Sha(p.stream)

\* The checked products of the dimensions: each partial one has to fit.
Elements(v) == [r \in 0..v.rank |-> Product(SubSeq(v.shape, 1, r))]
TensorContract(v, index) ==
  /\ v.id = index - 1 /\ v.region <= 6 /\ v.dtype \in 1..5
  /\ v.rank # 0 /\ v.rank <= MaxTensorRank /\ v.reserved = 0
  /\ \A d \in 1..v.rank : v.shape[d] > 0 /\ Fits(Elements(v)[d])
  /\ \A d \in v.rank+1..MaxTensorRank : v.shape[d] = 0
  /\ Fits(Elements(v)[v.rank] * DTypeBytes[v.dtype])
  /\ v.bytes = Elements(v)[v.rank] * DTypeBytes[v.dtype]

\* Fault: the end of the storage is computed with a sum that may wrap.
InsideRegionBySum(v, limit, alignment) ==
  /\ v.allocation >= v.bytes
  /\ Plus(v.offset, v.allocation) <= limit
  /\ v.offset % alignment = 0
  /\ (v.region = Weights) = (v.digest # NoDigest)

InsideRegion(v, limit, alignment) ==
  /\ v.allocation >= v.bytes
  /\ v.offset <= limit
  /\ v.allocation <= Minus(limit, v.offset)
  /\ v.offset % alignment = 0
  /\ (v.region = Weights) = (v.digest # NoDigest)

StorageContract(p, v) ==
  IF v.region = Alias
  THEN v.alias < p.valueCount /\ v.alias # v.id /\ OwnsNothing(v)
  ELSE /\ v.alias = MaxU32
       /\ CASE v.region = Unused -> OwnsNothing(v)
            [] v.region \in External ->
                 v.offset = 0 /\ v.allocation = v.bytes /\ v.digest = NoDigest
            [] OTHER -> InsideRegion(v, Limit(p, v.region), p.alignment)

\* Fault: neighbours are compared by the bytes they use, not those they own.
WeightIntervalsByUse(p) ==
  \A v, w \in {x \in ToSet(p.values) : x.region = Weights} :
     v.offset <= w.offset /\ v.id # w.id => v.offset + v.bytes <= w.offset

\* Sorted by start, each span has to end before the next one begins.
WeightIntervals(p) ==
  LET weights == {x \in ToSet(p.values) : x.region = Weights}
      end(v) == Plus(v.offset, v.allocation)
      before(v, w) == \/ v.offset < w.offset
                      \/ v.offset = w.offset /\ end(v) < end(w)
                      \/ v.offset = w.offset /\ end(v) = end(w) /\ v.id < w.id
      next(v, w) == before(v, w) /\ \A u \in weights : ~(before(v, u) /\ before(u, w))
  IN \A v, w \in weights : next(v, w) => w.offset >= end(v)

\* port_values and state_values: what the rows before row k have marked.
Marked(p, rows, k) == {StorageRoot(p.values, rows[j].value) : j \in 1..k-1}
MarksFresh(p, rows, k) ==
  LET q == rows[k]
  IN /\ q.id = k - 1 /\ q.value < p.valueCount /\ q.reserved = 0
     /\ q.value \notin Marked(p, rows, k)
     /\ StorageRoot(p.values, q.value) \notin Marked(p, rows, k)

PortAccepted(p, k) ==
  LET q == p.ports[k]
  IN /\ q.kind \in {Input, Output} /\ q.location = 2
     /\ MarksFresh(p, p.ports, k)
     /\ RegionOf(p, StorageRoot(p.values, q.value)) = IF q.kind = Input THEN ExternalInput ELSE ExternalOutput
StateAccepted(p, k) ==
  /\ p.states[k].init = Zero
  /\ MarksFresh(p, p.states, k)
  /\ RegionOf(p, StorageRoot(p.values, p.states[k].value)) = State

EveryRootBound(p) ==
  \A v \in ToSet(p.values) :
     /\ v.region \in External => v.id \in Marked(p, p.ports, p.portCount + 1)
     /\ v.region = State => v.id \in Marked(p, p.states, p.stateCount + 1)

ProviderAccepted(p, k) ==
  LET r == p.providers[k]
      s == p.stream
      own == {i \in DOMAIN s.commands : s.commands[i].provider = r.id}
  IN /\ r.id > (IF k = 1 THEN 0 ELSE p.providers[k-1].id)
     /\ r.major # 0 /\ r.tags # {} /\ r.tags \ KnownTag = {}
     /\ r.count # 0 /\ r.captures <= r.count /\ r.reserved = 0 /\ r.usage # NoDigest
     /\ \A i \in own : s.commands[i].major = r.major /\ s.commands[i].minor = r.minor
     /\ r.count = Cardinality(own)
     /\ r.captures = Cardinality({i \in own : CaptureSafe(s.commands[i])})
     /\ r.tags = {s.commands[i].tag : i \in own}
     /\ r.usage = Usage(s, CommandsOf(s, r.id))

CommandBound(p, i) ==
  /\ \E r \in ToSet(p.providers) : r.id = p.stream.commands[i].provider
  /\ \A o \in ToSet(OperandsOf(p.stream, i)) :
        /\ StorageRoot(p.values, o.value) # None
        /\ OperandInside(p, o)

ParseExecutablePlan(p, arch, weights) ==
  /\ PlanHeader(p, arch, weights)
  /\ ParseCommandStream(p.stream)
  /\ StreamMatches(p)
  /\ \A i \in 1..p.valueCount : TensorContract(p.values[i], i) /\ StorageContract(p, p.values[i])
  /\ WeightIntervals(p)
  /\ \A i \in 1..p.valueCount :
        LET root == StorageRoot(p.values, i - 1)
        IN root # None /\ (p.values[i].region = Alias => p.values[i].bytes = p.values[root + 1].bytes)
  /\ \A k \in 1..p.portCount : PortAccepted(p, k)
  /\ \E q \in ToSet(p.ports) : q.kind = Output
  /\ \A k \in 1..p.stateCount : StateAccepted(p, k)
  /\ EveryRootBound(p)
  /\ \A k \in 1..p.providerCount : ProviderAccepted(p, k)
  /\ \A i \in 1..p.stream.commandCount : CommandBound(p, i)
=============================================================================
