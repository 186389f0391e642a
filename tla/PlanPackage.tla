----------------------------- MODULE PlanPackage -----------------------------
(***************************************************************************)
(* A compiled plan from the compiler to the runtime.  Three scenarios share *)
(* the definitions of the plan and run one at a time:                      *)
(*   "compile"  CompilePipeline: compilations while their inputs change;   *)
(*   "store"    a request is compiled, its bytes are written, damaged or   *)
(*              rewritten, and both parsers judge what is there;           *)
(*   "serve"    RuntimeApi: callers load containers and open sessions.     *)
(***************************************************************************)
EXTENDS CompilePipeline, RuntimeApi

CONSTANTS Requests,      \* what compile_executable_plan is asked for
          MaxRewrites    \* bound on value records rewritten one after another

VARIABLES scenario,
          stored         \* [plan, arch, weights, rewrites], or NoFile

packageVars == <<scenario, stored, pipelineVars, apiVars>>

-----------------------------------------------------------------------------
(* What bytes decode to: a number in every field of a row, and as many rows  *)
(* in a table as the count of its header says.                               *)

StreamCounts == {"commandCount", "operandCount"}
StreamNumberFields ==
  StreamCounts \cup {"valueCount", "workspaceBytes", "commandsAt", "operandsAt", "payloadAt", "payloadBytes", "sectionSize"}
CommandFields ==
  {"provider", "major", "minor", "flags", "first", "count", "size", "start", "workspaceAt", "workspaceBytes"}
OperandFields == {"value", "access", "offset"}
PlanCounts == {"valueCount", "portCount", "stateCount", "providerCount"}
PlanNumberFields ==
  PlanCounts \cup {"alignment", "arenaBytes", "stateBytes", "workspaceBytes", "weightsBytes", "valuesAt", "portsAt",
                   "statesAt", "providersAt", "commandsAt", "commandBytes", "sectionSize"}
TableFields ==
  [values |-> {"id", "region", "alias", "rank", "offset", "bytes", "allocation"}, ports |-> {"id", "kind", "value"},
   states |-> {"id", "value", "init"}, providers |-> {"id", "major", "minor", "count", "captures"}]

Numbers(row, fields) == \A f \in fields : f \in DOMAIN row /\ row[f] \in 0..MaxU64
Rows(table, fields) ==
  /\ Len(table) \in 0..MaxU64 /\ table = [k \in 1..Len(table) |-> table[k]]
  /\ \A k \in 1..Len(table) : Numbers(table[k], fields)

StreamRows(s) ==
  /\ {"commands", "operands", "payload", "bodyDigest"} \subseteq DOMAIN s
  /\ Numbers(s, StreamNumberFields)
  /\ Rows(s.commands, CommandFields) /\ Rows(s.operands, OperandFields)
StreamCounted(s) == s.commandCount = Len(s.commands) /\ s.operandCount = Len(s.operands)
DecodedStream(s) == StreamRows(s) /\ StreamCounted(s)

HasShape(v) == "shape" \in DOMAIN v /\ v.shape \in [1..MaxTensorRank -> Nat]
ProviderDescriptor(r) ==
  r = [id |-> r.id, major |-> r.major, minor |-> r.minor, tags |-> r.tags, count |-> r.count,
       captures |-> r.captures, reserved |-> r.reserved, usage |-> r.usage]
RowsTyped(p) ==
  /\ \A k \in DOMAIN p.values : HasShape(p.values[k])
  /\ \A k \in DOMAIN p.providers : ProviderDescriptor(p.providers[k])

PlanRows(p) ==
  /\ DOMAIN TableFields \cup {"stream", "commandDigest", "bodyDigest"} \subseteq DOMAIN p
  /\ Numbers(p, PlanNumberFields)
  /\ \A t \in DOMAIN TableFields : Rows(p[t], TableFields[t])
  /\ RowsTyped(p)
  /\ StreamRows(p.stream)
PlanCounted(p) ==
  /\ p.valueCount = Len(p.values) /\ p.portCount = Len(p.ports)
  /\ p.stateCount = Len(p.states) /\ p.providerCount = Len(p.providers)
DecodedPlan(p) == PlanRows(p) /\ PlanCounted(p) /\ StreamCounted(p.stream)

\* The weights a compilation may have packed, by the versions of their shards.
PackedContents ==
  {[k \in DOMAIN Constants |-> [constant |-> Constants[k], version |-> versions[k]]] :
     versions \in [DOMAIN Constants -> 0..MaxEdits]}

\* What a compilation returns is bytes; a record can be rewritten at least once.
ASSUME PackageAssumption ==
  /\ MaxRewrites \in Nat \ {0}
  /\ \A in \in Requests \cup {PackedRequest(packed) : packed \in PackedContents} :
        \A p \in CompileExecutablePlan(in) : DecodedPlan(p)

-----------------------------------------------------------------------------
(* Damage: one field of one record, the digests stale or taken again.      *)

U64Fields == {"arenaBytes", "stateBytes", "workspaceBytes", "weightsBytes", "valuesAt", "portsAt", "statesAt",
              "providersAt", "commandsAt", "operandsAt", "payloadAt", "payloadBytes", "commandBytes",
              "sectionSize", "offset", "bytes", "allocation", "start", "size", "workspaceAt"}
DigestFields == {"scheduleDigest", "memoryDigest", "commandDigest", "bodyDigest", "digest", "usage", "capability"}
OtherDigest == <<"other">>
Tables4 == {"values", "ports", "states", "providers"}

Near(n, last) == ({0, 1, n - 1, n + 1, last} \cap 0..last) \ {n}
Others(field, v) ==
  CASE field \in DigestFields -> {NoDigest, OtherDigest} \ {v}
    [] field = "tags" -> {{}, v \cup {5}, v \cup {CHOOSE t \in KnownTag : t \notin v}}
    [] field = "arch" -> {0, 89, 110}
    [] field = "shape" -> UNION {{[v EXCEPT ![d] = n] : n \in Near(v[d], MaxU64)} : d \in DOMAIN v}
    [] OTHER -> Near(v, IF field \in U64Fields THEN MaxU64 ELSE MaxU32)

FieldsOf(row) == DOMAIN row \ (Tables4 \cup {"stream", "commands", "operands", "payload"})
RowsOf(row, f) == {[row EXCEPT ![f] = v] : v \in Others(f, row[f])}
OtherRows(row) == UNION {RowsOf(row, f) : f \in FieldsOf(row)}
OtherTables(rows) == UNION {{[rows EXCEPT ![k] = row] : row \in OtherRows(rows[k])} : k \in DOMAIN rows}
WithTables(p, tables) == UNION {{[p EXCEPT ![t] = rows] : rows \in OtherTables(p[t])} : t \in tables}
OtherPlans(p) ==
  OtherRows(p) \cup WithTables(p, Tables4)
    \cup {[p EXCEPT !.stream = s] : s \in OtherRows(p.stream) \cup WithTables(p.stream, {"commands", "operands"})}

\* A table that lost its last row or has it twice, all counts and offsets right
\* (and small enough for the fields they are written to, see Resize).
OtherLengths(rows) == {Append(rows, Last(rows)), Front(rows)}
Relaid(p) ==
  LET q == [p EXCEPT !.portCount = Len(p.ports), !.stateCount = Len(p.states), !.providerCount = Len(p.providers)]
      at == [t \in 1..5 |-> TableAt(q, t)]
  IN [q EXCEPT !.valuesAt = at[1], !.portsAt = at[2], !.statesAt = at[3], !.providersAt = at[4],
               !.commandsAt = at[5], !.sectionSize = PlanSize(q)]
OtherTableSizes(p) ==
  UNION {{Relaid([p EXCEPT ![t] = rows]) : rows \in OtherLengths(p[t])} :
           t \in {u \in {"ports", "states", "providers"} : p[u] # <<>>}}

Resealed(p) ==
  LET stream == [p.stream EXCEPT !.bodyDigest = Sha(Body(p.stream))]
      q == [p EXCEPT !.stream = stream, !.commandDigest = Sha(stream)]
  IN [q EXCEPT !.bodyDigest = Sha(PlanBody(q))]

-----------------------------------------------------------------------------
(* A plan of another writer: value records with other storage.             *)

InRegion(v, region, at, size, digest) ==
  [v EXCEPT !.region = region, !.alias = None, !.offset = at, !.allocation = size, !.digest = digest]

AliasStorage(p, v) ==
  {[v EXCEPT !.region = Alias, !.alias = to, !.offset = 0, !.allocation = 0, !.digest = NoDigest] : to \in 0..p.valueCount}
BoundStorage(v) ==
  {InRegion(v, region, 0, IF region = Unused THEN 0 ELSE v.bytes, NoDigest) : region \in {Unused} \cup External}
Starts(p) == {0, p.alignment, MaxU64 + 1 - p.alignment}
Sizes(v) == {v.bytes, 2 * v.bytes} \cap 0..MaxU64
StoredStorage(p, v) ==
  {InRegion(v, region, at, size, IF region = Weights THEN OtherDigest ELSE NoDigest) :
     region \in Stored, at \in Starts(p), size \in Sizes(v)}
OtherStorage(p, v) == AliasStorage(p, v) \cup BoundStorage(v) \cup StoredStorage(p, v)

-----------------------------------------------------------------------------
(* The store scenario *)

WritePlan(in) ==
  /\ scenario = "store" /\ stored = NoFile
  /\ \E p \in CompileExecutablePlan(in) :
       stored' = [plan |-> p, arch |-> p.arch, weights |-> p.weightsBytes, rewrites |-> 0]
  /\ UNCHANGED <<scenario, pipelineVars, apiVars>>

Store(p, rewrites) ==
  /\ stored' = [stored EXCEPT !.plan = p, !.rewrites = rewrites]
  /\ UNCHANGED <<scenario, pipelineVars, apiVars>>

Damage ==
  /\ stored # NoFile /\ stored.rewrites = 0
  /\ \E p \in OtherPlans(stored.plan) : \E q \in {p, Resealed(p)} : Store(q, MaxRewrites)

Resize ==
  /\ stored # NoFile /\ stored.rewrites = 0
  /\ \E p \in OtherTableSizes(stored.plan) : PlanRows(p) /\ Store(Resealed(p), MaxRewrites)

Rewrite ==
  /\ stored # NoFile /\ stored.rewrites < MaxRewrites
  /\ \E k \in DOMAIN stored.plan.values : \E v \in OtherStorage(stored.plan, stored.plan.values[k]) :
       Store(Resealed([stored.plan EXCEPT !.values[k] = v]), stored.rewrites + 1)

PackageInit ==
  /\ scenario \in {"compile", "store", "serve"}
  /\ stored = NoFile
  /\ PipelineInit
  /\ ApiInit
  /\ scenario # "serve" => installed = CHOOSE versions \in Upgrades : TRUE

PackageNext ==
  \/ scenario = "compile" /\ PipelineNext /\ UNCHANGED <<scenario, stored, apiVars>>
  \/ scenario = "serve" /\ ApiNext /\ UNCHANGED <<scenario, stored, pipelineVars>>
  \/ \E in \in Requests : WritePlan(in)
  \/ Damage \/ Resize \/ Rewrite

PackageSpec == PackageInit /\ [][PackageNext]_packageVars

-----------------------------------------------------------------------------
(* Properties *)

PyAccepts == PyParse(stored.plan, stored.arch, stored.weights)
RuntimeAccepts == ParseExecutablePlan(stored.plan, stored.arch, stored.weights)

\* The compiler's reader and the runtime accept the same bytes: no plan passes
\* the tools and fails in the robot, and none is run that the tools refuse.
PlanParsersAgree == stored # NoFile => (PyAccepts <=> RuntimeAccepts)

\* The bytes a root occupies, in integers that do not wrap.
Occupied(v) == IF v.region \in External THEN 0..v.bytes-1 ELSE v.offset..v.offset+v.allocation-1
RegionBytes(p, v) == IF v.region \in External THEN 0..v.bytes-1 ELSE 0..Limit(p, v.region)-1
RootsIn(p, regions) == {v \in ToSet(p.values) : v.region \in regions}
RootRecord(p, id) == p.values[StorageRoot(p.values, id) + 1]

\* What a session does with an accepted plan stays inside what it allocates:
\* every operand's value has storage inside its region and covers the operand,
\* no two weights share a byte, each external or state root is bound exactly
\* once by a port or state of its kind, an alias views all of its root, and
\* each command is under exactly one provider row, which has its ABI.
LoadedPlanSound ==
  (stored # NoFile /\ RuntimeAccepts) =>
    LET p == stored.plan
        boundBy(rows, id) == {k \in DOMAIN rows : RootRecord(p, rows[k].value).id = id}
    IN /\ \A o \in ToSet(p.stream.operands) :
             LET root == RootRecord(p, o.value)
             IN /\ root.region \in Stored \cup External
                /\ Occupied(root) \subseteq RegionBytes(p, root)
                /\ o.offset \in 0..root.bytes-1 /\ root.bytes <= Cardinality(Occupied(root))
                /\ p.values[o.value + 1].bytes = root.bytes
       /\ \A v, w \in RootsIn(p, {Weights}) : v # w => Occupied(v) \cap Occupied(w) = {}
       /\ \A v \in RootsIn(p, External) :
             /\ Cardinality(boundBy(p.ports, v.id)) = 1
             /\ \A k \in boundBy(p.ports, v.id) : (p.ports[k].kind = Input) = (v.region = ExternalInput)
       /\ \A v \in RootsIn(p, {State}) : Cardinality(boundBy(p.states, v.id)) = 1
       /\ \A c \in ToSet(p.stream.commands) :
             /\ Cardinality({k \in DOMAIN p.providers : p.providers[k].id = c.provider}) = 1
             /\ \E r \in ToSet(p.providers) : <<r.id, r.major, r.minor>> = <<c.provider, c.major, c.minor>>
             /\ c.workspaceAt + c.workspaceBytes <= p.workspaceBytes
=============================================================================
