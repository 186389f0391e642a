----------------------------- MODULE RuntimeApi -----------------------------
(***************************************************************************)
(* The C API of cpp/runtime.cc and the move-only wrappers of runtime.hpp:  *)
(* runtimes that cache what they probed, models that map a container,      *)
(* sessions that keep raw pointers to both, and the device resources of a  *)
(* session that runs a v1 plan.  The caller makes one call at a time; a    *)
(* call goes through its steps and may fail at each of them, while another *)
(* process may replace the libraries it probes.                            *)
(***************************************************************************)
EXTENDS ExecutablePlan

CONSTANTS
  RuntimeWrappers, ModelWrappers, SessionWrappers,
  Objects,          \* addresses the host allocator may hand out
  Files,            \* containers on disk, and what stands for a missing one
  RuntimeOptions,   \* ai_runtime_options a caller passes
  Profiles,         \* profile_index values a caller passes
  Machine,          \* [arch, driver]: what the CUDA driver reports
  Platform,         \* HostPlatformId()
  Upgrades,         \* what the installed libraries may become
  NULL              \* the null pointer and a call's unset fields

\* Three kinds of wrappers, containers with their tables, and versions that are
\* numbers.
ASSUME ApiAssumption ==
  /\ NULL \notin Objects
  /\ RuntimeWrappers \cap ModelWrappers = {}
  /\ (RuntimeWrappers \cup ModelWrappers) \cap SessionWrappers = {}
  /\ RuntimeOptions \subseteq [abi : Nat, flags : Nat, arch : Nat, driver : Nat, cudart : Nat,
                              providers : Seq([id : Nat, version : Nat])]
  /\ \A f \in Files : f.compat.providers \in Seq([id : Nat, range : Nat \X Nat])
  /\ Machine \in [arch : Nat, driver : Nat]
  /\ Upgrades \subseteq [cudart : Nat, provider : Nat]

ABI == 1
Default == MaxU32   \* AI_DEFAULT_PROFILE
Wrappers == RuntimeWrappers \cup ModelWrappers \cup SessionWrappers

VARIABLES
  objects,     \* what lives at each address, Free when nothing does
  resources,   \* <<address, resource>> pairs the system or the driver holds
  handles,     \* handle_ of each wrapper
  call,        \* the call in progress
  installed    \* versions a probe would find; 0 when the library is missing

apiVars == <<objects, resources, handles, call, installed>>

Free == [kind |-> "free"]
Idle == [op |-> "none"]
FreeAddress == CHOOSE o \in Objects : objects[o] = Free
Sessions == {o \in Objects : objects[o].kind = "session"}

RangeContains(version, range) == version >= range[1] /\ (range[2] = 0 \/ version <= range[2])
Usable(version, range) == version # 0 /\ RangeContains(version, range)
VersionRangeValid(range, required) ==
  IF range[1] = 0 THEN ~required /\ range[2] = 0 ELSE range[2] = 0 \/ range[2] >= range[1]

-----------------------------------------------------------------------------
(* How calls begin, fail and return *)

\* What destroying an object gives back: its mapping, its device memory.
Delete(o) ==
  IF o = NULL THEN UNCHANGED <<objects, resources>>
  ELSE /\ objects' = [objects EXCEPT ![o] = Free]
       /\ resources' = {r \in resources : r[1] # o}

\* A caller may not end a runtime or a model that a session still uses.
InUse(o) == \E s \in Sessions : o \in {objects[s].runtime, objects[s].model}
MayGiveUp(w) == handles[w] = NULL \/ ~InUse(handles[w])

\* The unique_ptr of the call dies with it and the wrapper keeps its handle.
Fail == call' = Idle /\ Delete(call.owned) /\ UNCHANGED handles

\* The wrapper destroys what it held, then takes the new handle.
Return ==
  /\ Delete(handles[call.out])
  /\ handles' = [handles EXCEPT ![call.out] = call.owned]
  /\ call' = Idle

Step(next) == call' = [call EXCEPT !.step = next]
\* Without a free address operator new throws, which is CallFails.
Allocate(object, next) ==
  /\ \E o \in Objects : objects[o] = Free
  /\ objects' = [objects EXCEPT ![FreeAddress] = object]
  /\ call' = [call EXCEPT !.owned = FreeAddress, !.step = next]
  /\ UNCHANGED <<resources, handles>>
CallAt(op, step) == call.op = op /\ call.step = step /\ UNCHANGED installed

\* Any step may run out of memory or fail in the driver or file system.
CallFails == call # Idle /\ call.op # "prepare" /\ Fail /\ UNCHANGED installed

Destroy(w) ==
  /\ call = Idle /\ handles[w] # NULL /\ MayGiveUp(w)
  /\ Delete(handles[w])
  /\ handles' = [handles EXCEPT ![w] = NULL]
  /\ UNCHANGED <<call, installed>>

SameKind(w, v) == \E kind \in {RuntimeWrappers, ModelWrappers, SessionWrappers} : {w, v} \subseteq kind
MoveAssign(to, from) ==
  /\ call = Idle /\ to # from /\ SameKind(to, from) /\ MayGiveUp(to) /\ handles[from] # NULL
  /\ Delete(handles[to])
  /\ handles' = [handles EXCEPT ![to] = handles[from], ![from] = NULL]
  /\ UNCHANGED <<call, installed>>

-----------------------------------------------------------------------------
(* ai_runtime_create *)

OptionsValid(options) == options.abi = ABI /\ options.flags = 0

BeginRuntime(w, options) ==
  /\ call = Idle /\ MayGiveUp(w)
  /\ call' = [op |-> "runtime", out |-> w, step |-> "check", owned |-> NULL, options |-> options, row |-> 1]
  /\ UNCHANGED <<objects, resources, handles, installed>>

AllocateRuntime ==
  /\ CallAt("runtime", "check")
  /\ IF ~OptionsValid(call.options) THEN Fail
     ELSE Allocate([kind |-> "runtime", arch |-> call.options.arch, driver |-> call.options.driver,
                    cudart |-> call.options.cudart, providers |-> <<>>], "rows")

CopyProviderRow ==
  /\ CallAt("runtime", "rows")
  /\ LET rows == call.options.providers
         known == objects[call.owned].providers
     IN IF call.row > Len(rows) THEN Step("probe") /\ UNCHANGED <<objects, resources, handles>>
        ELSE LET row == rows[call.row]
             IN IF \/ row.id = 0 \/ row.version = 0
                   \/ \E k \in DOMAIN known : known[k].id = row.id
                THEN Fail
                ELSE /\ objects' = [objects EXCEPT ![call.owned].providers = Append(@, row)]
                     /\ call' = [call EXCEPT !.row = @ + 1]
                     /\ UNCHANGED <<resources, handles>>

\* ProbeCuda only asks the driver for what the caller left at zero.
ProbeCuda ==
  /\ CallAt("runtime", "probe")
  /\ objects' = [objects EXCEPT ![call.owned].arch = IF @ = 0 THEN Machine.arch ELSE @,
                                ![call.owned].driver = IF @ = 0 THEN Machine.driver ELSE @]
  /\ Step("return")
  /\ UNCHANGED <<resources, handles>>

ReturnRuntime == CallAt("runtime", "return") /\ Return

-----------------------------------------------------------------------------
(* ai_model_load; AimContainer has the mapping and its writers *)

ArchMatchesPlatform(platform, arch) ==
  \/ platform = "x86_64" /\ arch \in {89, 120}
  \/ platform = "aarch64" /\ arch = 110

CompatibilityValid(compat) ==
  /\ VersionRangeValid(compat.driver, TRUE)
  /\ VersionRangeValid(compat.cudart, FALSE)
  /\ \A k \in DOMAIN compat.providers :
        /\ compat.providers[k].id > (IF k = 1 THEN 0 ELSE compat.providers[k-1].id)
        /\ VersionRangeValid(compat.providers[k].range, TRUE)

VariantValid(file, k) ==
  LET v == file.variants[k]
  IN /\ ArchMatchesPlatform(file.platform, v.arch)
     /\ ~v.ptx /\ v.arch \in v.cubin
     /\ \A j \in 1..k-1 : file.variants[j].arch # v.arch

LoadAccepts(file) ==
  /\ file.layout /\ file.abi = ABI /\ file.platform = Platform
  /\ file.variants # <<>>
  /\ CompatibilityValid(file.compat)
  /\ \A k \in DOMAIN file.variants : VariantValid(file, k)

BeginLoad(w, file) ==
  /\ call = Idle /\ MayGiveUp(w)
  /\ call' = [op |-> "load", out |-> w, step |-> "check", owned |-> NULL, file |-> file]
  /\ UNCHANGED <<objects, resources, handles, installed>>

AllocateModel == CallAt("load", "check") /\ Allocate([kind |-> "model", file |-> call.file], "open")

OpenFile ==
  /\ CallAt("load", "open")
  /\ IF ~call.file.present THEN Fail
     ELSE resources' = resources \cup {<<call.owned, "fd">>} /\ Step("map") /\ UNCHANGED <<objects, handles>>

MapFile ==
  /\ CallAt("load", "map")
  /\ resources' = resources \cup {<<call.owned, "mapping">>}
  /\ Step("validate")
  /\ UNCHANGED <<objects, handles>>

ValidateModel ==
  /\ CallAt("load", "validate")
  /\ IF ~LoadAccepts(call.file) THEN Fail ELSE Step("return") /\ UNCHANGED <<objects, resources, handles>>

ReturnModel == CallAt("load", "return") /\ Return

-----------------------------------------------------------------------------
(* ai_session_create *)

VariantsFor(file, arch) == {v \in ToSet(file.variants) : v.arch = arch}

BeginSession(w, r, m, profile) ==
  /\ call = Idle
  /\ call' = [op |-> "session", out |-> w, step |-> "check", owned |-> NULL, row |-> 1,
              runtime |-> handles[r], model |-> handles[m], profile |-> profile]
  /\ UNCHANGED <<objects, resources, handles, installed>>

Runtime == objects[call.runtime]
Compatibility == objects[call.model].file.compat

SelectVariant ==
  /\ CallAt("session", "check")
  /\ IF \/ NULL \in {call.runtime, call.model}
        \/ VariantsFor(objects[call.model].file, Runtime.arch) = {}
        \/ ~RangeContains(Runtime.driver, Compatibility.driver)
     THEN Fail
     ELSE Step("cudart") /\ UNCHANGED <<objects, resources, handles>>

\* CheckCompatibility: the CUDA runtime is probed once, when first required.
CheckCudaRuntime ==
  /\ CallAt("session", "cudart")
  /\ IF Compatibility.cudart[1] = 0 THEN Step("providers") /\ UNCHANGED <<objects, resources, handles>>
     ELSE LET version == IF Runtime.cudart = 0 THEN installed.cudart ELSE Runtime.cudart
          IN /\ objects' = [objects EXCEPT ![call.runtime].cudart = version]
             /\ IF Usable(version, Compatibility.cudart) THEN Step("providers") ELSE call' = Idle
             /\ UNCHANGED <<resources, handles>>

KnownVersion(runtime, id) ==
  LET rows == {row \in ToSet(runtime.providers) : row.id = id}
  IN IF rows = {} THEN 0 ELSE (CHOOSE row \in rows : TRUE).version

\* Fault: a probed version is used but not remembered.
ProviderVersionForgotten(runtime, id) ==
  IF KnownVersion(runtime, id) # 0 THEN [version |-> KnownVersion(runtime, id), table |-> runtime.providers]
  ELSE [version |-> installed.provider, table |-> runtime.providers]

\* ProviderVersion: the cached version, or a probe that is cached if it found one.
ProviderVersion(runtime, id) ==
  IF KnownVersion(runtime, id) # 0 THEN [version |-> KnownVersion(runtime, id), table |-> runtime.providers]
  ELSE [version |-> installed.provider,
        table |-> IF installed.provider = 0 THEN runtime.providers
                  ELSE Append(runtime.providers, [id |-> id, version |-> installed.provider])]

CheckProvider ==
  /\ CallAt("session", "providers")
  /\ IF call.row > Len(Compatibility.providers)
     THEN Step("allocate") /\ UNCHANGED <<objects, resources, handles>>
     ELSE LET requirement == Compatibility.providers[call.row]
              found == ProviderVersion(Runtime, requirement.id)
          IN /\ objects' = [objects EXCEPT ![call.runtime].providers = found.table]
             /\ call' = IF Usable(found.version, requirement.range)
                        THEN [call EXCEPT !.row = @ + 1] ELSE Idle
             /\ UNCHANGED <<resources, handles>>

AllocateSession ==
  /\ CallAt("session", "allocate")
  /\ \E v \in VariantsFor(objects[call.model].file, Runtime.arch) :
       Allocate([kind |-> "session", runtime |-> call.runtime, model |-> call.model, variant |-> v,
                 profile |-> call.profile, cuda |-> FALSE, prepared |-> FALSE], "parse")

\* A v2 plan has one profile; a v1 plan selects one, the first by default.
PlanAccepts(v, profile) ==
  IF v.format = "v2"
  THEN profile \in {Default, 0} /\ ParseExecutablePlan(v.plan, v.arch, v.weights)
  ELSE v.parses /\ (profile = Default \/ profile < v.profiles)

ParsePlanOfSession ==
  /\ CallAt("session", "parse")
  /\ IF ~PlanAccepts(objects[call.owned].variant, call.profile) THEN Fail
     ELSE Step("return") /\ UNCHANGED <<objects, resources, handles>>

ReturnSession == CallAt("session", "return") /\ Return

-----------------------------------------------------------------------------
(* ai_session_prepare of a v1 session; ExecutableSession has the v2 one *)

PrepareSteps == <<"context", "module", "weights", "upload", "arena", "workspace", "functions">>
Held(v) == {"context", "module", "weights"} \cup v.regions

\* Prepared already, or refused because an earlier attempt failed: no change.
BeginPrepare(w) ==
  LET s == handles[w]
  IN /\ call = Idle /\ s # NULL
     /\ objects[s].variant.format = "v1" /\ ~objects[s].prepared /\ ~objects[s].cuda
     /\ call' = [op |-> "prepare", out |-> w, step |-> 1, owned |-> s]
     /\ UNCHANGED <<objects, resources, handles, installed>>

\* cuda is set as soon as the driver exists: from then on a failure is final.
PrepareStep ==
  /\ call.op = "prepare" /\ UNCHANGED <<handles, installed>>
  /\ LET resource == PrepareSteps[call.step]
         last == call.step = Len(PrepareSteps)
     IN /\ objects' = [objects EXCEPT ![call.owned].cuda = TRUE, ![call.owned].prepared = last]
        /\ resources' = resources \cup ({<<call.owned, resource>>} \cap
                          {<<call.owned, held>> : held \in Held(objects[call.owned].variant)})
        /\ IF last THEN call' = Idle ELSE Step(call.step + 1)

PrepareFails == call.op = "prepare" /\ call' = Idle /\ UNCHANGED <<objects, resources, handles, installed>>

-----------------------------------------------------------------------------
(* External: a package manager replaces the libraries a probe looks for *)

Upgrade ==
  /\ \E versions \in Upgrades : versions # installed /\ installed' = versions
  /\ UNCHANGED <<objects, resources, handles, call>>

ApiInit ==
  /\ objects = [o \in Objects |-> Free] /\ resources = {}
  /\ handles = [w \in Wrappers |-> NULL] /\ call = Idle
  /\ installed \in Upgrades

CallStep ==
  \/ AllocateRuntime \/ CopyProviderRow \/ ProbeCuda \/ ReturnRuntime
  \/ AllocateModel \/ OpenFile \/ MapFile \/ ValidateModel \/ ReturnModel
  \/ SelectVariant \/ CheckCudaRuntime \/ CheckProvider \/ AllocateSession
  \/ ParsePlanOfSession \/ ReturnSession
  \/ PrepareStep \/ PrepareFails \/ CallFails

BeginCall ==
  \/ \E w \in RuntimeWrappers, options \in RuntimeOptions : BeginRuntime(w, options)
  \/ \E w \in ModelWrappers, file \in Files : BeginLoad(w, file)
  \/ \E w \in SessionWrappers, r \in RuntimeWrappers, m \in ModelWrappers, profile \in Profiles :
        BeginSession(w, r, m, profile)
  \/ \E w \in SessionWrappers : BeginPrepare(w)
  \/ \E w \in Wrappers : Destroy(w)
  \/ \E to, from \in Wrappers : MoveAssign(to, from)

ApiNext == BeginCall \/ CallStep \/ Upgrade

ApiSpec == ApiInit /\ [][ApiNext]_apiVars

-----------------------------------------------------------------------------
(* Properties *)

\* Each object is held by one wrapper or by the call that is building it.
Holders(o) == {w \in Wrappers : handles[w] = o}
OwnedOnce ==
  /\ \A o \in Objects : objects[o] # Free =>
        \/ Cardinality(Holders(o)) = 1
        \/ Holders(o) = {} /\ call # Idle /\ call.owned = o
  /\ \A w \in Wrappers : handles[w] # NULL => objects[handles[w]] # Free

\* Descriptors, mappings and device memory belong to objects that will free them.
ResourcesOwned == \A r \in resources : objects[r[1]] # Free

\* A session's runtime and model live, and were compatible: exact variant, and
\* every version the model names is the one the runtime remembers and in range.
Admitted(s) ==
  LET runtime == objects[s.runtime]
      compat == objects[s.model].file.compat
  IN /\ runtime.kind = "runtime" /\ objects[s.model].kind = "model"
     /\ s.variant \in VariantsFor(objects[s.model].file, runtime.arch)
     /\ RangeContains(runtime.driver, compat.driver)
     /\ compat.cudart[1] # 0 => Usable(runtime.cudart, compat.cudart)
     /\ \A need \in ToSet(compat.providers) : Usable(KnownVersion(runtime, need.id), need.range)

\* Whatever call fails at whatever step: no object and no resource leaks or is
\* freed under a handle, and every session was admitted against facts its
\* runtime still holds.
SessionsSound ==
  /\ OwnedOnce
  /\ ResourcesOwned
  /\ \A s \in Sessions : Admitted(objects[s])
=============================================================================
