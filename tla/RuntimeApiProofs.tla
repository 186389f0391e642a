-------------------------- MODULE RuntimeApiProofs --------------------------
(***************************************************************************)
(* Whatever calls a caller makes and wherever they fail, every object and  *)
(* every resource of the runtime has one owner, and a session's runtime    *)
(* and model live and remember the versions the session was admitted with. *)
(*                                                                         *)
(* ApiInv says what a call in progress has built and checked so far.       *)
(***************************************************************************)
EXTENDS RuntimeApi, FiniteSetTheorems, TLAPS

Addresses == Objects \cup {NULL}

\* A runtime remembers no version that a probe did not find.
ProviderRows == Seq([id : Nat, version : Nat \ {0}])

RuntimeObject == [kind : {"runtime"}, arch : Nat, driver : Nat, cudart : Nat, providers : ProviderRows]

ModelObject == [kind : {"model"}, file : Files]

FileVariants == UNION {ToSet(f.variants) : f \in Files}

SessionObject ==
  [kind : {"session"}, runtime : Objects, model : Objects, variant : FileVariants,
   profile : Profiles, cuda : BOOLEAN, prepared : BOOLEAN]

RuntimeCall ==
  [op : {"runtime"}, out : RuntimeWrappers, step : {"check", "rows", "probe", "return"},
   owned : Addresses, options : RuntimeOptions, row : Nat \ {0}]

ModelCall ==
  [op : {"load"}, out : ModelWrappers, step : {"check", "open", "map", "validate", "return"},
   owned : Addresses, file : Files]

SessionCall ==
  [op : {"session"}, out : SessionWrappers,
   step : {"check", "cudart", "providers", "allocate", "parse", "return"},
   owned : Addresses, row : Nat \ {0}, runtime : Addresses, model : Addresses, profile : Profiles]

PrepareCall == [op : {"prepare"}, out : SessionWrappers, step : 1..7, owned : Objects]

ApiTypeOK ==
  /\ objects \in [Objects -> {Free} \cup RuntimeObject \cup ModelObject \cup SessionObject]
  /\ handles \in [Wrappers -> Addresses]
  /\ call \in {Idle} \cup RuntimeCall \cup ModelCall \cup SessionCall \cup PrepareCall
  /\ installed \in Upgrades
  /\ \A r \in resources : r[1] \in Objects /\ objects[r[1]] # Free

\* A wrapper holds an object of its kind that no other wrapper holds.
HandleInv ==
  /\ \A w \in Wrappers : handles[w] # NULL =>
       /\ w \in RuntimeWrappers => objects[handles[w]] \in RuntimeObject
       /\ w \in ModelWrappers => objects[handles[w]] \in ModelObject
       /\ w \in SessionWrappers => objects[handles[w]] \in SessionObject
  /\ \A w, v \in Wrappers : handles[w] = handles[v] /\ handles[w] # NULL => w = v

Building == call # Idle /\ call.op # "prepare" /\ call.owned # NULL

\* An object without a wrapper is being built by the call.
OwnerInv ==
  \A o \in Objects : objects[o] # Free =>
    \/ \E w \in Wrappers : handles[w] = o
    \/ Building /\ call.owned = o

\* What the call is building is of its kind, and nobody else knows it.
BuildInv ==
  /\ Building =>
       /\ call.op = "runtime" => objects[call.owned] \in RuntimeObject
       /\ call.op = "load" => objects[call.owned] \in ModelObject
       /\ call.op = "session" => objects[call.owned] \in SessionObject
       /\ \A w \in Wrappers : handles[w] # call.owned
       /\ ~InUse(call.owned)
  /\ call.op \in {"runtime", "load"} => /\ call.owned = NULL <=> call.step = "check"
                                        /\ MayGiveUp(call.out)
  /\ call.op = "session" =>
       (call.owned # NULL <=> call.step \in {"parse", "return"})
  /\ call.op = "prepare" => call.owned = handles[call.out]

Lent(o, S) == o # NULL => \E w \in S : handles[w] = o

\* A session that is being created borrows what wrappers hold, and what has
\* been checked of it still holds.
AdmissionInv ==
  call.op = "session" =>
    /\ Lent(call.runtime, RuntimeWrappers) /\ Lent(call.model, ModelWrappers)
    /\ call.step \in {"check", "cudart"} => call.row = 1
    /\ call.step \in {"cudart", "providers", "allocate"} =>
         /\ call.runtime # NULL /\ call.model # NULL
         /\ RangeContains(Runtime.driver, Compatibility.driver)
    /\ call.step \in {"providers", "allocate"} /\ Compatibility.cudart[1] # 0 =>
         Usable(Runtime.cudart, Compatibility.cudart)
    /\ call.step \in {"providers", "allocate"} =>
         \A k \in DOMAIN Compatibility.providers :
           k < call.row \/ call.step = "allocate" =>
             Usable(KnownVersion(Runtime, Compatibility.providers[k].id), Compatibility.providers[k].range)

\* Every session borrows live objects that still admit it.
SessionsInv ==
  \A s \in Sessions :
    /\ \E w \in RuntimeWrappers : handles[w] = objects[s].runtime
    /\ \E w \in ModelWrappers : handles[w] = objects[s].model
    /\ Admitted(objects[s])

ApiInv ==
  /\ ApiTypeOK
  /\ HandleInv
  /\ OwnerInv
  /\ BuildInv
  /\ AdmissionInv
  /\ SessionsInv

-----------------------------------------------------------------------------
(* Facts about objects and calls *)

\* The kind of an object tells what it is.
LEMMA KindsOfObjects ==
  ASSUME ApiTypeOK, NEW o \in Objects
  PROVE  /\ objects[o].kind = "session" <=> objects[o] \in SessionObject
         /\ objects[o].kind = "model" <=> objects[o] \in ModelObject
         /\ objects[o].kind = "runtime" <=> objects[o] \in RuntimeObject
         /\ objects[o] \in SessionObject => objects[o].runtime \in Objects /\ objects[o].model \in Objects
         /\ objects[o] \in RuntimeObject \cup ModelObject \cup SessionObject => objects[o] # Free
  <1>1. objects[o] \in {Free} \cup RuntimeObject \cup ModelObject \cup SessionObject
    BY DEF ApiTypeOK
  <1> QED
    BY <1>1 DEF Free, RuntimeObject, ModelObject, SessionObject

\* Sessions are the objects with the fields of a session.
LEMMA SessionsAreObjects ==
  ASSUME ApiTypeOK
  PROVE  Sessions = {o \in Objects : objects[o] \in SessionObject}
  BY KindsOfObjects DEF Sessions

\* What the objects decide.
LEMMA ObjectsDecide ==
  ASSUME UNCHANGED objects
  PROVE  /\ Sessions' = Sessions
         /\ \A o : InUse(o)' = InUse(o)
         /\ \A s : Admitted(s)' = Admitted(s)
  BY DEF Sessions, InUse, Admitted

\* An element of a sequence is an element of its set.
LEMMA SequenceElement ==
  ASSUME NEW S, NEW q \in Seq(S), NEW i \in 1..Len(q)
  PROVE  q[i] \in S
  OBVIOUS

\* The operation of a call tells its fields.
LEMMA CallsByOperation ==
  ASSUME ApiTypeOK
  PROVE  /\ call.op = "none" <=> call = Idle
         /\ call.op = "runtime" <=> call \in RuntimeCall
         /\ call.op = "load" <=> call \in ModelCall
         /\ call.op = "session" <=> call \in SessionCall
         /\ call.op = "prepare" <=> call \in PrepareCall
         /\ call = Idle \/ call.op \in {"runtime", "load", "session", "prepare"}
         /\ call # Idle => call.owned \in Addresses /\ call.out \in Wrappers
  <1>1. call \in {Idle} \cup RuntimeCall \cup ModelCall \cup SessionCall \cup PrepareCall
    BY DEF ApiTypeOK
  <1> QED
    BY <1>1 DEF Idle, RuntimeCall, ModelCall, SessionCall, PrepareCall, Addresses, Wrappers

\* A wrapper holds something that lives, and no call is building it.
LEMMA HandlesLive ==
  ASSUME ApiInv, NEW w \in Wrappers, handles[w] # NULL
  PROVE  handles[w] \in Objects /\ objects[handles[w]] # Free
  <1>1. handles[w] \in Objects
    BY DEF ApiInv, ApiTypeOK, Addresses
  <1>2. objects[handles[w]] \in RuntimeObject \cup ModelObject \cup SessionObject
    BY DEF ApiInv, HandleInv, Wrappers
  <1> QED
    BY <1>1, <1>2, KindsOfObjects DEF ApiInv

\* What a session wrapper holds is no runtime or model of another session.
LEMMA SessionsAreNotUsed ==
  ASSUME ApiInv, NEW w \in SessionWrappers, handles[w] # NULL
  PROVE  ~InUse(handles[w])
  <1> SUFFICES ASSUME NEW s \in Sessions, handles[w] \in {objects[s].runtime, objects[s].model}
               PROVE  FALSE
    BY DEF InUse
  <1>1. PICK v \in RuntimeWrappers \cup ModelWrappers : handles[v] = handles[w]
    BY DEF ApiInv, SessionsInv
  <1>2. v = w
    BY <1>1 DEF ApiInv, HandleInv, Wrappers
  <1> QED
    BY <1>1, <1>2, ApiAssumption

\* A session that uses neither of two objects is admitted whatever becomes of them.
LEMMA AdmittedKept ==
  ASSUME NEW s, Admitted(s), objects'[s.runtime] = objects[s.runtime],
         objects'[s.model] = objects[s.model]
  PROVE  Admitted(s)'
  BY DEF Admitted

\* Freeing an object that no session uses leaves the sessions as they are.
LEMMA SessionsSurvive ==
  ASSUME ApiInv, NEW o \in Objects, ~InUse(o), objects' = [objects EXCEPT ![o] = Free]
  PROVE  /\ objects' \in [Objects -> {Free} \cup RuntimeObject \cup ModelObject \cup SessionObject]
         /\ Sessions' = Sessions \ {o}
         /\ \A p \in Objects : p # o => objects'[p] = objects[p]
         /\ \A s \in Sessions' : /\ objects'[s] = objects[s]
                                 /\ objects[s].runtime \in Objects \ {o}
                                 /\ objects[s].model \in Objects \ {o}
                                 /\ Admitted(objects[s])'
  <1>1. objects \in [Objects -> {Free} \cup RuntimeObject \cup ModelObject \cup SessionObject]
    BY DEF ApiInv, ApiTypeOK
  <1>2. /\ objects' \in [Objects -> {Free} \cup RuntimeObject \cup ModelObject \cup SessionObject]
        /\ \A p \in Objects : p # o => objects'[p] = objects[p]
        /\ objects'[o] = Free
    BY <1>1
  <1>3. Sessions' = Sessions \ {o}
    BY <1>2 DEF Sessions, Free
  <1>4. ASSUME NEW s \in Sessions, s # o
        PROVE  /\ objects'[s] = objects[s]
               /\ objects[s].runtime \in Objects \ {o} /\ objects[s].model \in Objects \ {o}
               /\ Admitted(objects[s])'
    <2>1. s \in Objects /\ objects[s].runtime \in Objects /\ objects[s].model \in Objects
      BY KindsOfObjects DEF ApiInv, Sessions
    <2>2. objects[s].runtime # o /\ objects[s].model # o
      BY DEF InUse
    <2>3. Admitted(objects[s])
      BY DEF ApiInv, SessionsInv
    <2> QED
      BY <1>2, <1>4, <2>1, <2>2, <2>3, AdmittedKept
  <1> QED
    BY <1>2, <1>3, <1>4

-----------------------------------------------------------------------------
(* Calls that fail, return, or end what a wrapper holds *)

\* The constructor's initial state: nothing exists.
LEMMA InitApiInv == ApiInit => ApiInv
  <1> SUFFICES ASSUME ApiInit PROVE ApiInv
    OBVIOUS
  <1> USE DEF ApiInit
  <1>1. ApiTypeOK
    BY DEF ApiTypeOK, Addresses
  <1>2. HandleInv /\ OwnerInv /\ BuildInv /\ AdmissionInv
    BY ApiAssumption DEF HandleInv, OwnerInv, BuildInv, AdmissionInv, Building, Idle, Wrappers
  <1>3. SessionsInv
    BY DEF SessionsInv, Sessions, Free
  <1> QED
    BY <1>1, <1>2, <1>3 DEF ApiInv

\* A failing call frees what it built and nothing else.
LEMMA FailKeepsInv ==
  ASSUME ApiInv, call # Idle, call.op # "prepare", Fail, UNCHANGED installed
  PROVE  ApiInv'
  <1>1. call' = Idle /\ UNCHANGED <<handles, installed>> /\ Delete(call.owned)
    BY DEF Fail
  <1>2. BuildInv' /\ AdmissionInv' /\ ~Building'
    BY <1>1 DEF BuildInv, AdmissionInv, Building, Idle
  <1>3. CASE call.owned = NULL
    <2>1. UNCHANGED <<objects, resources>>
      BY <1>1, <1>3 DEF Delete
    <2>2. ApiTypeOK' /\ HandleInv'
      BY <1>1, <2>1 DEF ApiInv, ApiTypeOK, HandleInv
    <2>3. OwnerInv'
      BY <1>1, <1>3, <2>1 DEF ApiInv, OwnerInv, Building
    <2>4. SessionsInv'
      BY <1>1, <2>1, ObjectsDecide DEF ApiInv, SessionsInv
    <2> QED
      BY <1>2, <2>2, <2>3, <2>4 DEF ApiInv
  <1>4. CASE call.owned # NULL
    <2>1. /\ call.owned \in Objects
          /\ objects' = [objects EXCEPT ![call.owned] = Free]
          /\ resources' = {r \in resources : r[1] # call.owned}
      BY <1>1, <1>4, CallsByOperation DEF Delete, ApiInv, Addresses
    <2>2. ~InUse(call.owned) /\ \A w \in Wrappers : handles[w] # call.owned
      BY <1>4 DEF ApiInv, BuildInv, Building
    <2>3. /\ objects' \in [Objects -> {Free} \cup RuntimeObject \cup ModelObject \cup SessionObject]
          /\ \A p \in Objects : p # call.owned => objects'[p] = objects[p]
          /\ \A s \in Sessions' : s \in Sessions /\ objects'[s] = objects[s] /\ Admitted(objects[s])'
      BY <2>1, <2>2, SessionsSurvive
    <2>4. ApiTypeOK'
      BY <1>1, <2>1, <2>3 DEF ApiInv, ApiTypeOK
    <2>5. HandleInv'
      BY <1>1, <2>2, <2>3, HandlesLive DEF ApiInv, HandleInv
    <2>6. OwnerInv'
      BY <1>1, <2>1, <2>3 DEF ApiInv, ApiTypeOK, OwnerInv
    <2>7. SessionsInv'
      BY <1>1, <2>3 DEF ApiInv, SessionsInv
    <2> QED
      BY <1>2, <2>4, <2>5, <2>6, <2>7 DEF ApiInv
  <1> QED
    BY <1>3, <1>4

\* The wrapper of a call takes the new object and frees the one it had.
LEMMA ReturnKeepsInv ==
  ASSUME ApiInv, call # Idle, call.op # "prepare", call.step = "return", Return, UNCHANGED installed
  PROVE  ApiInv'
  <1> DEFINE old == handles[call.out]
             new == call.owned
  <1>1. /\ call' = Idle /\ UNCHANGED installed /\ Delete(old)
        /\ handles' = [handles EXCEPT ![call.out] = new]
    BY DEF Return
  <1>2. /\ call.out \in Wrappers /\ new \in Addresses
        /\ call.op = "runtime" => call.out \in RuntimeWrappers
        /\ call.op = "load" => call.out \in ModelWrappers
        /\ call.op = "session" => call.out \in SessionWrappers
        /\ call.op \in {"runtime", "load", "session"}
    BY CallsByOperation DEF ApiInv, RuntimeCall, ModelCall, SessionCall
  <1>3. new \in Objects /\ Building
    BY <1>2 DEF ApiInv, BuildInv, Building, Addresses
  <1>4. /\ ~InUse(new) /\ \A w \in Wrappers : handles[w] # new
        /\ call.out \in RuntimeWrappers => objects[new] \in RuntimeObject
        /\ call.out \in ModelWrappers => objects[new] \in ModelObject
        /\ call.out \in SessionWrappers => objects[new] \in SessionObject
    BY <1>2, <1>3, ApiAssumption DEF ApiInv, BuildInv
  <1>5. old # NULL => old \in Objects /\ ~InUse(old)
    BY <1>2, HandlesLive, SessionsAreNotUsed DEF ApiInv, BuildInv, MayGiveUp
  <1>6. BuildInv' /\ AdmissionInv'
    BY <1>1 DEF BuildInv, AdmissionInv, Building, Idle
  <1>7. /\ objects' \in [Objects -> {Free} \cup RuntimeObject \cup ModelObject \cup SessionObject]
        /\ \A p \in Objects : p # old => objects'[p] = objects[p]
        /\ old # NULL => objects'[old] = Free
        /\ \A s \in Sessions' : /\ s \in Sessions /\ objects'[s] = objects[s] /\ Admitted(objects[s])'
                                /\ objects[s].runtime \in Objects \ {old}
                                /\ objects[s].model \in Objects \ {old}
        /\ resources' = {r \in resources : r[1] # old}
    <2>1. CASE old = NULL
      <3>1. UNCHANGED <<objects, resources>>
        BY <1>1, <2>1 DEF Delete
      <3>2. resources = {r \in resources : r[1] # old}
        BY <2>1, ApiAssumption DEF ApiInv, ApiTypeOK
      <3>3. \A s \in Sessions : objects[s].runtime \in Objects \ {old} /\ objects[s].model \in Objects \ {old}
        BY <2>1, KindsOfObjects, ApiAssumption DEF ApiInv, Sessions
      <3> HIDE DEF old, new
      <3> QED
        BY <2>1, <3>1, <3>2, <3>3, ObjectsDecide DEF ApiInv, ApiTypeOK, SessionsInv
    <2>2. CASE old # NULL
      <3>1. objects' = [objects EXCEPT ![old] = Free] /\ resources' = {r \in resources : r[1] # old}
        BY <1>1, <2>2 DEF Delete
      <3> HIDE DEF old, new
      <3>2. objects'[old] = Free
        BY <1>5, <2>2, <3>1 DEF ApiInv, ApiTypeOK
      <3> QED
        BY <1>5, <2>2, <3>1, <3>2, SessionsSurvive
    <2> QED
      BY <2>1, <2>2
  <1>8. handles \in [Wrappers -> Addresses] /\ handles' \in [Wrappers -> Addresses]
    BY <1>1, <1>2 DEF ApiInv, ApiTypeOK
  <1>9. /\ handles'[call.out] = new
        /\ \A w \in Wrappers : w # call.out => handles'[w] = handles[w] /\ (handles[w] # NULL => handles[w] # old)
    BY <1>1, <1>2, <1>8 DEF ApiInv, HandleInv
  <1>10. objects'[new] = objects[new] /\ new # old
    BY <1>2, <1>3, <1>4, <1>7
  <1> HIDE DEF old, new
  <1>11. ApiTypeOK'
    <2>1. \A r \in resources' : r[1] \in Objects /\ objects'[r[1]] # Free
      BY <1>7 DEF ApiInv, ApiTypeOK
    <2>2. call' \in {Idle}
      BY <1>1
    <2> QED
      BY <1>1, <1>7, <1>8, <2>1, <2>2 DEF ApiInv, ApiTypeOK
  <1>12. HandleInv'
    <2>1. ASSUME NEW w \in Wrappers, handles'[w] # NULL
          PROVE  /\ w \in RuntimeWrappers => objects'[handles'[w]] \in RuntimeObject
                 /\ w \in ModelWrappers => objects'[handles'[w]] \in ModelObject
                 /\ w \in SessionWrappers => objects'[handles'[w]] \in SessionObject
      <3>1. CASE w = call.out
        BY <1>4, <1>9, <1>10, <3>1
      <3>2. CASE w # call.out
        <4>1. handles'[w] = handles[w] /\ handles[w] \in Objects /\ objects'[handles[w]] = objects[handles[w]]
          BY <1>7, <1>9, <2>1, <3>2, HandlesLive
        <4> QED
          BY <2>1, <4>1 DEF ApiInv, HandleInv
      <3> QED
        BY <3>1, <3>2
    <2>2. ASSUME NEW w \in Wrappers, NEW v \in Wrappers, handles'[w] = handles'[v], handles'[w] # NULL
          PROVE  w = v
      BY <1>4, <1>9, <2>2 DEF ApiInv, HandleInv, new
    <2> QED
      BY <2>1, <2>2 DEF HandleInv
  <1>13. OwnerInv'
    <2> SUFFICES ASSUME NEW o \in Objects, objects'[o] # Free
                 PROVE  \E w \in Wrappers : handles'[w] = o
      BY DEF OwnerInv
    <2>1. o # old
      BY <1>7, ApiAssumption
    <2>2. (\E w \in Wrappers : handles[w] = o) \/ o = new
      BY <1>7, <2>1 DEF ApiInv, OwnerInv, new
    <2> QED
      BY <1>2, <1>9, <2>1, <2>2 DEF old
  <1>14. SessionsInv'
    <2> SUFFICES ASSUME NEW s \in Sessions'
                 PROVE  /\ \E w \in RuntimeWrappers : handles'[w] = objects[s].runtime
                        /\ \E w \in ModelWrappers : handles'[w] = objects[s].model
      BY <1>7 DEF SessionsInv
    <2>1. PICK w \in RuntimeWrappers, v \in ModelWrappers :
            handles[w] = objects[s].runtime /\ handles[v] = objects[s].model
      BY <1>7 DEF ApiInv, SessionsInv
    <2>2. w # call.out /\ v # call.out
      BY <1>7, <2>1 DEF old
    <2> QED
      BY <1>9, <2>1, <2>2 DEF Wrappers
  <1> QED
    BY <1>6, <1>11, <1>12, <1>13, <1>14 DEF ApiInv

\* Destroying a wrapper frees what it held.
LEMMA DestroyKeepsInv ==
  ASSUME ApiInv, NEW w \in Wrappers, Destroy(w)
  PROVE  ApiInv'
  <1> DEFINE old == handles[w]
  <1>1. /\ call = Idle /\ UNCHANGED <<call, installed>> /\ Delete(old) /\ old # NULL
        /\ handles' = [handles EXCEPT ![w] = NULL] /\ ~InUse(old)
    BY DEF Destroy, MayGiveUp
  <1>2. old \in Objects
    BY <1>1, HandlesLive
  <1>3. objects' = [objects EXCEPT ![old] = Free] /\ resources' = {r \in resources : r[1] # old}
    BY <1>1 DEF Delete
  <1>4. /\ handles \in [Wrappers -> Addresses]
        /\ \A v \in Wrappers : v # w => handles'[v] = handles[v] /\ (handles[v] # NULL => handles[v] # old)
        /\ handles'[w] = NULL /\ handles' \in [Wrappers -> Addresses]
    BY <1>1 DEF ApiInv, ApiTypeOK, HandleInv, Addresses
  <1> HIDE DEF old
  <1>5. /\ objects' \in [Objects -> {Free} \cup RuntimeObject \cup ModelObject \cup SessionObject]
        /\ \A p \in Objects : p # old => objects'[p] = objects[p]
        /\ objects'[old] = Free
        /\ \A s \in Sessions' : /\ s \in Sessions /\ objects'[s] = objects[s] /\ Admitted(objects[s])'
                                /\ objects[s].runtime # old /\ objects[s].model # old
    <2>1. objects'[old] = Free
      BY <1>2, <1>3 DEF ApiInv, ApiTypeOK
    <2>2. ~InUse(old) /\ objects' = [objects EXCEPT ![old] = Free]
      BY <1>1, <1>3
    <2> QED
      BY <1>2, <2>1, <2>2, SessionsSurvive
  <1>6. BuildInv' /\ AdmissionInv' /\ ~Building /\ ~Building'
    BY <1>1 DEF BuildInv, AdmissionInv, Building, Idle
  <1>7. ApiTypeOK'
    BY <1>1, <1>3, <1>4, <1>5 DEF ApiInv, ApiTypeOK
  <1>8. HandleInv'
    <2>1. ASSUME NEW v \in Wrappers, handles'[v] # NULL
          PROVE  /\ v # w /\ handles'[v] = handles[v]
                 /\ objects'[handles[v]] = objects[handles[v]]
      BY <1>4, <1>5, <2>1, HandlesLive
    <2> QED
      BY <2>1 DEF ApiInv, HandleInv
  <1>9. OwnerInv'
    <2> SUFFICES ASSUME NEW o \in Objects, objects'[o] # Free
                 PROVE  \E v \in Wrappers : handles'[v] = o
      BY DEF OwnerInv
    <2>1. o # old
      BY <1>5
    <2>2. PICK v \in Wrappers : handles[v] = o
      BY <1>5, <1>6, <2>1 DEF ApiInv, OwnerInv
    <2> QED
      BY <1>4, <2>1, <2>2 DEF old
  <1>10. SessionsInv'
    <2> SUFFICES ASSUME NEW s \in Sessions'
                 PROVE  /\ \E v \in RuntimeWrappers : handles'[v] = objects[s].runtime
                        /\ \E v \in ModelWrappers : handles'[v] = objects[s].model
      BY <1>5 DEF SessionsInv
    <2>1. PICK v \in RuntimeWrappers, u \in ModelWrappers :
            handles[v] = objects[s].runtime /\ handles[u] = objects[s].model
      BY <1>5 DEF ApiInv, SessionsInv
    <2>2. v # w /\ u # w
      BY <1>5, <2>1 DEF old
    <2> QED
      BY <1>4, <2>1, <2>2 DEF Wrappers
  <1> QED
    BY <1>6, <1>7, <1>8, <1>9, <1>10 DEF ApiInv

\* A move destroys the target's object and takes the source's.
LEMMA MoveKeepsInv ==
  ASSUME ApiInv, NEW to \in Wrappers, NEW from \in Wrappers, MoveAssign(to, from)
  PROVE  ApiInv'
  <1> DEFINE old == handles[to]
             new == handles[from]
  <1>1. /\ call = Idle /\ UNCHANGED <<call, installed>> /\ Delete(old) /\ new # NULL /\ to # from
        /\ handles' = [handles EXCEPT ![to] = new, ![from] = NULL]
        /\ old # NULL => ~InUse(old)
        /\ SameKind(to, from)
    BY DEF MoveAssign, MayGiveUp
  <1>2. new \in Objects /\ (old # NULL => old \in Objects) /\ old # new
    BY <1>1, HandlesLive DEF ApiInv, HandleInv
  <1>3. /\ to \in RuntimeWrappers <=> from \in RuntimeWrappers
        /\ to \in ModelWrappers <=> from \in ModelWrappers
        /\ to \in SessionWrappers <=> from \in SessionWrappers
    BY <1>1, ApiAssumption DEF SameKind
  <1>4. /\ handles \in [Wrappers -> Addresses] /\ handles' \in [Wrappers -> Addresses]
        /\ handles'[to] = new /\ handles'[from] = NULL
        /\ \A v \in Wrappers : v # to /\ v # from =>
              handles'[v] = handles[v] /\ (handles[v] # NULL => handles[v] # old /\ handles[v] # new)
    BY <1>1 DEF ApiInv, ApiTypeOK, HandleInv, Addresses
  <1>5. /\ objects' \in [Objects -> {Free} \cup RuntimeObject \cup ModelObject \cup SessionObject]
        /\ \A p \in Objects : p # old => objects'[p] = objects[p]
        /\ old # NULL => objects'[old] = Free
        /\ \A s \in Sessions' : /\ s \in Sessions /\ objects'[s] = objects[s] /\ Admitted(objects[s])'
                                /\ objects[s].runtime \in Objects \ {old}
                                /\ objects[s].model \in Objects \ {old}
        /\ resources' = {r \in resources : r[1] # old}
    <2>1. CASE old = NULL
      <3>1. UNCHANGED <<objects, resources>>
        BY <1>1, <2>1 DEF Delete
      <3>2. resources = {r \in resources : r[1] # old}
        BY <2>1, ApiAssumption DEF ApiInv, ApiTypeOK
      <3>3. \A s \in Sessions : objects[s].runtime \in Objects \ {old} /\ objects[s].model \in Objects \ {old}
        BY <2>1, KindsOfObjects, ApiAssumption DEF ApiInv, Sessions
      <3> HIDE DEF old, new
      <3> QED
        BY <2>1, <3>1, <3>2, <3>3, ObjectsDecide DEF ApiInv, ApiTypeOK, SessionsInv
    <2>2. CASE old # NULL
      <3>1. objects' = [objects EXCEPT ![old] = Free] /\ resources' = {r \in resources : r[1] # old}
        BY <1>1, <2>2 DEF Delete
      <3> HIDE DEF old, new
      <3>2. objects'[old] = Free
        BY <1>2, <2>2, <3>1 DEF ApiInv, ApiTypeOK
      <3> QED
        BY <1>1, <1>2, <2>2, <3>1, <3>2, SessionsSurvive
    <2> QED
      BY <2>1, <2>2
  <1> HIDE DEF old, new
  <1>6. BuildInv' /\ AdmissionInv' /\ ~Building /\ ~Building'
    BY <1>1 DEF BuildInv, AdmissionInv, Building, Idle
  <1>7. ApiTypeOK'
    <2>1. \A r \in resources' : r[1] \in Objects /\ objects'[r[1]] # Free
      BY <1>5 DEF ApiInv, ApiTypeOK
    <2> QED
      BY <1>1, <1>4, <1>5, <2>1 DEF ApiInv, ApiTypeOK
  <1>8. HandleInv'
    <2>1. ASSUME NEW v \in Wrappers, handles'[v] # NULL
          PROVE  /\ v \in RuntimeWrappers => objects'[handles'[v]] \in RuntimeObject
                 /\ v \in ModelWrappers => objects'[handles'[v]] \in ModelObject
                 /\ v \in SessionWrappers => objects'[handles'[v]] \in SessionObject
      <3>1. CASE v = to
        <4>1. objects'[handles'[v]] = objects[handles[from]]
          BY <1>2, <1>4, <1>5, <3>1 DEF new
        <4> QED
          BY <1>1, <1>3, <3>1, <4>1 DEF ApiInv, HandleInv, new
      <3>2. CASE v # to
        <4>1. handles'[v] = handles[v] /\ objects'[handles[v]] = objects[handles[v]]
          BY <1>4, <1>5, <2>1, <3>2, HandlesLive
        <4> QED
          BY <2>1, <4>1 DEF ApiInv, HandleInv
      <3> QED
        BY <3>1, <3>2
    <2>2. \A v, u \in Wrappers : handles'[v] = handles'[u] /\ handles'[v] # NULL => v = u
      BY <1>4 DEF ApiInv, HandleInv
    <2> QED
      BY <2>1, <2>2 DEF HandleInv
  <1>9. OwnerInv'
    <2> SUFFICES ASSUME NEW o \in Objects, objects'[o] # Free
                 PROVE  \E v \in Wrappers : handles'[v] = o
      BY DEF OwnerInv
    <2>1. o # old
      BY <1>5, ApiAssumption
    <2>2. PICK v \in Wrappers : handles[v] = o
      BY <1>5, <1>6, <2>1 DEF ApiInv, OwnerInv
    <2>3. CASE v = from
      BY <1>4, <2>2, <2>3 DEF new
    <2>4. CASE v # from
      BY <1>4, <2>1, <2>2, <2>4 DEF old
    <2> QED
      BY <2>3, <2>4
  <1>10. SessionsInv'
    <2> SUFFICES ASSUME NEW s \in Sessions'
                 PROVE  /\ \E v \in RuntimeWrappers : handles'[v] = objects[s].runtime
                        /\ \E v \in ModelWrappers : handles'[v] = objects[s].model
      BY <1>5 DEF SessionsInv
    <2>1. PICK v \in RuntimeWrappers, u \in ModelWrappers :
            handles[v] = objects[s].runtime /\ handles[u] = objects[s].model
      BY <1>5 DEF ApiInv, SessionsInv
    <2>2. v # to /\ u # to
      BY <1>5, <2>1 DEF old
    <2>3. \E a \in RuntimeWrappers : handles'[a] = objects[s].runtime
      <3>1. CASE v = from
        BY <1>3, <1>4, <2>1, <3>1 DEF new
      <3>2. CASE v # from
        BY <1>4, <2>1, <2>2, <3>2 DEF Wrappers
      <3> QED
        BY <3>1, <3>2
    <2>4. \E a \in ModelWrappers : handles'[a] = objects[s].model
      <3>1. CASE u = from
        BY <1>3, <1>4, <2>1, <3>1 DEF new
      <3>2. CASE u # from
        BY <1>4, <2>1, <2>2, <3>2 DEF Wrappers
      <3> QED
        BY <3>1, <3>2
    <2> QED
      BY <2>3, <2>4
  <1> QED
    BY <1>6, <1>7, <1>8, <1>9, <1>10 DEF ApiInv

-----------------------------------------------------------------------------
(* Calls that begin, and steps that change no object *)

\* What holds of objects and handles keeps holding while neither changes and
\* the call goes on building what it was building.
LEMMA StillSteps ==
  ASSUME ApiInv, UNCHANGED <<objects, handles, installed>>,
         call' \in {Idle} \cup RuntimeCall \cup ModelCall \cup SessionCall \cup PrepareCall,
         Building => Building' /\ call'.owned = call.owned,
         \A r \in resources' : r[1] \in Objects /\ objects[r[1]] # Free,
         BuildInv', AdmissionInv'
  PROVE  ApiInv'
  <1>1. ApiTypeOK'
    BY DEF ApiInv, ApiTypeOK
  <1>2. HandleInv'
    BY DEF ApiInv, HandleInv
  <1>3. OwnerInv'
    BY DEF ApiInv, OwnerInv
  <1>4. SessionsInv'
    BY ObjectsDecide DEF ApiInv, SessionsInv
  <1> QED
    BY <1>1, <1>2, <1>3, <1>4 DEF ApiInv

\* A call begins with nothing built.
LEMMA BeginKeepsInv ==
  ASSUME ApiInv,
         \/ \E w \in RuntimeWrappers, options \in RuntimeOptions : BeginRuntime(w, options)
         \/ \E w \in ModelWrappers, file \in Files : BeginLoad(w, file)
         \/ \E w \in SessionWrappers, r \in RuntimeWrappers, m \in ModelWrappers, profile \in Profiles :
               BeginSession(w, r, m, profile)
         \/ \E w \in SessionWrappers : BeginPrepare(w)
  PROVE  ApiInv'
  <1>1. handles \in [Wrappers -> Addresses] /\ \A r \in resources : r[1] \in Objects /\ objects[r[1]] # Free
    BY DEF ApiInv, ApiTypeOK
  <1>2. ASSUME NEW w \in RuntimeWrappers, NEW options \in RuntimeOptions, BeginRuntime(w, options)
        PROVE  ApiInv'
    <2>1. /\ call = Idle /\ MayGiveUp(w) /\ UNCHANGED <<objects, resources, handles, installed>>
          /\ call' = [op |-> "runtime", out |-> w, step |-> "check", owned |-> NULL, options |-> options, row |-> 1]
      BY <1>2 DEF BeginRuntime
    <2>2. call' \in RuntimeCall /\ ~Building /\ ~Building'
      BY <2>1 DEF RuntimeCall, Addresses, Building
    <2>3. MayGiveUp(w)'
      BY <2>1, ObjectsDecide DEF MayGiveUp
    <2>4. BuildInv' /\ AdmissionInv'
      BY <2>1, <2>2, <2>3 DEF BuildInv, AdmissionInv
    <2> QED
      BY <1>1, <2>1, <2>2, <2>4, StillSteps
  <1>3. ASSUME NEW w \in ModelWrappers, NEW file \in Files, BeginLoad(w, file)
        PROVE  ApiInv'
    <2>1. /\ call = Idle /\ MayGiveUp(w) /\ UNCHANGED <<objects, resources, handles, installed>>
          /\ call' = [op |-> "load", out |-> w, step |-> "check", owned |-> NULL, file |-> file]
      BY <1>3 DEF BeginLoad
    <2>2. call' \in ModelCall /\ ~Building /\ ~Building'
      BY <2>1 DEF ModelCall, Addresses, Building
    <2>3. MayGiveUp(w)'
      BY <2>1, ObjectsDecide DEF MayGiveUp
    <2>4. BuildInv' /\ AdmissionInv'
      BY <2>1, <2>2, <2>3 DEF BuildInv, AdmissionInv
    <2> QED
      BY <1>1, <2>1, <2>2, <2>4, StillSteps
  <1>4. ASSUME NEW w \in SessionWrappers, NEW r \in RuntimeWrappers, NEW m \in ModelWrappers,
               NEW profile \in Profiles, BeginSession(w, r, m, profile)
        PROVE  ApiInv'
    <2>1. /\ call = Idle /\ UNCHANGED <<objects, resources, handles, installed>>
          /\ call' = [op |-> "session", out |-> w, step |-> "check", owned |-> NULL, row |-> 1,
                      runtime |-> handles[r], model |-> handles[m], profile |-> profile]
      BY <1>4 DEF BeginSession
    <2>2. call' \in SessionCall /\ ~Building /\ ~Building'
      BY <1>1, <2>1 DEF SessionCall, Addresses, Building, Wrappers
    <2>3. BuildInv' /\ AdmissionInv'
      BY <2>1, <2>2 DEF BuildInv, AdmissionInv, Lent
    <2> QED
      BY <1>1, <2>1, <2>2, <2>3, StillSteps
  <1>5. ASSUME NEW w \in SessionWrappers, BeginPrepare(w)
        PROVE  ApiInv'
    <2>1. /\ call = Idle /\ UNCHANGED <<objects, resources, handles, installed>> /\ handles[w] # NULL
          /\ call' = [op |-> "prepare", out |-> w, step |-> 1, owned |-> handles[w]]
      BY <1>5 DEF BeginPrepare
    <2>2. call' \in PrepareCall /\ ~Building /\ ~Building'
      BY <1>1, <2>1 DEF PrepareCall, Addresses, Building, Wrappers
    <2>3. BuildInv' /\ AdmissionInv'
      BY <2>1, <2>2 DEF BuildInv, AdmissionInv
    <2> QED
      BY <1>1, <2>1, <2>2, <2>3, StillSteps
  <1> QED
    BY <1>2, <1>3, <1>4, <1>5

\* The next step of a runtime or a model being built.
LEMMA NextStepKeepsInv ==
  ASSUME ApiInv, UNCHANGED <<objects, handles, installed>>, NEW next,
         \/ call.op = "runtime" /\ call.step # "check" /\ next \in {"probe", "return"}
         \/ call.op = "load" /\ call.step # "check" /\ next \in {"map", "validate", "return"},
         Step(next),
         \A r \in resources' : r[1] \in Objects /\ objects[r[1]] # Free
  PROVE  ApiInv'
  <1>1. call \in RuntimeCall \cup ModelCall /\ call' = [call EXCEPT !.step = next]
    BY CallsByOperation DEF ApiInv, Step
  <1>2. /\ call' \in RuntimeCall \cup ModelCall
        /\ call'.op = call.op /\ call'.owned = call.owned /\ call'.out = call.out /\ call'.step = next
    BY <1>1 DEF RuntimeCall, ModelCall
  <1>3. Building <=> Building'
    BY <1>1, <1>2 DEF Building, RuntimeCall, ModelCall, Idle
  <1>4. MayGiveUp(call.out) => MayGiveUp(call.out)'
    BY <1>2, ObjectsDecide DEF MayGiveUp
  <1>5. BuildInv'
    BY <1>1, <1>2, <1>3, <1>4, ObjectsDecide DEF ApiInv, BuildInv, RuntimeCall, ModelCall
  <1>6. AdmissionInv'
    BY <1>1, <1>2 DEF AdmissionInv, RuntimeCall, ModelCall
  <1> QED
    BY <1>2, <1>3, <1>5, <1>6, StillSteps
-----------------------------------------------------------------------------
(* Steps that change one object *)

\* Two versions of one object: a runtime that learns something, or a session
\* that keeps what it was created with.
SameObject(old, new) ==
  \/ old \in RuntimeObject /\ new \in RuntimeObject
  \/ /\ old \in SessionObject /\ new \in SessionObject
     /\ new.runtime = old.runtime /\ new.model = old.model /\ new.variant = old.variant

\* A changed object leaves the others, the sessions and what they use alone.
LEMMA ChangedObject ==
  ASSUME ApiInv, NEW o \in Objects, NEW object, SameObject(objects[o], object),
         objects' = [objects EXCEPT ![o] = object]
  PROVE  /\ objects' \in [Objects -> {Free} \cup RuntimeObject \cup ModelObject \cup SessionObject]
         /\ objects'[o] = object /\ object # Free /\ objects[o] # Free
         /\ \A p \in Objects : p # o => objects'[p] = objects[p]
         /\ Sessions' = Sessions
         /\ \A s \in Sessions : /\ objects'[s].runtime = objects[s].runtime
                                /\ objects'[s].model = objects[s].model
                                /\ objects'[s].variant = objects[s].variant
         /\ \A p : InUse(p)' = InUse(p)
         /\ \A w \in Wrappers : MayGiveUp(w) /\ UNCHANGED handles => MayGiveUp(w)'
  <1>1. objects \in [Objects -> {Free} \cup RuntimeObject \cup ModelObject \cup SessionObject]
    BY DEF ApiInv, ApiTypeOK
  <1>2. /\ object \in RuntimeObject \cup SessionObject
        /\ object.kind = objects[o].kind /\ object # Free /\ objects[o] # Free
    BY DEF SameObject, RuntimeObject, SessionObject, Free
  <1>3. /\ objects' \in [Objects -> {Free} \cup RuntimeObject \cup ModelObject \cup SessionObject]
        /\ objects'[o] = object
        /\ \A p \in Objects : p # o => objects'[p] = objects[p]
    BY <1>1, <1>2
  <1>4. Sessions' = Sessions
    BY <1>2, <1>3 DEF Sessions
  <1>5. \A s \in Sessions : /\ objects'[s].runtime = objects[s].runtime
                            /\ objects'[s].model = objects[s].model
                            /\ objects'[s].variant = objects[s].variant
    <2> SUFFICES ASSUME NEW s \in Sessions
                 PROVE  /\ objects'[s].runtime = objects[s].runtime
                        /\ objects'[s].model = objects[s].model
                        /\ objects'[s].variant = objects[s].variant
      OBVIOUS
    <2>1. CASE s = o
      BY <1>3, <2>1 DEF SameObject, Sessions, RuntimeObject
    <2>2. CASE s # o
      BY <1>3, <2>2 DEF Sessions
    <2> QED
      BY <2>1, <2>2
  <1>6. \A p : InUse(p)' = InUse(p)
    BY <1>4, <1>5 DEF InUse
  <1>7. ASSUME NEW w \in Wrappers, MayGiveUp(w), UNCHANGED handles
        PROVE  MayGiveUp(w)'
    BY <1>6, <1>7 DEF MayGiveUp
  <1> QED
    BY <1>2, <1>3, <1>4, <1>5, <1>6, <1>7

\* The change keeps the invariant if the sessions of a runtime stay admitted.
LEMMA ChangeKeepsInv ==
  ASSUME ApiInv, NEW o \in Objects, NEW object, SameObject(objects[o], object),
         objects' = [objects EXCEPT ![o] = object], UNCHANGED <<handles, installed>>,
         \A s \in Sessions : objects[s].runtime = o => Admitted(objects[s])',
         \A r \in resources' : r[1] \in Objects /\ objects[r[1]] # Free,
         call' \in {Idle} \cup RuntimeCall \cup ModelCall \cup SessionCall \cup PrepareCall,
         Building => Building' /\ call'.owned = call.owned,
         BuildInv', AdmissionInv'
  PROVE  ApiInv'
  <1>1. /\ objects' \in [Objects -> {Free} \cup RuntimeObject \cup ModelObject \cup SessionObject]
        /\ objects'[o] = object /\ object # Free /\ objects[o] # Free
        /\ \A p \in Objects : p # o => objects'[p] = objects[p]
        /\ Sessions' = Sessions
        /\ \A s \in Sessions : /\ objects'[s].runtime = objects[s].runtime
                               /\ objects'[s].model = objects[s].model
                               /\ objects'[s].variant = objects[s].variant
    BY ChangedObject
  <1>2. ApiTypeOK'
    BY <1>1 DEF ApiInv, ApiTypeOK
  <1>3. HandleInv'
    <2>1. ASSUME NEW w \in Wrappers, handles[w] # NULL
          PROVE  /\ w \in RuntimeWrappers => objects'[handles[w]] \in RuntimeObject
                 /\ w \in ModelWrappers => objects'[handles[w]] \in ModelObject
                 /\ w \in SessionWrappers => objects'[handles[w]] \in SessionObject
      <3>1. CASE handles[w] = o
        BY <1>1, <2>1, <3>1
           DEF ApiInv, HandleInv, SameObject, RuntimeObject, ModelObject, SessionObject
      <3>2. CASE handles[w] # o
        BY <1>1, <2>1, <3>2, HandlesLive DEF ApiInv, HandleInv
      <3> QED
        BY <3>1, <3>2
    <2>2. \A w, v \in Wrappers : handles[w] = handles[v] /\ handles[w] # NULL => w = v
      BY DEF ApiInv, HandleInv
    <2> QED
      BY <2>1, <2>2 DEF HandleInv
  <1>4. OwnerInv'
    <2> SUFFICES ASSUME NEW p \in Objects, objects'[p] # Free
                 PROVE  (\E w \in Wrappers : handles[w] = p) \/ (Building' /\ call'.owned = p)
      BY DEF OwnerInv
    <2>1. objects[p] # Free
      BY <1>1
    <2> QED
      BY <2>1 DEF ApiInv, OwnerInv
  <1>5. SessionsInv'
    <2> SUFFICES ASSUME NEW s \in Sessions
                 PROVE  /\ \E w \in RuntimeWrappers : handles[w] = objects'[s].runtime
                        /\ \E w \in ModelWrappers : handles[w] = objects'[s].model
                        /\ Admitted(objects[s])'
      BY <1>1 DEF SessionsInv
    <2>1. /\ \E w \in RuntimeWrappers : handles[w] = objects[s].runtime
          /\ \E w \in ModelWrappers : handles[w] = objects[s].model
          /\ Admitted(objects[s])
      BY DEF ApiInv, SessionsInv
    <2>2. Admitted(objects[s])'
      <3>1. CASE objects[s].runtime = o
        BY <3>1
      <3>2. CASE objects[s].runtime # o
        <4>1. objects[s].model # o
          <5>1. objects[objects[s].model].kind = "model"
            BY <2>1 DEF Admitted
          <5> QED
            BY <5>1 DEF SameObject, RuntimeObject, SessionObject
        <4>2. objects[s].runtime \in Objects /\ objects[s].model \in Objects
          BY KindsOfObjects DEF ApiInv, Sessions
        <4>3. /\ objects'[objects'[s].runtime] = objects[objects[s].runtime]
              /\ objects'[objects'[s].model] = objects[objects[s].model]
              /\ objects'[s].variant = objects[s].variant
          BY <1>1, <3>2, <4>1, <4>2
        <4> QED
          BY <2>1, <4>3 DEF Admitted
      <3> QED
        BY <3>1, <3>2
    <2> QED
      BY <1>1, <2>1, <2>2
  <1> QED
    BY <1>2, <1>3, <1>4, <1>5 DEF ApiInv
-----------------------------------------------------------------------------
(* Steps that allocate *)

\* A new object is at an address that nobody knows.
LEMMA FreshObject ==
  ASSUME ApiInv, ~Building, call # Idle, call.op # "prepare",
         NEW object \in RuntimeObject \cup ModelObject \cup SessionObject, NEW next, Allocate(object, next)
  PROVE  /\ FreeAddress \in Objects /\ objects[FreeAddress] = Free
         /\ call' = [call EXCEPT !.owned = FreeAddress, !.step = next]
         /\ objects' \in [Objects -> {Free} \cup RuntimeObject \cup ModelObject \cup SessionObject]
         /\ objects'[FreeAddress] = object /\ object # Free
         /\ \A p \in Objects : p # FreeAddress => objects'[p] = objects[p]
         /\ \A w \in Wrappers : handles[w] # FreeAddress
         /\ \A s \in Sessions : /\ s # FreeAddress
                                /\ objects[s].runtime \in Objects \ {FreeAddress}
                                /\ objects[s].model \in Objects \ {FreeAddress}
         /\ ~InUse(FreeAddress)
         /\ UNCHANGED <<resources, handles>>
  <1>1. FreeAddress \in Objects /\ objects[FreeAddress] = Free
    BY DEF Allocate, FreeAddress
  <1>2. /\ objects' = [objects EXCEPT ![FreeAddress] = object]
        /\ call' = [call EXCEPT !.owned = FreeAddress, !.step = next]
        /\ UNCHANGED <<resources, handles>>
    BY DEF Allocate
  <1> HIDE DEF FreeAddress
  <1>3. object # Free
    BY DEF RuntimeObject, ModelObject, SessionObject, Free
  <1>4. objects \in [Objects -> {Free} \cup RuntimeObject \cup ModelObject \cup SessionObject]
    BY DEF ApiInv, ApiTypeOK
  <1>5. /\ objects' \in [Objects -> {Free} \cup RuntimeObject \cup ModelObject \cup SessionObject]
        /\ objects'[FreeAddress] = object
        /\ \A p \in Objects : p # FreeAddress => objects'[p] = objects[p]
    BY <1>1, <1>2, <1>4
  <1>6. \A w \in Wrappers : handles[w] # FreeAddress
    BY <1>1, HandlesLive, ApiAssumption
  <1>7. ASSUME NEW s \in Sessions
        PROVE  /\ s # FreeAddress
               /\ objects[s].runtime \in Objects \ {FreeAddress}
               /\ objects[s].model \in Objects \ {FreeAddress}
    <2>1. objects[s].runtime \in Objects /\ objects[s].model \in Objects
      BY KindsOfObjects DEF ApiInv, Sessions
    <2>2. (\E w \in Wrappers : handles[w] = objects[s].runtime)
          /\ \E w \in Wrappers : handles[w] = objects[s].model
      BY DEF ApiInv, SessionsInv, Wrappers
    <2>3. s # FreeAddress
      BY <1>1 DEF Sessions, Free
    <2> QED
      BY <1>6, <2>1, <2>2, <2>3
  <1>8. ~InUse(FreeAddress)
    BY <1>7 DEF InUse
  <1> QED
    BY <1>1, <1>2, <1>3, <1>5, <1>6, <1>7, <1>8

\* The call that builds the new object is all that changed for the others.
LEMMA AllocateKeepsInv ==
  ASSUME ApiInv, ~Building, call # Idle, call.op # "prepare", UNCHANGED installed,
         NEW object \in RuntimeObject \cup ModelObject \cup SessionObject, NEW next, Allocate(object, next),
         call' \in RuntimeCall \cup ModelCall \cup SessionCall,
         object \in SessionObject =>
           /\ \E w \in RuntimeWrappers : handles[w] = object.runtime
           /\ \E w \in ModelWrappers : handles[w] = object.model
           /\ Admitted(object),
         BuildInv', AdmissionInv'
  PROVE  ApiInv'
  <1>1. /\ FreeAddress \in Objects /\ objects[FreeAddress] = Free
        /\ call' = [call EXCEPT !.owned = FreeAddress, !.step = next]
        /\ objects' \in [Objects -> {Free} \cup RuntimeObject \cup ModelObject \cup SessionObject]
        /\ objects'[FreeAddress] = object /\ object # Free
        /\ \A p \in Objects : p # FreeAddress => objects'[p] = objects[p]
        /\ \A w \in Wrappers : handles[w] # FreeAddress
        /\ \A s \in Sessions : /\ s # FreeAddress
                               /\ objects[s].runtime \in Objects \ {FreeAddress}
                               /\ objects[s].model \in Objects \ {FreeAddress}
        /\ UNCHANGED <<resources, handles>>
    BY FreshObject
  <1> HIDE DEF FreeAddress
  <1>2. ApiTypeOK'
    BY <1>1 DEF ApiInv, ApiTypeOK
  <1>3. HandleInv'
    <2>1. \A w \in Wrappers : handles[w] # NULL => objects'[handles[w]] = objects[handles[w]]
      BY <1>1, HandlesLive
    <2> QED
      BY <1>1, <2>1 DEF ApiInv, HandleInv, Wrappers
  <1>4. OwnerInv'
    <2>1. call'.owned = FreeAddress /\ Building'
      <3>1. call.op \in {"runtime", "load", "session"} /\ call \in RuntimeCall \cup ModelCall \cup SessionCall
        BY CallsByOperation DEF ApiInv
      <3>2. call'.owned = FreeAddress /\ call'.op = call.op
        BY <1>1, <3>1 DEF RuntimeCall, ModelCall, SessionCall
      <3> QED
        BY <1>1, <3>1, <3>2, ApiAssumption DEF Building, Idle
    <2> QED
      BY <1>1, <2>1 DEF ApiInv, OwnerInv
  <1>5. SessionsInv'
    <2> SUFFICES ASSUME NEW s \in Sessions'
                 PROVE  /\ \E w \in RuntimeWrappers : handles[w] = objects'[s].runtime
                        /\ \E w \in ModelWrappers : handles[w] = objects'[s].model
                        /\ Admitted(objects[s])'
      BY <1>1 DEF SessionsInv
    <2>1. CASE s = FreeAddress
      <3>1. object \in SessionObject
        BY <1>1, <2>1 DEF Sessions, RuntimeObject, ModelObject
      <3>2. objects'[object.runtime] = objects[object.runtime] /\ objects'[object.model] = objects[object.model]
        <4>1. object.runtime \in Objects /\ object.model \in Objects
          BY <3>1 DEF SessionObject
        <4>2. object.runtime # FreeAddress /\ object.model # FreeAddress
          BY <1>1, <3>1 DEF Wrappers
        <4> QED
          BY <1>1, <4>1, <4>2
      <3>3. Admitted(object)
        BY <3>1
      <3>4. objects'[s] = object
        BY <1>1, <2>1
      <3>5. Admitted(objects[s])'
        BY <3>2, <3>3, <3>4 DEF Admitted
      <3> QED
        BY <3>1, <3>4, <3>5
    <2>2. CASE s # FreeAddress
      <3>1. s \in Sessions /\ objects'[s] = objects[s]
        BY <1>1, <2>2 DEF Sessions
      <3>2. objects'[objects[s].runtime] = objects[objects[s].runtime] /\ objects'[objects[s].model] = objects[objects[s].model]
        BY <1>1, <3>1
      <3>3. Admitted(objects[s])
        BY <3>1 DEF ApiInv, SessionsInv
      <3>4. Admitted(objects[s])'
        BY <3>1, <3>2, <3>3 DEF Admitted
      <3> QED
        BY <3>1, <3>4 DEF ApiInv, SessionsInv
    <2> QED
      BY <2>1, <2>2
  <1> QED
    BY <1>2, <1>3, <1>4, <1>5 DEF ApiInv

\* A call that has not allocated builds nothing.
LEMMA NotBuilding ==
  ASSUME ApiInv,
         \/ call.op \in {"runtime", "load"} /\ call.step = "check"
         \/ call.op = "session" /\ call.step \in {"check", "cudart", "providers", "allocate"}
  PROVE  ~Building /\ call.owned = NULL /\ call # Idle
  BY DEF ApiInv, BuildInv, Building, Idle

\* An allocation for a runtime or a model keeps who uses what.
LEMMA NewBuildInv ==
  ASSUME ApiInv, ~Building, call # Idle, call.op \in {"runtime", "load"},
         NEW object \in RuntimeObject \cup ModelObject, NEW next, next # "check", Allocate(object, next),
         call.op = "runtime" => object \in RuntimeObject, call.op = "load" => object \in ModelObject
  PROVE  BuildInv' /\ AdmissionInv'
  <1>1. /\ FreeAddress \in Objects
        /\ call' = [call EXCEPT !.owned = FreeAddress, !.step = next]
        /\ objects'[FreeAddress] = object
        /\ \A p \in Objects : p # FreeAddress => objects'[p] = objects[p]
        /\ \A w \in Wrappers : handles[w] # FreeAddress
        /\ \A s \in Sessions : s # FreeAddress
        /\ ~InUse(FreeAddress)
        /\ UNCHANGED handles
    BY FreshObject
  <1> HIDE DEF FreeAddress
  <1>2. call \in RuntimeCall \cup ModelCall
    BY CallsByOperation DEF ApiInv
  <1>3. call'.op = call.op /\ call'.out = call.out /\ call'.owned = FreeAddress /\ call'.step = next
    BY <1>1, <1>2 DEF RuntimeCall, ModelCall
  <1>4. Sessions' = Sessions /\ \A s \in Sessions : objects'[s] = objects[s]
    BY <1>1 DEF Sessions, RuntimeObject, ModelObject
  <1>5. \A p : InUse(p)' = InUse(p)
    BY <1>4 DEF InUse
  <1>6. MayGiveUp(call.out)'
    <2>1. MayGiveUp(call.out)
      BY DEF ApiInv, BuildInv
    <2>2. handles'[call'.out] = handles[call.out]
      BY <1>1, <1>3
    <2> QED
      BY <1>5, <2>1, <2>2 DEF MayGiveUp
  <1>7. BuildInv'
    BY <1>1, <1>3, <1>5, <1>6, ApiAssumption DEF BuildInv
  <1>8. AdmissionInv'
    BY <1>3 DEF AdmissionInv
  <1> QED
    BY <1>7, <1>8

\* ai_runtime_create checks its options before it allocates.
LEMMA AllocateRuntimeKeepsInv == ASSUME ApiInv, AllocateRuntime PROVE ApiInv'
  <1>1. call.op = "runtime" /\ call.step = "check" /\ UNCHANGED installed /\ call \in RuntimeCall
    BY CallsByOperation DEF ApiInv, AllocateRuntime, CallAt
  <1>2. ~Building /\ call.owned = NULL /\ call # Idle
    BY <1>1, NotBuilding
  <1>3. CASE Fail
    BY <1>1, <1>2, <1>3, FailKeepsInv
  <1>4. CASE ~Fail
    <2> DEFINE object == [kind |-> "runtime", arch |-> call.options.arch, driver |-> call.options.driver,
                          cudart |-> call.options.cudart, providers |-> <<>>]
    <2>1. Allocate(object, "rows")
      BY <1>4 DEF AllocateRuntime
    <2>2. object \in RuntimeObject
      <3>1. call.options \in [abi : Nat, flags : Nat, arch : Nat, driver : Nat, cudart : Nat,
                              providers : Seq([id : Nat, version : Nat])]
        BY <1>1, ApiAssumption DEF RuntimeCall
      <3>2. << >> \in ProviderRows
        BY DEF ProviderRows
      <3> QED
        BY <3>1, <3>2 DEF RuntimeObject
    <2> HIDE DEF object
    <2>3. call' \in RuntimeCall
      <3>1. FreeAddress \in Objects /\ call' = [call EXCEPT !.owned = FreeAddress, !.step = "rows"]
        BY <1>1, <1>2, <2>1, <2>2, FreshObject
      <3> HIDE DEF FreeAddress
      <3> QED
        BY <1>1, <3>1 DEF RuntimeCall, Addresses
    <2>4. object \notin SessionObject
      BY <2>2 DEF RuntimeObject, SessionObject
    <2>5. BuildInv' /\ AdmissionInv'
      BY <1>1, <1>2, <2>1, <2>2, NewBuildInv
    <2> QED
      BY <1>1, <1>2, <2>1, <2>2, <2>3, <2>4, <2>5, AllocateKeepsInv
  <1> QED
    BY <1>3, <1>4

\* ai_model_load allocates before it opens the file.
LEMMA AllocateModelKeepsInv == ASSUME ApiInv, AllocateModel PROVE ApiInv'
  <1>1. call.op = "load" /\ call.step = "check" /\ UNCHANGED installed /\ call \in ModelCall
    BY CallsByOperation DEF ApiInv, AllocateModel, CallAt
  <1>2. ~Building /\ call.owned = NULL /\ call # Idle
    BY <1>1, NotBuilding
  <1> DEFINE object == [kind |-> "model", file |-> call.file]
  <1>3. Allocate(object, "open")
    BY DEF AllocateModel
  <1>4. object \in ModelObject
    BY <1>1 DEF ModelCall, ModelObject
  <1> HIDE DEF object
  <1>5. call' \in ModelCall
    <2>1. FreeAddress \in Objects /\ call' = [call EXCEPT !.owned = FreeAddress, !.step = "open"]
      BY <1>1, <1>2, <1>3, <1>4, FreshObject
    <2> HIDE DEF FreeAddress
    <2> QED
      BY <1>1, <2>1 DEF ModelCall, Addresses
  <1>6. object \notin SessionObject
    BY <1>4 DEF ModelObject, SessionObject
  <1>7. BuildInv' /\ AdmissionInv'
    BY <1>1, <1>2, <1>3, <1>4, NewBuildInv
  <1> QED
    BY <1>1, <1>2, <1>3, <1>4, <1>5, <1>6, <1>7, AllocateKeepsInv
-----------------------------------------------------------------------------
(* The other steps of ai_runtime_create and ai_model_load *)

\* A runtime being built is used by no session, so it may change.
LEMMA OwnRuntimeChange ==
  ASSUME ApiInv, call.op = "runtime", call.step # "check", NEW object \in RuntimeObject,
         objects' = [objects EXCEPT ![call.owned] = object], UNCHANGED <<resources, handles, installed>>,
         call' \in RuntimeCall, call'.owned = call.owned, call'.out = call.out, call'.step # "check"
  PROVE  ApiInv'
  <1>1. call \in RuntimeCall /\ call # Idle /\ call.owned \in Objects
    BY CallsByOperation DEF ApiInv, BuildInv, RuntimeCall, Addresses
  <1>2. Building /\ Building' /\ ~InUse(call.owned) /\ objects[call.owned] \in RuntimeObject
    BY SMTT(60), <1>1, ApiAssumption DEF ApiInv, BuildInv, Building, RuntimeCall, Idle
  <1>3. SameObject(objects[call.owned], object)
    BY <1>2 DEF SameObject
  <1>4. /\ objects'[call.owned] = object /\ Sessions' = Sessions
        /\ \A p : InUse(p)' = InUse(p)
        /\ \A w \in Wrappers : MayGiveUp(w) /\ UNCHANGED handles => MayGiveUp(w)'
    BY <1>1, <1>3, ChangedObject
  <1>5. MayGiveUp(call.out) /\ call.out \in Wrappers /\ \A w \in Wrappers : handles[w] # call.owned
    BY <1>1, <1>2 DEF ApiInv, BuildInv, RuntimeCall, Wrappers
  <1>6. MayGiveUp(call.out)'
    BY <1>4, <1>5
  <1>7. BuildInv'
    BY <1>1, <1>2, <1>4, <1>5, <1>6, ApiAssumption DEF BuildInv, RuntimeCall
  <1>8. AdmissionInv'
    BY DEF AdmissionInv, RuntimeCall
  <1>9. \A s \in Sessions : objects[s].runtime # call.owned
    BY <1>2 DEF InUse
  <1>10. \A r \in resources' : r[1] \in Objects /\ objects[r[1]] # Free
    BY DEF ApiInv, ApiTypeOK
  <1> QED
    BY <1>1, <1>2, <1>3, <1>7, <1>8, <1>9, <1>10, ChangeKeepsInv

\* The rows the caller passed are copied one by one.
LEMMA CopyProviderRowKeepsInv == ASSUME ApiInv, CopyProviderRow PROVE ApiInv'
  <1>1. call.op = "runtime" /\ call.step = "rows" /\ UNCHANGED installed /\ call \in RuntimeCall /\ call # Idle
    BY CallsByOperation DEF ApiInv, CopyProviderRow, CallAt
  <1> DEFINE rows == call.options.providers
             old == objects[call.owned]
  <1>2. CASE call.row > Len(rows)
    <2>1. Step("probe") /\ UNCHANGED <<objects, resources, handles>>
      BY <1>2 DEF CopyProviderRow
    <2>2. \A r \in resources' : r[1] \in Objects /\ objects[r[1]] # Free
      BY <2>1 DEF ApiInv, ApiTypeOK
    <2> QED
      BY <1>1, <2>1, <2>2, NextStepKeepsInv
  <1>3. CASE ~(call.row > Len(rows)) /\ Fail
    BY <1>1, <1>3, FailKeepsInv
  <1>4. CASE ~(call.row > Len(rows)) /\ ~Fail
    <2> DEFINE row == rows[call.row]
               object == [old EXCEPT !.providers = Append(@, row)]
    <2>1. /\ row.version # 0
          /\ objects' = [objects EXCEPT ![call.owned].providers = Append(@, row)]
          /\ call' = [call EXCEPT !.row = @ + 1]
          /\ UNCHANGED <<resources, handles>>
      BY <1>4 DEF CopyProviderRow
    <2>2. old \in RuntimeObject /\ call.owned \in Objects
      BY <1>1, ApiAssumption DEF ApiInv, BuildInv, Building, RuntimeCall, Addresses
    <2>3. row \in [id : Nat, version : Nat \ {0}]
      <3>1. rows \in Seq([id : Nat, version : Nat]) /\ call.row \in Nat \ {0}
        BY <1>1, ApiAssumption DEF RuntimeCall
      <3> HIDE DEF rows
      <3>2. call.row \in 1..Len(rows)
        BY <1>4, <3>1
      <3>3. rows[call.row] \in [id : Nat, version : Nat]
        BY <3>1, <3>2, SequenceElement
      <3> QED
        BY <2>1, <3>3
    <2>4. object \in RuntimeObject
      <3> HIDE DEF row, old
      <3>1. old.providers \in ProviderRows
        BY <2>2 DEF RuntimeObject
      <3>2. Append(old.providers, row) \in ProviderRows
        BY <2>3, <3>1 DEF ProviderRows
      <3> QED
        BY <2>2, <3>2 DEF RuntimeObject
    <2>5. objects' = [objects EXCEPT ![call.owned] = object]
      BY <2>1
    <2>6. call' \in RuntimeCall /\ call'.owned = call.owned /\ call'.out = call.out /\ call'.step # "check"
      BY <1>1, <2>1 DEF RuntimeCall
    <2> HIDE DEF object, row, old
    <2> QED
      BY <1>1, <2>1, <2>4, <2>5, <2>6, OwnRuntimeChange
  <1> QED
    BY <1>2, <1>3, <1>4

\* The driver is asked for what the caller did not say.
LEMMA ProbeCudaKeepsInv == ASSUME ApiInv, ProbeCuda PROVE ApiInv'
  <1>1. /\ call.op = "runtime" /\ call.step = "probe" /\ call \in RuntimeCall /\ call # Idle
        /\ UNCHANGED <<resources, handles, installed>>
        /\ call' = [call EXCEPT !.step = "return"]
    BY CallsByOperation DEF ApiInv, ProbeCuda, CallAt, Step
  <1> DEFINE old == objects[call.owned]
             object == [old EXCEPT !.arch = IF @ = 0 THEN Machine.arch ELSE @,
                                   !.driver = IF @ = 0 THEN Machine.driver ELSE @]
  <1>2. old \in RuntimeObject /\ call.owned \in Objects
    BY <1>1, ApiAssumption DEF ApiInv, BuildInv, Building, RuntimeCall, Addresses
  <1>3. objects' = [objects EXCEPT ![call.owned] = object]
    <2>1. objects \in [Objects -> {Free} \cup RuntimeObject \cup ModelObject \cup SessionObject]
      BY DEF ApiInv, ApiTypeOK
    <2>2. objects' = [objects EXCEPT ![call.owned].arch = IF @ = 0 THEN Machine.arch ELSE @,
                                     ![call.owned].driver = IF @ = 0 THEN Machine.driver ELSE @]
      BY DEF ProbeCuda
    <2> QED
      BY <1>2, <2>1, <2>2
  <1>4. object \in RuntimeObject
    BY <1>2, ApiAssumption DEF RuntimeObject
  <1>5. call' \in RuntimeCall /\ call'.owned = call.owned /\ call'.out = call.out /\ call'.step # "check"
    BY <1>1 DEF RuntimeCall
  <1> HIDE DEF object, old
  <1> QED
    BY <1>1, <1>3, <1>4, <1>5, OwnRuntimeChange

\* The descriptor and the mapping are the new model's.
LEMMA LoadStepsKeepInv == ASSUME ApiInv, OpenFile \/ MapFile \/ ValidateModel PROVE ApiInv'
  <1>1. /\ call.op = "load" /\ call.step \in {"open", "map", "validate"}
        /\ UNCHANGED installed /\ call \in ModelCall /\ call # Idle
    BY CallsByOperation DEF ApiInv, OpenFile, MapFile, ValidateModel, CallAt
  <1>2. call.owned \in Objects /\ objects[call.owned] \in ModelObject
    BY <1>1, ApiAssumption DEF ApiInv, BuildInv, Building, ModelCall, Addresses
  <1>3. objects[call.owned] # Free
    BY <1>2, KindsOfObjects DEF ApiInv
  <1>4. \A r \in resources \cup {<<call.owned, "fd">>, <<call.owned, "mapping">>} :
          r[1] \in Objects /\ objects[r[1]] # Free
    BY <1>2, <1>3 DEF ApiInv, ApiTypeOK
  <1>5. CASE Fail
    BY <1>1, <1>5, FailKeepsInv
  <1>6. CASE ~Fail
    <2>1. /\ UNCHANGED <<objects, handles>>
          /\ resources' \subseteq resources \cup {<<call.owned, "fd">>, <<call.owned, "mapping">>}
          /\ \E next \in {"map", "validate", "return"} : Step(next)
      BY <1>6 DEF OpenFile, MapFile, ValidateModel
    <2> QED
      BY <1>1, <1>4, <2>1, NextStepKeepsInv
  <1> QED
    BY <1>5, <1>6
-----------------------------------------------------------------------------
(* ai_session_create *)

\* What a session being created borrows is a runtime and a model.
LEMMA Borrowed ==
  ASSUME ApiInv, call.op = "session"
  PROVE  /\ call \in SessionCall /\ call # Idle
         /\ call.runtime # NULL => call.runtime \in Objects /\ Runtime \in RuntimeObject
         /\ call.model # NULL => /\ call.model \in Objects /\ objects[call.model] \in ModelObject
                                 /\ objects[call.model].file \in Files
                                 /\ Compatibility.providers \in Seq([id : Nat, range : Nat \X Nat])
  <1>1. call \in SessionCall /\ call # Idle
    BY CallsByOperation DEF ApiInv
  <1>2. Lent(call.runtime, RuntimeWrappers) /\ Lent(call.model, ModelWrappers)
    BY DEF ApiInv, AdmissionInv
  <1>3. ASSUME call.runtime # NULL
        PROVE  call.runtime \in Objects /\ Runtime \in RuntimeObject
    BY <1>2, <1>3, HandlesLive DEF Lent, ApiInv, HandleInv, Wrappers, Runtime
  <1>4. ASSUME call.model # NULL
        PROVE  call.model \in Objects /\ objects[call.model] \in ModelObject
    BY <1>2, <1>4, HandlesLive DEF Lent, ApiInv, HandleInv, Wrappers
  <1>5. ASSUME call.model # NULL
        PROVE  /\ objects[call.model].file \in Files
               /\ Compatibility.providers \in Seq([id : Nat, range : Nat \X Nat])
    <2>1. objects[call.model].file \in Files
      BY <1>4, <1>5 DEF ModelObject
    <2> QED
      BY <2>1, ApiAssumption DEF Compatibility
  <1> QED
    BY <1>1, <1>3, <1>4, <1>5

\* Steps that only check.
LEMMA SessionStepKeepsInv ==
  ASSUME ApiInv, call.op = "session", UNCHANGED <<objects, resources, handles, installed>>,
         NEW next, Step(next), next \in {"cudart", "providers", "allocate", "return"},
         next = "return" <=> call.step = "parse", call.step # "return",
         AdmissionInv'
  PROVE  ApiInv'
  <1>1. call \in SessionCall /\ call' = [call EXCEPT !.step = next] /\ call # Idle
    BY Borrowed DEF Step
  <1>2. call' \in SessionCall /\ call'.op = "session" /\ call'.owned = call.owned /\ call'.step = next
    BY <1>1 DEF SessionCall
  <1>3. call.owned # NULL <=> call.step = "parse"
    BY DEF ApiInv, BuildInv
  <1>4. Building <=> Building'
    BY <1>1, <1>2 DEF Building, SessionCall, Idle
  <1>5. BuildInv'
    BY <1>2, <1>3, <1>4, ObjectsDecide DEF ApiInv, BuildInv
  <1>6. \A r \in resources' : r[1] \in Objects /\ objects[r[1]] # Free
    BY DEF ApiInv, ApiTypeOK
  <1> QED
    BY <1>2, <1>4, <1>5, <1>6, StillSteps

\* The exact variant and the driver are checked first.
LEMMA SelectVariantKeepsInv == ASSUME ApiInv, SelectVariant PROVE ApiInv'
  <1>1. call.op = "session" /\ call.step = "check" /\ UNCHANGED installed
    BY DEF SelectVariant, CallAt
  <1>2. call \in SessionCall /\ call # Idle
    BY <1>1, Borrowed
  <1>3. CASE Fail
    BY <1>1, <1>2, <1>3, FailKeepsInv
  <1>4. CASE ~Fail
    <2>1. /\ Step("cudart") /\ UNCHANGED <<objects, resources, handles>>
          /\ call.runtime # NULL /\ call.model # NULL
          /\ RangeContains(Runtime.driver, Compatibility.driver)
      BY <1>4 DEF SelectVariant
    <2>2. call'.step = "cudart" /\ call'.row = call.row /\ call'.runtime = call.runtime /\ call'.model = call.model
      BY <1>2, <2>1 DEF Step, SessionCall
    <2>3. AdmissionInv'
      BY <1>1, <2>1, <2>2 DEF ApiInv, AdmissionInv, Lent, Runtime, Compatibility
    <2> QED
      BY <1>1, <2>1, <2>3, SessionStepKeepsInv
  <1> QED
    BY <1>3, <1>4

\* A session's runtime may learn a version if it forgets none a session needs.
LEMMA LearnKeepsInv ==
  ASSUME ApiInv, call.op = "session", call.step \in {"cudart", "providers"}, UNCHANGED <<resources, handles, installed>>,
         NEW object \in RuntimeObject, objects' = [objects EXCEPT ![call.runtime] = object],
         object.arch = Runtime.arch, object.driver = Runtime.driver,
         Runtime.cudart # 0 => object.cudart = Runtime.cudart,
         \A id : KnownVersion(Runtime, id) # 0 => KnownVersion(object, id) = KnownVersion(Runtime, id),
         call' \in {Idle} \cup SessionCall,
         call' # Idle => call'.owned = call.owned /\ call'.step \in {"providers", "allocate"},
         AdmissionInv'
  PROVE  ApiInv'
  <1>1. call.runtime # NULL
    BY DEF ApiInv, AdmissionInv
  <1>2. call.runtime \in Objects /\ Runtime \in RuntimeObject
    BY <1>1, Borrowed
  <1>3. SameObject(objects[call.runtime], object)
    BY <1>2 DEF SameObject, Runtime
  <1>4. /\ objects'[call.runtime] = object
        /\ \A p \in Objects : p # call.runtime => objects'[p] = objects[p]
        /\ Sessions' = Sessions
        /\ \A s \in Sessions : /\ objects'[s].runtime = objects[s].runtime
                               /\ objects'[s].model = objects[s].model
                               /\ objects'[s].variant = objects[s].variant
    BY <1>2, <1>3, ChangedObject
  <1>5. ~Building
    BY DEF ApiInv, BuildInv, Building
  <1>6. BuildInv'
    <2>1. call.owned = NULL
      BY DEF ApiInv, BuildInv
    <2>2. CASE call' = Idle
      BY <2>2 DEF BuildInv, Building, Idle
    <2>3. CASE call' # Idle
      <3>1. call'.op = "session" /\ call'.owned = NULL
        BY <2>1, <2>3 DEF SessionCall
      <3> QED
        BY <2>3, <3>1 DEF BuildInv, Building
    <2> QED
      BY <2>2, <2>3
  <1>7. ASSUME NEW s \in Sessions, objects[s].runtime = call.runtime
        PROVE  Admitted(objects[s])'
    <2>1. Admitted(objects[s])
      BY DEF ApiInv, SessionsInv
    <2>2. objects[s].model \in Objects /\ objects[s].model # call.runtime
      BY <1>2, <2>1, KindsOfObjects DEF Admitted, ApiInv, Sessions, RuntimeObject, Runtime
    <2>3. /\ objects'[objects'[s].runtime] = object
          /\ objects'[objects'[s].model] = objects[objects[s].model]
          /\ objects'[s].variant = objects[s].variant
          /\ object.kind = "runtime"
      BY <1>4, <1>7, <2>2 DEF RuntimeObject
    <2> DEFINE compat == objects[objects[s].model].file.compat
    <2>4. compat.cudart[1] # 0 => Usable(object.cudart, compat.cudart)
      BY <1>7, <2>1 DEF Admitted, Usable, Runtime
    <2>5. ASSUME NEW need \in ToSet(compat.providers)
          PROVE  Usable(KnownVersion(object, need.id), need.range)
      BY <1>7, <2>1 DEF Admitted, Usable, Runtime
    <2> QED
      BY <1>7, <2>1, <2>3, <2>4, <2>5 DEF Admitted, Runtime
  <1>8. \A r \in resources' : r[1] \in Objects /\ objects[r[1]] # Free
    BY DEF ApiInv, ApiTypeOK
  <1> QED
    BY <1>2, <1>3, <1>5, <1>6, <1>7, <1>8, ChangeKeepsInv
\* The CUDA runtime is probed when nothing is known of it.
LEMMA CheckCudaRuntimeKeepsInv == ASSUME ApiInv, CheckCudaRuntime PROVE ApiInv'
  <1>1. call.op = "session" /\ call.step = "cudart" /\ UNCHANGED installed
    BY DEF CheckCudaRuntime, CallAt
  <1>2. /\ call \in SessionCall /\ call # Idle
        /\ call.runtime \in Objects /\ Runtime \in RuntimeObject
        /\ call.model # NULL /\ call.runtime # NULL /\ objects[call.model] \in ModelObject
        /\ call.row = 1
        /\ RangeContains(Runtime.driver, Compatibility.driver)
    BY <1>1, Borrowed DEF ApiInv, AdmissionInv
  <1>3. CASE Compatibility.cudart[1] = 0
    <2>1. Step("providers") /\ UNCHANGED <<objects, resources, handles>>
      BY <1>3 DEF CheckCudaRuntime
    <2>2. /\ call'.step = "providers" /\ call'.row = 1
          /\ call'.runtime = call.runtime /\ call'.model = call.model
      BY <1>2, <2>1 DEF Step, SessionCall
    <2>3. Compatibility.providers \in Seq([id : Nat, range : Nat \X Nat])
      BY <1>1, <1>2, Borrowed
    <2>4. \A k \in DOMAIN Compatibility.providers : ~(k < 1)
      BY <2>3
    <2>5. AdmissionInv'
      BY <1>1, <1>2, <1>3, <2>1, <2>2, <2>4 DEF ApiInv, AdmissionInv, Lent, Runtime, Compatibility
    <2> QED
      BY <1>1, <2>1, <2>5, SessionStepKeepsInv
  <1>4. CASE Compatibility.cudart[1] # 0
    <2> DEFINE version == IF Runtime.cudart = 0 THEN installed.cudart ELSE Runtime.cudart
               object == [Runtime EXCEPT !.cudart = version]
    <2>1. /\ objects' = [objects EXCEPT ![call.runtime].cudart = version]
          /\ IF Usable(version, Compatibility.cudart) THEN Step("providers") ELSE call' = Idle
          /\ UNCHANGED <<resources, handles>>
      BY <1>4 DEF CheckCudaRuntime
    <2>2. objects' = [objects EXCEPT ![call.runtime] = object]
      BY <2>1 DEF Runtime
    <2>3. version \in Nat
      BY <1>2, ApiAssumption DEF ApiInv, ApiTypeOK, RuntimeObject
    <2>4. /\ object \in RuntimeObject /\ object.cudart = version
          /\ object.arch = Runtime.arch /\ object.driver = Runtime.driver
          /\ object.providers = Runtime.providers
      BY <1>2, <2>3 DEF RuntimeObject
    <2>5. Runtime.cudart # 0 => version = Runtime.cudart
      OBVIOUS
    <2> HIDE DEF version, object
    <2>6. \A id : KnownVersion(object, id) = KnownVersion(Runtime, id)
      BY <2>4 DEF KnownVersion
    <2>7. call' \in {Idle} \cup SessionCall
          /\ (call' # Idle => call'.owned = call.owned /\ call'.step \in {"providers", "allocate"})
      BY <1>2, <2>1 DEF Step, SessionCall
    <2>8. AdmissionInv'
      <3>1. CASE call' = Idle
        BY <3>1 DEF AdmissionInv, Idle
      <3>2. CASE call' # Idle
        <4>1. /\ Usable(version, Compatibility.cudart)
              /\ call'.step = "providers" /\ call'.row = 1
              /\ call'.runtime = call.runtime /\ call'.model = call.model
          BY <1>2, <2>1, <3>2 DEF Step, SessionCall
        <4>2. call.model \in Objects /\ call.model # call.runtime
          BY <1>1, <1>2, Borrowed DEF Runtime, RuntimeObject, ModelObject
        <4>3. objects'[call.model] = objects[call.model] /\ objects'[call.runtime] = object
          BY <1>2, <2>2, <4>2 DEF ApiInv, ApiTypeOK
        <4>4. Compatibility' = Compatibility /\ Runtime' = object
          BY <4>1, <4>3 DEF Compatibility, Runtime
        <4>5. Compatibility.providers \in Seq([id : Nat, range : Nat \X Nat])
          BY <1>1, <1>2, Borrowed
        <4>6. \A k \in DOMAIN Compatibility.providers : ~(k < 1)
          BY <4>5
        <4>7. Lent(call.runtime, RuntimeWrappers) /\ Lent(call.model, ModelWrappers)
          BY <1>1 DEF ApiInv, AdmissionInv
        <4> QED
          BY <1>2, <2>1, <2>4, <4>1, <4>4, <4>6, <4>7 DEF AdmissionInv, Lent
      <3> QED
        BY <3>1, <3>2
    <2> QED
      BY <1>1, <2>1, <2>2, <2>4, <2>5, <2>6, <2>7, <2>8, LearnKeepsInv
  <1> QED
    BY <1>3, <1>4

\* What a sequence holds, and what it holds after an append.
LEMMA AppendedElements ==
  ASSUME NEW S, NEW q \in Seq(S), NEW x \in S
  PROVE  ToSet(Append(q, x)) = ToSet(q) \cup {x} /\ ToSet(q) \subseteq S
  <1>1. /\ DOMAIN q = 1..Len(q) /\ Len(q) \in Nat /\ DOMAIN Append(q, x) = 1..Len(q)+1
        /\ \A i \in 1..Len(q) : Append(q, x)[i] = q[i]
        /\ Append(q, x)[Len(q)+1] = x
    OBVIOUS
  <1>2. 1..Len(q)+1 = (1..Len(q)) \cup {Len(q)+1}
    BY <1>1
  <1>3. ToSet(Append(q, x)) = {Append(q, x)[i] : i \in 1..Len(q)} \cup {x}
    BY <1>1, <1>2, Zenon DEF ToSet
  <1>4. {Append(q, x)[i] : i \in 1..Len(q)} = {q[i] : i \in 1..Len(q)}
    BY <1>1
  <1>5. ToSet(q) \subseteq S
    BY <1>1, SequenceElement DEF ToSet
  <1> QED
    BY <1>1, <1>3, <1>4, <1>5 DEF ToSet

\* A version that was unknown is found in the appended row, and no other changes.
LEMMA AppendedVersion ==
  ASSUME NEW runtime \in RuntimeObject, NEW object \in RuntimeObject, NEW id \in Nat, NEW version \in Nat \ {0},
         KnownVersion(runtime, id) = 0,
         object.providers = Append(runtime.providers, [id |-> id, version |-> version])
  PROVE  /\ KnownVersion(object, id) = version
         /\ \A other : KnownVersion(runtime, other) # 0 =>
              KnownVersion(object, other) = KnownVersion(runtime, other)
  <1> DEFINE row == [id |-> id, version |-> version]
             Rows(table, j) == {r \in ToSet(table) : r.id = j}
  <1>1. runtime.providers \in ProviderRows
    BY DEF RuntimeObject
  <1> DEFINE Entry == [id : Nat, version : Nat \ {0}]
  <1>2. row \in Entry /\ runtime.providers \in Seq(Entry) /\ object.providers = Append(runtime.providers, row)
    BY <1>1 DEF ProviderRows
  <1> HIDE DEF Entry, row
  <1>3. /\ ToSet(object.providers) = ToSet(runtime.providers) \cup {row}
        /\ ToSet(runtime.providers) \subseteq Entry
    BY <1>2, AppendedElements
  <1>4. Rows(runtime.providers, id) = {}
    <2>1. SUFFICES ASSUME Rows(runtime.providers, id) # {} PROVE FALSE
      OBVIOUS
    <2>2. KnownVersion(runtime, id) = (CHOOSE r \in Rows(runtime.providers, id) : TRUE).version
      BY <2>1 DEF KnownVersion
    <2>3. (CHOOSE r \in Rows(runtime.providers, id) : TRUE) \in Rows(runtime.providers, id)
      BY <2>1
    <2>4. (CHOOSE r \in Rows(runtime.providers, id) : TRUE) \in Entry
      BY <1>3, <2>3
    <2> QED
      BY <2>2, <2>4 DEF Entry
  <1>5. Rows(object.providers, id) = {row}
    BY <1>3, <1>4 DEF row
  <1>6. \A other : other # id => Rows(object.providers, other) = Rows(runtime.providers, other)
    BY <1>3 DEF row
  <1>7. KnownVersion(object, id) = version
    <2>1. (CHOOSE r \in Rows(object.providers, id) : TRUE) = row
      BY <1>5
    <2> QED
      BY <1>5, <2>1 DEF KnownVersion, row
  <1>8. ASSUME NEW other, KnownVersion(runtime, other) # 0
        PROVE  KnownVersion(object, other) = KnownVersion(runtime, other)
    <2>1. other # id
      BY <1>8
    <2>2. Rows(object.providers, other) = Rows(runtime.providers, other)
      BY <1>6, <2>1
    <2> DEFINE Of(R) == IF R = {} THEN 0 ELSE (CHOOSE r \in R : TRUE).version
    <2>3. /\ KnownVersion(object, other) = Of(Rows(object.providers, other))
          /\ KnownVersion(runtime, other) = Of(Rows(runtime.providers, other))
      BY Zenon DEF KnownVersion
    <2> HIDE DEF Of, Rows
    <2> QED
      BY <2>2, <2>3
  <1> QED
    BY <1>7, <1>8
\* A provider is probed when nothing is known of it, and remembered if found.
LEMMA CheckProviderKeepsInv == ASSUME ApiInv, CheckProvider PROVE ApiInv'
  <1>1. call.op = "session" /\ call.step = "providers" /\ UNCHANGED installed
    BY DEF CheckProvider, CallAt
  <1>2. /\ call \in SessionCall /\ call # Idle
        /\ call.runtime \in Objects /\ Runtime \in RuntimeObject
        /\ call.model # NULL /\ call.runtime # NULL
        /\ call.model \in Objects /\ objects[call.model] \in ModelObject
        /\ Compatibility.providers \in Seq([id : Nat, range : Nat \X Nat])
    BY <1>1, Borrowed DEF ApiInv, AdmissionInv
  <1> DEFINE needs == Compatibility.providers
             Met(k) == Usable(KnownVersion(Runtime, needs[k].id), needs[k].range)
  <1>3. /\ Lent(call.runtime, RuntimeWrappers) /\ Lent(call.model, ModelWrappers)
        /\ RangeContains(Runtime.driver, Compatibility.driver)
        /\ Compatibility.cudart[1] # 0 => Usable(Runtime.cudart, Compatibility.cudart)
        /\ \A k \in DOMAIN needs : k < call.row => Met(k)
    BY <1>1 DEF ApiInv, AdmissionInv
  <1>4. call.row \in Nat /\ DOMAIN needs = 1..Len(needs) /\ Len(needs) \in Nat
    BY <1>2 DEF SessionCall
  <1>5. CASE call.row > Len(needs)
    <2>1. Step("allocate") /\ UNCHANGED <<objects, resources, handles>>
      BY <1>5 DEF CheckProvider
    <2>2. call'.step = "allocate" /\ call'.runtime = call.runtime /\ call'.model = call.model
      BY <1>2, <2>1 DEF Step, SessionCall
    <2>3. \A k \in DOMAIN needs : Met(k)
      <3> HIDE DEF needs, Met
      <3> QED
        BY <1>3, <1>4, <1>5
    <2>4. AdmissionInv'
      BY <1>2, <1>3, <2>1, <2>2, <2>3 DEF AdmissionInv, Lent, Runtime, Compatibility
    <2> QED
      BY <1>1, <2>1, <2>4, SessionStepKeepsInv
  <1>6. CASE ~(call.row > Len(needs))
    <2> DEFINE need == needs[call.row]
               found == ProviderVersion(Runtime, need.id)
               object == [Runtime EXCEPT !.providers = found.table]
    <2>1. /\ objects' = [objects EXCEPT ![call.runtime].providers = found.table]
          /\ call' = IF Usable(found.version, need.range) THEN [call EXCEPT !.row = @ + 1] ELSE Idle
          /\ UNCHANGED <<resources, handles>>
      BY <1>6 DEF CheckProvider
    <2>2. objects' = [objects EXCEPT ![call.runtime] = object]
      BY <2>1 DEF Runtime
    <2>3. need \in [id : Nat, range : Nat \X Nat]
      <3>1. call.row \in 1..Len(needs)
        <4> HIDE DEF needs
        <4> QED
          BY <1>2, <1>4, <1>6 DEF SessionCall
      <3> HIDE DEF needs
      <3>2. needs \in Seq([id : Nat, range : Nat \X Nat])
        BY <1>2 DEF needs
      <3> QED
        BY <3>1, <3>2, SequenceElement
    <2>4. /\ object \in RuntimeObject
          /\ KnownVersion(object, need.id) = found.version
          /\ \A id : KnownVersion(Runtime, id) # 0 => KnownVersion(object, id) = KnownVersion(Runtime, id)
      <3> HIDE DEF need
      <3>1. CASE found.table = Runtime.providers
        <4>1. object = Runtime
          BY <1>2, <3>1 DEF RuntimeObject
        <4>2. found.version = KnownVersion(Runtime, need.id)
          <5>1. CASE KnownVersion(Runtime, need.id) # 0
            BY <5>1 DEF ProviderVersion
          <5>2. CASE KnownVersion(Runtime, need.id) = 0
            <6>1. installed.provider = 0
              <7> SUFFICES ASSUME installed.provider # 0 PROVE FALSE
                OBVIOUS
              <7>1. Runtime.providers = Append(Runtime.providers, [id |-> need.id, version |-> installed.provider])
                BY <3>1, <5>2 DEF ProviderVersion
              <7>2. Runtime.providers \in ProviderRows
                BY <1>2 DEF RuntimeObject
              <7> QED
                BY <7>1, <7>2 DEF ProviderRows
            <6> QED
              BY <5>2, <6>1 DEF ProviderVersion
          <5> QED
            BY <5>1, <5>2
        <4> HIDE DEF object, found
        <4> QED
          BY <1>2, <4>1, <4>2
      <3>2. CASE found.table # Runtime.providers
        <4>1. /\ KnownVersion(Runtime, need.id) = 0 /\ installed.provider # 0
              /\ found.version = installed.provider
              /\ found.table = Append(Runtime.providers, [id |-> need.id, version |-> installed.provider])
          BY <3>2 DEF ProviderVersion
        <4>2. installed.provider \in Nat \ {0}
          BY <4>1, ApiAssumption DEF ApiInv, ApiTypeOK
        <4>3. Runtime.providers \in ProviderRows /\ need.id \in Nat
          BY <1>2, <2>3 DEF RuntimeObject
        <4> HIDE DEF found
        <4>4. found.table \in ProviderRows
          <5>1. [id |-> need.id, version |-> installed.provider] \in [id : Nat, version : Nat \ {0}]
            BY <4>2, <4>3
          <5> QED
            BY <4>1, <4>3, <5>1 DEF ProviderRows
        <4>5. object \in RuntimeObject /\ object.providers = found.table
          BY <1>2, <4>4 DEF RuntimeObject
        <4> HIDE DEF object
        <4> QED
          BY <1>2, <4>1, <4>2, <4>3, <4>5, AppendedVersion
      <3> QED
        BY <3>1, <3>2
    <2>5. object.arch = Runtime.arch /\ object.driver = Runtime.driver /\ object.cudart = Runtime.cudart
      BY <1>2 DEF RuntimeObject
    <2> HIDE DEF found, object, need
    <2>6. call' \in {Idle} \cup SessionCall
          /\ (call' # Idle => call'.owned = call.owned /\ call'.step \in {"providers", "allocate"})
      BY SMTT(60), <1>1, <1>2, <2>1 DEF SessionCall
    <2>7. AdmissionInv'
      <3>1. CASE call' = Idle
        BY <3>1 DEF AdmissionInv, Idle
      <3>2. CASE call' # Idle
        <4>1. /\ Usable(found.version, need.range)
              /\ call' = [call EXCEPT !.row = @ + 1]
          BY <2>1, <3>2
        <4>2. /\ call'.step = "providers" /\ call'.row = call.row + 1
              /\ call'.runtime = call.runtime /\ call'.model = call.model
          BY <1>1, <1>2, <4>1 DEF SessionCall
        <4>3. objects'[call.model] = objects[call.model] /\ objects'[call.runtime] = object
          <5>1. call.model # call.runtime
            BY <1>2 DEF Runtime, RuntimeObject, ModelObject
          <5> QED
            BY <1>2, <2>2, <5>1 DEF ApiInv, ApiTypeOK
        <4>4. Compatibility' = Compatibility /\ Runtime' = object
          BY <4>2, <4>3 DEF Compatibility, Runtime
        <4>5. ASSUME NEW k \in DOMAIN needs, k < call.row + 1
              PROVE  Usable(KnownVersion(object, needs[k].id), needs[k].range)
          <5>1. CASE k = call.row
            BY <2>4, <4>1, <5>1 DEF need
          <5>2. CASE k # call.row
            <6>1. Met(k)
              <7> HIDE DEF needs, Met
              <7> QED
                BY <1>3, <1>4, <4>5, <5>2
            <6> QED
              BY <2>4, <6>1 DEF Usable
          <5> QED
            BY <5>1, <5>2
        <4> QED
          BY <1>2, <1>3, <2>1, <2>5, <4>2, <4>4, <4>5 DEF AdmissionInv, Lent
      <3> QED
        BY <3>1, <3>2
    <2> QED
      BY <1>1, <2>1, <2>2, <2>4, <2>5, <2>6, <2>7, LearnKeepsInv
  <1> QED
    BY <1>5, <1>6
\* The session is allocated when everything it needs has been checked.
LEMMA AllocateSessionKeepsInv == ASSUME ApiInv, AllocateSession PROVE ApiInv'
  <1>1. call.op = "session" /\ call.step = "allocate" /\ UNCHANGED installed
    BY DEF AllocateSession, CallAt
  <1>2. /\ call \in SessionCall /\ call # Idle
        /\ call.runtime \in Objects /\ Runtime \in RuntimeObject
        /\ call.model # NULL /\ call.runtime # NULL
        /\ call.model \in Objects /\ objects[call.model] \in ModelObject
        /\ objects[call.model].file \in Files
    BY <1>1, Borrowed DEF ApiInv, AdmissionInv
  <1>3. ~Building
    BY <1>1, NotBuilding
  <1>4. PICK v \in VariantsFor(objects[call.model].file, Runtime.arch) :
          Allocate([kind |-> "session", runtime |-> call.runtime, model |-> call.model, variant |-> v,
                    profile |-> call.profile, cuda |-> FALSE, prepared |-> FALSE], "parse")
    BY DEF AllocateSession
  <1> DEFINE object == [kind |-> "session", runtime |-> call.runtime, model |-> call.model, variant |-> v,
                        profile |-> call.profile, cuda |-> FALSE, prepared |-> FALSE]
  <1>5. object \in SessionObject
    <2>1. v \in FileVariants
      BY <1>2 DEF VariantsFor, FileVariants
    <2>2. call.profile \in Profiles
      BY <1>2 DEF SessionCall
    <2> QED
      BY <1>2, <2>1, <2>2 DEF SessionObject
  <1>6. object.runtime = call.runtime /\ object.model = call.model /\ object.variant = v
    OBVIOUS
  <1>7. Allocate(object, "parse")
    BY <1>4
  <1> HIDE DEF object
  <1>8. /\ \E w \in RuntimeWrappers : handles[w] = object.runtime
        /\ \E w \in ModelWrappers : handles[w] = object.model
    BY <1>1, <1>2, <1>6 DEF ApiInv, AdmissionInv, Lent
  <1>9. Admitted(object)
    <2>1. /\ RangeContains(Runtime.driver, Compatibility.driver)
          /\ Compatibility.cudart[1] # 0 => Usable(Runtime.cudart, Compatibility.cudart)
          /\ \A k \in DOMAIN Compatibility.providers :
               Usable(KnownVersion(Runtime, Compatibility.providers[k].id), Compatibility.providers[k].range)
      BY <1>1 DEF ApiInv, AdmissionInv
    <2>2. \A need \in ToSet(Compatibility.providers) : Usable(KnownVersion(Runtime, need.id), need.range)
      BY <2>1 DEF ToSet
    <2>3. Runtime.kind = "runtime" /\ objects[call.model].kind = "model"
      BY <1>2 DEF RuntimeObject, ModelObject
    <2> QED
      BY <1>4, <1>6, <2>1, <2>2, <2>3 DEF Admitted, Runtime, Compatibility
  <1>10. /\ FreeAddress \in Objects
         /\ call' = [call EXCEPT !.owned = FreeAddress, !.step = "parse"]
         /\ objects'[FreeAddress] = object
         /\ \A p \in Objects : p # FreeAddress => objects'[p] = objects[p]
         /\ \A w \in Wrappers : handles[w] # FreeAddress
         /\ \A s \in Sessions : /\ s # FreeAddress
                                /\ objects[s].runtime \in Objects \ {FreeAddress}
                                /\ objects[s].model \in Objects \ {FreeAddress}
         /\ UNCHANGED handles
    BY <1>1, <1>2, <1>3, <1>5, <1>7, FreshObject
  <1> HIDE DEF FreeAddress
  <1>11. /\ call' \in SessionCall /\ call'.op = "session" /\ call'.owned = FreeAddress /\ call'.step = "parse"
         /\ call'.runtime = call.runtime /\ call'.model = call.model
    BY <1>2, <1>10 DEF SessionCall, Addresses
  <1>12. BuildInv'
    <2>1. call.runtime # FreeAddress /\ call.model # FreeAddress
      BY <1>6, <1>8, <1>10 DEF Wrappers
    <2>2. ASSUME NEW s \in Sessions'
          PROVE  objects'[s].runtime # FreeAddress /\ objects'[s].model # FreeAddress
      <3>1. CASE s = FreeAddress
        BY <1>6, <1>10, <2>1, <3>1
      <3>2. CASE s # FreeAddress
        BY <1>10, <3>2 DEF Sessions
      <3> QED
        BY <3>1, <3>2
    <2>3. ~InUse(call.owned)'
      BY <1>11, <2>2 DEF InUse
    <2> QED
      BY <1>5, <1>10, <1>11, <2>3, ApiAssumption DEF BuildInv
  <1>13. AdmissionInv'
    BY <1>6, <1>8, <1>10, <1>11 DEF AdmissionInv, Lent
  <1> QED
    BY <1>1, <1>2, <1>3, <1>5, <1>7, <1>8, <1>9, <1>11, <1>12, <1>13, AllocateKeepsInv

\* The plan is parsed before the session is handed out.
LEMMA ParsePlanKeepsInv == ASSUME ApiInv, ParsePlanOfSession PROVE ApiInv'
  <1>1. call.op = "session" /\ call.step = "parse" /\ UNCHANGED installed
    BY DEF ParsePlanOfSession, CallAt
  <1>2. call \in SessionCall /\ call # Idle
    BY <1>1, Borrowed
  <1>3. CASE Fail
    BY <1>1, <1>2, <1>3, FailKeepsInv
  <1>4. CASE ~Fail
    <2>1. Step("return") /\ UNCHANGED <<objects, resources, handles>>
      BY <1>4 DEF ParsePlanOfSession
    <2>2. call'.step = "return" /\ call'.runtime = call.runtime /\ call'.model = call.model
      BY <1>2, <2>1 DEF Step, SessionCall
    <2>3. AdmissionInv'
      BY <1>1, <2>1, <2>2 DEF ApiInv, AdmissionInv, Lent
    <2> QED
      BY <1>1, <2>1, <2>3, SessionStepKeepsInv
  <1> QED
    BY <1>3, <1>4

-----------------------------------------------------------------------------
(* ai_session_prepare *)

\* A step of prepare takes a resource for the session of its wrapper.
LEMMA PrepareStepKeepsInv == ASSUME ApiInv, PrepareStep PROVE ApiInv'
  <1>1. /\ call \in PrepareCall /\ call.op = "prepare" /\ UNCHANGED <<handles, installed>>
        /\ call.out \in SessionWrappers /\ call.owned \in Objects /\ call.owned = handles[call.out]
    BY CallsByOperation DEF PrepareStep, ApiInv, BuildInv, PrepareCall
  <1>2. objects[call.owned] \in SessionObject
    BY <1>1, ApiAssumption DEF ApiInv, HandleInv, Wrappers
  <1> DEFINE last == call.step = Len(PrepareSteps)
             object == [objects[call.owned] EXCEPT !.cuda = TRUE, !.prepared = last]
  <1>3. /\ objects' = [objects EXCEPT ![call.owned].cuda = TRUE, ![call.owned].prepared = last]
        /\ resources' \subseteq resources \cup {<<call.owned, PrepareSteps[call.step]>>}
        /\ IF last THEN call' = Idle ELSE Step(call.step + 1)
    BY DEF PrepareStep
  <1>4. objects' = [objects EXCEPT ![call.owned] = object]
    BY <1>1, <1>2, <1>3 DEF ApiInv, ApiTypeOK
  <1>5. SameObject(objects[call.owned], object)
    <2>1. last \in BOOLEAN
      OBVIOUS
    <2> HIDE DEF last
    <2> QED
      BY <1>2, <2>1 DEF SameObject, SessionObject
  <1>6. call' \in {Idle} \cup PrepareCall
        /\ (call' # Idle => call'.op = "prepare" /\ call'.owned = call.owned /\ call'.out = call.out)
    <2>1. Len(PrepareSteps) = 7
      BY DEF PrepareSteps
    <2>2. ~last => call.step + 1 \in 1..7
      BY <1>1, <2>1 DEF PrepareCall
    <2> HIDE DEF last
    <2> QED
      BY <1>1, <1>3, <2>2 DEF Step, PrepareCall
  <1>7. BuildInv' /\ AdmissionInv' /\ ~Building
    BY <1>1, <1>6 DEF BuildInv, AdmissionInv, Building, Idle
  <1> HIDE DEF object, last
  <1>8. \A r \in resources' : r[1] \in Objects /\ objects[r[1]] # Free
    <2>1. objects[call.owned] # Free
      BY <1>2 DEF SessionObject, Free
    <2> QED
      BY <1>1, <1>3, <2>1 DEF ApiInv, ApiTypeOK
  <1>9. \A s \in Sessions : objects[s].runtime # call.owned
    BY <1>1, SessionsAreNotUsed, ApiAssumption DEF InUse
  <1> QED
    BY <1>1, <1>4, <1>5, <1>6, <1>7, <1>8, <1>9, ChangeKeepsInv

\* A failing prepare leaves the session as it is.
LEMMA PrepareFailsKeepsInv == ASSUME ApiInv, PrepareFails PROVE ApiInv'
  <1>1. call.op = "prepare" /\ call' = Idle /\ UNCHANGED <<objects, resources, handles, installed>>
    BY DEF PrepareFails
  <1>2. BuildInv' /\ AdmissionInv' /\ ~Building
    BY <1>1 DEF BuildInv, AdmissionInv, Building, Idle
  <1>3. \A r \in resources' : r[1] \in Objects /\ objects[r[1]] # Free
    BY <1>1 DEF ApiInv, ApiTypeOK
  <1> QED
    BY <1>1, <1>2, <1>3, StillSteps

-----------------------------------------------------------------------------
(* The invariant *)

\* What the libraries become is nobody's state.
LEMMA UpgradeKeepsInv == ASSUME ApiInv, Upgrade PROVE ApiInv'
  <1>1. UNCHANGED <<objects, resources, handles, call>> /\ installed' \in Upgrades
    BY DEF Upgrade
  <1>2. ApiTypeOK' /\ HandleInv' /\ OwnerInv'
    BY <1>1 DEF ApiInv, ApiTypeOK, HandleInv, OwnerInv, Building
  <1>3. BuildInv'
    BY <1>1, ObjectsDecide DEF ApiInv, BuildInv, Building, MayGiveUp
  <1>4. AdmissionInv'
    BY <1>1 DEF ApiInv, AdmissionInv, Lent, Runtime, Compatibility
  <1>5. SessionsInv'
    BY <1>1, ObjectsDecide DEF ApiInv, SessionsInv
  <1> QED
    BY <1>2, <1>3, <1>4, <1>5 DEF ApiInv

\* Every step of every call keeps the invariant.
LEMMA NextKeepsApiInv == ApiInv /\ [ApiNext]_apiVars => ApiInv'
  <1> SUFFICES ASSUME ApiInv, [ApiNext]_apiVars PROVE ApiInv'
    OBVIOUS
  <1>1. ASSUME CallStep PROVE ApiInv'
    <2>1. CASE AllocateRuntime \/ CopyProviderRow \/ ProbeCuda
      BY <2>1, AllocateRuntimeKeepsInv, CopyProviderRowKeepsInv, ProbeCudaKeepsInv
    <2>2. CASE ReturnRuntime \/ ReturnModel \/ ReturnSession
      <3>1. /\ call.op \in {"runtime", "load", "session"} /\ call.step = "return"
            /\ Return /\ UNCHANGED installed
        BY <2>2 DEF ReturnRuntime, ReturnModel, ReturnSession, CallAt
      <3>2. call # Idle
        BY <3>1 DEF Idle
      <3> QED
        BY <3>1, <3>2, ReturnKeepsInv
    <2>3. CASE AllocateModel \/ OpenFile \/ MapFile \/ ValidateModel
      BY <2>3, AllocateModelKeepsInv, LoadStepsKeepInv
    <2>4. CASE SelectVariant \/ CheckCudaRuntime \/ CheckProvider \/ AllocateSession \/ ParsePlanOfSession
      BY <2>4, SelectVariantKeepsInv, CheckCudaRuntimeKeepsInv, CheckProviderKeepsInv,
         AllocateSessionKeepsInv, ParsePlanKeepsInv
    <2>5. CASE PrepareStep \/ PrepareFails
      BY <2>5, PrepareStepKeepsInv, PrepareFailsKeepsInv
    <2>6. CASE CallFails
      BY <2>6, FailKeepsInv DEF CallFails
    <2> QED
      BY <1>1, <2>1, <2>2, <2>3, <2>4, <2>5, <2>6 DEF CallStep
  <1>2. ASSUME BeginCall PROVE ApiInv'
    <2>1. CASE \E w \in Wrappers : Destroy(w)
      BY <2>1, DestroyKeepsInv
    <2>2. CASE \E to, from \in Wrappers : MoveAssign(to, from)
      BY <2>2, MoveKeepsInv
    <2> QED
      BY <1>2, <2>1, <2>2, BeginKeepsInv DEF BeginCall
  <1>3. ASSUME UNCHANGED apiVars PROVE ApiInv'
    <2>1. ApiTypeOK' /\ HandleInv' /\ OwnerInv'
      BY <1>3 DEF apiVars, ApiInv, ApiTypeOK, HandleInv, OwnerInv, Building
    <2>2. BuildInv'
      BY <1>3, ObjectsDecide DEF apiVars, ApiInv, BuildInv, Building, MayGiveUp
    <2>3. AdmissionInv'
      BY <1>3 DEF apiVars, ApiInv, AdmissionInv, Lent, Runtime, Compatibility
    <2>4. SessionsInv'
      BY <1>3, ObjectsDecide DEF apiVars, ApiInv, SessionsInv
    <2> QED
      BY <2>1, <2>2, <2>3, <2>4 DEF ApiInv
  <1> QED
    BY <1>1, <1>2, <1>3, UpgradeKeepsInv DEF ApiNext

\* In every reachable state each object has one holder of its kind, the call in
\* progress knows what it has built and checked, and sessions borrow live objects.
THEOREM ApiInvariant == ApiSpec => []ApiInv
  BY InitApiInv, NextKeepsApiInv, PTL DEF ApiSpec

\* SessionsSound: no call of runtime.cc, wherever it fails, leaks an object or a
\* resource or frees one under a handle, and every session stays admitted by
\* what its runtime remembers.
THEOREM ApiSessionsSound == ApiSpec => []SessionsSound
  <1>1. ASSUME ApiInv PROVE SessionsSound
    <2>1. ASSUME NEW o \in Objects, objects[o] # Free
          PROVE  \/ Cardinality(Holders(o)) = 1
                 \/ Holders(o) = {} /\ call # Idle /\ call.owned = o
      <3>1. CASE \E w \in Wrappers : handles[w] = o
        <4>1. PICK w \in Wrappers : handles[w] = o
          BY <3>1
        <4>2. Holders(o) = {w}
          BY <1>1, <4>1, ApiAssumption DEF Holders, ApiInv, HandleInv
        <4> QED
          BY <4>2, FS_Singleton
      <3>2. CASE ~\E w \in Wrappers : handles[w] = o
        BY <1>1, <2>1, <3>2 DEF Holders, ApiInv, OwnerInv, Building
      <3> QED
        BY <3>1, <3>2
    <2>2. \A w \in Wrappers : handles[w] # NULL => objects[handles[w]] # Free
      BY <1>1, HandlesLive
    <2>3. ResourcesOwned
      BY <1>1 DEF ResourcesOwned, ApiInv, ApiTypeOK
    <2>4. \A s \in Sessions : Admitted(objects[s])
      BY <1>1 DEF ApiInv, SessionsInv
    <2> QED
      BY <2>1, <2>2, <2>3, <2>4 DEF SessionsSound, OwnedOnce
  <1> QED
    BY <1>1, ApiInvariant, PTL
=============================================================================
