--------------------------- MODULE ScheduleEdits ---------------------------
(***************************************************************************)
(* The schedules a lowering is given: templates of the form its kernels    *)
(* were written for, and every schedule a few edits away from one.  This   *)
(* is environment, not code of the repository.                             *)
(***************************************************************************)
EXTENDS ScheduledGraph

CONSTANTS
  Templates,   \* schedules, each with the operations the memory plan may prove to
               \* be views and a bound on the edits that separate it from the template
  Invocations, \* the invocations an operation may be inlined from
  Attributes   \* opcode and attribute list -> other lists that give the same types

VARIABLES
  template,    \* the element of Templates this behaviour starts from
  edits        \* how many edits were made

scheduleVars == <<graph, template, edits>>

FromTemplate ==
  /\ template \in Templates
  /\ ops = template.ops /\ values = template.values
  /\ public = template.public /\ elided = template.elided
  /\ edits = 0

Editing ==
  /\ edits < template.maxEdits
  /\ edits' = edits + 1
  /\ UNCHANGED template

DefinedBefore(i) ==
  {v \in DOMAIN values : values[v].store # "state"} \
    {ops[j].out : j \in {k \in DOMAIN ops : k >= i}}

\* An operation reads another value of the same type.
Rewire(i, k, v) ==
  /\ Editing
  /\ v # In(i, k) /\ v \in DefinedBefore(i) /\ TypeOf(v) = TypeOf(In(i, k))
  /\ ops' = [ops EXCEPT ![i].ins[k] = v]
  /\ UNCHANGED <<values, public, elided>>

\* Two operations read each other's value.
Exchange(i, k, j, l) ==
  /\ Editing
  /\ i < j /\ In(i, k) # In(j, l)
  /\ TypeOf(In(i, k)) = TypeOf(In(j, l)) /\ In(j, l) \in DefinedBefore(i)
  /\ ops' = [ops EXCEPT ![i].ins[k] = In(j, l), ![j].ins[l] = In(i, k)]
  /\ UNCHANGED <<values, public, elided>>

Reattribute(i, attr) ==
  /\ Editing
  /\ attr \in Attributes[ops[i].opcode, ops[i].attr]
  /\ ops' = [ops EXCEPT ![i].attr = attr]
  /\ UNCHANGED <<values, public, elided>>

Relocate(i, inv) ==
  /\ Editing
  /\ inv # ops[i].inv
  /\ ops' = [ops EXCEPT ![i].inv = inv]
  /\ UNCHANGED <<values, public, elided>>

Publish(v) ==
  /\ Editing
  /\ ProducerOf(v) # 0 /\ v \notin public /\ values[v].store = "temp"
  /\ public' = public \cup {v}
  /\ UNCHANGED <<ops, values, elided>>

\* One more operation, at the end of the schedule, needs v.
Reuse(v) ==
  /\ Editing
  /\ values[v].store \in {"temp", "alias"}
  /\ ops' = Append(ops, [NoOp EXCEPT !.opcode = "relu", !.ins = <<v>>, !.inv = 1,
                                     !.out = "extra" \o ToString(edits)])
  /\ values' = values @@ ("extra" \o ToString(edits) :>
                            [type |-> values[v].type, store |-> "temp", literal |-> "none"])
  /\ public' = public \cup {"extra" \o ToString(edits)}
  /\ UNCHANGED elided

Redefine(v, literal) ==
  /\ Editing
  /\ values[v].literal \notin {"none", literal}
  /\ values' = [values EXCEPT ![v].literal = literal]
  /\ UNCHANGED <<ops, public, elided>>

Elide(i) ==
  /\ Editing
  /\ elided' = IF i \in elided THEN elided \ {i} ELSE elided \cup {i}
  /\ UNCHANGED <<ops, values, public>>

Edit ==
  \/ \E i \in DOMAIN ops : \E k \in DOMAIN ops[i].ins, v \in DOMAIN values : Rewire(i, k, v)
  \/ \E i, j \in DOMAIN ops : \E k \in DOMAIN ops[i].ins, l \in DOMAIN ops[j].ins : Exchange(i, k, j, l)
  \/ \E i \in DOMAIN ops : \E attr \in Attributes[ops[i].opcode, ops[i].attr] : Reattribute(i, attr)
  \/ \E i \in DOMAIN ops, inv \in Invocations : Relocate(i, inv)
  \/ \E v \in DOMAIN values : Publish(v) \/ Reuse(v) \/ Redefine(v, "other")
  \/ \E i \in template.views : Elide(i)

=============================================================================
