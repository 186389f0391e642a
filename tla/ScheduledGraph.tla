--------------------------- MODULE ScheduledGraph ---------------------------
(***************************************************************************)
(* The view of an execution schedule that every lowering matcher of        *)
(* src/aginfer/providers builds first: who produces a value, who uses it,  *)
(* what is public, and what a value means.  An operation has at most one   *)
(* output; a type, an attribute list and a literal are names.              *)
(***************************************************************************)
EXTENDS Naturals, Sequences, FiniteSets, SequencesExt, FiniteSetsExt

VARIABLES
  ops,      \* schedule.ops: [opcode, attr, ins, out, inv]; op.inv is invocation_id
  values,   \* schedule.values: name -> [type, store, literal]
  public,   \* the values of schedule.entry_outputs
  elided    \* memory_plan.elided_ops

graph == <<ops, values, public, elided>>

NoValue == ""

NoOp == [opcode |-> "", attr |-> "", ins |-> <<>>, out |-> NoValue, inv |-> 0]

\* An operation is named by its execution index; 0 is no operation.
At(i) == IF i \in DOMAIN ops THEN ops[i] ELSE NoOp

In(i, k) == IF k \in DOMAIN At(i).ins THEN At(i).ins[k] ELSE NoValue
Out(i) == At(i).out

TypeOf(v) == IF v \in DOMAIN values THEN values[v].type ELSE ""

IsLiteral(v, literal) == v \in DOMAIN values /\ values[v].literal = literal

ProducerOf(v) ==
  IF v # NoValue /\ \E i \in DOMAIN ops : ops[i].out = v
  THEN CHOOSE i \in DOMAIN ops : ops[i].out = v ELSE 0

Producer(v, opcode) ==
  IF At(ProducerOf(v)).opcode = opcode THEN ProducerOf(v) ELSE 0

\* consumers[v]: one entry for every operand position that reads v.
Uses(v) ==
  {use \in UNION {{i} \X DOMAIN ops[i].ins : i \in DOMAIN ops} : ops[use[1]].ins[use[2]] = v}

Users(v) == {use[1] : use \in Uses(v)}

UsedOnlyBy(v, i) == Cardinality(Uses(v)) = 1 /\ Users(v) = {i}

SoleUser(v, opcode) ==
  IF Cardinality(Uses(v)) = 1 /\ \A i \in Users(v) : ops[i].opcode = opcode
  THEN CHOOSE i \in Users(v) : TRUE ELSE 0

\* The other operand of an operation that reads v exactly once.
OtherInput(i, v) ==
  LET others == SelectSeq(At(i).ins, LAMBDA w : w # v)
  IN  IF Len(others) = 1 THEN others[1] ELSE NoValue

SameInvocation(i, S) == 0 \notin S /\ \A j \in S : At(j).inv = At(i).inv

Is(i, opcode, attr) == At(i).opcode = opcode /\ At(i).attr = attr

-----------------------------------------------------------------------------
(* Meaning *)

\* Addition and multiplication do not look at the order of their operands.
Term(opcode, attr, args) ==
  <<opcode, attr,
    {<<IF opcode \in {"add", "mul"} THEN 0 ELSE k, args[k]>> : k \in DOMAIN args}>>

Leaf(v) == Term("leaf", IF values[v].literal # "none" THEN values[v].literal ELSE v, <<>>)

\* What every value and every state holds after the operations in their order;
\* a view holds what its operand holds.
MeaningsWithViews(views) ==
  LET given == {v \in DOMAIN values : values[v].store \notin {"temp", "alias"}}
      Step(held, i) ==
        LET op == ops[i] IN
        CASE op.opcode = "state_read" -> held @@ (op.out :> held[op.attr])
          [] op.opcode = "state_write" -> (op.attr :> held[op.ins[1]]) @@ held
          [] i \in views -> held @@ (op.out :> held[op.ins[1]])
          [] OTHER ->
               held @@ (op.out :> Term(op.opcode, op.attr,
                                       [k \in DOMAIN op.ins |-> held[op.ins[k]]]))
  IN  FoldLeft(Step, [v \in given |-> Leaf(v)], [i \in DOMAIN ops |-> i])

Meanings == MeaningsWithViews({})

=============================================================================
