----------------------------- MODULE ProgramIR -----------------------------
(***************************************************************************)
(* Programs: src/aginfer/ir/model.py, the structural half of               *)
(* src/aginfer/ir/verify.py, and the call expansion of                     *)
(* src/aginfer/lowering/inventory.py.                                      *)
(*                                                                         *)
(* A program has functions, an entry, states and shape symbols.  A         *)
(* function has typed inputs [id, type], operations in order and the ids   *)
(* it returns.  A call names its callee and how often it repeats.          *)
(***************************************************************************)
EXTENDS OpTypes

IsList(s) == Len(s) \in Nat /\ s = [i \in 1..Len(s) |-> s[i]]

IsFunction(f) ==
  /\ IsList(f.inputs) /\ IsList(f.ops) /\ IsList(f.outputs)
  /\ \A k \in DOMAIN f.ops : IsList(f.ops[k].inputs) /\ IsList(f.ops[k].outputs)

\* What the dataclasses hold of every program, verified or not.  The order of a
\* state is the place of its name in the alphabet.
IsProgram(p) ==
  /\ IsList(p.functions) /\ IsList(p.states)
  /\ \A i \in DOMAIN p.functions : IsFunction(p.functions[i])
  /\ \A i \in DOMAIN p.states : p.states[i].order \in Nat
  /\ \A i, j \in DOMAIN p.states :
       p.states[i].order = p.states[j].order <=> p.states[i].name = p.states[j].name

Ids(values) == {values[i].id : i \in DOMAIN values}

Types(values) == [i \in DOMAIN values |-> values[i].type]

FunctionNames(p) == {p.functions[i].name : i \in DOMAIN p.functions}

FunctionOf(p, name) ==
  p.functions[CHOOSE i \in DOMAIN p.functions : p.functions[i].name = name]

StateNames(p) == {p.states[i].name : i \in DOMAIN p.states}

StateOf(p) ==
  [s \in StateNames(p) |->
     p.states[CHOOSE i \in DOMAIN p.states : p.states[i].name = s]]

\* Everything the function defines before its k-th operation.
DefinedBefore(f, k) ==
  f.inputs \o FlattenSeq([j \in 1..k - 1 |-> f.ops[j].outputs])

Defined(f) == DefinedBefore(f, Len(f.ops) + 1)

TypeOf(f, id) ==
  LET all == Defined(f)
  IN  all[CHOOSE i \in DOMAIN all : all[i].id = id].type

InputTypes(f, op) == [i \in DOMAIN op.inputs |-> TypeOf(f, op.inputs[i])]

OutputTypes(f) == [i \in DOMAIN f.outputs |-> TypeOf(f, f.outputs[i])]

-----------------------------------------------------------------------------
(* Verification *)

UniqueNames(named) ==
  \A i, j \in DOMAIN named : named[i].name = named[j].name => i = j

DefinedBeforeUse(f) ==
  /\ \A k \in DOMAIN f.ops : ToSet(f.ops[k].inputs) \subseteq Ids(DefinedBefore(f, k))
  /\ ToSet(f.outputs) \subseteq Ids(Defined(f))

SingleAssignment(f) ==
  \A i, j \in DOMAIN Defined(f) : Defined(f)[i].id = Defined(f)[j].id => i = j

Interface(f) ==
  /\ f.inputs # <<>>
  /\ f.outputs # <<>>
  /\ IsInjective(f.outputs)

\* Shape symbols are declared.
SymbolsDeclared(p, type) == \A i \in DOMAIN type.shape : type.shape[i] > 0 \/ type.shape[i] \in p.symbols

TypesDeclared(p) ==
  /\ \A i \in DOMAIN p.states : SymbolsDeclared(p, p.states[i].type)
  /\ \A i \in DOMAIN p.functions :
       \A v \in ToSet(Defined(p.functions[i])) : SymbolsDeclared(p, v.type)

Calls(f) == {k \in DOMAIN f.ops : f.ops[k].opcode = "call"}

\* A repeated call feeds its outputs back as its inputs.
CallVerified(p, f, op) ==
  /\ DOMAIN op.attributes = {"callee", "repeat"}
  /\ op.attributes.callee \in FunctionNames(p)
  /\ op.attributes.repeat \in Nat \ {0}
  /\ LET callee == FunctionOf(p, op.attributes.callee) IN
       /\ InputTypes(f, op) = Types(callee.inputs)
       /\ Types(op.outputs) = OutputTypes(callee)
       /\ op.attributes.repeat > 1 => Types(callee.inputs) = OutputTypes(callee)

\* No function reaches itself: its callees have a smaller rank.
CallsAcyclic(p) ==
  \E rank \in [FunctionNames(p) -> 1..Len(p.functions)] :
    \A i \in DOMAIN p.functions : \A k \in Calls(p.functions[i]) :
      LET callee == p.functions[i].ops[k].attributes.callee
      IN  callee \in FunctionNames(p) => rank[callee] < rank[p.functions[i].name]

FunctionVerified(p, f) ==
  \A k \in DOMAIN f.ops :
    IF k \in Calls(f)
      THEN CallVerified(p, f, f.ops[k])
      ELSE OpVerified(f.ops[k], InputTypes(f, f.ops[k]), StateOf(p))

ProgramVerified(p) ==
  /\ p.functions # <<>> /\ UniqueNames(p.functions) /\ UniqueNames(p.states)
  /\ p.entry \in FunctionNames(p)
  /\ TypesDeclared(p)
  /\ \A i \in DOMAIN p.functions :
       /\ Interface(p.functions[i])
       /\ DefinedBeforeUse(p.functions[i])
       /\ SingleAssignment(p.functions[i])
  /\ CallsAcyclic(p)
  /\ \A i \in DOMAIN p.functions : FunctionVerified(p, p.functions[i])

-----------------------------------------------------------------------------
(* Expansion of the calls *)

Meta == {"constant", "constant_ref", "call"}

\* The sites <<function, operation>> one invocation executes, calls included,
\* when calls nest at most depth deep.
Expansion(p) ==
  LET sites[depth \in Nat] ==
        [name \in FunctionNames(p) |->
           LET ops == FunctionOf(p, name).ops IN
           FlattenSeq([k \in DOMAIN ops |->
             IF ops[k].opcode = "call"
               THEN IF depth = 0 THEN <<>>
                    ELSE FlattenSeq([r \in 1..ops[k].attributes.repeat |->
                                       sites[depth - 1][ops[k].attributes.callee]])
             ELSE IF ops[k].opcode \in Meta THEN <<>> ELSE <<<<name, k>>>>])]
  IN  sites[Len(p.functions)]

\* The number of invocations one call of each function leads to.
Invocations(p) ==
  LET count[depth \in Nat] ==
        [name \in FunctionNames(p) |->
           LET ops == FunctionOf(p, name).ops IN
           FoldLeft(LAMBDA n, op :
                      IF op.opcode = "call" /\ depth > 0
                        THEN n + op.attributes.repeat * count[depth - 1][op.attributes.callee]
                        ELSE n,
                    1, ops)]
  IN  count[Len(p.functions)]

\* The functions the entry reaches.
Reached(p) ==
  LET reach[depth \in Nat] ==
        IF depth = 0 THEN {p.entry}
        ELSE reach[depth - 1] \cup
             UNION {{FunctionOf(p, f).ops[k].attributes.callee : k \in Calls(FunctionOf(p, f))} :
                      f \in reach[depth - 1]}
  IN  reach[Len(p.functions)]

\* Calls, repeats and executed operations stay within the limit.
ExpansionBounded(p, limit) ==
  /\ \A f \in Reached(p) : \A k \in Calls(FunctionOf(p, f)) :
       FunctionOf(p, f).ops[k].attributes.repeat <= limit
  /\ Invocations(p)[p.entry] <= limit
  /\ Len(Expansion(p)[p.entry]) <= limit
=============================================================================
