------------------------- MODULE ReferenceExecutor -------------------------
(***************************************************************************)
(* execute of src/aginfer/ir/executor.py: the meaning of a program.  A     *)
(* tensor is the term that computes its bytes; an operation that keeps the *)
(* bytes of its operand, such as a reshape, is the term of the operand.    *)
(***************************************************************************)
EXTENDS ProgramIR, TLC

Term(symbol, args) == [symbol |-> symbol, args |-> args]

Leaf(kind, name) == Term(<<kind, name>>, <<>>)

\* A constant of the program: a literal is identified by its site.
ConstantTerm(f, k) ==
  LET op == f.ops[k]
  IN  IF op.opcode = "constant" THEN Leaf("literal", <<f.name, k>>)
      ELSE Leaf("constant", <<op.attributes.namespace, op.attributes.name>>)

\* The tensor an operation other than a call or a state access computes.
Computed(op, args) == Term(<<op.opcode, op.attributes>>, args)

\* A bounded update keeps what it does not overwrite.
Updated(op, old, source) ==
  Term(<<"state_update", op.attributes.axis, op.attributes.start>>, <<old, source>>)

RECURSIVE ExecuteFunction(_, _, _, _)
RECURSIVE Repeat(_, _, _, _, _)

\* One operation: the values defined so far and the states after it.
ExecuteOp(p, f, k, at) ==
  LET op == f.ops[k]
      args == [i \in DOMAIN op.inputs |-> at.values[op.inputs[i]]]
      Define(term) == [at EXCEPT !.values = (op.outputs[1].id :> term) @@ @]
  IN  CASE op.opcode \in {"constant", "constant_ref"} -> Define(ConstantTerm(f, k))
        [] op.opcode = "state_read" -> Define(at.states[op.attributes.state])
        [] op.opcode = "state_write" -> [at EXCEPT !.states[op.attributes.state] = args[1]]
        [] op.opcode = "state_update" ->
             [at EXCEPT !.states[op.attributes.state] = Updated(op, @, args[1])]
        [] op.opcode = "call" ->
             LET done == Repeat(p, op.attributes.callee, args, at.states, op.attributes.repeat)
             IN  [values |-> [id \in Ids(op.outputs) |->
                                done.outputs[CHOOSE i \in DOMAIN op.outputs : op.outputs[i].id = id]]
                             @@ at.values,
                  states |-> done.states]
        [] OTHER ->
             Define(IF KeepsBytes(op, TypeOf(f, op.inputs[1]), Output(op)) THEN args[1]
                    ELSE Computed(op, args))

Repeat(p, callee, args, states, times) ==
  LET once == ExecuteFunction(p, callee, args, states)
  IN  IF times = 1 THEN once ELSE Repeat(p, callee, once.outputs, once.states, times - 1)

ExecuteFunction(p, name, args, states) ==
  LET f == FunctionOf(p, name)
      start == [values |-> [id \in Ids(f.inputs) |->
                              args[CHOOSE i \in DOMAIN f.inputs : f.inputs[i].id = id]],
                states |-> states]
      end == FoldLeft(LAMBDA at, k : ExecuteOp(p, f, k, at), start, [k \in DOMAIN f.ops |-> k])
  IN  [outputs |-> [i \in DOMAIN f.outputs |-> end.values[f.outputs[i]]],
       states |-> end.states]

InitialStates(p) == [s \in StateNames(p) |-> Leaf("state", s)]

InputTerms(p) ==
  LET f == FunctionOf(p, p.entry)
  IN  [i \in DOMAIN f.inputs |-> Leaf("input", f.inputs[i].id)]

\* The outputs and the states after one run of the entry function.
Execute(p) == ExecuteFunction(p, p.entry, InputTerms(p), InitialStates(p))
=============================================================================
