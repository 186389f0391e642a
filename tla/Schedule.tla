------------------------------ MODULE Schedule ------------------------------
(***************************************************************************)
(* build_execution_schedule of src/aginfer/lowering/schedule.py: the calls *)
(* of a program are inlined, repeats unrolled, and every value gets a      *)
(* number.  The recursion of inline() is an explicit stack of frames.      *)
(***************************************************************************)
EXTENDS ProgramIR

CONSTANTS
  Programs,        \* programs submitted to the compiler
  MaxExpandedOps

ASSUME ScheduleAssumption ==
  MaxExpandedOps \in Nat \ {0} /\ \A p \in Programs : IsProgram(p)

VARIABLES
  program,
  progress,     \* "submitted", "inlining", "scheduled" or "refused"
  values,       \* the values: storage, type, producer, alias target, identity
  ops,          \* the operations of the schedule
  invocations,  \* [function, parent, repeat] of each invocation
  shared,       \* value number of each constant seen so far
  stack,        \* frames of inline(), the running one last
  outputs       \* value numbers of the entry outputs

scheduleVars ==
  <<program, progress, values, ops, invocations, shared, stack, outputs>>

None == 0   \* values, operations and invocations are numbered from 1

Entry == FunctionOf(program, program.entry)

Frame == stack[Len(stack)]

Running == FunctionOf(program, Frame.function)

Current == Running.ops[Frame.pc]

Value(storage, type, producer, alias, identity) ==
  [storage |-> storage, type |-> type, producer |-> producer, alias |-> alias,
   identity |-> identity]

MaxValues == MaxExpandedOps * 8 + Len(program.states) + Len(Entry.inputs)

Site(f, k) == <<f.name, k>>

\* What two constant operations share: the name of the constant, or the place of
\* the literal.
Identity(op) ==
  IF op.opcode = "constant_ref"
    THEN <<"constant", <<op.attributes.namespace, op.attributes.name>>>>
    ELSE <<"literal", Site(Running, Frame.pc)>>

\* The states in the order of their names.
SortedStates(p) ==
  LET Before(k) == {j \in DOMAIN p.states : p.states[j].order < p.states[k].order}
  IN  [i \in DOMAIN p.states |->
         p.states[CHOOSE k \in DOMAIN p.states : Cardinality(Before(k)) = i - 1]]

\* Fault: the states are numbered from one.
StateValueOfStates(s) ==
  CHOOSE i \in DOMAIN program.states : SortedStates(program)[i].name = s

\* The number of a state's value: the entry inputs come first.
StateValue(s) ==
  Len(Entry.inputs)
  + CHOOSE i \in DOMAIN program.states : SortedStates(program)[i].name = s

\* Local names of a function call, bound to value numbers.
Bind(names, numbers) ==
  [id \in Range(names) |-> numbers[CHOOSE i \in DOMAIN names : names[i] = id]]

ExtendEnv(env, names, numbers) ==
  [id \in DOMAIN env \cup Range(names) |->
     IF id \in Range(names) THEN Bind(names, numbers)[id] ELSE env[id]]

NamesOf(list) == [i \in DOMAIN list |-> list[i].id]

NewFrame(function, numbers) ==
  [function |-> function, pc |-> 1, turn |-> 1,
   env |-> Bind(NamesOf(FunctionOf(program, function).inputs), numbers),
   invocation |-> Len(invocations) + 1]

\* A frame at its next operation.
Advance(frame, env) == [frame EXCEPT !.pc = @ + 1, !.turn = 1, !.env = env]

Advanced(env) == [stack EXCEPT ![Len(stack)] = Advance(@, env)]

Numbers(ids) == [i \in DOMAIN ids |-> Frame.env[ids[i]]]

-----------------------------------------------------------------------------
(* Actions *)

Init ==
  /\ program \in Programs
  /\ progress = "submitted"
  /\ values = <<>> /\ ops = <<>> /\ invocations = <<>>
  /\ shared = <<>> /\ stack = <<>> /\ outputs = <<>>

Compilable == ProgramVerified(program) /\ ExpansionBounded(program, MaxExpandedOps)

Refuse ==
  /\ progress = "submitted"
  /\ ~Compilable
  /\ progress' = "refused"
  /\ UNCHANGED <<program, values, ops, invocations, shared, stack, outputs>>

\* Number the entry inputs and the states, then inline the entry function.
Start ==
  /\ progress = "submitted"
  /\ Compilable
  /\ progress' = "inlining"
  /\ values' =
       [i \in DOMAIN Entry.inputs |->
          Value("input", Entry.inputs[i].type, None, None, <<>>)]
       \o [i \in DOMAIN program.states |->
             Value("state", SortedStates(program)[i].type, None, None, <<>>)]
  /\ invocations' = <<[function |-> program.entry, parent |-> None, repeat |-> 1]>>
  /\ stack' = <<NewFrame(program.entry, [i \in DOMAIN Entry.inputs |-> i])>>
  /\ UNCHANGED <<program, ops, shared, outputs>>

Inlining == progress = "inlining" /\ stack # <<>>

InBody == Inlining /\ Frame.pc \in DOMAIN Running.ops

\* Fault: the second use of a constant is not compared with the first.
ConflictIgnored(key, type) == FALSE

\* The same constant cannot have two types.
Conflict(key, type) == key \in DOMAIN shared /\ values[shared[key]].type # type

\* A constant is numbered once, wherever and however often it is executed.
InlineConstant ==
  /\ InBody /\ Current.opcode \in {"constant", "constant_ref"}
  /\ LET key == Identity(Current)
         known == key \in DOMAIN shared
         number == IF known THEN shared[key] ELSE Len(values) + 1
         type == Output(Current)
     IN  IF Conflict(key, type) \/ number > MaxValues
           THEN progress' = "refused" /\ UNCHANGED <<values, shared, stack>>
           ELSE /\ values' = IF known THEN values
                             ELSE Append(values, Value("constant", type, None, None, key))
                /\ shared' = [k \in DOMAIN shared \cup {key} |-> IF k = key THEN number ELSE shared[k]]
                /\ stack' = Advanced(ExtendEnv(Frame.env, NamesOf(Current.outputs), <<number>>))
                /\ UNCHANGED progress
  /\ UNCHANGED <<program, ops, invocations, outputs>>

Invocation(function, parent, repeat) ==
  [function |-> function, parent |-> parent, repeat |-> repeat]

InlineCall ==
  /\ InBody /\ Current.opcode = "call"
  /\ invocations' =
       Append(invocations, Invocation(Current.attributes.callee, Frame.invocation, 1))
  /\ stack' = Append(stack, NewFrame(Current.attributes.callee, Numbers(Current.inputs)))
  /\ UNCHANGED <<program, progress, values, ops, shared, outputs>>

\* A runtime operation is appended; what it defines gets the next number.
InlineOp ==
  /\ InBody /\ Current.opcode \notin Meta
  /\ LET index == Len(ops) + 1
         new == [i \in DOMAIN Current.outputs |->
                   IF Current.opcode = "state_read"
                     THEN Value("state_alias", Current.outputs[i].type, index,
                                StateValue(Current.attributes.state), <<>>)
                     ELSE Value("temporary", Current.outputs[i].type, index, None, <<>>)]
         numbers == [i \in DOMAIN new |-> Len(values) + i]
     IN  IF Len(values) + Len(new) > MaxValues
           THEN progress' = "refused" /\ UNCHANGED <<values, ops, stack>>
           ELSE /\ values' = values \o new
                /\ ops' = Append(ops,
                     [invocation |-> Frame.invocation, site |-> Site(Running, Frame.pc),
                      opcode |-> Current.opcode, attributes |-> Current.attributes,
                      inputs |-> Numbers(Current.inputs), outputs |-> numbers])
                /\ stack' = Advanced(ExtendEnv(Frame.env, NamesOf(Current.outputs), numbers))
                /\ UNCHANGED progress
  /\ UNCHANGED <<program, invocations, shared, outputs>>

Caller == stack[Len(stack) - 1]

Call == FunctionOf(program, Caller.function).ops[Caller.pc]

MoreTurns == Caller.turn < Call.attributes.repeat

\* Fault: every repeat of a call starts from the inputs of the first.
RepeatFromStart ==
  /\ Inlining /\ Frame.pc > Len(Running.ops) /\ Len(stack) > 1
  /\ MoreTurns
  /\ invocations' =
       Append(invocations, Invocation(Frame.function, Caller.invocation, Caller.turn + 1))
  /\ stack' =
       Append([Front(stack) EXCEPT ![Len(stack) - 1].turn = @ + 1],
              NewFrame(Frame.function,
                       [i \in DOMAIN Call.inputs |-> Caller.env[Call.inputs[i]]]))
  /\ UNCHANGED <<program, progress, values, ops, shared, outputs>>

\* The next repeat of a call takes the outputs of the one that has returned.
RepeatCall ==
  /\ Inlining /\ Frame.pc > Len(Running.ops) /\ Len(stack) > 1
  /\ MoreTurns
  /\ invocations' =
       Append(invocations, Invocation(Frame.function, Caller.invocation, Caller.turn + 1))
  /\ stack' =
       Append([Front(stack) EXCEPT ![Len(stack) - 1].turn = @ + 1],
              NewFrame(Frame.function, Numbers(Running.outputs)))
  /\ UNCHANGED <<program, progress, values, ops, shared, outputs>>

ReturnFromCall ==
  /\ Inlining /\ Frame.pc > Len(Running.ops) /\ Len(stack) > 1
  /\ ~MoreTurns
  /\ stack' =
       [Front(stack) EXCEPT ![Len(stack) - 1] =
          Advance(@, ExtendEnv(Caller.env, NamesOf(Call.outputs), Numbers(Running.outputs)))]
  /\ UNCHANGED <<program, progress, values, ops, invocations, shared, outputs>>

Finish ==
  /\ Inlining /\ Frame.pc > Len(Running.ops) /\ Len(stack) = 1
  /\ outputs' = Numbers(Running.outputs)
  /\ stack' = <<>>
  /\ progress' = "scheduled"
  /\ UNCHANGED <<program, values, ops, invocations, shared>>

Next ==
  \/ Refuse \/ Start
  \/ InlineConstant \/ InlineCall \/ InlineOp
  \/ RepeatCall \/ ReturnFromCall \/ Finish

Spec == Init /\ [][Next]_scheduleVars

-----------------------------------------------------------------------------
(* Properties *)

\* The assertions of _verify_schedule hold of every schedule, also of one that
\* is still being built: an operation reads what is numbered and produced before
\* it, defines values nothing else defines, and only state reads are aliases.
ScheduleVerified ==
  /\ \A k \in DOMAIN ops :
       /\ \A i \in DOMAIN ops[k].inputs :
            ops[k].inputs[i] \in DOMAIN values /\ values[ops[k].inputs[i]].producer < k
       /\ \A i \in DOMAIN ops[k].outputs : values[ops[k].outputs[i]].producer = k
  /\ \A v \in DOMAIN values :
       /\ values[v].storage \in {"state_alias", "temporary"} <=> values[v].producer # None
       /\ values[v].producer # None =>
            \E i \in DOMAIN ops[values[v].producer].outputs :
              ops[values[v].producer].outputs[i] = v
       /\ IF values[v].storage = "state_alias"
            THEN values[values[v].alias].storage = "state" ELSE values[v].alias = None
  /\ \A i \in DOMAIN outputs : outputs[i] \in DOMAIN values

\* A value keeps the type the program declares for it through every call and
\* every repeat, and what a name is bound to is never renumbered.
BindingsTyped ==
  \A n \in DOMAIN stack :
    LET f == FunctionOf(program, stack[n].function) IN
    /\ DOMAIN stack[n].env = Ids(DefinedBefore(f, stack[n].pc))
    /\ \A id \in DOMAIN stack[n].env :
         stack[n].env[id] \in DOMAIN values
         /\ values[stack[n].env[id]].type = TypeOf(f, id)
=============================================================================
