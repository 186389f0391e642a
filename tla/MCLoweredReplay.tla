-------------------------- MODULE MCLoweredReplay --------------------------
(* Two families of programs.  An entry function that calls a helper, the helper
   repeated up to three times and itself calling a second one, with constants
   shared between functions, with one type or two, states declared in either
   order, and the programs that must be refused; and programs small enough to
   be lowered in every way: entry functions of four operations over two states,
   and entry functions around a helper that is called once or twice, with every
   choice of operations, operands and states. *)
EXTENDS LoweredReplay

T2 == [dtype |-> "f32", shape |-> <<2>>, device |-> "cuda"]
T3 == [dtype |-> "f32", shape |-> <<3>>, device |-> "cuda"]

V(id, type) == [id |-> id, type |-> type]

Op(opcode, ins, outs, attributes) ==
  [opcode |-> opcode, inputs |-> ins, outputs |-> outs, attributes |-> attributes]

Silu(x, y) == Op("silu", <<x>>, <<V(y, T2)>>, <<>>)
Add(x, z, y) == Op("add", <<x, z>>, <<V(y, T2)>>, <<>>)
Const(name, y, type) == Op("constant_ref", <<>>, <<V(y, type)>>, [namespace |-> "w", name |-> name])
Literal(y) == Op("constant", <<>>, <<V(y, T2)>>,
                 [value |-> <<[kind |-> "int", inRange |-> TRUE], [kind |-> "int", inRange |-> TRUE]>>])
ReadOf(s, y) == Op("state_read", <<>>, <<V(y, T2)>>, [state |-> s])
Write(s, x) == Op("state_write", <<x>>, <<>>, [state |-> s])
CallTo(f, x, y, n) == Op("call", <<x>>, <<V(y, T2)>>, [callee |-> f, repeat |-> n])

Function(name, ins, body, outs) ==
  [name |-> name, inputs |-> ins, ops |-> body, outputs |-> outs]

\* Bodies of a helper from x to y.
HelperBodies(callee) ==
  {<<Silu("x", "y")>>,
   <<ReadOf("s", "r"), Add("x", "r", "y"), Write("s", "y")>>,
   <<Const("a", "c", T2), Literal("l"), Add("x", "c", "d"), Add("d", "l", "y")>>,
   <<Write("t", "x"), CallTo(callee, "x", "y", 2)>>,
   <<CallTo(callee, "x", "z", 1), CallTo(callee, "z", "y", 3)>>,
   <<Const("a", "c", T3), Silu("x", "y")>>}

\* Slips a frontend could make in the body of the second helper.
Slips ==
  {<<Silu("y", "z"), Silu("x", "y")>>, <<Silu("x", "x"), Silu("x", "y")>>,
   <<Silu("x", "y"), Silu("x", "y")>>, <<CallTo("f", "x", "y", 1)>>,
   <<CallTo("lost", "x", "y", 1)>>, <<CallTo("g", "x", "y", 1)>>,
   <<ReadOf("lost", "y")>>, <<Write("fixed", "x"), Silu("x", "y")>>, <<Silu("x", "z")>>}

State(name, order, writable) ==
  [name |-> name, order |-> order, writable |-> writable, type |-> T2]

MCStates == {<<State("s", 2, TRUE), State("t", 3, TRUE), State("fixed", 1, FALSE)>>,
             <<State("t", 3, TRUE), State("fixed", 1, FALSE), State("s", 2, TRUE)>>}

Program(main, f, g, states) ==
  [functions |-> <<Function("main", <<V("x", T2), V("z", T2)>>, main, <<"y">>),
                   Function("f", <<V("x", T2)>>, f, <<"y">>),
                   Function("g", <<V("x", T2)>>, g, <<"y">>)>>,
   entry |-> "main", states |-> states, symbols |-> {}]

Mains ==
  {<<CallTo("f", "x", "a", n), CallTo("f", "a", "b", 1), Add("b", "z", "y")>> : n \in 0..3}
  \cup {<<Const("a", "c", t), CallTo("f", "c", "b", n), Literal("l"), Add("b", "l", "y")>> :
          n \in {1, 2}, t \in {T2, T3}}
  \cup {<<Silu("x", "y")>>}

OpT2(opcode, ins, outs, attributes) ==
  Op(opcode, ins, [i \in DOMAIN outs |-> V(outs[i], T2)], attributes)

ConstA(y) == Const("a", y, T2)

\* Operations with operands in have, defining y; silu is pure, relu is not.
Makes(y, have) ==
  {OpT2("silu", <<a>>, <<y>>, <<>>) : a \in have}
  \cup {OpT2("reshape", <<a>>, <<y>>, [shape |-> <<2>>]) : a \in have}
  \cup {OpT2("transpose", <<a>>, <<y>>, [permutation |-> <<0>>]) : a \in have \ {"x"}}
  \cup {OpT2("add", <<a, b>>, <<y>>, <<>>) : a \in have, b \in have}
  \cup {OpT2("state_read", <<>>, <<y>>, [state |-> "s"])}

Writes(have) ==
  {OpT2("state_write", <<a>>, <<>>, [state |-> "s"]) : a \in have}
  \cup {OpT2("state_update", <<a>>, <<>>, [state |-> "s", axis |-> 0, start |-> 0]) : a \in have}

Read(y) == OpT2("state_read", <<>>, <<y>>, [state |-> "s"])
Relu(x, y) == OpT2("relu", <<x>>, <<y>>, <<>>)
CallF(x, y, n) == OpT2("call", <<x>>, <<y>>, [callee |-> "f", repeat |-> n])

\* A read, a value, a write, and an output computed after it.
Straight ==
  {<<Read("r"), a, w, b>> :
     a \in Makes("a", {"x", "r"}), w \in Writes({"a", "r"}), b \in Makes("y", {"a", "r"})}
  \cup {<<Read("r"), w, a, b>> :
     w \in Writes({"x", "r"}), a \in Makes("a", {"x", "r"}), b \in Makes("y", {"a", "r"})}
  \cup {<<a, b, Add("a", "c", "y")>> :
     a \in Makes("a", {"x"}), b \in Makes("c", {"a", "x"})}

Bodies ==
  {<<Read("r"), Add("x", "r", "y"), w>> : w \in Writes({"x", "r", "y"})}
  \cup {<<w, Read("r"), Add("x", "r", "y")>> : w \in Writes({"x"})}
  \cup {<<ConstA("c"), Relu("x", "d"), Add("d", "c", "y"), Write("t", "d")>>,
        <<Relu("x", "y"), OpT2("silu", <<"x">>, <<"d">>, <<>>)>>}

Callers ==
  {<<Read("q"), CallF(a, "b", n), m>> :
     a \in {"x", "q"}, n \in 1..2, m \in Makes("y", {"b", "q"})}
  \cup {<<ConstA("q"), CallF("x", "b", n), CallF("q", "d", 1), Add("b", "d", "y")>> : n \in 1..2}

TwoStates == {<<State("t", 2, TRUE), State("s", 1, TRUE)>>}

\* Lowered in every way.
Lowerable ==
  {Program(m, <<Relu("x", "y")>>, <<Silu("x", "y")>>, s) : m \in Straight, s \in TwoStates}
  \cup {Program(m, f, <<Silu("x", "y")>>, s) : m \in Callers, f \in Bodies, s \in TwoStates}

\* Scheduled, and lowered as far as MaxLoweredOps allows.
MCPrograms ==
  Lowerable
  \cup {Program(m, f, g, s) : m \in Mains, f \in HelperBodies("g"), s \in MCStates,
          g \in {b \in HelperBodies("none") : \A k \in DOMAIN b : b[k].opcode # "call"}}
  \cup {Program(m, f, g, s) : m \in Mains, f \in HelperBodies("g"), g \in Slips, s \in MCStates}
  \cup {[Program(m, <<Silu("x", "y")>>, <<Silu("x", "y")>>, s)
           EXCEPT !.entry = e, !.functions[2].name = n] :
          m \in Mains, s \in MCStates, e \in {"main", "f", "lost"}, n \in {"f", "main"}}
=============================================================================
