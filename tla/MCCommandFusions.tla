-------------------------- MODULE MCCommandFusions --------------------------
(* A feed-forward block with separate and with packed projections, a chain of
   two normalizations joined by residuals, and a projection that is split,
   rotated and packed next to its attention; every schedule one edit away. *)
EXTENDS CommandFusions

O(opcode, attr, ins, out) ==
  [opcode |-> opcode, attr |-> attr, ins |-> ins, out |-> out, inv |-> 1]

V(store, literal, type, names) ==
  [v \in names |-> [type |-> type, store |-> store, literal |-> literal]]

In0(type, names) == V("input", "none", type, names)
Tmp(type, names) == V("temp", "none", type, names)

T(list, vals, outs, gone) ==
  [ops |-> list, values |-> vals, public |-> outs, elided |-> gone, views |-> {}, maxEdits |-> 1]

Linear(w, x, y) == O("linear", w, <<x>>, y)
Mul(a, b, y) == O("mul", "", <<a, b>>, y)
Add(a, b, y) == O("add", "", <<a, b>>, y)
Fill(attr, x, y) == O("broadcast_in_dim", attr, <<x>>, y)

FeedForward ==
  T(<<Linear("gate", "x", "g"), Linear("up", "x", "u"), O("gelu", "tanh", <<"g">>, "a"),
      Mul("u", "a", "m"), Add("m", "x", "y")>>,
    In0("ffn", {"x"}) @@ Tmp("ffn", {"g", "u", "a", "m", "y"}), {"y"}, {})

PackedFeedForward ==
  T(<<Linear("both", "x", "p"), O("slice", "half0", <<"p">>, "g"), O("slice", "half1", <<"p">>, "u"),
      O("gelu", "tanh", <<"g">>, "a"), Mul("a", "u", "m"), Add("x", "m", "y")>>,
    In0("ffn", {"x"}) @@ Tmp("packed_ffn", {"p"}) @@ Tmp("ffn", {"g", "u", "a", "m", "y"}),
    {"y"}, {})

NormOps(n, x, mod) ==
  LET v(s) == s \o n IN
  <<O("cast", "f32", <<x>>, v("xf")), O("slice", "0", <<mod>>, v("s0")), O("slice", "1024", <<mod>>, v("s1")),
    O("slice", "2048", <<mod>>, v("s2")), Fill("over_tokens", v("s0"), v("b0")),
    Fill("over_tokens", v("s1"), v("b1")), Fill("over_tokens", v("s2"), v("b2")),
    O("rms_norm", "1e-6", <<v("xf"), "weight">>, v("n")),
    Add("ones", v("b0"), v("sa")), Mul(v("n"), v("sa"), v("sc")),
    Add(v("sc"), v("b1"), v("sh")), O("cast", "bf16", <<v("sh")>>, v("y")),
    O("cast", "bf16", <<v("b2")>>, v("g"))>>

NormValues(n) ==
  LET v(s) == s \o n IN
  Tmp("hidden_f32", {v(s) : s \in {"xf", "b0", "b1", "b2", "n", "sa", "sc", "sh"}})
    @@ Tmp("vector", {v(s) : s \in {"s0", "s1", "s2"}}) @@ Tmp("hidden_bf16", {v("y"), v("g")})

ResidualChain ==
  T(<<Fill("fill_width", "one", "weight"), Fill("fill_tokens", "one", "ones")>>
      \o NormOps("a", "x", "moda")
      \o <<Linear("w1", "ya", "u"), Mul("u", "ga", "p"), Add("p", "x", "r")>>
      \o NormOps("b", "r", "modb")
      \o <<Linear("w2", "yb", "w"), Mul("gb", "w", "q"), Add("r", "q", "out")>>,
    In0("hidden_bf16", {"x"}) @@ In0("modulation", {"moda", "modb"})
      @@ V("constant", "one", "scalar", {"one"}) @@ Tmp("weight", {"weight"}) @@ Tmp("hidden_f32", {"ones"})
      @@ NormValues("a") @@ NormValues("b") @@ Tmp("hidden_bf16", {"u", "p", "r", "w", "q", "out"}),
    {"out"}, {})

\* The one-head transposes of keys and values are views, as the state reads are.
SplitRotatePack ==
  T(<<O("state_read", "sk", <<>>, "pk"), O("state_read", "sv", <<>>, "pv"), Linear("qkv", "x", "p"),
      O("slice", "part0", <<"p">>, "q"), O("slice", "part1", <<"p">>, "k"), O("slice", "part2", <<"p">>, "v"),
      O("transpose", "0213", <<"q">>, "qt"), O("rope_default", "split_half", <<"qt", "pos">>, "qr"),
      O("transpose", "0213", <<"k">>, "kt"), O("rope_default", "split_half", <<"kt", "pos">>, "kr"),
      O("transpose", "0213", <<"v">>, "vt"),
      O("concat", "axis2", <<"pk", "kr">>, "K"), O("concat", "axis2", <<"pv", "vt">>, "V"),
      O("scaled_dot_product_attention", "grouped", <<"qr", "K", "V", "m">>, "y")>>,
    In0("hidden_bf16", {"x"}) @@ In0("mask", {"m"}) @@ In0("positions", {"pos", "pos2"})
      @@ V("state", "none", "prefix", {"sk", "sv"}) @@ V("alias", "none", "prefix", {"pk", "pv"})
      @@ Tmp("projected", {"p"}) @@ Tmp("query_part", {"q"}) @@ Tmp("kv_part", {"k", "v"})
      @@ Tmp("current", {"kt", "kr", "vt"}) @@ Tmp("query", {"qt", "qr", "y"}) @@ Tmp("packed", {"K", "V"}),
    {"y"}, {1, 2, 9, 11})

AllTemplates == {FeedForward, PackedFeedForward, ResidualChain, SplitRotatePack}

BothInvocations == {1, 2}

SameTypes ==
  [opcode \in UNION {{t.ops[i].opcode : i \in DOMAIN t.ops} : t \in AllTemplates} \cup {"relu"},
   attr \in UNION {{t.ops[i].attr : i \in DOMAIN t.ops} : t \in AllTemplates} |->
     CASE opcode = "slice" /\ attr \in {"half0", "half1"} -> {"half0", "half1"} \ {attr}
       [] opcode = "slice" /\ attr \in {"part1", "part2"} -> {"part1", "part2"} \ {attr}
       [] OTHER -> {}]

=============================================================================
