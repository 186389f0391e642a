------------------------- MODULE MCProviderRegions -------------------------
(* One template for every provider, a second anchor where providers share
   operations between anchors, and every schedule one edit away; two edits for
   the small templates. *)
EXTENDS ProviderRegions

O(opcode, attr, ins, out) ==
  [opcode |-> opcode, attr |-> attr, ins |-> ins, out |-> out, inv |-> 1]

V(store, literal, type, names) ==
  [v \in names |-> [type |-> type, store |-> store, literal |-> literal]]

In0(type, names) == V("input", "none", type, names)
Tmp(type, names) == V("temp", "none", type, names)
Lit(literal, type, names) == V("constant", literal, type, names)

T(provider, list, vals, outs, gone, views, bound) ==
  [provider |-> provider, ops |-> list, values |-> vals, public |-> outs,
   elided |-> gone, views |-> views, maxEdits |-> bound]

Attention(kind, q, k, v, m, y) == O("scaled_dot_product_attention", kind, <<q, k, v, m>>, y)
Transpose(x, y) == O("transpose", "0213", <<x>>, y)
Rope(x, p, y) == O("rope_default", "split_half", <<x, p>>, y)
Fill(attr, x, y) == O("broadcast_in_dim", attr, <<x>>, y)

Singles ==
  {T("rms_norm", <<O("rms_norm", "exact", <<"x", "w">>, "y")>>,
     In0("a", {"x", "w", "x2"}) @@ Tmp("a", {"y"}), {"y"}, {}, {}, 2),
   T("layer_norm", <<O("layer_norm", "exact", <<"x", "w", "b">>, "y")>>,
     In0("a", {"x", "w", "b"}) @@ Tmp("a", {"y"}), {"y"}, {}, {}, 2),
   T("activation", <<O("gelu", "exact", <<"x">>, "y"), O("silu", "exact", <<"y">>, "z")>>,
     In0("a", {"x"}) @@ Tmp("a", {"y", "z"}), {"z"}, {}, {}, 2),
   T("time_embedding", <<O("sinusoidal_embedding", "exact", <<"x">>, "y")>>,
     In0("a", {"x"}) @@ Tmp("b", {"y"}), {"y"}, {}, {}, 2),
   T("action_slice", <<O("slice", "exact", <<"x">>, "y")>>,
     In0("a", {"x", "x2"}) @@ Tmp("b", {"y"}), {"y"}, {}, {}, 2)}

RopeTemplate ==
  T("rope", <<Transpose("q", "qt"), Transpose("k", "kt"), Rope("qt", "p", "qr"), Rope("kt", "p", "kr")>>,
    In0("bshd", {"q", "k"}) @@ In0("i32", {"p", "p2"}) @@ Tmp("bhsd", {"qt", "kt", "qr", "kr"}),
    {"qr", "kr"}, {}, {1, 2}, 2)

KvPackTemplate ==
  T("kv_pack",
    <<O("state_read", "sk", <<>>, "pk"), O("state_read", "sv", <<>>, "pv"),
      Transpose("kx", "kt"), Rope("kt", "p", "ck"), Transpose("vx", "cv"),
      O("concat", "axis2", <<"pk", "ck">>, "K"), O("concat", "axis2", <<"pv", "cv">>, "V"),
      Attention("grouped", "q", "K", "V", "m", "y")>>,
    In0("bshd", {"kx", "vx"}) @@ In0("query", {"q"}) @@ In0("mask", {"m"}) @@ In0("i32", {"p"})
      @@ V("state", "none", "prefix", {"sk", "sv"}) @@ V("alias", "none", "prefix", {"pk", "pv"})
      @@ Tmp("current", {"kt", "ck", "cv"}) @@ Tmp("packed", {"K", "V"}) @@ Tmp("query", {"y"}),
    {"y"}, {1, 2}, {3, 5}, 2)

PrefixStoreTemplate ==
  T("prefix_kv_store",
    <<Transpose("kx", "kt"), Rope("kt", "p", "K"), Transpose("vx", "V"),
      O("state_write", "sk", <<"K">>, ""), O("state_write", "sv", <<"V">>, ""),
      Attention("grouped", "q", "K", "V", "m", "y")>>,
    In0("bshd", {"kx", "vx"}) @@ In0("query", {"q"}) @@ In0("mask", {"m"}) @@ In0("i32", {"p"})
      @@ V("state", "none", "state", {"sk", "sv"})
      @@ Tmp("state", {"kt", "K", "V"}) @@ Tmp("query", {"y"}),
    {"y"}, {1, 3}, {1, 3}, 2)

\* Two blocks under one mask.
VisionTemplate ==
  T("vision",
    <<Fill("fill_mask", "m", "mask"),
      Transpose("q", "qt"), Transpose("k", "kt"), Transpose("v", "vt"),
      Attention("full", "qt", "kt", "vt", "mask", "a"), Transpose("a", "y"),
      Transpose("y", "qt2"), Transpose("k", "kt2"), Transpose("v", "vt2"),
      Attention("full", "qt2", "kt2", "vt2", "mask", "a2"), Transpose("a2", "y2")>>,
    In0("bshd", {"q", "k", "v"}) @@ In0("flag", {"m"}) @@ Tmp("mask", {"mask"})
      @@ Tmp("bhsd", {"qt", "kt", "vt", "a", "qt2", "kt2", "vt2", "a2"}) @@ Tmp("bshd", {"y", "y2"}),
    {"y2"}, {}, {}, 1)

SuffixTemplate ==
  T("suffix",
    <<Fill("prefix_over_queries", "pad", "pm"), Fill("fill_queries", "t", "sm"),
      O("concat", "axis2", <<"pm", "sm">>, "mask"),
      O("cast", "i32", <<"pad">>, "padi"), O("reduce_sum", "axis1", <<"padi">>, "n"),
      Fill("fill_positions", "n", "offset"), Fill("fill_positions", "t", "line"),
      O("cast", "i32", <<"line">>, "linei"), O("cumulative_sum", "axis1", <<"linei">>, "count"),
      O("add", "", <<"offset", "count">>, "sum"), Fill("fill_positions", "neg", "negs"),
      O("add", "", <<"sum", "negs">>, "p"), Fill("over_heads", "mask", "m4"),
      Rope("q", "p", "qr"), Attention("grouped", "qr", "k", "v", "m4", "y")>>,
    In0("pad", {"pad"}) @@ Lit("true", "flag", {"t"}) @@ Lit("minus_one", "i1", {"neg"})
      @@ In0("query", {"q"}) @@ In0("packed", {"k", "v"})
      @@ Tmp("prefix_mask", {"pm"}) @@ Tmp("suffix_mask", {"sm"}) @@ Tmp("mask", {"mask"})
      @@ Tmp("pad_i32", {"padi"}) @@ Tmp("i1", {"n"}) @@ Tmp("line", {"line"})
      @@ Tmp("i32", {"offset", "linei", "count", "sum", "negs", "p"})
      @@ Tmp("mask4", {"m4"}) @@ Tmp("query", {"qr", "y"}),
    {"y"}, {}, {}, 1)

PrefixInputTemplate ==
  T("prefix_input",
    <<O("gather", "axis0", <<"table", "tok">>, "emb"), Fill("fill_language", "root", "scale"),
      O("mul", "", <<"emb", "scale">>, "lang"), O("cast", "f32", <<"lang">>, "langf"),
      O("concat", "axis1", <<"i1", "i2", "i3", "langf">>, "prefix"),
      Fill("fill_image", "f1", "m1"), Fill("fill_image", "f2", "m2"), Fill("fill_image", "f3", "m3"),
      O("concat", "axis1", <<"m1", "m2", "m3", "tm">>, "pad"),
      O("cast", "i32", <<"pad">>, "padi"), O("cumulative_sum", "axis1", <<"padi">>, "count"),
      Fill("fill_positions", "neg", "negs"), O("add", "", <<"count", "negs">>, "p"),
      Rope("q", "p", "qr")>>,
    In0("embedding", {"table"}) @@ In0("tokens", {"tok"}) @@ In0("image", {"i1", "i2", "i3"})
      @@ In0("flag", {"f1", "f2", "f3"}) @@ In0("token_mask", {"tm"}) @@ In0("query", {"q"})
      @@ Lit("root_width", "scalar", {"root"}) @@ Lit("minus_one", "int", {"neg"})
      @@ Tmp("language", {"emb", "scale", "lang"}) @@ Tmp("language_f32", {"langf"})
      @@ Tmp("prefix_tokens", {"prefix"}) @@ Tmp("image_mask", {"m1", "m2", "m3"})
      @@ Tmp("pad_mask", {"pad"}) @@ Tmp("i32", {"padi", "count", "negs", "p"}) @@ Tmp("query", {"qr"}),
    {"prefix", "pad", "qr"}, {}, {}, 1)

\* Two norms under one pair of broadcasts of the literal one.
Norm(n, x, mod) ==
  LET v(s) == s \o n IN
  <<O("cast", "f32", <<x>>, v("xf")), O("slice", "0", <<mod>>, v("s0")), O("slice", "1024", <<mod>>, v("s1")),
    O("slice", "2048", <<mod>>, v("s2")), Fill("over_tokens", v("s0"), v("b0")),
    Fill("over_tokens", v("s1"), v("b1")), Fill("over_tokens", v("s2"), v("b2")),
    O("rms_norm", "1e-6", <<v("xf"), "weight">>, v("n")),
    O("add", "", <<"ones", v("b0")>>, v("sa")), O("mul", "", <<v("n"), v("sa")>>, v("sc")),
    O("add", "", <<v("sc"), v("b1")>>, v("sh")), O("cast", "bf16", <<v("sh")>>, v("y")),
    O("cast", "bf16", <<v("b2")>>, v("g"))>>

NormValues(n) ==
  LET v(s) == s \o n IN
  Tmp("hidden_f32", {v(s) : s \in {"xf", "b0", "b1", "b2", "n", "sa", "sc", "sh"}})
    @@ Tmp("vector", {v(s) : s \in {"s0", "s1", "s2"}}) @@ Tmp("hidden_bf16", {v("y"), v("g")})

AdaptiveTemplate ==
  T("adaptive",
    <<Fill("fill_width", "one", "weight"), Fill("fill_tokens", "one", "ones")>>
      \o Norm("a", "x", "moda") \o Norm("b", "x", "modb"),
    In0("hidden_bf16", {"x", "x2"}) @@ In0("modulation", {"moda", "modb"})
      @@ Lit("one", "scalar", {"one"}) @@ Tmp("weight", {"weight"}) @@ Tmp("hidden_f32", {"ones"})
      @@ NormValues("a") @@ NormValues("b"),
    {"ya", "ga", "yb", "gb"}, {}, {}, 1)

AllTemplates ==
  Singles \cup {RopeTemplate, KvPackTemplate, PrefixStoreTemplate, VisionTemplate, SuffixTemplate,
                PrefixInputTemplate, AdaptiveTemplate}

BothInvocations == {1, 2}

SameTypes ==
  [opcode \in UNION {{t.ops[i].opcode : i \in DOMAIN t.ops} : t \in AllTemplates} \cup {"relu"},
   attr \in UNION {{t.ops[i].attr : i \in DOMAIN t.ops} : t \in AllTemplates} \cup {"axis9", "512"} |->
     CASE opcode = "slice" /\ attr \in Starts -> (Starts \cup {"512"}) \ {attr}
       [] opcode = "cumulative_sum" -> {"axis9"} \ {attr}
       [] opcode \in {"rms_norm", "rope_default", "transpose"} -> {"axis9"} \ {attr}
       [] opcode = "scaled_dot_product_attention" -> {"axis9"} \ {attr}
       [] OTHER -> {}]

=============================================================================
