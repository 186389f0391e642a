---------------------------- MODULE MCTensorOps ----------------------------
(* Every opcode on small tensors, declared with the right output, with the
   output of a neighbouring operation, and with attributes at their limits. *)
EXTENDS TensorOps

N == -1   \* a shape symbol

T(dtype, shape) == [dtype |-> dtype, shape |-> shape, device |-> "cpu"]

F(shape) == T("f32", shape)

Case(opcode, types, outs, attributes) ==
  {[op |-> [opcode |-> opcode, inputs |-> [i \in DOMAIN types |-> i],
            outputs |-> <<[id |-> "y", type |-> out]>>, attributes |-> a],
    types |-> types] : out \in outs, a \in attributes}

Literal(kind, ok) == [kind |-> kind, inRange |-> ok]

ConstantCases ==
  Case("constant", <<>>, {T(d, <<2>>) : d \in {"f32", "i32", "bool"}} \cup {F(<<N>>)},
       {[value |-> v] : v \in {<<Literal(k, ok), Literal(k, TRUE)>> :
          k \in {"bool", "int", "float"}, ok \in BOOLEAN} \cup {<<Literal("int", TRUE)>>}})
  \cup Case("constant_ref", <<>>, {F(<<2>>)}, {[namespace |-> "w", name |-> "a"]})

PointCases ==
  UNION {Case(o, <<T(d, <<2, N>>), T(d, <<2, w>>)>>, {T(e, <<2, N>>) : e \in {"f32", "bool"}}, {<<>>}) :
           o \in {"add", "mul", "logical_and"}, d \in {"f32", "bool"}, w \in {N, 2}}
  \cup UNION {Case(o, <<T(d, <<2, N>>)>>, {T(d, <<2, N>>)}, a) :
           o \in {"relu", "gelu", "cast"}, d \in {"f32", "i32"},
           a \in {{<<>>}, {[approximation |-> "tanh"]}, {[dtype |-> "i32"], [dtype |-> "bool"]}}}
  \cup UNION {Case("cast", <<F(<<2, N>>)>>, {T(d, <<2, N>>)}, {[dtype |-> d]}) :
           d \in {"f32", "bool", "bf16"}}

Shapes3 == {<<2, 3, 2>>, <<3, 2>>, <<2, N>>}

AxisCases ==
  UNION {Case(o, <<T(d, s)>>, {T(d, s)}, {[axis |-> a] : a \in -1..3}) :
           o \in {"softmax", "cumulative_sum"}, d \in {"f32", "bool"}, s \in Shapes3}

ConcatCases ==
  UNION {Case("concat", <<F(s), F(t), F(s)>>, {F(u) : u \in {<<2, 6>>, <<4, 2>>, <<6, 2>>, <<2, 5>>, <<5, 2>>, <<8, N>>, <<7, 2>>}},
              {[axis |-> a] : a \in 0..1}) :
           s \in {<<2, 2>>, <<2, N>>, <<3, 2>>}, t \in {<<2, 2>>, <<2, 1>>, <<1, 2>>, <<4, N>>}}

SliceCases ==
  UNION {Case("slice", <<F(s)>>, {F([s EXCEPT ![a + 1] = n]) : n \in 1..3},
              {[axis |-> b, start |-> x, stop |-> y] : b \in {a, 1}, x \in -1..2, y \in 1..4}) :
           s \in Shapes3, a \in 0..1}

ReduceCases ==
  UNION {Case(o, <<T(d, <<2, N, 3>>)>>,
              {T(d, s) : s \in {<<2, N>>, <<1, N, 1>>, <<N>>, <<2, 1, 3>>, <<3>>, <<>>, <<2, 3>>}},
              {[axes |-> a, keepdims |-> k] : k \in BOOLEAN,
                 a \in {<<2>>, <<0, 2>>, <<2, 0>>, <<1>>, <<0, 1>>, <<1, 1>>, <<0, 1, 2>>, <<3>>, <<>>}}) :
           o \in {"reduce_sum", "reduce_max"}, d \in {"f32", "bool"}}

MoveCases ==
  UNION {Case("reshape", <<F(s)>>, {F(t)}, {[shape |-> u] : u \in {t, <<4, 3>>}}) :
           s \in {<<2, 3, 2>>, <<2, N>>}, t \in {<<6, 2>>, <<12>>, <<3, 4>>, <<5>>, <<>>}}
  \cup UNION {Case("transpose", <<F(s)>>, {F(t) : t \in {<<3, 2, 2>>, <<2, 2, 3>>, <<N, 3, 2>>, <<2, 3, 2>>, <<3, 2, N>>}},
              {[permutation |-> p] : p \in {<<1, 2, 0>>, <<2, 0, 1>>, <<1, 0, 2>>, <<0, 1, 1>>, <<0, 1>>}}) :
           s \in {<<2, 3, 2>>, <<2, 3, N>>}}
  \cup UNION {Case("transpose", <<F(s)>>, {F(t) : t \in {<<2, 2>>, <<2, 1, 2>>, <<1, 2, 2>>, <<2, 2, 1>>}},
              {[permutation |-> p] : p \in {<<1, 0>>, <<0, 1>>, <<1, 2, 0>>, <<2, 0, 1>>, <<1, 0, 2>>, <<2, 1, 0>>}}) :
           s \in {<<2, 2>>, <<2, 1, 2>>, <<1, 2, 2>>}}
  \cup UNION {Case("broadcast_in_dim", <<F(s)>>, {F(t)},
              {[shape |-> t, broadcast_dimensions |-> b] : b \in {<<0>>, <<1>>, <<0, 1>>, <<1, 2>>, <<0, 2>>}}) :
           s \in {<<2>>, <<2, 3>>, <<1, 2>>}, t \in {<<1, 2>>, <<2, 3, 1>>, <<1, 2, 3>>, <<2, 2>>}}
  \cup UNION {Case("broadcast_in_dim", <<F(s)>>, {F(t)},
              {[shape |-> t, broadcast_dimensions |-> b] :
                 b \in {<<0>>, <<1>>, <<0, 1>>, <<1, 2>>, <<1, 0>>, <<0, 2>>, <<1, 3>>, <<>>}}) :
           s \in {<<1>>, <<2>>, <<2, 1>>, <<1, N>>, <<>>}, t \in {<<3, 2>>, <<2, 2, 3>>, <<2, N>>, <<3, 2, N>>}}

ContractCases ==
  UNION {Case("matmul", <<F(a), F(b)>>, {F(<<2, 2>>), F(<<2, 3>>), F(<<N, 2>>)}, {<<>>}) :
           a \in {<<2, 3>>, <<N, 3>>, <<3>>}, b \in {<<3, 2>>, <<3, 3>>, <<2, 3>>}}
  \cup UNION {Case("linear", <<F(a), F(b), T(d, <<2>>)>>, {F(<<2, N, 2>>), F(<<2>>), F(<<2, N, 3>>)}, {<<>>}) :
           a \in {<<2, N, 3>>, <<3>>, <<>>}, b \in {<<2, 3>>, <<3, 2>>}, d \in {"f32", "i32"}}
  \cup UNION {Case("conv2d", <<F(<<n, 2, 3, 4>>), F(<<2, ch, 2, k>>), F(<<2>>)>>,
              {F(<<n, 2, h, w>>) : h \in 1..4, w \in 1..4},
              {[strides |-> s, pads |-> p] : s \in {<<1, 1>>, <<2, 3>>, <<0, 1>>},
                 p \in {<<0, 0, 0, 0>>, <<1, 0, 0, 1>>, <<0, 1, 1, 0>>}}) :
           n \in {1, N}, ch \in {1, 2}, k \in {1, 3, 5}}
  \cup UNION {Case("gather", <<T(d, <<3, 2>>), T(e, s)>>, {F(<<2, N, 2>>), F(<<2>>), F(<<2, N>>)}, {<<>>}) :
           d \in {"f32", "i32"}, e \in {"f32", "i32"}, s \in {<<2, N>>, <<>>}}
  \cup UNION {Case(o, <<T("bf16", <<2, w>>)>> \o [i \in 1..n |-> T(d, <<2>>)],
              {T("bf16", <<2, w>>)}, {[epsilon |-> e] : e \in 0..1}) :
           o \in {"rms_norm", "layer_norm"}, n \in 1..2, d \in {"bf16", "f32", "i32"}, w \in {2, 3}}
  \cup UNION {Case("sinusoidal_embedding", <<F(s)>>, {F(<<N, n>>), F(<<n>>)},
              {[dimension |-> k, min_period |-> lo, max_period |-> 2] : k \in {3, 4}, lo \in 0..3}) :
           s \in {<<N>>, <<2, 2>>}, n \in {3, 4}}

HeadCases ==
  UNION {Case("rope", <<F(<<2, 2, N, h>>), F(c), F(<<3, 2>>), T("i32", p)>>, {F(<<2, 2, N, h>>)},
              {[pairing |-> q] : q \in {"interleaved", "split_half", "other"}}) :
           h \in {3, 4}, c \in {<<3, 2>>, <<3, 4>>}, p \in {<<2, N>>, <<N, 2>>}}
  \cup UNION {Case("rope_default", <<F(<<2, 2, N, h>>), T(d, p)>>, {F(<<2, 2, N, h>>)},
              {[pairing |-> q, theta |-> th, frequency_dtype |-> e] :
                 q \in {"interleaved", "split_half"}, th \in 0..1, e \in {"bf16", "i32"}}) :
           h \in {3, 4}, d \in {"i32", "f32"}, p \in {<<2, N>>, <<N, 2>>}}
  \cup UNION {Case("scaled_dot_product_attention",
              <<F(<<n, q, 2, 2>>), F(<<n, g, 3, 2>>), F(<<n, g, k, 1>>), T("bool", <<n, q, 2, 3>>)>>,
              {F(<<n, q, 2, 1>>), F(<<n, q, 2, 2>>)},
              {[scale |-> s, kv_group_size |-> z, mask_fill |-> m] :
                 s \in 0..1, z \in 1..2, m \in {"dtype_min", "zero"}}) :
           n \in {1, N}, q \in {2, 4}, g \in {1, 2}, k \in {2, 3}}

MCStates == [s \in {"kv", "fixed"} |->
  [type |-> F(<<2, 3, 2>>), writable |-> s = "kv"]]

Effect(opcode, types, attributes) ==
  {[op |-> [opcode |-> opcode, inputs |-> [i \in DOMAIN types |-> i], outputs |-> <<>>,
            attributes |-> a], types |-> types] : a \in attributes}

StateCases ==
  Case("state_read", <<>>, {F(<<2, 3, 2>>), F(<<3, 2>>)},
       {[state |-> s] : s \in {"kv", "fixed", "lost"}})
  \cup UNION {Effect("state_write", <<F(t)>>, {[state |-> s] : s \in {"kv", "fixed", "lost"}}) :
                t \in {<<2, 3, 2>>, <<3, 2>>}}
  \cup UNION {Effect("state_update", <<F(t)>>,
                {[state |-> s, axis |-> a, start |-> n] :
                   s \in {"kv", "fixed", "lost"}, a \in 0..3, n \in -1..2}) :
                t \in {<<2, 3, 2>>, <<2, 2, 2>>, <<2, 1, 2>>, <<1, 3, 2>>, <<2, 3, 1>>, <<2, 2>>, <<2, N, 2>>}}

MCCases == ConstantCases \cup PointCases \cup AxisCases \cup ConcatCases \cup SliceCases
  \cup ReduceCases \cup MoveCases \cup ContractCases \cup HeadCases \cup StateCases

MCSizes == [{N} -> {1, 2}]
=============================================================================
