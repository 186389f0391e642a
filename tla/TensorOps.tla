----------------------------- MODULE TensorOps -----------------------------
(***************************************************************************)
(* One operation in the reference executor, src/aginfer/ir/executor.py.    *)
(* The verifier has seen declared types only; the executor walks flat      *)
(* row-major buffers of concrete tensors.  Instead of element values the   *)
(* model keeps which input elements an output element is computed from.    *)
(***************************************************************************)
EXTENDS OpTypes, FiniteSetsExt

CONSTANTS
  Cases,      \* operations with the types of their inputs
  States,     \* declared states
  Sizes,      \* sizes the shape symbols may take: functions on the symbols
  Positions   \* values an index or position tensor may hold

VARIABLES
  case,       \* the operation and the declared types of its inputs
  size,       \* size of each shape symbol in this execution
  position,   \* what every element of an i32 index tensor holds
  phase,      \* "submitted", "refused", "verified", "stored" or "failed"
  result      \* element type and shape of the stored tensor

tensorVars == <<case, size, position, phase, result>>

op == case.op

Concrete(t) ==
  [t EXCEPT !.shape = [i \in DOMAIN t.shape |->
     IF t.shape[i] > 0 THEN t.shape[i] ELSE size[t.shape[i]]]]

\* The tensors the operation reads; an update also reads the state.
Arguments ==
  [i \in DOMAIN case.types |-> Concrete(case.types[i])]
  \o IF op.opcode \in {"state_read", "state_update"}
       THEN <<Concrete(States[op.attributes.state].type)>> ELSE <<>>

\* The shape with n at one position.
Resized(shape, at, n) == [i \in DOMAIN shape |-> IF i = at THEN n ELSE shape[i]]

Symbols(t) == {d \in Range(t.shape) : d < 0}

\* Symbols the inputs and the states have given a size.
Bound ==
  UNION ({Symbols(case.types[i]) : i \in DOMAIN case.types}
         \cup {Symbols(States[s].type) : s \in DOMAIN States})

-----------------------------------------------------------------------------
(* Row-major buffers: flat positions and coordinates count from 0 *)

Strides(shape) == [a \in DOMAIN shape |-> Numel(SubSeq(shape, a + 1, Len(shape)))]

Coordinates(flat, shape) ==
  [a \in DOMAIN shape |-> (flat \div Strides(shape)[a]) % shape[a]]

Flat(coordinates, shape) ==
  FoldLeft(LAMBDA n, a : n + coordinates[a] * Strides(shape)[a], 0,
           [a \in DOMAIN shape |-> a])

Inner(shape, at) == Numel(SubSeq(shape, at + 1, Len(shape)))

Range0(n) == 0..n - 1

-----------------------------------------------------------------------------
(* Where the loops of the executor read the operands of output element i:  *)
(* a set of pairs of an argument and a flat position                       *)

One(k) == {<<1, k>>}

ConcatSources(in, i) ==
  LET at == op.attributes.axis + 1
      Width(j) == in[j].shape[at] * Inner(in[1].shape, at)
      Before(j) == FoldLeft(LAMBDA n, h : n + Width(h), 0, [h \in 1..j - 1 |-> h])
      row == i \div Before(Len(in) + 1)
      column == i % Before(Len(in) + 1)
  IN  {<<j, (row * Width(j) + column) - Before(j)>> :
         j \in {h \in DOMAIN in : column \in Before(h)..Before(h + 1) - 1}}

SliceSources(in, i) ==
  LET at == op.attributes.axis + 1
      inner == Inner(in[1].shape, at)
      width == (op.attributes.stop - op.attributes.start) * inner
  IN  One((i \div width) * in[1].shape[at] * inner
          + op.attributes.start * inner + (i % width))

ReduceSources(in, i) ==
  LET out == KeptShape(op, in[1].shape)
      kept == Ascending({a \in DOMAIN in[1].shape :
                           (a - 1) \notin ToSet(op.attributes.axes)}, Rank(in[1]))
      Target(c) == IF op.attributes.keepdims
                     THEN [a \in DOMAIN c |-> IF a \in ToSet(kept) THEN c[a] ELSE 0]
                     ELSE [a \in DOMAIN kept |-> c[kept[a]]]
  IN  {<<1, k>> : k \in {h \in Range0(Numel(in[1].shape)) :
                           Flat(Target(Coordinates(h, in[1].shape)), out) = i}}

CumulativeSources(in, i) ==
  LET at == op.attributes.axis + 1
      c == Coordinates(i, in[1].shape)
  IN  {<<1, Flat(Resized(c, at, k), in[1].shape)>> : k \in 0..c[at]}

SoftmaxSources(in, i) ==
  LET at == op.attributes.axis + 1
      inner == Inner(in[1].shape, at)
      width == in[1].shape[at]
  IN  {<<1, ((i \div (width * inner)) * width + k) * inner + (i % inner)>> :
         k \in Range0(width)}

BroadcastSources(in, i, shape) ==
  LET c == Coordinates(i, shape)
      dims == op.attributes.broadcast_dimensions
  IN  One(Flat([a \in DOMAIN dims |-> IF in[1].shape[a] = 1 THEN 0 ELSE c[dims[a] + 1]],
               in[1].shape))

TransposeSources(in, i, shape) ==
  LET c == Coordinates(i, shape)
      p == op.attributes.permutation
  IN  One(Flat([a \in DOMAIN p |-> c[CHOOSE b \in DOMAIN p : p[b] = a - 1]], in[1].shape))

NormSources(in, i) ==
  LET width == LastDim(in[1])
  IN  {<<1, (i \div width) * width + k>> : k \in Range0(width)}
      \cup {<<j, i % width>> : j \in 2..Len(in)}

MatmulSources(in, i) ==
  LET inner == Dim(in[1], 1)
      columns == Dim(in[2], 1)
  IN  {<<1, (i \div columns) * inner + k>> : k \in Range0(inner)}
      \cup {<<2, k * columns + (i % columns)>> : k \in Range0(inner)}

LinearSources(in, i) ==
  LET inner == LastDim(in[1])
      wide == Dim(in[2], 0)
  IN  {<<1, (i \div wide) * inner + k>> : k \in Range0(inner)}
      \cup {<<2, (i % wide) * inner + k>> : k \in Range0(inner)} \cup {<<3, i % wide>>}

Conv2dSources(in, i, shape) ==
  LET c == Coordinates(i, shape)
      channels == Dim(in[1], 1)
      high == Dim(in[1], 2)
      wide == Dim(in[1], 3)
      Row(y) == c[3] * op.attributes.strides[1] + y - op.attributes.pads[1]
      Column(x) == c[4] * op.attributes.strides[2] + x - op.attributes.pads[2]
      window == {<<ch, y, x>> \in Range0(channels) \X Range0(Dim(in[2], 2))
                                    \X Range0(Dim(in[2], 3)) :
                   Row(y) \in Range0(high) /\ Column(x) \in Range0(wide)}
  IN  {<<1, ((c[1] * channels + w[1]) * high + Row(w[2])) * wide + Column(w[3])>> : w \in window}
      \cup {<<2, ((c[2] * channels + w[1]) * Dim(in[2], 2) + w[2]) * Dim(in[2], 3) + w[3]>> :
              w \in window}
      \cup {<<3, c[2]>>}

GatherSources(in, i) ==
  LET width == Dim(in[1], 1)
  IN  {<<1, position * width + (i % width)>>, <<2, i \div width>>}

RopeSources(in, i) ==
  LET heads == Dim(in[1], 1)
      sequence == Dim(in[1], 2)
      head_dim == Dim(in[1], 3)
      half == head_dim \div 2
      d == i % head_dim
      base == i - d
      pair == IF op.attributes.pairing = "interleaved" THEN d \div 2 ELSE d % half
      first == IF op.attributes.pairing = "interleaved" THEN 2 * pair ELSE pair
      second == IF op.attributes.pairing = "interleaved" THEN first + 1 ELSE pair + half
      row == i \div head_dim
  IN  {<<1, base + first>>, <<1, base + second>>,
       <<Len(in), (row \div (heads * sequence)) * sequence + (row % sequence)>>}
      \cup IF op.opcode = "rope" THEN {2, 3} \X {position * half + pair} ELSE {}

\* Fault: every query head reads the key and value head of its own number.
AttentionSourcesUngrouped(in, i, shape) ==
  LET c == Coordinates(i, shape)
      kvHeads == Dim(in[2], 1)
      length == Dim(in[2], 2)
      dim == Dim(in[1], 3)
      query == (c[1] * Dim(in[1], 1) + c[2]) * Dim(in[1], 2) + c[3]
      KvRow(k) == (c[1] * kvHeads + (c[2] % kvHeads)) * length + k
  IN  {<<1, query * dim + d>> : d \in Range0(dim)}
      \cup {<<2, KvRow(k) * dim + d>> : k \in Range0(length), d \in Range0(dim)}
      \cup {<<3, KvRow(k) * Dim(in[3], 3) + c[4]>> : k \in Range0(length)}
      \cup {<<4, query * length + k>> : k \in Range0(length)}

AttentionSources(in, i, shape) ==
  LET c == Coordinates(i, shape)
      kvHeads == Dim(in[2], 1)
      length == Dim(in[2], 2)
      dim == Dim(in[1], 3)
      query == (c[1] * Dim(in[1], 1) + c[2]) * Dim(in[1], 2) + c[3]
      KvRow(k) == (c[1] * kvHeads + (c[2] \div op.attributes.kv_group_size)) * length + k
  IN  {<<1, query * dim + d>> : d \in Range0(dim)}
      \cup {<<2, KvRow(k) * dim + d>> : k \in Range0(length), d \in Range0(dim)}
      \cup {<<3, KvRow(k) * Dim(in[3], 3) + c[4]>> : k \in Range0(length)}
      \cup {<<4, query * length + k>> : k \in Range0(length)}

UpdateSources(in, i) ==
  LET at == op.attributes.axis + 1
      inner == Inner(in[2].shape, at)
      width == in[1].shape[at] * inner
      stride == in[2].shape[at] * inner
      column == (i % stride) - op.attributes.start * inner
  IN  IF column \in Range0(width) THEN One((i \div stride) * width + column) ELSE {<<2, i>>}

Sources(in, i, shape) ==
  CASE op.opcode = "concat" -> ConcatSources(in, i)
    [] op.opcode = "slice" -> SliceSources(in, i)
    [] op.opcode \in {"reduce_sum", "reduce_max"} -> ReduceSources(in, i)
    [] op.opcode = "cumulative_sum" -> CumulativeSources(in, i)
    [] op.opcode = "softmax" -> SoftmaxSources(in, i)
    [] op.opcode = "broadcast_in_dim" -> BroadcastSources(in, i, shape)
    [] op.opcode = "transpose" -> TransposeSources(in, i, shape)
    [] op.opcode \in {"rms_norm", "layer_norm"} -> NormSources(in, i)
    [] op.opcode = "matmul" -> MatmulSources(in, i)
    [] op.opcode = "linear" -> LinearSources(in, i)
    [] op.opcode = "conv2d" -> Conv2dSources(in, i, shape)
    [] op.opcode = "gather" -> GatherSources(in, i)
    [] op.opcode \in {"rope", "rope_default"} -> RopeSources(in, i)
    [] op.opcode = "scaled_dot_product_attention" -> AttentionSources(in, i, shape)
    [] op.opcode = "sinusoidal_embedding" -> One(i \div op.attributes.dimension)
    [] op.opcode = "state_update" -> UpdateSources(in, i)
    [] OTHER -> {<<j, i>> : j \in DOMAIN in}

-----------------------------------------------------------------------------
(* Execution *)

ResultShape(in) ==
  CASE op.opcode \in {"constant", "constant_ref", "broadcast_in_dim"} ->
         Concrete(Output(op)).shape
    [] op.opcode = "concat" ->
         Resized(in[1].shape, op.attributes.axis + 1,
                 FoldLeft(LAMBDA n, t : n + t.shape[op.attributes.axis + 1], 0, in))
    [] op.opcode = "slice" ->
         Resized(in[1].shape, op.attributes.axis + 1,
                 op.attributes.stop - op.attributes.start)
    [] op.opcode \in {"reduce_sum", "reduce_max"} -> KeptShape(op, in[1].shape)
    [] op.opcode = "reshape" -> op.attributes.shape
    [] op.opcode = "transpose" ->
         [i \in DOMAIN op.attributes.permutation |-> Dim(in[1], op.attributes.permutation[i])]
    [] op.opcode = "matmul" -> <<Dim(in[1], 0), Dim(in[2], 1)>>
    [] op.opcode = "linear" -> Append(Front(in[1].shape), Dim(in[2], 0))
    [] op.opcode = "conv2d" ->
         LET pads == op.attributes.pads
             strides == op.attributes.strides
         IN  <<Dim(in[1], 0), Dim(in[2], 0),
               ConvExtent(Dim(in[1], 2), Dim(in[2], 2), pads[1] + pads[3], strides[1]),
               ConvExtent(Dim(in[1], 3), Dim(in[2], 3), pads[2] + pads[4], strides[2])>>
    [] op.opcode = "gather" -> Append(in[2].shape, Dim(in[1], 1))
    [] op.opcode = "scaled_dot_product_attention" ->
         Resized(in[1].shape, 4, Dim(in[3], 3))
    [] op.opcode = "sinusoidal_embedding" -> <<Dim(in[1], 0), op.attributes.dimension>>
    [] op.opcode = "state_update" -> in[2].shape
    [] OTHER -> in[1].shape

ResultDType(in) ==
  CASE op.opcode \in {"constant", "constant_ref"} -> Output(op).dtype
    [] op.opcode = "cast" -> op.attributes.dtype
    [] op.opcode = "logical_and" -> "bool"
    [] OTHER -> in[1].dtype

\* What the stored tensor is compared with: the declared output, or the state.
Declared ==
  IF op.outputs = <<>> THEN States[op.attributes.state].type ELSE Output(op)

\* Sums and products of booleans are numbers, which a bool tensor refuses.
BooleanArithmetic(in) ==
  op.opcode \in {"add", "mul", "reduce_sum"} /\ in[1].dtype = "bool"

\* A gather row or a RoPE table row that does not exist.
OutOfTable(in) ==
  \/ op.opcode = "gather" /\ position \notin Range0(Dim(in[1], 0))
  \/ op.opcode = "rope" /\ position \notin Range0(Dim(in[2], 0))

\* A broadcast to a symbol no tensor has given a size yet.
UnknownSymbol ==
  op.opcode = "broadcast_in_dim" /\ ~(Symbols(Output(op)) \subseteq Bound)

TypeMatches(in) ==
  ResultDType(in) = Declared.dtype /\ ResultShape(in) = Concrete(Declared).shape

TensorInit ==
  /\ case \in Cases /\ size \in Sizes /\ position \in Positions
  /\ phase = "submitted"
  /\ result = [dtype |-> "f32", shape |-> <<>>]

Verify ==
  /\ phase = "submitted"
  /\ phase' = IF OpVerified(op, case.types, States) THEN "verified" ELSE "refused"
  /\ UNCHANGED <<case, size, position, result>>

Store ==
  /\ phase = "verified"
  /\ ~OutOfTable(Arguments) /\ ~UnknownSymbol /\ ~BooleanArithmetic(Arguments)
  /\ TypeMatches(Arguments)
  /\ phase' = "stored"
  /\ result' = [dtype |-> ResultDType(Arguments), shape |-> ResultShape(Arguments)]
  /\ UNCHANGED <<case, size, position>>

Fail ==
  /\ phase = "verified"
  /\ \/ OutOfTable(Arguments) \/ UnknownSymbol \/ BooleanArithmetic(Arguments)
     \/ ~TypeMatches(Arguments)
  /\ phase' = "failed"
  /\ UNCHANGED <<case, size, position, result>>

TensorNext == Verify \/ Store \/ Fail

TensorSpec == TensorInit /\ [][TensorNext]_tensorVars

-----------------------------------------------------------------------------
(* What the elements mean, by coordinates *)

\* Coordinates of argument j.
Cells(in, j) == {Coordinates(k, in[j].shape) : k \in Range0(Numel(in[j].shape))}

From(j, cells) == {<<j, c>> : c \in cells}

SameExcept(c, d, axes) == \A a \in DOMAIN c \ axes : c[a] = d[a]

MovedMeaning(in, c) ==
  LET at == op.attributes.axis + 1
      Before(j) == FoldLeft(LAMBDA n, h : n + in[h].shape[at], 0, [h \in 1..j - 1 |-> h])
  IN  CASE op.opcode = "concat" ->
             UNION {From(j, {d \in Cells(in, j) :
                      SameExcept(c, d, {at}) /\ d[at] + Before(j) = c[at]}) : j \in DOMAIN in}
        [] op.opcode = "slice" ->
             From(1, {d \in Cells(in, 1) : SameExcept(c, d, {at}) /\ d[at] = c[at] + op.attributes.start})
        [] op.opcode = "softmax" -> From(1, {d \in Cells(in, 1) : SameExcept(c, d, {at})})
        [] op.opcode = "cumulative_sum" ->
             From(1, {d \in Cells(in, 1) : SameExcept(c, d, {at}) /\ d[at] <= c[at]})
        [] op.opcode = "state_update" ->
             LET row == c[at] - op.attributes.start
             IN  IF row \in Range0(in[1].shape[at])
                   THEN From(1, {d \in Cells(in, 1) : SameExcept(c, d, {at}) /\ d[at] = row})
                   ELSE {<<2, c>>}

ReducedMeaning(in, c) ==
  LET axes == {a + 1 : a \in ToSet(op.attributes.axes)}
      Place(a) == IF op.attributes.keepdims THEN a
                    ELSE Cardinality({b \in 1..a : b \notin axes})
  IN  From(1, {d \in Cells(in, 1) : \A a \in DOMAIN d \ axes : d[a] = c[Place(a)]})

WindowMeaning(in, c) ==
  LET Under(d, w) == \A a \in {3, 4} :
        d[a] = c[a] * op.attributes.strides[a - 2] + w[a] - op.attributes.pads[a - 2]
      pairs == {<<d, w>> \in Cells(in, 1) \X Cells(in, 2) :
                  d[1] = c[1] /\ w[1] = c[2] /\ d[2] = w[2] /\ Under(d, w)}
  IN  {<<1, p[1]>> : p \in pairs} \cup {<<2, p[2]>> : p \in pairs} \cup {<<3, <<c[2]>>>>}

RotatedMeaning(in, c) ==
  LET half == Dim(in[1], 3) \div 2
      Pair(d) == IF op.attributes.pairing = "interleaved" THEN d \div 2 ELSE d % half
  IN  From(1, {d \in Cells(in, 1) : SameExcept(c, d, {4}) /\ Pair(d[4]) = Pair(c[4])})
      \cup {<<Len(in), <<c[1], c[3]>>>>}
      \cup IF op.opcode = "rope" THEN {2, 3} \X {<<position, Pair(c[4])>>} ELSE {}

AttendedMeaning(in, c) ==
  LET Shared(d) == d[1] = c[1] /\ c[2] \in d[2] * op.attributes.kv_group_size
                     ..(d[2] + 1) * op.attributes.kv_group_size - 1
  IN  From(1, {d \in Cells(in, 1) : SameExcept(c, d, {4})})
      \cup From(2, {d \in Cells(in, 2) : Shared(d)})
      \cup From(3, {d \in Cells(in, 3) : Shared(d) /\ d[4] = c[4]})
      \cup From(4, {d \in Cells(in, 4) : SameExcept(c, d, {4})})

Meaning(in, c) ==
  CASE op.opcode \in {"concat", "slice", "softmax", "cumulative_sum", "state_update"} ->
         MovedMeaning(in, c)
    [] op.opcode \in {"reduce_sum", "reduce_max"} -> ReducedMeaning(in, c)
    [] op.opcode = "reshape" ->
         {<<1, Coordinates(Flat(c, op.attributes.shape), in[1].shape)>>}
    [] op.opcode = "broadcast_in_dim" ->
         From(1, {d \in Cells(in, 1) : \A a \in DOMAIN d :
           d[a] \in {0, c[op.attributes.broadcast_dimensions[a] + 1]}
           /\ (in[1].shape[a] # 1 => d[a] = c[op.attributes.broadcast_dimensions[a] + 1])})
    [] op.opcode = "transpose" ->
         From(1, {d \in Cells(in, 1) : \A a \in DOMAIN c : c[a] = d[op.attributes.permutation[a] + 1]})
    [] op.opcode \in {"rms_norm", "layer_norm"} ->
         From(1, {d \in Cells(in, 1) : SameExcept(c, d, {Len(c)})})
         \cup {<<j, <<Last(c)>>>> : j \in 2..Len(in)}
    [] op.opcode = "matmul" ->
         From(1, {d \in Cells(in, 1) : d[1] = c[1]}) \cup From(2, {d \in Cells(in, 2) : d[2] = c[2]})
    [] op.opcode = "linear" ->
         From(1, {d \in Cells(in, 1) : SameExcept(c, d, {Len(c)})})
         \cup From(2, {d \in Cells(in, 2) : d[1] = Last(c)}) \cup {<<3, <<Last(c)>>>>}
    [] op.opcode = "conv2d" -> WindowMeaning(in, c)
    [] op.opcode = "gather" -> {<<1, <<position, Last(c)>>>>, <<2, Front(c)>>}
    [] op.opcode \in {"rope", "rope_default"} -> RotatedMeaning(in, c)
    [] op.opcode = "scaled_dot_product_attention" -> AttendedMeaning(in, c)
    [] op.opcode = "sinusoidal_embedding" -> {<<1, <<c[1]>>>>}
    [] OTHER -> {<<j, c>> : j \in DOMAIN in}

-----------------------------------------------------------------------------
(* Properties *)

\* The verifier is the only guard in front of the loops: an operation it accepts
\* produces the declared type, whatever sizes the symbols take, unless an index
\* is outside its table, a broadcast names a symbol nobody sized, or booleans
\* are added or multiplied.
VerifiedOpsFit ==
  phase = "failed" =>
    OutOfTable(Arguments) \/ UnknownSymbol \/ BooleanArithmetic(Arguments)

\* Every loop of the executor reads inside its operands, and output element by
\* output element exactly the elements that the operation means.
LoopsReadTheirElements ==
  phase = "stored" =>
    LET in == Arguments IN
    \A i \in Range0(Numel(result.shape)) :
      LET read == Sources(in, i, result.shape) IN
      /\ \A r \in read : r[2] \in Range0(Numel(in[r[1]].shape))
      /\ {<<r[1], Coordinates(r[2], in[r[1]].shape)>> : r \in read}
           = Meaning(in, Coordinates(i, result.shape))

\* What the memory planner elides leaves every byte where it is: element i of
\* the result is element i of the operand.
ElisionKeepsBytes ==
  phase = "stored" /\ Len(case.types) = 1 /\ op.outputs # <<>>
  /\ KeepsBytes(op, case.types[1], Output(op)) =>
    LET in == Arguments IN
    /\ Numel(result.shape) = Numel(in[1].shape)
    /\ \A i \in Range0(Numel(result.shape)) : Sources(in, i, result.shape) = One(i)
=============================================================================
