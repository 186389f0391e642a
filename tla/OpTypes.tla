------------------------------ MODULE OpTypes ------------------------------
(***************************************************************************)
(* The contract of every ProgramIR opcode: _verify_op of                   *)
(* src/aginfer/ir/verify.py.  A tensor type is a record of an element      *)
(* type, a shape and a device (there is one layout).  A positive dimension *)
(* is static, a negative one names a shape symbol.  Axes count from 0, as  *)
(* in the source; numbers such as epsilon are integers.                    *)
(***************************************************************************)
EXTENDS Integers, Sequences, FiniteSets, SequencesExt

Floating == {"f32", "f16", "bf16"}

Rank(t) == Len(t.shape)

\* The dimension at a source axis.
Dim(t, axis) == t.shape[axis + 1]

LastDim(t) == t.shape[Len(t.shape)]

Static(shape) == \A i \in DOMAIN shape : shape[i] > 0

\* The members of a set of naturals up to n, in order.
Ascending(set, n) == SelectSeq([k \in 1..n + 1 |-> k - 1], LAMBDA k : k \in set)

Numel(shape) == FoldLeft(LAMBDA n, d : n * d, 1, shape)

Reshaped(t, shape) == [t EXCEPT !.shape = shape]

IsAxis(axis, t) == axis \in 0..Rank(t) - 1

SameDevice(types) == \A i, j \in DOMAIN types : types[i].device = types[j].device

SameDType(types) == \A i, j \in DOMAIN types : types[i].dtype = types[j].dtype

\* The number of inputs and outputs, and exactly the attributes of the opcode.
Signature(op, inputs, outputs, attributes) ==
  /\ Len(op.inputs) = inputs
  /\ Len(op.outputs) = outputs
  /\ DOMAIN op.attributes = attributes

Output(op) == op.outputs[1].type

-----------------------------------------------------------------------------
(* Constants, casts and elementwise operations *)

\* A literal is a kind and whether it is in the range of a 32-bit integer (for
\* an int) or finite (for a float).
LiteralFits(v, dtype) ==
  \/ dtype = "bool" /\ v.kind = "bool"
  \/ dtype = "i32" /\ v.kind = "int" /\ v.inRange
  \/ dtype \in Floating /\ v.kind = "int"
  \/ dtype \in Floating /\ v.kind = "float" /\ v.inRange

ConstantRule(op) ==
  /\ op.opcode = "constant"
  /\ Signature(op, 0, 1, {"value"})
  /\ Static(Output(op).shape)
  /\ Len(op.attributes.value) = Numel(Output(op).shape)
  /\ \A i \in DOMAIN op.attributes.value :
       LiteralFits(op.attributes.value[i], Output(op).dtype)

ConstantRefRule(op) ==
  op.opcode = "constant_ref" /\ Signature(op, 0, 1, {"namespace", "name"})

CastRule(op, in) ==
  /\ op.opcode = "cast"
  /\ Signature(op, 1, 1, {"dtype"})
  /\ op.attributes.dtype # in[1].dtype
  /\ Output(op) = [in[1] EXCEPT !.dtype = op.attributes.dtype]

ElementwiseRule(op, in) ==
  /\ op.opcode \in {"add", "mul", "logical_and"}
  /\ Signature(op, 2, 1, {})
  /\ in[1] = in[2] /\ Output(op) = in[1]
  /\ op.opcode = "logical_and" => in[1].dtype = "bool"

ActivationRule(op, in) ==
  /\ \/ op.opcode \in {"relu", "silu"} /\ Signature(op, 1, 1, {})
     \/ /\ op.opcode = "gelu" /\ Signature(op, 1, 1, {"approximation"})
        /\ op.attributes.approximation \in {"none", "tanh"}
  /\ in[1].dtype \in Floating /\ Output(op) = in[1]

AlongAxisRule(op, in) ==
  /\ op.opcode \in {"softmax", "cumulative_sum"}
  /\ Signature(op, 1, 1, {"axis"})
  /\ IsAxis(op.attributes.axis, in[1])
  /\ IF op.opcode = "softmax" THEN in[1].dtype \in Floating ELSE in[1].dtype # "bool"
  /\ Output(op) = in[1]

-----------------------------------------------------------------------------
(* Shapes *)

ConcatRule(op, in) ==
  /\ op.opcode = "concat"
  /\ Signature(op, Len(in), 1, {"axis"})
  /\ in # <<>>
  /\ IsAxis(op.attributes.axis, in[1])
  /\ SameDType(in) /\ SameDevice(in)
  /\ LET at == op.attributes.axis + 1 IN
       /\ \A i \in DOMAIN in :
            /\ Rank(in[i]) = Rank(in[1])
            /\ \A d \in DOMAIN in[1].shape \ {at} : in[i].shape[d] = in[1].shape[d]
            /\ in[i].shape[at] > 0
       /\ Output(op) =
            [in[1] EXCEPT !.shape[at] = FoldLeft(LAMBDA n, t : n + t.shape[at], 0, in)]

SliceRule(op, in) ==
  /\ op.opcode = "slice"
  /\ Signature(op, 1, 1, {"axis", "start", "stop"})
  /\ IsAxis(op.attributes.axis, in[1])
  /\ LET at == op.attributes.axis + 1 IN
       /\ in[1].shape[at] > 0
       /\ 0 <= op.attributes.start /\ op.attributes.start < op.attributes.stop
       /\ op.attributes.stop <= in[1].shape[at]
       /\ Output(op) =
            [in[1] EXCEPT !.shape[at] = op.attributes.stop - op.attributes.start]

\* The axes of a shape that a reduction keeps, in order.
KeptShape(op, shape) ==
  LET Reduced(i) == (i - 1) \in ToSet(op.attributes.axes)
  IN  IF op.attributes.keepdims
        THEN [i \in DOMAIN shape |-> IF Reduced(i) THEN 1 ELSE shape[i]]
        ELSE LET kept == Ascending({i \in DOMAIN shape : ~Reduced(i)}, Len(shape))
             IN  [i \in DOMAIN kept |-> shape[kept[i]]]

ReduceRule(op, in) ==
  /\ op.opcode \in {"reduce_sum", "reduce_max"}
  /\ Signature(op, 1, 1, {"axes", "keepdims"})
  /\ op.attributes.axes # <<>> /\ IsInjective(op.attributes.axes)
  /\ \A axis \in ToSet(op.attributes.axes) : IsAxis(axis, in[1])
  /\ Output(op) = Reshaped(in[1], KeptShape(op, in[1].shape))

ReshapeRule(op, in) ==
  /\ op.opcode = "reshape"
  /\ Signature(op, 1, 1, {"shape"})
  /\ op.attributes.shape # <<>> /\ Static(op.attributes.shape)
  /\ Static(in[1].shape)
  /\ Numel(op.attributes.shape) = Numel(in[1].shape)
  /\ Output(op) = Reshaped(in[1], op.attributes.shape)

BroadcastRule(op, in) ==
  /\ op.opcode = "broadcast_in_dim"
  /\ Signature(op, 1, 1, {"shape", "broadcast_dimensions"})
  /\ Output(op) = Reshaped(in[1], op.attributes.shape)
  /\ LET dims == op.attributes.broadcast_dimensions IN
       /\ Len(dims) = Rank(in[1])
       /\ \A i, j \in DOMAIN dims : i < j => dims[i] < dims[j]
       /\ \A i \in DOMAIN dims :
            /\ IsAxis(dims[i], Output(op))
            /\ in[1].shape[i] \in {1, Dim(Output(op), dims[i])}

TransposeRule(op, in) ==
  /\ op.opcode = "transpose"
  /\ Signature(op, 1, 1, {"permutation"})
  /\ Len(op.attributes.permutation) = Rank(in[1])
  /\ ToSet(op.attributes.permutation) = 0..Rank(in[1]) - 1
  /\ Output(op) = Reshaped(in[1],
       [i \in DOMAIN op.attributes.permutation |-> Dim(in[1], op.attributes.permutation[i])])

-----------------------------------------------------------------------------
(* Contractions, normalisation and attention *)

MatmulRule(op, in) ==
  /\ op.opcode = "matmul"
  /\ Signature(op, 2, 1, {})
  /\ Rank(in[1]) = 2 /\ Rank(in[2]) = 2
  /\ in[1].dtype \in Floating /\ SameDType(in) /\ SameDevice(in)
  /\ Dim(in[1], 1) = Dim(in[2], 0)
  /\ Output(op) = Reshaped(in[1], <<Dim(in[1], 0), Dim(in[2], 1)>>)

\* Fault: the weights are declared as [inputs, outputs].
LinearRuleTransposed(op, in) ==
  /\ op.opcode = "linear"
  /\ Signature(op, 3, 1, {})
  /\ Rank(in[1]) >= 1 /\ Rank(in[2]) = 2 /\ Rank(in[3]) = 1
  /\ in[1].dtype \in Floating /\ SameDType(in) /\ SameDevice(in)
  /\ LastDim(in[1]) = Dim(in[2], 0)
  /\ Output(op) = Reshaped(in[1], Append(Front(in[1].shape), Dim(in[2], 1)))

LinearRule(op, in) ==
  /\ op.opcode = "linear"
  /\ Signature(op, 3, 1, {})
  /\ Rank(in[1]) >= 1 /\ Rank(in[2]) = 2 /\ Rank(in[3]) = 1
  /\ in[1].dtype \in Floating /\ SameDType(in) /\ SameDevice(in)
  /\ LastDim(in[1]) = Dim(in[2], 1) /\ Dim(in[3], 0) = Dim(in[2], 0)
  /\ Output(op) = Reshaped(in[1], Append(Front(in[1].shape), Dim(in[2], 0)))

ConvExtent(size, kernel, padding, stride) == (size + padding - kernel) \div stride + 1

Conv2dRule(op, in) ==
  /\ op.opcode = "conv2d"
  /\ Signature(op, 3, 1, {"pads", "strides"})
  /\ Rank(in[1]) = 4 /\ Rank(in[2]) = 4 /\ Rank(in[3]) = 1
  /\ in[1].dtype \in Floating /\ SameDType(in) /\ SameDevice(in)
  /\ Dim(in[1], 1) = Dim(in[2], 1) /\ Dim(in[3], 0) = Dim(in[2], 0)
  /\ LET pads == op.attributes.pads
         strides == op.attributes.strides
         high == pads[1] + pads[3]
         wide == pads[2] + pads[4]
     IN  /\ Len(strides) = 2 /\ \A i \in 1..2 : strides[i] >= 1
         /\ Len(pads) = 4 /\ \A i \in 1..4 : pads[i] >= 0
         /\ Static(Tail(in[1].shape)) /\ Static(in[2].shape)
         /\ Dim(in[2], 2) <= Dim(in[1], 2) + high /\ Dim(in[2], 3) <= Dim(in[1], 3) + wide
         /\ Output(op) = Reshaped(in[1],
              <<Dim(in[1], 0), Dim(in[2], 0),
                ConvExtent(Dim(in[1], 2), Dim(in[2], 2), high, strides[1]),
                ConvExtent(Dim(in[1], 3), Dim(in[2], 3), wide, strides[2])>>)

GatherRule(op, in) ==
  /\ op.opcode = "gather"
  /\ Signature(op, 2, 1, {})
  /\ Rank(in[1]) = 2 /\ in[1].dtype \in Floating /\ in[2].dtype = "i32"
  /\ SameDevice(in)
  /\ Output(op) = Reshaped(in[1], Append(in[2].shape, Dim(in[1], 1)))

\* rms_norm may keep f32 weights beside a half-precision source.
NormRule(op, in) ==
  /\ \/ op.opcode = "rms_norm" /\ Signature(op, 2, 1, {"epsilon"})
     \/ op.opcode = "layer_norm" /\ Signature(op, 3, 1, {"epsilon"})
  /\ op.attributes.epsilon > 0
  /\ Rank(in[1]) >= 1 /\ in[1].dtype \in Floating
  /\ \A i \in 2..Len(in) :
       /\ in[i].shape = <<LastDim(in[1])>> /\ in[i].device = in[1].device
       /\ \/ in[i].dtype = in[1].dtype
          \/ op.opcode = "rms_norm" /\ in[i].dtype = "f32"
  /\ Output(op) = in[1]

RopeRule(op, in) ==
  /\ \/ op.opcode = "rope" /\ Signature(op, 4, 1, {"pairing"})
     \/ /\ op.opcode = "rope_default"
        /\ Signature(op, 2, 1, {"pairing", "theta", "frequency_dtype"})
        /\ op.attributes.frequency_dtype \in Floating /\ op.attributes.theta > 0
  /\ op.attributes.pairing \in {"interleaved", "split_half"}
  /\ Rank(in[1]) = 4 /\ in[1].dtype \in Floating
  /\ Dim(in[1], 3) > 0 /\ Dim(in[1], 3) % 2 = 0
  /\ op.opcode = "rope" =>
       /\ Rank(in[2]) = 2 /\ in[3] = in[2]
       /\ in[2] = Reshaped(in[1], <<Dim(in[2], 0), Dim(in[1], 3) \div 2>>)
  /\ in[Len(in)] = [in[1] EXCEPT !.dtype = "i32", !.shape = <<Dim(in[1], 0), Dim(in[1], 2)>>]
  /\ Output(op) = in[1]

\* Query [B,H,Q,D], key [B,G,K,D], value [B,G,K,V], mask [B,H,Q,K].
AttentionRule(op, in) ==
  /\ op.opcode = "scaled_dot_product_attention"
  /\ Signature(op, 4, 1, {"scale", "kv_group_size", "mask_fill"})
  /\ op.attributes.mask_fill = "dtype_min"
  /\ op.attributes.scale > 0 /\ op.attributes.kv_group_size > 0
  /\ \A i \in 1..3 : Rank(in[i]) = 4 /\ in[i].dtype = in[1].dtype
  /\ in[1].dtype \in Floating /\ SameDevice(in)
  /\ Dim(in[2], 0) = Dim(in[1], 0) /\ Dim(in[3], 0) = Dim(in[1], 0)
  /\ Dim(in[3], 1) = Dim(in[2], 1) /\ Dim(in[3], 2) = Dim(in[2], 2)
  /\ Dim(in[2], 3) = Dim(in[1], 3)
  /\ Dim(in[1], 1) > 0 /\ Dim(in[2], 1) > 0
  /\ Dim(in[1], 1) = Dim(in[2], 1) * op.attributes.kv_group_size
  /\ in[4] = [in[1] EXCEPT !.dtype = "bool", !.shape[4] = Dim(in[2], 2)]
  /\ Output(op) = [in[1] EXCEPT !.shape[4] = Dim(in[3], 3)]

SinusoidalRule(op, in) ==
  /\ op.opcode = "sinusoidal_embedding"
  /\ Signature(op, 1, 1, {"dimension", "min_period", "max_period"})
  /\ op.attributes.dimension > 0 /\ op.attributes.dimension % 2 = 0
  /\ 0 < op.attributes.min_period /\ op.attributes.min_period <= op.attributes.max_period
  /\ Rank(in[1]) = 1 /\ in[1].dtype \in Floating
  /\ Output(op) = Reshaped(in[1], <<Dim(in[1], 0), op.attributes.dimension>>)

-----------------------------------------------------------------------------
(* States: a function from declared names to a type and a permission *)

StateReadRule(op, states) ==
  /\ op.opcode = "state_read"
  /\ Signature(op, 0, 1, {"state"})
  /\ op.attributes.state \in DOMAIN states
  /\ Output(op) = states[op.attributes.state].type

StateWriteRule(op, in, states) ==
  /\ op.opcode = "state_write"
  /\ Signature(op, 1, 0, {"state"})
  /\ op.attributes.state \in DOMAIN states
  /\ states[op.attributes.state].writable
  /\ in[1] = states[op.attributes.state].type

StateUpdateRule(op, in, states) ==
  /\ op.opcode = "state_update"
  /\ Signature(op, 1, 0, {"state", "axis", "start"})
  /\ op.attributes.state \in DOMAIN states
  /\ states[op.attributes.state].writable
  /\ LET target == states[op.attributes.state].type
         at == op.attributes.axis + 1
     IN  /\ IsAxis(op.attributes.axis, target) /\ op.attributes.start >= 0
         /\ Rank(in[1]) = Rank(target)
         /\ Static(in[1].shape) /\ Static(target.shape)
         /\ in[1] = [target EXCEPT !.shape[at] = in[1].shape[at]]
         /\ op.attributes.start + in[1].shape[at] <= target.shape[at]

\* The contract of an operation other than a call.
OpVerified(op, in, states) ==
  \/ ConstantRule(op) \/ ConstantRefRule(op)
  \/ CastRule(op, in) \/ ElementwiseRule(op, in) \/ ActivationRule(op, in)
  \/ AlongAxisRule(op, in)
  \/ ConcatRule(op, in) \/ SliceRule(op, in) \/ ReduceRule(op, in)
  \/ ReshapeRule(op, in) \/ BroadcastRule(op, in) \/ TransposeRule(op, in)
  \/ MatmulRule(op, in) \/ LinearRule(op, in) \/ Conv2dRule(op, in)
  \/ GatherRule(op, in) \/ NormRule(op, in) \/ RopeRule(op, in)
  \/ AttentionRule(op, in) \/ SinusoidalRule(op, in)
  \/ StateReadRule(op, states) \/ StateWriteRule(op, in, states)
  \/ StateUpdateRule(op, in, states)

-----------------------------------------------------------------------------
(* Operations that leave the bytes of their operand in place, so that the  *)
(* memory planner makes the result another name of the operand             *)

\* Fault: a transposition that yields the same shape is taken for none.
IdentityTransposeByShape(op, in, out) == op.opcode = "transpose" /\ Static(in.shape) /\ out = in

\* The axes longer than one keep their order.
IdentityTranspose(op, in, out) ==
  /\ op.opcode = "transpose"
  /\ Static(in.shape)
  /\ SelectSeq(op.attributes.permutation, LAMBDA axis : Dim(in, axis) # 1)
       = Ascending({axis \in 0..Rank(in) - 1 : Dim(in, axis) # 1}, Rank(in) - 1)

\* Every axis keeps its size, and the new ones have size one.
IdentityBroadcast(op, in, out) ==
  /\ op.opcode = "broadcast_in_dim"
  /\ Static(in.shape) /\ Static(out.shape)
  /\ LET dims == op.attributes.broadcast_dimensions IN
       /\ \A i \in DOMAIN dims : in.shape[i] = Dim(out, dims[i])
       /\ \A axis \in 0..Rank(out) - 1 : axis \in ToSet(dims) \/ Dim(out, axis) = 1

KeepsBytes(op, in, out) ==
  op.opcode = "reshape" \/ IdentityTranspose(op, in, out) \/ IdentityBroadcast(op, in, out)
=============================================================================
