-------------------------- MODULE RegionMatchers ---------------------------
(***************************************************************************)
(* The operations each built-in provider of src/aginfer/providers looks    *)
(* for: its anchors, the conditions under which an anchor's surroundings   *)
(* are what its kernel computes, and the command that replaces them.       *)
(***************************************************************************)
EXTENDS ScheduledGraph

Region(anchor, covers, reads, writes) ==
  [anchor |-> anchor, covers |-> covers, reads |-> reads, writes |-> writes]

-----------------------------------------------------------------------------
(* Providers of one operation *)

SingleOpcodes ==
  [rms_norm |-> {"rms_norm"}, layer_norm |-> {"layer_norm"}, activation |-> {"gelu", "silu"},
   time_embedding |-> {"sinusoidal_embedding"}, action_slice |-> {"slice"}]

SingleAnchors(p) == {i \in DOMAIN ops : ops[i].opcode \in SingleOpcodes[p] /\ ops[i].attr = "exact"}

RmsNormRegion(i) == Region(i, {i}, <<In(i, 1), In(i, 2)>>, <<Out(i)>>)
LayerNormRegion(i) == Region(i, {i}, <<In(i, 1), In(i, 2), In(i, 3)>>, <<Out(i)>>)
ActivationRegion(i) == Region(i, {i}, <<In(i, 1)>>, <<Out(i)>>)
TimeEmbeddingRegion(i) == Region(i, {i}, <<In(i, 1)>>, <<Out(i)>>)
ActionSliceRegion(i) == Region(i, {i}, <<In(i, 1)>>, <<Out(i)>>)

\* The action slice is the last operation of the entry function.
ActionSliceMatches(i) == Out(i) \in public /\ Uses(Out(i)) = {}

-----------------------------------------------------------------------------
(* Rotary embedding: transpose to heads, then rotate *)

RopeAnchors == {i \in DOMAIN ops : Is(i, "rope_default", "split_half")}

RopeTranspose(i) == Producer(In(i, 1), "transpose")

\* Fault: the transpose may have other users.
RopeMatchesShared(i) ==
  LET t == RopeTranspose(i) IN
  /\ SameInvocation(i, {t})
  /\ At(t).attr = "0213"
  /\ Out(t) \notin public

RopeMatches(i) ==
  LET t == RopeTranspose(i) IN
  /\ SameInvocation(i, {t})
  /\ At(t).attr = "0213"
  /\ Out(t) \notin public
  /\ UsedOnlyBy(Out(t), i)

RopeRegion(i) ==
  Region(i, {i, RopeTranspose(i)} \ elided, <<In(RopeTranspose(i), 1), In(i, 2)>>, <<Out(i)>>)

-----------------------------------------------------------------------------
(* Packing of cached and current keys and values, next to their attention *)

KvPackAnchors ==
  {i \in DOMAIN ops : /\ Is(i, "scaled_dot_product_attention", "grouped")
                      /\ <<TypeOf(In(i, 2)), TypeOf(In(i, 3))>> = <<"packed", "packed">>}

KvConcat(a, k) == Producer(In(a, k), "concat")

ConcatFits(a, c) ==
  /\ SameInvocation(a, {c})
  /\ At(c).attr = "axis2"
  /\ <<TypeOf(In(c, 1)), TypeOf(In(c, 2)), TypeOf(Out(c))>> = <<"prefix", "current", "packed">>
  /\ UsedOnlyBy(Out(c), a)
  /\ Out(c) \notin public

\* The cached half is read where it is stored.
PrefixFits(a, v) ==
  /\ v \in DOMAIN values /\ values[v].store = "alias"
  /\ SameInvocation(a, {Producer(v, "state_read")})
  /\ Cardinality(Uses(v)) = 1

ValueTranspose(a) == Producer(In(KvConcat(a, 3), 2), "transpose")

KvPackMatches(a) ==
  LET key == KvConcat(a, 2)
      value == KvConcat(a, 3)
      t == ValueTranspose(a)
  IN  /\ ConcatFits(a, key) /\ ConcatFits(a, value)
      /\ PrefixFits(a, In(key, 1)) /\ PrefixFits(a, In(value, 1))
      /\ SameInvocation(a, {Producer(In(key, 2), "rope_default"), t})
      /\ UsedOnlyBy(In(key, 2), key)
      /\ At(t).attr = "0213"
      /\ UsedOnlyBy(Out(t), value)
      /\ Out(t) \notin public

KvPackRegion(a) ==
  LET key == KvConcat(a, 2)
      value == KvConcat(a, 3)
  IN  Region(key, {key, value, ValueTranspose(a)} \ elided,
             <<In(key, 1), In(value, 1), In(key, 2), In(ValueTranspose(a), 1)>>,
             <<Out(key), Out(value)>>)

-----------------------------------------------------------------------------
(* Storing the prefix keys and values in their states *)

PrefixStoreAnchors ==
  {i \in DOMAIN ops : /\ Is(i, "transpose", "0213") /\ TypeOf(Out(i)) = "state"
                      /\ \E j \in Users(Out(i)) :
                            ops[j].opcode \in {"scaled_dot_product_attention", "state_write"}}

\* Every transpose of the form must be a view, the ones that feed a rotation too.
PrefixViews ==
  \A i \in DOMAIN ops :
     Is(i, "transpose", "0213") /\ TypeOf(Out(i)) = "state" => i \in elided /\ Out(i) \notin public

UserOf(v, opcode) ==
  IF Cardinality({i \in Users(v) : ops[i].opcode = opcode}) = 1
  THEN CHOOSE i \in Users(v) : ops[i].opcode = opcode ELSE 0

PrefixKey(t) == In(UserOf(Out(t), "scaled_dot_product_attention"), 2)

PairedWrites(t, attention, value, key) ==
  /\ SameInvocation(t, {attention, value, key, Producer(PrefixKey(t), "rope_default")})
  /\ At(ProducerOf(PrefixKey(t))).attr = "split_half"
  /\ Cardinality(Uses(Out(t))) = 2
  /\ Cardinality(Uses(PrefixKey(t))) = 2
  /\ attention \in Users(PrefixKey(t))
  /\ value = key + 1
  /\ At(key).attr # At(value).attr

PrefixStoreMatches(t) ==
  LET attention == UserOf(Out(t), "scaled_dot_product_attention")
      value == UserOf(Out(t), "state_write")
      key == UserOf(PrefixKey(t), "state_write")
  IN  /\ PairedWrites(t, attention, value, key)
      /\ At(attention).attr = "grouped"
      /\ In(attention, 3) = Out(t)

PrefixStoreRegion(t) ==
  LET value == UserOf(Out(t), "state_write")
      key == UserOf(PrefixKey(t), "state_write")
  IN  Region(key, {key, value}, <<PrefixKey(t), In(t, 1)>>, <<At(key).attr, At(value).attr>>)

-----------------------------------------------------------------------------
(* Vision attention: three transposes in, one out, one mask for all blocks *)

VisionAnchors ==
  {i \in DOMAIN ops : /\ Is(i, "scaled_dot_product_attention", "full")
                      /\ TypeOf(Out(i)) = "bhsd"}

VisionInput(a, k) == Producer(In(a, k), "transpose")
VisionMask(a) == Producer(In(a, 4), "broadcast_in_dim")
VisionOutput(a) == SoleUser(Out(a), "transpose")

VisionMatches(a) ==
  /\ SameInvocation(a, {VisionInput(a, k) : k \in 1..3} \cup {VisionMask(a), VisionOutput(a)})
  /\ \A k \in 1..3 :
        /\ At(VisionInput(a, k)).attr = "0213"
        /\ In(a, k) \notin public
        /\ UsedOnlyBy(In(a, k), a)
  /\ Is(VisionMask(a), "broadcast_in_dim", "fill_mask")
  /\ Out(VisionMask(a)) \notin public
  /\ Out(a) \notin public
  /\ At(VisionOutput(a)).attr = "0213"

VisionRegion(a) ==
  Region(a, {VisionInput(a, k) : k \in 1..3} \cup {a, VisionOutput(a)},
         [k \in 1..3 |-> In(VisionInput(a, k), 1)] \o <<In(VisionMask(a), 1)>>,
         <<Out(VisionOutput(a))>>)

\* The mask disappears with its attentions, so it may serve nothing else.
VisionShared == {VisionMask(a) : a \in VisionAnchors}

VisionSharedFits == \A m \in VisionShared : Users(Out(m)) \subseteq VisionAnchors

-----------------------------------------------------------------------------
(* Suffix metadata: the mask and the positions of the denoised tokens *)

SuffixAnchors ==
  {i \in DOMAIN ops : /\ Is(i, "concat", "axis2") /\ TypeOf(Out(i)) = "mask"
                      /\ <<TypeOf(In(i, 1)), TypeOf(In(i, 2))>> = <<"prefix_mask", "suffix_mask">>}

SuffixPrefix(c) == Producer(In(c, 1), "broadcast_in_dim")
SuffixFill(c) == Producer(In(c, 2), "broadcast_in_dim")
SuffixPad(c) == In(SuffixPrefix(c), 1)
SuffixHeads(c) == SoleUser(Out(c), "broadcast_in_dim")

TheOne(S) == IF Cardinality(S) = 1 THEN CHOOSE i \in S : TRUE ELSE 0

CastsOf(c, v) == {i \in Users(v) : ops[i].inv = At(c).inv /\ ops[i].opcode = "cast"}

SuffixPadCast(c) == TheOne(CastsOf(c, SuffixPad(c)))
SuffixReduce(c) == SoleUser(Out(SuffixPadCast(c)), "reduce_sum")
SuffixOffset(c) == SoleUser(Out(SuffixReduce(c)), "broadcast_in_dim")

\* The second broadcast of the literal that fills the suffix mask.
SuffixLine(c) ==
  TheOne({i \in DOMAIN ops : /\ Is(i, "broadcast_in_dim", "fill_positions")
                             /\ ops[i].inv = At(c).inv
                             /\ ops[i].ins = At(SuffixFill(c)).ins})

SuffixLineCast(c) == SoleUser(Out(SuffixLine(c)), "cast")
SuffixCount(c) == SoleUser(Out(SuffixLineCast(c)), "cumulative_sum")
SuffixFirstAdd(c) == SoleUser(Out(SuffixOffset(c)), "add")
SuffixFinalAdd(c) == SoleUser(Out(SuffixFirstAdd(c)), "add")
SuffixMinusOne(c) ==
  Producer(OtherInput(SuffixFinalAdd(c), Out(SuffixFirstAdd(c))), "broadcast_in_dim")

SuffixOps(c) ==
  {SuffixPrefix(c), SuffixFill(c), c, SuffixPadCast(c), SuffixReduce(c), SuffixOffset(c),
   SuffixLine(c), SuffixLineCast(c), SuffixCount(c), SuffixFirstAdd(c), SuffixFinalAdd(c),
   SuffixMinusOne(c)}

SuffixMask(c) ==
  /\ At(SuffixPrefix(c)).attr = "prefix_over_queries"
  /\ At(SuffixFill(c)).attr = "fill_queries" /\ IsLiteral(In(SuffixFill(c), 1), "true")
  /\ TypeOf(SuffixPad(c)) = "pad"
  /\ UsedOnlyBy(Out(SuffixPrefix(c)), c) /\ UsedOnlyBy(Out(SuffixFill(c)), c)
  /\ SameInvocation(c, {SuffixHeads(c)}) /\ At(SuffixHeads(c)).attr = "over_heads"
  /\ Uses(Out(SuffixHeads(c))) # {}
  /\ SameInvocation(c, Users(Out(SuffixHeads(c))))
  /\ \A use \in Uses(Out(SuffixHeads(c))) :
        ops[use[1]].opcode = "scaled_dot_product_attention" /\ In(use[1], 4) = Out(SuffixHeads(c))

SuffixPositions(c) ==
  /\ At(SuffixPadCast(c)).attr = "i32" /\ At(SuffixReduce(c)).attr = "axis1"
  /\ At(SuffixOffset(c)).attr = "fill_positions"
  /\ At(SuffixLineCast(c)).attr = "i32" /\ At(SuffixCount(c)).attr = "axis1"
  /\ OtherInput(SuffixFirstAdd(c), Out(SuffixOffset(c))) = Out(SuffixCount(c))
  /\ UsedOnlyBy(Out(SuffixCount(c)), SuffixFirstAdd(c))
  /\ At(SuffixMinusOne(c)).attr = "fill_positions"
  /\ IsLiteral(In(SuffixMinusOne(c), 1), "minus_one")
  /\ UsedOnlyBy(Out(SuffixMinusOne(c)), SuffixFinalAdd(c))
  /\ Uses(Out(SuffixFinalAdd(c))) # {}
  /\ SameInvocation(c, Users(Out(SuffixFinalAdd(c))))
  /\ \A i \in Users(Out(SuffixFinalAdd(c))) : ops[i].opcode = "rope_default"

SuffixMatches(c) ==
  /\ SameInvocation(c, SuffixOps(c))
  /\ SuffixMask(c)
  /\ SuffixPositions(c)
  /\ {Out(i) : i \in SuffixOps(c) \ {c, SuffixFinalAdd(c)}} \cap public = {}

SuffixRegion(c) ==
  Region(c, SuffixOps(c), <<SuffixPad(c)>>, <<Out(c), Out(SuffixFinalAdd(c))>>)

-----------------------------------------------------------------------------
(* Prefix input: images, language embedding, mask and positions *)

PrefixInputAnchors ==
  {i \in DOMAIN ops : /\ Is(i, "concat", "axis1") /\ TypeOf(Out(i)) = "prefix_tokens"
                      /\ TypeOf(In(i, 4)) = "language_f32"}

InputCast(c) == Producer(In(c, 4), "cast")
InputMul(c) == Producer(In(InputCast(c), 1), "mul")
InputParent(c, opcode) ==
  TheOne({k \in 1..2 : At(ProducerOf(In(InputMul(c), k))).opcode = opcode})
InputGather(c) == Producer(In(InputMul(c), InputParent(c, "gather")), "gather")
InputScale(c) == Producer(In(InputMul(c), InputParent(c, "broadcast_in_dim")), "broadcast_in_dim")
InputMaskConcat(c) ==
  TheOne({i \in DOMAIN ops : /\ Is(i, "concat", "axis1") /\ ops[i].inv = At(c).inv
                             /\ Len(ops[i].ins) = 4 /\ TypeOf(Out(i)) = "pad_mask"})
InputImageMask(c, k) == Producer(In(InputMaskConcat(c), k), "broadcast_in_dim")
InputMaskCast(c) == TheOne({i \in CastsOf(c, Out(InputMaskConcat(c))) : ops[i].attr = "i32"})
InputCount(c) == SoleUser(Out(InputMaskCast(c)), "cumulative_sum")
InputAdd(c) == SoleUser(Out(InputCount(c)), "add")
InputMinusOne(c) == Producer(OtherInput(InputAdd(c), Out(InputCount(c))), "broadcast_in_dim")

PrefixInputOps(c) ==
  {InputGather(c), InputScale(c), InputMul(c), InputCast(c), c, InputMaskConcat(c),
   InputMaskCast(c), InputCount(c), InputMinusOne(c), InputAdd(c)}
  \cup {InputImageMask(c, k) : k \in 1..3}

InputLanguage(c) ==
  /\ At(InputCast(c)).attr = "f32"
  /\ At(InputScale(c)).attr = "fill_language" /\ IsLiteral(In(InputScale(c), 1), "root_width")
  /\ <<TypeOf(In(InputGather(c), 1)), TypeOf(In(InputGather(c), 2))>> = <<"embedding", "tokens">>
  /\ UsedOnlyBy(Out(InputGather(c)), InputMul(c))
  /\ UsedOnlyBy(Out(InputScale(c)), InputMul(c))
  /\ UsedOnlyBy(Out(InputMul(c)), InputCast(c))
  /\ UsedOnlyBy(Out(InputCast(c)), c)

InputPositions(c) ==
  /\ \A k \in 1..3 :
        /\ At(InputImageMask(c, k)).attr = "fill_image"
        /\ TypeOf(In(InputImageMask(c, k), 1)) = "flag"
        /\ UsedOnlyBy(Out(InputImageMask(c, k)), InputMaskConcat(c))
  /\ TypeOf(In(InputMaskConcat(c), 4)) = "token_mask"
  /\ At(InputCount(c)).attr = "axis1"
  /\ At(InputMinusOne(c)).attr = "fill_positions"
  /\ IsLiteral(In(InputMinusOne(c), 1), "minus_one")
  /\ UsedOnlyBy(Out(InputMinusOne(c)), InputAdd(c))
  /\ Uses(Out(InputAdd(c))) # {}
  /\ SameInvocation(c, Users(Out(InputAdd(c))))
  /\ \A i \in Users(Out(InputAdd(c))) : ops[i].opcode = "rope_default"

PrefixInputWrites(c) == <<Out(c), Out(InputMaskConcat(c)), Out(InputAdd(c))>>

PrefixInputMatches(c) ==
  /\ SameInvocation(c, PrefixInputOps(c))
  /\ Cardinality(PrefixInputOps(c)) = 13
  /\ InputLanguage(c)
  /\ InputPositions(c)
  /\ ({Out(i) : i \in PrefixInputOps(c)} \ ToSet(PrefixInputWrites(c))) \cap public = {}

PrefixInputRegion(c) ==
  Region(c, PrefixInputOps(c),
         SubSeq(At(c).ins, 1, 3) \o <<In(InputGather(c), 1), In(InputGather(c), 2)>>
           \o [k \in 1..3 |-> In(InputImageMask(c, k), 1)] \o <<In(InputMaskConcat(c), 4)>>,
         PrefixInputWrites(c))

-----------------------------------------------------------------------------
(* Adaptive normalization: thirteen operations around one rms_norm *)

AdaptiveAnchors == {i \in DOMAIN ops : Is(i, "rms_norm", "1e-6") /\ TypeOf(Out(i)) = "hidden_f32"}

AdaptiveCast(r) == Producer(In(r, 1), "cast")
AdaptiveWeight(r) == Producer(In(r, 2), "broadcast_in_dim")
Scaled(r) == SoleUser(Out(r), "mul")
ScaleAdd(r) == Producer(OtherInput(Scaled(r), Out(r)), "add")
FillsOne(i) == IsLiteral(In(i, 1), "one")
ScaleTerms(r) == {Producer(In(ScaleAdd(r), k), "broadcast_in_dim") : k \in 1..2}
OnesTokens(r) == TheOne({i \in ScaleTerms(r) : FillsOne(i)})
ScaleBroadcast(r) == TheOne({i \in ScaleTerms(r) : ~FillsOne(i)})
Shifted(r) == SoleUser(Out(Scaled(r)), "add")
ShiftBroadcast(r) == Producer(OtherInput(Shifted(r), Out(Scaled(r))), "broadcast_in_dim")
NormalizedCast(r) == SoleUser(Out(Shifted(r)), "cast")
ScaleSlice(r) == Producer(In(ScaleBroadcast(r), 1), "slice")
ShiftSlice(r) == Producer(In(ShiftBroadcast(r), 1), "slice")
Modulation(r) == In(ScaleSlice(r), 1)
SliceAt(r, start) == TheOne({i \in Users(Modulation(r)) : Is(i, "slice", start)})
BroadcastAt(r, start) == SoleUser(Out(SliceAt(r, start)), "broadcast_in_dim")
GateCast(r) == SoleUser(Out(BroadcastAt(r, "2048")), "cast")

Starts == {"0", "1024", "2048"}

AdaptiveOps(r) ==
  {AdaptiveCast(r), r, Scaled(r), ScaleAdd(r), Shifted(r), NormalizedCast(r), GateCast(r)}
  \cup {SliceAt(r, start) : start \in Starts} \cup {BroadcastAt(r, start) : start \in Starts}

\* Fault: scale and shift may come from each other's slice.
AdaptiveRoutedAnyhow(r) == {ScaleBroadcast(r), ShiftBroadcast(r)} = {BroadcastAt(r, "0"), BroadcastAt(r, "1024")}

AdaptiveRouted(r) ==
  ScaleBroadcast(r) = BroadcastAt(r, "0") /\ ShiftBroadcast(r) = BroadcastAt(r, "1024")

AdaptiveNorm(r) ==
  /\ SameInvocation(r, {AdaptiveCast(r), AdaptiveWeight(r), Scaled(r)})
  /\ At(AdaptiveCast(r)).attr = "f32" /\ TypeOf(In(AdaptiveCast(r), 1)) = "hidden_bf16"
  /\ UsedOnlyBy(Out(AdaptiveCast(r)), r)
  /\ At(AdaptiveWeight(r)).attr = "fill_width" /\ FillsOne(AdaptiveWeight(r))
  /\ 0 \notin ScaleTerms(r)
  /\ At(ScaleBroadcast(r)).attr = "over_tokens" /\ At(OnesTokens(r)).attr = "fill_tokens"
  /\ At(ShiftBroadcast(r)).attr = "over_tokens"
  /\ At(NormalizedCast(r)).attr = "bf16"

AdaptiveSlices(r) ==
  /\ TypeOf(Modulation(r)) = "modulation" /\ In(ShiftSlice(r), 1) = Modulation(r)
  /\ Cardinality(Uses(Modulation(r))) = 3
  /\ SameInvocation(r, {SliceAt(r, start) : start \in Starts})
  /\ \A start \in Starts : At(BroadcastAt(r, start)).attr = "over_tokens"
  /\ AdaptiveRouted(r)
  /\ UsedOnlyBy(Out(ScaleBroadcast(r)), ScaleAdd(r))
  /\ UsedOnlyBy(Out(ShiftBroadcast(r)), Shifted(r))
  /\ At(GateCast(r)).attr = "bf16"

AdaptiveMatches(r) ==
  /\ AdaptiveNorm(r)
  /\ AdaptiveSlices(r)
  /\ Cardinality(AdaptiveOps(r)) = 13
  /\ {Out(i) : i \in AdaptiveOps(r) \ {NormalizedCast(r), GateCast(r)}} \cap public = {}

AdaptiveRegion(r) ==
  Region(r, AdaptiveOps(r), <<In(AdaptiveCast(r), 1), Modulation(r)>>,
         <<Out(NormalizedCast(r)), Out(GateCast(r))>>)

\* The broadcasts of the literal one go when every user is an accepted region.
AdaptiveShared ==
  {w \in {AdaptiveWeight(r) : r \in AdaptiveAnchors} : Users(Out(w)) \subseteq AdaptiveAnchors}
  \cup {o \in {OnesTokens(r) : r \in AdaptiveAnchors} :
          Users(Out(o)) \subseteq {ScaleAdd(r) : r \in AdaptiveAnchors}}

=============================================================================
