-------------------------- MODULE ProviderRegions --------------------------
(***************************************************************************)
(* Provider lowering: a built-in provider looks for the operations its     *)
(* kernel replaces, refuses the schedule when an anchor stands in a graph  *)
(* the kernel does not compute, and otherwise returns one command per      *)
(* anchor.  The operations a command replaces must not be needed by        *)
(* anything else, and the command must write what they would have written. *)
(***************************************************************************)
EXTENDS ScheduleEdits, RegionMatchers

VARIABLE lowering   \* what the provider returned

regionVars == <<scheduleVars, lowering>>

-----------------------------------------------------------------------------
(* The result of a provider *)

Anchors ==
  CASE template.provider = "rope" -> RopeAnchors
    [] template.provider = "kv_pack" -> KvPackAnchors
    [] template.provider = "prefix_kv_store" -> PrefixStoreAnchors
    [] template.provider = "vision" -> VisionAnchors
    [] template.provider = "suffix" -> SuffixAnchors
    [] template.provider = "prefix_input" -> PrefixInputAnchors
    [] template.provider = "adaptive" -> AdaptiveAnchors
    [] OTHER -> SingleAnchors(template.provider)

Matches(a) ==
  CASE template.provider = "rope" -> RopeMatches(a)
    [] template.provider = "kv_pack" -> KvPackMatches(a)
    [] template.provider = "prefix_kv_store" -> PrefixViews /\ PrefixStoreMatches(a)
    [] template.provider = "vision" -> VisionMatches(a)
    [] template.provider = "suffix" -> SuffixMatches(a)
    [] template.provider = "prefix_input" -> PrefixInputMatches(a)
    [] template.provider = "adaptive" -> AdaptiveMatches(a)
    [] template.provider = "action_slice" -> ActionSliceMatches(a)
    [] OTHER -> TRUE

RegionOf(a) ==
  CASE template.provider = "rope" -> RopeRegion(a)
    [] template.provider = "kv_pack" -> KvPackRegion(a)
    [] template.provider = "prefix_kv_store" -> PrefixStoreRegion(a)
    [] template.provider = "vision" -> VisionRegion(a)
    [] template.provider = "suffix" -> SuffixRegion(a)
    [] template.provider = "prefix_input" -> PrefixInputRegion(a)
    [] template.provider = "adaptive" -> AdaptiveRegion(a)
    [] template.provider = "rms_norm" -> RmsNormRegion(a)
    [] template.provider = "layer_norm" -> LayerNormRegion(a)
    [] template.provider = "activation" -> ActivationRegion(a)
    [] template.provider = "time_embedding" -> TimeEmbeddingRegion(a)
    [] template.provider = "action_slice" -> ActionSliceRegion(a)

Shared ==
  CASE template.provider = "vision" -> VisionShared
    [] template.provider = "adaptive" -> AdaptiveShared
    [] OTHER -> {}

Disjoint(S) == \A r, q \in S : r # q => r.covers \cap q.covers = {}

Refused == [status |-> "refused", regions |-> {}, fused |-> {}]

\* A provider without a region to lower finds no capability and refuses as well.
Lowered ==
  IF \/ Anchors = {} \/ \E a \in Anchors : ~Matches(a)
  THEN Refused
  ELSE LET regions == {RegionOf(a) : a \in Anchors}
           fused == UNION {r.covers : r \in regions} \cup Shared
       IN  IF \/ ~Disjoint(regions)
              \/ template.provider = "vision" /\ ~VisionSharedFits
              \/ fused \cap elided # {}
           THEN Refused
           ELSE [status |-> "accepted", regions |-> regions, fused |-> fused]

\* placements_from_partial_lowering: a shared operation goes to the first
\* command that follows it in its invocation.
\* Fault: the owner is looked for before the shared operation.
FollowersBefore(i, regions) == {r \in regions : r.anchor <= i /\ At(r.anchor).inv = At(i).inv}

Followers(i, regions) == {r \in regions : r.anchor >= i /\ At(r.anchor).inv = At(i).inv}

Placeable(l) ==
  \A i \in l.fused \ UNION {r.covers : r \in l.regions} : Followers(i, l.regions) # {}

-----------------------------------------------------------------------------
(* The provider is given a schedule *)

RegionInit == FromTemplate /\ lowering = [Refused EXCEPT !.status = "pending"]

EditSchedule == lowering.status = "pending" /\ Edit /\ UNCHANGED lowering

Lower ==
  /\ lowering.status = "pending"
  /\ lowering' = Lowered
  /\ UNCHANGED scheduleVars

RegionNext == EditSchedule \/ Lower

RegionSpec == RegionInit /\ [][RegionNext]_regionVars

-----------------------------------------------------------------------------
(* Properties *)

\* What the kernels compute from the operands of their command.
One == Term("leaf", "one", <<>>)
MinusOne == Term("leaf", "minus_one", <<>>)
True == Term("leaf", "true", <<>>)
RootWidth == Term("leaf", "root_width", <<>>)
Filled(attr, t) == Term("broadcast_in_dim", attr, <<t>>)
Heads(t) == Term("transpose", "0213", <<t>>)
Cast(attr, t) == Term("cast", attr, <<t>>)
Sum(a, b) == Term("add", "", <<a, b>>)
Product(a, b) == Term("mul", "", <<a, b>>)
Counted(t) == Term("cumulative_sum", "axis1", <<Cast("i32", t)>>)

RopeKernel(t) == <<Term("rope_default", "split_half", <<Heads(t[1]), t[2]>>)>>

KvPackKernel(t) ==
  <<Term("concat", "axis2", <<t[1], t[3]>>), Term("concat", "axis2", <<t[2], Heads(t[4])>>)>>

PrefixStoreKernel(t) == <<t[1], Heads(t[2])>>

VisionKernel(t) ==
  <<Heads(Term("scaled_dot_product_attention", "full",
               <<Heads(t[1]), Heads(t[2]), Heads(t[3]), Filled("fill_mask", t[4])>>))>>

SuffixKernel(t) ==
  <<Term("concat", "axis2", <<Filled("prefix_over_queries", t[1]), Filled("fill_queries", True)>>),
    Sum(Sum(Filled("fill_positions", Term("reduce_sum", "axis1", <<Cast("i32", t[1])>>)),
            Counted(Filled("fill_positions", True))),
        Filled("fill_positions", MinusOne))>>

PrefixInputKernel(t) ==
  LET language == Product(Term("gather", "axis0", <<t[4], t[5]>>), Filled("fill_language", RootWidth))
      pad == Term("concat", "axis1", [k \in 1..3 |-> Filled("fill_image", t[5 + k])] \o <<t[9]>>)
  IN  <<Term("concat", "axis1", <<t[1], t[2], t[3], Cast("f32", language)>>),
        pad,
        Sum(Counted(pad), Filled("fill_positions", MinusOne))>>

AdaptiveKernel(t) ==
  LET part(start) == Filled("over_tokens", Term("slice", start, <<t[2]>>))
      norm == Term("rms_norm", "1e-6", <<Cast("f32", t[1]), Filled("fill_width", One)>>)
      scale == Sum(Filled("fill_tokens", One), part("0"))
  IN  <<Cast("bf16", Sum(Product(norm, scale), part("1024"))), Cast("bf16", part("2048"))>>

Kernel(r, t) ==
  CASE template.provider = "rope" -> RopeKernel(t)
    [] template.provider = "kv_pack" -> KvPackKernel(t)
    [] template.provider = "prefix_kv_store" -> PrefixStoreKernel(t)
    [] template.provider = "vision" -> VisionKernel(t)
    [] template.provider = "suffix" -> SuffixKernel(t)
    [] template.provider = "prefix_input" -> PrefixInputKernel(t)
    [] template.provider = "adaptive" -> AdaptiveKernel(t)
    [] OTHER -> <<Term(At(r.anchor).opcode, "exact", t)>>

\* What the schedule leaves in an operand the command writes.
Expected(r, v, held) ==
  IF values[v].store = "state"
  THEN held[In(CHOOSE i \in r.covers : Is(i, "state_write", v), 1)]
  ELSE held[v]

\* Every command writes what the operations it replaces would have written,
\* for every schedule the matcher lets through: an operand, a literal, an
\* attribute or a route the kernel hard-codes is never just assumed.
RegionMeansKernel ==
  LET held == Meanings IN
  \A r \in lowering.regions :
     [k \in DOMAIN r.writes |-> Expected(r, r.writes[k], held)]
       = Kernel(r, [k \in DOMAIN r.reads |-> held[r.reads[k]]])

\* Nothing outside a command needs a value that only the replaced operations
\* produced, and no such value is an output of the program.
Private(i, users) == Users(Out(i)) \subseteq users /\ Out(i) \notin public

RegionsPrivate ==
  template.provider # "adaptive" =>
    /\ \A r \in lowering.regions :
         \A i \in r.covers : Out(i) \in ToSet(r.writes) \cup {NoValue} \/ Private(i, r.covers)
    /\ lowering.status = "accepted" => \A i \in Shared : Private(i, lowering.fused)

\* The schedule a kernel was written for is lowered to it, and command assembly
\* finds an owner for every shared operation.
TemplateLowered ==
  edits = 0 /\ lowering.status # "pending" => lowering.status = "accepted" /\ Placeable(lowering)

=============================================================================
