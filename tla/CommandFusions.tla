--------------------------- MODULE CommandFusions ---------------------------
(***************************************************************************)
(* lower_native_program: the commands of all providers are fused further,  *)
(* pass after pass, each pass rewriting the command groups the earlier     *)
(* ones left.  A pass drops reads and writes, moves operands from one      *)
(* command to another and joins commands by the storage they share; the    *)
(* stream that is assembled at the end must still compute the schedule,    *)
(* and a pass must not make a schedule unlowerable that was lowerable.     *)
(* Only the groups the passes look at are represented; the providers that  *)
(* insist on a region of their own find it elsewhere in the program.       *)
(***************************************************************************)
EXTENDS ScheduleEdits, RegionMatchers

VARIABLES
  options,     \* fuse_gelu_mul, fuse_ffn and fuse_residual
  lowered,     \* group -> commands
  regionOps,   \* lowered["adaptive"].fused_execution_indices
  pass         \* the next pass of lower, or how it ended

vars == <<scheduleVars, options, lowered, regionOps, pass>>

Groups ==
  {"linear", "cast", "pointwise", "activation", "attention", "rope", "kv_pack", "adaptive",
   "projection_split", "gelu_mul", "rounded_mul_add", "qkv_rope_pack"}

Command(form, anchor, covers, reads, writes) ==
  [form |-> form, anchor |-> anchor, covers |-> covers, reads |-> reads, writes |-> writes]

FromRegion(form, region) ==
  Command(form, region.anchor, region.covers, region.reads, region.writes)

Covered(S) == UNION {c.covers : c \in S}

\* The element of a set that holds exactly one.
Sole(S) == CHOOSE c \in S : TRUE

-----------------------------------------------------------------------------
(* The commands of the providers *)

OpcodesOf ==
  [linear |-> {"linear"}, cast |-> {"cast"}, pointwise |-> {"add", "mul"},
   activation |-> {"gelu", "silu"}, attention |-> {"scaled_dot_product_attention"}]

OpCommands(group) ==
  {Command("op", i, {i}, ops[i].ins, <<ops[i].out>>) :
     i \in {j \in DOMAIN ops : ops[j].opcode \in OpcodesOf[group]}}

\* One exact variant of the rotation has a single head, whose transpose is a view.
RopeForm(i) == IF TypeOf(Out(i)) = "current" THEN "rope_view" ELSE "rope"

Provided ==
  [group \in Groups |->
     CASE group \in DOMAIN OpcodesOf -> OpCommands(group)
       [] group = "rope" -> {FromRegion(RopeForm(i), RopeRegion(i)) : i \in RopeAnchors}
       [] group = "kv_pack" -> {FromRegion("kv_pack", KvPackRegion(a)) : a \in KvPackAnchors}
       [] group = "adaptive" -> {FromRegion("adaptive", AdaptiveRegion(r)) : r \in AdaptiveAnchors}
       [] OTHER -> {}]

RegionsMatch ==
  /\ \A i \in RopeAnchors : RopeMatches(i)
  /\ \A a \in KvPackAnchors : KvPackMatches(a)
  /\ \A r \in AdaptiveAnchors : AdaptiveMatches(r)

-----------------------------------------------------------------------------
(* lower_projection_splits *)

SplitParts == <<"part0", "part1", "part2">>
PartTypes == <<"query_part", "kv_part", "kv_part">>

SplitSources ==
  {v \in DOMAIN values \ public :
     /\ Cardinality(Uses(v)) = 3 /\ TypeOf(v) = "projected"
     /\ \A k \in 1..3 : \E i \in Users(v) :
           Is(i, "slice", SplitParts[k]) /\ TypeOf(Out(i)) = PartTypes[k]}

Part(v, k) == CHOOSE i \in Users(v) : At(i).attr = SplitParts[k]

SplitCommands ==
  {Command("split", Min(Users(v)), Users(v), <<v>>, [k \in 1..3 |-> Out(Part(v, k))]) :
     v \in SplitSources}

-----------------------------------------------------------------------------
(* lower_gelu_mul *)

Bf16Types == {"hidden_bf16", "ffn"}

\* Fault: an output of the program may be fused away.
PrivateUserPublic(v, opcode) == SoleUser(v, opcode)

PrivateUser(v, opcode) == IF v \in public THEN 0 ELSE SoleUser(v, opcode)

Operand(i, v) == IF In(i, 1) = v THEN In(i, 2) ELSE In(i, 1)

GeluMulFits(i, S) ==
  LET mul == PrivateUser(Out(i), "mul") IN
  /\ Is(i, "gelu", "tanh")
  /\ mul # 0 /\ mul \notin Covered(S)
  /\ TypeOf(In(i, 1)) \in Bf16Types
  /\ \A v \in {Out(i), Operand(mul, Out(i)), Out(mul)} : TypeOf(v) = TypeOf(In(i, 1))

\* Both operands are the halves of one private projection.
Packed(i, mul, up) ==
  LET gateHalf == Producer(In(i, 1), "slice")
      upHalf == Producer(up, "slice")
  IN  /\ 0 \notin {gateHalf, upHalf} /\ In(gateHalf, 1) = In(upHalf, 1)
      /\ At(gateHalf).attr = "half0" /\ At(upHalf).attr = "half1"
      /\ {In(i, 1), up} \cap public = {}
      /\ UsedOnlyBy(In(i, 1), i) /\ UsedOnlyBy(up, mul)
      /\ In(gateHalf, 1) \notin public /\ Cardinality(Uses(In(gateHalf, 1))) = 2
      /\ TypeOf(In(gateHalf, 1)) = "packed_ffn"

GeluMulCommand(i) ==
  LET mul == PrivateUser(Out(i), "mul")
      up == Operand(mul, Out(i))
      halves == {ProducerOf(In(i, 1)), ProducerOf(up)}
  IN  IF options.ffn /\ Packed(i, mul, up)
      THEN Command("gelu_mul_packed", Min(halves \cup {i, mul}), halves \cup {i, mul},
                   <<In(ProducerOf(up), 1)>>, <<Out(mul)>>)
      ELSE Command("gelu_mul", Min({i, mul}), {i, mul}, <<In(i, 1), up>>, <<Out(mul)>>)

GeluMulCommands ==
  FoldLeft(LAMBDA S, i : IF GeluMulFits(i, S) THEN S \cup {GeluMulCommand(i)} ELSE S,
           {}, [i \in DOMAIN ops |-> i])

-----------------------------------------------------------------------------
(* lower_rounded_mul_add *)

MulAddFits(i, taken) ==
  LET add == PrivateUser(Out(i), "add") IN
  /\ At(i).opcode = "mul" /\ i \notin taken
  /\ add # 0 /\ add \notin taken
  /\ TypeOf(Out(i)) \in Bf16Types
  /\ \A v \in {In(i, 1), In(i, 2), Operand(add, Out(i)), Out(add)} : TypeOf(v) = TypeOf(Out(i))

MulAddCommand(i) ==
  LET add == PrivateUser(Out(i), "add") IN
  Command("mul_add", Min({i, add}), {i, add},
          <<In(i, 1), In(i, 2), Operand(add, Out(i))>>, <<Out(add)>>)

MulAddCommands(excluded) ==
  FoldLeft(LAMBDA S, i : IF MulAddFits(i, excluded \cup Covered(S)) THEN S \cup {MulAddCommand(i)} ELSE S,
           {}, [i \in DOMAIN ops |-> i])

-----------------------------------------------------------------------------
(* compact_gate_commands: the consumer rounds the modulation itself *)

Movable(v) == values[v].store \in {"constant", "temp", "input"}

GateOf(norm) == norm.writes[2]

GateMul(norm) ==
  IF Movable(norm.reads[2]) THEN PrivateUser(GateOf(norm), "mul") ELSE 0

\* The residual command that reads the gate as one of its factors.
GateResidual(norm) ==
  {c \in lowered["rounded_mul_add"] :
     /\ GateMul(norm) \in c.covers
     /\ GateOf(norm) \in {c.reads[1], c.reads[2]} /\ c.reads[1] # c.reads[2]
     /\ c.reads[3] # GateOf(norm)
     /\ \A k \in 1..3 : TypeOf(c.reads[k]) = TypeOf(GateOf(norm))}

CompactNorms == {n \in lowered["adaptive"] : GateMul(n) # 0 /\ GateResidual(n) # {}}

WithoutGate(norm) == [norm EXCEPT !.form = "norm", !.writes = <<norm.writes[1]>>]

\* At most one factor is replaced: the command is no plain mul_add afterwards.
GatedBy(c) == {n \in CompactNorms : c \in GateResidual(n)}

WithModulation(c, norm) ==
  LET factor == IF c.reads[1] = GateOf(norm) THEN c.reads[2] ELSE c.reads[1] IN
  [c EXCEPT !.form = "residual", !.reads = <<factor, norm.reads[2], c.reads[3]>>]

FirstGate(c) == CHOOSE n \in GatedBy(c) : \A m \in GatedBy(c) : n.anchor <= m.anchor

CompactedNorms ==
  {IF \E c \in GateResidual(n) : n \in CompactNorms /\ FirstGate(c) = n THEN WithoutGate(n) ELSE n :
     n \in lowered["adaptive"]}

CompactedResiduals ==
  {IF GatedBy(c) # {} THEN WithModulation(c, FirstGate(c)) ELSE c : c \in lowered["rounded_mul_add"]}

-----------------------------------------------------------------------------
(* placements_from_partial_lowering: who owns the shared operations *)

Followers(i, S) == {c \in S : c.anchor >= i /\ At(c.anchor).inv = At(i).inv}

Owner(i, S) == CHOOSE c \in Followers(i, S) : \A d \in Followers(i, S) : c.anchor <= d.anchor

Owned(S, fused) ==
  {[c EXCEPT !.covers = @ \cup {i \in fused \ Covered(S) : Owner(i, S) = c}] : c \in S}

Placeable(S, fused) == \A i \in fused \ Covered(S) : Followers(i, S) # {}

-----------------------------------------------------------------------------
(* fuse_residual_norm_commands *)

NormsOf(c) ==
  {n \in Owned(lowered["adaptive"], regionOps) : n.form = "norm" /\ n.reads[1] = c.writes[1]}

Joins(c) ==
  /\ c.form = "residual" /\ Cardinality(NormsOf(c)) = 1
  /\ Movable(c.reads[2]) /\ Movable(Sole(NormsOf(c)).reads[2])

Joined(c) ==
  LET n == Sole(NormsOf(c)) IN
  [c EXCEPT !.form = "residual_norm", !.covers = @ \cup n.covers,
            !.reads = Append(@, n.reads[2]), !.writes = Append(@, n.writes[1])]

JoinedNorms == UNION {NormsOf(c) : c \in {d \in lowered["rounded_mul_add"] : Joins(d)}}

-----------------------------------------------------------------------------
(* fuse_qkv_rope_pack: commands joined by the storage they share *)

\* The value that owns the bytes, by the aliases of the memory plan.
Root(v) ==
  LET Up(w) == LET p == ProducerOf(w) IN
               CASE p \notin elided -> w
                 [] At(p).opcode = "state_read" -> At(p).attr
                 [] OTHER -> In(p, 1)
      up[n \in Nat] == IF n = 0 THEN v ELSE Up(up[n - 1])
  IN  up[Cardinality(elided)]

Stored(v, store) == values[Root(v)].store = store

Reads(v) ==
  {read \in UNION {{c} \X DOMAIN c.reads : c \in UNION {lowered[g] : g \in Groups}} :
     Root(read[1].reads[read[2]]) = Root(v)}

PrivateTo(v, c) ==
  /\ Root(v) \notin {Root(w) : w \in public}
  /\ Stored(v, "temp")
  /\ Cardinality(Reads(v)) = 1 /\ \A read \in Reads(v) : read[1] = c

RopesOf(v) == {r \in lowered["rope"] : Root(r.reads[1]) = Root(v)}
PacksOf(v) == {p \in lowered["kv_pack"] : Root(p.reads[3]) = Root(v)}

\* Fault: queries and keys may be rotated at different positions.
QkvPositionsIgnored(q, k) == TRUE

SamePositions(q, k) == Root(q.reads[2]) = Root(k.reads[2])

QkvJoins(split, q, k, pack) ==
  /\ RopesOf(split.writes[1]) = {q} /\ RopesOf(split.writes[2]) = {k} /\ q # k
  /\ q.form = "rope" /\ k.form = "rope_view"
  /\ PacksOf(k.writes[1]) = {pack}
  /\ SamePositions(q, k)
  /\ Root(pack.reads[4]) = Root(split.writes[3])
  /\ PrivateTo(split.writes[1], q) /\ PrivateTo(split.writes[2], k)
  /\ PrivateTo(split.writes[3], pack) /\ PrivateTo(k.writes[1], pack)
  /\ ~Stored(q.reads[2], "state")

Quadruples ==
  {f \in lowered["projection_split"] \X lowered["rope"] \X lowered["rope"] \X lowered["kv_pack"] :
     QkvJoins(f[1], f[2], f[3], f[4])}

QkvCommand(f) ==
  Command("qkv_rope_pack", f[1].anchor, Covered(ToSet(f)),
          <<f[1].reads[1], f[2].reads[2], f[4].reads[1], f[4].reads[2]>>,
          <<f[2].writes[1], f[4].writes[1], f[4].writes[2]>>)

Replaced(group) == lowered[group] \ UNION {ToSet(f) : f \in Quadruples}

-----------------------------------------------------------------------------
(* What the commands compute *)

Filled(attr, t) == Term("broadcast_in_dim", attr, <<t>>)
Sum(a, b) == Term("add", "", <<a, b>>)
Product(a, b) == Term("mul", "", <<a, b>>)
Rotated(t, positions) == Term("rope_default", "split_half", <<t, positions>>)
Heads(t) == Term("transpose", "0213", <<t>>)
Gelu(t) == Term("gelu", "tanh", <<t>>)
Slice(part, t) == Term("slice", part, <<t>>)
Packing(prefix, current) == Term("concat", "axis2", <<prefix, current>>)
One == Term("leaf", "one", <<>>)
OverTokens(start, modulation) == Filled("over_tokens", Slice(start, modulation))
Gate(modulation) == Term("cast", "bf16", <<OverTokens("2048", modulation)>>)

Norm(x, modulation) ==
  LET normal == Term("rms_norm", "1e-6", <<Term("cast", "f32", <<x>>), Filled("fill_width", One)>>)
      scale == Sum(Filled("fill_tokens", One), OverTokens("0", modulation))
  IN  Term("cast", "bf16", <<Sum(Product(normal, scale), OverTokens("1024", modulation))>>)

Residual(factor, modulation, x) == Sum(Product(factor, Gate(modulation)), x)

Computed(c, t) ==
  CASE c.form = "op" -> <<Term(At(c.anchor).opcode, At(c.anchor).attr, t)>>
    [] c.form = "rope" -> <<Rotated(Heads(t[1]), t[2])>>
    [] c.form = "rope_view" -> <<Rotated(t[1], t[2])>>
    [] c.form = "kv_pack" -> <<Packing(t[1], t[3]), Packing(t[2], t[4])>>
    [] c.form = "split" -> [k \in 1..3 |-> Slice(SplitParts[k], t[1])]
    [] c.form = "gelu_mul" -> <<Product(Gelu(t[1]), t[2])>>
    [] c.form = "gelu_mul_packed" -> <<Product(Gelu(Slice("half0", t[1])), Slice("half1", t[1]))>>
    [] c.form = "mul_add" -> <<Sum(Product(t[1], t[2]), t[3])>>
    [] c.form = "adaptive" -> <<Norm(t[1], t[2]), Gate(t[2])>>
    [] c.form = "norm" -> <<Norm(t[1], t[2])>>
    [] c.form = "residual" -> <<Residual(t[1], t[2], t[3])>>
    [] c.form = "residual_norm" ->
         <<Residual(t[1], t[2], t[3]), Norm(Residual(t[1], t[2], t[3]), t[4])>>
    [] c.form = "qkv_rope_pack" ->
         <<Rotated(Heads(Slice("part0", t[1])), t[2]),
           Packing(t[3], Rotated(Slice("part1", t[1]), t[2])),
           Packing(t[4], Slice("part2", t[1]))>>

AllCommands == UNION {lowered[g] : g \in Groups}

\* Everything the commands of S can produce from what is given, one round of
\* ready commands after the other: a command that waits for itself never runs.
HeldBy(S) ==
  LET given == {v \in DOMAIN values : values[v].store \notin {"temp", "alias"}}
      Views(held) ==
        [v \in {w \in DOMAIN values \ DOMAIN held : Root(w) \in DOMAIN held} |-> held[Root(v)]]
      Ready(held) ==
        {c \in S : /\ ToSet(c.reads) \subseteq DOMAIN held
                   /\ ~(ToSet(c.writes) \subseteq DOMAIN held)}
      Results(held, c) ==
        LET results == Computed(c, [k \in DOMAIN c.reads |-> held[c.reads[k]]])
        IN  [v \in ToSet(c.writes) |-> results[CHOOSE k \in DOMAIN c.writes : c.writes[k] = v]]
      Round(held, n) ==
        LET seen == held @@ Views(held)
        IN  FoldSet(LAMBDA c, h : h @@ Results(seen, c), seen, Ready(seen))
  IN  FoldLeft(Round, [v \in given |-> Leaf(v)], [n \in 1..(Cardinality(S) + 1) |-> n])

\* Coverage and order, as assemble_command_stream asks for them.
Assembles(S) ==
  LET held == HeldBy(S) IN
  /\ \A c, d \in S : c # d => c.anchor # d.anchor /\ c.covers \cap d.covers = {}
  /\ Covered(S) \cap elided = {}
  /\ Covered(S) \cup elided = DOMAIN ops
  /\ \A c \in S : ToSet(c.reads) \subseteq DOMAIN held
  /\ public \subseteq DOMAIN held

-----------------------------------------------------------------------------
(* The passes *)

FusionInit ==
  /\ FromTemplate
  /\ options \in [gelu : BOOLEAN, ffn : BOOLEAN, residual : BOOLEAN]
  /\ lowered = [g \in Groups |-> {}] /\ regionOps = {}
  /\ pass = "provide"

EditSchedule == pass = "provide" /\ Edit /\ UNCHANGED <<options, lowered, regionOps, pass>>

Then(next) == pass' = next /\ UNCHANGED <<scheduleVars, options>>

Provide ==
  /\ pass = "provide" /\ RegionsMatch
  /\ lowered' = Provided
  /\ regionOps' = AdaptiveShared \cup Covered(Provided["adaptive"])
  /\ Then("split")

RefuseRegions ==
  /\ pass = "provide" /\ ~RegionsMatch
  /\ UNCHANGED <<lowered, regionOps>> /\ Then("refused")

SplitProjections ==
  /\ pass = "split"
  /\ lowered' = [lowered EXCEPT !["projection_split"] = SplitCommands]
  /\ UNCHANGED regionOps /\ Then("gelu")

Outside(S, taken) == {c \in S : c.anchor \notin taken}

FuseGeluMul ==
  /\ pass = "gelu"
  /\ lowered' = IF options.gelu \/ options.ffn
                THEN [lowered EXCEPT !["gelu_mul"] = GeluMulCommands,
                                     !["activation"] = Outside(@, Covered(GeluMulCommands)),
                                     !["pointwise"] = Outside(@, Covered(GeluMulCommands))]
                ELSE lowered
  /\ UNCHANGED regionOps /\ Then("supersede")

\* The operations of a region keep no command of their own.
Supersede ==
  /\ pass = "supersede"
  /\ lowered' = [lowered EXCEPT !["cast"] = Outside(@, regionOps),
                                !["pointwise"] = Outside(@, regionOps)]
  /\ UNCHANGED regionOps /\ Then(IF options.residual THEN "residual" ELSE "qkv")

FuseResiduals ==
  /\ pass = "residual"
  /\ LET fused == MulAddCommands(regionOps \cup Covered(lowered["gelu_mul"])) IN
     /\ lowered' = [lowered EXCEPT !["rounded_mul_add"] = fused,
                                   !["pointwise"] = Outside(@, Covered(fused))]
     /\ Then(IF fused = {} THEN "qkv" ELSE "compact")
  /\ UNCHANGED regionOps

CompactGates ==
  /\ pass = "compact"
  /\ lowered' = [lowered EXCEPT !["adaptive"] = CompactedNorms,
                                !["rounded_mul_add"] = CompactedResiduals]
  /\ UNCHANGED regionOps /\ Then("norms")

FuseResidualNorms ==
  /\ pass = "norms" /\ Placeable(lowered["adaptive"], regionOps)
  /\ IF JoinedNorms = {}
     THEN UNCHANGED <<lowered, regionOps>>
     ELSE /\ lowered' =
               [lowered EXCEPT
                  !["rounded_mul_add"] = {IF Joins(c) THEN Joined(c) ELSE c : c \in @},
                  !["adaptive"] = Owned(@, regionOps) \ JoinedNorms]
          /\ regionOps' = regionOps \ Covered(JoinedNorms)
  /\ Then("qkv")

FuseQkv ==
  /\ pass = "qkv"
  /\ lowered' =
       [lowered EXCEPT !["projection_split"] = Replaced("projection_split"),
                       !["rope"] = Replaced("rope"), !["kv_pack"] = Replaced("kv_pack"),
                       !["qkv_rope_pack"] = {QkvCommand(f) : f \in Quadruples}]
  /\ UNCHANGED regionOps /\ Then("place")

Place ==
  /\ pass = "place" /\ Placeable(lowered["adaptive"], regionOps)
  /\ lowered' = [lowered EXCEPT !["adaptive"] = Owned(@, regionOps)]
  /\ UNCHANGED regionOps /\ Then("assemble")

RefusePlacement ==
  /\ pass \in {"norms", "place"} /\ ~Placeable(lowered["adaptive"], regionOps)
  /\ UNCHANGED <<lowered, regionOps>> /\ Then("refused")

Assemble ==
  /\ pass = "assemble"
  /\ UNCHANGED <<lowered, regionOps>> /\ Then(IF Assembles(AllCommands) THEN "assembled" ELSE "refused")

FusionNext ==
  \/ EditSchedule \/ Provide \/ RefuseRegions \/ SplitProjections \/ FuseGeluMul \/ Supersede
  \/ FuseResiduals \/ CompactGates \/ FuseResidualNorms \/ FuseQkv \/ Place \/ RefusePlacement
  \/ Assemble

FusionSpec == FusionInit /\ [][FusionNext]_vars

-----------------------------------------------------------------------------
(* Properties *)

\* After every pass, whatever the commands can still compute they compute as
\* the schedule does, up to views: no pass swaps the operands of a factor, of a
\* half, of a modulation or of a rotation.
FusedMeansSchedule ==
  pass \notin {"provide", "refused"} =>
    LET bytes == MeaningsWithViews(elided)
        held == HeldBy(AllCommands)
    IN  \A v \in DOMAIN held : held[v] = bytes[v]

\* The commands when no pass fuses any.
Unfused ==
  LET regions == AdaptiveShared \cup Covered(Provided["adaptive"]) IN
  UNION {Outside(Provided[g], regions) : g \in {"cast", "pointwise"}}
    \cup UNION {Provided[g] : g \in Groups \ {"cast", "pointwise", "adaptive"}}
    \cup Owned(Provided["adaptive"], regions) \cup SplitCommands

\* A pass that drops a write another command needs, claims an operation twice or
\* makes a command wait for itself turns a program that lowers into one that is
\* refused.  None does.
FusionsKeepLowerable ==
  pass = "refused" /\ RegionsMatch
    /\ Placeable(Provided["adaptive"], AdaptiveShared \cup Covered(Provided["adaptive"])) =>
      ~Assembles(Unfused)

=============================================================================
