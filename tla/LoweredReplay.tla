--------------------------- MODULE LoweredReplay ---------------------------
(***************************************************************************)
(* From a program to the commands the runtime replays: the schedule        *)
(* (Schedule), the storage of its values (build_memory_plan of             *)
(* src/aginfer/lowering/memory.py), one command per operation or fused     *)
(* pair, the order of the commands (CommandOrder), the removal of dead     *)
(* commands (src/aginfer/compiler/dead_commands.py) and one replay.        *)
(* What the replay leaves in the outputs and the states is compared with   *)
(* the reference executor.                                                 *)
(***************************************************************************)
EXTENDS Schedule, ReferenceExecutor, FiniteSetsExt

CONSTANTS
  MaxValueNumber,  \* bound on the values of one schedule that is lowered
  MaxLoweredOps    \* bound on its operations

VARIABLES
  phase,      \* "schedule", "lower", "order", "prune", "reorder", "run", "done",
              \* or "refused"
  placed,     \* the operations each command covers, as sets
  records, deps, ready, ordered, verdict,  \* the command order
  removed,    \* covered sets of the commands that were eliminated
  storage,    \* contents of each storage root that has been written
  slot        \* the next command of the replay

orderVars == <<records, deps, ready, ordered, verdict>>

replayVars == <<phase, placed, orderVars, removed, storage, slot>>

lowerVars == <<scheduleVars, replayVars>>

-----------------------------------------------------------------------------
(* Storage *)

\* Operations whose output names the bytes of their input.
MovesNothing(op) ==
  /\ op.opcode \notin {"state_write", "state_update", "state_read"}
  /\ KeepsBytes(op, values[op.inputs[1]].type, values[op.outputs[1]].type)

\* Operations without a command.
Elided == {k \in DOMAIN ops : MovesNothing(ops[k]) \/ ops[k].opcode = "state_read"}

AliasOf(v) ==
  IF values[v].storage = "state_alias" THEN values[v].alias
  ELSE ops[values[v].producer].inputs[1]

IsAlias(v) ==
  \/ values[v].storage = "state_alias"
  \/ values[v].producer # None /\ MovesNothing(ops[values[v].producer])

\* The value whose bytes v names; an alias points to a value or to a state.
Root(v) ==
  LET root[n \in DOMAIN values] == IF IsAlias(n) THEN root[AliasOf(n)] ELSE n
  IN  root[v]

Region(root) ==
  CASE values[root].storage = "input" -> "external"
    [] values[root].storage = "constant" -> "constant"
    [] values[root].storage = "state" -> "state"
    [] OTHER -> "arena"

-----------------------------------------------------------------------------
(* Commands *)

OutputRoots == {Root(outputs[i]) : i \in DOMAIN outputs}

\* A producer that is fused into its only user, in the same invocation, and whose
\* value nobody outside sees.
Fusable(i, j) ==
  /\ i < j /\ i \notin Elided /\ j \notin Elided
  /\ ops[i].invocation = ops[j].invocation
  /\ ops[i].outputs # <<>>
  /\ {k \in DOMAIN ops : ops[i].outputs[1] \in Range(ops[k].inputs)} = {j}
  /\ ops[i].outputs[1] \notin Range(outputs)

\* The coverings the providers may choose: singletons and disjoint fused pairs.
Coverings ==
  LET pairs == {<<i, j>> \in (DOMAIN ops) \X (DOMAIN ops) : Fusable(i, j)}
      Disjoint(chosen) == \A p, q \in chosen : p # q => {p[1], p[2]} \cap {q[1], q[2]} = {}
      Covered(chosen) == UNION {{p[1], p[2]} : p \in chosen}
  IN  {{{p[1], p[2]} : p \in chosen}
       \cup {{k} : k \in (DOMAIN ops \ Elided) \ Covered(chosen)} :
         chosen \in {c \in SUBSET pairs : Disjoint(c)}}

WritesState(k) == ops[k].opcode \in {"state_write", "state_update"}

\* Values a command reads and writes; inside a fused pair nothing is stored.
Written(cover) ==
  {ops[Max(cover)].outputs[i] : i \in DOMAIN ops[Max(cover)].outputs}
  \cup {StateValue(ops[k].attributes.state) : k \in {h \in cover : WritesState(h)}}

Internal(cover) == UNION {Range(ops[k].outputs) : k \in cover \ {Max(cover)}}

ReadBy(cover) == UNION {Range(ops[k].inputs) : k \in cover} \ Internal(cover)

\* The source operations that order an access of a state: covered reads and
\* writes of that state, and the read that produced the operand itself.
Events(cover, v, write) ==
  {k \in cover : /\ IF write THEN WritesState(k) ELSE ops[k].opcode = "state_read"
                 /\ StateValue(ops[k].attributes.state) = Root(v)}
  \cup {k \in {values[v].producer} : ~write /\ k # None /\ ops[k].opcode = "state_read"}

Tag(root) == <<CASE Region(root) \in {"external", "constant"} -> "immutable"
                 [] Region(root) = "state" -> "state" [] OTHER -> "temporary", root>>

Accesses(cover) ==
  {[state |-> Tag(Root(v)), events |-> Events(cover, v, FALSE), write |-> FALSE] :
     v \in {u \in ReadBy(cover) : Region(Root(u)) = "state"}}
  \cup {[state |-> Tag(v), events |-> Events(cover, v, TRUE), write |-> TRUE] :
          v \in {u \in Written(cover) : Region(u) = "state"}}

RecordOf(cover) ==
  [anchor |-> Max(cover),
   reads |-> {Tag(Root(v)) : v \in {u \in ReadBy(cover) : Region(Root(u)) # "state"}},
   writes |-> {Tag(v) : v \in {u \in Written(cover) : Region(u) # "state"}},
   accesses |-> Accesses(cover)]

Records(covers) == [i \in DOMAIN covers |-> RecordOf(covers[i])]

AllValues == {"immutable", "temporary", "state", "unused"} \X (1..MaxValueNumber)

Order == INSTANCE CommandOrder WITH
  Values <- AllValues,
  Immutable <- {"immutable"} \X (1..MaxValueNumber),
  Unused <- {"unused"} \X (1..MaxValueNumber),
  States <- {"state"} \X (1..MaxValueNumber),
  Placements <- {<<>>}

StartOrder(covers) ==
  /\ placed' = covers
  /\ records' = Records(covers)
  /\ deps' = <<>> /\ ready' = {} /\ ordered' = <<>> /\ verdict' = "pending"

\* Outputs are delivered in buffers of the caller: temporaries, not aliases of a
\* state, a constant or an entry input.
OutputsDeliverable == \A r \in OutputRoots : Region(r) = "arena"

-----------------------------------------------------------------------------
(* Dead commands *)

PureOps ==
  {"add", "mul", "cast", "linear", "gelu", "silu", "layer_norm", "rms_norm",
   "rope_default", "scaled_dot_product_attention", "reshape", "transpose", "slice",
   "broadcast_in_dim"}

ReadRoots(cover) == {Root(v) : v \in ReadBy(cover)}

\* Fault: any command whose results are not needed is removed.
PureIfUnread(cover) == TRUE

Pure(cover) ==
  /\ \A k \in cover : ops[k].opcode \in PureOps
  /\ \A v \in Written(cover) : Region(v) = "arena"

\* From the last command to the first: what is needed, and what is kept.
Live ==
  LET Visit(at, i) ==
        LET cover == placed[i]
        IN  IF Pure(cover) /\ Written(cover) \cap at.needed = {}
              THEN [at EXCEPT !.dead = @ \cup {cover}]
              ELSE [at EXCEPT !.needed = @ \cup ReadRoots(cover)]
  IN  FoldRight(LAMBDA i, at : Visit(at, i), ordered,
                [needed |-> OutputRoots, dead |-> {}])

-----------------------------------------------------------------------------
(* Replay *)

\* What an operand names now: the current bytes of its storage root.
Contents(root) ==
  CASE Region(root) = "external" -> InputTerms(program)[root]
    [] Region(root) = "constant" ->
         Leaf(values[root].identity[1], values[root].identity[2])
    [] root \in DOMAIN storage -> storage[root]
    [] Region(root) = "state" ->
         Leaf("state", CHOOSE s \in StateNames(program) : StateValue(s) = root)
    [] OTHER -> Leaf("garbage", root)

\* The bytes each value of a command holds when it runs: a fused pair computes
\* its inner value itself.
RunCover(cover) ==
  LET Operand(at, v) == IF v \in DOMAIN at THEN at[v] ELSE Contents(Root(v))
      Step(at, k) ==
        LET op == ops[k]
            args == [i \in DOMAIN op.inputs |-> Operand(at, op.inputs[i])]
        IN  CASE op.opcode = "state_write" ->
                   (StateValue(op.attributes.state) :> args[1]) @@ at
              [] op.opcode = "state_update" ->
                   LET s == StateValue(op.attributes.state)
                   IN  (s :> Updated(op, Contents(s), args[1])) @@ at
              [] OTHER -> (op.outputs[1] :> Computed(op, args)) @@ at
  IN  FoldLeft(Step, <<>>, Ascending(cover, Len(ops)))

-----------------------------------------------------------------------------
(* Actions *)

ReplayInit ==
  /\ Init
  /\ phase = "schedule"
  /\ placed = <<>> /\ removed = {} /\ storage = <<>> /\ slot = 1
  /\ records = <<>> /\ deps = <<>> /\ ready = {} /\ ordered = <<>> /\ verdict = "pending"

BuildSchedule == phase = "schedule" /\ Next /\ UNCHANGED replayVars

\* The lowering passes cover every operation that is not elided; their lists are
\* joined in the order of the passes, not of the source.
Lower ==
  /\ phase = "schedule" /\ progress = "scheduled"
  /\ Len(values) <= MaxValueNumber /\ Len(ops) <= MaxLoweredOps
  /\ \E covers \in Coverings : \E forward \in BOOLEAN :
       LET anchors == Ascending({Max(c) : c \in covers}, Len(ops))
           list == [i \in DOMAIN anchors |-> CHOOSE c \in covers : Max(c) = anchors[i]]
       IN  StartOrder(IF forward THEN list ELSE Reverse(list))
  /\ phase' = "order"
  /\ UNCHANGED <<scheduleVars, removed, storage, slot>>

OrderCommands ==
  /\ phase \in {"order", "reorder"} /\ Order!OrderNext
  /\ UNCHANGED <<scheduleVars, phase, placed, removed, storage, slot>>

RefuseOrder ==
  /\ phase \in {"order", "reorder"} /\ verdict \in {"invalid", "cycle"}
  /\ phase' = "refused"
  /\ UNCHANGED <<scheduleVars, placed, orderVars, removed, storage, slot>>

\* eliminate_dead_commands, then the planner orders the rest again.
Prune ==
  /\ phase = "order" /\ verdict = "ordered"
  /\ removed' = Live.dead
  /\ IF Live.dead = Range(placed) THEN UNCHANGED <<placed, orderVars>>
       ELSE LET kept == SelectSeq(ordered, LAMBDA i : placed[i] \notin Live.dead)
            IN  StartOrder([k \in DOMAIN kept |-> placed[kept[k]]])
  /\ phase' = IF Live.dead = Range(placed) THEN "refused" ELSE "reorder"
  /\ UNCHANGED <<scheduleVars, storage, slot>>

RefuseOutputs ==
  /\ phase = "reorder" /\ verdict = "ordered" /\ ~OutputsDeliverable
  /\ phase' = "refused"
  /\ UNCHANGED <<scheduleVars, placed, orderVars, removed, storage, slot>>

StartReplay ==
  /\ phase = "reorder" /\ verdict = "ordered" /\ OutputsDeliverable
  /\ phase' = "run"
  /\ UNCHANGED <<scheduleVars, placed, orderVars, removed, storage, slot>>

\* One command: it reads storage, computes, and writes storage.
RunCommand ==
  /\ phase = "run" /\ slot \in DOMAIN ordered
  /\ LET cover == placed[ordered[slot]]
         computed == RunCover(cover)
     IN  storage' = [r \in Written(cover) |-> computed[r]] @@ storage
  /\ slot' = slot + 1
  /\ UNCHANGED <<scheduleVars, phase, placed, orderVars, removed>>

EndReplay ==
  /\ phase = "run" /\ slot > Len(ordered)
  /\ phase' = "done"
  /\ UNCHANGED <<scheduleVars, placed, orderVars, removed, storage, slot>>

ReplayNext ==
  \/ BuildSchedule \/ Lower \/ OrderCommands \/ RefuseOrder
  \/ Prune \/ RefuseOutputs \/ StartReplay \/ RunCommand \/ EndReplay

ReplaySpec == ReplayInit /\ [][ReplayNext]_lowerVars

-----------------------------------------------------------------------------
(* Properties *)

\* Whatever the providers fuse and in whatever order their passes list the
\* commands, a replay that is not refused leaves in the outputs and in every
\* state exactly what the program means: inlining, repeats, state versions,
\* aliases, the command order and the removal of dead commands lose nothing.
ReplayMeansProgram ==
  phase = "done" =>
    LET reference == Execute(program) IN
    /\ \A i \in DOMAIN outputs : Contents(Root(outputs[i])) = reference.outputs[i]
    /\ \A s \in StateNames(program) :
         Contents(StateValue(s)) = reference.states[s]

\* The live commands and the elided and removed operations are all operations,
\* each once, and nothing that stays reads what a removed command would write.
CoverageComplete ==
  phase \in {"run", "done"} =>
    LET live == {placed[i] : i \in DOMAIN placed} IN
    /\ UNION live \cup UNION removed \cup Elided = DOMAIN ops
    /\ \A a, b \in live \cup removed : a # b => a \cap b = {}
    /\ \A a \in live, b \in removed : ReadRoots(a) \cap Written(b) = {}

=============================================================================
