--------------------------- MODULE CommandMemory ---------------------------
(***************************************************************************)
(* replan_memory_for_commands of src/aginfer/lowering/memory.py, composed  *)
(* with the passes around it: the placements are ordered (CommandOrder),   *)
(* liveness is recomputed at the boundaries of the ordered commands, the   *)
(* temporaries that cross them share one arena (ArenaAllocator), and the   *)
(* session then runs the commands in that order, replay after replay, in   *)
(* the same arena, whose bytes it never clears.                            *)
(***************************************************************************)
EXTENDS CommandOrder, ArenaAllocator

CONSTANTS
  Sizes(_),       \* placements -> byte sizes their values may have, functions
  OutputSets(_),  \* placements -> which temporaries may be the entry outputs
  MaxReplays   \* bound on replays

\* Values are schedule indices.  The allocator gets its intervals from Replan,
\* not at the start.
ASSUME MemoryAssumption ==
  /\ Values \subseteq Nat
  /\ Workloads = {{}}
  /\ \A p \in Placements :
       /\ Sizes(p) \subseteq [Values -> Nat \ {0}]
       /\ OutputSets(p) \subseteq SUBSET (Values \ (Immutable \cup Unused))
  /\ MaxReplays \in Nat

VARIABLES
  size,     \* byte size of each value
  outputs,  \* entry outputs
  stage,    \* "order", "replan", "allocate", "run", or how the planner refused
  slot,     \* position of the running command, 0 before the first
  replay,   \* the current replay
  memory    \* the arena: the value and the replay each byte was last written for

runVars == <<slot, replay, memory>>

\* vars are the variables of the allocator.
memoryVars == <<orderVars, size, outputs, stage, vars, runVars>>

-----------------------------------------------------------------------------
(* Liveness at the command boundaries *)

\* Values whose region is ARENA in the base plan.
Temporaries == Values \ (Immutable \cup Unused)

Command(k) == records[ordered[k]]

Uses(k) == Command(k).reads \cup Command(k).writes

\* Outputs move to the caller's buffers; a temporary no command touches is
\* unused.
Boundary == {v \in Temporaries \ outputs : \E k \in DOMAIN ordered : v \in Uses(k)}

WritesOf(v) == {k \in DOMAIN ordered : v \in Command(k).writes}

\* Fault: a value starts to live at the source anchor of its writer.
FirstWriteAnchor(v) == Min({Command(k).anchor : k \in WritesOf(v)})

FirstWrite(v) == Min(WritesOf(v))

\* Fault: a value lives until it is written.
LastWrite(v) == Max(WritesOf(v))

LastUse(v) == Max({k \in DOMAIN ordered : v \in Uses(k)})

\* "command order reads an unproduced temporary"
ReadsBeforeWrite ==
  \E k \in DOMAIN ordered : \E v \in Command(k).reads \cap Temporaries :
    ~\E j \in WritesOf(v) : j < k

\* "writes an SSA temporary more than once", or a constant or entry input
WritesAgain ==
  \/ \E v \in Temporaries : Cardinality(WritesOf(v)) > 1
  \/ \E k \in DOMAIN ordered : Command(k).writes \cap Immutable # {}

Misordered == ReadsBeforeWrite \/ WritesAgain

OutputsMissing == \E v \in outputs : WritesOf(v) = {}

Pending ==
  {[start |-> FirstWrite(v), id |-> v, end |-> LastUse(v), size |-> Align(size[v])] :
     v \in Boundary}

-----------------------------------------------------------------------------
(* The planner *)

MemoryInit ==
  /\ OrderInit
  /\ size \in Sizes(records)
  /\ outputs \in OutputSets(records)
  /\ stage = "order"
  /\ Init
  /\ slot = 0 /\ replay = 1 /\ memory = <<>>

OrderCommands ==
  /\ stage = "order"
  /\ OrderNext
  /\ stage' = CASE verdict' = "ordered" -> "replan"
                [] verdict' \in {"invalid", "cycle"} -> "refused"
                [] OTHER -> "order"
  /\ UNCHANGED <<size, outputs, vars, runVars>>

\* The checks of the replanning pass on the ordered commands.
ReplanRefuses ==
  /\ stage = "replan"
  /\ Misordered \/ OutputsMissing
  /\ stage' = IF Misordered THEN "misordered" ELSE "refused"
  /\ UNCHANGED <<orderVars, size, outputs, vars, runVars>>

Replan ==
  /\ stage = "replan"
  /\ ~(Misordered \/ OutputsMissing)
  /\ todo' = Pending
  /\ stage' = "allocate"
  /\ UNCHANGED <<orderVars, size, outputs, active, free, arena_end, peak_live, placed,
                 phase, runVars>>

\* _allocate_intervals; this path does not run _verify_memory_plan.
Allocate ==
  /\ stage = "allocate"
  /\ \/ RetireExpired
     \/ MergeFree
     \/ PlaceInFreeBlock
     \/ PlaceAtEnd
     \/ RejectOverflow
  /\ UNCHANGED <<orderVars, size, outputs, stage, runVars>>

\* The plan is complete: the session allocates the arena, with whatever bytes
\* the device memory held.
CreateArena ==
  /\ stage = "allocate"
  /\ phase = "retire" /\ todo = {}
  /\ stage' = "run"
  /\ memory' = [b \in 0..(arena_end - 1) |-> <<>>]
  /\ UNCHANGED <<orderVars, size, outputs, vars, slot, replay>>

-----------------------------------------------------------------------------
(* The session runs the commands *)

\* The bytes of the arena a value's operands name.
BytesAt(v) ==
  UNION {p.offset..(p.offset + size[v] - 1) : p \in {q \in placed : q.id = v}}

\* The kernels of a command write its outputs while they still read its inputs.
RunCommand ==
  /\ stage = "run"
  /\ IF slot < Len(ordered)
       THEN slot' = slot + 1 /\ replay' = replay
       ELSE slot' = 1 /\ replay' = replay + 1
  /\ replay' <= MaxReplays
  /\ memory' = [b \in DOMAIN memory |->
       IF \E v \in Command(slot').writes : b \in BytesAt(v)
         THEN <<CHOOSE v \in Command(slot').writes : b \in BytesAt(v), replay'>>
         ELSE memory[b]]
  /\ UNCHANGED <<orderVars, size, outputs, stage, vars>>

MemoryNext ==
  \/ OrderCommands
  \/ ReplanRefuses
  \/ Replan
  \/ Allocate
  \/ CreateArena
  \/ RunCommand

MemorySpec == MemoryInit /\ [][MemoryNext]_memoryVars

-----------------------------------------------------------------------------
(* Properties *)

\* While a command runs, every temporary it reads holds what its producer wrote
\* in this replay, and every temporary it writes holds all of its own bytes:
\* reordering, fusion and arena reuse never let a stale or foreign byte be read.
OperandsIntact ==
  stage = "run" /\ slot > 0 =>
    \A v \in (Uses(slot) \cap Temporaries) \ outputs :
      /\ Cardinality(BytesAt(v)) = size[v]
      /\ \A b \in BytesAt(v) : b \in DOMAIN memory /\ memory[b] = <<v, replay>>

\* What is handed to the allocator is what it relies on (WorkloadsAssumption):
\* one interval per value that does not end before it starts.
HandoverSound ==
  stage = "allocate" =>
    /\ todo \subseteq Request
    /\ \A r \in todo : r.start <= r.end /\ r.size % Alignment = 0
    /\ \A r, q \in todo : r.id = q.id => r = q
=============================================================================
