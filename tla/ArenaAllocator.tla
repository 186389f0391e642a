--------------------------- MODULE ArenaAllocator ---------------------------
(***************************************************************************)
(* The temporary-arena allocator of src/aginfer/lowering/memory.py:        *)
(* _allocate_intervals, _merge_free and the sweep of _verify_memory_plan.  *)
(*                                                                         *)
(* The planner hands the allocator a list of liveness intervals            *)
(* (start, value id, end, aligned bytes).  The intervals are served in     *)
(* order of (start, id).  One loop iteration retires the blocks of the     *)
(* values that are dead before the interval starts, coalesces the free     *)
(* list, and takes the first free block that is large enough or grows the  *)
(* arena.                                                                  *)
(***************************************************************************)
EXTENDS Integers, FiniteSets, FiniteSetsExt

CONSTANTS
  Workloads,   \* the sets of intervals the planner may hand over
  Alignment,   \* arena alignment in bytes, a power of two in the code
  MaxBytes     \* _UINT64_MAX

Request == [start : Nat, id : Nat, end : Nat, size : Nat \ {0}]

Placement == [start : Nat, id : Nat, end : Nat, size : Nat \ {0}, offset : Nat]

Block == [offset : Nat, size : Nat \ {0}]

ASSUME AlignmentAssumption == Alignment \in Nat \ {0}

ASSUME MaxBytesAssumption == MaxBytes \in Nat

\* One interval per value, each ending at or after its start and rounded up to
\* the alignment: build_memory_plan takes end as a maximum with the producer,
\* sizes through _align, and ids are schedule indices.
ASSUME WorkloadsAssumption ==
  \A w \in Workloads :
    /\ w \subseteq Request
    /\ \A r \in w : r.start <= r.end /\ r.size % Alignment = 0
    /\ \A r, q \in w : r.id = q.id => r = q

VARIABLES
  todo,       \* intervals not yet placed: what is left of sorted(pending)
  active,     \* placements whose block is still held
  free,       \* the free list; its order in the code is by offset
  arena_end,  \* bytes of arena handed out so far
  peak_live,  \* largest number of bytes held at once
  placed,     \* every placement made
  phase       \* where the loop is, or how the call ended

vars == <<todo, active, free, arena_end, peak_live, placed, phase>>

-----------------------------------------------------------------------------
(* Helpers *)

\* sorted() compares (start, id, ...) tuples and ids are distinct.
Before(r, q) == r.start < q.start \/ (r.start = q.start /\ r.id < q.id)

\* Fault: the sort forgets the start.
IsCurrentById(r) == \A q \in todo : q # r => r.id < q.id

\* The interval the loop is at.
IsCurrent(r) == \A q \in todo : q # r => Before(r, q)

Overlap(a, b) ==
  a.offset < b.offset + b.size /\ b.offset < a.offset + a.size

BlockOf(p) == [offset |-> p.offset, size |-> p.size]

\* Fault: an aligned offset moves to the next boundary.
AlignPast(n) == n + (Alignment - (n % Alignment))

\* (n + alignment - 1) & ~(alignment - 1)
Align(n) == (n + Alignment - 1) - ((n + Alignment - 1) % Alignment)

Place(r, offset) ==
  [start |-> r.start, id |-> r.id, end |-> r.end, size |-> r.size,
   offset |-> offset]

\* Two free blocks that _merge_free joins.
Adjacent(a, b) == a.offset + a.size = b.offset

Coalesced == \A a, b \in free : ~Adjacent(a, b)

Fitting(r) == {b \in free : b.size >= r.size}

AlignOverflows(n) == n > MaxBytes - (Alignment - 1)

\* _align(arena_end) or the _checked_add after it raises.
ArenaOverflows(r) ==
  \/ AlignOverflows(arena_end)
  \/ Align(arena_end) > MaxBytes - r.size

BytesOf(S) == MapThenSumSet(LAMBDA p : p.size, S)

-----------------------------------------------------------------------------
(* The allocator *)

Init ==
  /\ todo \in Workloads
  /\ active = {}
  /\ free = {}
  /\ arena_end = 0
  /\ peak_live = 0
  /\ placed = {}
  /\ phase = "retire"

\* Fault: a value read by the step that writes r gives up its block.
ExpiredAtStart(r) == {a \in active : a.end <= r.start}

\* A block is released only when its value died strictly before the interval
\* starts: a value read by the step that writes the new one keeps its block.
Expired(r) == {a \in active : a.end < r.start}

RetireExpired ==
  /\ phase = "retire"
  /\ \E r \in todo :
       /\ IsCurrent(r)
       /\ active' = active \ Expired(r)
       /\ free' = free \cup {BlockOf(a) : a \in Expired(r)}
  /\ phase' = "merge"
  /\ UNCHANGED <<todo, arena_end, peak_live, placed>>

\* One join of _merge_free's pass over the blocks in offset order: the pair
\* with the lowest offset that touches becomes one block.
MergeFree ==
  /\ phase = "merge"
  /\ \E a, b \in free :
       /\ Adjacent(a, b)
       /\ \A c, d \in free : Adjacent(c, d) => a.offset <= c.offset
       /\ free' = (free \ {a, b})
                    \cup {[offset |-> a.offset, size |-> a.size + b.size]}
  /\ UNCHANGED <<todo, active, arena_end, peak_live, placed, phase>>

\* The end of an iteration: the overlap assertion, then the bookkeeping.
Commit(r, offset) ==
  LET p == Place(r, offset)
      live == active \cup {p}
  IN  /\ todo' = todo \ {r}
      /\ active' = live
      /\ placed' = placed \cup {p}
      /\ peak_live' = IF BytesOf(live) > peak_live THEN BytesOf(live) ELSE peak_live
      /\ phase' = IF \E a \in active : Overlap(p, a) THEN "assertion" ELSE "retire"

\* Faults: the remainder keeps its offset, or is lost.
UnshiftedRemainder(b, r) ==
  IF b.size > r.size THEN {[offset |-> b.offset, size |-> b.size - r.size]} ELSE {}

LostRemainder(b, r) == {c \in {b} : c.size < r.size}

\* The remainder of a block that was larger than needed stays free.
Remainder(b, r) ==
  IF b.size > r.size
    THEN {[offset |-> b.offset + r.size, size |-> b.size - r.size]}
    ELSE {}

PlaceInFreeBlock ==
  /\ phase = "merge"
  /\ Coalesced
  /\ \E r \in todo : \E b \in Fitting(r) :
       /\ IsCurrent(r)
       /\ \A c \in Fitting(r) : b.offset <= c.offset
       /\ free' = (free \ {b}) \cup Remainder(b, r)
       /\ Commit(r, b.offset)
  /\ UNCHANGED arena_end

PlaceAtEnd ==
  /\ phase = "merge"
  /\ Coalesced
  /\ \E r \in todo :
       /\ IsCurrent(r)
       /\ Fitting(r) = {}
       /\ ~ArenaOverflows(r)
       /\ arena_end' = Align(arena_end) + r.size
       /\ Commit(r, Align(arena_end))
  /\ UNCHANGED free

\* ValidationError: the whole plan is abandoned.
RejectOverflow ==
  /\ phase = "merge"
  /\ Coalesced
  /\ \E r \in todo : IsCurrent(r) /\ Fitting(r) = {} /\ ArenaOverflows(r)
  /\ phase' = "rejected"
  /\ UNCHANGED <<todo, active, free, arena_end, peak_live, placed>>

-----------------------------------------------------------------------------
(* _verify_memory_plan, the planner's own check of the result *)

InArena(p) == p.offset <= arena_end /\ p.size <= arena_end - p.offset

\* The sweep visits intervals by (start, id) and compares each with the
\* earlier ones that still live when it starts.
SweepAccepts ==
  \A p, q \in placed : Before(p, q) /\ p.end >= q.start => ~Overlap(q, p)

VerifyPlan ==
  /\ phase = "retire"
  /\ todo = {}
  /\ phase' = IF SweepAccepts /\ \A p \in placed : InArena(p)
                THEN "planned" ELSE "assertion"
  /\ UNCHANGED <<todo, active, free, arena_end, peak_live, placed>>

Next ==
  \/ RetireExpired
  \/ MergeFree
  \/ PlaceInFreeBlock
  \/ PlaceAtEnd
  \/ RejectOverflow
  \/ VerifyPlan

Spec == Init /\ [][Next]_vars

-----------------------------------------------------------------------------
(* Properties *)

Phases == {"retire", "merge", "planned", "rejected", "assertion"}

\* Intervals, placements and blocks are well formed, and sizes are positive.
TypeOK ==
  /\ todo \subseteq Request
  /\ active \subseteq Placement
  /\ placed \subseteq Placement
  /\ free \subseteq Block
  /\ arena_end \in 0..MaxBytes
  /\ phase \in Phases

\* No two values that are live at a common step share a byte of the arena, at
\* any point of the allocation and in the finished plan: a value read or
\* written by step t never lies over another value step t reads or writes.
LiveDisjoint ==
  \A p, q \in placed :
    p # q /\ p.start <= q.end /\ q.start <= p.end => ~Overlap(p, q)

\* The overlap assertion in the loop and the AssertionErrors of
\* _verify_memory_plan are unreachable.
NoAssertion == phase # "assertion"

\* Every placement lies inside the arena the session will allocate, and the
\* arena never exceeds the uint64 range.
InsideArena ==
  \A p \in placed : p.offset + p.size <= arena_end

\* Splitting, retiring and coalescing lose no byte and invent none: held and
\* free blocks are disjoint and their bytes add up to the arena.
ArenaTiled ==
  /\ \A b \in free : \A a \in active : ~Overlap(a, b)
  /\ \A b, c \in free : b # c => ~Overlap(b, c)
  /\ BytesOf(active) + BytesOf(free) = arena_end

\* The receipts of the plan are ordered: the bytes live at once fit in the
\* arena, and reuse never makes the arena larger than one block per value
\* (peak_live_arena_bytes <= arena_bytes <= naive_arena_bytes).
ReceiptsOrdered ==
  peak_live <= arena_end /\ arena_end <= BytesOf(placed)

-----------------------------------------------------------------------------
(* The strengthening that makes LiveDisjoint inductive *)

\* Intervals end at or after their start.
Ordered == \A r \in todo \cup placed : r.start <= r.end

\* The sort order makes time advance: what is placed started no later than
\* what is still to come, and a value whose block was released is dead before
\* every interval still to come.
TimeAdvances ==
  /\ \A p \in placed, r \in todo : p.start <= r.start
  /\ \A p \in placed \ active, r \in todo : p.end < r.start

\* Held blocks and free blocks lie inside the arena and share no byte.
BlocksDisjoint ==
  /\ active \subseteq placed
  /\ \A b \in free : b.offset + b.size <= arena_end
  /\ \A a, b \in active : a # b => ~Overlap(a, b)
  /\ \A b \in free : \A a \in active : ~Overlap(a, b)
  /\ \A b, c \in free : b # c => ~Overlap(b, c)

\* The inductive invariant: with the type invariant, the parts above and the
\* safety properties it implies.
ArenaInv ==
  /\ TypeOK
  /\ Ordered
  /\ TimeAdvances
  /\ BlocksDisjoint
  /\ InsideArena
  /\ LiveDisjoint
  /\ NoAssertion
=============================================================================
