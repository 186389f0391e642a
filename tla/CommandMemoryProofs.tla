------------------------ MODULE CommandMemoryProofs ------------------------
(***************************************************************************)
(* Ordering, replanning, allocation and replay: for every list of          *)
(* placements, every assignment of sizes and every choice of outputs, a    *)
(* command finds in the arena what its producers wrote in this replay.     *)
(*                                                                         *)
(* The first part is the arena allocator alone (Spec of ArenaAllocator):   *)
(* ArenaInv is inductive, so two values that live at a common step never   *)
(* share a byte, for every workload, alignment and size limit.             *)
(*                                                                         *)
(* The second part is order_command_placements alone (OrderSpec):          *)
(* producers run before their users, every access of a state meets the     *)
(* version of the source program, and a list is refused as cyclic only if  *)
(* no order exists.  OrderInv says that what has been popped is closed     *)
(* under dependencies, and that deps and ready are what is left of them.   *)
(*                                                                         *)
(* The third part joins the invariants of the two passes: the order puts   *)
(* a producer before its users, so the interval from the first write to    *)
(* the last use is what the allocator must protect, and ArenaInv says that *)
(* two values whose intervals meet share no byte.                          *)
(***************************************************************************)
EXTENDS CommandMemory, FiniteSetTheorems, TLAPS

\* Rounding up by _align stays at or above the value it rounds.
LEMMA AlignRoundsUp ==
  ASSUME NEW n \in Nat
  PROVE  Align(n) \in Nat /\ Align(n) >= n
  BY AlignmentAssumption DEF Align

\* A block of the free list and the block of a placement are Blocks.
LEMMA BlockOfType ==
  ASSUME NEW p \in Placement
  PROVE  /\ BlockOf(p) \in Block
         /\ BlockOf(p).offset = p.offset
         /\ BlockOf(p).size = p.size
  BY DEF BlockOf, Block, Placement

\* Every workload satisfies the invariant before the first interval is served.
LEMMA InitArenaInv == Init => ArenaInv
  <1> SUFFICES ASSUME Init PROVE ArenaInv
    OBVIOUS
  <1>1. TypeOK
    BY WorkloadsAssumption, MaxBytesAssumption DEF Init, TypeOK, Phases
  <1>2. Ordered
    BY WorkloadsAssumption DEF Init, Ordered
  <1> QED
    BY <1>1, <1>2 DEF Init, ArenaInv, TimeAdvances, BlocksDisjoint, InsideArena,
       LiveDisjoint, NoAssertion

\* Releasing the blocks of dead values keeps the invariant: a released value
\* ended before the current interval, which starts no later than the others.
LEMMA RetireKeepsInv == ArenaInv /\ RetireExpired => ArenaInv'
  <1> SUFFICES ASSUME ArenaInv, RetireExpired PROVE ArenaInv'
    OBVIOUS
  <1> USE DEF ArenaInv
  <1>1. PICK r \in todo : /\ IsCurrent(r)
                         /\ active' = active \ Expired(r)
                         /\ free' = free \cup {BlockOf(a) : a \in Expired(r)}
    BY DEF RetireExpired
  <1>2. UNCHANGED <<todo, arena_end, placed>> /\ phase' = "merge"
    BY DEF RetireExpired
  <1>3. Expired(r) \subseteq active /\ \A a \in Expired(r) : a.end < r.start
    BY DEF Expired
  <1>4. TypeOK'
    <2>1. active \subseteq Placement /\ free \subseteq Block
      BY DEF TypeOK
    <2>2. {BlockOf(a) : a \in Expired(r)} \subseteq Block
      BY <1>3, <2>1, BlockOfType
    <2>3. active' \subseteq Placement /\ free' \subseteq Block
      BY <1>1, <2>1, <2>2
    <2> QED
      BY <1>2, <2>3 DEF TypeOK, Phases
  <1>5. Ordered'
    BY <1>2 DEF Ordered
  <1>6. TimeAdvances'
    <2>1. ASSUME NEW p \in placed \ active', NEW q \in todo
          PROVE  p.end < q.start
      <3>1. r.start <= q.start
        BY <1>1 DEF IsCurrent, Before, TypeOK, Request
      <3>2. CASE p \in active
        <4>1. p \in Expired(r)
          BY <1>1, <3>2, <2>1
        <4> QED
          BY <4>1, <1>3, <3>1, <1>1 DEF TypeOK, Request, Placement
      <3>3. CASE p \notin active
        BY <3>3, <2>1 DEF TimeAdvances
      <3> QED
        BY <3>2, <3>3
    <2> QED
      BY <2>1, <1>2 DEF TimeAdvances
  <1>7. BlocksDisjoint'
    <2>1. active' \subseteq active
      BY <1>1
    <2>2. \A b \in free' : \/ b \in free
                           \/ \E a \in Expired(r) : b = BlockOf(a)
      BY <1>1
    <2>3. \A a \in active : a \in Placement /\ a \in placed
      BY DEF TypeOK, BlocksDisjoint
    <2>4. \A a \in Expired(r) : /\ BlockOf(a).offset = a.offset
                                /\ BlockOf(a).size = a.size
      BY <2>3, <1>3, BlockOfType
    <2>5. \A b \in free' : b.offset + b.size <= arena_end
      BY <2>2, <2>3, <2>4, <1>3 DEF BlocksDisjoint, InsideArena
    <2>6. \A b \in free' : \A a \in active' : ~Overlap(a, b)
      <3> SUFFICES ASSUME NEW b \in free', NEW a \in active' PROVE ~Overlap(a, b)
        OBVIOUS
      <3>1. CASE b \in free
        BY <3>1, <2>1 DEF BlocksDisjoint
      <3>2. ASSUME NEW e \in Expired(r), b = BlockOf(e) PROVE ~Overlap(a, b)
        <4>1. a # e /\ a \in active /\ e \in active
          BY <1>1, <1>3
        <4>2. ~Overlap(a, e)
          BY <4>1 DEF BlocksDisjoint
        <4> QED
          BY <3>2, <4>2, <2>4 DEF Overlap
      <3> QED
        BY <3>1, <3>2, <2>2
    <2>7. \A b, c \in free' : b # c => ~Overlap(b, c)
      <3> SUFFICES ASSUME NEW b \in free', NEW c \in free', b # c
                   PROVE  ~Overlap(b, c)
        OBVIOUS
      <3>1. CASE b \in free /\ c \in free
        BY <3>1 DEF BlocksDisjoint
      <3>2. ASSUME b \in free, NEW e \in Expired(r), c = BlockOf(e)
            PROVE  ~Overlap(b, c)
        <4>1. ~Overlap(e, b)
          BY <3>2, <1>3 DEF BlocksDisjoint
        <4> QED
          BY <4>1, <3>2, <2>4 DEF Overlap
      <3>3. ASSUME c \in free, NEW e \in Expired(r), b = BlockOf(e)
            PROVE  ~Overlap(b, c)
        <4>1. ~Overlap(e, c)
          BY <3>3, <1>3 DEF BlocksDisjoint
        <4> QED
          BY <4>1, <3>3, <2>4 DEF Overlap
      <3>4. ASSUME NEW d \in Expired(r), NEW e \in Expired(r),
                   b = BlockOf(d), c = BlockOf(e)
            PROVE  ~Overlap(b, c)
        <4>1. d # e
          BY <3>4
        <4>2. ~Overlap(d, e)
          BY <4>1, <1>3 DEF BlocksDisjoint
        <4> QED
          BY <4>2, <3>4, <2>4 DEF Overlap
      <3> QED
        BY <3>1, <3>2, <3>3, <3>4, <2>2
    <2> QED
      BY <2>1, <2>5, <2>6, <2>7, <1>2 DEF BlocksDisjoint
  <1>8. InsideArena' /\ LiveDisjoint' /\ NoAssertion'
    BY <1>2 DEF InsideArena, LiveDisjoint, NoAssertion
  <1> QED
    BY <1>4, <1>5, <1>6, <1>7, <1>8

\* Joining two neighbouring free blocks keeps the invariant: the joined block
\* covers exactly the bytes of the two.
LEMMA MergeKeepsInv == ArenaInv /\ MergeFree => ArenaInv'
  <1> SUFFICES ASSUME ArenaInv, MergeFree PROVE ArenaInv'
    OBVIOUS
  <1> USE DEF ArenaInv
  <1>1. PICK a \in free, b \in free :
          /\ a.offset + a.size = b.offset
          /\ free' = (free \ {a, b})
                       \cup {[offset |-> a.offset, size |-> a.size + b.size]}
    BY DEF MergeFree, Adjacent
  <1>2. UNCHANGED <<todo, active, arena_end, placed, phase>>
    BY DEF MergeFree
  <1> DEFINE j == [offset |-> a.offset, size |-> a.size + b.size]
  <1>3. /\ a \in Block /\ b \in Block /\ j \in Block
        /\ j.offset = a.offset /\ j.size = a.size + b.size
    BY DEF TypeOK, Block
  <1>4. \A c \in free' : (c \in free /\ c # a /\ c # b) \/ c = j
    BY <1>1
  <1>5. TypeOK'
    BY <1>1, <1>2, <1>3 DEF TypeOK
  <1>6. BlocksDisjoint'
    <2>1. \A c \in free' : c.offset + c.size <= arena_end
      BY <1>1, <1>3, <1>4 DEF BlocksDisjoint, Block
    <2>2. ASSUME NEW c, c \in Block \cup Placement, ~Overlap(c, a), ~Overlap(c, b)
          PROVE  ~Overlap(c, j) /\ ~Overlap(j, c)
      BY <1>1, <1>3, <2>2 DEF Overlap, Block, Placement
    <2>3. \A c \in free' : \A d \in active : ~Overlap(d, c)
      BY <1>1, <1>4, <2>2 DEF BlocksDisjoint, TypeOK
    <2>4. \A c, d \in free' : c # d => ~Overlap(c, d)
      BY <1>1, <1>4, <2>2 DEF BlocksDisjoint, TypeOK
    <2> QED
      BY <2>1, <2>3, <2>4, <1>2 DEF BlocksDisjoint
  <1>7. Ordered' /\ TimeAdvances' /\ InsideArena' /\ LiveDisjoint' /\ NoAssertion'
    BY <1>2 DEF Ordered, TimeAdvances, InsideArena, LiveDisjoint, NoAssertion
  <1> QED
    BY <1>5, <1>6, <1>7

\* What both ways of placing an interval share.  If the new block is disjoint
\* from every held block, then the overlap assertion does not fire and no value
\* that lives together with the new one shares a byte with it: a value whose
\* block was released is dead when the new one starts.
LEMMA CommitKeepsDisjoint ==
  ASSUME ArenaInv, phase = "merge",
         NEW r \in todo, IsCurrent(r),
         NEW o \in Nat, Commit(r, o),
         arena_end' \in 0..MaxBytes, arena_end' >= arena_end,
         o + r.size <= arena_end',
         \A a \in active : ~Overlap(Place(r, o), a)
  PROVE  /\ todo' \subseteq Request
         /\ active' \subseteq Placement /\ placed' \subseteq Placement
         /\ active' = active \cup {Place(r, o)}
         /\ active' \subseteq placed'
         /\ phase' = "retire"
         /\ Ordered' /\ TimeAdvances' /\ InsideArena' /\ LiveDisjoint' /\ NoAssertion'
         /\ \A a, b \in active' : a # b => ~Overlap(a, b)
  <1> USE DEF ArenaInv
  <1> DEFINE p == Place(r, o)
  <1>1. /\ todo' = todo \ {r}
        /\ active' = active \cup {p}
        /\ placed' = placed \cup {p}
        /\ phase' = "retire"
    BY DEF Commit
  <1>2. r \in Request
    BY DEF TypeOK
  <1>3. /\ p \in Placement
        /\ p.start = r.start /\ p.end = r.end /\ p.size = r.size /\ p.offset = o
    BY <1>2 DEF Place, Placement, Request
  <1> HIDE DEF p
  <1>4. /\ todo' \subseteq Request
        /\ active' \subseteq Placement /\ placed' \subseteq Placement
        /\ active' \subseteq placed'
    BY <1>1, <1>3 DEF TypeOK, BlocksDisjoint
  <1>5. Ordered'
    BY <1>1, <1>3 DEF Ordered
  <1>6. TimeAdvances'
    <2>1. \A q \in todo' : q \in todo /\ q # r /\ p.start <= q.start
      BY <1>1, <1>2, <1>3 DEF IsCurrent, Before, TypeOK, Request
    <2>2. \A q \in placed' \ active' : q \in placed \ active
      BY <1>1
    <2> QED
      BY <2>1, <2>2, <1>1 DEF TimeAdvances
  <1>7. InsideArena'
    <2>1. \A q \in placed : q.offset + q.size <= arena_end'
      BY DEF InsideArena, TypeOK, Placement
    <2> QED
      BY <2>1, <1>1, <1>3 DEF InsideArena
  <1>8. \A a \in active : ~Overlap(p, a) /\ ~Overlap(a, p)
    BY DEF Overlap, p
  <1>9. LiveDisjoint'
    <2>1. ASSUME NEW q \in placed, q.start <= p.end, p.start <= q.end
          PROVE  ~Overlap(p, q) /\ ~Overlap(q, p)
      <3>1. q \in active
        <4>1. q \notin active => q.end < r.start
          BY DEF TimeAdvances
        <4> QED
          BY <4>1, <2>1, <1>2, <1>3 DEF TypeOK, Placement, Request
      <3> QED
        BY <3>1, <1>8
    <2> QED
      BY <2>1, <1>1 DEF LiveDisjoint
  <1>10. \A a, b \in active' : a # b => ~Overlap(a, b)
    BY <1>1, <1>8 DEF BlocksDisjoint
  <1> QED
    BY <1>1, <1>4, <1>5, <1>6, <1>7, <1>9, <1>10 DEF NoAssertion, p

\* Taking the first free block that fits keeps the invariant: the new value
\* and the remainder split the bytes of a block nobody held.
LEMMA PlaceInFreeBlockKeepsInv == ArenaInv /\ PlaceInFreeBlock => ArenaInv'
  <1> SUFFICES ASSUME ArenaInv, PlaceInFreeBlock PROVE ArenaInv'
    OBVIOUS
  <1>1. PICK r \in todo : \E b \in Fitting(r) :
          /\ IsCurrent(r)
          /\ free' = (free \ {b}) \cup Remainder(b, r)
          /\ Commit(r, b.offset)
    BY DEF PlaceInFreeBlock
  <1>2. PICK b \in Fitting(r) :
          /\ IsCurrent(r)
          /\ free' = (free \ {b}) \cup Remainder(b, r)
          /\ Commit(r, b.offset)
    BY <1>1
  <1>3. phase = "merge" /\ arena_end' = arena_end
    BY DEF PlaceInFreeBlock
  <1> DEFINE p == Place(r, b.offset)
  <1>4. /\ b \in free /\ b \in Block /\ b.size >= r.size
        /\ r \in Request /\ arena_end \in 0..MaxBytes
    BY DEF Fitting, ArenaInv, TypeOK
  <1>5. p.offset = b.offset /\ p.size = r.size
    BY DEF Place
  <1> HIDE DEF p
  <1>6. ASSUME NEW a \in Block \cup Placement, ~Overlap(a, b)
        PROVE  ~Overlap(p, a) /\ ~Overlap(a, p)
    BY <1>4, <1>5, <1>6 DEF Overlap, Block, Placement, Request
  <1>7. \A a \in active : a \in Placement /\ ~Overlap(a, b)
    BY <1>4 DEF ArenaInv, TypeOK, BlocksDisjoint
  <1>8. \A a \in active : ~Overlap(p, a)
    BY <1>6, <1>7
  <1>9. b.offset + r.size <= arena_end /\ b.offset \in Nat
    BY <1>4 DEF ArenaInv, BlocksDisjoint, Block, Request
  <1>10. /\ todo' \subseteq Request
         /\ active' \subseteq Placement /\ placed' \subseteq Placement
         /\ active' = active \cup {p}
         /\ active' \subseteq placed'
         /\ phase' = "retire"
         /\ Ordered' /\ TimeAdvances' /\ InsideArena' /\ LiveDisjoint' /\ NoAssertion'
         /\ \A a, c \in active' : a # c => ~Overlap(a, c)
    BY <1>2, <1>3, <1>4, <1>8, <1>9, CommitKeepsDisjoint DEF p
  <1>11. \A m \in Remainder(b, r) : /\ m \in Block
                                    /\ m.offset = b.offset + r.size
                                    /\ m.size = b.size - r.size
    BY <1>4 DEF Remainder, Block, Request
  <1>12. TypeOK'
    BY <1>2, <1>3, <1>10, <1>11 DEF ArenaInv, TypeOK, Phases
  <1>13. BlocksDisjoint'
    <2>1. \A f \in free' : (f \in free /\ f # b) \/ f \in Remainder(b, r)
      BY <1>2
    <2>2. \A f \in free' : f.offset + f.size <= arena_end
      BY <2>1, <1>4, <1>11 DEF ArenaInv, BlocksDisjoint, Block, Request
    <2>3. ASSUME NEW a \in Block \cup Placement, ~Overlap(a, b), NEW m \in Remainder(b, r)
          PROVE  ~Overlap(m, a) /\ ~Overlap(a, m)
      BY <1>4, <1>11, <2>3 DEF Overlap, Block, Placement, Request
    <2>4. \A m \in Remainder(b, r) : ~Overlap(p, m)
      BY <1>4, <1>5, <1>11 DEF Overlap, Block, Request
    <2>5. \A f \in free : f \in Block /\ (f # b => ~Overlap(f, b))
      BY <1>4 DEF ArenaInv, TypeOK, BlocksDisjoint
    <2>6. \A f \in free' : \A a \in active' : ~Overlap(a, f)
      BY <2>1, <2>3, <2>4, <2>5, <1>6, <1>7, <1>10 DEF ArenaInv, BlocksDisjoint
    <2>7. \A f, g \in free' : f # g => ~Overlap(f, g)
      <3>1. \A f, g \in Remainder(b, r) : f = g
        BY DEF Remainder
      <3> QED
        BY <3>1, <2>1, <2>3, <2>5 DEF ArenaInv, BlocksDisjoint
    <2> QED
      BY <2>2, <2>6, <2>7, <1>3, <1>10 DEF BlocksDisjoint
  <1> QED
    BY <1>10, <1>12, <1>13 DEF ArenaInv

\* Growing the arena keeps the invariant: the new block starts at or after the
\* old end, where nothing was handed out.
LEMMA PlaceAtEndKeepsInv == ArenaInv /\ PlaceAtEnd => ArenaInv'
  <1> SUFFICES ASSUME ArenaInv, PlaceAtEnd PROVE ArenaInv'
    OBVIOUS
  <1>1. PICK r \in todo :
          /\ IsCurrent(r)
          /\ ~ArenaOverflows(r)
          /\ arena_end' = Align(arena_end) + r.size
          /\ Commit(r, Align(arena_end))
    BY DEF PlaceAtEnd
  <1>2. phase = "merge" /\ free' = free
    BY DEF PlaceAtEnd
  <1> DEFINE o == Align(arena_end)
             p == Place(r, o)
  <1>3. r \in Request /\ arena_end \in Nat
    BY DEF ArenaInv, TypeOK
  <1>4. o \in Nat /\ o >= arena_end
    BY <1>3, AlignRoundsUp
  <1>5. arena_end' \in 0..MaxBytes /\ arena_end' >= arena_end /\ o + r.size <= arena_end'
    BY <1>1, <1>3, <1>4, MaxBytesAssumption DEF ArenaOverflows, Request
  <1>6. p.offset = o /\ p.size = r.size
    BY DEF Place
  <1> HIDE DEF o, p
  <1>7. \A a : (a \in Block \cup Placement /\ a.offset + a.size <= arena_end)
               => ~Overlap(p, a) /\ ~Overlap(a, p)
    BY <1>3, <1>4, <1>6 DEF Overlap, Block, Placement, Request
  <1>8. \A a \in active : ~Overlap(p, a)
    BY <1>7 DEF ArenaInv, TypeOK, BlocksDisjoint, InsideArena
  <1>9. Commit(r, o)
    BY <1>1 DEF o
  <1>10. /\ todo' \subseteq Request
         /\ active' \subseteq Placement /\ placed' \subseteq Placement
         /\ active' = active \cup {p}
         /\ active' \subseteq placed'
         /\ phase' = "retire"
         /\ Ordered' /\ TimeAdvances' /\ InsideArena' /\ LiveDisjoint' /\ NoAssertion'
         /\ \A a, c \in active' : a # c => ~Overlap(a, c)
    BY <1>1, <1>2, <1>4, <1>5, <1>8, <1>9, CommitKeepsDisjoint DEF p
  <1>11. TypeOK'
    BY <1>2, <1>5, <1>10 DEF ArenaInv, TypeOK, Phases
  <1>12. BlocksDisjoint'
    <2>1. \A f \in free : f \in Block /\ f.offset + f.size <= arena_end
      BY DEF ArenaInv, TypeOK, BlocksDisjoint
    <2>2. \A f \in free : f.offset + f.size <= arena_end'
      BY <2>1, <1>3, <1>5 DEF Block
    <2>3. \A f \in free : ~Overlap(p, f)
      BY <2>1, <1>7
    <2> QED
      BY <2>2, <2>3, <1>2, <1>10 DEF ArenaInv, BlocksDisjoint
  <1> QED
    BY <1>10, <1>11, <1>12 DEF ArenaInv

\* The planner's own sweep accepts: its order is the order of starts, and an
\* earlier interval that has not ended shares the step at which this one starts.
LEMMA VerifyKeepsInv == ArenaInv /\ VerifyPlan => ArenaInv'
  <1> SUFFICES ASSUME ArenaInv, VerifyPlan PROVE ArenaInv'
    OBVIOUS
  <1>1. SweepAccepts
    <2> SUFFICES ASSUME NEW p \in placed, NEW q \in placed, Before(p, q), p.end >= q.start
                 PROVE  ~Overlap(q, p)
      BY DEF SweepAccepts
    <2>1. p # q /\ p.start <= q.end /\ q.start <= p.end
      BY DEF Before, ArenaInv, TypeOK, Placement, Ordered
    <2> QED
      BY <2>1 DEF ArenaInv, LiveDisjoint
  <1>2. \A p \in placed : InArena(p)
    BY DEF InArena, ArenaInv, TypeOK, InsideArena, Placement
  <1>3. phase' = "planned" /\ UNCHANGED <<todo, active, free, arena_end, placed>>
    BY <1>1, <1>2 DEF VerifyPlan
  <1> QED
    BY <1>3 DEF ArenaInv, TypeOK, Phases, Ordered, TimeAdvances, BlocksDisjoint,
       InsideArena, LiveDisjoint, NoAssertion

\* Every step of the allocator keeps the invariant.
LEMMA NextKeepsInv == ArenaInv /\ [Next]_vars => ArenaInv'
  <1> SUFFICES ASSUME ArenaInv, [Next]_vars PROVE ArenaInv'
    OBVIOUS
  <1>1. CASE RetireExpired
    BY <1>1, RetireKeepsInv
  <1>2. CASE MergeFree
    BY <1>2, MergeKeepsInv
  <1>3. CASE PlaceInFreeBlock
    BY <1>3, PlaceInFreeBlockKeepsInv
  <1>4. CASE PlaceAtEnd
    BY <1>4, PlaceAtEndKeepsInv
  <1>5. CASE RejectOverflow
    BY <1>5 DEF RejectOverflow, ArenaInv, TypeOK, Phases, Ordered, TimeAdvances,
       BlocksDisjoint, InsideArena, LiveDisjoint, NoAssertion
  <1>6. CASE VerifyPlan
    BY <1>6, VerifyKeepsInv
  <1>7. CASE UNCHANGED vars
    BY <1>7 DEF vars, ArenaInv, TypeOK, Ordered, TimeAdvances,
       BlocksDisjoint, InsideArena, LiveDisjoint, NoAssertion
  <1> QED
    BY <1>1, <1>2, <1>3, <1>4, <1>5, <1>6, <1>7 DEF Next

-----------------------------------------------------------------------------

\* ArenaInv, the strengthened invariant, holds in every reachable state of the
\* allocator, whatever the workload, the alignment and the size limit.
THEOREM ArenaInvariant == Spec => []ArenaInv
  <1>1. Init => ArenaInv
    BY InitArenaInv
  <1>2. ArenaInv /\ [Next]_vars => ArenaInv'
    BY NextKeepsInv
  <1> QED
    BY <1>1, <1>2, PTL DEF Spec

\* Type correctness of the allocator's state (memory.py, _allocate_intervals).
THEOREM ArenaTypeCorrect == Spec => []TypeOK
  <1>1. ArenaInv => TypeOK
    BY DEF ArenaInv
  <1> QED
    BY <1>1, ArenaInvariant, PTL

\* Two values that live at a common step never share an arena byte.
THEOREM LiveValuesDisjoint == Spec => []LiveDisjoint
  <1>1. ArenaInv => LiveDisjoint
    BY DEF ArenaInv
  <1> QED
    BY <1>1, ArenaInvariant, PTL

\* The overlap assertion of the loop and those of _verify_memory_plan are dead
\* code.
THEOREM AssertionsUnreachable == Spec => []NoAssertion
  <1>1. ArenaInv => NoAssertion
    BY DEF ArenaInv
  <1> QED
    BY <1>1, ArenaInvariant, PTL

\* Every placement lies inside the arena the session allocates.
THEOREM PlacementsInsideArena == Spec => []InsideArena
  <1>1. ArenaInv => InsideArena
    BY DEF ArenaInv
  <1> QED
    BY <1>1, ArenaInvariant, PTL
-----------------------------------------------------------------------------
(* Bytes.  BytesOf is a fold; it counts the pairs of a block and one of its  *)
(* bytes, so that sums of sizes become cardinalities.                        *)

Covers(p, n) == p.offset <= n /\ n < p.offset + p.size

Tagged(S) == {t \in S \X Nat : Covers(t[1], t[2])}

\* The bytes of all blocks of S lie below the end of the arena.
Below(S, end) == \A p \in S : /\ p \in Block \cup Placement
                              /\ p.offset + p.size <= end

\* h sums the sizes of every subset of S, in the order of the fold.
Sums(h, S) ==
  h = [s \in SUBSET S |-> IF s = {} THEN 0
                          ELSE (CHOOSE x \in s : TRUE).size + h[s \ {CHOOSE x \in s : TRUE}]]

\* If there is such a function, the fold computes one.
LEMMA FoldIsASum ==
  ASSUME NEW S, NEW g, Sums(g, S)
  PROVE  \E h : Sums(h, S) /\ BytesOf(S) = h[S]
  <1> DEFINE h == CHOOSE h : Sums(h, S)
  <1>1. Sums(h, S)
    OBVIOUS
  <1>2. BytesOf(S) = h[S]
    BY DEF BytesOf, MapThenSumSet, MapThenFoldSet, Sums
  <1> QED BY <1>1, <1>2

\* There are finitely many bytes, and one more block adds its size.
LEMMA TaggedGrows ==
  ASSUME NEW S, IsFiniteSet(S), NEW end \in Nat, Below(S, end)
  PROVE  /\ IsFiniteSet(Tagged(S)) /\ Cardinality(Tagged(S)) \in Nat
         /\ \A x \in S :
              Cardinality(Tagged(S)) = x.size + Cardinality(Tagged(S \ {x}))
  <1> DEFINE below == 0..end
  <1>0. IsFiniteSet(below)
    BY FS_Interval
  <1> HIDE DEF below
  <1>1. IsFiniteSet(S \X below)
    BY <1>0, FS_Product
  <1>2. Tagged(S) \subseteq S \X below
    BY DEF Tagged, Covers, Below, Block, Placement, below
  <1>3. IsFiniteSet(Tagged(S)) /\ Cardinality(Tagged(S)) \in Nat
    BY <1>1, <1>2, FS_Subset, FS_CardinalityType
  <1>4. ASSUME NEW x \in S
        PROVE  Cardinality(Tagged(S)) = x.size + Cardinality(Tagged(S \ {x}))
    <2> DEFINE one == {x} \X (x.offset .. (x.offset + x.size - 1))
               rest == Tagged(S \ {x})
    <2>1. x.offset \in Nat /\ x.size \in Nat
      BY DEF Below, Block, Placement
    <2>2. one = {t \in {x} \X Nat : Covers(t[1], t[2])}
      BY <2>1 DEF Covers
    <2>3. Tagged(S) = one \cup rest /\ one \cap rest = {}
      BY <2>2 DEF Tagged
    <2>4. IsFiniteSet(one) /\ Cardinality(one) = x.size
      <3> DEFINE last == x.offset + x.size - 1
                 bytes == x.offset .. last
      <3>1. last \in Int /\ x.offset \in Int
        BY <2>1
      <3>2. IsFiniteSet(bytes) /\ Cardinality(bytes) = x.size
        <4>1. /\ IsFiniteSet(bytes)
              /\ Cardinality(bytes) = IF x.offset > last THEN 0 ELSE last - x.offset + 1
          <5> HIDE DEF last
          <5> QED BY <3>1, FS_Interval
        <4> QED BY <2>1, <4>1
      <3>3. IsFiniteSet({x}) /\ Cardinality({x}) = 1
        BY FS_Singleton
      <3> HIDE DEF bytes
      <3>4. /\ IsFiniteSet({x} \X bytes)
            /\ Cardinality({x} \X bytes) = Cardinality({x}) * Cardinality(bytes)
        BY <3>2, <3>3, FS_Product
      <3>5. Cardinality({x} \X bytes) = x.size
        BY <2>1, <3>2, <3>3, <3>4
      <3> QED BY <3>4, <3>5 DEF bytes
    <2> HIDE DEF one, rest
    <2>5. IsFiniteSet(rest) /\ Cardinality(rest) \in Nat
      BY <1>3, <2>3, FS_Subset, FS_CardinalityType
    <2>6. Cardinality(one \cup rest) = Cardinality(one) + Cardinality(rest) - Cardinality({})
      BY <2>3, <2>4, <2>5, FS_Union
    <2>7. Cardinality(Tagged(S)) = x.size + Cardinality(rest)
      BY <2>1, <2>3, <2>4, <2>5, <2>6, FS_EmptySet
    <2> QED BY <2>7 DEF rest
  <1> QED BY <1>3, <1>4

\* The fold counts: otherwise it goes wrong first on a set whose smaller subsets
\* it counts.
LEMMA BytesAreCounted ==
  ASSUME NEW S, IsFiniteSet(S), NEW end \in Nat, Below(S, end)
  PROVE  BytesOf(S) = Cardinality(Tagged(S))
  <1> DEFINE count == [s \in SUBSET S |-> Cardinality(Tagged(s))]
  <1>1. ASSUME NEW s \in SUBSET S
        PROVE  /\ IsFiniteSet(s) /\ Below(s, end)
               /\ s = {} => Cardinality(Tagged(s)) = 0
               /\ s # {} => /\ (CHOOSE x \in s : TRUE) \in s
                            /\ Cardinality(Tagged(s)) =
                                 (CHOOSE x \in s : TRUE).size
                                   + Cardinality(Tagged(s \ {CHOOSE x \in s : TRUE}))
    <2>1. IsFiniteSet(s) /\ Below(s, end)
      BY FS_Subset DEF Below
    <2>2. s = {} => Tagged(s) = {}
      BY DEF Tagged
    <2>3. \A x \in s : Cardinality(Tagged(s)) = x.size + Cardinality(Tagged(s \ {x}))
      BY <2>1, TaggedGrows
    <2> QED BY <2>1, <2>2, <2>3, FS_EmptySet
  <1>2. Sums(count, S)
    BY <1>1 DEF Sums
  <1>3. PICK h : Sums(h, S) /\ BytesOf(S) = h[S]
    <2> HIDE DEF count
    <2> QED BY <1>2, FoldIsASum
  <1> DEFINE wrong == {s \in SUBSET S : h[s] # count[s]}
             R == StrictSubsetOrdering(S)
  <1>4. CASE wrong # {}
    <2>1. IsWellFoundedOn(R, FiniteSubsetsOf(S))
      BY FS_StrictSubsetOrderingWellFounded
    <2>2. wrong \subseteq FiniteSubsetsOf(S)
      BY <1>1 DEF FiniteSubsetsOf
    <2>3. PICK s \in wrong : \A t \in wrong : ~(<<t, s>> \in R)
      <3> HIDE DEF wrong, R
      <3> QED BY <1>4, <2>1, <2>2, WFMin
    <2> DEFINE x == CHOOSE x \in s : TRUE
    <2>4. /\ h[s] = IF s = {} THEN 0 ELSE x.size + h[s \ {x}]
          /\ count[s] = IF s = {} THEN 0 ELSE x.size + count[s \ {x}]
      BY <1>2, <1>3 DEF Sums
    <2>5. s # {} /\ x \in s
      BY <2>4
    <2>6. <<s \ {x}, s>> \in R
      BY <2>5 DEF StrictSubsetOrdering
    <2>7. h[s \ {x}] = count[s \ {x}]
      BY <2>3, <2>6
    <2> QED BY <2>3, <2>4, <2>5, <2>7
  <1> QED BY <1>3, <1>4

\* Blocks that share no byte are as large together as the bytes they cover.
LEMMA CoveredBytes ==
  ASSUME NEW S, IsFiniteSet(S), NEW end \in Nat, Below(S, end),
         NEW C \in SUBSET Nat, \A n \in Nat : n \in C <=> \E p \in S : Covers(p, n)
  PROVE  /\ IsFiniteSet(C) /\ Cardinality(C) <= BytesOf(S) /\ BytesOf(S) \in Nat
         /\ (\A p, q \in S : p # q => ~Overlap(p, q)) => Cardinality(C) = BytesOf(S)
  <1> DEFINE f == [t \in Tagged(S) |-> t[2]]
  <1>1. f \in Surjection(Tagged(S), C)
    <2>1. \A t \in Tagged(S) : t[2] \in C
      BY DEF Tagged
    <2>2. ASSUME NEW n \in C PROVE \E t \in Tagged(S) : f[t] = n
      <3>1. PICK p \in S : Covers(p, n)
        OBVIOUS
      <3>2. <<p, n>> \in Tagged(S)
        BY <3>1 DEF Tagged
      <3> QED BY <3>2
    <2> QED BY <2>1, <2>2 DEF Surjection
  <1>2. (\A p, q \in S : p # q => ~Overlap(p, q)) => f \in Injection(Tagged(S), C)
    <2> SUFFICES ASSUME \A p, q \in S : p # q => ~Overlap(p, q),
                        NEW t \in Tagged(S), NEW u \in Tagged(S), t[2] = u[2]
                 PROVE  t = u
      BY <1>1 DEF Injection, Surjection, IsInjective
    <2>1. /\ t = <<t[1], t[2]>> /\ u = <<u[1], u[2]>> /\ t[1] \in S /\ u[1] \in S
          /\ Covers(t[1], t[2]) /\ Covers(u[1], t[2]) /\ t[2] \in Nat
      BY DEF Tagged
    <2>2. /\ t[1].offset \in Nat /\ t[1].size \in Nat
          /\ u[1].offset \in Nat /\ u[1].size \in Nat
      BY <2>1 DEF Below, Block, Placement
    <2>3. t[1] # u[1] => Overlap(t[1], u[1])
      BY <2>1, <2>2 DEF Covers, Overlap
    <2> QED BY <2>1, <2>3
  <1> HIDE DEF f
  <1>3. IsFiniteSet(Tagged(S)) /\ Cardinality(Tagged(S)) \in Nat
    BY TaggedGrows
  <1>4. BytesOf(S) = Cardinality(Tagged(S))
    BY BytesAreCounted
  <1>5. /\ IsFiniteSet(C) /\ Cardinality(C) <= Cardinality(Tagged(S))
        /\ Cardinality(C) = Cardinality(Tagged(S)) <=> f \in Injection(Tagged(S), C)
    BY <1>1, <1>3, FS_Surjection
  <1> QED BY <1>2, <1>3, <1>4, <1>5

\* _align returns a multiple of the alignment.
LEMMA AlignIsAligned ==
  ASSUME NEW n \in Nat PROVE Align(n) % Alignment = 0
  <1>1. ASSUME NEW m \in Nat, NEW a \in Nat \ {0} PROVE (m - (m % a)) % a = 0
    <2>1. m % a = m - a * (m \div a) /\ m \div a \in Nat
      BY <1>1
    <2>2. m - (m % a) = a * (m \div a)
      BY <2>1
    <2>3. ASSUME NEW q \in Nat PROVE (a * q) % a = 0
      BY <2>3
    <2> QED
      BY <2>1, <2>2, <2>3
  <1> QED
    BY <1>1, AlignmentAssumption DEF Align

\* What is aligned stays so: by _align, and when an aligned size is added.
LEMMA AlignedStays ==
  ASSUME NEW n \in Nat, n % Alignment = 0
  PROVE  /\ Align(n) = n
         /\ \A m \in Nat : m % Alignment = 0 => (n + m) % Alignment = 0
  <1>1. ASSUME NEW a \in Nat \ {0}, NEW q \in Nat
        PROVE  (a * q + (a - 1)) % a = a - 1 /\ (a * q) % a = 0
    BY <1>1
  <1>2. ASSUME NEW a \in Nat \ {0}, NEW k \in Nat, k % a = 0
        PROVE  \E q \in Nat : k = a * q
    <2>1. k = a * (k \div a) /\ k \div a \in Nat
      BY <1>2
    <2> QED BY <2>1
  <1>3. PICK q \in Nat : n = Alignment * q
    BY <1>2, AlignmentAssumption
  <1>4. Align(n) = n
    <2>1. (n + Alignment - 1) % Alignment = Alignment - 1
      BY <1>1, <1>3, AlignmentAssumption
    <2> QED BY <2>1, AlignmentAssumption DEF Align
  <1>5. ASSUME NEW m \in Nat, m % Alignment = 0 PROVE (n + m) % Alignment = 0
    <2>1. PICK k \in Nat : m = Alignment * k
      BY <1>2, <1>5, AlignmentAssumption
    <2>2. n + m = Alignment * (q + k) /\ q + k \in Nat
      BY <1>3, <2>1, AlignmentAssumption
    <2>3. (Alignment * (q + k)) % Alignment = 0
      BY <1>1, <2>2, AlignmentAssumption
    <2> QED BY <2>2, <2>3
  <1> QED BY <1>4, <1>5

-----------------------------------------------------------------------------
(* ArenaTiled and ReceiptsOrdered *)

\* What ArenaInv lacks for them: every byte of the arena is held or free, and
\* was once placed; the arena ends at a multiple of the alignment, so that
\* growing it leaves no gap.
TilingInv ==
  /\ arena_end % Alignment = 0 /\ \A r \in todo : r.size % Alignment = 0
  /\ IsFiniteSet(placed) /\ IsFiniteSet(free)
  /\ \A n \in 0..(arena_end - 1) : \E b \in active \cup free : Covers(b, n)
  /\ \A n \in 0..(arena_end - 1) : \E p \in placed : Covers(p, n)
  /\ peak_live \in 0..arena_end

\* What is held, free or placed lies in the arena.
LEMMA BlocksBelow ==
  ASSUME ArenaInv
  PROVE  Below(active, arena_end) /\ Below(free, arena_end) /\ Below(placed, arena_end)
  BY DEF ArenaInv, TypeOK, BlocksDisjoint, InsideArena, Below

\* Blocks below the end that share no byte fit in the arena.
LEMMA HeldFits ==
  ASSUME NEW S, IsFiniteSet(S), NEW end \in Nat, Below(S, end),
         \A p, q \in S : p # q => ~Overlap(p, q)
  PROVE  BytesOf(S) \in 0..end
  <1> DEFINE C == {n \in Nat : \E p \in S : Covers(p, n)}
             arena == 0..(end - 1)
  <1>1. C \subseteq arena
    BY DEF Below, Covers, Block, Placement
  <1>2. IsFiniteSet(arena) /\ Cardinality(arena) = end
    BY FS_Interval
  <1>3. C \in SUBSET Nat /\ \A n \in Nat : n \in C <=> \E p \in S : Covers(p, n)
    OBVIOUS
  <1> HIDE DEF C, arena
  <1>4. Cardinality(C) = BytesOf(S) /\ BytesOf(S) \in Nat
    BY <1>3, CoveredBytes
  <1>5. Cardinality(C) <= end
    BY <1>1, <1>2, FS_Subset
  <1> QED BY <1>4, <1>5

\* The invariant gives both properties.
LEMMA TilingGives == ArenaInv /\ TilingInv => ArenaTiled /\ ReceiptsOrdered
  <1> SUFFICES ASSUME ArenaInv, TilingInv PROVE ArenaTiled /\ ReceiptsOrdered
    OBVIOUS
  <1> DEFINE Bytes(S) == {n \in Nat : \E p \in S : Covers(p, n)}
             held == Bytes(active)
             open == Bytes(free)
             arena == 0..(arena_end - 1)
  <1>1. arena_end \in Nat /\ IsFiniteSet(placed) /\ IsFiniteSet(free) /\ IsFiniteSet(active)
    BY FS_Subset DEF ArenaInv, TypeOK, BlocksDisjoint, TilingInv
  <1>2. IsFiniteSet(arena) /\ Cardinality(arena) = arena_end
    BY <1>1, FS_Interval
  <1>3. held \cup open = arena
    <2>1. held \subseteq arena /\ open \subseteq arena
      BY <1>1, BlocksBelow DEF Below, Covers, Block, Placement
    <2>2. arena \subseteq held \cup open
      BY <1>1 DEF TilingInv
    <2> QED BY <2>1, <2>2
  <1>4. held \cap open = {}
    <2> SUFFICES ASSUME NEW n \in held, n \in open PROVE FALSE
      OBVIOUS
    <2>1. PICK p \in active, b \in free : Covers(p, n) /\ Covers(b, n)
      OBVIOUS
    <2>2. p \in Placement /\ b \in Block /\ ~Overlap(p, b)
      BY DEF ArenaInv, TypeOK, BlocksDisjoint
    <2> QED BY <2>1, <2>2 DEF Covers, Overlap, Block, Placement
  <1>5. /\ IsFiniteSet(held) /\ Cardinality(held) = BytesOf(active)
        /\ IsFiniteSet(open) /\ Cardinality(open) = BytesOf(free)
        /\ BytesOf(active) \in Nat /\ BytesOf(free) \in Nat
    <2>1. /\ \A p, q \in active : p # q => ~Overlap(p, q)
          /\ \A p, q \in free : p # q => ~Overlap(p, q)
      BY DEF ArenaInv, BlocksDisjoint
    <2>2. /\ held \in SUBSET Nat /\ \A n \in Nat : n \in held <=> \E p \in active : Covers(p, n)
          /\ open \in SUBSET Nat /\ \A n \in Nat : n \in open <=> \E p \in free : Covers(p, n)
      OBVIOUS
    <2> HIDE DEF held, open
    <2>3. Below(active, arena_end) /\ Below(free, arena_end)
      BY BlocksBelow
    <2>4. IsFiniteSet(held) /\ Cardinality(held) = BytesOf(active) /\ BytesOf(active) \in Nat
      BY <1>1, <2>1, <2>2, <2>3, CoveredBytes
    <2>5. IsFiniteSet(open) /\ Cardinality(open) = BytesOf(free) /\ BytesOf(free) \in Nat
      BY <1>1, <2>1, <2>2, <2>3, CoveredBytes
    <2> QED BY <2>4, <2>5
  <1>6. arena_end <= BytesOf(placed)
    <2>1. arena \in SUBSET Nat /\ \A n \in Nat : n \in arena <=> \E p \in placed : Covers(p, n)
      BY <1>1, BlocksBelow DEF TilingInv, Below, Covers, Block, Placement
    <2>2. Below(placed, arena_end)
      BY BlocksBelow
    <2> HIDE DEF arena
    <2> QED BY <1>1, <1>2, <2>1, <2>2, CoveredBytes
  <1>7. BytesOf(active) + BytesOf(free) = arena_end
    <2> HIDE DEF held, open, arena
    <2>1. Cardinality(held \cup open) = Cardinality(held) + Cardinality(open) - Cardinality({})
      BY <1>4, <1>5, FS_Union
    <2>2. Cardinality({}) = 0
      BY FS_EmptySet
    <2>3. Cardinality(held \cup open) = arena_end
      BY <1>2, <1>3
    <2> QED BY <1>1, <1>5, <2>1, <2>2, <2>3
  <1> QED BY <1>6, <1>7 DEF ArenaTiled, ReceiptsOrdered, ArenaInv, BlocksDisjoint, TilingInv

\* At the start there are no bytes.
LEMMA InitTilingInv == Init => TilingInv
  <1> SUFFICES ASSUME Init PROVE TilingInv
    OBVIOUS
  <1>1. 0 % Alignment = 0 /\ 0..(0 - 1) = {}
    BY AlignmentAssumption
  <1>2. \A r \in todo : r.size % Alignment = 0
    BY WorkloadsAssumption DEF Init
  <1> QED
    BY <1>1, <1>2, FS_EmptySet DEF Init, TilingInv

\* A block that is given up covers the bytes it covered.
LEMMA RetireKeepsTiling == ArenaInv /\ TilingInv /\ RetireExpired => TilingInv'
  <1> SUFFICES ASSUME ArenaInv, TilingInv, RetireExpired PROVE TilingInv'
    OBVIOUS
  <1>1. PICK r \in todo : /\ active' = active \ Expired(r)
                         /\ free' = free \cup {BlockOf(a) : a \in Expired(r)}
    BY DEF RetireExpired
  <1>2. UNCHANGED <<todo, arena_end, peak_live, placed>>
    BY DEF RetireExpired
  <1>3. Expired(r) \subseteq active /\ active \subseteq placed /\ active \subseteq Placement
    BY DEF Expired, ArenaInv, BlocksDisjoint, TypeOK
  <1> DEFINE given == {BlockOf(a) : a \in Expired(r)}
             f == [a \in Expired(r) |-> BlockOf(a)]
  <1>4. IsFiniteSet(free')
    <2>1. IsFiniteSet(Expired(r))
      BY <1>3, FS_Subset DEF TilingInv
    <2>2. f \in Surjection(Expired(r), given)
      BY DEF Surjection
    <2>3. IsFiniteSet(free) /\ free' = free \cup given
      BY <1>1 DEF TilingInv
    <2> HIDE DEF f, given
    <2> QED BY <2>1, <2>2, <2>3, FS_Surjection, FS_Union
  <1>5. ASSUME NEW n \in 0..(arena_end - 1)
        PROVE  \E b \in active' \cup free' : Covers(b, n)
    <2>1. PICK b \in active \cup free : Covers(b, n)
      BY DEF TilingInv
    <2>2. CASE b \in Expired(r)
      BY <1>1, <1>3, <2>1, <2>2, BlockOfType DEF Covers
    <2> QED BY <1>1, <2>1, <2>2
  <1> QED BY <1>2, <1>4, <1>5 DEF TilingInv

\* The joined block covers what the two covered.
LEMMA MergeKeepsTiling == ArenaInv /\ TilingInv /\ MergeFree => TilingInv'
  <1> SUFFICES ASSUME ArenaInv, TilingInv, MergeFree PROVE TilingInv'
    OBVIOUS
  <1>1. PICK a \in free, b \in free :
          /\ a.offset + a.size = b.offset
          /\ free' = (free \ {a, b})
                       \cup {[offset |-> a.offset, size |-> a.size + b.size]}
    BY DEF MergeFree, Adjacent
  <1>2. UNCHANGED <<todo, active, arena_end, peak_live, placed>>
    BY DEF MergeFree
  <1> DEFINE j == [offset |-> a.offset, size |-> a.size + b.size]
  <1>3. IsFiniteSet(free')
    <2>1. IsFiniteSet(free \ {a, b})
      BY FS_Difference DEF TilingInv
    <2> HIDE DEF j
    <2> QED BY <1>1, <2>1, FS_AddElement DEF j
  <1>4. a \in Block /\ b \in Block
    BY DEF ArenaInv, TypeOK
  <1>5. \A n \in Nat : Covers(a, n) \/ Covers(b, n) => Covers(j, n)
    BY <1>1, <1>4 DEF Covers, Block
  <1>6. ASSUME NEW n \in 0..(arena_end - 1)
        PROVE  \E c \in active' \cup free' : Covers(c, n)
    <2>1. PICK c \in active \cup free : Covers(c, n)
      BY DEF TilingInv
    <2>2. n \in Nat /\ j \in free'
      BY <1>1
    <2> HIDE DEF j
    <2> QED BY <1>1, <1>2, <1>5, <2>1, <2>2
  <1> QED BY <1>2, <1>3, <1>6 DEF TilingInv

\* The bookkeeping of a placement: the new peak is the bytes of disjoint blocks.
LEMMA CommitKeepsTiling ==
  ASSUME ArenaInv, ArenaInv', TilingInv, NEW r \in todo, NEW o \in Nat, Commit(r, o),
         arena_end \in Nat, arena_end' \in Nat, arena_end <= arena_end'
  PROVE  /\ \A q \in todo' : q.size % Alignment = 0
         /\ IsFiniteSet(placed')
         /\ peak_live' \in 0..arena_end'
         /\ active' = active \cup {Place(r, o)} /\ placed' = placed \cup {Place(r, o)}
  <1>1. /\ todo' = todo \ {r}
        /\ active' = active \cup {Place(r, o)} /\ placed' = placed \cup {Place(r, o)}
        /\ peak_live' \in {BytesOf(active'), peak_live}
    BY DEF Commit
  <1>2. IsFiniteSet(placed')
    BY <1>1, FS_AddElement DEF TilingInv
  <1>3. BytesOf(active') \in 0..arena_end'
    <2>1. active' \subseteq placed' /\ \A p, q \in active' : p # q => ~Overlap(p, q)
      BY DEF ArenaInv, BlocksDisjoint
    <2>2. IsFiniteSet(active')
      BY <1>2, <2>1, FS_Subset
    <2>3. \A p \in active' : p \in Placement /\ p.offset + p.size <= arena_end'
      BY <2>1 DEF ArenaInv, TypeOK, InsideArena
    <2>4. Below(active', arena_end')
      BY <2>3 DEF Below
    <2> QED BY <2>1, <2>2, <2>4, HeldFits
  <1>4. peak_live' \in 0..arena_end'
    BY <1>1, <1>3 DEF TilingInv
  <1> QED BY <1>1, <1>2, <1>4 DEF TilingInv

\* The new value and the remainder cover what the free block covered.
LEMMA PlaceInFreeBlockKeepsTiling ==
  ArenaInv /\ TilingInv /\ PlaceInFreeBlock => TilingInv'
  <1> SUFFICES ASSUME ArenaInv, TilingInv, PlaceInFreeBlock PROVE TilingInv'
    OBVIOUS
  <1>1. PICK r \in todo : \E b \in Fitting(r) :
          free' = (free \ {b}) \cup Remainder(b, r) /\ Commit(r, b.offset)
    BY DEF PlaceInFreeBlock
  <1>2. PICK b \in Fitting(r) :
          free' = (free \ {b}) \cup Remainder(b, r) /\ Commit(r, b.offset)
    BY <1>1
  <1>3. arena_end' = arena_end /\ arena_end \in Nat /\ ArenaInv'
    BY PlaceInFreeBlockKeepsInv DEF PlaceInFreeBlock, ArenaInv, TypeOK
  <1>4. /\ b \in free /\ b \in Block /\ b.size >= r.size /\ r \in Request
        /\ b.offset \in Nat
    BY DEF Fitting, ArenaInv, TypeOK, Block
  <1> DEFINE p == Place(r, b.offset)
  <1>5. /\ \A q \in todo' : q.size % Alignment = 0
        /\ IsFiniteSet(placed')
        /\ peak_live' \in 0..arena_end'
        /\ active' = active \cup {p} /\ placed' = placed \cup {p}
    BY <1>2, <1>3, <1>4, CommitKeepsTiling
  <1>6. \A n \in Nat : Covers(b, n) => Covers(p, n) \/ \E m \in Remainder(b, r) : Covers(m, n)
    <2> SUFFICES ASSUME NEW n \in Nat, Covers(b, n), ~Covers(p, n)
                 PROVE  \E m \in Remainder(b, r) : Covers(m, n)
      OBVIOUS
    <2> DEFINE m == [offset |-> b.offset + r.size, size |-> b.size - r.size]
    <2>1. /\ p.offset = b.offset /\ p.size = r.size
          /\ b.size \in Nat /\ r.size \in Nat
      BY <1>4 DEF Place, Block, Request
    <2>2. b.size > r.size /\ Covers(m, n)
      <3> HIDE DEF p
      <3> QED BY <1>4, <2>1 DEF Covers
    <2>3. m \in Remainder(b, r)
      BY <2>2 DEF Remainder
    <2> QED BY <2>2, <2>3
  <1>7. IsFiniteSet(free')
    <2>1. IsFiniteSet(free \ {b})
      BY FS_Difference DEF TilingInv
    <2>2. IsFiniteSet(Remainder(b, r))
      BY FS_EmptySet, FS_Singleton DEF Remainder
    <2> QED BY <1>2, <2>1, <2>2, FS_Union
  <1> HIDE DEF p
  <1>8. ASSUME NEW n \in 0..(arena_end - 1)
        PROVE  \E c \in active' \cup free' : Covers(c, n)
    <2>1. PICK c \in active \cup free : Covers(c, n)
      BY DEF TilingInv
    <2>2. CASE c = b
      BY <1>2, <1>5, <1>6, <2>1, <2>2
    <2> QED BY <1>2, <1>5, <2>1, <2>2
  <1> QED BY <1>3, <1>5, <1>7, <1>8 DEF TilingInv

\* The arena ends where the last block ended, so growing it leaves no gap.
LEMMA PlaceAtEndKeepsTiling == ArenaInv /\ TilingInv /\ PlaceAtEnd => TilingInv'
  <1> SUFFICES ASSUME ArenaInv, TilingInv, PlaceAtEnd PROVE TilingInv'
    OBVIOUS
  <1>1. PICK r \in todo : arena_end' = Align(arena_end) + r.size /\ Commit(r, Align(arena_end))
    BY DEF PlaceAtEnd
  <1>2. /\ free' = free /\ arena_end \in Nat /\ r \in Request /\ r.size \in Nat
        /\ r.size % Alignment = 0 /\ arena_end % Alignment = 0
    BY DEF PlaceAtEnd, ArenaInv, TypeOK, TilingInv, Request
  <1>0. ArenaInv'
    BY PlaceAtEndKeepsInv
  <1>3. Align(arena_end) = arena_end /\ (arena_end + r.size) % Alignment = 0
    BY <1>2, AlignedStays
  <1>4. arena_end' = arena_end + r.size /\ Commit(r, arena_end)
    BY <1>1, <1>3
  <1> DEFINE p == Place(r, arena_end)
  <1>5. /\ \A q \in todo' : q.size % Alignment = 0
        /\ IsFiniteSet(placed')
        /\ peak_live' \in 0..arena_end'
        /\ active' = active \cup {p} /\ placed' = placed \cup {p}
    BY <1>0, <1>2, <1>4, CommitKeepsTiling
  <1>6. \A n \in 0..(arena_end' - 1) : n \in 0..(arena_end - 1) \/ Covers(p, n)
    BY <1>2, <1>4 DEF Covers, Place
  <1> HIDE DEF p
  <1> QED BY <1>2, <1>3, <1>4, <1>5, <1>6 DEF TilingInv

\* Every step keeps the invariant.
LEMMA NextKeepsTiling == ArenaInv /\ TilingInv /\ [Next]_vars => TilingInv'
  <1> SUFFICES ASSUME ArenaInv, TilingInv, [Next]_vars PROVE TilingInv'
    OBVIOUS
  <1>1. CASE RejectOverflow \/ VerifyPlan \/ UNCHANGED vars
    BY <1>1 DEF RejectOverflow, VerifyPlan, vars, TilingInv
  <1> QED
    BY <1>1, RetireKeepsTiling, MergeKeepsTiling, PlaceInFreeBlockKeepsTiling,
       PlaceAtEndKeepsTiling DEF Next

\* Splitting, retiring and coalescing lose no byte and invent none, whatever the
\* workload (memory.py, _allocate_intervals and _merge_free).
THEOREM ArenaAlwaysTiled == Spec => []ArenaTiled
  <1>1. Init => TilingInv
    BY InitTilingInv
  <1>2. ArenaInv /\ TilingInv /\ [Next]_vars => TilingInv'
    BY NextKeepsTiling
  <1>3. ArenaInv /\ TilingInv => ArenaTiled
    BY TilingGives
  <1> QED
    BY <1>1, <1>2, <1>3, ArenaInvariant, PTL DEF Spec

\* The bytes live at once fit in the arena, and the arena is never larger than
\* one block per value (the receipts _verify_memory_plan compares).
THEOREM ReceiptsAlwaysOrdered == Spec => []ReceiptsOrdered
  <1>1. Init => TilingInv
    BY InitTilingInv
  <1>2. ArenaInv /\ TilingInv /\ [Next]_vars => TilingInv'
    BY NextKeepsTiling
  <1>3. ArenaInv /\ TilingInv => ReceiptsOrdered
    BY TilingGives
  <1> QED
    BY <1>1, <1>2, <1>3, ArenaInvariant, PTL DEF Spec

Popped == {ordered[k] : k \in DOMAIN ordered}

OrderTypeOK ==
  /\ records \in Placements
  /\ verdict \in {"pending", "draining", "ordered", "invalid", "cycle"}
  /\ ordered \in Seq(Indices)

PoppedOnce == \A k, m \in DOMAIN ordered : k # m => ordered[k] # ordered[m]

\* Every popped record comes after all it depends on.
DependenciesFirst ==
  \A k \in DOMAIN ordered : Dependencies(ordered[k]) \subseteq {ordered[m] : m \in 1..(k - 1)}

\* What the heap and the open dependencies hold.
HeapInv ==
  /\ verdict \in {"pending", "invalid"} => ordered = <<>>
  /\ verdict \in {"draining", "cycle"} =>
       /\ deps = [i \in Indices |-> Dependencies(i) \ Popped]
       /\ ready = {i \in Indices \ Popped : Dependencies(i) \subseteq Popped}
  /\ verdict = "ordered" => Popped = Indices
  /\ verdict = "cycle" => Popped # Indices /\ ready = {}

OrderInv == OrderTypeOK /\ PoppedOnce /\ DependenciesFirst /\ HeapInv

-----------------------------------------------------------------------------
(* Facts about sets of numbers and about the operators of the pass *)

\* Every nonempty set of naturals has a least element: initial segments of the
\* naturals are ordered by strict inclusion, which is well founded on finite sets.
LEMMA LeastNatural ==
  ASSUME NEW S, S \subseteq Nat, S # {}
  PROVE  \E m \in S : \A n \in S : m <= n
  <1> DEFINE Under(n) == 0..(n - 1)
             T == {Under(n) : n \in S}
             R == StrictSubsetOrdering(Nat)
  <1>1. \A n \in Nat : Under(n) \in SUBSET Nat /\ IsFiniteSet(Under(n))
    BY FS_Interval
  <1>2. T \subseteq FiniteSubsetsOf(Nat) /\ T # {}
    BY <1>1 DEF FiniteSubsetsOf
  <1>3. PICK t \in T : \A u \in T : ~(<<u, t>> \in R)
    <2>1. IsWellFoundedOn(R, FiniteSubsetsOf(Nat))
      BY FS_StrictSubsetOrderingWellFounded
    <2> HIDE DEF R, T
    <2> QED
      BY <1>2, <2>1, WFMin
  <1>4. PICK m \in S : t = Under(m)
    BY <1>3
  <1>5. ASSUME NEW n \in S, n < m PROVE FALSE
    <2>1. Under(n) \subseteq Under(m) /\ Under(n) # Under(m)
      BY <1>5
    <2>2. <<Under(n), Under(m)>> \in R
      BY <1>1, <2>1 DEF StrictSubsetOrdering
    <2> QED
      BY <1>3, <1>4, <2>2
  <1> QED
    BY <1>5

\* A nonempty set of naturals with a bound has a greatest element.
LEMMA GreatestNatural ==
  ASSUME NEW S, S \subseteq Nat, S # {}, NEW b \in Nat, \A n \in S : n <= b
  PROVE  \E m \in S : \A n \in S : n <= m
  <1> DEFINE T == {b - n : n \in S}
  <1>1. T \subseteq Nat /\ T # {}
    <2>1. \A n \in S : n \in Nat /\ n <= b /\ b - n \in Nat
      OBVIOUS
    <2> QED
      BY <2>1
  <1>2. PICK t \in T : \A u \in T : t <= u
    <2> HIDE DEF T
    <2> QED
      BY <1>1, LeastNatural
  <1>3. PICK m \in S : t = b - m
    BY <1>2
  <1>4. ASSUME NEW n \in S PROVE n <= m
    <2>1. b - m <= b - n
      BY <1>2, <1>3
    <2> QED
      BY <2>1
  <1> QED
    BY <1>4

\* The operators of the pass depend on the records only.
LEMMA RecordsDecide ==
  ASSUME UNCHANGED records
  PROVE  /\ Indices' = Indices
         /\ \A i : Dependencies(i)' = Dependencies(i)
         /\ InvalidPlacements' = InvalidPlacements
  BY DEF Indices, Dependencies, DataDependencies, StateDependencies, Events, Neighbours, Sorted,
     InvalidPlacements, DuplicateAnchors, AccessWithoutReceipt, TouchesUnused, WritesImmutable,
     TwoWriters, ReadsUnproduced, Produced

\* A command depends on commands of the same list.
LEMMA DependenciesAreIndices ==
  ASSUME NEW i PROVE Dependencies(i) \subseteq Indices
  BY DEF Dependencies, DataDependencies, StateDependencies

\* The records are numbered from one.
LEMMA IndicesAreNumbers ==
  ASSUME records \in Placements
  PROVE  Indices = 1..Len(records) /\ Len(records) \in Nat /\ records \in [Indices -> Record]
  BY CommandOrderAssumption DEF Indices

-----------------------------------------------------------------------------
(* OrderInv is inductive *)

\* Nothing is popped before the pass starts.
LEMMA InitOrderInv == OrderInit => OrderInv
  BY DEF OrderInit, OrderInv, OrderTypeOK, PoppedOnce, DependenciesFirst, HeapInv

\* A refused list pops nothing.
LEMMA RejectKeepsInv == OrderInv /\ RejectPlacements => OrderInv'
  <1> SUFFICES ASSUME OrderInv, RejectPlacements PROVE OrderInv'
    OBVIOUS
  <1>1. UNCHANGED <<records, ordered>> /\ verdict' = "invalid" /\ ordered = <<>>
    BY DEF RejectPlacements, OrderInv, HeapInv
  <1> QED
    BY <1>1, RecordsDecide DEF OrderInv, OrderTypeOK, PoppedOnce, DependenciesFirst, HeapInv

\* All dependencies are open before the first command is popped.
LEMMA BuildKeepsInv == OrderInv /\ BuildDependencies => OrderInv'
  <1> SUFFICES ASSUME OrderInv, BuildDependencies PROVE OrderInv'
    OBVIOUS
  <1>1. UNCHANGED <<records, ordered>> /\ verdict' = "draining" /\ ordered = <<>>
    BY DEF BuildDependencies, OrderInv, HeapInv
  <1>2. Popped' = {}
    BY <1>1 DEF Popped
  <1>3. deps' = [i \in Indices |-> Dependencies(i)] /\ ready' = {i \in Indices : Dependencies(i) = {}}
    BY DEF BuildDependencies, ReadyAtFirst
  <1>4. HeapInv'
    BY <1>1, <1>2, <1>3, RecordsDecide DEF HeapInv
  <1> QED
    BY <1>1, <1>4, RecordsDecide DEF OrderInv, OrderTypeOK, PoppedOnce, DependenciesFirst

\* Popping a record without open dependencies opens the way for its users.
LEMMA PopKeepsInv == OrderInv /\ PopReady => OrderInv'
  <1> SUFFICES ASSUME OrderInv, PopReady PROVE OrderInv'
    OBVIOUS
  <1>1. UNCHANGED <<records, verdict>> /\ verdict = "draining"
    BY DEF PopReady
  <1>2. PICK i \in ready : /\ ordered' = Append(ordered, i)
                           /\ deps' = [j \in Indices |-> deps[j] \ {i}]
                           /\ ready' = (ready \ {i}) \cup Released(i)
    BY DEF PopReady
  <1>3. /\ deps = [j \in Indices |-> Dependencies(j) \ Popped]
        /\ ready = {j \in Indices \ Popped : Dependencies(j) \subseteq Popped}
    BY <1>1 DEF OrderInv, HeapInv
  <1>4. i \in Indices /\ i \notin Popped /\ Dependencies(i) \subseteq Popped
    BY <1>3
  <1>5. /\ ordered \in Seq(Indices) /\ DOMAIN ordered = 1..Len(ordered)
        /\ Len(ordered) \in Nat
    BY DEF OrderInv, OrderTypeOK
  <1>6. /\ DOMAIN ordered' = 1..(Len(ordered) + 1)
        /\ \A k \in DOMAIN ordered : ordered'[k] = ordered[k]
        /\ ordered'[Len(ordered) + 1] = i
        /\ ordered' \in Seq(Indices)
    BY <1>2, <1>4, <1>5
  <1>7. Popped' = Popped \cup {i}
    BY <1>5, <1>6 DEF Popped
  <1>8. OrderTypeOK'
    BY <1>1, <1>6, RecordsDecide DEF OrderInv, OrderTypeOK
  <1>9. PoppedOnce'
    BY <1>4, <1>5, <1>6 DEF OrderInv, PoppedOnce, Popped
  <1>10. DependenciesFirst'
    <2>1. ASSUME NEW k \in DOMAIN ordered'
          PROVE  Dependencies(ordered'[k]) \subseteq {ordered'[m] : m \in 1..(k - 1)}
      <3>1. CASE k \in DOMAIN ordered
        <4>1. Dependencies(ordered[k]) \subseteq {ordered[m] : m \in 1..(k - 1)}
          BY <3>1 DEF OrderInv, DependenciesFirst
        <4>2. \A m \in 1..(k - 1) : ordered'[m] = ordered[m]
          BY <1>5, <1>6, <3>1
        <4> QED
          BY <1>6, <3>1, <4>1, <4>2
      <3>2. CASE k = Len(ordered) + 1
        <4>1. Popped = {ordered'[m] : m \in 1..(k - 1)}
          BY <1>5, <1>6, <3>2 DEF Popped
        <4> QED
          BY <1>4, <1>6, <3>2, <4>1
      <3> QED
        BY <1>5, <1>6, <3>1, <3>2
    <2> QED
      BY <1>1, <2>1, RecordsDecide DEF DependenciesFirst
  <1>11. HeapInv'
    <2>1. deps' = [j \in Indices |-> Dependencies(j) \ (Popped \cup {i})]
      BY <1>2, <1>3
    <2>2. \A j \in Popped : Dependencies(j) \subseteq Popped
      BY <1>5 DEF OrderInv, DependenciesFirst, Popped
    <2>3. Released(i) = {j \in Indices : i \in Dependencies(j) \ Popped /\ Dependencies(j) \ Popped = {i}}
      BY <1>3 DEF Released
    <2>4. ready' = {j \in Indices \ (Popped \cup {i}) : Dependencies(j) \subseteq Popped \cup {i}}
      BY <1>2, <1>3, <1>4, <2>2, <2>3
    <2> QED
      BY <1>1, <1>7, <2>1, <2>4, RecordsDecide DEF HeapInv
  <1> QED
    BY <1>8, <1>9, <1>10, <1>11 DEF OrderInv

\* An empty heap ends the pass; as many records as were given are all of them.
LEMMA FinishKeepsInv == OrderInv /\ FinishOrder => OrderInv'
  <1> SUFFICES ASSUME OrderInv, FinishOrder PROVE OrderInv'
    OBVIOUS
  <1>1. UNCHANGED <<records, deps, ready, ordered>> /\ ready = {} /\ verdict = "draining"
    BY DEF FinishOrder
  <1>2. /\ ordered \in Seq(Indices) /\ Len(ordered) \in Nat /\ Len(records) \in Nat
        /\ Indices = 1..Len(records) /\ DOMAIN ordered = 1..Len(ordered)
    BY IndicesAreNumbers DEF OrderInv, OrderTypeOK
  <1>3. ordered \in Injection(1..Len(ordered), Indices)
    BY SMTT(60), <1>2 DEF OrderInv, PoppedOnce, Injection, IsInjective
  <1>4. /\ Cardinality(1..Len(ordered)) = Len(ordered)
        /\ Cardinality(Indices) = Len(records) /\ IsFiniteSet(Indices)
    <2>1. ASSUME NEW n \in Nat PROVE Cardinality(1..n) = n /\ IsFiniteSet(1..n)
      <3>1. IsFiniteSet(1..n) /\ Cardinality(1..n) = IF 1 > n THEN 0 ELSE n - 1 + 1
        BY FS_Interval
      <3> QED
        BY <3>1
    <2> QED
      BY <1>2, <2>1
  <1>5. Len(ordered) = Len(records) <=> ordered \in Surjection(1..Len(ordered), Indices)
    BY <1>3, <1>4, FS_Injection
  <1>6. ordered \in Surjection(1..Len(ordered), Indices) <=> Popped = Indices
    BY SMTT(60), <1>2 DEF Surjection, Popped
  <1>7. verdict' = IF Popped = Indices THEN "ordered" ELSE "cycle"
    BY <1>5, <1>6 DEF FinishOrder
  <1>8. HeapInv'
    BY <1>1, <1>7, RecordsDecide DEF OrderInv, HeapInv, Popped
  <1> QED
    BY <1>1, <1>7, <1>8, RecordsDecide DEF OrderInv, OrderTypeOK, PoppedOnce, DependenciesFirst

\* Every step of the pass keeps the invariant.
LEMMA NextKeepsOrderInv == OrderInv /\ [OrderNext]_orderVars => OrderInv'
  <1> SUFFICES ASSUME OrderInv, [OrderNext]_orderVars PROVE OrderInv'
    OBVIOUS
  <1>1. CASE UNCHANGED orderVars
    BY <1>1, RecordsDecide DEF orderVars, OrderInv, OrderTypeOK, PoppedOnce, DependenciesFirst, HeapInv, Popped
  <1> QED
    BY <1>1, RejectKeepsInv, BuildKeepsInv, PopKeepsInv, FinishKeepsInv DEF OrderNext

\* order_command_placements: OrderInv holds from the call to its end.
THEOREM OrderInvariant == OrderSpec => []OrderInv
  <1>1. OrderInit => OrderInv
    BY InitOrderInv
  <1>2. OrderInv /\ [OrderNext]_orderVars => OrderInv'
    BY NextKeepsOrderInv
  <1> QED
    BY <1>1, <1>2, PTL DEF OrderSpec

-----------------------------------------------------------------------------
(* What the invariant implies *)

\* A popped record stands at one place of the result.
LEMMA PositionOfPopped ==
  ASSUME PoppedOnce, NEW k \in DOMAIN ordered
  PROVE  Position(ordered[k]) = k
  <1>1. \A m \in DOMAIN ordered : ordered[m] = ordered[k] <=> m = k
    BY DEF PoppedOnce
  <1> QED
    BY <1>1 DEF Position

\* What a record depends on stands before it.
LEMMA DependenciesStandBefore ==
  ASSUME OrderInv, NEW k \in DOMAIN ordered, NEW i \in Dependencies(ordered[k])
  PROVE  i \in Popped /\ Position(i) < k
  <1>1. PICK m \in 1..(k - 1) : i = ordered[m]
    BY DEF OrderInv, DependenciesFirst
  <1>2. DOMAIN ordered = 1..Len(ordered) /\ Len(ordered) \in Nat
    BY DEF OrderInv, OrderTypeOK
  <1>3. m \in DOMAIN ordered /\ m < k
    BY <1>2
  <1>4. Position(i) = m
    BY <1>1, <1>3, PositionOfPopped DEF OrderInv
  <1> QED
    BY <1>1, <1>3, <1>4 DEF Popped

\* Producers run before their users, and nothing is lost or run twice.
LEMMA OrderInvProducersFirst == OrderInv => ProducersFirst
  <1> SUFFICES ASSUME OrderInv PROVE ProducersFirst
    OBVIOUS
  <1>1. \A k, m \in DOMAIN ordered : k # m => ordered[k] # ordered[m]
    BY DEF OrderInv, PoppedOnce
  <1>2. \A k \in DOMAIN ordered : \A i \in DataDependencies(ordered[k]) : Position(i) < k
    BY DependenciesStandBefore DEF Dependencies
  <1>3. verdict = "ordered" => Range(ordered) = Indices
    BY DEF OrderInv, HeapInv, Popped, Range
  <1> QED
    BY <1>1, <1>2, <1>3 DEF ProducersFirst

\* If every record left over waits for another, no order exists: the record an
\* order would place first has an open dependency that must come before it.
LEMMA OrderInvCycleIsReal == OrderInv => CycleIsReal
  <1> SUFFICES ASSUME OrderInv, verdict = "cycle", ~SharedEvent,
                      NEW pos \in [Indices -> Indices], ValidOrder(pos)
               PROVE  FALSE
    BY DEF CycleIsReal, OrderExists
  <1> DEFINE Left == Indices \ Popped
             Places == {pos[i] : i \in Left}
  <1>1. Left # {} /\ ready = {} /\ ready = {i \in Left : Dependencies(i) \subseteq Popped}
    <2>1. \A k \in DOMAIN ordered : ordered[k] \in Indices
      BY DEF OrderInv, OrderTypeOK
    <2>2. Popped \subseteq Indices
      BY <2>1 DEF Popped
    <2> QED
      BY <2>2 DEF OrderInv, HeapInv
  <1>2. Indices \subseteq Nat
    BY IndicesAreNumbers DEF OrderInv, OrderTypeOK
  <1>3. Places \subseteq Nat /\ Places # {}
    BY <1>1, <1>2
  <1>4. PICK i \in Left : \A j \in Left : pos[i] <= pos[j]
    <2> HIDE DEF Left
    <2>1. PICK m \in Places : \A n \in Places : m <= n
      <3> HIDE DEF Places
      <3> QED
        BY <1>3, LeastNatural
    <2> QED
      BY <2>1
  <1>5. PICK j \in Dependencies(i) : j \notin Popped
    BY <1>1
  <1>6. j \in Left
    BY <1>5, DependenciesAreIndices
  <1>7. pos[j] < pos[i]
    <2>1. CASE j \in DataDependencies(i)
      BY <2>1 DEF ValidOrder
    <2>2. CASE j \in StateDependencies(i)
      <3>0. PICK s \in States : \E x, y \in Events(s) :
              x[2] = j /\ y[2] = i /\ Sorted(x, y) /\ j # i
        BY <2>2 DEF StateDependencies, Neighbours
      <3>1. PICK x \in Events(s), y \in Events(s) :
              x[2] = j /\ y[2] = i /\ Sorted(x, y) /\ j # i
        BY <3>0
      <3>2. x[1] # y[1]
        BY <3>1 DEF SharedEvent
      <3>3. x[1] < y[1]
        BY <3>1, <3>2 DEF Sorted
      <3> QED
        BY <3>1, <3>3 DEF ValidOrder
    <2> QED
      BY <1>5, <2>1, <2>2 DEF Dependencies
  <1>8. pos[i] \in Nat /\ pos[j] \in Nat /\ pos[i] <= pos[j]
    BY <1>2, <1>4, <1>6
  <1> QED
    BY <1>7, <1>8

-----------------------------------------------------------------------------
(* The chain of accesses of a state *)

\* A nonempty set of accesses has a first one.
LEMMA FirstAccess ==
  ASSUME NEW P \in SUBSET (Nat \X Nat), P # {}
  PROVE  \E z \in P : \A u \in P : ~Sorted(u, z)
  <1> DEFINE Es == {u[1] : u \in P}
  <1>1. Es \subseteq Nat /\ Es # {}
    OBVIOUS
  <1>2. PICK e \in Es : \A f \in Es : e <= f
    <2> HIDE DEF Es
    <2> QED
      BY <1>1, LeastNatural
  <1> DEFINE Is == {u[2] : u \in {v \in P : v[1] = e}}
  <1>3. Is \subseteq Nat /\ Is # {}
    OBVIOUS
  <1>4. PICK i \in Is : \A j \in Is : i <= j
    <2> HIDE DEF Is
    <2> QED
      BY <1>3, LeastNatural
  <1>5. PICK z \in P : z[1] = e /\ z[2] = i
    BY <1>4
  <1>6. ASSUME NEW u \in P, Sorted(u, z) PROVE FALSE
    <2>1. e <= u[1] /\ u[1] \in Nat /\ e \in Nat /\ i \in Nat /\ u[2] \in Nat
      BY <1>1, <1>2, <1>3
    <2>2. u[1] = e /\ u[2] < i
      BY <1>5, <1>6, <2>1 DEF Sorted
    <2>3. i <= u[2]
      BY <1>4, <2>2
    <2> QED
      BY <2>1, <2>2, <2>3
  <1> QED
    BY <1>6

\* A bounded nonempty set of accesses has a last one.
LEMMA LastAccess ==
  ASSUME NEW P \in SUBSET (Nat \X Nat), P # {}, NEW b \in Nat, NEW n \in Nat,
         \A u \in P : u[1] <= b /\ u[2] <= n
  PROVE  \E z \in P : \A u \in P : ~Sorted(z, u)
  <1> DEFINE Es == {u[1] : u \in P}
  <1>1. Es \subseteq Nat /\ Es # {} /\ \A f \in Es : f <= b
    OBVIOUS
  <1>2. PICK e \in Es : \A f \in Es : f <= e
    <2> HIDE DEF Es
    <2> QED
      BY <1>1, GreatestNatural
  <1> DEFINE Is == {u[2] : u \in {v \in P : v[1] = e}}
  <1>3. Is \subseteq Nat /\ Is # {} /\ \A j \in Is : j <= n
    OBVIOUS
  <1>4. PICK i \in Is : \A j \in Is : j <= i
    <2> HIDE DEF Is
    <2> QED
      BY <1>3, GreatestNatural
  <1>5. PICK z \in P : z[1] = e /\ z[2] = i
    BY <1>4
  <1>6. ASSUME NEW u \in P, Sorted(z, u) PROVE FALSE
    <2>1. u[1] <= e /\ u[1] \in Nat /\ e \in Nat /\ i \in Nat /\ u[2] \in Nat
      BY <1>1, <1>2, <1>3
    <2>2. u[1] = e /\ i < u[2]
      BY <1>5, <1>6, <2>1 DEF Sorted
    <2>3. u[2] <= i
      BY <1>4, <2>2
    <2> QED
      BY <2>1, <2>2, <2>3
  <1> QED
    BY <1>6

\* The accesses of a state are pairs of a source event and a record.
LEMMA EventsArePairs ==
  ASSUME OrderTypeOK, NEW s
  PROVE  /\ Events(s) \subseteq Nat \X Indices
         /\ Indices \subseteq Nat
         /\ \A x \in Events(s) : x[2] <= Len(records)
  <1>1. /\ Indices = 1..Len(records) /\ Len(records) \in Nat
        /\ \A i \in Indices : records[i] \in Record
    BY IndicesAreNumbers DEF OrderTypeOK
  <1>2. \A i \in Indices : \A a \in records[i].accesses : a.events \subseteq Nat
    BY <1>1 DEF Record, Access
  <1>3. Events(s) \subseteq Nat \X Indices
    BY <1>2 DEF Events
  <1> QED
    BY <1>1, <1>3

\* In a complete order the records stand in the order of the accesses: each
\* access depends on its neighbour, and neighbours chain all of them.
LEMMA AccessesInOrder ==
  ASSUME OrderInv, verdict = "ordered", NEW s \in States,
         NEW x \in Events(s), NEW y \in Events(s), Sorted(x, y)
  PROVE  Position(x[2]) <= Position(y[2])
  <1> DEFINE Bad == {v \in Events(s) : \E u \in Events(s) :
                       Sorted(u, v) /\ ~(Position(u[2]) <= Position(v[2]))}
  <1>1. /\ Events(s) \subseteq Nat \X Indices /\ Indices \subseteq Nat
        /\ \A u \in Events(s) : u[2] <= Len(records)
        /\ Len(records) \in Nat
    BY EventsArePairs, IndicesAreNumbers DEF OrderInv, OrderTypeOK
  <1>2. \A i \in Indices : \E k \in DOMAIN ordered : ordered[k] = i /\ Position(i) = k /\ k \in Nat
    <2>1. Popped = Indices /\ DOMAIN ordered \subseteq Nat
      BY DEF OrderInv, HeapInv, OrderTypeOK
    <2> QED
      BY <2>1, PositionOfPopped DEF Popped, OrderInv
  <1>3. ASSUME Bad # {} PROVE FALSE
    <2>1. PICK v \in Bad : \A u \in Bad : ~Sorted(u, v)
      <3>1. Bad \in SUBSET (Nat \X Nat)
        BY <1>1
      <3> HIDE DEF Bad
      <3> QED
        BY <1>3, <3>1, FirstAccess
    <2>2. PICK u \in Events(s) : Sorted(u, v) /\ ~(Position(u[2]) <= Position(v[2]))
      BY <2>1
    <2> DEFINE Lower == {z \in Events(s) : Sorted(z, v)}
    <2>3. PICK z \in Lower : \A w \in Lower : ~Sorted(z, w)
      <3>1. Lower \in SUBSET (Nat \X Nat) /\ Lower # {}
        BY <1>1, <2>2
      <3>2. v[1] \in Nat /\ \A w \in Lower : w[1] <= v[1] /\ w[2] <= Len(records)
        BY <1>1 DEF Sorted
      <3> HIDE DEF Lower
      <3> QED
        BY <1>1, <3>1, <3>2, LastAccess
    <2>4. Neighbours(s, z, v)
      BY <2>3 DEF Neighbours
    <2>5. Position(z[2]) <= Position(v[2])
      <3>1. PICK k \in DOMAIN ordered : ordered[k] = v[2] /\ Position(v[2]) = k /\ k \in Nat
        BY <1>1, <1>2
      <3>2. CASE z[2] = v[2]
        BY <3>1, <3>2
      <3>3. CASE z[2] # v[2]
        <4>1. z[2] \in Dependencies(v[2])
          BY <1>1, <2>4, <3>3 DEF Dependencies, StateDependencies
        <4>2. Position(z[2]) < k
          BY <3>1, <4>1, DependenciesStandBefore
        <4>3. Position(z[2]) \in Nat
          BY <1>1, <1>2
        <4> QED
          BY <3>1, <4>2, <4>3
      <3> QED
        BY <3>2, <3>3
    <2>6. u = z \/ Sorted(u, z)
      <3>1. ~Sorted(z, u)
        BY <2>2, <2>3
      <3>2. u \in Nat \X Nat /\ z \in Nat \X Nat
        BY <1>1
      <3> QED
        BY <3>1, <3>2 DEF Sorted
    <2>7. Position(u[2]) <= Position(z[2])
      <3>1. z \notin Bad
        BY <2>1, <2>3
      <3>2. Position(z[2]) \in Nat
        BY <1>1, <1>2
      <3> QED
        BY <2>6, <3>1, <3>2
    <2>8. Position(u[2]) \in Nat /\ Position(z[2]) \in Nat /\ Position(v[2]) \in Nat
      BY <1>1, <1>2
    <2> QED
      BY <2>2, <2>5, <2>7, <2>8
  <1> QED
    BY <1>3

\* Every access meets the version of the source program.
LEMMA OrderInvStateVersionsKept == OrderInv => StateVersionsKept
  <1> SUFFICES ASSUME OrderInv, verdict = "ordered", NEW s \in States,
                      NEW i \in Indices, NEW j \in Indices, i # j,
                      NEW e \in ReadEvents(s, i) \cup WriteEvents(s, i),
                      NEW w \in WriteEvents(s, j)
               PROVE  (Position(j) < Position(i)) <=> (w < e)
    BY DEF StateVersionsKept
  <1>1. PICK a \in records[i].accesses : a.state = s /\ e \in a.events
    BY DEF ReadEvents, WriteEvents
  <1>2. PICK b \in records[j].accesses : b.state = s /\ b.write /\ w \in b.events
    BY DEF WriteEvents
  <1>3. <<e, i>> \in Events(s) /\ <<w, j>> \in Events(s)
    BY <1>1, <1>2 DEF Events
  <1>4. e \in Nat /\ w \in Nat
    BY <1>3, EventsArePairs DEF OrderInv
  <1>5. e # w
    BY <1>1, <1>2, WritesCoveredOnce DEF OrderInv, OrderTypeOK, Indices
  <1>6. Position(i) \in Nat /\ Position(j) \in Nat /\ Position(i) # Position(j)
    <2>1. Popped = Indices /\ DOMAIN ordered \subseteq Nat
      BY DEF OrderInv, HeapInv, OrderTypeOK
    <2>2. PICK k \in DOMAIN ordered, m \in DOMAIN ordered : ordered[k] = i /\ ordered[m] = j
      BY <2>1 DEF Popped
    <2>3. Position(i) = k /\ Position(j) = m
      BY <2>2, PositionOfPopped DEF OrderInv
    <2> QED
      BY <2>1, <2>2, <2>3
  <1>7. w < e => Position(j) <= Position(i)
    <2>1. w < e => Sorted(<<w, j>>, <<e, i>>)
      BY DEF Sorted
    <2>2. Sorted(<<w, j>>, <<e, i>>) => Position(<<w, j>>[2]) <= Position(<<e, i>>[2])
      BY <1>3, AccessesInOrder
    <2> QED
      BY <2>1, <2>2
  <1>8. e < w => Position(i) <= Position(j)
    <2>1. e < w => Sorted(<<e, i>>, <<w, j>>)
      BY DEF Sorted
    <2>2. Sorted(<<e, i>>, <<w, j>>) => Position(<<e, i>>[2]) <= Position(<<w, j>>[2])
      BY <1>3, AccessesInOrder
    <2> QED
      BY <2>1, <2>2
  <1> QED
    BY <1>4, <1>5, <1>6, <1>7, <1>8

-----------------------------------------------------------------------------
(* The theorems *)

\* order_command_placements, for every list of placements: each record is
\* submitted once, after the writers of everything it reads.
THEOREM OrderProducersFirst == OrderSpec => []ProducersFirst
  BY OrderInvariant, OrderInvProducersFirst, PTL

\* For every list of placements and every number of states: an accepted order
\* gives every state access the version of the source program.
THEOREM OrderKeepsStateVersions == OrderSpec => []StateVersionsKept
  BY OrderInvariant, OrderInvStateVersionsKept, PTL

\* For every list of placements without a shared source read: a refusal as
\* cyclic means that no order exists.
THEOREM OrderRefusesRealCycles == OrderSpec => []CycleIsReal
  BY OrderInvariant, OrderInvCycleIsReal, PTL

-----------------------------------------------------------------------------
(***************************************************************************)
(* The planner and its replays.                                            *)
(***************************************************************************)


PlanTypeOK ==
  /\ size \in Sizes(records)
  /\ outputs \in OutputSets(records)
  /\ stage \in {"order", "replan", "refused", "misordered", "allocate", "run"}

\* The passes run one after another.
StageInv ==
  /\ stage \in {"replan", "allocate", "run"} => verdict = "ordered"
  /\ verdict \in {"draining", "ordered"} => records # <<>>
  /\ stage \in {"order", "replan"} => Init
  /\ stage \in {"allocate", "run"} => ~Misordered
  /\ stage # "run" => slot = 0
  /\ stage = "run" => todo = {}

\* Each interval of the plan is still to be served, or was placed once.
HandoverInv ==
  stage \in {"allocate", "run"} =>
    /\ todo \subseteq Pending
    /\ \A p \in placed : \E r \in Pending : p = Place(r, p.offset)
    /\ \A p \in placed, r \in todo : p.id # r.id
    /\ \A p, q \in placed : p.id = q.id => p = q
    /\ \A r \in Pending : r \in todo \/ \E p \in placed : p.id = r.id

\* A value that has been written in this replay and is still to be used keeps
\* all of its bytes.
ReplayInv ==
  stage = "run" =>
    /\ slot \in 0..Len(ordered)
    /\ DOMAIN memory = 0..(arena_end - 1)
    /\ \A v \in Boundary :
         FirstWrite(v) <= slot /\ slot <= LastUse(v) =>
           \A b \in BytesAt(v) : memory[b] = <<v, replay>>

MemoryInv ==
  /\ OrderInv
  /\ ArenaInv
  /\ PlanTypeOK
  /\ StageInv
  /\ HandoverInv
  /\ ReplayInv

-----------------------------------------------------------------------------
(* Facts about the operators of the planner *)

\* Min picks the least element.
LEMMA MinIsLeast ==
  ASSUME NEW S, S \subseteq Nat, S # {}
  PROVE  Min(S) \in S /\ \A n \in S : Min(S) <= n
  <1>1. \E m \in S : \A n \in S : m <= n
    BY LeastNatural
  <1> QED
    BY <1>1 DEF Min

\* Max picks the greatest element of a bounded set.
LEMMA MaxIsGreatest ==
  ASSUME NEW S, S \subseteq Nat, S # {}, NEW b \in Nat, \A n \in S : n <= b
  PROVE  Max(S) \in S /\ \A n \in S : n <= Max(S)
  <1>1. \E m \in S : \A n \in S : n <= m
    BY GreatestNatural
  <1>2. \E m \in S : \A n \in S : m >= n
    BY <1>1
  <1>3. Max(S) \in S /\ \A n \in S : Max(S) >= n
    BY <1>2 DEF Max
  <1> QED
    BY <1>3

\* Everything a finished order says is in terms of positions.
LEMMA PositionsAreNumbers ==
  ASSUME OrderInv
  PROVE  /\ Len(ordered) \in Nat
         /\ DOMAIN ordered = 1..Len(ordered)
         /\ \A k \in DOMAIN ordered : ordered[k] \in Indices
  BY DEF OrderInv, OrderTypeOK

\* A boundary value lives from its first write to its last use, and every
\* command that touches it runs in between.
LEMMA LiveBetween ==
  ASSUME OrderInv, ~Misordered, NEW v \in Boundary
  PROVE  /\ FirstWrite(v) \in DOMAIN ordered /\ LastUse(v) \in DOMAIN ordered
         /\ v \in Command(FirstWrite(v)).writes
         /\ FirstWrite(v) <= LastUse(v)
         /\ \A k \in DOMAIN ordered : v \in Uses(k) => FirstWrite(v) <= k /\ k <= LastUse(v)
  <1> DEFINE Touching == {k \in DOMAIN ordered : v \in Uses(k)}
  <1>1. DOMAIN ordered = 1..Len(ordered) /\ Len(ordered) \in Nat /\ DOMAIN ordered \subseteq Nat
    BY PositionsAreNumbers
  <1>2. WritesOf(v) \subseteq Touching /\ v \in Temporaries /\ Touching # {}
    BY DEF WritesOf, Uses, Boundary
  <1>3. ASSUME NEW k \in Touching PROVE \E j \in WritesOf(v) : j <= k
    <2>1. CASE v \in Command(k).writes
      BY <1>1, <2>1 DEF WritesOf
    <2>2. CASE v \in Command(k).reads
      <3>1. PICK j \in WritesOf(v) : j < k
        BY <1>2, <2>2 DEF Misordered, ReadsBeforeWrite
      <3> QED
        BY <1>1, <3>1 DEF WritesOf
    <2> QED
      BY <2>1, <2>2 DEF Uses
  <1>4. /\ WritesOf(v) # {} /\ WritesOf(v) \subseteq Nat
        /\ Touching \subseteq Nat /\ \A n \in Touching : n <= Len(ordered)
    BY <1>1, <1>2, <1>3
  <1>5. FirstWrite(v) \in WritesOf(v) /\ \A n \in WritesOf(v) : FirstWrite(v) <= n
    BY <1>4, MinIsLeast DEF FirstWrite
  <1>6. LastUse(v) \in Touching /\ \A n \in Touching : n <= LastUse(v)
    <2>1. LastUse(v) = Max(Touching)
      BY DEF LastUse
    <2> HIDE DEF Touching
    <2> QED
      BY <1>1, <1>2, <1>4, <2>1, MaxIsGreatest
  <1>7. ASSUME NEW k \in Touching PROVE FirstWrite(v) <= k /\ k <= LastUse(v)
    <2>1. PICK j \in WritesOf(v) : j <= k
      BY <1>3
    <2> QED
      BY <1>4, <1>5, <1>6, <2>1
  <1> QED
    BY <1>2, <1>5, <1>6, <1>7 DEF WritesOf

\* The values of a plan have sizes and are schedule indices.
LEMMA PlanTypes ==
  ASSUME OrderInv, PlanTypeOK
  PROVE  /\ size \in [Values -> Nat \ {0}]
         /\ Values \subseteq Nat
         /\ Boundary \subseteq Values
  BY MemoryAssumption DEF OrderInv, OrderTypeOK, PlanTypeOK, Boundary, Temporaries

\* What is handed to the allocator is well formed.
LEMMA PendingWellFormed ==
  ASSUME OrderInv, PlanTypeOK, ~Misordered
  PROVE  /\ Pending \subseteq Request
         /\ \A r \in Pending : /\ r.start <= r.end
                               /\ r.id \in Boundary /\ r.start = FirstWrite(r.id)
                               /\ r.end = LastUse(r.id) /\ r.size >= size[r.id]
         /\ \A r, q \in Pending : r.id = q.id => r = q
  <1>1. \A v \in Boundary : /\ FirstWrite(v) \in Nat /\ LastUse(v) \in Nat
                            /\ FirstWrite(v) <= LastUse(v)
    BY LiveBetween, PositionsAreNumbers
  <1>2. \A v \in Boundary : v \in Nat /\ size[v] \in Nat \ {0}
    BY PlanTypes
  <1>3. \A v \in Boundary : Align(size[v]) \in Nat \ {0} /\ Align(size[v]) >= size[v]
    BY <1>2, AlignRoundsUp
  <1> QED
    BY <1>1, <1>2, <1>3 DEF Pending, Request

\* The operators of the planner depend on the order, the sizes and the outputs.
LEMMA PlanDecides ==
  ASSUME UNCHANGED <<records, ordered, size, outputs>>
  PROVE  /\ Misordered' = Misordered /\ Boundary' = Boundary /\ Pending' = Pending
         /\ \A v : FirstWrite(v)' = FirstWrite(v) /\ LastUse(v)' = LastUse(v)
  BY DEF Misordered, ReadsBeforeWrite, WritesAgain, WritesOf, Temporaries, Boundary, Uses,
     Command, FirstWrite, LastUse, Pending

\* A placed value covers one range of bytes inside the arena.
LEMMA PlacedOnce ==
  ASSUME MemoryInv, stage = "run", NEW v \in Boundary
  PROVE  \E p \in placed :
           /\ p \in Placement
           /\ p.id = v /\ p.start = FirstWrite(v) /\ p.end = LastUse(v)
           /\ size[v] \in Nat \ {0} /\ size[v] <= p.size
           /\ p.offset + p.size <= arena_end
           /\ BytesAt(v) = p.offset..(p.offset + size[v] - 1)
  <1> USE DEF MemoryInv
  <1>1. ~Misordered /\ todo = {}
    BY DEF StageInv
  <1>2. \E r \in Pending : r.id = v
    <2> DEFINE r == [start |-> FirstWrite(v), id |-> v, end |-> LastUse(v),
                     size |-> Align(size[v])]
    <2>1. r \in Pending
      BY DEF Pending
    <2>2. r.id = v
      OBVIOUS
    <2> HIDE DEF r
    <2> QED
      BY <2>1, <2>2
  <1>3. PICK p \in placed : p.id = v
    BY <1>1, <1>2 DEF HandoverInv
  <1>4. PICK r \in Pending : p = Place(r, p.offset)
    BY DEF HandoverInv
  <1>5. /\ r \in Request /\ r.start = FirstWrite(r.id) /\ r.end = LastUse(r.id)
        /\ r.size >= size[r.id]
    BY <1>1, PendingWellFormed
  <1>6. p.start = r.start /\ p.id = r.id /\ p.end = r.end /\ p.size = r.size
    BY <1>4 DEF Place
  <1>7. {q \in placed : q.id = v} = {p}
    BY <1>3 DEF HandoverInv
  <1>8. BytesAt(v) = p.offset..(p.offset + size[v] - 1)
    BY <1>7 DEF BytesAt
  <1>9. size[v] \in Nat \ {0} /\ v \in Nat
    BY PlanTypes
  <1>10. p \in Placement /\ p.offset + p.size <= arena_end
    BY DEF ArenaInv, TypeOK, InsideArena
  <1>11. p.size \in Nat /\ size[v] <= p.size
    BY <1>3, <1>5, <1>6, <1>9, <1>10 DEF Placement
  <1> QED
    BY <1>3, <1>5, <1>6, <1>8, <1>9, <1>10, <1>11

\* Two values that live at a common command share no byte.
LEMMA LiveApart ==
  ASSUME MemoryInv, stage = "run", NEW u \in Boundary, NEW v \in Boundary, u # v,
         NEW k \in DOMAIN ordered,
         FirstWrite(u) <= k, k <= LastUse(u), FirstWrite(v) <= k, k <= LastUse(v)
  PROVE  BytesAt(u) \cap BytesAt(v) = {}
  <1>1. PICK p \in placed : /\ p \in Placement /\ p.id = u
                            /\ p.start = FirstWrite(u) /\ p.end = LastUse(u)
                            /\ size[u] \in Nat /\ size[u] <= p.size
                            /\ BytesAt(u) = p.offset..(p.offset + size[u] - 1)
    BY PlacedOnce
  <1>2. PICK q \in placed : /\ q \in Placement /\ q.id = v
                            /\ q.start = FirstWrite(v) /\ q.end = LastUse(v)
                            /\ size[v] \in Nat /\ size[v] <= q.size
                            /\ BytesAt(v) = q.offset..(q.offset + size[v] - 1)
    BY PlacedOnce
  <1>3. k \in Nat
    BY PositionsAreNumbers DEF MemoryInv
  <1>4. p.start <= q.end /\ q.start <= p.end
    BY <1>1, <1>2, <1>3 DEF Placement
  <1>5. ~Overlap(p, q)
    BY <1>1, <1>2, <1>4 DEF MemoryInv, ArenaInv, LiveDisjoint
  <1>6. /\ p.offset \in Nat /\ p.size \in Nat /\ q.offset \in Nat /\ q.size \in Nat
        /\ p.offset + p.size <= q.offset \/ q.offset + q.size <= p.offset
    BY <1>1, <1>2, <1>5 DEF Placement, Overlap
  <1> QED
    BY SMTT(60), <1>1, <1>2, <1>6

-----------------------------------------------------------------------------
(* MemoryInv is inductive *)

\* Nothing is planned yet, and the allocator is idle.
LEMMA InitMemoryInv == MemoryInit => MemoryInv
  <1> SUFFICES ASSUME MemoryInit PROVE MemoryInv
    OBVIOUS
  <1>1. OrderInv /\ ArenaInv
    BY InitOrderInv, InitArenaInv DEF MemoryInit
  <1>2. PlanTypeOK
    BY DEF MemoryInit, PlanTypeOK
  <1>3. StageInv /\ HandoverInv /\ ReplayInv
    BY DEF MemoryInit, OrderInit, StageInv, HandoverInv, ReplayInv
  <1> QED
    BY <1>1, <1>2, <1>3 DEF MemoryInv

\* The allocator is idle while the order is found.
LEMMA OrderCommandsKeepsInv == MemoryInv /\ OrderCommands => MemoryInv'
  <1> SUFFICES ASSUME MemoryInv, OrderCommands PROVE MemoryInv'
    OBVIOUS
  <1>1. /\ stage = "order" /\ OrderNext /\ UNCHANGED <<size, outputs, vars, runVars>>
        /\ stage' \in {"order", "replan", "refused"}
        /\ stage' = "replan" => verdict' = "ordered"
    BY DEF OrderCommands
  <1>2. OrderInv'
    BY <1>1, NextKeepsOrderInv DEF MemoryInv
  <1>3. ArenaInv'
    BY <1>1, NextKeepsInv DEF MemoryInv
  <1>4. records' = records
    BY <1>1 DEF OrderNext, RejectPlacements, BuildDependencies, PopReady, FinishOrder
  <1>5. PlanTypeOK'
    BY <1>1, <1>4 DEF MemoryInv, PlanTypeOK
  <1>6. verdict' \in {"draining", "ordered"} => records' # <<>>
    BY <1>1, <1>4 DEF MemoryInv, StageInv, OrderNext, RejectPlacements, BuildDependencies,
       PopReady, FinishOrder, InvalidPlacements
  <1>7. Init' /\ slot' = 0
    BY <1>1 DEF MemoryInv, StageInv, Init, vars, runVars
  <1>8. StageInv'
    BY <1>1, <1>6, <1>7 DEF StageInv
  <1>9. HandoverInv' /\ ReplayInv'
    BY <1>1 DEF HandoverInv, ReplayInv
  <1> QED
    BY <1>2, <1>3, <1>5, <1>8, <1>9 DEF MemoryInv

\* A refused plan runs nothing.
LEMMA ReplanRefusesKeepsInv == MemoryInv /\ ReplanRefuses => MemoryInv'
  <1> SUFFICES ASSUME MemoryInv, ReplanRefuses PROVE MemoryInv'
    OBVIOUS
  <1>1. /\ stage' \in {"misordered", "refused"} /\ stage = "replan"
        /\ UNCHANGED <<orderVars, size, outputs, vars, runVars>>
    BY DEF ReplanRefuses
  <1>2. OrderInv'
    BY <1>1, NextKeepsOrderInv DEF MemoryInv
  <1>3. ArenaInv'
    BY <1>1, NextKeepsInv DEF MemoryInv
  <1>4. PlanTypeOK' /\ StageInv'
    BY <1>1 DEF MemoryInv, PlanTypeOK, StageInv, orderVars, runVars
  <1>5. HandoverInv' /\ ReplayInv'
    BY <1>1 DEF HandoverInv, ReplayInv
  <1> QED
    BY <1>2, <1>3, <1>4, <1>5 DEF MemoryInv

\* The intervals are the workload of an idle allocator.
LEMMA ReplanKeepsInv == MemoryInv /\ Replan => MemoryInv'
  <1> SUFFICES ASSUME MemoryInv, Replan PROVE MemoryInv'
    OBVIOUS
  <1>1. /\ stage' = "allocate" /\ stage = "replan" /\ todo' = Pending /\ ~Misordered
        /\ UNCHANGED <<orderVars, size, outputs, runVars>>
        /\ UNCHANGED <<active, free, arena_end, peak_live, placed, phase>>
    BY DEF Replan
  <1>2. OrderInv'
    BY <1>1, NextKeepsOrderInv DEF MemoryInv
  <1>3. active = {} /\ free = {} /\ arena_end = 0 /\ placed = {} /\ phase = "retire"
    BY <1>1 DEF MemoryInv, StageInv, Init
  <1>4. Pending \subseteq Request /\ \A r \in Pending : r.start <= r.end
    BY <1>1, PendingWellFormed DEF MemoryInv
  <1>5. ArenaInv'
    <2>1. TypeOK'
      BY <1>1, <1>3, <1>4, MaxBytesAssumption DEF TypeOK, Phases
    <2>2. Ordered' /\ TimeAdvances'
      BY <1>1, <1>3, <1>4 DEF Ordered, TimeAdvances
    <2>3. BlocksDisjoint' /\ InsideArena' /\ LiveDisjoint' /\ NoAssertion'
      BY <1>1, <1>3 DEF BlocksDisjoint, InsideArena, LiveDisjoint, NoAssertion
    <2> QED
      BY <2>1, <2>2, <2>3 DEF ArenaInv
  <1>6. UNCHANGED <<records, ordered, verdict, slot>>
    BY <1>1 DEF orderVars, runVars
  <1>7. PlanTypeOK' /\ StageInv'
    BY <1>1, <1>6, PlanDecides DEF MemoryInv, PlanTypeOK, StageInv
  <1>8. HandoverInv'
    BY <1>1, <1>3, <1>6, PlanDecides DEF HandoverInv
  <1>9. ReplayInv'
    BY <1>1 DEF ReplayInv
  <1> QED
    BY <1>2, <1>5, <1>7, <1>8, <1>9 DEF MemoryInv

\* The allocator serves each interval once.
LEMMA AllocateKeepsInv == MemoryInv /\ Allocate => MemoryInv'
  <1> SUFFICES ASSUME MemoryInv, Allocate PROVE MemoryInv'
    OBVIOUS
  <1>1. /\ stage' = "allocate" /\ stage = "allocate" /\ Next
        /\ UNCHANGED <<orderVars, size, outputs, runVars>>
    BY DEF Allocate, Next
  <1>2. OrderInv'
    BY <1>1, NextKeepsOrderInv DEF MemoryInv
  <1>3. ArenaInv'
    BY <1>1, NextKeepsInv DEF MemoryInv
  <1>4. UNCHANGED <<records, ordered, verdict, slot>>
    BY <1>1 DEF orderVars, runVars
  <1>5. PlanTypeOK' /\ StageInv'
    BY <1>1, <1>4, PlanDecides DEF MemoryInv, PlanTypeOK, StageInv
  <1>6. HandoverInv'
    <2>1. CASE UNCHANGED <<todo, placed>>
      BY <1>1, <1>4, <2>1, PlanDecides DEF MemoryInv, HandoverInv
    <2>2. CASE \E r \in todo, o \in Nat : Commit(r, o)
      <3>1. PICK r \in todo, o \in Nat : todo' = todo \ {r} /\ placed' = placed \cup {Place(r, o)}
        BY <2>2 DEF Commit
      <3>2. /\ todo \subseteq Pending
            /\ \A p \in placed : \E q \in Pending : p = Place(q, p.offset)
            /\ \A p \in placed, q \in todo : p.id # q.id
            /\ \A p, q \in placed : p.id = q.id => p = q
            /\ \A q \in Pending : q \in todo \/ \E p \in placed : p.id = q.id
        BY <1>1 DEF MemoryInv, HandoverInv
      <3>3. Place(r, o).id = r.id /\ Place(r, o).offset = o
        BY DEF Place
      <3>4. \A q, t \in Pending : q.id = t.id => q = t
        BY <1>1, PendingWellFormed DEF MemoryInv, StageInv
      <3>5. \A p \in placed' : \E q \in Pending : p = Place(q, p.offset)
        BY <3>1, <3>2, <3>3
      <3>6. \A p \in placed', q \in todo' : p.id # q.id
        BY <3>1, <3>2, <3>3, <3>4
      <3>7. \A p, q \in placed' : p.id = q.id => p = q
        BY <3>1, <3>2, <3>3
      <3>8. \A q \in Pending : q \in todo' \/ \E p \in placed' : p.id = q.id
        BY <3>1, <3>2, <3>3
      <3> QED
        BY <1>1, <1>4, <3>1, <3>2, <3>5, <3>6, <3>7, <3>8, PlanDecides DEF HandoverInv
    <2>3. CASE RetireExpired \/ MergeFree \/ RejectOverflow
      BY <2>1, <2>3 DEF RetireExpired, MergeFree, RejectOverflow
    <2>4. CASE PlaceInFreeBlock
      <3>1. PICK r \in todo : \E b \in Fitting(r) : Commit(r, b.offset)
        BY <2>4 DEF PlaceInFreeBlock
      <3>2. \A b \in Fitting(r) : b.offset \in Nat
        BY DEF Fitting, MemoryInv, ArenaInv, TypeOK, Block
      <3> QED
        BY <2>2, <3>1, <3>2
    <2>5. CASE PlaceAtEnd
      <3>1. PICK r \in todo : Commit(r, Align(arena_end))
        BY <2>5 DEF PlaceAtEnd
      <3>2. Align(arena_end) \in Nat
        BY AlignRoundsUp, MaxBytesAssumption DEF MemoryInv, ArenaInv, TypeOK
      <3> QED
        BY <2>2, <3>1, <3>2
    <2> QED
      BY <2>3, <2>4, <2>5 DEF Allocate
  <1>7. ReplayInv'
    BY <1>1 DEF ReplayInv
  <1> QED
    BY <1>2, <1>3, <1>5, <1>6, <1>7 DEF MemoryInv

\* Before the first command no value is live.
LEMMA CreateArenaKeepsInv == MemoryInv /\ CreateArena => MemoryInv'
  <1> SUFFICES ASSUME MemoryInv, CreateArena PROVE MemoryInv'
    OBVIOUS
  <1>1. /\ stage' = "run" /\ stage = "allocate" /\ todo = {} /\ slot = 0
        /\ memory' = [b \in 0..(arena_end - 1) |-> <<>>]
        /\ UNCHANGED <<orderVars, size, outputs, vars, slot>>
    BY DEF CreateArena, MemoryInv, StageInv
  <1>2. OrderInv'
    BY <1>1, NextKeepsOrderInv DEF MemoryInv
  <1>3. ArenaInv'
    BY <1>1, NextKeepsInv DEF MemoryInv
  <1>4. UNCHANGED <<records, ordered, verdict, todo, placed, arena_end>>
    BY <1>1 DEF orderVars, vars
  <1>5. PlanTypeOK' /\ StageInv' /\ HandoverInv'
    BY <1>1, <1>4, PlanDecides DEF MemoryInv, PlanTypeOK, StageInv, HandoverInv
  <1>6. ReplayInv'
    <2>1. ASSUME NEW v \in Boundary PROVE ~(FirstWrite(v) <= 0)
      BY <1>1, LiveBetween, PositionsAreNumbers DEF MemoryInv, StageInv
    <2>2. slot' \in 0..Len(ordered)'
      BY <1>1, <1>4, PositionsAreNumbers DEF MemoryInv
    <2> QED
      BY <1>1, <1>4, <2>1, <2>2, PlanDecides DEF ReplayInv
  <1> QED
    BY <1>2, <1>3, <1>5, <1>6 DEF MemoryInv

\* A command overwrites no live value but those it writes.
LEMMA RunKeepsInv == MemoryInv /\ RunCommand => MemoryInv'
  <1> SUFFICES ASSUME MemoryInv, RunCommand PROVE MemoryInv'
    OBVIOUS
  <1>1. /\ stage' = "run" /\ stage = "run"
        /\ UNCHANGED <<orderVars, size, outputs, vars>>
    BY DEF RunCommand
  <1>2. OrderInv'
    BY <1>1, NextKeepsOrderInv DEF MemoryInv
  <1>3. ArenaInv'
    BY <1>1, NextKeepsInv DEF MemoryInv
  <1>4. UNCHANGED <<records, ordered, verdict, todo, placed, arena_end>>
    BY <1>1 DEF orderVars, vars
  <1>5. PlanTypeOK' /\ StageInv' /\ HandoverInv'
    BY <1>1, <1>4, PlanDecides DEF MemoryInv, PlanTypeOK, StageInv, HandoverInv
  <1>6. ReplayInv'
    <2>1. /\ ~Misordered /\ slot \in 0..Len(ordered) /\ DOMAIN memory = 0..(arena_end - 1)
          /\ Len(ordered) \in Nat /\ DOMAIN ordered = 1..Len(ordered)
      BY <1>1, PositionsAreNumbers DEF MemoryInv, StageInv, ReplayInv
    <2>2. Len(ordered) > 0
      <3>1. 1 \in Indices
        BY <1>1, IndicesAreNumbers DEF MemoryInv, StageInv, OrderInv, OrderTypeOK
      <3>2. Popped = Indices
        BY <1>1 DEF MemoryInv, StageInv, OrderInv, HeapInv
      <3> QED
        BY <2>1, <3>1, <3>2 DEF Popped
    <2>3. \/ slot < Len(ordered) /\ slot' = slot + 1 /\ replay' = replay
          \/ slot' = 1
      BY DEF RunCommand
    <2>4. slot' \in DOMAIN ordered
      BY <2>1, <2>2, <2>3
    <2>5. memory' = [b \in DOMAIN memory |->
            IF \E v \in Command(slot').writes : b \in BytesAt(v)
              THEN <<CHOOSE v \in Command(slot').writes : b \in BytesAt(v), replay'>>
              ELSE memory[b]]
      BY DEF RunCommand
    <2>6. ASSUME NEW v \in Boundary, FirstWrite(v) <= slot', slot' <= LastUse(v),
                 NEW b \in BytesAt(v)
          PROVE  memory'[b] = <<v, replay'>>
      <3>1. b \in DOMAIN memory
        <4>1. PICK p \in placed : /\ p \in Placement /\ size[v] \in Nat /\ size[v] <= p.size
                                  /\ p.offset + p.size <= arena_end
                                  /\ BytesAt(v) = p.offset..(p.offset + size[v] - 1)
          BY <1>1, PlacedOnce
        <4>2. p.offset \in Nat /\ p.size \in Nat /\ arena_end \in Nat
          BY <4>1, MaxBytesAssumption DEF Placement, MemoryInv, ArenaInv, TypeOK
        <4> QED
          BY <2>1, <4>1, <4>2
      <3>2. ASSUME NEW u \in Command(slot').writes, b \in BytesAt(u) PROVE u = v
        <4>1. u \in Boundary
          <5>1. PICK p \in placed : p.id = u
            BY <3>2 DEF BytesAt
          <5>2. PICK r \in Pending : p = Place(r, p.offset)
            BY <1>1 DEF MemoryInv, HandoverInv
          <5> QED
            BY <5>1, <5>2 DEF Pending, Place
        <4>2. FirstWrite(u) <= slot' /\ slot' <= LastUse(u)
          BY <2>1, <2>4, <4>1, LiveBetween DEF Uses, MemoryInv
        <4> QED
          BY <1>1, <2>4, <2>6, <3>2, <4>1, <4>2, LiveApart
      <3>3. CASE v \in Command(slot').writes
        <4>1. \E u \in Command(slot').writes : b \in BytesAt(u)
          BY <2>6, <3>3
        <4>2. (CHOOSE u \in Command(slot').writes : b \in BytesAt(u)) = v
          BY <3>2, <4>1
        <4> QED
          BY <2>5, <3>1, <4>1, <4>2
      <3>4. CASE v \notin Command(slot').writes
        <4>1. memory'[b] = memory[b]
          BY <2>5, <3>1, <3>2, <3>4
        <4>2. /\ FirstWrite(v) \in 1..Len(ordered) /\ LastUse(v) \in 1..Len(ordered)
              /\ FirstWrite(v) # slot'
          BY <2>1, <3>4, LiveBetween DEF MemoryInv
        <4>3. slot' = slot + 1 /\ replay' = replay /\ FirstWrite(v) <= slot /\ slot <= LastUse(v)
          BY <2>1, <2>3, <2>6, <4>2
        <4>4. memory[b] = <<v, replay>>
          BY <1>1, <2>6, <4>3 DEF MemoryInv, ReplayInv
        <4> QED
          BY <4>1, <4>3, <4>4
      <3> QED
        BY <3>3, <3>4
    <2>7. /\ Len(ordered)' = Len(ordered) /\ arena_end' = arena_end
          /\ \A v : BytesAt(v)' = BytesAt(v)
      BY <1>1, <1>4 DEF BytesAt
    <2>8. slot' \in 0..Len(ordered)' /\ DOMAIN memory' = 0..(arena_end' - 1)
      BY <2>1, <2>4, <2>5, <2>7
    <2>9. \A v \in Boundary' : FirstWrite(v)' <= slot' /\ slot' <= LastUse(v)' =>
            \A b \in BytesAt(v)' : memory'[b] = <<v, replay'>>
      BY <1>1, <1>4, <2>6, <2>7, PlanDecides
    <2> QED
      BY <1>1, <2>8, <2>9 DEF ReplayInv
  <1> QED
    BY <1>2, <1>3, <1>5, <1>6 DEF MemoryInv

\* Every step of planning and of replay keeps the invariant.
LEMMA NextKeepsMemoryInv == MemoryInv /\ [MemoryNext]_memoryVars => MemoryInv'
  <1> SUFFICES ASSUME MemoryInv, [MemoryNext]_memoryVars PROVE MemoryInv'
    OBVIOUS
  <1>1. CASE UNCHANGED memoryVars
    <2>1. /\ UNCHANGED <<orderVars, vars, size, outputs, stage, slot, replay, memory>>
          /\ UNCHANGED <<records, ordered, verdict, todo, placed, arena_end>>
      BY <1>1 DEF memoryVars, orderVars, vars, runVars
    <2>2. OrderInv' /\ ArenaInv'
      BY <2>1, NextKeepsOrderInv, NextKeepsInv DEF MemoryInv
    <2>3. PlanTypeOK' /\ HandoverInv'
      BY <2>1, PlanDecides DEF MemoryInv, PlanTypeOK, HandoverInv
    <2>4. StageInv'
      BY <2>1, PlanDecides DEF MemoryInv, StageInv, Init, vars
    <2>5. \A v : BytesAt(v)' = BytesAt(v)
      BY <2>1 DEF BytesAt
    <2>6. ReplayInv'
      BY <2>1, <2>5, PlanDecides DEF MemoryInv, ReplayInv
    <2> QED
      BY <2>2, <2>3, <2>4, <2>6 DEF MemoryInv
  <1> QED
    BY <1>1, OrderCommandsKeepsInv, ReplanRefusesKeepsInv, ReplanKeepsInv, AllocateKeepsInv,
       CreateArenaKeepsInv, RunKeepsInv DEF MemoryNext

-----------------------------------------------------------------------------
(* The theorems *)

\* Ordering, planning and every replay keep MemoryInv.
THEOREM MemoryInvariant == MemorySpec => []MemoryInv
  <1>1. MemoryInit => MemoryInv
    BY InitMemoryInv
  <1>2. MemoryInv /\ [MemoryNext]_memoryVars => MemoryInv'
    BY NextKeepsMemoryInv
  <1> QED
    BY <1>1, <1>2, PTL DEF MemorySpec

\* replan_memory_for_commands and the replays after it, for every list of
\* placements: a command reads what its producer wrote in this replay, and its
\* outputs are whole.
THEOREM ReplaysReadFreshOperands == MemorySpec => []OperandsIntact
  <1>1. MemoryInv => OperandsIntact
    <2> SUFFICES ASSUME MemoryInv, stage = "run", slot > 0,
                        NEW v \in (Uses(slot) \cap Temporaries) \ outputs
                 PROVE  /\ Cardinality(BytesAt(v)) = size[v]
                        /\ \A b \in BytesAt(v) : b \in DOMAIN memory /\ memory[b] = <<v, replay>>
      BY DEF OperandsIntact
    <2>1. slot \in DOMAIN ordered /\ ~Misordered
      BY PositionsAreNumbers DEF MemoryInv, ReplayInv, StageInv
    <2>2. v \in Boundary
      BY <2>1 DEF Boundary
    <2>3. FirstWrite(v) <= slot /\ slot <= LastUse(v)
      BY <2>1, <2>2, LiveBetween DEF MemoryInv
    <2>4. PICK p \in placed : /\ p \in Placement /\ size[v] \in Nat \ {0} /\ size[v] <= p.size
                              /\ p.offset + p.size <= arena_end
                              /\ BytesAt(v) = p.offset..(p.offset + size[v] - 1)
      BY <2>2, PlacedOnce
    <2>5. p.offset \in Nat /\ p.size \in Nat /\ arena_end \in Nat
      BY <2>4, MaxBytesAssumption DEF Placement, MemoryInv, ArenaInv, TypeOK
    <2>6. Cardinality(BytesAt(v)) = size[v]
      <3> DEFINE first == p.offset
                 last == p.offset + size[v] - 1
      <3>1. first \in Int /\ last \in Int /\ first <= last /\ last - first + 1 = size[v]
        BY <2>4, <2>5
      <3>2. BytesAt(v) = first..last
        BY <2>4
      <3> HIDE DEF first, last
      <3>3. Cardinality(first..last) = IF first > last THEN 0 ELSE last - first + 1
        BY <3>1, FS_Interval
      <3> QED
        BY <3>1, <3>2, <3>3
    <2>7. \A b \in BytesAt(v) : b \in DOMAIN memory
      <3>1. DOMAIN memory = 0..arena_end - 1
        BY DEF MemoryInv, ReplayInv
      <3>2. \A b \in p.offset..(p.offset + size[v] - 1) : b \in 0..arena_end - 1
        BY <2>4, <2>5
      <3> QED
        BY <2>4, <3>1, <3>2
    <2>8. \A b \in BytesAt(v) : memory[b] = <<v, replay>>
      BY <2>2, <2>3 DEF MemoryInv, ReplayInv
    <2> QED
      BY <2>6, <2>7, <2>8
  <1> QED
    BY <1>1, MemoryInvariant, PTL

\* The order and its guarantees survive inside the whole planner.
THEOREM PlannedOrderIsSound ==
  MemorySpec => [](ProducersFirst /\ StateVersionsKept /\ CycleIsReal)
  <1>1. MemoryInv => ProducersFirst /\ StateVersionsKept /\ CycleIsReal
    BY OrderInvProducersFirst, OrderInvStateVersionsKept, OrderInvCycleIsReal DEF MemoryInv
  <1> QED
    BY <1>1, MemoryInvariant, PTL

\* What the planner hands to the allocator is what the allocator relies on, so
\* the allocator's own guarantees hold inside the planner.
THEOREM HandoverIsSound == MemorySpec => [](HandoverSound /\ LiveDisjoint /\ NoAssertion)
  <1>1. MemoryInv => HandoverSound
    <2> SUFFICES ASSUME MemoryInv, stage = "allocate"
                 PROVE  /\ todo \subseteq Request
                        /\ \A r \in todo : r.start <= r.end /\ r.size % Alignment = 0
                        /\ \A r, q \in todo : r.id = q.id => r = q
      BY DEF HandoverSound
    <2>1. todo \subseteq Pending
      BY DEF MemoryInv, HandoverInv
    <2>2. /\ Pending \subseteq Request /\ \A r \in Pending : r.start <= r.end
          /\ \A r, q \in Pending : r.id = q.id => r = q
      BY PendingWellFormed DEF MemoryInv, StageInv
    <2>3. \A v \in Boundary : size[v] \in Nat
      BY PlanTypes DEF MemoryInv
    <2>4. \A r \in Pending : r.size % Alignment = 0
      BY <2>3, AlignIsAligned DEF Pending
    <2> QED
      BY <2>1, <2>2, <2>4
  <1>2. MemoryInv => LiveDisjoint /\ NoAssertion
    BY DEF MemoryInv, ArenaInv
  <1> QED
    BY <1>1, <1>2, MemoryInvariant, PTL
=============================================================================
