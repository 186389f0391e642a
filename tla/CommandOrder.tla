---------------------------- MODULE CommandOrder ----------------------------
(***************************************************************************)
(* order_command_placements of src/aginfer/lowering/assemble.py: the order *)
(* in which the fused provider commands of a model are submitted.          *)
(*                                                                         *)
(* A placement reads and writes boundary values and accesses mutable       *)
(* states.  A command depends on the writers of what it reads, and the     *)
(* accesses of a state are chained in source order.  A heap keyed by the   *)
(* source anchor then drains the commands that have no open dependency.    *)
(***************************************************************************)
EXTENDS Naturals, Sequences, FiniteSets, Functions

CONSTANTS
  Values,      \* root values named by operands
  Immutable,   \* constants and entry inputs
  Unused,      \* values without storage in the memory plan
  States,      \* mutable states of the schedule
  Placements   \* the placement lists the lowering passes may hand over

\* events are the source state_read, state_write or state_update executions an
\* operand stands for; write says which of the two kinds.
Access == [state : States, events : SUBSET Nat, write : BOOLEAN]

Record == [anchor : Nat, reads : SUBSET Values, writes : SUBSET Values,
           accesses : SUBSET Access]

ASSUME CommandOrderAssumption ==
  /\ Immutable \subseteq Values /\ Unused \subseteq Values
  /\ Placements \subseteq Seq(Record)

\* A source write of a state belongs to one command: operations are assigned to
\* one placement each.  Source reads may be shared (a command that fuses a copy
\* of a state_read).
ASSUME WritesCoveredOnce ==
  \A p \in Placements : \A i, j \in DOMAIN p : i # j =>
    \A a \in p[i].accesses, b \in p[j].accesses :
      a.state = b.state /\ b.write => a.events \cap b.events = {}

VARIABLES
  records,   \* the placements, in the order the passes produced them
  deps,      \* open dependencies of each record
  ready,     \* the heap: records without open dependencies, not yet popped
  ordered,   \* result: record indices in submission order
  verdict    \* "pending", "draining", "ordered", "invalid" or "cycle"

orderVars == <<records, deps, ready, ordered, verdict>>

Indices == DOMAIN records

-----------------------------------------------------------------------------
(* Validation and dependencies *)

DuplicateAnchors ==
  \E i, j \in Indices : i # j /\ records[i].anchor = records[j].anchor

\* A state operand none of whose source operations the command covers.
AccessWithoutReceipt ==
  \E i \in Indices : \E a \in records[i].accesses : a.events = {}

TouchesUnused ==
  \E i \in Indices : (records[i].reads \cup records[i].writes) \cap Unused # {}

WritesImmutable == \E i \in Indices : records[i].writes \cap Immutable # {}

TwoWriters ==
  \E i, j \in Indices : i # j /\ records[i].writes \cap records[j].writes # {}

Produced == UNION {records[i].writes : i \in Indices}

ReadsUnproduced ==
  \E i \in Indices : ~(records[i].reads \ Immutable \subseteq Produced)

InvalidPlacements ==
  \/ records = <<>>
  \/ DuplicateAnchors
  \/ AccessWithoutReceipt
  \/ TouchesUnused
  \/ WritesImmutable
  \/ TwoWriters
  \/ ReadsUnproduced

\* The (event, record index) pairs of one state.
Events(s) ==
  {x \in (UNION {UNION {a.events : a \in records[i].accesses} : i \in Indices}) \X Indices :
     \E a \in records[x[2]].accesses : a.state = s /\ x[1] \in a.events}

\* Fault: accesses are sorted by the list of placements, not by the source.
SortedByRecord(x, y) == x[2] < y[2]

\* The order of sorted(): by event, then by record index.
Sorted(x, y) == x[1] < y[1] \/ (x[1] = y[1] /\ x[2] < y[2])

\* Neighbours in the sorted list of accesses of a state.
Neighbours(s, x, y) ==
  /\ Sorted(x, y)
  /\ ~\E z \in Events(s) : Sorted(x, z) /\ Sorted(z, y)

DataDependencies(i) ==
  {j \in Indices : records[j].writes \cap records[i].reads # {}}

\* Fault: two accesses of a state by one command make it depend on itself.
StateDependenciesWithSelf(i) ==
  {j \in Indices :
     \E s \in States : \E x, y \in Events(s) :
       x[2] = j /\ y[2] = i /\ Neighbours(s, x, y)}

StateDependencies(i) ==
  {j \in Indices \ {i} :
     \E s \in States : \E x, y \in Events(s) :
       x[2] = j /\ y[2] = i /\ Neighbours(s, x, y)}

Dependencies(i) == DataDependencies(i) \cup StateDependencies(i)

-----------------------------------------------------------------------------
(* The pass *)

OrderInit ==
  /\ records \in Placements
  /\ deps = <<>>
  /\ ready = {}
  /\ ordered = <<>>
  /\ verdict = "pending"

RejectPlacements ==
  /\ verdict = "pending"
  /\ InvalidPlacements
  /\ verdict' = "invalid"
  /\ UNCHANGED <<records, deps, ready, ordered>>

ReadyAtFirst == {i \in Indices : Dependencies(i) = {}}

BuildDependencies ==
  /\ verdict = "pending"
  /\ ~InvalidPlacements
  /\ deps' = [i \in Indices |-> Dependencies(i)]
  /\ ready' = ReadyAtFirst
  /\ verdict' = "draining"
  /\ UNCHANGED <<records, ordered>>

\* Fault: a user becomes ready with its first producer.
ReleasedEarly(i) == {j \in Indices : i \in deps[j]}

\* Users whose last open dependency is i.
Released(i) == {j \in Indices : i \in deps[j] /\ deps[j] = {i}}

\* heappop, then release the users of the popped record.
PopReady ==
  /\ verdict = "draining"
  /\ \E i \in ready :
       /\ \A j \in ready : records[i].anchor <= records[j].anchor
       /\ ordered' = Append(ordered, i)
       /\ deps' = [j \in Indices |-> deps[j] \ {i}]
       /\ ready' = (ready \ {i}) \cup Released(i)
  /\ UNCHANGED <<records, verdict>>

\* The heap is empty: a complete order, or what is left is a cycle.
FinishOrder ==
  /\ verdict = "draining"
  /\ ready = {}
  /\ verdict' = IF Len(ordered) = Len(records) THEN "ordered" ELSE "cycle"
  /\ UNCHANGED <<records, deps, ready, ordered>>

OrderNext ==
  \/ RejectPlacements
  \/ BuildDependencies
  \/ PopReady
  \/ FinishOrder

OrderSpec == OrderInit /\ [][OrderNext]_orderVars

-----------------------------------------------------------------------------
(* Properties *)

\* Where a record runs; records that have not been popped run after the rest.
Position(i) ==
  IF \E k \in DOMAIN ordered : ordered[k] = i
    THEN CHOOSE k \in DOMAIN ordered : ordered[k] = i
    ELSE Len(records) + 1

\* Every record is submitted exactly once and after the writer of everything it
\* reads, also across fusions that move a command before its source anchor.
ProducersFirst ==
  /\ \A k, m \in DOMAIN ordered : k # m => ordered[k] # ordered[m]
  /\ \A k \in DOMAIN ordered : \A i \in DataDependencies(ordered[k]) : Position(i) < k
  /\ verdict = "ordered" => Range(ordered) = Indices

WriteEvents(s, i) ==
  UNION {a.events : a \in {b \in records[i].accesses : b.state = s /\ b.write}}

ReadEvents(s, i) ==
  UNION {a.events : a \in {b \in records[i].accesses : b.state = s /\ ~b.write}}

\* Every access of a mutable state meets the version the source program gave
\* it: the writes of other commands submitted before it are exactly those of
\* earlier source operations.
StateVersionsKept ==
  verdict = "ordered" =>
    \A s \in States : \A i, j \in Indices : i # j =>
      \A e \in ReadEvents(s, i) \cup WriteEvents(s, i) : \A w \in WriteEvents(s, j) :
        (Position(j) < Position(i)) <=> (w < e)

\* An order that keeps data dependencies and the source order of state accesses.
ValidOrder(pos) ==
  /\ \A i \in Indices : \A j \in DataDependencies(i) : pos[j] < pos[i]
  /\ \A s \in States : \A x, y \in Events(s) :
       x[1] < y[1] /\ x[2] # y[2] => pos[x[2]] < pos[y[2]]

OrderExists ==
  \E pos \in {f \in [Indices -> Indices] : IsInjective(f)} : ValidOrder(pos)

\* Two records stand for the same source read of a state.
SharedEvent ==
  \E s \in States : \E x, y \in Events(s) : x[1] = y[1] /\ x[2] # y[2]

\* A model is refused as cyclic only if no order would do, as long as no two
\* commands read a state through the same source read.
CycleIsReal ==
  verdict = "cycle" /\ ~SharedEvent => ~OrderExists

\* order_command_placements, docstring: "Mutable state accesses additionally
\* retain source read/write order; an interleaved fusion that cannot preserve
\* that order is rejected as a cycle."
RejectedOnlyIfImpossible ==
  verdict = "cycle" => ~OrderExists
=============================================================================
