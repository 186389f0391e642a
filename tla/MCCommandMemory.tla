-------------------------- MODULE MCCommandMemory --------------------------
(* Two families of placements.  Three commands and one state, listed in the
   order of their anchors or against it, with the placements the pass must
   refuse; and four commands over five temporaries, the first with two outputs,
   each of the others reading any temporaries of the commands before it, in
   the order of the dataflow, against it or mixed. *)
EXTENDS CommandMemory

\* 0 is a constant, 6 has no storage, the others are temporaries.
MCValues == 0..6

MCStates == {"kv"}

MCAccess(events, write) == [state |-> "kv", events |-> events, write |-> write]

\* No state, a source read at 1 or 3, the record's own source write at 2i, or
\* both, fused into one command.
MCAccesses(i) ==
  {{}, {MCAccess({1}, FALSE)}, {MCAccess({3}, FALSE)}, {MCAccess({2 * i}, TRUE)},
   {MCAccess({1}, FALSE), MCAccess({2 * i}, TRUE)}}

\* Record i writes temporary i and reads any of the others.
MCRecords(i, anchor) ==
  {[anchor |-> anchor, reads |-> r, writes |-> {i}, accesses |-> a] :
     r \in SUBSET ((1..3) \ {i}), a \in MCAccesses(i)}

\* A first record with an input, a self-read, or a mistake: storage it must not
\* touch, another record's output, an operand without a source operation, or
\* the anchor of its neighbour.
MCOddRecords ==
  {[anchor |-> 1, reads |-> r, writes |-> w, accesses |-> {}] :
     r \in {{}, {0}, {1}, {6}}, w \in {{0}, {1}, {2}, {6}}}
  \cup {[anchor |-> 1, reads |-> {}, writes |-> {1}, accesses |-> {MCAccess({}, FALSE)}],
        [anchor |-> 2, reads |-> {}, writes |-> {1}, accesses |-> {}]}

MCPlain(i) == [anchor |-> i, reads |-> {1}, writes |-> {i}, accesses |-> {}]

MCWrites(i) == IF i = 1 THEN {1, 5} ELSE {i}

MCReads(i) == CASE i = 1 -> {{0}} [] i = 2 -> SUBSET {1, 5}
                [] i = 3 -> SUBSET {1, 2} [] i = 4 -> SUBSET {2, 3, 5}

MCRecord(i, anchor, reads) ==
  [anchor |-> anchor, reads |-> reads, writes |-> MCWrites(i), accesses |-> {}]

\* Where command i stands in the list, and its anchor.
MCLists == {<<1, 2, 3, 4>>, <<4, 3, 2, 1>>, <<3, 1, 4, 2>>}

MCDataflows ==
  {<<a, b, c, d>> : a \in MCReads(1), b \in MCReads(2), c \in MCReads(3), d \in MCReads(4)}

MCFlowPlacements ==
  {[k \in 1..4 |-> MCRecord(f[k], k, g[f[k]])] : f \in MCLists, g \in MCDataflows}

\* Also no command at all, and a model whose last output nobody produces.
MCPlacements ==
  {<<x, y, z>> : x \in MCRecords(1, 1), y \in MCRecords(2, 2), z \in MCRecords(3, 3)}
  \cup {<<x, y, z>> : x \in MCRecords(1, 3), y \in MCRecords(2, 2), z \in MCRecords(3, 1)}
  \cup {<<x, MCPlain(2), MCPlain(3)>> : x \in MCOddRecords}
  \cup MCFlowPlacements
  \cup {<<>>, <<MCRecord(1, 1, {0}), MCRecord(2, 2, {1, 5})>>}

\* The sizes and outputs matter where the dataflow is rich.
MCSizes(placements) ==
  LET big == IF placements \in MCFlowPlacements THEN SUBSET {1, 2, 3} ELSE {{1}}
  IN {[v \in MCValues |-> IF v \in b THEN 3 ELSE 2] : b \in big}

MCOutputSets(placements) ==
  IF placements \in MCFlowPlacements THEN {{4}, {3, 4}}
  ELSE IF Len(placements) = 3 THEN {{3}} ELSE {{4}}
=============================================================================
