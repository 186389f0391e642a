-------------------------- MODULE PlanPackageProofs --------------------------
(***************************************************************************)
(* Theorems about execution plans: what ParseExecutablePlan accepts is     *)
(* sound, whatever bytes it was given, and is what the compiler's own      *)
(* reader accepts.                                                         *)
(***************************************************************************)
EXTENDS PlanPackage, FiniteSetTheorems, SequenceTheorems, TLAPS

-----------------------------------------------------------------------------
(* Recursive functions and folds.  Each exists because a least argument at   *)
(* which it could not be defined has a predecessor at which it is.           *)

\* Every nonempty set of naturals has a least element.
LEMMA LeastNumber ==
  ASSUME NEW S, S \subseteq Nat, S # {}
  PROVE  \E m \in S : \A n \in S : m <= n
  <1> DEFINE Segment(n) == 0..(n - 1)
             T == {Segment(n) : n \in S}
             R == StrictSubsetOrdering(Nat)
  <1>1. \A n \in Nat : Segment(n) \in SUBSET Nat /\ IsFiniteSet(Segment(n))
    BY FS_Interval
  <1>2. T \subseteq FiniteSubsetsOf(Nat) /\ T # {}
    BY <1>1 DEF FiniteSubsetsOf
  <1>3. PICK t \in T : \A u \in T : ~(<<u, t>> \in R)
    <2>1. IsWellFoundedOn(R, FiniteSubsetsOf(Nat))
      BY FS_StrictSubsetOrderingWellFounded
    <2> HIDE DEF R, T
    <2> QED BY <1>2, <2>1, WFMin
  <1>4. PICK m \in S : t = Segment(m)
    BY <1>3
  <1>5. ASSUME NEW n \in S, n < m PROVE FALSE
    <2>1. Segment(n) \subseteq Segment(m) /\ Segment(n) # Segment(m)
      BY <1>5
    <2>2. <<Segment(n), Segment(m)>> \in R
      BY <1>1, <2>1 DEF StrictSubsetOrdering
    <2> QED BY <1>3, <1>4, <2>2
  <1> QED BY <1>5

\* Induction up to n, over a set of numbers.
LEMMA UpTo ==
  ASSUME NEW n \in Nat, NEW S, 0 \in S, \A d \in 1..n : d - 1 \in S => d \in S
  PROVE  \A d \in 0..n : d \in S
  <1> DEFINE bad == (0..n) \ S
  <1>1. CASE bad # {}
    <2>1. bad \subseteq Nat
      OBVIOUS
    <2>2. PICK m \in bad : \A k \in bad : m <= k
      <3> HIDE DEF bad
      <3> QED BY <1>1, <2>1, LeastNumber
    <2>3. m \in 1..n /\ m - 1 \in 0..n /\ m - 1 \notin bad
      BY <2>2
    <2> QED BY <2>2, <2>3
  <1> QED BY <1>1

\* A function by recursion over 0..n.
Iterates(h, n, base, step) ==
  h = [d \in 0..n |-> IF d = 0 THEN base ELSE step[d][h[d - 1]]]

\* Such a function exists, whatever the steps.
LEMMA IterationExists ==
  ASSUME NEW n \in Nat, NEW V, NEW base \in V, NEW step \in [1..n -> [V -> V]]
  PROVE  \E h \in [0..n -> V] : Iterates(h, n, base, step)
  <1> DEFINE Defined(m) == \E h \in [0..m -> V] : Iterates(h, m, base, step)
             S == {m \in 0..n : Defined(m)}
  <1>1. Defined(0)
    <2> DEFINE f == [d \in 0..0 |-> base]
    <2>1. f \in [0..0 -> V] /\ Iterates(f, 0, base, step)
      BY DEF Iterates
    <2> HIDE DEF f
    <2> QED BY <2>1
  <1>2. ASSUME NEW m \in 1..n, Defined(m - 1) PROVE Defined(m)
    <2>1. PICK g \in [0..(m - 1) -> V] : Iterates(g, m - 1, base, step)
      BY <1>2
    <2> DEFINE f == [d \in 0..m |-> IF d = 0 THEN base ELSE step[d][g[d - 1]]]
    <2>2. f \in [0..m -> V]
      OBVIOUS
    <2>3. \A d \in 0..(m - 1) : f[d] = g[d]
      BY <2>1 DEF Iterates
    <2>4. Iterates(f, m, base, step)
      <3>1. f = [d \in 0..m |-> f[d]]
        OBVIOUS
      <3>2. \A d \in 0..m : f[d] = IF d = 0 THEN base ELSE step[d][g[d - 1]]
        OBVIOUS
      <3> HIDE DEF f
      <3>3. \A d \in 0..m : f[d] = IF d = 0 THEN base ELSE step[d][f[d - 1]]
        BY <2>3, <3>2
      <3> QED BY <3>1, <3>3 DEF Iterates
    <2> HIDE DEF f
    <2> QED BY <2>2, <2>4
  <1> HIDE DEF Defined
  <1>3. 0 \in S /\ \A m \in 1..n : m - 1 \in S => m \in S
    BY <1>1, <1>2
  <1>4. n \in S
    <2> HIDE DEF S
    <2>1. n \in 0..n
      OBVIOUS
    <2> QED BY <1>3, <2>1, UpTo
  <1> QED BY <1>4 DEF Defined

\* A fold of a sequence of n elements is a recursion over the sets of its
\* positions, from which the last position is taken.
FoldsBy(h, n, base, step) ==
  h = [s \in SUBSET (1..n) |-> IF s = {} THEN base ELSE step[Max(s)][h[s \ {Max(s)}]]]

\* The last position of a set of positions.
LEMMA LastPosition ==
  ASSUME NEW n \in Nat, NEW s \in SUBSET (1..n)
  PROVE  /\ s # {} => Max(s) \in s /\ \A x \in s : x <= Max(s)
         /\ \A x \in s : (\A y \in s : y <= x) => Max(s) = x
  <1>0. \A x \in s : x \in Nat /\ n - x \in Nat
    OBVIOUS
  <1>1. ASSUME s # {} PROVE \E m \in s : \A x \in s : m >= x
    <2> DEFINE below == {n - x : x \in s}
    <2>1. below \subseteq Nat /\ below # {}
      BY <1>0, <1>1
    <2>2. PICK k \in below : \A j \in below : k <= j
      <3> HIDE DEF below
      <3> QED BY <2>1, LeastNumber
    <2>3. PICK m \in s : k = n - m
      BY <2>2
    <2>4. \A x \in s : n - x \in below
      OBVIOUS
    <2> HIDE DEF below
    <2>5. ASSUME NEW x \in s PROVE m >= x
      <3>1. n - m <= n - x
        BY <2>2, <2>3, <2>4
      <3> QED BY <1>0, <3>1
    <2> QED BY <2>5
  <1>2. s # {} => Max(s) \in s /\ \A x \in s : Max(s) >= x
    BY <1>1 DEF Max
  <1>3. ASSUME NEW x \in s, \A y \in s : y <= x PROVE Max(s) = x
    <2>1. Max(s) \in s /\ Max(s) >= x /\ Max(s) <= x
      BY <1>2, <1>3
    <2>2. Max(s) \in Nat /\ x \in Nat
      BY <1>0, <2>1
    <2> QED BY <2>1, <2>2
  <1>4. s # {} => \A x \in s : x <= Max(s)
    BY <1>0, <1>2
  <1> QED BY <1>2, <1>3, <1>4

\* Such a function exists, whatever the steps.
LEMMA FoldExists ==
  ASSUME NEW n \in Nat, NEW V, NEW base \in V, NEW step \in [1..n -> [V -> V]]
  PROVE  \E h \in [SUBSET (1..n) -> V] : FoldsBy(h, n, base, step)
  <1> DEFINE Defined(m) == \E h \in [SUBSET (1..m) -> V] : FoldsBy(h, m, base, step)
             S == {m \in 0..n : Defined(m)}
  <1>1. Defined(0)
    <2> DEFINE f == [s \in SUBSET (1..0) |-> base]
    <2>1. f \in [SUBSET (1..0) -> V] /\ FoldsBy(f, 0, base, step)
      BY DEF FoldsBy
    <2> HIDE DEF f
    <2> QED BY <2>1
  <1>2. ASSUME NEW m \in 1..n, Defined(m - 1) PROVE Defined(m)
    <2>1. PICK g \in [SUBSET (1..(m - 1)) -> V] : FoldsBy(g, m - 1, base, step)
      BY <1>2
    <2> DEFINE f == [s \in SUBSET (1..m) |-> IF m \in s THEN step[m][g[s \ {m}]] ELSE g[s]]
    <2>2. \A s \in SUBSET (1..m) : /\ s \ {m} \in SUBSET (1..(m - 1))
                                   /\ m \notin s => s \in SUBSET (1..(m - 1))
      OBVIOUS
    <2>3. f \in [SUBSET (1..m) -> V]
      BY <2>2
    <2>4. \A s \in SUBSET (1..(m - 1)) : s \in SUBSET (1..m) /\ f[s] = g[s]
      OBVIOUS
    <2>5. f = [s \in SUBSET (1..m) |-> f[s]]
      OBVIOUS
    <2>6. \A s \in SUBSET (1..m) : f[s] = IF m \in s THEN step[m][g[s \ {m}]] ELSE g[s]
      OBVIOUS
    <2> HIDE DEF f
    <2>7. ASSUME NEW s \in SUBSET (1..m)
          PROVE  f[s] = IF s = {} THEN base ELSE step[Max(s)][f[s \ {Max(s)}]]
      <3>1. CASE m \in s
        <4>1. Max(s) = m
          <5>1. \A y \in s : y <= m
            OBVIOUS
          <5>2. m \in Nat
            OBVIOUS
          <5> QED BY <3>1, <5>1, <5>2, LastPosition
        <4>2. f[s \ {m}] = g[s \ {m}]
          BY <2>2, <2>4
        <4> QED BY <2>6, <3>1, <4>1, <4>2
      <3>2. CASE m \notin s
        <4>1. s \in SUBSET (1..(m - 1)) /\ m - 1 \in Nat
          BY <2>2, <3>2
        <4>2. f[s] = g[s]
          BY <2>4, <4>1
        <4>3. g[s] = IF s = {} THEN base ELSE step[Max(s)][g[s \ {Max(s)}]]
          BY <2>1, <4>1 DEF FoldsBy
        <4>4. s \ {Max(s)} \in SUBSET (1..(m - 1))
          BY <4>1
        <4>5. f[s \ {Max(s)}] = g[s \ {Max(s)}]
          BY <2>4, <4>4
        <4> QED BY <4>2, <4>3, <4>5
      <3> QED BY <3>1, <3>2
    <2>8. FoldsBy(f, m, base, step)
      BY <2>5, <2>7 DEF FoldsBy
    <2> QED BY <2>3, <2>8
  <1> HIDE DEF Defined
  <1>3. 0 \in S /\ \A m \in 1..n : m - 1 \in S => m \in S
    BY <1>1, <1>2
  <1>4. n \in S
    <2> HIDE DEF S
    <2>1. n \in 0..n
      OBVIOUS
    <2> QED BY <1>3, <2>1, UpTo
  <1> QED BY <1>4 DEF Defined

\* The sets of positions 1..d for growing d.
LEMMA FirstPositions ==
  ASSUME NEW n \in Nat, NEW d \in Nat, d \in 1..n
  PROVE  /\ 1..d \in SUBSET (1..n) /\ 1..d # {}
         /\ Max(1..d) = d /\ (1..d) \ {d} = 1..(d - 1)
  <1>1. 1..d \in SUBSET (1..n) /\ d \in 1..d /\ \A y \in 1..d : y <= d
    OBVIOUS
  <1>2. Max(1..d) = d
    BY <1>1, LastPosition
  <1>3. (1..d) \ {d} = 1..(d - 1)
    OBVIOUS
  <1>4. 1..d # {}
    BY <1>1
  <1> QED BY ONLY <1>1, <1>2, <1>3, <1>4

-----------------------------------------------------------------------------
(* Storage roots and streams *)

\* The storage root of a value is one of the values, and a value that is no
\* alias is its own.
LEMMA StorageRootFacts ==
  ASSUME NEW values, NEW n \in Nat, Len(values) = n,
         \A k \in 1..n : values[k].region = Alias => values[k].alias \in 0..(n - 1),
         NEW id \in 0..(n - 1)
  PROVE  \E last \in 0..(n - 1) :
           /\ StorageRoot(values, id) = IF values[last + 1].region = Alias THEN None ELSE last
           /\ values[id + 1].region # Alias => last = id
  <1> DEFINE ids == 0..(n - 1)
             hop(x) == IF values[x + 1].region = Alias THEN values[x + 1].alias ELSE x
             step == [d \in 1..n |-> [x \in ids |-> hop(x)]]
             Hops(h) == h = [d \in 0..n |-> IF d = 0 THEN id ELSE hop(h[d - 1])]
             h == CHOOSE h : Hops(h)
  <1>1. \A x \in ids : hop(x) \in ids
    OBVIOUS
  <1>2. StorageRoot(values, id) = IF values[h[n] + 1].region = Alias THEN None ELSE h[n]
    BY DEF StorageRoot
  <1>3. Hops(h)
    <2>1. step \in [1..n -> [ids -> ids]]
      BY <1>1
    <2>2. PICK g \in [0..n -> ids] : Iterates(g, n, id, step)
      <3> HIDE DEF step, ids
      <3> QED BY <2>1, IterationExists DEF ids
    <2>3. g = [d \in 0..n |-> g[d]] /\ \A d \in 1..n : g[d - 1] \in ids
      OBVIOUS
    <2>4. \A d \in 0..n : g[d] = IF d = 0 THEN id ELSE hop(g[d - 1])
      <3>1. \A d \in 1..n : step[d][g[d - 1]] = hop(g[d - 1])
        <4> HIDE DEF hop, ids
        <4> QED BY <2>3
      <3>2. \A d \in 0..n : g[d] = IF d = 0 THEN id ELSE step[d][g[d - 1]]
        <4> HIDE DEF hop, step
        <4> QED BY <2>2 DEF Iterates
      <3>3. \A d \in 0..n : d # 0 => d \in 1..n
        OBVIOUS
      <3> HIDE DEF hop, step, h
      <3> QED BY <3>1, <3>2, <3>3
    <2>5. Hops(g)
      BY <2>3, <2>4
    <2> QED BY <2>5
  <1> HIDE DEF h, hop, step
  <1>4. h[0] = id /\ \A d \in 1..n : h[d] = hop(h[d - 1])
    BY <1>3
  <1>5. h[n] \in ids
    <2> DEFINE S == {d \in 0..n : h[d] \in ids}
    <2>1. 0 \in S /\ \A d \in 1..n : d - 1 \in S => d \in S
      <3>1. id \in ids /\ \A d \in 1..n : d \in 0..n
        OBVIOUS
      <3> HIDE DEF ids
      <3>2. \A d \in 1..n : h[d - 1] \in ids => h[d] \in ids
        BY <1>1, <1>4
      <3> QED BY <1>4, <3>1, <3>2
    <2> HIDE DEF S
    <2>2. n \in S
      <3>1. n \in 0..n
        OBVIOUS
      <3> QED BY <2>1, <3>1, UpTo
    <2> QED BY <2>2 DEF S
  <1>6. values[id + 1].region # Alias => h[n] = id
    <2> SUFFICES ASSUME values[id + 1].region # Alias PROVE h[n] = id
      OBVIOUS
    <2> DEFINE S == {d \in 0..n : h[d] = id}
    <2>1. 0 \in S /\ \A d \in 1..n : d - 1 \in S => d \in S
      BY SMTT(60), <1>4 DEF hop
    <2> HIDE DEF S
    <2>2. n \in S
      <3>1. n \in 0..n
        OBVIOUS
      <3> QED BY <2>1, <3>1, UpTo
    <2> QED BY <2>2 DEF S
  <1> QED BY <1>2, <1>5, <1>6

-----------------------------------------------------------------------------
(* The command stream *)

\* Wrapping subtraction of what is not larger does not wrap.
LEMMA MinusExact ==
  ASSUME NEW a \in 0..MaxU64, NEW b \in 0..MaxU64, b <= a
  PROVE  Minus(a, b) = a - b
  <1>1. MaxU64 \in Nat
    BY StreamConstants
  <1>2. ASSUME NEW m \in Nat, NEW d \in 0..m PROVE d % (m + 1) = d
    BY <1>2
  <1>3. a - b \in 0..MaxU64
    BY <1>1
  <1> QED BY <1>1, <1>2, <1>3 DEF Minus

\* The numbers of a decoded stream.
LEMMA StreamNumbers ==
  ASSUME NEW s, DecodedStream(s)
  PROVE  /\ s.commandCount \in Nat /\ s.commandCount = Len(s.commands) /\ DOMAIN s.commands = 1..s.commandCount
         /\ s.operandCount \in Nat /\ s.operandCount = Len(s.operands) /\ DOMAIN s.operands = 1..s.operandCount
         /\ {s.operandCount, s.payloadBytes, s.workspaceBytes, s.valueCount} \subseteq 0..MaxU64
         /\ \A d \in 1..s.commandCount :
              LET c == s.commands[d]
              IN {c.first, c.count, c.start, c.size, c.workspaceAt, c.workspaceBytes} \subseteq 0..MaxU64
         /\ \A d \in 1..s.commandCount : s.commands[d].count \in Nat /\ s.commands[d].size \in Nat
         /\ \A d \in 1..s.operandCount : {s.operands[d].value, s.operands[d].offset} \subseteq 0..MaxU64
  <1>1. /\ s.commandCount \in Nat /\ s.commandCount = Len(s.commands) /\ DOMAIN s.commands = 1..s.commandCount
        /\ s.operandCount \in Nat /\ s.operandCount = Len(s.operands) /\ DOMAIN s.operands = 1..s.operandCount
        /\ s.operandCount \in 0..MaxU64
    BY DEF DecodedStream, StreamRows, StreamCounted, Rows
  <1>2. {s.payloadBytes, s.workspaceBytes, s.valueCount} \subseteq 0..MaxU64
    BY DEF DecodedStream, StreamRows, StreamNumberFields, Numbers
  <1>3. ASSUME NEW d \in 1..s.commandCount
        PROVE  LET c == s.commands[d]
               IN {c.first, c.count, c.start, c.size, c.workspaceAt, c.workspaceBytes} \subseteq 0..MaxU64
    <2>1. Numbers(s.commands[d], CommandFields)
      BY <1>1 DEF DecodedStream, StreamRows, Rows
    <2> QED BY <2>1 DEF Numbers, CommandFields
  <1>4. ASSUME NEW d \in 1..s.operandCount
        PROVE  {s.operands[d].value, s.operands[d].offset} \subseteq 0..MaxU64
    <2>1. Numbers(s.operands[d], OperandFields)
      BY <1>1 DEF DecodedStream, StreamRows, Rows
    <2> QED BY <2>1 DEF Numbers, OperandFields
  <1>5. ASSUME NEW d \in 1..s.commandCount PROVE s.commands[d].count \in Nat /\ s.commands[d].size \in Nat
    BY <1>3
  <1> QED BY <1>1, <1>2, <1>3, <1>4, <1>5

\* What ParseCommandStream has read when it is past command d.
Scanned(k, s) ==
  k = [d \in 0..s.commandCount |->
         IF d = 0 THEN [ok |-> TRUE, operand |-> 0, payload |-> 0] ELSE AfterCommand(s, k[d - 1], d)]
Progress == [ok : BOOLEAN, operand : Nat, payload : Nat]
Scan(s) == FoldLeft(LAMBDA next, i : AfterCommand(s, next, i),
                    [ok |-> TRUE, operand |-> 0, payload |-> 0], [i \in 1..s.commandCount |-> i])

\* The fold of ParseCommandStream goes through the commands one by one.
LEMMA StreamScan ==
  ASSUME NEW s, DecodedStream(s)
  PROVE  \E k \in [0..s.commandCount -> Progress] : Scanned(k, s) /\ Scan(s) = k[s.commandCount]
  <1> DEFINE n == s.commandCount
             base == [ok |-> TRUE, operand |-> 0, payload |-> 0]
             step == [d \in 1..n |-> [x \in Progress |-> AfterCommand(s, x, d)]]
             seq == [i \in 1..n |-> i]
             IsFold(g) == g = [t \in SUBSET DOMAIN seq |->
                                 IF t = {} THEN base ELSE AfterCommand(s, g[t \ {Max(t)}], seq[Max(t)])]
             f == CHOOSE g : IsFold(g)
  <1>1. n \in Nat /\ base \in Progress /\ DOMAIN seq = 1..n
    <2>1. n \in Nat
      BY StreamNumbers
    <2>2. base \in Progress
      BY DEF Progress
    <2>3. DOMAIN seq = 1..n
      BY DOMAIN seq = DOMAIN [i \in 1..n |-> i], Zenon
    <2> HIDE DEF n, base, seq
    <2> QED BY <2>1, <2>2, <2>3
  <1>2. \A d \in 1..n, x \in Progress : AfterCommand(s, x, d) \in Progress
    <2>1. \A d \in 1..n : s.commands[d].count \in Nat /\ s.commands[d].size \in Nat
      BY StreamNumbers
    <2> HIDE DEF n
    <2>2. ASSUME NEW d \in 1..n, NEW x \in Progress PROVE AfterCommand(s, x, d) \in Progress
      <3>1. Refused \in Progress
        BY DEF Progress, Refused
      <3>2. x.operand + s.commands[d].count \in Nat /\ x.payload + s.commands[d].size \in Nat
        BY <2>1 DEF Progress
      <3> QED BY <3>1, <3>2 DEF AfterCommand, Progress
    <2> QED BY <2>2
  <1>3. step \in [1..n -> [Progress -> Progress]]
    BY <1>2
  <1>4. PICK h \in [SUBSET (1..n) -> Progress] : FoldsBy(h, n, base, step)
    <2> HIDE DEF n, base, step
    <2> QED BY <1>1, <1>3, FoldExists
  <1>5. IsFold(h)
    <2>1. h = [t \in SUBSET (1..n) |-> h[t]]
      OBVIOUS
    <2>2. ASSUME NEW t \in SUBSET (1..n)
          PROVE  h[t] = IF t = {} THEN base ELSE AfterCommand(s, h[t \ {Max(t)}], seq[Max(t)])
      <3>1. h[t] = IF t = {} THEN base ELSE step[Max(t)][h[t \ {Max(t)}]]
        <4> HIDE DEF n, base, step
        <4> QED BY <1>4 DEF FoldsBy
      <3>2. CASE t # {}
        <4>1. Max(t) \in 1..n /\ t \ {Max(t)} \in SUBSET (1..n)
          <5> HIDE DEF n
          <5> QED BY <1>1, <3>2, LastPosition
        <4>2. h[t \ {Max(t)}] \in Progress
          BY <4>1
        <4>3. step[Max(t)][h[t \ {Max(t)}]] = AfterCommand(s, h[t \ {Max(t)}], Max(t)) /\ seq[Max(t)] = Max(t)
          BY <4>1, <4>2
        <4> HIDE DEF n, base, step, seq
        <4> QED BY <3>1, <3>2, <4>3
      <3> HIDE DEF n, step, seq
      <3> QED BY <3>1, <3>2
    <2> HIDE DEF n, base, step, seq
    <2> QED BY <1>1, <2>1, <2>2
  <1>6. IsFold(f)
    <2> HIDE DEF IsFold
    <2> QED BY <1>5
  <1>7. Scan(s) = f[DOMAIN seq]
    BY DEF Scan, FoldLeft, MapThenFoldSet
  <1>8. \A t \in SUBSET (1..n) : f[t] = IF t = {} THEN base ELSE AfterCommand(s, f[t \ {Max(t)}], seq[Max(t)])
    <2> HIDE DEF f, base, seq, n
    <2> QED BY <1>1, <1>6
  <1> HIDE DEF f
  <1> DEFINE k == [d \in 0..n |-> f[1..d]]
  <1>9. /\ 1..0 = {} /\ 0 \in 0..n /\ n \in 0..n
        /\ \A d \in 1..n : d - 1 \in 0..n /\ d \in 0..n /\ d \in Nat
    BY <1>1
  <1>10. k[0] = base
    BY <1>8, <1>9
  <1>11. ASSUME NEW d \in 1..n PROVE k[d] = AfterCommand(s, k[d - 1], d)
    <2> HIDE DEF n
    <2>1. /\ 1..d \in SUBSET (1..n) /\ 1..d # {}
          /\ Max(1..d) = d /\ (1..d) \ {d} = 1..(d - 1)
      BY <1>1, <1>9, FirstPositions
    <2>2. f[1..d] = AfterCommand(s, f[1..(d - 1)], seq[d])
      <3> HIDE DEF seq, base
      <3> QED BY <1>8, <2>1
    <2> QED BY <1>9, <2>2
  <1>12. \A d \in 0..n : k[d] \in Progress
    <2> DEFINE S == {d \in 0..n : k[d] \in Progress}
    <2> HIDE DEF k, n, base
    <2>1. 0 \in S /\ \A d \in 1..n : d - 1 \in S => d \in S
      BY <1>1, <1>2, <1>9, <1>10, <1>11
    <2> HIDE DEF S
    <2>2. \A d \in 0..n : d \in S
      BY <1>1, <2>1, UpTo
    <2> QED BY <2>2 DEF S
  <1>13. k = [d \in 0..n |-> IF d = 0 THEN base ELSE AfterCommand(s, k[d - 1], d)]
    <2>1. k = [d \in 0..n |-> k[d]]
      OBVIOUS
    <2>2. \A d \in 0..n : d # 0 => d \in 1..n
      BY <1>1
    <2> HIDE DEF k, n, base
    <2>3. \A d \in 0..n : k[d] = IF d = 0 THEN base ELSE AfterCommand(s, k[d - 1], d)
      BY <1>10, <1>11, <2>2
    <2> QED BY <2>1, <2>3
  <1>14. k \in [0..n -> Progress]
    BY <1>12
  <1>15. k[n] = Scan(s)
    BY <1>1, <1>7, <1>9
  <1> QED BY <1>13, <1>14, <1>15 DEF Scanned

\* Each command of an accepted stream was accepted after the ones before it,
\* its workspace is inside that of the stream, and every row of the operand
\* table is in the span of a command.
LEMMA StreamSound ==
  ASSUME NEW s, DecodedStream(s), ParseCommandStream(s)
  PROVE  /\ \A i \in 1..s.commandCount :
              s.commands[i].workspaceAt + s.commands[i].workspaceBytes <= s.workspaceBytes
         /\ \A j \in 1..s.operandCount : \E i \in 1..s.commandCount :
              s.commands[i].first < j /\ j <= s.commands[i].first + s.commands[i].count
  <1> DEFINE n == s.commandCount
  <1>1. PICK k \in [0..n -> Progress] :
          /\ Scanned(k, s)
          /\ k[n] = [ok |-> TRUE, operand |-> s.operandCount, payload |-> s.payloadBytes]
    BY StreamScan DEF ParseCommandStream, Scan
  <1>2. n \in Nat
    BY StreamNumbers
  <1>3. /\ k[0] = [ok |-> TRUE, operand |-> 0, payload |-> 0]
        /\ \A d \in 1..n : k[d] = AfterCommand(s, k[d - 1], d)
    <2> HIDE DEF n
    <2>1. k = [d \in 0..n |-> IF d = 0 THEN [ok |-> TRUE, operand |-> 0, payload |-> 0]
                              ELSE AfterCommand(s, k[d - 1], d)]
      BY <1>1 DEF Scanned, n
    <2>2. 0 \in 0..n /\ \A d \in 1..n : d \in 0..n /\ d # 0
      BY <1>2
    <2> QED BY <2>1, <2>2
  <1>4. \A d \in 0..n : k[d].ok
    <2> DEFINE S == {d \in 0..n : k[n - d].ok}
    <2>1. 0 \in S
      BY <1>1, <1>2
    <2>2. ASSUME NEW d \in 1..n, d - 1 \in S PROVE d \in S
      <3>1. n - d \in 0..n /\ n - (d - 1) \in 1..n /\ (n - (d - 1)) - 1 = n - d /\ d \in 0..n
        BY <1>2
      <3>2. k[n - (d - 1)] = AfterCommand(s, k[n - d], n - (d - 1)) /\ k[n - (d - 1)].ok
        BY <1>3, <2>2, <3>1
      <3>3. k[n - d].ok
        BY <3>2 DEF AfterCommand, Refused
      <3> QED BY <3>1, <3>3
    <2> HIDE DEF S, n
    <2>3. \A d \in 0..n : d \in S
      BY <1>2, <2>1, <2>2, UpTo
    <2>4. ASSUME NEW d \in 0..n PROVE k[d].ok
      <3>1. n - d \in 0..n /\ n - (n - d) = d
        BY <1>2
      <3>2. k[n - (n - d)].ok
        BY <2>3, <3>1 DEF S
      <3> QED BY <3>1, <3>2
    <2> QED BY <2>4
  <1>5. ASSUME NEW d \in 1..n
        PROVE  /\ CommandAccepted(s, d, k[d - 1])
               /\ k[d].operand = k[d - 1].operand + s.commands[d].count
    <2>1. d \in 0..n /\ k[d].ok /\ k[d] = AfterCommand(s, k[d - 1], d)
      BY <1>3, <1>4
    <2> QED BY <2>1 DEF AfterCommand, Refused
  <1> HIDE DEF n
  <1>6. ASSUME NEW i \in 1..n
        PROVE  s.commands[i].workspaceAt + s.commands[i].workspaceBytes <= s.workspaceBytes
    <2> DEFINE at == s.commands[i].workspaceAt
               size == s.commands[i].workspaceBytes
               all == s.workspaceBytes
    <2>1. {at, size, all} \subseteq 0..MaxU64
      BY StreamNumbers DEF n
    <2>2. at <= all /\ size <= Minus(all, at)
      BY <1>5 DEF CommandAccepted, WorkspaceInside
    <2> HIDE DEF at, size, all
    <2>3. Minus(all, at) = all - at
      BY <2>1, <2>2, MinusExact
    <2>4. at + size <= all
      BY <2>1, <2>2, <2>3
    <2> QED BY <2>4 DEF at, size, all
  <1>7. ASSUME NEW j \in 1..s.operandCount
        PROVE  \E i \in 1..n : s.commands[i].first < j /\ j <= s.commands[i].first + s.commands[i].count
    <2> DEFINE Spanned(d) == \A x \in 1..k[d].operand :
                 \E i \in 1..d : s.commands[i].first < x /\ x <= s.commands[i].first + s.commands[i].count
               S == {d \in 0..n : Spanned(d)}
    <2>1. 0 \in S
      BY <1>2, <1>3
    <2>2. ASSUME NEW d \in 1..n, d - 1 \in S PROVE d \in S
      <3>1. /\ k[d].operand = k[d - 1].operand + s.commands[d].count
            /\ s.commands[d].first = k[d - 1].operand
        BY <1>5 DEF CommandAccepted
      <3>2. k[d - 1].operand \in Nat /\ s.commands[d].count \in Nat /\ d \in 0..n /\ d - 1 \in 0..n
        BY <1>2, StreamNumbers DEF Progress, n
      <3>3. ASSUME NEW x \in 1..k[d].operand
            PROVE  \E i \in 1..d : s.commands[i].first < x /\ x <= s.commands[i].first + s.commands[i].count
        <4>1. CASE x <= k[d - 1].operand
          <5>1. x \in 1..k[d - 1].operand
            BY <3>2, <4>1
          <5>2. PICK i \in 1..(d - 1) : s.commands[i].first < x /\ x <= s.commands[i].first + s.commands[i].count
            BY <2>2, <5>1
          <5> QED BY <5>2
        <4>2. CASE x > k[d - 1].operand
          <5>1. s.commands[d].first < x /\ x <= s.commands[d].first + s.commands[d].count /\ d \in 1..d
            BY <3>1, <3>2, <4>2
          <5> QED BY <5>1
        <4> QED BY <3>2, <4>1, <4>2
      <3> QED BY <3>2, <3>3
    <2> HIDE DEF S
    <2>3. n \in S
      <3>1. \A d \in 0..n : d \in S
        BY <1>2, <2>1, <2>2, UpTo
      <3> QED BY <1>2, <3>1
    <2>4. Spanned(n) /\ k[n].operand = s.operandCount
      BY <1>1, <2>3 DEF S
    <2> QED BY <2>4
  <1> QED BY <1>6, <1>7 DEF n

-----------------------------------------------------------------------------
(* The tables of a plan *)

\* The numbers of a decoded plan.
LEMMA PlanNumbers ==
  ASSUME NEW p, DecodedPlan(p)
  PROVE  /\ p.valueCount \in Nat /\ p.valueCount = Len(p.values) /\ DOMAIN p.values = 1..p.valueCount
         /\ p.portCount \in Nat /\ DOMAIN p.ports = 1..p.portCount
         /\ p.stateCount \in Nat /\ DOMAIN p.states = 1..p.stateCount
         /\ p.providerCount \in Nat /\ DOMAIN p.providers = 1..p.providerCount
         /\ {p.weightsBytes, p.stateBytes, p.arenaBytes} \subseteq 0..MaxU64
         /\ \A k \in 1..p.valueCount :
              LET v == p.values[k]
              IN {v.id, v.region, v.alias, v.offset, v.bytes, v.allocation} \subseteq 0..MaxU64
         /\ \A k \in 1..p.portCount : p.ports[k].value \in Nat
         /\ \A k \in 1..p.stateCount : p.states[k].value \in Nat
         /\ \A k \in 1..p.providerCount : p.providers[k].id \in Nat
         /\ DecodedStream(p.stream)
  <1>1. /\ Rows(p.values, {"id", "region", "alias", "rank", "offset", "bytes", "allocation"})
        /\ Rows(p.ports, {"id", "kind", "value"}) /\ Rows(p.states, {"id", "value", "init"})
        /\ Rows(p.providers, {"id", "major", "minor", "count", "captures"})
    BY DEF DecodedPlan, PlanRows, TableFields
  <1>2. /\ p.valueCount \in Nat /\ p.valueCount = Len(p.values) /\ DOMAIN p.values = 1..p.valueCount
        /\ p.portCount \in Nat /\ p.portCount = Len(p.ports) /\ DOMAIN p.ports = 1..p.portCount
        /\ p.stateCount \in Nat /\ p.stateCount = Len(p.states) /\ DOMAIN p.states = 1..p.stateCount
        /\ p.providerCount \in Nat /\ p.providerCount = Len(p.providers) /\ DOMAIN p.providers = 1..p.providerCount
    BY <1>1 DEF DecodedPlan, PlanCounted, Rows
  <1>3. DecodedStream(p.stream)
    BY DEF DecodedPlan, PlanRows, DecodedStream
  <1>4. {p.weightsBytes, p.stateBytes, p.arenaBytes} \subseteq 0..MaxU64
    BY DEF DecodedPlan, PlanRows, PlanNumberFields, Numbers
  <1>5. ASSUME NEW k \in 1..p.valueCount
        PROVE  LET v == p.values[k]
               IN {v.id, v.region, v.alias, v.offset, v.bytes, v.allocation} \subseteq 0..MaxU64
    <2>1. Numbers(p.values[k], {"id", "region", "alias", "rank", "offset", "bytes", "allocation"})
      BY <1>1, <1>2 DEF Rows
    <2> QED BY <2>1 DEF Numbers
  <1>6. ASSUME NEW k \in 1..p.portCount PROVE p.ports[k].value \in Nat
    <2>1. Numbers(p.ports[k], {"id", "kind", "value"})
      BY <1>1, <1>2 DEF Rows
    <2> QED BY <2>1 DEF Numbers
  <1>7. ASSUME NEW k \in 1..p.stateCount PROVE p.states[k].value \in Nat
    <2>1. Numbers(p.states[k], {"id", "value", "init"})
      BY <1>1, <1>2 DEF Rows
    <2> QED BY <2>1 DEF Numbers
  <1>8. ASSUME NEW k \in 1..p.providerCount PROVE p.providers[k].id \in Nat
    <2>1. Numbers(p.providers[k], {"id", "major", "minor", "count", "captures"})
      BY <1>1, <1>2 DEF Rows
    <2> QED BY <2>1 DEF Numbers
  <1> QED BY <1>2, <1>3, <1>4, <1>5, <1>6, <1>7, <1>8

\* A plan the runtime accepts, whatever machine and weights it was judged for.
Accepted(p) == DecodedPlan(p) /\ \E arch, weights : ParseExecutablePlan(p, arch, weights)

\* A plan whose value records are accepted one by one, and have roots.
RootAccepted(p, i) ==
  LET root == StorageRoot(p.values, i - 1)
  IN root # None /\ (p.values[i].region = Alias => p.values[i].bytes = p.values[root + 1].bytes)
ValuesAccepted(p) ==
  /\ DecodedPlan(p)
  /\ \A i \in 1..p.valueCount : TensorContract(p.values[i], i) /\ StorageContract(p, p.values[i])
  /\ \A i \in 1..p.valueCount : RootAccepted(p, i)

\* The value records of an accepted plan.
LEMMA AcceptedValues ==
  ASSUME NEW p, Accepted(p)
  PROVE  ValuesAccepted(p) /\ WeightIntervals(p)
  BY DEF Accepted, ParseExecutablePlan, ValuesAccepted, RootAccepted

\* What an accepted value record says of its storage.
LEMMA ValueFacts ==
  ASSUME NEW p, ValuesAccepted(p), NEW i \in 1..p.valueCount
  PROVE  LET v == p.values[i]
         IN /\ v.id = i - 1 /\ v.region \in 0..6
            /\ v.region = Alias => v.alias \in 0..(p.valueCount - 1)
            /\ v.region \in Stored => v.offset + v.allocation <= Limit(p, v.region) /\ v.bytes <= v.allocation
  <1> DEFINE v == p.values[i]
  <1>1. TensorContract(v, i) /\ StorageContract(p, v)
    BY DEF ValuesAccepted
  <1>2. {v.id, v.region, v.alias, v.offset, v.bytes, v.allocation} \subseteq 0..MaxU64 /\ p.valueCount \in Nat
    BY PlanNumbers DEF ValuesAccepted
  <1> HIDE DEF v
  <1>3. v.id = i - 1 /\ v.region \in 0..6
    BY <1>1, <1>2 DEF TensorContract
  <1>4. v.region = Alias => v.alias \in 0..(p.valueCount - 1)
    BY <1>1, <1>2 DEF StorageContract
  <1>5. ASSUME v.region \in Stored
        PROVE  v.offset + v.allocation <= Limit(p, v.region) /\ v.bytes <= v.allocation
    <2> DEFINE limit == Limit(p, v.region)
    <2>1. InsideRegion(v, limit, p.alignment)
      <3>1. v.region # Alias /\ v.region # Unused /\ v.region \notin External
        BY <1>5 DEF Stored, Alias, Unused, External, Weights, State, Arena, ExternalInput, ExternalOutput
      <3> QED BY <1>1, <3>1 DEF StorageContract
    <2>2. limit \in 0..MaxU64
      <3>1. limit \in {p.weightsBytes, p.stateBytes, p.arenaBytes}
        BY <1>5 DEF Limit, Stored, Weights, State, Arena
      <3> QED BY <3>1, PlanNumbers DEF ValuesAccepted
    <2> HIDE DEF limit
    <2>3. v.allocation >= v.bytes /\ v.offset <= limit /\ v.allocation <= Minus(limit, v.offset)
      BY <2>1 DEF InsideRegion
    <2>4. Minus(limit, v.offset) = limit - v.offset
      BY <1>2, <2>2, <2>3, MinusExact
    <2>5. v.offset + v.allocation <= limit /\ v.bytes <= v.allocation
      BY <1>2, <2>2, <2>3, <2>4
    <2> QED BY <2>5 DEF limit
  <1> QED BY <1>3, <1>4, <1>5 DEF v

\* A value's root is a value with storage of its own, and an alias is as large
\* as its root.
LEMMA RootFacts ==
  ASSUME NEW p, ValuesAccepted(p), NEW id \in 0..(p.valueCount - 1)
  PROVE  LET root == StorageRoot(p.values, id)
         IN /\ root \in 0..(p.valueCount - 1)
            /\ p.values[root + 1].region # Alias /\ p.values[root + 1].id = root
            /\ p.values[id + 1].bytes = p.values[root + 1].bytes
            /\ p.values[id + 1].region # Alias => root = id
  <1> DEFINE n == p.valueCount
             root == StorageRoot(p.values, id)
  <1>1. n \in Nat /\ Len(p.values) = n
    BY PlanNumbers DEF ValuesAccepted
  <1>2. \A k \in 1..n : p.values[k].region = Alias => p.values[k].alias \in 0..(n - 1)
    BY ValueFacts
  <1>3. PICK last \in 0..(n - 1) :
          /\ root = IF p.values[last + 1].region = Alias THEN None ELSE last
          /\ p.values[id + 1].region # Alias => last = id
    <2> HIDE DEF n
    <2>1. id \in 0..(n - 1)
      BY DEF n
    <2> QED BY <1>1, <1>2, <2>1, StorageRootFacts
  <1>4. root # None /\ (p.values[id + 1].region = Alias => p.values[id + 1].bytes = p.values[root + 1].bytes)
    <2>1. id + 1 \in 1..n /\ (id + 1) - 1 = id
      BY <1>1
    <2>2. \A i \in 1..n :
            LET r == StorageRoot(p.values, i - 1)
            IN r # None /\ (p.values[i].region = Alias => p.values[i].bytes = p.values[r + 1].bytes)
      BY DEF ValuesAccepted, RootAccepted
    <2> HIDE DEF n
    <2> QED BY <2>1, <2>2
  <1> HIDE DEF root
  <1>5. root = last /\ p.values[root + 1].region # Alias
    BY <1>3, <1>4
  <1>6. p.values[root + 1].id = root
    <2>1. last + 1 \in 1..n /\ (last + 1) - 1 = last
      BY <1>1
    <2>2. p.values[last + 1].id = (last + 1) - 1
      BY <2>1, ValueFacts
    <2> QED BY <1>5, <2>1, <2>2
  <1>7. p.values[id + 1].region # Alias => root = id
    BY <1>3, <1>5
  <1>8. p.values[id + 1].bytes = p.values[root + 1].bytes
    BY <1>4, <1>7
  <1> QED BY <1>5, <1>6, <1>7, <1>8 DEF root

\* An operand has a value with storage, and starts inside it.
LEMMA OperandFacts ==
  ASSUME NEW p, Accepted(p), NEW o \in ToSet(p.stream.operands)
  PROVE  /\ o.value \in 0..(p.valueCount - 1) /\ o.offset \in Nat
         /\ OperandInside(p, o)
  <1> DEFINE s == p.stream
  <1>1. DecodedStream(s) /\ ParseCommandStream(s) /\ s.valueCount = p.valueCount
    BY PlanNumbers DEF Accepted, ParseExecutablePlan, StreamMatches
  <1>2. /\ s.operandCount \in Nat /\ DOMAIN s.operands = 1..s.operandCount
        /\ s.commandCount \in Nat
    BY <1>1, StreamNumbers
  <1>3. PICK j \in 1..s.operandCount : o = s.operands[j]
    BY <1>2 DEF ToSet
  <1>4. o.value \in 0..(p.valueCount - 1) /\ o.offset \in Nat
    <2>1. {o.value, o.offset} \subseteq 0..MaxU64
      BY <1>1, <1>3, StreamNumbers
    <2>2. o.value < s.valueCount
      BY <1>1 DEF ParseCommandStream
    <2>3. p.valueCount \in Nat
      BY PlanNumbers DEF Accepted
    <2> HIDE DEF s
    <2> QED BY <1>1, <2>1, <2>2, <2>3
  <1>5. PICK i \in 1..s.commandCount :
          s.commands[i].first < j /\ j <= s.commands[i].first + s.commands[i].count
    <2> HIDE DEF s
    <2> QED BY <1>1, StreamSound
  <1>6. o \in ToSet(OperandsOf(s, i))
    <2> DEFINE first == s.commands[i].first
               count == s.commands[i].count
               span == SubSeq(s.operands, first + 1, first + count)
               x == j - first
    <2>1. first \in Nat /\ count \in Nat
      BY SMTT(60), <1>1, StreamNumbers
    <2>2. /\ \A k \in (first + 1)..(first + count) : s.operands[k] \in {s.operands[m] : m \in Int}
          /\ first + 1 \in Int /\ first + count \in Int
      BY <2>1
    <2> HIDE DEF s, first, count
    <2>3. /\ span \in Seq({s.operands[m] : m \in Int})
          /\ Len(span) = IF first + 1 <= first + count THEN (first + count) - (first + 1) + 1 ELSE 0
          /\ \A k \in 1..((first + count) - (first + 1) + 1) : span[k] = s.operands[(first + 1) + k - 1]
      BY <2>2, SubSeqProperties
    <2>4. x \in 1..((first + count) - (first + 1) + 1) /\ (first + 1) + x - 1 = j /\ x \in 1..count
      BY <1>5, <2>1 DEF first, count
    <2> HIDE DEF span
    <2>5. span[x] = o
      BY <1>3, <2>3, <2>4
    <2>6. DOMAIN span = 1..count
      BY <2>1, <2>3
    <2>7. o \in ToSet(span)
      BY <2>4, <2>5, <2>6 DEF ToSet
    <2> QED BY <2>7 DEF span, first, count, OperandsOf
  <1>7. CommandBound(p, i)
    BY DEF Accepted, ParseExecutablePlan
  <1> QED BY <1>4, <1>6, <1>7 DEF CommandBound

-----------------------------------------------------------------------------
(* Weights *)

\* The order in which ParseExecutablePlan sorts the weights.
WeightRecords(p) == {x \in ToSet(p.values) : x.region = Weights}
SpanEnd(v) == Plus(v.offset, v.allocation)
Sorted(v, w) == \/ v.offset < w.offset
                \/ v.offset = w.offset /\ SpanEnd(v) < SpanEnd(w)
                \/ v.offset = w.offset /\ SpanEnd(v) = SpanEnd(w) /\ v.id < w.id

\* A weight record is a row of the value table, and the sum of its offset and
\* its size does not wrap.
LEMMA WeightFacts ==
  ASSUME NEW p, ValuesAccepted(p), NEW v \in WeightRecords(p)
  PROVE  /\ \E i \in 1..p.valueCount : v = p.values[i] /\ v.id = i - 1
         /\ {v.id, v.offset, v.allocation} \subseteq Nat
         /\ SpanEnd(v) = v.offset + v.allocation
  <1>1. PICK i \in 1..p.valueCount : v = p.values[i]
    BY PlanNumbers DEF ValuesAccepted, WeightRecords, ToSet
  <1>2. v.id = i - 1 /\ v.offset + v.allocation <= Limit(p, v.region) /\ v.region = Weights
    <2>1. /\ p.values[i].id = i - 1
          /\ p.values[i].region \in Stored =>
               p.values[i].offset + p.values[i].allocation <= Limit(p, p.values[i].region)
      BY ValueFacts
    <2>2. v.region = Weights /\ Weights \in Stored
      BY DEF WeightRecords, Stored
    <2> QED BY <1>1, <2>1, <2>2
  <1>3. {v.id, v.offset, v.allocation} \subseteq Nat /\ p.weightsBytes \in 0..MaxU64
    <2>1. DecodedPlan(p)
      BY DEF ValuesAccepted
    <2>2. /\ {p.values[i].id, p.values[i].offset, p.values[i].allocation} \subseteq 0..MaxU64
          /\ p.weightsBytes \in 0..MaxU64
      BY <2>1, PlanNumbers
    <2> QED BY <1>1, <2>2
  <1>4. v.offset + v.allocation <= p.weightsBytes
    BY <1>2 DEF Limit, Weights, State, Arena
  <1>5. SpanEnd(v) = v.offset + v.allocation
    <2>1. MaxU64 \in Nat
      BY StreamConstants
    <2>2. ASSUME NEW m \in Nat, NEW d \in 0..m PROVE d % (m + 1) = d
      BY <2>2
    <2>3. v.offset + v.allocation \in 0..MaxU64
      BY <1>3, <1>4, <2>1
    <2> QED BY <2>1, <2>2, <2>3 DEF SpanEnd, Plus
  <1> QED BY <1>1, <1>2, <1>3, <1>5

\* Among weights there is a first one.
LEMMA FirstWeight ==
  ASSUME NEW p, ValuesAccepted(p), NEW T, T \subseteq WeightRecords(p), T # {}
  PROVE  \E u \in T : \A x \in T : ~Sorted(x, u) /\ u.offset <= x.offset
  <1>1. \A u \in T : u.offset \in Nat /\ SpanEnd(u) \in Nat /\ u.id \in Nat
    BY WeightFacts
  <1>2. PICK a \in T : \A x \in T : a.offset <= x.offset
    <2> DEFINE offsets == {u.offset : u \in T}
    <2>1. offsets \subseteq Nat /\ offsets # {}
      BY <1>1
    <2>2. PICK m \in offsets : \A k \in offsets : m <= k
      <3> HIDE DEF offsets
      <3> QED BY <2>1, LeastNumber
    <2> QED BY <2>2
  <1> DEFINE A == {u \in T : u.offset = a.offset}
  <1>3. PICK b \in A : \A x \in A : SpanEnd(b) <= SpanEnd(x)
    <2> DEFINE ends == {SpanEnd(u) : u \in A}
    <2>1. ends \subseteq Nat /\ ends # {}
      BY <1>1
    <2>2. PICK m \in ends : \A k \in ends : m <= k
      <3> HIDE DEF ends
      <3> QED BY <2>1, LeastNumber
    <2> QED BY <2>2
  <1> DEFINE B == {u \in A : SpanEnd(u) = SpanEnd(b)}
  <1>4. PICK u \in B : \A x \in B : u.id <= x.id
    <2> DEFINE ids == {x.id : x \in B}
    <2>1. ids \subseteq Nat /\ ids # {}
      BY <1>1
    <2>2. PICK m \in ids : \A k \in ids : m <= k
      <3> HIDE DEF ids
      <3> QED BY <2>1, LeastNumber
    <2> QED BY <2>2
  <1>5. u \in T /\ u.offset = a.offset /\ SpanEnd(u) = SpanEnd(b)
    BY <1>4
  <1>6. ASSUME NEW x \in T PROVE ~Sorted(x, u) /\ u.offset <= x.offset
    <2>1. /\ {x.offset, SpanEnd(x), x.id, u.offset, SpanEnd(u), u.id} \subseteq Nat
          /\ u.offset <= x.offset
      BY <1>1, <1>2, <1>5
    <2>2. x.offset = u.offset => SpanEnd(u) <= SpanEnd(x)
      BY <1>3, <1>5
    <2>3. x.offset = u.offset /\ SpanEnd(x) = SpanEnd(u) => u.id <= x.id
      BY <1>4, <1>5
    <2> QED BY <2>1, <2>2, <2>3 DEF Sorted
  <1> QED BY <1>5, <1>6

\* Neighbours in the order do not meet, so a weight ends before any later one.
LEMMA WeightsInOrder ==
  ASSUME NEW p, ValuesAccepted(p), WeightIntervals(p), NEW v \in WeightRecords(p), NEW w \in WeightRecords(p), Sorted(v, w)
  PROVE  v.offset + v.allocation <= w.offset
  <1> DEFINE T == {u \in WeightRecords(p) : Sorted(v, u)}
  <1>1. T \subseteq WeightRecords(p) /\ T # {}
    OBVIOUS
  <1>2. PICK u \in T : \A x \in T : ~Sorted(x, u) /\ u.offset <= x.offset
    <2> HIDE DEF T
    <2> QED BY <1>1, FirstWeight
  <1>3. Sorted(v, u) /\ \A x \in WeightRecords(p) : ~(Sorted(v, x) /\ Sorted(x, u))
    BY <1>2
  <1>4. u.offset >= SpanEnd(v)
    <2>1. \A a, b \in WeightRecords(p) :
            (Sorted(a, b) /\ \A x \in WeightRecords(p) : ~(Sorted(a, x) /\ Sorted(x, b)))
              => b.offset >= SpanEnd(a)
      BY DEF WeightIntervals, WeightRecords, Sorted, SpanEnd
    <2> QED BY <1>2, <1>3, <2>1
  <1>5. u.offset <= w.offset
    BY <1>2
  <1>6. SpanEnd(v) = v.offset + v.allocation /\ {v.offset, v.allocation, u.offset, w.offset} \subseteq Nat
    BY <1>2, WeightFacts
  <1> QED BY <1>4, <1>5, <1>6

\* No two weights share a byte.
LEMMA WeightsApart ==
  ASSUME NEW p, ValuesAccepted(p), WeightIntervals(p), NEW v \in WeightRecords(p), NEW w \in WeightRecords(p), v # w
  PROVE  Occupied(v) \cap Occupied(w) = {}
  <1>1. /\ {v.id, v.offset, v.allocation, w.id, w.offset, w.allocation} \subseteq Nat /\ v.id # w.id
        /\ SpanEnd(v) = v.offset + v.allocation /\ SpanEnd(w) = w.offset + w.allocation
    <2>1. PICK i \in 1..p.valueCount : v = p.values[i] /\ v.id = i - 1
      BY WeightFacts
    <2>2. PICK j \in 1..p.valueCount : w = p.values[j] /\ w.id = j - 1
      BY WeightFacts
    <2>3. i # j /\ v.id # w.id
      BY <2>1, <2>2
    <2> QED BY <2>3, WeightFacts
  <1>2. Sorted(v, w) \/ Sorted(w, v)
    BY <1>1 DEF Sorted
  <1>3. v.offset + v.allocation <= w.offset \/ w.offset + w.allocation <= v.offset
    BY <1>2, WeightsInOrder
  <1>4. /\ Occupied(v) = v.offset..(v.offset + v.allocation - 1)
        /\ Occupied(w) = w.offset..(w.offset + w.allocation - 1)
    BY DEF Occupied, WeightRecords, Weights, External, ExternalInput, ExternalOutput
  <1> QED BY SMTT(60), <1>1, <1>3, <1>4

-----------------------------------------------------------------------------
(* Ports, states and providers *)

\* Rows that each name a fresh root.
FreshRows(p, rows, n) ==
  n \in Nat /\ DOMAIN rows = 1..n /\ \A k \in 1..n : MarksFresh(p, rows, k) /\ rows[k].value \in Nat

\* Rows that each name a fresh root name each marked root exactly once.
LEMMA NamedOnce ==
  ASSUME NEW p, ValuesAccepted(p), NEW rows, NEW n, FreshRows(p, rows, n),
         NEW id, id \in Marked(p, rows, n + 1)
  PROVE  \E j \in 1..n : /\ {k \in DOMAIN rows : RootRecord(p, rows[k].value).id = id} = {j}
                         /\ StorageRoot(p.values, rows[j].value) = id
  <1> DEFINE root(k) == StorageRoot(p.values, rows[k].value)
  <1>0. n \in Nat /\ DOMAIN rows = 1..n /\ \A k \in 1..n : MarksFresh(p, rows, k) /\ rows[k].value \in Nat
    BY DEF FreshRows
  <1>1. \A k \in 1..n : RootRecord(p, rows[k].value).id = root(k)
    <2>1. p.valueCount \in Nat
      BY PlanNumbers DEF ValuesAccepted
    <2>2. ASSUME NEW k \in 1..n PROVE RootRecord(p, rows[k].value).id = root(k)
      <3>1. rows[k].value \in 0..(p.valueCount - 1)
        BY <1>0, <2>1 DEF MarksFresh
      <3> QED BY <3>1, RootFacts DEF RootRecord
    <2> QED BY <2>2
  <1>2. PICK j \in 1..n : root(j) = id
    <2>1. (n + 1) - 1 = n
      BY <1>0
    <2> QED BY <2>1 DEF Marked
  <1>3. ASSUME NEW a \in 1..n, NEW b \in 1..n, a < b PROVE root(a) # root(b)
    <2>1. a \in 1..(b - 1)
      BY <1>0, <1>3
    <2>2. root(b) \notin Marked(p, rows, b)
      BY <1>0 DEF MarksFresh
    <2> QED BY <2>1, <2>2 DEF Marked
  <1>4. \A k \in 1..n : root(k) = id => k = j
    <2> HIDE DEF root
    <2>1. ASSUME NEW k \in 1..n, root(k) = id, k # j PROVE FALSE
      <3>1. k < j \/ j < k
        BY <1>0, <2>1
      <3> QED BY <1>2, <1>3, <2>1, <3>1
    <2> QED BY <2>1
  <1> HIDE DEF root
  <1>5. {k \in DOMAIN rows : RootRecord(p, rows[k].value).id = id} = {j}
    BY <1>0, <1>1, <1>2, <1>4
  <1> QED BY <1>2, <1>5 DEF root

\* The ids of the provider table increase.
LEMMA ProvidersIncrease ==
  ASSUME NEW p, DecodedPlan(p), \A k \in 1..p.providerCount : ProviderAccepted(p, k)
  PROVE  \A j, k \in 1..p.providerCount : j < k => p.providers[j].id < p.providers[k].id
  <1> DEFINE n == p.providerCount
             id(k) == p.providers[k].id
             S == {d \in 0..n : \A j \in 1..(d - 1) : id(j) < id(d)}
  <1>1. n \in Nat /\ \A k \in 1..n : id(k) \in Nat
    BY PlanNumbers
  <1>2. \A d \in 1..n : d # 1 => id(d) > id(d - 1)
    BY DEF ProviderAccepted
  <1> HIDE DEF n, id
  <1>3. 0 \in S
    BY <1>1
  <1>4. ASSUME NEW d \in 1..n, d - 1 \in S PROVE d \in S
    <2>1. ASSUME NEW j \in 1..(d - 1) PROVE id(j) < id(d)
      <3>1. d # 1 /\ j \in 1..n /\ d - 1 \in 1..n
        BY <1>1
      <3>2. id(d) > id(d - 1) /\ {id(j), id(d), id(d - 1)} \subseteq Nat
        BY <1>1, <1>2, <3>1
      <3>3. j = d - 1 \/ j \in 1..((d - 1) - 1)
        OBVIOUS
      <3>4. j = d - 1 \/ id(j) < id(d - 1)
        BY <1>4, <3>3
      <3> QED BY <3>2, <3>4
    <2> QED BY <1>1, <2>1
  <1> HIDE DEF S
  <1>5. \A d \in 0..n : d \in S
    BY <1>1, <1>3, <1>4, UpTo
  <1>6. ASSUME NEW j \in 1..n, NEW k \in 1..n, j < k PROVE id(j) < id(k)
    <2>1. k \in S /\ j \in 1..(k - 1)
      BY <1>1, <1>5, <1>6
    <2> QED BY <2>1 DEF S
  <1> QED BY <1>6 DEF n, id

-----------------------------------------------------------------------------
(* What an accepted plan means for a session *)

\* The parts of LoadedPlanSound, for one plan.
OperandsSound(p) ==
  \A o \in ToSet(p.stream.operands) :
    LET root == RootRecord(p, o.value)
    IN /\ root.region \in Stored \cup External
       /\ Occupied(root) \subseteq RegionBytes(p, root)
       /\ o.offset \in 0..root.bytes-1 /\ root.bytes <= Cardinality(Occupied(root))
       /\ p.values[o.value + 1].bytes = root.bytes
BoundBy(p, rows, id) == {k \in DOMAIN rows : RootRecord(p, rows[k].value).id = id}
PortsSound(p) ==
  \A v \in RootsIn(p, External) :
    /\ Cardinality(BoundBy(p, p.ports, v.id)) = 1
    /\ \A k \in BoundBy(p, p.ports, v.id) : (p.ports[k].kind = Input) = (v.region = ExternalInput)
StatesSound(p) == \A v \in RootsIn(p, {State}) : Cardinality(BoundBy(p, p.states, v.id)) = 1
CommandsSound(p) ==
  \A c \in ToSet(p.stream.commands) :
    /\ Cardinality({k \in DOMAIN p.providers : p.providers[k].id = c.provider}) = 1
    /\ \E r \in ToSet(p.providers) : <<r.id, r.major, r.minor>> = <<c.provider, c.major, c.minor>>
    /\ c.workspaceAt + c.workspaceBytes <= p.workspaceBytes

\* Every operand of an accepted plan has storage of its size in its region.
LEMMA AcceptedOperands == ASSUME NEW p, Accepted(p) PROVE OperandsSound(p)
  <1> SUFFICES ASSUME NEW o \in ToSet(p.stream.operands)
               PROVE  LET root == RootRecord(p, o.value)
                      IN /\ root.region \in Stored \cup External
                         /\ Occupied(root) \subseteq RegionBytes(p, root)
                         /\ o.offset \in 0..root.bytes-1 /\ root.bytes <= Cardinality(Occupied(root))
                         /\ p.values[o.value + 1].bytes = root.bytes
    BY DEF OperandsSound
  <1> DEFINE id == StorageRoot(p.values, o.value)
             root == RootRecord(p, o.value)
  <1>0. ValuesAccepted(p)
    BY AcceptedValues
  <1>1. o.value \in 0..(p.valueCount - 1) /\ o.offset \in Nat /\ OperandInside(p, o)
    BY OperandFacts
  <1>2. /\ id \in 0..(p.valueCount - 1) /\ p.values[id + 1].region # Alias
        /\ p.values[o.value + 1].bytes = p.values[id + 1].bytes
    BY <1>0, <1>1, RootFacts
  <1>3. root = p.values[id + 1] /\ id + 1 \in 1..p.valueCount
    <2>1. p.valueCount \in Nat
      BY PlanNumbers DEF Accepted
    <2> QED BY <1>2, <2>1 DEF RootRecord
  <1>4. root.region # Unused /\ o.offset < root.bytes
    BY <1>1, <1>3 DEF OperandInside
  <1>5. {root.offset, root.bytes, root.allocation} \subseteq Nat
    <2>1. {root.offset, root.bytes, root.allocation} \subseteq 0..MaxU64
      <3> HIDE DEF id, root
      <3> QED BY <1>3, PlanNumbers DEF Accepted
    <2> QED BY <2>1
  <1>6. /\ root.region \in 0..6
        /\ root.region \in Stored =>
             root.offset + root.allocation <= Limit(p, root.region) /\ root.bytes <= root.allocation
    <2> HIDE DEF id, root
    <2> QED BY <1>0, <1>3, ValueFacts
  <1> HIDE DEF id, root
  <1>7. root.region \in Stored \cup External
    BY <1>2, <1>3, <1>4, <1>6
       DEF Stored, External, Weights, State, Arena, ExternalInput, ExternalOutput, Alias, Unused
  <1>8. /\ Occupied(root) \subseteq RegionBytes(p, root)
        /\ root.bytes <= Cardinality(Occupied(root))
    <2>1. CASE root.region \in External
      <3>1. Occupied(root) = 0..(root.bytes - 1) /\ RegionBytes(p, root) = 0..(root.bytes - 1)
        BY <2>1 DEF Occupied, RegionBytes
      <3>2. Cardinality(0..(root.bytes - 1)) = root.bytes
        BY SMTT(60), <1>5, FS_Interval
      <3> QED BY <1>5, <3>1, <3>2
    <2>2. CASE root.region \notin External
      <3> DEFINE last == root.offset + root.allocation - 1
                 limit == Limit(p, root.region)
      <3>1. limit \in Nat /\ last \in Int /\ last <= limit - 1 /\ root.bytes <= root.allocation
        <4>1. limit \in {p.weightsBytes, p.stateBytes, p.arenaBytes}
          BY <1>7, <2>2 DEF Limit, Stored, Weights, State, Arena
        <4>2. limit \in 0..MaxU64
          BY <4>1, PlanNumbers DEF Accepted
        <4> QED BY <1>5, <1>6, <1>7, <2>2, <4>2
      <3>2. Occupied(root) = root.offset..last /\ RegionBytes(p, root) = 0..(limit - 1)
        BY <2>2 DEF Occupied, RegionBytes
      <3>3. Cardinality(root.offset..last) = root.allocation
        <4>1. root.offset \in Int /\ last \in Int /\ last - root.offset + 1 = root.allocation
          BY <1>5
        <4>2. Cardinality(root.offset..last) = IF root.offset > last THEN 0 ELSE last - root.offset + 1
          <5> HIDE DEF last
          <5> QED BY <4>1, FS_Interval
        <4> QED BY <1>5, <4>1, <4>2
      <3>4. root.offset..last \subseteq 0..(limit - 1)
        BY <1>5, <3>1
      <3> HIDE DEF last, limit
      <3> QED BY <1>5, <3>1, <3>2, <3>3, <3>4
    <2> QED BY <2>1, <2>2
  <1>9. o.offset \in 0..root.bytes-1 /\ p.values[o.value + 1].bytes = root.bytes
    BY <1>1, <1>2, <1>3, <1>4, <1>5
  <1> QED BY <1>7, <1>8, <1>9 DEF root

\* Every external root is bound by one port of its kind.
LEMMA AcceptedPorts == ASSUME NEW p, Accepted(p) PROVE PortsSound(p)
  <1> SUFFICES ASSUME NEW v \in RootsIn(p, External)
               PROVE  /\ Cardinality(BoundBy(p, p.ports, v.id)) = 1
                      /\ \A k \in BoundBy(p, p.ports, v.id) :
                           (p.ports[k].kind = Input) = (v.region = ExternalInput)
    BY DEF PortsSound
  <1> DEFINE n == p.portCount
  <1>0. ValuesAccepted(p)
    BY AcceptedValues
  <1>1. n \in Nat /\ DOMAIN p.ports = 1..n /\ \A k \in 1..n : p.ports[k].value \in Nat
    BY PlanNumbers DEF Accepted
  <1>2. \A k \in 1..n : PortAccepted(p, k)
    BY DEF Accepted, ParseExecutablePlan
  <1>3. PICK i \in 1..p.valueCount : v = p.values[i]
    BY PlanNumbers DEF Accepted, RootsIn, ToSet
  <1>4. v.region \in External /\ v.id \in Marked(p, p.ports, n + 1)
    BY DEF Accepted, ParseExecutablePlan, EveryRootBound, RootsIn
  <1> HIDE DEF n
  <1>5. PICK j \in 1..n : /\ BoundBy(p, p.ports, v.id) = {j}
                          /\ StorageRoot(p.values, p.ports[j].value) = v.id
    <2>1. FreshRows(p, p.ports, n)
      BY <1>1, <1>2 DEF PortAccepted, FreshRows
    <2>2. \E j \in 1..n : /\ {k \in DOMAIN p.ports : RootRecord(p, p.ports[k].value).id = v.id} = {j}
                          /\ StorageRoot(p.values, p.ports[j].value) = v.id
      BY <1>0, <1>4, <2>1, NamedOnce
    <2> QED BY <2>2 DEF BoundBy
  <1>6. Cardinality(BoundBy(p, p.ports, v.id)) = 1
    BY <1>5, FS_Singleton
  <1>7. (p.ports[j].kind = Input) = (v.region = ExternalInput)
    <2>1. RegionOf(p, v.id) = IF p.ports[j].kind = Input THEN ExternalInput ELSE ExternalOutput
      BY <1>2, <1>5 DEF PortAccepted
    <2>2. RegionOf(p, v.id) = v.region
      <3>1. v.id = i - 1 /\ (i - 1) + 1 = i
        BY <1>0, <1>3, ValueFacts
      <3> QED BY <1>3, <3>1 DEF RegionOf
    <2> QED BY <2>1, <2>2 DEF ExternalInput, ExternalOutput
  <1> QED BY <1>5, <1>6, <1>7

\* Every state root is bound by one state.
LEMMA AcceptedStates == ASSUME NEW p, Accepted(p) PROVE StatesSound(p)
  <1> SUFFICES ASSUME NEW v \in RootsIn(p, {State}) PROVE Cardinality(BoundBy(p, p.states, v.id)) = 1
    BY DEF StatesSound
  <1> DEFINE n == p.stateCount
  <1>0. ValuesAccepted(p)
    BY AcceptedValues
  <1>1. n \in Nat /\ DOMAIN p.states = 1..n /\ \A k \in 1..n : p.states[k].value \in Nat
    BY PlanNumbers DEF Accepted
  <1>2. \A k \in 1..n : StateAccepted(p, k)
    BY DEF Accepted, ParseExecutablePlan
  <1>3. v.id \in Marked(p, p.states, n + 1)
    BY DEF Accepted, ParseExecutablePlan, EveryRootBound, RootsIn
  <1> HIDE DEF n
  <1>4. FreshRows(p, p.states, n)
    BY <1>1, <1>2 DEF StateAccepted, FreshRows
  <1>5. \E j \in 1..n : /\ {k \in DOMAIN p.states : RootRecord(p, p.states[k].value).id = v.id} = {j}
                        /\ StorageRoot(p.values, p.states[j].value) = v.id
    BY <1>0, <1>3, <1>4, NamedOnce
  <1> QED BY <1>5, FS_Singleton DEF BoundBy

\* Every command is under one provider row, which has its ABI, and its
\* workspace is inside that of the plan.
LEMMA AcceptedCommands == ASSUME NEW p, Accepted(p) PROVE CommandsSound(p)
  <1> SUFFICES ASSUME NEW c \in ToSet(p.stream.commands)
               PROVE  /\ Cardinality({k \in DOMAIN p.providers : p.providers[k].id = c.provider}) = 1
                      /\ \E r \in ToSet(p.providers) :
                           <<r.id, r.major, r.minor>> = <<c.provider, c.major, c.minor>>
                      /\ c.workspaceAt + c.workspaceBytes <= p.workspaceBytes
    BY DEF CommandsSound
  <1> DEFINE s == p.stream
             n == p.providerCount
  <1>1. DecodedStream(s) /\ ParseCommandStream(s) /\ s.workspaceBytes = p.workspaceBytes
    BY PlanNumbers DEF Accepted, ParseExecutablePlan, StreamMatches
  <1>2. DOMAIN s.commands = 1..s.commandCount
    BY <1>1, StreamNumbers
  <1>3. PICK i \in 1..s.commandCount : c = s.commands[i]
    BY <1>2 DEF ToSet
  <1>4. c.workspaceAt + c.workspaceBytes <= p.workspaceBytes
    <2> HIDE DEF s
    <2> QED BY <1>1, <1>3, StreamSound
  <1>5. n \in Nat /\ DOMAIN p.providers = 1..n /\ \A k \in 1..n : p.providers[k].id \in Nat
    BY PlanNumbers DEF Accepted
  <1>6. PICK j \in 1..n : p.providers[j].id = c.provider
    <2>1. \E r \in ToSet(p.providers) : r.id = s.commands[i].provider
      BY DEF Accepted, ParseExecutablePlan, CommandBound
    <2> QED BY <1>3, <1>5, <2>1 DEF ToSet
  <1>7. c.major = p.providers[j].major /\ c.minor = p.providers[j].minor
    <2>1. ProviderAccepted(p, j)
      BY DEF Accepted, ParseExecutablePlan
    <2>2. i \in {x \in DOMAIN p.stream.commands : p.stream.commands[x].provider = p.providers[j].id}
      BY <1>2, <1>3, <1>6
    <2>3. p.stream.commands[i].major = p.providers[j].major /\ p.stream.commands[i].minor = p.providers[j].minor
      BY <2>1, <2>2 DEF ProviderAccepted
    <2> QED BY <1>3, <2>3
  <1> HIDE DEF s, n
  <1>8. {k \in DOMAIN p.providers : p.providers[k].id = c.provider} = {j}
    <2>1. ASSUME NEW k \in 1..n, p.providers[k].id = c.provider, k # j PROVE FALSE
      <3>1. k < j \/ j < k
        BY <1>5, <2>1
      <3>2. p.providers[k].id < p.providers[j].id \/ p.providers[j].id < p.providers[k].id
        <4>1. DecodedPlan(p) /\ \A x \in 1..p.providerCount : ProviderAccepted(p, x)
          BY DEF Accepted, ParseExecutablePlan
        <4> QED BY <3>1, <4>1, ProvidersIncrease DEF n
      <3> QED BY <1>5, <1>6, <2>1, <3>2
    <2> QED BY <1>5, <1>6, <2>1
  <1>9. \E r \in ToSet(p.providers) : <<r.id, r.major, r.minor>> = <<c.provider, c.major, c.minor>>
    <2>1. p.providers[j] \in ToSet(p.providers)
      BY <1>5 DEF ToSet
    <2> QED BY <1>6, <1>7, <2>1
  <1> QED BY <1>4, <1>8, <1>9, FS_Singleton

\* Whatever bytes are stored, and whoever wrote them: if they decode to a plan
\* the runtime accepts, then no operand, weight, port, state or command of it
\* reaches past what a session allocates (LoadedPlanSound).
THEOREM AcceptedPlansAreSound ==
  (stored # NoFile => DecodedPlan(stored.plan)) => LoadedPlanSound
  <1> SUFFICES ASSUME stored # NoFile, DecodedPlan(stored.plan), RuntimeAccepts
               PROVE  LoadedPlanSound
    BY DEF LoadedPlanSound
  <1> DEFINE p == stored.plan
  <1>1. Accepted(p)
    BY DEF Accepted, RuntimeAccepts
  <1> HIDE DEF p
  <1>2. OperandsSound(p) /\ PortsSound(p) /\ StatesSound(p) /\ CommandsSound(p)
    BY <1>1, AcceptedOperands, AcceptedPorts, AcceptedStates, AcceptedCommands
  <1>3. \A v, w \in RootsIn(p, {Weights}) : v # w => Occupied(v) \cap Occupied(w) = {}
    <2>1. RootsIn(p, {Weights}) = WeightRecords(p)
      BY DEF RootsIn, WeightRecords
    <2> QED BY <1>1, <2>1, AcceptedValues, WeightsApart
  <1>4. /\ OperandsSound(p)
        /\ \A v, w \in RootsIn(p, {Weights}) : v # w => Occupied(v) \cap Occupied(w) = {}
        /\ PortsSound(p)
        /\ StatesSound(p)
        /\ CommandsSound(p)
    BY <1>2, <1>3
  <1> QED BY <1>4, Zenon
          DEF LoadedPlanSound, OperandsSound, PortsSound, StatesSound, CommandsSound, BoundBy, p

-----------------------------------------------------------------------------
(* What is stored                                                            *)
(*                                                                           *)
(* A damaged count no longer agrees with the table, so the theorem above     *)
(* says nothing of it.  But then every offset behind the table is still the  *)
(* one the compiler wrote, and ParseExecutablePlan, which computes them from *)
(* the counts, refuses the plan.                                             *)

PlanPlaced(p) ==
  /\ p.portsAt = HeaderSize + Len(p.values)
  /\ p.statesAt = HeaderSize + Len(p.values) + Len(p.ports)
  /\ p.providersAt = HeaderSize + Len(p.values) + Len(p.ports) + Len(p.states)
  /\ p.commandsAt = HeaderSize + Len(p.values) + Len(p.ports) + Len(p.states) + Len(p.providers)
StreamPlaced(s) ==
  /\ s.operandsAt = HeaderSize + Len(s.commands)
  /\ s.payloadAt = HeaderSize + Len(s.commands) + Len(s.operands)
Sized(p) ==
  /\ PlanRows(p)
  /\ PlanCounted(p) \/ PlanPlaced(p)
  /\ StreamCounted(p.stream) \/ StreamPlaced(p.stream)
Whole(p) ==
  /\ PlanRows(p) /\ p.alignment # 0
  /\ PlanCounted(p) /\ PlanPlaced(p)
  /\ StreamCounted(p.stream) /\ StreamPlaced(p.stream)

StoredInv ==
  stored # NoFile =>
    /\ stored = [plan |-> stored.plan, arch |-> stored.arch, weights |-> stored.weights, rewrites |-> stored.rewrites]
    /\ stored.rewrites \in 0..MaxRewrites
    /\ Sized(stored.plan)
    /\ stored.rewrites < MaxRewrites => Whole(stored.plan)

\* Total adds the numbers of a sequence.
LEMMA TotalSteps ==
  ASSUME NEW n \in Nat, NEW g \in [1..n -> Nat]
  PROVE  \E k \in [0..n -> Nat] :
           k[0] = 0 /\ (\A d \in 1..n : k[d] = k[d - 1] + g[d]) /\ Total(g) = k[n]
  <1> DEFINE step == [d \in 1..n |-> [x \in Nat |-> x + g[d]]]
             IsFold(h) == h = [t \in SUBSET DOMAIN g |-> IF t = {} THEN 0 ELSE h[t \ {Max(t)}] + g[Max(t)]]
             f == CHOOSE h : IsFold(h)
  <1>1. DOMAIN g = 1..n
    OBVIOUS
  <1>2. step \in [1..n -> [Nat -> Nat]]
    OBVIOUS
  <1>3. PICK h \in [SUBSET (1..n) -> Nat] : FoldsBy(h, n, 0, step)
    <2> HIDE DEF step
    <2> QED BY <1>2, FoldExists
  <1>4. IsFold(h)
    <2>1. h = [t \in SUBSET (1..n) |-> h[t]]
      OBVIOUS
    <2>2. ASSUME NEW t \in SUBSET (1..n)
          PROVE  h[t] = IF t = {} THEN 0 ELSE h[t \ {Max(t)}] + g[Max(t)]
      <3>1. h[t] = IF t = {} THEN 0 ELSE step[Max(t)][h[t \ {Max(t)}]]
        <4> HIDE DEF step
        <4> QED BY <1>3 DEF FoldsBy
      <3>2. CASE t # {}
        <4>1. Max(t) \in 1..n /\ t \ {Max(t)} \in SUBSET (1..n)
          BY <3>2, LastPosition
        <4>2. h[t \ {Max(t)}] \in Nat
          BY <4>1
        <4>3. step[Max(t)][h[t \ {Max(t)}]] = h[t \ {Max(t)}] + g[Max(t)]
          BY <4>1, <4>2
        <4> HIDE DEF step
        <4> QED BY <3>1, <3>2, <4>3
      <3> HIDE DEF step
      <3> QED BY <3>1, <3>2
    <2> HIDE DEF step
    <2> QED BY <1>1, <2>1, <2>2
  <1>5. IsFold(f)
    <2> HIDE DEF IsFold
    <2> QED BY <1>4
  <1>6. Total(g) = f[DOMAIN g]
    BY DEF Total, FoldLeft, MapThenFoldSet
  <1>7. \A t \in SUBSET (1..n) : f[t] = IF t = {} THEN 0 ELSE f[t \ {Max(t)}] + g[Max(t)]
    <2> HIDE DEF f
    <2> QED BY <1>1, <1>5
  <1> HIDE DEF f
  <1> DEFINE k == [d \in 0..n |-> f[1..d]]
  <1>8. /\ 1..0 = {} /\ 0 \in 0..n /\ n \in 0..n
        /\ \A d \in 1..n : d - 1 \in 0..n /\ d \in 0..n /\ d \in Nat
    OBVIOUS
  <1>9. k[0] = 0
    BY <1>7, <1>8
  <1>10. ASSUME NEW d \in 1..n PROVE k[d] = k[d - 1] + g[d]
    <2>1. /\ 1..d \in SUBSET (1..n) /\ 1..d # {}
          /\ Max(1..d) = d /\ (1..d) \ {d} = 1..(d - 1)
      BY <1>8, FirstPositions
    <2>2. f[1..d] = f[1..(d - 1)] + g[d]
      BY <1>7, <2>1
    <2> QED BY <1>8, <2>2
  <1>11. \A d \in 0..n : k[d] \in Nat
    <2> DEFINE S == {d \in 0..n : k[d] \in Nat}
    <2> HIDE DEF k
    <2>1. 0 \in S /\ \A d \in 1..n : d - 1 \in S => d \in S
      BY <1>8, <1>9, <1>10
    <2> HIDE DEF S
    <2>2. \A d \in 0..n : d \in S
      BY <2>1, UpTo
    <2> QED BY <2>2 DEF S
  <1>12. k \in [0..n -> Nat] /\ k[n] = Total(g)
    BY <1>1, <1>6, <1>8, <1>11
  <1> HIDE DEF k
  <1> QED BY <1>9, <1>10, <1>12

\* Where ParseExecutablePlan expects the tables.
LEMMA TableOffsets ==
  ASSUME NEW p, {p.valueCount, p.portCount, p.stateCount, p.providerCount} \subseteq Nat
  PROVE  /\ TableAt(p, 2) = HeaderSize + p.valueCount
         /\ TableAt(p, 3) = HeaderSize + p.valueCount + p.portCount
         /\ TableAt(p, 4) = HeaderSize + p.valueCount + p.portCount + p.stateCount
         /\ TableAt(p, 5) = HeaderSize + p.valueCount + p.portCount + p.stateCount + p.providerCount
  <1> DEFINE counts == <<p.valueCount, p.portCount, p.stateCount, p.providerCount>>
             before(t) == [k \in 1..t-1 |-> counts[k]]
  <1>1. counts[1] = p.valueCount /\ counts[2] = p.portCount /\ counts[3] = p.stateCount /\ counts[4] = p.providerCount
    OBVIOUS
  <1>2. \A k \in 1..4 : counts[k] \in Nat
    OBVIOUS
  <1>3. HeaderSize \in Nat
    BY DEF HeaderSize
  <1> HIDE DEF counts
  <1>4. ASSUME NEW t \in 2..5
        PROVE  \E k \in [0..t-1 -> Nat] :
                 k[0] = 0 /\ (\A d \in 1..t-1 : k[d] = k[d - 1] + counts[d]) /\ TableAt(p, t) = HeaderSize + k[t-1]
    <2>1. before(t) \in [1..t-1 -> Nat] /\ t - 1 \in Nat
      BY <1>2
    <2>2. \A d \in 1..t-1 : before(t)[d] = counts[d]
      OBVIOUS
    <2>3. TableAt(p, t) = HeaderSize + Total(before(t))
      BY DEF TableAt, counts
    <2> HIDE DEF before
    <2>4. PICK k \in [0..t-1 -> Nat] :
            k[0] = 0 /\ (\A d \in 1..t-1 : k[d] = k[d - 1] + before(t)[d]) /\ Total(before(t)) = k[t-1]
      BY <2>1, TotalSteps
    <2> QED BY <2>2, <2>3, <2>4
  <1> HIDE DEF before
  <1>5. TableAt(p, 2) = HeaderSize + p.valueCount
    <2>1. PICK k \in [0..1 -> Nat] :
            k[0] = 0 /\ (\A d \in 1..1 : k[d] = k[d - 1] + counts[d]) /\ TableAt(p, 2) = HeaderSize + k[1]
      BY <1>4
    <2>2. k[1] = k[0] + counts[1]
      BY <2>1
    <2> QED BY <1>1, <2>1, <2>2
  <1>6. TableAt(p, 3) = HeaderSize + p.valueCount + p.portCount
    <2>1. PICK k \in [0..2 -> Nat] :
            k[0] = 0 /\ (\A d \in 1..2 : k[d] = k[d - 1] + counts[d]) /\ TableAt(p, 3) = HeaderSize + k[2]
      BY <1>4
    <2>2. k[1] = k[0] + counts[1] /\ k[2] = k[1] + counts[2]
      BY <2>1
    <2> QED BY <1>1, <1>3, <2>1, <2>2
  <1>7. TableAt(p, 4) = HeaderSize + p.valueCount + p.portCount + p.stateCount
    <2>1. PICK k \in [0..3 -> Nat] :
            k[0] = 0 /\ (\A d \in 1..3 : k[d] = k[d - 1] + counts[d]) /\ TableAt(p, 4) = HeaderSize + k[3]
      BY <1>4
    <2>2. k[1] = k[0] + counts[1] /\ k[2] = k[1] + counts[2] /\ k[3] = k[2] + counts[3]
      BY <2>1
    <2> QED BY <1>1, <1>3, <2>1, <2>2
  <1>8. TableAt(p, 5) = HeaderSize + p.valueCount + p.portCount + p.stateCount + p.providerCount
    <2>1. PICK k \in [0..4 -> Nat] :
            k[0] = 0 /\ (\A d \in 1..4 : k[d] = k[d - 1] + counts[d]) /\ TableAt(p, 5) = HeaderSize + k[4]
      BY <1>4
    <2>2. k[1] = k[0] + counts[1] /\ k[2] = k[1] + counts[2] /\ k[3] = k[2] + counts[3] /\ k[4] = k[3] + counts[4]
      BY <2>1
    <2> QED BY <1>1, <1>3, <2>1, <2>2
  <1> QED BY <1>5, <1>6, <1>7, <1>8

\* The counts, the tables' lengths and their places are numbers.
LEMMA RowNumbers ==
  ASSUME NEW p, PlanRows(p)
  PROVE  /\ \A f \in PlanNumberFields : f \in DOMAIN p /\ p[f] \in Nat
         /\ {Len(p.values), Len(p.ports), Len(p.states), Len(p.providers)} \subseteq Nat
         /\ \A f \in StreamNumberFields : f \in DOMAIN p.stream /\ p.stream[f] \in Nat
         /\ {Len(p.stream.commands), Len(p.stream.operands)} \subseteq Nat
  <1>1. \A f \in PlanNumberFields : f \in DOMAIN p /\ p[f] \in Nat
    BY DEF PlanRows, Numbers
  <1>2. {Len(p.values), Len(p.ports), Len(p.states), Len(p.providers)} \subseteq Nat
    BY DEF PlanRows, Rows, TableFields
  <1>3. \A f \in StreamNumberFields : f \in DOMAIN p.stream /\ p.stream[f] \in Nat
    BY DEF PlanRows, StreamRows, Numbers
  <1>4. {Len(p.stream.commands), Len(p.stream.operands)} \subseteq Nat
    BY DEF PlanRows, StreamRows, Rows
  <1> QED BY <1>1, <1>2, <1>3, <1>4

\* Where both parsers expect the tables: where the counts of the header put them.
TablesPlaced(p) ==
  /\ p.valuesAt = TableAt(p, 1) /\ p.portsAt = TableAt(p, 2) /\ p.statesAt = TableAt(p, 3)
  /\ p.providersAt = TableAt(p, 4) /\ p.commandsAt = TableAt(p, 5)

\* The first table follows the header.
LEMMA FirstTable == ASSUME NEW p PROVE TableAt(p, 1) = HeaderSize
  <1> DEFINE counts == <<p.valueCount, p.portCount, p.stateCount, p.providerCount>>
             none == [k \in 1..0 |-> counts[k]]
  <1>1. 0 \in Nat /\ none \in [1..0 -> Nat]
    OBVIOUS
  <1>2. TableAt(p, 1) = HeaderSize + Total(none)
    <2>1. 1 - 1 = 0
      OBVIOUS
    <2> QED BY <2>1 DEF TableAt
  <1> HIDE DEF none
  <1>3. PICK k \in [0..0 -> Nat] :
          k[0] = 0 /\ (\A d \in 1..0 : k[d] = k[d - 1] + none[d]) /\ Total(none) = k[0]
    BY <1>1, TotalSteps
  <1> QED BY <1>2, <1>3 DEF HeaderSize

\* The offsets of parse_executable_plan are the places of the tables.
LEMMA PyTablesPlaced ==
  ASSUME NEW p
  PROVE  <<p.valuesAt, p.portsAt, p.statesAt, p.providersAt, p.commandsAt>> = [t \in 1..5 |-> TableAt(p, t)]
           <=> TablesPlaced(p)
  <1> DEFINE expected == [t \in 1..5 |-> TableAt(p, t)]
             given == <<p.valuesAt, p.portsAt, p.statesAt, p.providersAt, p.commandsAt>>
  <1>1. /\ expected[1] = TableAt(p, 1) /\ expected[2] = TableAt(p, 2) /\ expected[3] = TableAt(p, 3)
        /\ expected[4] = TableAt(p, 4) /\ expected[5] = TableAt(p, 5)
    OBVIOUS
  <1>2. /\ given[1] = p.valuesAt /\ given[2] = p.portsAt /\ given[3] = p.statesAt /\ given[4] = p.providersAt
        /\ given[5] = p.commandsAt
    OBVIOUS
  <1>3. given = [t \in 1..5 |-> given[t]] /\ expected = [t \in 1..5 |-> expected[t]]
    OBVIOUS
  <1>4. \A t \in 1..5 : t = 1 \/ t = 2 \/ t = 3 \/ t = 4 \/ t = 5
    OBVIOUS
  <1> HIDE DEF expected, given
  <1>5. given = expected => TablesPlaced(p)
    BY <1>1, <1>2 DEF TablesPlaced
  <1>6. TablesPlaced(p) => given = expected
    <2> SUFFICES ASSUME TablesPlaced(p) PROVE given = expected
      OBVIOUS
    <2>1. \A t \in 1..5 : given[t] = expected[t]
      BY <1>1, <1>2, <1>4 DEF TablesPlaced
    <2> QED BY <1>3, <2>1
  <1> QED BY <1>5, <1>6 DEF given, expected

\* A plan whose counts may be damaged, but whose tables and whose stream's tables are placed.
OffsetsRight(p) ==
  /\ TablesPlaced(p)
  /\ p.stream.operandsAt = HeaderSize + p.stream.commandCount
  /\ p.stream.payloadAt = HeaderSize + p.stream.commandCount + p.stream.operandCount

\* The reader of the compiler refuses damaged offsets, and so does the runtime.
LEMMA ParsersPlaceTables ==
  ASSUME NEW p, NEW arch, NEW weights
  PROVE  /\ PyParse(p, arch, weights) => OffsetsRight(p)
         /\ ParseExecutablePlan(p, arch, weights) => OffsetsRight(p)
  <1>1. ASSUME PyParse(p, arch, weights) PROVE OffsetsRight(p)
    <2>1. TablesPlaced(p)
      BY <1>1, PyTablesPlaced DEF PyParse, PyPlanHeader
    <2>2. /\ p.stream.operandsAt = HeaderSize + p.stream.commandCount
          /\ p.stream.payloadAt = p.stream.operandsAt + p.stream.operandCount
      BY <1>1 DEF PyParse, FromBytes, PyStreamHeader
    <2> QED BY <2>1, <2>2 DEF OffsetsRight
  <1>2. ASSUME ParseExecutablePlan(p, arch, weights) PROVE OffsetsRight(p)
    <2>1. TablesPlaced(p)
      BY <1>2, FirstTable DEF ParseExecutablePlan, PlanHeader, PlanTables, TablesPlaced
    <2>2. /\ p.stream.operandsAt = HeaderSize + p.stream.commandCount
          /\ p.stream.payloadAt = HeaderSize + p.stream.commandCount + p.stream.operandCount
      BY <1>2 DEF ParseExecutablePlan, ParseCommandStream, StreamHeader, StreamTables
    <2> QED BY <2>1, <2>2 DEF OffsetsRight
  <1> QED BY <1>1, <1>2

\* A plan whose offsets are right is refused unless its counts are right too.
LEMMA SizedDecodes ==
  ASSUME NEW p, Sized(p), OffsetsRight(p)
  PROVE  DecodedPlan(p)
  <1>1. PlanRows(p)
    BY DEF Sized
  <1>2. /\ {p.valueCount, p.portCount, p.stateCount, p.providerCount} \subseteq Nat
        /\ {Len(p.values), Len(p.ports), Len(p.states), Len(p.providers)} \subseteq Nat
        /\ {p.stream.commandCount, p.stream.operandCount} \subseteq Nat
        /\ {Len(p.stream.commands), Len(p.stream.operands)} \subseteq Nat
    BY <1>1, RowNumbers DEF PlanNumberFields, PlanCounts, StreamNumberFields, StreamCounts
  <1>3. PlanCounted(p)
    <2>1. /\ p.portsAt = TableAt(p, 2) /\ p.statesAt = TableAt(p, 3)
          /\ p.providersAt = TableAt(p, 4) /\ p.commandsAt = TableAt(p, 5)
      BY DEF OffsetsRight, TablesPlaced
    <2>2. ASSUME PlanPlaced(p) PROVE PlanCounted(p)
      <3> DEFINE a == p.valueCount
                 b == p.portCount
                 c == p.stateCount
                 d == p.providerCount
                 i == Len(p.values)
                 j == Len(p.ports)
                 k == Len(p.states)
                 m == Len(p.providers)
      <3>1. /\ TableAt(p, 2) = HeaderSize + a /\ TableAt(p, 3) = HeaderSize + a + b
            /\ TableAt(p, 4) = HeaderSize + a + b + c /\ TableAt(p, 5) = HeaderSize + a + b + c + d
        BY <1>2, TableOffsets
      <3>2. /\ HeaderSize + a = HeaderSize + i /\ HeaderSize + a + b = HeaderSize + i + j
            /\ HeaderSize + a + b + c = HeaderSize + i + j + k
            /\ HeaderSize + a + b + c + d = HeaderSize + i + j + k + m
        BY <2>1, <2>2, <3>1 DEF PlanPlaced
      <3>3. {a, b, c, d, i, j, k, m, HeaderSize} \subseteq Nat
        BY <1>2 DEF HeaderSize
      <3> HIDE DEF a, b, c, d, i, j, k, m
      <3>4. a = i /\ b = j /\ c = k /\ d = m
        BY <3>2, <3>3
      <3> QED BY <3>4 DEF PlanCounted, a, b, c, d, i, j, k, m
    <2> QED BY <2>2 DEF Sized
  <1>4. StreamCounted(p.stream)
    <2>1. /\ p.stream.operandsAt = HeaderSize + p.stream.commandCount
          /\ p.stream.payloadAt = HeaderSize + p.stream.commandCount + p.stream.operandCount
      BY DEF OffsetsRight
    <2>2. ASSUME StreamPlaced(p.stream) PROVE StreamCounted(p.stream)
      <3> DEFINE a == p.stream.commandCount
                 b == p.stream.operandCount
                 i == Len(p.stream.commands)
                 j == Len(p.stream.operands)
      <3>1. HeaderSize + a = HeaderSize + i /\ HeaderSize + a + b = HeaderSize + i + j
        BY <2>1, <2>2 DEF StreamPlaced
      <3>2. {a, b, i, j, HeaderSize} \subseteq Nat
        BY <1>2 DEF HeaderSize
      <3> HIDE DEF a, b, i, j
      <3>3. a = i /\ b = j
        BY <3>1, <3>2
      <3> QED BY <3>3 DEF StreamCounted, a, b, i, j
    <2> QED BY <2>2 DEF Sized
  <1> QED BY <1>1, <1>3, <1>4 DEF DecodedPlan

\* A changed field of a row holds a number wherever a number is expected.
LEMMA OtherRowNumbers ==
  ASSUME NEW row, NEW fields, Numbers(row, fields), fields \cap (DigestFields \cup {"tags", "arch", "shape"}) = {},
         NEW new \in OtherRows(row)
  PROVE  /\ Numbers(new, fields) /\ DOMAIN new = DOMAIN row
         /\ \E f \in FieldsOf(row) : \A g \in DOMAIN row : g # f => new[g] = row[g]
  <1>1. PICK f \in FieldsOf(row) : new \in RowsOf(row, f)
    BY DEF OtherRows
  <1>2. PICK v \in Others(f, row[f]) : new = [row EXCEPT ![f] = v]
    BY <1>1 DEF RowsOf
  <1>3. f \in fields => v \in 0..MaxU64
    <2> SUFFICES ASSUME f \in fields PROVE v \in 0..MaxU64
      OBVIOUS
    <2>1. f \notin DigestFields /\ f # "tags" /\ f # "arch" /\ f # "shape"
      OBVIOUS
    <2>2. v \in Near(row[f], IF f \in U64Fields THEN MaxU64 ELSE MaxU32)
      BY <1>2, <2>1 DEF Others
    <2> QED BY <2>2, StreamConstants DEF Near
  <1>4. DOMAIN new = DOMAIN row /\ \A g \in DOMAIN row : g # f => new[g] = row[g]
    BY <1>2
  <1>5. f \in DOMAIN row => new[f] = v
    BY <1>2
  <1>6. Numbers(new, fields)
    BY <1>3, <1>4, <1>5 DEF Numbers
  <1> QED BY <1>4, <1>6

\* A function on 1..n is a sequence of length n.
LEMMA LenOfFunction ==
  ASSUME NEW f, NEW n \in Nat, f = [j \in 1..n |-> f[j]]
  PROVE  DOMAIN f = 1..n /\ Len(f) = n
  <1> DEFINE S == {f[j] : j \in 1..n}
  <1>1. f \in [1..n -> S]
    OBVIOUS
  <1> HIDE DEF S
  <1>2. f \in Seq(S)
    BY <1>1, SeqDef
  <1>3. Len(f) \in Nat /\ DOMAIN f = 1..Len(f)
    BY <1>2, LenProperties
  <1>4. DOMAIN f = 1..n
    BY <1>1
  <1>5. ASSUME NEW m \in Nat, 1..m = 1..n, m # n PROVE FALSE
    <2>1. CASE m < n
      <3>1. n \in 1..n /\ n \notin 1..m
        BY <2>1
      <3> QED BY <1>5, <3>1
    <2>2. CASE n < m
      <3>1. m \in 1..m /\ m \notin 1..n
        BY <2>2
      <3> QED BY <1>5, <3>1
    <2> QED BY <1>5, <2>1, <2>2
  <1> QED BY <1>3, <1>4, <1>5

\* A table with one changed row has the rows it had.
LEMMA OtherTableRows ==
  ASSUME NEW rows, NEW fields, Rows(rows, fields), fields \cap (DigestFields \cup {"tags", "arch", "shape"}) = {},
         NEW new \in OtherTables(rows)
  PROVE  Rows(new, fields) /\ Len(new) = Len(rows)
  <1>0. PICK k \in DOMAIN rows : \E row \in OtherRows(rows[k]) : new = [rows EXCEPT ![k] = row]
    BY DEF OtherTables
  <1>1. PICK row \in OtherRows(rows[k]) : new = [rows EXCEPT ![k] = row]
    BY <1>0
  <1> DEFINE n == Len(rows)
  <1>2. n \in 0..MaxU64 /\ n \in Nat /\ DOMAIN rows = 1..n /\ \A j \in 1..n : Numbers(rows[j], fields)
    BY DEF Rows
  <1>3. Numbers(row, fields)
    BY <1>1, <1>2, OtherRowNumbers
  <1> HIDE DEF n
  <1>4. new = [j \in 1..n |-> IF j = k THEN row ELSE rows[j]]
    BY <1>1, <1>2
  <1>5. \A j \in 1..n : Numbers(new[j], fields)
    BY <1>2, <1>3, <1>4
  <1>6. new = [j \in 1..n |-> new[j]]
    BY <1>4
  <1>7. DOMAIN new = 1..n /\ Len(new) = n
    BY <1>2, <1>6, LenOfFunction
  <1> QED BY <1>2, <1>5, <1>6, <1>7 DEF Rows, n

\* The fields of the tables are numbers that damage leaves numbers.
LEMMA FieldsAreNumbers ==
  /\ \A t \in DOMAIN TableFields : TableFields[t] \cap (DigestFields \cup {"tags", "arch", "shape"}) = {}
  /\ PlanNumberFields \cap (DigestFields \cup {"tags", "arch", "shape"}) = {}
  /\ StreamNumberFields \cap (DigestFields \cup {"tags", "arch", "shape"}) = {}
  /\ CommandFields \cap (DigestFields \cup {"tags", "arch", "shape"}) = {}
  /\ OperandFields \cap (DigestFields \cup {"tags", "arch", "shape"}) = {}
  /\ DOMAIN TableFields = Tables4
  /\ PlanNumberFields \cap (Tables4 \cup {"stream", "commandDigest", "bodyDigest"}) = {}
  /\ StreamNumberFields \cap {"commands", "operands", "payload", "bodyDigest"} = {}
  <1>1. DOMAIN TableFields = Tables4
    BY DEF TableFields, Tables4
  <1>2. \A t \in DOMAIN TableFields : TableFields[t] \cap (DigestFields \cup {"tags", "arch", "shape"}) = {}
    BY DEF TableFields, DigestFields
  <1>3. /\ PlanNumberFields \cap (DigestFields \cup {"tags", "arch", "shape"}) = {}
        /\ PlanNumberFields \cap (Tables4 \cup {"stream", "commandDigest", "bodyDigest"}) = {}
    BY DEF PlanNumberFields, PlanCounts, DigestFields, Tables4
  <1>4. /\ StreamNumberFields \cap (DigestFields \cup {"tags", "arch", "shape"}) = {}
        /\ StreamNumberFields \cap {"commands", "operands", "payload", "bodyDigest"} = {}
    BY DEF StreamNumberFields, StreamCounts, DigestFields
  <1>5. /\ CommandFields \cap (DigestFields \cup {"tags", "arch", "shape"}) = {}
        /\ OperandFields \cap (DigestFields \cup {"tags", "arch", "shape"}) = {}
    BY DEF CommandFields, OperandFields, DigestFields
  <1> QED BY <1>1, <1>2, <1>3, <1>4, <1>5

\* Two plans of the same sizes.
SameSizes(p, q) ==
  /\ \A t \in Tables4 : Len(q[t]) = Len(p[t])
  /\ \A f \in PlanNumberFields : q[f] = p[f]
  /\ Len(q.stream.commands) = Len(p.stream.commands) /\ Len(q.stream.operands) = Len(p.stream.operands)
  /\ \A f \in StreamNumberFields : q.stream[f] = p.stream[f]

\* What only depends on the sizes is kept with them.
LEMMA SizesKept ==
  ASSUME NEW p, NEW q, PlanRows(q), SameSizes(p, q)
  PROVE  (Sized(p) => Sized(q)) /\ (Whole(p) => Whole(q))
  <1>1. /\ Len(q.values) = Len(p.values) /\ Len(q.ports) = Len(p.ports)
        /\ Len(q.states) = Len(p.states) /\ Len(q.providers) = Len(p.providers)
    BY DEF SameSizes, Tables4
  <1>2. /\ q.valueCount = p.valueCount /\ q.portCount = p.portCount /\ q.stateCount = p.stateCount
        /\ q.providerCount = p.providerCount /\ q.alignment = p.alignment /\ q.portsAt = p.portsAt
        /\ q.statesAt = p.statesAt /\ q.providersAt = p.providersAt /\ q.commandsAt = p.commandsAt
    BY DEF SameSizes, PlanNumberFields, PlanCounts
  <1>3. /\ q.stream.commandCount = p.stream.commandCount /\ q.stream.operandCount = p.stream.operandCount
        /\ q.stream.operandsAt = p.stream.operandsAt /\ q.stream.payloadAt = p.stream.payloadAt
        /\ Len(q.stream.commands) = Len(p.stream.commands) /\ Len(q.stream.operands) = Len(p.stream.operands)
    BY DEF SameSizes, StreamNumberFields, StreamCounts
  <1>4. (PlanCounted(p) => PlanCounted(q)) /\ (PlanPlaced(p) => PlanPlaced(q))
    BY <1>1, <1>2 DEF PlanCounted, PlanPlaced
  <1>5. (StreamCounted(p.stream) => StreamCounted(q.stream)) /\ (StreamPlaced(p.stream) => StreamPlaced(q.stream))
    BY <1>3 DEF StreamCounted, StreamPlaced
  <1> QED BY <1>2, <1>4, <1>5 DEF Sized, Whole

\* What the rows of two tables are is kept with the tables.
LEMMA TypedKept ==
  ASSUME NEW p, NEW q, PlanRows(p), q.values = p.values, q.providers = p.providers
  PROVE  RowsTyped(q)
  BY DEF PlanRows, RowsTyped

\* A damaged shape is a shape, and a damaged provider row a provider row.
LEMMA OtherRowTyped ==
  ASSUME NEW row, NEW new \in OtherRows(row)
  PROVE  (HasShape(row) => HasShape(new)) /\ (ProviderDescriptor(row) => ProviderDescriptor(new))
  <1>1. PICK f \in FieldsOf(row) : new \in RowsOf(row, f)
    BY DEF OtherRows
  <1>2. PICK v \in Others(f, row[f]) : new = [row EXCEPT ![f] = v]
    BY <1>1 DEF RowsOf
  <1>3. f \in DOMAIN row
    BY DEF FieldsOf
  <1>4. ASSUME HasShape(row) PROVE HasShape(new)
    <2>1. CASE f # "shape"
      BY <1>2, <1>4, <2>1 DEF HasShape
    <2>2. CASE f = "shape"
      <3>1. v \in UNION {{[row.shape EXCEPT ![d] = n] : n \in Near(row.shape[d], MaxU64)} : d \in DOMAIN row.shape}
        BY <1>2, <2>2 DEF Others, DigestFields
      <3>2. PICK d \in DOMAIN row.shape : \E n \in Near(row.shape[d], MaxU64) : v = [row.shape EXCEPT ![d] = n]
        BY <3>1
      <3>3. PICK n \in Near(row.shape[d], MaxU64) : v = [row.shape EXCEPT ![d] = n]
        BY <3>2
      <3>4. n \in Nat
        BY StreamConstants DEF Near
      <3>5. v \in [1..MaxTensorRank -> Nat]
        BY <1>4, <3>3, <3>4 DEF HasShape
      <3>6. "shape" \in DOMAIN new /\ new.shape = v
        BY <1>2, <1>4, <2>2 DEF HasShape
      <3> QED BY <3>5, <3>6 DEF HasShape
    <2> QED BY <2>1, <2>2
  <1>5. ASSUME ProviderDescriptor(row) PROVE ProviderDescriptor(new)
    <2> DEFINE names == {"id", "major", "minor", "tags", "count", "captures", "reserved", "usage"}
    <2>1. DOMAIN row = names
      BY <1>5 DEF ProviderDescriptor
    <2>2. new = [g \in names |-> new[g]]
      BY <1>2, <2>1
    <2> QED BY <2>2 DEF ProviderDescriptor
  <1> QED BY <1>4, <1>5

\* New digests leave everything else.
LEMMA ResealedSame ==
  ASSUME NEW p, PlanRows(p)
  PROVE  PlanRows(Resealed(p)) /\ SameSizes(p, Resealed(p))
  <1> DEFINE s == p.stream
             stream == [s EXCEPT !.bodyDigest = Sha(Body(s))]
             sealed == [p EXCEPT !.stream = stream, !.commandDigest = Sha(stream)]
             q == [sealed EXCEPT !.bodyDigest = Sha(PlanBody(sealed))]
  <1>1. q = Resealed(p)
    BY DEF Resealed
  <1>2. /\ DOMAIN s = DOMAIN stream /\ \A f \in DOMAIN s : f # "bodyDigest" => stream[f] = s[f]
        /\ {"commands", "operands", "payload", "bodyDigest"} \subseteq DOMAIN s
    BY DEF PlanRows, StreamRows
  <1>3. /\ DOMAIN q = DOMAIN p
        /\ \A f \in DOMAIN p : f \notin {"stream", "commandDigest", "bodyDigest"} => q[f] = p[f]
        /\ q.stream = stream
    <2>1. {"stream", "commandDigest", "bodyDigest"} \subseteq DOMAIN p
      BY DEF PlanRows
    <2> HIDE DEF stream
    <2> QED BY <2>1
  <1>4. /\ \A t \in Tables4 : t \in DOMAIN p /\ t \notin {"stream", "commandDigest", "bodyDigest"}
        /\ \A f \in PlanNumberFields : f \in DOMAIN p /\ f \notin {"stream", "commandDigest", "bodyDigest"}
    <2>1. \A f \in PlanNumberFields : f \in DOMAIN p
      BY DEF PlanRows, Numbers
    <2>2. \A t \in Tables4 : t \in DOMAIN p /\ t \notin {"stream", "commandDigest", "bodyDigest"}
      BY FieldsAreNumbers DEF PlanRows, Tables4
    <2> QED BY <2>1, <2>2, FieldsAreNumbers
  <1>5. \A f \in StreamNumberFields : f \in DOMAIN s /\ f # "bodyDigest"
    BY FieldsAreNumbers DEF PlanRows, StreamRows, Numbers
  <1> HIDE DEF stream, sealed, q
  <1>6. /\ \A t \in Tables4 : q[t] = p[t]
        /\ \A f \in PlanNumberFields : q[f] = p[f]
        /\ \A f \in StreamNumberFields : stream[f] = s[f]
        /\ stream.commands = s.commands /\ stream.operands = s.operands
    BY <1>2, <1>3, <1>4, <1>5
  <1>7. StreamRows(stream)
    <2>1. StreamRows(s)
      BY DEF PlanRows
    <2> HIDE DEF s
    <2> QED BY <1>2, <1>5, <1>6, <2>1 DEF StreamRows, Numbers
  <1>8. PlanRows(q)
    <2>1. DOMAIN TableFields \cup {"stream", "commandDigest", "bodyDigest"} \subseteq DOMAIN q
      BY <1>3 DEF PlanRows
    <2>2. Numbers(q, PlanNumberFields)
      BY <1>3, <1>6 DEF PlanRows, Numbers
    <2>3. \A t \in DOMAIN TableFields : Rows(q[t], TableFields[t])
      BY <1>6, FieldsAreNumbers DEF PlanRows
    <2>4. RowsTyped(q)
      <3>1. q.values = p.values /\ q.providers = p.providers
        BY <1>6 DEF Tables4
      <3> QED BY <3>1, TypedKept
    <2> QED BY <1>3, <1>7, <2>1, <2>2, <2>3, <2>4 DEF PlanRows
  <1>9. SameSizes(p, q)
    BY <1>3, <1>6 DEF SameSizes
  <1> QED BY <1>1, <1>8, <1>9

\* A damaged field of the header leaves the counts or the offsets right.
LEMMA OtherHeaderSized ==
  ASSUME NEW p, Whole(p), NEW q \in OtherRows(p)
  PROVE  Sized(q)
  <1>1. PlanRows(p) /\ Numbers(p, PlanNumberFields)
    BY DEF Whole, PlanRows
  <1>2. /\ Numbers(q, PlanNumberFields) /\ DOMAIN q = DOMAIN p
        /\ \E f \in FieldsOf(p) : \A g \in DOMAIN p : g # f => q[g] = p[g]
    <2>1. PlanNumberFields \cap (DigestFields \cup {"tags", "arch", "shape"}) = {}
      BY FieldsAreNumbers
    <2> QED BY <1>1, <2>1, OtherRowNumbers
  <1>3. PICK f \in FieldsOf(p) : \A g \in DOMAIN p : g # f => q[g] = p[g]
    BY <1>2
  <1>4. /\ \A t \in Tables4 : q[t] = p[t]
        /\ q.stream = p.stream
    <2>1. Tables4 \cup {"stream"} \subseteq DOMAIN p
      BY <1>1, FieldsAreNumbers DEF PlanRows
    <2>2. f \notin Tables4 \cup {"stream"}
      BY DEF FieldsOf
    <2> QED BY <1>3, <2>1, <2>2
  <1>5. PlanRows(q)
    <2>1. DOMAIN TableFields \cup {"stream", "commandDigest", "bodyDigest"} \subseteq DOMAIN q
      BY <1>1, <1>2 DEF PlanRows
    <2>2. \A t \in DOMAIN TableFields : Rows(q[t], TableFields[t])
      BY <1>1, <1>4, FieldsAreNumbers DEF PlanRows
    <2>3. StreamRows(q.stream)
      BY <1>1, <1>4 DEF PlanRows
    <2>4. RowsTyped(q)
      <3>1. q.values = p.values /\ q.providers = p.providers
        BY <1>4 DEF Tables4
      <3> QED BY <1>1, <3>1, TypedKept
    <2> QED BY <1>2, <2>1, <2>2, <2>3, <2>4 DEF PlanRows
  <1>6. \A g \in PlanNumberFields : g # f => q[g] = p[g]
    BY <1>1, <1>3 DEF Numbers
  <1>7. /\ q.values = p.values /\ q.ports = p.ports /\ q.states = p.states /\ q.providers = p.providers
    BY <1>4 DEF Tables4
  <1>8. CASE f \in PlanCounts
    <2>1. /\ q.portsAt = p.portsAt /\ q.statesAt = p.statesAt /\ q.providersAt = p.providersAt
          /\ q.commandsAt = p.commandsAt
      BY <1>6, <1>8 DEF PlanNumberFields, PlanCounts
    <2> QED BY <1>4, <1>5, <1>7, <2>1 DEF Sized, Whole, PlanPlaced
  <1>9. CASE f \notin PlanCounts
    <2>1. /\ q.valueCount = p.valueCount /\ q.portCount = p.portCount /\ q.stateCount = p.stateCount
          /\ q.providerCount = p.providerCount
      BY <1>6, <1>9 DEF PlanNumberFields, PlanCounts
    <2> QED BY <1>4, <1>5, <1>7, <2>1 DEF Sized, Whole, PlanCounted
  <1> QED BY <1>8, <1>9

\* A damaged row leaves the sizes right.
LEMMA OtherTableSized ==
  ASSUME NEW p, Whole(p), NEW q \in WithTables(p, Tables4)
  PROVE  Sized(q)
  <1>0. PICK t \in Tables4 : \E rows \in OtherTables(p[t]) : q = [p EXCEPT ![t] = rows]
    BY DEF WithTables
  <1>1. PICK rows \in OtherTables(p[t]) : q = [p EXCEPT ![t] = rows]
    BY <1>0
  <1>2. PlanRows(p) /\ Rows(p[t], TableFields[t]) /\ t \in DOMAIN p
    BY FieldsAreNumbers DEF Whole, PlanRows
  <1>3. Rows(rows, TableFields[t]) /\ Len(rows) = Len(p[t])
    <2>1. TableFields[t] \cap (DigestFields \cup {"tags", "arch", "shape"}) = {}
      BY FieldsAreNumbers
    <2> QED BY <1>2, <2>1, OtherTableRows
  <1>4. /\ DOMAIN q = DOMAIN p /\ q[t] = rows
        /\ \A g \in DOMAIN p : g # t => q[g] = p[g]
    BY <1>1, <1>2
  <1>4a. DOMAIN rows = DOMAIN p[t] /\ \A j \in DOMAIN rows : rows[j] = p[t][j] \/ rows[j] \in OtherRows(p[t][j])
    <2>1. PICK k \in DOMAIN p[t] : \E row \in OtherRows(p[t][k]) : rows = [p[t] EXCEPT ![k] = row]
      BY <1>1 DEF OtherTables
    <2>2. PICK row \in OtherRows(p[t][k]) : rows = [p[t] EXCEPT ![k] = row]
      BY <2>1
    <2> QED BY <2>2
  <1>5. q.stream = p.stream /\ \A f \in PlanNumberFields : f \in DOMAIN p /\ q[f] = p[f]
    <2>1. "stream" \in DOMAIN p /\ \A f \in PlanNumberFields : f \in DOMAIN p
      BY <1>2 DEF PlanRows, Numbers
    <2>2. t # "stream" /\ t \notin PlanNumberFields
      BY FieldsAreNumbers DEF Tables4
    <2> QED BY <1>4, <2>1, <2>2
  <1>6. PlanRows(q)
    <2>1. DOMAIN TableFields \cup {"stream", "commandDigest", "bodyDigest"} \subseteq DOMAIN q
      BY <1>2, <1>4 DEF PlanRows
    <2>2. \A u \in DOMAIN TableFields : Rows(q[u], TableFields[u])
      <3>1. \A u \in DOMAIN TableFields : u \in DOMAIN p /\ Rows(p[u], TableFields[u])
        BY <1>2 DEF PlanRows
      <3> QED BY <1>3, <1>4, <3>1
    <2>3. Numbers(q, PlanNumberFields)
      BY <1>2, <1>4, <1>5 DEF PlanRows, Numbers
    <2>4. StreamRows(q.stream)
      BY <1>2, <1>5 DEF PlanRows
    <2>5. RowsTyped(q)
      <3>1. \A j \in DOMAIN q[t] : q[t][j] = p[t][j] \/ q[t][j] \in OtherRows(p[t][j])
        BY <1>4, <1>4a
      <3>2. DOMAIN q[t] = DOMAIN p[t] /\ \A u \in Tables4 : u # t => q[u] = p[u]
        BY <1>2, <1>4, <1>4a, FieldsAreNumbers DEF PlanRows
      <3>3. RowsTyped(p)
        BY <1>2 DEF PlanRows
      <3>4. \A k \in DOMAIN q.values : HasShape(q.values[k])
        <4>1. CASE t = "values"
          BY <3>1, <3>2, <3>3, <4>1, OtherRowTyped DEF RowsTyped
        <4>2. CASE t # "values"
          BY <3>2, <3>3, <4>2 DEF RowsTyped, Tables4
        <4> QED BY <4>1, <4>2
      <3>5. \A k \in DOMAIN q.providers : ProviderDescriptor(q.providers[k])
        <4>1. CASE t = "providers"
          BY <3>1, <3>2, <3>3, <4>1, OtherRowTyped DEF RowsTyped
        <4>2. CASE t # "providers"
          BY <3>2, <3>3, <4>2 DEF RowsTyped, Tables4
        <4> QED BY <4>1, <4>2
      <3> QED BY <3>4, <3>5 DEF RowsTyped
    <2> QED BY <2>1, <2>2, <2>3, <2>4, <2>5 DEF PlanRows
  <1>7. SameSizes(p, q)
    <2>1. \A u \in Tables4 : Len(q[u]) = Len(p[u])
      <3>1. \A u \in Tables4 : u \in DOMAIN p
        BY <1>2, FieldsAreNumbers DEF PlanRows
      <3> QED BY <1>3, <1>4, <3>1
    <2> QED BY <1>5, <2>1 DEF SameSizes
  <1> QED BY <1>6, <1>7, SizesKept DEF Sized, Whole

\* A damaged field or row of the command stream leaves its counts or offsets right.
LEMMA OtherStreamSized ==
  ASSUME NEW s, StreamRows(s), StreamCounted(s), StreamPlaced(s),
         NEW new \in OtherRows(s) \cup WithTables(s, {"commands", "operands"})
  PROVE  StreamRows(new) /\ (StreamCounted(new) \/ StreamPlaced(new))
  <1>1. /\ Numbers(s, StreamNumberFields) /\ Rows(s.commands, CommandFields) /\ Rows(s.operands, OperandFields)
        /\ {"commands", "operands", "payload", "bodyDigest"} \subseteq DOMAIN s
    BY DEF StreamRows
  <1>2. \A f \in StreamNumberFields : f \in DOMAIN s
    BY <1>1 DEF Numbers
  <1>3. CASE new \in OtherRows(s)
    <2>1. /\ Numbers(new, StreamNumberFields) /\ DOMAIN new = DOMAIN s
          /\ \E f \in FieldsOf(s) : \A g \in DOMAIN s : g # f => new[g] = s[g]
      <3>1. StreamNumberFields \cap (DigestFields \cup {"tags", "arch", "shape"}) = {}
        BY FieldsAreNumbers
      <3> QED BY <1>1, <1>3, <3>1, OtherRowNumbers
    <2>2. PICK f \in FieldsOf(s) : \A g \in DOMAIN s : g # f => new[g] = s[g]
      BY <2>1
    <2>3. new.commands = s.commands /\ new.operands = s.operands
      <3>1. f # "commands" /\ f # "operands"
        BY DEF FieldsOf
      <3> QED BY <1>1, <2>2, <3>1
    <2>4. StreamRows(new)
      BY <1>1, <2>1, <2>3 DEF StreamRows
    <2>5. \A g \in StreamNumberFields : g # f => new[g] = s[g]
      BY <1>2, <2>2
    <2>6. CASE f \in StreamCounts
      <3>1. new.operandsAt = s.operandsAt /\ new.payloadAt = s.payloadAt
        BY <2>5, <2>6 DEF StreamNumberFields, StreamCounts
      <3> QED BY <2>3, <2>4, <3>1 DEF StreamPlaced
    <2>7. CASE f \notin StreamCounts
      <3>1. new.commandCount = s.commandCount /\ new.operandCount = s.operandCount
        BY <2>5, <2>7 DEF StreamNumberFields, StreamCounts
      <3> QED BY <2>3, <2>4, <3>1 DEF StreamCounted
    <2> QED BY <2>6, <2>7
  <1>4. CASE new \in WithTables(s, {"commands", "operands"})
    <2>1. PICK t \in {"commands", "operands"} : \E rows \in OtherTables(s[t]) : new = [s EXCEPT ![t] = rows]
      BY <1>4 DEF WithTables
    <2>2. PICK rows \in OtherTables(s[t]) : new = [s EXCEPT ![t] = rows]
      BY <2>1
    <2> DEFINE fields == IF t = "commands" THEN CommandFields ELSE OperandFields
    <2>3. Rows(s[t], fields) /\ fields \cap (DigestFields \cup {"tags", "arch", "shape"}) = {}
      BY <1>1, FieldsAreNumbers
    <2> HIDE DEF fields
    <2>4. Rows(rows, fields) /\ Len(rows) = Len(s[t])
      BY <2>2, <2>3, OtherTableRows
    <2>5. /\ DOMAIN new = DOMAIN s /\ new[t] = rows
          /\ \A g \in DOMAIN s : g # t => new[g] = s[g]
      BY <1>1, <2>2
    <2>6. \A f \in StreamNumberFields : f \in DOMAIN new /\ new[f] = s[f]
      <3>1. t \notin StreamNumberFields
        BY FieldsAreNumbers
      <3> QED BY <1>2, <2>5, <3>1
    <2>7. /\ Rows(new.commands, CommandFields) /\ Len(new.commands) = Len(s.commands)
          /\ Rows(new.operands, OperandFields) /\ Len(new.operands) = Len(s.operands)
      <3>1. CASE t = "commands"
        BY <1>1, <2>4, <2>5, <3>1 DEF fields
      <3>2. CASE t = "operands"
        BY <1>1, <2>4, <2>5, <3>2 DEF fields
      <3> QED BY <3>1, <3>2
    <2>8. Numbers(new, StreamNumberFields)
      BY <1>1, <2>6 DEF Numbers
    <2>9. StreamRows(new)
      BY <1>1, <2>5, <2>7, <2>8 DEF StreamRows
    <2>10. StreamCounted(new)
      <3>1. new.commandCount = s.commandCount /\ new.operandCount = s.operandCount
        BY <2>6 DEF StreamNumberFields, StreamCounts
      <3> QED BY <2>7, <3>1 DEF StreamCounted
    <2> QED BY <2>9, <2>10
  <1> QED BY <1>3, <1>4

\* So does all damage of a whole plan.
LEMMA DamageSized ==
  ASSUME NEW p, Whole(p), NEW q \in OtherPlans(p)
  PROVE  Sized(q)
  <1>1. CASE q \in OtherRows(p)
    BY <1>1, OtherHeaderSized
  <1>2. CASE q \in WithTables(p, Tables4)
    BY <1>2, OtherTableSized
  <1>3. ASSUME NEW s \in OtherRows(p.stream) \cup WithTables(p.stream, {"commands", "operands"}),
               q = [p EXCEPT !.stream = s]
        PROVE  Sized(q)
    <2>1. PlanRows(p) /\ StreamRows(p.stream) /\ StreamCounted(p.stream) /\ StreamPlaced(p.stream)
      BY DEF Whole, PlanRows
    <2>2. StreamRows(s) /\ (StreamCounted(s) \/ StreamPlaced(s))
      BY <2>1, OtherStreamSized
    <2>3. "stream" \in DOMAIN p /\ "stream" \notin PlanNumberFields /\ "stream" \notin Tables4
      BY <2>1, FieldsAreNumbers DEF PlanRows, Tables4
    <2>4. q.stream = s /\ DOMAIN q = DOMAIN p /\ \A f \in DOMAIN p : f # "stream" => q[f] = p[f]
      BY <1>3, <2>3
    <2>5. \A f \in PlanNumberFields : f \in DOMAIN p /\ q[f] = p[f]
      BY <2>1, <2>3, <2>4 DEF PlanRows, Numbers
    <2>6. \A t \in DOMAIN TableFields : t \in DOMAIN p /\ q[t] = p[t]
      BY <2>1, <2>3, <2>4, FieldsAreNumbers DEF PlanRows
    <2>7. PlanRows(q)
      <3>1. Numbers(q, PlanNumberFields)
        BY <2>1, <2>4, <2>5 DEF PlanRows, Numbers
      <3>2. \A t \in DOMAIN TableFields : Rows(q[t], TableFields[t])
        BY <2>1, <2>6 DEF PlanRows
      <3>3. DOMAIN TableFields \cup {"stream", "commandDigest", "bodyDigest"} \subseteq DOMAIN q
        BY <2>1, <2>4 DEF PlanRows
      <3>4. RowsTyped(q)
        <4>1. q.values = p.values /\ q.providers = p.providers
          BY <2>6, FieldsAreNumbers DEF Tables4
        <4> QED BY <2>1, <4>1, TypedKept
      <3> QED BY <2>2, <2>4, <3>1, <3>2, <3>3, <3>4 DEF PlanRows
    <2>8. PlanCounted(q)
      <3>1. PlanCounted(p)
        BY DEF Whole
      <3>2. q.valueCount = p.valueCount /\ q.portCount = p.portCount /\ q.stateCount = p.stateCount /\ q.providerCount = p.providerCount
        BY <2>5 DEF PlanNumberFields, PlanCounts
      <3>3. q.values = p.values /\ q.ports = p.ports /\ q.states = p.states /\ q.providers = p.providers
        BY <2>6, FieldsAreNumbers DEF Tables4
      <3> QED BY <3>1, <3>2, <3>3 DEF PlanCounted
    <2> QED BY <2>2, <2>4, <2>7, <2>8 DEF Sized
  <1> QED BY <1>1, <1>2, <1>3 DEF OtherPlans

\* A plan laid out again after it lost or gained a row has its counts right.
LEMMA ResizeSized ==
  ASSUME NEW p, Whole(p), NEW q \in OtherTableSizes(p), PlanRows(q)
  PROVE  Sized(q)
  <1>1. PICK t \in {"ports", "states", "providers"} : \E rows \in OtherLengths(p[t]) : q = Relaid([p EXCEPT ![t] = rows])
    BY DEF OtherTableSizes
  <1>2. PICK rows \in OtherLengths(p[t]) : q = Relaid([p EXCEPT ![t] = rows])
    BY <1>1
  <1> DEFINE r == [p EXCEPT ![t] = rows]
             counted == [r EXCEPT !.portCount = Len(r.ports), !.stateCount = Len(r.states), !.providerCount = Len(r.providers)]
             at == [u \in 1..5 |-> TableAt(counted, u)]
             relaid == [counted EXCEPT !.valuesAt = at[1], !.portsAt = at[2], !.statesAt = at[3], !.providersAt = at[4],
                                       !.commandsAt = at[5], !.sectionSize = PlanSize(counted)]
  <1>3. q = relaid
    BY <1>2 DEF Relaid
  <1>4. /\ {"values", "ports", "states", "providers", "stream"} \subseteq DOMAIN p
        /\ {"valueCount", "portCount", "stateCount", "providerCount"} \subseteq DOMAIN p
    BY FieldsAreNumbers DEF Whole, PlanRows, Tables4, Numbers, PlanNumberFields, PlanCounts
  <1>5. DOMAIN r = DOMAIN p /\ r.values = p.values /\ r.stream = p.stream /\ r.valueCount = p.valueCount
    BY <1>4
  <1> HIDE DEF r
  <1>6. /\ DOMAIN counted = DOMAIN p /\ counted.values = r.values /\ counted.ports = r.ports
        /\ counted.states = r.states /\ counted.providers = r.providers /\ counted.stream = r.stream
        /\ counted.valueCount = r.valueCount /\ counted.portCount = Len(r.ports)
        /\ counted.stateCount = Len(r.states) /\ counted.providerCount = Len(r.providers)
    BY <1>4, <1>5
  <1> HIDE DEF counted, at
  <1>7. /\ relaid.values = counted.values /\ relaid.ports = counted.ports /\ relaid.states = counted.states
        /\ relaid.providers = counted.providers /\ relaid.stream = counted.stream
        /\ relaid.valueCount = counted.valueCount /\ relaid.portCount = counted.portCount
        /\ relaid.stateCount = counted.stateCount /\ relaid.providerCount = counted.providerCount
    BY <1>4, <1>6
  <1> HIDE DEF relaid
  <1>8. PlanCounted(p) /\ StreamCounted(p.stream)
    BY DEF Whole
  <1>9. PlanCounted(q)
    BY <1>3, <1>5, <1>6, <1>7, <1>8 DEF PlanCounted
  <1>10. StreamCounted(q.stream)
    BY <1>3, <1>5, <1>6, <1>7, <1>8
  <1> QED BY <1>9, <1>10 DEF Sized

\* A value record with other storage is still a record of numbers.
LEMMA OtherStorageNumbers ==
  ASSUME NEW p, Whole(p), NEW row, Numbers(row, TableFields.values), HasShape(row), NEW v \in OtherStorage(p, row)
  PROVE  Numbers(v, TableFields.values) /\ DOMAIN v = DOMAIN row /\ v.shape = row.shape
  <1>1. TableFields.values = {"id", "region", "alias", "rank", "offset", "bytes", "allocation"}
    BY DEF TableFields
  <1>2. /\ {"id", "region", "alias", "rank", "offset", "bytes", "allocation"} \subseteq DOMAIN row
        /\ row.id \in 0..MaxU64 /\ row.bytes \in 0..MaxU64 /\ row.rank \in 0..MaxU64
    BY <1>1 DEF Numbers
  <1>3. /\ 0 \in 0..MaxU64 /\ None \in 0..MaxU64 /\ \A r \in Regions : r \in 0..MaxU64
        /\ MaxU64 \in Nat
    BY StreamConstants, PlanConstants DEF Regions, None
  <1>4. p.alignment \in 1..MaxU64 /\ p.valueCount \in 0..MaxU64
    <2>1. p.alignment \in 0..MaxU64 /\ p.valueCount \in 0..MaxU64
      BY DEF Whole, PlanRows, Numbers, PlanNumberFields, PlanCounts
    <2> QED BY <2>1 DEF Whole
  <1> DEFINE Stands(region, alias, at, size) ==
               /\ DOMAIN v = DOMAIN row /\ v.id = row.id /\ v.bytes = row.bytes /\ v.rank = row.rank /\ v.shape = row.shape
               /\ v.region = region /\ v.alias = alias /\ v.offset = at /\ v.allocation = size
               /\ {region, alias, at, size} \subseteq 0..MaxU64
  <1>5. ASSUME NEW region, NEW alias, NEW at, NEW size, Stands(region, alias, at, size)
        PROVE  Numbers(v, TableFields.values) /\ DOMAIN v = DOMAIN row /\ v.shape = row.shape
    BY <1>1, <1>2, <1>5 DEF Numbers
  <1>6. \E region, alias, at, size : Stands(region, alias, at, size)
    <2>1. CASE v \in AliasStorage(p, row)
      <3>1. PICK to \in 0..p.valueCount :
              v = [row EXCEPT !.region = Alias, !.alias = to, !.offset = 0, !.allocation = 0, !.digest = NoDigest]
        BY <2>1 DEF AliasStorage
      <3>2. {Alias, to, 0, 0} \subseteq 0..MaxU64
        BY <1>3, <1>4 DEF Alias, Regions
      <3>3. Stands(Alias, to, 0, 0)
        BY <1>2, <3>1, <3>2
      <3> QED BY <3>3
    <2>2. CASE v \in BoundStorage(row)
      <3> DEFINE size(region) == IF region = Unused THEN 0 ELSE row.bytes
      <3>1. PICK region \in {Unused} \cup External : v = InRegion(row, region, 0, size(region), NoDigest)
        BY <2>2 DEF BoundStorage
      <3>2. region \in Regions
        BY DEF Unused, External, ExternalInput, ExternalOutput, Regions
      <3>3. {region, None, 0, size(region)} \subseteq 0..MaxU64
        BY <1>2, <1>3, <3>2
      <3> HIDE DEF size
      <3>4. Stands(region, None, 0, size(region))
        BY <1>2, <3>1, <3>3 DEF InRegion
      <3> QED BY <3>4
    <2>3. CASE v \in StoredStorage(p, row)
      <3>1. \E region \in Stored, at \in Starts(p), size \in Sizes(row) :
              v = InRegion(row, region, at, size, IF region = Weights THEN OtherDigest ELSE NoDigest)
        BY <2>3 DEF StoredStorage
      <3>2. PICK region \in Stored : \E at \in Starts(p), size \in Sizes(row) :
              v = InRegion(row, region, at, size, IF region = Weights THEN OtherDigest ELSE NoDigest)
        BY <3>1
      <3>3. PICK at \in Starts(p) : \E size \in Sizes(row) :
              v = InRegion(row, region, at, size, IF region = Weights THEN OtherDigest ELSE NoDigest)
        BY <3>2
      <3>4. PICK size \in Sizes(row) :
              v = InRegion(row, region, at, size, IF region = Weights THEN OtherDigest ELSE NoDigest)
        BY <3>3
      <3>5. at \in 0..MaxU64 /\ size \in 0..MaxU64
        BY <1>3, <1>4 DEF Starts, Sizes
      <3>6. region \in Regions
        BY DEF Stored, Weights, State, Arena, Regions
      <3>7. {region, None, at, size} \subseteq 0..MaxU64
        BY <1>3, <3>5, <3>6
      <3>8. Stands(region, None, at, size)
        BY <1>2, <3>4, <3>7 DEF InRegion
      <3> QED BY <3>8
    <2> HIDE DEF Stands
    <2> QED BY <2>1, <2>2, <2>3 DEF OtherStorage
  <1> HIDE DEF Stands
  <1> QED BY <1>5, <1>6

\* A rewritten plan can be rewritten again.
LEMMA RewriteWhole ==
  ASSUME NEW p, Whole(p), NEW k \in DOMAIN p.values, NEW v \in OtherStorage(p, p.values[k])
  PROVE  Whole([p EXCEPT !.values[k] = v])
  <1> DEFINE rows == p.values
             n == Len(rows)
             new == [rows EXCEPT ![k] = v]
             q == [p EXCEPT !.values = new]
             fields == TableFields.values
  <1>1. [p EXCEPT !.values[k] = v] = q
    OBVIOUS
  <1>2. PlanRows(p) /\ Rows(rows, fields) /\ "values" \in DOMAIN p
    BY FieldsAreNumbers DEF Whole, PlanRows, Tables4
  <1>3. n \in 0..MaxU64 /\ n \in Nat /\ DOMAIN rows = 1..n /\ \A j \in 1..n : Numbers(rows[j], fields)
    BY <1>2 DEF Rows
  <1>3a. HasShape(rows[k])
    BY <1>2, <1>3 DEF PlanRows, RowsTyped
  <1>4. Numbers(v, fields) /\ DOMAIN v = DOMAIN rows[k] /\ v.shape = rows[k].shape
    BY <1>3, <1>3a, OtherStorageNumbers
  <1> HIDE DEF n, fields
  <1>5. Rows(new, fields) /\ Len(new) = n
    <2>1. new = [j \in 1..n |-> IF j = k THEN v ELSE rows[j]]
      BY <1>3
    <2>2. \A j \in 1..n : Numbers(new[j], fields)
      BY <1>3, <1>4, <2>1
    <2> HIDE DEF new
    <2>3. DOMAIN new = 1..n /\ Len(new) = n /\ new = [j \in 1..n |-> new[j]]
      BY <1>3, <2>1, LenOfFunction
    <2> QED BY <1>3, <2>2, <2>3 DEF Rows
  <1> HIDE DEF new
  <1>6. DOMAIN q = DOMAIN p /\ q.values = new /\ \A f \in DOMAIN p : f # "values" => q[f] = p[f]
    BY <1>2
  <1>7. "values" \notin PlanNumberFields \cup {"stream", "commandDigest", "bodyDigest"}
    BY FieldsAreNumbers DEF Tables4
  <1>8. q.stream = p.stream /\ \A f \in PlanNumberFields : f \in DOMAIN p /\ q[f] = p[f]
    BY <1>2, <1>6, <1>7 DEF PlanRows, Numbers
  <1>9. \A t \in DOMAIN TableFields : t \in DOMAIN p /\ Rows(q[t], TableFields[t]) /\ Len(q[t]) = Len(p[t])
    <2>1. ASSUME NEW t \in DOMAIN TableFields
          PROVE  t \in DOMAIN p /\ Rows(q[t], TableFields[t]) /\ Len(q[t]) = Len(p[t])
      <3>1. t \in DOMAIN p /\ Rows(p[t], TableFields[t])
        BY <1>2 DEF PlanRows
      <3>2. CASE t = "values"
        BY <1>5, <1>6, <3>1, <3>2 DEF n, fields
      <3>3. CASE t # "values"
        BY <1>6, <3>1, <3>3
      <3> QED BY <3>2, <3>3
    <2> QED BY <2>1
  <1> HIDE DEF q
  <1>10. PlanRows(q)
    <2>1. DOMAIN TableFields \cup {"stream", "commandDigest", "bodyDigest"} \subseteq DOMAIN q
      BY <1>2, <1>6 DEF PlanRows
    <2>2. Numbers(q, PlanNumberFields) /\ StreamRows(q.stream)
      BY <1>2, <1>6, <1>8 DEF PlanRows, Numbers
    <2>3. RowsTyped(q)
      <3>1. RowsTyped(p) /\ HasShape(rows[k])
        BY <1>2 DEF PlanRows, RowsTyped
      <3>2. HasShape(v)
        BY <1>4, <3>1 DEF HasShape
      <3>3. \A j \in DOMAIN q.values : j \in DOMAIN rows /\ (q.values[j] = v \/ q.values[j] = rows[j])
        BY <1>6 DEF new
      <3>4. "providers" \in DOMAIN p /\ q.providers = p.providers
        BY <1>2, <1>6, FieldsAreNumbers DEF PlanRows, Tables4
      <3>5. \A j \in DOMAIN q.values : HasShape(q.values[j])
        BY <3>1, <3>2, <3>3 DEF RowsTyped
      <3> QED BY <3>1, <3>4, <3>5 DEF RowsTyped
    <2> QED BY <1>9, <2>1, <2>2, <2>3 DEF PlanRows
  <1>11. SameSizes(p, q)
    BY <1>8, <1>9, FieldsAreNumbers DEF SameSizes
  <1> QED BY <1>1, <1>10, <1>11, SizesKept

\* What the compiler writes is whole: its own reader computes the offsets from the counts.
LEMMA CompiledWhole ==
  ASSUME NEW in \in Requests, NEW p \in CompileExecutablePlan(in)
  PROVE  Whole(p)
  <1>1. DecodedPlan(p)
    BY PackageAssumption
  <1>2. PyPlanHeader(p, p.arch, in.weightsBytes) /\ PyStreamHeader(p.stream)
    BY DEF CompileExecutablePlan, PyParse, FromBytes
  <1>3. p.alignment # 0
    BY <1>2 DEF PyPlanHeader
  <1>4. PlanPlaced(p)
    <2>4. TablesPlaced(p)
      BY <1>2, PyTablesPlaced DEF PyPlanHeader
    <2>5. {p.valueCount, p.portCount, p.stateCount, p.providerCount} \subseteq Nat
      BY <1>1, RowNumbers DEF DecodedPlan, PlanNumberFields, PlanCounts
    <2>6. /\ TableAt(p, 2) = HeaderSize + p.valueCount
          /\ TableAt(p, 3) = HeaderSize + p.valueCount + p.portCount
          /\ TableAt(p, 4) = HeaderSize + p.valueCount + p.portCount + p.stateCount
          /\ TableAt(p, 5) = HeaderSize + p.valueCount + p.portCount + p.stateCount + p.providerCount
      BY <2>5, TableOffsets
    <2> QED BY <1>1, <2>4, <2>6 DEF DecodedPlan, PlanCounted, PlanPlaced, TablesPlaced
  <1>5. StreamPlaced(p.stream)
    <2>1. /\ p.stream.operandsAt = HeaderSize + p.stream.commandCount
          /\ p.stream.payloadAt = p.stream.operandsAt + p.stream.operandCount
      BY <1>2 DEF PyStreamHeader
    <2> QED BY <1>1, <2>1 DEF DecodedPlan, StreamCounted, StreamPlaced
  <1> QED BY <1>1, <1>3, <1>4, <1>5 DEF DecodedPlan, Whole

\* A stored plan that is replaced by another one keeps its record.
LEMMA StoreKeeps ==
  ASSUME StoredInv, stored # NoFile, NEW p, NEW rewrites \in 0..MaxRewrites, Store(p, rewrites),
         Sized(p), rewrites < MaxRewrites => Whole(p)
  PROVE  StoredInv'
  <1>1. stored = [plan |-> stored.plan, arch |-> stored.arch, weights |-> stored.weights, rewrites |-> stored.rewrites]
    BY DEF StoredInv
  <1>2. stored' = [plan |-> p, arch |-> stored.arch, weights |-> stored.weights, rewrites |-> rewrites]
    BY <1>1 DEF Store
  <1>3. stored'.plan = p /\ stored'.rewrites = rewrites /\ stored'.arch = stored.arch /\ stored'.weights = stored.weights
    BY <1>2
  <1>4. StoredInv' = (stored' # NoFile =>
          /\ stored' = [plan |-> stored'.plan, arch |-> stored'.arch, weights |-> stored'.weights, rewrites |-> stored'.rewrites]
          /\ stored'.rewrites \in 0..MaxRewrites
          /\ Sized(stored'.plan)
          /\ stored'.rewrites < MaxRewrites => Whole(stored'.plan))
    BY DEF StoredInv
  <1> QED BY <1>2, <1>3, <1>4

\* New digests and a size that is right, whatever the plan was changed in.
LEMMA ResealedSized ==
  ASSUME NEW p
  PROVE  (Sized(p) => Sized(Resealed(p))) /\ (Whole(p) => Whole(Resealed(p)))
  <1>1. CASE PlanRows(p)
    <2>1. PlanRows(Resealed(p)) /\ SameSizes(p, Resealed(p))
      BY <1>1, ResealedSame
    <2> QED BY <2>1, SizesKept
  <1>2. CASE ~PlanRows(p)
    BY <1>2 DEF Sized, Whole
  <1> QED BY <1>1, <1>2

\* Initially nothing is stored, and each step stores a plan whose counts or offsets are right.
LEMMA StoredInvariant == PackageSpec => []StoredInv
  <1>1. PackageInit => StoredInv
    BY DEF PackageInit, StoredInv
  <1>2. StoredInv /\ [PackageNext]_packageVars => StoredInv'
    <2> SUFFICES ASSUME StoredInv, [PackageNext]_packageVars PROVE StoredInv'
      OBVIOUS
    <2>1. ASSUME UNCHANGED stored PROVE StoredInv'
      BY <2>1 DEF StoredInv
    <2>2. ASSUME NEW in \in Requests, WritePlan(in) PROVE StoredInv'
      <3>1. PICK p \in CompileExecutablePlan(in) :
              stored' = [plan |-> p, arch |-> p.arch, weights |-> p.weightsBytes, rewrites |-> 0]
        BY <2>2 DEF WritePlan
      <3>2. Whole(p) /\ Sized(p)
        BY CompiledWhole DEF Whole, Sized
      <3>3. stored'.plan = p /\ stored'.rewrites = 0 /\ stored'.arch = p.arch /\ stored'.weights = p.weightsBytes
        BY <3>1
      <3>4. 0 \in 0..MaxRewrites
        BY PackageAssumption
      <3> QED BY <3>1, <3>2, <3>3, <3>4 DEF StoredInv
    <2>3. stored # NoFile => MaxRewrites \in 0..MaxRewrites /\ Sized(stored.plan)
      BY PackageAssumption DEF StoredInv
    <2>4. stored # NoFile /\ stored.rewrites = 0 => Whole(stored.plan)
      BY PackageAssumption DEF StoredInv
    <2>5. CASE Damage
      <3>1. PICK p \in OtherPlans(stored.plan) : \E q \in {p, Resealed(p)} : Store(q, MaxRewrites)
        BY <2>5 DEF Damage
      <3>2. PICK q \in {p, Resealed(p)} : Store(q, MaxRewrites)
        BY <3>1
      <3>3. stored # NoFile /\ Whole(stored.plan)
        BY <2>4, <2>5 DEF Damage
      <3>4. Sized(p)
        BY <3>3, DamageSized
      <3>5. Sized(q)
        BY <3>4, ResealedSized
      <3>6. ~(MaxRewrites < MaxRewrites)
        BY PackageAssumption
      <3> QED BY <2>3, <3>2, <3>3, <3>5, <3>6, StoreKeeps
    <2>6. CASE Resize
      <3>1. PICK p \in OtherTableSizes(stored.plan) : PlanRows(p) /\ Store(Resealed(p), MaxRewrites)
        BY <2>6 DEF Resize
      <3>2. stored # NoFile /\ Whole(stored.plan)
        BY <2>4, <2>6 DEF Resize
      <3>3. Sized(p)
        BY <3>1, <3>2, ResizeSized
      <3>4. Sized(Resealed(p))
        BY <3>3, ResealedSized
      <3>5. ~(MaxRewrites < MaxRewrites)
        BY PackageAssumption
      <3> QED BY <2>3, <3>1, <3>2, <3>4, <3>5, StoreKeeps
    <2>7. CASE Rewrite
      <3>1. PICK k \in DOMAIN stored.plan.values : \E v \in OtherStorage(stored.plan, stored.plan.values[k]) :
              Store(Resealed([stored.plan EXCEPT !.values[k] = v]), stored.rewrites + 1)
        BY <2>7 DEF Rewrite
      <3>2. PICK v \in OtherStorage(stored.plan, stored.plan.values[k]) :
              Store(Resealed([stored.plan EXCEPT !.values[k] = v]), stored.rewrites + 1)
        BY <3>1
      <3>3. stored # NoFile /\ stored.rewrites < MaxRewrites /\ Whole(stored.plan) /\ stored.rewrites \in 0..MaxRewrites
        BY <2>7 DEF Rewrite, StoredInv
      <3>4. stored.rewrites + 1 \in 0..MaxRewrites
        BY <3>3, PackageAssumption
      <3>5. Whole([stored.plan EXCEPT !.values[k] = v])
        BY <3>3, RewriteWhole
      <3>6. /\ Whole(Resealed([stored.plan EXCEPT !.values[k] = v]))
            /\ Sized(Resealed([stored.plan EXCEPT !.values[k] = v]))
        BY <3>5, ResealedSized DEF Whole, Sized
      <3> QED BY <3>2, <3>3, <3>4, <3>6, StoreKeeps
    <2>8. CASE UNCHANGED packageVars
      BY <2>1, <2>8 DEF packageVars
    <2>9. CASE scenario = "compile" /\ PipelineNext /\ UNCHANGED <<scenario, stored, apiVars>>
      BY <2>1, <2>9
    <2>10. CASE scenario = "serve" /\ ApiNext /\ UNCHANGED <<scenario, stored, pipelineVars>>
      BY <2>1, <2>10
    <2> QED BY <2>2, <2>5, <2>6, <2>7, <2>8, <2>9, <2>10 DEF PackageNext
  <1> QED BY <1>1, <1>2, PTL DEF PackageSpec

-----------------------------------------------------------------------------
(* The two parsers read command streams alike: from_bytes compares each      *)
(* span with sums, ParseCommandStream carries them from command to command.  *)

First(g, m) == [j \in 1..m |-> g[j]]
AddsUp(k, n, g) ==
  /\ k \in [0..n -> Nat] /\ k[0] = 0 /\ \A d \in 1..n : k[d] = k[d - 1] + g[d]
  /\ \A m \in 0..n : Total(First(g, m)) = k[m]

\* The numbers of a function add up from its first to its last.
LEMMA TotalSums ==
  ASSUME NEW n \in Nat, NEW g, \A d \in 1..n : g[d] \in Nat
  PROVE  \E k : AddsUp(k, n, g)
  <1> DEFINE Sums(k, m) == k[0] = 0 /\ \A d \in 1..m : k[d] = k[d - 1] + g[d]
  <1>1. ASSUME NEW m \in 0..n
        PROVE  \E k \in [0..m -> Nat] : Sums(k, m) /\ Total(First(g, m)) = k[m]
    <2>1. m \in Nat /\ First(g, m) \in [1..m -> Nat] /\ \A d \in 1..m : First(g, m)[d] = g[d]
      BY DEF First
    <2>2. PICK k \in [0..m -> Nat] :
            k[0] = 0 /\ (\A d \in 1..m : k[d] = k[d - 1] + First(g, m)[d]) /\ Total(First(g, m)) = k[m]
      BY <2>1, TotalSteps
    <2> QED BY <2>1, <2>2
  <1>2. n \in 0..n
    OBVIOUS
  <1>3. PICK k \in [0..n -> Nat] : Sums(k, n) /\ Total(First(g, n)) = k[n]
    BY <1>1, <1>2
  <1>4. ASSUME NEW m \in 0..n PROVE Total(First(g, m)) = k[m]
    <2>1. PICK h \in [0..m -> Nat] : Sums(h, m) /\ Total(First(g, m)) = h[m]
      BY <1>1
    <2> DEFINE S == {d \in 0..m : h[d] = k[d]}
    <2>2. 0 \in S /\ \A d \in 1..m : d - 1 \in S => d \in S
      BY <1>3, <2>1
    <2>3. m \in Nat /\ m \in 0..m
      OBVIOUS
    <2> HIDE DEF S
    <2>4. m \in S
      BY <2>2, <2>3, UpTo
    <2> QED BY <2>1, <2>4 DEF S
  <1> QED BY <1>3, <1>4 DEF AddsUp

\* A part of a sequence.
LEMMA Cut ==
  ASSUME NEW seq, NEW first \in Nat, NEW count \in Nat
  PROVE  /\ Len(SubSeq(seq, first + 1, first + count)) = count
         /\ SubSeq(seq, first + 1, first + count) = [k \in 1..count |-> seq[first + k]]
         /\ \A x : x \in ToSet(SubSeq(seq, first + 1, first + count)) <=> \E k \in 1..count : x = seq[first + k]
  <1> DEFINE cut == SubSeq(seq, first + 1, first + count)
             S == {seq[m] : m \in Int}
  <1>1. /\ \A k \in (first + 1)..(first + count) : seq[k] \in S
        /\ first + 1 \in Int /\ first + count \in Int
    OBVIOUS
  <1> HIDE DEF S
  <1>2. /\ cut \in Seq(S)
        /\ Len(cut) = IF first + 1 <= first + count THEN (first + count) - (first + 1) + 1 ELSE 0
        /\ \A k \in 1..((first + count) - (first + 1) + 1) : cut[k] = seq[(first + 1) + k - 1]
    BY <1>1, SubSeqProperties
  <1> HIDE DEF cut
  <1>3. Len(cut) = count
    BY <1>2
  <1>4. \A k \in 1..count : k \in 1..((first + count) - (first + 1) + 1) /\ (first + 1) + k - 1 = first + k
    OBVIOUS
  <1>5. \A k \in 1..count : cut[k] = seq[first + k]
    BY <1>2, <1>4
  <1>6. DOMAIN cut = 1..count /\ cut = [k \in DOMAIN cut |-> cut[k]]
    BY <1>2, <1>3
  <1>7. cut = [k \in 1..count |-> seq[first + k]]
    BY <1>5, <1>6
  <1>8. \A x : x \in ToSet(cut) <=> \E k \in 1..count : x = seq[first + k]
    BY <1>5, <1>6 DEF ToSet
  <1> QED BY <1>3, <1>7, <1>8 DEF cut

\* Running sums of the operands and of the payload of the commands.
SumsOf(s, operands, payload) ==
  LET n == s.commandCount
  IN /\ operands \in [0..n -> Nat] /\ operands[0] = 0
     /\ \A d \in 1..n : operands[d] = operands[d - 1] + s.commands[d].count
     /\ payload \in [0..n -> Nat] /\ payload[0] = 0
     /\ \A d \in 1..n : payload[d] = payload[d - 1] + s.commands[d].size
TotalsOf(s, operands, payload) ==
  \A m \in 0..s.commandCount :
    /\ Total([j \in 1..m |-> s.commands[j].count]) = operands[m]
    /\ Total([j \in 1..m |-> s.commands[j].size]) = payload[m]

\* The totals of from_bytes are such sums.
LEMMA StreamSums ==
  ASSUME NEW s, DecodedStream(s)
  PROVE  \E operands, payload : SumsOf(s, operands, payload) /\ TotalsOf(s, operands, payload)
  <1> DEFINE n == s.commandCount
             counts == [j \in 1..n |-> s.commands[j].count]
             sizes == [j \in 1..n |-> s.commands[j].size]
  <1>1. n \in Nat /\ \A d \in 1..n : s.commands[d].count \in Nat /\ s.commands[d].size \in Nat
    BY StreamNumbers
  <1>2. /\ \A d \in 1..n : counts[d] = s.commands[d].count /\ sizes[d] = s.commands[d].size
        /\ \A m \in 0..n : /\ [j \in 1..m |-> s.commands[j].count] = First(counts, m)
                           /\ [j \in 1..m |-> s.commands[j].size] = First(sizes, m)
    BY <1>1 DEF First
  <1> HIDE DEF n, counts, sizes
  <1>3. PICK operands : AddsUp(operands, n, counts)
    <2>1. \A d \in 1..n : counts[d] \in Nat
      BY <1>1, <1>2
    <2> QED BY <1>1, <2>1, TotalSums
  <1>4. PICK payload : AddsUp(payload, n, sizes)
    <2>1. \A d \in 1..n : sizes[d] \in Nat
      BY <1>1, <1>2
    <2> QED BY <1>1, <2>1, TotalSums
  <1>5. SumsOf(s, operands, payload)
    BY <1>2, <1>3, <1>4 DEF SumsOf, AddsUp, n
  <1>6. TotalsOf(s, operands, payload)
    BY <1>2, <1>3, <1>4 DEF TotalsOf, AddsUp, n
  <1> QED BY <1>5, <1>6

\* What the runtime has counted when it is past command d, as long as it refused none.
Counted(operands, payload, d) == [ok |-> TRUE, operand |-> operands[d], payload |-> payload[d]]

\* The runtime refuses no command exactly when each is acceptable after the sums of those before it.
LEMMA ScanAccepts ==
  ASSUME NEW s, DecodedStream(s), NEW operands, NEW payload, SumsOf(s, operands, payload)
  PROVE  Scan(s) = [ok |-> TRUE, operand |-> s.operandCount, payload |-> s.payloadBytes]
           <=> /\ \A d \in 1..s.commandCount : CommandAccepted(s, d, Counted(operands, payload, d - 1))
               /\ operands[s.commandCount] = s.operandCount
               /\ payload[s.commandCount] = s.payloadBytes
  <1> DEFINE n == s.commandCount
             final == [ok |-> TRUE, operand |-> s.operandCount, payload |-> s.payloadBytes]
             each == \A d \in 1..n : CommandAccepted(s, d, Counted(operands, payload, d - 1))
  <1>1. n \in Nat
    BY StreamNumbers
  <1>2. PICK k \in [0..n -> Progress] : Scanned(k, s) /\ Scan(s) = k[n]
    BY StreamScan
  <1>3. /\ k[0] = [ok |-> TRUE, operand |-> 0, payload |-> 0]
        /\ \A d \in 1..n : k[d] = AfterCommand(s, k[d - 1], d)
    <2> HIDE DEF n
    <2>1. k = [d \in 0..n |-> IF d = 0 THEN [ok |-> TRUE, operand |-> 0, payload |-> 0]
                              ELSE AfterCommand(s, k[d - 1], d)]
      BY <1>2 DEF Scanned, n
    <2>2. 0 \in 0..n /\ \A d \in 1..n : d \in 0..n /\ d # 0
      BY <1>1
    <2> QED BY <2>1, <2>2
  <1>4. /\ operands[0] = 0 /\ \A d \in 1..n : operands[d] = operands[d - 1] + s.commands[d].count
        /\ payload[0] = 0 /\ \A d \in 1..n : payload[d] = payload[d - 1] + s.commands[d].size
    BY DEF SumsOf
  <1> HIDE DEF n
  <1>5. ASSUME NEW d \in 1..n, CommandAccepted(s, d, Counted(operands, payload, d - 1)),
               k[d - 1] = Counted(operands, payload, d - 1)
        PROVE  k[d] = Counted(operands, payload, d)
    <2>1. k[d - 1].ok /\ k[d - 1].operand = operands[d - 1] /\ k[d - 1].payload = payload[d - 1]
      BY <1>5 DEF Counted
    <2>2. k[d] = AfterCommand(s, k[d - 1], d) /\ CommandAccepted(s, d, k[d - 1])
      BY Zenon, <1>3, <1>5
    <2>3. k[d] = [ok |-> TRUE, operand |-> k[d - 1].operand + s.commands[d].count,
                  payload |-> k[d - 1].payload + s.commands[d].size]
      BY Zenon, <2>1, <2>2 DEF AfterCommand
    <2>4. /\ k[d - 1].operand + s.commands[d].count = operands[d]
          /\ k[d - 1].payload + s.commands[d].size = payload[d]
      BY Zenon, <1>4, <2>1
    <2> QED BY Zenon, <2>3, <2>4 DEF Counted
  <1>6. ASSUME each PROVE k[n] = Counted(operands, payload, n)
    <2> DEFINE S == {d \in 0..n : k[d] = Counted(operands, payload, d)}
    <2>1. 0 \in S
      BY <1>1, <1>3, <1>4 DEF Counted
    <2>2. \A d \in 1..n : d - 1 \in S => d \in S
      BY <1>5, <1>6
    <2> HIDE DEF S
    <2>3. n \in S
      BY <1>1, <2>1, <2>2, UpTo
    <2> QED BY <2>3 DEF S
  <1>7. ASSUME k[n] = final PROVE each
    <2> DEFINE R == {d \in 0..n : k[n - d].ok}
               S == {d \in 0..n : k[d] = Counted(operands, payload, d)}
    <2>1. \A d \in 0..n : k[d].ok
      <3>1. 0 \in R
        BY <1>1, <1>7
      <3>2. ASSUME NEW d \in 1..n, d - 1 \in R PROVE d \in R
        <4>1. n - d \in 0..n /\ n - (d - 1) \in 1..n /\ (n - (d - 1)) - 1 = n - d /\ d \in 0..n
          BY <1>1
        <4>2. k[n - (d - 1)] = AfterCommand(s, k[n - d], n - (d - 1)) /\ k[n - (d - 1)].ok
          BY <1>3, <3>2, <4>1
        <4>3. k[n - d].ok
          BY <4>2 DEF AfterCommand, Refused
        <4> QED BY <4>1, <4>3
      <3> HIDE DEF R
      <3>3. \A d \in 0..n : d \in R
        BY <1>1, <3>1, <3>2, UpTo
      <3>4. ASSUME NEW d \in 0..n PROVE k[d].ok
        <4>1. n - d \in 0..n /\ n - (n - d) = d
          BY <1>1
        <4>2. k[n - (n - d)].ok
          BY <3>3, <4>1 DEF R
        <4> QED BY <4>1, <4>2
      <3> QED BY <3>4
    <2>2. \A d \in 1..n : CommandAccepted(s, d, k[d - 1])
      <3>1. ASSUME NEW d \in 1..n PROVE CommandAccepted(s, d, k[d - 1])
        <4>1. d \in 0..n /\ k[d].ok /\ k[d] = AfterCommand(s, k[d - 1], d)
          BY <1>3, <2>1
        <4> QED BY <4>1 DEF AfterCommand, Refused
      <3> QED BY <3>1
    <2>3. 0 \in S
      BY <1>1, <1>3, <1>4 DEF Counted
    <2>4. ASSUME NEW d \in 1..n, d - 1 \in S PROVE d \in S
      <3>1. k[d - 1] = Counted(operands, payload, d - 1) /\ d \in 0..n
        BY <2>4
      <3>2. k[d] = Counted(operands, payload, d)
        BY <1>5, <2>2, <3>1
      <3> QED BY <3>1, <3>2
    <2> HIDE DEF S
    <2>5. \A d \in 0..n : d \in S
      BY <1>1, <2>3, <2>4, UpTo
    <2>6. ASSUME NEW d \in 1..n PROVE CommandAccepted(s, d, Counted(operands, payload, d - 1))
      <3>1. d - 1 \in 0..n
        BY <1>1
      <3>2. k[d - 1] = Counted(operands, payload, d - 1)
        BY <2>5, <3>1 DEF S
      <3> QED BY <2>2, <3>2
    <2> QED BY <2>6
  <1> HIDE DEF each, final
  <1>8. Counted(operands, payload, n) = final
          <=> operands[n] = s.operandCount /\ payload[n] = s.payloadBytes
    BY DEF Counted, final
  <1>9. k[n] = final <=> each /\ operands[n] = s.operandCount /\ payload[n] = s.payloadBytes
    BY <1>6, <1>7, <1>8
  <1> QED BY <1>2, <1>9, Zenon DEF each, final, n

\* The workspace of a command, as from_bytes checks it.
WorkspaceIn(s, c) ==
  /\ c.workspaceBytes = 0 => c.workspaceAt = 0
  /\ c.workspaceAt <= s.workspaceBytes
  /\ c.workspaceBytes <= s.workspaceBytes - c.workspaceAt

\* Both parsers agree on a command that starts where the commands before it end.
LEMMA CommandsAgree ==
  ASSUME NEW s, DecodedStream(s), NEW operands, NEW payload, SumsOf(s, operands, payload),
         TotalsOf(s, operands, payload), NEW i \in 1..s.commandCount, operands[i - 1] <= s.operandCount
  PROVE  CommandAccepted(s, i, Counted(operands, payload, i - 1))
           <=> PyCommandSpans(s, i) /\ PyCommandValid(s, i) /\ WorkspaceIn(s, s.commands[i])
  <1> DEFINE c == s.commands[i]
             first == operands[i - 1]
             start == payload[i - 1]
             next == Counted(operands, payload, i - 1)
  <1>1. /\ i \in Nat /\ first \in Nat /\ start \in Nat /\ first <= s.operandCount
        /\ next.operand = first /\ next.payload = start
    <2>1. i \in Nat /\ i - 1 \in 0..s.commandCount
      BY StreamNumbers
    <2>2. operands \in [0..s.commandCount -> Nat] /\ payload \in [0..s.commandCount -> Nat]
      BY DEF SumsOf
    <2>3. next.operand = first /\ next.payload = start
      BY DEF Counted
    <2> HIDE DEF next
    <2> QED BY <2>1, <2>2, <2>3
  <1>2. /\ {c.first, c.count, c.start, c.size, c.workspaceAt, c.workspaceBytes} \subseteq 0..MaxU64
        /\ {s.operandCount, s.payloadBytes, s.workspaceBytes} \subseteq 0..MaxU64 /\ MaxU64 \in Nat
        /\ {c.provider, c.major, c.flags} \subseteq 0..MaxU64
    <2>1. /\ {c.first, c.count, c.start, c.size, c.workspaceAt, c.workspaceBytes} \subseteq 0..MaxU64
          /\ {s.operandCount, s.payloadBytes, s.workspaceBytes} \subseteq 0..MaxU64
      BY StreamNumbers
    <2>2. Numbers(s.commands[i], CommandFields)
      <3>1. i \in 1..Len(s.commands)
        BY StreamNumbers
      <3> QED BY <3>1 DEF DecodedStream, StreamRows, Rows
    <2>3. {c.provider, c.major, c.flags} \subseteq 0..MaxU64
      BY <2>2 DEF Numbers, CommandFields
    <2> QED BY <2>1, <2>3, StreamConstants
  <1>3. /\ Total([j \in 1..i-1 |-> s.commands[j]["count"]]) = first
        /\ Total([j \in 1..i-1 |-> s.commands[j]["size"]]) = start
    <2>1. i - 1 \in 0..s.commandCount
      BY StreamNumbers
    <2> QED BY <2>1 DEF TotalsOf
  <1>4. Len(PayloadOf(s, i)) = c.size
    <2> DEFINE at == c.start
               size == c.size
    <2>1. at \in Nat /\ size \in Nat
      BY <1>2
    <2> HIDE DEF at, size
    <2>2. Len(SubSeq(s.payload, at + 1, at + size)) = size
      BY <2>1, Cut
    <2> QED BY <2>2 DEF PayloadOf, at, size
  <1>5. (\E o \in ToSet(OperandsOf(s, i)) : o.access \in {Write, ReadWrite})
          <=> \E k \in 1..c.count : s.operands[c.first + k].access \in {Write, ReadWrite}
    <2> DEFINE at == c.first
               size == c.count
    <2>1. at \in Nat /\ size \in Nat
      BY <1>2
    <2> HIDE DEF at, size
    <2>2. \A x : x \in ToSet(SubSeq(s.operands, at + 1, at + size)) <=> \E k \in 1..size : x = s.operands[at + k]
      BY <2>1, Cut
    <2>3. \A x : x \in ToSet(OperandsOf(s, i)) <=> \E k \in 1..size : x = s.operands[at + k]
      BY <2>2 DEF OperandsOf, at, size
    <2> QED BY <2>3 DEF at, size
  <1>6. PyCommandSpans(s, i)
          <=> /\ c.flags \in {0, 1} /\ c.reserved = 0
              /\ c.first = first /\ c.count # 0 /\ c.count <= s.operandCount - c.first
              /\ c.start = start /\ c.size <= s.payloadBytes - c.start
    BY <1>3 DEF PyCommandSpans
  <1>7. PyCommandValid(s, i)
          <=> /\ c.tag \in KnownTag /\ c.provider > 0 /\ c.major > 0 /\ c.capability # NoDigest
              /\ \E k \in 1..c.count : s.operands[c.first + k].access \in {Write, ReadWrite}
              /\ c.size <= MaxCommandPayload
              /\ c.workspaceBytes = 0 => c.workspaceAt = 0
    BY <1>4, <1>5 DEF PyCommandValid
  <1>8. CommandAccepted(s, i, next)
          <=> /\ c.tag \in KnownTag
              /\ c.provider # 0 /\ c.major # 0 /\ c.capability # NoDigest
              /\ c.flags \div 2 = 0 /\ c.reserved = 0
              /\ c.first = first /\ c.count # 0
              /\ c.count <= Minus(s.operandCount, first)
              /\ c.size <= MaxCommandPayload
              /\ c.start = start /\ c.start <= s.payloadBytes
              /\ c.size <= Minus(s.payloadBytes, c.start)
              /\ WorkspaceInside(c, s.workspaceBytes)
              /\ \E k \in 1..c.count : s.operands[c.first + k].access \in {Write, ReadWrite}
    BY <1>1 DEF CommandAccepted
  <1> DEFINE writes == \E k \in 1..c.count : s.operands[c.first + k].access \in {Write, ReadWrite}
  <1> HIDE DEF c, first, start, next, writes
  <1>9. Minus(s.operandCount, first) = s.operandCount - first
    BY <1>1, <1>2, MinusExact
  <1>10. c.start <= s.payloadBytes => Minus(s.payloadBytes, c.start) = s.payloadBytes - c.start
    BY <1>2, MinusExact
  <1>11. c.size <= s.payloadBytes - c.start <=> c.start <= s.payloadBytes /\ c.size <= Minus(s.payloadBytes, c.start)
    BY <1>2, <1>10
  <1>12. WorkspaceInside(c, s.workspaceBytes) <=> WorkspaceIn(s, c)
    <2>1. c.workspaceAt <= s.workspaceBytes
            => Minus(s.workspaceBytes, c.workspaceAt) = s.workspaceBytes - c.workspaceAt
      BY <1>2, MinusExact
    <2> QED BY <2>1 DEF WorkspaceInside, WorkspaceIn
  <1>13. c.flags \div 2 = 0 <=> c.flags \in {0, 1}
    BY <1>2
  <1>14. (c.provider > 0 <=> c.provider # 0) /\ (c.major > 0 <=> c.major # 0)
    BY <1>2
  <1>15. WorkspaceIn(s, c) => (c.workspaceBytes = 0 => c.workspaceAt = 0)
    BY DEF WorkspaceIn
  <1>16. c.first = first => (c.count <= Minus(s.operandCount, first) <=> c.count <= s.operandCount - c.first)
    BY <1>9
  <1>17. CommandAccepted(s, i, next)
           <=> PyCommandSpans(s, i) /\ PyCommandValid(s, i) /\ WorkspaceIn(s, c)
    BY ONLY <1>6, <1>7, <1>8, <1>11, <1>12, <1>13, <1>14, <1>15, <1>16, Zenon DEF writes
  <1> QED BY <1>17 DEF c, next

\* Both parsers agree on the header of a command stream.
LEMMA StreamHeadersAgree ==
  ASSUME NEW s, DecodedStream(s)
  PROVE  StreamHeader(s) <=> PyStreamHeader(s) /\ s.valueCount \in 1..MaxU32
  <1>1. /\ {s.commandCount, s.operandCount, s.valueCount, s.operandsAt, s.payloadAt, s.payloadBytes, s.sectionSize} \subseteq 0..MaxU64
        /\ MaxU64 \in Nat /\ MaxU32 \in Nat /\ MaxCommands \in Nat /\ MaxOperands \in Nat /\ HeaderSize \in Nat
    BY StreamConstants
       DEF DecodedStream, StreamRows, Numbers, StreamNumberFields, StreamCounts, HeaderSize
  <1>2. s.commandCount \in 1..MaxCommands <=> s.commandCount # 0 /\ s.commandCount <= MaxCommands
    BY <1>1
  <1>3. s.operandCount \in 1..MaxOperands <=> s.operandCount # 0 /\ s.operandCount <= MaxOperands
    BY <1>1
  <1>4. s.valueCount \in 1..MaxU32 <=> s.valueCount # 0 /\ s.valueCount <= MaxU32
    BY <1>1
  <1> DEFINE placed == /\ s.commandsAt = HeaderSize
                       /\ s.operandsAt = HeaderSize + s.commandCount
                       /\ s.payloadAt = s.operandsAt + s.operandCount
                       /\ s.payloadAt <= StreamSize(s)
                       /\ s.payloadBytes = StreamSize(s) - s.payloadAt
                       /\ s.sectionSize = StreamSize(s)
  <1>5. StreamTables(s) <=> placed
    <2>1. CASE s.sectionSize # StreamSize(s)
      BY <2>1 DEF StreamTables
    <2>2. CASE s.sectionSize = StreamSize(s)
      <3> DEFINE size == StreamSize(s)
      <3>1. size \in 0..MaxU64
        BY <1>1, <2>2
      <3>2. StreamTables(s)
              <=> /\ Fits(HeaderSize + s.commandCount) /\ Fits(HeaderSize + s.commandCount + s.operandCount)
                  /\ s.commandsAt = HeaderSize
                  /\ s.operandsAt = HeaderSize + s.commandCount
                  /\ s.payloadAt = HeaderSize + s.commandCount + s.operandCount
                  /\ s.payloadAt <= size
                  /\ s.payloadBytes = Minus(size, s.payloadAt)
        BY <2>2 DEF StreamTables
      <3>3. placed <=> /\ s.commandsAt = HeaderSize
                       /\ s.operandsAt = HeaderSize + s.commandCount
                       /\ s.payloadAt = s.operandsAt + s.operandCount
                       /\ s.payloadAt <= size
                       /\ s.payloadBytes = size - s.payloadAt
        BY <2>2
      <3> HIDE DEF size, placed
      <3>4. s.payloadAt <= size => Minus(size, s.payloadAt) = size - s.payloadAt
        BY <1>1, <3>1, MinusExact
      <3>5. /\ s.operandsAt = HeaderSize + s.commandCount => Fits(HeaderSize + s.commandCount)
            /\ s.payloadAt = HeaderSize + s.commandCount + s.operandCount
                 => Fits(HeaderSize + s.commandCount + s.operandCount)
        BY <1>1 DEF Fits
      <3> QED BY <3>2, <3>3, <3>4, <3>5
    <2> QED BY <2>1, <2>2
  <1>6. PyStreamHeader(s)
          <=> /\ s.minor = 0 /\ s.reserved = 0
              /\ s.commandCount \in 1..MaxCommands
              /\ s.operandCount \in 1..MaxOperands
              /\ placed
              /\ s.memoryDigest # NoDigest
              /\ s.bodyDigest = Sha(Body(s))
              /\ s.arch \in KnownArch
    BY DEF PyStreamHeader
  <1> HIDE DEF placed
  <1> QED BY <1>2, <1>3, <1>4, <1>5, <1>6 DEF StreamHeader

\* The sums of an accepted stream stay inside its operand table.
LEMMA SumsInside ==
  ASSUME NEW s, DecodedStream(s), NEW operands, NEW payload, SumsOf(s, operands, payload),
         \A d \in 1..s.commandCount : CommandAccepted(s, d, Counted(operands, payload, d - 1)),
         NEW i \in 1..s.commandCount
  PROVE  operands[i - 1] <= s.operandCount
  <1> DEFINE n == s.commandCount
             S == {d \in 0..n : operands[d] <= s.operandCount}
  <1>1. /\ n \in Nat /\ s.operandCount \in 0..MaxU64
        /\ operands \in [0..n -> Nat] /\ operands[0] = 0
        /\ \A d \in 1..n : operands[d] = operands[d - 1] + s.commands[d].count
        /\ \A d \in 1..n : s.commands[d].count \in Nat
    BY StreamNumbers DEF SumsOf
  <1>2. 0 \in S
    BY <1>1
  <1>3. ASSUME NEW d \in 1..n, d - 1 \in S PROVE d \in S
    <2>1. /\ operands[d - 1] <= s.operandCount /\ operands[d - 1] \in Nat
          /\ operands[d] = operands[d - 1] + s.commands[d].count /\ s.commands[d].count \in Nat
      BY <1>1, <1>3
    <2>2. s.commands[d].count <= Minus(s.operandCount, operands[d - 1])
      BY DEF CommandAccepted, Counted
    <2>3. operands[d - 1] \in 0..MaxU64
      <3>1. MaxU64 \in Nat
        BY StreamConstants
      <3>2. s.operandCount <= MaxU64 /\ s.operandCount \in Nat
        BY <1>1, <3>1
      <3> HIDE DEF S, n
      <3> QED BY <2>1, <3>1, <3>2
    <2>4. Minus(s.operandCount, operands[d - 1]) = s.operandCount - operands[d - 1]
      BY <1>1, <2>1, <2>3, MinusExact
    <2> QED BY SMTT(60), <1>1, <2>1, <2>2, <2>4
  <1> HIDE DEF S, n
  <1>4. \A d \in 0..n : d \in S
    BY <1>1, <1>2, <1>3, UpTo
  <1>5. i - 1 \in 0..n
    BY <1>1 DEF n
  <1> QED BY <1>4, <1>5 DEF S

\* from_bytes and ParseCommandStream accept the same command streams.
LEMMA StreamsAgree ==
  ASSUME NEW s, DecodedStream(s)
  PROVE  FromBytes(s) <=> ParseCommandStream(s)
  <1> DEFINE n == s.commandCount
             read == \A o \in ToSet(s.operands) : o.access \in {Read, Write, ReadWrite}
             known == \A o \in ToSet(s.operands) : o.value < s.valueCount
             total == /\ Total([i \in 1..n |-> s.commands[i].count]) = s.operandCount
                      /\ Total([i \in 1..n |-> s.commands[i].size]) = s.payloadBytes
             spans == \A i \in 1..n : PyCommandSpans(s, i) /\ PyCommandValid(s, i)
             inside == \A i \in 1..n : WorkspaceIn(s, s.commands[i])
             wide == s.valueCount \in 1..MaxU32
  <1>1. n \in Nat /\ DOMAIN s.commands = 1..n
    BY StreamNumbers
  <1>2. PICK operands, payload : SumsOf(s, operands, payload) /\ TotalsOf(s, operands, payload)
    BY StreamSums
  <1> DEFINE each == \A d \in 1..n : CommandAccepted(s, d, Counted(operands, payload, d - 1))
             ends == operands[n] = s.operandCount /\ payload[n] = s.payloadBytes
  <1>3. FromBytes(s)
          <=> PyStreamHeader(s) /\ read /\ spans /\ total /\ wide /\ known
                /\ \A c \in ToSet(s.commands) :
                     /\ c.workspaceAt <= s.workspaceBytes
                     /\ c.workspaceBytes <= s.workspaceBytes - c.workspaceAt
    BY DEF FromBytes, PyStreamValid
  <1>4. spans => (inside <=> \A c \in ToSet(s.commands) :
                                /\ c.workspaceAt <= s.workspaceBytes
                                /\ c.workspaceBytes <= s.workspaceBytes - c.workspaceAt)
    BY <1>1 DEF ToSet, WorkspaceIn, PyCommandValid
  <1>5. ParseCommandStream(s) <=> StreamHeader(s) /\ read /\ known
          /\ Scan(s) = [ok |-> TRUE, operand |-> s.operandCount, payload |-> s.payloadBytes]
    BY DEF ParseCommandStream, Scan
  <1>6. Scan(s) = [ok |-> TRUE, operand |-> s.operandCount, payload |-> s.payloadBytes] <=> each /\ ends
    BY <1>2, ScanAccepts
  <1>7. total <=> ends
    BY <1>1, <1>2 DEF TotalsOf
  <1>8. each <=> spans /\ inside
    <2>1. ASSUME each PROVE \A i \in 1..n : operands[i - 1] <= s.operandCount
      BY <1>2, <2>1, SumsInside
    <2>2. ASSUME spans PROVE \A i \in 1..n : operands[i - 1] <= s.operandCount
      <3> SUFFICES ASSUME NEW i \in 1..n PROVE operands[i - 1] <= s.operandCount
        OBVIOUS
      <3>1. i - 1 \in 0..n
        BY <1>1
      <3>2. Total([j \in 1..i-1 |-> s.commands[j].count]) = operands[i - 1]
        BY <1>2, <3>1 DEF TotalsOf
      <3>3. s.commands[i].first = operands[i - 1] /\ s.commands[i].count <= s.operandCount - s.commands[i].first
        BY <2>2, <3>2 DEF PyCommandSpans
      <3>4. {s.commands[i].first, s.commands[i].count, s.operandCount} \subseteq 0..MaxU64 /\ MaxU64 \in Nat
        BY StreamNumbers, StreamConstants
      <3> QED BY <3>3, <3>4
    <2>3. ASSUME \A i \in 1..n : operands[i - 1] <= s.operandCount
          PROVE  \A i \in 1..n :
                   CommandAccepted(s, i, Counted(operands, payload, i - 1))
                     <=> PyCommandSpans(s, i) /\ PyCommandValid(s, i) /\ WorkspaceIn(s, s.commands[i])
      BY <1>2, <2>3, CommandsAgree
    <2> QED BY <2>1, <2>2, <2>3
  <1>9. StreamHeader(s) <=> PyStreamHeader(s) /\ wide
    BY StreamHeadersAgree
  <1> HIDE DEF read, known, total, spans, inside, wide, each, ends
  <1> QED BY <1>3, <1>4, <1>5, <1>6, <1>7, <1>8, <1>9

-----------------------------------------------------------------------------
(* The two parsers read headers and value records alike: what Python checks  *)
(* once, in integers, the runtime checks step by step, in 64 bits.           *)

\* Both parsers agree on the header of a plan.
LEMMA HeadersAgree ==
  ASSUME NEW p, PlanRows(p), NEW arch, NEW weights
  PROVE  PyPlanHeader(p, arch, weights) <=> PlanHeader(p, arch, weights)
  <1>1. /\ {p.valueCount, p.portCount, p.stateCount, p.providerCount, p.alignment, p.commandsAt, p.commandBytes,
            p.sectionSize} \subseteq 0..MaxU64
        /\ {MaxU64, MaxValues, MaxPorts, MaxStates, MaxProviders, MaxAlignment, HeaderSize} \subseteq Nat
    BY StreamConstants, PlanConstants DEF PlanRows, Numbers, PlanNumberFields, PlanCounts, HeaderSize
  <1>2. /\ TableAt(p, 1) = HeaderSize
        /\ TableAt(p, 2) = HeaderSize + p.valueCount
        /\ TableAt(p, 3) = HeaderSize + p.valueCount + p.portCount
        /\ TableAt(p, 4) = HeaderSize + p.valueCount + p.portCount + p.stateCount
        /\ TableAt(p, 5) = HeaderSize + p.valueCount + p.portCount + p.stateCount + p.providerCount
    <2>1. {p.valueCount, p.portCount, p.stateCount, p.providerCount} \subseteq Nat
      BY <1>1
    <2> QED BY <2>1, FirstTable, TableOffsets
  <1>3. /\ p.valueCount \in 1..MaxValues <=> p.valueCount # 0 /\ p.valueCount <= MaxValues
        /\ p.portCount \in 1..MaxPorts <=> p.portCount # 0 /\ p.portCount <= MaxPorts
        /\ p.providerCount \in 1..MaxProviders <=> p.providerCount # 0 /\ p.providerCount <= MaxProviders
        /\ p.alignment \in 1..MaxAlignment <=> p.alignment # 0 /\ p.alignment <= MaxAlignment
    BY <1>1
  <1> DEFINE given == <<p.valuesAt, p.portsAt, p.statesAt, p.providersAt, p.commandsAt>>
             pyPlaced == /\ given = [t \in 1..5 |-> TableAt(p, t)]
                         /\ p.commandsAt <= PlanSize(p)
                         /\ p.commandBytes = PlanSize(p) - p.commandsAt
                         /\ p.sectionSize = PlanSize(p)
             digests == NoDigest \notin {p.scheduleDigest, p.memoryDigest, p.commandDigest, p.bodyDigest}
  <1>4. pyPlaced <=> PlanTables(p)
    <2>1. CASE p.sectionSize # PlanSize(p)
      BY <2>1 DEF PlanTables
    <2>2. CASE p.sectionSize = PlanSize(p)
      <3> DEFINE size == PlanSize(p)
                 at == TableAt(p, 5)
      <3>1. size \in 0..MaxU64
        BY <1>1, <2>2
      <3>2. pyPlaced <=> TablesPlaced(p) /\ p.commandsAt <= size /\ p.commandBytes = size - p.commandsAt
        BY <2>2, PyTablesPlaced
      <3>3. PlanTables(p) <=> /\ \A t \in 1..5 : Fits(TableAt(p, t))
                              /\ Fits(at + p.commandBytes)
                              /\ TablesPlaced(p)
                              /\ at + p.commandBytes = size
        BY <1>2, <2>2 DEF PlanTables, TablesPlaced
      <3>4. TablesPlaced(p) => p.commandsAt = at
        BY DEF TablesPlaced
      <3>5. at \in Nat /\ (TablesPlaced(p) => \A t \in 1..5 : Fits(TableAt(p, t)))
        <4>1. at \in Nat
          BY <1>1, <1>2
        <4>2. ASSUME at <= MaxU64, NEW t \in 1..5 PROVE TableAt(p, t) <= MaxU64
          <5>1. t = 1 \/ t = 2 \/ t = 3 \/ t = 4 \/ t = 5
            OBVIOUS
          <5>2. /\ TableAt(p, 1) <= at /\ TableAt(p, 2) <= at /\ TableAt(p, 3) <= at /\ TableAt(p, 4) <= at
                /\ {TableAt(p, 1), TableAt(p, 2), TableAt(p, 3), TableAt(p, 4)} \subseteq Nat
            BY <1>1, <1>2
          <5> HIDE DEF at
          <5>3. /\ TableAt(p, 1) <= MaxU64 /\ TableAt(p, 2) <= MaxU64 /\ TableAt(p, 3) <= MaxU64
                /\ TableAt(p, 4) <= MaxU64
            BY <1>1, <4>1, <4>2, <5>2
          <5> QED BY <4>2, <5>1, <5>3 DEF at
        <4> QED BY <1>1, <3>4, <4>1, <4>2 DEF Fits
      <3> HIDE DEF size, at, pyPlaced
      <3>6. TablesPlaced(p) =>
              (p.commandsAt <= size /\ p.commandBytes = size - p.commandsAt
                 <=> Fits(at + p.commandBytes) /\ at + p.commandBytes = size)
        BY <1>1, <3>1, <3>4, <3>5 DEF Fits
      <3> QED BY <3>2, <3>3, <3>5, <3>6
    <2> QED BY <2>1, <2>2
  <1>5. digests <=> \A d \in {p.scheduleDigest, p.memoryDigest, p.commandDigest, p.bodyDigest} : d # NoDigest
    OBVIOUS
  <1>6. PyPlanHeader(p, arch, weights)
          <=> /\ p.minor = 0 /\ p.reserved = 0
              /\ p.arch \in KnownArch /\ p.arch = arch /\ p.weightsBytes = weights
              /\ p.valueCount \in 1..MaxValues /\ p.portCount \in 1..MaxPorts
              /\ p.stateCount <= MaxStates /\ p.providerCount \in 1..MaxProviders
              /\ p.alignment \in 1..MaxAlignment /\ PowerOfTwo(p.alignment)
              /\ p.weightsBytes # 0
              /\ pyPlaced /\ digests
              /\ p.bodyDigest = Sha(PlanBody(p)) /\ p.commandDigest = Sha(p.stream)
    BY DEF PyPlanHeader
  <1> HIDE DEF pyPlaced, digests
  <1> QED BY <1>3, <1>4, <1>5, <1>6 DEF PlanHeader

\* Product multiplies the numbers of a sequence.
LEMMA ProductSteps ==
  ASSUME NEW n \in Nat, NEW g \in [1..n -> Nat]
  PROVE  \E k \in [0..n -> Nat] :
           k[0] = 1 /\ (\A d \in 1..n : k[d] = k[d - 1] * g[d]) /\ Product(g) = k[n]
  <1> DEFINE step == [d \in 1..n |-> [x \in Nat |-> x * g[d]]]
             IsFold(h) == h = [t \in SUBSET DOMAIN g |-> IF t = {} THEN 1 ELSE h[t \ {Max(t)}] * g[Max(t)]]
             f == CHOOSE h : IsFold(h)
  <1>1. DOMAIN g = 1..n
    OBVIOUS
  <1>2. step \in [1..n -> [Nat -> Nat]]
    <2>1. \A d \in 1..n, x \in Nat : x * g[d] \in Nat
      OBVIOUS
    <2> QED BY <2>1
  <1>3. PICK h \in [SUBSET (1..n) -> Nat] : FoldsBy(h, n, 1, step)
    <2> HIDE DEF step
    <2> QED BY <1>2, FoldExists
  <1>4. IsFold(h)
    <2>1. h = [t \in SUBSET (1..n) |-> h[t]]
      OBVIOUS
    <2>2. ASSUME NEW t \in SUBSET (1..n)
          PROVE  h[t] = IF t = {} THEN 1 ELSE h[t \ {Max(t)}] * g[Max(t)]
      <3>1. h[t] = IF t = {} THEN 1 ELSE step[Max(t)][h[t \ {Max(t)}]]
        <4> HIDE DEF step
        <4> QED BY <1>3 DEF FoldsBy
      <3>2. CASE t # {}
        <4>1. Max(t) \in 1..n /\ t \ {Max(t)} \in SUBSET (1..n)
          BY <3>2, LastPosition
        <4>2. h[t \ {Max(t)}] \in Nat
          BY <4>1
        <4>3. step[Max(t)][h[t \ {Max(t)}]] = h[t \ {Max(t)}] * g[Max(t)]
          BY <4>1, <4>2
        <4> HIDE DEF step
        <4> QED BY <3>1, <3>2, <4>3
      <3> HIDE DEF step
      <3> QED BY <3>1, <3>2
    <2> HIDE DEF step
    <2> QED BY <1>1, <2>1, <2>2
  <1>5. IsFold(f)
    <2> HIDE DEF IsFold
    <2> QED BY <1>4
  <1>6. Product(g) = f[DOMAIN g]
    BY DEF Product, FoldLeft, MapThenFoldSet
  <1>7. \A t \in SUBSET (1..n) : f[t] = IF t = {} THEN 1 ELSE f[t \ {Max(t)}] * g[Max(t)]
    <2> HIDE DEF f
    <2> QED BY <1>1, <1>5
  <1> HIDE DEF f
  <1> DEFINE k == [d \in 0..n |-> f[1..d]]
  <1>8. /\ 1..0 = {} /\ 0 \in 0..n /\ n \in 0..n
        /\ \A d \in 1..n : d - 1 \in 0..n /\ d \in 0..n /\ d \in Nat
    OBVIOUS
  <1>9. k[0] = 1
    BY <1>7, <1>8
  <1>10. ASSUME NEW d \in 1..n PROVE k[d] = k[d - 1] * g[d]
    <2>1. /\ 1..d \in SUBSET (1..n) /\ 1..d # {}
          /\ Max(1..d) = d /\ (1..d) \ {d} = 1..(d - 1)
      BY <1>8, FirstPositions
    <2>2. f[1..d] = f[1..(d - 1)] * g[d]
      BY <1>7, <2>1
    <2> QED BY <1>8, <2>2
  <1>11. \A d \in 0..n : k[d] \in Nat
    <2> DEFINE S == {d \in 0..n : k[d] \in Nat}
    <2> HIDE DEF k
    <2>1. ASSUME NEW d \in 1..n, d - 1 \in S PROVE d \in S
      <3>1. k[d - 1] \in Nat /\ g[d] \in Nat /\ k[d] = k[d - 1] * g[d] /\ d \in 0..n
        BY <1>8, <1>10, <2>1
      <3>2. \A a, b \in Nat : a * b \in Nat
        OBVIOUS
      <3> QED BY <3>1, <3>2
    <2>2. 0 \in S
      BY <1>8, <1>9
    <2> HIDE DEF S
    <2>3. \A d \in 0..n : d \in S
      BY <2>1, <2>2, UpTo
    <2> QED BY <2>3 DEF S
  <1>12. k \in [0..n -> Nat] /\ k[n] = Product(g)
    BY <1>1, <1>6, <1>8, <1>11
  <1> HIDE DEF k
  <1> QED BY <1>9, <1>10, <1>12

\* Partial products of positive numbers are positive and do not decrease.
LEMMA ProductsGrow ==
  ASSUME NEW n \in Nat, NEW g, \A d \in 1..n : g[d] \in Nat /\ g[d] > 0, NEW m \in 0..n
  PROVE  Product(First(g, m)) \in Nat /\ Product(First(g, m)) >= 1 /\ Product(First(g, m)) <= Product(First(g, n))
  <1> DEFINE Multiplies(k, j) == k[0] = 1 /\ \A d \in 1..j : k[d] = k[d - 1] * g[d]
  <1>1. ASSUME NEW j \in 0..n
        PROVE  \E k \in [0..j -> Nat] : Multiplies(k, j) /\ Product(First(g, j)) = k[j]
    <2>1. j \in Nat /\ First(g, j) \in [1..j -> Nat] /\ \A d \in 1..j : First(g, j)[d] = g[d]
      BY DEF First
    <2>2. PICK k \in [0..j -> Nat] :
            k[0] = 1 /\ (\A d \in 1..j : k[d] = k[d - 1] * First(g, j)[d]) /\ Product(First(g, j)) = k[j]
      BY <2>1, ProductSteps
    <2> QED BY <2>1, <2>2
  <1>2. n \in 0..n
    OBVIOUS
  <1>3. PICK k \in [0..n -> Nat] : Multiplies(k, n) /\ Product(First(g, n)) = k[n]
    BY <1>1, <1>2
  <1>4. Product(First(g, m)) = k[m]
    <2>1. PICK h \in [0..m -> Nat] : Multiplies(h, m) /\ Product(First(g, m)) = h[m]
      BY <1>1
    <2> DEFINE S == {d \in 0..m : h[d] = k[d]}
    <2>2. 0 \in S /\ \A d \in 1..m : d - 1 \in S => d \in S
      BY <1>3, <2>1
    <2>3. m \in Nat /\ m \in 0..m
      OBVIOUS
    <2> HIDE DEF S
    <2>4. m \in S
      BY <2>2, <2>3, UpTo
    <2> QED BY <2>1, <2>4 DEF S
  <1>5. \A a, b \in Nat : a >= 1 /\ b >= 1 => a * b >= 1 /\ a * b >= a
    OBVIOUS
  <1>6. \A d \in 0..n : k[d] \in Nat /\ k[d] >= 1
    <2> DEFINE S == {d \in 0..n : k[d] >= 1}
    <2>1. 0 \in S
      BY <1>3
    <2>2. ASSUME NEW d \in 1..n, d - 1 \in S PROVE d \in S
      <3>1. k[d - 1] \in Nat /\ k[d - 1] >= 1 /\ g[d] \in Nat /\ g[d] >= 1 /\ k[d] = k[d - 1] * g[d] /\ d \in 0..n
        BY <1>3, <2>2
      <3> QED BY <1>5, <3>1
    <2> HIDE DEF S
    <2>3. \A d \in 0..n : d \in S
      BY <2>1, <2>2, UpTo
    <2> QED BY <2>3 DEF S
  <1>7. \A d \in 1..n : k[d] >= k[d - 1]
    <2> SUFFICES ASSUME NEW d \in 1..n PROVE k[d] >= k[d - 1]
      OBVIOUS
    <2>1. d - 1 \in 0..n
      OBVIOUS
    <2>2. k[d - 1] \in Nat /\ k[d - 1] >= 1 /\ g[d] \in Nat /\ g[d] >= 1 /\ k[d] = k[d - 1] * g[d]
      BY <1>3, <1>6, <2>1
    <2> QED BY <1>5, <2>2
  <1>8. k[m] <= k[n]
    <2> DEFINE S == {d \in 0..n : d >= m => k[m] <= k[d]}
    <2>1. 0 \in S
      BY <1>6
    <2>2. ASSUME NEW d \in 1..n, d - 1 \in S PROVE d \in S
      <3>1. k[d] >= k[d - 1] /\ {k[d], k[d - 1], k[m]} \subseteq Nat
        BY <1>6, <1>7
      <3>2. d >= m => d = m \/ d - 1 >= m
        OBVIOUS
      <3> QED BY <2>2, <3>1, <3>2
    <2> HIDE DEF S
    <2>3. \A d \in 0..n : d \in S
      BY <2>1, <2>2, UpTo
    <2>4. n \in S /\ n >= m
      BY <1>2, <2>3
    <2> QED BY <2>4 DEF S
  <1> QED BY <1>3, <1>4, <1>6, <1>8

\* The first elements of a sequence.
LEMMA CutFirst ==
  ASSUME NEW seq, NEW m \in Nat
  PROVE  SubSeq(seq, 1, m) = First(seq, m)
  <1>1. 0 \in Nat /\ 0 + 1 = 1 /\ 0 + m = m
    OBVIOUS
  <1>2. SubSeq(seq, 0 + 1, 0 + m) = [k \in 1..m |-> seq[0 + k]]
    BY <1>1, Cut
  <1>3. [k \in 1..m |-> seq[0 + k]] = First(seq, m)
    BY DEF First
  <1> QED BY <1>1, <1>2, <1>3

\* The fields of a value record that the contracts compare.
LEMMA ValueNumbers ==
  ASSUME NEW p, DecodedPlan(p), NEW i \in 1..p.valueCount
  PROVE  LET v == p.values[i]
         IN /\ {v.id, v.region, v.alias, v.rank, v.offset, v.bytes, v.allocation} \subseteq 0..MaxU64
            /\ v.shape \in [1..MaxTensorRank -> Nat]
  <1>1. DOMAIN p.values = 1..p.valueCount /\ p.valueCount = Len(p.values)
    BY PlanNumbers
  <1>2. Numbers(p.values[i], TableFields.values)
    BY <1>1 DEF DecodedPlan, PlanRows, Rows, TableFields
  <1>3. HasShape(p.values[i])
    BY <1>1 DEF DecodedPlan, PlanRows, RowsTyped
  <1> QED BY <1>2, <1>3 DEF Numbers, TableFields, HasShape

\* Both parsers agree on the tensor a value record describes.
LEMMA TensorsAgree ==
  ASSUME NEW p, DecodedPlan(p), NEW i \in 1..p.valueCount
  PROVE  PyTensorContract(p, i) <=> TensorContract(p.values[i], i)
  <1> DEFINE v == p.values[i]
             positive == \A d \in 1..v.rank : v.shape[d] > 0
             padded == \A d \in v.rank+1..MaxTensorRank : v.shape[d] = 0
             cut == IF v.rank < MaxTensorRank THEN v.rank ELSE MaxTensorRank
             dims == SubSeq(v.shape, 1, cut)
             size == DTypeBytes[v.dtype]
             legal == v.rank \in 1..MaxTensorRank /\ v.dtype \in 1..5 /\ positive
  <1>1. /\ v.rank \in 0..MaxU64 /\ v.region \in 0..MaxU64 /\ v.bytes \in 0..MaxU64
        /\ v.shape \in [1..MaxTensorRank -> Nat]
        /\ MaxU64 \in Nat /\ MaxTensorRank \in Nat
    BY ValueNumbers, StreamConstants, PlanConstants
  <1>2. DOMAIN DTypeBytes = 1..5 /\ \A t \in 1..5 : DTypeBytes[t] \in {1, 2, 4}
    BY DEF DTypeBytes
  <1>3. PyTensorContract(p, i)
          <=> /\ v.region \in Regions /\ v.dtype \in 1..5
              /\ Product(dims) \in 1..(MaxU64 \div size)
              /\ v.id = i - 1 /\ v.reserved = 0
              /\ v.rank \in 1..MaxTensorRank
              /\ positive /\ padded
              /\ v.bytes = Product(dims) * size
    BY <1>2 DEF PyTensorContract
  <1>4. TensorContract(v, i)
          <=> /\ v.id = i - 1 /\ v.region <= 6 /\ v.dtype \in 1..5
              /\ v.rank # 0 /\ v.rank <= MaxTensorRank /\ v.reserved = 0
              /\ positive /\ \A d \in 1..v.rank : Fits(Elements(v)[d])
              /\ padded
              /\ Fits(Elements(v)[v.rank] * size)
              /\ v.bytes = Elements(v)[v.rank] * size
    BY DEF TensorContract
  <1>5. (v.region \in Regions <=> v.region <= 6)
          /\ (v.rank \in 1..MaxTensorRank <=> v.rank # 0 /\ v.rank <= MaxTensorRank)
    <2>1. \A x \in 0..MaxU64 : x \in 0..6 <=> x <= 6
      BY <1>1
    <2>2. \A x \in 0..MaxU64 : x \in 1..MaxTensorRank <=> x # 0 /\ x <= MaxTensorRank
      BY <1>1
    <2> HIDE DEF v
    <2> QED BY <1>1, <2>1, <2>2 DEF Regions
  <1>6. ASSUME legal
        PROVE  /\ Elements(v)[v.rank] = Product(dims)
               /\ Product(dims) \in 1..(MaxU64 \div size)
                    <=> (\A d \in 1..v.rank : Fits(Elements(v)[d])) /\ Fits(Product(dims) * size)
    <2> DEFINE n == v.rank
               g == v.shape
    <2>1. n \in Nat /\ n \in 1..MaxTensorRank /\ cut = n
      BY <1>1, <1>6
    <2>2. \A d \in 1..n : g[d] \in Nat /\ g[d] > 0
      BY <1>1, <1>6, <2>1
    <2>3. \A d \in 0..n : Elements(v)[d] = Product(First(g, d))
      <3>1. \A d \in 0..n : SubSeq(g, 1, d) = First(g, d)
        BY <2>1, CutFirst
      <3> QED BY <3>1 DEF Elements
    <2>4. Product(dims) = Product(First(g, n))
      BY <2>1, CutFirst
    <2> HIDE DEF n, g, dims, cut, v
    <2>5. \A d \in 0..n : /\ Product(First(g, d)) \in Nat /\ Product(First(g, d)) >= 1
                          /\ Product(First(g, d)) <= Product(First(g, n))
      BY <2>1, <2>2, ProductsGrow
    <2> DEFINE all == Product(First(g, n))
    <2>6. n \in 0..n /\ \A d \in 1..n : d \in 0..n
      BY <2>1
    <2>7. all \in Nat /\ all >= 1 /\ \A d \in 1..n : Product(First(g, d)) \in Nat /\ Product(First(g, d)) <= all
      BY <2>5, <2>6
    <2> HIDE DEF all
    <2>8. size \in {1, 2, 4}
      BY <1>2, <1>6
    <2> HIDE DEF size
    <2>9. all \in 1..(MaxU64 \div size) <=> all * size <= MaxU64
      <3>1. CASE size = 1
        BY <1>1, <2>7, <3>1
      <3>2. CASE size = 2
        BY <1>1, <2>7, <3>2
      <3>3. CASE size = 4
        BY <1>1, <2>7, <3>3
      <3> QED BY <2>8, <3>1, <3>2, <3>3
    <2>10. all * size <= MaxU64 => all <= MaxU64
      <3>1. CASE size = 1
        BY <1>1, <2>7, <3>1
      <3>2. CASE size = 2
        BY <1>1, <2>7, <3>2
      <3>3. CASE size = 4
        BY <1>1, <2>7, <3>3
      <3> QED BY <2>8, <3>1, <3>2, <3>3
    <2>11. all * size <= MaxU64 => \A d \in 1..n : Product(First(g, d)) <= MaxU64
      BY <1>1, <2>7, <2>10
    <2>12. \A d \in 1..n : Elements(v)[d] = Product(First(g, d))
      BY <2>3, <2>6
    <2>13. Product(dims) = all /\ Elements(v)[n] = all
      BY <2>3, <2>4, <2>6 DEF all
    <2>14. all \in 1..(MaxU64 \div size)
             <=> (\A d \in 1..n : Fits(Elements(v)[d])) /\ Fits(all * size)
      BY <2>9, <2>11, <2>12 DEF Fits
    <2> QED BY <2>13, <2>14 DEF n
  <1> HIDE DEF v, positive, padded, dims, size
  <1>7. PyTensorContract(p, i) <=> TensorContract(v, i)
    <2>1. CASE legal
      BY <1>3, <1>4, <1>5, <1>6, <2>1
    <2>2. CASE ~legal
      BY <1>3, <1>4, <1>5, <2>2
    <2> QED BY <2>1, <2>2
  <1> QED BY <1>7 DEF v

\* Both parsers agree on the storage of a value whose region they know.
LEMMA StoragesAgree ==
  ASSUME NEW p, DecodedPlan(p), p.valueCount <= MaxU32, NEW i \in 1..p.valueCount, p.values[i].region \in Regions
  PROVE  PyStorage(p, p.values[i]) <=> StorageContract(p, p.values[i])
  <1> DEFINE v == p.values[i]
             limit == Limit(p, v.region)
  <1>1. /\ {v.id, v.region, v.alias, v.offset, v.bytes, v.allocation} \subseteq 0..MaxU64
        /\ {p.weightsBytes, p.stateBytes, p.arenaBytes} \subseteq 0..MaxU64
        /\ p.valueCount \in Nat /\ MaxU32 \in Nat /\ v.region \in 0..6
    BY ValueNumbers, PlanNumbers, StreamConstants DEF Regions
  <1> HIDE DEF v
  <1>2. CASE v.region = Alias
    <2>1. v.alias < p.valueCount => v.alias # None
      BY <1>1 DEF None
    <2> QED BY <1>2, <2>1 DEF PyStorage, StorageContract, v
  <1>3. CASE v.region # Alias
    <2>1. PyStorage(p, v) <=>
            /\ v.alias = None
            /\ v.region = Unused => OwnsNothing(v)
            /\ v.region \in External => v.offset = 0 /\ v.allocation = v.bytes /\ v.digest = NoDigest
            /\ v.region \in Stored =>
                 /\ v.allocation >= v.bytes
                 /\ v.offset <= limit
                 /\ v.allocation <= limit - v.offset
                 /\ (v.region = Weights) = (v.digest # NoDigest)
                 /\ v.offset % p.alignment = 0
      BY <1>3 DEF PyStorage
    <2>2. CASE v.region = Unused
      <3>1. v.region \notin External /\ v.region \notin Stored
        BY <2>2 DEF Unused, External, Stored, ExternalInput, ExternalOutput, Weights, State, Arena
      <3>2. StorageContract(p, v) <=> v.alias = MaxU32 /\ OwnsNothing(v)
        BY <1>3, <2>2, <3>1 DEF StorageContract
      <3> QED BY <2>1, <2>2, <3>1, <3>2 DEF None, v
    <2>3. CASE v.region \in External
      <3>1. v.region # Unused /\ v.region \notin Stored
        BY <2>3 DEF Unused, External, Stored, ExternalInput, ExternalOutput, Weights, State, Arena
      <3>2. StorageContract(p, v)
              <=> v.alias = MaxU32 /\ v.offset = 0 /\ v.allocation = v.bytes /\ v.digest = NoDigest
        BY <1>3, <2>3, <3>1 DEF StorageContract
      <3> QED BY <2>1, <2>3, <3>1, <3>2 DEF None, v
    <2>4. CASE v.region \in Stored
      <3>1. v.region # Unused /\ v.region \notin External
        BY <2>4 DEF Unused, External, Stored, ExternalInput, ExternalOutput, Weights, State, Arena
      <3>2. StorageContract(p, v) <=> v.alias = MaxU32 /\ InsideRegion(v, limit, p.alignment)
        BY <1>3, <2>4, <3>1 DEF StorageContract
      <3>3. limit \in 0..MaxU64
        <4>1. limit \in {p.weightsBytes, p.stateBytes, p.arenaBytes}
          BY <2>4 DEF Limit, Stored, Weights, State, Arena
        <4> QED BY <1>1, <4>1
      <3> HIDE DEF limit
      <3>4. v.offset <= limit => Minus(limit, v.offset) = limit - v.offset
        BY <1>1, <3>3, MinusExact
      <3> QED BY <2>1, <2>4, <3>1, <3>2, <3>4 DEF InsideRegion, None, v
    <2>5. v.region = Unused \/ v.region \in External \/ v.region \in Stored
      BY <1>1, <1>3 DEF Unused, External, Stored, ExternalInput, ExternalOutput, Weights, State, Arena, Alias
    <2> QED BY <2>2, <2>3, <2>4, <2>5
  <1> QED BY <1>2, <1>3

-----------------------------------------------------------------------------
(* The two parsers read weights, roots, ports and states alike *)

\* Both parsers agree that the weights do not meet.
LEMMA WeightsAgree ==
  ASSUME NEW p, ValuesAccepted(p)
  PROVE  SpansDisjoint(p.values) <=> WeightIntervals(p)
  <1> DEFINE W == WeightRecords(p)
  <1>1. \A v \in W : /\ {v.id, v.offset, v.allocation} \subseteq Nat
                     /\ SpanEnd(v) = v.offset + v.allocation
    BY WeightFacts
  <1>2. \A v, w \in W : v.id = w.id => v = w
    BY WeightFacts
  <1>3. SpansDisjoint(p.values)
          <=> \A v, w \in W : v.id # w.id => v.offset + v.allocation <= w.offset \/ w.offset + w.allocation <= v.offset
    BY DEF SpansDisjoint, WeightRecords
  <1>4. WeightIntervals(p)
          <=> \A v, w \in W : (Sorted(v, w) /\ \A u \in W : ~(Sorted(v, u) /\ Sorted(u, w))) => w.offset >= SpanEnd(v)
    BY DEF WeightIntervals, WeightRecords, Sorted, SpanEnd
  <1>5. ASSUME WeightIntervals(p), NEW v \in W, NEW w \in W, v.id # w.id
        PROVE  v.offset + v.allocation <= w.offset \/ w.offset + w.allocation <= v.offset
    <2>1. Sorted(v, w) \/ Sorted(w, v)
      BY <1>1, <1>5 DEF Sorted
    <2> QED BY <1>5, <2>1, WeightsInOrder
  <1>6. ASSUME SpansDisjoint(p.values), NEW v \in W, NEW w \in W, Sorted(v, w)
        PROVE  w.offset >= SpanEnd(v)
    <2> HIDE DEF W
    <2>1. /\ {v.id, v.offset, v.allocation, w.id, w.offset, w.allocation} \subseteq Nat
          /\ SpanEnd(v) = v.offset + v.allocation /\ SpanEnd(w) = w.offset + w.allocation
      BY <1>1
    <2>2. v.id # w.id
      BY <1>2, <1>6, <2>1 DEF Sorted
    <2>3. v.offset + v.allocation <= w.offset \/ w.offset + w.allocation <= v.offset
      BY <1>3, <1>6, <2>2
    <2> QED BY <1>6, <2>1, <2>3 DEF Sorted
  <1> HIDE DEF W
  <1> QED BY <1>3, <1>4, <1>5, <1>6

\* Both parsers agree on the roots of the values.
LEMMA RootsAgree ==
  ASSUME NEW p, DecodedPlan(p), \A i \in 1..p.valueCount : p.values[i].id = i - 1
  PROVE  (\A v \in ToSet(p.values) :
            LET root == StorageRoot(p.values, v.id)
            IN root # None /\ (v.region = Alias => v.bytes = p.values[root + 1].bytes))
           <=> \A i \in 1..p.valueCount : RootAccepted(p, i)
  <1>1. DOMAIN p.values = 1..p.valueCount
    BY PlanNumbers
  <1> QED BY <1>1 DEF ToSet, RootAccepted

\* A table of rows that name values.
NamingRows(rows, n) == n \in Nat /\ DOMAIN rows = 1..n /\ Len(rows) = n /\ \A k \in 1..n : rows[k].value \in Nat

\* Both parsers agree that each row names a root nobody named before.
LEMMA NamesAgree ==
  ASSUME NEW p, ValuesAccepted(p), NEW rows, NEW n, NamingRows(rows, n), NEW regions
  PROVE  NamesOnce(p, rows, regions)
           <=> \A k \in 1..n : /\ MarksFresh(p, rows, k)
                               /\ RegionOf(p, StorageRoot(p.values, rows[k].value)) = regions[k]
  <1> DEFINE root(k) == StorageRoot(p.values, rows[k].value)
             Placed(k) == rows[k].id = k - 1 /\ rows[k].value < p.valueCount /\ rows[k].reserved = 0
  <1>1. n \in Nat /\ Len(rows) = n /\ (\A k \in 1..n : rows[k].value \in Nat) /\ p.valueCount \in Nat
    BY PlanNumbers DEF NamingRows, ValuesAccepted
  <1>2. \A k \in 1..n : Roots(p, rows)[k] = root(k)
    BY <1>1 DEF Roots
  <1>3. \A k \in 1..n : \A j \in 1..k-1 : j \in 1..n
    BY <1>1
  <1>4. NamesOnce(p, rows, regions)
          <=> /\ \A k \in 1..n : Placed(k)
              /\ \A k \in 1..n : RegionOf(p, root(k)) = regions[k] /\ \A j \in 1..k-1 : root(j) # root(k)
    <2> DEFINE all == Roots(p, rows)
    <2>1. NamesOnce(p, rows, regions)
            <=> /\ \A k \in 1..n : Placed(k)
                /\ \A k \in 1..n : RegionOf(p, all[k]) = regions[k] /\ \A j \in 1..k-1 : all[j] # all[k]
      BY <1>1 DEF NamesOnce
    <2> HIDE DEF root, all, Placed
    <2>2. \A k \in 1..n : all[k] = root(k)
      BY <1>2 DEF all
    <2>3. \A k \in 1..n : (\A j \in 1..k-1 : all[j] # all[k]) <=> \A j \in 1..k-1 : root(j) # root(k)
      BY <1>3, <2>2
    <2> QED BY <2>1, <2>2, <2>3
  <1>5. \A k \in 1..n : MarksFresh(p, rows, k)
                          <=> /\ Placed(k)
                              /\ \A j \in 1..k-1 : root(j) # rows[k].value
                              /\ \A j \in 1..k-1 : root(j) # root(k)
    BY DEF MarksFresh, Marked
  <1>6. ASSUME NEW k \in 1..n, NEW j \in 1..n, Placed(j), Placed(k), root(j) = rows[k].value
        PROVE  root(k) = root(j)
    <2>1. rows[j].value \in 0..(p.valueCount - 1) /\ rows[k].value \in 0..(p.valueCount - 1)
      BY <1>1, <1>6
    <2>2. p.values[root(j) + 1].region # Alias
      BY <2>1, RootFacts
    <2>3. p.values[rows[k].value + 1].region # Alias => root(k) = rows[k].value
      BY <2>1, RootFacts
    <2> HIDE DEF root
    <2> QED BY <1>6, <2>2, <2>3
  <1> HIDE DEF root, Placed
  <1> QED BY <1>3, <1>4, <1>5, <1>6 DEF root

\* Both parsers agree that every root of some regions is named.
LEMMA BindingsAgree ==
  ASSUME NEW p, ValuesAccepted(p), NEW rows, NEW n, NamingRows(rows, n), NEW R,
         \A k \in 1..n : MarksFresh(p, rows, k) /\ RegionOf(p, StorageRoot(p.values, rows[k].value)) \in R
  PROVE  ToSet(Roots(p, rows)) = IdsIn(p, R)
           <=> \A v \in ToSet(p.values) : v.region \in R => v.id \in Marked(p, rows, n + 1)
  <1> DEFINE root(k) == StorageRoot(p.values, rows[k].value)
  <1>1. n \in Nat /\ Len(rows) = n /\ (\A k \in 1..n : rows[k].value \in Nat)
    BY DEF NamingRows
  <1>2. p.valueCount \in Nat /\ DOMAIN p.values = 1..p.valueCount
    BY PlanNumbers DEF ValuesAccepted
  <1>3. ToSet(Roots(p, rows)) = Marked(p, rows, n + 1)
    <2>1. (n + 1) - 1 = n
      BY <1>1
    <2>2. DOMAIN Roots(p, rows) = 1..n /\ \A k \in 1..n : Roots(p, rows)[k] = root(k)
      BY <1>1 DEF Roots
    <2>3. Marked(p, rows, n + 1) = {root(k) : k \in 1..n}
      BY <2>1 DEF Marked
    <2> HIDE DEF root
    <2> QED BY <2>2, <2>3 DEF ToSet
  <1>4. Marked(p, rows, n + 1) \subseteq IdsIn(p, R)
    <2>1. ASSUME NEW id \in Marked(p, rows, n + 1) PROVE id \in IdsIn(p, R)
      <3>1. PICK k \in 1..n : id = root(k)
        <4>1. (n + 1) - 1 = n
          BY <1>1
        <4> QED BY <4>1 DEF Marked
      <3>2. rows[k].value \in 0..(p.valueCount - 1)
        BY <1>1, <1>2 DEF MarksFresh
      <3>3. id \in 0..(p.valueCount - 1) /\ p.values[id + 1].id = id
        BY <3>1, <3>2, RootFacts
      <3>4. p.values[id + 1].region \in R
        BY <3>1 DEF RegionOf
      <3>5. p.values[id + 1] \in ToSet(p.values)
        <4>1. id + 1 \in 1..p.valueCount
          BY <1>2, <3>3
        <4> QED BY <1>2, <4>1 DEF ToSet
      <3> QED BY <3>3, <3>4, <3>5 DEF IdsIn
    <2> QED BY <2>1
  <1>5. IdsIn(p, R) \subseteq Marked(p, rows, n + 1)
          <=> \A v \in ToSet(p.values) : v.region \in R => v.id \in Marked(p, rows, n + 1)
    BY DEF IdsIn
  <1> QED BY <1>3, <1>4, <1>5

\* Both parsers agree on the ports.
LEMMA PortsAgree ==
  ASSUME NEW p, ValuesAccepted(p)
  PROVE  PyPorts(p)
           <=> /\ \A k \in 1..p.portCount : PortAccepted(p, k)
               /\ \E q \in ToSet(p.ports) : q.kind = Output
               /\ \A v \in ToSet(p.values) : v.region \in External => v.id \in Marked(p, p.ports, p.portCount + 1)
  <1> DEFINE n == p.portCount
             regions == [k \in DOMAIN p.ports |-> IF p.ports[k].kind = Input THEN ExternalInput ELSE ExternalOutput]
             known == \A k \in 1..n : p.ports[k].kind \in {Input, Output} /\ p.ports[k].location = 2
             named == \A k \in 1..n : /\ MarksFresh(p, p.ports, k)
                                      /\ RegionOf(p, StorageRoot(p.values, p.ports[k].value)) = regions[k]
             writes == \E q \in ToSet(p.ports) : q.kind = Output
             bound == \A v \in ToSet(p.values) : v.region \in External => v.id \in Marked(p, p.ports, n + 1)
  <1>1. NamingRows(p.ports, n) /\ DOMAIN p.ports = 1..n
    <2>1. n \in Nat /\ DOMAIN p.ports = 1..n /\ \A k \in 1..n : p.ports[k].value \in Nat
      BY PlanNumbers DEF ValuesAccepted
    <2>2. Len(p.ports) = n
      BY DEF ValuesAccepted, DecodedPlan, PlanCounted
    <2> QED BY <2>1, <2>2 DEF NamingRows
  <1>2. \A k \in 1..n : regions[k] \in External
    BY <1>1 DEF External
  <1>3. NamesOnce(p, p.ports, regions) <=> named
    <2> HIDE DEF regions, n
    <2> QED BY <1>1, NamesAgree
  <1>4. named => (ToSet(Roots(p, p.ports)) = IdsIn(p, External) <=> bound)
    <2> SUFFICES ASSUME named PROVE ToSet(Roots(p, p.ports)) = IdsIn(p, External) <=> bound
      OBVIOUS
    <2>1. \A k \in 1..n : /\ MarksFresh(p, p.ports, k)
                          /\ RegionOf(p, StorageRoot(p.values, p.ports[k].value)) \in External
      BY <1>2
    <2> HIDE DEF regions, n
    <2> QED BY <1>1, <2>1, BindingsAgree
  <1>5. (\A q \in ToSet(p.ports) : q.kind \in {Input, Output} /\ q.location = 2) <=> known
    BY <1>1 DEF ToSet
  <1>6. (\A k \in 1..n : PortAccepted(p, k)) <=> known /\ named
    BY <1>1 DEF PortAccepted
  <1>7. PyPorts(p) <=> /\ \A q \in ToSet(p.ports) : q.kind \in {Input, Output} /\ q.location = 2
                       /\ NamesOnce(p, p.ports, regions) /\ writes
                       /\ ToSet(Roots(p, p.ports)) = IdsIn(p, External)
    BY DEF PyPorts
  <1> HIDE DEF known, named, writes, bound, regions
  <1>8. PyPorts(p) <=> (\A k \in 1..n : PortAccepted(p, k)) /\ writes /\ bound
    BY ONLY <1>3, <1>4, <1>5, <1>6, <1>7
  <1> QED BY <1>8 DEF writes, bound

\* Both parsers agree on the states.
LEMMA StatesAgree ==
  ASSUME NEW p, ValuesAccepted(p)
  PROVE  PyStates(p)
           <=> /\ \A k \in 1..p.stateCount : StateAccepted(p, k)
               /\ \A v \in ToSet(p.values) : v.region = State => v.id \in Marked(p, p.states, p.stateCount + 1)
  <1> DEFINE n == p.stateCount
             regions == [k \in DOMAIN p.states |-> State]
             known == \A k \in 1..n : p.states[k].init = Zero
             named == \A k \in 1..n : /\ MarksFresh(p, p.states, k)
                                      /\ RegionOf(p, StorageRoot(p.values, p.states[k].value)) = regions[k]
             bound == \A v \in ToSet(p.values) : v.region \in {State} => v.id \in Marked(p, p.states, n + 1)
  <1>1. NamingRows(p.states, n) /\ DOMAIN p.states = 1..n
    <2>1. n \in Nat /\ DOMAIN p.states = 1..n /\ \A k \in 1..n : p.states[k].value \in Nat
      BY PlanNumbers DEF ValuesAccepted
    <2>2. Len(p.states) = n
      BY DEF ValuesAccepted, DecodedPlan, PlanCounted
    <2> QED BY <2>1, <2>2 DEF NamingRows
  <1>2. \A k \in 1..n : regions[k] = State
    BY <1>1
  <1>3. NamesOnce(p, p.states, regions) <=> named
    <2> HIDE DEF regions, n
    <2> QED BY <1>1, NamesAgree
  <1>4. named => (ToSet(Roots(p, p.states)) = IdsIn(p, {State}) <=> bound)
    <2> SUFFICES ASSUME named PROVE ToSet(Roots(p, p.states)) = IdsIn(p, {State}) <=> bound
      OBVIOUS
    <2>1. \A k \in 1..n : /\ MarksFresh(p, p.states, k)
                          /\ RegionOf(p, StorageRoot(p.values, p.states[k].value)) \in {State}
      BY <1>2
    <2> HIDE DEF regions, n
    <2> QED BY <1>1, <2>1, BindingsAgree
  <1>5. (\A q \in ToSet(p.states) : q.init = Zero) <=> known
    BY <1>1 DEF ToSet
  <1>6. (\A k \in 1..n : StateAccepted(p, k)) <=> known /\ named
    BY <1>1 DEF StateAccepted
  <1>7. PyStates(p) <=> /\ \A q \in ToSet(p.states) : q.init = Zero
                        /\ NamesOnce(p, p.states, regions)
                        /\ ToSet(Roots(p, p.states)) = IdsIn(p, {State})
    BY DEF PyStates
  <1> HIDE DEF known, named, bound, regions
  <1>8. PyStates(p) <=> (\A k \in 1..n : StateAccepted(p, k)) /\ bound
    BY ONLY <1>3, <1>4, <1>5, <1>6, <1>7
  <1> QED BY <1>8 DEF bound

-----------------------------------------------------------------------------
(* The two parsers read provider tables alike: Python compares the table     *)
(* with the one it would make, the runtime each row with its commands.       *)

Below(ids, id) == {other \in ids : other < id}
Rank(ids, id) == Cardinality(Below(ids, id))
Listed(f, n) == {f[j] : j \in 1..n}

\* The values of a function up to a number are finitely many.
LEMMA ListedFinite ==
  ASSUME NEW n \in Nat, NEW f
  PROVE  IsFiniteSet(Listed(f, n))
  <1> DEFINE S == {d \in 0..n : IsFiniteSet(Listed(f, d))}
  <1>1. 0 \in S
    <2>1. Listed(f, 0) = {}
      BY DEF Listed
    <2> QED BY <2>1, FS_EmptySet
  <1>2. ASSUME NEW d \in 1..n, d - 1 \in S PROVE d \in S
    <2>1. Listed(f, d) = Listed(f, d - 1) \cup {f[d]}
      BY DEF Listed
    <2>2. IsFiniteSet(Listed(f, d - 1))
      BY <1>2
    <2>3. IsFiniteSet(Listed(f, d))
      BY <2>1, <2>2, FS_AddElement
    <2> QED BY <2>3
  <1>3. n \in 0..n
    OBVIOUS
  <1> HIDE DEF S
  <1>4. n \in S
    BY <1>1, <1>2, <1>3, UpTo
  <1> QED BY <1>4 DEF S

\* Where numbers increase, each has as many below it as come before it.
LEMMA IncreasingRanks ==
  ASSUME NEW n \in Nat, NEW f, \A k \in 1..n : f[k] \in Nat,
         \A j, k \in 1..n : j < k => f[j] < f[k]
  PROVE  /\ Cardinality(Listed(f, n)) = n
         /\ \A k \in 1..n : Rank(Listed(f, n), f[k]) = k - 1
  <1> DEFINE S == {d \in 0..n : Cardinality(Listed(f, d)) = d}
  <1>1. 0 \in S
    <2>1. Listed(f, 0) = {}
      BY DEF Listed
    <2> QED BY <2>1, FS_EmptySet
  <1>2. ASSUME NEW d \in 1..n, d - 1 \in S PROVE d \in S
    <2>1. Listed(f, d) = Listed(f, d - 1) \cup {f[d]}
      BY DEF Listed
    <2>2. d - 1 \in Nat /\ Cardinality(Listed(f, d - 1)) = d - 1
      BY <1>2
    <2>3. f[d] \notin Listed(f, d - 1)
      <3>1. \A j \in 1..(d - 1) : j \in 1..n /\ f[j] < f[d]
        OBVIOUS
      <3>2. \A j \in 1..(d - 1) : f[j] # f[d]
        BY <3>1
      <3> QED BY <3>2 DEF Listed
    <2>4. Cardinality(Listed(f, d)) = (d - 1) + 1
      <3>1. IsFiniteSet(Listed(f, d - 1))
        BY <2>2, ListedFinite
      <3> QED BY <2>1, <2>2, <2>3, <3>1, FS_AddElement
    <2> QED BY <2>4
  <1> HIDE DEF S
  <1>3. \A d \in 0..n : d \in S
    BY <1>1, <1>2, UpTo
  <1>4. \A d \in 0..n : Cardinality(Listed(f, d)) = d
    BY <1>3 DEF S
  <1>5. ASSUME NEW k \in 1..n PROVE Rank(Listed(f, n), f[k]) = k - 1
    <2>1. \A j \in 1..n : f[j] < f[k] <=> j < k
      <3>1. ASSUME NEW j \in 1..n PROVE f[j] < f[k] <=> j < k
        <4>1. j \in Nat /\ k \in Nat /\ f[j] \in Nat /\ f[k] \in Nat
          OBVIOUS
        <4>2. (j < k => f[j] < f[k]) /\ (k < j => f[k] < f[j])
          OBVIOUS
        <4> QED BY <4>1, <4>2
      <3> QED BY <3>1
    <2>2. \A x : x \in Below(Listed(f, n), f[k]) <=> x \in Listed(f, k - 1)
      <3>1. \A j \in 1..(k - 1) : j \in 1..n /\ j < k
        OBVIOUS
      <3>2. \A j \in 1..n : j < k => j \in 1..(k - 1)
        OBVIOUS
      <3> QED BY <2>1, <3>1, <3>2 DEF Below, Listed
    <2>3. Below(Listed(f, n), f[k]) = Listed(f, k - 1)
      BY <2>2
    <2> QED BY <1>4, <2>3 DEF Rank
  <1>6. n \in 0..n
    OBVIOUS
  <1> QED BY <1>4, <1>5, <1>6

\* In a finite set of numbers no two have the same rank.
LEMMA RanksDiffer ==
  ASSUME NEW ids, IsFiniteSet(ids), ids \subseteq Nat
  PROVE  /\ \A a \in ids : Rank(ids, a) \in 0..(Cardinality(ids) - 1)
         /\ \A a, b \in ids : Rank(ids, a) = Rank(ids, b) => a = b
         /\ Cardinality(ids) \in Nat
  <1>1. Cardinality(ids) \in Nat
    BY FS_CardinalityType
  <1>2. ASSUME NEW a \in ids, NEW T \in SUBSET ids, Below(ids, a) \subseteq T, a \in T
        PROVE  /\ Rank(ids, a) \in Nat /\ Cardinality(T) \in Nat
               /\ Rank(ids, a) < Cardinality(T)
    <2>1. IsFiniteSet(T)
      BY FS_Subset
    <2>2. Below(ids, a) \in SUBSET T
      BY <1>2
    <2>3. IsFiniteSet(Below(ids, a)) /\ Cardinality(Below(ids, a)) <= Cardinality(T)
      BY <2>1, <2>2, FS_Subset
    <2>4. Cardinality(T) = Cardinality(Below(ids, a)) => T = Below(ids, a)
      BY <2>1, <2>2, FS_Subset
    <2>5. a \notin Below(ids, a)
      BY DEF Below
    <2>6. Cardinality(T) # Cardinality(Below(ids, a))
      BY <1>2, <2>4, <2>5
    <2>7. Cardinality(T) \in Nat /\ Cardinality(Below(ids, a)) \in Nat
      BY <2>1, <2>3, FS_CardinalityType
    <2> QED BY <2>3, <2>6, <2>7 DEF Rank
  <1>3. ASSUME NEW a \in ids PROVE Rank(ids, a) \in 0..(Cardinality(ids) - 1)
    <2>1. ids \in SUBSET ids /\ Below(ids, a) \subseteq ids
      BY DEF Below
    <2>2. Rank(ids, a) \in Nat /\ Rank(ids, a) < Cardinality(ids)
      BY <1>2, <2>1
    <2> QED BY <1>1, <2>2
  <1>4. ASSUME NEW a \in ids, NEW b \in ids, a < b PROVE Rank(ids, a) # Rank(ids, b)
    <2>1. /\ Below(ids, b) \in SUBSET ids /\ a \in Below(ids, b)
          /\ Below(ids, a) \subseteq Below(ids, b)
      <3>1. Below(ids, b) \in SUBSET ids
        BY DEF Below
      <3>2. a \in Below(ids, b)
        BY <1>4 DEF Below
      <3>3. ASSUME NEW x \in ids, x < a PROVE x < b
        <4>1. x \in Nat /\ a \in Nat /\ b \in Nat
          OBVIOUS
        <4> QED BY <1>4, <3>3, <4>1
      <3>4. Below(ids, a) \subseteq Below(ids, b)
        BY <3>3 DEF Below
      <3> QED BY <3>1, <3>2, <3>4
    <2>2. /\ Rank(ids, a) \in Nat /\ Cardinality(Below(ids, b)) \in Nat
          /\ Rank(ids, a) < Cardinality(Below(ids, b))
      BY <1>2, <2>1
    <2> QED BY <2>2 DEF Rank
  <1>5. ASSUME NEW a \in ids, NEW b \in ids, Rank(ids, a) = Rank(ids, b) PROVE a = b
    <2>1. ~(a < b) /\ ~(b < a)
      BY <1>4, <1>5
    <2>2. a \in Nat /\ b \in Nat
      OBVIOUS
    <2> QED BY <2>1, <2>2
  <1> QED BY <1>1, <1>3, <1>5

Own(s, id) == {i \in DOMAIN s.commands : s.commands[i].provider = id}
DescribesOwn(s, r) ==
  /\ \A i \in Own(s, r.id) : s.commands[i].major = r.major /\ s.commands[i].minor = r.minor
  /\ r.count = Cardinality(Own(s, r.id))
  /\ r.captures = Cardinality({i \in Own(s, r.id) : CaptureSafe(s.commands[i])})
  /\ r.tags = {s.commands[i].tag : i \in Own(s, r.id)}
  /\ r.usage = Usage(s, CommandsOf(s, r.id))
EveryCommandListed(p) ==
  \A i \in 1..p.stream.commandCount : \E r \in ToSet(p.providers) : r.id = p.stream.commands[i].provider

\* The providers of a stream are finitely many numbers, each of them of a command.
LEMMA ProviderNumbers ==
  ASSUME NEW s, DecodedStream(s)
  PROVE  /\ IsFiniteSet(ProviderIds(s)) /\ ProviderIds(s) \subseteq Nat
         /\ \A id : id \in ProviderIds(s) <=> Own(s, id) # {}
  <1> DEFINE n == s.commandCount
             f == [i \in 1..n |-> s.commands[i].provider]
  <1>1. n \in Nat /\ DOMAIN s.commands = 1..n /\ Len(s.commands) = n
    BY StreamNumbers
  <1>2. \A i \in 1..n : s.commands[i].provider \in Nat
    <2>1. ASSUME NEW i \in 1..n PROVE s.commands[i].provider \in Nat
      <3>1. Numbers(s.commands[i], CommandFields)
        BY <1>1 DEF DecodedStream, StreamRows, Rows
      <3> QED BY <3>1 DEF Numbers, CommandFields
    <2> QED BY <2>1
  <1> HIDE DEF n
  <1>3. \A id : id \in ProviderIds(s) <=> \E i \in 1..n : id = s.commands[i].provider
    BY <1>1 DEF ProviderIds, ToSet
  <1>4. \A id : id \in ProviderIds(s) <=> id \in Listed(f, n)
    <2>1. \A i \in 1..n : f[i] = s.commands[i].provider
      OBVIOUS
    <2> HIDE DEF f
    <2> QED BY <1>3, <2>1 DEF Listed
  <1>5. ProviderIds(s) = Listed(f, n)
    BY <1>4
  <1>6. IsFiniteSet(ProviderIds(s))
    <2> HIDE DEF f
    <2> QED BY <1>1, <1>5, ListedFinite
  <1>7. \A id : Own(s, id) # {} <=> \E i \in 1..n : id = s.commands[i].provider
    BY <1>1 DEF Own
  <1> QED BY <1>2, <1>3, <1>6, <1>7

\* The row that the compiler makes is the one that describes the commands.
LEMMA RowsAgree ==
  ASSUME NEW s, NEW r, ProviderDescriptor(r), OneAbi(s), Own(s, r.id) # {}
  PROVE  r = ProviderRow(s, r.id) <=> r.reserved = 0 /\ DescribesOwn(s, r)
  <1> DEFINE own == Own(s, r.id)
             c == s.commands[CHOOSE i \in own : TRUE]
             captures == Cardinality({i \in own : CaptureSafe(s.commands[i])})
             tags == {s.commands[i].tag : i \in own}
             usage == Usage(s, CommandsOf(s, r.id))
             row == [id |-> r.id, major |-> c.major, minor |-> c.minor, tags |-> tags, count |-> Cardinality(own),
                     captures |-> captures, reserved |-> 0, usage |-> usage]
  <1>1. ProviderRow(s, r.id) = row
    BY DEF ProviderRow, Own
  <1>2. PICK j \in own : c = s.commands[j]
    OBVIOUS
  <1>3. \A i \in own : s.commands[i].major = c.major /\ s.commands[i].minor = c.minor
    <2>1. \A i \in own : s.commands[i] \in ToSet(s.commands) /\ s.commands[i].provider = r.id
      BY DEF Own, ToSet
    <2> HIDE DEF own
    <2> QED BY <1>2, <2>1 DEF OneAbi
  <1>4. DescribesOwn(s, r)
          <=> /\ r.major = c.major /\ r.minor = c.minor /\ r.count = Cardinality(own)
              /\ r.captures = captures /\ r.tags = tags /\ r.usage = usage
    <2>1. (\A i \in own : s.commands[i].major = r.major /\ s.commands[i].minor = r.minor)
            <=> r.major = c.major /\ r.minor = c.minor
      <3> HIDE DEF own, c
      <3> QED BY <1>2, <1>3
    <2> HIDE DEF c
    <2> QED BY <2>1 DEF DescribesOwn
  <1> HIDE DEF own, c, captures, tags, usage
  <1>5. r = row <=> /\ r.major = c.major /\ r.minor = c.minor /\ r.count = Cardinality(own)
                    /\ r.captures = captures /\ r.tags = tags /\ r.usage = usage /\ r.reserved = 0
    <2>1. ASSUME r = row
          PROVE  /\ r.major = c.major /\ r.minor = c.minor /\ r.count = Cardinality(own)
                 /\ r.captures = captures /\ r.tags = tags /\ r.usage = usage /\ r.reserved = 0
      BY <2>1
    <2>2. ASSUME r.major = c.major, r.minor = c.minor, r.count = Cardinality(own),
                 r.captures = captures, r.tags = tags, r.usage = usage, r.reserved = 0
          PROVE  r = row
      <3>1. r = [id |-> r.id, major |-> r.major, minor |-> r.minor, tags |-> r.tags, count |-> r.count,
                 captures |-> r.captures, reserved |-> r.reserved, usage |-> r.usage]
        BY DEF ProviderDescriptor
      <3> QED BY <2>2, <3>1, Zenon
    <2> HIDE DEF row
    <2> QED BY <2>1, <2>2
  <1> HIDE DEF row
  <1> QED BY <1>1, <1>4, <1>5

\* The k-th of the providers in the order of their ids.
Nth(s, k) == CHOOSE id \in ProviderIds(s) : Rank(ProviderIds(s), id) = k - 1

\* The table the compiler makes, in terms of it.
LEMMA ProviderList ==
  ASSUME NEW s
  PROVE  Providers(s) = [k \in 1..Cardinality(ProviderIds(s)) |-> ProviderRow(s, Nth(s, k))]
  BY DEF Providers, Nth, Rank, Below

\* What the runtime asks of a provider row besides its place.
RowLegal(r) ==
  /\ r.major # 0 /\ r.tags # {} /\ r.tags \ KnownTag = {}
  /\ r.count # 0 /\ r.captures <= r.count /\ r.reserved = 0 /\ r.usage # NoDigest
RowAfter(p, k) == p.providers[k].id > (IF k = 1 THEN 0 ELSE p.providers[k-1].id)

\* Both parsers agree on the provider table: it is the one the commands imply
\* exactly when each row describes its commands and each command has a row.
LEMMA ProvidersAgree ==
  ASSUME NEW p, DecodedPlan(p)
  PROVE  PyProviders(p)
           <=> (\A k \in 1..p.providerCount : ProviderAccepted(p, k)) /\ EveryCommandListed(p)
  <1> DEFINE s == p.stream
             n == p.providerCount
             rows == p.providers
             f == [k \in 1..n |-> rows[k].id]
             ids == ProviderIds(s)
  <1>1. /\ n \in Nat /\ DOMAIN rows = 1..n /\ Len(rows) = n /\ rows = [k \in 1..n |-> rows[k]]
        /\ \A k \in 1..n : rows[k].id \in Nat /\ ProviderDescriptor(rows[k])
    <2>1. n \in Nat /\ DOMAIN rows = 1..n /\ Len(rows) = n /\ \A k \in 1..n : rows[k].id \in Nat
      BY PlanNumbers DEF DecodedPlan, PlanCounted
    <2>2. rows = [k \in 1..n |-> rows[k]]
      <3>1. Rows(rows, TableFields.providers)
        BY DEF DecodedPlan, PlanRows, TableFields
      <3>2. rows = [k \in 1..Len(rows) |-> rows[k]]
        BY <3>1 DEF Rows
      <3> QED BY <2>1, <3>2
    <2>3. \A k \in 1..n : ProviderDescriptor(rows[k])
      BY <2>1 DEF DecodedPlan, PlanRows, RowsTyped
    <2> QED BY <2>1, <2>2, <2>3
  <1>2. /\ DecodedStream(s) /\ DOMAIN s.commands = 1..s.commandCount
        /\ IsFiniteSet(ids) /\ ids \subseteq Nat /\ \A id : id \in ids <=> Own(s, id) # {}
    <2>1. DecodedStream(s)
      BY PlanNumbers
    <2> HIDE DEF s
    <2> QED BY <2>1, ProviderNumbers, StreamNumbers
  <1>3. \A k \in 1..n : ProviderAccepted(p, k) <=> RowAfter(p, k) /\ RowLegal(rows[k]) /\ DescribesOwn(s, rows[k])
    BY DEF ProviderAccepted, RowAfter, RowLegal, DescribesOwn, Own
  <1>4. PyProviders(p) <=> /\ \A k \in 1..n : RowAfter(p, k) /\ RowLegal(rows[k])
                           /\ OneAbi(s) /\ rows = Providers(s)
    <2>1. \A k \in 1..n :
            (/\ IF k = 1 THEN rows[k].id > 0 ELSE rows[k].id > rows[k-1].id
             /\ rows[k].major # 0 /\ rows[k].tags # {} /\ rows[k].tags \subseteq KnownTag
             /\ rows[k].count # 0 /\ rows[k].captures <= rows[k].count /\ rows[k].reserved = 0 /\ rows[k].usage # NoDigest)
            <=> RowAfter(p, k) /\ RowLegal(rows[k])
      <3>1. ASSUME NEW k \in 1..n
            PROVE  /\ (IF k = 1 THEN rows[k].id > 0 ELSE rows[k].id > rows[k-1].id) <=> RowAfter(p, k)
                   /\ rows[k].tags \subseteq KnownTag <=> rows[k].tags \ KnownTag = {}
        BY DEF RowAfter
      <3> QED BY <3>1 DEF RowLegal
    <2> HIDE DEF s, rows, n
    <2> QED BY <2>1 DEF PyProviders, s, rows, n
  <1>5. \A id : id \in Listed(f, n) <=> \E k \in 1..n : id = rows[k].id
    <2>1. \A k \in 1..n : f[k] = rows[k].id
      OBVIOUS
    <2> HIDE DEF f
    <2> QED BY <2>1 DEF Listed
  <1>6. EveryCommandListed(p) <=> ids \subseteq Listed(f, n)
    <2>1. \A id : id \in ids <=> \E i \in 1..s.commandCount : id = s.commands[i].provider
      BY <1>2 DEF ProviderIds, ToSet
    <2>2. \A id : (\E r \in ToSet(rows) : r.id = id) <=> id \in Listed(f, n)
      BY <1>1, <1>5 DEF ToSet
    <2> HIDE DEF s, rows, f, n, ids
    <2> QED BY <2>1, <2>2 DEF EveryCommandListed, s, rows
  <1> HIDE DEF s, n, rows, f, ids
  <1>7. ASSUME PyProviders(p)
        PROVE  (\A k \in 1..n : ProviderAccepted(p, k)) /\ EveryCommandListed(p)
    <2>1. /\ OneAbi(s) /\ rows = Providers(s) /\ \A k \in 1..n : RowAfter(p, k) /\ RowLegal(rows[k])
      BY <1>4, <1>7
    <2>2. rows = [k \in 1..Cardinality(ids) |-> ProviderRow(s, Nth(s, k))]
      BY <2>1, ProviderList DEF ids
    <2>3. Cardinality(ids) = n /\ \A k \in 1..n : rows[k] = ProviderRow(s, Nth(s, k))
      <3>1. Cardinality(ids) \in Nat /\ 1..Cardinality(ids) = 1..n
        BY <1>1, <1>2, <2>2, FS_CardinalityType
      <3>2. Cardinality(ids) = n
        BY <1>1, <3>1
      <3> QED BY <2>2, <3>2
    <2>4. \A k \in 1..n : rows[k].id = Nth(s, k) /\ rows[k] = ProviderRow(s, rows[k].id)
      <3>1. \A id : ProviderRow(s, id).id = id
        BY DEF ProviderRow
      <3> QED BY <2>3, <3>1
    <2>5. ASSUME NEW k \in 1..n PROVE DescribesOwn(s, rows[k])
      <3>1. rows[k].count = Cardinality(Own(s, rows[k].id))
        <4>1. \A id : ProviderRow(s, id).count = Cardinality(Own(s, id))
          BY DEF ProviderRow, Own
        <4> QED BY <2>4, <4>1
      <3>2. Own(s, rows[k].id) # {}
        BY <2>1, <3>1, FS_EmptySet DEF RowLegal
      <3> QED BY <1>1, <2>1, <2>4, <3>2, RowsAgree
    <2>6. ASSUME NEW id \in ids PROVE id \in Listed(f, n)
      <3> DEFINE k == Rank(ids, id) + 1
      <3>1. Rank(ids, id) \in 0..(n - 1)
        BY <1>2, <2>3, RanksDiffer
      <3>2. k \in 1..n /\ Rank(ids, id) = k - 1
        BY <1>1, <3>1
      <3> HIDE DEF k
      <3>3. Nth(s, k) \in ids /\ Rank(ids, Nth(s, k)) = k - 1
        BY <3>2 DEF Nth, ids
      <3>4. Nth(s, k) = id
        BY <1>2, <3>2, <3>3, RanksDiffer
      <3> QED BY <1>5, <2>4, <3>2, <3>4
    <2> QED BY <1>3, <1>6, <2>1, <2>5, <2>6
  <1>8. ASSUME \A k \in 1..n : ProviderAccepted(p, k), EveryCommandListed(p)
        PROVE  PyProviders(p)
    <2>1. \A k \in 1..n : RowAfter(p, k) /\ RowLegal(rows[k]) /\ DescribesOwn(s, rows[k])
      BY <1>3, <1>8
    <2>2. ASSUME NEW k \in 1..n PROVE Own(s, rows[k].id) # {} /\ rows[k].id \in ids
      <3>1. Own(s, rows[k].id) # {}
        BY <2>1, FS_EmptySet DEF RowLegal, DescribesOwn
      <3> QED BY <1>2, <3>1
    <2>3. ids = Listed(f, n)
      BY <1>5, <1>6, <1>8, <2>2
    <2>4. \A k \in 1..n : f[k] = rows[k].id
      BY DEF f
    <2>5. Cardinality(ids) = n /\ \A k \in 1..n : Rank(ids, rows[k].id) = k - 1
      <3>1. \A j, k \in 1..n : j < k => rows[j].id < rows[k].id
        BY <1>8, ProvidersIncrease DEF n, rows
      <3>2. /\ \A k \in 1..n : f[k] \in Nat
            /\ \A j, k \in 1..n : j < k => f[j] < f[k]
        BY <1>1, <2>4, <3>1
      <3>3. /\ Cardinality(Listed(f, n)) = n
            /\ \A k \in 1..n : Rank(Listed(f, n), f[k]) = k - 1
        BY <1>1, <3>2, IncreasingRanks
      <3> QED BY <2>3, <2>4, <3>3
    <2>6. ASSUME NEW k \in 1..n PROVE Nth(s, k) = rows[k].id
      <3>1. rows[k].id \in ids /\ Rank(ids, rows[k].id) = k - 1
        BY <2>2, <2>5
      <3>2. Nth(s, k) \in ids /\ Rank(ids, Nth(s, k)) = k - 1
        BY <3>1 DEF Nth, ids
      <3> QED BY <1>2, <3>1, <3>2, RanksDiffer
    <2>7. OneAbi(s)
      <3> SUFFICES ASSUME NEW c \in ToSet(s.commands), NEW d \in ToSet(s.commands), c.provider = d.provider
                   PROVE  <<c.major, c.minor>> = <<d.major, d.minor>>
        BY DEF OneAbi
      <3>1. PICK i \in DOMAIN s.commands : c = s.commands[i]
        BY DEF ToSet
      <3>2. PICK j \in DOMAIN s.commands : d = s.commands[j]
        BY DEF ToSet
      <3>3. c.provider \in ids
        BY DEF ids, ProviderIds
      <3>4. PICK k \in 1..n : c.provider = rows[k].id
        BY <1>5, <2>3, <3>3
      <3>5. i \in Own(s, rows[k].id) /\ j \in Own(s, rows[k].id)
        BY <3>1, <3>2, <3>4 DEF Own
      <3> QED BY ZenonT(60), <2>1, <3>1, <3>2, <3>5 DEF DescribesOwn
    <2>8. \A k \in 1..n : rows[k] = ProviderRow(s, rows[k].id)
      <3>1. ASSUME NEW k \in 1..n PROVE rows[k] = ProviderRow(s, rows[k].id)
        <4>1. rows[k].reserved = 0
          BY <2>1 DEF RowLegal
        <4> QED BY <1>1, <2>1, <2>2, <2>7, <4>1, RowsAgree
      <3> QED BY <3>1
    <2>9. rows = Providers(s)
      <3>1. Providers(s) = [k \in 1..n |-> ProviderRow(s, Nth(s, k))]
        BY <2>5, ProviderList DEF ids
      <3>2. \A k \in 1..n : rows[k] = ProviderRow(s, Nth(s, k))
        BY <2>6, <2>8
      <3>3. Providers(s) = [k \in 1..n |-> rows[k]]
        BY <3>1, <3>2
      <3> QED BY <1>1, <3>3
    <2> QED BY <1>4, <2>1, <2>7, <2>9
  <1> QED BY <1>7, <1>8 DEF n

-----------------------------------------------------------------------------
(* The two parsers read plans alike *)

\* Both parsers agree on the operands: the spans of the commands are the table.
LEMMA OperandsAgree ==
  ASSUME NEW p, ValuesAccepted(p), ParseCommandStream(p.stream), p.stream.valueCount = p.valueCount
  PROVE  (\A o \in ToSet(p.stream.operands) : OperandInside(p, o))
           <=> \A i \in 1..p.stream.commandCount : \A o \in ToSet(OperandsOf(p.stream, i)) :
                 StorageRoot(p.values, o.value) # None /\ OperandInside(p, o)
  <1> DEFINE s == p.stream
             first(i) == s.commands[i].first
             count(i) == s.commands[i].count
  <1>1. DecodedStream(s) /\ ParseCommandStream(s) /\ FromBytes(s)
    <2>1. DecodedStream(s)
      BY PlanNumbers DEF ValuesAccepted
    <2> HIDE DEF s
    <2>2. ParseCommandStream(s)
      BY DEF s
    <2> QED BY <2>1, <2>2, StreamsAgree
  <1>2. /\ s.operandCount \in Nat /\ DOMAIN s.operands = 1..s.operandCount
        /\ \A i \in 1..s.commandCount : first(i) \in Nat /\ count(i) \in Nat
    <2> HIDE DEF s
    <2> QED BY <1>1, StreamNumbers
  <1>3. \A i \in 1..s.commandCount : first(i) + count(i) <= s.operandCount
    <2>1. \A i \in 1..s.commandCount : count(i) <= s.operandCount - first(i)
      BY <1>1 DEF FromBytes, PyCommandSpans
    <2> HIDE DEF s, first, count
    <2> QED BY <1>2, <2>1
  <1>4. \A j \in 1..s.operandCount : \E i \in 1..s.commandCount : first(i) < j /\ j <= first(i) + count(i)
    <2> HIDE DEF s
    <2> QED BY <1>1, StreamSound
  <1>5. \A i \in 1..s.commandCount : \A o : o \in ToSet(OperandsOf(s, i)) <=> \E k \in 1..count(i) : o = s.operands[first(i) + k]
    <2>1. ASSUME NEW i \in 1..s.commandCount
          PROVE  \A o : o \in ToSet(OperandsOf(s, i)) <=> \E k \in 1..count(i) : o = s.operands[first(i) + k]
      <3> DEFINE f == first(i)
                 c == count(i)
      <3>1. f \in Nat /\ c \in Nat /\ OperandsOf(s, i) = SubSeq(s.operands, f + 1, f + c)
        BY <1>2 DEF OperandsOf
      <3> HIDE DEF f, c, s
      <3>2. \A o : o \in ToSet(SubSeq(s.operands, f + 1, f + c)) <=> \E k \in 1..c : o = s.operands[f + k]
        BY <3>1, Cut
      <3>3. \A o : o \in ToSet(OperandsOf(s, i)) <=> \E k \in 1..c : o = s.operands[f + k]
        BY <3>1, <3>2
      <3> QED BY <3>3 DEF f, c
    <2> QED BY <2>1
  <1>6. \A j \in 1..s.operandCount : StorageRoot(p.values, s.operands[j].value) # None
    <2>1. ASSUME NEW j \in 1..s.operandCount PROVE StorageRoot(p.values, s.operands[j].value) # None
      <3> DEFINE id == s.operands[j].value
      <3>1. id \in Nat /\ id < s.valueCount
        <4>1. s.operands[j] \in ToSet(s.operands)
          BY <1>2 DEF ToSet
        <4>2. id < s.valueCount
          BY <1>1, <4>1 DEF ParseCommandStream
        <4>3. {s.operands[j].value, s.operands[j].offset} \subseteq 0..MaxU64
          BY <1>1, StreamNumbers
        <4> QED BY <4>2, <4>3
      <3>2. p.valueCount \in Nat /\ s.valueCount = p.valueCount
        BY PlanNumbers DEF ValuesAccepted
      <3> HIDE DEF id, s
      <3>3. id \in 0..(p.valueCount - 1) /\ id + 1 \in 1..p.valueCount /\ (id + 1) - 1 = id
        BY <3>1, <3>2
      <3>4. RootAccepted(p, id + 1)
        BY <3>3 DEF ValuesAccepted
      <3> QED BY <3>3, <3>4 DEF RootAccepted, id
    <2> QED BY <2>1
  <1> HIDE DEF s, first, count
  <1>7. \A o : o \in ToSet(s.operands) <=> \E j \in 1..s.operandCount : o = s.operands[j]
    BY <1>2 DEF ToSet
  <1>8. \A o : o \in ToSet(s.operands) <=> \E i \in 1..s.commandCount : o \in ToSet(OperandsOf(s, i))
    <2>1. ASSUME NEW j \in 1..s.operandCount
          PROVE  \E i \in 1..s.commandCount : s.operands[j] \in ToSet(OperandsOf(s, i))
      <3>1. PICK i \in 1..s.commandCount : first(i) < j /\ j <= first(i) + count(i)
        BY <1>4
      <3>2. j - first(i) \in 1..count(i) /\ first(i) + (j - first(i)) = j
        BY <1>2, <3>1
      <3>3. \E k \in 1..count(i) : s.operands[j] = s.operands[first(i) + k]
        BY <3>2
      <3> QED BY <1>5, <3>3
    <2>2. ASSUME NEW i \in 1..s.commandCount, NEW k \in 1..count(i) PROVE first(i) + k \in 1..s.operandCount
      BY <1>2, <1>3
    <2>3. ASSUME NEW i \in 1..s.commandCount, NEW o, o \in ToSet(OperandsOf(s, i)) PROVE o \in ToSet(s.operands)
      BY <1>5, <1>7, <2>2, <2>3
    <2> QED BY <1>7, <2>1, <2>3
  <1>9. \A o \in ToSet(s.operands) : StorageRoot(p.values, o.value) # None
    BY <1>6, <1>7
  <1>10. (\A o \in ToSet(s.operands) : OperandInside(p, o))
           <=> \A i \in 1..s.commandCount : \A o \in ToSet(OperandsOf(s, i)) :
                 StorageRoot(p.values, o.value) # None /\ OperandInside(p, o)
    BY <1>8, <1>9
  <1> QED BY <1>10 DEF s

\* Both parsers agree on the value records.
LEMMA ValuesAgree ==
  ASSUME NEW p, DecodedPlan(p), p.valueCount <= MaxU32
  PROVE  (\A i \in 1..p.valueCount : PyTensorContract(p, i) /\ PyStorage(p, p.values[i]))
           <=> \A i \in 1..p.valueCount : TensorContract(p.values[i], i) /\ StorageContract(p, p.values[i])
  <1> SUFFICES ASSUME NEW i \in 1..p.valueCount
               PROVE  PyTensorContract(p, i) /\ PyStorage(p, p.values[i])
                        <=> TensorContract(p.values[i], i) /\ StorageContract(p, p.values[i])
    OBVIOUS
  <1>1. PyTensorContract(p, i) <=> TensorContract(p.values[i], i)
    BY TensorsAgree
  <1>2. PyTensorContract(p, i) => p.values[i].region \in Regions
    BY DEF PyTensorContract
  <1>3. ASSUME p.values[i].region \in Regions
        PROVE  PyStorage(p, p.values[i]) <=> StorageContract(p, p.values[i])
    BY <1>3, StoragesAgree
  <1> QED BY ONLY <1>1, <1>2, <1>3

\* What the runtime checks of the bindings of a plan.
PortsAccepted(p) ==
  /\ \A k \in 1..p.portCount : PortAccepted(p, k)
  /\ \E q \in ToSet(p.ports) : q.kind = Output
  /\ \A v \in ToSet(p.values) : v.region \in External => v.id \in Marked(p, p.ports, p.portCount + 1)
StatesAccepted(p) ==
  /\ \A k \in 1..p.stateCount : StateAccepted(p, k)
  /\ \A v \in ToSet(p.values) : v.region = State => v.id \in Marked(p, p.states, p.stateCount + 1)
ProvidersAccepted(p) == (\A k \in 1..p.providerCount : ProviderAccepted(p, k)) /\ EveryCommandListed(p)
OperandsAccepted(p) ==
  \A i \in 1..p.stream.commandCount : \A o \in ToSet(OperandsOf(p.stream, i)) :
    StorageRoot(p.values, o.value) # None /\ OperandInside(p, o)
Begun(p, arch, weights) == PlanHeader(p, arch, weights) /\ ParseCommandStream(p.stream) /\ StreamMatches(p)

\* Both parsers of a decoded plan accept it or neither does.
LEMMA ParsersAgree ==
  ASSUME NEW p, DecodedPlan(p), NEW arch, NEW weights
  PROVE  PyParse(p, arch, weights) <=> ParseExecutablePlan(p, arch, weights)
  <1> DEFINE pyValues == \A i \in 1..p.valueCount : PyTensorContract(p, i) /\ PyStorage(p, p.values[i])
             values == \A i \in 1..p.valueCount : TensorContract(p.values[i], i) /\ StorageContract(p, p.values[i])
             pyRoots == \A v \in ToSet(p.values) :
                          LET root == StorageRoot(p.values, v.id)
                          IN root # None /\ (v.region = Alias => v.bytes = p.values[root + 1].bytes)
             roots == \A i \in 1..p.valueCount : RootAccepted(p, i)
             pyOperands == \A o \in ToSet(p.stream.operands) : OperandInside(p, o)
             begun == Begun(p, arch, weights)
  <1>1. PyParse(p, arch, weights)
          <=> /\ PyPlanHeader(p, arch, weights) /\ FromBytes(p.stream) /\ StreamMatches(p)
              /\ pyValues /\ SpansDisjoint(p.values) /\ pyRoots
              /\ PyPorts(p) /\ PyStates(p) /\ PyProviders(p) /\ pyOperands
    BY DEF PyParse
  <1>2. ParseExecutablePlan(p, arch, weights)
          <=> /\ begun /\ values /\ WeightIntervals(p) /\ roots
              /\ PortsAccepted(p) /\ StatesAccepted(p) /\ ProvidersAccepted(p) /\ OperandsAccepted(p)
    <2>1. (\A i \in 1..p.stream.commandCount : CommandBound(p, i)) <=> EveryCommandListed(p) /\ OperandsAccepted(p)
      BY DEF CommandBound, EveryCommandListed, OperandsAccepted
    <2>2. EveryRootBound(p)
            <=> /\ \A v \in ToSet(p.values) : v.region \in External => v.id \in Marked(p, p.ports, p.portCount + 1)
                /\ \A v \in ToSet(p.values) : v.region = State => v.id \in Marked(p, p.states, p.stateCount + 1)
      BY DEF EveryRootBound
    <2>3. roots <=> \A i \in 1..p.valueCount :
                      LET root == StorageRoot(p.values, i - 1)
                      IN root # None /\ (p.values[i].region = Alias => p.values[i].bytes = p.values[root + 1].bytes)
      BY DEF RootAccepted
    <2> HIDE DEF values, roots, begun
    <2> QED BY <2>1, <2>2, <2>3
            DEF ParseExecutablePlan, begun, Begun, values, PortsAccepted, StatesAccepted, ProvidersAccepted
  <1>3. PyPlanHeader(p, arch, weights) /\ FromBytes(p.stream) /\ StreamMatches(p) <=> begun
    <2>1. DecodedStream(p.stream) /\ PlanRows(p)
      BY PlanNumbers DEF DecodedPlan
    <2>2. PyPlanHeader(p, arch, weights) <=> PlanHeader(p, arch, weights)
      BY <2>1, HeadersAgree
    <2>3. FromBytes(p.stream) <=> ParseCommandStream(p.stream)
      BY <2>1, StreamsAgree
    <2> QED BY ONLY <2>2, <2>3 DEF Begun
  <1>4. ASSUME begun PROVE p.stream.valueCount = p.valueCount /\ p.valueCount <= MaxU32
    <2>1. p.stream.valueCount = p.valueCount
      BY <1>4 DEF Begun, StreamMatches
    <2>2. p.stream.valueCount <= MaxU32
      BY <1>4 DEF Begun, ParseCommandStream, StreamHeader
    <2> QED BY <2>1, <2>2
  <1>5. ASSUME begun PROVE pyValues <=> values
    <2> HIDE DEF begun
    <2> QED BY <1>4, <1>5, ValuesAgree
  <1>6. ASSUME values PROVE pyRoots <=> roots
    <2>1. \A i \in 1..p.valueCount : p.values[i].id = i - 1
      BY <1>6 DEF TensorContract
    <2> QED BY <2>1, RootsAgree
  <1>7. ASSUME begun, values, roots
        PROVE  /\ SpansDisjoint(p.values) <=> WeightIntervals(p)
               /\ PyPorts(p) <=> PortsAccepted(p)
               /\ PyStates(p) <=> StatesAccepted(p)
               /\ pyOperands <=> OperandsAccepted(p)
    <2>1. ValuesAccepted(p)
      BY <1>7 DEF ValuesAccepted
    <2>2. SpansDisjoint(p.values) <=> WeightIntervals(p)
      BY <2>1, WeightsAgree
    <2>3. PyPorts(p) <=> PortsAccepted(p)
      BY <2>1, PortsAgree DEF PortsAccepted
    <2>4. PyStates(p) <=> StatesAccepted(p)
      BY <2>1, StatesAgree DEF StatesAccepted
    <2>5. pyOperands <=> OperandsAccepted(p)
      <3>1. ParseCommandStream(p.stream) /\ p.stream.valueCount = p.valueCount
        BY <1>4, <1>7 DEF Begun
      <3> QED BY <2>1, <3>1, OperandsAgree DEF OperandsAccepted
    <2> QED BY <2>2, <2>3, <2>4, <2>5
  <1>8. PyProviders(p) <=> ProvidersAccepted(p)
    BY ProvidersAgree DEF ProvidersAccepted
  <1> HIDE DEF pyValues, values, pyRoots, roots, pyOperands, begun
  <1> QED BY ONLY <1>1, <1>2, <1>3, <1>5, <1>6, <1>7, <1>8

-----------------------------------------------------------------------------
(* The constants of a program and the assets of its checkpoint, in order.   *)

\* The elements of a finite set of numbers, in order: each of them once.
LEMMA SortedElements ==
  ASSUME NEW ids, IsFiniteSet(ids), ids \subseteq Nat
  PROVE  LET n == Cardinality(ids)
             seq == SortedSeq(ids)
         IN /\ n \in Nat /\ DOMAIN seq = 1..n /\ Len(seq) = n /\ seq = [k \in 1..n |-> seq[k]]
            /\ \A k \in 1..n : seq[k] \in ids
            /\ \A id \in ids : \E k \in 1..n : seq[k] = id
            /\ \A j, k \in 1..n : seq[j] = seq[k] => j = k
  <1> DEFINE n == Cardinality(ids)
             seq == SortedSeq(ids)
             f == [id \in ids |-> Rank(ids, id) + 1]
             nth(k) == CHOOSE id \in ids : Rank(ids, id) = k - 1
  <1>1. n \in Nat
    BY FS_CardinalityType
  <1>2. seq = [k \in 1..n |-> nth(k)]
    BY DEF SortedSeq, Rank, Below
  <1>3. \A a \in ids : Rank(ids, a) \in 0..(n - 1)
    BY RanksDiffer
  <1>4. \A a, b \in ids : Rank(ids, a) = Rank(ids, b) => a = b
    BY RanksDiffer
  <1> HIDE DEF n
  <1>5. f \in [ids -> 1..n] /\ \A id \in ids : f[id] = Rank(ids, id) + 1
    <2>1. \A id \in ids : Rank(ids, id) + 1 \in 1..n
      BY <1>1, <1>3
    <2> QED BY <2>1
  <1> HIDE DEF f
  <1>6. f \in Injection(ids, 1..n)
    <2>1. \A a, b \in ids : f[a] = f[b] => a = b
      <3>1. ASSUME NEW a \in ids, NEW b \in ids, f[a] = f[b] PROVE a = b
        <4>1. Rank(ids, a) \in Int /\ Rank(ids, b) \in Int /\ Rank(ids, a) + 1 = Rank(ids, b) + 1
          BY <1>1, <1>3, <1>5, <3>1
        <4>2. Rank(ids, a) = Rank(ids, b)
          BY <4>1
        <4> QED BY <1>4, <4>2
      <3> QED BY <3>1
    <2>2. DOMAIN f = ids
      BY <1>5
    <2>3. IsInjective(f)
      BY <2>1, <2>2 DEF IsInjective
    <2> QED BY <1>5, <2>3 DEF Injection
  <1>7. \A k \in 1..n : \E id \in ids : f[id] = k
    <2>1. IsFiniteSet(1..n) /\ Cardinality(1..n) = n
      BY <1>1, FS_Interval
    <2>2. f \in Surjection(ids, 1..n)
      BY <1>6, <2>1, FS_Injection DEF n
    <2> QED BY <2>2 DEF Surjection
  <1>8. \A k \in 1..n : nth(k) \in ids /\ Rank(ids, nth(k)) = k - 1
    <2>1. ASSUME NEW k \in 1..n PROVE \E id \in ids : Rank(ids, id) = k - 1
      <3>1. PICK id \in ids : f[id] = k
        BY <1>7
      <3>2. Rank(ids, id) \in Int /\ k = Rank(ids, id) + 1
        BY <1>1, <1>3, <1>5, <3>1
      <3>3. Rank(ids, id) = k - 1
        BY <3>2
      <3> QED BY <3>3
    <2> QED BY <2>1
  <1> HIDE DEF nth
  <1>9. DOMAIN seq = 1..n /\ \A k \in 1..n : seq[k] = nth(k)
    BY <1>2
  <1>10. seq = [k \in 1..n |-> seq[k]]
    BY <1>2, <1>9
  <1> HIDE DEF seq
  <1>11. Len(seq) = n
    BY <1>1, <1>10, LenOfFunction
  <1>12. \A k \in 1..n : seq[k] \in ids
    BY <1>8, <1>9
  <1>13. ASSUME NEW id \in ids PROVE \E k \in 1..n : seq[k] = id
    <2>1. f[id] \in 1..n /\ Rank(ids, id) \in Int /\ f[id] = Rank(ids, id) + 1
      BY <1>1, <1>3, <1>5
    <2>2. Rank(ids, id) = f[id] - 1
      BY <2>1
    <2>3. nth(f[id]) = id
      BY <1>4, <1>8, <2>1, <2>2
    <2> QED BY <1>9, <2>1, <2>3
  <1>14. ASSUME NEW j \in 1..n, NEW k \in 1..n, seq[j] = seq[k] PROVE j = k
    <2>1. j - 1 = k - 1 /\ j \in Int /\ k \in Int
      BY <1>8, <1>9, <1>14
    <2> QED BY <2>1
  <1> QED BY <1>1, <1>9, <1>10, <1>11, <1>12, <1>13, <1>14 DEF n, seq

\* The manifest lists every asset.
LEMMA AssetsListed ==
  /\ Len(AssetOrder) \in Nat /\ Len(AssetOrder) # 0 /\ DOMAIN AssetOrder = 1..Len(AssetOrder)
  /\ \A j \in 1..Len(AssetOrder) : AssetOrder[j] \in Assets
  /\ \A a \in Assets : \E j \in 1..Len(AssetOrder) : AssetOrder[j] = a
  <1> DEFINE n == Cardinality(Assets)
             listing == {f \in [1..n -> Assets] : IsInjective(f)}
  <1>1. IsFiniteSet(Assets) /\ Config \in Assets
    <2>1. Assets = Shards \cup {Config}
      BY DEF Assets
    <2> QED BY <2>1, PipelineAssumption, FS_AddElement
  <1>2. n \in Nat /\ n # 0 /\ ExistsBijection(1..n, Assets)
    BY <1>1, FS_CardinalityType, FS_EmptySet
  <1> HIDE DEF n
  <1>3. listing # {}
    BY <1>2 DEF ExistsBijection, Bijection, Injection
  <1>4. AssetOrder = CHOOSE f \in [1..n -> Assets] : IsInjective(f)
    BY DEF AssetOrder, SetToSeq, n
  <1>5. AssetOrder \in [1..n -> Assets] /\ IsInjective(AssetOrder)
    BY <1>3, <1>4
  <1> HIDE DEF listing
  <1>6. DOMAIN AssetOrder = 1..n /\ Len(AssetOrder) = n
    <2>1. AssetOrder = [j \in 1..n |-> AssetOrder[j]]
      BY <1>5
    <2> QED BY <1>2, <2>1, LenOfFunction
  <1>7. \A a \in Assets : \E j \in 1..n : AssetOrder[j] = a
    <2>1. AssetOrder \in Injection(1..n, Assets)
      BY <1>5 DEF Injection
    <2>2. Cardinality(1..n) = Cardinality(Assets)
      BY <1>2, FS_Interval DEF n
    <2>3. AssetOrder \in Surjection(1..n, Assets)
      BY <1>1, <2>1, <2>2, FS_Injection
    <2> QED BY <2>3 DEF Surjection
  <1> QED BY <1>2, <1>5, <1>6, <1>7

\* The constants of the program.
Weighed == ConstantRoots(Request)

\* The constants are listed once each, and there is one.
LEMMA ConstantsListed ==
  /\ Len(Constants) \in Nat /\ Len(Constants) # 0 /\ DOMAIN Constants = 1..Len(Constants)
  /\ \A k \in 1..Len(Constants) : Constants[k] \in Weighed
  /\ \A id \in Weighed : \E k \in 1..Len(Constants) : Constants[k] = id
  /\ \A j, k \in 1..Len(Constants) : Constants[j] = Constants[k] => j = k
  <1> DEFINE n == Cardinality(Weighed)
  <1>1. IsFiniteSet(Weighed) /\ Weighed \subseteq Nat /\ Weighed # {}
    BY PipelineAssumption DEF Weighed
  <1> HIDE DEF n
  <1>2. Constants = SortedSeq(Weighed)
    BY DEF Constants, Weighed
  <1>3. n # 0
    BY <1>1, FS_EmptySet DEF n
  <1>4. /\ n \in Nat /\ DOMAIN Constants = 1..n /\ Len(Constants) = n
        /\ \A k \in 1..n : Constants[k] \in Weighed
        /\ \A id \in Weighed : \E k \in 1..n : Constants[k] = id
        /\ \A j, k \in 1..n : Constants[j] = Constants[k] => j = k
    BY <1>1, <1>2, SortedElements DEF n
  <1> QED BY <1>3, <1>4

-----------------------------------------------------------------------------
(* What the packer writes for the constants, and what a plan says of it.    *)

Spans(content) == PackCommandWeights(Request, content)
SpanRecords(content) ==
  [value : Weighed, offset : Nat, bytes : Nat, digest : {Sha(content[id]) : id \in Weighed}]

\* The packer appends one span for each constant.
LEMMA AppendedSpan ==
  ASSUME NEW content, NEW spans \in Seq(SpanRecords(content)), NEW id \in Weighed
  PROVE  LET next == AppendSpan(Request, spans, id, content[id])
         IN /\ next \in Seq(SpanRecords(content)) /\ Len(next) = Len(spans) + 1
            /\ \A j \in 1..Len(spans) : next[j] = spans[j]
            /\ next[Len(spans) + 1].value = id /\ next[Len(spans) + 1].digest = Sha(content[id])
  <1> DEFINE a == Request.memory.alignment
             end == IF spans = <<>> THEN 0 ELSE Last(spans).offset + Last(spans).bytes
             at == AlignUp(end, a)
             span == [value |-> id, offset |-> at, bytes |-> Allocation(Request, id).bytes, digest |-> Sha(content[id])]
  <1>1. AppendSpan(Request, spans, id, content[id]) = Append(spans, span)
    BY DEF AppendSpan
  <1>2. end \in Nat
    <2>1. CASE spans = <<>>
      BY <2>1
    <2>2. CASE spans # <<>>
      <3>1. Len(spans) \in Nat /\ Len(spans) # 0
        BY <2>2, EmptySeq, LenProperties
      <3>2. spans[Len(spans)] \in SpanRecords(content)
        BY <3>1, ElementOfSeq
      <3>3. Last(spans).offset \in Nat /\ Last(spans).bytes \in Nat
        BY <3>2 DEF Last, SpanRecords
      <3> QED BY <2>2, <3>3
    <2> QED BY <2>1, <2>2
  <1> HIDE DEF end
  <1>3. a \in Nat \ {0}
    BY PipelineAssumption
  <1>4. at \in Nat
    <2> HIDE DEF a
    <2> DEFINE m == end + a - 1
               q == m \div a
    <2>1. m \in Nat
      BY <1>2, <1>3
    <2> HIDE DEF m
    <2>2. q \in Nat
      BY <1>3, <2>1
    <2> HIDE DEF q
    <2>3. q * a \in Nat
      BY <1>3, <2>2
    <2> QED BY <2>3 DEF AlignUp, m, q
  <1> HIDE DEF at
  <1>5. Allocation(Request, id).bytes \in Nat
    BY PipelineAssumption DEF Weighed
  <1>6. span \in SpanRecords(content) /\ span.value = id /\ span.digest = Sha(content[id])
    <2>1. Sha(content[id]) \in {Sha(content[i]) : i \in Weighed}
      OBVIOUS
    <2> QED BY <1>4, <1>5, <2>1 DEF SpanRecords
  <1> HIDE DEF span
  <1>7. /\ Append(spans, span) \in Seq(SpanRecords(content)) /\ Len(Append(spans, span)) = Len(spans) + 1
        /\ \A j \in 1..Len(spans) : Append(spans, span)[j] = spans[j]
        /\ Append(spans, span)[Len(spans) + 1] = span
    BY <1>6, AppendProperties
  <1> QED BY <1>1, <1>6, <1>7

\* So each constant has a span, in order.
LEMMA PackedSpans ==
  ASSUME NEW content
  PROVE  LET n == Len(Constants)
             spans == Spans(content)
         IN /\ DOMAIN spans = 1..n /\ Len(spans) = n
            /\ \A k \in 1..n : spans[k].value = Constants[k] /\ spans[k].digest = Sha(content[Constants[k]])
  <1> DEFINE n == Len(Constants)
             V == Seq(SpanRecords(content))
             Next(spans, id) == AppendSpan(Request, spans, id, content[id])
             step == [d \in 1..n |-> [x \in V |-> Next(x, Constants[d])]]
             IsFold(h) == h = [t \in SUBSET DOMAIN Constants |->
                                 IF t = {} THEN <<>> ELSE Next(h[t \ {Max(t)}], Constants[Max(t)])]
             f == CHOOSE h : IsFold(h)
  <1>1. n \in Nat /\ DOMAIN Constants = 1..n /\ \A d \in 1..n : Constants[d] \in Weighed
    BY ConstantsListed
  <1>2. /\ <<>> \in V
        /\ \A d \in 1..n, x \in V : /\ Next(x, Constants[d]) \in V /\ Len(Next(x, Constants[d])) = Len(x) + 1
                                    /\ \A j \in 1..Len(x) : Next(x, Constants[d])[j] = x[j]
                                    /\ Next(x, Constants[d])[Len(x) + 1].value = Constants[d]
                                    /\ Next(x, Constants[d])[Len(x) + 1].digest = Sha(content[Constants[d]])
    <2> HIDE DEF n
    <2>1. <<>> \in V
      BY EmptySeq
    <2> QED BY <1>1, <2>1, AppendedSpan
  <1> HIDE DEF n, V, Next
  <1>3. PICK h \in [SUBSET (1..n) -> V] : FoldsBy(h, n, <<>>, step)
    <2>1. step \in [1..n -> [V -> V]]
      BY <1>2
    <2> HIDE DEF step
    <2> QED BY <1>1, <1>2, <2>1, FoldExists
  <1>4. IsFold(h)
    <2>1. h = [t \in SUBSET (1..n) |-> h[t]]
      OBVIOUS
    <2>2. ASSUME NEW t \in SUBSET (1..n)
          PROVE  h[t] = IF t = {} THEN <<>> ELSE Next(h[t \ {Max(t)}], Constants[Max(t)])
      <3>1. h[t] = IF t = {} THEN <<>> ELSE step[Max(t)][h[t \ {Max(t)}]]
        <4> HIDE DEF step
        <4> QED BY <1>3 DEF FoldsBy
      <3>2. CASE t # {}
        <4>1. Max(t) \in 1..n /\ t \ {Max(t)} \in SUBSET (1..n)
          BY <1>1, <3>2, LastPosition
        <4>2. h[t \ {Max(t)}] \in V
          BY <4>1
        <4>3. step[Max(t)][h[t \ {Max(t)}]] = Next(h[t \ {Max(t)}], Constants[Max(t)])
          BY <4>1, <4>2
        <4> HIDE DEF step
        <4> QED BY <3>1, <3>2, <4>3
      <3> HIDE DEF step
      <3> QED BY <3>1, <3>2
    <2> HIDE DEF step
    <2> QED BY <1>1, <2>1, <2>2
  <1>5. IsFold(f)
    <2> HIDE DEF IsFold
    <2> QED BY <1>4
  <1>6. Spans(content) = f[DOMAIN Constants]
    BY DEF Spans, PackCommandWeights, Constants, FoldLeft, MapThenFoldSet, Next
  <1>7. \A t \in SUBSET (1..n) : f[t] = IF t = {} THEN <<>> ELSE Next(f[t \ {Max(t)}], Constants[Max(t)])
    <2> HIDE DEF f
    <2> QED BY <1>1, <1>5
  <1> HIDE DEF f
  <1> DEFINE k == [d \in 0..n |-> f[1..d]]
             Packed(d) == /\ k[d] \in V /\ Len(k[d]) = d
                          /\ \A j \in 1..d : k[d][j].value = Constants[j] /\ k[d][j].digest = Sha(content[Constants[j]])
             S == {d \in 0..n : Packed(d)}
  <1>8. /\ 1..0 = {} /\ 0 \in 0..n /\ n \in 0..n
        /\ \A d \in 1..n : d - 1 \in 0..n /\ d \in 0..n /\ d \in Nat
    BY <1>1
  <1>9. k[0] = <<>>
    BY <1>7, <1>8
  <1>10. ASSUME NEW d \in 1..n PROVE k[d] = Next(k[d - 1], Constants[d])
    <2>1. /\ 1..d \in SUBSET (1..n) /\ 1..d # {}
          /\ Max(1..d) = d /\ (1..d) \ {d} = 1..(d - 1)
      BY <1>1, <1>8, FirstPositions
    <2>2. f[1..d] = Next(f[1..(d - 1)], Constants[d])
      BY <1>7, <2>1
    <2> QED BY <1>8, <2>2
  <1>11. k[n] = Spans(content)
    BY <1>1, <1>6, <1>8
  <1> HIDE DEF k
  <1>12. 0 \in S
    BY <1>2, <1>8, <1>9, EmptySeq
  <1>13. ASSUME NEW d \in 1..n, Packed(d - 1) PROVE Packed(d)
    <2> DEFINE x == k[d - 1]
    <2>1. x \in V /\ Len(x) = d - 1 /\ (d - 1) + 1 = d /\ d \in Int
      BY <1>8, <1>13
    <2>2. \A j \in 1..(d - 1) : x[j].value = Constants[j] /\ x[j].digest = Sha(content[Constants[j]])
      BY <1>13
    <2> HIDE DEF x
    <2>3. /\ k[d] \in V /\ Len(k[d]) = d /\ \A j \in 1..(d - 1) : k[d][j] = x[j]
          /\ k[d][d].value = Constants[d] /\ k[d][d].digest = Sha(content[Constants[d]])
      <3>1. k[d] = Next(x, Constants[d])
        BY <1>10 DEF x
      <3>2. /\ Next(x, Constants[d]) \in V /\ Len(Next(x, Constants[d])) = Len(x) + 1
            /\ \A j \in 1..Len(x) : Next(x, Constants[d])[j] = x[j]
            /\ Next(x, Constants[d])[Len(x) + 1].value = Constants[d]
            /\ Next(x, Constants[d])[Len(x) + 1].digest = Sha(content[Constants[d]])
        BY <1>2, <2>1
      <3>3. Len(x) + 1 = d
        BY <2>1
      <3> QED BY <2>1, <3>1, <3>2, <3>3
    <2>4. \A j \in 1..d : j = d \/ j \in 1..(d - 1)
      OBVIOUS
    <2> QED BY <2>2, <2>3, <2>4
  <1>14. \A d \in 1..n : d - 1 \in S => d \in S
    <2> HIDE DEF Packed
    <2> QED BY <1>8, <1>13
  <1>15. Packed(n)
    <2> HIDE DEF Packed
    <2>1. n \in S
      <3> HIDE DEF S
      <3> QED BY <1>1, <1>8, <1>12, <1>14, UpTo
    <2> QED BY <2>1
  <1>16. DOMAIN k[n] = 1..n
    BY <1>15, LenProperties DEF V
  <1> QED BY <1>11, <1>15, <1>16 DEF n

\* A value that is no alias is its own root.
LEMMA OwnRoot ==
  ASSUME NEW values, Len(values) \in Nat, NEW id, values[id + 1].region # Alias
  PROVE  StorageRoot(values, id) = id
  <1> DEFINE n == Len(values)
             hop(x) == IF values[x + 1].region = Alias THEN values[x + 1].alias ELSE x
             step == [d \in 1..n |-> [x \in {id} |-> id]]
             Hops(h) == h = [d \in 0..n |-> IF d = 0 THEN id ELSE hop(h[d - 1])]
             h == CHOOSE h : Hops(h)
  <1>1. hop(id) = id
    OBVIOUS
  <1>2. StorageRoot(values, id) = IF values[h[n] + 1].region = Alias THEN None ELSE h[n]
    BY DEF StorageRoot
  <1>3. Hops(h)
    <2> DEFINE g == [d \in 0..n |-> id]
    <2>1. \A d \in 0..n : d # 0 => d - 1 \in 0..n
      OBVIOUS
    <2> HIDE DEF hop
    <2>2. g = [d \in 0..n |-> IF d = 0 THEN id ELSE hop(g[d - 1])]
      BY <1>1, <2>1
    <2>3. Hops(g)
      BY <2>2
    <2> QED BY <2>3
  <1> HIDE DEF h, hop
  <1>4. h[0] = id /\ \A d \in 1..n : h[d] = hop(h[d - 1])
    BY <1>3
  <1> DEFINE S == {d \in 0..n : h[d] = id}
  <1>5. 0 \in S /\ \A d \in 1..n : d - 1 \in S => d \in S
    BY <1>1, <1>4
  <1> HIDE DEF S
  <1>6. n \in S
    <2>1. n \in 0..n
      OBVIOUS
    <2> QED BY <1>5, <2>1, UpTo
  <1>7. h[n] = id
    BY <1>6 DEF S
  <1> QED BY <1>2, <1>7

Contents(packed) == [id \in Weighed |-> packed[CHOOSE k \in DOMAIN Constants : Constants[k] = id]]

\* The request that is compiled is the one of the program, with the spans of the packer.
LEMMA PackedRequestFacts ==
  ASSUME NEW packed
  PROVE  LET in == PackedRequest(packed)
         IN /\ in.spans = Spans(Contents(packed)) /\ in.memory = Request.memory
            /\ ConstantRoots(in) = Weighed
            /\ Weighed \cap (InputRoots(in) \cup OutputRoots(in)) = {}
  <1> DEFINE in == PackedRequest(packed)
             spans == Spans(Contents(packed))
  <1>1. in = [Request EXCEPT !.spans = spans, !.weightsBytes = BlobBytes(Request, spans)]
    BY DEF PackedRequest, Spans, Contents, Weighed
  <1>2. {"schedule", "memory", "stream", "spans", "weightsBytes"} \subseteq DOMAIN Request
    BY PipelineAssumption
  <1> HIDE DEF in, spans
  <1>3. /\ in.spans = spans /\ in.memory = Request.memory /\ in.stream = Request.stream
        /\ in.schedule = Request.schedule
    BY <1>1, <1>2
  <1>4. \A id : MemoryRoot(in, id) = MemoryRoot(Request, id) /\ Allocation(in, id) = Allocation(Request, id)
    BY <1>3 DEF MemoryRoot, Allocation
  <1>5. \A ids : RootsOf(in, ids) = RootsOf(Request, ids)
    BY <1>4 DEF RootsOf
  <1>6. OperandIds(in) = OperandIds(Request)
    BY <1>3 DEF OperandIds
  <1>7. ConstantRoots(in) = Weighed
    BY <1>4, <1>5, <1>6 DEF ConstantRoots, Weighed
  <1>8. InputRoots(in) = InputRoots(Request) /\ OutputRoots(in) = OutputRoots(Request)
    BY <1>3, <1>5 DEF InputRoots, OutputRoots
  <1>9. Weighed \cap (InputRoots(in) \cup OutputRoots(in)) = {}
    BY <1>8, PipelineAssumption DEF Weighed
  <1> QED BY <1>3, <1>7, <1>9 DEF in, spans

\* A plan has a weight for each constant that was packed, with its digest.
LEMMA PlannedDigests ==
  ASSUME NEW packed, DOMAIN packed = 1..Len(Constants), NEW p \in CompileExecutablePlan(PackedRequest(packed))
  PROVE  /\ {v.digest : v \in {x \in ToSet(p.values) : x.region = Weights}} = {Sha(w) : w \in ToSet(packed)}
         /\ PyParse(p, p.arch, p.weightsBytes)
  <1> DEFINE in == PackedRequest(packed)
             content == Contents(packed)
             m == Len(Constants)
             n == Len(in.schedule.values)
             value(id) == ValueRecord(in, id)
  <1>1. /\ p = PlanFor(in) /\ PyParse(p, p.arch, in.weightsBytes)
        /\ SameIdentities(in) /\ PortsHaveRoots(in) /\ SpansFit(in)
    BY DEF CompileExecutablePlan
  <1>2. /\ in.spans = Spans(content) /\ ConstantRoots(in) = Weighed
        /\ Weighed \cap (InputRoots(in) \cup OutputRoots(in)) = {}
    BY PackedRequestFacts
  <1>3. /\ DOMAIN in.spans = 1..m /\ Len(in.spans) = m
        /\ \A k \in 1..m : in.spans[k].value = Constants[k] /\ in.spans[k].digest = Sha(content[Constants[k]])
    BY <1>2, PackedSpans
  <1>4. /\ m \in Nat /\ DOMAIN Constants = 1..m
        /\ \A k \in 1..m : Constants[k] \in Weighed
        /\ \A id \in Weighed : \E k \in 1..m : Constants[k] = id
        /\ \A j, k \in 1..m : Constants[j] = Constants[k] => j = k
    BY ConstantsListed
  <1>5. \A k \in 1..m : content[Constants[k]] = packed[k]
    <2>1. ASSUME NEW k \in 1..m PROVE content[Constants[k]] = packed[k]
      <3>1. (CHOOSE j \in DOMAIN Constants : Constants[j] = Constants[k]) = k
        BY <1>4
      <3> QED BY <1>4, <3>1 DEF Contents
    <2> QED BY <2>1
  <1>6. n \in Nat /\ n = Len(in.memory.allocations)
    BY <1>1, PlanConstants DEF SameIdentities, PortsHaveRoots
  <1>7. SpanIds(in) = Weighed /\ Weighed \subseteq 0..(n - 1)
    <2>1. SpanIds(in) = Weighed
      BY <1>1, <1>2 DEF SpansFit
    <2>2. \A span \in ToSet(in.spans) : span.value \in 0..(n - 1)
      BY <1>1 DEF SpansFit, Ids
    <2> HIDE DEF in, n
    <2>3. \A id \in SpanIds(in) : id \in 0..(n - 1)
      BY <2>2 DEF SpanIds
    <2> QED BY <2>1, <2>3
  <1>8. /\ DOMAIN p.values = 1..n
        /\ \A i \in 1..n : p.values[i] = value(i - 1)
    <2> HIDE DEF value, n
    <2>1. p.values = [i \in 1..n |-> value(i - 1)]
      BY ZenonT(60), <1>1 DEF PlanFor, value, n
    <2> QED BY <2>1
  <1> HIDE DEF in, n, m, content
  <1>9. ASSUME NEW id \in Weighed PROVE value(id).region = Weights
    <2> DEFINE allocs == in.memory.allocations
               flat == [k \in 1..Len(allocs) |->
                          [region |-> IF allocs[k].region = "alias" THEN Alias ELSE Unused, alias |-> allocs[k].alias]]
    <2>1. Allocation(in, id).region = "constant"
      BY <1>2 DEF ConstantRoots
    <2>2. MemoryRoot(in, id) = StorageRoot(flat, id)
      BY DEF MemoryRoot
    <2>3. Len(flat) \in Nat /\ flat[id + 1].region # Alias
      <3>1. id + 1 \in 1..n
        BY <1>6, <1>7
      <3>2. flat[id + 1].region = Unused
        BY <1>6, <2>1, <3>1 DEF Allocation
      <3>3. flat = [k \in 1..n |-> flat[k]]
        BY <1>6
      <3> HIDE DEF flat
      <3>4. Len(flat) = n
        BY <1>6, <3>3, LenOfFunction
      <3> QED BY <1>6, <3>2, <3>4 DEF Unused, Alias
    <2> HIDE DEF flat
    <2>4. MemoryRoot(in, id) = id
      BY <2>2, <2>3, OwnRoot
    <2>5. id \notin InputRoots(in) /\ id \notin OutputRoots(in) /\ id \in SpanIds(in)
      BY <1>2, <1>7
    <2>6. RegionFor(in, id) = Weights
      BY <2>1, <2>4, <2>5 DEF RegionFor
    <2> QED BY <2>6 DEF ValueRecord
  <1>10. ASSUME NEW id, value(id).region = Weights PROVE id \in Weighed
    <2>1. RegionFor(in, id) = Weights
      BY <1>10 DEF ValueRecord
    <2>2. Weights \notin {Alias, ExternalInput, ExternalOutput, Unused, State, Arena, None}
      BY PlanConstants DEF Weights, Alias, ExternalInput, ExternalOutput, Unused, State, Arena, None
    <2>3. id \in SpanIds(in)
      BY <2>1, <2>2 DEF RegionFor
    <2> QED BY <1>7, <2>3
  <1>11. \A k \in 1..m : value(Constants[k]).digest = Sha(packed[k])
    <2>1. ASSUME NEW k \in 1..m PROVE value(Constants[k]).digest = Sha(packed[k])
      <3> DEFINE id == Constants[k]
                 Chosen(s) == s \in ToSet(in.spans) /\ s.value = id
                 span == CHOOSE s \in ToSet(in.spans) : s.value = id
      <3>1. Chosen(in.spans[k])
        BY <1>3 DEF ToSet
      <3>2. Chosen(span)
        BY <3>1
      <3>3. PICK j \in 1..m : span = in.spans[j]
        BY <1>3, <3>2 DEF ToSet
      <3>4. j = k
        BY <1>3, <1>4, <3>2, <3>3
      <3>5. span.digest = Sha(packed[k])
        BY <1>3, <1>5, <3>3, <3>4
      <3>6. RegionFor(in, id) = Weights
        BY <1>4, <1>9 DEF ValueRecord
      <3> QED BY <3>5, <3>6 DEF ValueRecord
    <2> QED BY <2>1
  <1> HIDE DEF value
  <1>12. \A x : x \in {v.digest : v \in {y \in ToSet(p.values) : y.region = Weights}} <=> \E k \in 1..m : x = Sha(packed[k])
    <2>1. ASSUME NEW v \in ToSet(p.values), v.region = Weights PROVE \E k \in 1..m : v.digest = Sha(packed[k])
      <3>1. PICK i \in 1..n : v = value(i - 1)
        BY <1>8 DEF ToSet
      <3>2. PICK k \in 1..m : Constants[k] = i - 1
        BY <1>4, <1>10, <2>1, <3>1
      <3> QED BY <1>11, <3>1, <3>2
    <2>2. ASSUME NEW k \in 1..m PROVE \E v \in ToSet(p.values) : v.region = Weights /\ v.digest = Sha(packed[k])
      <3>1. Constants[k] \in 0..(n - 1) /\ value(Constants[k]).region = Weights
        BY <1>4, <1>7, <1>9
      <3>2. Constants[k] + 1 \in 1..n /\ (Constants[k] + 1) - 1 = Constants[k]
        BY <1>6, <3>1
      <3>3. p.values[Constants[k] + 1] = value(Constants[k])
        BY <1>8, <3>2
      <3>4. value(Constants[k]) \in ToSet(p.values)
        BY <1>8, <3>2, <3>3 DEF ToSet
      <3> QED BY <1>11, <3>1, <3>4
    <2> QED BY <2>1, <2>2
  <1>13. \A x : x \in {Sha(w) : w \in ToSet(packed)} <=> \E k \in 1..m : x = Sha(packed[k])
    BY DEF ToSet, m
  <1>14. {v.digest : v \in {y \in ToSet(p.values) : y.region = Weights}} = {Sha(w) : w \in ToSet(packed)}
    BY <1>12, <1>13
  <1>15. p.weightsBytes = in.weightsBytes
    BY <1>1 DEF PyParse, PyPlanHeader
  <1> QED BY <1>1, <1>14, <1>15

-----------------------------------------------------------------------------
(* Compilations: what a build has read, and when.  Of each file the identity *)
(* before comes first, then what was packed, then the identity after; with    *)
(* at most one edit in between, what was packed is what one of the two saw.   *)

AssetContents == [version : 0..MaxEdits, layout : Nat]
Identities == [content : AssetContents, at : Nat]
Stores(j, k) == AssetOrder[j] = ShardOf[Constants[k]]
Packing == {"pack", "plan", "after", "compare", "publish"}
Planned == {"after", "compare", "publish"}

\* A build has the fields of NoBuild, and sequences in those that grow.
Shaped(b) ==
  b = [pc |-> b.pc, cubin |-> b.cubin, kernelRecord |-> b.kernelRecord, layouts |-> b.layouts, program |-> b.program,
       before |-> b.before, packed |-> b.packed, plans |-> b.plans, after |-> b.after]
BuildTyped(b) ==
  /\ Shaped(b)
  /\ b.before \in Seq(Identities) /\ b.after \in Seq(Identities)
  /\ b.packed \in Seq([constant : Weighed, version : 0..MaxEdits])
  /\ Len(b.before) <= Len(AssetOrder) /\ Len(b.after) <= Len(AssetOrder) /\ Len(b.packed) <= Len(Constants)

\* How far each part is when the build is at a step.
BuildStage(b) ==
  /\ b.pc \in Packing \cup {"before"} => b.kernelRecord = b.cubin
  /\ b.pc \in {"open", "import"} => b.kernelRecord = b.cubin
  /\ b.pc \notin Packing \cup {"before"} => b.before = <<>>
  /\ b.pc = "before" => Len(b.before) < Len(AssetOrder)
  /\ b.pc \in Packing => Len(b.before) = Len(AssetOrder)
  /\ b.pc \notin Packing => b.packed = <<>>
  /\ b.pc = "pack" => Len(b.packed) < Len(Constants)
  /\ b.pc \in Packing \ {"pack"} => Len(b.packed) = Len(Constants)
  /\ b.pc \notin Planned => b.after = <<>>
  /\ b.pc = "after" => Len(b.after) < Len(AssetOrder)
  /\ b.pc \in {"compare", "publish"} => Len(b.after) = Len(AssetOrder)
  /\ b.pc \in Planned => b.plans = CompileExecutablePlan(PackedRequest(b.packed)) /\ b.plans # {}
  /\ b.pc = "publish" => Unchanged(b)

\* An identity is one of the contents its file has had.
ReadFrom(identity, contents) == identity.at \in 1..Len(contents) /\ identity.content = contents[identity.at]

\* A weight was read when its file had that version, after the identity before
\* and before the identity after.
ReadBetween(b, k, contents) ==
  \E n \in 1..Len(contents) :
    /\ contents[n].version = b.packed[k].version
    /\ \A j \in 1..Len(b.before) : Stores(j, k) => b.before[j].at <= n
    /\ \A j \in 1..Len(b.after) : Stores(j, k) => n <= b.after[j].at

BuildOrdered(b, files) ==
  /\ \A j \in 1..Len(b.before) : ReadFrom(b.before[j], files[AssetOrder[j]])
  /\ \A j \in 1..Len(b.after) : ReadFrom(b.after[j], files[AssetOrder[j]])
  /\ \A k \in 1..Len(b.packed) :
        b.packed[k].constant = Constants[k] /\ ReadBetween(b, k, files[ShardOf[Constants[k]]])

BuildOK(b, files) == BuildTyped(b) /\ BuildStage(b) /\ BuildOrdered(b, files)

\* Files of a checkpoint, each with the contents it has had.
SourceFiles(files) == files \in [Assets -> Seq(AssetContents)] /\ \A a \in Assets : Len(files[a]) # 0

\* Edits add contents and forget none.
Extended(files, later) ==
  \A a \in Assets :
    Len(files[a]) <= Len(later[a]) /\ \A n \in 1..Len(files[a]) : later[a][n] = files[a][n]

\* What an artifact knows of a weight of shard a.
Dated(version, first, last, contents) ==
  /\ first.at \in Nat /\ last.at \in Nat
  /\ \E n \in 1..Len(contents) : first.at <= n /\ n <= last.at /\ contents[n].version = version
  /\ last.at < first.at + 2 => version = first.content.version
WeightDated(w, artifact, files) ==
  LET a == ShardOf[w.constant]
  IN a \in Assets /\ Dated(w.version, artifact.sources[a], artifact.checked[a], files[a])

Recorded(artifact, files) ==
  artifact # NoFile =>
    /\ artifact.kernelRecord = artifact.kernel
    /\ \A w \in ToSet(artifact.weights) : WeightDated(w, artifact, files)
    /\ artifact.plans # {}
    /\ \A p \in artifact.plans :
          /\ ParseExecutablePlan(p, p.arch, p.weightsBytes)
          /\ {v.digest : v \in {x \in ToSet(p.values) : x.region = Weights}} = {Sha(w) : w \in ToSet(artifact.weights)}

\* The parts of the invariant, of any values of the variables.
PipelineOK(s, a, b, e) ==
  /\ e = [checkpoint |-> e.checkpoint, kernels |-> e.kernels] /\ e.checkpoint \in 0..MaxEdits
  /\ SourceFiles(s)
  /\ b = [c \in Compilers |-> b[c]]
  /\ \A c \in Compilers : BuildOK(b[c], s)
  /\ Recorded(a, s)

PipelineInv == PipelineOK(source, output, builds, edits)

\* The contents of a file.
LEMMA FileContents ==
  ASSUME NEW files, SourceFiles(files), NEW a \in Assets
  PROVE  /\ files[a] \in Seq(AssetContents) /\ Len(files[a]) \in Nat /\ Len(files[a]) \in 1..Len(files[a])
         /\ \A n \in 1..Len(files[a]) : files[a][n] \in AssetContents
         /\ Last(files[a]) = files[a][Len(files[a])] /\ Last(files[a]) \in AssetContents
  <1>1. files[a] \in Seq(AssetContents) /\ Len(files[a]) # 0
    BY DEF SourceFiles
  <1>2. Len(files[a]) \in Nat
    BY <1>1, LenProperties
  <1>3. Len(files[a]) \in 1..Len(files[a])
    BY <1>1, <1>2
  <1>4. \A n \in 1..Len(files[a]) : files[a][n] \in AssetContents
    BY <1>1, ElementOfSeq
  <1> QED BY <1>1, <1>2, <1>3, <1>4 DEF Last

\* What a build packed, once it packed every constant.
LEMMA PackedAll ==
  ASSUME NEW b, NEW files, BuildOK(b, files), Len(b.packed) = Len(Constants)
  PROVE  DOMAIN b.packed = 1..Len(Constants) /\ b.packed \in PackedContents
  <1> DEFINE n == Len(Constants)
             packed == b.packed
             versions == [k \in 1..n |-> packed[k].version]
  <1>1. DOMAIN Constants = 1..n /\ n \in Nat
    BY ConstantsListed
  <1>2. packed \in Seq([constant : Weighed, version : 0..MaxEdits])
    BY DEF BuildOK, BuildTyped
  <1>3. Len(packed) = n
    OBVIOUS
  <1>4. \A k \in 1..n : packed[k].constant = Constants[k]
    BY <1>3 DEF BuildOK, BuildOrdered
  <1> HIDE DEF n, packed
  <1>5. DOMAIN packed = 1..n /\ packed = [k \in 1..n |-> packed[k]]
    BY <1>2, <1>3, LenProperties
  <1>6. \A k \in 1..n : packed[k] \in [constant : Weighed, version : 0..MaxEdits]
    BY <1>1, <1>2, <1>3, ElementOfSeq
  <1>7. versions \in [1..n -> 0..MaxEdits]
    BY <1>6
  <1>8. \A k \in 1..n : packed[k] = [constant |-> Constants[k], version |-> versions[k]]
    BY <1>4, <1>6
  <1> HIDE DEF versions
  <1>9. packed = [k \in 1..n |-> [constant |-> Constants[k], version |-> versions[k]]]
    BY <1>5, <1>8
  <1>10. packed \in PackedContents
    BY <1>1, <1>7, <1>9 DEF PackedContents
  <1> QED BY <1>5, <1>10 DEF n, packed

\* Both parsers accept a plan that was compiled from what a build packed.
LEMMA CompiledParses ==
  ASSUME NEW packed \in PackedContents, NEW p \in CompileExecutablePlan(PackedRequest(packed)),
         PyParse(p, p.arch, p.weightsBytes)
  PROVE  ParseExecutablePlan(p, p.arch, p.weightsBytes)
  <1>1. PackedRequest(packed) \in Requests \cup {PackedRequest(content) : content \in PackedContents}
    OBVIOUS
  <1>2. DecodedPlan(p)
    BY <1>1, PackageAssumption
  <1> QED BY <1>2, ParsersAgree

\* Between two readings that agree with at most one edit in between, whatever
\* was read is what both have.
LEMMA BetweenTwo ==
  ASSUME NEW first, NEW last, NEW contents, NEW version, Len(contents) \in Nat, NEW n \in 1..Len(contents),
         ReadFrom(first, contents), ReadFrom(last, contents), last.content = first.content,
         first.at <= n, n <= last.at, contents[n].version = version
  PROVE  Dated(version, first, last, contents)
  <1>1. first.at \in Nat /\ last.at \in Nat /\ n \in Nat
    BY DEF ReadFrom
  <1>2. ASSUME last.at < first.at + 2 PROVE version = first.content.version
    <2>1. n = first.at \/ n = last.at
      BY <1>1, <1>2
    <2>2. contents[n] = first.content
      BY <2>1 DEF ReadFrom
    <2> QED BY <2>2
  <1> QED BY <1>1, <1>2 DEF Dated

\* The identities before and after agree, and each weight was read between them.
LEMMA PublishRecords ==
  ASSUME NEW b, NEW files, SourceFiles(files), BuildOK(b, files), b.pc = "publish"
  PROVE  Recorded(Artifact(b), files)
  <1> DEFINE n == Len(AssetOrder)
             m == Len(Constants)
             artifact == Artifact(b)
  <1>1. /\ b.kernelRecord = b.cubin /\ Len(b.before) = n /\ Len(b.packed) = m /\ Len(b.after) = n /\ Unchanged(b)
        /\ b.plans = CompileExecutablePlan(PackedRequest(b.packed)) /\ b.plans # {}
    BY DEF BuildOK, BuildStage, Packing, Planned
  <1>2. DOMAIN b.packed = 1..m /\ b.packed \in PackedContents
    BY <1>1, PackedAll
  <1>3. /\ DOMAIN AssetOrder = 1..n /\ n \in Nat
        /\ \A a \in Assets : \E j \in 1..n : AssetOrder[j] = a
    BY AssetsListed
  <1>4. m \in Nat /\ \A k \in 1..m : Constants[k] \in Weighed
    BY ConstantsListed
  <1>5. /\ artifact.kernel = b.cubin /\ artifact.kernelRecord = b.kernelRecord
        /\ artifact.weights = b.packed /\ artifact.plans = b.plans
        /\ artifact.sources = ByAsset(b.before) /\ artifact.checked = ByAsset(b.after)
    BY DEF Artifact
  <1>6. ASSUME NEW k \in 1..m
        PROVE  WeightDated(b.packed[k], artifact, files)
    <2> DEFINE a == ShardOf[Constants[k]]
               j == CHOOSE i \in DOMAIN AssetOrder : AssetOrder[i] = a
               first == b.before[j]
               last == b.after[j]
               contents == files[a]
    <2>1. b.packed[k].constant = Constants[k] /\ ReadBetween(b, k, contents)
      BY <1>1 DEF BuildOK, BuildOrdered
    <2>2. a \in Assets
      BY <1>4, PipelineAssumption DEF Weighed, Assets
    <2>3. j \in 1..n /\ AssetOrder[j] = a
      BY <1>3, <2>2
    <2>4. Stores(j, k)
      BY <2>3 DEF Stores
    <2>5. artifact.sources[a] = first /\ artifact.checked[a] = last
      <3>1. ByAsset(b.before)[a] = first /\ ByAsset(b.after)[a] = last
        <4> HIDE DEF a
        <4> QED BY <2>2 DEF ByAsset
      <3> HIDE DEF a, first, last, artifact
      <3> QED BY <1>5, <3>1
    <2>6. ReadFrom(first, contents) /\ ReadFrom(last, contents) /\ last.content = first.content
      BY <1>1, <1>3, <2>3 DEF BuildOK, BuildOrdered, Unchanged
    <2>7. Len(contents) \in Nat
      BY <2>2, FileContents
    <2>8. PICK i \in 1..Len(contents) : contents[i].version = b.packed[k].version /\ first.at <= i /\ i <= last.at
      BY <1>1, <2>1, <2>3, <2>4 DEF ReadBetween
    <2> HIDE DEF a, j, first, last, contents
    <2>9. Dated(b.packed[k].version, first, last, contents)
      BY <2>6, <2>7, <2>8, BetweenTwo
    <2> QED BY <2>1, <2>2, <2>5, <2>9 DEF WeightDated, a, contents
  <1>7. \A w \in ToSet(artifact.weights) : WeightDated(w, artifact, files)
    <2> HIDE DEF artifact
    <2>1. \A w \in ToSet(b.packed) : WeightDated(w, artifact, files)
      BY <1>2, <1>6 DEF ToSet
    <2> QED BY <1>5, <2>1
  <1>8. ASSUME NEW p \in artifact.plans
        PROVE  /\ ParseExecutablePlan(p, p.arch, p.weightsBytes)
               /\ {v.digest : v \in {x \in ToSet(p.values) : x.region = Weights}} = {Sha(w) : w \in ToSet(artifact.weights)}
    <2>1. p \in CompileExecutablePlan(PackedRequest(b.packed))
      BY <1>1, <1>5
    <2>2. /\ {v.digest : v \in {x \in ToSet(p.values) : x.region = Weights}} = {Sha(w) : w \in ToSet(b.packed)}
          /\ PyParse(p, p.arch, p.weightsBytes)
      BY <1>2, <2>1, PlannedDigests
    <2>3. ParseExecutablePlan(p, p.arch, p.weightsBytes)
      BY <1>2, <2>1, <2>2, CompiledParses
    <2> QED BY <1>5, <2>2, <2>3
  <1>9. artifact.kernelRecord = artifact.kernel /\ artifact.plans # {}
    BY <1>1, <1>5
  <1> HIDE DEF artifact
  <1>10. Recorded(artifact, files)
    BY <1>7, <1>8, <1>9 DEF Recorded
  <1> QED BY <1>10 DEF artifact

-----------------------------------------------------------------------------
(* The steps of a build.                                                    *)

Early == {"start", "cubin", "record", "open", "import", "before", "done", "refused"}

\* A build that has read none of the identities yet.
LEMMA EarlyBuild ==
  ASSUME NEW b, NEW files, Shaped(b), b.pc \in Early, b.before = <<>>, b.packed = <<>>, b.after = <<>>,
         b.pc \in {"open", "import", "before"} => b.kernelRecord = b.cubin
  PROVE  BuildOK(b, files)
  <1>1. Len(AssetOrder) \in Nat /\ Len(AssetOrder) # 0 /\ Len(Constants) \in Nat
    BY AssetsListed, ConstantsListed
  <1>2. b.before \in Seq(Identities) /\ b.after \in Seq(Identities) /\ b.packed \in Seq([constant : Weighed, version : 0..MaxEdits])
    BY EmptySeq
  <1>3. Len(b.before) = 0 /\ Len(b.after) = 0 /\ Len(b.packed) = 0
    BY EmptySeq
  <1>4. BuildTyped(b)
    BY <1>1, <1>2, <1>3 DEF BuildTyped, Shaped
  <1>5. BuildStage(b)
    BY <1>1, <1>3 DEF BuildStage, Packing, Planned, Early
  <1>6. BuildOrdered(b, files)
    BY <1>3 DEF BuildOrdered
  <1> QED BY <1>4, <1>5, <1>6 DEF BuildOK

\* The shard of a constant is a file of the checkpoint.
LEMMA ShardFiles ==
  ASSUME NEW files, SourceFiles(files), NEW k \in 1..Len(Constants)
  PROVE  ShardOf[Constants[k]] \in Assets /\ Last(files[ShardOf[Constants[k]]]).version \in 0..MaxEdits
  <1>1. Constants[k] \in Weighed
    BY ConstantsListed
  <1>2. ShardOf[Constants[k]] \in Assets
    BY <1>1, PipelineAssumption DEF Weighed, Assets
  <1> QED BY <1>2, FileContents DEF AssetContents

\* The next identity is appended.
LEMMA NextIdentity ==
  ASSUME NEW identities \in Seq(Identities), Len(identities) < Len(AssetOrder), SourceFiles(source)
  PROVE  LET next == Identity(identities)
             a == AssetOrder[Len(identities) + 1]
         IN /\ next \in Seq(Identities) /\ Len(next) = Len(identities) + 1
            /\ \A j \in 1..Len(identities) : next[j] = identities[j]
            /\ next[Len(identities) + 1].at = Len(source[a]) /\ ReadFrom(next[Len(identities) + 1], source[a])
            /\ a \in Assets
  <1> DEFINE n == Len(identities)
             a == AssetOrder[n + 1]
             new == [content |-> Last(source[a]), at |-> Len(source[a])]
  <1>1. n \in Nat /\ n + 1 \in 1..Len(AssetOrder)
    BY AssetsListed, LenProperties
  <1>2. a \in Assets
    BY <1>1, AssetsListed
  <1>3. new \in Identities /\ ReadFrom(new, source[a]) /\ new.at = Len(source[a])
    BY <1>2, FileContents DEF Identities, ReadFrom
  <1>4. Identity(identities) = Append(identities, new)
    BY DEF Identity, File
  <1> HIDE DEF new
  <1> QED BY <1>2, <1>3, <1>4, AppendProperties

\* IdentifyBefore of a build: the identity is what its file has now.
LEMMA IdentifiedBefore ==
  ASSUME NEW b, SourceFiles(source), BuildOK(b, source), b.pc = "before"
  PROVE  LET before == Identity(b.before)
         IN BuildOK([b EXCEPT !.before = before, !.pc = IF Len(before) = Len(AssetOrder) THEN "pack" ELSE @], source)
  <1> DEFINE before == Identity(b.before)
             n == Len(AssetOrder)
             pc == IF Len(before) = n THEN "pack" ELSE b.pc
             d == [b EXCEPT !.before = before, !.pc = IF Len(before) = n THEN "pack" ELSE @]
  <1>1. /\ Shaped(b) /\ b.before \in Seq(Identities) /\ Len(b.before) < n
        /\ b.packed = <<>> /\ b.after = <<>> /\ b.kernelRecord = b.cubin
    BY DEF BuildOK, BuildTyped, BuildStage, Shaped, Packing, Planned
  <1>2. Shaped(d) /\ d.before = before /\ d.pc = pc /\ d.packed = <<>> /\ d.after = <<>> /\ d.kernelRecord = d.cubin
    <2> DEFINE e == [b EXCEPT !.before = before]
    <2>1. d = [e EXCEPT !.pc = IF Len(before) = n THEN "pack" ELSE e.pc]
      OBVIOUS
    <2> HIDE DEF before
    <2>2. e = [pc |-> b.pc, cubin |-> b.cubin, kernelRecord |-> b.kernelRecord, layouts |-> b.layouts, program |-> b.program,
                before |-> before, packed |-> b.packed, plans |-> b.plans, after |-> b.after]
      BY <1>1 DEF Shaped
    <2> HIDE DEF e
    <2>3. e.pc = b.pc /\ [e EXCEPT !.pc = pc] =
               [pc |-> pc, cubin |-> b.cubin, kernelRecord |-> b.kernelRecord, layouts |-> b.layouts, program |-> b.program,
                before |-> before, packed |-> b.packed, plans |-> b.plans, after |-> b.after]
      BY <2>2
    <2>4. d = [e EXCEPT !.pc = pc]
      BY <2>1, <2>3
    <2>5. d = [pc |-> pc, cubin |-> b.cubin, kernelRecord |-> b.kernelRecord, layouts |-> b.layouts, program |-> b.program,
                before |-> before, packed |-> b.packed, plans |-> b.plans, after |-> b.after]
      BY <2>3, <2>4
    <2> HIDE DEF d, pc
    <2> QED BY <1>1, <2>5 DEF Shaped
  <1>3. /\ before \in Seq(Identities) /\ Len(before) = Len(b.before) + 1
        /\ \A j \in 1..Len(b.before) : before[j] = b.before[j]
        /\ ReadFrom(before[Len(b.before) + 1], source[AssetOrder[Len(b.before) + 1]])
        /\ AssetOrder[Len(b.before) + 1] \in Assets
    BY <1>1, NextIdentity
  <1>4. /\ n \in Nat /\ n # 0 /\ Len(b.before) \in Nat
        /\ Len(Constants) \in Nat /\ Len(Constants) # 0
    BY <1>1, AssetsListed, ConstantsListed, LenProperties
  <1>5. (pc = "pack" /\ Len(before) = n) \/ (pc = "before" /\ Len(before) # n)
    OBVIOUS
  <1>6. Len(d.packed) = 0 /\ Len(d.after) = 0 /\ d.packed \in Seq([constant : Weighed, version : 0..MaxEdits]) /\ d.after \in Seq(Identities)
    BY <1>2, EmptySeq
  <1> HIDE DEF n, before, d, pc
  <1>7. BuildTyped(d)
    BY <1>1, <1>2, <1>3, <1>4, <1>6 DEF BuildTyped, Shaped, n
  <1>8. BuildStage(d)
    BY <1>1, <1>2, <1>3, <1>4, <1>5, <1>6 DEF BuildStage, Packing, Planned, n
  <1>9. \A j \in 1..Len(b.before) : ReadFrom(b.before[j], source[AssetOrder[j]])
    BY DEF BuildOK, BuildOrdered
  <1>11. \A j \in 1..Len(before) : ReadFrom(before[j], source[AssetOrder[j]])
    <2>1. ASSUME NEW j \in 1..Len(before) PROVE ReadFrom(before[j], source[AssetOrder[j]])
      <3>1. j \in 1..Len(b.before) \/ j = Len(b.before) + 1
        BY <1>3, <1>4
      <3> QED BY <1>3, <1>9, <3>1
    <2> QED BY <2>1
  <1>12. BuildOrdered(d, source)
    BY <1>2, <1>6, <1>11 DEF BuildOrdered
  <1>13. BuildOK(d, source)
    BY <1>7, <1>8, <1>12 DEF BuildOK
  <1> QED BY <1>13 DEF d, before, n

\* PackConstant of a build: the bytes are those the file has now, after the identity before.
LEMMA PackedNext ==
  ASSUME NEW b, SourceFiles(source), BuildOK(b, source), b.pc = "pack"
  PROVE  LET id == Constants[Len(b.packed) + 1]
             packed == Append(b.packed, [constant |-> id, version |-> File(ShardOf[id]).version])
         IN BuildOK([b EXCEPT !.packed = packed, !.pc = IF Len(packed) = Len(Constants) THEN "plan" ELSE @], source)
  <1> DEFINE k == Len(b.packed) + 1
             id == Constants[k]
             a == ShardOf[id]
             weight == [constant |-> id, version |-> File(a).version]
             packed == Append(b.packed, weight)
             m == Len(Constants)
             n == Len(AssetOrder)
             Weighted == [constant : Weighed, version : 0..MaxEdits]
             pc == IF Len(packed) = m THEN "plan" ELSE b.pc
             d == [b EXCEPT !.packed = packed, !.pc = IF Len(packed) = m THEN "plan" ELSE @]
  <1>1. /\ Shaped(b) /\ b.before \in Seq(Identities) /\ Len(b.before) = n
        /\ b.packed \in Seq(Weighted) /\ Len(b.packed) < m /\ b.after = <<>> /\ b.kernelRecord = b.cubin
    BY DEF BuildOK, BuildTyped, BuildStage, Shaped, Packing, Planned
  <1>2. /\ Shaped(d) /\ d.before = b.before /\ d.pc = pc /\ d.packed = packed /\ d.after = <<>>
        /\ d.kernelRecord = d.cubin
    <2> DEFINE e == [b EXCEPT !.packed = packed]
    <2>1. d = [e EXCEPT !.pc = IF Len(packed) = m THEN "plan" ELSE e.pc]
      OBVIOUS
    <2> HIDE DEF packed
    <2>2. e = [pc |-> b.pc, cubin |-> b.cubin, kernelRecord |-> b.kernelRecord, layouts |-> b.layouts, program |-> b.program,
                before |-> b.before, packed |-> packed, plans |-> b.plans, after |-> b.after]
      BY SMTT(60), <1>1 DEF Shaped
    <2> HIDE DEF e
    <2>3. e.pc = b.pc /\ [e EXCEPT !.pc = pc] =
               [pc |-> pc, cubin |-> b.cubin, kernelRecord |-> b.kernelRecord, layouts |-> b.layouts, program |-> b.program,
                before |-> b.before, packed |-> packed, plans |-> b.plans, after |-> b.after]
      BY <2>2
    <2>4. d = [e EXCEPT !.pc = pc]
      BY <2>1, <2>3
    <2>5. d = [pc |-> pc, cubin |-> b.cubin, kernelRecord |-> b.kernelRecord, layouts |-> b.layouts, program |-> b.program,
                before |-> b.before, packed |-> packed, plans |-> b.plans, after |-> b.after]
      BY <2>3, <2>4
    <2> HIDE DEF d, pc
    <2> QED BY <1>1, <2>5 DEF Shaped
  <1>3. n \in Nat /\ n # 0 /\ m \in Nat /\ m # 0 /\ Len(b.packed) \in Nat /\ k \in 1..m
    BY <1>1, AssetsListed, ConstantsListed, LenProperties
  <1>4. id \in Weighed /\ a \in Assets /\ File(a).version \in 0..MaxEdits
    BY <1>3, ConstantsListed, ShardFiles DEF File
  <1>5. weight \in Weighted /\ weight.constant = id /\ weight.version = File(a).version
    BY <1>4
  <1> HIDE DEF weight, Weighted
  <1>6. /\ packed \in Seq(Weighted) /\ Len(packed) = Len(b.packed) + 1
        /\ \A i \in 1..Len(b.packed) : packed[i] = b.packed[i]
        /\ packed[k] = weight
    BY <1>1, <1>5, AppendProperties
  <1>7. (pc = "plan" /\ Len(packed) = m) \/ (pc = "pack" /\ Len(packed) # m)
    OBVIOUS
  <1>8. Len(d.after) = 0 /\ d.after \in Seq(Identities)
    BY <1>2, EmptySeq
  <1> HIDE DEF n, m, packed, d, pc
  <1>9. Len(packed) <= m
    BY <1>1, <1>3, <1>6
  <1>10. BuildTyped(d)
    BY <1>1, <1>2, <1>3, <1>6, <1>8, <1>9 DEF BuildTyped, Shaped, n, m, Weighted
  <1>11. BuildStage(d)
    BY <1>1, <1>2, <1>3, <1>7, <1>8, <1>9 DEF BuildStage, Packing, Planned, n, m
  <1>12. \A i \in 1..Len(packed) : i \in 1..Len(b.packed) \/ i = k
    BY <1>3, <1>6
  <1>13. ASSUME NEW j \in 1..Len(b.before), Stores(j, k)
         PROVE  b.before[j].at <= Len(source[a])
    <2>1. ReadFrom(b.before[j], source[a])
      BY <1>13 DEF BuildOK, BuildOrdered, Stores
    <2> QED BY <1>4, <2>1, FileContents DEF ReadFrom
  <1>14. packed[k].constant = Constants[k] /\ ReadBetween(d, k, source[a])
    <2>1. Len(source[a]) \in 1..Len(source[a]) /\ source[a][Len(source[a])].version = packed[k].version
      BY <1>4, <1>5, <1>6, FileContents DEF File
    <2>2. \A j \in 1..Len(d.after) : FALSE
      BY <1>8
    <2> HIDE DEF a, k
    <2>3. ReadBetween(d, k, source[a])
      BY <1>2, <1>13, <2>1, <2>2 DEF ReadBetween
    <2> QED BY <1>5, <1>6, <2>3 DEF k, id
  <1>15. \A i \in 1..Len(b.packed) :
           packed[i].constant = Constants[i] /\ ReadBetween(d, i, source[ShardOf[Constants[i]]])
    <2> SUFFICES ASSUME NEW i \in 1..Len(b.packed)
                 PROVE  packed[i].constant = Constants[i] /\ ReadBetween(d, i, source[ShardOf[Constants[i]]])
      OBVIOUS
    <2> DEFINE contents == source[ShardOf[Constants[i]]]
    <2>1. b.packed[i].constant = Constants[i] /\ ReadBetween(b, i, contents)
      BY DEF BuildOK, BuildOrdered
    <2>2. packed[i] = b.packed[i] /\ d.packed = packed /\ d.before = b.before
      BY <1>2, <1>6
    <2>3. \A j \in 1..Len(d.after) : FALSE
      BY <1>8
    <2> HIDE DEF contents
    <2>4. ReadBetween(d, i, contents)
      BY <2>1, <2>2, <2>3 DEF ReadBetween
    <2> QED BY <2>1, <2>2, <2>4 DEF contents
  <1>16. \A j \in 1..Len(b.before) : ReadFrom(b.before[j], source[AssetOrder[j]])
    BY DEF BuildOK, BuildOrdered
  <1>17. BuildOrdered(d, source)
    <2> HIDE DEF k
    <2> QED BY <1>2, <1>8, <1>12, <1>14, <1>15, <1>16 DEF BuildOrdered
  <1>18. BuildOK(d, source)
    BY <1>10, <1>11, <1>17 DEF BuildOK
  <1> QED BY <1>18 DEF d, packed, weight, m

\* CompilePlan of a build: it keeps every plan of what it packed, and has one.
LEMMA PlannedBuild ==
  ASSUME NEW b, SourceFiles(source), BuildOK(b, source), b.pc = "plan", CompileExecutablePlan(PackedRequest(b.packed)) # {}
  PROVE  BuildOK([b EXCEPT !.pc = "after", !.plans = CompileExecutablePlan(PackedRequest(b.packed))], source)
  <1> DEFINE plans == CompileExecutablePlan(PackedRequest(b.packed))
             d == [b EXCEPT !.pc = "after", !.plans = plans]
  <1>1. /\ Shaped(b) /\ Len(b.before) = Len(AssetOrder) /\ Len(b.packed) = Len(Constants) /\ b.after = <<>>
        /\ b.kernelRecord = b.cubin
    BY DEF BuildOK, BuildTyped, BuildStage, Shaped, Packing, Planned
  <1> HIDE DEF plans
  <1> DEFINE e == [b EXCEPT !.pc = "after"]
  <1>10. d = [e EXCEPT !.plans = plans]
    OBVIOUS
  <1>11. e = [pc |-> "after", cubin |-> b.cubin, kernelRecord |-> b.kernelRecord, layouts |-> b.layouts,
             program |-> b.program, before |-> b.before, packed |-> b.packed, plans |-> b.plans, after |-> b.after]
    BY <1>1 DEF Shaped
  <1> HIDE DEF e
  <1>2. d = [pc |-> "after", cubin |-> b.cubin, kernelRecord |-> b.kernelRecord, layouts |-> b.layouts,
             program |-> b.program, before |-> b.before, packed |-> b.packed, plans |-> plans, after |-> b.after]
    BY <1>10, <1>11
  <1> HIDE DEF d
  <1>3. /\ Shaped(d) /\ d.pc = "after" /\ d.plans = plans /\ d.before = b.before /\ d.packed = b.packed
        /\ d.after = b.after /\ d.kernelRecord = d.cubin
    BY <1>1, <1>2 DEF Shaped
  <1>4. BuildTyped(d)
    BY <1>3 DEF BuildOK, BuildTyped, Shaped
  <1>5. Len(d.after) = 0 /\ Len(AssetOrder) \in Nat /\ Len(AssetOrder) # 0
    BY <1>1, <1>3, AssetsListed, EmptySeq
  <1>6. d.plans = CompileExecutablePlan(PackedRequest(d.packed)) /\ d.plans # {}
    BY <1>3 DEF plans
  <1>7. BuildStage(d)
    BY <1>1, <1>3, <1>5, <1>6 DEF BuildStage, Packing, Planned
  <1>8. BuildOrdered(d, source)
    BY <1>3 DEF BuildOK, BuildOrdered, ReadBetween
  <1>9. BuildOK(d, source)
    BY <1>4, <1>7, <1>8 DEF BuildOK
  <1> QED BY <1>9 DEF d, plans

\* IdentifyAfter of a build: the identity comes after the weights of its file.
LEMMA IdentifiedAfter ==
  ASSUME NEW b, SourceFiles(source), BuildOK(b, source), b.pc = "after"
  PROVE  LET after == Identity(b.after)
         IN BuildOK([b EXCEPT !.after = after, !.pc = IF Len(after) = Len(AssetOrder) THEN "compare" ELSE @], source)
  <1> DEFINE after == Identity(b.after)
             n == Len(AssetOrder)
             m == Len(Constants)
             pc == IF Len(after) = n THEN "compare" ELSE b.pc
             d == [b EXCEPT !.after = after, !.pc = IF Len(after) = n THEN "compare" ELSE @]
  <1>1. /\ Shaped(b) /\ Len(b.before) = n /\ Len(b.packed) = m
        /\ b.after \in Seq(Identities) /\ Len(b.after) < n /\ b.kernelRecord = b.cubin
        /\ b.plans = CompileExecutablePlan(PackedRequest(b.packed)) /\ b.plans # {}
    BY DEF BuildOK, BuildTyped, BuildStage, Shaped, Packing, Planned
  <1>2. /\ Shaped(d) /\ d.before = b.before /\ d.packed = b.packed /\ d.pc = pc /\ d.after = after
        /\ d.kernelRecord = d.cubin /\ d.plans = b.plans
    <2> DEFINE e == [b EXCEPT !.after = after]
    <2>1. d = [e EXCEPT !.pc = IF Len(after) = n THEN "compare" ELSE e.pc]
      OBVIOUS
    <2> HIDE DEF after
    <2>2. e = [pc |-> b.pc, cubin |-> b.cubin, kernelRecord |-> b.kernelRecord, layouts |-> b.layouts,
               program |-> b.program, before |-> b.before, packed |-> b.packed, plans |-> b.plans, after |-> after]
      BY <1>1 DEF Shaped
    <2> HIDE DEF e
    <2>3. e.pc = b.pc /\ [e EXCEPT !.pc = pc] =
              [pc |-> pc, cubin |-> b.cubin, kernelRecord |-> b.kernelRecord, layouts |-> b.layouts,
               program |-> b.program, before |-> b.before, packed |-> b.packed, plans |-> b.plans, after |-> after]
      BY <2>2
    <2>4. d = [e EXCEPT !.pc = pc]
      BY <2>1, <2>3
    <2>5. d = [pc |-> pc, cubin |-> b.cubin, kernelRecord |-> b.kernelRecord, layouts |-> b.layouts,
               program |-> b.program, before |-> b.before, packed |-> b.packed, plans |-> b.plans, after |-> after]
      BY <2>3, <2>4
    <2> HIDE DEF d, pc
    <2> QED BY <1>1, <2>5 DEF Shaped
  <1>3. /\ after \in Seq(Identities) /\ Len(after) = Len(b.after) + 1
        /\ \A j \in 1..Len(b.after) : after[j] = b.after[j]
        /\ ReadFrom(after[Len(b.after) + 1], source[AssetOrder[Len(b.after) + 1]])
        /\ after[Len(b.after) + 1].at = Len(source[AssetOrder[Len(b.after) + 1]])
    BY <1>1, NextIdentity
  <1>4. n \in Nat /\ n # 0 /\ m \in Nat /\ m # 0 /\ Len(b.after) \in Nat
    BY <1>1, AssetsListed, ConstantsListed, LenProperties
  <1>5. (pc = "compare" /\ Len(after) = n) \/ (pc = "after" /\ Len(after) # n)
    OBVIOUS
  <1> HIDE DEF n, m, after, d, pc
  <1>6. Len(after) <= n
    BY <1>1, <1>3, <1>4
  <1>7. BuildTyped(d)
    BY <1>2, <1>3, <1>6 DEF BuildOK, BuildTyped, Shaped, n
  <1>8. BuildStage(d)
    BY <1>1, <1>2, <1>3, <1>4, <1>5, <1>6 DEF BuildStage, Packing, Planned, n, m
  <1>9. ASSUME NEW k \in 1..Len(b.packed)
        PROVE  ReadBetween(d, k, source[ShardOf[Constants[k]]])
    <2> DEFINE contents == source[ShardOf[Constants[k]]]
    <2>1. ReadBetween(b, k, contents)
      BY DEF BuildOK, BuildOrdered
    <2>2. PICK i \in 1..Len(contents) :
            /\ contents[i].version = b.packed[k].version
            /\ \A j \in 1..Len(b.before) : Stores(j, k) => b.before[j].at <= i
            /\ \A j \in 1..Len(b.after) : Stores(j, k) => i <= b.after[j].at
      BY <2>1 DEF ReadBetween
    <2>3. ASSUME NEW j \in 1..Len(after), Stores(j, k) PROVE i <= after[j].at
      <3>1. j \in 1..Len(b.after) \/ j = Len(b.after) + 1
        BY <1>3, <1>4
      <3>2. CASE j \in 1..Len(b.after)
        BY <1>3, <2>2, <2>3, <3>2
      <3>3. CASE j = Len(b.after) + 1
        <4>1. after[j].at = Len(contents)
          BY <1>3, <2>3, <3>3 DEF Stores
        <4> QED BY <2>2, <4>1
      <3> QED BY <3>1, <3>2, <3>3
    <2> HIDE DEF contents
    <2>4. ReadBetween(d, k, contents)
      BY <1>2, <2>2, <2>3 DEF ReadBetween
    <2> QED BY <2>4 DEF contents
  <1>12. ASSUME NEW j \in 1..Len(after) PROVE ReadFrom(after[j], source[AssetOrder[j]])
    <2>1. j \in 1..Len(b.after) \/ j = Len(b.after) + 1
      BY <1>3, <1>4
    <2>2. \A i \in 1..Len(b.after) : ReadFrom(b.after[i], source[AssetOrder[i]])
      BY DEF BuildOK, BuildOrdered
    <2> QED BY <1>3, <2>1, <2>2
  <1>10. BuildOrdered(d, source)
    BY <1>2, <1>9, <1>12 DEF BuildOK, BuildOrdered
  <1>11. BuildOK(d, source)
    BY <1>7, <1>8, <1>10 DEF BuildOK
  <1> QED BY <1>11 DEF d, after, n

\* Compare of a build whose identities agree.
LEMMA ComparedBuild ==
  ASSUME NEW b, SourceFiles(source), BuildOK(b, source), b.pc = "compare", Unchanged(b)
  PROVE  BuildOK([b EXCEPT !.pc = "publish"], source)
  <1> DEFINE d == [b EXCEPT !.pc = "publish"]
  <1>1. /\ Shaped(b) /\ Len(b.before) = Len(AssetOrder) /\ Len(b.after) = Len(AssetOrder)
        /\ Len(b.packed) = Len(Constants) /\ b.kernelRecord = b.cubin
        /\ b.plans = CompileExecutablePlan(PackedRequest(b.packed)) /\ b.plans # {}
    BY DEF BuildOK, BuildTyped, BuildStage, Shaped, Packing, Planned
  <1>2. d = [pc |-> "publish", cubin |-> b.cubin, kernelRecord |-> b.kernelRecord, layouts |-> b.layouts,
             program |-> b.program, before |-> b.before, packed |-> b.packed, plans |-> b.plans, after |-> b.after]
    BY <1>1 DEF Shaped
  <1> HIDE DEF d
  <1>3. /\ Shaped(d) /\ d.pc = "publish" /\ d.plans = b.plans /\ d.before = b.before /\ d.packed = b.packed
        /\ d.after = b.after /\ d.kernelRecord = d.cubin
    BY <1>1, <1>2 DEF Shaped
  <1>4. BuildTyped(d)
    BY <1>3 DEF BuildOK, BuildTyped, Shaped
  <1>10. Unchanged(d)
    BY <1>3 DEF Unchanged
  <1>5. BuildStage(d)
    BY <1>1, <1>3, <1>10 DEF BuildStage, Packing, Planned
  <1>6. BuildOrdered(d, source)
    BY <1>3 DEF BuildOK, BuildOrdered, ReadBetween
  <1>7. BuildOK(d, source)
    BY <1>4, <1>5, <1>6 DEF BuildOK
  <1> QED BY <1>7 DEF d

\* An edit adds a content, a new one or an earlier one.
LEMMA EditedFiles ==
  ASSUME SourceFiles(source), edits.checkpoint \in 0..MaxEdits, NEW a \in Assets, Edit(a)
  PROVE  SourceFiles(source') /\ Extended(source, source') /\ edits.checkpoint + 1 \in 0..MaxEdits
  <1>1. MaxEdits \in Nat /\ edits.checkpoint \in Nat /\ edits.checkpoint < MaxEdits
    BY PipelineAssumption DEF Edit
  <1>2. PICK new \in NewContents(a) \cup EarlierContents(a) : source' = [source EXCEPT ![a] = Append(@, new)]
    BY DEF Edit
  <1>3. edits.checkpoint + 1 \in 0..MaxEdits
    BY <1>1
  <1>4. /\ source[a] \in Seq(AssetContents) /\ Len(source[a]) \in Nat
        /\ \A n \in 1..Len(source[a]) : source[a][n] \in AssetContents
        /\ File(a) \in AssetContents
    BY FileContents DEF File
  <1>5. new \in AssetContents
    <2>1. CASE new \in NewContents(a)
      <3>1. File(a).layout \in Nat
        BY <1>4 DEF AssetContents
      <3>2. PICK layout \in {File(a).layout, File(a).layout + 1} : new = [version |-> edits.checkpoint + 1, layout |-> layout]
        BY <2>1 DEF NewContents
      <3> QED BY <1>3, <3>1, <3>2 DEF AssetContents
    <2>2. CASE new \in EarlierContents(a)
      <3>1. DOMAIN source[a] = 1..Len(source[a])
        BY <1>4, LenProperties
      <3> QED BY <1>4, <2>2, <3>1 DEF EarlierContents, ToSet
    <2> QED BY <2>1, <2>2
  <1>6. source \in [Assets -> Seq(AssetContents)] /\ \A f \in Assets : Len(source[f]) \in Nat /\ Len(source[f]) # 0
    BY FileContents DEF SourceFiles
  <1> DEFINE longer == Append(source[a], new)
             Histories == Seq(AssetContents)
  <1>8. /\ longer \in Histories /\ Len(longer) = Len(source[a]) + 1
        /\ \A n \in 1..Len(source[a]) : longer[n] = source[a][n]
    BY <1>4, <1>5, AppendProperties
  <1>9. source' = [source EXCEPT ![a] = longer] /\ source \in [Assets -> Histories]
    BY <1>2, <1>6
  <1> HIDE DEF longer, Histories
  <1>7. \A f \in Assets : source'[f] = IF f = a THEN longer ELSE source[f]
    BY <1>9
  <1>10. source' \in [Assets -> Histories]
    BY <1>8, <1>9
  <1>11. \A f \in Assets : Len(source'[f]) # 0
    BY <1>4, <1>6, <1>7, <1>8
  <1>12. Extended(source, source')
    BY <1>4, <1>6, <1>7, <1>8 DEF Extended
  <1> QED BY <1>3, <1>10, <1>11, <1>12 DEF SourceFiles, Histories

\* What was read stays one of the contents of its file.
LEMMA StillRead ==
  ASSUME NEW files, NEW later, SourceFiles(files), SourceFiles(later), Extended(files, later), NEW a \in Assets
  PROVE  /\ 1..Len(files[a]) \subseteq 1..Len(later[a]) /\ \A n \in 1..Len(files[a]) : later[a][n] = files[a][n]
         /\ \A identity : ReadFrom(identity, files[a]) => ReadFrom(identity, later[a])
         /\ \A b, k : ReadBetween(b, k, files[a]) => ReadBetween(b, k, later[a])
         /\ \A version, first, last : Dated(version, first, last, files[a]) => Dated(version, first, last, later[a])
  <1>1. Len(files[a]) \in Nat /\ Len(later[a]) \in Nat
    BY FileContents
  <1>2. Len(files[a]) <= Len(later[a]) /\ \A n \in 1..Len(files[a]) : later[a][n] = files[a][n]
    BY DEF Extended
  <1>3. 1..Len(files[a]) \subseteq 1..Len(later[a])
    BY <1>1, <1>2
  <1>4. \A identity : ReadFrom(identity, files[a]) => ReadFrom(identity, later[a])
    BY <1>2, <1>3 DEF ReadFrom
  <1>5. \A b, k : ReadBetween(b, k, files[a]) => ReadBetween(b, k, later[a])
    BY <1>2, <1>3 DEF ReadBetween
  <1>6. \A version, first, last : Dated(version, first, last, files[a]) => Dated(version, first, last, later[a])
    BY <1>2, <1>3 DEF Dated
  <1> QED BY <1>2, <1>3, <1>4, <1>5, <1>6

\* So a build that was in order stays in order.
LEMMA OrderKept ==
  ASSUME NEW b, NEW files, NEW later, SourceFiles(files), SourceFiles(later), BuildOK(b, files), Extended(files, later)
  PROVE  BuildOK(b, later)
  <1>1. /\ Len(b.before) <= Len(AssetOrder) /\ Len(b.after) <= Len(AssetOrder) /\ Len(b.packed) <= Len(Constants)
        /\ Len(b.before) \in Nat /\ Len(b.after) \in Nat /\ Len(b.packed) \in Nat
    BY LenProperties DEF BuildOK, BuildTyped
  <1>2. Len(AssetOrder) \in Nat /\ Len(Constants) \in Nat /\ \A j \in 1..Len(AssetOrder) : AssetOrder[j] \in Assets
    BY AssetsListed, ConstantsListed
  <1>3. ASSUME NEW j \in 1..Len(b.before) PROVE ReadFrom(b.before[j], later[AssetOrder[j]])
    <2>1. AssetOrder[j] \in Assets /\ ReadFrom(b.before[j], files[AssetOrder[j]])
      BY <1>1, <1>2 DEF BuildOK, BuildOrdered
    <2> QED BY <2>1, StillRead
  <1>4. ASSUME NEW j \in 1..Len(b.after) PROVE ReadFrom(b.after[j], later[AssetOrder[j]])
    <2>1. AssetOrder[j] \in Assets /\ ReadFrom(b.after[j], files[AssetOrder[j]])
      BY <1>1, <1>2 DEF BuildOK, BuildOrdered
    <2> QED BY <2>1, StillRead
  <1>5. ASSUME NEW k \in 1..Len(b.packed)
        PROVE  b.packed[k].constant = Constants[k] /\ ReadBetween(b, k, later[ShardOf[Constants[k]]])
    <2>1. k \in 1..Len(Constants)
      BY <1>1, <1>2
    <2>2. ShardOf[Constants[k]] \in Assets
      BY <2>1, ShardFiles
    <2>3. b.packed[k].constant = Constants[k] /\ ReadBetween(b, k, files[ShardOf[Constants[k]]])
      BY DEF BuildOK, BuildOrdered
    <2> QED BY <2>2, <2>3, StillRead
  <1>6. BuildOrdered(b, later)
    BY <1>3, <1>4, <1>5 DEF BuildOrdered
  <1> QED BY <1>6 DEF BuildOK

\* And an artifact keeps its record.
LEMMA RecordKept ==
  ASSUME NEW artifact, NEW files, NEW later, SourceFiles(files), SourceFiles(later), Extended(files, later),
         Recorded(artifact, files)
  PROVE  Recorded(artifact, later)
  <1>1. ASSUME NEW w, WeightDated(w, artifact, files) PROVE WeightDated(w, artifact, later)
    <2> DEFINE a == ShardOf[w.constant]
    <2>1. a \in Assets /\ Dated(w.version, artifact.sources[a], artifact.checked[a], files[a])
      BY <1>1 DEF WeightDated
    <2>2. Dated(w.version, artifact.sources[a], artifact.checked[a], later[a])
      BY <2>1, StillRead
    <2> QED BY <2>1, <2>2 DEF WeightDated
  <1> QED BY <1>1 DEF Recorded

\* A build with another step, and one with another field too, has the same shape.
LEMMA Reshaped ==
  ASSUME NEW b, Shaped(b), NEW pc
  PROVE  LET d == [b EXCEPT !.pc = pc]
         IN /\ Shaped(d) /\ d.pc = pc /\ d.cubin = b.cubin /\ d.kernelRecord = b.kernelRecord
            /\ d.layouts = b.layouts /\ d.program = b.program
            /\ d.before = b.before /\ d.packed = b.packed /\ d.plans = b.plans /\ d.after = b.after
  BY DEF Shaped

\* So an invariant of the variables, before a step and after it.
LEMMA PipelineParts ==
  /\ PipelineInv <=> PipelineOK(source, output, builds, edits)
  /\ PipelineInv' <=> PipelineOK(source', output', builds', edits')
  BY DEF PipelineInv, PipelineOK, SourceFiles, Recorded, WeightDated

\* A build takes a step and publishes nothing, or what describes itself.
LEMMA BuildSteps ==
  ASSUME PipelineInv, NEW c \in Compilers, NEW b, BuildOK(b, source), builds' = [builds EXCEPT ![c] = b],
         UNCHANGED <<source, edits>>, output' = output \/ Recorded(output', source)
  PROVE  PipelineInv'
  <1>1. PipelineOK(source, output, builds, edits)
    BY PipelineParts
  <1>2. builds' = [builds EXCEPT ![c] = b] /\ source' = source /\ edits' = edits
    OBVIOUS
  <1>3. builds = [x \in Compilers |-> builds[x]]
    BY <1>1 DEF PipelineOK
  <1>4. builds' = [x \in Compilers |-> builds'[x]] /\ \A x \in Compilers : builds'[x] = builds[x] \/ builds'[x] = b
    <2>1. builds' = [x \in Compilers |-> IF x = c THEN b ELSE builds[x]]
      BY <1>2, <1>3
    <2> QED BY <2>1
  <1>5. \A x \in Compilers : BuildOK(builds'[x], source)
    BY <1>1, <1>4 DEF PipelineOK
  <1>6. Recorded(output', source)
    BY <1>1 DEF PipelineOK
  <1>7. PipelineOK(source', output', builds', edits')
    BY <1>1, <1>2, <1>4, <1>5, <1>6 DEF PipelineOK
  <1> QED BY <1>7, PipelineParts

\* Each step of a compilation.
LEMMA CompileSteps ==
  ASSUME PipelineInv, NEW c \in Compilers, CompileStep(c)
  PROVE  PipelineInv'
  <1> DEFINE b == builds[c]
  <1>1. SourceFiles(source) /\ BuildOK(b, source) /\ Shaped(b)
    BY PipelineParts DEF PipelineOK, BuildOK, BuildTyped, Shaped
  <1>2. ASSUME NEW d, BuildOK(d, source), Advance(c, d), UNCHANGED <<source, edits>> PROVE PipelineInv'
    BY <1>2, BuildSteps DEF Advance
  <1>3. ASSUME NEW pc \in {"start", "done", "refused"} PROVE BuildOK([NoBuild EXCEPT !.pc = pc], source)
    <2> DEFINE d == [NoBuild EXCEPT !.pc = pc]
    <2>1. /\ Shaped(NoBuild) /\ NoBuild.before = <<>> /\ NoBuild.packed = <<>> /\ NoBuild.after = <<>>
          /\ NoBuild.kernelRecord = NoBuild.cubin
      BY DEF NoBuild, Shaped
    <2>2. Shaped(d) /\ d.pc = pc /\ d.before = <<>> /\ d.packed = <<>> /\ d.after = <<>> /\ d.kernelRecord = d.cubin
      <3>1. /\ Shaped(d) /\ d.pc = pc /\ d.cubin = NoBuild.cubin /\ d.kernelRecord = NoBuild.kernelRecord
            /\ d.before = NoBuild.before /\ d.packed = NoBuild.packed /\ d.after = NoBuild.after
        BY ZenonT(60), <2>1, Reshaped
      <3> QED BY <2>1, <3>1
    <2> HIDE DEF d
    <2>3. BuildOK(d, source)
      BY <2>2, EarlyBuild DEF Early
    <2> QED BY <2>3 DEF d
  <1>4. ASSUME Refuse(c), UNCHANGED <<source, edits, output>> PROVE PipelineInv'
    <2>1. BuildOK([NoBuild EXCEPT !.pc = "refused"], source)
      BY <1>3
    <2> QED BY <1>4, <2>1, BuildSteps DEF Refuse
  <1>5. ASSUME b.pc \in Early PROVE (b.before = <<>> /\ b.packed = <<>> /\ b.after = <<>>) \/ b.pc = "before"
    BY <1>1, <1>5 DEF BuildOK, BuildStage, Packing, Planned, Early
  <1>6. CASE RunAgain(c)
    <2>1. BuildOK(NoBuild, source)
      <3>1. Shaped(NoBuild)
        BY DEF Shaped, NoBuild
      <3> QED BY <3>1, EarlyBuild DEF NoBuild, Early
    <2> QED BY <1>6, <2>1, BuildSteps DEF RunAgain
  <1>7. CASE Start(c)
    <2> DEFINE d == [b EXCEPT !.pc = "cubin"]
    <2>1. b.pc = "start" /\ UNCHANGED <<source, edits>>
      BY <1>7 DEF Start, At
    <2>2. Shaped(d) /\ d.pc = "cubin" /\ d.before = <<>> /\ d.packed = <<>> /\ d.after = <<>>
      BY <1>1, <1>5, <2>1 DEF Shaped, Early
    <2> HIDE DEF d
    <2>3. BuildOK(d, source)
      BY <2>2, EarlyBuild DEF Early
    <2>4. CASE Refuse(c) /\ UNCHANGED output
      BY <1>4, <2>1, <2>4
    <2>5. CASE Advance(c, d)
      BY <1>2, <2>1, <2>3, <2>5
    <2>6. (Refuse(c) /\ UNCHANGED output) \/ Advance(c, d)
      BY <1>7 DEF Start, d
    <2> QED BY <2>4, <2>5, <2>6
  <1>8. CASE ReadKernel(c)
    <2> DEFINE d == [b EXCEPT !.pc = "record", !.cubin = kernel]
    <2>1. b.pc = "cubin" /\ UNCHANGED <<source, edits>> /\ Advance(c, d)
      BY <1>8 DEF ReadKernel, At
    <2>2. Shaped(d) /\ d.pc = "record" /\ d.before = <<>> /\ d.packed = <<>> /\ d.after = <<>>
      <3> DEFINE e == [b EXCEPT !.pc = "record"]
      <3>1. /\ Shaped(e) /\ e.pc = "record" /\ e.cubin = b.cubin /\ e.kernelRecord = b.kernelRecord
            /\ e.before = b.before /\ e.packed = b.packed /\ e.after = b.after
        BY <1>1, Reshaped
      <3>2. d = [e EXCEPT !.cubin = kernel]
        OBVIOUS
      <3>3. b.before = <<>> /\ b.packed = <<>> /\ b.after = <<>>
        BY <1>5, <2>1 DEF Early
      <3> HIDE DEF b, e, d
      <3> QED BY <3>1, <3>2, <3>3 DEF Shaped
    <2> HIDE DEF d
    <2>3. BuildOK(d, source)
      BY <2>2, EarlyBuild DEF Early
    <2> QED BY <1>2, <2>1, <2>3
  <1>9. CASE ValidateKernelRecord(c)
    <2> DEFINE d == [b EXCEPT !.pc = "open", !.kernelRecord = record]
    <2>1. b.pc = "record" /\ UNCHANGED <<source, edits>>
      BY <1>9 DEF ValidateKernelRecord, At
    <2>2. /\ Shaped(d) /\ d.pc = "open" /\ d.before = <<>> /\ d.packed = <<>> /\ d.after = <<>>
          /\ d.kernelRecord = record /\ d.cubin = b.cubin
      <3> DEFINE e == [b EXCEPT !.pc = "open"]
      <3>1. /\ Shaped(e) /\ e.pc = "open" /\ e.cubin = b.cubin /\ e.kernelRecord = b.kernelRecord
            /\ e.before = b.before /\ e.packed = b.packed /\ e.after = b.after
        BY <1>1, Reshaped
      <3>2. d = [e EXCEPT !.kernelRecord = record]
        OBVIOUS
      <3>3. b.before = <<>> /\ b.packed = <<>> /\ b.after = <<>>
        BY <1>5, <2>1 DEF Early
      <3> HIDE DEF b, e, d
      <3> QED BY <3>1, <3>2, <3>3 DEF Shaped
    <2>3. (Refuse(c) /\ UNCHANGED output) \/ (record = b.cubin /\ Advance(c, d))
      BY <1>9 DEF ValidateKernelRecord
    <2> HIDE DEF d
    <2>4. CASE Refuse(c) /\ UNCHANGED output
      BY <1>4, <2>1, <2>4
    <2>5. CASE record = b.cubin /\ Advance(c, d)
      <3>1. BuildOK(d, source)
        BY <2>2, <2>5, EarlyBuild DEF Early
      <3> QED BY <1>2, <2>1, <2>5, <3>1
    <2> QED BY <2>3, <2>4, <2>5
  <1>10. CASE OpenSource(c)
    <2> DEFINE layouts == [a \in Assets |-> File(a).layout]
               d == [b EXCEPT !.pc = "import", !.layouts = layouts]
    <2>1. b.pc = "open" /\ UNCHANGED <<source, edits>> /\ Advance(c, d)
      BY <1>10 DEF OpenSource, At
    <2> HIDE DEF layouts
    <2>2. b.kernelRecord = b.cubin
      BY <1>1, <2>1 DEF BuildOK, BuildStage
    <2>3. /\ Shaped(d) /\ d.pc = "import" /\ d.before = <<>> /\ d.packed = <<>> /\ d.after = <<>>
          /\ d.kernelRecord = d.cubin
      <3> DEFINE e == [b EXCEPT !.pc = "import"]
      <3>1. /\ Shaped(e) /\ e.pc = "import" /\ e.cubin = b.cubin /\ e.kernelRecord = b.kernelRecord
            /\ e.before = b.before /\ e.packed = b.packed /\ e.after = b.after
        BY <1>1, Reshaped
      <3>2. d = [e EXCEPT !.layouts = layouts]
        OBVIOUS
      <3>3. b.before = <<>> /\ b.packed = <<>> /\ b.after = <<>>
        BY <1>5, <2>1 DEF Early
      <3> HIDE DEF b, e, d
      <3> QED BY <2>2, <3>1, <3>2, <3>3 DEF Shaped
    <2> HIDE DEF d
    <2>4. BuildOK(d, source)
      BY <2>3, EarlyBuild DEF Early
    <2> QED BY <1>2, <2>1, <2>4
  <1>11. CASE ImportProgram(c)
    <2> DEFINE d == [b EXCEPT !.pc = "before", !.program = File(Config).version]
    <2>1. b.pc = "import" /\ UNCHANGED <<source, edits>>
      BY <1>11 DEF ImportProgram, At
    <2>2. b.kernelRecord = b.cubin
      BY <1>1, <2>1 DEF BuildOK, BuildStage
    <2>3. /\ Shaped(d) /\ d.pc = "before" /\ d.before = <<>> /\ d.packed = <<>> /\ d.after = <<>>
          /\ d.kernelRecord = d.cubin
      <3> DEFINE e == [b EXCEPT !.pc = "before"]
      <3>1. /\ Shaped(e) /\ e.pc = "before" /\ e.cubin = b.cubin /\ e.kernelRecord = b.kernelRecord
            /\ e.before = b.before /\ e.packed = b.packed /\ e.after = b.after
        BY <1>1, Reshaped
      <3>2. d = [e EXCEPT !.program = File(Config).version]
        OBVIOUS
      <3>3. b.before = <<>> /\ b.packed = <<>> /\ b.after = <<>>
        BY <1>5, <2>1 DEF Early
      <3> HIDE DEF b, e, d
      <3> QED BY <2>2, <3>1, <3>2, <3>3 DEF Shaped
    <2>4. (Refuse(c) /\ UNCHANGED output) \/ Advance(c, d)
      BY <1>11 DEF ImportProgram
    <2> HIDE DEF d
    <2>5. BuildOK(d, source)
      BY <2>3, EarlyBuild DEF Early
    <2>6. CASE Refuse(c) /\ UNCHANGED output
      BY <1>4, <2>1, <2>6
    <2>7. CASE Advance(c, d)
      BY <1>2, <2>1, <2>5, <2>7
    <2> QED BY <2>4, <2>6, <2>7
  <1>12. CASE IdentifyBefore(c)
    <2> DEFINE before == Identity(b.before)
               d == [b EXCEPT !.before = before, !.pc = IF Len(before) = Len(AssetOrder) THEN "pack" ELSE @]
    <2>1. b.pc = "before" /\ UNCHANGED <<source, edits>> /\ Advance(c, d)
      BY <1>12 DEF IdentifyBefore, At
    <2>2. BuildOK(d, source)
      BY <1>1, <2>1, IdentifiedBefore
    <2> HIDE DEF d
    <2> QED BY <1>2, <2>1, <2>2
  <1>13. CASE PackConstant(c)
    <2> DEFINE id == Constants[Len(b.packed) + 1]
               packed == Append(b.packed, [constant |-> id, version |-> File(ShardOf[id]).version])
               d == [b EXCEPT !.packed = packed, !.pc = IF Len(packed) = Len(Constants) THEN "plan" ELSE @]
    <2>1. b.pc = "pack" /\ UNCHANGED <<source, edits>>
      BY <1>13 DEF PackConstant, At
    <2>2. (Refuse(c) /\ UNCHANGED output) \/ Advance(c, d)
      BY <1>13 DEF PackConstant
    <2>3. BuildOK(d, source)
      BY <1>1, <2>1, PackedNext
    <2> HIDE DEF d
    <2>4. CASE Refuse(c) /\ UNCHANGED output
      BY <1>4, <2>1, <2>4
    <2>5. CASE Advance(c, d)
      BY <1>2, <2>1, <2>3, <2>5
    <2> QED BY <2>2, <2>4, <2>5
  <1>14. CASE CompilePlan(c)
    <2> DEFINE plans == CompileExecutablePlan(PackedRequest(b.packed))
               d == [b EXCEPT !.pc = "after", !.plans = plans]
    <2>1. b.pc = "plan" /\ UNCHANGED <<source, edits>>
      BY <1>14 DEF CompilePlan, At
    <2>2. (Refuse(c) /\ UNCHANGED output) \/ (plans # {} /\ Advance(c, d))
      BY <1>14 DEF CompilePlan
    <2>3. plans # {} => BuildOK(d, source)
      BY <1>1, <2>1, PlannedBuild
    <2> HIDE DEF d, plans
    <2>4. CASE Refuse(c) /\ UNCHANGED output
      BY <1>4, <2>1, <2>4
    <2>5. CASE plans # {} /\ Advance(c, d)
      BY <1>2, <2>1, <2>3, <2>5
    <2> QED BY <2>2, <2>4, <2>5
  <1>15. CASE IdentifyAfter(c)
    <2> DEFINE after == Identity(b.after)
               d == [b EXCEPT !.after = after, !.pc = IF Len(after) = Len(AssetOrder) THEN "compare" ELSE @]
    <2>1. b.pc = "after" /\ UNCHANGED <<source, edits>> /\ Advance(c, d)
      BY <1>15 DEF IdentifyAfter, At
    <2>2. BuildOK(d, source)
      BY <1>1, <2>1, IdentifiedAfter
    <2> HIDE DEF d
    <2> QED BY <1>2, <2>1, <2>2
  <1>16. CASE Compare(c)
    <2> DEFINE d == [b EXCEPT !.pc = "publish"]
    <2>1. b.pc = "compare" /\ UNCHANGED <<source, edits>>
      BY <1>16 DEF Compare, At
    <2>2. (Refuse(c) /\ UNCHANGED output) \/ (Unchanged(b) /\ Advance(c, d))
      BY <1>16 DEF Compare
    <2>3. Unchanged(b) => BuildOK(d, source)
      BY <1>1, <2>1, ComparedBuild
    <2> HIDE DEF d
    <2>4. CASE Refuse(c) /\ UNCHANGED output
      BY <1>4, <2>1, <2>4
    <2>5. CASE Unchanged(b) /\ Advance(c, d)
      BY <1>2, <2>1, <2>3, <2>5
    <2> QED BY <2>2, <2>4, <2>5
  <1>17. CASE Publish(c)
    <2>1. /\ b.pc = "publish" /\ UNCHANGED <<source, edits>> /\ output' = Artifact(b)
          /\ builds' = [builds EXCEPT ![c] = [NoBuild EXCEPT !.pc = "done"]]
      BY <1>17 DEF Publish, At
    <2>2. BuildOK([NoBuild EXCEPT !.pc = "done"], source)
      BY <1>3
    <2>3. Recorded(output', source)
      BY <1>1, <2>1, PublishRecords
    <2> QED BY <2>1, <2>2, <2>3, BuildSteps
  <1>18. CASE CompileFails(c)
    BY <1>4, <1>18 DEF CompileFails
  <1> HIDE DEF b
  <1> QED BY <1>6, <1>7, <1>8, <1>9, <1>10, <1>11, <1>12, <1>13, <1>14, <1>15, <1>16, <1>17, <1>18 DEF CompileStep

\* Initially nothing was read; the checkpoint and the kernels change only outside the compilations.
LEMMA PipelineInvariant == PackageSpec => []PipelineInv
  <1>1. PackageInit => PipelineInv
    <2> SUFFICES ASSUME PackageInit PROVE PipelineInv
      OBVIOUS
    <2>1. /\ source = [a \in Assets |-> <<[version |-> 0, layout |-> 0]>>] /\ output = NoFile
          /\ builds = [c \in Compilers |-> NoBuild] /\ edits = [checkpoint |-> 0, kernels |-> 0]
      BY DEF PackageInit, PipelineInit
    <2>2. 0 \in 0..MaxEdits /\ 0 \in Nat /\ edits.checkpoint = 0 /\ edits.kernels = 0
      BY <2>1, PipelineAssumption
    <2>3. SourceFiles(source)
      <3> DEFINE first == [version |-> 0, layout |-> 0]
      <3>1. first \in AssetContents
        BY <2>2 DEF AssetContents
      <3> HIDE DEF first
      <3>2. <<first>> \in Seq(AssetContents) /\ Len(<<first>>) # 0
        BY <3>1
      <3>3. source = [a \in Assets |-> <<first>>]
        BY <2>1 DEF first
      <3> QED BY <3>2, <3>3 DEF SourceFiles
    <2>4. BuildOK(NoBuild, source)
      <3>1. Shaped(NoBuild)
        BY DEF Shaped, NoBuild
      <3> QED BY <3>1, EarlyBuild DEF NoBuild, Early
    <2>5. Recorded(output, source)
      BY <2>1 DEF Recorded
    <2>6. builds = [c \in Compilers |-> builds[c]] /\ \A c \in Compilers : BuildOK(builds[c], source)
      BY <2>1, <2>4
    <2>7. PipelineOK(source, output, builds, edits)
      BY <2>1, <2>2, <2>3, <2>5, <2>6 DEF PipelineOK
    <2> QED BY <2>7, PipelineParts
  <1>2. PipelineInv /\ [PackageNext]_packageVars => PipelineInv'
    <2> SUFFICES ASSUME PipelineInv, [PackageNext]_packageVars PROVE PipelineInv'
      OBVIOUS
    <2>1. ASSUME UNCHANGED <<source, output, builds>>, edits'.checkpoint = edits.checkpoint,
                 edits' = [checkpoint |-> edits'.checkpoint, kernels |-> edits'.kernels]
          PROVE  PipelineInv'
      BY <2>1, PipelineParts DEF PipelineOK
    <2>2. edits = [checkpoint |-> edits.checkpoint, kernels |-> edits.kernels]
      <3>1. PipelineOK(source, output, builds, edits)
        BY PipelineParts
      <3> QED BY <3>1 DEF PipelineOK
    <2>3. ASSUME UNCHANGED pipelineVars PROVE PipelineInv'
      BY <2>1, <2>2, <2>3 DEF pipelineVars
    <2>4. ASSUME NEW a \in Assets, Edit(a) PROVE PipelineInv'
      <3>1. PipelineOK(source, output, builds, edits)
        BY PipelineParts
      <3>2. SourceFiles(source') /\ Extended(source, source') /\ edits.checkpoint + 1 \in 0..MaxEdits
        BY <2>4, <3>1, EditedFiles DEF PipelineOK
      <3>3. edits' = [checkpoint |-> edits.checkpoint + 1, kernels |-> edits.kernels] /\ UNCHANGED <<output, builds>>
        BY <2>2, <2>4 DEF Edit
      <3>4. \A c \in Compilers : BuildOK(builds[c], source')
        BY <3>1, <3>2, OrderKept DEF PipelineOK
      <3>6. Recorded(output, source')
        BY <3>1, <3>2, RecordKept DEF PipelineOK
      <3>5. PipelineOK(source', output', builds', edits')
        BY <3>1, <3>2, <3>3, <3>4, <3>6 DEF PipelineOK
      <3> QED BY <3>5, PipelineParts
    <2>5. CASE BuildKernel
      <3>1. edits' = [checkpoint |-> edits.checkpoint, kernels |-> edits.kernels + 1] /\ UNCHANGED <<source, output, builds>>
        BY <2>2, <2>5 DEF BuildKernel
      <3> QED BY <2>1, <3>1
    <2>6. CASE RecordKernel
      BY <2>1, <2>2, <2>6 DEF RecordKernel
    <2>7. CASE scenario = "compile" /\ PipelineNext /\ UNCHANGED <<scenario, stored, apiVars>>
      BY <2>4, <2>5, <2>6, <2>7, CompileSteps DEF PipelineNext
    <2>8. CASE scenario = "serve" /\ ApiNext /\ UNCHANGED <<scenario, stored, pipelineVars>>
      BY <2>3, <2>8
    <2>9. CASE \E in \in Requests : WritePlan(in)
      BY <2>3, <2>9 DEF WritePlan
    <2>10. CASE Damage \/ Resize \/ Rewrite
      BY <2>3, <2>10 DEF Damage, Resize, Rewrite, Store
    <2>11. CASE UNCHANGED packageVars
      BY <2>3, <2>11 DEF packageVars
    <2> QED BY <2>7, <2>8, <2>9, <2>10, <2>11 DEF PackageNext
  <1> QED BY <1>1, <1>2, PTL DEF PackageSpec

-----------------------------------------------------------------------------
(* A session does what the plan says only after ParseExecutablePlan accepted *)
(* it: after whatever was damaged, lost, doubled or rewritten on the way     *)
(* (executable_plan.cc), what it does stays inside what it allocates.        *)
THEOREM StoredPlansAreSound == PackageSpec => []LoadedPlanSound
  <1>1. StoredInv => LoadedPlanSound
    <2> SUFFICES ASSUME StoredInv, stored # NoFile, RuntimeAccepts PROVE LoadedPlanSound
      BY DEF LoadedPlanSound
    <2>1. Sized(stored.plan)
      BY DEF StoredInv
    <2>2. DecodedPlan(stored.plan)
      BY <2>1, ParsersPlaceTables, SizedDecodes DEF RuntimeAccepts
    <2> QED BY <2>2, AcceptedPlansAreSound
  <1> QED BY <1>1, StoredInvariant, PTL

\* The reader of the compiler (parse_executable_plan, executable.py) and the
\* parser of the runtime (ParseExecutablePlan, executable_plan.cc) accept the
\* same bytes, whatever was damaged, lost, doubled or rewritten in a plan.
THEOREM ParsersAlwaysAgree == PackageSpec => []PlanParsersAgree
  <1>1. StoredInv => PlanParsersAgree
    <2> SUFFICES ASSUME StoredInv, stored # NoFile PROVE PyAccepts <=> RuntimeAccepts
      BY DEF PlanParsersAgree
    <2>1. Sized(stored.plan)
      BY DEF StoredInv
    <2>2. PyAccepts \/ RuntimeAccepts => DecodedPlan(stored.plan)
      BY <2>1, ParsersPlaceTables, SizedDecodes DEF PyAccepts, RuntimeAccepts
    <2>3. DecodedPlan(stored.plan) => (PyAccepts <=> RuntimeAccepts)
      BY ParsersAgree DEF PyAccepts, RuntimeAccepts
    <2> QED BY ONLY <2>2, <2>3
  <1> QED BY <1>1, StoredInvariant, PTL

\* compile_source (compiler/pipeline.py): however the checkpoint and the kernels
\* were edited while it was compiled, an artifact records its own kernel and its
\* own weights; these are bytes that the recorded shards had while it was
\* compiled, and the recorded ones unless a shard was edited at least twice.
THEOREM ArtifactsDescribeThemselves == PackageSpec => []RecordedSource
  <1>1. PipelineInv => RecordedSource
    <2> SUFFICES ASSUME PipelineInv, output # NoFile PROVE RecordedSource
      BY DEF RecordedSource
    <2>1. Recorded(output, source) /\ SourceFiles(source)
      BY DEF PipelineInv, PipelineOK
    <2>2. ASSUME NEW w \in ToSet(output.weights)
          PROVE  LET a == ShardOf[w.constant]
                     first == output.sources[a]
                     last == output.checked[a]
                 IN /\ \E n \in first.at..last.at : source[a][n].version = w.version
                    /\ last.at < first.at + 2 => w.version = first.content.version
      <3> DEFINE a == ShardOf[w.constant]
                 first == output.sources[a]
                 last == output.checked[a]
                 contents == source[a]
      <3>1. a \in Assets /\ Dated(w.version, first, last, contents)
        BY <2>1 DEF Recorded, WeightDated
      <3>2. Len(contents) \in Nat
        BY <2>1, <3>1, FileContents
      <3> HIDE DEF a, first, last, contents
      <3>3. \E n \in first.at..last.at : contents[n].version = w.version
        BY <3>1, <3>2 DEF Dated
      <3>4. last.at < first.at + 2 => w.version = first.content.version
        BY <3>1 DEF Dated
      <3> QED BY <3>3, <3>4 DEF a, first, last, contents
    <2> QED BY <2>1, <2>2 DEF RecordedSource, Recorded
  <1> QED BY <1>1, PipelineInvariant, PTL
=============================================================================
