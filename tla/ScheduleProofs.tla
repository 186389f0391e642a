--------------------------- MODULE ScheduleProofs ---------------------------
(***************************************************************************)
(* build_execution_schedule of src/aginfer/lowering/schedule.py: whatever  *)
(* program is submitted, with whatever calls and repeats, every operation  *)
(* of the schedule reads what is numbered and produced before it, and      *)
(* every name in every frame is bound to a value of its declared type.     *)
(*                                                                         *)
(* ScheduleInv adds what inline() relies on: each frame but the running    *)
(* one is at the call of the next frame's function, and numbers that are   *)
(* kept (of states, constants, operands and results) stay in range.        *)
(***************************************************************************)
EXTENDS Schedule, FiniteSetTheorems, SequenceTheorems, TLAPS

\* A program in progress has been verified; before that nothing is numbered.
ProgressInv ==
  /\ program \in Programs
  /\ progress = "submitted" =>
       values = <<>> /\ ops = <<>> /\ shared = <<>> /\ stack = <<>> /\ outputs = <<>>
  /\ stack # <<>> => ProgramVerified(program)

\* The values are numbered in order; producers and aliases are in range.
ValuesInv ==
  /\ IsList(values) /\ IsList(ops)
  /\ \A v \in DOMAIN values :
       /\ values[v].producer \in 0..Len(ops)
       /\ values[v].storage = "state_alias" => values[v].alias \in DOMAIN values
  /\ \A k \in DOMAIN ops : \A i \in DOMAIN ops[k].outputs : ops[k].outputs[i] \in DOMAIN values
  /\ \A key \in DOMAIN shared : shared[key] \in DOMAIN values
  /\ stack # <<>> =>
       \A i \in DOMAIN program.states :
         Len(Entry.inputs) + i \in DOMAIN values /\ values[Len(Entry.inputs) + i].storage = "state"

FrameOK(p, frame) ==
  /\ frame = [function |-> frame.function, pc |-> frame.pc, turn |-> frame.turn,
              env |-> frame.env, invocation |-> frame.invocation]
  /\ frame.function \in FunctionNames(p)
  /\ frame.pc \in 1..Len(FunctionOf(p, frame.function).ops) + 1
  /\ frame.turn \in Nat \ {0}

\* A frame is at a call of a function.
AtCallOf(p, frame, name) ==
  LET f == FunctionOf(p, frame.function) IN
  frame.pc \in Calls(f) /\ f.ops[frame.pc].attributes.callee = name

\* The frames below the running one have called the frame above them.
FramesOK(p, frames) ==
  /\ IsList(frames)
  /\ \A n \in DOMAIN frames : FrameOK(p, frames[n])
  /\ \A n \in 1..(Len(frames) - 1) : AtCallOf(p, frames[n], frames[n + 1].function)

FramesInv == FramesOK(program, stack)

ScheduleInv == ProgressInv /\ ValuesInv /\ FramesInv /\ ScheduleVerified /\ BindingsTyped

-----------------------------------------------------------------------------
(* Induction *)

\* Every nonempty set of naturals has a least element.
LEMMA LeastNumber ==
  ASSUME NEW S, S \subseteq Nat, S # {}
  PROVE  \E m \in S : \A n \in S : m <= n
  <1> DEFINE Segment(n) == 0..(n - 1)
             T == {Segment(n) : n \in S}
             R == StrictSubsetOrdering(Nat)
  <1>1. \A n \in Nat : Segment(n) \in SUBSET Nat /\ IsFiniteSet(Segment(n))
    BY FS_Interval
  <1>2. T \subseteq FiniteSubsetsOf(Nat) /\ T # {}
    BY <1>1 DEF FiniteSubsetsOf
  <1>3. PICK t \in T : \A u \in T : ~(<<u, t>> \in R)
    <2>1. IsWellFoundedOn(R, FiniteSubsetsOf(Nat))
      BY FS_StrictSubsetOrderingWellFounded
    <2> HIDE DEF R, T
    <2> QED BY <1>2, <2>1, WFMin
  <1>4. PICK m \in S : t = Segment(m)
    BY <1>3
  <1>5. ASSUME NEW n \in S, n < m PROVE FALSE
    <2>1. Segment(n) \subseteq Segment(m) /\ Segment(n) # Segment(m)
      BY <1>5
    <2>2. <<Segment(n), Segment(m)>> \in R
      BY <1>1, <2>1 DEF StrictSubsetOrdering
    <2> QED BY <1>3, <1>4, <2>2
  <1> QED BY <1>5

\* Induction up to n, over a set of numbers.
LEMMA UpTo ==
  ASSUME NEW n \in Nat, NEW S, 0 \in S, \A d \in 1..n : d - 1 \in S => d \in S
  PROVE  \A d \in 0..n : d \in S
  <1> DEFINE bad == (0..n) \ S
  <1>1. CASE bad # {}
    <2>1. bad \subseteq Nat
      OBVIOUS
    <2>2. PICK m \in bad : \A k \in bad : m <= k
      <3> HIDE DEF bad
      <3> QED BY <1>1, <2>1, LeastNumber
    <2>3. m \in 1..n /\ m - 1 \in 0..n /\ m - 1 \notin bad
      BY <2>2
    <2> QED BY <2>2, <2>3
  <1> QED BY <1>1

-----------------------------------------------------------------------------
(* Lists *)

\* A list is a sequence of its members.
LEMMA ListSeq ==
  ASSUME NEW s, IsList(s)
  PROVE  s \in Seq(ToSet(s)) /\ DOMAIN s = 1..Len(s) /\ Len(s) \in Nat
  <1>1. DOMAIN s = 1..Len(s)
    BY DEF IsList
  <1>2. s \in [1..Len(s) -> ToSet(s)]
    <2>1. \A i \in 1..Len(s) : s[i] \in ToSet(s)
      BY <1>1 DEF ToSet
    <2> QED BY <2>1 DEF IsList
  <1>3. Len(s) \in Nat
    BY DEF IsList
  <1> QED BY <1>1, <1>2, <1>3, SeqDef

\* A sequence is a list.
LEMMA SeqList ==
  ASSUME NEW T, NEW s \in Seq(T)
  PROVE  IsList(s)
  BY LenProperties DEF IsList

\* What is appended to a list comes last.
LEMMA AppendList ==
  ASSUME NEW s, IsList(s), NEW e
  PROVE  /\ IsList(Append(s, e)) /\ Len(Append(s, e)) = Len(s) + 1
         /\ DOMAIN Append(s, e) = 1..(Len(s) + 1)
         /\ \A i \in 1..Len(s) : Append(s, e)[i] = s[i]
         /\ Append(s, e)[Len(s) + 1] = e
  <1> DEFINE T == ToSet(s) \cup {e}
  <1>1. s \in Seq(T)
    <2>1. s \in Seq(ToSet(s)) /\ ToSet(s) \subseteq T
      BY ListSeq
    <2> HIDE DEF T
    <2> QED BY <2>1, SeqMonotonic
  <1>2. e \in T
    OBVIOUS
  <1> HIDE DEF T
  <1>3. Append(s, e) \in Seq(T)
    BY <1>1, <1>2, AppendProperties
  <1>4. IsList(Append(s, e))
    BY <1>3, SeqList
  <1>5. Len(Append(s, e)) = Len(s) + 1
    BY <1>1, <1>2, AppendProperties
  <1>6. \A i \in 1..Len(s) : Append(s, e)[i] = s[i]
    BY <1>1, <1>2, AppendProperties
  <1>7. Append(s, e)[Len(s) + 1] = e
    BY <1>1, <1>2, AppendProperties
  <1>8. DOMAIN Append(s, e) = 1..(Len(s) + 1)
    BY <1>4, <1>5, ListSeq
  <1> QED BY <1>4, <1>5, <1>6, <1>7, <1>8

\* The members of two lists, one after the other.
LEMMA ConcatList ==
  ASSUME NEW s, IsList(s), NEW t, IsList(t)
  PROVE  /\ IsList(s \o t) /\ Len(s \o t) = Len(s) + Len(t)
         /\ DOMAIN (s \o t) = 1..(Len(s) + Len(t))
         /\ \A i \in 1..Len(s) : (s \o t)[i] = s[i]
         /\ \A i \in 1..Len(t) : (s \o t)[Len(s) + i] = t[i]
         /\ \A i \in (Len(s) + 1)..(Len(s) + Len(t)) : (s \o t)[i] = t[i - Len(s)]
         /\ ToSet(s \o t) = ToSet(s) \cup ToSet(t)
  <1> DEFINE T == ToSet(s) \cup ToSet(t)
  <1>1. s \in Seq(T) /\ t \in Seq(T)
    <2>1. s \in Seq(ToSet(s)) /\ ToSet(s) \subseteq T /\ t \in Seq(ToSet(t)) /\ ToSet(t) \subseteq T
      BY ListSeq
    <2> HIDE DEF T
    <2> QED BY <2>1, SeqMonotonic
  <1> HIDE DEF T
  <1>2. s \o t \in Seq(T) /\ Len(s \o t) = Len(s) + Len(t)
    BY <1>1, ConcatProperties
  <1>3. \A i \in 1..(Len(s) + Len(t)) : (s \o t)[i] = IF i <= Len(s) THEN s[i] ELSE t[i - Len(s)]
    BY <1>1, ConcatProperties
  <1>4. IsList(s \o t)
    BY <1>2, SeqList
  <1>5. DOMAIN (s \o t) = 1..(Len(s) + Len(t))
    BY <1>2, <1>4, ListSeq
  <1>6. Len(s) \in Nat /\ Len(t) \in Nat /\ DOMAIN s = 1..Len(s) /\ DOMAIN t = 1..Len(t)
    BY ListSeq
  <1>7. \A i \in 1..Len(s) : i \in 1..(Len(s) + Len(t)) /\ (s \o t)[i] = s[i]
    BY <1>3, <1>6
  <1>8. \A i \in (Len(s) + 1)..(Len(s) + Len(t)) :
          i \in 1..(Len(s) + Len(t)) /\ i - Len(s) \in 1..Len(t) /\ (s \o t)[i] = t[i - Len(s)]
    BY <1>3, <1>6
  <1>9. \A i \in 1..Len(t) : Len(s) + i \in (Len(s) + 1)..(Len(s) + Len(t)) /\ (s \o t)[Len(s) + i] = t[i]
    BY <1>6, <1>8
  <1>10. ToSet(s \o t) = ToSet(s) \cup ToSet(t)
    <2>1. ASSUME NEW x \in ToSet(s \o t) PROVE x \in ToSet(s) \cup ToSet(t)
      <3>1. PICK i \in 1..(Len(s) + Len(t)) : (s \o t)[i] = x
        BY <1>5, <2>1 DEF ToSet
      <3>2. CASE i <= Len(s)
        BY <1>6, <1>7, <3>1, <3>2 DEF ToSet
      <3>3. CASE ~(i <= Len(s))
        <4>1. i \in (Len(s) + 1)..(Len(s) + Len(t))
          BY <1>6, <3>3
        <4>2. i - Len(s) \in DOMAIN t /\ x = t[i - Len(s)]
          BY <1>6, <1>8, <3>1, <4>1
        <4> QED BY <4>2 DEF ToSet
      <3> QED BY <3>2, <3>3
    <2>2. ToSet(s) \subseteq ToSet(s \o t)
      BY <1>5, <1>6, <1>7 DEF ToSet
    <2>3. ASSUME NEW x \in ToSet(t) PROVE x \in ToSet(s \o t)
      <3>1. PICK i \in 1..Len(t) : t[i] = x
        BY <1>6, <2>3 DEF ToSet
      <3>2. Len(s) + i \in 1..(Len(s) + Len(t)) /\ (s \o t)[Len(s) + i] = x
        BY <1>8, <1>9, <3>1
      <3> QED BY <1>5, <3>2 DEF ToSet
    <2> QED BY <2>1, <2>2, <2>3
  <1> QED BY <1>2, <1>4, <1>5, <1>7, <1>8, <1>9, <1>10

\* FlattenSeq joins the lists of a list: its members are theirs.
LEMMA FlattenMembers ==
  ASSUME NEW S, IsList(S), \A j \in DOMAIN S : IsList(S[j])
  PROVE  IsList(FlattenSeq(S)) /\ ToSet(FlattenSeq(S)) = UNION {ToSet(S[j]) : j \in DOMAIN S}
  <1> DEFINE n == Len(S)
             Up(d) == UNION {ToSet(S[j]) : j \in 1..d}
             Joins(h, m) == h = [i \in 1..m |-> IF i = 1 THEN S[i] ELSE h[i - 1] \o S[i]]
             f == CHOOSE h : Joins(h, n)
  <1>1. n \in Nat /\ DOMAIN S = 1..n
    BY ListSeq
  <1>2. CASE n = 0
    <2>1. FlattenSeq(S) = S /\ DOMAIN S = {}
      BY <1>1, <1>2 DEF FlattenSeq
    <2> QED BY <2>1 DEF ToSet
  <1>3. CASE n # 0
    <2>1. FlattenSeq(S) = f[n]
      BY <1>3 DEF FlattenSeq
    <2>2. \E h : Joins(h, n)
      <3> DEFINE Made == {m \in Nat : \E h : Joins(h, m)}
      <3>1. 0 \in Made
        <4>1. Joins(<<>>, 0)
          OBVIOUS
        <4> HIDE DEF Joins
        <4> QED BY <4>1
      <3>2. ASSUME NEW m \in 1..n, m - 1 \in Made PROVE m \in Made
        <4>1. PICK g : Joins(g, m - 1)
          BY <3>2
        <4> DEFINE h == [i \in 1..m |-> IF i = 1 THEN S[i] ELSE g[i - 1] \o S[i]]
        <4>2. \A i \in 1..(m - 1) : h[i] = g[i]
          <5>1. g = [i \in 1..(m - 1) |-> IF i = 1 THEN S[i] ELSE g[i - 1] \o S[i]]
            BY <4>1
          <5>2. \A i \in 1..(m - 1) : g[i] = IF i = 1 THEN S[i] ELSE g[i - 1] \o S[i]
            <6> HIDE DEF Joins
            <6> QED BY <5>1
          <5>3. \A i \in 1..(m - 1) : i \in 1..m
            OBVIOUS
          <5> HIDE DEF Joins
          <5> QED BY <5>2, <5>3
        <4>3. \A i \in 1..m : h[i] = IF i = 1 THEN S[i] ELSE g[i - 1] \o S[i]
          OBVIOUS
        <4>4. h = [i \in 1..m |-> h[i]]
          OBVIOUS
        <4> HIDE DEF h
        <4>5. \A i \in 1..m : i # 1 => i - 1 \in 1..(m - 1)
          OBVIOUS
        <4>6. \A i \in 1..m : h[i] = IF i = 1 THEN S[i] ELSE h[i - 1] \o S[i]
          BY <4>2, <4>3, <4>5
        <4>7. Joins(h, m)
          BY <4>4, <4>6
        <4> HIDE DEF Joins
        <4> QED BY <4>7
      <3> HIDE DEF Made, Joins, n
      <3>3. n \in Made
        BY <1>1, <3>1, <3>2, UpTo
      <3> QED BY <3>3 DEF Made
    <2>3. Joins(f, n)
      <3> HIDE DEF Joins
      <3> QED BY <2>2
    <2> HIDE DEF f
    <2>4. \A i \in 1..n : f[i] = IF i = 1 THEN S[i] ELSE f[i - 1] \o S[i]
      BY <2>3
    <2> DEFINE Good == {d \in Nat : d = 0 \/ (IsList(f[d]) /\ ToSet(f[d]) = Up(d))}
    <2>5. 0 \in Good
      OBVIOUS
    <2> HIDE DEF Joins, n
    <2>6. ASSUME NEW d \in 1..n, d - 1 \in Good PROVE d \in Good
      <3>1. IsList(S[d]) /\ d \in Nat
        BY <1>1
      <3>2. CASE d = 1
        <4>1. f[d] = S[d]
          BY <2>4, <3>2
        <4>2. Up(1) = ToSet(S[1])
          <5>1. 1..1 = {1}
            OBVIOUS
          <5> QED BY <5>1
        <4>3. IsList(f[d]) /\ ToSet(f[d]) = Up(d)
          <5> HIDE DEF Up
          <5> QED BY <3>1, <3>2, <4>1, <4>2
        <4> HIDE DEF Up
        <4> QED BY <3>1, <4>3
      <3>3. CASE d # 1
        <4>1. f[d] = f[d - 1] \o S[d]
          BY <2>4, <3>3
        <4>2. IsList(f[d - 1]) /\ ToSet(f[d - 1]) = Up(d - 1)
          BY <2>6, <3>3
        <4>3. Up(d) = Up(d - 1) \cup ToSet(S[d])
          <5>1. 1..d = 1..(d - 1) \cup {d}
            BY <1>1
          <5> QED BY <5>1
        <4> HIDE DEF Up
        <4>4. IsList(f[d]) /\ ToSet(f[d]) = ToSet(f[d - 1]) \cup ToSet(S[d])
          BY <3>1, <4>1, <4>2, ConcatList
        <4> QED BY <3>1, <4>2, <4>3, <4>4
      <3> QED BY <3>2, <3>3
    <2>7. n \in Good
      <3> HIDE DEF Good
      <3>1. n \in 0..n
        BY <1>1
      <3> QED BY <1>1, <2>5, <2>6, <3>1, UpTo
    <2>8. IsList(f[n]) /\ ToSet(f[n]) = Up(n)
      BY <1>3, <2>7
    <2> QED BY <1>1, <2>1, <2>8
  <1> QED BY <1>2, <1>3

-----------------------------------------------------------------------------
(* Functions of a program *)

\* The function of a name is one of the program's.
LEMMA FunctionOfName ==
  ASSUME NEW p, NEW name \in FunctionNames(p)
  PROVE  /\ \E i \in DOMAIN p.functions : FunctionOf(p, name) = p.functions[i]
         /\ FunctionOf(p, name).name = name
  <1>1. \E i \in DOMAIN p.functions : p.functions[i].name = name
    BY DEF FunctionNames
  <1>2. PICK i : i = CHOOSE k \in DOMAIN p.functions : p.functions[k].name = name
    OBVIOUS
  <1>3. i \in DOMAIN p.functions /\ p.functions[i].name = name
    BY <1>1, <1>2
  <1> QED BY <1>2, <1>3 DEF FunctionOf

\* What has been verified of each function.
LEMMA VerifiedFunctions ==
  ASSUME NEW p, IsProgram(p), ProgramVerified(p), NEW name \in FunctionNames(p)
  PROVE  LET f == FunctionOf(p, name) IN
         /\ IsFunction(f) /\ DefinedBeforeUse(f) /\ SingleAssignment(f)
         /\ FunctionVerified(p, f)
  BY FunctionOfName DEF IsProgram, ProgramVerified

\* What a function defines before its k-th operation: the inputs and the outputs
\* of the operations before it.
LEMMA DefinedMembers ==
  ASSUME NEW f, IsFunction(f), NEW k \in 1..Len(f.ops) + 1
  PROVE  /\ IsList(DefinedBefore(f, k))
         /\ ToSet(DefinedBefore(f, k))
              = ToSet(f.inputs) \cup UNION {ToSet(f.ops[j].outputs) : j \in 1..(k - 1)}
  <1> DEFINE S == [j \in 1..(k - 1) |-> f.ops[j].outputs]
  <1>1. IsList(f.inputs) /\ IsList(f.ops) /\ Len(f.ops) \in Nat /\ DOMAIN f.ops = 1..Len(f.ops)
    BY ListSeq DEF IsFunction
  <1>2. \A j \in 1..(k - 1) : IsList(f.ops[j].outputs)
    BY <1>1 DEF IsFunction
  <1>3. k - 1 \in Nat
    BY <1>1
  <1>4. Len(S) = k - 1
    <2>1. S \in Seq({f.ops[j].outputs : j \in 1..(k - 1)})
      BY <1>3, SeqDef
    <2>2. DOMAIN S = 1..(k - 1) /\ DOMAIN S = 1..Len(S) /\ Len(S) \in Nat
      BY <2>1, LenProperties
    <2> HIDE DEF S
    <2> QED BY <1>3, <2>2
  <1>5. IsList(S)
    <2>1. S = [j \in 1..Len(S) |-> S[j]]
      BY <1>4
    <2> HIDE DEF S
    <2> QED BY <1>3, <1>4, <2>1 DEF IsList
  <1>6. DOMAIN S = 1..(k - 1) /\ \A j \in DOMAIN S : S[j] = f.ops[j].outputs
    OBVIOUS
  <1>7. DefinedBefore(f, k) = f.inputs \o FlattenSeq(S)
    BY DEF DefinedBefore
  <1> HIDE DEF S
  <1>8. \A j \in DOMAIN S : IsList(S[j])
    BY <1>2, <1>6
  <1>9. /\ IsList(FlattenSeq(S))
        /\ ToSet(FlattenSeq(S)) = UNION {ToSet(S[j]) : j \in DOMAIN S}
    BY <1>5, <1>8, FlattenMembers
  <1>10. UNION {ToSet(S[j]) : j \in DOMAIN S} = UNION {ToSet(f.ops[j].outputs) : j \in 1..(k - 1)}
    BY <1>6
  <1>11. /\ IsList(f.inputs \o FlattenSeq(S))
         /\ ToSet(f.inputs \o FlattenSeq(S)) = ToSet(f.inputs) \cup ToSet(FlattenSeq(S))
    BY <1>1, <1>9, ConcatList
  <1> QED BY <1>7, <1>9, <1>10, <1>11

\* The names a list of values defines.
LEMMA IdsOfMembers ==
  ASSUME NEW s
  PROVE  Ids(s) = {v.id : v \in ToSet(s)}
  BY DEF Ids, ToSet

\* First the inputs have names, and each operation names its outputs.
LEMMA IdsBefore ==
  ASSUME NEW f, IsFunction(f)
  PROVE  /\ Ids(DefinedBefore(f, 1)) = Ids(f.inputs)
         /\ \A k \in DOMAIN f.ops :
              Ids(DefinedBefore(f, k + 1)) = Ids(DefinedBefore(f, k)) \cup Ids(f.ops[k].outputs)
  <1>1. Len(f.ops) \in Nat /\ DOMAIN f.ops = 1..Len(f.ops)
    BY ListSeq DEF IsFunction
  <1>2. Ids(DefinedBefore(f, 1)) = Ids(f.inputs)
    <2>1. 1 \in 1..Len(f.ops) + 1
      BY <1>1
    <2>2. ToSet(DefinedBefore(f, 1)) = ToSet(f.inputs) \cup UNION {ToSet(f.ops[j].outputs) : j \in 1..(1 - 1)}
      BY <2>1, DefinedMembers
    <2>3. 1..(1 - 1) = {}
      OBVIOUS
    <2>4. ToSet(DefinedBefore(f, 1)) = ToSet(f.inputs)
      BY <2>2, <2>3
    <2> QED BY <2>4, IdsOfMembers
  <1>3. ASSUME NEW k \in DOMAIN f.ops
        PROVE  Ids(DefinedBefore(f, k + 1)) = Ids(DefinedBefore(f, k)) \cup Ids(f.ops[k].outputs)
    <2>1. k \in 1..Len(f.ops) + 1 /\ k + 1 \in 1..Len(f.ops) + 1 /\ k \in Nat
      BY <1>1
    <2>2. ToSet(DefinedBefore(f, k)) = ToSet(f.inputs) \cup UNION {ToSet(f.ops[j].outputs) : j \in 1..(k - 1)}
      BY <2>1, DefinedMembers
    <2>3. ToSet(DefinedBefore(f, k + 1))
            = ToSet(f.inputs) \cup UNION {ToSet(f.ops[j].outputs) : j \in 1..(k + 1 - 1)}
      BY <2>1, DefinedMembers
    <2>4. 1..(k + 1 - 1) = 1..(k - 1) \cup {k} /\ k \notin 1..(k - 1)
      BY <1>1, <2>1
    <2>5. ToSet(DefinedBefore(f, k + 1)) = ToSet(DefinedBefore(f, k)) \cup ToSet(f.ops[k].outputs)
      BY <2>2, <2>3, <2>4
    <2> QED BY <2>5, IdsOfMembers
  <1> QED BY <1>2, <1>3

\* A name has the type it is declared with where it is defined.
LEMMA DeclaredTypes ==
  ASSUME NEW f, IsFunction(f), SingleAssignment(f)
  PROVE  /\ \A i \in DOMAIN f.inputs : TypeOf(f, f.inputs[i].id) = f.inputs[i].type
         /\ \A k \in DOMAIN f.ops : \A i \in DOMAIN f.ops[k].outputs :
              TypeOf(f, f.ops[k].outputs[i].id) = f.ops[k].outputs[i].type
  <1>1. Len(f.ops) \in Nat /\ DOMAIN f.ops = 1..Len(f.ops)
    BY ListSeq DEF IsFunction
  <1>2. ToSet(Defined(f)) = ToSet(f.inputs) \cup UNION {ToSet(f.ops[j].outputs) : j \in 1..Len(f.ops)}
    <2>1. Len(f.ops) + 1 \in 1..Len(f.ops) + 1 /\ Len(f.ops) + 1 - 1 = Len(f.ops)
      BY <1>1
    <2>2. ToSet(DefinedBefore(f, Len(f.ops) + 1))
            = ToSet(f.inputs) \cup UNION {ToSet(f.ops[j].outputs) : j \in 1..(Len(f.ops) + 1 - 1)}
      BY <2>1, DefinedMembers
    <2> QED BY <2>1, <2>2 DEF Defined
  <1>3. ASSUME NEW v \in ToSet(Defined(f)) PROVE TypeOf(f, v.id) = v.type
    <2> DEFINE all == Defined(f)
               at == CHOOSE i \in DOMAIN all : all[i].id = v.id
    <2>1. PICK m \in DOMAIN all : all[m] = v
      BY <1>3 DEF ToSet
    <2>2. at \in DOMAIN all /\ all[at].id = v.id
      BY <2>1
    <2>3. at = m
      BY <2>1, <2>2 DEF SingleAssignment
    <2>4. TypeOf(f, v.id) = all[at].type
      BY DEF TypeOf
    <2> HIDE DEF at
    <2> QED BY <2>1, <2>3, <2>4
  <1>4. \A i \in DOMAIN f.inputs : f.inputs[i] \in ToSet(Defined(f))
    <2>1. \A i \in DOMAIN f.inputs : f.inputs[i] \in ToSet(f.inputs)
      BY DEF ToSet
    <2> QED BY <1>2, <2>1
  <1>5. ASSUME NEW k \in DOMAIN f.ops, NEW i \in DOMAIN f.ops[k].outputs
        PROVE  f.ops[k].outputs[i] \in ToSet(Defined(f))
    <2>1. f.ops[k].outputs[i] \in ToSet(f.ops[k].outputs)
      BY DEF ToSet
    <2> QED BY <1>1, <1>2, <2>1
  <1> QED BY <1>3, <1>4, <1>5

-----------------------------------------------------------------------------
(* Environments *)

\* env binds what f has defined before its k-th operation, to values of the
\* declared types.
EnvTyped(env, f, k, vals) ==
  /\ DOMAIN env = Ids(DefinedBefore(f, k))
  /\ \A id \in DOMAIN env : env[id] \in DOMAIN vals /\ vals[env[id]].type = TypeOf(f, id)

\* A bound name has the number at one of its places.
LEMMA BoundNumber ==
  ASSUME NEW list, NEW numbers, NEW id \in Ids(list)
  PROVE  /\ id \in Range(NamesOf(list))
         /\ \E i \in DOMAIN list : list[i].id = id /\ Bind(NamesOf(list), numbers)[id] = numbers[i]
  <1> DEFINE names == NamesOf(list)
             at == CHOOSE i \in DOMAIN names : names[i] = id
  <1>1. DOMAIN names = DOMAIN list /\ \A i \in DOMAIN list : names[i] = list[i].id
    BY DEF NamesOf
  <1>2. PICK m \in DOMAIN list : list[m].id = id
    BY DEF Ids
  <1> HIDE DEF names
  <1>3. id \in Range(names)
    BY <1>1, <1>2 DEF Range
  <1>4. at \in DOMAIN list /\ list[at].id = id
    BY <1>1, <1>2
  <1>5. Bind(names, numbers)[id] = numbers[at]
    BY <1>3 DEF Bind
  <1> HIDE DEF at
  <1> QED BY <1>3, <1>4, <1>5 DEF names

\* The names bound are those of the list.
LEMMA NamesAreIds ==
  ASSUME NEW list
  PROVE  Range(NamesOf(list)) = Ids(list)
  BY DEF Range, NamesOf, Ids

\* A call starts with its inputs bound to values of their types.
LEMMA BindTyped ==
  ASSUME NEW f, IsFunction(f), SingleAssignment(f), NEW vals, NEW numbers,
         \A i \in DOMAIN f.inputs : numbers[i] \in DOMAIN vals /\ vals[numbers[i]].type = f.inputs[i].type
  PROVE  EnvTyped(Bind(NamesOf(f.inputs), numbers), f, 1, vals)
  <1> DEFINE env == Bind(NamesOf(f.inputs), numbers)
  <1>1. DOMAIN env = Ids(f.inputs)
    BY NamesAreIds DEF Bind
  <1>2. ASSUME NEW id \in Ids(f.inputs)
        PROVE  env[id] \in DOMAIN vals /\ vals[env[id]].type = TypeOf(f, id)
    <2>1. PICK i \in DOMAIN f.inputs : f.inputs[i].id = id /\ env[id] = numbers[i]
      BY BoundNumber
    <2>2. TypeOf(f, id) = f.inputs[i].type
      BY <2>1, DeclaredTypes
    <2> HIDE DEF env
    <2> QED BY <2>1, <2>2
  <1> HIDE DEF env
  <1>3. DOMAIN env = Ids(DefinedBefore(f, 1))
    BY <1>1, IdsBefore
  <1>4. EnvTyped(env, f, 1, vals)
    BY <1>1, <1>2, <1>3 DEF EnvTyped
  <1> QED BY <1>4 DEF env

\* An operation adds its outputs.
LEMMA ExtendTyped ==
  ASSUME NEW f, IsFunction(f), SingleAssignment(f), NEW vals, NEW numbers, NEW env,
         NEW k \in DOMAIN f.ops, EnvTyped(env, f, k, vals),
         \A i \in DOMAIN f.ops[k].outputs :
           numbers[i] \in DOMAIN vals /\ vals[numbers[i]].type = f.ops[k].outputs[i].type
  PROVE  EnvTyped(ExtendEnv(env, NamesOf(f.ops[k].outputs), numbers), f, k + 1, vals)
  <1> DEFINE out == f.ops[k].outputs
             new == ExtendEnv(env, NamesOf(out), numbers)
  <1>1. Range(NamesOf(out)) = Ids(out)
    BY NamesAreIds
  <1>2. /\ DOMAIN new = DOMAIN env \cup Ids(out)
        /\ \A id \in DOMAIN new : new[id] = IF id \in Ids(out) THEN Bind(NamesOf(out), numbers)[id] ELSE env[id]
    BY <1>1 DEF ExtendEnv
  <1>3. DOMAIN new = Ids(DefinedBefore(f, k + 1))
    <2> HIDE DEF new
    <2>1. Ids(DefinedBefore(f, k + 1)) = Ids(DefinedBefore(f, k)) \cup Ids(out)
      BY IdsBefore
    <2>2. DOMAIN env = Ids(DefinedBefore(f, k))
      BY DEF EnvTyped
    <2> QED BY <1>2, <2>1, <2>2
  <1>4. ASSUME NEW id \in DOMAIN new
        PROVE  new[id] \in DOMAIN vals /\ vals[new[id]].type = TypeOf(f, id)
    <2>1. CASE id \in Ids(out)
      <3>1. PICK i \in DOMAIN out : out[i].id = id /\ Bind(NamesOf(out), numbers)[id] = numbers[i]
        <4> HIDE DEF out
        <4> QED BY <2>1, BoundNumber
      <3>2. TypeOf(f, id) = out[i].type
        BY <3>1, DeclaredTypes
      <3>3. new[id] = numbers[i]
        <4> HIDE DEF new
        <4> QED BY <1>2, <1>4, <2>1, <3>1
      <3> HIDE DEF new
      <3> QED BY <3>1, <3>2, <3>3
    <2>2. CASE id \notin Ids(out)
      <3> HIDE DEF new
      <3>1. id \in DOMAIN env /\ new[id] = env[id]
        BY <1>2, <1>4, <2>2
      <3> QED BY <3>1 DEF EnvTyped
    <2> QED BY <2>1, <2>2
  <1> HIDE DEF new
  <1>5. EnvTyped(new, f, k + 1, vals)
    BY <1>3, <1>4 DEF EnvTyped
  <1> QED BY <1>5 DEF new

\* More values leave an environment as it is.
LEMMA GrownTyped ==
  ASSUME NEW env, NEW f, NEW k, NEW vals, NEW more, EnvTyped(env, f, k, vals),
         \A v \in DOMAIN vals : v \in DOMAIN more /\ more[v] = vals[v]
  PROVE  EnvTyped(env, f, k, more)
  BY DEF EnvTyped

-----------------------------------------------------------------------------
(* What the verifier has checked of an operation *)

\* Constants define one value; a state read names a declared state.
LEMMA VerifiedOps ==
  ASSUME NEW op, NEW in, NEW states, OpVerified(op, in, states)
  PROVE  /\ op.opcode \in {"constant", "constant_ref"} => Len(op.outputs) = 1
         /\ op.opcode = "state_read" => op.attributes.state \in DOMAIN states
  <1>1. ConstantRule(op) \/ ConstantRefRule(op) => op.opcode # "state_read" /\ Len(op.outputs) = 1
    BY DEF ConstantRule, ConstantRefRule, Signature
  <1>2. StateReadRule(op, states) =>
          op.opcode \notin {"constant", "constant_ref"} /\ op.attributes.state \in DOMAIN states
    BY DEF StateReadRule
  <1>3. CastRule(op, in) \/ ElementwiseRule(op, in) \/ ActivationRule(op, in) =>
          op.opcode \notin {"constant", "constant_ref", "state_read"}
    BY DEF CastRule, ElementwiseRule, ActivationRule
  <1>4. AlongAxisRule(op, in) \/ ConcatRule(op, in) \/ SliceRule(op, in) \/ ReduceRule(op, in) =>
          op.opcode \notin {"constant", "constant_ref", "state_read"}
    BY DEF AlongAxisRule, ConcatRule, SliceRule, ReduceRule
  <1>5. ReshapeRule(op, in) \/ BroadcastRule(op, in) \/ TransposeRule(op, in) \/ MatmulRule(op, in) =>
          op.opcode \notin {"constant", "constant_ref", "state_read"}
    BY DEF ReshapeRule, BroadcastRule, TransposeRule, MatmulRule
  <1>6. LinearRule(op, in) \/ Conv2dRule(op, in) \/ GatherRule(op, in) \/ NormRule(op, in) =>
          op.opcode \notin {"constant", "constant_ref", "state_read"}
    BY DEF LinearRule, Conv2dRule, GatherRule, NormRule
  <1>7. RopeRule(op, in) \/ AttentionRule(op, in) \/ SinusoidalRule(op, in) =>
          op.opcode \notin {"constant", "constant_ref", "state_read"}
    BY DEF RopeRule, AttentionRule, SinusoidalRule
  <1>8. StateWriteRule(op, in, states) \/ StateUpdateRule(op, in, states) =>
          op.opcode \notin {"constant", "constant_ref", "state_read"}
    BY DEF StateWriteRule, StateUpdateRule
  <1> QED BY <1>1, <1>2, <1>3, <1>4, <1>5, <1>6, <1>7, <1>8 DEF OpVerified

\* Every declared state has a place in the order of the names.
LEMMA StatePlaces ==
  ASSUME NEW p, IsProgram(p), NEW s \in StateNames(p)
  PROVE  \E i \in DOMAIN p.states : SortedStates(p)[i].name = s
  <1> DEFINE all == p.states
             Before(k) == {j \in DOMAIN all : all[j].order < all[k].order}
  <1>1. PICK k \in DOMAIN all : all[k].name = s
    BY DEF StateNames
  <1>2. /\ Len(all) \in Nat /\ DOMAIN all = 1..Len(all)
        /\ \A j \in DOMAIN all : all[j].order \in Nat
    BY ListSeq DEF IsProgram
  <1>3. IsFiniteSet(1..Len(all)) /\ Cardinality(1..Len(all)) = Len(all)
    <2>1. 1 \in Int /\ Len(all) \in Int
      BY <1>2
    <2>2. IsFiniteSet(1..Len(all)) /\ Cardinality(1..Len(all)) = IF 1 > Len(all) THEN 0 ELSE Len(all) - 1 + 1
      BY <2>1, FS_Interval
    <2> QED BY <1>2, <2>2
  <1>4. \A j \in DOMAIN all : Before(j) \subseteq 1..Len(all) /\ IsFiniteSet(Before(j)) /\ Cardinality(Before(j)) \in Nat
    <2>1. ASSUME NEW j \in DOMAIN all
          PROVE  Before(j) \subseteq 1..Len(all) /\ IsFiniteSet(Before(j)) /\ Cardinality(Before(j)) \in Nat
      <3>1. Before(j) \subseteq 1..Len(all)
        BY <1>2
      <3>2. IsFiniteSet(Before(j))
        BY <1>3, <3>1, FS_Subset
      <3> QED BY <3>1, <3>2, FS_CardinalityType
    <2> QED BY <2>1
  <1>5. ASSUME NEW a \in DOMAIN all, NEW b \in DOMAIN all, all[a].order < all[b].order
        PROVE  Cardinality(Before(a)) < Cardinality(Before(b))
    <2>1. Before(a) \subseteq Before(b) /\ a \in Before(b) /\ a \notin Before(a)
      BY <1>2, <1>5
    <2> HIDE DEF Before
    <2> QED BY <1>4, <2>1, FS_Subset
  <1>6. Cardinality(Before(k)) < Len(all)
    <2>1. k \notin Before(k) /\ k \in 1..Len(all)
      BY <1>2
    <2>2. Before(k) \subseteq 1..Len(all) /\ Before(k) # 1..Len(all)
      BY <1>4, <2>1
    <2>3. Cardinality(Before(k)) \in Nat
      BY <1>4
    <2> HIDE DEF Before
    <2>4. /\ Cardinality(Before(k)) <= Cardinality(1..Len(all))
          /\ Cardinality(Before(k)) = Cardinality(1..Len(all)) => Before(k) = 1..Len(all)
      BY <1>3, <2>2, FS_Subset
    <2> QED BY <1>2, <1>3, <2>2, <2>3, <2>4
  <1> DEFINE i == Cardinality(Before(k)) + 1
             at == CHOOSE m \in DOMAIN all : Cardinality(Before(m)) = i - 1
  <1>7. i \in DOMAIN all /\ SortedStates(p)[i] = all[at]
    <2>1. i \in DOMAIN all
      <3>1. Cardinality(Before(k)) \in Nat
        BY <1>4
      <3> HIDE DEF Before
      <3> QED BY <1>2, <1>6, <3>1
    <2> HIDE DEF i
    <2> QED BY <2>1 DEF SortedStates
  <1>8. at \in DOMAIN all /\ Cardinality(Before(at)) = Cardinality(Before(k))
    <2>1. Cardinality(Before(k)) = i - 1
      <3>1. Cardinality(Before(k)) \in Nat
        BY <1>4
      <3> HIDE DEF Before
      <3> QED BY <3>1
    <2> HIDE DEF i, Before
    <2> QED BY <2>1
  <1> HIDE DEF at, i, Before
  <1>9. all[at].order = all[k].order
    <2>1. ~(all[at].order < all[k].order) /\ ~(all[k].order < all[at].order)
      BY <1>4, <1>5, <1>8
    <2> QED BY <1>2, <1>8, <2>1
  <1>10. all[at].name = all[k].name
    BY <1>8, <1>9 DEF IsProgram
  <1> QED BY <1>1, <1>7, <1>10

-----------------------------------------------------------------------------
(* The stack of inline() *)

BindingsOK(p, frames, vals) ==
  \A n \in DOMAIN frames :
    EnvTyped(frames[n].env, FunctionOf(p, frames[n].function), frames[n].pc, vals)

\* BindingsTyped says that the environment of every frame is typed.
LEMMA BindingsAreTyped == BindingsTyped <=> BindingsOK(program, stack, values)
  BY DEF BindingsTyped, BindingsOK, EnvTyped

\* The frame on top of a stack.
LEMMA TopFrame ==
  ASSUME NEW p, IsProgram(p), ProgramVerified(p), NEW frames, FramesOK(p, frames), frames # <<>>
  PROVE  /\ Len(frames) \in Nat \ {0} /\ DOMAIN frames = 1..Len(frames) /\ Len(frames) \in DOMAIN frames
         /\ FrameOK(p, frames[Len(frames)])
         /\ LET f == FunctionOf(p, frames[Len(frames)].function) IN
            IsFunction(f) /\ DefinedBeforeUse(f) /\ SingleAssignment(f) /\ FunctionVerified(p, f)
  <1>1. frames \in Seq(ToSet(frames)) /\ Len(frames) \in Nat /\ DOMAIN frames = 1..Len(frames)
    BY ListSeq DEF FramesOK
  <1>2. Len(frames) # 0
    BY <1>1, EmptySeq
  <1>3. Len(frames) \in DOMAIN frames
    BY <1>1, <1>2
  <1>4. FrameOK(p, frames[Len(frames)])
    BY <1>3 DEF FramesOK
  <1>5. frames[Len(frames)].function \in FunctionNames(p)
    BY <1>4 DEF FrameOK
  <1> QED BY <1>1, <1>2, <1>3, <1>4, <1>5, VerifiedFunctions

\* The frame on top is replaced by one of the same function.
LEMMA ReplaceTop ==
  ASSUME NEW p, NEW frames, FramesOK(p, frames), frames # <<>>, NEW vals, BindingsOK(p, frames, vals),
         NEW frame, FrameOK(p, frame), frame.function = frames[Len(frames)].function,
         EnvTyped(frame.env, FunctionOf(p, frame.function), frame.pc, vals)
  PROVE  LET new == [frames EXCEPT ![Len(frames)] = frame] IN
         /\ FramesOK(p, new) /\ BindingsOK(p, new, vals)
         /\ Len(new) = Len(frames) /\ new # <<>> /\ new[Len(new)] = frame
  <1> DEFINE new == [frames EXCEPT ![Len(frames)] = frame]
             T == ToSet(frames) \cup {frame}
  <1>1. frames \in Seq(ToSet(frames)) /\ Len(frames) \in Nat /\ DOMAIN frames = 1..Len(frames)
    BY ListSeq DEF FramesOK
  <1>2. Len(frames) # 0
    BY <1>1, EmptySeq
  <1>3. frames \in Seq(T)
    <2>1. ToSet(frames) \subseteq T
      OBVIOUS
    <2> HIDE DEF T
    <2> QED BY <1>1, <2>1, SeqMonotonic
  <1>4. Len(frames) \in 1..Len(frames) /\ frame \in T
    BY <1>1, <1>2
  <1> HIDE DEF T
  <1>5. /\ new \in Seq(T) /\ Len(new) = Len(frames)
        /\ \A j \in 1..Len(frames) : new[j] = IF j = Len(frames) THEN frame ELSE frames[j]
    BY <1>3, <1>4, ExceptSeq
  <1> HIDE DEF new
  <1>6. IsList(new) /\ DOMAIN new = 1..Len(frames)
    BY <1>5, SeqList, ListSeq
  <1>7. \A n \in DOMAIN new : FrameOK(p, new[n]) /\ new[n].function = frames[n].function
    BY <1>1, <1>5, <1>6 DEF FramesOK
  <1>8. ASSUME NEW n \in 1..(Len(new) - 1) PROVE AtCallOf(p, new[n], new[n + 1].function)
    <2>1. n \in 1..(Len(frames) - 1) /\ n # Len(frames) /\ n \in 1..Len(frames) /\ n + 1 \in 1..Len(frames)
      <3>1. Len(new) = Len(frames) /\ Len(frames) \in Nat
        BY <1>1, <1>5
      <3> QED BY <1>8, <3>1
    <2>2. new[n] = frames[n] /\ new[n + 1].function = frames[n + 1].function
      BY <1>5, <1>6, <1>7, <2>1
    <2>3. AtCallOf(p, frames[n], frames[n + 1].function)
      BY <2>1 DEF FramesOK
    <2> QED BY <2>2, <2>3
  <1>9. FramesOK(p, new)
    BY <1>6, <1>7, <1>8 DEF FramesOK
  <1>10. ASSUME NEW n \in DOMAIN new
         PROVE  EnvTyped(new[n].env, FunctionOf(p, new[n].function), new[n].pc, vals)
    <2>1. CASE n = Len(frames)
      <3>1. new[n] = frame
        BY <1>4, <1>5, <2>1
      <3> QED BY <3>1
    <2>2. CASE n # Len(frames)
      <3>1. new[n] = frames[n] /\ n \in DOMAIN frames
        BY <1>1, <1>5, <1>6, <2>2
      <3> QED BY <3>1 DEF BindingsOK
    <2> QED BY <2>1, <2>2
  <1>11. BindingsOK(p, new, vals)
    BY <1>10 DEF BindingsOK
  <1>12. new # <<>> /\ new[Len(new)] = frame
    <2>1. new[Len(frames)] = frame
      BY <1>4, <1>5
    <2>2. new # <<>>
      BY <1>2, <1>5, EmptySeq
    <2> QED BY <1>5, <2>1, <2>2
  <1> QED BY <1>5, <1>9, <1>11, <1>12 DEF new

FrameOf(function, pc, turn, env, invocation) ==
  [function |-> function, pc |-> pc, turn |-> turn, env |-> env, invocation |-> invocation]

\* A frame goes on.
LEMMA AdvancedFrame ==
  ASSUME NEW p, NEW frame, FrameOK(p, frame), NEW env
  PROVE  Advance(frame, env) = FrameOf(frame.function, frame.pc + 1, 1, env, frame.invocation)
  <1>0. frame = FrameOf(frame.function, frame.pc, frame.turn, frame.env, frame.invocation)
    BY DEF FrameOK, FrameOf
  <1> DEFINE f == frame.function
             i == frame.invocation
             pc == frame.pc
  <1>1. [frame EXCEPT !.pc = pc + 1] = FrameOf(f, pc + 1, frame.turn, frame.env, i)
    <2> HIDE DEF f, i, pc
    <2>1. \A t, e, v : [FrameOf(f, pc, t, e, i) EXCEPT !.pc = v] = FrameOf(f, v, t, e, i)
      BY DEF FrameOf
    <2> QED BY <1>0, <2>1 DEF f, i, pc
  <1>2. \A t, e, v : [FrameOf(f, v, t, e, i) EXCEPT !.turn = 1] = FrameOf(f, v, 1, e, i)
    BY DEF FrameOf
  <1>3. \A t, e, v : [FrameOf(f, v, t, e, i) EXCEPT !.env = env] = FrameOf(f, v, t, env, i)
    BY DEF FrameOf
  <1>4. Advance(frame, env) = [[[frame EXCEPT !.pc = pc + 1] EXCEPT !.turn = 1] EXCEPT !.env = env]
    <2>1. \A v : [frame EXCEPT !.pc = v, !.turn = 1, !.env = env]
                   = [[[frame EXCEPT !.pc = v] EXCEPT !.turn = 1] EXCEPT !.env = env]
      OBVIOUS
    <2>2. Advance(frame, env) = [frame EXCEPT !.pc = pc + 1, !.turn = 1, !.env = env]
      BY DEF Advance
    <2> QED BY <2>1, <2>2
  <1>5. [FrameOf(f, pc + 1, frame.turn, frame.env, i) EXCEPT !.turn = 1] = FrameOf(f, pc + 1, 1, frame.env, i)
    BY <1>2
  <1>6. [FrameOf(f, pc + 1, 1, frame.env, i) EXCEPT !.env = env] = FrameOf(f, pc + 1, 1, env, i)
    BY <1>3
  <1> QED BY <1>1, <1>4, <1>5, <1>6

\* The running frame goes on to its next operation.
LEMMA AdvanceTop ==
  ASSUME NEW p, IsProgram(p), ProgramVerified(p),
         NEW frames, FramesOK(p, frames), frames # <<>>, NEW vals, BindingsOK(p, frames, vals),
         NEW env,
         frames[Len(frames)].pc \in DOMAIN FunctionOf(p, frames[Len(frames)].function).ops,
         EnvTyped(env, FunctionOf(p, frames[Len(frames)].function), frames[Len(frames)].pc + 1, vals)
  PROVE  LET new == [frames EXCEPT ![Len(frames)] = Advance(@, env)] IN
         FramesOK(p, new) /\ BindingsOK(p, new, vals) /\ new # <<>>
  <1> DEFINE top == frames[Len(frames)]
             frame == Advance(top, env)
             f == FunctionOf(p, top.function)
  <1>1. Len(frames) \in DOMAIN frames /\ FrameOK(p, top) /\ IsFunction(f)
    BY TopFrame
  <1>2. Len(f.ops) \in Nat /\ DOMAIN f.ops = 1..Len(f.ops)
    BY <1>1, ListSeq DEF IsFunction
  <1>3. frame = [function |-> top.function, pc |-> top.pc + 1, turn |-> 1, env |-> env,
                 invocation |-> top.invocation]
    BY <1>1, AdvancedFrame DEF FrameOf
  <1>5. top.pc + 1 \in 1..Len(f.ops) + 1
    BY <1>2
  <1>6. [frames EXCEPT ![Len(frames)] = Advance(@, env)]
          = [frames EXCEPT ![Len(frames)] = frame]
    BY <1>1
  <1>7. top.function \in FunctionNames(p)
    BY <1>1 DEF FrameOK
  <1> HIDE DEF top, frame
  <1>8. /\ frame.function = top.function /\ frame.pc = top.pc + 1 /\ frame.turn = 1
        /\ frame.env = env /\ frame.invocation = top.invocation
    BY <1>3
  <1>9. FrameOK(p, frame)
    BY <1>3, <1>5, <1>7, <1>8 DEF FrameOK
  <1>10. EnvTyped(frame.env, FunctionOf(p, frame.function), frame.pc, vals)
    BY <1>8 DEF top
  <1>11. frame.function = frames[Len(frames)].function
    BY <1>8 DEF top
  <1> QED BY <1>6, <1>9, <1>10, <1>11, ReplaceTop

\* The calling frame starts the next repeat of its call.
LEMMA TurnTop ==
  ASSUME NEW p, IsProgram(p), ProgramVerified(p),
         NEW frames, FramesOK(p, frames), frames # <<>>, NEW vals, BindingsOK(p, frames, vals)
  PROVE  LET new == [frames EXCEPT ![Len(frames)].turn = @ + 1] IN
         /\ FramesOK(p, new) /\ BindingsOK(p, new, vals) /\ new # <<>>
         /\ \A name : AtCallOf(p, frames[Len(frames)], name) => AtCallOf(p, new[Len(new)], name)
  <1> DEFINE top == frames[Len(frames)]
             frame == [top EXCEPT !.turn = @ + 1]
  <1>1. Len(frames) \in DOMAIN frames /\ FrameOK(p, top)
    BY TopFrame
  <1>2. top = [function |-> top.function, pc |-> top.pc, turn |-> top.turn,
               env |-> top.env, invocation |-> top.invocation]
    BY <1>1 DEF FrameOK
  <1>3. frame = [function |-> top.function, pc |-> top.pc, turn |-> top.turn + 1, env |-> top.env,
                 invocation |-> top.invocation]
    <2> HIDE DEF top
    <2> QED BY <1>2
  <1>4. [frames EXCEPT ![Len(frames)].turn = @ + 1] = [frames EXCEPT ![Len(frames)] = frame]
    BY <1>1
  <1>5. /\ top.function \in FunctionNames(p) /\ top.pc \in 1..Len(FunctionOf(p, top.function).ops) + 1
        /\ top.turn + 1 \in Nat \ {0}
    BY <1>1 DEF FrameOK
  <1>6. EnvTyped(top.env, FunctionOf(p, top.function), top.pc, vals)
    BY <1>1 DEF BindingsOK
  <1> HIDE DEF top, frame
  <1>7. /\ frame.function = top.function /\ frame.pc = top.pc /\ frame.turn = top.turn + 1
        /\ frame.env = top.env /\ frame.invocation = top.invocation
    BY <1>3
  <1>8. FrameOK(p, frame)
    BY <1>3, <1>5, <1>7 DEF FrameOK
  <1>9. EnvTyped(frame.env, FunctionOf(p, frame.function), frame.pc, vals)
    BY <1>6, <1>7
  <1>10. frame.function = frames[Len(frames)].function
    BY <1>7 DEF top
  <1>11. \A name : AtCallOf(p, top, name) => AtCallOf(p, frame, name)
    BY <1>7 DEF AtCallOf
  <1> DEFINE new == [frames EXCEPT ![Len(frames)] = frame]
  <1>12. FramesOK(p, new) /\ BindingsOK(p, new, vals) /\ new # <<>> /\ new[Len(new)] = frame
    BY <1>8, <1>9, <1>10, ReplaceTop
  <1> HIDE DEF new
  <1>13. \A name : AtCallOf(p, frames[Len(frames)], name) => AtCallOf(p, new[Len(new)], name)
    BY <1>11, <1>12 DEF top
  <1> QED BY <1>4, <1>12, <1>13 DEF new

\* A call puts a frame on the stack.
LEMMA PushFrame ==
  ASSUME NEW p, NEW frames, FramesOK(p, frames), NEW vals, BindingsOK(p, frames, vals),
         NEW frame, FrameOK(p, frame), EnvTyped(frame.env, FunctionOf(p, frame.function), frame.pc, vals),
         frames # <<>> => AtCallOf(p, frames[Len(frames)], frame.function)
  PROVE  LET new == Append(frames, frame) IN
         FramesOK(p, new) /\ BindingsOK(p, new, vals) /\ new # <<>>
  <1> DEFINE new == Append(frames, frame)
  <1>1. IsList(frames) /\ Len(frames) \in Nat /\ DOMAIN frames = 1..Len(frames)
    BY ListSeq DEF FramesOK
  <1>2. /\ IsList(new) /\ Len(new) = Len(frames) + 1 /\ DOMAIN new = 1..(Len(frames) + 1)
        /\ \A i \in 1..Len(frames) : new[i] = frames[i]
        /\ new[Len(frames) + 1] = frame
    BY <1>1, AppendList
  <1> HIDE DEF new
  <1>3. \A n \in DOMAIN new : n \in DOMAIN frames \/ n = Len(frames) + 1
    BY <1>1, <1>2
  <1>4. \A n \in DOMAIN new : FrameOK(p, new[n])
    BY <1>1, <1>2, <1>3 DEF FramesOK
  <1>5. ASSUME NEW n \in 1..(Len(new) - 1) PROVE AtCallOf(p, new[n], new[n + 1].function)
    <2>1. n \in 1..Len(frames) /\ new[n] = frames[n]
      BY <1>1, <1>2
    <2>2. CASE n = Len(frames)
      <3>1. new[n + 1] = frame /\ new[n] = frames[Len(frames)] /\ frames # <<>>
        BY <1>1, <1>2, <2>1, <2>2
      <3> QED BY <3>1
    <2>3. CASE n # Len(frames)
      <3>0. Len(frames) \in Nat /\ n \in Int
        BY <1>1, <1>2
      <3>1. n \in 1..(Len(frames) - 1) /\ n + 1 \in 1..Len(frames)
        BY <2>1, <2>3, <3>0
      <3>2. new[n + 1] = frames[n + 1]
        BY <1>2, <3>1
      <3>3. AtCallOf(p, frames[n], frames[n + 1].function)
        BY <3>1 DEF FramesOK
      <3> QED BY <2>1, <3>2, <3>3
    <2> QED BY <2>2, <2>3
  <1>6. FramesOK(p, new)
    BY <1>2, <1>4, <1>5 DEF FramesOK
  <1>7. BindingsOK(p, new, vals)
    BY <1>1, <1>2, <1>3 DEF BindingsOK
  <1>8. new # <<>>
    BY <1>1, <1>2
  <1> QED BY <1>6, <1>7, <1>8 DEF new

\* A return takes the running frame off the stack.
LEMMA PopFrame ==
  ASSUME NEW p, NEW frames, FramesOK(p, frames), NEW vals, BindingsOK(p, frames, vals), Len(frames) > 1
  PROVE  LET new == Front(frames) IN
         /\ FramesOK(p, new) /\ BindingsOK(p, new, vals) /\ new # <<>>
         /\ Len(new) = Len(frames) - 1 /\ new[Len(new)] = frames[Len(frames) - 1]
         /\ AtCallOf(p, new[Len(new)], frames[Len(frames)].function)
  <1> DEFINE new == Front(frames)
             n == Len(frames)
  <1>1. frames \in Seq(ToSet(frames)) /\ n \in Nat /\ DOMAIN frames = 1..n
    BY ListSeq DEF FramesOK
  <1>2. /\ new \in Seq(ToSet(frames)) /\ Len(new) = n - 1
        /\ \A i \in 1..(n - 1) : new[i] = frames[i]
    <2>1. 1 \in 1..(n + 1) /\ n - 1 \in (1 - 1)..n
      BY <1>1
    <2>2. new = SubSeq(frames, 1, n - 1)
      BY DEF Front
    <2> HIDE DEF new
    <2> QED BY <1>1, <2>1, <2>2, SubSeqProperties
  <1> HIDE DEF new
  <1>3. IsList(new) /\ DOMAIN new = 1..(n - 1)
    BY <1>2, SeqList, ListSeq
  <1>4. \A i \in DOMAIN new : i \in DOMAIN frames /\ new[i] = frames[i]
    BY <1>1, <1>2, <1>3
  <1>5. ASSUME NEW i \in 1..(Len(new) - 1) PROVE AtCallOf(p, new[i], new[i + 1].function)
    <2>1. i \in 1..(n - 1) /\ i + 1 \in 1..(n - 1)
      BY <1>1, <1>2
    <2>2. AtCallOf(p, frames[i], frames[i + 1].function)
      BY <2>1 DEF FramesOK
    <2> QED BY <1>2, <2>1, <2>2
  <1>6. FramesOK(p, new)
    BY <1>3, <1>4, <1>5 DEF FramesOK
  <1>7. BindingsOK(p, new, vals)
    BY <1>4 DEF BindingsOK
  <1>8. n - 1 \in 1..(n - 1) /\ n - 1 + 1 = n
    BY <1>1
  <1>9. new # <<>> /\ new[Len(new)] = frames[n - 1]
    BY <1>2, <1>3, <1>8
  <1>10. AtCallOf(p, frames[n - 1], frames[n].function)
    <2>1. AtCallOf(p, frames[n - 1], frames[n - 1 + 1].function)
      BY <1>8 DEF FramesOK
    <2> QED BY <1>8, <2>1
  <1> QED BY <1>2, <1>6, <1>7, <1>9, <1>10 DEF new

-----------------------------------------------------------------------------
(* The steps of inline() *)

\* What a verified call agrees on with the function it calls.
LEMMA CallTypes ==
  ASSUME NEW p, NEW f, NEW op, CallVerified(p, f, op)
  PROVE  LET callee == FunctionOf(p, op.attributes.callee) IN
         /\ op.attributes.callee \in FunctionNames(p) /\ op.attributes.repeat \in Nat \ {0}
         /\ DOMAIN op.inputs = DOMAIN callee.inputs
         /\ \A i \in DOMAIN callee.inputs : callee.inputs[i].type = TypeOf(f, op.inputs[i])
         /\ DOMAIN op.outputs = DOMAIN callee.outputs
         /\ \A i \in DOMAIN callee.outputs : op.outputs[i].type = TypeOf(callee, callee.outputs[i])
         /\ op.attributes.repeat > 1 =>
              /\ DOMAIN callee.inputs = DOMAIN callee.outputs
              /\ \A i \in DOMAIN callee.inputs : callee.inputs[i].type = TypeOf(callee, callee.outputs[i])
  <1> DEFINE callee == FunctionOf(p, op.attributes.callee)
  <1>1. /\ op.attributes.callee \in FunctionNames(p) /\ op.attributes.repeat \in Nat \ {0}
        /\ InputTypes(f, op) = Types(callee.inputs)
        /\ Types(op.outputs) = OutputTypes(callee)
        /\ op.attributes.repeat > 1 => Types(callee.inputs) = OutputTypes(callee)
    BY DEF CallVerified
  <1> HIDE DEF callee
  <1>2. /\ DOMAIN InputTypes(f, op) = DOMAIN op.inputs
        /\ \A i \in DOMAIN op.inputs : InputTypes(f, op)[i] = TypeOf(f, op.inputs[i])
    BY DEF InputTypes
  <1>3. /\ DOMAIN Types(callee.inputs) = DOMAIN callee.inputs
        /\ \A i \in DOMAIN callee.inputs : Types(callee.inputs)[i] = callee.inputs[i].type
    BY DEF Types
  <1>4. /\ DOMAIN Types(op.outputs) = DOMAIN op.outputs
        /\ \A i \in DOMAIN op.outputs : Types(op.outputs)[i] = op.outputs[i].type
    BY DEF Types
  <1>5. /\ DOMAIN OutputTypes(callee) = DOMAIN callee.outputs
        /\ \A i \in DOMAIN callee.outputs : OutputTypes(callee)[i] = TypeOf(callee, callee.outputs[i])
    BY DEF OutputTypes
  <1>6. /\ DOMAIN op.inputs = DOMAIN callee.inputs
        /\ \A i \in DOMAIN callee.inputs : callee.inputs[i].type = TypeOf(f, op.inputs[i])
    BY <1>1, <1>2, <1>3
  <1>7. /\ DOMAIN op.outputs = DOMAIN callee.outputs
        /\ \A i \in DOMAIN callee.outputs : op.outputs[i].type = TypeOf(callee, callee.outputs[i])
    BY <1>1, <1>4, <1>5
  <1>8. op.attributes.repeat > 1 =>
          /\ DOMAIN callee.inputs = DOMAIN callee.outputs
          /\ \A i \in DOMAIN callee.inputs : callee.inputs[i].type = TypeOf(callee, callee.outputs[i])
    BY <1>1, <1>3, <1>5
  <1> QED BY <1>1, <1>6, <1>7, <1>8 DEF callee

\* What the invariant says of the running frame.
LEMMA RunningFrame ==
  ASSUME ScheduleInv, Inlining
  PROVE  /\ IsProgram(program) /\ ProgramVerified(program)
         /\ FramesOK(program, stack) /\ stack # <<>> /\ BindingsOK(program, stack, values)
         /\ Len(stack) \in Nat \ {0} /\ Len(stack) \in DOMAIN stack
         /\ FrameOK(program, Frame)
         /\ IsFunction(Running) /\ DefinedBeforeUse(Running) /\ SingleAssignment(Running)
         /\ FunctionVerified(program, Running)
         /\ EnvTyped(Frame.env, Running, Frame.pc, values)
  <1>1. IsProgram(program) /\ ProgramVerified(program) /\ stack # <<>>
    BY ScheduleAssumption DEF ScheduleInv, ProgressInv, Inlining
  <1>2. FramesOK(program, stack) /\ BindingsOK(program, stack, values)
    BY BindingsAreTyped DEF ScheduleInv, FramesInv
  <1>3. /\ Len(stack) \in Nat \ {0} /\ Len(stack) \in DOMAIN stack
        /\ FrameOK(program, stack[Len(stack)])
        /\ LET f == FunctionOf(program, stack[Len(stack)].function) IN
           IsFunction(f) /\ DefinedBeforeUse(f) /\ SingleAssignment(f) /\ FunctionVerified(program, f)
    BY <1>1, <1>2, TopFrame
  <1>4. EnvTyped(Frame.env, Running, Frame.pc, values)
    BY <1>2, <1>3 DEF BindingsOK, Frame, Running
  <1> QED BY <1>1, <1>2, <1>3, <1>4 DEF Frame, Running

\* A called function starts at its first operation, its inputs bound.
LEMMA NewFrameTyped ==
  ASSUME IsProgram(program), ProgramVerified(program), NEW name \in FunctionNames(program),
         NEW numbers, NEW vals,
         \A i \in DOMAIN FunctionOf(program, name).inputs :
           numbers[i] \in DOMAIN vals /\ vals[numbers[i]].type = FunctionOf(program, name).inputs[i].type
  PROVE  LET frame == NewFrame(name, numbers) IN
         /\ FrameOK(program, frame) /\ frame.function = name
         /\ EnvTyped(frame.env, FunctionOf(program, frame.function), frame.pc, vals)
  <1> DEFINE callee == FunctionOf(program, name)
             env == Bind(NamesOf(callee.inputs), numbers)
             frame == NewFrame(name, numbers)
  <1>1. IsFunction(callee) /\ SingleAssignment(callee)
    BY VerifiedFunctions
  <1>2. frame = FrameOf(name, 1, 1, env, Len(invocations) + 1)
    BY DEF NewFrame, FrameOf
  <1>3. EnvTyped(env, callee, 1, vals)
    <2> HIDE DEF env
    <2>1. \A i \in DOMAIN callee.inputs : numbers[i] \in DOMAIN vals /\ vals[numbers[i]].type = callee.inputs[i].type
      OBVIOUS
    <2> HIDE DEF callee
    <2> QED BY <1>1, <2>1, BindTyped DEF env
  <1> HIDE DEF frame, env
  <1>4. /\ frame.function = name /\ frame.pc = 1 /\ frame.turn = 1 /\ frame.env = env
        /\ frame = FrameOf(frame.function, frame.pc, frame.turn, frame.env, frame.invocation)
    BY <1>2 DEF FrameOf
  <1>5. Len(callee.ops) \in Nat
    BY <1>1, ListSeq DEF IsFunction
  <1>6. FrameOK(program, frame)
    BY <1>4, <1>5 DEF FrameOK, FrameOf
  <1>7. EnvTyped(frame.env, FunctionOf(program, frame.function), frame.pc, vals)
    BY <1>3, <1>4
  <1> QED BY <1>4, <1>6, <1>7 DEF frame

\* The operands of an operation are bound to values of their types.
LEMMA OperandsTyped ==
  ASSUME ScheduleInv, InBody
  PROVE  /\ DOMAIN Numbers(Current.inputs) = DOMAIN Current.inputs
         /\ \A i \in DOMAIN Current.inputs :
              /\ Numbers(Current.inputs)[i] \in DOMAIN values
              /\ values[Numbers(Current.inputs)[i]].type = TypeOf(Running, Current.inputs[i])
  <1>1. /\ DefinedBeforeUse(Running) /\ EnvTyped(Frame.env, Running, Frame.pc, values)
        /\ Frame.pc \in DOMAIN Running.ops
    BY RunningFrame DEF InBody
  <1>2. ToSet(Current.inputs) \subseteq Ids(DefinedBefore(Running, Frame.pc))
    BY <1>1 DEF DefinedBeforeUse, Current
  <1>3. ASSUME NEW i \in DOMAIN Current.inputs
        PROVE  /\ Frame.env[Current.inputs[i]] \in DOMAIN values
               /\ values[Frame.env[Current.inputs[i]]].type = TypeOf(Running, Current.inputs[i])
    <2>1. Current.inputs[i] \in ToSet(Current.inputs)
      BY DEF ToSet
    <2>2. Current.inputs[i] \in DOMAIN Frame.env
      BY <1>1, <1>2, <2>1 DEF EnvTyped
    <2> QED BY <1>1, <2>2 DEF EnvTyped
  <1> QED BY <1>3 DEF Numbers

\* So are the results of a function that has come to its end.
LEMMA ResultsTyped ==
  ASSUME ScheduleInv, Inlining, Frame.pc > Len(Running.ops)
  PROVE  /\ DOMAIN Numbers(Running.outputs) = DOMAIN Running.outputs
         /\ \A i \in DOMAIN Running.outputs :
              /\ Numbers(Running.outputs)[i] \in DOMAIN values
              /\ values[Numbers(Running.outputs)[i]].type = TypeOf(Running, Running.outputs[i])
  <1>1. /\ DefinedBeforeUse(Running) /\ EnvTyped(Frame.env, Running, Frame.pc, values)
        /\ FrameOK(program, Frame) /\ IsFunction(Running)
    BY RunningFrame
  <1>2. Frame.pc = Len(Running.ops) + 1
    <2>1. Len(Running.ops) \in Nat
      BY <1>1, ListSeq DEF IsFunction
    <2>2. Frame.pc \in 1..Len(Running.ops) + 1
      BY <1>1 DEF FrameOK, Running
    <2> QED BY <2>1, <2>2
  <1>3. ToSet(Running.outputs) \subseteq Ids(DefinedBefore(Running, Frame.pc))
    BY <1>1, <1>2 DEF DefinedBeforeUse, Defined
  <1>4. ASSUME NEW i \in DOMAIN Running.outputs
        PROVE  /\ Frame.env[Running.outputs[i]] \in DOMAIN values
               /\ values[Frame.env[Running.outputs[i]]].type = TypeOf(Running, Running.outputs[i])
    <2>1. Running.outputs[i] \in ToSet(Running.outputs)
      BY DEF ToSet
    <2>2. Running.outputs[i] \in DOMAIN Frame.env
      BY <1>1, <1>3, <2>1 DEF EnvTyped
    <2> QED BY <1>1, <2>2 DEF EnvTyped
  <1> QED BY <1>4 DEF Numbers

\* What a step that numbers nothing keeps.
LEMMA NothingNumbered ==
  ASSUME ScheduleInv, UNCHANGED <<program, values, ops, shared, outputs>>,
         stack' # <<>> => stack # <<>>
  PROVE  ValuesInv' /\ ScheduleVerified'
  <1>1. ValuesInv /\ ScheduleVerified
    BY DEF ScheduleInv
  <1>2. ValuesInv'
    BY <1>1 DEF ValuesInv, Entry
  <1>3. ScheduleVerified'
    BY <1>1 DEF ScheduleVerified
  <1> QED BY <1>2, <1>3

\* The stack of the next state.
LEMMA NextStack ==
  ASSUME FramesOK(program, stack'), BindingsOK(program, stack', values'), program' = program
  PROVE  FramesInv' /\ BindingsTyped'
  <1>1. FramesInv'
    BY DEF FramesInv
  <1>2. BindingsTyped' <=> BindingsOK(program, stack, values)'
    BY DEF BindingsTyped, BindingsOK, EnvTyped
  <1>3. BindingsOK(program, stack, values)' <=> BindingsOK(program, stack', values')
    OBVIOUS
  <1> QED BY <1>1, <1>2, <1>3

\* A program that is not compilable is refused.
LEMMA RefuseStep ==
  ASSUME ScheduleInv, Refuse
  PROVE  ScheduleInv'
  <1>1. UNCHANGED <<program, values, ops, invocations, shared, stack, outputs>> /\ progress' = "refused"
    BY DEF Refuse
  <1>2. ProgressInv'
    BY <1>1 DEF ScheduleInv, ProgressInv
  <1>3. ValuesInv' /\ ScheduleVerified'
    BY <1>1, NothingNumbered
  <1>4. FramesOK(program, stack) /\ BindingsOK(program, stack, values)
    BY BindingsAreTyped DEF ScheduleInv, FramesInv
  <1>5. FramesInv' /\ BindingsTyped'
    BY <1>1, <1>4, NextStack
  <1> QED BY <1>2, <1>3, <1>5 DEF ScheduleInv

\* A call starts the called function on the operands.
LEMMA InlineCallStep ==
  ASSUME ScheduleInv, InlineCall
  PROVE  ScheduleInv'
  <1> DEFINE name == Current.attributes.callee
             callee == FunctionOf(program, name)
             frame == NewFrame(name, Numbers(Current.inputs))
  <1>1. /\ InBody /\ Current.opcode = "call" /\ Inlining
        /\ UNCHANGED <<program, progress, values, ops, shared, outputs>>
        /\ stack' = Append(stack, frame)
    BY DEF InlineCall, InBody
  <1>2. /\ IsProgram(program) /\ ProgramVerified(program)
        /\ FramesOK(program, stack) /\ stack # <<>> /\ BindingsOK(program, stack, values)
        /\ FunctionVerified(program, Running)
    BY <1>1, RunningFrame
  <1>3. Frame.pc \in Calls(Running)
    BY <1>1 DEF InBody, Calls, Current
  <1>4. CallVerified(program, Running, Current)
    BY <1>1, <1>2, <1>3 DEF FunctionVerified, InBody, Current
  <1>5. /\ name \in FunctionNames(program)
        /\ DOMAIN Current.inputs = DOMAIN callee.inputs
        /\ \A i \in DOMAIN callee.inputs : callee.inputs[i].type = TypeOf(Running, Current.inputs[i])
    BY <1>4, CallTypes
  <1>6. \A i \in DOMAIN callee.inputs :
          /\ Numbers(Current.inputs)[i] \in DOMAIN values
          /\ values[Numbers(Current.inputs)[i]].type = callee.inputs[i].type
    <2> HIDE DEF callee
    <2> QED BY <1>1, <1>5, OperandsTyped
  <1>7. /\ FrameOK(program, frame) /\ frame.function = name
        /\ EnvTyped(frame.env, FunctionOf(program, frame.function), frame.pc, values)
    <2> HIDE DEF name
    <2> QED BY <1>2, <1>5, <1>6, NewFrameTyped
  <1> HIDE DEF name, callee, frame
  <1>8. AtCallOf(program, stack[Len(stack)], frame.function)
    BY <1>3, <1>7 DEF AtCallOf, Frame, Running, Current, name
  <1>9. FramesOK(program, stack') /\ BindingsOK(program, stack', values)
    BY <1>1, <1>2, <1>7, <1>8, PushFrame
  <1>10. FramesInv' /\ BindingsTyped'
    BY <1>1, <1>9, NextStack
  <1>11. ValuesInv' /\ ScheduleVerified'
    BY <1>1, <1>2, NothingNumbered
  <1>12. ProgressInv'
    BY <1>1, <1>2 DEF ScheduleInv, ProgressInv, Inlining
  <1> QED BY <1>10, <1>11, <1>12 DEF ScheduleInv

\* The frame that called the running one.
LEMMA CallingFrame ==
  ASSUME ScheduleInv, Inlining, Len(stack) > 1
  PROVE  LET below == Front(stack) IN
         /\ FramesOK(program, below) /\ BindingsOK(program, below, values) /\ below # <<>>
         /\ Len(below) = Len(stack) - 1 /\ below[Len(below)] = Caller
         /\ FrameOK(program, Caller)
         /\ AtCallOf(program, Caller, Frame.function)
         /\ Caller.pc \in DOMAIN FunctionOf(program, Caller.function).ops
         /\ EnvTyped(Caller.env, FunctionOf(program, Caller.function), Caller.pc, values)
         /\ IsFunction(FunctionOf(program, Caller.function))
         /\ SingleAssignment(FunctionOf(program, Caller.function))
         /\ CallVerified(program, FunctionOf(program, Caller.function), Call)
         /\ Call.attributes.callee = Frame.function
  <1> DEFINE below == Front(stack)
             f == FunctionOf(program, Caller.function)
  <1>1. /\ IsProgram(program) /\ ProgramVerified(program)
        /\ FramesOK(program, stack) /\ BindingsOK(program, stack, values)
    BY RunningFrame
  <1>2. /\ FramesOK(program, below) /\ BindingsOK(program, below, values) /\ below # <<>>
        /\ Len(below) = Len(stack) - 1 /\ below[Len(below)] = Caller
        /\ AtCallOf(program, Caller, Frame.function)
    BY <1>1, PopFrame DEF Caller, Frame
  <1> HIDE DEF below
  <1>3. /\ Len(below) \in DOMAIN below /\ FrameOK(program, Caller)
        /\ IsFunction(f) /\ SingleAssignment(f) /\ FunctionVerified(program, f)
    <2>1. /\ Len(below) \in DOMAIN below /\ FrameOK(program, below[Len(below)])
          /\ LET g == FunctionOf(program, below[Len(below)].function) IN
             IsFunction(g) /\ SingleAssignment(g) /\ FunctionVerified(program, g)
      BY <1>1, <1>2, TopFrame
    <2> QED BY <1>2, <2>1
  <1>4. EnvTyped(Caller.env, f, Caller.pc, values)
    BY <1>2, <1>3 DEF BindingsOK
  <1>5. /\ Caller.pc \in Calls(f) /\ f.ops[Caller.pc].attributes.callee = Frame.function
    BY <1>2 DEF AtCallOf
  <1>6. Caller.pc \in DOMAIN f.ops
    BY <1>5 DEF Calls
  <1>7. CallVerified(program, f, Call)
    BY <1>3, <1>5, <1>6 DEF FunctionVerified, Call
  <1> QED BY <1>2, <1>3, <1>4, <1>5, <1>6, <1>7 DEF below, Call

\* The next repeat starts the same function on its results.
LEMMA RepeatCallStep ==
  ASSUME ScheduleInv, RepeatCall
  PROVE  ScheduleInv'
  <1> DEFINE frame == NewFrame(Frame.function, Numbers(Running.outputs))
             below == Front(stack)
             turned == [below EXCEPT ![Len(below)].turn = @ + 1]
  <1>1. /\ Inlining /\ Frame.pc > Len(Running.ops) /\ Len(stack) > 1 /\ MoreTurns
        /\ UNCHANGED <<program, progress, values, ops, shared, outputs>>
        /\ stack' = Append([below EXCEPT ![Len(stack) - 1].turn = @ + 1], frame)
    BY DEF RepeatCall
  <1>2. IsProgram(program) /\ ProgramVerified(program) /\ stack # <<>> /\ FrameOK(program, Frame)
    BY <1>1, RunningFrame
  <1>3. /\ FramesOK(program, below) /\ BindingsOK(program, below, values) /\ below # <<>>
        /\ Len(below) = Len(stack) - 1 /\ below[Len(below)] = Caller
        /\ FrameOK(program, Caller)
        /\ AtCallOf(program, Caller, Frame.function)
        /\ CallVerified(program, FunctionOf(program, Caller.function), Call)
        /\ Call.attributes.callee = Frame.function
    BY <1>1, CallingFrame
  <1>4. stack' = Append(turned, frame)
    BY <1>1, <1>3
  <1> HIDE DEF below
  <1>5. Call.attributes.repeat > 1 /\ Call.attributes.repeat \in Nat
    <2>1. Caller.turn \in Nat \ {0} /\ Caller.turn < Call.attributes.repeat
      BY <1>1, <1>3 DEF FrameOK, MoreTurns
    <2>2. Call.attributes.repeat \in Nat
      BY <1>3, CallTypes
    <2> QED BY <2>1, <2>2
  <1>6. \A i \in DOMAIN Running.inputs :
          /\ Numbers(Running.outputs)[i] \in DOMAIN values
          /\ values[Numbers(Running.outputs)[i]].type = Running.inputs[i].type
    <2> DEFINE f == FunctionOf(program, Caller.function)
               callee == FunctionOf(program, Call.attributes.callee)
    <2>0. /\ DOMAIN callee.inputs = DOMAIN callee.outputs
          /\ \A i \in DOMAIN callee.inputs : callee.inputs[i].type = TypeOf(callee, callee.outputs[i])
      <3>1. CallVerified(program, f, Call)
        BY <1>3
      <3> HIDE DEF f
      <3> QED BY <1>5, <3>1, CallTypes
    <2>1. /\ DOMAIN Running.inputs = DOMAIN Running.outputs
          /\ \A i \in DOMAIN Running.inputs : Running.inputs[i].type = TypeOf(Running, Running.outputs[i])
      <3>1. Running = callee
        BY <1>3 DEF Running
      <3> HIDE DEF callee
      <3> QED BY <2>0, <3>1
    <2> QED BY <1>1, <2>1, ResultsTyped
  <1>7. /\ FrameOK(program, frame) /\ frame.function = Frame.function
        /\ EnvTyped(frame.env, FunctionOf(program, frame.function), frame.pc, values)
    <2>1. Frame.function \in FunctionNames(program)
      BY <1>2 DEF FrameOK
    <2>2. \A i \in DOMAIN FunctionOf(program, Frame.function).inputs :
            /\ Numbers(Running.outputs)[i] \in DOMAIN values
            /\ values[Numbers(Running.outputs)[i]].type = FunctionOf(program, Frame.function).inputs[i].type
      BY <1>6 DEF Running
    <2> QED BY <1>2, <2>1, <2>2, NewFrameTyped
  <1> HIDE DEF frame
  <1>8. /\ FramesOK(program, turned) /\ BindingsOK(program, turned, values) /\ turned # <<>>
        /\ AtCallOf(program, turned[Len(turned)], Frame.function)
    BY <1>2, <1>3, TurnTop
  <1> HIDE DEF turned
  <1>9. FramesOK(program, stack') /\ BindingsOK(program, stack', values)
    BY <1>4, <1>7, <1>8, PushFrame
  <1>10. FramesInv' /\ BindingsTyped'
    BY <1>1, <1>9, NextStack
  <1>11. ValuesInv' /\ ScheduleVerified'
    BY <1>1, <1>2, NothingNumbered
  <1>12. ProgressInv'
    BY <1>1, <1>2 DEF ScheduleInv, ProgressInv, Inlining
  <1> QED BY <1>10, <1>11, <1>12 DEF ScheduleInv

\* A return binds the outputs of the call to the results.
LEMMA ReturnFromCallStep ==
  ASSUME ScheduleInv, ReturnFromCall
  PROVE  ScheduleInv'
  <1> DEFINE below == Front(stack)
             f == FunctionOf(program, Caller.function)
             env == ExtendEnv(Caller.env, NamesOf(Call.outputs), Numbers(Running.outputs))
  <1>1. /\ Inlining /\ Frame.pc > Len(Running.ops) /\ Len(stack) > 1
        /\ UNCHANGED <<program, progress, values, ops, shared, outputs>>
        /\ stack' = [below EXCEPT ![Len(stack) - 1] = Advance(@, env)]
    BY DEF ReturnFromCall
  <1>2. IsProgram(program) /\ ProgramVerified(program) /\ stack # <<>>
    BY <1>1, RunningFrame
  <1>3. /\ FramesOK(program, below) /\ BindingsOK(program, below, values) /\ below # <<>>
        /\ Len(below) = Len(stack) - 1 /\ below[Len(below)] = Caller
        /\ Caller.pc \in DOMAIN f.ops
        /\ EnvTyped(Caller.env, f, Caller.pc, values)
        /\ IsFunction(f) /\ SingleAssignment(f)
        /\ CallVerified(program, f, Call)
        /\ Call.attributes.callee = Frame.function
    BY <1>1, CallingFrame
  <1>4. stack' = [below EXCEPT ![Len(below)] = Advance(@, env)]
    BY <1>1, <1>3
  <1>5. \A i \in DOMAIN Call.outputs :
          /\ Numbers(Running.outputs)[i] \in DOMAIN values
          /\ values[Numbers(Running.outputs)[i]].type = Call.outputs[i].type
    <2>1. /\ DOMAIN Call.outputs = DOMAIN Running.outputs
          /\ \A i \in DOMAIN Running.outputs : Call.outputs[i].type = TypeOf(Running, Running.outputs[i])
      BY <1>3, CallTypes DEF Running
    <2> QED BY <1>1, <2>1, ResultsTyped
  <1> HIDE DEF below, f
  <1>6. EnvTyped(env, f, Caller.pc + 1, values)
    <2>1. Call = f.ops[Caller.pc]
      BY DEF Call, f
    <2> QED BY <1>3, <1>5, <2>1, ExtendTyped
  <1> HIDE DEF env
  <1>7. FramesOK(program, stack') /\ BindingsOK(program, stack', values) /\ stack' # <<>>
    <2>1. below[Len(below)].pc \in DOMAIN FunctionOf(program, below[Len(below)].function).ops
      BY <1>3 DEF f
    <2>2. EnvTyped(env, FunctionOf(program, below[Len(below)].function), below[Len(below)].pc + 1, values)
      BY <1>3, <1>6 DEF f
    <2>3. LET new == [below EXCEPT ![Len(below)] = Advance(@, env)] IN
          FramesOK(program, new) /\ BindingsOK(program, new, values) /\ new # <<>>
      <3>1. FramesOK(program, below) /\ BindingsOK(program, below, values) /\ below # <<>>
        BY <1>3
      <3>2. IsProgram(program) /\ ProgramVerified(program)
        BY <1>2
      <3> QED BY <2>1, <2>2, <3>1, <3>2, AdvanceTop
    <2> QED BY <1>4, <2>3
  <1>8. FramesInv' /\ BindingsTyped'
    BY <1>1, <1>7, NextStack
  <1>9. ValuesInv' /\ ScheduleVerified'
    BY <1>1, <1>2, NothingNumbered
  <1>10. ProgressInv'
    BY <1>1, <1>2 DEF ScheduleInv, ProgressInv, Inlining
  <1> QED BY <1>8, <1>9, <1>10 DEF ScheduleInv

\* The entry function returns the numbers of the outputs.
LEMMA FinishStep ==
  ASSUME ScheduleInv, Finish
  PROVE  ScheduleInv'
  <1>1. /\ Inlining /\ Frame.pc > Len(Running.ops)
        /\ UNCHANGED <<program, values, ops, shared>>
        /\ outputs' = Numbers(Running.outputs) /\ stack' = <<>> /\ progress' = "scheduled"
    BY DEF Finish
  <1>2. \A i \in DOMAIN outputs' : outputs'[i] \in DOMAIN values
    <2>1. \A i \in DOMAIN Running.outputs : Numbers(Running.outputs)[i] \in DOMAIN values
      BY <1>1, ResultsTyped
    <2>2. DOMAIN Numbers(Running.outputs) = DOMAIN Running.outputs
      BY <1>1, ResultsTyped
    <2> QED BY <1>1, <2>1, <2>2
  <1>3. ValuesInv'
    BY <1>1 DEF ScheduleInv, ValuesInv
  <1>4. ScheduleVerified'
    <2>1. ScheduleVerified
      BY DEF ScheduleInv
    <2> QED BY <1>1, <1>2, <2>1 DEF ScheduleVerified
  <1>5. FramesInv' /\ BindingsTyped'
    <2>1. IsList(<<>>) /\ DOMAIN <<>> = {}
      <3>1. <<>> \in Seq({}) /\ Len(<<>>) = 0
        BY EmptySeq
      <3>2. IsList(<<>>)
        BY <3>1, SeqList
      <3> QED BY <3>1, <3>2, ListSeq
    <2>2. Len(<<>>) = 0 /\ 1..(0 - 1) = {}
      OBVIOUS
    <2>3. FramesOK(program', <<>>)
      BY <2>1, <2>2 DEF FramesOK
    <2> QED BY <1>1, <2>1, <2>3 DEF FramesInv, BindingsTyped
  <1>6. ProgressInv'
    BY <1>1 DEF ScheduleInv, ProgressInv
  <1> QED BY <1>3, <1>4, <1>5, <1>6 DEF ScheduleInv

\* A function on 1..n is a list of n elements.
LEMMA IndexedList ==
  ASSUME NEW n \in Nat, NEW s, s = [i \in 1..n |-> s[i]]
  PROVE  IsList(s) /\ Len(s) = n /\ DOMAIN s = 1..n
  <1>1. DOMAIN s = 1..n
    OBVIOUS
  <1>2. \A i \in 1..n : s[i] \in {s[j] : j \in 1..n}
    OBVIOUS
  <1>3. s \in [1..n -> {s[j] : j \in 1..n}]
    BY <1>2
  <1>4. s \in Seq({s[j] : j \in 1..n})
    BY <1>3, SeqDef
  <1>5. Len(s) \in Nat /\ DOMAIN s = 1..Len(s)
    BY <1>4, LenProperties
  <1>6. Len(s) = n
    BY <1>1, <1>5
  <1> QED BY <1>1, <1>4, <1>6, SeqList

\* The empty list.
LEMMA EmptyList == IsList(<<>>) /\ Len(<<>>) = 0 /\ DOMAIN <<>> = {}
  <1>1. <<>> \in Seq({}) /\ Len(<<>>) = 0
    BY EmptySeq
  <1>2. IsList(<<>>)
    BY <1>1, SeqList
  <1> QED BY <1>1, <1>2, ListSeq

\* More values leave the frames typed.
LEMMA GrownBindings ==
  ASSUME NEW p, NEW frames, NEW vals, NEW more, BindingsOK(p, frames, vals),
         \A v \in DOMAIN vals : v \in DOMAIN more /\ more[v] = vals[v]
  PROVE  BindingsOK(p, frames, more)
  BY GrownTyped DEF BindingsOK

\* The value of a declared state is a state.
LEMMA StateIsValue ==
  ASSUME ScheduleInv, IsProgram(program), stack # <<>>, NEW s \in StateNames(program)
  PROVE  StateValue(s) \in DOMAIN values /\ values[StateValue(s)].storage = "state"
  <1> DEFINE at == CHOOSE i \in DOMAIN program.states : SortedStates(program)[i].name = s
  <1>1. at \in DOMAIN program.states
    BY StatePlaces
  <1>2. StateValue(s) = Len(Entry.inputs) + at
    BY DEF StateValue
  <1> HIDE DEF at
  <1> QED BY <1>1, <1>2 DEF ScheduleInv, ValuesInv

\* A constant that is new is numbered.
LEMMA ConstantNumbered ==
  ASSUME ScheduleInv, stack # <<>>, UNCHANGED <<program, ops, outputs>>, NEW type, NEW key, NEW number,
         number = Len(values) + 1, values' = Append(values, Value("constant", type, None, None, key)),
         \A k \in DOMAIN shared' : shared'[k] \in DOMAIN values \cup {number}
  PROVE  /\ ValuesInv' /\ ScheduleVerified'
         /\ number \in DOMAIN values' /\ values'[number].type = type
         /\ \A v \in DOMAIN values : v \in DOMAIN values' /\ values'[v] = values[v]
  <1> DEFINE new == Value("constant", type, None, None, key)
  <1>1. IsList(values) /\ Len(values) \in Nat /\ DOMAIN values = 1..Len(values)
    BY ListSeq DEF ScheduleInv, ValuesInv
  <1>2. /\ IsList(values') /\ DOMAIN values' = 1..(Len(values) + 1)
        /\ \A i \in 1..Len(values) : values'[i] = values[i]
        /\ values'[number] = new
    BY <1>1, AppendList
  <1>3. new.storage = "constant" /\ new.type = type /\ new.producer = 0 /\ new.alias = 0
    BY DEF Value, None
  <1> HIDE DEF new
  <1>4. \A v \in DOMAIN values : v \in DOMAIN values' /\ values'[v] = values[v]
    BY <1>1, <1>2
  <1>5. \A v \in DOMAIN values' : v \in DOMAIN values \/ v = number
    BY <1>1, <1>2
  <1>6. number \in DOMAIN values' /\ values'[number] = new
    BY <1>1, <1>2
  <1>7. ValuesInv /\ ScheduleVerified
    BY DEF ScheduleInv
  <1>8. ValuesInv'
    <2>1. Len(ops) \in Nat
      BY <1>7, ListSeq DEF ValuesInv
    <2>2. IsList(values)' /\ IsList(ops)'
      BY <1>2, <1>7 DEF ValuesInv, IsList
    <2>3. \A v \in DOMAIN values' :
            /\ values'[v].producer \in 0..Len(ops')
            /\ values'[v].storage = "state_alias" => values'[v].alias \in DOMAIN values'
      BY <1>3, <1>4, <1>5, <1>6, <1>7, <2>1 DEF ValuesInv
    <2>4. \A k \in DOMAIN ops' : \A i \in DOMAIN ops'[k].outputs : ops'[k].outputs[i] \in DOMAIN values'
      BY <1>4, <1>7 DEF ValuesInv
    <2>5. \A k \in DOMAIN shared' : shared'[k] \in DOMAIN values'
      BY <1>4, <1>6
    <2>6. Entry' = Entry /\ program' = program
      BY DEF Entry
    <2>7. \A i \in DOMAIN program'.states :
            /\ Len(Entry'.inputs) + i \in DOMAIN values'
            /\ values'[Len(Entry'.inputs) + i].storage = "state"
      BY <1>4, <1>7, <2>6 DEF ValuesInv
    <2> QED BY <2>2, <2>3, <2>4, <2>5, <2>7 DEF ValuesInv
  <1>9. ScheduleVerified'
    <2>1. \A k \in DOMAIN ops' :
            /\ \A i \in DOMAIN ops'[k].inputs :
                 ops'[k].inputs[i] \in DOMAIN values' /\ values'[ops'[k].inputs[i]].producer < k
            /\ \A i \in DOMAIN ops'[k].outputs : values'[ops'[k].outputs[i]].producer = k
      BY <1>4, <1>7 DEF ScheduleVerified, ValuesInv
    <2>2. ASSUME NEW v \in DOMAIN values'
          PROVE  /\ values'[v].storage \in {"state_alias", "temporary"} <=> values'[v].producer # None
                 /\ values'[v].producer # None =>
                      \E i \in DOMAIN ops'[values'[v].producer].outputs :
                        ops'[values'[v].producer].outputs[i] = v
                 /\ IF values'[v].storage = "state_alias"
                      THEN values'[values'[v].alias].storage = "state" ELSE values'[v].alias = None
      <3>1. CASE v = number
        BY <1>3, <1>6, <3>1 DEF None
      <3>2. CASE v \in DOMAIN values
        <4>1. values'[v] = values[v]
          BY <1>4, <3>2
        <4>2. values[v].storage = "state_alias" => values'[values[v].alias] = values[values[v].alias]
          BY <1>4, <1>7, <3>2 DEF ValuesInv
        <4>3. /\ values[v].storage \in {"state_alias", "temporary"} <=> values[v].producer # None
              /\ values[v].producer # None =>
                   \E i \in DOMAIN ops[values[v].producer].outputs :
                     ops[values[v].producer].outputs[i] = v
              /\ IF values[v].storage = "state_alias"
                   THEN values[values[v].alias].storage = "state" ELSE values[v].alias = None
          BY <1>7, <3>2 DEF ScheduleVerified
        <4>4. ops' = ops
          OBVIOUS
        <4> QED BY <4>1, <4>2, <4>3, <4>4
      <3> QED BY <1>5, <2>2, <3>1, <3>2
    <2>3. \A i \in DOMAIN outputs' : outputs'[i] \in DOMAIN values'
      BY <1>4, <1>7 DEF ScheduleVerified
    <2> QED BY <2>1, <2>2, <2>3 DEF ScheduleVerified
  <1> QED BY <1>3, <1>4, <1>6, <1>8, <1>9

\* A constant is bound to its number, new or old.
LEMMA InlineConstantStep ==
  ASSUME ScheduleInv, InlineConstant
  PROVE  ScheduleInv'
  <1> DEFINE key == Identity(Current)
             known == key \in DOMAIN shared
             number == IF known THEN shared[key] ELSE Len(values) + 1
             type == Output(Current)
             env == ExtendEnv(Frame.env, NamesOf(Current.outputs), <<number>>)
  <1>1. InBody /\ Inlining /\ Current.opcode \in {"constant", "constant_ref"}
        /\ UNCHANGED <<program, ops, invocations, outputs>>
    BY DEF InlineConstant, InBody
  <1>2. /\ IsProgram(program) /\ ProgramVerified(program)
        /\ FramesOK(program, stack) /\ stack # <<>> /\ BindingsOK(program, stack, values)
        /\ IsFunction(Running) /\ SingleAssignment(Running) /\ FunctionVerified(program, Running)
        /\ EnvTyped(Frame.env, Running, Frame.pc, values)
        /\ Frame.pc \in DOMAIN Running.ops
    BY <1>1, RunningFrame DEF InBody
  <1>3. ValuesInv /\ ScheduleVerified /\ ProgressInv
    BY DEF ScheduleInv
  <1>4. CASE Conflict(key, type) \/ number > MaxValues
    <2>1. progress' = "refused" /\ UNCHANGED <<values, shared, stack>>
      BY <1>4 DEF InlineConstant
    <2> HIDE DEF key, number, type
    <2>2. FramesInv' /\ BindingsTyped'
      BY <1>1, <1>2, <2>1, NextStack
    <2>3. ValuesInv' /\ ScheduleVerified'
      BY <1>1, <2>1, NothingNumbered
    <2>4. ProgressInv'
      BY <1>1, <1>3, <2>1 DEF ProgressInv
    <2> QED BY <2>2, <2>3, <2>4 DEF ScheduleInv
  <1>5. CASE ~(Conflict(key, type) \/ number > MaxValues)
    <2>1. /\ values' = IF known THEN values ELSE Append(values, Value("constant", type, None, None, key))
          /\ shared' = [k \in DOMAIN shared \cup {key} |-> IF k = key THEN number ELSE shared[k]]
          /\ stack' = Advanced(env) /\ progress' = progress
      BY <1>5 DEF InlineConstant
    <2>2. ~Conflict(key, type)
      BY <1>5
    <2>3. known => number = shared[key]
      OBVIOUS
    <2>4. ~known => number = Len(values) + 1
      OBVIOUS
    <2>5. Current = Running.ops[Frame.pc] /\ DOMAIN Current.outputs = {1} /\ type = Current.outputs[1].type
      <3>1. Current = Running.ops[Frame.pc] /\ type = Current.outputs[1].type
        BY DEF Current, Output
      <3>2. OpVerified(Current, InputTypes(Running, Current), StateOf(program))
        BY <1>1, <1>2, <3>1 DEF FunctionVerified, Calls
      <3>3. Len(Current.outputs) = 1
        BY <1>1, <3>2, VerifiedOps
      <3>4. IsList(Current.outputs)
        BY <1>2, <3>1 DEF IsFunction
      <3>5. DOMAIN Current.outputs = 1..1
        BY <3>3, <3>4, ListSeq
      <3> QED BY <3>1, <3>5
    <2> HIDE DEF key, number, type, env
    <2>6. /\ ValuesInv' /\ ScheduleVerified'
          /\ number \in DOMAIN values' /\ values'[number].type = type
          /\ \A v \in DOMAIN values : v \in DOMAIN values' /\ values'[v] = values[v]
      <3>1. CASE known
        <4>1. values' = values /\ number = shared[key] /\ number \in DOMAIN values
          BY <1>3, <2>1, <2>3, <3>1 DEF ValuesInv
        <4>2. values[number].type = type
          BY <2>2, <3>1, <4>1 DEF Conflict
        <4>3. \A k \in DOMAIN shared' : shared'[k] \in DOMAIN values'
          BY <1>3, <2>1, <4>1 DEF ValuesInv
        <4>4. stack' # <<>> => stack # <<>>
          BY <1>2
        <4>5. Entry' = Entry /\ program' = program /\ ops' = ops /\ outputs' = outputs
          BY <1>1 DEF Entry
        <4>6. ValuesInv'
          BY <1>3, <4>1, <4>3, <4>4, <4>5 DEF ValuesInv
        <4>7. ScheduleVerified'
          BY <1>3, <4>1, <4>5 DEF ScheduleVerified
        <4> QED BY <4>1, <4>2, <4>6, <4>7
      <3>2. CASE ~known
        <4>1. \A k \in DOMAIN shared' : shared'[k] \in DOMAIN values \cup {number}
          BY <1>3, <2>1 DEF ValuesInv
        <4>2. number = Len(values) + 1 /\ values' = Append(values, Value("constant", type, None, None, key))
          BY <2>1, <2>4, <3>2
        <4> QED BY <1>1, <1>2, <4>1, <4>2, ConstantNumbered
      <3> QED BY <3>1, <3>2
    <2>7. EnvTyped(Frame.env, Running, Frame.pc, values')
      BY <1>2, <2>6, GrownTyped
    <2>8. EnvTyped(env, Running, Frame.pc + 1, values')
      <3>1. \A i \in DOMAIN Running.ops[Frame.pc].outputs :
              /\ <<number>>[i] \in DOMAIN values'
              /\ values'[<<number>>[i]].type = Running.ops[Frame.pc].outputs[i].type
        BY <2>5, <2>6
      <3>2. EnvTyped(ExtendEnv(Frame.env, NamesOf(Running.ops[Frame.pc].outputs), <<number>>),
                     Running, Frame.pc + 1, values')
        BY <1>2, <2>7, <3>1, ExtendTyped
      <3> QED BY <2>5, <3>2 DEF env
    <2>9. BindingsOK(program, stack, values')
      BY <1>2, <2>6, GrownBindings
    <2>10. FramesOK(program, stack') /\ BindingsOK(program, stack', values') /\ stack' # <<>>
      <3>1. stack' = [stack EXCEPT ![Len(stack)] = Advance(@, env)]
        BY <2>1 DEF Advanced
      <3>2. stack[Len(stack)].pc \in DOMAIN FunctionOf(program, stack[Len(stack)].function).ops
        BY <1>2 DEF Frame, Running
      <3>3. EnvTyped(env, FunctionOf(program, stack[Len(stack)].function), stack[Len(stack)].pc + 1, values')
        BY <2>8 DEF Frame, Running
      <3>4. FramesOK(program, stack) /\ stack # <<>> /\ IsProgram(program) /\ ProgramVerified(program)
        BY <1>2
      <3> QED BY <2>9, <3>1, <3>2, <3>3, <3>4, AdvanceTop
    <2>11. FramesInv' /\ BindingsTyped'
      BY <1>1, <2>10, NextStack
    <2>12. ProgressInv'
      BY <1>1, <1>2, <1>3, <2>1 DEF ProgressInv, Inlining
    <2> QED BY <2>6, <2>11, <2>12 DEF ScheduleInv
  <1> QED BY <1>4, <1>5

\* A runtime operation is appended, and what it defines is numbered.
LEMMA InlineOpStep ==
  ASSUME ScheduleInv, InlineOp
  PROVE  ScheduleInv'
  <1> DEFINE index == Len(ops) + 1
             new == [i \in DOMAIN Current.outputs |->
                       IF Current.opcode = "state_read"
                         THEN Value("state_alias", Current.outputs[i].type, index,
                                    StateValue(Current.attributes.state), <<>>)
                         ELSE Value("temporary", Current.outputs[i].type, index, None, <<>>)]
             numbers == [i \in DOMAIN new |-> Len(values) + i]
             op == [invocation |-> Frame.invocation, site |-> Site(Running, Frame.pc),
                    opcode |-> Current.opcode, attributes |-> Current.attributes,
                    inputs |-> Numbers(Current.inputs), outputs |-> numbers]
             env == ExtendEnv(Frame.env, NamesOf(Current.outputs), numbers)
  <1>1. /\ InBody /\ Inlining /\ Current.opcode \notin Meta
        /\ UNCHANGED <<program, invocations, shared, outputs>>
    BY DEF InlineOp, InBody
  <1>2. /\ IsProgram(program) /\ ProgramVerified(program)
        /\ FramesOK(program, stack) /\ stack # <<>> /\ BindingsOK(program, stack, values)
        /\ IsFunction(Running) /\ SingleAssignment(Running) /\ FunctionVerified(program, Running)
        /\ EnvTyped(Frame.env, Running, Frame.pc, values)
        /\ Frame.pc \in DOMAIN Running.ops /\ Current = Running.ops[Frame.pc]
    BY <1>1, RunningFrame DEF InBody, Current
  <1>3. ValuesInv /\ ScheduleVerified /\ ProgressInv
    BY DEF ScheduleInv
  <1>4. CASE Len(values) + Len(new) > MaxValues
    <2>1. progress' = "refused" /\ UNCHANGED <<values, ops, stack>>
      BY <1>4 DEF InlineOp
    <2> HIDE DEF new, numbers, op
    <2>2. FramesInv' /\ BindingsTyped'
      BY <1>1, <1>2, <2>1, NextStack
    <2>3. ValuesInv' /\ ScheduleVerified'
      BY <1>1, <2>1, NothingNumbered
    <2>4. ProgressInv'
      BY <1>1, <1>3, <2>1 DEF ProgressInv
    <2> QED BY <2>2, <2>3, <2>4 DEF ScheduleInv
  <1>5. CASE ~(Len(values) + Len(new) > MaxValues)
    <2>1. /\ values' = values \o new /\ ops' = Append(ops, op)
          /\ stack' = Advanced(env) /\ progress' = progress
      BY <1>5 DEF InlineOp
    <2>2. /\ IsList(Current.outputs) /\ DOMAIN Current.outputs = 1..Len(Current.outputs)
          /\ Len(Current.outputs) \in Nat
      BY <1>2, ListSeq DEF IsFunction
    <2>3. IsList(new) /\ Len(new) = Len(Current.outputs) /\ DOMAIN new = 1..Len(Current.outputs)
      <3>1. new = [i \in 1..Len(Current.outputs) |-> new[i]]
        BY <2>2
      <3> HIDE DEF new
      <3> QED BY <2>2, <3>1, IndexedList
    <2>4. \A i \in DOMAIN new :
            /\ new[i].type = Current.outputs[i].type /\ new[i].producer = index
            /\ new[i].storage \in {"state_alias", "temporary"}
            /\ new[i].storage = "state_alias" =>
                 Current.opcode = "state_read" /\ new[i].alias = StateValue(Current.attributes.state)
            /\ new[i].storage # "state_alias" => new[i].alias = None
      BY DEF Value
    <2>5. DOMAIN numbers = DOMAIN new /\ \A i \in DOMAIN new : numbers[i] = Len(values) + i
      OBVIOUS
    <2>6. op.inputs = Numbers(Current.inputs) /\ op.outputs = numbers
      OBVIOUS
    <2> HIDE DEF new, numbers, op, env
    <2>7. /\ IsList(values) /\ Len(values) \in Nat /\ DOMAIN values = 1..Len(values)
          /\ IsList(ops) /\ Len(ops) \in Nat /\ DOMAIN ops = 1..Len(ops)
      BY <1>3, ListSeq DEF ValuesInv
    <2>8. /\ IsList(values') /\ DOMAIN values' = 1..(Len(values) + Len(new))
          /\ \A i \in 1..Len(values) : values'[i] = values[i]
          /\ \A i \in 1..Len(new) : values'[Len(values) + i] = new[i]
      <3>1. IsList(values) /\ IsList(new)
        BY <2>3, <2>7
      <3>2. IsList(values \o new) /\ DOMAIN (values \o new) = 1..(Len(values) + Len(new))
        BY <3>1, ConcatList
      <3>3. \A i \in 1..Len(values) : (values \o new)[i] = values[i]
        BY <3>1, ConcatList
      <3>4. \A i \in 1..Len(new) : (values \o new)[Len(values) + i] = new[i]
        BY <3>1, ConcatList
      <3> QED BY <2>1, <3>2, <3>3, <3>4
    <2>9. /\ IsList(ops') /\ Len(ops') = index /\ DOMAIN ops' = 1..index
          /\ \A k \in 1..Len(ops) : ops'[k] = ops[k]
          /\ ops'[index] = op
      BY <2>1, <2>7, AppendList
    <2>10. \A v \in DOMAIN values : v \in DOMAIN values' /\ values'[v] = values[v]
      BY <2>3, <2>2, <2>7, <2>8
    <2>11. \A i \in DOMAIN new : Len(values) + i \in DOMAIN values' /\ values'[Len(values) + i] = new[i]
      BY <2>2, <2>3, <2>7, <2>8
    <2>12. \A v \in DOMAIN values' : v \in DOMAIN values \/ \E i \in DOMAIN new : v = Len(values) + i
      <3>1. ASSUME NEW v \in DOMAIN values', v \notin DOMAIN values
            PROVE  \E i \in DOMAIN new : v = Len(values) + i
        <4>1. v - Len(values) \in DOMAIN new /\ v = Len(values) + (v - Len(values))
          BY <2>2, <2>3, <2>7, <2>8, <3>1
        <4> QED BY <4>1
      <3> QED BY <3>1
    <2>13. index \in Nat \ {0} /\ index > Len(ops)
      BY <2>7
    <2>14. Current.opcode = "state_read" =>
             /\ StateValue(Current.attributes.state) \in DOMAIN values
             /\ values[StateValue(Current.attributes.state)].storage = "state"
      <3>1. ASSUME Current.opcode = "state_read"
            PROVE  Current.attributes.state \in StateNames(program)
        <4>1. Frame.pc \notin Calls(Running)
          BY <1>1, <1>2 DEF Calls, Meta
        <4>2. OpVerified(Current, InputTypes(Running, Current), StateOf(program))
          BY <1>2, <4>1 DEF FunctionVerified
        <4>3. Current.attributes.state \in DOMAIN StateOf(program)
          BY <3>1, <4>2, VerifiedOps
        <4> QED BY <4>3 DEF StateOf
      <3> QED BY <1>2, <3>1, StateIsValue
    <2> HIDE DEF index
    <2>15. ValuesInv'
      <3>1. IsList(values)' /\ IsList(ops)'
        BY <2>8, <2>9 DEF IsList
      <3>2. ASSUME NEW v \in DOMAIN values'
            PROVE  /\ values'[v].producer \in 0..Len(ops')
                   /\ values'[v].storage = "state_alias" => values'[v].alias \in DOMAIN values'
        <4>1. CASE v \in DOMAIN values
          <5>1. values'[v] = values[v] /\ values[v].producer \in 0..Len(ops)
            BY <1>3, <2>10, <4>1 DEF ValuesInv
          <5>2. values[v].producer \in 0..index
            BY <2>7, <2>13, <5>1
          <5>3. values[v].storage = "state_alias" => values[v].alias \in DOMAIN values'
            BY <1>3, <2>10, <4>1 DEF ValuesInv
          <5> QED BY <2>9, <5>1, <5>2, <5>3
        <4>2. ASSUME NEW i \in DOMAIN new, v = Len(values) + i
              PROVE  /\ values'[v].producer \in 0..Len(ops')
                     /\ values'[v].storage = "state_alias" => values'[v].alias \in DOMAIN values'
          <5>1. values'[v] = new[i]
            BY <2>11, <4>2
          <5>2. new[i].producer \in 0..index
            BY <2>4, <2>13
          <5>3. new[i].storage = "state_alias" => new[i].alias \in DOMAIN values'
            BY <2>4, <2>10, <2>14
          <5> QED BY <2>9, <5>1, <5>2, <5>3
        <4> QED BY <2>12, <4>1, <4>2
      <3>3. ASSUME NEW k \in DOMAIN ops', NEW i \in DOMAIN ops'[k].outputs
            PROVE  ops'[k].outputs[i] \in DOMAIN values'
        <4>1. CASE k \in DOMAIN ops
          BY <1>3, <2>7, <2>9, <2>10, <3>3, <4>1 DEF ValuesInv
        <4>2. CASE k = index
          BY <2>5, <2>6, <2>9, <2>11, <3>3, <4>2
        <4>3. k \in DOMAIN ops \/ k = index
          BY <2>7, <2>9 DEF index
        <4> QED BY <4>1, <4>2, <4>3
      <3>4. \A k \in DOMAIN shared' : shared'[k] \in DOMAIN values'
        BY <1>1, <1>3, <2>10 DEF ValuesInv
      <3>5. Entry' = Entry /\ program' = program
        BY <1>1 DEF Entry
      <3>6. \A i \in DOMAIN program'.states :
              /\ Len(Entry'.inputs) + i \in DOMAIN values'
              /\ values'[Len(Entry'.inputs) + i].storage = "state"
        BY <1>2, <1>3, <2>10, <3>5 DEF ValuesInv
      <3> QED BY <3>1, <3>2, <3>3, <3>4, <3>6 DEF ValuesInv
    <2>16. ScheduleVerified'
      <3>1. ASSUME NEW k \in DOMAIN ops'
            PROVE  /\ \A i \in DOMAIN ops'[k].inputs :
                        ops'[k].inputs[i] \in DOMAIN values' /\ values'[ops'[k].inputs[i]].producer < k
                   /\ \A i \in DOMAIN ops'[k].outputs : values'[ops'[k].outputs[i]].producer = k
        <4>1. CASE k \in DOMAIN ops
          <5>1. ops'[k] = ops[k]
            BY <2>7, <2>9, <4>1
          <5>2. \A i \in DOMAIN ops[k].inputs :
                  ops[k].inputs[i] \in DOMAIN values' /\ values'[ops[k].inputs[i]].producer < k
            BY <1>3, <2>10, <4>1 DEF ScheduleVerified
          <5>3. \A i \in DOMAIN ops[k].outputs : values'[ops[k].outputs[i]].producer = k
            BY <1>3, <2>10, <4>1 DEF ScheduleVerified, ValuesInv
          <5> QED BY <5>1, <5>2, <5>3
        <4>2. CASE k = index
          <5>1. /\ DOMAIN op.inputs = DOMAIN Current.inputs
                /\ \A i \in DOMAIN op.inputs : op.inputs[i] \in DOMAIN values
            BY <1>1, <2>6, OperandsTyped
          <5>2. \A v \in DOMAIN values : values[v].producer < index
            <6>1. \A v \in DOMAIN values : values[v].producer \in 0..Len(ops)
              BY <1>3 DEF ValuesInv
            <6>2. Len(ops) \in Nat /\ index = Len(ops) + 1
              BY <2>7 DEF index
            <6>3. \A n \in 0..Len(ops) : n < index
              BY <6>2
            <6> QED BY <6>1, <6>3
          <5>3. \A i \in DOMAIN op.inputs : op.inputs[i] \in DOMAIN values' /\ values'[op.inputs[i]].producer < index
            BY <2>10, <5>1, <5>2
          <5>4. \A i \in DOMAIN op.outputs : values'[op.outputs[i]].producer = index
            BY <2>4, <2>5, <2>6, <2>11
          <5> QED BY <2>9, <4>2, <5>3, <5>4
        <4>3. k \in DOMAIN ops \/ k = index
          BY <2>7, <2>9 DEF index
        <4> QED BY <4>1, <4>2, <4>3
      <3>2. ASSUME NEW v \in DOMAIN values'
            PROVE  /\ values'[v].storage \in {"state_alias", "temporary"} <=> values'[v].producer # None
                   /\ values'[v].producer # None =>
                        \E i \in DOMAIN ops'[values'[v].producer].outputs :
                          ops'[values'[v].producer].outputs[i] = v
                   /\ IF values'[v].storage = "state_alias"
                        THEN values'[values'[v].alias].storage = "state" ELSE values'[v].alias = None
        <4>1. CASE v \in DOMAIN values
          <5>1. values'[v] = values[v]
            BY <2>10, <4>1
          <5>2. values[v].storage = "state_alias" => values'[values[v].alias] = values[values[v].alias]
            BY <1>3, <2>10, <4>1 DEF ValuesInv
          <5>3. /\ values[v].storage \in {"state_alias", "temporary"} <=> values[v].producer # None
                /\ values[v].producer # None =>
                     \E i \in DOMAIN ops[values[v].producer].outputs :
                       ops[values[v].producer].outputs[i] = v
                /\ IF values[v].storage = "state_alias"
                     THEN values[values[v].alias].storage = "state" ELSE values[v].alias = None
            BY <1>3, <4>1 DEF ScheduleVerified
          <5>4. values[v].producer # None => ops'[values[v].producer] = ops[values[v].producer]
            <6>1. values[v].producer \in 0..Len(ops)
              BY <1>3, <4>1 DEF ValuesInv
            <6>2. values[v].producer # None => values[v].producer \in 1..Len(ops)
              BY <2>7, <6>1 DEF None
            <6> QED BY <2>9, <6>2
          <5> QED BY <5>1, <5>2, <5>3, <5>4
        <4>2. ASSUME NEW i \in DOMAIN new, v = Len(values) + i
              PROVE  /\ values'[v].storage \in {"state_alias", "temporary"} <=> values'[v].producer # None
                     /\ values'[v].producer # None =>
                          \E j \in DOMAIN ops'[values'[v].producer].outputs :
                            ops'[values'[v].producer].outputs[j] = v
                     /\ IF values'[v].storage = "state_alias"
                          THEN values'[values'[v].alias].storage = "state" ELSE values'[v].alias = None
          <5>1. values'[v] = new[i]
            BY <2>11, <4>2
          <5>2. new[i].producer # None /\ new[i].producer = index
            BY <2>4, <2>13 DEF None
          <5>3. i \in DOMAIN op.outputs /\ op.outputs[i] = v
            BY <2>5, <2>6, <4>2
          <5>4. IF new[i].storage = "state_alias"
                  THEN values'[new[i].alias].storage = "state" ELSE new[i].alias = None
            BY <2>4, <2>10, <2>14
          <5> QED BY <2>4, <2>9, <5>1, <5>2, <5>3, <5>4
        <4> QED BY <2>12, <4>1, <4>2
      <3>3. \A i \in DOMAIN outputs' : outputs'[i] \in DOMAIN values'
        BY <1>1, <1>3, <2>10 DEF ScheduleVerified
      <3> QED BY <3>1, <3>2, <3>3 DEF ScheduleVerified
    <2>17. EnvTyped(Frame.env, Running, Frame.pc, values')
      BY <1>2, <2>10, GrownTyped
    <2>18. EnvTyped(env, Running, Frame.pc + 1, values')
      <3>1. \A i \in DOMAIN Running.ops[Frame.pc].outputs :
              /\ numbers[i] \in DOMAIN values'
              /\ values'[numbers[i]].type = Running.ops[Frame.pc].outputs[i].type
        <4> SUFFICES ASSUME NEW i \in DOMAIN Running.ops[Frame.pc].outputs
                     PROVE  /\ numbers[i] \in DOMAIN values'
                            /\ values'[numbers[i]].type = Running.ops[Frame.pc].outputs[i].type
          OBVIOUS
        <4>1. Current = Running.ops[Frame.pc]
          BY Zenon DEF Current
        <4>2. i \in DOMAIN new
          BY Zenon, <2>2, <2>3, <4>1
        <4>3. numbers[i] = Len(values) + i /\ new[i].type = Current.outputs[i].type
          BY Zenon, <2>4, <2>5, <4>2
        <4>4. Len(values) + i \in DOMAIN values' /\ values'[Len(values) + i] = new[i]
          BY Zenon, <2>11, <4>2
        <4> QED BY Zenon, <4>1, <4>3, <4>4
      <3>2. EnvTyped(ExtendEnv(Frame.env, NamesOf(Running.ops[Frame.pc].outputs), numbers),
                     Running, Frame.pc + 1, values')
        BY <1>2, <2>17, <3>1, ExtendTyped
      <3> QED BY <1>2, <3>2 DEF env
    <2>19. BindingsOK(program, stack, values')
      BY <1>2, <2>10, GrownBindings
    <2>20. FramesOK(program, stack') /\ BindingsOK(program, stack', values') /\ stack' # <<>>
      <3>1. stack' = [stack EXCEPT ![Len(stack)] = Advance(@, env)]
        BY <2>1 DEF Advanced
      <3>2. stack[Len(stack)].pc \in DOMAIN FunctionOf(program, stack[Len(stack)].function).ops
        BY <1>2 DEF Frame, Running
      <3>3. EnvTyped(env, FunctionOf(program, stack[Len(stack)].function), stack[Len(stack)].pc + 1, values')
        BY <2>18 DEF Frame, Running
      <3>4. FramesOK(program, stack) /\ stack # <<>> /\ IsProgram(program) /\ ProgramVerified(program)
        BY <1>2
      <3> QED BY <2>19, <3>1, <3>2, <3>3, <3>4, AdvanceTop
    <2>21. FramesInv' /\ BindingsTyped'
      BY <1>1, <2>20, NextStack
    <2>22. ProgressInv'
      BY <1>1, <1>2, <1>3, <2>1 DEF ProgressInv, Inlining
    <2> QED BY <2>15, <2>16, <2>21, <2>22 DEF ScheduleInv
  <1> QED BY <1>4, <1>5

\* The schedule starts with the entry inputs and the states, and the entry
\* function on its inputs.
LEMMA StartStep ==
  ASSUME ScheduleInv, Start
  PROVE  ScheduleInv'
  <1> DEFINE ins == [i \in DOMAIN Entry.inputs |->
                       Value("input", Entry.inputs[i].type, None, None, <<>>)]
             sts == [i \in DOMAIN program.states |->
                       Value("state", SortedStates(program)[i].type, None, None, <<>>)]
             own == [i \in DOMAIN Entry.inputs |-> i]
             frame == NewFrame(program.entry, own)
  <1>1. /\ Compilable /\ progress = "submitted" /\ progress' = "inlining"
        /\ values' = ins \o sts /\ stack' = <<frame>>
        /\ UNCHANGED <<program, ops, shared, outputs>>
    BY DEF Start
  <1>2. /\ IsProgram(program) /\ ProgramVerified(program) /\ program \in Programs
        /\ values = <<>> /\ ops = <<>> /\ shared = <<>> /\ stack = <<>> /\ outputs = <<>>
    BY <1>1, ScheduleAssumption DEF ScheduleInv, ProgressInv, Compilable
  <1>3. program.entry \in FunctionNames(program) /\ IsFunction(Entry)
    BY <1>2, VerifiedFunctions DEF ProgramVerified, Entry
  <1>4. /\ Len(Entry.inputs) \in Nat /\ DOMAIN Entry.inputs = 1..Len(Entry.inputs)
        /\ Len(program.states) \in Nat /\ DOMAIN program.states = 1..Len(program.states)
    BY <1>2, <1>3, ListSeq DEF IsFunction, IsProgram
  <1>5. IsList(ins) /\ Len(ins) = Len(Entry.inputs) /\ DOMAIN ins = 1..Len(Entry.inputs)
    <2>1. ins = [i \in 1..Len(Entry.inputs) |-> ins[i]]
      BY <1>4
    <2> HIDE DEF ins
    <2> QED BY <1>4, <2>1, IndexedList
  <1>6. IsList(sts) /\ Len(sts) = Len(program.states) /\ DOMAIN sts = 1..Len(program.states)
    <2>1. sts = [i \in 1..Len(program.states) |-> sts[i]]
      BY <1>4
    <2> HIDE DEF sts
    <2> QED BY <1>4, <2>1, IndexedList
  <1>7. /\ \A i \in DOMAIN ins : /\ ins[i].storage = "input" /\ ins[i].type = Entry.inputs[i].type
                                 /\ ins[i].producer = 0 /\ ins[i].alias = 0
        /\ \A i \in DOMAIN sts : sts[i].storage = "state" /\ sts[i].producer = 0 /\ sts[i].alias = 0
    BY DEF Value, None
  <1>8. \A i \in DOMAIN Entry.inputs : own[i] = i
    OBVIOUS
  <1> HIDE DEF ins, sts, own, frame
  <1> DEFINE n == Len(Entry.inputs)
             m == Len(program.states)
  <1>9. /\ IsList(values') /\ DOMAIN values' = 1..(n + m)
        /\ \A i \in 1..n : values'[i] = ins[i]
        /\ \A i \in 1..m : values'[n + i] = sts[i]
        /\ \A i \in (n + 1)..(n + m) : values'[i] = sts[i - n]
    <2>1. IsList(ins) /\ IsList(sts)
      BY <1>5, <1>6
    <2>2. IsList(ins \o sts) /\ DOMAIN (ins \o sts) = 1..(Len(ins) + Len(sts))
      BY <2>1, ConcatList
    <2>3. \A i \in 1..Len(ins) : (ins \o sts)[i] = ins[i]
      BY <2>1, ConcatList
    <2>4. \A i \in 1..Len(sts) : (ins \o sts)[Len(ins) + i] = sts[i]
      BY <2>1, ConcatList
    <2>5. \A i \in (Len(ins) + 1)..(Len(ins) + Len(sts)) : (ins \o sts)[i] = sts[i - Len(ins)]
      BY <2>1, ConcatList
    <2>6. values' = ins \o sts /\ Len(ins) = n /\ Len(sts) = m
      BY <1>1, <1>5, <1>6
    <2> HIDE DEF n, m
    <2> QED BY <2>2, <2>3, <2>4, <2>5, <2>6
  <1>12. n \in Nat /\ m \in Nat /\ DOMAIN ins = 1..n /\ DOMAIN sts = 1..m
        /\ DOMAIN Entry.inputs = 1..n /\ DOMAIN program.states = 1..m
    BY <1>4, <1>5, <1>6
  <1> HIDE DEF n, m
  <1>10. \A v \in DOMAIN values' :
           /\ values'[v].storage \in {"input", "state"} /\ values'[v].producer = 0 /\ values'[v].alias = 0
    <2>1. ASSUME NEW v \in DOMAIN values'
          PROVE  (v \in DOMAIN ins /\ values'[v] = ins[v])
                 \/ (v - n \in DOMAIN sts /\ values'[v] = sts[v - n])
      <3>1. v \in 1..n \/ (v \in (n + 1)..(n + m) /\ v - n \in 1..m)
        BY <1>9, <1>12, <2>1
      <3> QED BY <1>9, <1>12, <3>1
    <2> QED BY <1>7, <2>1
  <1>11. \A i \in DOMAIN Entry.inputs : own[i] \in DOMAIN values' /\ values'[own[i]].type = Entry.inputs[i].type
    <2>1. ASSUME NEW i \in 1..n
          PROVE  i \in 1..(n + m) /\ values'[i] = ins[i]
      BY <1>9, <1>12
    <2> QED BY <1>7, <1>8, <1>9, <1>12, <2>1
  <1>13. ValuesInv'
    <2>1. IsList(values)' /\ IsList(ops)'
      BY <1>1, <1>2, <1>9, EmptyList DEF IsList
    <2>2. Len(ops') = 0 /\ DOMAIN ops' = {} /\ DOMAIN shared' = {}
      BY <1>1, <1>2, EmptyList
    <2>3. \A v \in DOMAIN values' :
            /\ values'[v].producer \in 0..Len(ops')
            /\ values'[v].storage = "state_alias" => values'[v].alias \in DOMAIN values'
      BY <1>10, <2>2
    <2>4. Entry' = Entry /\ program' = program
      BY <1>1 DEF Entry
    <2>5. \A i \in DOMAIN program'.states :
            /\ Len(Entry'.inputs) + i \in DOMAIN values'
            /\ values'[Len(Entry'.inputs) + i].storage = "state"
      <3>1. ASSUME NEW i \in 1..m
            PROVE  n + i \in 1..(n + m) /\ values'[n + i] = sts[i]
        BY <1>9, <1>12
      <3>2. Len(Entry'.inputs) = n /\ DOMAIN program'.states = 1..m
        BY <1>12, <2>4 DEF n
      <3> QED BY <1>7, <1>9, <1>12, <3>1, <3>2
    <2> QED BY <2>1, <2>2, <2>3, <2>5 DEF ValuesInv
  <1>14. ScheduleVerified'
    <2>1. DOMAIN ops' = {} /\ DOMAIN outputs' = {}
      BY <1>1, <1>2, EmptyList
    <2> QED BY <1>10, <2>1 DEF ScheduleVerified, None
  <1>15. FramesOK(program, stack') /\ BindingsOK(program, stack', values')
    <2>1. /\ FrameOK(program, frame)
          /\ EnvTyped(frame.env, FunctionOf(program, frame.function), frame.pc, values')
      <3>1. \A i \in DOMAIN FunctionOf(program, program.entry).inputs :
              /\ own[i] \in DOMAIN values'
              /\ values'[own[i]].type = FunctionOf(program, program.entry).inputs[i].type
        BY <1>11 DEF Entry
      <3> QED BY <1>2, <1>3, <3>1, NewFrameTyped DEF frame
    <2>2. FramesOK(program, <<>>) /\ BindingsOK(program, <<>>, values')
      <3>1. 1..(Len(<<>>) - 1) = {}
        BY EmptyList
      <3> QED BY <3>1, EmptyList DEF FramesOK, BindingsOK
    <2>3. stack' = Append(<<>>, frame)
      BY <1>1
    <2> QED BY <2>1, <2>2, <2>3, PushFrame
  <1>16. FramesInv' /\ BindingsTyped'
    BY <1>1, <1>15, NextStack
  <1>17. ProgressInv'
    BY <1>1, <1>2 DEF ProgressInv
  <1> QED BY <1>13, <1>14, <1>16, <1>17 DEF ScheduleInv

-----------------------------------------------------------------------------
(* Theorems *)

\* Nothing has been numbered when a program is submitted.
LEMMA ScheduleInit == Init => ScheduleInv
  <1> SUFFICES ASSUME Init PROVE ScheduleInv
    OBVIOUS
  <1>1. /\ program \in Programs /\ progress = "submitted"
        /\ values = <<>> /\ ops = <<>> /\ shared = <<>> /\ stack = <<>> /\ outputs = <<>>
    BY DEF Init
  <1>2. ProgressInv
    BY <1>1 DEF ProgressInv
  <1>3. ValuesInv
    BY <1>1, EmptyList DEF ValuesInv
  <1>4. FramesInv
    <2>1. 1..(Len(<<>>) - 1) = {}
      BY EmptyList
    <2> QED BY <1>1, <2>1, EmptyList DEF FramesInv, FramesOK
  <1>5. ScheduleVerified /\ BindingsTyped
    BY <1>1, EmptyList DEF ScheduleVerified, BindingsTyped
  <1> QED BY <1>2, <1>3, <1>4, <1>5 DEF ScheduleInv

\* Every step of build_execution_schedule keeps the invariant.
LEMMA ScheduleStep == ScheduleInv /\ [Next]_scheduleVars => ScheduleInv'
  <1> SUFFICES ASSUME ScheduleInv, [Next]_scheduleVars PROVE ScheduleInv'
    OBVIOUS
  <1>1. CASE Next
    BY <1>1, RefuseStep, StartStep, InlineConstantStep, InlineCallStep, InlineOpStep,
       RepeatCallStep, ReturnFromCallStep, FinishStep DEF Next
  <1>2. CASE UNCHANGED scheduleVars
    <2>1. UNCHANGED <<program, progress, values, ops, shared, stack, outputs>>
      BY <1>2 DEF scheduleVars
    <2>2. ValuesInv' /\ ScheduleVerified'
      BY <2>1, NothingNumbered
    <2>3. ProgressInv' /\ FramesInv' /\ BindingsTyped'
      BY <2>1 DEF ScheduleInv, ProgressInv, FramesInv, BindingsTyped
    <2> QED BY <2>2, <2>3 DEF ScheduleInv
  <1> QED BY <1>1, <1>2

\* What inline() relies on holds of every program at every step.
LEMMA ScheduleInvariant == Spec => []ScheduleInv
  BY ScheduleInit, ScheduleStep, PTL DEF Spec

\* The assertions of _verify_schedule hold of the schedule of every program, and
\* of everything build_execution_schedule has numbered on the way.
THEOREM SchedulesVerified == Spec => []ScheduleVerified
  <1>1. ScheduleInv => ScheduleVerified
    BY DEF ScheduleInv
  <1> QED BY <1>1, ScheduleInvariant, PTL

\* Through every call and every repeat a name is bound to a value of the type
\* the program declares for it, whatever the nesting.
THEOREM BindingsAlwaysTyped == Spec => []BindingsTyped
  <1>1. ScheduleInv => BindingsTyped
    BY DEF ScheduleInv
  <1> QED BY <1>1, ScheduleInvariant, PTL

=============================================================================
