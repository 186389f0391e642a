------------------------ MODULE PayloadCodecProofs ------------------------
(***************************************************************************)
(* The compiler's codecs and the runtime's parsers are about the same      *)
(* bytes: for every problem a lowering may state, to_bytes is read back as *)
(* it was written (WholeBack), and every payload of a known form that      *)
(* from_bytes accepts, whatever its fields hold, is accepted by the parser *)
(* in src/cpp, and the other way round but for what Tolerated names        *)
(* (WholeAgree).                                                           *)
(*                                                                         *)
(* The first part says where Packed puts its parts.  A payload is built by *)
(* a fold over the parts, so the lemmas go from one part to the next and   *)
(* give the fields of a payload of four to seven parts.  Then each form    *)
(* has three or four lemmas: where its fields start (...Lays), what        *)
(* to_bytes writes into them (...Writes), that Read finds the problem in   *)
(* it again (...Back), and that decoder and parser accept the same         *)
(* (...Agree).  The last part puts the forms together.                     *)
(***************************************************************************)
EXTENDS CommandPayloads, FiniteSetTheorems, SequenceTheorems, WellFoundedInduction, TLAPS

\* Every nonempty set of naturals has a least element.
LEMMA LeastNumber ==
  ASSUME NEW S, S \subseteq Nat, S # {}
  PROVE  \E m \in S : \A n \in S : m <= n
  <1> DEFINE Segment(n) == 0..(n - 1)
             T == {Segment(n) : n \in S}
             R == StrictSubsetOrdering(Nat)
  <1>1. \A n \in Nat : Segment(n) \in SUBSET Nat /\ IsFiniteSet(Segment(n))
    BY FS_Interval
  <1>2. T \subseteq FiniteSubsetsOf(Nat) /\ T # {}
    BY <1>1 DEF FiniteSubsetsOf
  <1>3. PICK t \in T : \A u \in T : ~(<<u, t>> \in R)
    <2>1. IsWellFoundedOn(R, FiniteSubsetsOf(Nat))
      BY FS_StrictSubsetOrderingWellFounded
    <2> HIDE DEF R, T
    <2> QED BY <1>2, <2>1, WFMin
  <1>4. PICK m \in S : t = Segment(m)
    BY <1>3
  <1>5. ASSUME NEW n \in S, n < m PROVE FALSE
    <2>1. Segment(n) \subseteq Segment(m) /\ Segment(n) # Segment(m)
      BY <1>5
    <2>2. <<Segment(n), Segment(m)>> \in R
      BY <1>1, <2>1 DEF StrictSubsetOrdering
    <2> QED BY <1>3, <1>4, <2>2
  <1> QED BY <1>5

\* Induction up to n, over a set of numbers.
LEMMA UpTo ==
  ASSUME NEW n \in Nat, NEW S, 0 \in S, \A d \in 1..n : d - 1 \in S => d \in S
  PROVE  \A d \in 0..n : d \in S
  <1> DEFINE bad == (0..n) \ S
  <1>1. CASE bad # {}
    <2>1. bad \subseteq Nat
      OBVIOUS
    <2>2. PICK m \in bad : \A k \in bad : m <= k
      <3> HIDE DEF bad
      <3> QED BY <1>1, <2>1, LeastNumber
    <2>3. m \in 1..n /\ m - 1 \in 0..n /\ m - 1 \notin bad
      BY <2>2
    <2> QED BY <2>2, <2>3
  <1> QED BY <1>1

\* A fold of a sequence of n elements is a recursion over the sets of its
\* positions, from which the last position is taken.
FoldsBy(h, n, base, step) ==
  h = [s \in SUBSET (1..n) |-> IF s = {} THEN base ELSE step[Max(s)][h[s \ {Max(s)}]]]

\* The last position of a set of positions.
LEMMA LastPosition ==
  ASSUME NEW n \in Nat, NEW s \in SUBSET (1..n)
  PROVE  /\ s # {} => Max(s) \in s /\ \A x \in s : x <= Max(s)
         /\ \A x \in s : (\A y \in s : y <= x) => Max(s) = x
  <1>0. \A x \in s : x \in Nat /\ n - x \in Nat
    OBVIOUS
  <1>1. ASSUME s # {} PROVE \E m \in s : \A x \in s : m >= x
    <2> DEFINE below == {n - x : x \in s}
    <2>1. below \subseteq Nat /\ below # {}
      BY <1>0, <1>1
    <2>2. PICK k \in below : \A j \in below : k <= j
      <3> HIDE DEF below
      <3> QED BY <2>1, LeastNumber
    <2>3. PICK m \in s : k = n - m
      BY <2>2
    <2>4. \A x \in s : n - x \in below
      OBVIOUS
    <2> HIDE DEF below
    <2>5. ASSUME NEW x \in s PROVE m >= x
      <3>1. n - m <= n - x
        BY <2>2, <2>3, <2>4
      <3> QED BY <1>0, <3>1
    <2> QED BY <2>5
  <1>2. s # {} => Max(s) \in s /\ \A x \in s : Max(s) >= x
    BY <1>1 DEF Max
  <1>3. ASSUME NEW x \in s, \A y \in s : y <= x PROVE Max(s) = x
    <2>1. Max(s) \in s /\ Max(s) >= x /\ Max(s) <= x
      BY <1>2, <1>3
    <2>2. Max(s) \in Nat /\ x \in Nat
      BY <1>0, <2>1
    <2> QED BY <2>1, <2>2
  <1>4. s # {} => \A x \in s : x <= Max(s)
    BY <1>0, <1>2
  <1> QED BY <1>2, <1>3, <1>4

\* Such a function exists, whatever the steps.
LEMMA FoldExists ==
  ASSUME NEW n \in Nat, NEW V, NEW base \in V, NEW step \in [1..n -> [V -> V]]
  PROVE  \E h \in [SUBSET (1..n) -> V] : FoldsBy(h, n, base, step)
  <1> DEFINE Defined(m) == \E h \in [SUBSET (1..m) -> V] : FoldsBy(h, m, base, step)
             S == {m \in 0..n : Defined(m)}
  <1>1. Defined(0)
    <2> DEFINE f == [s \in SUBSET (1..0) |-> base]
    <2>1. f \in [SUBSET (1..0) -> V] /\ FoldsBy(f, 0, base, step)
      BY DEF FoldsBy
    <2> HIDE DEF f
    <2> QED BY <2>1
  <1>2. ASSUME NEW m \in 1..n, Defined(m - 1) PROVE Defined(m)
    <2>1. PICK g \in [SUBSET (1..(m - 1)) -> V] : FoldsBy(g, m - 1, base, step)
      BY <1>2
    <2> DEFINE f == [s \in SUBSET (1..m) |-> IF m \in s THEN step[m][g[s \ {m}]] ELSE g[s]]
    <2>2. \A s \in SUBSET (1..m) : /\ s \ {m} \in SUBSET (1..(m - 1))
                                   /\ m \notin s => s \in SUBSET (1..(m - 1))
      OBVIOUS
    <2>3. f \in [SUBSET (1..m) -> V]
      BY <2>2
    <2>4. \A s \in SUBSET (1..(m - 1)) : s \in SUBSET (1..m) /\ f[s] = g[s]
      OBVIOUS
    <2>5. f = [s \in SUBSET (1..m) |-> f[s]]
      OBVIOUS
    <2>6. \A s \in SUBSET (1..m) : f[s] = IF m \in s THEN step[m][g[s \ {m}]] ELSE g[s]
      OBVIOUS
    <2> HIDE DEF f
    <2>7. ASSUME NEW s \in SUBSET (1..m)
          PROVE  f[s] = IF s = {} THEN base ELSE step[Max(s)][f[s \ {Max(s)}]]
      <3>1. CASE m \in s
        <4>1. Max(s) = m
          <5>1. \A y \in s : y <= m
            OBVIOUS
          <5>2. m \in Nat
            OBVIOUS
          <5> QED BY <3>1, <5>1, <5>2, LastPosition
        <4>2. f[s \ {m}] = g[s \ {m}]
          BY <2>2, <2>4
        <4> QED BY <2>6, <3>1, <4>1, <4>2
      <3>2. CASE m \notin s
        <4>1. s \in SUBSET (1..(m - 1)) /\ m - 1 \in Nat
          BY <2>2, <3>2
        <4>2. f[s] = g[s]
          BY <2>4, <4>1
        <4>3. g[s] = IF s = {} THEN base ELSE step[Max(s)][g[s \ {Max(s)}]]
          BY <2>1, <4>1 DEF FoldsBy
        <4>4. s \ {Max(s)} \in SUBSET (1..(m - 1))
          BY <4>1
        <4>5. f[s \ {Max(s)}] = g[s \ {Max(s)}]
          BY <2>4, <4>4
        <4> QED BY <4>2, <4>3, <4>5
      <3> QED BY <3>1, <3>2
    <2>8. FoldsBy(f, m, base, step)
      BY <2>5, <2>7 DEF FoldsBy
    <2> QED BY <2>3, <2>8
  <1> HIDE DEF Defined
  <1>3. 0 \in S /\ \A m \in 1..n : m - 1 \in S => m \in S
    BY <1>1, <1>2
  <1>4. n \in S
    <2> HIDE DEF S
    <2>1. n \in 0..n
      OBVIOUS
    <2> QED BY <1>3, <2>1, UpTo
  <1> QED BY <1>4 DEF Defined

\* The sets of positions 1..d for growing d.
LEMMA FirstPositions ==
  ASSUME NEW n \in Nat, NEW d \in Nat, d \in 1..n
  PROVE  /\ 1..d \in SUBSET (1..n) /\ 1..d # {}
         /\ Max(1..d) = d /\ (1..d) \ {d} = 1..(d - 1)
  <1>1. 1..d \in SUBSET (1..n) /\ d \in 1..d /\ \A y \in 1..d : y <= d
    OBVIOUS
  <1>2. Max(1..d) = d
    BY <1>1, LastPosition
  <1>3. (1..d) \ {d} = 1..(d - 1)
    OBVIOUS
  <1>4. 1..d # {}
    BY <1>1
  <1> QED BY ONLY <1>1, <1>2, <1>3, <1>4
-----------------------------------------------------------------------------

(* What Packed writes: the parts one after the other.                      *)

(* A part has a width and unsigned values; an array of n fields starts at  *)
(* these offsets.                                                          *)
Parts == [width : Nat \ {0}, values : Seq(Nat)]

(* The offsets of n fields of one width.                                   *)
Starts(offset, width, n) == {offset + (width * (i - 1)) : i \in 1..n}

(* Part k of a payload starts at off[k], behind the magic.                 *)
Located(off, all) ==
  /\ off \in Seq(Nat) /\ Len(off) = Len(all) + 1 /\ off[1] = 8
  /\ \A k \in 1..Len(all) : off[k + 1] = off[k] + (all[k].width * Len(all[k].values))

(* The offsets of the first d parts.                                       *)
Fields(off, all, d) == UNION {Starts(off[k], all[k].width, Len(all[k].values)) : k \in 1..d}

(* The fields of the first d parts have their values.                      *)
Holds(b, off, all, d) == \A k \in 1..d : Runtime!Run(b, off[k], all[k].width, all[k].values)

(* Whole units fit once into their product.                                *)
LEMMA UnitsIn ==
  ASSUME NEW w \in Nat \ {0}, NEW k \in Nat
  PROVE (w * k) \div w = k
  OBVIOUS

(* Place adds the fields of a part behind what is placed.                  *)
LEMMA PlaceStep ==
  ASSUME NEW s \in Nat, NEW D \in SUBSET Nat, \A o \in D : o < s, NEW a \in [D -> Nat], NEW part \in Parts
  PROVE LET q == Place([size |-> s, at |-> a], part)
            w == part.width
            n == Len(part.values)
        IN /\ q = [size |-> s + (w * n), at |-> q.at]
           /\ q.at \in [D \cup Starts(s, w, n) -> Nat]
           /\ \A o \in D : q.at[o] = a[o]
           /\ \A i \in 1..n : q.at[s + (w * (i - 1))] = part.values[i]
           /\ \A o \in D \cup Starts(s, w, n) : o \in Nat /\ o < s + (w * n)
  <1> DEFINE w == part.width
             v == part.values
             n == Len(v)
             pos(i) == s + (w * (i - 1))
             back(o) == ((o - s) \div w) + 1
             end == s + (w * n)
             starts == {pos(i) : i \in DOMAIN v}
             f == [o \in D \cup starts |-> IF o \in starts THEN v[back(o)] ELSE a[o]]
             q == Place([size |-> s, at |-> a], part)
  <1>1. w \in Nat \ {0} /\ v \in Seq(Nat) /\ n \in Nat /\ DOMAIN v = 1..n
    BY DEF Parts
  <1>2. q = [size |-> end, at |-> f]
    <2>1. DOMAIN a = D
      OBVIOUS
    <2> QED BY <2>1 DEF Place
  <1>3. starts = Starts(s, w, n)
    BY <1>1 DEF Starts
  <1>4. ASSUME NEW i \in 1..n
        PROVE pos(i) \in Nat /\ s <= pos(i) /\ pos(i) < end /\ back(pos(i)) = i
    <2> HIDE DEF w, n
    <2>1. i - 1 \in Nat /\ w * (i - 1) \in Nat /\ w * n \in Nat
      BY <1>1
    <2>2. w * (i - 1) < w * n
      <3>1. PICK j \in Nat : n = (i - 1) + 1 + j
        <4>1. n - i \in Nat /\ n = (i - 1) + 1 + (n - i)
          BY <1>1
        <4> QED BY <4>1
      <3>2. w * n = w * (i - 1) + w + w * j /\ w * j \in Nat
        BY <1>1, <2>1, <3>1
      <3> HIDE DEF w
      <3> QED BY <1>1, <2>1, <3>2
    <2>3. (w * (i - 1)) \div w = i - 1
      BY <1>1, <2>1, UnitsIn
    <2>4. w * (i - 1) \in Nat /\ w * n \in Nat
      BY <2>1
    <2>5. pos(i) \in Nat /\ s <= pos(i) /\ pos(i) < end /\ pos(i) - s = w * (i - 1)
      <3> DEFINE x == w * (i - 1)
                 y == w * n
      <3>1. x \in Nat /\ y \in Nat /\ x < y /\ pos(i) = s + x /\ end = s + y
        BY <2>2, <2>4
      <3> HIDE DEF pos, end
      <3>2. x = w * (i - 1)
        OBVIOUS
      <3> HIDE DEF x, y
      <3>3. pos(i) \in Nat /\ s <= pos(i) /\ pos(i) < end /\ pos(i) - s = x
        BY <3>1
      <3> QED BY <3>2, <3>3
    <2> HIDE DEF pos, end
    <2>6. back(pos(i)) = i
      <3>1. (pos(i) - s) \div w = i - 1
        BY <2>3, <2>5
      <3> DEFINE z == (pos(i) - s) \div w
      <3>2. z = i - 1 /\ back(pos(i)) = z + 1
        BY <3>1
      <3> HIDE DEF z, back
      <3>3. z + 1 = i
        BY <1>1, <3>2
      <3> QED BY <3>2, <3>3
    <2> QED BY <2>5, <2>6
  <1>5. end \in Nat /\ s <= end
    <2> HIDE DEF w, n
    <2>1. w * n \in Nat
      BY <1>1
    <2> QED BY <2>1
  <1> HIDE DEF w, n, pos, back, end
  <1>6. \A o \in starts : o \notin D /\ v[back(o)] \in Nat /\ o \in Nat /\ o < end
    <2>1. ASSUME NEW i \in 1..n PROVE pos(i) \notin D /\ v[back(pos(i))] \in Nat /\ pos(i) \in Nat /\ pos(i) < end
      <3>1. pos(i) \notin D
        BY <1>4
      <3>2. v[i] \in Nat
        BY <1>1 DEF n
      <3> QED BY <1>4, <3>1, <3>2
    <2> QED BY <1>1, <2>1
  <1>7. \A i \in 1..n : pos(i) \in starts
    BY <1>1
  <1> HIDE DEF starts, v
  <1>8. f \in [D \cup starts -> Nat] /\ \A o \in D : f[o] = a[o]
    BY <1>6
  <1>9. ASSUME NEW i \in 1..n PROVE f[pos(i)] = v[i]
    <2>1. f[pos(i)] = v[back(pos(i))]
      BY <1>7
    <2> QED BY <1>4, <2>1
  <1>10. \A o \in D \cup starts : o \in Nat /\ o < end
    BY <1>5, <1>6
  <1> HIDE DEF f, q
  <1>11. q.at = f /\ q = [size |-> end, at |-> q.at]
    BY <1>2
  <1>12. /\ q = [size |-> end, at |-> q.at]
         /\ q.at \in [D \cup Starts(s, w, n) -> Nat]
         /\ \A o \in D : q.at[o] = a[o]
         /\ \A i \in 1..n : q.at[pos(i)] = v[i]
         /\ \A o \in D \cup Starts(s, w, n) : o \in Nat /\ o < end
    BY <1>3, <1>8, <1>9, <1>10, <1>11
  <1> QED BY <1>12 DEF w, n, q, v, pos, end

(* What has been placed: fields below the size.                            *)
Placings == {x \in [size : Nat, at : UNION {[D -> Nat] : D \in SUBSET Nat}] :
               \A o \in DOMAIN x.at : o < x.size}

(* Before the first part: the magic, of eight bytes.                       *)
Nothing == [size |-> 8, at |-> [o \in {} |-> 0]]

(* Placing a part behind a payload gives a payload.                        *)
LEMMA PlacingsGrow ==
  ASSUME NEW x \in Placings, NEW part \in Parts
  PROVE LET y == Place(x, part)
            w == part.width
            n == Len(part.values)
        IN /\ y \in Placings /\ y.size = x.size + (w * n)
           /\ DOMAIN y.at = DOMAIN x.at \cup Starts(x.size, w, n)
           /\ \A o \in DOMAIN x.at : y.at[o] = x.at[o]
           /\ Runtime!Run(y, x.size, w, part.values)
  <1> DEFINE s == x.size
             a == x.at
             D == DOMAIN x.at
             w == part.width
             n == Len(part.values)
             y == Place(x, part)
  <1>1. x = [size |-> s, at |-> a] /\ s \in Nat /\ D \in SUBSET Nat /\ a \in [D -> Nat] /\ \A o \in D : o < s
    BY DEF Placings
  <1>2. w \in Nat \ {0} /\ part.values \in Seq(Nat) /\ n \in Nat /\ DOMAIN part.values = 1..n
    BY DEF Parts
  <1>3. y = Place([size |-> s, at |-> a], part)
    BY <1>1
  <1> HIDE DEF s, a, D, y
  <1>4. /\ y = [size |-> s + (w * n), at |-> y.at]
        /\ y.at \in [D \cup Starts(s, w, n) -> Nat]
        /\ \A o \in D : y.at[o] = a[o]
        /\ \A i \in 1..n : y.at[s + (w * (i - 1))] = part.values[i]
        /\ \A o \in D \cup Starts(s, w, n) : o \in Nat /\ o < s + (w * n)
    BY <1>1, <1>3, PlaceStep
  <1>5. y.size = s + (w * n) /\ DOMAIN y.at = D \cup Starts(s, w, n)
    BY <1>4
  <1>6. s + (w * n) \in Nat
    <2> HIDE DEF w, n
    <2>1. w * n \in Nat
      BY <1>2
    <2> QED BY <1>1, <2>1
  <1>7. y \in Placings
    <2>1. y.at \in UNION {[E -> Nat] : E \in SUBSET Nat}
      <3>1. D \cup Starts(s, w, n) \in SUBSET Nat
        BY <1>4
      <3> QED BY <1>4, <3>1
    <2> QED BY <1>4, <1>5, <1>6, <2>1 DEF Placings
  <1>8. Runtime!Run(y, s, w, part.values)
    <2>1. \A i \in 1..n : s + (w * (i - 1)) \in Starts(s, w, n)
      BY DEF Starts
    <2> QED BY <1>2, <1>4, <1>5, <2>1 DEF Runtime!Run
  <1> QED BY <1>4, <1>5, <1>7, <1>8 DEF s, a, D, y

(* struct.pack places the parts one by one.                                *)
LEMMA PackedSteps ==
  ASSUME NEW all \in Seq(Parts)
  PROVE \E k \in [0..Len(all) -> Placings] :
          /\ k[0] = Nothing /\ \A d \in 1..Len(all) : k[d] = Place(k[d - 1], all[d])
          /\ FoldLeft(Place, Nothing, all) = k[Len(all)]
  <1> DEFINE n == Len(all)
             base == Nothing
             step == [d \in 1..n |-> [x \in Placings |-> Place(x, all[d])]]
             IsFold(h) == h = [t \in SUBSET DOMAIN all |->
                                 IF t = {} THEN base ELSE Place(h[t \ {Max(t)}], all[Max(t)])]
             f == CHOOSE h : IsFold(h)
  <1>1. n \in Nat /\ DOMAIN all = 1..n /\ base \in Placings
    <2>1. DOMAIN Nothing.at = {} /\ Nothing.size = 8 /\ Nothing = [size |-> Nothing.size, at |-> Nothing.at]
      BY DEF Nothing
    <2>2. Nothing.at \in [{} -> Nat]
      BY DEF Nothing
    <2>3. Nothing \in Placings
      BY <2>1, <2>2 DEF Placings
    <2> QED BY <2>3
  <1>2. \A d \in 1..n, x \in Placings : Place(x, all[d]) \in Placings
    BY PlacingsGrow
  <1>3. step \in [1..n -> [Placings -> Placings]]
    BY <1>2
  <1>4. PICK h \in [SUBSET (1..n) -> Placings] : FoldsBy(h, n, base, step)
    <2> HIDE DEF n, base, step
    <2> QED BY <1>1, <1>3, FoldExists
  <1>5. IsFold(h)
    <2>1. h = [t \in SUBSET (1..n) |-> h[t]]
      OBVIOUS
    <2>2. ASSUME NEW t \in SUBSET (1..n)
          PROVE  h[t] = IF t = {} THEN base ELSE Place(h[t \ {Max(t)}], all[Max(t)])
      <3>1. h[t] = IF t = {} THEN base ELSE step[Max(t)][h[t \ {Max(t)}]]
        <4> HIDE DEF n, base, step
        <4> QED BY <1>4 DEF FoldsBy
      <3>2. CASE t # {}
        <4>1. Max(t) \in 1..n /\ t \ {Max(t)} \in SUBSET (1..n)
          <5> HIDE DEF n
          <5> QED BY <1>1, <3>2, LastPosition
        <4>2. h[t \ {Max(t)}] \in Placings
          BY <4>1
        <4>3. step[Max(t)][h[t \ {Max(t)}]] = Place(h[t \ {Max(t)}], all[Max(t)])
          BY <4>1, <4>2
        <4> HIDE DEF n, base, step
        <4> QED BY <3>1, <3>2, <4>3
      <3> HIDE DEF n, base, step
      <3> QED BY <3>1, <3>2
    <2> HIDE DEF n, base, step
    <2> QED BY <1>1, <2>1, <2>2
  <1>6. IsFold(f)
    <2> HIDE DEF IsFold
    <2> QED BY <1>5
  <1>7. FoldLeft(Place, Nothing, all) = f[DOMAIN all]
    BY DEF FoldLeft, MapThenFoldSet
  <1>8. \A t \in SUBSET (1..n) : f[t] = IF t = {} THEN base ELSE Place(f[t \ {Max(t)}], all[Max(t)])
    <2> HIDE DEF f, base, n
    <2> QED BY <1>1, <1>6
  <1> HIDE DEF f, n, base
  <1> DEFINE k == [d \in 0..n |-> f[1..d]]
  <1>9. /\ 1..0 = {} /\ 0 \in 0..n /\ n \in 0..n
        /\ \A d \in 1..n : d - 1 \in 0..n /\ d \in 0..n /\ d \in Nat
    BY <1>1
  <1>10. k[0] = base
    BY <1>8, <1>9
  <1>11. ASSUME NEW d \in 1..n PROVE k[d] = Place(k[d - 1], all[d])
    <2>1. /\ 1..d \in SUBSET (1..n) /\ 1..d # {}
          /\ Max(1..d) = d /\ (1..d) \ {d} = 1..(d - 1)
      BY <1>1, <1>9, FirstPositions
    <2>2. f[1..d] = Place(f[1..(d - 1)], all[d])
      BY <1>8, <2>1
    <2> QED BY <1>9, <2>2
  <1>12. \A d \in 0..n : k[d] \in Placings
    <2> DEFINE S == {d \in 0..n : k[d] \in Placings}
    <2> HIDE DEF k
    <2>1. 0 \in S /\ \A d \in 1..n : d - 1 \in S => d \in S
      BY <1>1, <1>2, <1>9, <1>10, <1>11
    <2> HIDE DEF S
    <2>2. \A d \in 0..n : d \in S
      BY <1>1, <2>1, UpTo
    <2> QED BY <2>2 DEF S
  <1>13. k \in [0..n -> Placings] /\ k[n] = FoldLeft(Place, Nothing, all)
    BY <1>1, <1>7, <1>9, <1>12
  <1> HIDE DEF k
  <1> QED BY <1>10, <1>11, <1>13 DEF n, base

(* Every part is where the ones before it end, and nothing else is there.  *)
LEMMA Encoded ==
  ASSUME NEW all \in Seq(Parts), NEW off, Located(off, all)
  PROVE LET q == FoldLeft(Place, Nothing, all)
            n == Len(all)
        IN q.size = off[n + 1] /\ q.at \in [Fields(off, all, n) -> Nat] /\ Holds(q, off, all, n)
  <1> DEFINE n == Len(all)
             len(d) == Len(all[d].values)
             w(d) == all[d].width
  <1>1. n \in Nat /\ \A d \in 1..n : all[d] \in Parts
    OBVIOUS
  <1>2. PICK k \in [0..n -> Placings] :
          /\ k[0] = Nothing /\ \A d \in 1..n : k[d] = Place(k[d - 1], all[d])
          /\ FoldLeft(Place, Nothing, all) = k[n]
    BY PackedSteps
  <1> HIDE DEF n
  <1> DEFINE good(d) == /\ k[d].size = off[d + 1] /\ DOMAIN k[d].at = Fields(off, all, d)
                        /\ Holds(k[d], off, all, d)
             S == {d \in 0..n : good(d)}
  <1>3. 0 \in S
    <2>1. 1..0 = {} /\ 0 + 1 = 1 /\ 0 \in 0..n
      BY <1>1
    <2>2. Nothing.size = 8 /\ DOMAIN Nothing.at = {}
      BY DEF Nothing
    <2>3. Fields(off, all, 0) = {}
      BY <2>1 DEF Fields
    <2>4. Holds(Nothing, off, all, 0)
      BY <2>1 DEF Holds
    <2> QED BY <1>2, <2>1, <2>2, <2>3, <2>4 DEF Located
  <1>4. ASSUME NEW d \in 1..n, d - 1 \in S PROVE d \in S
    <2> DEFINE x == k[d - 1]
               y == k[d]
               D == DOMAIN x.at
               E == Starts(off[d], w(d), len(d))
    <2>1. d - 1 \in 0..n /\ d \in 0..n /\ (d - 1) + 1 = d /\ d \in Nat
      BY <1>1
    <2>2. x \in Placings /\ y = Place(x, all[d]) /\ all[d] \in Parts
      BY <1>1, <1>2, <2>1
    <2>3. x.size = off[d] /\ D = Fields(off, all, d - 1) /\ Holds(x, off, all, d - 1)
      BY <1>4, <2>1
    <2> HIDE DEF x, y
    <2>4. /\ y \in Placings /\ y.size = x.size + (w(d) * len(d))
          /\ DOMAIN y.at = D \cup Starts(x.size, w(d), len(d))
          /\ \A o \in D : y.at[o] = x.at[o]
          /\ Runtime!Run(y, x.size, w(d), all[d].values)
      BY <2>2, PlacingsGrow
    <2>5. y.size = off[d + 1]
      BY <2>3, <2>4 DEF Located, n
    <2>6. Fields(off, all, d) = Fields(off, all, d - 1) \cup E
      <3>1. 1..d = (1..(d - 1)) \cup {d}
        BY <2>1
      <3> QED BY <3>1 DEF Fields
    <2>7. DOMAIN y.at = Fields(off, all, d)
      BY <2>3, <2>4, <2>6
    <2>8. ASSUME NEW j \in 1..d PROVE Runtime!Run(y, off[j], w(j), all[j].values)
      <3>1. CASE j = d
        BY <2>3, <2>4, <3>1
      <3>2. CASE j # d
        <4>1. j \in 1..(d - 1)
          BY <2>1, <3>2
        <4>2. Runtime!Run(x, off[j], w(j), all[j].values)
          BY <2>3, <4>1 DEF Holds
        <4> HIDE DEF w
        <4> QED BY <2>4, <4>2 DEF Runtime!Run
      <3> QED BY <3>1, <3>2
    <2>9. Holds(y, off, all, d)
      BY <2>8 DEF Holds
    <2>10. good(d)
      BY <2>5, <2>7, <2>9 DEF y
    <2> QED BY <2>1, <2>10
  <1> HIDE DEF S
  <1>5. n \in S
    <2>1. n \in 0..n
      BY <1>1
    <2> QED BY <1>1, <1>3, <1>4, <2>1, UpTo
  <1>6. good(n)
    BY <1>5 DEF S
  <1>7. k[n] \in Placings
    BY <1>1, <1>2
  <1>8. k[n].at \in [Fields(off, all, n) -> Nat]
    BY <1>6, <1>7 DEF Placings
  <1> QED BY <1>2, <1>6, <1>8 DEF n

(* The fields' values determine the payload.                               *)
LEMMA SameFields ==
  ASSUME NEW all, NEW off, NEW n, NEW b, NEW c, DOMAIN b.at = Fields(off, all, n), Holds(b, off, all, n),
         DOMAIN c.at = Fields(off, all, n), Holds(c, off, all, n),
         \A k \in 1..n : DOMAIN all[k].values = 1..Len(all[k].values)
  PROVE \A o \in DOMAIN b.at : b.at[o] = c.at[o]
  <1> SUFFICES ASSUME NEW o \in DOMAIN b.at PROVE b.at[o] = c.at[o]
    OBVIOUS
  <1>1. PICK k \in 1..n : o \in Starts(off[k], all[k].width, Len(all[k].values))
    BY DEF Fields
  <1>2. PICK i \in 1..Len(all[k].values) : o = off[k] + (all[k].width * (i - 1))
    BY <1>1 DEF Starts
  <1>3. i \in DOMAIN all[k].values
    OBVIOUS
  <1>4. Runtime!Run(b, off[k], all[k].width, all[k].values) /\ Runtime!Run(c, off[k], all[k].width, all[k].values)
    BY DEF Holds
  <1> QED BY <1>2, <1>3, <1>4 DEF Runtime!Run

(* The version comes first.                                                *)
Versioned(all, major, minor, parts) == all = <<U16(<<major, minor>>)>> \o parts

(* A payload of these fields and no others.                                *)
LEMMA PackedIs ==
  ASSUME NEW b, NEW magic, NEW major \in Nat, NEW minor \in Nat, NEW parts \in Seq(Parts),
         NEW all, NEW off, Versioned(all, major, minor, parts), Located(off, all)
  PROVE Packed(magic, major, minor, parts) = b
          <=> /\ b = [magic |-> magic, size |-> off[Len(all) + 1], at |-> b.at]
              /\ b.at \in [Fields(off, all, Len(all)) -> Nat] /\ Holds(b, off, all, Len(all))
  <1> DEFINE n == Len(all)
             q == FoldLeft(Place, Nothing, all)
             u == U16(<<major, minor>>)
             r == [magic |-> magic, size |-> q.size, at |-> q.at]
  <1>1. all \in Seq(Parts)
    <2>1. u \in Parts
      BY DEF U16, Parts
    <2>2. all = <<u>> \o parts
      BY DEF Versioned
    <2> HIDE DEF u
    <2>3. <<u>> \in Seq(Parts)
      BY <2>1
    <2> QED BY <2>2, <2>3
  <1>2. Packed(magic, major, minor, parts) = r
    BY DEF Packed, Nothing, Versioned
  <1>3. q.size = off[n + 1] /\ q.at \in [Fields(off, all, n) -> Nat] /\ Holds(q, off, all, n)
    BY <1>1, Encoded
  <1> HIDE DEF q
  <1>4. r.magic = magic /\ r.size = off[n + 1] /\ r.at = q.at
    BY <1>3
  <1>5. Holds(r, off, all, n)
    BY <1>3, <1>4 DEF Holds, Runtime!Run
  <1>6. r = [magic |-> magic, size |-> off[n + 1], at |-> r.at]
    BY <1>3, <1>4
  <1>7. \A k \in 1..n : DOMAIN all[k].values = 1..Len(all[k].values)
    <2>1. \A k \in 1..n : all[k] \in Parts
      BY <1>1
    <2> QED BY <2>1 DEF Parts
  <1> HIDE DEF r, n
  <1>8. ASSUME b = [magic |-> magic, size |-> off[n + 1], at |-> b.at],
               b.at \in [Fields(off, all, n) -> Nat], Holds(b, off, all, n)
        PROVE r = b
    <2>1. DOMAIN b.at = Fields(off, all, n) /\ DOMAIN r.at = Fields(off, all, n)
      BY <1>3, <1>4, <1>8
    <2>2. \A o \in DOMAIN b.at : b.at[o] = r.at[o]
      BY <1>5, <1>7, <1>8, <2>1, SameFields
    <2>3. b.at = r.at
      BY <1>3, <1>4, <1>8, <2>1, <2>2
    <2> QED BY <1>6, <1>8, <2>3
  <1>9. ASSUME r = b
        PROVE /\ b = [magic |-> magic, size |-> off[n + 1], at |-> b.at]
              /\ b.at \in [Fields(off, all, n) -> Nat] /\ Holds(b, off, all, n)
    BY <1>3, <1>4, <1>5, <1>6, <1>9
  <1> QED BY <1>2, <1>8, <1>9 DEF n

(* The same for the numbers of parts the forms have.  A part of `count`    *)
(* fields that start at `from` and end at `to`.                            *)
Spans(part, count, from, to) ==
  part \in Parts /\ Len(part.values) = count /\ to = from + (part.width * count)
ListedFour(parts, p1, p2, p3, p4, c1, c2, c3, c4, o2, o3, o4, size) ==
  /\ parts = <<p1, p2, p3, p4>>
  /\ o2 \in Nat /\ o3 \in Nat /\ o4 \in Nat /\ size \in Nat
  /\ Spans(p1, c1, 12, o2)
  /\ Spans(p2, c2, o2, o3)
  /\ Spans(p3, c3, o3, o4)
  /\ Spans(p4, c4, o4, size)
HeldFour(b, magic, major, minor, p1, p2, p3, p4, c1, c2, c3, c4, o2, o3, o4, size) ==
  /\ b = [magic |-> magic, size |-> size, at |-> b.at]
  /\ b.at \in [Starts(8, 2, 2) \cup Starts(12, p1.width, c1) \cup
              Starts(o2, p2.width, c2) \cup Starts(o3, p3.width, c3) \cup
              Starts(o4, p4.width, c4) -> Nat]
  /\ Runtime!Shorts(b, 8, <<major, minor>>)
  /\ Runtime!Run(b, 12, p1.width, p1.values)
  /\ Runtime!Run(b, o2, p2.width, p2.values)
  /\ Runtime!Run(b, o3, p3.width, p3.values)
  /\ Runtime!Run(b, o4, p4.width, p4.values)

(* Four parts.                                                             *)
LEMMA PackedFour ==
  ASSUME NEW b, NEW magic, NEW parts, NEW major \in Nat, NEW minor \in Nat, NEW p1,
         NEW p2, NEW p3, NEW p4, NEW c1, NEW c2, NEW c3, NEW c4, NEW o2, NEW o3, NEW o4,
         NEW size,
         ListedFour(parts, p1, p2, p3, p4, c1, c2, c3, c4, o2, o3, o4, size)
  PROVE Packed(magic, major, minor, parts) = b
          <=> HeldFour(b, magic, major, minor, p1, p2, p3, p4, c1, c2, c3, c4, o2, o3, o4, size)
  <1>0. /\ parts = <<p1, p2, p3, p4>>
        /\ o2 \in Nat /\ o3 \in Nat /\ o4 \in Nat /\ size \in Nat
        /\ Spans(p1, c1, 12, o2)
        /\ Spans(p2, c2, o2, o3)
        /\ Spans(p3, c3, o3, o4)
        /\ Spans(p4, c4, o4, size)
    BY DEF ListedFour
  <1> DEFINE u == U16(<<major, minor>>)
             all == <<u, p1, p2, p3, p4>>
             off == <<8, 12, o2, o3, o4, size>>
             follows(k) == off[k + 1] = off[k] + (all[k].width * Len(all[k].values))
  <1>1. u.width = 2 /\ u.values = <<major, minor>> /\ Len(u.values) = 2 /\ u \in Parts
    BY DEF U16, Parts
  <1>2. /\ p1 \in Parts /\ Len(p1.values) = c1 /\ o2 = 12 + (p1.width * c1)
        /\ p2 \in Parts /\ Len(p2.values) = c2 /\ o3 = o2 + (p2.width * c2)
        /\ p3 \in Parts /\ Len(p3.values) = c3 /\ o4 = o3 + (p3.width * c3)
        /\ p4 \in Parts /\ Len(p4.values) = c4 /\ size = o4 + (p4.width * c4)
    BY <1>0 DEF Spans
  <1>3. Versioned(all, major, minor, parts)
    BY <1>0 DEF Versioned
  <1> HIDE DEF u
  <1>4. parts \in Seq(Parts)
    BY <1>0, <1>2
  <1>5. /\ off \in Seq(Nat) /\ Len(all) = 5 /\ Len(off) = 6 /\ off[6] = size
        /\ off[1] = 8 /\ off[2] = 12 /\ off[3] = o2 /\ off[4] = o3 /\ off[5] = o4
    BY <1>0
  <1>6. all[1] = u /\ all[2] = p1 /\ all[3] = p2 /\ all[4] = p3 /\ all[5] = p4
    OBVIOUS
  <1> HIDE DEF all, off
  <1>7. 1..5 = {1, 2, 3, 4, 5} /\ 5 + 1 = 6
    OBVIOUS
  <1>8. Located(off, all)
    <2>1. follows(1)
      <3>1. 12 = 8 + (2 * 2) /\ 1 + 1 = 2
        OBVIOUS
      <3> QED BY ONLY <1>1, <1>5, <1>6, <3>1, Zenon DEF follows
    <2>2. follows(2)
      <3>1. 2 + 1 = 3
        OBVIOUS
      <3> QED BY <1>2, <1>5, <1>6, <3>1, Zenon DEF follows
    <2>3. follows(3)
      <3>1. 3 + 1 = 4
        OBVIOUS
      <3> QED BY <1>2, <1>5, <1>6, <3>1, Zenon DEF follows
    <2>4. follows(4)
      <3>1. 4 + 1 = 5
        OBVIOUS
      <3> QED BY <1>2, <1>5, <1>6, <3>1, Zenon DEF follows
    <2>5. follows(5)
      <3>1. 5 + 1 = 6
        OBVIOUS
      <3> QED BY <1>2, <1>5, <1>6, <3>1, Zenon DEF follows
    <2> HIDE DEF follows
    <2>6. \A k \in 1..5 : follows(k)
      BY ONLY <2>1, <2>2, <2>3, <2>4, <2>5, <1>7
    <2> QED BY <1>5, <2>6 DEF Located, follows
  <1>9. Packed(magic, major, minor, parts) = b
          <=> /\ b = [magic |-> magic, size |-> off[Len(all) + 1], at |-> b.at]
              /\ b.at \in [Fields(off, all, Len(all)) -> Nat] /\ Holds(b, off, all, Len(all))
    BY ONLY major \in Nat, minor \in Nat, <1>3, <1>4, <1>8, PackedIs
  <1>10. Fields(off, all, 5) =
          Starts(off[1], all[1].width, Len(all[1].values)) \cup
          Starts(off[2], all[2].width, Len(all[2].values)) \cup
          Starts(off[3], all[3].width, Len(all[3].values)) \cup
          Starts(off[4], all[4].width, Len(all[4].values)) \cup
          Starts(off[5], all[5].width, Len(all[5].values))
    BY ONLY <1>7 DEF Fields
  <1>11. Fields(off, all, 5) =
          Starts(8, 2, 2) \cup Starts(12, p1.width, c1) \cup Starts(o2, p2.width, c2) \cup
          Starts(o3, p3.width, c3) \cup Starts(o4, p4.width, c4)
    BY ONLY <1>1, <1>2, <1>5, <1>6, <1>10
  <1>12. Holds(b, off, all, 5)
           <=> /\ Runtime!Run(b, off[1], all[1].width, all[1].values)
               /\ Runtime!Run(b, off[2], all[2].width, all[2].values)
               /\ Runtime!Run(b, off[3], all[3].width, all[3].values)
               /\ Runtime!Run(b, off[4], all[4].width, all[4].values)
               /\ Runtime!Run(b, off[5], all[5].width, all[5].values)
    BY ONLY <1>7 DEF Holds
  <1>13. Holds(b, off, all, 5)
           <=> /\ Runtime!Shorts(b, 8, <<major, minor>>)
               /\ Runtime!Run(b, 12, p1.width, p1.values)
               /\ Runtime!Run(b, o2, p2.width, p2.values)
               /\ Runtime!Run(b, o3, p3.width, p3.values)
               /\ Runtime!Run(b, o4, p4.width, p4.values)
    BY ONLY <1>1, <1>5, <1>6, <1>12 DEF Runtime!Shorts
  <1> QED BY ONLY <1>5, <1>7, <1>9, <1>11, <1>13 DEF HeldFour

ListedFive(parts, p1, p2, p3, p4, p5, c1, c2, c3, c4, c5, o2, o3, o4, o5, size) ==
  /\ parts = <<p1, p2, p3, p4, p5>>
  /\ o2 \in Nat /\ o3 \in Nat /\ o4 \in Nat /\ o5 \in Nat /\ size \in Nat
  /\ Spans(p1, c1, 12, o2)
  /\ Spans(p2, c2, o2, o3)
  /\ Spans(p3, c3, o3, o4)
  /\ Spans(p4, c4, o4, o5)
  /\ Spans(p5, c5, o5, size)
HeldFive(b, magic, major, minor, p1, p2, p3, p4, p5, c1, c2, c3, c4, c5, o2, o3, o4, o5,
        size) ==
  /\ b = [magic |-> magic, size |-> size, at |-> b.at]
  /\ b.at \in [Starts(8, 2, 2) \cup Starts(12, p1.width, c1) \cup
              Starts(o2, p2.width, c2) \cup Starts(o3, p3.width, c3) \cup
              Starts(o4, p4.width, c4) \cup Starts(o5, p5.width, c5) -> Nat]
  /\ Runtime!Shorts(b, 8, <<major, minor>>)
  /\ Runtime!Run(b, 12, p1.width, p1.values)
  /\ Runtime!Run(b, o2, p2.width, p2.values)
  /\ Runtime!Run(b, o3, p3.width, p3.values)
  /\ Runtime!Run(b, o4, p4.width, p4.values)
  /\ Runtime!Run(b, o5, p5.width, p5.values)

(* Five parts.                                                             *)
LEMMA PackedFive ==
  ASSUME NEW b, NEW magic, NEW parts, NEW major \in Nat, NEW minor \in Nat, NEW p1,
         NEW p2, NEW p3, NEW p4, NEW p5, NEW c1, NEW c2, NEW c3, NEW c4, NEW c5, NEW o2,
         NEW o3, NEW o4, NEW o5, NEW size,
         ListedFive(parts, p1, p2, p3, p4, p5, c1, c2, c3, c4, c5, o2, o3, o4, o5, size)
  PROVE Packed(magic, major, minor, parts) = b
          <=> HeldFive(b, magic, major, minor, p1, p2, p3, p4, p5, c1, c2, c3, c4, c5, o2, o3, o4, o5, size)
  <1>0. /\ parts = <<p1, p2, p3, p4, p5>>
        /\ o2 \in Nat /\ o3 \in Nat /\ o4 \in Nat /\ o5 \in Nat /\ size \in Nat
        /\ Spans(p1, c1, 12, o2)
        /\ Spans(p2, c2, o2, o3)
        /\ Spans(p3, c3, o3, o4)
        /\ Spans(p4, c4, o4, o5)
        /\ Spans(p5, c5, o5, size)
    BY DEF ListedFive
  <1> DEFINE u == U16(<<major, minor>>)
             all == <<u, p1, p2, p3, p4, p5>>
             off == <<8, 12, o2, o3, o4, o5, size>>
             follows(k) == off[k + 1] = off[k] + (all[k].width * Len(all[k].values))
  <1>1. u.width = 2 /\ u.values = <<major, minor>> /\ Len(u.values) = 2 /\ u \in Parts
    BY DEF U16, Parts
  <1>2. /\ p1 \in Parts /\ Len(p1.values) = c1 /\ o2 = 12 + (p1.width * c1)
        /\ p2 \in Parts /\ Len(p2.values) = c2 /\ o3 = o2 + (p2.width * c2)
        /\ p3 \in Parts /\ Len(p3.values) = c3 /\ o4 = o3 + (p3.width * c3)
        /\ p4 \in Parts /\ Len(p4.values) = c4 /\ o5 = o4 + (p4.width * c4)
        /\ p5 \in Parts /\ Len(p5.values) = c5 /\ size = o5 + (p5.width * c5)
    BY <1>0 DEF Spans
  <1>3. Versioned(all, major, minor, parts)
    BY <1>0 DEF Versioned
  <1> HIDE DEF u
  <1>4. parts \in Seq(Parts)
    BY <1>0, <1>2
  <1>5. /\ off \in Seq(Nat) /\ Len(all) = 6 /\ Len(off) = 7 /\ off[7] = size
        /\ off[1] = 8 /\ off[2] = 12 /\ off[3] = o2 /\ off[4] = o3 /\ off[5] = o4 /\ off[6] = o5
    BY <1>0
  <1>6. all[1] = u /\ all[2] = p1 /\ all[3] = p2 /\ all[4] = p3 /\ all[5] = p4 /\ all[6] = p5
    OBVIOUS
  <1> HIDE DEF all, off
  <1>7. 1..6 = {1, 2, 3, 4, 5, 6} /\ 6 + 1 = 7
    OBVIOUS
  <1>8. Located(off, all)
    <2>1. follows(1)
      <3>1. 12 = 8 + (2 * 2) /\ 1 + 1 = 2
        OBVIOUS
      <3> QED BY ONLY <1>1, <1>5, <1>6, <3>1, Zenon DEF follows
    <2>2. follows(2)
      <3>1. 2 + 1 = 3
        OBVIOUS
      <3> QED BY <1>2, <1>5, <1>6, <3>1, Zenon DEF follows
    <2>3. follows(3)
      <3>1. 3 + 1 = 4
        OBVIOUS
      <3> QED BY <1>2, <1>5, <1>6, <3>1, Zenon DEF follows
    <2>4. follows(4)
      <3>1. 4 + 1 = 5
        OBVIOUS
      <3> QED BY <1>2, <1>5, <1>6, <3>1, Zenon DEF follows
    <2>5. follows(5)
      <3>1. 5 + 1 = 6
        OBVIOUS
      <3> QED BY <1>2, <1>5, <1>6, <3>1, Zenon DEF follows
    <2>6. follows(6)
      <3>1. 6 + 1 = 7
        OBVIOUS
      <3> QED BY <1>2, <1>5, <1>6, <3>1, Zenon DEF follows
    <2> HIDE DEF follows
    <2>7. \A k \in 1..6 : follows(k)
      BY ONLY <2>1, <2>2, <2>3, <2>4, <2>5, <2>6, <1>7
    <2> QED BY <1>5, <2>7 DEF Located, follows
  <1>9. Packed(magic, major, minor, parts) = b
          <=> /\ b = [magic |-> magic, size |-> off[Len(all) + 1], at |-> b.at]
              /\ b.at \in [Fields(off, all, Len(all)) -> Nat] /\ Holds(b, off, all, Len(all))
    BY ONLY major \in Nat, minor \in Nat, <1>3, <1>4, <1>8, PackedIs
  <1>10. Fields(off, all, 6) =
          Starts(off[1], all[1].width, Len(all[1].values)) \cup
          Starts(off[2], all[2].width, Len(all[2].values)) \cup
          Starts(off[3], all[3].width, Len(all[3].values)) \cup
          Starts(off[4], all[4].width, Len(all[4].values)) \cup
          Starts(off[5], all[5].width, Len(all[5].values)) \cup
          Starts(off[6], all[6].width, Len(all[6].values))
    BY ONLY <1>7 DEF Fields
  <1>11. Fields(off, all, 6) =
          Starts(8, 2, 2) \cup Starts(12, p1.width, c1) \cup Starts(o2, p2.width, c2) \cup
          Starts(o3, p3.width, c3) \cup Starts(o4, p4.width, c4) \cup
          Starts(o5, p5.width, c5)
    BY ONLY <1>1, <1>2, <1>5, <1>6, <1>10
  <1>12. Holds(b, off, all, 6)
           <=> /\ Runtime!Run(b, off[1], all[1].width, all[1].values)
               /\ Runtime!Run(b, off[2], all[2].width, all[2].values)
               /\ Runtime!Run(b, off[3], all[3].width, all[3].values)
               /\ Runtime!Run(b, off[4], all[4].width, all[4].values)
               /\ Runtime!Run(b, off[5], all[5].width, all[5].values)
               /\ Runtime!Run(b, off[6], all[6].width, all[6].values)
    BY ONLY <1>7 DEF Holds
  <1>13. Holds(b, off, all, 6)
           <=> /\ Runtime!Shorts(b, 8, <<major, minor>>)
               /\ Runtime!Run(b, 12, p1.width, p1.values)
               /\ Runtime!Run(b, o2, p2.width, p2.values)
               /\ Runtime!Run(b, o3, p3.width, p3.values)
               /\ Runtime!Run(b, o4, p4.width, p4.values)
               /\ Runtime!Run(b, o5, p5.width, p5.values)
    BY ONLY <1>1, <1>5, <1>6, <1>12 DEF Runtime!Shorts
  <1> QED BY ONLY <1>5, <1>7, <1>9, <1>11, <1>13 DEF HeldFive

ListedSix(parts, p1, p2, p3, p4, p5, p6, c1, c2, c3, c4, c5, c6, o2, o3, o4, o5, o6, size) ==
  /\ parts = <<p1, p2, p3, p4, p5, p6>>
  /\ o2 \in Nat /\ o3 \in Nat /\ o4 \in Nat /\ o5 \in Nat /\ o6 \in Nat /\ size \in Nat
  /\ Spans(p1, c1, 12, o2)
  /\ Spans(p2, c2, o2, o3)
  /\ Spans(p3, c3, o3, o4)
  /\ Spans(p4, c4, o4, o5)
  /\ Spans(p5, c5, o5, o6)
  /\ Spans(p6, c6, o6, size)
HeldSix(b, magic, major, minor, p1, p2, p3, p4, p5, p6, c1, c2, c3, c4, c5, c6, o2, o3,
        o4, o5, o6, size) ==
  /\ b = [magic |-> magic, size |-> size, at |-> b.at]
  /\ b.at \in [Starts(8, 2, 2) \cup Starts(12, p1.width, c1) \cup
              Starts(o2, p2.width, c2) \cup Starts(o3, p3.width, c3) \cup
              Starts(o4, p4.width, c4) \cup Starts(o5, p5.width, c5) \cup
              Starts(o6, p6.width, c6) -> Nat]
  /\ Runtime!Shorts(b, 8, <<major, minor>>)
  /\ Runtime!Run(b, 12, p1.width, p1.values)
  /\ Runtime!Run(b, o2, p2.width, p2.values)
  /\ Runtime!Run(b, o3, p3.width, p3.values)
  /\ Runtime!Run(b, o4, p4.width, p4.values)
  /\ Runtime!Run(b, o5, p5.width, p5.values)
  /\ Runtime!Run(b, o6, p6.width, p6.values)

(* Six parts.                                                              *)
LEMMA PackedSix ==
  ASSUME NEW b, NEW magic, NEW parts, NEW major \in Nat, NEW minor \in Nat, NEW p1,
         NEW p2, NEW p3, NEW p4, NEW p5, NEW p6, NEW c1, NEW c2, NEW c3, NEW c4, NEW c5,
         NEW c6, NEW o2, NEW o3, NEW o4, NEW o5, NEW o6, NEW size,
         ListedSix(parts, p1, p2, p3, p4, p5, p6, c1, c2, c3, c4, c5, c6, o2, o3, o4, o5, o6, size)
  PROVE Packed(magic, major, minor, parts) = b
          <=> HeldSix(b, magic, major, minor, p1, p2, p3, p4, p5, p6, c1, c2, c3, c4, c5, c6, o2, o3, o4, o5, o6, size)
  <1>0. /\ parts = <<p1, p2, p3, p4, p5, p6>>
        /\ o2 \in Nat /\ o3 \in Nat /\ o4 \in Nat /\ o5 \in Nat /\ o6 \in Nat /\ size \in Nat
        /\ Spans(p1, c1, 12, o2)
        /\ Spans(p2, c2, o2, o3)
        /\ Spans(p3, c3, o3, o4)
        /\ Spans(p4, c4, o4, o5)
        /\ Spans(p5, c5, o5, o6)
        /\ Spans(p6, c6, o6, size)
    BY DEF ListedSix
  <1> DEFINE u == U16(<<major, minor>>)
             all == <<u, p1, p2, p3, p4, p5, p6>>
             off == <<8, 12, o2, o3, o4, o5, o6, size>>
             follows(k) == off[k + 1] = off[k] + (all[k].width * Len(all[k].values))
  <1>1. u.width = 2 /\ u.values = <<major, minor>> /\ Len(u.values) = 2 /\ u \in Parts
    BY DEF U16, Parts
  <1>2. /\ p1 \in Parts /\ Len(p1.values) = c1 /\ o2 = 12 + (p1.width * c1)
        /\ p2 \in Parts /\ Len(p2.values) = c2 /\ o3 = o2 + (p2.width * c2)
        /\ p3 \in Parts /\ Len(p3.values) = c3 /\ o4 = o3 + (p3.width * c3)
        /\ p4 \in Parts /\ Len(p4.values) = c4 /\ o5 = o4 + (p4.width * c4)
        /\ p5 \in Parts /\ Len(p5.values) = c5 /\ o6 = o5 + (p5.width * c5)
        /\ p6 \in Parts /\ Len(p6.values) = c6 /\ size = o6 + (p6.width * c6)
    BY <1>0 DEF Spans
  <1>3. Versioned(all, major, minor, parts)
    BY <1>0 DEF Versioned
  <1> HIDE DEF u
  <1>4. parts \in Seq(Parts)
    BY <1>0, <1>2
  <1>5. /\ off \in Seq(Nat) /\ Len(all) = 7 /\ Len(off) = 8 /\ off[8] = size
        /\ off[1] = 8 /\ off[2] = 12 /\ off[3] = o2 /\ off[4] = o3 /\ off[5] = o4 /\ off[6] = o5 /\ off[7] = o6
    BY <1>0
  <1>6. all[1] = u /\ all[2] = p1 /\ all[3] = p2 /\ all[4] = p3 /\ all[5] = p4 /\ all[6] = p5 /\ all[7] = p6
    OBVIOUS
  <1> HIDE DEF all, off
  <1>7. 1..7 = {1, 2, 3, 4, 5, 6, 7} /\ 7 + 1 = 8
    OBVIOUS
  <1>8. Located(off, all)
    <2>1. follows(1)
      <3>1. 12 = 8 + (2 * 2) /\ 1 + 1 = 2
        OBVIOUS
      <3> QED BY ONLY <1>1, <1>5, <1>6, <3>1, Zenon DEF follows
    <2>2. follows(2)
      <3>1. 2 + 1 = 3
        OBVIOUS
      <3> QED BY <1>2, <1>5, <1>6, <3>1, Zenon DEF follows
    <2>3. follows(3)
      <3>1. 3 + 1 = 4
        OBVIOUS
      <3> QED BY <1>2, <1>5, <1>6, <3>1, Zenon DEF follows
    <2>4. follows(4)
      <3>1. 4 + 1 = 5
        OBVIOUS
      <3> QED BY <1>2, <1>5, <1>6, <3>1, Zenon DEF follows
    <2>5. follows(5)
      <3>1. 5 + 1 = 6
        OBVIOUS
      <3> QED BY <1>2, <1>5, <1>6, <3>1, Zenon DEF follows
    <2>6. follows(6)
      <3>1. 6 + 1 = 7
        OBVIOUS
      <3> QED BY <1>2, <1>5, <1>6, <3>1, Zenon DEF follows
    <2>7. follows(7)
      <3>1. 7 + 1 = 8
        OBVIOUS
      <3> QED BY <1>2, <1>5, <1>6, <3>1, Zenon DEF follows
    <2> HIDE DEF follows
    <2>8. \A k \in 1..7 : follows(k)
      BY ONLY <2>1, <2>2, <2>3, <2>4, <2>5, <2>6, <2>7, <1>7
    <2> QED BY <1>5, <2>8 DEF Located, follows
  <1>9. Packed(magic, major, minor, parts) = b
          <=> /\ b = [magic |-> magic, size |-> off[Len(all) + 1], at |-> b.at]
              /\ b.at \in [Fields(off, all, Len(all)) -> Nat] /\ Holds(b, off, all, Len(all))
    BY ONLY major \in Nat, minor \in Nat, <1>3, <1>4, <1>8, PackedIs
  <1>10. Fields(off, all, 7) =
          Starts(off[1], all[1].width, Len(all[1].values)) \cup
          Starts(off[2], all[2].width, Len(all[2].values)) \cup
          Starts(off[3], all[3].width, Len(all[3].values)) \cup
          Starts(off[4], all[4].width, Len(all[4].values)) \cup
          Starts(off[5], all[5].width, Len(all[5].values)) \cup
          Starts(off[6], all[6].width, Len(all[6].values)) \cup
          Starts(off[7], all[7].width, Len(all[7].values))
    BY ONLY <1>7 DEF Fields
  <1>11. Fields(off, all, 7) =
          Starts(8, 2, 2) \cup Starts(12, p1.width, c1) \cup Starts(o2, p2.width, c2) \cup
          Starts(o3, p3.width, c3) \cup Starts(o4, p4.width, c4) \cup
          Starts(o5, p5.width, c5) \cup Starts(o6, p6.width, c6)
    BY ONLY <1>1, <1>2, <1>5, <1>6, <1>10
  <1>12. Holds(b, off, all, 7)
           <=> /\ Runtime!Run(b, off[1], all[1].width, all[1].values)
               /\ Runtime!Run(b, off[2], all[2].width, all[2].values)
               /\ Runtime!Run(b, off[3], all[3].width, all[3].values)
               /\ Runtime!Run(b, off[4], all[4].width, all[4].values)
               /\ Runtime!Run(b, off[5], all[5].width, all[5].values)
               /\ Runtime!Run(b, off[6], all[6].width, all[6].values)
               /\ Runtime!Run(b, off[7], all[7].width, all[7].values)
    BY ONLY <1>7 DEF Holds
  <1>13. Holds(b, off, all, 7)
           <=> /\ Runtime!Shorts(b, 8, <<major, minor>>)
               /\ Runtime!Run(b, 12, p1.width, p1.values)
               /\ Runtime!Run(b, o2, p2.width, p2.values)
               /\ Runtime!Run(b, o3, p3.width, p3.values)
               /\ Runtime!Run(b, o4, p4.width, p4.values)
               /\ Runtime!Run(b, o5, p5.width, p5.values)
               /\ Runtime!Run(b, o6, p6.width, p6.values)
    BY ONLY <1>1, <1>5, <1>6, <1>12 DEF Runtime!Shorts
  <1> QED BY ONLY <1>5, <1>7, <1>9, <1>11, <1>13 DEF HeldSix

ListedSeven(parts, p1, p2, p3, p4, p5, p6, p7, c1, c2, c3, c4, c5, c6, c7, o2, o3, o4, o5,
        o6, o7, size) ==
  /\ parts = <<p1, p2, p3, p4, p5, p6, p7>>
  /\ o2 \in Nat /\ o3 \in Nat /\ o4 \in Nat /\ o5 \in Nat /\ o6 \in Nat /\ o7 \in Nat /\ size \in Nat
  /\ Spans(p1, c1, 12, o2)
  /\ Spans(p2, c2, o2, o3)
  /\ Spans(p3, c3, o3, o4)
  /\ Spans(p4, c4, o4, o5)
  /\ Spans(p5, c5, o5, o6)
  /\ Spans(p6, c6, o6, o7)
  /\ Spans(p7, c7, o7, size)
HeldSeven(b, magic, major, minor, p1, p2, p3, p4, p5, p6, p7, c1, c2, c3, c4, c5, c6, c7,
        o2, o3, o4, o5, o6, o7, size) ==
  /\ b = [magic |-> magic, size |-> size, at |-> b.at]
  /\ b.at \in [Starts(8, 2, 2) \cup Starts(12, p1.width, c1) \cup
              Starts(o2, p2.width, c2) \cup Starts(o3, p3.width, c3) \cup
              Starts(o4, p4.width, c4) \cup Starts(o5, p5.width, c5) \cup
              Starts(o6, p6.width, c6) \cup Starts(o7, p7.width, c7) -> Nat]
  /\ Runtime!Shorts(b, 8, <<major, minor>>)
  /\ Runtime!Run(b, 12, p1.width, p1.values)
  /\ Runtime!Run(b, o2, p2.width, p2.values)
  /\ Runtime!Run(b, o3, p3.width, p3.values)
  /\ Runtime!Run(b, o4, p4.width, p4.values)
  /\ Runtime!Run(b, o5, p5.width, p5.values)
  /\ Runtime!Run(b, o6, p6.width, p6.values)
  /\ Runtime!Run(b, o7, p7.width, p7.values)

(* Seven parts.                                                            *)
LEMMA PackedSeven ==
  ASSUME NEW b, NEW magic, NEW parts, NEW major \in Nat, NEW minor \in Nat, NEW p1,
         NEW p2, NEW p3, NEW p4, NEW p5, NEW p6, NEW p7, NEW c1, NEW c2, NEW c3, NEW c4,
         NEW c5, NEW c6, NEW c7, NEW o2, NEW o3, NEW o4, NEW o5, NEW o6, NEW o7,
         NEW size,
         ListedSeven(parts, p1, p2, p3, p4, p5, p6, p7, c1, c2, c3, c4, c5, c6, c7, o2, o3, o4, o5, o6, o7, size)
  PROVE Packed(magic, major, minor, parts) = b
          <=> HeldSeven(b, magic, major, minor, p1, p2, p3, p4, p5, p6, p7, c1, c2, c3, c4, c5, c6, c7, o2, o3, o4, o5, o6, o7, size)
  <1>0. /\ parts = <<p1, p2, p3, p4, p5, p6, p7>>
        /\ o2 \in Nat /\ o3 \in Nat /\ o4 \in Nat /\ o5 \in Nat /\ o6 \in Nat /\ o7 \in Nat /\ size \in Nat
        /\ Spans(p1, c1, 12, o2)
        /\ Spans(p2, c2, o2, o3)
        /\ Spans(p3, c3, o3, o4)
        /\ Spans(p4, c4, o4, o5)
        /\ Spans(p5, c5, o5, o6)
        /\ Spans(p6, c6, o6, o7)
        /\ Spans(p7, c7, o7, size)
    BY DEF ListedSeven
  <1> DEFINE u == U16(<<major, minor>>)
             all == <<u, p1, p2, p3, p4, p5, p6, p7>>
             off == <<8, 12, o2, o3, o4, o5, o6, o7, size>>
             follows(k) == off[k + 1] = off[k] + (all[k].width * Len(all[k].values))
  <1>1. u.width = 2 /\ u.values = <<major, minor>> /\ Len(u.values) = 2 /\ u \in Parts
    BY DEF U16, Parts
  <1>2. /\ p1 \in Parts /\ Len(p1.values) = c1 /\ o2 = 12 + (p1.width * c1)
        /\ p2 \in Parts /\ Len(p2.values) = c2 /\ o3 = o2 + (p2.width * c2)
        /\ p3 \in Parts /\ Len(p3.values) = c3 /\ o4 = o3 + (p3.width * c3)
        /\ p4 \in Parts /\ Len(p4.values) = c4 /\ o5 = o4 + (p4.width * c4)
        /\ p5 \in Parts /\ Len(p5.values) = c5 /\ o6 = o5 + (p5.width * c5)
        /\ p6 \in Parts /\ Len(p6.values) = c6 /\ o7 = o6 + (p6.width * c6)
        /\ p7 \in Parts /\ Len(p7.values) = c7 /\ size = o7 + (p7.width * c7)
    BY <1>0 DEF Spans
  <1>3. Versioned(all, major, minor, parts)
    BY <1>0 DEF Versioned
  <1> HIDE DEF u
  <1>4. parts \in Seq(Parts)
    BY <1>0, <1>2
  <1>5. /\ off \in Seq(Nat) /\ Len(all) = 8 /\ Len(off) = 9 /\ off[9] = size
        /\ off[1] = 8 /\ off[2] = 12 /\ off[3] = o2 /\ off[4] = o3 /\ off[5] = o4 /\ off[6] = o5 /\ off[7] = o6 /\ off[8] = o7
    BY <1>0
  <1>6. all[1] = u /\ all[2] = p1 /\ all[3] = p2 /\ all[4] = p3 /\ all[5] = p4 /\ all[6] = p5 /\ all[7] = p6 /\ all[8] = p7
    OBVIOUS
  <1> HIDE DEF all, off
  <1>7. 1..8 = {1, 2, 3, 4, 5, 6, 7, 8} /\ 8 + 1 = 9
    OBVIOUS
  <1>8. Located(off, all)
    <2>1. follows(1)
      <3>1. 12 = 8 + (2 * 2) /\ 1 + 1 = 2
        OBVIOUS
      <3> QED BY ONLY <1>1, <1>5, <1>6, <3>1, Zenon DEF follows
    <2>2. follows(2)
      <3>1. 2 + 1 = 3
        OBVIOUS
      <3> QED BY <1>2, <1>5, <1>6, <3>1, Zenon DEF follows
    <2>3. follows(3)
      <3>1. 3 + 1 = 4
        OBVIOUS
      <3> QED BY <1>2, <1>5, <1>6, <3>1, Zenon DEF follows
    <2>4. follows(4)
      <3>1. 4 + 1 = 5
        OBVIOUS
      <3> QED BY <1>2, <1>5, <1>6, <3>1, Zenon DEF follows
    <2>5. follows(5)
      <3>1. 5 + 1 = 6
        OBVIOUS
      <3> QED BY <1>2, <1>5, <1>6, <3>1, Zenon DEF follows
    <2>6. follows(6)
      <3>1. 6 + 1 = 7
        OBVIOUS
      <3> QED BY <1>2, <1>5, <1>6, <3>1, Zenon DEF follows
    <2>7. follows(7)
      <3>1. 7 + 1 = 8
        OBVIOUS
      <3> QED BY <1>2, <1>5, <1>6, <3>1, Zenon DEF follows
    <2>8. follows(8)
      <3>1. 8 + 1 = 9
        OBVIOUS
      <3> QED BY <1>2, <1>5, <1>6, <3>1, Zenon DEF follows
    <2> HIDE DEF follows
    <2>9. \A k \in 1..8 : follows(k)
      BY ONLY <2>1, <2>2, <2>3, <2>4, <2>5, <2>6, <2>7, <2>8, <1>7
    <2> QED BY <1>5, <2>9 DEF Located, follows
  <1>9. Packed(magic, major, minor, parts) = b
          <=> /\ b = [magic |-> magic, size |-> off[Len(all) + 1], at |-> b.at]
              /\ b.at \in [Fields(off, all, Len(all)) -> Nat] /\ Holds(b, off, all, Len(all))
    BY ONLY major \in Nat, minor \in Nat, <1>3, <1>4, <1>8, PackedIs
  <1>10. Fields(off, all, 8) =
          Starts(off[1], all[1].width, Len(all[1].values)) \cup
          Starts(off[2], all[2].width, Len(all[2].values)) \cup
          Starts(off[3], all[3].width, Len(all[3].values)) \cup
          Starts(off[4], all[4].width, Len(all[4].values)) \cup
          Starts(off[5], all[5].width, Len(all[5].values)) \cup
          Starts(off[6], all[6].width, Len(all[6].values)) \cup
          Starts(off[7], all[7].width, Len(all[7].values)) \cup
          Starts(off[8], all[8].width, Len(all[8].values))
    BY ONLY <1>7 DEF Fields
  <1>11. Fields(off, all, 8) =
          Starts(8, 2, 2) \cup Starts(12, p1.width, c1) \cup Starts(o2, p2.width, c2) \cup
          Starts(o3, p3.width, c3) \cup Starts(o4, p4.width, c4) \cup
          Starts(o5, p5.width, c5) \cup Starts(o6, p6.width, c6) \cup
          Starts(o7, p7.width, c7)
    BY ONLY <1>1, <1>2, <1>5, <1>6, <1>10
  <1>12. Holds(b, off, all, 8)
           <=> /\ Runtime!Run(b, off[1], all[1].width, all[1].values)
               /\ Runtime!Run(b, off[2], all[2].width, all[2].values)
               /\ Runtime!Run(b, off[3], all[3].width, all[3].values)
               /\ Runtime!Run(b, off[4], all[4].width, all[4].values)
               /\ Runtime!Run(b, off[5], all[5].width, all[5].values)
               /\ Runtime!Run(b, off[6], all[6].width, all[6].values)
               /\ Runtime!Run(b, off[7], all[7].width, all[7].values)
               /\ Runtime!Run(b, off[8], all[8].width, all[8].values)
    BY ONLY <1>7 DEF Holds
  <1>13. Holds(b, off, all, 8)
           <=> /\ Runtime!Shorts(b, 8, <<major, minor>>)
               /\ Runtime!Run(b, 12, p1.width, p1.values)
               /\ Runtime!Run(b, o2, p2.width, p2.values)
               /\ Runtime!Run(b, o3, p3.width, p3.values)
               /\ Runtime!Run(b, o4, p4.width, p4.values)
               /\ Runtime!Run(b, o5, p5.width, p5.values)
               /\ Runtime!Run(b, o6, p6.width, p6.values)
               /\ Runtime!Run(b, o7, p7.width, p7.values)
    BY ONLY <1>1, <1>5, <1>6, <1>12 DEF Runtime!Shorts
  <1> QED BY ONLY <1>5, <1>7, <1>9, <1>11, <1>13 DEF HeldSeven
-----------------------------------------------------------------------------

(* The layout of each form: where its fields start, and its size.          *)

(* Words, longs, a digest and reserved bytes behind the version.           *)
Framed(words, longs) ==
  Starts(8, 2, 2) \cup Starts(12, 4, words) \cup Starts(12 + (4 * words), 8, longs)
    \cup {12 + (4 * words) + (8 * longs), 44 + (4 * words) + (8 * longs)}

(* The fused GELU product holds its width behind the digest.               *)
GeluMulFields == Starts(8, 2, 2) \cup {12, 16, 24, 32, 64, 68}

(* The library attention ends in two commits.                              *)
FlashFields == Starts(8, 2, 2) \cup Starts(12, 4, 21) \cup Starts(96, 8, 5) \cup {136, 156, 176}

(* The exact attention with a product library holds two algorithms.        *)
RoundedFields ==
  Starts(8, 2, 2) \cup Starts(12, 4, 7) \cup {40, 48, 80, 84, 88, 168} \cup Starts(96, 4, 18)

(* An elementwise kernel holds alignments behind the digest.               *)
CudaFields ==
  Starts(8, 2, 2) \cup Starts(12, 4, 9) \cup {48, 56, 64, 112} \cup Starts(96, 4, 4)

(* The product of cuBLASLt: shape and strides, the algorithm in seven words *)
(* and two shorts, alignments.                                             *)
Product ==
  Starts(8, 2, 2) \cup Starts(12, 4, 14) \cup Starts(68, 8, 8) \cup Starts(132, 4, 7)
    \cup Starts(160, 2, 2) \cup Starts(164, 4, 5) \cup {184}

(* The offsets at which the fields of a form start.                        *)
Layout(magic) ==
  CASE magic = "AIRMS1" -> Framed(21, 4)
    [] magic = "AILNR1" -> Framed(20, 5)
    [] magic \in {"AITEM1", "AISLC1", "AISMD1", "AIPIA1", "AIKVS1", "AIKVP1"} -> Framed(20, 6)
    [] magic = "AIARM1" -> Framed(25, 5)
    [] magic = "AIVAT1" -> Framed(22, 6)
    [] magic = "AIROP1" -> Framed(25, 4)
    [] magic \in {"AIMAD1"} \cup CompactGateForms -> Framed(1, 2)
    [] magic \in {"AIPSP1", "AIQRP1"} -> Framed(5, 1)
    [] magic = "AISTU1" -> Framed(1, 4)
    [] magic = "AIRAT1" -> Framed(7, 1)
    [] magic \in {"AIRAT2", "AIRAT3"} -> RoundedFields
    [] magic \in GeluMulForms -> GeluMulFields
    [] magic = "AICUKR1" -> CudaFields
    [] magic = "AIFIAT1" -> FlashFields
    [] magic = "AILTMM1" -> Product
    [] magic = "AIPPA1" -> Framed(24, 6) \cup {192 + o : o \in Product}

(* The size of a form's payload.                                           *)
Extent(magic) ==
  CASE magic \in {"AIMAD1", "AIPSP1", "AIQRP1", "AISTU1", "AIRAT1", "AICUKR1"}
                   \cup CompactGateForms \cup GeluMulForms -> 128
    [] magic = "AIPPA1" -> 384
    [] OTHER -> 192

(* The forms there are.                                                    *)
Magics == {"AIRMS1", "AILNR1", "AITEM1", "AISLC1", "AIARM1", "AIVAT1", "AISMD1", "AIPIA1",
           "AIKVS1", "AIROP1", "AIKVP1", "AICUKR1", "AIFIAT1", "AIMAD1", "AIPSP1", "AIQRP1",
           "AISTU1", "AILTMM1", "AIPPA1"} \cup GeluMulForms \cup CompactGateForms \cup RoundedForms

(* A payload has the size of its form, and a number in each of its fields. *)
LaidWhole(b) ==
  /\ b = [magic |-> b.magic, size |-> b.size, at |-> b.at] /\ b.magic \in Magics
  /\ b.size = Extent(b.magic) /\ b.at \in [Layout(b.magic) -> Nat]

(* A single field.                                                         *)
LEMMA OneStart == ASSUME NEW o \in Nat, NEW width \in Nat PROVE Starts(o, width, 1) = {o}
  <1>1. 1..1 = {1} /\ o + (width * (1 - 1)) = o
    OBVIOUS
  <1> QED BY <1>1 DEF Starts

(* A run of one value is a field.                                          *)
LEMMA OneField ==
  ASSUME NEW b, NEW o \in Nat, NEW width \in Nat, NEW v
  PROVE Runtime!Run(b, o, width, <<v>>) <=> (o \in DOMAIN b.at /\ b.at[o] = v)
  <1>1. 1..1 = {1} /\ o + (width * (1 - 1)) = o /\ DOMAIN <<v>> = 1..1 /\ <<v>>[1] = v
    OBVIOUS
  <1> QED BY <1>1 DEF Runtime!Run

(* A run of one field of eight bytes.                                      *)
LEMMA LongsOne ==
  ASSUME NEW b, NEW o \in Nat, NEW v
  PROVE Runtime!Longs(b, o, <<v>>) <=> (o \in DOMAIN b.at /\ b.at[o] = v)
  BY OneField DEF Runtime!Longs

(* A run of two fields of eight bytes each.                                *)
LEMMA LongsTwo ==
  ASSUME NEW b, NEW o \in Nat, NEW v1, NEW v2
  PROVE Runtime!Longs(b, o, <<v1, v2>>)
          <=> /\ o \in DOMAIN b.at /\ b.at[o] = v1
              /\ o + 8 \in DOMAIN b.at /\ b.at[o + 8] = v2
  <1> DEFINE v == <<v1, v2>>
             at(i) == o + (8 * (i - 1))
             Good(i) == at(i) \in DOMAIN b.at /\ b.at[at(i)] = v[i]
  <1>1. DOMAIN v = 1..2 /\ v[1] = v1 /\ v[2] = v2
    OBVIOUS
  <1>2. at(1) = o /\ at(2) = o + 8
    BY SMT
  <1> HIDE DEF v
  <1>3. Runtime!Longs(b, o, v) <=> \A i \in 1..2 : Good(i)
    BY ONLY <1>1, Zenon DEF Runtime!Longs, Runtime!Run, Good, at
  <1> HIDE DEF Good
  <1>4. (\A i \in 1..2 : Good(i)) <=> Good(1) /\ Good(2)
    <2>1. \A i \in 1..2 : i = 1 \/ i = 2
      BY SMT
    <2>2. 1 \in 1..2 /\ 2 \in 1..2
      BY SMT
    <2> QED BY ONLY <2>1, <2>2, Zenon
  <1> HIDE DEF at
  <1>5. /\ Good(1) <=> (o \in DOMAIN b.at /\ b.at[o] = v1)
        /\ Good(2) <=> (o + 8 \in DOMAIN b.at /\ b.at[o + 8] = v2)
    BY ONLY <1>1, <1>2, Zenon DEF Good
  <1> QED BY ONLY <1>3, <1>4, <1>5, Zenon DEF v

(* A run of three fields of eight bytes each.                              *)
LEMMA LongsThree ==
  ASSUME NEW b, NEW o \in Nat, NEW v1, NEW v2, NEW v3
  PROVE Runtime!Longs(b, o, <<v1, v2, v3>>)
          <=> /\ o \in DOMAIN b.at /\ b.at[o] = v1
              /\ o + 8 \in DOMAIN b.at /\ b.at[o + 8] = v2
              /\ o + 16 \in DOMAIN b.at /\ b.at[o + 16] = v3
  <1> DEFINE v == <<v1, v2, v3>>
             at(i) == o + (8 * (i - 1))
             Good(i) == at(i) \in DOMAIN b.at /\ b.at[at(i)] = v[i]
  <1>1. DOMAIN v = 1..3 /\ v[1] = v1 /\ v[2] = v2 /\ v[3] = v3
    OBVIOUS
  <1>2. at(1) = o /\ at(2) = o + 8 /\ at(3) = o + 16
    BY SMT
  <1> HIDE DEF v
  <1>3. Runtime!Longs(b, o, v) <=> \A i \in 1..3 : Good(i)
    BY ONLY <1>1, Zenon DEF Runtime!Longs, Runtime!Run, Good, at
  <1> HIDE DEF Good
  <1>4. (\A i \in 1..3 : Good(i)) <=> Good(1) /\ Good(2) /\ Good(3)
    <2>1. \A i \in 1..3 : i = 1 \/ i = 2 \/ i = 3
      BY SMT
    <2>2. 1 \in 1..3 /\ 2 \in 1..3 /\ 3 \in 1..3
      BY SMT
    <2> QED BY ONLY <2>1, <2>2, Zenon
  <1> HIDE DEF at
  <1>5. /\ Good(1) <=> (o \in DOMAIN b.at /\ b.at[o] = v1)
        /\ Good(2) <=> (o + 8 \in DOMAIN b.at /\ b.at[o + 8] = v2)
        /\ Good(3) <=> (o + 16 \in DOMAIN b.at /\ b.at[o + 16] = v3)
    BY ONLY <1>1, <1>2, Zenon DEF Good
  <1> QED BY ONLY <1>3, <1>4, <1>5, Zenon DEF v

(* A run of four fields of eight bytes each.                               *)
LEMMA LongsFour ==
  ASSUME NEW b, NEW o \in Nat, NEW v1, NEW v2, NEW v3, NEW v4
  PROVE Runtime!Longs(b, o, <<v1, v2, v3, v4>>)
          <=> /\ o \in DOMAIN b.at /\ b.at[o] = v1
              /\ o + 8 \in DOMAIN b.at /\ b.at[o + 8] = v2
              /\ o + 16 \in DOMAIN b.at /\ b.at[o + 16] = v3
              /\ o + 24 \in DOMAIN b.at /\ b.at[o + 24] = v4
  <1> DEFINE v == <<v1, v2, v3, v4>>
             at(i) == o + (8 * (i - 1))
             Good(i) == at(i) \in DOMAIN b.at /\ b.at[at(i)] = v[i]
  <1>1. DOMAIN v = 1..4 /\ v[1] = v1 /\ v[2] = v2 /\ v[3] = v3 /\ v[4] = v4
    OBVIOUS
  <1>2. at(1) = o /\ at(2) = o + 8 /\ at(3) = o + 16 /\ at(4) = o + 24
    BY SMT
  <1> HIDE DEF v
  <1>3. Runtime!Longs(b, o, v) <=> \A i \in 1..4 : Good(i)
    BY ONLY <1>1, Zenon DEF Runtime!Longs, Runtime!Run, Good, at
  <1> HIDE DEF Good
  <1>4. (\A i \in 1..4 : Good(i)) <=> Good(1) /\ Good(2) /\ Good(3) /\ Good(4)
    <2>1. \A i \in 1..4 : i = 1 \/ i = 2 \/ i = 3 \/ i = 4
      BY SMT
    <2>2. 1 \in 1..4 /\ 2 \in 1..4 /\ 3 \in 1..4 /\ 4 \in 1..4
      BY SMT
    <2> QED BY ONLY <2>1, <2>2, Zenon
  <1> HIDE DEF at
  <1>5. /\ Good(1) <=> (o \in DOMAIN b.at /\ b.at[o] = v1)
        /\ Good(2) <=> (o + 8 \in DOMAIN b.at /\ b.at[o + 8] = v2)
        /\ Good(3) <=> (o + 16 \in DOMAIN b.at /\ b.at[o + 16] = v3)
        /\ Good(4) <=> (o + 24 \in DOMAIN b.at /\ b.at[o + 24] = v4)
    BY ONLY <1>1, <1>2, Zenon DEF Good
  <1> QED BY ONLY <1>3, <1>4, <1>5, Zenon DEF v

(* A run of five fields of eight bytes each.                               *)
LEMMA LongsFive ==
  ASSUME NEW b, NEW o \in Nat, NEW v1, NEW v2, NEW v3, NEW v4, NEW v5
  PROVE Runtime!Longs(b, o, <<v1, v2, v3, v4, v5>>)
          <=> /\ o \in DOMAIN b.at /\ b.at[o] = v1
              /\ o + 8 \in DOMAIN b.at /\ b.at[o + 8] = v2
              /\ o + 16 \in DOMAIN b.at /\ b.at[o + 16] = v3
              /\ o + 24 \in DOMAIN b.at /\ b.at[o + 24] = v4
              /\ o + 32 \in DOMAIN b.at /\ b.at[o + 32] = v5
  <1> DEFINE v == <<v1, v2, v3, v4, v5>>
             at(i) == o + (8 * (i - 1))
             Good(i) == at(i) \in DOMAIN b.at /\ b.at[at(i)] = v[i]
  <1>1. DOMAIN v = 1..5 /\ v[1] = v1 /\ v[2] = v2 /\ v[3] = v3 /\ v[4] = v4 /\ v[5] = v5
    OBVIOUS
  <1>2. at(1) = o /\ at(2) = o + 8 /\ at(3) = o + 16 /\ at(4) = o + 24 /\ at(5) = o + 32
    BY SMT
  <1> HIDE DEF v
  <1>3. Runtime!Longs(b, o, v) <=> \A i \in 1..5 : Good(i)
    BY ONLY <1>1, Zenon DEF Runtime!Longs, Runtime!Run, Good, at
  <1> HIDE DEF Good
  <1>4. (\A i \in 1..5 : Good(i)) <=> Good(1) /\ Good(2) /\ Good(3) /\ Good(4) /\ Good(5)
    <2>1. \A i \in 1..5 : i = 1 \/ i = 2 \/ i = 3 \/ i = 4 \/ i = 5
      BY SMT
    <2>2. 1 \in 1..5 /\ 2 \in 1..5 /\ 3 \in 1..5 /\ 4 \in 1..5 /\ 5 \in 1..5
      BY SMT
    <2> QED BY ONLY <2>1, <2>2, Zenon
  <1> HIDE DEF at
  <1>5. /\ Good(1) <=> (o \in DOMAIN b.at /\ b.at[o] = v1)
        /\ Good(2) <=> (o + 8 \in DOMAIN b.at /\ b.at[o + 8] = v2)
        /\ Good(3) <=> (o + 16 \in DOMAIN b.at /\ b.at[o + 16] = v3)
        /\ Good(4) <=> (o + 24 \in DOMAIN b.at /\ b.at[o + 24] = v4)
        /\ Good(5) <=> (o + 32 \in DOMAIN b.at /\ b.at[o + 32] = v5)
    BY ONLY <1>1, <1>2, Zenon DEF Good
  <1> QED BY ONLY <1>3, <1>4, <1>5, Zenon DEF v

(* The six fields of eight bytes behind twenty words.                      *)
LEMMA LongsSix92 ==
  ASSUME NEW b, NEW v1, NEW v2, NEW v3, NEW v4, NEW v5, NEW v6
  PROVE Runtime!Longs(b, 92, <<v1, v2, v3, v4, v5, v6>>)
          <=> /\ 92 \in DOMAIN b.at /\ b.at[92] = v1
              /\ 100 \in DOMAIN b.at /\ b.at[100] = v2
              /\ 108 \in DOMAIN b.at /\ b.at[108] = v3
              /\ 116 \in DOMAIN b.at /\ b.at[116] = v4
              /\ 124 \in DOMAIN b.at /\ b.at[124] = v5
              /\ 132 \in DOMAIN b.at /\ b.at[132] = v6
  <1> DEFINE v == <<v1, v2, v3, v4, v5, v6>>
             at(i) == 92 + (8 * (i - 1))
             Good(i) == at(i) \in DOMAIN b.at /\ b.at[at(i)] = v[i]
  <1>1. DOMAIN v = 1..6 /\ v[1] = v1 /\ v[2] = v2 /\ v[3] = v3 /\ v[4] = v4 /\ v[5] = v5 /\ v[6] = v6
    OBVIOUS
  <1>2. at(1) = 92 /\ at(2) = 100 /\ at(3) = 108 /\ at(4) = 116 /\ at(5) = 124 /\ at(6) = 132
    BY SMT
  <1> HIDE DEF v
  <1>3. Runtime!Longs(b, 92, v) <=> \A i \in 1..6 : Good(i)
    BY ONLY <1>1, Zenon DEF Runtime!Longs, Runtime!Run, Good, at
  <1> HIDE DEF Good
  <1>4. (\A i \in 1..6 : Good(i)) <=> Good(1) /\ Good(2) /\ Good(3) /\ Good(4) /\ Good(5) /\ Good(6)
    <2>1. \A i \in 1..6 : i = 1 \/ i = 2 \/ i = 3 \/ i = 4 \/ i = 5 \/ i = 6
      BY SMT
    <2>2. 1 \in 1..6 /\ 2 \in 1..6 /\ 3 \in 1..6 /\ 4 \in 1..6 /\ 5 \in 1..6 /\ 6 \in 1..6
      BY SMT
    <2> QED BY ONLY <2>1, <2>2, Zenon
  <1> HIDE DEF at
  <1>5. /\ Good(1) <=> (92 \in DOMAIN b.at /\ b.at[92] = v1)
        /\ Good(2) <=> (100 \in DOMAIN b.at /\ b.at[100] = v2)
        /\ Good(3) <=> (108 \in DOMAIN b.at /\ b.at[108] = v3)
        /\ Good(4) <=> (116 \in DOMAIN b.at /\ b.at[116] = v4)
        /\ Good(5) <=> (124 \in DOMAIN b.at /\ b.at[124] = v5)
        /\ Good(6) <=> (132 \in DOMAIN b.at /\ b.at[132] = v6)
    BY ONLY <1>1, <1>2, ZenonT(60) DEF Good
  <1> QED BY ONLY <1>3, <1>4, <1>5, ZenonT(60) DEF v

(* The six fields of eight bytes behind twenty-two words.                  *)
LEMMA LongsSix100 ==
  ASSUME NEW b, NEW v1, NEW v2, NEW v3, NEW v4, NEW v5, NEW v6
  PROVE Runtime!Longs(b, 100, <<v1, v2, v3, v4, v5, v6>>)
          <=> /\ 100 \in DOMAIN b.at /\ b.at[100] = v1
              /\ 108 \in DOMAIN b.at /\ b.at[108] = v2
              /\ 116 \in DOMAIN b.at /\ b.at[116] = v3
              /\ 124 \in DOMAIN b.at /\ b.at[124] = v4
              /\ 132 \in DOMAIN b.at /\ b.at[132] = v5
              /\ 140 \in DOMAIN b.at /\ b.at[140] = v6
  <1> DEFINE v == <<v1, v2, v3, v4, v5, v6>>
             at(i) == 100 + (8 * (i - 1))
             Good(i) == at(i) \in DOMAIN b.at /\ b.at[at(i)] = v[i]
  <1>1. DOMAIN v = 1..6 /\ v[1] = v1 /\ v[2] = v2 /\ v[3] = v3 /\ v[4] = v4 /\ v[5] = v5 /\ v[6] = v6
    OBVIOUS
  <1>2. at(1) = 100 /\ at(2) = 108 /\ at(3) = 116 /\ at(4) = 124 /\ at(5) = 132 /\ at(6) = 140
    BY SMT
  <1> HIDE DEF v
  <1>3. Runtime!Longs(b, 100, v) <=> \A i \in 1..6 : Good(i)
    BY ONLY <1>1, Zenon DEF Runtime!Longs, Runtime!Run, Good, at
  <1> HIDE DEF Good
  <1>4. (\A i \in 1..6 : Good(i)) <=> Good(1) /\ Good(2) /\ Good(3) /\ Good(4) /\ Good(5) /\ Good(6)
    <2>1. \A i \in 1..6 : i = 1 \/ i = 2 \/ i = 3 \/ i = 4 \/ i = 5 \/ i = 6
      BY SMT
    <2>2. 1 \in 1..6 /\ 2 \in 1..6 /\ 3 \in 1..6 /\ 4 \in 1..6 /\ 5 \in 1..6 /\ 6 \in 1..6
      BY SMT
    <2> QED BY ONLY <2>1, <2>2, Zenon
  <1> HIDE DEF at
  <1>5. /\ Good(1) <=> (100 \in DOMAIN b.at /\ b.at[100] = v1)
        /\ Good(2) <=> (108 \in DOMAIN b.at /\ b.at[108] = v2)
        /\ Good(3) <=> (116 \in DOMAIN b.at /\ b.at[116] = v3)
        /\ Good(4) <=> (124 \in DOMAIN b.at /\ b.at[124] = v4)
        /\ Good(5) <=> (132 \in DOMAIN b.at /\ b.at[132] = v5)
        /\ Good(6) <=> (140 \in DOMAIN b.at /\ b.at[140] = v6)
    BY ONLY <1>1, <1>2, ZenonT(60) DEF Good
  <1> QED BY ONLY <1>3, <1>4, <1>5, Zenon DEF v

TwoThree(b, v1, v2, v3, v4, v5, v6) ==
  Runtime!Longs(b, 92, <<v1, v2, v3, v4, v5, v6>>)
    <=> /\ Runtime!Longs(b, 92, <<v1, v2>>)
        /\ Runtime!Longs(b, 116, <<v4, v5, v6>>)
        /\ 108 \in DOMAIN b.at /\ b.at[108] = v3

(* The fields around the size can be compared apart.                       *)
LEMMA LongsTwoThree ==
  ASSUME NEW b, NEW v1, NEW v2, NEW v3, NEW v4, NEW v5, NEW v6
  PROVE TwoThree(b, v1, v2, v3, v4, v5, v6)
  <1>1. Runtime!Longs(b, 92, <<v1, v2, v3, v4, v5, v6>>)
          <=> /\ 92 \in DOMAIN b.at /\ b.at[92] = v1
              /\ 100 \in DOMAIN b.at /\ b.at[100] = v2
              /\ 108 \in DOMAIN b.at /\ b.at[108] = v3
              /\ 116 \in DOMAIN b.at /\ b.at[116] = v4
              /\ 124 \in DOMAIN b.at /\ b.at[124] = v5
              /\ 132 \in DOMAIN b.at /\ b.at[132] = v6
    BY ONLY LongsSix92, ZenonT(60)
  <1>2. Runtime!Longs(b, 92, <<v1, v2>>)
          <=> /\ 92 \in DOMAIN b.at /\ b.at[92] = v1
              /\ 100 \in DOMAIN b.at /\ b.at[100] = v2
    BY SMT, LongsTwo
  <1>3. Runtime!Longs(b, 116, <<v4, v5, v6>>)
          <=> /\ 116 \in DOMAIN b.at /\ b.at[116] = v4
              /\ 124 \in DOMAIN b.at /\ b.at[124] = v5
              /\ 132 \in DOMAIN b.at /\ b.at[132] = v6
    BY SMT, LongsThree
  <1> QED BY ONLY <1>1, <1>2, <1>3, ZenonT(60) DEF TwoThree

ThreeTwo(b, v1, v2, v3, v4, v5, v6) ==
  Runtime!Longs(b, 92, <<v1, v2, v3, v4, v5, v6>>)
    <=> /\ Runtime!Longs(b, 92, <<v1, v2, v3>>)
        /\ Runtime!Longs(b, 124, <<v5, v6>>)
        /\ 116 \in DOMAIN b.at /\ b.at[116] = v4

(* The same of three fields and two.                                       *)
LEMMA LongsThreeTwo ==
  ASSUME NEW b, NEW v1, NEW v2, NEW v3, NEW v4, NEW v5, NEW v6
  PROVE ThreeTwo(b, v1, v2, v3, v4, v5, v6)
  <1>1. Runtime!Longs(b, 92, <<v1, v2, v3, v4, v5, v6>>)
          <=> /\ 92 \in DOMAIN b.at /\ b.at[92] = v1
              /\ 100 \in DOMAIN b.at /\ b.at[100] = v2
              /\ 108 \in DOMAIN b.at /\ b.at[108] = v3
              /\ 116 \in DOMAIN b.at /\ b.at[116] = v4
              /\ 124 \in DOMAIN b.at /\ b.at[124] = v5
              /\ 132 \in DOMAIN b.at /\ b.at[132] = v6
    BY ONLY LongsSix92, ZenonT(60)
  <1>2. Runtime!Longs(b, 92, <<v1, v2, v3>>)
          <=> /\ 92 \in DOMAIN b.at /\ b.at[92] = v1
              /\ 100 \in DOMAIN b.at /\ b.at[100] = v2
              /\ 108 \in DOMAIN b.at /\ b.at[108] = v3
    BY SMT, LongsThree
  <1>3. Runtime!Longs(b, 124, <<v5, v6>>)
          <=> /\ 124 \in DOMAIN b.at /\ b.at[124] = v5
              /\ 132 \in DOMAIN b.at /\ b.at[132] = v6
    BY SMT, LongsTwo
  <1> QED BY ONLY <1>1, <1>2, <1>3, ZenonT(60) DEF ThreeTwo

FourOne(b, v1, v2, v3, v4, v5, v6) ==
  Runtime!Longs(b, 92, <<v1, v2, v3, v4, v5, v6>>)
    <=> /\ Runtime!Longs(b, 92, <<v1, v2, v3, v4>>)
        /\ Runtime!Longs(b, 132, <<v6>>)
        /\ 124 \in DOMAIN b.at /\ b.at[124] = v5

(* The same of four and one.                                               *)
LEMMA LongsFourOne ==
  ASSUME NEW b, NEW v1, NEW v2, NEW v3, NEW v4, NEW v5, NEW v6
  PROVE FourOne(b, v1, v2, v3, v4, v5, v6)
  <1>1. Runtime!Longs(b, 92, <<v1, v2, v3, v4, v5, v6>>)
          <=> /\ 92 \in DOMAIN b.at /\ b.at[92] = v1
              /\ 100 \in DOMAIN b.at /\ b.at[100] = v2
              /\ 108 \in DOMAIN b.at /\ b.at[108] = v3
              /\ 116 \in DOMAIN b.at /\ b.at[116] = v4
              /\ 124 \in DOMAIN b.at /\ b.at[124] = v5
              /\ 132 \in DOMAIN b.at /\ b.at[132] = v6
    BY ONLY LongsSix92, ZenonT(60)
  <1>2. Runtime!Longs(b, 92, <<v1, v2, v3, v4>>)
          <=> /\ 92 \in DOMAIN b.at /\ b.at[92] = v1
              /\ 100 \in DOMAIN b.at /\ b.at[100] = v2
              /\ 108 \in DOMAIN b.at /\ b.at[108] = v3
              /\ 116 \in DOMAIN b.at /\ b.at[116] = v4
    BY SMT, LongsFour
  <1>3. Runtime!Longs(b, 132, <<v6>>)
          <=> /\ 132 \in DOMAIN b.at /\ b.at[132] = v6
    BY SMT, LongsOne
  <1> QED BY ONLY <1>1, <1>2, <1>3, ZenonT(60) DEF FourOne

FiveAt92(b, v1, v2, v3, v4, v5, v6) ==
  Runtime!Longs(b, 92, <<v1, v2, v3, v4, v5, v6>>)
    <=> /\ Runtime!Longs(b, 92, <<v1, v2, v3, v4, v5>>)
        /\ 132 \in DOMAIN b.at /\ b.at[132] = v6

(* The same of five.                                                       *)
LEMMA LongsFive92 ==
  ASSUME NEW b, NEW v1, NEW v2, NEW v3, NEW v4, NEW v5, NEW v6
  PROVE FiveAt92(b, v1, v2, v3, v4, v5, v6)
  <1>1. Runtime!Longs(b, 92, <<v1, v2, v3, v4, v5, v6>>)
          <=> /\ 92 \in DOMAIN b.at /\ b.at[92] = v1
              /\ 100 \in DOMAIN b.at /\ b.at[100] = v2
              /\ 108 \in DOMAIN b.at /\ b.at[108] = v3
              /\ 116 \in DOMAIN b.at /\ b.at[116] = v4
              /\ 124 \in DOMAIN b.at /\ b.at[124] = v5
              /\ 132 \in DOMAIN b.at /\ b.at[132] = v6
    BY ONLY LongsSix92, ZenonT(60)
  <1>2. Runtime!Longs(b, 92, <<v1, v2, v3, v4, v5>>)
          <=> /\ 92 \in DOMAIN b.at /\ b.at[92] = v1
              /\ 100 \in DOMAIN b.at /\ b.at[100] = v2
              /\ 108 \in DOMAIN b.at /\ b.at[108] = v3
              /\ 116 \in DOMAIN b.at /\ b.at[116] = v4
              /\ 124 \in DOMAIN b.at /\ b.at[124] = v5
    BY SMT, LongsFive
  <1> QED BY ONLY <1>1, <1>2, ZenonT(60) DEF FiveAt92

FiveAt100(b, v1, v2, v3, v4, v5, v6) ==
  Runtime!Longs(b, 100, <<v1, v2, v3, v4, v5, v6>>)
    <=> /\ Runtime!Longs(b, 100, <<v1, v2, v3, v4, v5>>)
        /\ 140 \in DOMAIN b.at /\ b.at[140] = v6

(* The same of five, behind twenty-two words.                              *)
LEMMA LongsFive100 ==
  ASSUME NEW b, NEW v1, NEW v2, NEW v3, NEW v4, NEW v5, NEW v6
  PROVE FiveAt100(b, v1, v2, v3, v4, v5, v6)
  <1>1. Runtime!Longs(b, 100, <<v1, v2, v3, v4, v5, v6>>)
          <=> /\ 100 \in DOMAIN b.at /\ b.at[100] = v1
              /\ 108 \in DOMAIN b.at /\ b.at[108] = v2
              /\ 116 \in DOMAIN b.at /\ b.at[116] = v3
              /\ 124 \in DOMAIN b.at /\ b.at[124] = v4
              /\ 132 \in DOMAIN b.at /\ b.at[132] = v5
              /\ 140 \in DOMAIN b.at /\ b.at[140] = v6
    BY ONLY LongsSix100, ZenonT(60)
  <1>2. Runtime!Longs(b, 100, <<v1, v2, v3, v4, v5>>)
          <=> /\ 100 \in DOMAIN b.at /\ b.at[100] = v1
              /\ 108 \in DOMAIN b.at /\ b.at[108] = v2
              /\ 116 \in DOMAIN b.at /\ b.at[116] = v3
              /\ 124 \in DOMAIN b.at /\ b.at[124] = v4
              /\ 132 \in DOMAIN b.at /\ b.at[132] = v5
    BY SMT, LongsFive
  <1> QED BY ONLY <1>1, <1>2, ZenonT(60) DEF FiveAt100

(* A run of one field of four bytes.                                       *)
LEMMA WordsOne ==
  ASSUME NEW b, NEW o \in Nat, NEW v
  PROVE Runtime!Words(b, o, <<v>>) <=> (o \in DOMAIN b.at /\ b.at[o] = v)
  BY OneField DEF Runtime!Words

(* A run of four fields of four bytes each.                                *)
LEMMA WordsFour ==
  ASSUME NEW b, NEW o \in Nat, NEW v1, NEW v2, NEW v3, NEW v4
  PROVE Runtime!Words(b, o, <<v1, v2, v3, v4>>)
          <=> /\ o \in DOMAIN b.at /\ b.at[o] = v1
              /\ o + 4 \in DOMAIN b.at /\ b.at[o + 4] = v2
              /\ o + 8 \in DOMAIN b.at /\ b.at[o + 8] = v3
              /\ o + 12 \in DOMAIN b.at /\ b.at[o + 12] = v4
  <1> DEFINE v == <<v1, v2, v3, v4>>
             at(i) == o + (4 * (i - 1))
             Good(i) == at(i) \in DOMAIN b.at /\ b.at[at(i)] = v[i]
  <1>1. DOMAIN v = 1..4 /\ v[1] = v1 /\ v[2] = v2 /\ v[3] = v3 /\ v[4] = v4
    OBVIOUS
  <1>2. at(1) = o /\ at(2) = o + 4 /\ at(3) = o + 8 /\ at(4) = o + 12
    BY SMT
  <1> HIDE DEF v
  <1>3. Runtime!Words(b, o, v) <=> \A i \in 1..4 : Good(i)
    BY ONLY <1>1, Zenon DEF Runtime!Words, Runtime!Run, Good, at
  <1> HIDE DEF Good
  <1>4. (\A i \in 1..4 : Good(i)) <=> Good(1) /\ Good(2) /\ Good(3) /\ Good(4)
    <2>1. \A i \in 1..4 : i = 1 \/ i = 2 \/ i = 3 \/ i = 4
      BY SMT
    <2>2. 1 \in 1..4 /\ 2 \in 1..4 /\ 3 \in 1..4 /\ 4 \in 1..4
      BY SMT
    <2> QED BY ONLY <2>1, <2>2, Zenon
  <1> HIDE DEF at
  <1>5. /\ Good(1) <=> (o \in DOMAIN b.at /\ b.at[o] = v1)
        /\ Good(2) <=> (o + 4 \in DOMAIN b.at /\ b.at[o + 4] = v2)
        /\ Good(3) <=> (o + 8 \in DOMAIN b.at /\ b.at[o + 8] = v3)
        /\ Good(4) <=> (o + 12 \in DOMAIN b.at /\ b.at[o + 12] = v4)
    BY ONLY <1>1, <1>2, Zenon DEF Good
  <1> QED BY ONLY <1>3, <1>4, <1>5, Zenon DEF v

(* A run of five fields of four bytes each.                                *)
LEMMA WordsFive ==
  ASSUME NEW b, NEW o \in Nat, NEW v1, NEW v2, NEW v3, NEW v4, NEW v5
  PROVE Runtime!Words(b, o, <<v1, v2, v3, v4, v5>>)
          <=> /\ o \in DOMAIN b.at /\ b.at[o] = v1
              /\ o + 4 \in DOMAIN b.at /\ b.at[o + 4] = v2
              /\ o + 8 \in DOMAIN b.at /\ b.at[o + 8] = v3
              /\ o + 12 \in DOMAIN b.at /\ b.at[o + 12] = v4
              /\ o + 16 \in DOMAIN b.at /\ b.at[o + 16] = v5
  <1> DEFINE v == <<v1, v2, v3, v4, v5>>
             at(i) == o + (4 * (i - 1))
             Good(i) == at(i) \in DOMAIN b.at /\ b.at[at(i)] = v[i]
  <1>1. DOMAIN v = 1..5 /\ v[1] = v1 /\ v[2] = v2 /\ v[3] = v3 /\ v[4] = v4 /\ v[5] = v5
    OBVIOUS
  <1>2. at(1) = o /\ at(2) = o + 4 /\ at(3) = o + 8 /\ at(4) = o + 12 /\ at(5) = o + 16
    BY SMT
  <1> HIDE DEF v
  <1>3. Runtime!Words(b, o, v) <=> \A i \in 1..5 : Good(i)
    BY ONLY <1>1, Zenon DEF Runtime!Words, Runtime!Run, Good, at
  <1> HIDE DEF Good
  <1>4. (\A i \in 1..5 : Good(i)) <=> Good(1) /\ Good(2) /\ Good(3) /\ Good(4) /\ Good(5)
    <2>1. \A i \in 1..5 : i = 1 \/ i = 2 \/ i = 3 \/ i = 4 \/ i = 5
      BY SMT
    <2>2. 1 \in 1..5 /\ 2 \in 1..5 /\ 3 \in 1..5 /\ 4 \in 1..5 /\ 5 \in 1..5
      BY SMT
    <2> QED BY ONLY <2>1, <2>2, Zenon
  <1> HIDE DEF at
  <1>5. /\ Good(1) <=> (o \in DOMAIN b.at /\ b.at[o] = v1)
        /\ Good(2) <=> (o + 4 \in DOMAIN b.at /\ b.at[o + 4] = v2)
        /\ Good(3) <=> (o + 8 \in DOMAIN b.at /\ b.at[o + 8] = v3)
        /\ Good(4) <=> (o + 12 \in DOMAIN b.at /\ b.at[o + 12] = v4)
        /\ Good(5) <=> (o + 16 \in DOMAIN b.at /\ b.at[o + 16] = v5)
    BY ONLY <1>1, <1>2, Zenon DEF Good
  <1> QED BY ONLY <1>3, <1>4, <1>5, Zenon DEF v

SevenAt12(b, v1, v2, v3, v4, v5, v6, v7) ==
  Runtime!Words(b, 12, <<v1, v2, v3, v4, v5, v6, v7>>)
    <=> /\ 12 \in DOMAIN b.at /\ b.at[12] = v1
        /\ 16 \in DOMAIN b.at /\ b.at[16] = v2
        /\ 20 \in DOMAIN b.at /\ b.at[20] = v3
        /\ 24 \in DOMAIN b.at /\ b.at[24] = v4
        /\ 28 \in DOMAIN b.at /\ b.at[28] = v5
        /\ 32 \in DOMAIN b.at /\ b.at[32] = v6
        /\ 36 \in DOMAIN b.at /\ b.at[36] = v7

(* The seven words behind the version.                                     *)
LEMMA WordsSeven12 ==
  ASSUME NEW b, NEW v1, NEW v2, NEW v3, NEW v4, NEW v5, NEW v6, NEW v7
  PROVE SevenAt12(b, v1, v2, v3, v4, v5, v6, v7)
  <1> DEFINE v == <<v1, v2, v3, v4, v5, v6, v7>>
             at(i) == 12 + (4 * (i - 1))
             Good(i) == at(i) \in DOMAIN b.at /\ b.at[at(i)] = v[i]
  <1>1. DOMAIN v = 1..7 /\ v[1] = v1 /\ v[2] = v2 /\ v[3] = v3 /\ v[4] = v4 /\ v[5] = v5 /\ v[6] = v6 /\ v[7] = v7
    OBVIOUS
  <1>2. at(1) = 12 /\ at(2) = 16 /\ at(3) = 20 /\ at(4) = 24 /\ at(5) = 28 /\ at(6) = 32 /\ at(7) = 36
    BY SMT
  <1> HIDE DEF v
  <1>3. Runtime!Words(b, 12, v) <=> \A i \in 1..7 : Good(i)
    BY ONLY <1>1, Zenon DEF Runtime!Words, Runtime!Run, Good, at
  <1> HIDE DEF Good
  <1>4. (\A i \in 1..7 : Good(i)) <=> Good(1) /\ Good(2) /\ Good(3) /\ Good(4) /\ Good(5) /\ Good(6) /\ Good(7)
    <2>1. \A i \in 1..7 : i = 1 \/ i = 2 \/ i = 3 \/ i = 4 \/ i = 5 \/ i = 6 \/ i = 7
      BY SMT
    <2>2. 1 \in 1..7 /\ 2 \in 1..7 /\ 3 \in 1..7 /\ 4 \in 1..7 /\ 5 \in 1..7 /\ 6 \in 1..7 /\ 7 \in 1..7
      BY SMT
    <2> QED BY ONLY <2>1, <2>2, Zenon
  <1> HIDE DEF at
  <1>5. /\ Good(1) <=> (12 \in DOMAIN b.at /\ b.at[12] = v1)
        /\ Good(2) <=> (16 \in DOMAIN b.at /\ b.at[16] = v2)
        /\ Good(3) <=> (20 \in DOMAIN b.at /\ b.at[20] = v3)
        /\ Good(4) <=> (24 \in DOMAIN b.at /\ b.at[24] = v4)
        /\ Good(5) <=> (28 \in DOMAIN b.at /\ b.at[28] = v5)
        /\ Good(6) <=> (32 \in DOMAIN b.at /\ b.at[32] = v6)
        /\ Good(7) <=> (36 \in DOMAIN b.at /\ b.at[36] = v7)
    BY ONLY <1>1, <1>2, Zenon DEF Good
  <1> QED BY ONLY <1>3, <1>4, <1>5, Zenon DEF v, SevenAt12

(* The second word behind the version.                                     *)
LEMMA SecondWord ==
  ASSUME NEW b, NEW v, 2 \in DOMAIN v, Runtime!Words(b, 12, v)
  PROVE 16 \in DOMAIN b.at /\ b.at[16] = v[2]
  <1>1. 12 + (4 * (2 - 1)) = 16
    BY SMT
  <1> QED BY ONLY <1>1, 2 \in DOMAIN v, Runtime!Words(b, 12, v), Zenon DEF Runtime!Words, Runtime!Run

(* The frame of most forms.                                                *)
Framing(parts, words, longs, sha, tail, w, l) ==
  /\ parts = <<U32(words), U64(longs), Digest(sha), Reserved(tail)>>
  /\ words \in Seq(Nat) /\ longs \in Seq(Nat) /\ sha \in Nat /\ tail \in Nat \ {0}
  /\ Len(words) = w /\ Len(longs) = l

(* A payload of that frame, field by field.                                *)
FramedAs(b, magic, words, longs, sha, tail, w, l) ==
  /\ b = [magic |-> magic, size |-> 44 + (4 * w) + (8 * l) + tail, at |-> b.at]
  /\ b.at \in [Framed(w, l) -> Nat]
  /\ Runtime!Shorts(b, 8, <<1, 0>>) /\ Runtime!Words(b, 12, words)
  /\ Runtime!Longs(b, 12 + (4 * w), longs)
  /\ b.at[12 + (4 * w) + (8 * l)] = sha /\ b.at[44 + (4 * w) + (8 * l)] = 0

(* Packing the parts of a frame writes the frame.                          *)
LEMMA FramedIs ==
  ASSUME NEW b, NEW magic, NEW parts, NEW words, NEW longs, NEW sha, NEW tail, NEW w, NEW l,
         Framing(parts, words, longs, sha, tail, w, l)
  PROVE Packed(magic, 1, 0, parts) = b <=> FramedAs(b, magic, words, longs, sha, tail, w, l)
  <1> DEFINE p1 == U32(words)
             p2 == U64(longs)
             p3 == Digest(sha)
             p4 == Reserved(tail)
             o2 == 12 + (4 * w)
             o3 == 12 + (4 * w) + (8 * l)
             o4 == 44 + (4 * w) + (8 * l)
             size == 44 + (4 * w) + (8 * l) + tail
  <1>0. /\ words \in Seq(Nat) /\ longs \in Seq(Nat) /\ sha \in Nat /\ tail \in Nat \ {0}
        /\ Len(words) = w /\ Len(longs) = l /\ w \in Nat /\ l \in Nat
    BY DEF Framing
  <1>1. /\ p1.width = 4 /\ p1.values = words /\ p2.width = 8 /\ p2.values = longs
        /\ p3.width = 32 /\ p3.values = <<sha>> /\ p4.width = tail /\ p4.values = <<0>>
    BY DEF U32, U64, Digest, Reserved
  <1>2. /\ p1 \in Parts /\ Len(p1.values) = w /\ p2 \in Parts /\ Len(p2.values) = l
        /\ p3 \in Parts /\ Len(p3.values) = 1 /\ p4 \in Parts /\ Len(p4.values) = 1
    BY <1>0 DEF U32, U64, Digest, Reserved, Parts
  <1>20. parts = <<p1, p2, p3, p4>>
    BY DEF Framing
  <1> HIDE DEF p1, p2, p3, p4
  <1>3. /\ o2 \in Nat /\ o3 \in Nat /\ o4 \in Nat /\ size \in Nat
        /\ o2 = 12 + (p1.width * w) /\ o3 = o2 + (p2.width * l) /\ o4 = o3 + (p3.width * 1)
        /\ size = o4 + (p4.width * 1) /\ 0 \in Nat /\ 1 \in Nat
    BY <1>0, <1>1
  <1>4. Framed(w, l) = Starts(8, 2, 2) \cup Starts(12, 4, w) \cup Starts(o2, 8, l) \cup {o3, o4}
    BY DEF Framed
  <1> HIDE DEF o2, o3, o4, size
  <1>5. Packed(magic, 1, 0, parts) = b
          <=> HeldFour(b, magic, 1, 0, p1, p2, p3, p4, w, l, 1, 1, o2, o3, o4, size)
    <2>1. Spans(p1, w, 12, o2) /\ Spans(p2, l, o2, o3) /\ Spans(p3, 1, o3, o4) /\ Spans(p4, 1, o4, size)
      BY <1>2, <1>3 DEF Spans
    <2>2. ListedFour(parts, p1, p2, p3, p4, w, l, 1, 1, o2, o3, o4, size)
      BY <1>3, <1>20, <2>1 DEF ListedFour
    <2> QED BY ONLY <1>3, <2>2, PackedFour
  <1>6. Starts(o3, 32, 1) = {o3} /\ Starts(o4, tail, 1) = {o4}
    BY <1>0, <1>3, OneStart
  <1>7. /\ Runtime!Run(b, o3, 32, <<sha>>) <=> (o3 \in DOMAIN b.at /\ b.at[o3] = sha)
        /\ Runtime!Run(b, o4, tail, <<0>>) <=> (o4 \in DOMAIN b.at /\ b.at[o4] = 0)
    <2>1. o3 \in Nat /\ o4 \in Nat /\ 32 \in Nat /\ tail \in Nat
      BY <1>0, <1>3
    <2> QED BY ONLY <2>1, OneField
  <1>8. b.at \in [Framed(w, l) -> Nat] => o3 \in DOMAIN b.at /\ o4 \in DOMAIN b.at
    BY <1>4
  <1>9. /\ Runtime!Words(b, 12, words) <=> Runtime!Run(b, 12, 4, words)
        /\ Runtime!Longs(b, o2, longs) <=> Runtime!Run(b, o2, 8, longs)
    BY DEF Runtime!Words, Runtime!Longs
  <1>10. Starts(8, 2, 2) \cup Starts(12, p1.width, w) \cup Starts(o2, p2.width, l)
           \cup Starts(o3, p3.width, 1) \cup Starts(o4, p4.width, 1) = Framed(w, l)
    BY <1>1, <1>4, <1>6
  <1>11. Packed(magic, 1, 0, parts) = b
          <=> /\ b = [magic |-> magic, size |-> size, at |-> b.at]
              /\ b.at \in [Framed(w, l) -> Nat]
              /\ Runtime!Shorts(b, 8, <<1, 0>>) /\ Runtime!Words(b, 12, words)
              /\ Runtime!Longs(b, o2, longs) 
              /\ b.at[o3] = sha /\ b.at[o4] = 0
    BY ONLY <1>1, <1>5, <1>7, <1>8, <1>9, <1>10 DEF HeldFour
  <1> QED BY <1>11 DEF FramedAs, o2, o3, o4, size

(* Layer normalisation.                                                    *)
LayerNormWritten(b, bytes, sha) ==
  /\ b = [magic |-> "AILNR1", size |-> 192, at |-> b.at] /\ b.at \in [Framed(20, 5) -> Nat]
  /\ Runtime!Shorts(b, 8, <<1, 0>>)
  /\ Runtime!Words(b, 12, <<120, 1, 1, 1, 1, 256, 1152, 256, 1, 1, 256, 1, 1, 0, 16, 16, 16, 1,
                             1, 897988541>>)
  /\ Runtime!Longs(b, 92, <<1179648, 4608, 4608, 1179648>>)
  /\ b.at[124] = bytes /\ b.at[132] = sha /\ b.at[164] = 0

(* Where the fields of layer normalisation start.                          *)
LEMMA LayerNormLays ==
  /\ Layout("AILNR1") = Framed(20, 5) /\ Extent("AILNR1") = 192
  /\ {124, 132, 164} \subseteq Framed(20, 5)
  <1>1. Layout("AILNR1") = Framed(20, 5) /\ Extent("AILNR1") = 192
    BY DEF Layout, Extent, GeluMulForms, CompactGateForms
  <1>2. 132 \in Framed(20, 5) /\ 164 \in Framed(20, 5)
    BY SMT DEF Framed
  <1>3. 124 \in Framed(20, 5)
    BY SMT DEF Framed, Starts
  <1> QED BY <1>1, <1>2, <1>3

(* to_bytes of layer normalisation writes these fields and no others.      *)
LEMMA LayerNormWrites ==
  ASSUME NEW p, NEW b, p.module \in Modules
  PROVE LayerNormBytes(p) = b <=> LayerNormWritten(b, p.module.bytes, p.module.sha)
  <1> DEFINE bytes == p.module.bytes
             sha == p.module.sha
             words == <<120, 1, 1, 1, 1, 256, 1152, 256, 1, 1, 256, 1, 1, 0, 16, 16, 16, 1, 1,
                         897988541>>
             longs == <<1179648, 4608, 4608, 1179648, bytes>>
             parts == <<U32(words), U64(longs), Digest(sha), Reserved(28)>>
  <1>1. words \in Seq(Nat) /\ Len(words) = 20
    BY SMT
  <1>2. longs \in Seq(Nat) /\ Len(longs) = 5 /\ sha \in Nat
    BY SMT DEF Modules
  <1>3. LayerNormBytes(p) = Packed("AILNR1", 1, 0, parts)
    BY SMT DEF LayerNormBytes, SM120, Epsilon
  <1> HIDE DEF bytes, sha
  <1>4. Runtime!Longs(b, 92, longs)
         <=> /\ Runtime!Longs(b, 92, <<1179648, 4608, 4608, 1179648>>)
             /\ 124 \in DOMAIN b.at /\ b.at[124] = bytes
    BY SMT, LongsFive, LongsFour DEF longs
  <1> HIDE DEF words, longs
  <1>5. Framing(parts, words, longs, sha, 28, 20, 5)
    BY <1>1, <1>2 DEF Framing
  <1> HIDE DEF parts
  <1>6. LayerNormBytes(p) = b <=> FramedAs(b, "AILNR1", words, longs, sha, 28, 20, 5)
    BY <1>3, <1>5, FramedIs
  <1>7. /\ 12 + (4 * 20) = 92 /\ 12 + (4 * 20) + (8 * 5) = 132 /\ 44 + (4 * 20) + (8 * 5) = 164
        /\ 44 + (4 * 20) + (8 * 5) + 28 = 192
    BY SMT
  <1>8. 124 \in Framed(20, 5)
    BY LayerNormLays
  <1>9. FramedAs(b, "AILNR1", words, longs, sha, 28, 20, 5) <=> LayerNormWritten(b, bytes, sha)
    BY SMT, <1>4, <1>7, <1>8 DEF LayerNormWritten, FramedAs, words
  <1> QED BY <1>6, <1>9 DEF bytes, sha

(* A payload of layer normalisation is read back as it was written.        *)
LEMMA LayerNormBack ==
  ASSUME NEW p \in [form : {"AILNR1"}, module : Modules]
  PROVE LaidWhole(Bytes(p)) /\ Read(Bytes(p)) = p
  <1> DEFINE b == Bytes(p)
  <1>1. p = [form |-> "AILNR1", module |-> p.module] /\ p.module = [bytes |-> p.module.bytes, sha |-> p.module.sha]
    BY DEF Modules
  <1>2. b = LayerNormBytes(p)
    BY <1>1 DEF Bytes, GeluMulForms, CompactGateForms, RoundedForms
  <1> HIDE DEF b
  <1>3. LayerNormWritten(b, p.module.bytes, p.module.sha)
    BY <1>2, LayerNormWrites
  <1>4. /\ b = [magic |-> "AILNR1", size |-> 192, at |-> b.at] /\ b.at \in [Framed(20, 5) -> Nat]
        /\ b.at[124] = p.module.bytes /\ b.at[132] = p.module.sha
    BY <1>3 DEF LayerNormWritten
  <1>5. b.magic = "AILNR1" /\ b.size = 192
    BY <1>4
  <1>6. Read(b) = [form |-> b.magic, module |-> [bytes |-> b.at[124], sha |-> b.at[132]]]
    BY <1>5 DEF Read, LayerNormRead, ModuleIn, GeluMulForms, CompactGateForms, RoundedForms
  <1>7. LaidWhole(b)
    BY <1>4, <1>5, LayerNormLays DEF LaidWhole, Magics
  <1> QED BY <1>1, <1>4, <1>5, <1>6, <1>7 DEF b

(* from_bytes and the runtime's parser accept the same payloads of layer   *)
(* normalisation.                                                          *)
LEMMA LayerNormAgree ==
  ASSUME NEW b, LaidWhole(b), b.magic = "AILNR1"
  PROVE Decodes(b) <=> Runtime!Parses(b)
  <1> DEFINE p == Read(b)
             bytes == b.at[124]
             sha == b.at[132]
  <1>1. /\ b = [magic |-> "AILNR1", size |-> 192, at |-> b.at] /\ b.at \in [Framed(20, 5) -> Nat]
        /\ {124, 132, 164} \subseteq DOMAIN b.at /\ b.size = 192
    BY LayerNormLays DEF LaidWhole
  <1>2. bytes \in Nat /\ sha \in Nat
    BY <1>1
  <1>3. p = [form |-> b.magic, module |-> [bytes |-> bytes, sha |-> sha]]
    BY DEF Read, LayerNormRead, ModuleIn, GeluMulForms, CompactGateForms, RoundedForms
  <1>4. p.form = "AILNR1" /\ p.module.bytes = bytes /\ p.module.sha = sha /\ p.module \in Modules
    BY <1>2, <1>3 DEF Modules
  <1> HIDE DEF p
  <1>5. Decodes(b) <=> (bytes > 0 /\ sha # 0 /\ LayerNormWritten(b, bytes, sha))
    <2>1. Bytes(p) = LayerNormBytes(p)
      BY <1>4 DEF Bytes, GeluMulForms, CompactGateForms, RoundedForms
    <2>2. LayerNormBytes(p) = b <=> LayerNormWritten(b, bytes, sha)
      BY <1>4, LayerNormWrites
    <2>3. Valid(p) <=> bytes > 0 /\ sha # 0
      BY <1>4 DEF Valid, ProblemValid, ModuleValid, GeluMulForms, CompactGateForms, RoundedForms
    <2>4. Decodes(b) <=> Valid(p) /\ Bytes(p) = b
      BY DEF Decodes, p
    <2> HIDE DEF bytes, sha
    <2> QED BY <2>1, <2>2, <2>3, <2>4
  <1>6. Runtime!Parses(b) <=> Runtime!LayerNormParses(b)
    BY DEF Runtime!Parses
  <1>7. Runtime!LayerNormParses(b) <=> (bytes # 0 /\ sha # 0 /\ LayerNormWritten(b, bytes, sha))
    BY SMT, <1>1 DEF LayerNormWritten, Runtime!LayerNormParses, Runtime!Sized, Runtime!HasModule, Runtime!Field
  <1> HIDE DEF bytes, sha
  <1> QED BY <1>2, <1>5, <1>6, <1>7

(* Time embedding.                                                         *)
TimeEmbeddingWritten(b, bytes, sha) ==
  /\ b = [magic |-> "AITEM1", size |-> 192, at |-> b.at] /\ b.at \in [Framed(20, 6) -> Nat]
  /\ Runtime!Shorts(b, 8, <<1, 0>>)
  /\ Runtime!Words(b, 12, <<120, 1, 1, 1, 1024, 512, 2, 256, 4, 4, 1, 1, 2, 1, 1, 1, 0, 0, 0, 0>>)
  /\ Runtime!Longs(b, 92, <<4, 4096>>) /\ Runtime!Longs(b, 116, <<4, 4000, 0>>)
  /\ b.at[108] = bytes /\ b.at[140] = sha /\ b.at[172] = 0

(* Where the fields of the time embedding start.                           *)
LEMMA TimeEmbeddingLays ==
  /\ Layout("AITEM1") = Framed(20, 6) /\ Extent("AITEM1") = 192
  /\ {108, 140, 172} \subseteq Framed(20, 6)
  <1>1. Layout("AITEM1") = Framed(20, 6) /\ Extent("AITEM1") = 192
    BY DEF Layout, Extent, GeluMulForms, CompactGateForms
  <1>2. 140 \in Framed(20, 6) /\ 172 \in Framed(20, 6)
    BY SMT DEF Framed
  <1>3. 108 \in Framed(20, 6)
    BY SMT DEF Framed, Starts
  <1> QED BY <1>1, <1>2, <1>3

(* to_bytes of the time embedding writes these fields and no others.       *)
LEMMA TimeEmbeddingWrites ==
  ASSUME NEW p, NEW b, p.module \in Modules
  PROVE TimeEmbeddingBytes(p) = b <=> TimeEmbeddingWritten(b, p.module.bytes, p.module.sha)
  <1> DEFINE bytes == p.module.bytes
             sha == p.module.sha
             words == <<120, 1, 1, 1, 1024, 512, 2, 256, 4, 4, 1, 1, 2, 1, 1, 1, 0, 0, 0, 0>>
             longs == <<4, 4096, bytes, 4, 4000, 0>>
             parts == <<U32(words), U64(longs), Digest(sha), Reserved(20)>>
  <1>1. words \in Seq(Nat) /\ Len(words) = 20
    BY SMT
  <1>2. longs \in Seq(Nat) /\ Len(longs) = 6 /\ sha \in Nat
    BY SMT DEF Modules
  <1>3. TimeEmbeddingBytes(p) = Packed("AITEM1", 1, 0, parts)
    BY SMT DEF TimeEmbeddingBytes, SM120
  <1> HIDE DEF bytes, sha
  <1>4. Runtime!Longs(b, 92, longs)
         <=> /\ Runtime!Longs(b, 92, <<4, 4096>>)
             /\ Runtime!Longs(b, 116, <<4, 4000, 0>>)
             /\ 108 \in DOMAIN b.at /\ b.at[108] = bytes
    <2> DEFINE a1 == 4
               a2 == 4096
               a4 == 4
               a5 == 4000
               a6 == 0
    <2> HIDE DEF a1, a2, a4, a5, a6
    <2>1. TwoThree(b, a1, a2, bytes, a4, a5, a6)
      BY ONLY LongsTwoThree, Zenon
    <2> QED BY ONLY <2>1 DEF TwoThree, longs, a1, a2, a4, a5, a6
  <1> HIDE DEF words, longs
  <1>5. Framing(parts, words, longs, sha, 20, 20, 6)
    BY <1>1, <1>2 DEF Framing
  <1> HIDE DEF parts
  <1>6. TimeEmbeddingBytes(p) = b <=> FramedAs(b, "AITEM1", words, longs, sha, 20, 20, 6)
    BY <1>3, <1>5, FramedIs
  <1>7. /\ 12 + (4 * 20) = 92 /\ 12 + (4 * 20) + (8 * 6) = 140 /\ 44 + (4 * 20) + (8 * 6) = 172
        /\ 44 + (4 * 20) + (8 * 6) + 20 = 192
    BY SMT
  <1>8. 108 \in Framed(20, 6)
    BY TimeEmbeddingLays
  <1>9. FramedAs(b, "AITEM1", words, longs, sha, 20, 20, 6) <=> TimeEmbeddingWritten(b, bytes, sha)
    BY SMT, <1>4, <1>7, <1>8 DEF TimeEmbeddingWritten, FramedAs, words
  <1> QED BY <1>6, <1>9 DEF bytes, sha

(* A payload of the time embedding is read back as it was written.         *)
LEMMA TimeEmbeddingBack ==
  ASSUME NEW p \in [form : {"AITEM1"}, module : Modules]
  PROVE LaidWhole(Bytes(p)) /\ Read(Bytes(p)) = p
  <1> DEFINE b == Bytes(p)
  <1>1. p = [form |-> "AITEM1", module |-> p.module] /\ p.module = [bytes |-> p.module.bytes, sha |-> p.module.sha]
    BY DEF Modules
  <1>2. b = TimeEmbeddingBytes(p)
    BY <1>1 DEF Bytes, GeluMulForms, CompactGateForms, RoundedForms
  <1> HIDE DEF b
  <1>3. TimeEmbeddingWritten(b, p.module.bytes, p.module.sha)
    BY <1>2, TimeEmbeddingWrites
  <1>4. /\ b = [magic |-> "AITEM1", size |-> 192, at |-> b.at] /\ b.at \in [Framed(20, 6) -> Nat]
        /\ b.at[108] = p.module.bytes /\ b.at[140] = p.module.sha
    BY <1>3 DEF TimeEmbeddingWritten
  <1>5. b.magic = "AITEM1" /\ b.size = 192
    BY <1>4
  <1>6. Read(b) = [form |-> b.magic, module |-> [bytes |-> b.at[108], sha |-> b.at[140]]]
    BY <1>5 DEF Read, TimeEmbeddingRead, ModuleIn, GeluMulForms, CompactGateForms, RoundedForms
  <1>7. LaidWhole(b)
    BY <1>4, <1>5, TimeEmbeddingLays DEF LaidWhole, Magics
  <1> QED BY <1>1, <1>4, <1>5, <1>6, <1>7 DEF b

(* from_bytes and the runtime's parser accept the same payloads of the     *)
(* time embedding.                                                         *)
LEMMA TimeEmbeddingAgree ==
  ASSUME NEW b, LaidWhole(b), b.magic = "AITEM1"
  PROVE Decodes(b) <=> Runtime!Parses(b)
  <1> DEFINE p == Read(b)
             bytes == b.at[108]
             sha == b.at[140]
  <1>1. /\ b = [magic |-> "AITEM1", size |-> 192, at |-> b.at] /\ b.at \in [Framed(20, 6) -> Nat]
        /\ {108, 140, 172} \subseteq DOMAIN b.at /\ b.size = 192
    BY TimeEmbeddingLays DEF LaidWhole
  <1>2. bytes \in Nat /\ sha \in Nat
    BY <1>1
  <1>3. p = [form |-> b.magic, module |-> [bytes |-> bytes, sha |-> sha]]
    BY DEF Read, TimeEmbeddingRead, ModuleIn, GeluMulForms, CompactGateForms, RoundedForms
  <1>4. p.form = "AITEM1" /\ p.module.bytes = bytes /\ p.module.sha = sha /\ p.module \in Modules
    BY <1>2, <1>3 DEF Modules
  <1> HIDE DEF p
  <1>5. Decodes(b) <=> (bytes > 0 /\ sha # 0 /\ TimeEmbeddingWritten(b, bytes, sha))
    <2>1. Bytes(p) = TimeEmbeddingBytes(p)
      BY <1>4 DEF Bytes, GeluMulForms, CompactGateForms, RoundedForms
    <2>2. TimeEmbeddingBytes(p) = b <=> TimeEmbeddingWritten(b, bytes, sha)
      BY <1>4, TimeEmbeddingWrites
    <2>3. Valid(p) <=> bytes > 0 /\ sha # 0
      BY <1>4 DEF Valid, ProblemValid, ModuleValid, GeluMulForms, CompactGateForms, RoundedForms
    <2>4. Decodes(b) <=> Valid(p) /\ Bytes(p) = b
      BY DEF Decodes, p
    <2> HIDE DEF bytes, sha
    <2> QED BY <2>1, <2>2, <2>3, <2>4
  <1>6. Runtime!Parses(b) <=> Runtime!TimeEmbeddingParses(b)
    BY DEF Runtime!Parses
  <1>7. Runtime!TimeEmbeddingParses(b) <=> (bytes # 0 /\ sha # 0 /\ TimeEmbeddingWritten(b, bytes, sha))
    BY SMT, <1>1 DEF TimeEmbeddingWritten, Runtime!TimeEmbeddingParses, Runtime!Sized, Runtime!HasModule, Runtime!Field
  <1> HIDE DEF bytes, sha
  <1> QED BY <1>2, <1>5, <1>6, <1>7

(* Action slice.                                                           *)
ActionSliceWritten(b, bytes, sha) ==
  /\ b = [magic |-> "AISLC1", size |-> 192, at |-> b.at] /\ b.at \in [Framed(20, 6) -> Nat]
  /\ Runtime!Shorts(b, 8, <<1, 0>>)
  /\ Runtime!Words(b, 12, <<120, 1, 1, 3, 50, 32, 7, 350, 2, 256, 4, 4, 1, 1, 2, 0, 7, 1, 0, 0>>)
  /\ Runtime!Longs(b, 92, <<6400, 1400>>) /\ Runtime!Longs(b, 116, <<0, 0, 0>>)
  /\ b.at[108] = bytes /\ b.at[140] = sha /\ b.at[172] = 0

(* Where the fields of the action slice start.                             *)
LEMMA ActionSliceLays ==
  /\ Layout("AISLC1") = Framed(20, 6) /\ Extent("AISLC1") = 192
  /\ {108, 140, 172} \subseteq Framed(20, 6)
  <1>1. Layout("AISLC1") = Framed(20, 6) /\ Extent("AISLC1") = 192
    BY DEF Layout, Extent, GeluMulForms, CompactGateForms
  <1>2. 140 \in Framed(20, 6) /\ 172 \in Framed(20, 6)
    BY SMT DEF Framed
  <1>3. 108 \in Framed(20, 6)
    BY SMT DEF Framed, Starts
  <1> QED BY <1>1, <1>2, <1>3

(* to_bytes of the action slice writes these fields and no others.         *)
LEMMA ActionSliceWrites ==
  ASSUME NEW p, NEW b, p.module \in Modules
  PROVE ActionSliceBytes(p) = b <=> ActionSliceWritten(b, p.module.bytes, p.module.sha)
  <1> DEFINE bytes == p.module.bytes
             sha == p.module.sha
             words == <<120, 1, 1, 3, 50, 32, 7, 350, 2, 256, 4, 4, 1, 1, 2, 0, 7, 1, 0, 0>>
             longs == <<6400, 1400, bytes, 0, 0, 0>>
             parts == <<U32(words), U64(longs), Digest(sha), Reserved(20)>>
  <1>1. words \in Seq(Nat) /\ Len(words) = 20
    BY SMT
  <1>2. longs \in Seq(Nat) /\ Len(longs) = 6 /\ sha \in Nat
    BY SMT DEF Modules
  <1>3. ActionSliceBytes(p) = Packed("AISLC1", 1, 0, parts)
    BY SMT DEF ActionSliceBytes, SM120
  <1> HIDE DEF bytes, sha
  <1>4. Runtime!Longs(b, 92, longs)
         <=> /\ Runtime!Longs(b, 92, <<6400, 1400>>)
             /\ Runtime!Longs(b, 116, <<0, 0, 0>>)
             /\ 108 \in DOMAIN b.at /\ b.at[108] = bytes
    <2> DEFINE a1 == 6400
               a2 == 1400
               a4 == 0
               a5 == 0
               a6 == 0
    <2> HIDE DEF a1, a2, a4, a5, a6
    <2>1. TwoThree(b, a1, a2, bytes, a4, a5, a6)
      BY ONLY LongsTwoThree, Zenon
    <2> QED BY ONLY <2>1 DEF TwoThree, longs, a1, a2, a4, a5, a6
  <1> HIDE DEF words, longs
  <1>5. Framing(parts, words, longs, sha, 20, 20, 6)
    BY <1>1, <1>2 DEF Framing
  <1> HIDE DEF parts
  <1>6. ActionSliceBytes(p) = b <=> FramedAs(b, "AISLC1", words, longs, sha, 20, 20, 6)
    BY <1>3, <1>5, FramedIs
  <1>7. /\ 12 + (4 * 20) = 92 /\ 12 + (4 * 20) + (8 * 6) = 140 /\ 44 + (4 * 20) + (8 * 6) = 172
        /\ 44 + (4 * 20) + (8 * 6) + 20 = 192
    BY SMT
  <1>8. 108 \in Framed(20, 6)
    BY ActionSliceLays
  <1>9. FramedAs(b, "AISLC1", words, longs, sha, 20, 20, 6) <=> ActionSliceWritten(b, bytes, sha)
    BY SMT, <1>4, <1>7, <1>8 DEF ActionSliceWritten, FramedAs, words
  <1> QED BY <1>6, <1>9 DEF bytes, sha

(* A payload of the action slice is read back as it was written.           *)
LEMMA ActionSliceBack ==
  ASSUME NEW p \in [form : {"AISLC1"}, module : Modules]
  PROVE LaidWhole(Bytes(p)) /\ Read(Bytes(p)) = p
  <1> DEFINE b == Bytes(p)
  <1>1. p = [form |-> "AISLC1", module |-> p.module] /\ p.module = [bytes |-> p.module.bytes, sha |-> p.module.sha]
    BY DEF Modules
  <1>2. b = ActionSliceBytes(p)
    BY <1>1 DEF Bytes, GeluMulForms, CompactGateForms, RoundedForms
  <1> HIDE DEF b
  <1>3. ActionSliceWritten(b, p.module.bytes, p.module.sha)
    BY <1>2, ActionSliceWrites
  <1>4. /\ b = [magic |-> "AISLC1", size |-> 192, at |-> b.at] /\ b.at \in [Framed(20, 6) -> Nat]
        /\ b.at[108] = p.module.bytes /\ b.at[140] = p.module.sha
    BY <1>3 DEF ActionSliceWritten
  <1>5. b.magic = "AISLC1" /\ b.size = 192
    BY <1>4
  <1>6. Read(b) = [form |-> b.magic, module |-> [bytes |-> b.at[108], sha |-> b.at[140]]]
    BY <1>5 DEF Read, ActionSliceRead, ModuleIn, GeluMulForms, CompactGateForms, RoundedForms
  <1>7. LaidWhole(b)
    BY <1>4, <1>5, ActionSliceLays DEF LaidWhole, Magics
  <1> QED BY <1>1, <1>4, <1>5, <1>6, <1>7 DEF b

(* from_bytes and the runtime's parser accept the same payloads of the     *)
(* action slice.                                                           *)
LEMMA ActionSliceAgree ==
  ASSUME NEW b, LaidWhole(b), b.magic = "AISLC1"
  PROVE Decodes(b) <=> Runtime!Parses(b)
  <1> DEFINE p == Read(b)
             bytes == b.at[108]
             sha == b.at[140]
  <1>1. /\ b = [magic |-> "AISLC1", size |-> 192, at |-> b.at] /\ b.at \in [Framed(20, 6) -> Nat]
        /\ {108, 140, 172} \subseteq DOMAIN b.at /\ b.size = 192
    BY ActionSliceLays DEF LaidWhole
  <1>2. bytes \in Nat /\ sha \in Nat
    BY <1>1
  <1>3. p = [form |-> b.magic, module |-> [bytes |-> bytes, sha |-> sha]]
    BY DEF Read, ActionSliceRead, ModuleIn, GeluMulForms, CompactGateForms, RoundedForms
  <1>4. p.form = "AISLC1" /\ p.module.bytes = bytes /\ p.module.sha = sha /\ p.module \in Modules
    BY <1>2, <1>3 DEF Modules
  <1> HIDE DEF p
  <1>5. Decodes(b) <=> (bytes > 0 /\ sha # 0 /\ ActionSliceWritten(b, bytes, sha))
    <2>1. Bytes(p) = ActionSliceBytes(p)
      BY <1>4 DEF Bytes, GeluMulForms, CompactGateForms, RoundedForms
    <2>2. ActionSliceBytes(p) = b <=> ActionSliceWritten(b, bytes, sha)
      BY <1>4, ActionSliceWrites
    <2>3. Valid(p) <=> bytes > 0 /\ sha # 0
      BY <1>4 DEF Valid, ProblemValid, ModuleValid, GeluMulForms, CompactGateForms, RoundedForms
    <2>4. Decodes(b) <=> Valid(p) /\ Bytes(p) = b
      BY DEF Decodes, p
    <2> HIDE DEF bytes, sha
    <2> QED BY <2>1, <2>2, <2>3, <2>4
  <1>6. Runtime!Parses(b) <=> Runtime!ActionSliceParses(b)
    BY DEF Runtime!Parses
  <1>7. Runtime!ActionSliceParses(b) <=> (bytes # 0 /\ sha # 0 /\ ActionSliceWritten(b, bytes, sha))
    BY SMT, <1>1 DEF ActionSliceWritten, Runtime!ActionSliceParses, Runtime!Sized, Runtime!HasModule, Runtime!Field
  <1> HIDE DEF bytes, sha
  <1> QED BY <1>2, <1>5, <1>6, <1>7

(* Adaptive RMS normalisation.                                             *)
AdaptiveRmsNormWritten(b, bytes, sha) ==
  /\ b = [magic |-> "AIARM1", size |-> 192, at |-> b.at] /\ b.at \in [Framed(25, 5) -> Nat]
  /\ Runtime!Shorts(b, 8, <<1, 0>>)
  /\ Runtime!Words(b, 12, <<120, 1, 2, 1, 2, 2, 1, 1, 50, 1024, 3072, 2, 50, 1, 1, 256, 1, 1, 0,
                             16, 16, 16, 16, 1, 897988541>>)
  /\ Runtime!Longs(b, 112, <<102400, 12288, 102400, 102400>>)
  /\ b.at[144] = bytes /\ b.at[152] = sha /\ b.at[184] = 0

(* Where the fields of adaptive RMS normalisation start.                   *)
LEMMA AdaptiveRmsNormLays ==
  /\ Layout("AIARM1") = Framed(25, 5) /\ Extent("AIARM1") = 192
  /\ {144, 152, 184} \subseteq Framed(25, 5)
  <1>1. Layout("AIARM1") = Framed(25, 5) /\ Extent("AIARM1") = 192
    BY DEF Layout, Extent, GeluMulForms, CompactGateForms
  <1>2. 152 \in Framed(25, 5) /\ 184 \in Framed(25, 5)
    BY SMT DEF Framed
  <1>3. 144 \in Framed(25, 5)
    BY SMT DEF Framed, Starts
  <1> QED BY <1>1, <1>2, <1>3

(* to_bytes of adaptive RMS normalisation writes these fields and no       *)
(* others.                                                                 *)
LEMMA AdaptiveRmsNormWrites ==
  ASSUME NEW p, NEW b, p.module \in Modules
  PROVE AdaptiveRmsNormBytes(p) = b <=> AdaptiveRmsNormWritten(b, p.module.bytes, p.module.sha)
  <1> DEFINE bytes == p.module.bytes
             sha == p.module.sha
             words == <<120, 1, 2, 1, 2, 2, 1, 1, 50, 1024, 3072, 2, 50, 1, 1, 256, 1, 1, 0, 16,
                         16, 16, 16, 1, 897988541>>
             longs == <<102400, 12288, 102400, 102400, bytes>>
             parts == <<U32(words), U64(longs), Digest(sha), Reserved(8)>>
  <1>1. words \in Seq(Nat) /\ Len(words) = 25
    BY SMT
  <1>2. longs \in Seq(Nat) /\ Len(longs) = 5 /\ sha \in Nat
    BY SMT DEF Modules
  <1>3. AdaptiveRmsNormBytes(p) = Packed("AIARM1", 1, 0, parts)
    BY SMT DEF AdaptiveRmsNormBytes, SM120, Epsilon
  <1> HIDE DEF bytes, sha
  <1>4. Runtime!Longs(b, 112, longs)
         <=> /\ Runtime!Longs(b, 112, <<102400, 12288, 102400, 102400>>)
             /\ 144 \in DOMAIN b.at /\ b.at[144] = bytes
    BY SMT, LongsFive, LongsFour DEF longs
  <1> HIDE DEF words, longs
  <1>5. Framing(parts, words, longs, sha, 8, 25, 5)
    BY <1>1, <1>2 DEF Framing
  <1> HIDE DEF parts
  <1>6. AdaptiveRmsNormBytes(p) = b <=> FramedAs(b, "AIARM1", words, longs, sha, 8, 25, 5)
    BY <1>3, <1>5, FramedIs
  <1>7. /\ 12 + (4 * 25) = 112 /\ 12 + (4 * 25) + (8 * 5) = 152 /\ 44 + (4 * 25) + (8 * 5) = 184
        /\ 44 + (4 * 25) + (8 * 5) + 8 = 192
    BY SMT
  <1>8. 144 \in Framed(25, 5)
    BY AdaptiveRmsNormLays
  <1>9. FramedAs(b, "AIARM1", words, longs, sha, 8, 25, 5) <=> AdaptiveRmsNormWritten(b, bytes, sha)
    BY SMT, <1>4, <1>7, <1>8 DEF AdaptiveRmsNormWritten, FramedAs, words
  <1> QED BY <1>6, <1>9 DEF bytes, sha

(* A payload of adaptive RMS normalisation is read back as it was written. *)
LEMMA AdaptiveRmsNormBack ==
  ASSUME NEW p \in [form : {"AIARM1"}, module : Modules]
  PROVE LaidWhole(Bytes(p)) /\ Read(Bytes(p)) = p
  <1> DEFINE b == Bytes(p)
  <1>1. p = [form |-> "AIARM1", module |-> p.module] /\ p.module = [bytes |-> p.module.bytes, sha |-> p.module.sha]
    BY DEF Modules
  <1>2. b = AdaptiveRmsNormBytes(p)
    BY <1>1 DEF Bytes, GeluMulForms, CompactGateForms, RoundedForms
  <1> HIDE DEF b
  <1>3. AdaptiveRmsNormWritten(b, p.module.bytes, p.module.sha)
    BY <1>2, AdaptiveRmsNormWrites
  <1>4. /\ b = [magic |-> "AIARM1", size |-> 192, at |-> b.at] /\ b.at \in [Framed(25, 5) -> Nat]
        /\ b.at[144] = p.module.bytes /\ b.at[152] = p.module.sha
    BY <1>3 DEF AdaptiveRmsNormWritten
  <1>5. b.magic = "AIARM1" /\ b.size = 192
    BY <1>4
  <1>6. Read(b) = [form |-> b.magic, module |-> [bytes |-> b.at[144], sha |-> b.at[152]]]
    BY <1>5 DEF Read, AdaptiveRmsNormRead, ModuleIn, GeluMulForms, CompactGateForms, RoundedForms
  <1>7. LaidWhole(b)
    BY <1>4, <1>5, AdaptiveRmsNormLays DEF LaidWhole, Magics
  <1> QED BY <1>1, <1>4, <1>5, <1>6, <1>7 DEF b

(* from_bytes and the runtime's parser accept the same payloads of         *)
(* adaptive RMS normalisation.                                             *)
LEMMA AdaptiveRmsNormAgree ==
  ASSUME NEW b, LaidWhole(b), b.magic = "AIARM1"
  PROVE Decodes(b) <=> Runtime!Parses(b)
  <1> DEFINE p == Read(b)
             bytes == b.at[144]
             sha == b.at[152]
  <1>1. /\ b = [magic |-> "AIARM1", size |-> 192, at |-> b.at] /\ b.at \in [Framed(25, 5) -> Nat]
        /\ {144, 152, 184} \subseteq DOMAIN b.at /\ b.size = 192
    BY AdaptiveRmsNormLays DEF LaidWhole
  <1>2. bytes \in Nat /\ sha \in Nat
    BY <1>1
  <1>3. p = [form |-> b.magic, module |-> [bytes |-> bytes, sha |-> sha]]
    BY DEF Read, AdaptiveRmsNormRead, ModuleIn, GeluMulForms, CompactGateForms, RoundedForms
  <1>4. p.form = "AIARM1" /\ p.module.bytes = bytes /\ p.module.sha = sha /\ p.module \in Modules
    BY <1>2, <1>3 DEF Modules
  <1> HIDE DEF p
  <1>5. Decodes(b) <=> (bytes > 0 /\ sha # 0 /\ AdaptiveRmsNormWritten(b, bytes, sha))
    <2>1. Bytes(p) = AdaptiveRmsNormBytes(p)
      BY <1>4 DEF Bytes, GeluMulForms, CompactGateForms, RoundedForms
    <2>2. AdaptiveRmsNormBytes(p) = b <=> AdaptiveRmsNormWritten(b, bytes, sha)
      BY <1>4, AdaptiveRmsNormWrites
    <2>3. Valid(p) <=> bytes > 0 /\ sha # 0
      BY <1>4 DEF Valid, ProblemValid, ModuleValid, GeluMulForms, CompactGateForms, RoundedForms
    <2>4. Decodes(b) <=> Valid(p) /\ Bytes(p) = b
      BY DEF Decodes, p
    <2> HIDE DEF bytes, sha
    <2> QED BY <2>1, <2>2, <2>3, <2>4
  <1>6. Runtime!Parses(b) <=> Runtime!AdaptiveRmsNormParses(b)
    BY DEF Runtime!Parses
  <1>7. Runtime!AdaptiveRmsNormParses(b) <=> (bytes # 0 /\ sha # 0 /\ AdaptiveRmsNormWritten(b, bytes, sha))
    BY SMT, <1>1 DEF AdaptiveRmsNormWritten, Runtime!AdaptiveRmsNormParses, Runtime!Sized, Runtime!HasModule, Runtime!Field
  <1> HIDE DEF bytes, sha
  <1> QED BY <1>2, <1>5, <1>6, <1>7

(* Vision attention.                                                       *)
VisionAttentionWritten(b, bytes, sha) ==
  /\ b = [magic |-> "AIVAT1", size |-> 192, at |-> b.at] /\ b.at \in [Framed(22, 6) -> Nat]
  /\ Runtime!Shorts(b, 8, <<1, 0>>)
  /\ Runtime!Words(b, 12, <<120, 1, 1, 1, 1, 4, 1, 1, 1, 256, 256, 16, 72, 256, 16, 1, 256, 1,
                             1, 0, 1, 1039227887>>)
  /\ Runtime!Longs(b, 100, <<1179648, 1179648, 1179648, 1, 1179648>>)
  /\ b.at[140] = bytes /\ b.at[148] = sha /\ b.at[180] = 0

(* Where the fields of the vision attention start.                         *)
LEMMA VisionAttentionLays ==
  /\ Layout("AIVAT1") = Framed(22, 6) /\ Extent("AIVAT1") = 192
  /\ {140, 148, 180} \subseteq Framed(22, 6)
  <1>1. Layout("AIVAT1") = Framed(22, 6) /\ Extent("AIVAT1") = 192
    BY DEF Layout, Extent, GeluMulForms, CompactGateForms
  <1>2. 148 \in Framed(22, 6) /\ 180 \in Framed(22, 6)
    BY SMT DEF Framed
  <1>3. 140 \in Framed(22, 6)
    BY SMT DEF Framed, Starts
  <1> QED BY <1>1, <1>2, <1>3

(* to_bytes of the vision attention writes these fields and no others.     *)
LEMMA VisionAttentionWrites ==
  ASSUME NEW p, NEW b, p.module \in Modules
  PROVE VisionAttentionBytes(p) = b <=> VisionAttentionWritten(b, p.module.bytes, p.module.sha)
  <1> DEFINE bytes == p.module.bytes
             sha == p.module.sha
             words == <<120, 1, 1, 1, 1, 4, 1, 1, 1, 256, 256, 16, 72, 256, 16, 1, 256, 1, 1, 0,
                         1, 1039227887>>
             longs == <<1179648, 1179648, 1179648, 1, 1179648, bytes>>
             parts == <<U32(words), U64(longs), Digest(sha), Reserved(12)>>
  <1>1. words \in Seq(Nat) /\ Len(words) = 22
    BY SMT
  <1>2. longs \in Seq(Nat) /\ Len(longs) = 6 /\ sha \in Nat
    BY SMT DEF Modules
  <1>3. VisionAttentionBytes(p) = Packed("AIVAT1", 1, 0, parts)
    BY SMT DEF VisionAttentionBytes, SM120, VisionScale
  <1> HIDE DEF bytes, sha
  <1>4. Runtime!Longs(b, 100, longs)
         <=> /\ Runtime!Longs(b, 100, <<1179648, 1179648, 1179648, 1, 1179648>>)
             /\ 140 \in DOMAIN b.at /\ b.at[140] = bytes
    <2> DEFINE a1 == 1179648
               a2 == 1179648
               a3 == 1179648
               a4 == 1
               a5 == 1179648
    <2> HIDE DEF a1, a2, a3, a4, a5
    <2>1. FiveAt100(b, a1, a2, a3, a4, a5, bytes)
      BY ONLY LongsFive100, Zenon
    <2> QED BY ONLY <2>1 DEF FiveAt100, longs, a1, a2, a3, a4, a5
  <1> HIDE DEF words, longs
  <1>5. Framing(parts, words, longs, sha, 12, 22, 6)
    BY <1>1, <1>2 DEF Framing
  <1> HIDE DEF parts
  <1>6. VisionAttentionBytes(p) = b <=> FramedAs(b, "AIVAT1", words, longs, sha, 12, 22, 6)
    BY <1>3, <1>5, FramedIs
  <1>7. /\ 12 + (4 * 22) = 100 /\ 12 + (4 * 22) + (8 * 6) = 148 /\ 44 + (4 * 22) + (8 * 6) = 180
        /\ 44 + (4 * 22) + (8 * 6) + 12 = 192
    BY SMT
  <1>8. 140 \in Framed(22, 6)
    BY VisionAttentionLays
  <1>9. FramedAs(b, "AIVAT1", words, longs, sha, 12, 22, 6) <=> VisionAttentionWritten(b, bytes, sha)
    BY SMT, <1>4, <1>7, <1>8 DEF VisionAttentionWritten, FramedAs, words
  <1> QED BY <1>6, <1>9 DEF bytes, sha

(* A payload of the vision attention is read back as it was written.       *)
LEMMA VisionAttentionBack ==
  ASSUME NEW p \in [form : {"AIVAT1"}, module : Modules]
  PROVE LaidWhole(Bytes(p)) /\ Read(Bytes(p)) = p
  <1> DEFINE b == Bytes(p)
  <1>1. p = [form |-> "AIVAT1", module |-> p.module] /\ p.module = [bytes |-> p.module.bytes, sha |-> p.module.sha]
    BY DEF Modules
  <1>2. b = VisionAttentionBytes(p)
    BY <1>1 DEF Bytes, GeluMulForms, CompactGateForms, RoundedForms
  <1> HIDE DEF b
  <1>3. VisionAttentionWritten(b, p.module.bytes, p.module.sha)
    BY <1>2, VisionAttentionWrites
  <1>4. /\ b = [magic |-> "AIVAT1", size |-> 192, at |-> b.at] /\ b.at \in [Framed(22, 6) -> Nat]
        /\ b.at[140] = p.module.bytes /\ b.at[148] = p.module.sha
    BY <1>3 DEF VisionAttentionWritten
  <1>5. b.magic = "AIVAT1" /\ b.size = 192
    BY <1>4
  <1>6. Read(b) = [form |-> b.magic, module |-> [bytes |-> b.at[140], sha |-> b.at[148]]]
    BY <1>5 DEF Read, VisionAttentionRead, ModuleIn, GeluMulForms, CompactGateForms, RoundedForms
  <1>7. LaidWhole(b)
    BY <1>4, <1>5, VisionAttentionLays DEF LaidWhole, Magics
  <1> QED BY <1>1, <1>4, <1>5, <1>6, <1>7 DEF b

(* from_bytes and the runtime's parser accept the same payloads of the     *)
(* vision attention.                                                       *)
LEMMA VisionAttentionAgree ==
  ASSUME NEW b, LaidWhole(b), b.magic = "AIVAT1"
  PROVE Decodes(b) <=> Runtime!Parses(b)
  <1> DEFINE p == Read(b)
             bytes == b.at[140]
             sha == b.at[148]
  <1>1. /\ b = [magic |-> "AIVAT1", size |-> 192, at |-> b.at] /\ b.at \in [Framed(22, 6) -> Nat]
        /\ {140, 148, 180} \subseteq DOMAIN b.at /\ b.size = 192
    BY VisionAttentionLays DEF LaidWhole
  <1>2. bytes \in Nat /\ sha \in Nat
    BY <1>1
  <1>3. p = [form |-> b.magic, module |-> [bytes |-> bytes, sha |-> sha]]
    BY DEF Read, VisionAttentionRead, ModuleIn, GeluMulForms, CompactGateForms, RoundedForms
  <1>4. p.form = "AIVAT1" /\ p.module.bytes = bytes /\ p.module.sha = sha /\ p.module \in Modules
    BY <1>2, <1>3 DEF Modules
  <1> HIDE DEF p
  <1>5. Decodes(b) <=> (bytes > 0 /\ sha # 0 /\ VisionAttentionWritten(b, bytes, sha))
    <2>1. Bytes(p) = VisionAttentionBytes(p)
      BY <1>4 DEF Bytes, GeluMulForms, CompactGateForms, RoundedForms
    <2>2. VisionAttentionBytes(p) = b <=> VisionAttentionWritten(b, bytes, sha)
      BY <1>4, VisionAttentionWrites
    <2>3. Valid(p) <=> bytes > 0 /\ sha # 0
      BY <1>4 DEF Valid, ProblemValid, ModuleValid, GeluMulForms, CompactGateForms, RoundedForms
    <2>4. Decodes(b) <=> Valid(p) /\ Bytes(p) = b
      BY DEF Decodes, p
    <2> HIDE DEF bytes, sha
    <2> QED BY <2>1, <2>2, <2>3, <2>4
  <1>6. Runtime!Parses(b) <=> Runtime!VisionAttentionParses(b)
    BY DEF Runtime!Parses
  <1>7. Runtime!VisionAttentionParses(b) <=> (bytes # 0 /\ sha # 0 /\ VisionAttentionWritten(b, bytes, sha))
    BY SMT, <1>1 DEF VisionAttentionWritten, Runtime!VisionAttentionParses, Runtime!Sized, Runtime!HasModule, Runtime!Field
  <1> HIDE DEF bytes, sha
  <1> QED BY <1>2, <1>5, <1>6, <1>7

(* Suffix metadata.                                                        *)
SuffixMetadataWritten(b, bytes, sha) ==
  /\ b = [magic |-> "AISMD1", size |-> 192, at |-> b.at] /\ b.at \in [Framed(20, 6) -> Nat]
  /\ Runtime!Shorts(b, 8, <<1, 0>>)
  /\ Runtime!Words(b, 12, <<120, 1, 5, 5, 3, 1, 1, 1, 1, 968, 50, 1018, 199, 256, 1, 1, 4, 0, 0,
                             0>>)
  /\ Runtime!Longs(b, 92, <<968, 50900, 200>>) /\ Runtime!Longs(b, 124, <<0, 0>>)
  /\ b.at[116] = bytes /\ b.at[140] = sha /\ b.at[172] = 0

(* Where the fields of the suffix metadata start.                          *)
LEMMA SuffixMetadataLays ==
  /\ Layout("AISMD1") = Framed(20, 6) /\ Extent("AISMD1") = 192
  /\ {116, 140, 172} \subseteq Framed(20, 6)
  <1>1. Layout("AISMD1") = Framed(20, 6) /\ Extent("AISMD1") = 192
    BY DEF Layout, Extent, GeluMulForms, CompactGateForms
  <1>2. 140 \in Framed(20, 6) /\ 172 \in Framed(20, 6)
    BY SMT DEF Framed
  <1>3. 116 \in Framed(20, 6)
    BY SMT DEF Framed, Starts
  <1> QED BY <1>1, <1>2, <1>3

(* to_bytes of the suffix metadata writes these fields and no others.      *)
LEMMA SuffixMetadataWrites ==
  ASSUME NEW p, NEW b, p.module \in Modules
  PROVE SuffixMetadataBytes(p) = b <=> SuffixMetadataWritten(b, p.module.bytes, p.module.sha)
  <1> DEFINE bytes == p.module.bytes
             sha == p.module.sha
             words == <<120, 1, 5, 5, 3, 1, 1, 1, 1, 968, 50, 1018, 199, 256, 1, 1, 4, 0, 0, 0>>
             longs == <<968, 50900, 200, bytes, 0, 0>>
             parts == <<U32(words), U64(longs), Digest(sha), Reserved(20)>>
  <1>1. words \in Seq(Nat) /\ Len(words) = 20
    BY SMT
  <1>2. longs \in Seq(Nat) /\ Len(longs) = 6 /\ sha \in Nat
    BY SMT DEF Modules
  <1>3. SuffixMetadataBytes(p) = Packed("AISMD1", 1, 0, parts)
    BY SMT DEF SuffixMetadataBytes, SM120
  <1> HIDE DEF bytes, sha
  <1>4. Runtime!Longs(b, 92, longs)
         <=> /\ Runtime!Longs(b, 92, <<968, 50900, 200>>)
             /\ Runtime!Longs(b, 124, <<0, 0>>)
             /\ 116 \in DOMAIN b.at /\ b.at[116] = bytes
    <2> DEFINE a1 == 968
               a2 == 50900
               a3 == 200
               a5 == 0
               a6 == 0
    <2> HIDE DEF a1, a2, a3, a5, a6
    <2>1. ThreeTwo(b, a1, a2, a3, bytes, a5, a6)
      BY ONLY LongsThreeTwo, Zenon
    <2> QED BY ONLY <2>1 DEF ThreeTwo, longs, a1, a2, a3, a5, a6
  <1> HIDE DEF words, longs
  <1>5. Framing(parts, words, longs, sha, 20, 20, 6)
    BY <1>1, <1>2 DEF Framing
  <1> HIDE DEF parts
  <1>6. SuffixMetadataBytes(p) = b <=> FramedAs(b, "AISMD1", words, longs, sha, 20, 20, 6)
    BY <1>3, <1>5, FramedIs
  <1>7. /\ 12 + (4 * 20) = 92 /\ 12 + (4 * 20) + (8 * 6) = 140 /\ 44 + (4 * 20) + (8 * 6) = 172
        /\ 44 + (4 * 20) + (8 * 6) + 20 = 192
    BY SMT
  <1>8. 116 \in Framed(20, 6)
    BY SuffixMetadataLays
  <1>9. FramedAs(b, "AISMD1", words, longs, sha, 20, 20, 6) <=> SuffixMetadataWritten(b, bytes, sha)
    BY SMT, <1>4, <1>7, <1>8 DEF SuffixMetadataWritten, FramedAs, words
  <1> QED BY <1>6, <1>9 DEF bytes, sha

(* A payload of the suffix metadata is read back as it was written.        *)
LEMMA SuffixMetadataBack ==
  ASSUME NEW p \in [form : {"AISMD1"}, module : Modules]
  PROVE LaidWhole(Bytes(p)) /\ Read(Bytes(p)) = p
  <1> DEFINE b == Bytes(p)
  <1>1. p = [form |-> "AISMD1", module |-> p.module] /\ p.module = [bytes |-> p.module.bytes, sha |-> p.module.sha]
    BY DEF Modules
  <1>2. b = SuffixMetadataBytes(p)
    BY <1>1 DEF Bytes, GeluMulForms, CompactGateForms, RoundedForms
  <1> HIDE DEF b
  <1>3. SuffixMetadataWritten(b, p.module.bytes, p.module.sha)
    BY <1>2, SuffixMetadataWrites
  <1>4. /\ b = [magic |-> "AISMD1", size |-> 192, at |-> b.at] /\ b.at \in [Framed(20, 6) -> Nat]
        /\ b.at[116] = p.module.bytes /\ b.at[140] = p.module.sha
    BY <1>3 DEF SuffixMetadataWritten
  <1>5. b.magic = "AISMD1" /\ b.size = 192
    BY <1>4
  <1>6. Read(b) = [form |-> b.magic, module |-> [bytes |-> b.at[116], sha |-> b.at[140]]]
    BY <1>5 DEF Read, SuffixMetadataRead, ModuleIn, GeluMulForms, CompactGateForms, RoundedForms
  <1>7. LaidWhole(b)
    BY <1>4, <1>5, SuffixMetadataLays DEF LaidWhole, Magics
  <1> QED BY <1>1, <1>4, <1>5, <1>6, <1>7 DEF b

(* from_bytes and the runtime's parser accept the same payloads of the     *)
(* suffix metadata.                                                        *)
LEMMA SuffixMetadataAgree ==
  ASSUME NEW b, LaidWhole(b), b.magic = "AISMD1"
  PROVE Decodes(b) <=> Runtime!Parses(b)
  <1> DEFINE p == Read(b)
             bytes == b.at[116]
             sha == b.at[140]
  <1>1. /\ b = [magic |-> "AISMD1", size |-> 192, at |-> b.at] /\ b.at \in [Framed(20, 6) -> Nat]
        /\ {116, 140, 172} \subseteq DOMAIN b.at /\ b.size = 192
    BY SuffixMetadataLays DEF LaidWhole
  <1>2. bytes \in Nat /\ sha \in Nat
    BY <1>1
  <1>3. p = [form |-> b.magic, module |-> [bytes |-> bytes, sha |-> sha]]
    BY DEF Read, SuffixMetadataRead, ModuleIn, GeluMulForms, CompactGateForms, RoundedForms
  <1>4. p.form = "AISMD1" /\ p.module.bytes = bytes /\ p.module.sha = sha /\ p.module \in Modules
    BY <1>2, <1>3 DEF Modules
  <1> HIDE DEF p
  <1>5. Decodes(b) <=> (bytes > 0 /\ sha # 0 /\ SuffixMetadataWritten(b, bytes, sha))
    <2>1. Bytes(p) = SuffixMetadataBytes(p)
      BY <1>4 DEF Bytes, GeluMulForms, CompactGateForms, RoundedForms
    <2>2. SuffixMetadataBytes(p) = b <=> SuffixMetadataWritten(b, bytes, sha)
      BY <1>4, SuffixMetadataWrites
    <2>3. Valid(p) <=> bytes > 0 /\ sha # 0
      BY <1>4 DEF Valid, ProblemValid, ModuleValid, GeluMulForms, CompactGateForms, RoundedForms
    <2>4. Decodes(b) <=> Valid(p) /\ Bytes(p) = b
      BY DEF Decodes, p
    <2> HIDE DEF bytes, sha
    <2> QED BY <2>1, <2>2, <2>3, <2>4
  <1>6. Runtime!Parses(b) <=> Runtime!SuffixMetadataParses(b)
    BY DEF Runtime!Parses
  <1>7. Runtime!SuffixMetadataParses(b) <=> (bytes # 0 /\ sha # 0 /\ SuffixMetadataWritten(b, bytes, sha))
    BY SMT, <1>1 DEF SuffixMetadataWritten, Runtime!SuffixMetadataParses, Runtime!Sized, Runtime!HasModule, Runtime!Field
  <1> HIDE DEF bytes, sha
  <1> QED BY <1>2, <1>5, <1>6, <1>7

(* Prefix input.                                                           *)
PrefixInputWritten(b, bytes, sha) ==
  /\ b = [magic |-> "AIPIA1", size |-> 192, at |-> b.at] /\ b.at \in [Framed(20, 6) -> Nat]
  /\ Runtime!Shorts(b, 8, <<1, 0>>)
  /\ Runtime!Words(b, 12, <<120, 1, 9, 3, 3, 256, 200, 2048, 257152, 968, 7744, 256, 4, 2, 4, 1,
                             4, 4, 0, 0>>)
  /\ Runtime!Longs(b, 92, <<2097152, 1053294592, 800, 7929856>>) /\ Runtime!Longs(b, 132, <<0>>)
  /\ b.at[124] = bytes /\ b.at[140] = sha /\ b.at[172] = 0

(* Where the fields of the prefix input start.                             *)
LEMMA PrefixInputLays ==
  /\ Layout("AIPIA1") = Framed(20, 6) /\ Extent("AIPIA1") = 192
  /\ {124, 140, 172} \subseteq Framed(20, 6)
  <1>1. Layout("AIPIA1") = Framed(20, 6) /\ Extent("AIPIA1") = 192
    BY DEF Layout, Extent, GeluMulForms, CompactGateForms
  <1>2. 140 \in Framed(20, 6) /\ 172 \in Framed(20, 6)
    BY SMT DEF Framed
  <1>3. 124 \in Framed(20, 6)
    BY SMT DEF Framed, Starts
  <1> QED BY <1>1, <1>2, <1>3

(* to_bytes of the prefix input writes these fields and no others.         *)
LEMMA PrefixInputWrites ==
  ASSUME NEW p, NEW b, p.module \in Modules
  PROVE PrefixInputBytes(p) = b <=> PrefixInputWritten(b, p.module.bytes, p.module.sha)
  <1> DEFINE bytes == p.module.bytes
             sha == p.module.sha
             words == <<120, 1, 9, 3, 3, 256, 200, 2048, 257152, 968, 7744, 256, 4, 2, 4, 1, 4,
                         4, 0, 0>>
             longs == <<2097152, 1053294592, 800, 7929856, bytes, 0>>
             parts == <<U32(words), U64(longs), Digest(sha), Reserved(20)>>
  <1>1. words \in Seq(Nat) /\ Len(words) = 20
    BY SMT
  <1>2. longs \in Seq(Nat) /\ Len(longs) = 6 /\ sha \in Nat
    BY SMT DEF Modules
  <1>3. PrefixInputBytes(p) = Packed("AIPIA1", 1, 0, parts)
    BY SMT DEF PrefixInputBytes, SM120
  <1> HIDE DEF bytes, sha
  <1>4. Runtime!Longs(b, 92, longs)
         <=> /\ Runtime!Longs(b, 92, <<2097152, 1053294592, 800, 7929856>>)
             /\ Runtime!Longs(b, 132, <<0>>)
             /\ 124 \in DOMAIN b.at /\ b.at[124] = bytes
    <2> DEFINE a1 == 2097152
               a2 == 1053294592
               a3 == 800
               a4 == 7929856
               a6 == 0
    <2> HIDE DEF a1, a2, a3, a4, a6
    <2>1. FourOne(b, a1, a2, a3, a4, bytes, a6)
      BY ONLY LongsFourOne, Zenon
    <2> QED BY ONLY <2>1 DEF FourOne, longs, a1, a2, a3, a4, a6
  <1> HIDE DEF words, longs
  <1>5. Framing(parts, words, longs, sha, 20, 20, 6)
    BY <1>1, <1>2 DEF Framing
  <1> HIDE DEF parts
  <1>6. PrefixInputBytes(p) = b <=> FramedAs(b, "AIPIA1", words, longs, sha, 20, 20, 6)
    BY <1>3, <1>5, FramedIs
  <1>7. /\ 12 + (4 * 20) = 92 /\ 12 + (4 * 20) + (8 * 6) = 140 /\ 44 + (4 * 20) + (8 * 6) = 172
        /\ 44 + (4 * 20) + (8 * 6) + 20 = 192
    BY SMT
  <1>8. 124 \in Framed(20, 6)
    BY PrefixInputLays
  <1>9. FramedAs(b, "AIPIA1", words, longs, sha, 20, 20, 6) <=> PrefixInputWritten(b, bytes, sha)
    BY SMT, <1>4, <1>7, <1>8 DEF PrefixInputWritten, FramedAs, words
  <1> QED BY <1>6, <1>9 DEF bytes, sha

(* A payload of the prefix input is read back as it was written.           *)
LEMMA PrefixInputBack ==
  ASSUME NEW p \in [form : {"AIPIA1"}, module : Modules]
  PROVE LaidWhole(Bytes(p)) /\ Read(Bytes(p)) = p
  <1> DEFINE b == Bytes(p)
  <1>1. p = [form |-> "AIPIA1", module |-> p.module] /\ p.module = [bytes |-> p.module.bytes, sha |-> p.module.sha]
    BY DEF Modules
  <1>2. b = PrefixInputBytes(p)
    BY <1>1 DEF Bytes, GeluMulForms, CompactGateForms, RoundedForms
  <1> HIDE DEF b
  <1>3. PrefixInputWritten(b, p.module.bytes, p.module.sha)
    BY <1>2, PrefixInputWrites
  <1>4. /\ b = [magic |-> "AIPIA1", size |-> 192, at |-> b.at] /\ b.at \in [Framed(20, 6) -> Nat]
        /\ b.at[124] = p.module.bytes /\ b.at[140] = p.module.sha
    BY <1>3 DEF PrefixInputWritten
  <1>5. b.magic = "AIPIA1" /\ b.size = 192
    BY <1>4
  <1>6. Read(b) = [form |-> b.magic, module |-> [bytes |-> b.at[124], sha |-> b.at[140]]]
    BY <1>5 DEF Read, PrefixInputRead, ModuleIn, GeluMulForms, CompactGateForms, RoundedForms
  <1>7. LaidWhole(b)
    BY <1>4, <1>5, PrefixInputLays DEF LaidWhole, Magics
  <1> QED BY <1>1, <1>4, <1>5, <1>6, <1>7 DEF b

(* from_bytes and the runtime's parser accept the same payloads of the     *)
(* prefix input.                                                           *)
LEMMA PrefixInputAgree ==
  ASSUME NEW b, LaidWhole(b), b.magic = "AIPIA1"
  PROVE Decodes(b) <=> Runtime!Parses(b)
  <1> DEFINE p == Read(b)
             bytes == b.at[124]
             sha == b.at[140]
  <1>1. /\ b = [magic |-> "AIPIA1", size |-> 192, at |-> b.at] /\ b.at \in [Framed(20, 6) -> Nat]
        /\ {124, 140, 172} \subseteq DOMAIN b.at /\ b.size = 192
    BY PrefixInputLays DEF LaidWhole
  <1>2. bytes \in Nat /\ sha \in Nat
    BY <1>1
  <1>3. p = [form |-> b.magic, module |-> [bytes |-> bytes, sha |-> sha]]
    BY DEF Read, PrefixInputRead, ModuleIn, GeluMulForms, CompactGateForms, RoundedForms
  <1>4. p.form = "AIPIA1" /\ p.module.bytes = bytes /\ p.module.sha = sha /\ p.module \in Modules
    BY <1>2, <1>3 DEF Modules
  <1> HIDE DEF p
  <1>5. Decodes(b) <=> (bytes > 0 /\ sha # 0 /\ PrefixInputWritten(b, bytes, sha))
    <2>1. Bytes(p) = PrefixInputBytes(p)
      BY <1>4 DEF Bytes, GeluMulForms, CompactGateForms, RoundedForms
    <2>2. PrefixInputBytes(p) = b <=> PrefixInputWritten(b, bytes, sha)
      BY <1>4, PrefixInputWrites
    <2>3. Valid(p) <=> bytes > 0 /\ sha # 0
      BY <1>4 DEF Valid, ProblemValid, ModuleValid, GeluMulForms, CompactGateForms, RoundedForms
    <2>4. Decodes(b) <=> Valid(p) /\ Bytes(p) = b
      BY DEF Decodes, p
    <2> HIDE DEF bytes, sha
    <2> QED BY <2>1, <2>2, <2>3, <2>4
  <1>6. Runtime!Parses(b) <=> Runtime!PrefixInputParses(b)
    BY DEF Runtime!Parses
  <1>7. Runtime!PrefixInputParses(b) <=> (bytes # 0 /\ sha # 0 /\ PrefixInputWritten(b, bytes, sha))
    BY SMT, <1>1 DEF PrefixInputWritten, Runtime!PrefixInputParses, Runtime!Sized, Runtime!HasModule, Runtime!Field
  <1> HIDE DEF bytes, sha
  <1> QED BY <1>2, <1>5, <1>6, <1>7

(* Prefix caches.                                                          *)
PrefixKvStoreWritten(b, bytes, sha) ==
  /\ b = [magic |-> "AIKVS1", size |-> 192, at |-> b.at] /\ b.at \in [Framed(20, 6) -> Nat]
  /\ Runtime!Shorts(b, 8, <<1, 0>>)
  /\ Runtime!Words(b, 12, <<120, 1, 2, 1, 2, 1, 1, 1, 1, 968, 256, 242, 1, 1, 256, 1, 1, 16, 0,
                             0>>)
  /\ Runtime!Longs(b, 92, <<495616, 495616, 495616, 495616>>) /\ Runtime!Longs(b, 132, <<0>>)
  /\ b.at[124] = bytes /\ b.at[140] = sha /\ b.at[172] = 0

(* Where the fields of the prefix caches start.                            *)
LEMMA PrefixKvStoreLays ==
  /\ Layout("AIKVS1") = Framed(20, 6) /\ Extent("AIKVS1") = 192
  /\ {124, 140, 172} \subseteq Framed(20, 6)
  <1>1. Layout("AIKVS1") = Framed(20, 6) /\ Extent("AIKVS1") = 192
    BY DEF Layout, Extent, GeluMulForms, CompactGateForms
  <1>2. 140 \in Framed(20, 6) /\ 172 \in Framed(20, 6)
    BY SMT DEF Framed
  <1>3. 124 \in Framed(20, 6)
    BY SMT DEF Framed, Starts
  <1> QED BY <1>1, <1>2, <1>3

(* to_bytes of the prefix caches writes these fields and no others.        *)
LEMMA PrefixKvStoreWrites ==
  ASSUME NEW p, NEW b, p.module \in Modules
  PROVE PrefixKvStoreBytes(p) = b <=> PrefixKvStoreWritten(b, p.module.bytes, p.module.sha)
  <1> DEFINE bytes == p.module.bytes
             sha == p.module.sha
             words == <<120, 1, 2, 1, 2, 1, 1, 1, 1, 968, 256, 242, 1, 1, 256, 1, 1, 16, 0, 0>>
             longs == <<495616, 495616, 495616, 495616, bytes, 0>>
             parts == <<U32(words), U64(longs), Digest(sha), Reserved(20)>>
  <1>1. words \in Seq(Nat) /\ Len(words) = 20
    BY SMT
  <1>2. longs \in Seq(Nat) /\ Len(longs) = 6 /\ sha \in Nat
    BY SMT DEF Modules
  <1>3. PrefixKvStoreBytes(p) = Packed("AIKVS1", 1, 0, parts)
    BY SMT DEF PrefixKvStoreBytes, SM120
  <1> HIDE DEF bytes, sha
  <1>4. Runtime!Longs(b, 92, longs)
         <=> /\ Runtime!Longs(b, 92, <<495616, 495616, 495616, 495616>>)
             /\ Runtime!Longs(b, 132, <<0>>)
             /\ 124 \in DOMAIN b.at /\ b.at[124] = bytes
    <2> DEFINE a1 == 495616
               a2 == 495616
               a3 == 495616
               a4 == 495616
               a6 == 0
    <2> HIDE DEF a1, a2, a3, a4, a6
    <2>1. FourOne(b, a1, a2, a3, a4, bytes, a6)
      BY ONLY LongsFourOne, Zenon
    <2> QED BY ONLY <2>1 DEF FourOne, longs, a1, a2, a3, a4, a6
  <1> HIDE DEF words, longs
  <1>5. Framing(parts, words, longs, sha, 20, 20, 6)
    BY <1>1, <1>2 DEF Framing
  <1> HIDE DEF parts
  <1>6. PrefixKvStoreBytes(p) = b <=> FramedAs(b, "AIKVS1", words, longs, sha, 20, 20, 6)
    BY <1>3, <1>5, FramedIs
  <1>7. /\ 12 + (4 * 20) = 92 /\ 12 + (4 * 20) + (8 * 6) = 140 /\ 44 + (4 * 20) + (8 * 6) = 172
        /\ 44 + (4 * 20) + (8 * 6) + 20 = 192
    BY SMT
  <1>8. 124 \in Framed(20, 6)
    BY PrefixKvStoreLays
  <1>9. FramedAs(b, "AIKVS1", words, longs, sha, 20, 20, 6) <=> PrefixKvStoreWritten(b, bytes, sha)
    BY SMT, <1>4, <1>7, <1>8 DEF PrefixKvStoreWritten, FramedAs, words
  <1> QED BY <1>6, <1>9 DEF bytes, sha

(* A payload of the prefix caches is read back as it was written.          *)
LEMMA PrefixKvStoreBack ==
  ASSUME NEW p \in [form : {"AIKVS1"}, module : Modules]
  PROVE LaidWhole(Bytes(p)) /\ Read(Bytes(p)) = p
  <1> DEFINE b == Bytes(p)
  <1>1. p = [form |-> "AIKVS1", module |-> p.module] /\ p.module = [bytes |-> p.module.bytes, sha |-> p.module.sha]
    BY DEF Modules
  <1>2. b = PrefixKvStoreBytes(p)
    BY <1>1 DEF Bytes, GeluMulForms, CompactGateForms, RoundedForms
  <1> HIDE DEF b
  <1>3. PrefixKvStoreWritten(b, p.module.bytes, p.module.sha)
    BY <1>2, PrefixKvStoreWrites
  <1>4. /\ b = [magic |-> "AIKVS1", size |-> 192, at |-> b.at] /\ b.at \in [Framed(20, 6) -> Nat]
        /\ b.at[124] = p.module.bytes /\ b.at[140] = p.module.sha
    BY <1>3 DEF PrefixKvStoreWritten
  <1>5. b.magic = "AIKVS1" /\ b.size = 192
    BY <1>4
  <1>6. Read(b) = [form |-> b.magic, module |-> [bytes |-> b.at[124], sha |-> b.at[140]]]
    BY <1>5 DEF Read, PrefixKvStoreRead, ModuleIn, GeluMulForms, CompactGateForms, RoundedForms
  <1>7. LaidWhole(b)
    BY <1>4, <1>5, PrefixKvStoreLays DEF LaidWhole, Magics
  <1> QED BY <1>1, <1>4, <1>5, <1>6, <1>7 DEF b

(* from_bytes and the runtime's parser accept the same payloads of the     *)
(* prefix caches.                                                          *)
LEMMA PrefixKvStoreAgree ==
  ASSUME NEW b, LaidWhole(b), b.magic = "AIKVS1"
  PROVE Decodes(b) <=> Runtime!Parses(b)
  <1> DEFINE p == Read(b)
             bytes == b.at[124]
             sha == b.at[140]
  <1>1. /\ b = [magic |-> "AIKVS1", size |-> 192, at |-> b.at] /\ b.at \in [Framed(20, 6) -> Nat]
        /\ {124, 140, 172} \subseteq DOMAIN b.at /\ b.size = 192
    BY PrefixKvStoreLays DEF LaidWhole
  <1>2. bytes \in Nat /\ sha \in Nat
    BY <1>1
  <1>3. p = [form |-> b.magic, module |-> [bytes |-> bytes, sha |-> sha]]
    BY DEF Read, PrefixKvStoreRead, ModuleIn, GeluMulForms, CompactGateForms, RoundedForms
  <1>4. p.form = "AIKVS1" /\ p.module.bytes = bytes /\ p.module.sha = sha /\ p.module \in Modules
    BY <1>2, <1>3 DEF Modules
  <1> HIDE DEF p
  <1>5. Decodes(b) <=> (bytes > 0 /\ sha # 0 /\ PrefixKvStoreWritten(b, bytes, sha))
    <2>1. Bytes(p) = PrefixKvStoreBytes(p)
      BY <1>4 DEF Bytes, GeluMulForms, CompactGateForms, RoundedForms
    <2>2. PrefixKvStoreBytes(p) = b <=> PrefixKvStoreWritten(b, bytes, sha)
      BY <1>4, PrefixKvStoreWrites
    <2>3. Valid(p) <=> bytes > 0 /\ sha # 0
      BY <1>4 DEF Valid, ProblemValid, ModuleValid, GeluMulForms, CompactGateForms, RoundedForms
    <2>4. Decodes(b) <=> Valid(p) /\ Bytes(p) = b
      BY DEF Decodes, p
    <2> HIDE DEF bytes, sha
    <2> QED BY <2>1, <2>2, <2>3, <2>4
  <1>6. Runtime!Parses(b) <=> Runtime!PrefixKvStoreParses(b)
    BY DEF Runtime!Parses
  <1>7. Runtime!PrefixKvStoreParses(b) <=> (bytes # 0 /\ sha # 0 /\ PrefixKvStoreWritten(b, bytes, sha))
    BY SMT, <1>1 DEF PrefixKvStoreWritten, Runtime!PrefixKvStoreParses, Runtime!Sized, Runtime!HasModule, Runtime!Field
  <1> HIDE DEF bytes, sha
  <1> QED BY <1>2, <1>5, <1>6, <1>7

(* Cache packing.                                                          *)
KvPackWritten(b, bytes, sha) ==
  /\ b = [magic |-> "AIKVP1", size |-> 192, at |-> b.at] /\ b.at \in [Framed(20, 6) -> Nat]
  /\ Runtime!Shorts(b, 8, <<1, 0>>)
  /\ Runtime!Words(b, 12, <<120, 1, 2, 1, 1, 2, 1, 1, 1, 968, 50, 1018, 256, 255, 1, 1, 256, 1,
                             1, 16>>)
  /\ Runtime!Longs(b, 92, <<495616, 25600, 25600, 521216, 521216>>)
  /\ b.at[132] = bytes /\ b.at[140] = sha /\ b.at[172] = 0

(* Where the fields of the cache packing start.                            *)
LEMMA KvPackLays ==
  /\ Layout("AIKVP1") = Framed(20, 6) /\ Extent("AIKVP1") = 192
  /\ {132, 140, 172} \subseteq Framed(20, 6)
  <1>1. Layout("AIKVP1") = Framed(20, 6) /\ Extent("AIKVP1") = 192
    BY DEF Layout, Extent, GeluMulForms, CompactGateForms
  <1>2. 140 \in Framed(20, 6) /\ 172 \in Framed(20, 6)
    BY SMT DEF Framed
  <1>3. 132 \in Framed(20, 6)
    BY SMT DEF Framed, Starts
  <1> QED BY <1>1, <1>2, <1>3

(* to_bytes of the cache packing writes these fields and no others.        *)
LEMMA KvPackWrites ==
  ASSUME NEW p, NEW b, p.module \in Modules
  PROVE KvPackBytes(p) = b <=> KvPackWritten(b, p.module.bytes, p.module.sha)
  <1> DEFINE bytes == p.module.bytes
             sha == p.module.sha
             words == <<120, 1, 2, 1, 1, 2, 1, 1, 1, 968, 50, 1018, 256, 255, 1, 1, 256, 1, 1,
                         16>>
             longs == <<495616, 25600, 25600, 521216, 521216, bytes>>
             parts == <<U32(words), U64(longs), Digest(sha), Reserved(20)>>
  <1>1. words \in Seq(Nat) /\ Len(words) = 20
    BY SMT
  <1>2. longs \in Seq(Nat) /\ Len(longs) = 6 /\ sha \in Nat
    BY SMT DEF Modules
  <1>3. KvPackBytes(p) = Packed("AIKVP1", 1, 0, parts)
    BY SMT DEF KvPackBytes, SM120
  <1> HIDE DEF bytes, sha
  <1>4. Runtime!Longs(b, 92, longs)
         <=> /\ Runtime!Longs(b, 92, <<495616, 25600, 25600, 521216, 521216>>)
             /\ 132 \in DOMAIN b.at /\ b.at[132] = bytes
    <2> DEFINE a1 == 495616
               a2 == 25600
               a3 == 25600
               a4 == 521216
               a5 == 521216
    <2> HIDE DEF a1, a2, a3, a4, a5
    <2>1. FiveAt92(b, a1, a2, a3, a4, a5, bytes)
      BY ONLY LongsFive92, Zenon
    <2> QED BY ONLY <2>1 DEF FiveAt92, longs, a1, a2, a3, a4, a5
  <1> HIDE DEF words, longs
  <1>5. Framing(parts, words, longs, sha, 20, 20, 6)
    BY <1>1, <1>2 DEF Framing
  <1> HIDE DEF parts
  <1>6. KvPackBytes(p) = b <=> FramedAs(b, "AIKVP1", words, longs, sha, 20, 20, 6)
    BY <1>3, <1>5, FramedIs
  <1>7. /\ 12 + (4 * 20) = 92 /\ 12 + (4 * 20) + (8 * 6) = 140 /\ 44 + (4 * 20) + (8 * 6) = 172
        /\ 44 + (4 * 20) + (8 * 6) + 20 = 192
    BY SMT
  <1>8. 132 \in Framed(20, 6)
    BY KvPackLays
  <1>9. FramedAs(b, "AIKVP1", words, longs, sha, 20, 20, 6) <=> KvPackWritten(b, bytes, sha)
    BY SMT, <1>4, <1>7, <1>8 DEF KvPackWritten, FramedAs, words
  <1> QED BY <1>6, <1>9 DEF bytes, sha

(* A payload of the cache packing is read back as it was written.          *)
LEMMA KvPackBack ==
  ASSUME NEW p \in [form : {"AIKVP1"}, module : Modules]
  PROVE LaidWhole(Bytes(p)) /\ Read(Bytes(p)) = p
  <1> DEFINE b == Bytes(p)
  <1>1. p = [form |-> "AIKVP1", module |-> p.module] /\ p.module = [bytes |-> p.module.bytes, sha |-> p.module.sha]
    BY DEF Modules
  <1>2. b = KvPackBytes(p)
    BY <1>1 DEF Bytes, GeluMulForms, CompactGateForms, RoundedForms
  <1> HIDE DEF b
  <1>3. KvPackWritten(b, p.module.bytes, p.module.sha)
    BY <1>2, KvPackWrites
  <1>4. /\ b = [magic |-> "AIKVP1", size |-> 192, at |-> b.at] /\ b.at \in [Framed(20, 6) -> Nat]
        /\ b.at[132] = p.module.bytes /\ b.at[140] = p.module.sha
    BY <1>3 DEF KvPackWritten
  <1>5. b.magic = "AIKVP1" /\ b.size = 192
    BY <1>4
  <1>6. Read(b) = [form |-> b.magic, module |-> [bytes |-> b.at[132], sha |-> b.at[140]]]
    BY <1>5 DEF Read, KvPackRead, ModuleIn, GeluMulForms, CompactGateForms, RoundedForms
  <1>7. LaidWhole(b)
    BY <1>4, <1>5, KvPackLays DEF LaidWhole, Magics
  <1> QED BY <1>1, <1>4, <1>5, <1>6, <1>7 DEF b

(* from_bytes and the runtime's parser accept the same payloads of the     *)
(* cache packing.                                                          *)
LEMMA KvPackAgree ==
  ASSUME NEW b, LaidWhole(b), b.magic = "AIKVP1"
  PROVE Decodes(b) <=> Runtime!Parses(b)
  <1> DEFINE p == Read(b)
             bytes == b.at[132]
             sha == b.at[140]
  <1>1. /\ b = [magic |-> "AIKVP1", size |-> 192, at |-> b.at] /\ b.at \in [Framed(20, 6) -> Nat]
        /\ {132, 140, 172} \subseteq DOMAIN b.at /\ b.size = 192
    BY KvPackLays DEF LaidWhole
  <1>2. bytes \in Nat /\ sha \in Nat
    BY <1>1
  <1>3. p = [form |-> b.magic, module |-> [bytes |-> bytes, sha |-> sha]]
    BY DEF Read, KvPackRead, ModuleIn, GeluMulForms, CompactGateForms, RoundedForms
  <1>4. p.form = "AIKVP1" /\ p.module.bytes = bytes /\ p.module.sha = sha /\ p.module \in Modules
    BY <1>2, <1>3 DEF Modules
  <1> HIDE DEF p
  <1>5. Decodes(b) <=> (bytes > 0 /\ sha # 0 /\ KvPackWritten(b, bytes, sha))
    <2>1. Bytes(p) = KvPackBytes(p)
      BY <1>4 DEF Bytes, GeluMulForms, CompactGateForms, RoundedForms
    <2>2. KvPackBytes(p) = b <=> KvPackWritten(b, bytes, sha)
      BY <1>4, KvPackWrites
    <2>3. Valid(p) <=> bytes > 0 /\ sha # 0
      BY <1>4 DEF Valid, ProblemValid, ModuleValid, GeluMulForms, CompactGateForms, RoundedForms
    <2>4. Decodes(b) <=> Valid(p) /\ Bytes(p) = b
      BY DEF Decodes, p
    <2> HIDE DEF bytes, sha
    <2> QED BY <2>1, <2>2, <2>3, <2>4
  <1>6. Runtime!Parses(b) <=> Runtime!KvPackParses(b)
    BY DEF Runtime!Parses
  <1>7. Runtime!KvPackParses(b) <=> (bytes # 0 /\ sha # 0 /\ KvPackWritten(b, bytes, sha))
    BY SMT, <1>1 DEF KvPackWritten, Runtime!KvPackParses, Runtime!Sized, Runtime!HasModule, Runtime!Field
  <1> HIDE DEF bytes, sha
  <1> QED BY <1>2, <1>5, <1>6, <1>7

(* RMS normalisation: two shapes.                                          *)
RmsNormCase(variant, type, rows, width, scale, tensor) ==
  \/ variant = 1 /\ type = 1 /\ rows = 50 /\ width = 1024 /\ scale = 4096 /\ tensor = 204800
  \/ variant = 2 /\ type = 2 /\ rows = 968 /\ width = 2048 /\ scale = 8192 /\ tensor = 3964928

(* The fields of RMS normalisation.                                        *)
RmsNormWritten(b, variant, type, rows, width, scale, tensor, bytes, sha) ==
  /\ b = [magic |-> "AIRMS1", size |-> 192, at |-> b.at] /\ b.at \in [Framed(21, 4) -> Nat]
  /\ Runtime!Shorts(b, 8, <<1, 0>>)
  /\ Runtime!Words(b, 12, <<120, variant, type, 1, type, 1, 1, rows, width, rows, 1, 1, 256, 1, 1, 0,
                            16, 16, 16, 1, 897988541>>)
  /\ Runtime!Longs(b, 96, <<tensor, scale, tensor>>)
  /\ b.at[120] = bytes /\ b.at[128] = sha /\ b.at[160] = 0

(* Where the fields of RMS normalisation start.                            *)
LEMMA RmsNormLays ==
  /\ Layout("AIRMS1") = Framed(21, 4) /\ Extent("AIRMS1") = 192
  /\ {16, 120, 128, 160} \subseteq Framed(21, 4)
  <1>1. Layout("AIRMS1") = Framed(21, 4) /\ Extent("AIRMS1") = 192
    BY DEF Layout, Extent, GeluMulForms, CompactGateForms
  <1>2. 128 \in Framed(21, 4) /\ 160 \in Framed(21, 4)
    BY SMT DEF Framed
  <1>3. 120 \in Framed(21, 4)
    BY SMT DEF Framed, Starts
  <1>4. 16 \in Framed(21, 4)
    BY SMT DEF Framed, Starts
  <1> QED BY <1>1, <1>2, <1>3, <1>4

(* to_bytes of RMS normalisation writes these fields and no others.        *)
LEMMA RmsNormWrites ==
  ASSUME NEW p, NEW b, p.module \in Modules, NEW type, NEW rows, NEW width, NEW scale,
         NEW tensor, RmsNormCase(p.variant, type, rows, width, scale, tensor)
  PROVE RmsNormBytes(p) = b
          <=> RmsNormWritten(b, p.variant, type, rows, width, scale, tensor, p.module.bytes, p.module.sha)
  <1> DEFINE variant == p.variant
             bytes == p.module.bytes
             sha == p.module.sha
             words == <<120, variant, type, 1, type, 1, 1, rows, width, rows, 1, 1, 256, 1, 1, 0,
                        16, 16, 16, 1, 897988541>>
             longs == <<tensor, scale, tensor, bytes>>
             parts == <<U32(words), U64(longs), Digest(sha), Reserved(32)>>
  <1>1. /\ variant \in Nat /\ type \in Nat /\ rows \in Nat /\ width \in Nat /\ scale \in Nat
        /\ tensor \in Nat
    BY SMT DEF RmsNormCase
  <1>2. words \in Seq(Nat) /\ Len(words) = 21
    BY SMT, <1>1
  <1>3. longs \in Seq(Nat) /\ Len(longs) = 4 /\ sha \in Nat
    BY SMT, <1>1 DEF Modules
  <1>4. RmsNormBytes(p) = Packed("AIRMS1", 1, 0, parts)
    <2>1. /\ RmsNormShape[variant].rows = rows /\ RmsNormShape[variant].width = width
          /\ RmsNormShape[variant].dtype = type
      BY SMT DEF RmsNormCase, RmsNormShape
    <2>2. rows * width * (IF type = 1 THEN 4 ELSE 2) = tensor /\ width * 4 = scale
      BY SMT DEF RmsNormCase
    <2> QED BY SMT, <2>1, <2>2 DEF RmsNormBytes, SM120, Epsilon
  <1> HIDE DEF variant
  <1> HIDE DEF bytes, sha
  <1>5. Runtime!Longs(b, 96, longs)
         <=> Runtime!Longs(b, 96, <<tensor, scale, tensor>>) /\ 120 \in DOMAIN b.at /\ b.at[120] = bytes
    BY SMT, LongsFour, LongsThree DEF longs
  <1> HIDE DEF words, longs
  <1>6. Framing(parts, words, longs, sha, 32, 21, 4)
    BY <1>2, <1>3 DEF Framing
  <1> HIDE DEF parts
  <1>7. RmsNormBytes(p) = b <=> FramedAs(b, "AIRMS1", words, longs, sha, 32, 21, 4)
    BY <1>4, <1>6, FramedIs
  <1>8. /\ 12 + (4 * 21) = 96 /\ 12 + (4 * 21) + (8 * 4) = 128 /\ 44 + (4 * 21) + (8 * 4) = 160
        /\ 44 + (4 * 21) + (8 * 4) + 32 = 192
    BY SMT
  <1>9. 120 \in Framed(21, 4)
    BY RmsNormLays
  <1>10. FramedAs(b, "AIRMS1", words, longs, sha, 32, 21, 4) <=> RmsNormWritten(b, variant, type, rows, width, scale, tensor, bytes, sha)
    BY SMT, <1>5, <1>8, <1>9 DEF RmsNormWritten, FramedAs, words
  <1> QED BY <1>7, <1>10 DEF variant, bytes, sha

(* A payload of RMS normalisation is read back as it was written.          *)
LEMMA RmsNormBack ==
  ASSUME NEW p \in [form : {"AIRMS1"}, variant : Nat, module : Modules], ProblemValid(p)
  PROVE LaidWhole(Bytes(p)) /\ Read(Bytes(p)) = p
  <1> DEFINE b == Bytes(p)
  <1>1. /\ p = [form |-> "AIRMS1", variant |-> p.variant, module |-> p.module]
        /\ p.module = [bytes |-> p.module.bytes, sha |-> p.module.sha]
    BY DEF Modules
  <1>2. b = RmsNormBytes(p)
    BY <1>1 DEF Bytes, GeluMulForms, CompactGateForms, RoundedForms
  <1>3. PICK type, rows, width, scale, tensor : RmsNormCase(p.variant, type, rows, width, scale, tensor)
    <2>1. p.variant \in 1..2
      BY <1>1 DEF ProblemValid, GeluMulForms, CompactGateForms, RoundedForms
    <2>2. CASE p.variant = 1
      BY <2>2 DEF RmsNormCase
    <2>3. CASE p.variant = 2
      BY <2>3 DEF RmsNormCase
    <2> QED BY <2>1, <2>2, <2>3
  <1> HIDE DEF b
  <1>4. RmsNormWritten(b, p.variant, type, rows, width, scale, tensor, p.module.bytes, p.module.sha)
    BY <1>2, <1>3, RmsNormWrites
  <1>5. /\ b = [magic |-> "AIRMS1", size |-> 192, at |-> b.at] /\ b.at \in [Framed(21, 4) -> Nat]
        /\ b.at[120] = p.module.bytes /\ b.at[128] = p.module.sha
    BY <1>4 DEF RmsNormWritten
  <1>6. b.at[16] = p.variant
    <2> DEFINE v == <<120, p.variant, type, 1, type, 1, 1, rows, width, rows, 1, 1, 256, 1, 1, 0,
                  16, 16, 16, 1, 897988541>>
    <2>1. Runtime!Words(b, 12, v)
      BY <1>4 DEF RmsNormWritten
    <2>2. 2 \in DOMAIN v /\ v[2] = p.variant
      BY SMT
    <2> HIDE DEF v
    <2> QED BY ONLY <2>1, <2>2, SecondWord
  <1>7. b.magic = "AIRMS1" /\ b.size = 192
    BY <1>5
  <1>8. Read(b) = [form |-> b.magic, variant |-> b.at[16], module |-> [bytes |-> b.at[120], sha |-> b.at[128]]]
    BY <1>7 DEF Read, RmsNormRead, ModuleIn, GeluMulForms, CompactGateForms, RoundedForms
  <1>9. LaidWhole(b)
    BY <1>5, <1>7, RmsNormLays DEF LaidWhole, Magics
  <1> QED BY <1>1, <1>5, <1>6, <1>7, <1>8, <1>9 DEF b

(* from_bytes and the runtime's parser accept the same payloads of RMS     *)
(* normalisation.                                                          *)
LEMMA RmsNormAgree ==
  ASSUME NEW b, LaidWhole(b), b.magic = "AIRMS1"
  PROVE Decodes(b) <=> Runtime!Parses(b)
  <1> DEFINE p == Read(b)
             variant == b.at[16]
             bytes == b.at[120]
             sha == b.at[128]
             filled == bytes # 0 /\ sha # 0
  <1>1. /\ b = [magic |-> "AIRMS1", size |-> 192, at |-> b.at] /\ b.at \in [Framed(21, 4) -> Nat]
        /\ {16, 120, 128, 160} \subseteq DOMAIN b.at /\ b.size = 192
    BY RmsNormLays DEF LaidWhole
  <1>2. bytes \in Nat /\ sha \in Nat /\ variant \in Nat
    BY <1>1
  <1>3. p = [form |-> b.magic, variant |-> variant, module |-> [bytes |-> bytes, sha |-> sha]]
    BY DEF Read, RmsNormRead, ModuleIn, GeluMulForms, CompactGateForms, RoundedForms
  <1>4. /\ p.form = "AIRMS1" /\ p.variant = variant
        /\ p.module.bytes = bytes /\ p.module.sha = sha /\ p.module \in Modules
    BY <1>2, <1>3 DEF Modules
  <1> HIDE DEF p
  <1>5. /\ Decodes(b) <=> (variant \in 1..2 /\ filled /\ RmsNormBytes(p) = b)
    <2>1. Bytes(p) = RmsNormBytes(p)
      BY <1>4 DEF Bytes, GeluMulForms, CompactGateForms, RoundedForms
    <2>2. Valid(p) <=> variant \in 1..2 /\ bytes > 0 /\ sha # 0
      BY <1>4 DEF Valid, ProblemValid, ModuleValid, GeluMulForms, CompactGateForms, RoundedForms
    <2>3. Decodes(b) <=> Valid(p) /\ Bytes(p) = b
      BY DEF Decodes, p
    <2> HIDE DEF bytes, sha, variant
    <2> QED BY <1>2, <2>1, <2>2, <2>3
  <1>6. \A type, rows, width, scale, tensor :
          RmsNormCase(variant, type, rows, width, scale, tensor)
            => (RmsNormBytes(p) = b <=> RmsNormWritten(b, variant, type, rows, width, scale, tensor, bytes, sha))
    BY <1>4, RmsNormWrites
  <1>7. Runtime!Parses(b) <=> Runtime!RmsNormParses(b)
    BY DEF Runtime!Parses
  <1>8. CASE variant = 1
    <2>1. Runtime!Words(b, 12, <<120, 1, 1, 1, 1, 1, 1, 50, 1024, 50, 1, 1, 256, 1, 1, 0, 16, 16, 16, 1, 897988541>>)
           <=> /\ Runtime!Words(b, 12, <<120>>) /\ Runtime!Words(b, 24, <<1>>) /\ Runtime!Words(b, 32, <<1, 1>>)
               /\ Runtime!Words(b, 52, <<1, 1, 256, 1, 1, 0, 16, 16, 16, 1, 897988541>>)
               /\ Runtime!Words(b, 16, <<1, 1>>) /\ Runtime!Words(b, 28, <<1>>) /\ Runtime!Words(b, 40, <<50, 1024, 50>>)
      BY SMT DEF Runtime!Words, Runtime!Run
    <2>2. ~Runtime!Words(b, 16, <<2, 2>>)
      BY SMT, <1>8 DEF Runtime!Words, Runtime!Run
    <2>3. RmsNormCase(variant, 1, 50, 1024, 4096, 204800)
      BY <1>8 DEF RmsNormCase
    <2>4. Runtime!RmsNormParses(b) <=> (filled /\ RmsNormWritten(b, variant, 1, 50, 1024, 4096, 204800, bytes, sha))
      BY SMT, <1>1, <1>8, <2>1, <2>2 DEF RmsNormWritten, Runtime!RmsNormParses, Runtime!Sized, Runtime!HasModule,
         Runtime!Field
    <2>5. variant \in 1..2
      BY <1>8
    <2> HIDE DEF variant, filled
    <2> QED BY ONLY <1>5, <1>6, <1>7, <2>3, <2>4, <2>5
  <1>9. CASE variant = 2
    <2>1. Runtime!Words(b, 12, <<120, 2, 2, 1, 2, 1, 1, 968, 2048, 968, 1, 1, 256, 1, 1, 0, 16, 16, 16, 1, 897988541>>)
           <=> /\ Runtime!Words(b, 12, <<120>>) /\ Runtime!Words(b, 24, <<1>>) /\ Runtime!Words(b, 32, <<1, 1>>)
               /\ Runtime!Words(b, 52, <<1, 1, 256, 1, 1, 0, 16, 16, 16, 1, 897988541>>)
               /\ Runtime!Words(b, 16, <<2, 2>>) /\ Runtime!Words(b, 28, <<2>>) /\ Runtime!Words(b, 40, <<968, 2048, 968>>)
      BY SMT DEF Runtime!Words, Runtime!Run
    <2>2. ~Runtime!Words(b, 16, <<1, 1>>)
      BY SMT, <1>9 DEF Runtime!Words, Runtime!Run
    <2>3. RmsNormCase(variant, 2, 968, 2048, 8192, 3964928)
      BY <1>9 DEF RmsNormCase
    <2>4. Runtime!RmsNormParses(b) <=> (filled /\ RmsNormWritten(b, variant, 2, 968, 2048, 8192, 3964928, bytes, sha))
      BY SMT, <1>1, <1>9, <2>1, <2>2 DEF RmsNormWritten, Runtime!RmsNormParses, Runtime!Sized, Runtime!HasModule,
         Runtime!Field
    <2>5. variant \in 1..2
      BY <1>9
    <2> HIDE DEF variant, filled
    <2> QED BY ONLY <1>5, <1>6, <1>7, <2>3, <2>4, <2>5
  <1>10. CASE variant \notin 1..2
    <2>1. ~Runtime!RmsNormParses(b)
      BY SMT, <1>10 DEF Runtime!RmsNormParses, Runtime!Words, Runtime!Run
    <2> QED BY <1>5, <1>7, <1>10, <2>1
  <1> QED BY <1>2, <1>8, <1>9, <1>10

(* Rotary embedding: four shapes.                                           *)
RopeCase(variant, sequence, heads, grid, tensor, positions) ==
  \/ variant = 1 /\ sequence = 968 /\ heads = 8 /\ grid = 3872 /\ tensor = 3964928 /\ positions = 3872
  \/ variant = 2 /\ sequence = 968 /\ heads = 1 /\ grid = 484 /\ tensor = 495616 /\ positions = 3872
  \/ variant = 3 /\ sequence = 50 /\ heads = 8 /\ grid = 200 /\ tensor = 204800 /\ positions = 200
  \/ variant = 4 /\ sequence = 50 /\ heads = 1 /\ grid = 25 /\ tensor = 25600 /\ positions = 200

(* The fields of the rotary embedding.                                     *)
RopeWritten(b, variant, sequence, heads, grid, tensor, positions, bytes, sha) ==
  /\ b = [magic |-> "AIROP1", size |-> 192, at |-> b.at] /\ b.at \in [Framed(25, 4) -> Nat]
  /\ Runtime!Shorts(b, 8, <<1, 0>>)
  /\ Runtime!Words(b, 12, <<120, variant, 2, 3, 2, 2, 3, 1, heads, sequence, 256, 128, grid, 1, 1, 256,
                            1, 1, 0, 16, 16, 16, 2, 1, 1176256512>>)
  /\ Runtime!Longs(b, 112, <<tensor, positions, tensor>>)
  /\ b.at[136] = bytes /\ b.at[144] = sha /\ b.at[176] = 0

(* Where the fields of the rotary embedding start.                         *)
LEMMA RopeLays ==
  /\ Layout("AIROP1") = Framed(25, 4) /\ Extent("AIROP1") = 192
  /\ {16, 136, 144, 176} \subseteq Framed(25, 4)
  <1>1. Layout("AIROP1") = Framed(25, 4) /\ Extent("AIROP1") = 192
    BY DEF Layout, Extent, GeluMulForms, CompactGateForms
  <1>2. 144 \in Framed(25, 4) /\ 176 \in Framed(25, 4)
    BY SMT DEF Framed
  <1>3. 136 \in Framed(25, 4)
    BY SMT DEF Framed, Starts
  <1>4. 16 \in Framed(25, 4)
    BY SMT DEF Framed, Starts
  <1> QED BY <1>1, <1>2, <1>3, <1>4

(* to_bytes of the rotary embedding writes these fields and no others.     *)
LEMMA RopeWrites ==
  ASSUME NEW p, NEW b, p.module \in Modules, NEW sequence, NEW heads, NEW grid,
         NEW tensor, NEW positions, RopeCase(p.variant, sequence, heads, grid, tensor, positions)
  PROVE RopeBytes(p) = b
          <=> RopeWritten(b, p.variant, sequence, heads, grid, tensor, positions, p.module.bytes, p.module.sha)
  <1> DEFINE variant == p.variant
             bytes == p.module.bytes
             sha == p.module.sha
             words == <<120, variant, 2, 3, 2, 2, 3, 1, heads, sequence, 256, 128, grid, 1, 1, 256,
                        1, 1, 0, 16, 16, 16, 2, 1, 1176256512>>
             longs == <<tensor, positions, tensor, bytes>>
             parts == <<U32(words), U64(longs), Digest(sha), Reserved(16)>>
  <1>1. /\ variant \in Nat /\ sequence \in Nat /\ heads \in Nat /\ grid \in Nat /\ tensor \in Nat
        /\ positions \in Nat
    BY SMT DEF RopeCase
  <1>2. words \in Seq(Nat) /\ Len(words) = 25
    BY SMT, <1>1
  <1>3. longs \in Seq(Nat) /\ Len(longs) = 4 /\ sha \in Nat
    BY SMT, <1>1 DEF Modules
  <1>4. RopeBytes(p) = Packed("AIROP1", 1, 0, parts)
    <2>1. RopeShape[variant][1] = sequence /\ RopeShape[variant][2] = heads
      BY SMT DEF RopeCase, RopeShape
    <2>2. /\ sequence * heads * 256 * 2 = tensor /\ sequence * 4 = positions
          /\ Round(sequence * heads * 128, 256) = grid
      BY SMT DEF RopeCase, Round
    <2> QED BY SMT, <2>1, <2>2 DEF RopeBytes, SM120, Theta
  <1> HIDE DEF variant
  <1> HIDE DEF bytes, sha
  <1>5. Runtime!Longs(b, 112, longs)
         <=> Runtime!Longs(b, 112, <<tensor, positions, tensor>>) /\ 136 \in DOMAIN b.at /\ b.at[136] = bytes
    BY SMT, LongsFour, LongsThree DEF longs
  <1> HIDE DEF words, longs
  <1>6. Framing(parts, words, longs, sha, 16, 25, 4)
    BY <1>2, <1>3 DEF Framing
  <1> HIDE DEF parts
  <1>7. RopeBytes(p) = b <=> FramedAs(b, "AIROP1", words, longs, sha, 16, 25, 4)
    BY <1>4, <1>6, FramedIs
  <1>8. /\ 12 + (4 * 25) = 112 /\ 12 + (4 * 25) + (8 * 4) = 144 /\ 44 + (4 * 25) + (8 * 4) = 176
        /\ 44 + (4 * 25) + (8 * 4) + 16 = 192
    BY SMT
  <1>9. 136 \in Framed(25, 4)
    BY RopeLays
  <1>10. FramedAs(b, "AIROP1", words, longs, sha, 16, 25, 4) <=> RopeWritten(b, variant, sequence, heads, grid, tensor, positions, bytes, sha)
    BY SMT, <1>5, <1>8, <1>9 DEF RopeWritten, FramedAs, words
  <1> QED BY <1>7, <1>10 DEF variant, bytes, sha

(* A payload of the rotary embedding is read back as it was written.       *)
LEMMA RopeBack ==
  ASSUME NEW p \in [form : {"AIROP1"}, variant : Nat, module : Modules], ProblemValid(p)
  PROVE LaidWhole(Bytes(p)) /\ Read(Bytes(p)) = p
  <1> DEFINE b == Bytes(p)
  <1>1. /\ p = [form |-> "AIROP1", variant |-> p.variant, module |-> p.module]
        /\ p.module = [bytes |-> p.module.bytes, sha |-> p.module.sha]
    BY DEF Modules
  <1>2. b = RopeBytes(p)
    BY <1>1 DEF Bytes, GeluMulForms, CompactGateForms, RoundedForms
  <1>3. PICK sequence, heads, grid, tensor, positions : RopeCase(p.variant, sequence, heads, grid, tensor, positions)
    <2>1. p.variant \in 1..4
      BY <1>1 DEF ProblemValid, GeluMulForms, CompactGateForms, RoundedForms
    <2>2. CASE p.variant = 1
      BY <2>2 DEF RopeCase
    <2>3. CASE p.variant = 2
      BY <2>3 DEF RopeCase
    <2>4. CASE p.variant = 3
      BY <2>4 DEF RopeCase
    <2>5. CASE p.variant = 4
      BY <2>5 DEF RopeCase
    <2> QED BY <2>1, <2>2, <2>3, <2>4, <2>5
  <1> HIDE DEF b
  <1>4. RopeWritten(b, p.variant, sequence, heads, grid, tensor, positions, p.module.bytes, p.module.sha)
    BY <1>2, <1>3, RopeWrites
  <1>5. /\ b = [magic |-> "AIROP1", size |-> 192, at |-> b.at] /\ b.at \in [Framed(25, 4) -> Nat]
        /\ b.at[136] = p.module.bytes /\ b.at[144] = p.module.sha
    BY <1>4 DEF RopeWritten
  <1>6. b.at[16] = p.variant
    <2> DEFINE v == <<120, p.variant, 2, 3, 2, 2, 3, 1, heads, sequence, 256, 128, grid, 1, 1, 256,
                  1, 1, 0, 16, 16, 16, 2, 1, 1176256512>>
    <2>1. Runtime!Words(b, 12, v)
      BY <1>4 DEF RopeWritten
    <2>2. 2 \in DOMAIN v /\ v[2] = p.variant
      BY SMT
    <2> HIDE DEF v
    <2> QED BY ONLY <2>1, <2>2, SecondWord
  <1>7. b.magic = "AIROP1" /\ b.size = 192
    BY <1>5
  <1>8. Read(b) = [form |-> b.magic, variant |-> b.at[16], module |-> [bytes |-> b.at[136], sha |-> b.at[144]]]
    BY <1>7 DEF Read, RopeRead, ModuleIn, GeluMulForms, CompactGateForms, RoundedForms
  <1>9. LaidWhole(b)
    BY <1>5, <1>7, RopeLays DEF LaidWhole, Magics
  <1> QED BY <1>1, <1>5, <1>6, <1>7, <1>8, <1>9 DEF b

(* from_bytes and the runtime's parser accept the same payloads of the     *)
(* rotary embedding.                                                       *)
LEMMA RopeAgree ==
  ASSUME NEW b, LaidWhole(b), b.magic = "AIROP1"
  PROVE Decodes(b) <=> Runtime!Parses(b)
  <1> DEFINE p == Read(b)
             variant == b.at[16]
             bytes == b.at[136]
             sha == b.at[144]
             filled == bytes # 0 /\ sha # 0
  <1>1. /\ b = [magic |-> "AIROP1", size |-> 192, at |-> b.at] /\ b.at \in [Framed(25, 4) -> Nat]
        /\ {16, 136, 144, 176} \subseteq DOMAIN b.at /\ b.size = 192
    BY RopeLays DEF LaidWhole
  <1>2. bytes \in Nat /\ sha \in Nat /\ variant \in Nat
    BY <1>1
  <1>3. p = [form |-> b.magic, variant |-> variant, module |-> [bytes |-> bytes, sha |-> sha]]
    BY DEF Read, RopeRead, ModuleIn, GeluMulForms, CompactGateForms, RoundedForms
  <1>4. /\ p.form = "AIROP1" /\ p.variant = variant
        /\ p.module.bytes = bytes /\ p.module.sha = sha /\ p.module \in Modules
    BY <1>2, <1>3 DEF Modules
  <1> HIDE DEF p
  <1>5. /\ Decodes(b) <=> (variant \in 1..4 /\ filled /\ RopeBytes(p) = b)
    <2>1. Bytes(p) = RopeBytes(p)
      BY <1>4 DEF Bytes, GeluMulForms, CompactGateForms, RoundedForms
    <2>2. Valid(p) <=> variant \in 1..4 /\ bytes > 0 /\ sha # 0
      BY <1>4 DEF Valid, ProblemValid, ModuleValid, GeluMulForms, CompactGateForms, RoundedForms
    <2>3. Decodes(b) <=> Valid(p) /\ Bytes(p) = b
      BY DEF Decodes, p
    <2> HIDE DEF bytes, sha, variant
    <2> QED BY <1>2, <2>1, <2>2, <2>3
  <1>6. \A sequence, heads, grid, tensor, positions :
          RopeCase(variant, sequence, heads, grid, tensor, positions)
            => (RopeBytes(p) = b <=> RopeWritten(b, variant, sequence, heads, grid, tensor, positions, bytes, sha))
    BY <1>4, RopeWrites
  <1>7. Runtime!Parses(b) <=> Runtime!RopeParses(b)
    BY DEF Runtime!Parses
  <1>8. CASE variant = 1
    <2>1. Runtime!Words(b, 12, <<120, 1, 2, 3, 2, 2, 3, 1, 8, 968, 256, 128, 3872, 1, 1, 256,
                                 1, 1, 0, 16, 16, 16, 2, 1, 1176256512>>)
           <=> /\ Runtime!Words(b, 12, <<120>>) /\ Runtime!Words(b, 20, <<2, 3, 2, 2, 3, 1>>)
               /\ Runtime!Words(b, 52, <<256, 128>>)
               /\ Runtime!Words(b, 64, <<1, 1, 256, 1, 1, 0, 16, 16, 16, 2, 1, 1176256512>>)
               /\ Runtime!Words(b, 16, <<1>>) /\ Runtime!Words(b, 44, <<8, 968>>) /\ Runtime!Words(b, 60, <<3872>>)
      BY SMT DEF Runtime!Words, Runtime!Run
    <2>2. ~Runtime!Words(b, 16, <<2>>) /\ ~Runtime!Words(b, 16, <<3>>) /\ ~Runtime!Words(b, 16, <<4>>)
      BY SMT, <1>8 DEF Runtime!Words, Runtime!Run
    <2>3. RopeCase(variant, 968, 8, 3872, 3964928, 3872)
      BY <1>8 DEF RopeCase
    <2>4. Runtime!RopeParses(b) <=> (filled /\ RopeWritten(b, variant, 968, 8, 3872, 3964928, 3872, bytes, sha))
      BY SMT, <1>1, <1>8, <2>1, <2>2 DEF RopeWritten, Runtime!RopeParses, Runtime!RopeVariant, Runtime!Sized,
         Runtime!HasModule, Runtime!Field
    <2>5. variant \in 1..4
      BY <1>8
    <2> HIDE DEF variant, filled
    <2> QED BY ONLY <1>5, <1>6, <1>7, <2>3, <2>4, <2>5
  <1>9. CASE variant = 2
    <2>1. Runtime!Words(b, 12, <<120, 2, 2, 3, 2, 2, 3, 1, 1, 968, 256, 128, 484, 1, 1, 256,
                                 1, 1, 0, 16, 16, 16, 2, 1, 1176256512>>)
           <=> /\ Runtime!Words(b, 12, <<120>>) /\ Runtime!Words(b, 20, <<2, 3, 2, 2, 3, 1>>)
               /\ Runtime!Words(b, 52, <<256, 128>>)
               /\ Runtime!Words(b, 64, <<1, 1, 256, 1, 1, 0, 16, 16, 16, 2, 1, 1176256512>>)
               /\ Runtime!Words(b, 16, <<2>>) /\ Runtime!Words(b, 44, <<1, 968>>) /\ Runtime!Words(b, 60, <<484>>)
      BY SMT DEF Runtime!Words, Runtime!Run
    <2>2. ~Runtime!Words(b, 16, <<1>>) /\ ~Runtime!Words(b, 16, <<3>>) /\ ~Runtime!Words(b, 16, <<4>>)
      BY SMT, <1>9 DEF Runtime!Words, Runtime!Run
    <2>3. RopeCase(variant, 968, 1, 484, 495616, 3872)
      BY <1>9 DEF RopeCase
    <2>4. Runtime!RopeParses(b) <=> (filled /\ RopeWritten(b, variant, 968, 1, 484, 495616, 3872, bytes, sha))
      BY SMT, <1>1, <1>9, <2>1, <2>2 DEF RopeWritten, Runtime!RopeParses, Runtime!RopeVariant, Runtime!Sized,
         Runtime!HasModule, Runtime!Field
    <2>5. variant \in 1..4
      BY <1>9
    <2> HIDE DEF variant, filled
    <2> QED BY ONLY <1>5, <1>6, <1>7, <2>3, <2>4, <2>5
  <1>10. CASE variant = 3
    <2>1. Runtime!Words(b, 12, <<120, 3, 2, 3, 2, 2, 3, 1, 8, 50, 256, 128, 200, 1, 1, 256,
                                 1, 1, 0, 16, 16, 16, 2, 1, 1176256512>>)
           <=> /\ Runtime!Words(b, 12, <<120>>) /\ Runtime!Words(b, 20, <<2, 3, 2, 2, 3, 1>>)
               /\ Runtime!Words(b, 52, <<256, 128>>)
               /\ Runtime!Words(b, 64, <<1, 1, 256, 1, 1, 0, 16, 16, 16, 2, 1, 1176256512>>)
               /\ Runtime!Words(b, 16, <<3>>) /\ Runtime!Words(b, 44, <<8, 50>>) /\ Runtime!Words(b, 60, <<200>>)
      BY SMT DEF Runtime!Words, Runtime!Run
    <2>2. ~Runtime!Words(b, 16, <<1>>) /\ ~Runtime!Words(b, 16, <<2>>) /\ ~Runtime!Words(b, 16, <<4>>)
      BY SMT, <1>10 DEF Runtime!Words, Runtime!Run
    <2>3. RopeCase(variant, 50, 8, 200, 204800, 200)
      BY <1>10 DEF RopeCase
    <2>4. Runtime!RopeParses(b) <=> (filled /\ RopeWritten(b, variant, 50, 8, 200, 204800, 200, bytes, sha))
      BY SMT, <1>1, <1>10, <2>1, <2>2 DEF RopeWritten, Runtime!RopeParses, Runtime!RopeVariant, Runtime!Sized,
         Runtime!HasModule, Runtime!Field
    <2>5. variant \in 1..4
      BY <1>10
    <2> HIDE DEF variant, filled
    <2> QED BY ONLY <1>5, <1>6, <1>7, <2>3, <2>4, <2>5
  <1>11. CASE variant = 4
    <2>1. Runtime!Words(b, 12, <<120, 4, 2, 3, 2, 2, 3, 1, 1, 50, 256, 128, 25, 1, 1, 256,
                                 1, 1, 0, 16, 16, 16, 2, 1, 1176256512>>)
           <=> /\ Runtime!Words(b, 12, <<120>>) /\ Runtime!Words(b, 20, <<2, 3, 2, 2, 3, 1>>)
               /\ Runtime!Words(b, 52, <<256, 128>>)
               /\ Runtime!Words(b, 64, <<1, 1, 256, 1, 1, 0, 16, 16, 16, 2, 1, 1176256512>>)
               /\ Runtime!Words(b, 16, <<4>>) /\ Runtime!Words(b, 44, <<1, 50>>) /\ Runtime!Words(b, 60, <<25>>)
      BY SMT DEF Runtime!Words, Runtime!Run
    <2>2. ~Runtime!Words(b, 16, <<1>>) /\ ~Runtime!Words(b, 16, <<2>>) /\ ~Runtime!Words(b, 16, <<3>>)
      BY SMT, <1>11 DEF Runtime!Words, Runtime!Run
    <2>3. RopeCase(variant, 50, 1, 25, 25600, 200)
      BY <1>11 DEF RopeCase
    <2>4. Runtime!RopeParses(b) <=> (filled /\ RopeWritten(b, variant, 50, 1, 25, 25600, 200, bytes, sha))
      BY SMT, <1>1, <1>11, <2>1, <2>2 DEF RopeWritten, Runtime!RopeParses, Runtime!RopeVariant, Runtime!Sized,
         Runtime!HasModule, Runtime!Field
    <2>5. variant \in 1..4
      BY <1>11
    <2> HIDE DEF variant, filled
    <2> QED BY ONLY <1>5, <1>6, <1>7, <2>3, <2>4, <2>5
  <1>12. CASE variant \notin 1..4
    <2>1. ~Runtime!RopeParses(b)
      BY SMT, <1>12 DEF Runtime!RopeParses, Runtime!RopeVariant, Runtime!Words, Runtime!Run
    <2> QED BY <1>5, <1>7, <1>12, <2>1
  <1> QED BY <1>2, <1>8, <1>9, <1>10, <1>11, <1>12

(* Multiply-add, and the compact gates.                                    *)
MulAddWritten(b, form, numel, bytes, sha) ==
  /\ b = [magic |-> form, size |-> 128, at |-> b.at] /\ b.at \in [Framed(1, 2) -> Nat]
  /\ Runtime!Shorts(b, 8, <<1, 0>>) /\ Runtime!Words(b, 12, <<120>>)
  /\ b.at[16] = numel /\ b.at[24] = bytes /\ b.at[32] = sha /\ b.at[64] = 0

(* Where the fields of the multiply-add and the compact gates start.       *)
LEMMA MulAddLays ==
  /\ \A form \in {"AIMAD1"} \cup CompactGateForms : Layout(form) = Framed(1, 2) /\ Extent(form) = 128
  /\ {16, 24, 32, 64} \subseteq Framed(1, 2)
  <1>1. \A form \in {"AIMAD1"} \cup CompactGateForms : Layout(form) = Framed(1, 2) /\ Extent(form) = 128
    BY DEF Layout, Extent, GeluMulForms, CompactGateForms
  <1>2. 32 \in Framed(1, 2) /\ 64 \in Framed(1, 2)
    BY SMT DEF Framed
  <1>3. 16 \in Framed(1, 2)
    BY SMT DEF Framed, Starts
  <1>4. 24 \in Framed(1, 2)
    BY SMT DEF Framed, Starts
  <1> QED BY <1>1, <1>2, <1>3, <1>4

(* to_bytes of the multiply-add and the compact gates writes these fields  *)
(* and no others.                                                          *)
LEMMA MulAddWrites ==
  ASSUME NEW p, NEW b, p.module \in Modules, p.numel \in Nat
  PROVE MulAddBytes(p) = b <=> MulAddWritten(b, p.form, p.numel, p.module.bytes, p.module.sha)
  <1> DEFINE form == p.form
             numel == p.numel
             bytes == p.module.bytes
             sha == p.module.sha
             words == <<120>>
             longs == <<numel, bytes>>
             parts == <<U32(words), U64(longs), Digest(sha), Reserved(64)>>
  <1>1. words \in Seq(Nat) /\ Len(words) = 1
    BY SMT
  <1>2. longs \in Seq(Nat) /\ Len(longs) = 2 /\ sha \in Nat
    BY SMT DEF Modules
  <1>3. MulAddBytes(p) = Packed(form, 1, 0, parts)
    BY SMT DEF MulAddBytes, SM120
  <1> HIDE DEF form, numel, bytes, sha
  <1>4. Runtime!Longs(b, 16, longs)
         <=> 16 \in DOMAIN b.at /\ b.at[16] = numel /\ 24 \in DOMAIN b.at /\ b.at[24] = bytes
    BY SMT, LongsTwo DEF longs
  <1> HIDE DEF words, longs
  <1>5. Framing(parts, words, longs, sha, 64, 1, 2)
    BY <1>1, <1>2 DEF Framing
  <1> HIDE DEF parts
  <1>6. MulAddBytes(p) = b <=> FramedAs(b, form, words, longs, sha, 64, 1, 2)
    BY <1>3, <1>5, FramedIs
  <1>7. /\ 12 + (4 * 1) = 16 /\ 12 + (4 * 1) + (8 * 2) = 32 /\ 44 + (4 * 1) + (8 * 2) = 64
        /\ 44 + (4 * 1) + (8 * 2) + 64 = 128
    BY SMT
  <1>8. 16 \in Framed(1, 2) /\ 24 \in Framed(1, 2)
    BY MulAddLays
  <1>9. FramedAs(b, form, words, longs, sha, 64, 1, 2) <=> MulAddWritten(b, form, numel, bytes, sha)
    BY SMT, <1>4, <1>7, <1>8 DEF MulAddWritten, FramedAs, words
  <1> QED BY <1>6, <1>9 DEF form, numel, bytes, sha

(* A payload of the multiply-add and the compact gates is read back as it  *)
(* was written.                                                            *)
LEMMA MulAddBack ==
  ASSUME NEW p \in [form : {"AIMAD1"} \cup CompactGateForms, numel : Nat, module : Modules]
  PROVE LaidWhole(Bytes(p)) /\ Read(Bytes(p)) = p
  <1> DEFINE b == Bytes(p)
  <1>1. /\ p = [form |-> p.form, numel |-> p.numel, module |-> p.module]
        /\ p.module = [bytes |-> p.module.bytes, sha |-> p.module.sha]
        /\ p.form \in {"AIMAD1"} \cup CompactGateForms
    BY DEF Modules
  <1>2. b = MulAddBytes(p)
    BY <1>1 DEF Bytes, GeluMulForms, CompactGateForms, RoundedForms
  <1> HIDE DEF b
  <1>3. MulAddWritten(b, p.form, p.numel, p.module.bytes, p.module.sha)
    BY <1>2, MulAddWrites
  <1>4. /\ b = [magic |-> p.form, size |-> 128, at |-> b.at] /\ b.at \in [Framed(1, 2) -> Nat]
        /\ b.at[16] = p.numel /\ b.at[24] = p.module.bytes /\ b.at[32] = p.module.sha
    BY <1>3 DEF MulAddWritten
  <1>5. b.magic = p.form /\ b.size = 128
    BY <1>4
  <1>6. Read(b) = [form |-> b.magic, numel |-> b.at[16], module |-> [bytes |-> b.at[24], sha |-> b.at[32]]]
    BY <1>1, <1>5 DEF Read, MulAddRead, ModuleIn, GeluMulForms, CompactGateForms, RoundedForms
  <1>7. LaidWhole(b)
    BY <1>1, <1>4, <1>5, MulAddLays DEF LaidWhole, Magics
  <1> QED BY <1>1, <1>4, <1>5, <1>6, <1>7 DEF b

(* from_bytes and the runtime's parser accept the same payloads of the     *)
(* multiply-add and the compact gates.                                     *)
LEMMA MulAddAgree ==
  ASSUME NEW b, LaidWhole(b), b.magic \in {"AIMAD1"} \cup CompactGateForms
  PROVE Decodes(b) <=> Runtime!Parses(b)
  <1> DEFINE p == Read(b)
             form == b.magic
             numel == b.at[16]
             bytes == b.at[24]
             sha == b.at[32]
             compact == form \in CompactGateForms
  <1>1. /\ b = [magic |-> form, size |-> 128, at |-> b.at] /\ b.at \in [Framed(1, 2) -> Nat]
        /\ {16, 24, 32, 64} \subseteq DOMAIN b.at /\ b.size = 128
    BY MulAddLays DEF LaidWhole
  <1>2. bytes \in Nat /\ sha \in Nat /\ numel \in Nat
    BY <1>1
  <1>3. p = [form |-> form, numel |-> numel, module |-> [bytes |-> bytes, sha |-> sha]]
    BY DEF Read, MulAddRead, ModuleIn, GeluMulForms, CompactGateForms, RoundedForms
  <1>4. /\ p.form = form /\ p.numel = numel
        /\ p.module.bytes = bytes /\ p.module.sha = sha /\ p.module \in Modules
    BY <1>2, <1>3 DEF Modules
  <1> HIDE DEF p
  <1>5. Decodes(b) <=> /\ numel \in 1..MaxNumel /\ (compact => numel = 51200)
                       /\ bytes > 0 /\ sha # 0 /\ MulAddWritten(b, form, numel, bytes, sha)
    <2>1. Bytes(p) = MulAddBytes(p)
      BY <1>4 DEF Bytes, GeluMulForms, CompactGateForms, RoundedForms
    <2>2. MulAddBytes(p) = b <=> MulAddWritten(b, form, numel, bytes, sha)
      BY <1>2, <1>4, MulAddWrites
    <2>3. ProblemValid(p) <=> numel \in 1..MaxNumel /\ (compact => numel = 51200)
      BY <1>4 DEF ProblemValid, MulAddValid, CompactGateValid, GeluMulForms, CompactGateForms, RoundedForms
    <2>4. Valid(p) <=> ProblemValid(p) /\ bytes > 0 /\ sha # 0
      BY <1>4 DEF Valid, ModuleValid, CompactGateForms
    <2>5. Decodes(b) <=> Valid(p) /\ Bytes(p) = b
      BY DEF Decodes, p, CompactGateForms
    <2> HIDE DEF bytes, sha, numel, form, compact
    <2> QED BY <2>1, <2>2, <2>3, <2>4, <2>5
  <1>6. Runtime!Parses(b) <=> Runtime!RoundedMulAddParses(b) /\ (compact => numel = 51200)
    <2>1. CASE form = "AIMAD1"
      BY <2>1 DEF Runtime!Parses, CompactGateForms
    <2>2. CASE compact
      <3>1. Runtime!Parses(b) <=> Runtime!CompactGateParses(b)
        BY <2>2 DEF Runtime!Parses, CompactGateForms
      <3> QED BY <2>2, <3>1 DEF Runtime!CompactGateParses
    <2> QED BY <2>1, <2>2
  <1>7. Runtime!Words(b, 64, <<0>>) <=> b.at[64] = 0
    BY SMT, <1>1 DEF Runtime!Words, Runtime!Run
  <1>8. Runtime!RoundedMulAddParses(b)
          <=> (numel \in 1..MaxNumel /\ bytes # 0 /\ sha # 0 /\ MulAddWritten(b, form, numel, bytes, sha))
    BY SMT, <1>1, <1>7 DEF MulAddWritten, Runtime!RoundedMulAddParses, Runtime!Numbered, Runtime!Sized,
       Runtime!HasModule, Runtime!Field, MaxNumel
  <1> HIDE DEF bytes, sha, numel, compact, form
  <1> QED BY <1>2, <1>5, <1>6, <1>8

(* The projection splits.                                                  *)
SplitWritten(b, form, rows, x, y, z, bytes, sha) ==
  /\ b = [magic |-> form, size |-> 128, at |-> b.at] /\ b.at \in [Framed(5, 1) -> Nat]
  /\ Runtime!Shorts(b, 8, <<1, 0>>) /\ Runtime!Words(b, 12, <<120>>)
  /\ b.at[16] = rows /\ b.at[20] = x /\ b.at[24] = y /\ b.at[28] = z
  /\ b.at[32] = bytes /\ b.at[40] = sha /\ b.at[72] = 0

(* Where the fields of the projection splits start.                        *)
LEMMA SplitLays ==
  /\ \A form \in {"AIPSP1", "AIQRP1"} : Layout(form) = Framed(5, 1) /\ Extent(form) = 128
  /\ {16, 20, 24, 28, 32, 40, 72} \subseteq Framed(5, 1)
  <1>1. \A form \in {"AIPSP1", "AIQRP1"} : Layout(form) = Framed(5, 1) /\ Extent(form) = 128
    BY DEF Layout, Extent, GeluMulForms, CompactGateForms
  <1>2. 40 \in Framed(5, 1) /\ 72 \in Framed(5, 1)
    BY SMT DEF Framed
  <1>3. \A i \in 1..5 : 12 + (4 * (i - 1)) \in Framed(5, 1)
    BY DEF Framed, Starts
  <1>4. 16 \in Framed(5, 1) /\ 20 \in Framed(5, 1) /\ 24 \in Framed(5, 1) /\ 28 \in Framed(5, 1)
    <2>1. 2 \in 1..5 /\ 3 \in 1..5 /\ 4 \in 1..5 /\ 5 \in 1..5
      OBVIOUS
    <2>2. 12 + (4 * (2 - 1)) = 16 /\ 12 + (4 * (3 - 1)) = 20 /\ 12 + (4 * (4 - 1)) = 24 /\ 12 + (4 * (5 - 1)) = 28
      OBVIOUS
    <2> QED BY ONLY <1>3, <2>1, <2>2, Zenon
  <1>5. 32 \in Framed(5, 1)
    BY SMT DEF Framed, Starts
  <1> QED BY <1>1, <1>2, <1>4, <1>5

(* to_bytes of the projection splits writes these fields and no others.    *)
LEMMA SplitWrites ==
  ASSUME NEW p, NEW b, p.module \in Modules, p.rows \in Nat, p.widths \in [1..3 -> Nat]
  PROVE SplitBytes(p) = b
          <=> SplitWritten(b, p.form, p.rows, p.widths[1], p.widths[2], p.widths[3], p.module.bytes, p.module.sha)
  <1> DEFINE form == p.form
             rows == p.rows
             x == p.widths[1]
             y == p.widths[2]
             z == p.widths[3]
             bytes == p.module.bytes
             sha == p.module.sha
             words == <<120, rows, x, y, z>>
             longs == <<bytes>>
             parts == <<U32(words), U64(longs), Digest(sha), Reserved(56)>>
  <1>1. words \in Seq(Nat) /\ Len(words) = 5
    <2>1. x \in Nat /\ y \in Nat /\ z \in Nat
      OBVIOUS
    <2> HIDE DEF x, y, z
    <2> QED BY SMT, <2>1
  <1>2. longs \in Seq(Nat) /\ Len(longs) = 1 /\ sha \in Nat
    BY SMT DEF Modules
  <1>3. SplitBytes(p) = Packed(form, 1, 0, parts)
    BY DEF SplitBytes, SM120
  <1> HIDE DEF form, rows, x, y, z, bytes, sha
  <1>4. Runtime!Longs(b, 32, longs) <=> 32 \in DOMAIN b.at /\ b.at[32] = bytes
    BY SMT, LongsOne DEF longs
  <1>5. Runtime!Words(b, 12, words)
         <=> /\ Runtime!Words(b, 12, <<120>>) /\ 16 \in DOMAIN b.at /\ b.at[16] = rows
             /\ 20 \in DOMAIN b.at /\ b.at[20] = x /\ 24 \in DOMAIN b.at /\ b.at[24] = y
             /\ 28 \in DOMAIN b.at /\ b.at[28] = z
    BY SMT, WordsFive, WordsOne DEF words
  <1> HIDE DEF words, longs
  <1>6. Framing(parts, words, longs, sha, 56, 5, 1)
    BY <1>1, <1>2 DEF Framing
  <1> HIDE DEF parts
  <1>7. SplitBytes(p) = b <=> FramedAs(b, form, words, longs, sha, 56, 5, 1)
    BY <1>3, <1>6, FramedIs
  <1>8. /\ 12 + (4 * 5) = 32 /\ 12 + (4 * 5) + (8 * 1) = 40 /\ 44 + (4 * 5) + (8 * 1) = 72
        /\ 44 + (4 * 5) + (8 * 1) + 56 = 128
    BY SMT
  <1>9. {16, 20, 24, 28, 32} \subseteq Framed(5, 1)
    BY SplitLays
  <1>10. FramedAs(b, form, words, longs, sha, 56, 5, 1) <=> SplitWritten(b, form, rows, x, y, z, bytes, sha)
    BY SMT, <1>4, <1>5, <1>8, <1>9 DEF SplitWritten, FramedAs
  <1> QED BY <1>7, <1>10 DEF form, rows, x, y, z, bytes, sha

(* A payload of the projection splits is read back as it was written.      *)
LEMMA SplitBack ==
  ASSUME NEW p \in [form : {"AIPSP1", "AIQRP1"}, rows : Nat, widths : [1..3 -> Nat], module : Modules]
  PROVE LaidWhole(Bytes(p)) /\ Read(Bytes(p)) = p
  <1> DEFINE b == Bytes(p)
  <1>1. /\ p = [form |-> p.form, rows |-> p.rows, widths |-> p.widths, module |-> p.module]
        /\ p.module = [bytes |-> p.module.bytes, sha |-> p.module.sha]
        /\ p.form \in {"AIPSP1", "AIQRP1"} /\ p.widths = <<p.widths[1], p.widths[2], p.widths[3]>>
    BY DEF Modules
  <1>2. b = SplitBytes(p)
    BY <1>1 DEF Bytes, GeluMulForms, CompactGateForms, RoundedForms
  <1> HIDE DEF b
  <1>3. SplitWritten(b, p.form, p.rows, p.widths[1], p.widths[2], p.widths[3], p.module.bytes, p.module.sha)
    BY <1>2, SplitWrites
  <1>4. /\ b = [magic |-> p.form, size |-> 128, at |-> b.at] /\ b.at \in [Framed(5, 1) -> Nat]
        /\ b.at[16] = p.rows /\ b.at[20] = p.widths[1] /\ b.at[24] = p.widths[2] /\ b.at[28] = p.widths[3]
        /\ b.at[32] = p.module.bytes /\ b.at[40] = p.module.sha
    BY <1>3 DEF SplitWritten
  <1>5. b.magic = p.form /\ b.size = 128
    BY <1>4
  <1>6. Read(b) = [form |-> b.magic, rows |-> b.at[16], widths |-> <<b.at[20], b.at[24], b.at[28]>>,
                   module |-> [bytes |-> b.at[32], sha |-> b.at[40]]]
    BY <1>1, <1>5 DEF Read, SplitRead, ModuleIn, GeluMulForms, CompactGateForms, RoundedForms
  <1>7. LaidWhole(b)
    BY <1>1, <1>4, <1>5, SplitLays DEF LaidWhole, Magics
  <1> QED BY <1>1, <1>4, <1>5, <1>6, <1>7 DEF b

(* The shape of the one attention whose projection is split and packed.    *)
LEMMA PackedWidths ==
  ASSUME NEW b
  PROVE Runtime!Words(b, 16, <<50, 2048, 256, 256>>)
          <=> /\ 16 \in DOMAIN b.at /\ b.at[16] = 50 /\ 20 \in DOMAIN b.at /\ b.at[20] = 2048
              /\ 24 \in DOMAIN b.at /\ b.at[24] = 256 /\ 28 \in DOMAIN b.at /\ b.at[28] = 256
  BY SMT, WordsFour

(* from_bytes and the runtime's parser accept the same payloads of the     *)
(* projection splits.                                                      *)
LEMMA SplitAgree ==
  ASSUME NEW b, LaidWhole(b), b.magic \in {"AIPSP1", "AIQRP1"}
  PROVE Decodes(b) <=> Runtime!Parses(b)
  <1> DEFINE p == Read(b)
             form == b.magic
             rows == b.at[16]
             x == b.at[20]
             y == b.at[24]
             z == b.at[28]
             bytes == b.at[32]
             sha == b.at[40]
             split == /\ rows \in 1..128 /\ x > 0 /\ x % 8 = 0 /\ y > 0 /\ y % 8 = 0 /\ z > 0 /\ z % 8 = 0
                      /\ x + y + z <= 65536
             fixed == form = "AIQRP1" => rows = 50 /\ x = 2048 /\ y = 256 /\ z = 256
             written == SplitWritten(b, form, rows, x, y, z, bytes, sha)
  <1>1. /\ b = [magic |-> form, size |-> 128, at |-> b.at] /\ b.at \in [Framed(5, 1) -> Nat]
        /\ {16, 20, 24, 28, 32, 40, 72} \subseteq DOMAIN b.at /\ b.size = 128
    BY SplitLays DEF LaidWhole
  <1>2. /\ bytes \in Nat /\ sha \in Nat /\ rows \in Nat /\ x \in Nat /\ y \in Nat /\ z \in Nat
    BY <1>1
  <1>3. p = [form |-> form, rows |-> rows, widths |-> <<x, y, z>>, module |-> [bytes |-> bytes, sha |-> sha]]
    BY DEF Read, SplitRead, ModuleIn, GeluMulForms, CompactGateForms, RoundedForms
  <1>4. /\ p.form = form /\ p.rows = rows /\ p.widths = <<x, y, z>>
        /\ p.module.bytes = bytes /\ p.module.sha = sha /\ p.module \in Modules
    BY <1>2, <1>3 DEF Modules
  <1> HIDE DEF p
  <1>5. p.widths \in [1..3 -> Nat] /\ p.widths[1] = x /\ p.widths[2] = y /\ p.widths[3] = z
    <2> HIDE DEF x, y, z
    <2> QED BY <1>2, <1>4
  <1>6. SplitBytes(p) = b <=> written
    BY <1>2, <1>4, <1>5, SplitWrites
  <1> HIDE DEF written
  <1>7. Decodes(b) <=> split /\ fixed /\ bytes > 0 /\ sha # 0 /\ written
    <2>1. Bytes(p) = SplitBytes(p)
      BY <1>4 DEF Bytes, GeluMulForms, CompactGateForms, RoundedForms
    <2>2. SplitValid(p) <=> split
      <3>1. 1..3 = {1, 2, 3}
        OBVIOUS
      <3> HIDE DEF rows, x, y, z
      <3> QED BY <1>4, <1>5, <3>1 DEF SplitValid
    <2>3. QkvRopePackValid(p) <=> split /\ rows = 50 /\ x = 2048 /\ y = 256 /\ z = 256
      <3> HIDE DEF rows, x, y, z, split
      <3> QED BY SMT, <1>4, <1>5, <2>2 DEF QkvRopePackValid
    <2>4. ProblemValid(p) <=> split /\ fixed
      <3>1. CASE form = "AIPSP1"
        <4>1. ProblemValid(p) <=> SplitValid(p)
          BY <1>4, <3>1 DEF ProblemValid, GeluMulForms, CompactGateForms, RoundedForms
        <4> HIDE DEF split, rows, x, y, z
        <4> QED BY <2>2, <3>1, <4>1
      <3>2. CASE form = "AIQRP1"
        <4>1. ProblemValid(p) <=> QkvRopePackValid(p)
          BY <1>4, <3>2 DEF ProblemValid, GeluMulForms, CompactGateForms, RoundedForms
        <4> HIDE DEF split, rows, x, y, z
        <4> QED BY <2>3, <3>2, <4>1
      <3> QED BY <3>1, <3>2
    <2>5. Valid(p) <=> ProblemValid(p) /\ bytes > 0 /\ sha # 0
      BY <1>4 DEF Valid, ModuleValid
    <2>6. Decodes(b) <=> Valid(p) /\ Bytes(p) = b
      BY DEF Decodes, p
    <2> HIDE DEF bytes, sha, split, fixed
    <2> QED BY <1>6, <2>1, <2>4, <2>5, <2>6
  <1>8. Runtime!Parses(b) <=> Runtime!ProjectionSplitParses(b)
    BY DEF Runtime!Parses
  <1>9. Runtime!Words(b, 16, <<50, 2048, 256, 256>>) <=> rows = 50 /\ x = 2048 /\ y = 256 /\ z = 256
    <2>1. Runtime!Words(b, 16, <<50, 2048, 256, 256>>)
           <=> /\ 16 \in DOMAIN b.at /\ b.at[16] = 50 /\ 20 \in DOMAIN b.at /\ b.at[20] = 2048
               /\ 24 \in DOMAIN b.at /\ b.at[24] = 256 /\ 28 \in DOMAIN b.at /\ b.at[28] = 256
      BY PackedWidths
    <2> QED BY <1>1, <2>1
  <1>10. Runtime!ProjectionSplitParses(b) <=> split /\ fixed /\ bytes # 0 /\ sha # 0 /\ written
    <2> DEFINE widths == [i \in 1..3 |-> Runtime!Field(b, 16 + (4 * i))]
    <2>1. widths[1] = x /\ widths[2] = y /\ widths[3] = z
      BY SMT, <1>1 DEF Runtime!Field
    <2>2. Runtime!ProjectionSplitParses(b)
           <=> /\ b.size = 128 /\ Runtime!Shorts(b, 8, <<1, 0>>) /\ Runtime!Words(b, 12, <<120>>)
               /\ rows \in 1..128 /\ (\A i \in 1..3 : widths[i] # 0 /\ widths[i] % 8 = 0)
               /\ widths[1] + widths[2] + widths[3] <= 65536 /\ fixed /\ bytes # 0 /\ sha # 0 /\ b.at[72] = 0
      <3>1. /\ Runtime!Field(b, 16) = rows /\ Runtime!Field(b, 32) = bytes /\ Runtime!Field(b, 40) = sha
            /\ Runtime!Field(b, 72) = b.at[72]
        BY SMT, <1>1 DEF Runtime!Field
      <3> HIDE DEF rows, x, y, z, bytes, sha
      <3> QED BY <1>9, <3>1 DEF Runtime!ProjectionSplitParses, Runtime!Sized, Runtime!HasModule
    <2>3. written <=> Runtime!Shorts(b, 8, <<1, 0>>) /\ Runtime!Words(b, 12, <<120>>) /\ b.at[72] = 0
      BY <1>1 DEF written, SplitWritten
    <2>4. 1..3 = {1, 2, 3}
      OBVIOUS
    <2> HIDE DEF widths, bytes, sha, rows, x, y, z, fixed
    <2>5. (\A i \in 1..3 : widths[i] # 0 /\ widths[i] % 8 = 0)
           <=> x > 0 /\ x % 8 = 0 /\ y > 0 /\ y % 8 = 0 /\ z > 0 /\ z % 8 = 0
      BY <1>2, <2>1, <2>4
    <2> QED BY <1>1, <2>1, <2>2, <2>3, <2>5
  <1> HIDE DEF bytes, sha, split, fixed
  <1> QED BY <1>2, <1>7, <1>8, <1>10

(* The state update.                                                       *)
StateUpdateWritten(b, total, count, offset, bytes, sha) ==
  /\ b = [magic |-> "AISTU1", size |-> 128, at |-> b.at] /\ b.at \in [Framed(1, 4) -> Nat]
  /\ Runtime!Shorts(b, 8, <<1, 0>>) /\ Runtime!Words(b, 12, <<120>>)
  /\ b.at[16] = total /\ b.at[24] = count /\ b.at[32] = offset
  /\ b.at[40] = bytes /\ b.at[48] = sha /\ b.at[80] = 0

(* Where the fields of the state update start.                             *)
LEMMA StateUpdateLays ==
  /\ Layout("AISTU1") = Framed(1, 4) /\ Extent("AISTU1") = 128
  /\ {16, 24, 32, 40, 48, 80} \subseteq Framed(1, 4)
  <1>1. Layout("AISTU1") = Framed(1, 4) /\ Extent("AISTU1") = 128
    BY DEF Layout, Extent, GeluMulForms, CompactGateForms
  <1>2. 48 \in Framed(1, 4) /\ 80 \in Framed(1, 4)
    BY SMT DEF Framed
  <1>3. \A i \in 1..4 : 12 + (4 * 1) + (8 * (i - 1)) \in Framed(1, 4)
    BY DEF Framed, Starts
  <1>4. 16 \in Framed(1, 4) /\ 24 \in Framed(1, 4) /\ 32 \in Framed(1, 4) /\ 40 \in Framed(1, 4)
    <2>1. 1 \in 1..4 /\ 2 \in 1..4 /\ 3 \in 1..4 /\ 4 \in 1..4
      OBVIOUS
    <2>2. /\ 12 + (4 * 1) + (8 * (1 - 1)) = 16 /\ 12 + (4 * 1) + (8 * (2 - 1)) = 24
          /\ 12 + (4 * 1) + (8 * (3 - 1)) = 32 /\ 12 + (4 * 1) + (8 * (4 - 1)) = 40
      OBVIOUS
    <2> QED BY ONLY <1>3, <2>1, <2>2, Zenon
  <1> QED BY <1>1, <1>2, <1>4

(* to_bytes of the state update writes these fields and no others.         *)
LEMMA StateUpdateWrites ==
  ASSUME NEW p, NEW b, p.module \in Modules, p.total \in Nat, p.count \in Nat, p.offset \in Nat
  PROVE StateUpdateBytes(p) = b
          <=> StateUpdateWritten(b, p.total, p.count, p.offset, p.module.bytes, p.module.sha)
  <1> DEFINE total == p.total
             count == p.count
             offset == p.offset
             bytes == p.module.bytes
             sha == p.module.sha
             words == <<120>>
             longs == <<total, count, offset, bytes>>
             parts == <<U32(words), U64(longs), Digest(sha), Reserved(48)>>
  <1>1. words \in Seq(Nat) /\ Len(words) = 1
    BY SMT
  <1>2. longs \in Seq(Nat) /\ Len(longs) = 4 /\ sha \in Nat
    BY SMT DEF Modules
  <1>3. StateUpdateBytes(p) = Packed("AISTU1", 1, 0, parts)
    BY DEF StateUpdateBytes, SM120
  <1> HIDE DEF total, count, offset, bytes, sha
  <1>4. Runtime!Longs(b, 16, longs)
         <=> /\ 16 \in DOMAIN b.at /\ b.at[16] = total /\ 24 \in DOMAIN b.at /\ b.at[24] = count
             /\ 32 \in DOMAIN b.at /\ b.at[32] = offset /\ 40 \in DOMAIN b.at /\ b.at[40] = bytes
    BY SMT, LongsFour DEF longs
  <1> HIDE DEF words, longs
  <1>5. Framing(parts, words, longs, sha, 48, 1, 4)
    BY <1>1, <1>2 DEF Framing
  <1> HIDE DEF parts
  <1>6. StateUpdateBytes(p) = b <=> FramedAs(b, "AISTU1", words, longs, sha, 48, 1, 4)
    BY <1>3, <1>5, FramedIs
  <1>7. /\ 12 + (4 * 1) = 16 /\ 12 + (4 * 1) + (8 * 4) = 48 /\ 44 + (4 * 1) + (8 * 4) = 80
        /\ 44 + (4 * 1) + (8 * 4) + 48 = 128
    BY SMT
  <1>8. {16, 24, 32, 40} \subseteq Framed(1, 4)
    BY StateUpdateLays
  <1>9. FramedAs(b, "AISTU1", words, longs, sha, 48, 1, 4)
          <=> StateUpdateWritten(b, total, count, offset, bytes, sha)
    BY SMT, <1>4, <1>7, <1>8 DEF StateUpdateWritten, FramedAs, words
  <1> QED BY <1>6, <1>9 DEF total, count, offset, bytes, sha

(* A payload of the state update is read back as it was written.           *)
LEMMA StateUpdateBack ==
  ASSUME NEW p \in [form : {"AISTU1"}, total : Nat, count : Nat, offset : Nat, module : Modules]
  PROVE LaidWhole(Bytes(p)) /\ Read(Bytes(p)) = p
  <1> DEFINE b == Bytes(p)
  <1>1. /\ p = [form |-> "AISTU1", total |-> p.total, count |-> p.count, offset |-> p.offset,
                module |-> p.module]
        /\ p.module = [bytes |-> p.module.bytes, sha |-> p.module.sha]
    BY DEF Modules
  <1>2. b = StateUpdateBytes(p)
    BY <1>1 DEF Bytes, GeluMulForms, CompactGateForms, RoundedForms
  <1> HIDE DEF b
  <1>3. StateUpdateWritten(b, p.total, p.count, p.offset, p.module.bytes, p.module.sha)
    BY <1>2, StateUpdateWrites
  <1>4. /\ b = [magic |-> "AISTU1", size |-> 128, at |-> b.at] /\ b.at \in [Framed(1, 4) -> Nat]
        /\ b.at[16] = p.total /\ b.at[24] = p.count /\ b.at[32] = p.offset
        /\ b.at[40] = p.module.bytes /\ b.at[48] = p.module.sha
    BY <1>3 DEF StateUpdateWritten
  <1>5. b.magic = "AISTU1" /\ b.size = 128
    BY <1>4
  <1>6. Read(b) = [form |-> b.magic, total |-> b.at[16], count |-> b.at[24], offset |-> b.at[32],
                   module |-> [bytes |-> b.at[40], sha |-> b.at[48]]]
    BY <1>5 DEF Read, StateUpdateRead, ModuleIn, GeluMulForms, CompactGateForms, RoundedForms
  <1>7. LaidWhole(b)
    BY <1>4, <1>5, StateUpdateLays DEF LaidWhole, Magics
  <1> QED BY <1>1, <1>4, <1>5, <1>6, <1>7 DEF b

(* from_bytes and the runtime's parser accept the same payloads of the     *)
(* state update.                                                           *)
LEMMA StateUpdateAgree ==
  ASSUME NEW b, LaidWhole(b), b.magic = "AISTU1"
  PROVE Decodes(b) <=> Runtime!Parses(b)
  <1> DEFINE p == Read(b)
             total == b.at[16]
             count == b.at[24]
             offset == b.at[32]
             bytes == b.at[40]
             sha == b.at[48]
             window == /\ 0 < count /\ count <= total /\ total <= 2 ^ 30 /\ offset <= total - count
                       /\ total % 8 = 0 /\ count % 8 = 0 /\ offset % 8 = 0
             written == StateUpdateWritten(b, total, count, offset, bytes, sha)
  <1>1. /\ b = [magic |-> "AISTU1", size |-> 128, at |-> b.at] /\ b.at \in [Framed(1, 4) -> Nat]
        /\ {16, 24, 32, 40, 48, 80} \subseteq DOMAIN b.at /\ b.size = 128
    BY StateUpdateLays DEF LaidWhole
  <1>2. bytes \in Nat /\ sha \in Nat /\ total \in Nat /\ count \in Nat /\ offset \in Nat
    BY <1>1
  <1>3. p = [form |-> b.magic, total |-> total, count |-> count, offset |-> offset,
             module |-> [bytes |-> bytes, sha |-> sha]]
    BY DEF Read, StateUpdateRead, ModuleIn, GeluMulForms, CompactGateForms, RoundedForms
  <1>4. /\ p.form = "AISTU1" /\ p.total = total /\ p.count = count /\ p.offset = offset
        /\ p.module.bytes = bytes /\ p.module.sha = sha /\ p.module \in Modules
    BY <1>2, <1>3 DEF Modules
  <1> HIDE DEF p
  <1>5. StateUpdateBytes(p) = b <=> written
    BY <1>2, <1>4, StateUpdateWrites
  <1> HIDE DEF written
  <1>6. Decodes(b) <=> window /\ bytes > 0 /\ sha # 0 /\ written
    <2>1. Bytes(p) = StateUpdateBytes(p)
      BY <1>4 DEF Bytes, GeluMulForms, CompactGateForms, RoundedForms
    <2>2. StateUpdateValid(p) <=> window
      <3> HIDE DEF total, count, offset
      <3>1. offset + count <= total <=> offset <= total - count
        BY <1>2
      <3> QED BY <1>2, <1>4, <3>1 DEF StateUpdateValid
    <2>3. Valid(p) <=> StateUpdateValid(p) /\ bytes > 0 /\ sha # 0
      BY <1>4 DEF Valid, ProblemValid, ModuleValid, GeluMulForms, CompactGateForms, RoundedForms
    <2>4. Decodes(b) <=> Valid(p) /\ Bytes(p) = b
      BY DEF Decodes, p
    <2> HIDE DEF bytes, sha, window
    <2> QED BY <1>5, <2>1, <2>2, <2>3, <2>4
  <1>7. Runtime!Parses(b) <=> Runtime!StateUpdateParses(b)
    BY DEF Runtime!Parses
  <1>8. Runtime!StateUpdateParses(b) <=> window /\ bytes # 0 /\ sha # 0 /\ written
    <2>1. /\ Runtime!Field(b, 16) = total /\ Runtime!Field(b, 24) = count /\ Runtime!Field(b, 32) = offset
          /\ Runtime!Field(b, 40) = bytes /\ Runtime!Field(b, 48) = sha /\ Runtime!Field(b, 80) = b.at[80]
      BY <1>1 DEF Runtime!Field
    <2>2. written <=> Runtime!Shorts(b, 8, <<1, 0>>) /\ Runtime!Words(b, 12, <<120>>) /\ b.at[80] = 0
      BY <1>1 DEF written, StateUpdateWritten
    <2>3. count # 0 <=> 0 < count
      BY <1>2
    <2> HIDE DEF total, count, offset, bytes, sha
    <2> QED BY <1>1, <2>1, <2>2, <2>3 DEF Runtime!StateUpdateParses, Runtime!Sized, Runtime!HasModule
  <1> HIDE DEF bytes, sha, window
  <1> QED BY <1>2, <1>6, <1>7, <1>8

(* The fused GELU product.                                                 *)
GeluMulMagic(form, width) ==
  IF form = "AIGMT1" THEN "AIGMT1" ELSE IF width # 0 THEN "AIGMP1" ELSE "AIGMU1"

(* The fields of the fused GELU products.                                  *)
GeluMulWritten(b, magic, numel, width, bytes, sha) ==
  /\ b = [magic |-> magic, size |-> 128, at |-> b.at] /\ b.at \in [GeluMulFields -> Nat]
  /\ Runtime!Shorts(b, 8, <<1, 0>>) /\ b.at[12] = 120
  /\ b.at[16] = numel /\ b.at[24] = bytes /\ b.at[32] = sha /\ b.at[64] = width /\ b.at[68] = 0

(* Where the fields of the fused GELU products start.                      *)
LEMMA GeluMulLays ==
  /\ \A form \in GeluMulForms : Layout(form) = GeluMulFields /\ Extent(form) = 128
  /\ {12, 16, 24, 32, 64, 68} \subseteq GeluMulFields
  <1>1. \A form \in GeluMulForms : Layout(form) = GeluMulFields /\ Extent(form) = 128
    BY DEF Layout, Extent, GeluMulForms, CompactGateForms
  <1> QED BY <1>1 DEF GeluMulFields

(* to_bytes of the fused GELU products writes these fields and no others.  *)
LEMMA GeluMulWrites ==
  ASSUME NEW p, NEW b, p.module \in Modules, p.numel \in Nat, p.width \in Nat
  PROVE GeluMulBytes(p) = b
          <=> GeluMulWritten(b, GeluMulMagic(p.form, p.width), p.numel, p.width, p.module.bytes, p.module.sha)
  <1> DEFINE magic == GeluMulMagic(p.form, p.width)
             numel == p.numel
             width == p.width
             bytes == p.module.bytes
             sha == p.module.sha
             p1 == U32(<<120>>)
             p2 == U64(<<numel, bytes>>)
             p3 == Digest(sha)
             p4 == U32(<<width>>)
             p5 == Reserved(60)
             parts == <<p1, p2, p3, p4, p5>>
  <1>1. GeluMulBytes(p) = Packed(magic, 1, 0, parts)
    BY SMT DEF GeluMulBytes, GeluMulMagic, SM120
  <1>2. numel \in Nat /\ width \in Nat /\ bytes \in Nat /\ sha \in Nat
    BY DEF Modules
  <1> HIDE DEF magic, numel, width, bytes, sha
  <1>3. /\ p1.width = 4 /\ p1.values = <<120>> /\ p2.width = 8 /\ p2.values = <<numel, bytes>>
        /\ p3.width = 32 /\ p3.values = <<sha>> /\ p4.width = 4 /\ p4.values = <<width>>
        /\ p5.width = 60 /\ p5.values = <<0>>
    BY DEF U32, U64, Digest, Reserved
  <1>4. Spans(p1, 1, 12, 16) /\ Spans(p2, 2, 16, 32)
    BY SMT, <1>2 DEF Spans, Parts, U32, U64
  <1>5. Spans(p3, 1, 32, 64) /\ Spans(p4, 1, 64, 68) /\ Spans(p5, 1, 68, 128)
    BY SMT, <1>2 DEF Spans, Parts, Digest, U32, Reserved
  <1> HIDE DEF p1, p2, p3, p4, p5
  <1>6. ListedFive(parts, p1, p2, p3, p4, p5, 1, 2, 1, 1, 1, 16, 32, 64, 68, 128)
    BY <1>4, <1>5 DEF ListedFive
  <1> HIDE DEF parts
  <1>7. GeluMulBytes(p) = b
          <=> HeldFive(b, magic, 1, 0, p1, p2, p3, p4, p5, 1, 2, 1, 1, 1, 16, 32, 64, 68, 128)
    <2>1. 0 \in Nat /\ 1 \in Nat
      OBVIOUS
    <2> QED BY ONLY <1>1, <1>6, <2>1, PackedFive
  <1>8. /\ Starts(12, 4, 1) = {12} /\ Starts(32, 32, 1) = {32} /\ Starts(64, 4, 1) = {64}
        /\ Starts(68, 60, 1) = {68}
    BY OneStart
  <1>9. Starts(16, 8, 2) = {16, 24}
    BY SMT DEF Starts
  <1>10. Starts(8, 2, 2) \cup Starts(12, 4, 1) \cup Starts(16, 8, 2) \cup Starts(32, 32, 1)
           \cup Starts(64, 4, 1) \cup Starts(68, 60, 1) = GeluMulFields
    BY <1>8, <1>9 DEF GeluMulFields
  <1>11. /\ Runtime!Run(b, 12, 4, <<120>>) <=> (12 \in DOMAIN b.at /\ b.at[12] = 120)
         /\ Runtime!Run(b, 32, 32, <<sha>>) <=> (32 \in DOMAIN b.at /\ b.at[32] = sha)
         /\ Runtime!Run(b, 64, 4, <<width>>) <=> (64 \in DOMAIN b.at /\ b.at[64] = width)
         /\ Runtime!Run(b, 68, 60, <<0>>) <=> (68 \in DOMAIN b.at /\ b.at[68] = 0)
    BY OneField
  <1>12. Runtime!Run(b, 16, 8, <<numel, bytes>>)
           <=> (16 \in DOMAIN b.at /\ b.at[16] = numel /\ 24 \in DOMAIN b.at /\ b.at[24] = bytes)
    BY SMT DEF Runtime!Run
  <1>13. b.at \in [GeluMulFields -> Nat] => {12, 16, 24, 32, 64, 68} \subseteq DOMAIN b.at
    BY GeluMulLays
  <1>14. HeldFive(b, magic, 1, 0, p1, p2, p3, p4, p5, 1, 2, 1, 1, 1, 16, 32, 64, 68, 128)
           <=> GeluMulWritten(b, magic, numel, width, bytes, sha)
    BY ONLY <1>3, <1>10, <1>11, <1>12, <1>13, ZenonT(120) DEF HeldFive, GeluMulWritten
  <1> QED BY <1>7, <1>14 DEF magic, numel, width, bytes, sha

(* A payload of the fused GELU products is read back as it was written.    *)
LEMMA GeluMulBack ==
  ASSUME NEW p \in [form : GeluMulForms, numel : Nat, width : Nat, module : Modules],
         Bytes(p).magic = p.form
  PROVE LaidWhole(Bytes(p)) /\ Read(Bytes(p)) = p
  <1> DEFINE b == Bytes(p)
  <1>1. /\ p = [form |-> p.form, numel |-> p.numel, width |-> p.width, module |-> p.module]
        /\ p.module = [bytes |-> p.module.bytes, sha |-> p.module.sha]
        /\ p.form \in GeluMulForms
    BY DEF Modules
  <1>2. b = GeluMulBytes(p)
    BY <1>1 DEF Bytes, GeluMulForms, CompactGateForms, RoundedForms
  <1>21. b.magic = p.form
    OBVIOUS
  <1> HIDE DEF b
  <1>3. GeluMulWritten(b, GeluMulMagic(p.form, p.width), p.numel, p.width, p.module.bytes, p.module.sha)
    BY <1>2, GeluMulWrites
  <1>4. /\ b = [magic |-> b.magic, size |-> 128, at |-> b.at] /\ b.at \in [GeluMulFields -> Nat]
        /\ b.at[16] = p.numel /\ b.at[24] = p.module.bytes /\ b.at[32] = p.module.sha
        /\ b.at[64] = p.width
    BY <1>3 DEF GeluMulWritten
  <1>5. b.size = 128
    BY <1>4
  <1>6. Read(b) = [form |-> b.magic, numel |-> b.at[16], width |-> b.at[64],
                   module |-> [bytes |-> b.at[24], sha |-> b.at[32]]]
    BY <1>1, <1>21 DEF Read, GeluMulRead, ModuleIn, GeluMulForms, CompactGateForms, RoundedForms
  <1>7. LaidWhole(b)
    BY <1>1, <1>21, <1>4, <1>5, GeluMulLays DEF LaidWhole, Magics
  <1> QED BY <1>1, <1>21, <1>4, <1>6, <1>7 DEF b

(* Numbers up to a bound.                                                  *)
LEMMA Upto ==
  ASSUME NEW x \in Nat, NEW n \in Nat
  PROVE x \in 0..n <=> x <= n
  <1>1. ASSUME x \in 0..n PROVE x <= n
    BY <1>1
  <1>2. ASSUME x <= n PROVE x \in 0..n
    BY <1>2
  <1> QED BY <1>1, <1>2, Zenon

(* from_bytes and the runtime's parser accept the same payloads of the     *)
(* fused GELU products.                                                    *)
LEMMA GeluMulAgree ==
  ASSUME NEW b, LaidWhole(b), b.magic \in GeluMulForms
  PROVE Decodes(b) <=> Runtime!Parses(b)
  <1> DEFINE p == Read(b)
             form == b.magic
             numel == b.at[16]
             width == b.at[64]
             bytes == b.at[24]
             sha == b.at[32]
             bound == 32768
             whole == numel % width = 0 /\ numel \div width <= 2048
             shorts == Runtime!Shorts(b, 8, <<1, 0>>)
             twelve == b.at[12] = 120
             tail == b.at[68] = 0
             small == numel \in 1..MaxNumel
             narrow == width \in 0..bound
             valid == /\ small /\ narrow /\ (width # 0 => whole) /\ (form = "AIGMT1" => width # 0)
  <1>1. /\ b = [magic |-> form, size |-> 128, at |-> b.at] /\ b.at \in [GeluMulFields -> Nat]
        /\ {12, 16, 24, 32, 64, 68} \subseteq DOMAIN b.at /\ b.size = 128
    BY GeluMulLays DEF LaidWhole
  <1>2. bytes \in Nat /\ sha \in Nat /\ numel \in Nat /\ width \in Nat
    BY <1>1
  <1>3. p = [form |-> form, numel |-> numel, width |-> width, module |-> [bytes |-> bytes, sha |-> sha]]
    BY DEF Read, GeluMulRead, ModuleIn, GeluMulForms, CompactGateForms, RoundedForms
  <1>4. /\ p.form = form /\ p.numel = numel /\ p.width = width
        /\ p.module.bytes = bytes /\ p.module.sha = sha /\ p.module \in Modules
    BY <1>2, <1>3 DEF Modules
  <1> HIDE DEF p
  <1>40. bound \in Nat
    BY SMT
  <1>5. Decodes(b) <=> /\ valid /\ bytes > 0 /\ sha # 0
                       /\ form = GeluMulMagic(form, width) /\ shorts /\ twelve /\ tail
    <2>1. Bytes(p) = GeluMulBytes(p)
      BY <1>4 DEF Bytes, GeluMulForms, CompactGateForms, RoundedForms
    <2>2. GeluMulBytes(p) = b <=> GeluMulWritten(b, GeluMulMagic(form, width), numel, width, bytes, sha)
      BY <1>2, <1>4, GeluMulWrites
    <2>3. ProblemValid(p) <=> GeluMulValid(p)
      BY <1>4 DEF ProblemValid, GeluMulForms, CompactGateForms, RoundedForms
    <2>4. GeluMulValid(p) <=> valid
      BY <1>4 DEF GeluMulValid
    <2>5. Valid(p) <=> ProblemValid(p) /\ bytes > 0 /\ sha # 0
      BY <1>4 DEF Valid, ModuleValid, GeluMulForms
    <2>6. Decodes(b) <=> Valid(p) /\ Bytes(p) = b
      BY DEF Decodes, p, GeluMulForms
    <2>7. GeluMulWritten(b, GeluMulMagic(form, width), numel, width, bytes, sha)
            <=> form = GeluMulMagic(form, width) /\ shorts /\ twelve /\ tail
      <3> HIDE DEF whole
      <3> DEFINE magic == GeluMulMagic(form, width)
      <3> HIDE DEF magic
      <3>1. b = [magic |-> magic, size |-> 128, at |-> b.at] <=> form = magic
        BY <1>1
      <3>2. GeluMulWritten(b, magic, numel, width, bytes, sha) <=> form = magic /\ shorts /\ twelve /\ tail
        BY <1>1, <3>1 DEF GeluMulWritten
      <3> QED BY <3>2 DEF magic
    <2> HIDE DEF bytes, sha, numel, form, width, valid, shorts, twelve, tail
    <2> QED BY <2>1, <2>2, <2>3, <2>4, <2>5, <2>6, <2>7
  <1>6. Runtime!Parses(b) <=> Runtime!GeluMulParses(b)
    BY DEF Runtime!Parses, GeluMulForms
  <1>7. /\ Runtime!Words(b, 68, <<0>>) <=> b.at[68] = 0
        /\ Runtime!Words(b, 12, <<120>>) <=> b.at[12] = 120
    BY SMT, <1>1 DEF Runtime!Words, Runtime!Run
  <1>8. /\ Runtime!Field(b, 16) = numel /\ Runtime!Field(b, 24) = bytes /\ Runtime!Field(b, 32) = sha
        /\ Runtime!Field(b, 64) = width
    BY <1>1 DEF Runtime!Field
  <1>9. Runtime!Numbered(b) <=> shorts /\ twelve /\ small /\ bytes # 0 /\ sha # 0
    BY ONLY <1>1, <1>7, <1>8, ZenonT(120) DEF Runtime!Numbered, Runtime!Sized, Runtime!HasModule, MaxNumel
  <1>10. Runtime!GeluMulParses(b)
          <=> /\ Runtime!Numbered(b) /\ tail
              /\ IF form = "AIGMU1" THEN width = 0 ELSE width > 0 /\ width <= bound /\ whole
    BY ONLY <1>7, <1>8, SMT DEF Runtime!GeluMulParses
  <1>11. form \in {"AIGMU1", "AIGMP1", "AIGMT1"}
    BY DEF GeluMulForms
  <1>12. Runtime!Parses(b) <=> /\ shorts /\ twelve /\ small /\ bytes # 0 /\ sha # 0 /\ tail
                               /\ IF form = "AIGMU1" THEN width = 0 ELSE width > 0 /\ width <= bound /\ whole
    BY ONLY <1>6, <1>9, <1>10, SMT
  <1> HIDE DEF bytes, sha, numel, width, form, shorts, twelve, tail, small, whole, bound
  <1>13. narrow <=> width <= bound
    BY <1>2, <1>40, Upto
  <1>130. 0 <= bound
    BY <1>40
  <1> HIDE DEF narrow
  <1>14. (bytes > 0 <=> bytes # 0) /\ (width > 0 <=> width # 0)
    BY <1>2
  <1>15. (form = GeluMulMagic(form, width))
           <=> \/ form = "AIGMT1"
               \/ form = "AIGMP1" /\ width # 0
               \/ form = "AIGMU1" /\ width = 0
    BY <1>11 DEF GeluMulMagic
  <1>16. CASE form = "AIGMU1"
    BY ONLY <1>5, <1>12, <1>13, <1>130, <1>14, <1>15, <1>16, SMT DEF valid
  <1>17. CASE form # "AIGMU1"
    BY ONLY <1>5, <1>11, <1>12, <1>13, <1>130, <1>14, <1>15, <1>17, SMT DEF valid
  <1> QED BY <1>16, <1>17

(* The library attention: two shapes, no module.                           *)
FlashCase(variant, mask, q, k, grid, query, key, maskBytes) ==
  \/ /\ variant = 1 /\ mask = 1 /\ q = 50 /\ k = 1018 /\ grid = 7
     /\ query = 204800 /\ key = 521216 /\ maskBytes = 50900
  \/ /\ variant = 2 /\ mask = 2 /\ q = 968 /\ k = 968 /\ grid = 121
     /\ query = 3964928 /\ key = 495616 /\ maskBytes = 968

(* The fields of the library attention.                                    *)
FlashInferWritten(b, variant, mask, q, k, grid, query, key, maskBytes) ==
  /\ b = [magic |-> "AIFIAT1", size |-> 192, at |-> b.at] /\ b.at \in [FlashFields -> Nat]
  /\ Runtime!Shorts(b, 8, <<1, 0>>)
  /\ Runtime!Words(b, 12, <<120, variant, 2, 2, 2, 4, mask, 1, 8, 1, q, k, 256, grid, 1, 1, 32, 4, 1,
                            49152, 1031798784>>)
  /\ Runtime!Longs(b, 96, <<query, key, key, maskBytes, query>>)
  /\ b.at[136] = 1 /\ b.at[156] = 2 /\ b.at[176] = 0

(* Where the fields of the library attention start.                        *)
LEMMA FlashInferLays ==
  /\ Layout("AIFIAT1") = FlashFields /\ Extent("AIFIAT1") = 192
  /\ {16, 136, 156, 176} \subseteq FlashFields
  <1>1. Layout("AIFIAT1") = FlashFields /\ Extent("AIFIAT1") = 192
    BY DEF Layout, Extent, GeluMulForms, CompactGateForms
  <1>2. {136, 156, 176} \subseteq FlashFields
    BY DEF FlashFields
  <1>3. 16 \in FlashFields
    BY SMT DEF FlashFields, Starts
  <1> QED BY <1>1, <1>2, <1>3

(* to_bytes of the library attention writes these fields and no others.    *)
LEMMA FlashInferWrites ==
  ASSUME NEW p, NEW b, NEW mask, NEW q, NEW k, NEW grid, NEW query, NEW key, NEW maskBytes,
         FlashCase(p.variant, mask, q, k, grid, query, key, maskBytes)
  PROVE FlashInferBytes(p) = b
          <=> FlashInferWritten(b, p.variant, mask, q, k, grid, query, key, maskBytes)
  <1> DEFINE variant == p.variant
             words == <<120, variant, 2, 2, 2, 4, mask, 1, 8, 1, q, k, 256, grid, 1, 1, 32, 4, 1,
                        49152, 1031798784>>
             longs == <<query, key, key, maskBytes, query>>
             p1 == U32(words)
             p2 == U64(longs)
             p3 == Commit(1)
             p4 == Commit(2)
             p5 == Reserved(16)
             parts == <<p1, p2, p3, p4, p5>>
  <1>1. /\ variant \in Nat /\ mask \in Nat /\ q \in Nat /\ k \in Nat /\ grid \in Nat
        /\ query \in Nat /\ key \in Nat /\ maskBytes \in Nat
    BY SMT DEF FlashCase
  <1>2. words \in Seq(Nat) /\ Len(words) = 21
    BY SMT, <1>1
  <1>3. longs \in Seq(Nat) /\ Len(longs) = 5
    BY SMT, <1>1
  <1>4. FlashInferBytes(p) = Packed("AIFIAT1", 1, 0, parts)
    <2>1. /\ FlashShape[variant].q = q /\ FlashShape[variant].k = k
          /\ FlashShape[variant].mask = mask /\ FlashShape[variant].grid = grid
          /\ FlashShape[variant].maskBytes = maskBytes
      BY SMT DEF FlashCase, FlashShape
    <2>2. q * 8 * 256 * 2 = query /\ k * 256 * 2 = key
      BY SMT DEF FlashCase
    <2> QED BY SMT, <2>1, <2>2 DEF FlashInferBytes, SM120, HeadScale
  <1> HIDE DEF variant, words, longs
  <1>5. /\ p1.width = 4 /\ p1.values = words /\ p2.width = 8 /\ p2.values = longs
        /\ p3.width = 20 /\ p3.values = <<1>> /\ p4.width = 20 /\ p4.values = <<2>>
        /\ p5.width = 16 /\ p5.values = <<0>>
    BY DEF U32, U64, Commit, Reserved
  <1>6. Spans(p1, 21, 12, 96)
    BY SMT, <1>2 DEF Spans, Parts, U32
  <1>7. Spans(p2, 5, 96, 136)
    BY SMT, <1>3 DEF Spans, Parts, U64
  <1>8. Spans(p3, 1, 136, 156) /\ Spans(p4, 1, 156, 176) /\ Spans(p5, 1, 176, 192)
    BY SMT DEF Spans, Parts, Commit, Reserved
  <1> HIDE DEF p1, p2, p3, p4, p5
  <1>9. ListedFive(parts, p1, p2, p3, p4, p5, 21, 5, 1, 1, 1, 96, 136, 156, 176, 192)
    BY <1>6, <1>7, <1>8 DEF ListedFive
  <1> HIDE DEF parts
  <1>10. FlashInferBytes(p) = b
           <=> HeldFive(b, "AIFIAT1", 1, 0, p1, p2, p3, p4, p5, 21, 5, 1, 1, 1, 96, 136, 156, 176, 192)
    <2>1. 0 \in Nat /\ 1 \in Nat
      OBVIOUS
    <2> QED BY ONLY <1>4, <1>9, <2>1, PackedFive
  <1>11. Starts(136, 20, 1) = {136} /\ Starts(156, 20, 1) = {156} /\ Starts(176, 16, 1) = {176}
    BY OneStart
  <1>12. Starts(8, 2, 2) \cup Starts(12, 4, 21) \cup Starts(96, 8, 5) \cup Starts(136, 20, 1)
           \cup Starts(156, 20, 1) \cup Starts(176, 16, 1) = FlashFields
    BY <1>11 DEF FlashFields
  <1>13. /\ Runtime!Run(b, 136, 20, <<1>>) <=> (136 \in DOMAIN b.at /\ b.at[136] = 1)
         /\ Runtime!Run(b, 156, 20, <<2>>) <=> (156 \in DOMAIN b.at /\ b.at[156] = 2)
         /\ Runtime!Run(b, 176, 16, <<0>>) <=> (176 \in DOMAIN b.at /\ b.at[176] = 0)
    BY OneField
  <1>14. b.at \in [FlashFields -> Nat] => {136, 156, 176} \subseteq DOMAIN b.at
    BY FlashInferLays
  <1>141. Starts(8, 2, 2) \cup Starts(12, p1.width, 21) \cup Starts(96, p2.width, 5)
            \cup Starts(136, p3.width, 1) \cup Starts(156, p4.width, 1) \cup Starts(176, p5.width, 1)
            = FlashFields
    BY <1>5, <1>12
  <1>142. /\ Runtime!Run(b, 12, p1.width, p1.values) <=> Runtime!Words(b, 12, words)
          /\ Runtime!Run(b, 96, p2.width, p2.values) <=> Runtime!Longs(b, 96, longs)
    BY <1>5 DEF Runtime!Words, Runtime!Longs
  <1>143. /\ Runtime!Run(b, 136, p3.width, p3.values) <=> (136 \in DOMAIN b.at /\ b.at[136] = 1)
          /\ Runtime!Run(b, 156, p4.width, p4.values) <=> (156 \in DOMAIN b.at /\ b.at[156] = 2)
          /\ Runtime!Run(b, 176, p5.width, p5.values) <=> (176 \in DOMAIN b.at /\ b.at[176] = 0)
    BY <1>5, <1>13
  <1>15. HeldFive(b, "AIFIAT1", 1, 0, p1, p2, p3, p4, p5, 21, 5, 1, 1, 1, 96, 136, 156, 176, 192)
           <=> /\ b = [magic |-> "AIFIAT1", size |-> 192, at |-> b.at] /\ b.at \in [FlashFields -> Nat]
               /\ Runtime!Shorts(b, 8, <<1, 0>>) /\ Runtime!Words(b, 12, words)
               /\ Runtime!Longs(b, 96, longs) /\ b.at[136] = 1 /\ b.at[156] = 2 /\ b.at[176] = 0
    BY ONLY ZenonT(120), <1>14, <1>141, <1>142, <1>143 DEF HeldFive
  <1> QED BY ONLY <1>10, <1>15 DEF FlashInferWritten, words, longs, variant

(* A payload of the library attention is read back as it was written.      *)
LEMMA FlashInferBack ==
  ASSUME NEW p \in [form : {"AIFIAT1"}, variant : Nat], ProblemValid(p)
  PROVE LaidWhole(Bytes(p)) /\ Read(Bytes(p)) = p
  <1> DEFINE b == Bytes(p)
  <1>1. p = [form |-> "AIFIAT1", variant |-> p.variant]
    OBVIOUS
  <1>2. b = FlashInferBytes(p)
    BY <1>1 DEF Bytes, GeluMulForms, CompactGateForms, RoundedForms
  <1>3. PICK mask, q, k, grid, query, key, maskBytes : FlashCase(p.variant, mask, q, k, grid, query, key, maskBytes)
    <2>1. p.variant \in 1..2
      BY <1>1 DEF ProblemValid, GeluMulForms, CompactGateForms, RoundedForms
    <2>2. CASE p.variant = 1
      <3>1. FlashCase(p.variant, 1, 50, 1018, 7, 204800, 521216, 50900)
        BY SMT, <2>2 DEF FlashCase
      <3> QED BY SMT, <3>1
    <2>3. CASE p.variant = 2
      <3>1. FlashCase(p.variant, 2, 968, 968, 121, 3964928, 495616, 968)
        BY SMT, <2>3 DEF FlashCase
      <3> QED BY SMT, <3>1
    <2> QED BY <2>1, <2>2, <2>3
  <1> HIDE DEF b
  <1>4. FlashInferWritten(b, p.variant, mask, q, k, grid, query, key, maskBytes)
    BY <1>2, <1>3, FlashInferWrites
  <1>5. b = [magic |-> "AIFIAT1", size |-> 192, at |-> b.at] /\ b.at \in [FlashFields -> Nat]
    BY <1>4 DEF FlashInferWritten
  <1>6. b.at[16] = p.variant
    <2> DEFINE v == <<120, p.variant, 2, 2, 2, 4, mask, 1, 8, 1, q, k, 256, grid, 1, 1, 32, 4, 1,
                  49152, 1031798784>>
    <2>1. Runtime!Words(b, 12, v)
      BY <1>4 DEF FlashInferWritten
    <2>2. 2 \in DOMAIN v /\ v[2] = p.variant
      BY SMT
    <2> HIDE DEF v
    <2> QED BY ONLY <2>1, <2>2, SecondWord
  <1>7. b.magic = "AIFIAT1" /\ b.size = 192
    BY <1>5
  <1>8. Read(b) = [form |-> b.magic, variant |-> b.at[16]]
    BY <1>7 DEF Read, FlashInferRead, GeluMulForms, CompactGateForms, RoundedForms
  <1>9. LaidWhole(b)
    BY <1>5, <1>7, FlashInferLays DEF LaidWhole, Magics
  <1> QED BY <1>1, <1>6, <1>7, <1>8, <1>9 DEF b

(* from_bytes and the runtime's parser accept the same payloads of the     *)
(* library attention.                                                      *)
LEMMA FlashInferAgree ==
  ASSUME NEW b, LaidWhole(b), b.magic = "AIFIAT1"
  PROVE Decodes(b) <=> Runtime!Parses(b)
  <1> DEFINE p == Read(b)
             variant == b.at[16]
  <1>1. /\ b = [magic |-> "AIFIAT1", size |-> 192, at |-> b.at] /\ b.at \in [FlashFields -> Nat]
        /\ {16, 136, 156, 176} \subseteq DOMAIN b.at /\ b.size = 192
    BY FlashInferLays DEF LaidWhole
  <1>2. variant \in Nat
    BY <1>1
  <1>3. p = [form |-> b.magic, variant |-> variant]
    BY DEF Read, FlashInferRead, GeluMulForms, CompactGateForms, RoundedForms
  <1>4. p.form = "AIFIAT1" /\ p.variant = variant
    BY <1>3
  <1> HIDE DEF p
  <1>5. Decodes(b) <=> (variant \in 1..2 /\ FlashInferBytes(p) = b)
    <2>1. Bytes(p) = FlashInferBytes(p)
      BY <1>4 DEF Bytes, GeluMulForms, CompactGateForms, RoundedForms
    <2>2. Valid(p) <=> variant \in 1..2
      BY <1>4 DEF Valid, ProblemValid, GeluMulForms, CompactGateForms, RoundedForms
    <2>3. Decodes(b) <=> Valid(p) /\ Bytes(p) = b
      BY DEF Decodes, p
    <2> HIDE DEF variant
    <2> QED BY <2>1, <2>2, <2>3
  <1>6. \A mask, q, k, grid, query, key, maskBytes :
          FlashCase(variant, mask, q, k, grid, query, key, maskBytes)
            => (FlashInferBytes(p) = b <=> FlashInferWritten(b, variant, mask, q, k, grid, query, key, maskBytes))
    BY <1>4, FlashInferWrites
  <1>7. Runtime!Parses(b) <=> Runtime!FlashInferParses(b)
    BY DEF Runtime!Parses
  <1>8. CASE variant = 1
    <2>1. Runtime!Words(b, 12, <<120, 1, 2, 2, 2, 4, 1, 1, 8, 1, 50, 1018, 256, 7, 1, 1, 32, 4, 1, 49152, 1031798784>>)
           <=> /\ Runtime!Words(b, 12, <<120>>) /\ Runtime!Words(b, 20, <<2, 2, 2, 4>>)
               /\ Runtime!Words(b, 40, <<1, 8, 1>>) /\ Runtime!Words(b, 60, <<256>>)
               /\ Runtime!Words(b, 68, <<1, 1, 32, 4, 1, 49152, 1031798784>>)
               /\ Runtime!Words(b, 16, <<1>>) /\ Runtime!Words(b, 36, <<1>>)
               /\ Runtime!Words(b, 52, <<50, 1018>>) /\ Runtime!Words(b, 64, <<7>>)
      BY SMTT(60) DEF Runtime!Words, Runtime!Run
    <2>2. ~Runtime!Words(b, 16, <<2>>)
      BY SMT, <1>8 DEF Runtime!Words, Runtime!Run
    <2>3. FlashCase(variant, 1, 50, 1018, 7, 204800, 521216, 50900)
      BY SMTT(60), <1>8 DEF FlashCase
    <2>4. Runtime!FlashInferParses(b)
            <=> FlashInferWritten(b, variant, 1, 50, 1018, 7, 204800, 521216, 50900)
      BY SMTT(60), <1>1, <1>8, <2>1, <2>2 DEF FlashInferWritten, Runtime!FlashInferParses, Runtime!Sized,
         Runtime!Field
    <2>5. variant \in 1..2
      BY <1>8
    <2> HIDE DEF variant
    <2>6. FlashInferBytes(p) = b <=> FlashInferWritten(b, variant, 1, 50, 1018, 7, 204800, 521216, 50900)
      BY ONLY SMT, <1>6, <2>3
    <2> QED BY ONLY SMT, <1>5, <1>7, <2>4, <2>5, <2>6
  <1>9. CASE variant = 2
    <2>1. Runtime!Words(b, 12, <<120, 2, 2, 2, 2, 4, 2, 1, 8, 1, 968, 968, 256, 121, 1, 1, 32, 4, 1, 49152, 1031798784>>)
           <=> /\ Runtime!Words(b, 12, <<120>>) /\ Runtime!Words(b, 20, <<2, 2, 2, 4>>)
               /\ Runtime!Words(b, 40, <<1, 8, 1>>) /\ Runtime!Words(b, 60, <<256>>)
               /\ Runtime!Words(b, 68, <<1, 1, 32, 4, 1, 49152, 1031798784>>)
               /\ Runtime!Words(b, 16, <<2>>) /\ Runtime!Words(b, 36, <<2>>)
               /\ Runtime!Words(b, 52, <<968, 968>>) /\ Runtime!Words(b, 64, <<121>>)
      BY SMTT(60) DEF Runtime!Words, Runtime!Run
    <2>2. ~Runtime!Words(b, 16, <<1>>)
      BY SMT, <1>9 DEF Runtime!Words, Runtime!Run
    <2>3. FlashCase(variant, 2, 968, 968, 121, 3964928, 495616, 968)
      BY SMTT(60), <1>9 DEF FlashCase
    <2>4. Runtime!FlashInferParses(b)
            <=> FlashInferWritten(b, variant, 2, 968, 968, 121, 3964928, 495616, 968)
      BY SMTT(60), <1>1, <1>9, <2>1, <2>2 DEF FlashInferWritten, Runtime!FlashInferParses, Runtime!Sized,
         Runtime!Field
    <2>5. variant \in 1..2
      BY <1>9
    <2> HIDE DEF variant
    <2>6. FlashInferBytes(p) = b <=> FlashInferWritten(b, variant, 2, 968, 968, 121, 3964928, 495616, 968)
      BY ONLY SMT, <1>6, <2>3
    <2> QED BY ONLY SMT, <1>5, <1>7, <2>4, <2>5, <2>6
  <1>10. CASE variant \notin 1..2
    <2>1. ~Runtime!FlashInferParses(b)
      BY SMT, <1>10 DEF Runtime!FlashInferParses, Runtime!Words, Runtime!Run
    <2> QED BY <1>5, <1>7, <1>10, <2>1
  <1> QED BY <1>2, <1>8, <1>9, <1>10

(* The exact attention: its shapes, and the scores a product library needs. *)
RoundedCase(variant, q, k, heads, kv, dim, scores) ==
  \/ variant = 1 /\ q = 50 /\ k = 1018 /\ heads = 8 /\ kv = 1 /\ dim = 256 /\ scores = 814400
  \/ variant = 2 /\ q = 968 /\ k = 968 /\ heads = 8 /\ kv = 1 /\ dim = 256 /\ scores = 14992384
  \/ variant = 3 /\ q = 256 /\ k = 256 /\ heads = 16 /\ kv = 16 /\ dim = 72 /\ scores = 4194304
  \/ variant = 4 /\ q = 256 /\ k = 256 /\ heads = 16 /\ kv = 16 /\ dim = 72 /\ scores = 4194304

(* Each variant of the exact attention has a shape.                        *)
LEMMA RoundedShapes ==
  ASSUME NEW variant, variant \in 1..4
  PROVE \E q, k, heads, kv, dim, scores : RoundedCase(variant, q, k, heads, kv, dim, scores)
  <1>1. CASE variant = 1
    <2>1. RoundedCase(variant, 50, 1018, 8, 1, 256, 814400)
      BY SMT, <1>1 DEF RoundedCase
    <2> QED BY SMT, <2>1
  <1>2. CASE variant = 2
    <2>1. RoundedCase(variant, 968, 968, 8, 1, 256, 14992384)
      BY SMT, <1>2 DEF RoundedCase
    <2> QED BY SMT, <2>1
  <1>3. CASE variant = 3
    <2>1. RoundedCase(variant, 256, 256, 16, 16, 72, 4194304)
      BY SMT, <1>3 DEF RoundedCase
    <2> QED BY SMT, <2>1
  <1>4. CASE variant = 4
    <2>1. RoundedCase(variant, 256, 256, 16, 16, 72, 4194304)
      BY SMT, <1>4 DEF RoundedCase
    <2> QED BY SMT, <2>1
  <1> QED BY <1>1, <1>2, <1>3, <1>4

(* The compiler's table of shapes and the runtime's are the same.          *)
LEMMA RoundedShaped ==
  ASSUME NEW variant, NEW q, NEW k, NEW heads, NEW kv, NEW dim, NEW scores,
         RoundedCase(variant, q, k, heads, kv, dim, scores)
  PROVE /\ variant \in 1..4 /\ q \in Nat /\ k \in Nat /\ heads \in Nat /\ kv \in Nat /\ dim \in Nat
        /\ scores \in Nat
        /\ RoundedShape[variant].q = q /\ RoundedShape[variant].k = k
        /\ RoundedShape[variant].heads = heads /\ RoundedShape[variant].kv = kv
        /\ RoundedShape[variant].dim = dim
        /\ RoundedShape[variant].heads * RoundedShape[variant].q * RoundedShape[variant].k
             * RoundedShape[variant].scalar = scores
        /\ Runtime!AttentionDims(variant) = <<q, k, heads, kv, dim>>
        /\ Runtime!ScoreBytes(variant) = scores
  <1>1. /\ variant \in 1..4 /\ q \in Nat /\ k \in Nat /\ heads \in Nat /\ kv \in Nat /\ dim \in Nat
        /\ scores \in Nat
    BY SMT DEF RoundedCase
  <1>2. /\ RoundedShape[variant].q = q /\ RoundedShape[variant].k = k
        /\ RoundedShape[variant].heads = heads /\ RoundedShape[variant].kv = kv
        /\ RoundedShape[variant].dim = dim
    BY SMT DEF RoundedCase, RoundedShape
  <1>3. RoundedShape[variant].scalar = IF variant >= 3 THEN 4 ELSE 2
    BY SMT DEF RoundedCase, RoundedShape
  <1>4. heads * q * k * (IF variant >= 3 THEN 4 ELSE 2) = scores
    BY SMT DEF RoundedCase
  <1>5. Runtime!AttentionDims(variant) = <<q, k, heads, kv, dim>>
    <2>1. CASE variant = 1
      BY SMT, <2>1 DEF RoundedCase, Runtime!AttentionDims
    <2>2. CASE variant = 2
      BY SMT, <2>2 DEF RoundedCase, Runtime!AttentionDims
    <2>3. CASE variant \notin {1, 2}
      BY SMT, <2>3 DEF RoundedCase, Runtime!AttentionDims
    <2> QED BY <2>1, <2>2, <2>3
  <1>6. Runtime!AttentionScalar(variant) = IF variant >= 3 THEN 4 ELSE 2
    BY SMT DEF Runtime!AttentionScalar
  <1>7. q * k * heads * (IF variant >= 3 THEN 4 ELSE 2) = scores
    BY SMT DEF RoundedCase
  <1>8. Runtime!ScoreBytes(variant) = scores
    BY <1>5, <1>6, <1>7 DEF Runtime!ScoreBytes
  <1> QED BY ONLY <1>1, <1>2, <1>3, <1>4, <1>5, <1>8

(* Three fields and the rest.                                              *)
LEMMA JoinOne ==
  ASSUME NEW x, NEW y, NEW z, NEW r
  PROVE <<x, y, z>> \o <<r>> = <<x, y, z, r>>
  <1> DEFINE S == {x, y, z, r}
             l == <<x, y, z>>
             m == <<r>>
             w == <<x, y, z, r>>
  <1>1. l \in Seq(S) /\ m \in Seq(S) /\ w \in Seq(S) /\ Len(l) = 3 /\ Len(m) = 1 /\ Len(w) = 4
    OBVIOUS
  <1> HIDE DEF S
  <1>2. l[1] = w[1] /\ l[2] = w[2] /\ l[3] = w[3] /\ m[1] = w[4]
    OBVIOUS
  <1> HIDE DEF l, m, w
  <1>3. /\ l \o m \in Seq(S) /\ Len(l \o m) = Len(l) + Len(m)
        /\ \A i \in 1 .. Len(l) + Len(m) : (l \o m)[i] = IF i <= Len(l) THEN l[i] ELSE m[i - Len(l)]
    BY <1>1, ConcatProperties, Zenon
  <1>4. Len(l) + Len(m) = 4
    BY <1>1
  <1>5. \A i \in 1..4 : (l \o m)[i] = w[i]
    <2>1. ASSUME NEW i \in 1..4 PROVE (l \o m)[i] = w[i]
      <3>1. (l \o m)[i] = IF i <= 3 THEN l[i] ELSE m[i - 3]
        BY <1>1, <1>3, <1>4
      <3> QED BY <1>2, <3>1, i \in 1..4
    <2> QED BY <2>1
  <1>6. l \o m = w
    BY ZenonT(60), <1>1, <1>3, <1>4, <1>5, SeqEqual
  <1> QED BY <1>6 DEF l, m, w

(* Three fields and four.                                                  *)
LEMMA JoinFour ==
  ASSUME NEW x, NEW y, NEW z, NEW r, NEW s, NEW t, NEW u
  PROVE <<x, y, z>> \o <<r, s, t, u>> = <<x, y, z, r, s, t, u>>
  <1> DEFINE S == {x, y, z, r, s, t, u}
             l == <<x, y, z>>
             m == <<r, s, t, u>>
             w == <<x, y, z, r, s, t, u>>
  <1>1. l \in Seq(S) /\ m \in Seq(S) /\ w \in Seq(S) /\ Len(l) = 3 /\ Len(m) = 4 /\ Len(w) = 7
    OBVIOUS
  <1> HIDE DEF S
  <1>2. /\ l[1] = w[1] /\ l[2] = w[2] /\ l[3] = w[3] /\ m[1] = w[4]
        /\ m[2] = w[5] /\ m[3] = w[6] /\ m[4] = w[7]
    OBVIOUS
  <1> HIDE DEF l, m, w
  <1>3. /\ l \o m \in Seq(S) /\ Len(l \o m) = Len(l) + Len(m)
        /\ \A i \in 1 .. Len(l) + Len(m) : (l \o m)[i] = IF i <= Len(l) THEN l[i] ELSE m[i - Len(l)]
    BY <1>1, ConcatProperties, Zenon
  <1>4. Len(l) + Len(m) = 7
    BY <1>1
  <1>5. \A i \in 1..7 : (l \o m)[i] = w[i]
    <2>1. ASSUME NEW i \in 1..7 PROVE (l \o m)[i] = w[i]
      <3>1. (l \o m)[i] = IF i <= 3 THEN l[i] ELSE m[i - 3]
        BY <1>1, <1>3, <1>4
      <3> QED BY <1>2, <3>1, i \in 1..7
    <2> QED BY <2>1
  <1>6. l \o m = w
    BY ZenonT(60), <1>1, <1>3, <1>4, <1>5, SeqEqual
  <1> QED BY <1>6 DEF l, m, w

(* The exact attention without a product library.                          *)
RoundedOneWritten(b, variant, q, k, heads, kv, dim, bytes, sha) ==
  /\ b = [magic |-> "AIRAT1", size |-> 128, at |-> b.at] /\ b.at \in [Framed(7, 1) -> Nat]
  /\ Runtime!Shorts(b, 8, <<1, 0>>)
  /\ Runtime!Words(b, 12, <<120, variant, q, k, heads, kv, dim>>)
  /\ b.at[40] = bytes /\ b.at[48] = sha /\ b.at[80] = 0

(* Where the fields of the exact attention on its own start.               *)
LEMMA RoundedOneLays ==
  /\ Layout("AIRAT1") = Framed(7, 1) /\ Extent("AIRAT1") = 128
  /\ {16, 40, 48, 80} \subseteq Framed(7, 1)
  <1>1. Layout("AIRAT1") = Framed(7, 1) /\ Extent("AIRAT1") = 128
    BY DEF Layout, Extent, GeluMulForms, CompactGateForms
  <1>2. 48 \in Framed(7, 1) /\ 80 \in Framed(7, 1)
    BY SMT DEF Framed
  <1>3. 40 \in Framed(7, 1)
    BY SMT DEF Framed, Starts
  <1>4. 16 \in Framed(7, 1)
    BY SMT DEF Framed, Starts
  <1> QED BY <1>1, <1>2, <1>3, <1>4

(* to_bytes of the exact attention on its own writes these fields and no   *)
(* others.                                                                 *)
LEMMA RoundedOneWrites ==
  ASSUME NEW p, NEW b, p.module \in Modules, p.version = 0, NEW q, NEW k, NEW heads, NEW kv, NEW dim,
         NEW scores, RoundedCase(p.variant, q, k, heads, kv, dim, scores)
  PROVE RoundedBytes(p) = b
          <=> RoundedOneWritten(b, p.variant, q, k, heads, kv, dim, p.module.bytes, p.module.sha)
  <1> DEFINE variant == p.variant
             bytes == p.module.bytes
             sha == p.module.sha
             words == <<120, variant, q, k, heads, kv, dim>>
             longs == <<bytes>>
             parts == <<U32(words), U64(longs), Digest(sha), Reserved(48)>>
  <1>1. /\ variant \in Nat /\ q \in Nat /\ k \in Nat /\ heads \in Nat /\ kv \in Nat /\ dim \in Nat
        /\ RoundedShape[variant].q = q /\ RoundedShape[variant].k = k
        /\ RoundedShape[variant].heads = heads /\ RoundedShape[variant].kv = kv
        /\ RoundedShape[variant].dim = dim
    <2>1. variant \in 1..4
      BY RoundedShaped
    <2> QED BY <2>1, RoundedShaped
  <1>2. words \in Seq(Nat) /\ Len(words) = 7
    BY SMT, <1>1
  <1>3. longs \in Seq(Nat) /\ Len(longs) = 1 /\ sha \in Nat
    BY SMT DEF Modules
  <1>4. RoundedBytes(p) = Packed("AIRAT1", 1, 0, parts)
    <2> DEFINE q1 == U32(words)
               q2 == U64(longs)
               q3 == Digest(sha)
               q4 == Reserved(48)
    <2>1. <<q1, q2, q3>> \o <<q4>> = <<q1, q2, q3, q4>>
      <3> HIDE DEF q1, q2, q3, q4
      <3> QED BY ONLY JoinOne
    <2> QED BY <1>1, <2>1, Zenon DEF RoundedBytes, SM120
  <1> HIDE DEF variant, bytes, sha
  <1>5. Runtime!Longs(b, 40, longs) <=> 40 \in DOMAIN b.at /\ b.at[40] = bytes
    BY SMT, LongsOne DEF longs
  <1> HIDE DEF words, longs
  <1>6. Framing(parts, words, longs, sha, 48, 7, 1)
    BY <1>2, <1>3 DEF Framing
  <1> HIDE DEF parts
  <1>7. RoundedBytes(p) = b <=> FramedAs(b, "AIRAT1", words, longs, sha, 48, 7, 1)
    BY <1>4, <1>6, FramedIs
  <1>8. /\ 12 + (4 * 7) = 40 /\ 12 + (4 * 7) + (8 * 1) = 48 /\ 44 + (4 * 7) + (8 * 1) = 80
        /\ 44 + (4 * 7) + (8 * 1) + 48 = 128
    BY SMT
  <1>9. 40 \in Framed(7, 1)
    BY RoundedOneLays
  <1>10. FramedAs(b, "AIRAT1", words, longs, sha, 48, 7, 1)
           <=> RoundedOneWritten(b, variant, q, k, heads, kv, dim, bytes, sha)
    BY SMT, <1>5, <1>8, <1>9 DEF RoundedOneWritten, FramedAs, words
  <1> QED BY <1>7, <1>10 DEF variant, bytes, sha


(* The form follows from library version and warps.                        *)
LEMMA RoundedForm ==
  ASSUME NEW p \in RoundedProblems, RoundedValid(p), RoundedBytes(p).magic = p.form
  PROVE /\ p.form = "AIRAT1" <=> p.version = 0
        /\ p.form = "AIRAT3" <=> p.warps = 4
        /\ p.warps \in {1, 4}
        /\ p.version = 0 => p.qk = <<>> /\ p.pv = <<>>
        /\ p.version # 0 => Len(p.qk) = 9 /\ Len(p.pv) = 9
  <1>1. \A magic, major, minor, parts : Packed(magic, major, minor, parts).magic = magic
    BY DEF Packed
  <1>2. RoundedBytes(p).magic = IF p.version = 0 THEN "AIRAT1" ELSE IF p.warps = 4 THEN "AIRAT3" ELSE "AIRAT2"
    <2>1. CASE p.version = 0
      BY <1>1, <2>1 DEF RoundedBytes
    <2>2. CASE p.version # 0
      BY <1>1, <2>2 DEF RoundedBytes
    <2> QED BY <2>1, <2>2
  <1>3. p.warps \in {1, 4} /\ (p.warps = 4 => p.version # 0)
    BY DEF RoundedValid
  <1>4. p.qk \in Seq(Nat) /\ p.pv \in Seq(Nat)
    BY DEF RoundedProblems
  <1>5. Len(p.qk) = (IF p.version = 0 THEN 0 ELSE 9) /\ Len(p.pv) = (IF p.version = 0 THEN 0 ELSE 9)
    BY DEF RoundedValid
  <1>6. \A s \in Seq(Nat) : Len(s) = 0 => s = <<>>
    BY EmptySeq
  <1> QED BY <1>2, <1>3, <1>4, <1>5, <1>6

(* A payload of the exact attention on its own is read back as it was      *)
(* written.                                                                *)
LEMMA RoundedOneBack ==
  ASSUME NEW p \in RoundedProblems, p.form = "AIRAT1", Valid(p), Bytes(p).magic = p.form
  PROVE LaidWhole(Bytes(p)) /\ Read(Bytes(p)) = p
  <1> DEFINE b == Bytes(p)
  <1>1. /\ p = [form |-> p.form, variant |-> p.variant, module |-> p.module, version |-> p.version,
                warps |-> p.warps, qk |-> p.qk, pv |-> p.pv]
        /\ p.module \in Modules /\ p.module = [bytes |-> p.module.bytes, sha |-> p.module.sha]
    BY DEF RoundedProblems, Modules
  <1>2. b = RoundedBytes(p)
    BY <1>1 DEF Bytes, GeluMulForms, CompactGateForms, RoundedForms
  <1>3. RoundedValid(p)
    BY DEF Valid, ProblemValid, GeluMulForms, CompactGateForms, RoundedForms
  <1>4. p.version = 0 /\ p.warps = 1 /\ p.qk = <<>> /\ p.pv = <<>>
    BY <1>2, <1>3, RoundedForm
  <1>5. PICK q, k, heads, kv, dim, scores : RoundedCase(p.variant, q, k, heads, kv, dim, scores)
    <2>1. p.variant \in 1..4
      BY <1>3 DEF RoundedValid
    <2> QED BY ONLY <2>1, RoundedShapes
  <1> HIDE DEF b
  <1>6. RoundedOneWritten(b, p.variant, q, k, heads, kv, dim, p.module.bytes, p.module.sha)
    BY <1>1, <1>2, <1>4, <1>5, RoundedOneWrites
  <1>7. /\ b = [magic |-> "AIRAT1", size |-> 128, at |-> b.at] /\ b.at \in [Framed(7, 1) -> Nat]
        /\ b.at[40] = p.module.bytes /\ b.at[48] = p.module.sha
    BY <1>6 DEF RoundedOneWritten
  <1>8. b.at[16] = p.variant
    <2> DEFINE v == <<120, p.variant, q, k, heads, kv, dim>>
    <2>1. Runtime!Words(b, 12, v)
      BY <1>6 DEF RoundedOneWritten
    <2>2. 2 \in DOMAIN v /\ v[2] = p.variant
      BY SMT
    <2> HIDE DEF v
    <2> QED BY ONLY <2>1, <2>2, SecondWord
  <1>9. b.magic = "AIRAT1" /\ b.size = 128
    BY <1>7
  <1>10. Read(b) = [form |-> b.magic, variant |-> b.at[16], module |-> [bytes |-> b.at[40], sha |-> b.at[48]],
                    version |-> 0, warps |-> 1, qk |-> <<>>, pv |-> <<>>]
    <2>1. Read(b) = RoundedRead(b)
      BY <1>9 DEF Read, GeluMulForms, CompactGateForms, RoundedForms
    <2>2. b.size # 192 /\ b.magic # "AIRAT3"
      BY <1>9
    <2> QED BY <2>1, <2>2 DEF RoundedRead, ModuleIn
  <1>11. LaidWhole(b)
    BY <1>7, <1>9, RoundedOneLays DEF LaidWhole, Magics, RoundedForms
  <1> QED BY <1>1, <1>4, <1>7, <1>8, <1>9, <1>10, <1>11 DEF b

(* The runtime compares the variant apart from the shape.                  *)
LEMMA RoundedWords ==
  ASSUME NEW b, NEW v, NEW q, NEW k, NEW h, NEW kv, NEW d, 16 \in DOMAIN b.at, b.at[16] = v
  PROVE Runtime!Words(b, 12, <<120, v, q, k, h, kv, d>>)
            <=> Runtime!Words(b, 12, <<120>>) /\ Runtime!Words(b, 20, <<q, k, h, kv, d>>)
  <1> DEFINE has(o, x) == o \in DOMAIN b.at /\ b.at[o] = x
  <1>1. Runtime!Words(b, 12, <<120, v, q, k, h, kv, d>>)
          <=> has(12, 120) /\ has(16, v) /\ has(20, q) /\ has(24, k) /\ has(28, h) /\ has(32, kv) /\ has(36, d)
    <2>1. SevenAt12(b, 120, v, q, k, h, kv, d)
      BY ONLY WordsSeven12, Zenon
    <2> QED BY ONLY <2>1 DEF SevenAt12, has
  <1>2. Runtime!Words(b, 12, <<120>>) <=> has(12, 120)
    BY SMT, WordsOne
  <1>3. Runtime!Words(b, 20, <<q, k, h, kv, d>>)
          <=> has(20, q) /\ has(24, k) /\ has(28, h) /\ has(32, kv) /\ has(36, d)
    BY SMT, WordsFive
  <1>4. has(16, v)
    OBVIOUS
  <1> HIDE DEF has
  <1> QED BY <1>1, <1>2, <1>3, <1>4

(* from_bytes and the runtime's parser accept the same payloads of the     *)
(* exact attention on its own.                                             *)
LEMMA RoundedOneAgree ==
  ASSUME NEW b, LaidWhole(b), b.magic = "AIRAT1"
  PROVE Decodes(b) <=> Runtime!Parses(b)
  <1> DEFINE p == Read(b)
             variant == b.at[16]
             bytes == b.at[40]
             sha == b.at[48]
  <1>1. /\ b = [magic |-> "AIRAT1", size |-> 128, at |-> b.at] /\ b.at \in [Framed(7, 1) -> Nat]
        /\ {16, 40, 48, 80} \subseteq DOMAIN b.at /\ b.size = 128
    BY RoundedOneLays DEF LaidWhole
  <1>2. bytes \in Nat /\ sha \in Nat /\ variant \in Nat
    BY <1>1
  <1>3. p = [form |-> b.magic, variant |-> variant, module |-> [bytes |-> bytes, sha |-> sha],
             version |-> 0, warps |-> 1, qk |-> <<>>, pv |-> <<>>]
    <2>1. Read(b) = RoundedRead(b)
      BY DEF Read, GeluMulForms, CompactGateForms, RoundedForms
    <2>2. b.size # 192 /\ b.magic # "AIRAT3"
      BY <1>1
    <2> QED BY <2>1, <2>2 DEF RoundedRead, ModuleIn
  <1>4. /\ p.form = "AIRAT1" /\ p.variant = variant /\ p.version = 0 /\ p.warps = 1
        /\ p.qk = <<>> /\ p.pv = <<>>
        /\ p.module.bytes = bytes /\ p.module.sha = sha /\ p.module \in Modules
    BY <1>2, <1>3 DEF Modules
  <1> HIDE DEF p
  <1>5. Decodes(b) <=> (variant \in 1..2 /\ bytes > 0 /\ sha # 0 /\ RoundedBytes(p) = b)
    <2>1. Bytes(p) = RoundedBytes(p)
      BY <1>4 DEF Bytes, GeluMulForms, CompactGateForms, RoundedForms
    <2>2. ProblemValid(p) <=> RoundedValid(p)
      BY <1>4 DEF ProblemValid, GeluMulForms, CompactGateForms, RoundedForms
    <2>3. RoundedValid(p) <=> variant \in 1..2
      BY SMT, <1>4 DEF RoundedValid
    <2>4. Valid(p) <=> ProblemValid(p) /\ bytes > 0 /\ sha # 0
      BY <1>4 DEF Valid, ModuleValid
    <2>5. Decodes(b) <=> Valid(p) /\ Bytes(p) = b
      BY DEF Decodes, p
    <2> HIDE DEF bytes, sha, variant
    <2> QED BY <2>1, <2>2, <2>3, <2>4, <2>5
  <1>6. Runtime!Parses(b) <=> Runtime!RoundedAttentionParses(b)
    BY DEF Runtime!Parses
  <1>7. /\ Runtime!Field(b, 16) = variant /\ Runtime!Field(b, 40) = bytes /\ Runtime!Field(b, 48) = sha
        /\ Runtime!Field(b, 80) = b.at[80]
    BY <1>1 DEF Runtime!Field
  <1>8. Runtime!RoundedAttentionParses(b)
          <=> /\ Runtime!Shorts(b, 8, <<1, 0>>) /\ Runtime!Words(b, 12, <<120>>) /\ variant \in 1..2
              /\ Runtime!Words(b, 20, Runtime!AttentionDims(variant)) /\ bytes # 0 /\ sha # 0 /\ b.at[80] = 0
    BY <1>1, <1>7 DEF Runtime!RoundedAttentionParses, Runtime!HasModule
  <1>9. ASSUME variant \in 1..2
        PROVE Decodes(b) <=> Runtime!Parses(b)
    <2>1. PICK q, k, heads, kv, dim, scores : RoundedCase(variant, q, k, heads, kv, dim, scores)
      BY <1>9, RoundedShapes
    <2>2. RoundedBytes(p) = b <=> RoundedOneWritten(b, variant, q, k, heads, kv, dim, bytes, sha)
      <3>1. RoundedCase(p.variant, q, k, heads, kv, dim, scores)
        BY <1>4, <2>1
      <3>2. p.module \in Modules /\ p.version = 0 /\ p.variant = variant /\ p.module.bytes = bytes /\ p.module.sha = sha
        BY <1>4
      <3> HIDE DEF variant, bytes, sha
      <3> QED BY ONLY <3>1, <3>2, RoundedOneWrites
    <2>3. Runtime!AttentionDims(variant) = <<q, k, heads, kv, dim>>
      BY <2>1, RoundedShaped
    <2>4. Runtime!Words(b, 12, <<120, variant, q, k, heads, kv, dim>>)
            <=> Runtime!Words(b, 12, <<120>>) /\ Runtime!Words(b, 20, <<q, k, heads, kv, dim>>)
      BY <1>1, RoundedWords
    <2>5. RoundedOneWritten(b, variant, q, k, heads, kv, dim, bytes, sha)
            <=> /\ Runtime!Shorts(b, 8, <<1, 0>>) /\ Runtime!Words(b, 12, <<120>>)
                /\ Runtime!Words(b, 20, <<q, k, heads, kv, dim>>) /\ b.at[80] = 0
      BY <1>1, <2>4 DEF RoundedOneWritten
    <2> DEFINE shorts == Runtime!Shorts(b, 8, <<1, 0>>)
               word == Runtime!Words(b, 12, <<120>>)
               words == Runtime!Words(b, 20, <<q, k, heads, kv, dim>>)
               tail == b.at[80] = 0
    <2>6. RoundedBytes(p) = b <=> shorts /\ word /\ words /\ tail
      BY <2>2, <2>5
    <2>7. Runtime!RoundedAttentionParses(b)
            <=> shorts /\ word /\ variant \in 1..2 /\ words /\ bytes # 0 /\ sha # 0 /\ tail
      BY <1>8, <2>3
    <2> HIDE DEF shorts, word, words, tail, variant, bytes, sha
    <2> QED BY <1>2, <1>5, <1>6, <1>9, <2>6, <2>7
  <1>10. ASSUME variant \notin 1..2
         PROVE Decodes(b) <=> Runtime!Parses(b)
    BY <1>5, <1>6, <1>8, <1>10
  <1> QED BY <1>9, <1>10

(* The exact attention with a product library: an algorithm for the scores *)
(* and one for the values.                                                 *)
RoundedManyWritten(b, magic, major, variant, q, k, heads, kv, dim, scores, bytes, sha, version, algorithms) ==
  /\ b = [magic |-> magic, size |-> 192, at |-> b.at] /\ b.at \in [RoundedFields -> Nat]
  /\ Runtime!Shorts(b, 8, <<major, 0>>)
  /\ Runtime!Words(b, 12, <<120, variant, q, k, heads, kv, dim>>)
  /\ b.at[40] = bytes /\ b.at[48] = sha /\ b.at[80] = version /\ b.at[84] = 0 /\ b.at[88] = scores
  /\ Runtime!Words(b, 96, algorithms) /\ b.at[168] = 0

(* The form that a number of warps makes.                                  *)
RoundedMagic(warps) == IF warps = 4 THEN "AIRAT3" ELSE "AIRAT2"

(* Its major version.                                                      *)
RoundedMajor(warps) == IF warps = 4 THEN 3 ELSE 2

(* Where the fields of the exact attention with a product library start.   *)
LEMMA RoundedManyLays ==
  /\ \A form \in {"AIRAT2", "AIRAT3"} : Layout(form) = RoundedFields /\ Extent(form) = 192
  /\ {16, 40, 48, 80, 84, 88, 168} \subseteq RoundedFields
  /\ \A i \in 1..18 : 92 + (4 * i) \in RoundedFields
  <1>1. \A form \in {"AIRAT2", "AIRAT3"} : Layout(form) = RoundedFields /\ Extent(form) = 192
    BY DEF Layout, Extent, GeluMulForms, CompactGateForms
  <1>2. {40, 48, 80, 84, 88, 168} \subseteq RoundedFields
    BY DEF RoundedFields
  <1>3. 16 \in RoundedFields
    BY SMT DEF RoundedFields, Starts
  <1>4. ASSUME NEW i \in 1..18 PROVE 92 + (4 * i) \in RoundedFields
    <2>1. 92 + (4 * i) = 96 + (4 * (i - 1))
      BY SMT
    <2>2. 96 + (4 * (i - 1)) \in Starts(96, 4, 18)
      BY DEF Starts
    <2> HIDE DEF RoundedFields
    <2> QED BY <2>1, <2>2 DEF RoundedFields
  <1> QED BY <1>1, <1>2, <1>3, <1>4

(* The two algorithms, one behind the other.                               *)
AlgorithmsAt(b, qk, pv) ==
  \A i \in 1..9 : b.at[92 + (4 * i)] = qk[i] /\ b.at[128 + (4 * i)] = pv[i]

(* They are written as one array.                                          *)
LEMMA RoundedAlgorithms ==
  ASSUME NEW b, NEW qk \in Seq(Nat), NEW pv \in Seq(Nat), Len(qk) = 9, Len(pv) = 9,
         b.at \in [RoundedFields -> Nat]
  PROVE /\ qk \o pv \in Seq(Nat) /\ Len(qk \o pv) = 18
        /\ Runtime!Words(b, 96, qk \o pv) <=> AlgorithmsAt(b, qk, pv)
  <1> DEFINE all == qk \o pv
  <1>1. /\ all \in Seq(Nat) /\ Len(all) = Len(qk) + Len(pv)
        /\ \A i \in 1 .. Len(qk) + Len(pv) : all[i] = IF i <= Len(qk) THEN qk[i] ELSE pv[i - Len(qk)]
    BY ConcatProperties, Zenon
  <1>2. Len(qk) + Len(pv) = 18
    OBVIOUS
  <1> HIDE DEF all
  <1>3. all \in Seq(Nat) /\ Len(all) = 18 /\ DOMAIN all = 1..18
    BY <1>1, <1>2
  <1>4. \A i \in 1..18 : all[i] = IF i <= 9 THEN qk[i] ELSE pv[i - 9]
    BY <1>1, <1>2
  <1>5. \A i \in 1..9 : all[i] = qk[i] /\ all[9 + i] = pv[i]
    BY <1>4
  <1>6. Runtime!Words(b, 96, all) <=> \A i \in 1..18 : b.at[96 + (4 * (i - 1))] = all[i]
    <2>1. \A i \in 1..18 : 96 + (4 * (i - 1)) \in DOMAIN b.at
      <3>1. \A i \in 1..18 : 96 + (4 * (i - 1)) \in RoundedFields
        BY DEF RoundedFields, Starts
      <3> QED BY <3>1
    <2> QED BY <1>3, <2>1, Zenon DEF Runtime!Words, Runtime!Run
  <1>7. ASSUME NEW i \in 1..9
        PROVE 96 + (4 * (i - 1)) = 92 + (4 * i) /\ 96 + (4 * ((9 + i) - 1)) = 128 + (4 * i)
              /\ i \in 1..18 /\ 9 + i \in 1..18
    BY SMT
  <1>8. ASSUME \A i \in 1..18 : b.at[96 + (4 * (i - 1))] = all[i], NEW i \in 1..9
        PROVE b.at[92 + (4 * i)] = qk[i] /\ b.at[128 + (4 * i)] = pv[i]
    <2>1. i \in 1..18 /\ 9 + i \in 1..18
      BY <1>7
    <2>2. b.at[96 + (4 * (i - 1))] = all[i] /\ b.at[96 + (4 * ((9 + i) - 1))] = all[9 + i]
      BY <1>8, <2>1
    <2> QED BY ONLY <1>5, <1>7, <2>2, i \in 1..9, Zenon
  <1>9. ASSUME \A i \in 1..9 : b.at[92 + (4 * i)] = qk[i] /\ b.at[128 + (4 * i)] = pv[i], NEW j \in 1..18
        PROVE b.at[96 + (4 * (j - 1))] = all[j]
    <2>1. CASE j \in 1..9
      BY ONLY <1>5, <1>7, <1>9, <2>1, Zenon
    <2>2. CASE j \notin 1..9
      <3> DEFINE i == j - 9
      <3>1. i \in 1..9 /\ j = 9 + i
        BY <2>2
      <3> HIDE DEF i
      <3>2. b.at[128 + (4 * i)] = pv[i]
        BY ONLY <1>9, <3>1
      <3>3. 96 + (4 * ((9 + i) - 1)) = 128 + (4 * i) /\ all[9 + i] = pv[i]
        BY ONLY <1>5, <1>7, <3>1
      <3> QED BY ONLY <3>1, <3>2, <3>3
    <2> QED BY <2>1, <2>2
  <1> QED BY <1>3, <1>6, <1>8, <1>9 DEF all, AlgorithmsAt

(* to_bytes of the exact attention with a product library writes these     *)
(* fields and no others.                                                   *)
LEMMA RoundedManyWrites ==
  ASSUME NEW p, NEW b, p.module \in Modules, p.version \in Nat \ {0}, p.qk \in Seq(Nat), p.pv \in Seq(Nat),
         Len(p.qk) = 9, Len(p.pv) = 9, NEW q, NEW k, NEW heads, NEW kv, NEW dim,
         NEW scores, RoundedCase(p.variant, q, k, heads, kv, dim, scores)
  PROVE RoundedBytes(p) = b
          <=> RoundedManyWritten(b, RoundedMagic(p.warps), RoundedMajor(p.warps), p.variant, q, k, heads, kv,
                                 dim, scores, p.module.bytes, p.module.sha, p.version, p.qk \o p.pv)
  <1> DEFINE magic == RoundedMagic(p.warps)
             major == RoundedMajor(p.warps)
             variant == p.variant
             version == p.version
             bytes == p.module.bytes
             sha == p.module.sha
             all == p.qk \o p.pv
             words == <<120, variant, q, k, heads, kv, dim>>
             p1 == U32(words)
             p2 == U64(<<bytes>>)
             p3 == Digest(sha)
             p4 == U32(<<version, 0>>)
             p5 == U64(<<scores>>)
             p6 == U32(all)
             p7 == Reserved(24)
             parts == <<p1, p2, p3, p4, p5, p6, p7>>
  <1>1. /\ variant \in Nat /\ q \in Nat /\ k \in Nat /\ heads \in Nat /\ kv \in Nat /\ dim \in Nat
        /\ scores \in Nat
        /\ RoundedShape[variant].q = q /\ RoundedShape[variant].k = k
        /\ RoundedShape[variant].heads = heads /\ RoundedShape[variant].kv = kv
        /\ RoundedShape[variant].dim = dim
        /\ RoundedShape[variant].heads * RoundedShape[variant].q * RoundedShape[variant].k
             * RoundedShape[variant].scalar = scores
    <2>1. RoundedCase(variant, q, k, heads, kv, dim, scores)
      OBVIOUS
    <2> HIDE DEF variant
    <2>2. /\ variant \in 1..4 /\ q \in Nat /\ k \in Nat /\ heads \in Nat /\ kv \in Nat /\ dim \in Nat
          /\ scores \in Nat
          /\ RoundedShape[variant].q = q /\ RoundedShape[variant].k = k
          /\ RoundedShape[variant].heads = heads /\ RoundedShape[variant].kv = kv
          /\ RoundedShape[variant].dim = dim
          /\ RoundedShape[variant].heads * RoundedShape[variant].q * RoundedShape[variant].k
               * RoundedShape[variant].scalar = scores
      BY ONLY <2>1, RoundedShaped
    <2>3. variant \in Nat
      BY ONLY <2>2
    <2> QED BY ONLY <2>2, <2>3, Zenon
  <1>2. words \in Seq(Nat) /\ Len(words) = 7
    BY SMT, <1>1
  <1>3. bytes \in Nat /\ sha \in Nat /\ version \in Nat /\ major \in Nat
    BY DEF Modules, RoundedMajor
  <1>4. RoundedBytes(p) = Packed(magic, major, 0, parts)
    <2>1. <<p1, p2, p3>> \o <<p4, p5, p6, p7>> = parts
      <3> HIDE DEF p1, p2, p3, p4, p5, p6, p7
      <3> QED BY ONLY JoinFour
    <2>2. RoundedWorkspace(p) = scores
      BY <1>1 DEF RoundedWorkspace
    <2>3. p.version # 0
      OBVIOUS
    <2>4. RoundedBytes(p) = Packed(magic, major, 0, <<p1, p2, p3>> \o <<p4, p5, p6, p7>>)
      BY ONLY <1>1, <2>2, <2>3, Zenon DEF RoundedBytes, SM120, RoundedMagic, RoundedMajor
    <2> QED BY ONLY <2>1, <2>4
  <1>5. all \in Seq(Nat) /\ Len(all) = 18
    <2>1. /\ all \in Seq(Nat) /\ Len(all) = Len(p.qk) + Len(p.pv)
      BY ConcatProperties, Zenon
    <2> QED BY <2>1
  <1> HIDE DEF magic, major, variant, version, bytes, sha, all, words
  <1>6. /\ p1.width = 4 /\ p1.values = words /\ p2.width = 8 /\ p2.values = <<bytes>>
        /\ p3.width = 32 /\ p3.values = <<sha>> /\ p4.width = 4 /\ p4.values = <<version, 0>>
        /\ p5.width = 8 /\ p5.values = <<scores>> /\ p6.width = 4 /\ p6.values = all
        /\ p7.width = 24 /\ p7.values = <<0>>
    BY DEF U32, U64, Digest, Reserved
  <1>7. Spans(p1, 7, 12, 40) /\ Spans(p6, 18, 96, 168)
    BY SMT, <1>2, <1>5 DEF Spans, Parts, U32
  <1>8. Spans(p2, 1, 40, 48) /\ Spans(p5, 1, 88, 96)
    BY SMT, <1>1, <1>3 DEF Spans, Parts, U64
  <1>9. Spans(p3, 1, 48, 80) /\ Spans(p7, 1, 168, 192)
    BY SMT, <1>3 DEF Spans, Parts, Digest, Reserved
  <1>10. Spans(p4, 2, 80, 88)
    BY SMT, <1>3 DEF Spans, Parts, U32
  <1> HIDE DEF p1, p2, p3, p4, p5, p6, p7
  <1>11. ListedSeven(parts, p1, p2, p3, p4, p5, p6, p7, 7, 1, 1, 2, 1, 18, 1, 40, 48, 80, 88, 96, 168, 192)
    BY <1>7, <1>8, <1>9, <1>10 DEF ListedSeven
  <1> HIDE DEF parts
  <1>12. RoundedBytes(p) = b
           <=> HeldSeven(b, magic, major, 0, p1, p2, p3, p4, p5, p6, p7, 7, 1, 1, 2, 1, 18, 1, 40, 48, 80, 88,
                         96, 168, 192)
    <2>1. 0 \in Nat
      OBVIOUS
    <2> QED BY ONLY <1>3, <1>4, <1>11, <2>1, PackedSeven
  <1>13. /\ Starts(40, 8, 1) = {40} /\ Starts(48, 32, 1) = {48} /\ Starts(88, 8, 1) = {88}
         /\ Starts(168, 24, 1) = {168}
    BY OneStart
  <1>14. Starts(80, 4, 2) = {80, 84}
    BY SMT DEF Starts
  <1>15. Starts(8, 2, 2) \cup Starts(12, 4, 7) \cup Starts(40, 8, 1) \cup Starts(48, 32, 1)
           \cup Starts(80, 4, 2) \cup Starts(88, 8, 1) \cup Starts(96, 4, 18) \cup Starts(168, 24, 1)
           = RoundedFields
    BY SMTT(60), <1>13, <1>14 DEF RoundedFields
  <1>16. Starts(8, 2, 2) \cup Starts(12, p1.width, 7) \cup Starts(40, p2.width, 1) \cup Starts(48, p3.width, 1)
           \cup Starts(80, p4.width, 2) \cup Starts(88, p5.width, 1) \cup Starts(96, p6.width, 18)
           \cup Starts(168, p7.width, 1) = RoundedFields
    BY ONLY <1>6, <1>15
  <1>17. /\ Runtime!Run(b, 40, 8, <<bytes>>) <=> (40 \in DOMAIN b.at /\ b.at[40] = bytes)
         /\ Runtime!Run(b, 48, 32, <<sha>>) <=> (48 \in DOMAIN b.at /\ b.at[48] = sha)
         /\ Runtime!Run(b, 88, 8, <<scores>>) <=> (88 \in DOMAIN b.at /\ b.at[88] = scores)
         /\ Runtime!Run(b, 168, 24, <<0>>) <=> (168 \in DOMAIN b.at /\ b.at[168] = 0)
    <2>1. 40 \in Nat /\ 48 \in Nat /\ 88 \in Nat /\ 168 \in Nat /\ 8 \in Nat /\ 32 \in Nat /\ 24 \in Nat
      BY SMT
    <2>2. Runtime!Run(b, 40, 8, <<bytes>>) <=> (40 \in DOMAIN b.at /\ b.at[40] = bytes)
      BY ONLY <2>1, OneField
    <2>3. Runtime!Run(b, 48, 32, <<sha>>) <=> (48 \in DOMAIN b.at /\ b.at[48] = sha)
      BY ONLY <2>1, OneField
    <2>4. Runtime!Run(b, 88, 8, <<scores>>) <=> (88 \in DOMAIN b.at /\ b.at[88] = scores)
      BY ONLY <2>1, OneField
    <2>5. Runtime!Run(b, 168, 24, <<0>>) <=> (168 \in DOMAIN b.at /\ b.at[168] = 0)
      BY ONLY <2>1, OneField
    <2> QED BY ONLY <2>2, <2>3, <2>4, <2>5
  <1>18. Runtime!Run(b, 80, 4, <<version, 0>>)
           <=> (80 \in DOMAIN b.at /\ b.at[80] = version /\ 84 \in DOMAIN b.at /\ b.at[84] = 0)
    BY SMT DEF Runtime!Run
  <1>19. b.at \in [RoundedFields -> Nat] => {16, 40, 48, 80, 84, 88, 168} \subseteq DOMAIN b.at
    BY SMTT(60), RoundedManyLays
  <1>20. /\ Runtime!Run(b, 12, p1.width, p1.values) <=> Runtime!Words(b, 12, words)
         /\ Runtime!Run(b, 96, p6.width, p6.values) <=> Runtime!Words(b, 96, all)
    BY <1>6 DEF Runtime!Words
  <1>21. /\ Runtime!Run(b, 40, p2.width, p2.values) <=> (40 \in DOMAIN b.at /\ b.at[40] = bytes)
         /\ Runtime!Run(b, 48, p3.width, p3.values) <=> (48 \in DOMAIN b.at /\ b.at[48] = sha)
         /\ Runtime!Run(b, 88, p5.width, p5.values) <=> (88 \in DOMAIN b.at /\ b.at[88] = scores)
         /\ Runtime!Run(b, 168, p7.width, p7.values) <=> (168 \in DOMAIN b.at /\ b.at[168] = 0)
    BY ONLY <1>6, <1>17
  <1>22. Runtime!Run(b, 80, p4.width, p4.values)
           <=> (80 \in DOMAIN b.at /\ b.at[80] = version /\ 84 \in DOMAIN b.at /\ b.at[84] = 0)
    BY ONLY <1>6, <1>18
  <1>23. HeldSeven(b, magic, major, 0, p1, p2, p3, p4, p5, p6, p7, 7, 1, 1, 2, 1, 18, 1, 40, 48, 80, 88,
                   96, 168, 192)
           <=> /\ b = [magic |-> magic, size |-> 192, at |-> b.at] /\ b.at \in [RoundedFields -> Nat]
               /\ Runtime!Shorts(b, 8, <<major, 0>>) /\ Runtime!Words(b, 12, words)
               /\ b.at[40] = bytes /\ b.at[48] = sha /\ b.at[80] = version /\ b.at[84] = 0 /\ b.at[88] = scores
               /\ Runtime!Words(b, 96, all) /\ b.at[168] = 0
    BY ONLY ZenonT(120), <1>16, <1>19, <1>20, <1>21, <1>22 DEF HeldSeven
  <1> QED BY ONLY <1>12, <1>23
          DEF RoundedManyWritten, words, all, variant, version, bytes, sha, magic, major

(* A sequence of nine is a function of 1..9.                               *)
LEMMA Nine ==
  ASSUME NEW s \in Seq(Nat), Len(s) = 9
  PROVE s = [i \in 1..9 |-> s[i]]
  <1>1. DOMAIN s = 1..9 /\ s = [i \in DOMAIN s |-> s[i]]
    OBVIOUS
  <1> QED BY <1>1

(* A payload of the exact attention with a product library is read back as *)
(* it was written.                                                         *)
LEMMA RoundedManyBack ==
  ASSUME NEW p \in RoundedProblems, p.form \in {"AIRAT2", "AIRAT3"}, Valid(p), Bytes(p).magic = p.form
  PROVE LaidWhole(Bytes(p)) /\ Read(Bytes(p)) = p
  <1> DEFINE b == Bytes(p)
  <1>1. /\ p = [form |-> p.form, variant |-> p.variant, module |-> p.module, version |-> p.version,
                warps |-> p.warps, qk |-> p.qk, pv |-> p.pv]
        /\ p.module \in Modules /\ p.module = [bytes |-> p.module.bytes, sha |-> p.module.sha]
        /\ p.version \in Nat /\ p.qk \in Seq(Nat) /\ p.pv \in Seq(Nat)
    BY DEF RoundedProblems, Modules
  <1>2. b = RoundedBytes(p)
    BY <1>1 DEF Bytes, GeluMulForms, CompactGateForms, RoundedForms
  <1>3. RoundedValid(p)
    <2>1. ProblemValid(p)
      BY DEF Valid
    <2>2. p.form \in RoundedForms
      BY DEF RoundedForms
    <2> QED BY <2>1, <2>2 DEF ProblemValid, GeluMulForms, CompactGateForms, RoundedForms
  <1>4. /\ p.version # 0 /\ p.warps \in {1, 4} /\ (p.form = "AIRAT3" <=> p.warps = 4)
        /\ Len(p.qk) = 9 /\ Len(p.pv) = 9
    BY <1>2, <1>3, RoundedForm
  <1>5. PICK q, k, heads, kv, dim, scores : RoundedCase(p.variant, q, k, heads, kv, dim, scores)
    <2>1. p.variant \in 1..4
      BY <1>3 DEF RoundedValid
    <2> QED BY ONLY <2>1, RoundedShapes
  <1>6. b.magic = p.form
    OBVIOUS
  <1> HIDE DEF b
  <1>7. RoundedManyWritten(b, RoundedMagic(p.warps), RoundedMajor(p.warps), p.variant, q, k, heads, kv,
                           dim, scores, p.module.bytes, p.module.sha, p.version, p.qk \o p.pv)
    <2>1. p.version \in Nat \ {0}
      BY <1>1, <1>4
    <2> QED BY ONLY <1>1, <1>2, <1>4, <1>5, <2>1, RoundedManyWrites
  <1>8. /\ b = [magic |-> b.magic, size |-> 192, at |-> b.at] /\ b.at \in [RoundedFields -> Nat]
        /\ b.at[40] = p.module.bytes /\ b.at[48] = p.module.sha /\ b.at[80] = p.version
    BY <1>7 DEF RoundedManyWritten
  <1>9. b.at[16] = p.variant
    <2> DEFINE v == <<120, p.variant, q, k, heads, kv, dim>>
    <2>1. Runtime!Words(b, 12, v)
      BY <1>7 DEF RoundedManyWritten
    <2>2. 2 \in DOMAIN v /\ v[2] = p.variant
      BY SMT
    <2> HIDE DEF v
    <2> QED BY ONLY <2>1, <2>2, SecondWord
  <1>10. b.size = 192
    BY <1>8
  <1>11. \A i \in 1..9 : b.at[92 + (4 * i)] = p.qk[i] /\ b.at[128 + (4 * i)] = p.pv[i]
    <2>1. Runtime!Words(b, 96, p.qk \o p.pv)
      BY <1>7 DEF RoundedManyWritten
    <2>2. p.qk \in Seq(Nat) /\ p.pv \in Seq(Nat) /\ Len(p.qk) = 9 /\ Len(p.pv) = 9
      BY ONLY <1>1, <1>4
    <2>3. b.at \in [RoundedFields -> Nat]
      BY ONLY <1>8
    <2> DEFINE qk == p.qk
               pv == p.pv
    <2>4. qk \in Seq(Nat) /\ pv \in Seq(Nat) /\ Len(qk) = 9 /\ Len(pv) = 9 /\ Runtime!Words(b, 96, qk \o pv)
      BY <2>1, <2>2
    <2> HIDE DEF qk, pv
    <2>5. \A i \in 1..9 : b.at[92 + (4 * i)] = qk[i] /\ b.at[128 + (4 * i)] = pv[i]
      <3>1. AlgorithmsAt(b, qk, pv)
        BY ONLY <2>3, <2>4, RoundedAlgorithms
      <3> QED BY ONLY <3>1 DEF AlgorithmsAt
    <2> QED BY ONLY <2>5 DEF qk, pv
  <1>12. p.qk = [i \in 1..9 |-> b.at[92 + (4 * i)]] /\ p.pv = [i \in 1..9 |-> b.at[128 + (4 * i)]]
    <2>1. p.qk = [i \in 1..9 |-> p.qk[i]] /\ p.pv = [i \in 1..9 |-> p.pv[i]]
      BY ONLY <1>1, <1>4, Nine
    <2> QED BY ONLY <1>11, <2>1
  <1>13. Read(b) = [form |-> b.magic, variant |-> b.at[16], module |-> [bytes |-> b.at[40], sha |-> b.at[48]],
                    version |-> b.at[80], warps |-> IF b.magic = "AIRAT3" THEN 4 ELSE 1,
                    qk |-> [i \in 1..9 |-> b.at[92 + (4 * i)]], pv |-> [i \in 1..9 |-> b.at[128 + (4 * i)]]]
    <2>1. Read(b) = RoundedRead(b)
      BY <1>6 DEF Read, GeluMulForms, CompactGateForms, RoundedForms
    <2> QED BY <1>10, <2>1 DEF RoundedRead, ModuleIn
  <1>14. LaidWhole(b)
    BY <1>6, <1>8, <1>10, RoundedManyLays DEF LaidWhole, Magics, RoundedForms
  <1>15. p.warps = IF b.magic = "AIRAT3" THEN 4 ELSE 1
    BY <1>4, <1>6
  <1>16. Read(b) = p
    BY ONLY <1>1, <1>6, <1>8, <1>9, <1>12, <1>13, <1>15
  <1> QED BY <1>14, <1>16 DEF b

(* from_bytes and the runtime's parser accept the same payloads of the     *)
(* exact attention with a product library.                                 *)
LEMMA RoundedManyAgree ==
  ASSUME NEW b, LaidWhole(b), b.magic \in {"AIRAT2", "AIRAT3"}
  PROVE Decodes(b) <=> Runtime!Parses(b)
  <1> DEFINE p == Read(b)
             magic == b.magic
             variant == b.at[16]
             bytes == b.at[40]
             sha == b.at[48]
             version == b.at[80]
             warps == IF b.magic = "AIRAT3" THEN 4 ELSE 1
             major == RoundedMajor(warps)
             qk == [i \in 1..9 |-> b.at[92 + (4 * i)]]
             pv == [i \in 1..9 |-> b.at[128 + (4 * i)]]
             small == b.at[124] < 65536 /\ b.at[128] < 65536 /\ b.at[160] < 65536 /\ b.at[164] < 65536
             known == variant \in (IF magic = "AIRAT2" THEN 1..4 ELSE 1..2)
  <1>1. /\ b = [magic |-> magic, size |-> 192, at |-> b.at] /\ b.at \in [RoundedFields -> Nat]
        /\ {16, 40, 48, 80, 84, 88, 168} \subseteq DOMAIN b.at /\ b.size = 192
    BY RoundedManyLays DEF LaidWhole
  <1>2. bytes \in Nat /\ sha \in Nat /\ variant \in Nat /\ version \in Nat
    BY <1>1
  <1>3. \A i \in 1..9 : b.at[92 + (4 * i)] \in Nat /\ b.at[128 + (4 * i)] \in Nat
    <2>1. ASSUME NEW i \in 1..9 PROVE b.at[92 + (4 * i)] \in Nat /\ b.at[128 + (4 * i)] \in Nat
      <3>1. i \in 1..18 /\ i + 9 \in 1..18 /\ 92 + (4 * (i + 9)) = 128 + (4 * i)
        BY SMT
      <3>2. 92 + (4 * i) \in RoundedFields /\ 92 + (4 * (i + 9)) \in RoundedFields
        BY <3>1, RoundedManyLays, ZenonT(120)
      <3> QED BY ONLY <1>1, <3>1, <3>2
    <2> QED BY <2>1
  <1>4. qk \in Seq(Nat) /\ pv \in Seq(Nat) /\ Len(qk) = 9 /\ Len(pv) = 9
    BY <1>3
  <1>5. p = [form |-> b.magic, variant |-> variant, module |-> [bytes |-> bytes, sha |-> sha],
             version |-> version, warps |-> warps, qk |-> qk, pv |-> pv]
    <2>1. Read(b) = RoundedRead(b)
      BY DEF Read, GeluMulForms, CompactGateForms, RoundedForms
    <2> QED BY <1>1, <2>1 DEF RoundedRead, ModuleIn
  <1>6. /\ p.form = b.magic /\ p.variant = variant /\ p.version = version /\ p.warps = warps
        /\ p.qk = qk /\ p.pv = pv
        /\ p.module.bytes = bytes /\ p.module.sha = sha /\ p.module \in Modules
    BY <1>2, <1>5 DEF Modules
  <1> HIDE DEF p
  <1>7. warps \in {1, 4} /\ (warps = 4 <=> magic = "AIRAT3") /\ RoundedMagic(warps) = magic
    BY DEF RoundedMagic
  <1>8. (\A algorithm \in {qk, pv} : \A i \in DOMAIN algorithm : i > 7 => algorithm[i] < 65536) <=> small
    <2>1. (\A i \in 1..9 : i > 7 => qk[i] < 65536) <=> b.at[124] < 65536 /\ b.at[128] < 65536
      <3>1. qk[8] = b.at[124] /\ qk[9] = b.at[128]
        BY SMT
      <3>2. \A i \in 1..9 : i > 7 <=> i = 8 \/ i = 9
        BY SMT
      <3>3. 8 \in 1..9 /\ 9 \in 1..9
        BY SMT
      <3> DEFINE limit == 65536
      <3> HIDE DEF limit, qk
      <3> QED BY <3>1, <3>2, <3>3
    <2>2. (\A i \in 1..9 : i > 7 => pv[i] < 65536) <=> b.at[160] < 65536 /\ b.at[164] < 65536
      <3>1. pv[8] = b.at[160] /\ pv[9] = b.at[164]
        BY SMT
      <3>2. \A i \in 1..9 : i > 7 <=> i = 8 \/ i = 9
        BY SMT
      <3>3. 8 \in 1..9 /\ 9 \in 1..9
        BY SMT
      <3> DEFINE limit == 65536
      <3> HIDE DEF limit, pv
      <3> QED BY <3>1, <3>2, <3>3
    <2>3. DOMAIN qk = 1..9 /\ DOMAIN pv = 1..9
      OBVIOUS
    <2> HIDE DEF qk, pv
    <2> QED BY ONLY SMT, <2>1, <2>2, <2>3
  <1> HIDE DEF qk, pv
  <1>9. Decodes(b) <=> known /\ version # 0 /\ small /\ bytes > 0 /\ sha # 0 /\ RoundedBytes(p) = b
    <2>1. Bytes(p) = RoundedBytes(p)
      BY <1>6 DEF Bytes, GeluMulForms, CompactGateForms, RoundedForms
    <2>2. ProblemValid(p) <=> RoundedValid(p)
      BY <1>6 DEF ProblemValid, GeluMulForms, CompactGateForms, RoundedForms
    <2>3. RoundedValid(p) <=> /\ variant \in 1..4 /\ (variant >= 3 => version # 0)
                              /\ warps \in {1, 4} /\ (warps = 4 => version # 0 /\ variant \in {1, 2})
                              /\ 9 = (IF version = 0 THEN 0 ELSE 9) /\ small
      <3>1. (\A algorithm \in {qk, pv} : Len(algorithm) = (IF version = 0 THEN 0 ELSE 9))
              <=> 9 = (IF version = 0 THEN 0 ELSE 9)
        BY <1>4
      <3> DEFINE lengths == \A algorithm \in {qk, pv} : Len(algorithm) = (IF version = 0 THEN 0 ELSE 9)
                 limits == \A algorithm \in {qk, pv} : \A i \in DOMAIN algorithm : i > 7 => algorithm[i] < 65536
      <3>2. RoundedValid(p) <=> /\ variant \in 1..4 /\ (variant >= 3 => version # 0)
                                /\ warps \in {1, 4} /\ (warps = 4 => version # 0 /\ variant \in {1, 2})
                                /\ lengths /\ limits
        <4> HIDE DEF variant, version, warps
        <4> QED BY <1>6 DEF RoundedValid
      <3> HIDE DEF small, variant, version, warps, lengths, limits
      <3>3. (lengths <=> 9 = (IF version = 0 THEN 0 ELSE 9)) /\ (limits <=> small)
        BY ONLY <1>8, <3>1 DEF lengths, limits
      <3> QED BY ONLY <3>2, <3>3
    <2>4. (warps = 4 => variant \in {1, 2}) /\ variant \in 1..4 <=> known
      <3> HIDE DEF variant, warps
      <3>1. magic \in {"AIRAT2", "AIRAT3"}
        OBVIOUS
      <3> QED BY <1>7, <3>1
    <2>5. Valid(p) <=> ProblemValid(p) /\ bytes > 0 /\ sha # 0
      BY <1>6 DEF Valid, ModuleValid
    <2>6. Decodes(b) <=> Valid(p) /\ Bytes(p) = b
      BY DEF Decodes, p
    <2>7. RoundedValid(p) <=> known /\ version # 0 /\ small
      <3> HIDE DEF small, variant, version, warps, known
      <3>1. 9 = (IF version = 0 THEN 0 ELSE 9) <=> version # 0
        BY SMT
      <3> QED BY ONLY <1>7, <2>3, <2>4, <3>1
    <2> HIDE DEF bytes, sha, variant, version, small, known
    <2> QED BY ONLY <2>1, <2>2, <2>5, <2>6, <2>7
  <1>10. Runtime!Parses(b) <=> Runtime!RoundedAttentionParses(b)
    BY DEF Runtime!Parses
  <1>11. /\ Runtime!Field(b, 16) = variant /\ Runtime!Field(b, 40) = bytes /\ Runtime!Field(b, 48) = sha
         /\ Runtime!Field(b, 80) = version /\ Runtime!Field(b, 168) = b.at[168]
    BY <1>1 DEF Runtime!Field
  <1>12. {124, 128, 160, 164} \subseteq DOMAIN b.at
    <2>1. 8 \in 1..18 /\ 92 + (4 * 8) = 124 /\ 9 \in 1..18 /\ 92 + (4 * 9) = 128
      BY SMT
    <2>2. 17 \in 1..18 /\ 92 + (4 * 17) = 160 /\ 18 \in 1..18 /\ 92 + (4 * 18) = 164
      BY SMT
    <2>3. 124 \in RoundedFields /\ 128 \in RoundedFields /\ 160 \in RoundedFields /\ 164 \in RoundedFields
      <3>1. 124 \in RoundedFields
        BY ONLY <2>1, RoundedManyLays
      <3>2. 128 \in RoundedFields
        BY ONLY <2>1, RoundedManyLays
      <3>3. 160 \in RoundedFields
        BY ONLY <2>2, RoundedManyLays
      <3>4. 164 \in RoundedFields
        BY ONLY <2>2, RoundedManyLays
      <3> QED BY ONLY <3>1, <3>2, <3>3, <3>4
    <2> QED BY <1>1, <2>3
  <1>13. (\A o \in {124, 128, 160, 164} : Runtime!Field(b, o) <= 65535) <=> small
    <2>1. ASSUME NEW o \in {124, 128, 160, 164} PROVE Runtime!Field(b, o) <= 65535 <=> b.at[o] < 65536
      <3>1. Runtime!Field(b, o) = b.at[o] /\ b.at[o] \in Nat
        BY <1>1, <1>12 DEF Runtime!Field
      <3> DEFINE x == b.at[o]
      <3> HIDE DEF x
      <3>2. x \in Nat => (x <= 65535 <=> x < 65536)
        BY SMT
      <3> QED BY ONLY SMT, <3>1, <3>2 DEF x
    <2> QED BY ONLY SMT, <2>1
  <1> DEFINE shorts == Runtime!Shorts(b, 8, <<major, 0>>)
             word == Runtime!Words(b, 12, <<120>>)
             zeros == b.at[84] = 0 /\ b.at[168] = 0
  <1>14. /\ Runtime!Words(b, 84, <<0>>) <=> b.at[84] = 0
         /\ \A x : Runtime!Longs(b, 88, <<x>>) <=> b.at[88] = x
    BY SMT, <1>1 DEF Runtime!Words, Runtime!Longs, Runtime!Run
  <1>15. Runtime!RoundedAttentionParses(b)
          <=> /\ shorts /\ word /\ known /\ Runtime!Words(b, 20, Runtime!AttentionDims(variant))
              /\ bytes # 0 /\ sha # 0 /\ version # 0 /\ b.at[88] = Runtime!ScoreBytes(variant) /\ small /\ zeros
    <2>1. major = CASE b.magic = "AIRAT3" -> 3 [] b.magic = "AIRAT2" -> 2 [] OTHER -> 1
      BY DEF RoundedMajor
    <2>2. b.size \in {128, 192} /\ b.magic \in (IF b.size = 192 THEN {"AIRAT2", "AIRAT3"} ELSE {"AIRAT1"})
      BY <1>1
    <2> HIDE DEF major, small, variant, bytes, sha, version
    <2>3. Runtime!RoundedAttentionParses(b)
            <=> /\ b.size \in {128, 192}
                /\ b.magic \in (IF b.size = 192 THEN {"AIRAT2", "AIRAT3"} ELSE {"AIRAT1"})
                /\ shorts /\ word /\ known /\ Runtime!Words(b, 20, Runtime!AttentionDims(variant))
                /\ Runtime!HasModule(b, 40, 48)
                /\ IF b.size = 192
                   THEN /\ version # 0 /\ Runtime!Words(b, 84, <<0>>)
                        /\ Runtime!Longs(b, 88, <<Runtime!ScoreBytes(variant)>>)
                        /\ \A o \in {124, 128, 160, 164} : Runtime!Field(b, o) <= 65535
                        /\ b.at[168] = 0
                   ELSE version = 0
      BY ONLY SMT, <1>11, <2>1 DEF Runtime!RoundedAttentionParses
    <2>4. Runtime!HasModule(b, 40, 48) <=> bytes # 0 /\ sha # 0
      BY ONLY <1>11, Zenon DEF Runtime!HasModule
    <2>5. b.size = 192
      BY <1>1
    <2> HIDE DEF shorts, word, known
    <2> QED BY ONLY SMT, <1>13, <1>14, <2>2, <2>3, <2>4, <2>5
  <1>16. ASSUME known, version # 0
         PROVE Decodes(b) <=> Runtime!Parses(b)
    <2>1. PICK q, k, heads, kv, dim, scores : RoundedCase(variant, q, k, heads, kv, dim, scores)
      <3>1. variant \in 1..4
        BY <1>16
      <3> QED BY ONLY <3>1, RoundedShapes
    <2>2. RoundedBytes(p) = b
            <=> RoundedManyWritten(b, magic, major, variant, q, k, heads, kv, dim, scores, bytes, sha,
                                   version, qk \o pv)
      <3>1. RoundedCase(p.variant, q, k, heads, kv, dim, scores)
        BY <1>6, <2>1
      <3>2. version \in Nat \ {0}
        BY <1>2, <1>16
      <3> HIDE DEF variant, bytes, sha, version, warps
      <3>3. /\ p.module \in Modules /\ p.version \in Nat \ {0} /\ p.qk \in Seq(Nat) /\ p.pv \in Seq(Nat)
            /\ Len(p.qk) = 9 /\ Len(p.pv) = 9
        BY ONLY <1>4, <1>6, <3>2
      <3>4. RoundedBytes(p) = b
              <=> RoundedManyWritten(b, RoundedMagic(p.warps), RoundedMajor(p.warps), p.variant, q, k, heads, kv,
                                     dim, scores, p.module.bytes, p.module.sha, p.version, p.qk \o p.pv)
        BY ONLY <3>1, <3>3, RoundedManyWrites
      <3> QED BY ONLY <1>6, <1>7, <3>4, Zenon
    <2>3. Runtime!AttentionDims(variant) = <<q, k, heads, kv, dim>> /\ Runtime!ScoreBytes(variant) = scores
      BY ONLY <2>1, RoundedShaped
    <2>4. Runtime!Words(b, 12, <<120, variant, q, k, heads, kv, dim>>)
            <=> Runtime!Words(b, 12, <<120>>) /\ Runtime!Words(b, 20, <<q, k, heads, kv, dim>>)
      BY <1>1, RoundedWords
    <2>5. Runtime!Words(b, 96, qk \o pv)
      <3>1. AlgorithmsAt(b, qk, pv)
        BY DEF qk, pv, AlgorithmsAt
      <3> QED BY ONLY ZenonT(60), <1>1, <1>4, <3>1, RoundedAlgorithms
    <2> DEFINE words == Runtime!Words(b, 20, <<q, k, heads, kv, dim>>)
               score == b.at[88] = scores
    <2>6. RoundedManyWritten(b, magic, major, variant, q, k, heads, kv, dim, scores, bytes, sha,
                             version, qk \o pv)
            <=> shorts /\ word /\ words /\ score /\ zeros
      BY ONLY <1>1, <2>4, <2>5, Zenon DEF RoundedManyWritten
    <2>7. RoundedBytes(p) = b <=> shorts /\ word /\ words /\ score /\ zeros
      BY ONLY <2>2, <2>6
    <2>8. Runtime!RoundedAttentionParses(b)
            <=> /\ shorts /\ word /\ known /\ words /\ bytes # 0 /\ sha # 0 /\ version # 0
                /\ score /\ small /\ zeros
      <3> HIDE DEF shorts, word, known, bytes, sha, version, variant, small, zeros
      <3> QED BY ONLY <1>15, <2>3
    <2> HIDE DEF shorts, word, words, score, zeros, variant, bytes, sha, version, known, small
    <2> QED BY <1>2, <1>9, <1>10, <1>16, <2>7, <2>8
  <1>17. ASSUME ~(known /\ version # 0)
         PROVE Decodes(b) <=> Runtime!Parses(b)
    <2> HIDE DEF shorts, word, zeros, variant, bytes, sha, version, known, small
    <2> QED BY ONLY <1>9, <1>10, <1>15, <1>17
  <1> QED BY <1>16, <1>17

(* The elementwise kernels.                                                *)
CudaOperandCount(kernel) == IF kernel \in UnaryKernels THEN 1 ELSE 2

(* The fields of an elementwise kernel.                                    *)
CudaWritten(b, p) ==
  /\ b = [magic |-> "AICUKR1", size |-> 128, at |-> b.at] /\ b.at \in [CudaFields -> Nat]
  /\ Runtime!Shorts(b, 8, <<1, 0>>)
  /\ Runtime!Words(b, 12, <<128, p.arch, p.kernel, p.input, p.output, 1, p.grid, p.block, 0>>)
  /\ b.at[48] = p.numel /\ b.at[56] = p.module.bytes /\ b.at[64] = p.module.sha
  /\ Runtime!Words(b, 96, <<p.in_align, p.out_align, 1, CudaOperandCount(p.kernel)>>) /\ b.at[112] = 0

(* Where the fields of an elementwise kernel start.                        *)
LEMMA CudaLays ==
  /\ Layout("AICUKR1") = CudaFields /\ Extent("AICUKR1") = 128
  /\ {8, 10} \subseteq CudaFields /\ {12, 16, 20, 24, 28} \subseteq CudaFields
  /\ {32, 36, 40, 44} \subseteq CudaFields /\ {48, 56, 64, 112} \subseteq CudaFields
  /\ {96, 100, 104, 108} \subseteq CudaFields
  <1>1. Layout("AICUKR1") = CudaFields /\ Extent("AICUKR1") = 128
    BY DEF Layout, Extent, GeluMulForms, CompactGateForms
  <1>2. {48, 56, 64, 112} \subseteq CudaFields
    BY DEF CudaFields
  <1>3. Starts(8, 2, 2) = {8, 10}
    BY SMT DEF Starts
  <1>4. Starts(96, 4, 4) = {96, 100, 104, 108}
    BY SMT DEF Starts
  <1>5. \A i \in 1..9 : 12 + (4 * (i - 1)) \in Starts(12, 4, 9)
    BY DEF Starts
  <1>6. {12, 16, 20, 24, 28} \subseteq Starts(12, 4, 9) /\ {32, 36, 40, 44} \subseteq Starts(12, 4, 9)
    <2>1. /\ 12 + (4 * (1 - 1)) = 12 /\ 12 + (4 * (2 - 1)) = 16 /\ 12 + (4 * (3 - 1)) = 20
          /\ 12 + (4 * (4 - 1)) = 24 /\ 12 + (4 * (5 - 1)) = 28
      BY SMT
    <2>2. /\ 12 + (4 * (6 - 1)) = 32 /\ 12 + (4 * (7 - 1)) = 36
          /\ 12 + (4 * (8 - 1)) = 40 /\ 12 + (4 * (9 - 1)) = 44
      BY SMT
    <2>3. 1 \in 1..9 /\ 2 \in 1..9 /\ 3 \in 1..9 /\ 4 \in 1..9 /\ 5 \in 1..9
      BY SMT
    <2>4. 6 \in 1..9 /\ 7 \in 1..9 /\ 8 \in 1..9 /\ 9 \in 1..9
      BY SMT
    <2>5. {12, 16, 20, 24, 28} \subseteq Starts(12, 4, 9)
      BY ONLY <1>5, <2>1, <2>3
    <2>6. {32, 36, 40, 44} \subseteq Starts(12, 4, 9)
      BY ONLY <1>5, <2>2, <2>4
    <2> QED BY <2>5, <2>6
  <1>7. {8, 10} \subseteq CudaFields /\ {96, 100, 104, 108} \subseteq CudaFields
    BY ONLY <1>3, <1>4 DEF CudaFields
  <1>8. Starts(12, 4, 9) \subseteq CudaFields
    BY DEF CudaFields
  <1>9. {12, 16, 20, 24, 28} \subseteq CudaFields /\ {32, 36, 40, 44} \subseteq CudaFields
    BY ONLY <1>6, <1>8
  <1> QED BY ONLY <1>1, <1>2, <1>7, <1>9

(* to_bytes of an elementwise kernel writes these fields and no others.    *)
LEMMA CudaWrites ==
  ASSUME NEW p \in CudaProblems, NEW b
  PROVE CudaKernelBytes(p) = b <=> CudaWritten(b, p)
  <1> DEFINE bytes == p.module.bytes
             sha == p.module.sha
             numel == p.numel
             count == CudaOperandCount(p.kernel)
             words == <<128, p.arch, p.kernel, p.input, p.output, 1, p.grid, p.block, 0>>
             aligns == <<p.in_align, p.out_align, 1, count>>
             p1 == U32(words)
             p2 == U64(<<numel, bytes>>)
             p3 == Digest(sha)
             p4 == U32(aligns)
             p5 == Reserved(16)
             parts == <<p1, p2, p3, p4, p5>>
  <1>1. /\ p.arch \in Nat /\ p.kernel \in Nat /\ p.input \in Nat /\ p.output \in Nat /\ p.grid \in Nat
        /\ p.block \in Nat /\ p.in_align \in Nat /\ p.out_align \in Nat /\ count \in Nat
    BY DEF CudaProblems, CudaOperandCount
  <1>2. numel \in Nat /\ bytes \in Nat /\ sha \in Nat
    BY DEF CudaProblems, Modules
  <1>3. words \in Seq(Nat) /\ Len(words) = 9
    BY SMT, <1>1
  <1>4. aligns \in Seq(Nat) /\ Len(aligns) = 4
    <2> HIDE DEF count
    <2> QED BY SMT, <1>1
  <1>5. CudaKernelBytes(p) = Packed("AICUKR1", 1, 0, parts)
    BY Zenon DEF CudaKernelBytes, CudaOperandCount
  <1> HIDE DEF bytes, sha, numel, count, words, aligns
  <1>6. /\ p1.width = 4 /\ p1.values = words /\ p2.width = 8 /\ p2.values = <<numel, bytes>>
        /\ p3.width = 32 /\ p3.values = <<sha>> /\ p4.width = 4 /\ p4.values = aligns
        /\ p5.width = 16 /\ p5.values = <<0>>
    BY DEF U32, U64, Digest, Reserved
  <1>7. Spans(p1, 9, 12, 48) /\ Spans(p4, 4, 96, 112)
    BY SMT, <1>3, <1>4 DEF Spans, Parts, U32
  <1>8. Spans(p2, 2, 48, 64)
    BY SMT, <1>2 DEF Spans, Parts, U64
  <1>9. Spans(p3, 1, 64, 96) /\ Spans(p5, 1, 112, 128)
    BY SMT, <1>2 DEF Spans, Parts, Digest, Reserved
  <1> HIDE DEF p1, p2, p3, p4, p5
  <1>10. ListedFive(parts, p1, p2, p3, p4, p5, 9, 2, 1, 4, 1, 48, 64, 96, 112, 128)
    BY <1>7, <1>8, <1>9 DEF ListedFive
  <1> HIDE DEF parts
  <1>11. CudaKernelBytes(p) = b
           <=> HeldFive(b, "AICUKR1", 1, 0, p1, p2, p3, p4, p5, 9, 2, 1, 4, 1, 48, 64, 96, 112, 128)
    <2>1. 0 \in Nat /\ 1 \in Nat
      OBVIOUS
    <2> QED BY ONLY <1>5, <1>10, <2>1, PackedFive
  <1>12. Starts(64, 32, 1) = {64} /\ Starts(112, 16, 1) = {112}
    BY OneStart
  <1>13. Starts(48, 8, 2) = {48, 56}
    BY SMT DEF Starts
  <1>14. Starts(8, 2, 2) \cup Starts(12, 4, 9) \cup Starts(48, 8, 2) \cup Starts(64, 32, 1)
           \cup Starts(96, 4, 4) \cup Starts(112, 16, 1) = CudaFields
    BY <1>12, <1>13 DEF CudaFields
  <1>15. Starts(8, 2, 2) \cup Starts(12, p1.width, 9) \cup Starts(48, p2.width, 2)
           \cup Starts(64, p3.width, 1) \cup Starts(96, p4.width, 4) \cup Starts(112, p5.width, 1)
           = CudaFields
    BY ONLY <1>6, <1>14
  <1>16. Runtime!Run(b, 64, 32, <<sha>>) <=> (64 \in DOMAIN b.at /\ b.at[64] = sha)
    BY OneField
  <1>17. Runtime!Run(b, 112, 16, <<0>>) <=> (112 \in DOMAIN b.at /\ b.at[112] = 0)
    BY OneField
  <1>18. Runtime!Run(b, 48, 8, <<numel, bytes>>)
           <=> (48 \in DOMAIN b.at /\ b.at[48] = numel /\ 56 \in DOMAIN b.at /\ b.at[56] = bytes)
    BY SMT DEF Runtime!Run
  <1>19. b.at \in [CudaFields -> Nat] => {48, 56, 64, 112} \subseteq DOMAIN b.at
    BY CudaLays
  <1>20. /\ Runtime!Run(b, 12, p1.width, p1.values) <=> Runtime!Words(b, 12, words)
         /\ Runtime!Run(b, 96, p4.width, p4.values) <=> Runtime!Words(b, 96, aligns)
    BY <1>6 DEF Runtime!Words
  <1>21. /\ Runtime!Run(b, 64, p3.width, p3.values) <=> (64 \in DOMAIN b.at /\ b.at[64] = sha)
         /\ Runtime!Run(b, 112, p5.width, p5.values) <=> (112 \in DOMAIN b.at /\ b.at[112] = 0)
         /\ Runtime!Run(b, 48, p2.width, p2.values)
              <=> (48 \in DOMAIN b.at /\ b.at[48] = numel /\ 56 \in DOMAIN b.at /\ b.at[56] = bytes)
    BY ONLY <1>6, <1>16, <1>17, <1>18
  <1>22. HeldFive(b, "AICUKR1", 1, 0, p1, p2, p3, p4, p5, 9, 2, 1, 4, 1, 48, 64, 96, 112, 128)
           <=> /\ b = [magic |-> "AICUKR1", size |-> 128, at |-> b.at] /\ b.at \in [CudaFields -> Nat]
               /\ Runtime!Shorts(b, 8, <<1, 0>>) /\ Runtime!Words(b, 12, words)
               /\ b.at[48] = numel /\ b.at[56] = bytes /\ b.at[64] = sha
               /\ Runtime!Words(b, 96, aligns) /\ b.at[112] = 0
    BY ONLY ZenonT(60), <1>15, <1>19, <1>20, <1>21 DEF HeldFive
  <1> QED BY ONLY <1>11, <1>22 DEF CudaWritten, words, aligns, count, numel, bytes, sha

(* What from_bytes reads of an elementwise kernel.                         *)
LEMMA CudaRead ==
  ASSUME NEW b, b.magic = "AICUKR1"
  PROVE Read(b) = [form |-> b.magic, arch |-> b.at[16], kernel |-> b.at[20], input |-> b.at[24],
                   output |-> b.at[28], numel |-> b.at[48], grid |-> b.at[36], block |-> b.at[40],
                   in_align |-> b.at[96], out_align |-> b.at[100],
                   module |-> [bytes |-> b.at[56], sha |-> b.at[64]]]
  BY DEF Read, CudaKernelRead, ModuleIn, GeluMulForms, CompactGateForms, RoundedForms

(* A payload of an elementwise kernel is read back as it was written.      *)
LEMMA CudaBack ==
  ASSUME NEW p \in CudaProblems
  PROVE LaidWhole(Bytes(p)) /\ Read(Bytes(p)) = p
  <1> DEFINE b == Bytes(p)
  <1>1. /\ p = [form |-> p.form, arch |-> p.arch, kernel |-> p.kernel, input |-> p.input, output |-> p.output,
                numel |-> p.numel, grid |-> p.grid, block |-> p.block, in_align |-> p.in_align,
                out_align |-> p.out_align, module |-> p.module]
        /\ p.form = "AICUKR1" /\ p.module = [bytes |-> p.module.bytes, sha |-> p.module.sha]
    BY DEF CudaProblems, Modules
  <1>2. b = CudaKernelBytes(p)
    BY <1>1 DEF Bytes, GeluMulForms, CompactGateForms, RoundedForms
  <1> HIDE DEF b
  <1>3. CudaWritten(b, p)
    BY <1>2, CudaWrites
  <1>4. /\ b = [magic |-> "AICUKR1", size |-> 128, at |-> b.at] /\ b.at \in [CudaFields -> Nat]
        /\ b.at[48] = p.numel /\ b.at[56] = p.module.bytes /\ b.at[64] = p.module.sha
    BY <1>3 DEF CudaWritten
  <1>5. b.magic = "AICUKR1" /\ b.size = 128
    BY <1>4
  <1>6. /\ b.at[16] = p.arch /\ b.at[20] = p.kernel /\ b.at[24] = p.input /\ b.at[28] = p.output
        /\ b.at[36] = p.grid /\ b.at[40] = p.block
    <2> DEFINE v == <<128, p.arch, p.kernel, p.input, p.output, 1, p.grid, p.block, 0>>
    <2>1. \A i \in 1..9 : b.at[12 + (4 * (i - 1))] = v[i]
      <3>1. Runtime!Words(b, 12, v)
        BY <1>3 DEF CudaWritten
      <3>2. DOMAIN v = 1..9
        OBVIOUS
      <3> HIDE DEF v
      <3> QED BY ONLY <3>1, <3>2 DEF Runtime!Words, Runtime!Run
    <2>2. /\ v[2] = p.arch /\ v[3] = p.kernel /\ v[4] = p.input /\ v[5] = p.output
          /\ v[7] = p.grid /\ v[8] = p.block
      OBVIOUS
    <2>3. /\ 12 + (4 * (2 - 1)) = 16 /\ 12 + (4 * (3 - 1)) = 20 /\ 12 + (4 * (4 - 1)) = 24
          /\ 12 + (4 * (5 - 1)) = 28 /\ 12 + (4 * (7 - 1)) = 36 /\ 12 + (4 * (8 - 1)) = 40
      BY SMT
    <2>4. 2 \in 1..9 /\ 3 \in 1..9 /\ 4 \in 1..9 /\ 5 \in 1..9 /\ 7 \in 1..9 /\ 8 \in 1..9
      BY SMT
    <2> HIDE DEF v
    <2> QED BY ONLY <2>1, <2>2, <2>3, <2>4
  <1>7. b.at[96] = p.in_align /\ b.at[100] = p.out_align
    <2> DEFINE v == <<p.in_align, p.out_align, 1, CudaOperandCount(p.kernel)>>
    <2>1. \A i \in 1..4 : b.at[96 + (4 * (i - 1))] = v[i]
      <3>1. Runtime!Words(b, 96, v)
        BY <1>3 DEF CudaWritten
      <3>2. DOMAIN v = 1..4
        OBVIOUS
      <3> HIDE DEF v
      <3> QED BY ONLY <3>1, <3>2 DEF Runtime!Words, Runtime!Run
    <2>2. v[1] = p.in_align /\ v[2] = p.out_align
      OBVIOUS
    <2>3. 96 + (4 * (1 - 1)) = 96 /\ 96 + (4 * (2 - 1)) = 100 /\ 1 \in 1..4 /\ 2 \in 1..4
      BY SMT
    <2> HIDE DEF v
    <2> QED BY ONLY <2>1, <2>2, <2>3
  <1>8. LaidWhole(b)
    BY <1>4, <1>5, CudaLays DEF LaidWhole, Magics
  <1>9. Read(b) = p
    BY ONLY <1>1, <1>4, <1>5, <1>6, <1>7, CudaRead
  <1> QED BY <1>8, <1>9 DEF b

(* The delivered kernels: operand types, and the element counts of the activations. *)
LEMMA CudaTypes ==
  /\ DOMAIN KernelDTypes = 1..11 /\ Runtime!Kernels = KernelDTypes
  /\ \A k \in 1..11 : /\ KernelDTypes[k] = <<KernelDTypes[k][1], KernelDTypes[k][2]>>
                      /\ KernelDTypes[k][1] \in 1..4 /\ KernelDTypes[k][2] \in 1..4
  /\ \A d \in 1..4 : DTypeBytes[d] \in Nat \ {0}
  /\ Runtime!ScalarBytes = DTypeBytes
  <1>1. Runtime!Kernels = KernelDTypes /\ Runtime!ScalarBytes = DTypeBytes
    BY Zenon DEF Runtime!Kernels, KernelDTypes, Runtime!ScalarBytes, DTypeBytes
  <1>2. DOMAIN KernelDTypes = 1..11
    BY DEF KernelDTypes
  <1>3. \A k \in 1..11 : /\ KernelDTypes[k] = <<KernelDTypes[k][1], KernelDTypes[k][2]>>
                         /\ KernelDTypes[k][1] \in 1..4 /\ KernelDTypes[k][2] \in 1..4
    BY DEF KernelDTypes
  <1>4. \A d \in 1..4 : DTypeBytes[d] \in Nat \ {0}
    BY DEF DTypeBytes
  <1> QED BY <1>1, <1>2, <1>3, <1>4

(* Element counts and numbers of operands, as either side tells them.      *)
LEMMA CudaCounts ==
  ASSUME NEW kernel \in 1..11, NEW numel \in Nat
  PROVE /\ Runtime!KnownElementCount(kernel, numel)
             <=> numel > 0 /\ (kernel \in ActivationKernels => <<kernel, numel>> \in ActivationSizes)
        /\ CudaOperandCount(kernel) = Runtime!LaunchAbi(kernel)
        /\ (kernel \in UnaryKernels) <=> ~(kernel \in 4..8)
  <1>0. (kernel \in UnaryKernels) <=> ~(kernel \in 4..8)
    BY SMT DEF UnaryKernels, ActivationKernels
  <1>1. CudaOperandCount(kernel) = Runtime!LaunchAbi(kernel)
    BY <1>0 DEF CudaOperandCount, Runtime!LaunchAbi
  <1>2. CASE kernel \notin 9..11
    <2>1. kernel # 9 /\ kernel # 10 /\ kernel # 11
      BY SMT, <1>2
    <2>2. Runtime!KnownElementCount(kernel, numel) <=> numel > 0
      BY SMT, <2>1 DEF Runtime!KnownElementCount
    <2> QED BY <1>0, <1>1, <1>2, <2>2 DEF ActivationKernels
  <1>3. CASE kernel = 9
    <2>1. Runtime!KnownElementCount(kernel, numel) <=> numel = 1101824
      BY SMT, <1>3 DEF Runtime!KnownElementCount
    <2>2. <<kernel, numel>> \in ActivationSizes <=> numel = 1101824
      BY SMT, <1>3 DEF ActivationSizes
    <2>3. kernel \in ActivationKernels /\ 1101824 > 0
      BY SMT, <1>3 DEF ActivationKernels
    <2> QED BY ONLY SMT, <1>0, <1>1, <2>1, <2>2, <2>3
  <1>4. CASE kernel = 10
    <2>1. Runtime!KnownElementCount(kernel, numel) <=> numel = 204800 \/ numel = 15859712
      BY SMT, <1>4 DEF Runtime!KnownElementCount
    <2>2. <<kernel, numel>> \in ActivationSizes <=> numel = 204800 \/ numel = 15859712
      BY SMT, <1>4 DEF ActivationSizes
    <2>3. kernel \in ActivationKernels /\ 204800 > 0 /\ 15859712 > 0
      BY SMT, <1>4 DEF ActivationKernels
    <2> QED BY ONLY SMT, <1>0, <1>1, <2>1, <2>2, <2>3
  <1>5. CASE kernel = 11
    <2>1. Runtime!KnownElementCount(kernel, numel) <=> numel = 1024
      BY SMT, <1>5 DEF Runtime!KnownElementCount
    <2>2. <<kernel, numel>> \in ActivationSizes <=> numel = 1024
      BY SMT, <1>5 DEF ActivationSizes
    <2>3. kernel \in ActivationKernels /\ 1024 > 0
      BY SMT, <1>5 DEF ActivationKernels
    <2> QED BY ONLY SMT, <1>0, <1>1, <2>1, <2>2, <2>3
  <1> QED BY SMT, <1>2, <1>3, <1>4, <1>5

(* What both sides ask of an elementwise payload; the compiler asks for    *)
(* more of the alignments and, for activations, of the device.             *)
CudaShared(b) ==
  /\ b.at[8] = 1 /\ b.at[10] = 0 /\ b.at[12] = 128 /\ b.at[32] = 1 /\ b.at[44] = 0
  /\ b.at[104] = 1 /\ b.at[112] = 0 /\ b.at[16] \in Archs /\ b.at[20] \in 1..11
  /\ <<b.at[24], b.at[28]>> = KernelDTypes[b.at[20]] /\ b.at[108] = CudaOperandCount(b.at[20])
  /\ b.at[48] > 0 /\ (b.at[20] \in ActivationKernels => <<b.at[20], b.at[48]>> \in ActivationSizes)
  /\ b.at[56] > 0 /\ b.at[64] # 0 /\ b.at[40] \in 1..1024
  /\ b.at[36] = Runtime!Grid(b.at[48], b.at[40])
  /\ PowerOfTwo(b.at[96]) /\ PowerOfTwo(b.at[100])

(* The runtime's parser asks for what both sides ask for.                  *)
LEMMA CudaParses ==
  ASSUME NEW b, LaidWhole(b), b.magic = "AICUKR1"
  PROVE Runtime!Parses(b) <=> CudaShared(b)
  <1>1. /\ b.at \in [CudaFields -> Nat] /\ b.size = 128
        /\ {8, 10, 12, 16, 20, 24, 28, 32, 36, 40, 44, 48, 56, 64, 112} \subseteq DOMAIN b.at
        /\ {96, 100, 104, 108} \subseteq DOMAIN b.at
    BY CudaLays DEF LaidWhole
  <1>2. /\ Runtime!Field(b, 16) = b.at[16] /\ Runtime!Field(b, 20) = b.at[20]
        /\ Runtime!Field(b, 36) = b.at[36] /\ Runtime!Field(b, 40) = b.at[40]
        /\ Runtime!Field(b, 48) = b.at[48] /\ Runtime!Field(b, 56) = b.at[56]
        /\ Runtime!Field(b, 64) = b.at[64] /\ Runtime!Field(b, 96) = b.at[96]
        /\ Runtime!Field(b, 100) = b.at[100] /\ Runtime!Field(b, 112) = b.at[112]
    BY <1>1 DEF Runtime!Field
  <1>3. Runtime!Parses(b) <=> Runtime!CudaKernelParses(b)
    BY DEF Runtime!Parses
  <1>4. /\ Runtime!Words(b, 12, <<128>>) <=> b.at[12] = 128
        /\ Runtime!Words(b, 32, <<1>>) <=> b.at[32] = 1
        /\ Runtime!Words(b, 44, <<0>>) <=> b.at[44] = 0
        /\ Runtime!Words(b, 104, <<1>>) <=> b.at[104] = 1
        /\ \A x : Runtime!Words(b, 108, <<x>>) <=> b.at[108] = x
    BY SMT, <1>1 DEF Runtime!Words, Runtime!Run
  <1>5. Runtime!Shorts(b, 8, <<1, 0>>) <=> b.at[8] = 1 /\ b.at[10] = 0
    BY SMT, <1>1 DEF Runtime!Shorts, Runtime!Run
  <1>6. \A x, y : Runtime!Words(b, 24, <<x, y>>) <=> b.at[24] = x /\ b.at[28] = y
    BY SMT, <1>1 DEF Runtime!Words, Runtime!Run
  <1>7. /\ b.at[20] \in Nat /\ b.at[48] \in Nat /\ b.at[56] \in Nat
    BY <1>1
  <1> DEFINE kernel == b.at[20]
             numel == b.at[48]
             shorts == b.at[8] = 1 /\ b.at[10] = 0
             fixed == b.at[12] = 128 /\ b.at[32] = 1 /\ b.at[44] = 0 /\ b.at[104] = 1 /\ b.at[112] = 0
             arch == b.at[16] \in Archs
             module == b.at[56] > 0 /\ b.at[64] # 0
             block == b.at[40] \in 1..1024
             grid == b.at[36] = Runtime!Grid(numel, b.at[40])
             aligns == PowerOfTwo(b.at[96]) /\ PowerOfTwo(b.at[100])
             count == numel > 0 /\ (kernel \in ActivationKernels => <<kernel, numel>> \in ActivationSizes)
  <1>8. Runtime!HasModule(b, 56, 64) <=> module
    BY <1>2, <1>7 DEF Runtime!HasModule
  <1>9. Runtime!ValidAlignment(b.at[96]) /\ Runtime!ValidAlignment(b.at[100]) <=> aligns
    BY Zenon DEF Runtime!ValidAlignment, PowerOfTwo
  <1>10. b.at[16] \in Runtime!KnownArch <=> arch
    BY Zenon DEF Runtime!KnownArch, Archs
  <1>11. DOMAIN Runtime!Kernels = 1..11
    BY CudaTypes
  <1>12. Runtime!CudaKernelParses(b)
           <=> /\ Runtime!Sized(b, 128) /\ Runtime!Words(b, 12, <<128>>)
               /\ b.at[16] \in Runtime!KnownArch
               /\ Runtime!Words(b, 32, <<1>>) /\ Runtime!Words(b, 44, <<0>>) /\ Runtime!Words(b, 104, <<1>>)
               /\ b.at[112] = 0
               /\ kernel \in DOMAIN Runtime!Kernels
               /\ Runtime!Words(b, 24, Runtime!Kernels[kernel])
               /\ Runtime!Words(b, 108, <<Runtime!LaunchAbi(kernel)>>)
               /\ Runtime!KnownElementCount(kernel, numel)
               /\ Runtime!HasModule(b, 56, 64) /\ block /\ grid
               /\ Runtime!ValidAlignment(b.at[96]) /\ Runtime!ValidAlignment(b.at[100])
    <2>1. Runtime!CudaKernelParses(b)
           <=> /\ Runtime!Sized(b, 128) /\ Runtime!Words(b, 12, <<128>>)
               /\ Runtime!Field(b, 16) \in Runtime!KnownArch
               /\ Runtime!Words(b, 32, <<1>>) /\ Runtime!Words(b, 44, <<0>>) /\ Runtime!Words(b, 104, <<1>>)
               /\ Runtime!Field(b, 112) = 0
               /\ Runtime!Field(b, 20) \in DOMAIN Runtime!Kernels
               /\ Runtime!Words(b, 24, Runtime!Kernels[Runtime!Field(b, 20)])
               /\ Runtime!Words(b, 108, <<Runtime!LaunchAbi(Runtime!Field(b, 20))>>)
               /\ Runtime!KnownElementCount(Runtime!Field(b, 20), Runtime!Field(b, 48))
               /\ Runtime!HasModule(b, 56, 64)
               /\ Runtime!Field(b, 40) \in 1..1024
               /\ Runtime!Field(b, 36) = Runtime!Grid(Runtime!Field(b, 48), Runtime!Field(b, 40))
               /\ Runtime!ValidAlignment(Runtime!Field(b, 96)) /\ Runtime!ValidAlignment(Runtime!Field(b, 100))
      BY ONLY ZenonT(60) DEF Runtime!CudaKernelParses
    <2> QED BY ONLY SMTT(60), <1>2, <2>1 DEF kernel, numel, block, grid
  <1>13. Runtime!Sized(b, 128) <=> shorts
    BY ONLY <1>1, <1>5 DEF Runtime!Sized
  <1>14. CudaShared(b)
           <=> /\ shorts /\ fixed /\ arch /\ kernel \in 1..11
               /\ <<b.at[24], b.at[28]>> = KernelDTypes[kernel] /\ b.at[108] = CudaOperandCount(kernel)
               /\ count /\ module /\ block /\ grid /\ aligns
    BY ZenonT(60) DEF CudaShared
  <1>15. ASSUME kernel \in 1..11
         PROVE /\ Runtime!Words(b, 24, Runtime!Kernels[kernel]) <=> <<b.at[24], b.at[28]>> = KernelDTypes[kernel]
               /\ Runtime!Words(b, 108, <<Runtime!LaunchAbi(kernel)>>) <=> b.at[108] = CudaOperandCount(kernel)
               /\ Runtime!KnownElementCount(kernel, numel) <=> count
    <2>1. PICK x, y : KernelDTypes[kernel] = <<x, y>>
      BY <1>15, CudaTypes
    <2>2. Runtime!Kernels[kernel] = <<x, y>>
      BY <2>1, CudaTypes
    <2>3. <<b.at[24], b.at[28]>> = <<x, y>> <=> b.at[24] = x /\ b.at[28] = y
      OBVIOUS
    <2>4. Runtime!KnownElementCount(kernel, numel) <=> count
      <3>1. numel \in Nat
        BY <1>7
      <3> HIDE DEF kernel, numel
      <3> QED BY ONLY <1>15, <3>1, CudaCounts
    <2>5. CudaOperandCount(kernel) = Runtime!LaunchAbi(kernel)
      <3>1. numel \in Nat
        BY <1>7
      <3> HIDE DEF kernel, numel
      <3> QED BY ONLY <1>15, <3>1, CudaCounts
    <2> HIDE DEF kernel, numel, count
    <2> QED BY ONLY <1>4, <1>6, <2>1, <2>2, <2>3, <2>4, <2>5
  <1> HIDE DEF kernel, numel, shorts, arch, module, block, grid, aligns, count
  <1> QED BY ONLY <1>3, <1>4, <1>8, <1>9, <1>10, <1>11, <1>12, <1>13, <1>14, <1>15

(* from_bytes asks for that, and for more.                                 *)
LEMMA CudaDecodes ==
  ASSUME NEW b, LaidWhole(b), b.magic = "AICUKR1"
  PROVE Decodes(b)
          <=> /\ CudaShared(b) /\ (b.at[20] \in ActivationKernels => b.at[16] = SM120)
              /\ b.at[96] >= DTypeBytes[b.at[24]] /\ b.at[100] >= DTypeBytes[b.at[28]]
  <1> DEFINE p == Read(b)
             arch == b.at[16]
             kernel == b.at[20]
             input == b.at[24]
             output == b.at[28]
             numel == b.at[48]
             grid == b.at[36]
             block == b.at[40]
             in == b.at[96]
             out == b.at[100]
             bytes == b.at[56]
             sha == b.at[64]
             fixed == /\ b.at[8] = 1 /\ b.at[10] = 0 /\ b.at[12] = 128
                      /\ b.at[32] = 1 /\ b.at[104] = 1 /\ b.at[112] = 0 /\ b.at[44] = 0
             abi == b.at[108] = CudaOperandCount(kernel)
             shared == /\ arch \in Archs /\ kernel \in 1..11 /\ <<input, output>> = KernelDTypes[kernel]
                       /\ numel > 0 /\ (kernel \in ActivationKernels => <<kernel, numel>> \in ActivationSizes)
                       /\ block \in 1..1024 /\ grid = Runtime!Grid(numel, block)
                       /\ PowerOfTwo(in) /\ PowerOfTwo(out)
             aligned == in >= DTypeBytes[input] /\ out >= DTypeBytes[output]
             delivered == kernel \in ActivationKernels => arch = SM120
  <1>1. p = [form |-> "AICUKR1", arch |-> arch, kernel |-> kernel, input |-> input, output |-> output,
             numel |-> numel, grid |-> grid, block |-> block, in_align |-> in, out_align |-> out,
             module |-> [bytes |-> bytes, sha |-> sha]]
    BY CudaRead
  <1>2. /\ p.form = "AICUKR1" /\ p.arch = arch /\ p.kernel = kernel /\ p.input = input /\ p.output = output
        /\ p.numel = numel /\ p.grid = grid /\ p.block = block /\ p.in_align = in /\ p.out_align = out
        /\ p.module.bytes = bytes /\ p.module.sha = sha
    BY <1>1
  <1>3. Decodes(b) <=> Valid(p) /\ CudaKernelFixed(b)
    BY DEF Decodes, p
  <1>4. CudaKernelFixed(b) <=> fixed /\ abi
    BY DEF CudaKernelFixed, CudaOperandCount
  <1>5. Valid(p) <=> CudaKernelValid(p) /\ bytes > 0 /\ sha # 0
    <2> HIDE DEF p, bytes, sha
    <2>1. ProblemValid(p) <=> CudaKernelValid(p)
      BY <1>2 DEF ProblemValid, GeluMulForms, CompactGateForms, RoundedForms
    <2> QED BY <1>2, <2>1 DEF Valid, ModuleValid
  <1> HIDE DEF p
  <1>7. CudaKernelValid(p)
          <=> /\ arch \in Archs /\ kernel \in DOMAIN KernelDTypes /\ <<input, output>> = KernelDTypes[kernel]
              /\ numel > 0
              /\ (kernel \in ActivationKernels => arch = SM120 /\ <<kernel, numel>> \in ActivationSizes)
              /\ block \in 1..1024 /\ grid = Runtime!Grid(numel, block)
              /\ PowerOfTwo(in) /\ in >= DTypeBytes[input]
              /\ PowerOfTwo(out) /\ out >= DTypeBytes[output]
    <2> HIDE DEF arch, kernel, input, output, numel, grid, block, in, out
    <2> QED BY ONLY SMT, <1>2 DEF CudaKernelValid, Runtime!Grid, Round
  <1>8. DOMAIN KernelDTypes = 1..11
    BY CudaTypes
  <1>9. CudaShared(b) <=> fixed /\ abi /\ shared /\ bytes > 0 /\ sha # 0
    BY ZenonT(60) DEF CudaShared
  <1>10. CudaKernelValid(p) <=> shared /\ aligned /\ delivered
    <2> HIDE DEF arch, kernel, input, output, numel, grid, block, in, out
    <2> QED BY ONLY SMT, <1>7, <1>8
  <1> QED
    <2> HIDE DEF fixed, abi, shared, bytes, sha
    <2> QED BY ONLY <1>3, <1>4, <1>5, <1>9, <1>10, Zenon

(* from_bytes and the runtime's parser accept the same payloads of an      *)
(* elementwise kernel.                                                     *)
LEMMA CudaAgree ==
  ASSUME NEW b, LaidWhole(b), b.magic = "AICUKR1"
  PROVE (Decodes(b) => Runtime!Parses(b)) /\ (Runtime!Parses(b) => Decodes(b) \/ Tolerated(b))
  <1>1. ASSUME CudaShared(b)
        PROVE /\ b.at[96] >= DTypeBytes[b.at[24]] \/ b.at[96] < DTypeBytes[b.at[24]]
              /\ b.at[100] >= DTypeBytes[b.at[28]] \/ b.at[100] < DTypeBytes[b.at[28]]
    <2>1. /\ b.at[20] \in 1..11 /\ <<b.at[24], b.at[28]>> = KernelDTypes[b.at[20]]
      BY <1>1 DEF CudaShared
    <2>2. b.at[24] \in 1..4 /\ b.at[28] \in 1..4
      BY <2>1, CudaTypes
    <2>3. DTypeBytes[b.at[24]] \in Nat /\ DTypeBytes[b.at[28]] \in Nat
      BY <2>2, CudaTypes
    <2>4. b.at[96] \in Nat /\ b.at[100] \in Nat
      BY CudaLays DEF LaidWhole
    <2> QED BY <2>3, <2>4
  <1> HIDE DEF CudaShared
  <1> QED BY ONLY <1>1, b.magic = "AICUKR1", LaidWhole(b), CudaParses, CudaDecodes DEF Tolerated

(* The matrix product of cuBLASLt.  A patch projection carries one behind  *)
(* its header, so what is said of its fields is said of a base.            *)
ProductAt(b, base) == \A o \in Product : base + o \in DOMAIN b.at /\ b.at[base + o] \in Nat

(* Where the fields of a matrix product start.                             *)
LEMMA ProductLays ==
  /\ Layout("AILTMM1") = Product /\ Extent("AILTMM1") = 192
  /\ \A i \in 1..2 : 8 + (2 * (i - 1)) \in Product
  /\ \A i \in 1..14 : 12 + (4 * (i - 1)) \in Product
  /\ \A i \in 1..8 : 68 + (8 * (i - 1)) \in Product
  /\ \A i \in 1..7 : 132 + (4 * (i - 1)) \in Product
  /\ \A i \in 1..2 : 160 + (2 * (i - 1)) \in Product
  /\ \A i \in 1..5 : 164 + (4 * (i - 1)) \in Product
  /\ {8, 10} \subseteq Product
  /\ {12, 16, 20, 24, 28, 32, 36, 40, 44, 48, 52, 56, 60, 64} \subseteq Product
  /\ {68, 76, 84, 92, 100, 108, 116, 124} \subseteq Product
  /\ {132, 136, 140, 144, 148, 152, 156} \subseteq Product
  /\ {160, 162} \subseteq Product
  /\ {164, 168, 172, 176, 180} \subseteq Product
  /\ {184} \subseteq Product
  <1>1. Layout("AILTMM1") = Product /\ Extent("AILTMM1") = 192
    BY DEF Layout, Extent, GeluMulForms, CompactGateForms
  <1>2. \A i \in 1..2 : 8 + (2 * (i - 1)) \in Product
    <2>1. \A i \in 1..2 : 8 + (2 * (i - 1)) \in Starts(8, 2, 2)
      BY DEF Starts
    <2>2. Starts(8, 2, 2) \subseteq Product
      BY DEF Product
    <2> QED BY <2>1, <2>2
  <1>3. \A i \in 1..14 : 12 + (4 * (i - 1)) \in Product
    <2>1. \A i \in 1..14 : 12 + (4 * (i - 1)) \in Starts(12, 4, 14)
      BY DEF Starts
    <2>2. Starts(12, 4, 14) \subseteq Product
      BY DEF Product
    <2> QED BY <2>1, <2>2
  <1>4. \A i \in 1..8 : 68 + (8 * (i - 1)) \in Product
    <2>1. \A i \in 1..8 : 68 + (8 * (i - 1)) \in Starts(68, 8, 8)
      BY DEF Starts
    <2>2. Starts(68, 8, 8) \subseteq Product
      BY DEF Product
    <2> QED BY <2>1, <2>2
  <1>5. \A i \in 1..7 : 132 + (4 * (i - 1)) \in Product
    <2>1. \A i \in 1..7 : 132 + (4 * (i - 1)) \in Starts(132, 4, 7)
      BY DEF Starts
    <2>2. Starts(132, 4, 7) \subseteq Product
      BY DEF Product
    <2> QED BY <2>1, <2>2
  <1>6. \A i \in 1..2 : 160 + (2 * (i - 1)) \in Product
    <2>1. \A i \in 1..2 : 160 + (2 * (i - 1)) \in Starts(160, 2, 2)
      BY DEF Starts
    <2>2. Starts(160, 2, 2) \subseteq Product
      BY DEF Product
    <2> QED BY <2>1, <2>2
  <1>7. \A i \in 1..5 : 164 + (4 * (i - 1)) \in Product
    <2>1. \A i \in 1..5 : 164 + (4 * (i - 1)) \in Starts(164, 4, 5)
      BY DEF Starts
    <2>2. Starts(164, 4, 5) \subseteq Product
      BY DEF Product
    <2> QED BY <2>1, <2>2
  <1>8. {8, 10} \subseteq Product
    <2>1. 8 \in Product
      <3>1. 1 \in 1..2 /\ 8 + (2 * (1 - 1)) = 8
        BY SMT
      <3> QED BY ONLY <1>2, <3>1
    <2>2. 10 \in Product
      <3>1. 2 \in 1..2 /\ 8 + (2 * (2 - 1)) = 10
        BY SMT
      <3> QED BY ONLY <1>2, <3>1
    <2> QED BY ONLY <2>1, <2>2
  <1>9. {12, 16, 20, 24, 28, 32, 36, 40, 44, 48, 52, 56, 60, 64} \subseteq Product
    <2>1. 12 \in Product
      <3>1. 1 \in 1..14 /\ 12 + (4 * (1 - 1)) = 12
        BY SMT
      <3> QED BY ONLY <1>3, <3>1
    <2>2. 16 \in Product
      <3>1. 2 \in 1..14 /\ 12 + (4 * (2 - 1)) = 16
        BY SMT
      <3> QED BY ONLY <1>3, <3>1
    <2>3. 20 \in Product
      <3>1. 3 \in 1..14 /\ 12 + (4 * (3 - 1)) = 20
        BY SMT
      <3> QED BY ONLY <1>3, <3>1
    <2>4. 24 \in Product
      <3>1. 4 \in 1..14 /\ 12 + (4 * (4 - 1)) = 24
        BY SMT
      <3> QED BY ONLY <1>3, <3>1
    <2>5. 28 \in Product
      <3>1. 5 \in 1..14 /\ 12 + (4 * (5 - 1)) = 28
        BY SMT
      <3> QED BY ONLY <1>3, <3>1
    <2>6. 32 \in Product
      <3>1. 6 \in 1..14 /\ 12 + (4 * (6 - 1)) = 32
        BY SMT
      <3> QED BY ONLY <1>3, <3>1
    <2>7. 36 \in Product
      <3>1. 7 \in 1..14 /\ 12 + (4 * (7 - 1)) = 36
        BY SMT
      <3> QED BY ONLY <1>3, <3>1
    <2>8. 40 \in Product
      <3>1. 8 \in 1..14 /\ 12 + (4 * (8 - 1)) = 40
        BY SMT
      <3> QED BY ONLY <1>3, <3>1
    <2>9. 44 \in Product
      <3>1. 9 \in 1..14 /\ 12 + (4 * (9 - 1)) = 44
        BY SMT
      <3> QED BY ONLY <1>3, <3>1
    <2>10. 48 \in Product
      <3>1. 10 \in 1..14 /\ 12 + (4 * (10 - 1)) = 48
        BY SMT
      <3> QED BY ONLY <1>3, <3>1
    <2>11. 52 \in Product
      <3>1. 11 \in 1..14 /\ 12 + (4 * (11 - 1)) = 52
        BY SMT
      <3> QED BY ONLY <1>3, <3>1
    <2>12. 56 \in Product
      <3>1. 12 \in 1..14 /\ 12 + (4 * (12 - 1)) = 56
        BY SMT
      <3> QED BY ONLY <1>3, <3>1
    <2>13. 60 \in Product
      <3>1. 13 \in 1..14 /\ 12 + (4 * (13 - 1)) = 60
        BY SMT
      <3> QED BY ONLY <1>3, <3>1
    <2>14. 64 \in Product
      <3>1. 14 \in 1..14 /\ 12 + (4 * (14 - 1)) = 64
        BY SMT
      <3> QED BY ONLY <1>3, <3>1
    <2> QED BY ONLY <2>1, <2>2, <2>3, <2>4, <2>5, <2>6, <2>7, <2>8, <2>9, <2>10, <2>11, <2>12, <2>13, <2>14
  <1>10. {68, 76, 84, 92, 100, 108, 116, 124} \subseteq Product
    <2>1. 68 \in Product
      <3>1. 1 \in 1..8 /\ 68 + (8 * (1 - 1)) = 68
        BY SMT
      <3> QED BY ONLY <1>4, <3>1
    <2>2. 76 \in Product
      <3>1. 2 \in 1..8 /\ 68 + (8 * (2 - 1)) = 76
        BY SMT
      <3> QED BY ONLY <1>4, <3>1
    <2>3. 84 \in Product
      <3>1. 3 \in 1..8 /\ 68 + (8 * (3 - 1)) = 84
        BY SMT
      <3> QED BY ONLY <1>4, <3>1
    <2>4. 92 \in Product
      <3>1. 4 \in 1..8 /\ 68 + (8 * (4 - 1)) = 92
        BY SMT
      <3> QED BY ONLY <1>4, <3>1
    <2>5. 100 \in Product
      <3>1. 5 \in 1..8 /\ 68 + (8 * (5 - 1)) = 100
        BY SMT
      <3> QED BY ONLY <1>4, <3>1
    <2>6. 108 \in Product
      <3>1. 6 \in 1..8 /\ 68 + (8 * (6 - 1)) = 108
        BY SMT
      <3> QED BY ONLY <1>4, <3>1
    <2>7. 116 \in Product
      <3>1. 7 \in 1..8 /\ 68 + (8 * (7 - 1)) = 116
        BY SMT
      <3> QED BY ONLY <1>4, <3>1
    <2>8. 124 \in Product
      <3>1. 8 \in 1..8 /\ 68 + (8 * (8 - 1)) = 124
        BY SMT
      <3> QED BY ONLY <1>4, <3>1
    <2> QED BY ONLY <2>1, <2>2, <2>3, <2>4, <2>5, <2>6, <2>7, <2>8
  <1>11. {132, 136, 140, 144, 148, 152, 156} \subseteq Product
    <2>1. 132 \in Product
      <3>1. 1 \in 1..7 /\ 132 + (4 * (1 - 1)) = 132
        BY SMT
      <3> QED BY ONLY <1>5, <3>1
    <2>2. 136 \in Product
      <3>1. 2 \in 1..7 /\ 132 + (4 * (2 - 1)) = 136
        BY SMT
      <3> QED BY ONLY <1>5, <3>1
    <2>3. 140 \in Product
      <3>1. 3 \in 1..7 /\ 132 + (4 * (3 - 1)) = 140
        BY SMT
      <3> QED BY ONLY <1>5, <3>1
    <2>4. 144 \in Product
      <3>1. 4 \in 1..7 /\ 132 + (4 * (4 - 1)) = 144
        BY SMT
      <3> QED BY ONLY <1>5, <3>1
    <2>5. 148 \in Product
      <3>1. 5 \in 1..7 /\ 132 + (4 * (5 - 1)) = 148
        BY SMT
      <3> QED BY ONLY <1>5, <3>1
    <2>6. 152 \in Product
      <3>1. 6 \in 1..7 /\ 132 + (4 * (6 - 1)) = 152
        BY SMT
      <3> QED BY ONLY <1>5, <3>1
    <2>7. 156 \in Product
      <3>1. 7 \in 1..7 /\ 132 + (4 * (7 - 1)) = 156
        BY SMT
      <3> QED BY ONLY <1>5, <3>1
    <2> QED BY ONLY <2>1, <2>2, <2>3, <2>4, <2>5, <2>6, <2>7
  <1>12. {160, 162} \subseteq Product
    <2>1. 160 \in Product
      <3>1. 1 \in 1..2 /\ 160 + (2 * (1 - 1)) = 160
        BY SMT
      <3> QED BY ONLY <1>6, <3>1
    <2>2. 162 \in Product
      <3>1. 2 \in 1..2 /\ 160 + (2 * (2 - 1)) = 162
        BY SMT
      <3> QED BY ONLY <1>6, <3>1
    <2> QED BY ONLY <2>1, <2>2
  <1>13. {164, 168, 172, 176, 180} \subseteq Product
    <2>1. 164 \in Product
      <3>1. 1 \in 1..5 /\ 164 + (4 * (1 - 1)) = 164
        BY SMT
      <3> QED BY ONLY <1>7, <3>1
    <2>2. 168 \in Product
      <3>1. 2 \in 1..5 /\ 164 + (4 * (2 - 1)) = 168
        BY SMT
      <3> QED BY ONLY <1>7, <3>1
    <2>3. 172 \in Product
      <3>1. 3 \in 1..5 /\ 164 + (4 * (3 - 1)) = 172
        BY SMT
      <3> QED BY ONLY <1>7, <3>1
    <2>4. 176 \in Product
      <3>1. 4 \in 1..5 /\ 164 + (4 * (4 - 1)) = 176
        BY SMT
      <3> QED BY ONLY <1>7, <3>1
    <2>5. 180 \in Product
      <3>1. 5 \in 1..5 /\ 164 + (4 * (5 - 1)) = 180
        BY SMT
      <3> QED BY ONLY <1>7, <3>1
    <2> QED BY ONLY <2>1, <2>2, <2>3, <2>4, <2>5
  <1>14. {184} \subseteq Product
    BY DEF Product
  <1> QED BY ONLY <1>1, <1>2, <1>3, <1>4, <1>5, <1>6, <1>7, <1>8, <1>9, <1>10, <1>11, <1>12, <1>13, <1>14

(* A field of a product is where it is looked for.                         *)
LEMMA ProductHas ==
  ASSUME NEW b, NEW base \in Nat, ProductAt(b, base)
  PROVE /\ \A o \in Product : /\ base + o \in DOMAIN b.at /\ b.at[base + o] \in Nat
                              /\ Runtime!Field(b, base + o) = b.at[base + o]
        /\ \A o \in Product : \A v : Runtime!Words(b, base + o, <<v>>) <=> b.at[base + o] = v
        /\ \A o \in Product : \A v : Runtime!Shorts(b, base + o, <<v>>) <=> b.at[base + o] = v
  <1>1. \A o \in Product : o \in Nat
    BY DEF Product, Starts
  <1>2. \A o \in Product : /\ base + o \in DOMAIN b.at /\ b.at[base + o] \in Nat
                           /\ Runtime!Field(b, base + o) = b.at[base + o]
    BY DEF ProductAt, Runtime!Field
  <1>3. ASSUME NEW o \in Product, NEW v
        PROVE /\ Runtime!Words(b, base + o, <<v>>) <=> b.at[base + o] = v
              /\ Runtime!Shorts(b, base + o, <<v>>) <=> b.at[base + o] = v
    <2>1. base + o \in Nat /\ base + o \in DOMAIN b.at
      BY <1>1, <1>2
    <2> DEFINE x == base + o
    <2>2. x \in Nat /\ x \in DOMAIN b.at /\ 2 \in Nat /\ 4 \in Nat
      BY <2>1
    <2> HIDE DEF x
    <2>3. /\ Runtime!Run(b, x, 4, <<v>>) <=> b.at[x] = v
          /\ Runtime!Run(b, x, 2, <<v>>) <=> b.at[x] = v
      BY <2>2, OneField
    <2> QED BY <2>3 DEF x, Runtime!Words, Runtime!Shorts
  <1> QED BY <1>2, <1>3

(* Nine words of which four are one and five are nought.                   *)
LEMMA ProductOnes ==
  ASSUME NEW b, NEW base \in Nat, ProductAt(b, base)
  PROVE Runtime!Words(b, base + 32, <<1, 1, 1, 1, 0, 0, 0, 0, 0>>)
          <=> /\ \A i \in 1..4 : b.at[base + 28 + (4 * i)] = 1
              /\ \A i \in 1..5 : b.at[base + 44 + (4 * i)] = 0
  <1> DEFINE v == <<1, 1, 1, 1, 0, 0, 0, 0, 0>>
             at(i) == b.at[(base + 32) + (4 * (i - 1))]
  <1>1. DOMAIN v = 1..9
    OBVIOUS
  <1>2. (\A i \in 1..4 : v[i] = 1) /\ (\A i \in 1..5 : v[i + 4] = 0)
    OBVIOUS
  <1> HIDE DEF v
  <1>3. \A i \in 1..9 : (base + 32) + (4 * (i - 1)) \in DOMAIN b.at
    <2>1. ASSUME NEW i \in 1..9 PROVE (base + 32) + (4 * (i - 1)) \in DOMAIN b.at
      <3>1. i + 5 \in 1..14 /\ (base + 32) + (4 * (i - 1)) = base + (12 + (4 * ((i + 5) - 1)))
        BY SMT
      <3> DEFINE o == 12 + (4 * ((i + 5) - 1))
      <3>2. o \in Product
        BY ONLY <3>1, ProductLays
      <3> HIDE DEF o
      <3>3. base + o \in DOMAIN b.at
        BY ONLY <3>2, ProductAt(b, base), base \in Nat, ProductHas
      <3> QED BY ONLY <3>1, <3>3 DEF o
    <2> QED BY <2>1
  <1>4. Runtime!Words(b, base + 32, v) <=> \A i \in 1..9 : at(i) = v[i]
    BY ONLY <1>1, <1>3 DEF Runtime!Words, Runtime!Run
  <1>5. /\ \A i \in 1..4 : (base + 32) + (4 * (i - 1)) = base + 28 + (4 * i)
        /\ \A i \in 1..5 : (base + 32) + (4 * ((i + 4) - 1)) = base + 44 + (4 * i)
    BY SMT
  <1>6. /\ \A i \in 1..4 : at(i) = b.at[base + 28 + (4 * i)]
        /\ \A i \in 1..5 : at(i + 4) = b.at[base + 44 + (4 * i)]
    BY <1>5
  <1> HIDE DEF at
  <1>7. (\A i \in 1..9 : at(i) = v[i]) <=> (\A i \in 1..4 : at(i) = v[i]) /\ (\A i \in 1..5 : at(i + 4) = v[i + 4])
    <2>1. \A i \in 1..9 : i \in 1..4 \/ \E j \in 1..5 : i = j + 4
      <3>1. ASSUME NEW i \in 1..9, i \notin 1..4 PROVE \E j \in 1..5 : i = j + 4
        <4>1. i - 4 \in 1..5 /\ i = (i - 4) + 4
          BY SMT, <3>1
        <4> QED BY <4>1
      <3> QED BY <3>1
    <2>2. (\A i \in 1..4 : i \in 1..9) /\ (\A i \in 1..5 : i + 4 \in 1..9)
      BY SMT
    <2> QED BY ONLY <2>1, <2>2, Zenon
  <1> QED BY ONLY <1>2, <1>4, <1>6, <1>7, Zenon DEF v

(* The strides that follow the shape.                                      *)
LEMMA ProductStrides ==
  ASSUME NEW b, NEW base \in Nat, ProductAt(b, base), NEW x, NEW y
  PROVE Runtime!Longs(b, base + 92, <<x, x, y, y>>)
          <=> /\ b.at[base + 92] = x /\ b.at[base + 100] = x
              /\ b.at[base + 108] = y /\ b.at[base + 116] = y
  <1> DEFINE v == <<x, x, y, y>>
             at(i) == b.at[(base + 92) + (8 * (i - 1))]
  <1>1. DOMAIN v = {1, 2, 3, 4} /\ v[1] = x /\ v[2] = x /\ v[3] = y /\ v[4] = y
    OBVIOUS
  <1> HIDE DEF v
  <1>2. /\ (base + 92) + (8 * (1 - 1)) = base + 92 /\ (base + 92) + (8 * (2 - 1)) = base + 100
        /\ (base + 92) + (8 * (3 - 1)) = base + 108 /\ (base + 92) + (8 * (4 - 1)) = base + 116
    BY SMT
  <1>3. 92 \in Product /\ 100 \in Product /\ 108 \in Product /\ 116 \in Product
    BY ProductLays
  <1>4. /\ base + 92 \in DOMAIN b.at /\ base + 100 \in DOMAIN b.at
        /\ base + 108 \in DOMAIN b.at /\ base + 116 \in DOMAIN b.at
    BY ONLY <1>3, ProductAt(b, base), base \in Nat, ProductHas
  <1>5. Runtime!Longs(b, base + 92, v)
          <=> \A i \in {1, 2, 3, 4} : (base + 92) + (8 * (i - 1)) \in DOMAIN b.at /\ at(i) = v[i]
    BY ONLY <1>1, Zenon DEF Runtime!Longs, Runtime!Run
  <1>6. Runtime!Longs(b, base + 92, v)
          <=> /\ (base + 92) + (8 * (1 - 1)) \in DOMAIN b.at /\ at(1) = v[1]
              /\ (base + 92) + (8 * (2 - 1)) \in DOMAIN b.at /\ at(2) = v[2]
              /\ (base + 92) + (8 * (3 - 1)) \in DOMAIN b.at /\ at(3) = v[3]
              /\ (base + 92) + (8 * (4 - 1)) \in DOMAIN b.at /\ at(4) = v[4]
    BY ONLY <1>5, ZenonT(60)
  <1> QED BY ONLY <1>1, <1>2, <1>4, <1>6 DEF v

(* The alignments.                                                         *)
LEMMA ProductAligned ==
  ASSUME NEW b, NEW base \in Nat, ProductAt(b, base)
  PROVE (\A o \in {164, 168, 172, 176, 180} : Runtime!ValidAlignment(Runtime!Field(b, base + o)))
          <=> \A i \in 1..5 : PowerOfTwo(LinearRead(b, base).aligns[i])
  <1>1. LinearRead(b, base).aligns = [i \in 1..5 |-> b.at[base + 160 + (4 * i)]]
    BY Zenon DEF LinearRead
  <1> DEFINE good(x) == PowerOfTwo(x)
  <1>2. \A x : Runtime!ValidAlignment(x) <=> good(x)
    BY Zenon DEF Runtime!ValidAlignment, PowerOfTwo
  <1> HIDE DEF good
  <1>3. \A i \in 1..5 : base + 160 + (4 * i) = base + (160 + (4 * i))
    BY SMT
  <1>4. \A i \in 1..5 : 160 + (4 * i) \in {164, 168, 172, 176, 180}
    BY SMT
  <1>5. \A o \in {164, 168, 172, 176, 180} : \E i \in 1..5 : o = 160 + (4 * i)
    <2>1. /\ 164 = 160 + (4 * 1) /\ 168 = 160 + (4 * 2) /\ 172 = 160 + (4 * 3)
          /\ 176 = 160 + (4 * 4) /\ 180 = 160 + (4 * 5)
      BY SMT
    <2>2. 1 \in 1..5 /\ 2 \in 1..5 /\ 3 \in 1..5 /\ 4 \in 1..5 /\ 5 \in 1..5
      BY SMT
    <2> QED BY ONLY <2>1, <2>2
  <1>6. {164, 168, 172, 176, 180} \subseteq Product
    BY ProductLays
  <1>7. \A o \in {164, 168, 172, 176, 180} : Runtime!Field(b, base + o) = b.at[base + o]
    BY ONLY <1>6, ProductAt(b, base), base \in Nat, ProductHas
  <1>8. (\A o \in {164, 168, 172, 176, 180} : Runtime!ValidAlignment(Runtime!Field(b, base + o)))
          <=> \A o \in {164, 168, 172, 176, 180} : good(b.at[base + o])
    BY ONLY <1>2, <1>7
  <1> DEFINE S == {164, 168, 172, 176, 180}
  <1> HIDE DEF S
  <1>9. (\A o \in S : good(b.at[base + o])) <=> \A i \in 1..5 : good(b.at[base + (160 + (4 * i))])
    <2>1. (\A i \in 1..5 : 160 + (4 * i) \in S) /\ (\A o \in S : \E i \in 1..5 : o = 160 + (4 * i))
      BY ONLY <1>4, <1>5 DEF S
    <2> QED BY ONLY <2>1
  <1>10. (\A i \in 1..5 : good(LinearRead(b, base).aligns[i]))
           <=> \A i \in 1..5 : good(b.at[base + (160 + (4 * i))])
    BY ONLY <1>1, <1>3
  <1> QED BY ONLY <1>8, <1>9, <1>10 DEF S, good

(* The parser of the runtime asks what the compiler's asks.                *)
LEMMA ProductParsed ==
  ASSUME NEW b, NEW base \in Nat, ProductAt(b, base)
  PROVE Runtime!CublasLtParses(b, base) <=> LinearFixed(b, base) /\ LinearValid(LinearRead(b, base))
  <1> DEFINE l == LinearRead(b, base)
             g(o) == b.at[base + o]
  <1>1. /\ l.arch = g(16) /\ l.version = g(20) /\ l.dtype = g(24) /\ l.mode = g(28) /\ l.m = g(68)
        /\ l.n = g(76) /\ l.k = g(84)
    BY Zenon DEF LinearRead
  <1>2. \A o \in Product : /\ g(o) \in Nat /\ Runtime!Field(b, base + o) = g(o)
    BY ONLY ProductAt(b, base), base \in Nat, ProductHas
  <1>3. {8, 10, 12, 16, 20, 24, 28, 68, 76, 84, 92, 100, 108, 116, 184} \subseteq Product
    BY ONLY ProductLays, SMT
  <1>4. /\ Runtime!Words(b, base + 12, <<192>>) <=> g(12) = 192
        /\ Runtime!Shorts(b, base + 8, <<1>>) <=> g(8) = 1
    <2>1. 12 \in Product /\ 8 \in Product
      BY ONLY <1>3
    <2> QED BY ONLY <2>1, ProductAt(b, base), base \in Nat, ProductHas
  <1>5. /\ Runtime!Field(b, base + 10) = g(10) /\ Runtime!Field(b, base + 16) = g(16)
        /\ Runtime!Field(b, base + 20) = g(20) /\ Runtime!Field(b, base + 24) = g(24)
        /\ Runtime!Field(b, base + 28) = g(28) /\ Runtime!Field(b, base + 184) = g(184)
        /\ Runtime!Field(b, base + 68) = g(68) /\ Runtime!Field(b, base + 76) = g(76)
        /\ Runtime!Field(b, base + 84) = g(84)
    BY ONLY <1>2, <1>3
  <1>6. /\ g(10) \in Nat /\ g(20) \in Nat /\ g(24) \in Nat /\ g(28) \in Nat
        /\ g(68) \in Nat /\ g(76) \in Nat /\ g(84) \in Nat
    BY ONLY <1>2, <1>3
  <1> DEFINE ones == /\ \A i \in 1..4 : b.at[base + 28 + (4 * i)] = 1
                     /\ \A i \in 1..5 : b.at[base + 44 + (4 * i)] = 0
             strides == /\ b.at[base + 92] = g(84) /\ b.at[base + 100] = g(84)
                        /\ b.at[base + 108] = g(76) /\ b.at[base + 116] = g(76)
             aligned == \A i \in 1..5 : PowerOfTwo(l.aligns[i])
             known == g(16) \in Archs
  <1>7. Runtime!Words(b, base + 32, <<1, 1, 1, 1, 0, 0, 0, 0, 0>>) <=> ones
    BY ONLY ProductAt(b, base), base \in Nat, ProductOnes
  <1>8. Runtime!Longs(b, base + 92, <<g(84), g(84), g(76), g(76)>>) <=> strides
    BY ONLY ProductAt(b, base), base \in Nat, ProductStrides
  <1>9. (\A o \in {164, 168, 172, 176, 180} : Runtime!ValidAlignment(Runtime!Field(b, base + o))) <=> aligned
    BY ONLY ProductAt(b, base), base \in Nat, ProductAligned
  <1>10. g(16) \in Runtime!KnownArch <=> known
    BY Zenon DEF Runtime!KnownArch, Archs
  <1> DEFINE alignments == \A o \in {164, 168, 172, 176, 180} : Runtime!ValidAlignment(Runtime!Field(b, base + o))
             words == Runtime!Words(b, base + 32, <<1, 1, 1, 1, 0, 0, 0, 0, 0>>)
             first == Runtime!Words(b, base + 12, <<192>>) /\ Runtime!Shorts(b, base + 8, <<1>>)
             longs == Runtime!Longs(b, base + 92, <<g(84), g(84), g(76), g(76)>>)
  <1>11. Runtime!CublasLtParses(b, base)
           <=> /\ first /\ g(10) <= 1
               /\ g(16) \in Runtime!KnownArch /\ g(20) # 0 /\ g(24) \in {1, 2}
               /\ (g(28) = 1 \/ (g(28) = 2 /\ g(24) = 1 /\ g(10) = 1))
               /\ words /\ g(184) = 0
               /\ g(68) # 0 /\ g(76) # 0 /\ g(84) # 0 /\ longs /\ alignments
    <2> HIDE DEF g
    <2> QED BY ONLY SMT, <1>5 DEF Runtime!CublasLtParses
  <1>12. LinearFixed(b, base)
           <=> /\ g(8) = 1 /\ g(10) <= 1 /\ g(12) = 192 /\ (g(28) = 2 => g(10) = 1)
               /\ ones /\ strides /\ g(184) = 0
    BY Zenon DEF LinearFixed
  <1> HIDE DEF l
  <1>13. LinearValid(l)
           <=> /\ known /\ g(24) \in {1, 2} /\ g(68) > 0 /\ g(76) > 0 /\ g(84) > 0
               /\ g(28) \in {1, 2} /\ (g(28) = 2 => g(24) = 1) /\ g(20) > 0 /\ aligned
    <2> HIDE DEF g
    <2> QED BY ONLY SMT, <1>1 DEF LinearValid
  <1> HIDE DEF g, ones, strides, aligned, known, alignments, words, longs
  <1>14. first <=> g(12) = 192 /\ g(8) = 1
    BY ONLY <1>4
  <1> HIDE DEF first
  <1>15. (words <=> ones) /\ (longs <=> strides) /\ (alignments <=> aligned)
    BY ONLY <1>7, <1>8, <1>9 DEF words, longs, alignments
  <1>16. LinearValid(LinearRead(b, base)) <=> LinearValid(l)
    BY DEF l
  <1> QED BY ONLY <1>6, <1>10, <1>11, <1>12, <1>13, <1>14, <1>15, <1>16, SMT

(* The minor version that a mode makes.                                    *)
LinearMinor(mode) == IF mode = 2 THEN 1 ELSE 0

(* The layout of a product.                                                *)
LinearShape(b) == b = [magic |-> "AILTMM1", size |-> 192, at |-> b.at] /\ b.at \in [Product -> Nat]

(* The fields of a matrix product.                                         *)
LinearWritten(b, p) ==
  /\ LinearShape(b) /\ Runtime!Shorts(b, 8, <<1, LinearMinor(p.mode)>>)
  /\ Runtime!Words(b, 12, <<192, p.arch, p.version, p.dtype, p.mode, 1, 1, 1, 1, 0, 0, 0, 0, 0>>)
  /\ Runtime!Longs(b, 68, <<p.m, p.n, p.k, p.k, p.k, p.n, p.n, p.workspace>>)
  /\ Runtime!Words(b, 132, SubSeq(p.algorithm, 1, 7)) /\ Runtime!Shorts(b, 160, SubSeq(p.algorithm, 8, 9))
  /\ Runtime!Words(b, 164, p.aligns) /\ b.at[184] = 0

(* The pieces of an algorithm.                                             *)
LEMMA AlgorithmPieces ==
  ASSUME NEW a \in [1..9 -> Nat]
  PROVE /\ SubSeq(a, 1, 7) \in Seq(Nat) /\ Len(SubSeq(a, 1, 7)) = 7
        /\ SubSeq(a, 8, 9) \in Seq(Nat) /\ Len(SubSeq(a, 8, 9)) = 2
        /\ \A i \in 1..7 : SubSeq(a, 1, 7)[i] = a[i]
        /\ \A i \in 1..2 : SubSeq(a, 8, 9)[i] = a[i + 7]
  <1>1. a \in Seq(Nat) /\ Len(a) = 9
    <2>1. 9 \in Nat /\ DOMAIN a = 1..9
      OBVIOUS
    <2>2. a \in Seq(Nat)
      BY <2>1, SeqDef, Zenon
    <2>3. Len(a) \in Nat /\ 1..9 = 1..Len(a)
      BY <2>1, <2>2, LenProperties, Zenon
    <2> QED BY ONLY SMT, <2>2, <2>3
  <1>2. /\ SubSeq(a, 1, 7) \in Seq(Nat) /\ Len(SubSeq(a, 1, 7)) = 7
        /\ \A i \in 1..7 : SubSeq(a, 1, 7)[i] = a[i]
    BY <1>1
  <1>3. /\ SubSeq(a, 8, 9) \in Seq(Nat) /\ Len(SubSeq(a, 8, 9)) = 2
        /\ \A i \in 1..2 : SubSeq(a, 8, 9)[i] = a[i + 7]
    BY <1>1
  <1> QED BY <1>2, <1>3

(* to_bytes of a matrix product writes these fields and no others.         *)
LEMMA LinearWrites ==
  ASSUME NEW p \in LinearProblems, NEW b
  PROVE LinearBytes(p) = b <=> LinearWritten(b, p)
  <1> DEFINE minor == LinearMinor(p.mode)
             words == <<192, p.arch, p.version, p.dtype, p.mode, 1, 1, 1, 1, 0, 0, 0, 0, 0>>
             longs == <<p.m, p.n, p.k, p.k, p.k, p.n, p.n, p.workspace>>
             seven == SubSeq(p.algorithm, 1, 7)
             two == SubSeq(p.algorithm, 8, 9)
             aligns == p.aligns
             p1 == U32(words)
             p2 == U64(longs)
             p3 == U32(seven)
             p4 == U16(two)
             p5 == U32(aligns)
             p6 == Reserved(8)
             parts == <<p1, p2, p3, p4, p5, p6>>
  <1>1. /\ p.arch \in Nat /\ p.version \in Nat /\ p.dtype \in Nat /\ p.mode \in Nat /\ p.m \in Nat
        /\ p.n \in Nat /\ p.k \in Nat /\ p.workspace \in Nat /\ p.algorithm \in [1..9 -> Nat]
        /\ p.aligns \in [1..5 -> Nat]
    BY DEF LinearProblems
  <1>2. minor \in Nat
    BY DEF LinearMinor
  <1>3. words \in Seq(Nat) /\ Len(words) = 14
    BY SMT, <1>1
  <1>4. longs \in Seq(Nat) /\ Len(longs) = 8
    BY SMT, <1>1
  <1>5. seven \in Seq(Nat) /\ Len(seven) = 7 /\ two \in Seq(Nat) /\ Len(two) = 2
    BY <1>1, AlgorithmPieces
  <1>6. aligns \in Seq(Nat) /\ Len(aligns) = 5
    <2>1. 5 \in Nat /\ aligns \in [1..5 -> Nat]
      BY <1>1
    <2> HIDE DEF aligns
    <2>2. aligns \in Seq(Nat) /\ DOMAIN aligns = 1..5
      BY <2>1, SeqDef, Zenon
    <2>3. Len(aligns) \in Nat /\ 1..5 = 1..Len(aligns)
      BY <2>1, <2>2, LenProperties, Zenon
    <2> QED BY ONLY SMT, <2>2, <2>3
  <1>7. LinearBytes(p) = Packed("AILTMM1", 1, minor, parts)
    BY Zenon DEF LinearBytes, LinearMinor
  <1> HIDE DEF minor, words, longs, seven, two, aligns
  <1>8. /\ p1.width = 4 /\ p1.values = words /\ p2.width = 8 /\ p2.values = longs
        /\ p3.width = 4 /\ p3.values = seven /\ p4.width = 2 /\ p4.values = two
        /\ p5.width = 4 /\ p5.values = aligns /\ p6.width = 8 /\ p6.values = <<0>>
    BY DEF U16, U32, U64, Reserved
  <1>9. Spans(p1, 14, 12, 68) /\ Spans(p2, 8, 68, 132)
    BY SMT, <1>3, <1>4 DEF Spans, Parts, U32, U64
  <1>10. Spans(p3, 7, 132, 160) /\ Spans(p4, 2, 160, 164)
    BY SMT, <1>5 DEF Spans, Parts, U32, U16
  <1>11. Spans(p5, 5, 164, 184) /\ Spans(p6, 1, 184, 192)
    BY SMT, <1>6 DEF Spans, Parts, U32, Reserved
  <1> HIDE DEF p1, p2, p3, p4, p5, p6
  <1>12. ListedSix(parts, p1, p2, p3, p4, p5, p6, 14, 8, 7, 2, 5, 1, 68, 132, 160, 164, 184, 192)
    BY <1>9, <1>10, <1>11 DEF ListedSix
  <1> HIDE DEF parts
  <1>13. LinearBytes(p) = b
           <=> HeldSix(b, "AILTMM1", 1, minor, p1, p2, p3, p4, p5, p6, 14, 8, 7, 2, 5, 1, 68, 132, 160, 164,
                       184, 192)
    <2>1. 1 \in Nat
      OBVIOUS
    <2> QED BY ONLY <1>2, <1>7, <1>12, <2>1, PackedSix
  <1>14. Starts(184, 8, 1) = {184}
    BY OneStart
  <1>15. Starts(8, 2, 2) \cup Starts(12, 4, 14) \cup Starts(68, 8, 8) \cup Starts(132, 4, 7)
           \cup Starts(160, 2, 2) \cup Starts(164, 4, 5) \cup Starts(184, 8, 1) = Product
    BY <1>14 DEF Product
  <1>16. Starts(8, 2, 2) \cup Starts(12, p1.width, 14) \cup Starts(68, p2.width, 8)
           \cup Starts(132, p3.width, 7) \cup Starts(160, p4.width, 2) \cup Starts(164, p5.width, 5)
           \cup Starts(184, p6.width, 1) = Product
    BY ONLY <1>8, <1>15
  <1>17. Runtime!Run(b, 184, 8, <<0>>) <=> (184 \in DOMAIN b.at /\ b.at[184] = 0)
    BY OneField
  <1>18. b.at \in [Product -> Nat] => 184 \in DOMAIN b.at
    BY ProductLays
  <1>19. /\ Runtime!Run(b, 12, p1.width, p1.values) <=> Runtime!Words(b, 12, words)
         /\ Runtime!Run(b, 68, p2.width, p2.values) <=> Runtime!Longs(b, 68, longs)
         /\ Runtime!Run(b, 132, p3.width, p3.values) <=> Runtime!Words(b, 132, seven)
         /\ Runtime!Run(b, 160, p4.width, p4.values) <=> Runtime!Shorts(b, 160, two)
         /\ Runtime!Run(b, 164, p5.width, p5.values) <=> Runtime!Words(b, 164, aligns)
         /\ Runtime!Run(b, 184, p6.width, p6.values) <=> (184 \in DOMAIN b.at /\ b.at[184] = 0)
    BY ONLY <1>8, <1>17 DEF Runtime!Words, Runtime!Longs, Runtime!Shorts
  <1>20. HeldSix(b, "AILTMM1", 1, minor, p1, p2, p3, p4, p5, p6, 14, 8, 7, 2, 5, 1, 68, 132, 160, 164, 184, 192)
           <=> /\ LinearShape(b) /\ Runtime!Shorts(b, 8, <<1, minor>>)
               /\ Runtime!Words(b, 12, words) /\ Runtime!Longs(b, 68, longs)
               /\ Runtime!Words(b, 132, seven) /\ Runtime!Shorts(b, 160, two)
               /\ Runtime!Words(b, 164, aligns) /\ b.at[184] = 0
    BY ONLY ZenonT(60), <1>16, <1>18, <1>19 DEF HeldSix, LinearShape
  <1> QED BY ONLY <1>13, <1>20 DEF LinearWritten, words, longs, seven, two, aligns, minor

(* The words, field by field.                                              *)
LEMMA LinearWordsAre ==
  ASSUME NEW b, b.at \in [Product -> Nat], NEW arch, NEW version, NEW dtype, NEW mode
  PROVE Runtime!Words(b, 12, <<192, arch, version, dtype, mode, 1, 1, 1, 1, 0, 0, 0, 0, 0>>)
          <=> /\ b.at[12] = 192 /\ b.at[16] = arch /\ b.at[20] = version /\ b.at[24] = dtype /\ b.at[28] = mode
              /\ \A i \in 1..4 : b.at[28 + (4 * i)] = 1
              /\ \A i \in 1..5 : b.at[44 + (4 * i)] = 0
  <1> DEFINE v == <<192, arch, version, dtype, mode, 1, 1, 1, 1, 0, 0, 0, 0, 0>>
             same(i) == b.at[12 + (4 * (i - 1))] = v[i]
  <1>1. /\ v[1] = 192 /\ v[2] = arch /\ v[3] = version /\ v[4] = dtype /\ v[5] = mode
        /\ v[6] = 1 /\ v[7] = 1 /\ v[8] = 1 /\ v[9] = 1
        /\ v[10] = 0 /\ v[11] = 0 /\ v[12] = 0 /\ v[13] = 0 /\ v[14] = 0
    BY Zenon
  <1>2. DOMAIN v = 1..14
    OBVIOUS
  <1> HIDE DEF v
  <1>3. \A i \in 1..4 : v[i + 5] = 1
    <2>1. ASSUME NEW i \in 1..4 PROVE i + 5 = 6 \/ i + 5 = 7 \/ i + 5 = 8 \/ i + 5 = 9
      BY SMT
    <2> QED BY ONLY <1>1, <2>1
  <1>4. \A i \in 1..5 : v[i + 9] = 0
    <2>1. ASSUME NEW i \in 1..5 PROVE i + 9 = 10 \/ i + 9 = 11 \/ i + 9 = 12 \/ i + 9 = 13 \/ i + 9 = 14
      BY SMT
    <2> QED BY ONLY <1>1, <2>1
  <1>5. Runtime!Words(b, 12, v) <=> \A i \in 1..14 : same(i)
    <2>1. \A i \in 1..14 : 12 + (4 * (i - 1)) \in DOMAIN b.at
      BY ProductLays
    <2> QED BY ONLY <1>2, <2>1, Zenon DEF Runtime!Words, Runtime!Run
  <1>6. /\ 12 + (4 * (1 - 1)) = 12 /\ 12 + (4 * (2 - 1)) = 16 /\ 12 + (4 * (3 - 1)) = 20
        /\ 12 + (4 * (4 - 1)) = 24 /\ 12 + (4 * (5 - 1)) = 28
        /\ \A i \in 1..4 : 12 + (4 * ((i + 5) - 1)) = 28 + (4 * i)
        /\ \A i \in 1..5 : 12 + (4 * ((i + 9) - 1)) = 44 + (4 * i)
    BY SMT
  <1>7. /\ same(1) <=> b.at[12] = 192
        /\ same(2) <=> b.at[16] = arch
        /\ same(3) <=> b.at[20] = version
        /\ same(4) <=> b.at[24] = dtype
        /\ same(5) <=> b.at[28] = mode
    BY ONLY <1>1, <1>6
  <1>8. /\ \A i \in 1..4 : same(i + 5) <=> b.at[28 + (4 * i)] = 1
        /\ \A i \in 1..5 : same(i + 9) <=> b.at[44 + (4 * i)] = 0
    BY ONLY <1>3, <1>4, <1>6
  <1> HIDE DEF same
  <1>9. (\A i \in 1..14 : same(i))
          <=> /\ same(1) /\ same(2) /\ same(3) /\ same(4) /\ same(5)
              /\ \A i \in 1..4 : same(i + 5)
              /\ \A i \in 1..5 : same(i + 9)
    <2>1. \A i \in 1..14 : \/ i = 1 \/ i = 2 \/ i = 3 \/ i = 4 \/ i = 5
                           \/ \E j \in 1..4 : i = j + 5
                           \/ \E j \in 1..5 : i = j + 9
      <3>1. ASSUME NEW i \in 1..14, i \notin 1..5, i \notin 6..9 PROVE \E j \in 1..5 : i = j + 9
        <4>1. i - 9 \in 1..5 /\ i = (i - 9) + 9
          BY SMT, <3>1
        <4> QED BY <4>1
      <3>2. ASSUME NEW i \in 6..9 PROVE \E j \in 1..4 : i = j + 5
        <4>1. i - 5 \in 1..4 /\ i = (i - 5) + 5
          BY SMT, <3>2
        <4> QED BY <4>1
      <3>3. \A i \in 1..5 : i = 1 \/ i = 2 \/ i = 3 \/ i = 4 \/ i = 5
        BY SMT
      <3> QED BY ONLY <3>1, <3>2, <3>3
    <2>2. /\ 1 \in 1..14 /\ 2 \in 1..14 /\ 3 \in 1..14 /\ 4 \in 1..14 /\ 5 \in 1..14
          /\ (\A i \in 1..4 : i + 5 \in 1..14) /\ (\A i \in 1..5 : i + 9 \in 1..14)
      BY SMT
    <2> QED BY ONLY <2>1, <2>2, Zenon
  <1> QED BY ONLY <1>5, <1>7, <1>8, <1>9, ZenonT(120) DEF v

(* The shape, field by field.                                              *)
LEMMA LinearLongsAre ==
  ASSUME NEW b, b.at \in [Product -> Nat], NEW m, NEW n, NEW k, NEW workspace
  PROVE Runtime!Longs(b, 68, <<m, n, k, k, k, n, n, workspace>>)
          <=> /\ b.at[68] = m /\ b.at[76] = n /\ b.at[84] = k /\ b.at[124] = workspace
              /\ b.at[92] = k /\ b.at[100] = k /\ b.at[108] = n /\ b.at[116] = n
  <1> DEFINE v == <<m, n, k, k, k, n, n, workspace>>
             same(i) == b.at[68 + (8 * (i - 1))] = v[i]
  <1>1. v[1] = m /\ v[2] = n /\ v[3] = k /\ v[4] = k /\ v[5] = k /\ v[6] = n /\ v[7] = n /\ v[8] = workspace
    BY Zenon
  <1>2. DOMAIN v = 1..8
    OBVIOUS
  <1> HIDE DEF v
  <1>3. Runtime!Longs(b, 68, v) <=> \A i \in 1..8 : same(i)
    <2>1. \A i \in 1..8 : 68 + (8 * (i - 1)) \in DOMAIN b.at
      BY ProductLays
    <2> QED BY ONLY <1>2, <2>1, Zenon DEF Runtime!Longs, Runtime!Run
  <1>4. /\ 68 + (8 * (1 - 1)) = 68 /\ 68 + (8 * (2 - 1)) = 76 /\ 68 + (8 * (3 - 1)) = 84
        /\ 68 + (8 * (4 - 1)) = 92 /\ 68 + (8 * (5 - 1)) = 100 /\ 68 + (8 * (6 - 1)) = 108
        /\ 68 + (8 * (7 - 1)) = 116 /\ 68 + (8 * (8 - 1)) = 124
    BY SMT
  <1>5. /\ same(1) <=> b.at[68] = m
        /\ same(2) <=> b.at[76] = n
        /\ same(3) <=> b.at[84] = k
        /\ same(4) <=> b.at[92] = k
        /\ same(5) <=> b.at[100] = k
        /\ same(6) <=> b.at[108] = n
        /\ same(7) <=> b.at[116] = n
        /\ same(8) <=> b.at[124] = workspace
    BY ONLY <1>1, <1>4
  <1> HIDE DEF same
  <1>6. 1..8 = {1, 2, 3, 4, 5, 6, 7, 8}
    OBVIOUS
  <1>7. (\A i \in 1..8 : same(i))
          <=> /\ same(1) /\ same(2) /\ same(3) /\ same(4) /\ same(5) /\ same(6) /\ same(7) /\ same(8)
    BY ONLY <1>6, Zenon
  <1> QED BY ONLY <1>3, <1>5, <1>7 DEF v

(* The algorithm, field by field.                                          *)
LEMMA LinearAlgorithmIs ==
  ASSUME NEW b, b.at \in [Product -> Nat], NEW a \in [1..9 -> Nat]
  PROVE Runtime!Words(b, 132, SubSeq(a, 1, 7)) /\ Runtime!Shorts(b, 160, SubSeq(a, 8, 9))
          <=> \A i \in 1..9 : b.at[IF i < 8 THEN 128 + (4 * i) ELSE 144 + (2 * i)] = a[i]
  <1> DEFINE seven == SubSeq(a, 1, 7)
             two == SubSeq(a, 8, 9)
  <1>1. /\ DOMAIN seven = 1..7 /\ DOMAIN two = 1..2
        /\ \A i \in 1..7 : seven[i] = a[i]
        /\ \A i \in 1..2 : two[i] = a[i + 7]
    BY AlgorithmPieces
  <1> HIDE DEF seven, two
  <1>2. Runtime!Words(b, 132, seven) <=> \A i \in 1..7 : b.at[132 + (4 * (i - 1))] = seven[i]
    <2>1. \A i \in 1..7 : 132 + (4 * (i - 1)) \in DOMAIN b.at
      BY ProductLays
    <2> QED BY ONLY <1>1, <2>1, ZenonT(60) DEF Runtime!Words, Runtime!Run
  <1>3. Runtime!Shorts(b, 160, two) <=> \A i \in 1..2 : b.at[160 + (2 * (i - 1))] = two[i]
    <2>1. \A i \in 1..2 : 160 + (2 * (i - 1)) \in DOMAIN b.at
      BY ProductLays
    <2> QED BY ONLY <1>1, <2>1, ZenonT(60) DEF Runtime!Shorts, Runtime!Run
  <1>4. \A i \in 1..7 : /\ i \in 1..9 /\ (IF i < 8 THEN 128 + (4 * i) ELSE 144 + (2 * i)) = 132 + (4 * (i - 1))
    BY SMT
  <1>5. \A i \in 1..2 : /\ i + 7 \in 1..9
                        /\ (IF i + 7 < 8 THEN 128 + (4 * (i + 7)) ELSE 144 + (2 * (i + 7))) = 160 + (2 * (i - 1))
    BY SMT
  <1>6. \A i \in 1..9 : i \in 1..7 \/ \E j \in 1..2 : i = j + 7
    <2>1. ASSUME NEW i \in 1..9, i \notin 1..7 PROVE \E j \in 1..2 : i = j + 7
      <3>1. i - 7 \in 1..2 /\ i = (i - 7) + 7
        BY SMT, <2>1
      <3> QED BY <3>1
    <2> QED BY <2>1
  <1> DEFINE same(i) == b.at[IF i < 8 THEN 128 + (4 * i) ELSE 144 + (2 * i)] = a[i]
  <1>7. /\ \A i \in 1..7 : b.at[132 + (4 * (i - 1))] = seven[i] <=> same(i)
        /\ \A i \in 1..2 : b.at[160 + (2 * (i - 1))] = two[i] <=> same(i + 7)
    BY ONLY <1>1, <1>4, <1>5
  <1> HIDE DEF same
  <1>8. (\A i \in 1..7 : same(i)) /\ (\A i \in 1..2 : same(i + 7)) <=> \A i \in 1..9 : same(i)
    <2>1. (\A i \in 1..7 : i \in 1..9) /\ (\A i \in 1..2 : i + 7 \in 1..9)
      BY ONLY <1>4, <1>5
    <2> QED BY ONLY <1>6, <2>1, Zenon
  <1>9. Runtime!Words(b, 132, seven) <=> \A i \in 1..7 : same(i)
    BY ONLY <1>2, <1>7, Zenon
  <1>10. Runtime!Shorts(b, 160, two) <=> \A i \in 1..2 : same(i + 7)
    BY ONLY <1>3, <1>7, Zenon
  <1>11. Runtime!Words(b, 132, seven) /\ Runtime!Shorts(b, 160, two) <=> \A i \in 1..9 : same(i)
    BY ONLY <1>8, <1>9, <1>10
  <1> QED BY ONLY <1>11 DEF same, seven, two

(* The alignments, field by field.                                         *)
LEMMA LinearAlignsAre ==
  ASSUME NEW b, b.at \in [Product -> Nat], NEW c \in [1..5 -> Nat]
  PROVE Runtime!Words(b, 164, c) <=> \A i \in 1..5 : b.at[160 + (4 * i)] = c[i]
  <1>1. Runtime!Words(b, 164, c) <=> \A i \in 1..5 : b.at[164 + (4 * (i - 1))] = c[i]
    <2>1. \A i \in 1..5 : 164 + (4 * (i - 1)) \in DOMAIN b.at
      BY ProductLays
    <2>2. DOMAIN c = 1..5
      OBVIOUS
    <2> QED BY ONLY <2>1, <2>2, ZenonT(60) DEF Runtime!Words, Runtime!Run
  <1>2. \A i \in 1..5 : 164 + (4 * (i - 1)) = 160 + (4 * i)
    BY SMT
  <1> QED BY ONLY <1>1, <1>2

(* Encoding a product yields a payload just when decoding that payload     *)
(* yields the product and the fixed fields are right.                      *)
LEMMA LinearIs ==
  ASSUME NEW p \in LinearProblems, NEW b
  PROVE LinearBytes(p) = b
          <=> /\ LinearShape(b) /\ LinearFixed(b, 0) /\ b.at[10] = LinearMinor(b.at[28])
              /\ LinearRead(b, 0) = p
  <1>1. LinearBytes(p) = b <=> LinearWritten(b, p)
    BY LinearWrites
  <1>2. ASSUME LinearShape(b)
        PROVE LinearWritten(b, p)
                <=> LinearFixed(b, 0) /\ b.at[10] = LinearMinor(b.at[28]) /\ LinearRead(b, 0) = p
    <2> DEFINE arch == p.arch
               version == p.version
               dtype == p.dtype
               mode == p.mode
               m == p.m
               n == p.n
               k == p.k
               workspace == p.workspace
               a == p.algorithm
               c == p.aligns
               at == b.at
               ones == /\ \A i \in 1..4 : b.at[28 + (4 * i)] = 1
                       /\ \A i \in 1..5 : b.at[44 + (4 * i)] = 0
               steps == \A i \in 1..9 : b.at[IF i < 8 THEN 128 + (4 * i) ELSE 144 + (2 * i)] = a[i]
               units == \A i \in 1..5 : b.at[160 + (4 * i)] = c[i]
    <2>0. b.at \in [Product -> Nat]
      BY <1>2 DEF LinearShape
    <2>1. /\ p = [form |-> "AILTMM1", arch |-> arch, version |-> version, dtype |-> dtype, mode |-> mode,
                  m |-> m, n |-> n, k |-> k, workspace |-> workspace, algorithm |-> a, aligns |-> c]
          /\ a \in [1..9 -> Nat] /\ c \in [1..5 -> Nat]
      BY DEF LinearProblems
    <2>2. Runtime!Shorts(b, 8, <<1, LinearMinor(mode)>>) <=> b.at[8] = 1 /\ b.at[10] = LinearMinor(mode)
      <3>1. 8 \in DOMAIN b.at /\ 10 \in DOMAIN b.at
        BY <2>0, ProductLays
      <3> DEFINE minor == LinearMinor(mode)
      <3> HIDE DEF minor
      <3>2. Runtime!Shorts(b, 8, <<1, minor>>) <=> b.at[8] = 1 /\ b.at[10] = minor
        BY ONLY SMT, <3>1 DEF Runtime!Shorts, Runtime!Run
      <3> QED BY ONLY <3>2 DEF minor
    <2>3. Runtime!Words(b, 12, <<192, arch, version, dtype, mode, 1, 1, 1, 1, 0, 0, 0, 0, 0>>)
            <=> /\ b.at[12] = 192 /\ b.at[16] = arch /\ b.at[20] = version /\ b.at[24] = dtype
                /\ b.at[28] = mode /\ ones
      <3> HIDE DEF arch, version, dtype, mode
      <3> QED BY ONLY <2>0, LinearWordsAre
    <2>4. Runtime!Longs(b, 68, <<m, n, k, k, k, n, n, workspace>>)
            <=> /\ b.at[68] = m /\ b.at[76] = n /\ b.at[84] = k /\ b.at[124] = workspace
                /\ b.at[92] = k /\ b.at[100] = k /\ b.at[108] = n /\ b.at[116] = n
      <3> HIDE DEF m, n, k, workspace
      <3> QED BY ONLY <2>0, LinearLongsAre, ZenonT(60)
    <2>5. Runtime!Words(b, 132, SubSeq(a, 1, 7)) /\ Runtime!Shorts(b, 160, SubSeq(a, 8, 9)) <=> steps
      <3> HIDE DEF a
      <3> QED BY ONLY <2>0, <2>1, LinearAlgorithmIs, ZenonT(60)
    <2>6. Runtime!Words(b, 164, c) <=> units
      <3> HIDE DEF c
      <3> QED BY ONLY <2>0, <2>1, LinearAlignsAre
    <2>7. LinearWritten(b, p)
            <=> /\ b.at[8] = 1 /\ b.at[10] = LinearMinor(mode) /\ b.at[12] = 192
                /\ b.at[16] = arch /\ b.at[20] = version /\ b.at[24] = dtype /\ b.at[28] = mode /\ ones
                /\ b.at[68] = m /\ b.at[76] = n /\ b.at[84] = k /\ b.at[124] = workspace
                /\ b.at[92] = k /\ b.at[100] = k /\ b.at[108] = n /\ b.at[116] = n
                /\ steps /\ units /\ b.at[184] = 0
      <3> DEFINE shorts == Runtime!Shorts(b, 8, <<1, LinearMinor(mode)>>)
                 words == Runtime!Words(b, 12, <<192, arch, version, dtype, mode, 1, 1, 1, 1, 0, 0, 0, 0, 0>>)
                 longs == Runtime!Longs(b, 68, <<m, n, k, k, k, n, n, workspace>>)
                 seven == Runtime!Words(b, 132, SubSeq(a, 1, 7))
                 two == Runtime!Shorts(b, 160, SubSeq(a, 8, 9))
                 five == Runtime!Words(b, 164, c)
      <3>1. LinearWritten(b, p) <=> shorts /\ words /\ longs /\ seven /\ two /\ five /\ b.at[184] = 0
        BY ONLY <1>2, Zenon DEF LinearWritten
      <3> HIDE DEF shorts, words, longs, seven, two, five
      <3>2. shorts <=> b.at[8] = 1 /\ b.at[10] = LinearMinor(mode)
        BY <2>2 DEF shorts
      <3>3. words <=> /\ b.at[12] = 192 /\ b.at[16] = arch /\ b.at[20] = version /\ b.at[24] = dtype
                      /\ b.at[28] = mode /\ ones
        BY <2>3 DEF words
      <3>4. longs <=> /\ b.at[68] = m /\ b.at[76] = n /\ b.at[84] = k /\ b.at[124] = workspace
                      /\ b.at[92] = k /\ b.at[100] = k /\ b.at[108] = n /\ b.at[116] = n
        BY <2>4 DEF longs
      <3>5. (seven /\ two <=> steps) /\ (five <=> units)
        BY <2>5, <2>6 DEF seven, two, five
      <3> HIDE DEF ones, steps, units
      <3> QED BY ONLY <3>1, <3>2, <3>3, <3>4, <3>5
    <2>8. \A o \in Nat : 0 + o = o
      OBVIOUS
    <2>9. /\ \A i \in 1..4 : 0 + 28 + (4 * i) = 28 + (4 * i)
          /\ \A i \in 1..5 : 0 + 44 + (4 * i) = 44 + (4 * i)
          /\ \A i \in 1..9 : 0 + (IF i < 8 THEN 128 + (4 * i) ELSE 144 + (2 * i))
                               = IF i < 8 THEN 128 + (4 * i) ELSE 144 + (2 * i)
          /\ \A i \in 1..5 : 0 + 160 + (4 * i) = 160 + (4 * i)
      BY SMT
    <2>10. LinearFixed(b, 0)
             <=> /\ b.at[8] = 1 /\ b.at[10] <= 1 /\ b.at[12] = 192 /\ (b.at[28] = 2 => b.at[10] = 1)
                 /\ ones
                 /\ b.at[92] = b.at[84] /\ b.at[100] = b.at[84]
                 /\ b.at[108] = b.at[76] /\ b.at[116] = b.at[76] /\ b.at[184] = 0
      <3>1. /\ 0 + 8 = 8 /\ 0 + 10 = 10 /\ 0 + 12 = 12 /\ 0 + 28 = 28 /\ 0 + 92 = 92 /\ 0 + 84 = 84
            /\ 0 + 100 = 100 /\ 0 + 108 = 108 /\ 0 + 76 = 76 /\ 0 + 116 = 116 /\ 0 + 184 = 184
        BY SMT
      <3>2. /\ (\A i \in 1..4 : b.at[0 + 28 + (4 * i)] = 1) <=> \A i \in 1..4 : b.at[28 + (4 * i)] = 1
            /\ (\A i \in 1..5 : b.at[0 + 44 + (4 * i)] = 0) <=> \A i \in 1..5 : b.at[44 + (4 * i)] = 0
        BY ONLY <2>9
      <3> QED BY ONLY <3>1, <3>2 DEF LinearFixed
    <2>11. LinearRead(b, 0) =
             [form |-> "AILTMM1", arch |-> b.at[16], version |-> b.at[20], dtype |-> b.at[24],
              mode |-> b.at[28], m |-> b.at[68], n |-> b.at[76], k |-> b.at[84], workspace |-> b.at[124],
              algorithm |-> [i \in 1..9 |-> b.at[IF i < 8 THEN 128 + (4 * i) ELSE 144 + (2 * i)]],
              aligns |-> [i \in 1..5 |-> b.at[160 + (4 * i)]]]
      <3>1. /\ 0 + 16 = 16 /\ 0 + 20 = 20 /\ 0 + 24 = 24 /\ 0 + 28 = 28 /\ 0 + 68 = 68 /\ 0 + 76 = 76
            /\ 0 + 84 = 84 /\ 0 + 124 = 124
        BY SMT
      <3>2. /\ [i \in 1..9 |-> b.at[0 + (IF i < 8 THEN 128 + (4 * i) ELSE 144 + (2 * i))]]
                 = [i \in 1..9 |-> b.at[IF i < 8 THEN 128 + (4 * i) ELSE 144 + (2 * i)]]
            /\ [i \in 1..5 |-> b.at[0 + 160 + (4 * i)]] = [i \in 1..5 |-> b.at[160 + (4 * i)]]
        BY ONLY <2>9
      <3> QED BY ONLY <3>1, <3>2 DEF LinearRead
    <2>12. /\ steps <=> [i \in 1..9 |-> b.at[IF i < 8 THEN 128 + (4 * i) ELSE 144 + (2 * i)]] = a
           /\ units <=> [i \in 1..5 |-> b.at[160 + (4 * i)]] = c
      <3> HIDE DEF a, c
      <3>1. steps <=> [i \in 1..9 |-> b.at[IF i < 8 THEN 128 + (4 * i) ELSE 144 + (2 * i)]] = a
        BY ONLY <2>1
      <3>2. units <=> [i \in 1..5 |-> b.at[160 + (4 * i)]] = c
        BY ONLY <2>1
      <3> QED BY ONLY <3>1, <3>2
    <2> DEFINE algorithm == [i \in 1..9 |-> b.at[IF i < 8 THEN 128 + (4 * i) ELSE 144 + (2 * i)]]
               aligns == [i \in 1..5 |-> b.at[160 + (4 * i)]]
    <2> HIDE DEF arch, version, dtype, mode, m, n, k, workspace, a, c, algorithm, aligns, steps, units, ones
    <2>13. LinearRead(b, 0) = p
             <=> /\ b.at[16] = arch /\ b.at[20] = version /\ b.at[24] = dtype /\ b.at[28] = mode
                 /\ b.at[68] = m /\ b.at[76] = n /\ b.at[84] = k /\ b.at[124] = workspace
                 /\ algorithm = a /\ aligns = c
      <3>1. LinearRead(b, 0) =
              [form |-> "AILTMM1", arch |-> b.at[16], version |-> b.at[20], dtype |-> b.at[24],
               mode |-> b.at[28], m |-> b.at[68], n |-> b.at[76], k |-> b.at[84], workspace |-> b.at[124],
               algorithm |-> algorithm, aligns |-> aligns]
        BY ONLY <2>11 DEF algorithm, aligns
      <3> QED BY ONLY <2>1, <3>1
    <2>14. (steps <=> algorithm = a) /\ (units <=> aligns = c)
      BY ONLY <2>12 DEF algorithm, aligns
    <2>15. \A x : LinearMinor(x) <= 1 /\ (x = 2 => LinearMinor(x) = 1)
      BY DEF LinearMinor
    <2> QED BY ONLY <2>7, <2>10, <2>13, <2>14, <2>15
  <1>3. LinearWritten(b, p) => LinearShape(b)
    BY DEF LinearWritten
  <1> QED BY ONLY <1>1, <1>2, <1>3

(* A payload of a matrix product is read back as it was written.           *)
LEMMA LinearBack ==
  ASSUME NEW p \in LinearProblems
  PROVE LaidWhole(Bytes(p)) /\ Read(Bytes(p)) = p
  <1> DEFINE b == Bytes(p)
  <1>1. p.form = "AILTMM1"
    BY DEF LinearProblems
  <1>2. b = LinearBytes(p)
    BY <1>1 DEF Bytes, GeluMulForms, CompactGateForms, RoundedForms
  <1> HIDE DEF b
  <1>3. LinearShape(b) /\ LinearRead(b, 0) = p
    BY <1>2, LinearIs
  <1>4. b.magic = "AILTMM1" /\ b.size = 192
    BY <1>3 DEF LinearShape
  <1>5. LaidWhole(b)
    BY <1>3, <1>4, ProductLays DEF LinearShape, LaidWhole, Magics
  <1>6. Read(b) = LinearRead(b, 0)
    BY <1>4 DEF Read, GeluMulForms, CompactGateForms, RoundedForms
  <1> QED BY <1>3, <1>5, <1>6 DEF b

(* from_bytes and the runtime's parser accept the same payloads of a       *)
(* matrix product.                                                         *)
LEMMA LinearAgree ==
  ASSUME NEW b, LaidWhole(b), b.magic = "AILTMM1"
  PROVE Decodes(b) <=> Runtime!Parses(b)
  <1>1. ProductAt(b, 0) /\ b.size = 192
    <2>1. b.at \in [Product -> Nat] /\ b.size = 192
      BY ProductLays DEF LaidWhole
    <2>2. \A o \in Product : 0 + o = o
      BY DEF Product, Starts
    <2> QED BY <2>1, <2>2 DEF ProductAt
  <1> DEFINE p == LinearRead(b, 0)
  <1>2. Read(b) = p
    BY DEF Read, GeluMulForms, CompactGateForms, RoundedForms
  <1>3. p.form = "AILTMM1"
    BY DEF LinearRead
  <1> HIDE DEF p
  <1>4. Valid(p) <=> LinearValid(p)
    BY <1>3 DEF Valid, ProblemValid, GeluMulForms, CompactGateForms, RoundedForms
  <1>5. Decodes(b) <=> Valid(p) /\ LinearFixed(b, 0)
    BY <1>2 DEF Decodes
  <1>6. Runtime!Parses(b) <=> Runtime!CublasLtParses(b, 0)
    <2>1. Runtime!Parses(b) <=> Runtime!CublasLtLinearParses(b)
      BY DEF Runtime!Parses
    <2> QED BY <1>1, <2>1 DEF Runtime!CublasLtLinearParses
  <1>7. Runtime!CublasLtParses(b, 0) <=> LinearFixed(b, 0) /\ LinearValid(p)
    <2>1. 0 \in Nat
      OBVIOUS
    <2> QED BY ONLY <1>1, <2>1, ProductParsed DEF p
  <1> QED BY ONLY <1>4, <1>5, <1>6, <1>7

(* The patch projection: a header, and the product it ends in.             *)
Header(b) == [magic |-> "AIPPA1", size |-> 192, at |-> [o \in Framed(24, 6) |-> b.at[o]]]

(* The product on its own.                                                 *)
Nested(b) == [magic |-> "AILTMM1", size |-> 192, at |-> [o \in Product |-> b.at[192 + o]]]

(* The fields of header and product.                                       *)
PatchFields == Framed(24, 6) \cup {192 + o : o \in Product}

(* The layout of both.                                                     *)
PatchShape(b) == b = [magic |-> "AIPPA1", size |-> 384, at |-> b.at] /\ b.at \in [PatchFields -> Nat]

(* The fields of the header.                                               *)
PatchHeaded(b, bytes, sha) ==
  /\ Runtime!Shorts(b, 8, <<1, 0>>)
  /\ Runtime!Words(b, 12, <<120, 1, 1, 256, 1, 1, 256, 1, 1, 4, 4, 4, 4, 256, 1, 3, 224, 224, 14, 14,
                            1152, 16, 16, 0>>)
  /\ Runtime!Longs(b, 108, <<602112, 2709504, 4608, 1179648, 602112>>)
  /\ b.at[148] = bytes /\ b.at[156] = sha /\ b.at[188] = 0

(* Where the fields of the patch projection start.                         *)
LEMMA PatchLays ==
  /\ Layout("AIPPA1") = PatchFields /\ Extent("AIPPA1") = 384
  /\ {148, 156, 188} \subseteq Framed(24, 6)
  /\ \A o \in Framed(24, 6) : o \in Nat /\ o < 192
  /\ \A o \in Product : o \in Nat
  <1>1. Layout("AIPPA1") = PatchFields /\ Extent("AIPPA1") = 384
    BY DEF Layout, Extent, GeluMulForms, CompactGateForms, PatchFields
  <1>2. 156 \in Framed(24, 6) /\ 188 \in Framed(24, 6)
    BY SMT DEF Framed
  <1>3. 148 \in Framed(24, 6)
    BY SMT DEF Framed, Starts
  <1>4. \A o \in Framed(24, 6) : o \in Nat /\ o < 192
    BY SMT DEF Framed, Starts
  <1>5. \A o \in Product : o \in Nat
    BY DEF Product, Starts
  <1> QED BY <1>1, <1>2, <1>3, <1>4, <1>5

(* The encoding is the two encodings behind one another.                   *)
PatchOf(linear, header, nested, d) ==
  /\ linear \in LinearProblems /\ nested = LinearBytes(linear)
  /\ header = [magic |-> "AIPPA1", size |-> 192, at |-> header.at] /\ header.at \in [Framed(24, 6) -> Nat]
  /\ d = [magic |-> header.magic, size |-> header.size + nested.size,
          at |-> [o \in DOMAIN header.at \cup {192 + i : i \in DOMAIN nested.at} |->
                    IF o < 192 THEN header.at[o] ELSE nested.at[o - 192]]]

(* Joining header and product is undone by taking them apart.              *)
LEMMA PatchJoined ==
  ASSUME NEW linear, NEW b, NEW header, NEW nested, NEW d, PatchOf(linear, header, nested, d)
  PROVE d = b <=> PatchShape(b) /\ header = Header(b) /\ nested = Nested(b)
  <1>1. /\ nested = [magic |-> "AILTMM1", size |-> 192, at |-> nested.at] /\ nested.at \in [Product -> Nat]
    <2>1. linear \in LinearProblems /\ nested = LinearBytes(linear)
      BY DEF PatchOf
    <2>2. LinearShape(nested)
      BY ONLY <2>1, LinearIs
    <2> QED BY <2>2 DEF LinearShape
  <1>0. /\ header = [magic |-> "AIPPA1", size |-> 192, at |-> header.at] /\ header.at \in [Framed(24, 6) -> Nat]
        /\ d = [magic |-> header.magic, size |-> header.size + nested.size,
                at |-> [o \in DOMAIN header.at \cup {192 + i : i \in DOMAIN nested.at} |->
                          IF o < 192 THEN header.at[o] ELSE nested.at[o - 192]]]
    BY DEF PatchOf
  <1>2. header.magic = "AIPPA1" /\ header.size = 192 /\ nested.size = 192 /\ 192 + 192 = 384
    BY <1>0, <1>1
  <1> DEFINE at == [o \in PatchFields |-> IF o < 192 THEN header.at[o] ELSE nested.at[o - 192]]
  <1>3. d = [magic |-> "AIPPA1", size |-> 384, at |-> at]
    <2>1. DOMAIN header.at \cup {192 + i : i \in DOMAIN nested.at} = PatchFields
      BY <1>0, <1>1 DEF PatchFields
    <2> QED BY <1>0, <1>2, <2>1
  <1>4. \A o \in Framed(24, 6) : o \in PatchFields /\ at[o] = header.at[o]
    BY PatchLays DEF PatchFields
  <1>5. \A o \in Product : 192 + o \in PatchFields /\ at[192 + o] = nested.at[o]
    <2>1. ASSUME NEW o \in Product PROVE 192 + o \in PatchFields /\ at[192 + o] = nested.at[o]
      <3>1. o \in Nat
        BY PatchLays
      <3>2. ~(192 + o < 192) /\ (192 + o) - 192 = o
        BY <3>1
      <3>3. 192 + o \in PatchFields
        BY DEF PatchFields
      <3> QED BY ONLY <3>2, <3>3
    <2> QED BY <2>1
  <1>6. at \in [PatchFields -> Nat]
    <2>1. ASSUME NEW o \in PatchFields PROVE at[o] \in Nat
      <3>1. o \in Framed(24, 6) \/ \E i \in Product : o = 192 + i
        BY DEF PatchFields
      <3> HIDE DEF at
      <3> QED BY ONLY <1>0, <1>1, <1>4, <1>5, <3>1
    <2> QED BY <2>1
  <1>7. DOMAIN at = PatchFields
    OBVIOUS
  <1> HIDE DEF at
  <1>8. ASSUME d = b PROVE PatchShape(b) /\ header = Header(b) /\ nested = Nested(b)
    <2>1. b.at = at /\ b = [magic |-> "AIPPA1", size |-> 384, at |-> b.at]
      BY <1>3, <1>8
    <2>2. header.at = [o \in Framed(24, 6) |-> b.at[o]]
      BY <1>0, <1>4, <2>1
    <2>3. nested.at = [o \in Product |-> b.at[192 + o]]
      BY <1>1, <1>5, <2>1
    <2> QED BY <1>0, <1>1, <1>6, <2>1, <2>2, <2>3 DEF PatchShape, Header, Nested
  <1>9. ASSUME PatchShape(b), header = Header(b), nested = Nested(b) PROVE d = b
    <2>1. \A o \in Framed(24, 6) : header.at[o] = b.at[o]
      BY <1>9 DEF Header
    <2>2. \A o \in Product : nested.at[o] = b.at[192 + o]
      BY <1>9 DEF Nested
    <2>3. \A o \in PatchFields : at[o] = b.at[o]
      <3>1. ASSUME NEW o \in PatchFields PROVE at[o] = b.at[o]
        <4>1. o \in Framed(24, 6) \/ \E i \in Product : o = 192 + i
          BY DEF PatchFields
        <4> QED BY ONLY <1>4, <1>5, <2>1, <2>2, <4>1
      <3> QED BY <3>1
    <2>4. b.at \in [PatchFields -> Nat] /\ b = [magic |-> "AIPPA1", size |-> 384, at |-> b.at]
      BY <1>9 DEF PatchShape
    <2>5. at = b.at
      BY ONLY <1>6, <2>3, <2>4
    <2> QED BY <1>3, <2>4, <2>5
  <1> QED BY <1>8, <1>9

(* What the header says of the payload.                                    *)
LEMMA PatchHead ==
  ASSUME NEW b, PatchShape(b), NEW bytes, NEW sha
  PROVE FramedAs(Header(b), "AIPPA1",
                 <<120, 1, 1, 256, 1, 1, 256, 1, 1, 4, 4, 4, 4, 256, 1, 3, 224, 224, 14, 14, 1152, 16, 16, 0>>,
                 <<602112, 2709504, 4608, 1179648, 602112, bytes>>, sha, 4, 24, 6)
          <=> PatchHeaded(b, bytes, sha)
  <1> DEFINE h == Header(b)
             words == <<120, 1, 1, 256, 1, 1, 256, 1, 1, 4, 4, 4, 4, 256, 1, 3, 224, 224, 14, 14, 1152, 16, 16, 0>>
             longs == <<602112, 2709504, 4608, 1179648, 602112, bytes>>
             F == Framed(24, 6)
  <1>1. h = [magic |-> "AIPPA1", size |-> 192, at |-> h.at] /\ h.at = [o \in F |-> b.at[o]]
    BY DEF Header
  <1>2. b.at \in [PatchFields -> Nat] /\ F \subseteq PatchFields
    BY DEF PatchShape, PatchFields
  <1>3. \A o \in F : o \in DOMAIN h.at /\ o \in DOMAIN b.at /\ h.at[o] = b.at[o]
    BY <1>1, <1>2
  <1>4. h.at \in [F -> Nat]
    BY <1>1, <1>2
  <1> HIDE DEF h
  <1>5. /\ \A i \in 1..2 : 8 + (2 * (i - 1)) \in F
        /\ \A i \in 1..24 : 12 + (4 * (i - 1)) \in F
        /\ \A i \in 1..6 : 108 + (8 * (i - 1)) \in F
    <2>1. /\ \A i \in 1..2 : 8 + (2 * (i - 1)) \in Starts(8, 2, 2)
          /\ \A i \in 1..24 : 12 + (4 * (i - 1)) \in Starts(12, 4, 24)
          /\ \A i \in 1..6 : 108 + (8 * (i - 1)) \in Starts(108, 8, 6)
      BY DEF Starts
    <2>2. Framed(24, 6) = Starts(8, 2, 2) \cup Starts(12, 4, 24) \cup Starts(108, 8, 6) \cup {156, 188}
      <3>1. 12 + (4 * 24) = 108 /\ 12 + (4 * 24) + (8 * 6) = 156 /\ 44 + (4 * 24) + (8 * 6) = 188
        BY SMT
      <3> QED BY ONLY <3>1, Zenon DEF Framed
    <2> QED BY ONLY <2>1, <2>2
  <1> HIDE DEF F
  <1>6. Runtime!Shorts(h, 8, <<1, 0>>) <=> Runtime!Shorts(b, 8, <<1, 0>>)
    <2> DEFINE v == <<1, 0>>
    <2>1. DOMAIN v = 1..2
      OBVIOUS
    <2> HIDE DEF v
    <2>2. Runtime!Shorts(h, 8, v) <=> Runtime!Shorts(b, 8, v)
      BY ONLY <1>3, <1>5, <2>1 DEF Runtime!Shorts, Runtime!Run
    <2> QED BY <2>2 DEF v
  <1>7. Runtime!Words(h, 12, words) <=> Runtime!Words(b, 12, words)
    <2>1. DOMAIN words = 1..24
      BY SMT
    <2> HIDE DEF words
    <2> QED BY ONLY <1>3, <1>5, <2>1 DEF Runtime!Words, Runtime!Run
  <1>8. Runtime!Longs(h, 108, longs) <=> Runtime!Longs(b, 108, longs)
    <2>1. DOMAIN longs = 1..6
      BY SMT
    <2> HIDE DEF longs
    <2> QED BY ONLY <1>3, <1>5, <2>1 DEF Runtime!Longs, Runtime!Run
  <1>9. Runtime!Longs(b, 108, longs)
         <=> Runtime!Longs(b, 108, <<602112, 2709504, 4608, 1179648, 602112>>) /\ b.at[148] = bytes
    <2>1. 148 \in DOMAIN b.at
      BY <1>3, PatchLays DEF F
    <2> QED BY SMT, <2>1 DEF Runtime!Longs, Runtime!Run
  <1>10. h.at[156] = b.at[156] /\ h.at[188] = b.at[188]
    BY <1>3, PatchLays DEF F
  <1>11. /\ 12 + (4 * 24) = 108 /\ 12 + (4 * 24) + (8 * 6) = 156 /\ 44 + (4 * 24) + (8 * 6) = 188
         /\ 44 + (4 * 24) + (8 * 6) + 4 = 192
    BY SMT
  <1>12. FramedAs(h, "AIPPA1", words, longs, sha, 4, 24, 6)
           <=> /\ Runtime!Shorts(h, 8, <<1, 0>>) /\ Runtime!Words(h, 12, words) /\ Runtime!Longs(h, 108, longs)
               /\ h.at[156] = sha /\ h.at[188] = 0
    <2> HIDE DEF words, longs
    <2> QED BY ONLY <1>1, <1>4, <1>11 DEF FramedAs, F
  <1> DEFINE constants == Runtime!Longs(b, 108, <<602112, 2709504, 4608, 1179648, 602112>>)
             known == Runtime!Words(b, 12, words)
  <1>13. PatchHeaded(b, bytes, sha)
           <=> /\ Runtime!Shorts(b, 8, <<1, 0>>) /\ known /\ constants
               /\ b.at[148] = bytes /\ b.at[156] = sha /\ b.at[188] = 0
    BY SMT DEF PatchHeaded
  <1>14. (Runtime!Words(h, 12, words) <=> known) /\ (Runtime!Longs(h, 108, longs) <=> constants /\ b.at[148] = bytes)
    <2> HIDE DEF longs, words, constants
    <2> QED BY ONLY <1>7, <1>8, <1>9 DEF constants
  <1>15. FramedAs(h, "AIPPA1", words, longs, sha, 4, 24, 6) <=> PatchHeaded(b, bytes, sha)
    <2> HIDE DEF words, longs, constants, known
    <2> QED BY ONLY <1>6, <1>10, <1>12, <1>13, <1>14
  <1> QED BY ONLY <1>15 DEF h, words, longs

(* to_bytes of the patch projection writes these fields and no others.     *)
LEMMA PatchWrites ==
  ASSUME NEW p \in PatchProblems, NEW b
  PROVE PatchProjectionBytes(p) = b
          <=> /\ PatchShape(b) /\ PatchHeaded(b, p.module.bytes, p.module.sha)
              /\ LinearBytes(p.linear) = Nested(b)
  <1> DEFINE bytes == p.module.bytes
             sha == p.module.sha
             words == <<120, 1, 1, 256, 1, 1, 256, 1, 1, 4, 4, 4, 4, 256, 1, 3, 224, 224, 14, 14, 1152, 16, 16, 0>>
             longs == <<602112, 2709504, 4608, 1179648, 602112, bytes>>
             parts == <<U32(words), U64(longs), Digest(sha), Reserved(4)>>
             header == Packed("AIPPA1", 1, 0, parts)
             nested == LinearBytes(p.linear)
             d == [magic |-> header.magic, size |-> header.size + nested.size,
                   at |-> [o \in DOMAIN header.at \cup {192 + i : i \in DOMAIN nested.at} |->
                             IF o < 192 THEN header.at[o] ELSE nested.at[o - 192]]]
  <1>1. words \in Seq(Nat) /\ Len(words) = 24
    BY SMT
  <1>2. longs \in Seq(Nat) /\ Len(longs) = 6 /\ sha \in Nat
    BY SMT DEF PatchProblems, Modules
  <1>3. PatchProjectionBytes(p) = d
    BY SMT DEF PatchProjectionBytes, SM120
  <1> HIDE DEF bytes, sha, words, longs
  <1>4. Framing(parts, words, longs, sha, 4, 24, 6)
    BY <1>1, <1>2 DEF Framing
  <1> HIDE DEF parts
  <1>5. \A c : header = c <=> FramedAs(c, "AIPPA1", words, longs, sha, 4, 24, 6)
    BY <1>4, FramedIs
  <1> HIDE DEF header, nested
  <1>6. header = [magic |-> "AIPPA1", size |-> 192, at |-> header.at] /\ header.at \in [Framed(24, 6) -> Nat]
    <2>1. FramedAs(header, "AIPPA1", words, longs, sha, 4, 24, 6)
      BY <1>5
    <2>2. 44 + (4 * 24) + (8 * 6) + 4 = 192
      BY SMT
    <2> QED BY ONLY <2>1, <2>2 DEF FramedAs
  <1>7. d = b <=> PatchShape(b) /\ header = Header(b) /\ nested = Nested(b)
    <2>1. p.linear \in LinearProblems /\ nested = LinearBytes(p.linear)
      BY DEF nested, PatchProblems
    <2>2. d = [magic |-> header.magic, size |-> header.size + nested.size,
               at |-> [o \in DOMAIN header.at \cup {192 + i : i \in DOMAIN nested.at} |->
                         IF o < 192 THEN header.at[o] ELSE nested.at[o - 192]]]
      BY Zenon
    <2> HIDE DEF d
    <2>3. PatchOf(p.linear, header, nested, d)
      BY ONLY <1>6, <2>1, <2>2, Zenon DEF PatchOf
    <2> QED BY ONLY <2>3, PatchJoined
  <1> HIDE DEF d
  <1>8. PatchShape(b) => (FramedAs(Header(b), "AIPPA1", words, longs, sha, 4, 24, 6) <=> PatchHeaded(b, bytes, sha))
    BY ONLY PatchHead DEF words, longs
  <1> QED BY ONLY <1>3, <1>5, <1>7, <1>8 DEF bytes, sha, nested

(* The product behind the header, read in place or on its own.             *)
LEMMA NestedIs ==
  ASSUME NEW b, PatchShape(b)
  PROVE /\ LinearShape(Nested(b)) /\ ProductAt(b, 192) /\ LinearRead(Nested(b), 0) = LinearRead(b, 192)
        /\ LinearFixed(Nested(b), 0) <=> LinearFixed(b, 192)
        /\ Nested(b).at[10] = b.at[202] /\ Nested(b).at[28] = b.at[220]
  <1> DEFINE t == Nested(b)
  <1>1. b.at \in [PatchFields -> Nat] /\ \A o \in Product : 192 + o \in PatchFields
    BY DEF PatchShape, PatchFields
  <1>2. \A o \in Product : 192 + o \in DOMAIN b.at /\ b.at[192 + o] \in Nat
    BY <1>1
  <1>3. t = [magic |-> "AILTMM1", size |-> 192, at |-> t.at] /\ t.at = [o \in Product |-> b.at[192 + o]]
    BY DEF Nested
  <1>4. LinearShape(t) /\ ProductAt(b, 192)
    BY <1>2, <1>3 DEF LinearShape, ProductAt
  <1>5. \A o \in Product : t.at[o] = b.at[192 + o]
    BY <1>3
  <1> HIDE DEF t
  <1>6. \A o \in Product : 0 + o = o
    BY PatchLays
  <1>7. \A o \in Product : t.at[0 + o] = b.at[192 + o]
    BY ONLY <1>5, <1>6
  <1>8. {8, 10, 12, 16, 20, 24, 28, 68, 76, 84, 92, 100, 108, 116, 124, 184} \subseteq Product
    BY ONLY ProductLays, SMT
  <1>9. /\ \A i \in 1..4 : 0 + 28 + (4 * i) = 0 + (28 + (4 * i)) /\ 192 + 28 + (4 * i) = 192 + (28 + (4 * i))
        /\ \A i \in 1..5 : 0 + 44 + (4 * i) = 0 + (44 + (4 * i)) /\ 192 + 44 + (4 * i) = 192 + (44 + (4 * i))
        /\ \A i \in 1..5 : 0 + 160 + (4 * i) = 0 + (160 + (4 * i)) /\ 192 + 160 + (4 * i) = 192 + (160 + (4 * i))
    BY SMT
  <1>10. /\ \A i \in 1..4 : 28 + (4 * i) \in Product
         /\ \A i \in 1..5 : 44 + (4 * i) \in Product
    <2>1. /\ \A i \in 1..4 : i + 5 \in 1..14 /\ 28 + (4 * i) = 12 + (4 * ((i + 5) - 1))
          /\ \A i \in 1..5 : i + 9 \in 1..14 /\ 44 + (4 * i) = 12 + (4 * ((i + 9) - 1))
      BY SMT
    <2>2. \A i \in 1..14 : 12 + (4 * (i - 1)) \in Product
      BY ProductLays
    <2> QED BY ONLY <2>1, <2>2
  <1>11. /\ \A i \in 1..5 : 160 + (4 * i) \in Product
         /\ \A i \in 1..9 : (IF i < 8 THEN 128 + (4 * i) ELSE 144 + (2 * i)) \in Product
    <2>1. \A i \in 1..5 : 160 + (4 * i) = 164 + (4 * (i - 1))
      BY SMT
    <2>2. \A i \in 1..9 : \/ i \in 1..7 /\ (IF i < 8 THEN 128 + (4 * i) ELSE 144 + (2 * i)) = 132 + (4 * (i - 1))
                          \/ /\ i - 7 \in 1..2
                             /\ (IF i < 8 THEN 128 + (4 * i) ELSE 144 + (2 * i)) = 160 + (2 * ((i - 7) - 1))
      BY SMT
    <2>3. /\ \A i \in 1..7 : 132 + (4 * (i - 1)) \in Product
          /\ \A i \in 1..2 : 160 + (2 * (i - 1)) \in Product
          /\ \A i \in 1..5 : 164 + (4 * (i - 1)) \in Product
      BY ProductLays
    <2> QED BY ONLY <2>1, <2>2, <2>3
  <1> DEFINE g(o) == t.at[0 + o]
             f(o) == b.at[192 + o]
  <1>12. /\ g(8) = f(8) /\ g(10) = f(10) /\ g(12) = f(12) /\ g(16) = f(16) /\ g(20) = f(20) /\ g(24) = f(24)
         /\ g(28) = f(28) /\ g(68) = f(68) /\ g(76) = f(76) /\ g(84) = f(84) /\ g(92) = f(92)
         /\ g(100) = f(100) /\ g(108) = f(108) /\ g(116) = f(116) /\ g(124) = f(124) /\ g(184) = f(184)
    BY ONLY <1>7, <1>8
  <1>13. /\ (\A i \in 1..4 : t.at[0 + 28 + (4 * i)] = 1) <=> \A i \in 1..4 : b.at[192 + 28 + (4 * i)] = 1
         /\ (\A i \in 1..5 : t.at[0 + 44 + (4 * i)] = 0) <=> \A i \in 1..5 : b.at[192 + 44 + (4 * i)] = 0
    BY ONLY <1>7, <1>9, <1>10
  <1>14. LinearFixed(t, 0) <=> LinearFixed(b, 192)
    <2> DEFINE ones == \A i \in 1..4 : t.at[0 + 28 + (4 * i)] = 1
               noughts == \A i \in 1..5 : t.at[0 + 44 + (4 * i)] = 0
    <2>1. LinearFixed(t, 0)
            <=> /\ g(8) = 1 /\ g(10) <= 1 /\ g(12) = 192 /\ (g(28) = 2 => g(10) = 1)
                /\ ones /\ noughts
                /\ g(92) = g(84) /\ g(100) = g(84) /\ g(108) = g(76) /\ g(116) = g(76) /\ g(184) = 0
      BY ONLY SMT DEF LinearFixed
    <2>2. LinearFixed(b, 192)
            <=> /\ f(8) = 1 /\ f(10) <= 1 /\ f(12) = 192 /\ (f(28) = 2 => f(10) = 1)
                /\ (\A i \in 1..4 : b.at[192 + 28 + (4 * i)] = 1)
                /\ (\A i \in 1..5 : b.at[192 + 44 + (4 * i)] = 0)
                /\ f(92) = f(84) /\ f(100) = f(84) /\ f(108) = f(76) /\ f(116) = f(76) /\ f(184) = 0
      BY ONLY SMT DEF LinearFixed
    <2>3. ones <=> \A i \in 1..4 : b.at[192 + 28 + (4 * i)] = 1
      BY <1>13
    <2>4. noughts <=> \A i \in 1..5 : b.at[192 + 44 + (4 * i)] = 0
      BY <1>13
    <2> HIDE DEF g, f, ones, noughts
    <2> QED BY ONLY <1>12, <2>1, <2>2, <2>3, <2>4
  <1>15. LinearRead(t, 0) = LinearRead(b, 192)
    <2>1. [i \in 1..9 |-> t.at[0 + (IF i < 8 THEN 128 + (4 * i) ELSE 144 + (2 * i))]]
            = [i \in 1..9 |-> b.at[192 + (IF i < 8 THEN 128 + (4 * i) ELSE 144 + (2 * i))]]
      BY ONLY <1>7, <1>11
    <2>2. [i \in 1..5 |-> t.at[0 + 160 + (4 * i)]] = [i \in 1..5 |-> b.at[192 + 160 + (4 * i)]]
      BY ONLY <1>7, <1>9, <1>11
    <2> QED BY ONLY <1>12, <2>1, <2>2 DEF LinearRead
  <1>16. 0 + 10 = 10 /\ 0 + 28 = 28 /\ 192 + 10 = 202 /\ 192 + 28 = 220
    BY SMT
  <1> QED BY ONLY <1>4, <1>12, <1>14, <1>15, <1>16 DEF t

(* What from_bytes reads of a patch projection.                            *)
LEMMA PatchRead ==
  ASSUME NEW b, b.magic = "AIPPA1"
  PROVE Read(b) = [form |-> "AIPPA1", linear |-> LinearRead(b, 192),
                   module |-> [bytes |-> b.at[148], sha |-> b.at[156]]]
  BY DEF Read, PatchProjectionRead, ModuleIn, GeluMulForms, CompactGateForms, RoundedForms

(* A payload of the patch projection is read back as it was written.       *)
LEMMA PatchBack ==
  ASSUME NEW p \in PatchProblems
  PROVE LaidWhole(Bytes(p)) /\ Read(Bytes(p)) = p
  <1> DEFINE b == Bytes(p)
  <1>1. /\ p = [form |-> "AIPPA1", linear |-> p.linear, module |-> p.module] /\ p.linear \in LinearProblems
        /\ p.form = "AIPPA1" /\ p.module = [bytes |-> p.module.bytes, sha |-> p.module.sha]
    BY DEF PatchProblems, Modules
  <1>2. b = PatchProjectionBytes(p)
    BY <1>1 DEF Bytes, GeluMulForms, CompactGateForms, RoundedForms
  <1> HIDE DEF b
  <1>3. PatchShape(b) /\ PatchHeaded(b, p.module.bytes, p.module.sha) /\ LinearBytes(p.linear) = Nested(b)
    BY <1>2, PatchWrites
  <1>4. b.magic = "AIPPA1" /\ b.size = 384
    BY <1>3 DEF PatchShape
  <1>5. LaidWhole(b)
    BY <1>3, <1>4, PatchLays DEF PatchShape, LaidWhole, Magics
  <1>6. LinearRead(b, 192) = p.linear
    <2>1. LinearRead(Nested(b), 0) = p.linear
      BY ONLY <1>1, <1>3, LinearIs
    <2> QED BY ONLY <1>3, <2>1, NestedIs
  <1>7. b.at[148] = p.module.bytes /\ b.at[156] = p.module.sha
    BY <1>3 DEF PatchHeaded
  <1>8. Read(b) = p
    BY ONLY <1>1, <1>4, <1>6, <1>7, PatchRead
  <1> QED BY <1>5, <1>8 DEF b

(* from_bytes and the runtime's parser accept the same payloads of the     *)
(* patch projection.                                                       *)
LEMMA PatchAgree ==
  ASSUME NEW b, LaidWhole(b), b.magic = "AIPPA1"
  PROVE (Decodes(b) => Runtime!Parses(b)) /\ (Runtime!Parses(b) => Decodes(b) \/ Tolerated(b))
  <1> DEFINE l == LinearRead(b, 192)
             bytes == b.at[148]
             sha == b.at[156]
             p == Read(b)
             minor == b.at[202]
             mode == b.at[220]
  <1>1. PatchShape(b) /\ b.size = 384
    BY PatchLays DEF LaidWhole, PatchShape
  <1>2. /\ b.at \in [PatchFields -> Nat] /\ Framed(24, 6) \subseteq DOMAIN b.at
        /\ {148, 156, 188} \subseteq DOMAIN b.at
    BY <1>1, PatchLays DEF PatchShape, PatchFields
  <1>3. ProductAt(b, 192)
    BY <1>1, NestedIs
  <1>4. l \in LinearProblems
    <2>1. \A o \in Product : b.at[192 + o] \in Nat
      BY <1>3 DEF ProductAt
    <2>2. {16, 20, 24, 28, 68, 76, 84, 124} \subseteq Product
      BY ONLY ProductLays, SMT
    <2>3. \A i \in 1..9 : b.at[192 + (IF i < 8 THEN 128 + (4 * i) ELSE 144 + (2 * i))] \in Nat
      <3>1. \A i \in 1..9 : \/ i \in 1..7 /\ (IF i < 8 THEN 128 + (4 * i) ELSE 144 + (2 * i)) = 132 + (4 * (i - 1))
                            \/ /\ i - 7 \in 1..2
                               /\ (IF i < 8 THEN 128 + (4 * i) ELSE 144 + (2 * i)) = 160 + (2 * ((i - 7) - 1))
        BY SMT
      <3>2. /\ \A i \in 1..7 : 132 + (4 * (i - 1)) \in Product
            /\ \A i \in 1..2 : 160 + (2 * (i - 1)) \in Product
        BY ProductLays
      <3> QED BY ONLY <2>1, <3>1, <3>2
    <2>4. \A i \in 1..5 : b.at[192 + 160 + (4 * i)] \in Nat
      <3>1. \A i \in 1..5 : 192 + 160 + (4 * i) = 192 + (164 + (4 * (i - 1)))
        BY SMT
      <3>2. \A i \in 1..5 : 164 + (4 * (i - 1)) \in Product
        BY ProductLays
      <3> QED BY ONLY <2>1, <3>1, <3>2
    <2>5. l = [form |-> "AILTMM1", arch |-> b.at[192 + 16], version |-> b.at[192 + 20], dtype |-> b.at[192 + 24],
               mode |-> b.at[192 + 28], m |-> b.at[192 + 68], n |-> b.at[192 + 76], k |-> b.at[192 + 84],
               workspace |-> b.at[192 + 124],
               algorithm |-> [i \in 1..9 |-> b.at[192 + (IF i < 8 THEN 128 + (4 * i) ELSE 144 + (2 * i))]],
               aligns |-> [i \in 1..5 |-> b.at[192 + 160 + (4 * i)]]]
      BY ONLY SMT DEF LinearRead
    <2>6. /\ [i \in 1..9 |-> b.at[192 + (IF i < 8 THEN 128 + (4 * i) ELSE 144 + (2 * i))]] \in [1..9 -> Nat]
          /\ [i \in 1..5 |-> b.at[192 + 160 + (4 * i)]] \in [1..5 -> Nat]
      BY ONLY <2>3, <2>4
    <2>7. /\ b.at[192 + 16] \in Nat /\ b.at[192 + 20] \in Nat /\ b.at[192 + 24] \in Nat /\ b.at[192 + 28] \in Nat
          /\ b.at[192 + 68] \in Nat /\ b.at[192 + 76] \in Nat /\ b.at[192 + 84] \in Nat /\ b.at[192 + 124] \in Nat
      BY ONLY <2>1, <2>2
    <2> HIDE DEF l
    <2> QED BY ONLY <2>5, <2>6, <2>7, Zenon DEF LinearProblems
  <1>5. bytes \in Nat /\ sha \in Nat
    BY <1>2
  <1>6. p = [form |-> "AIPPA1", linear |-> l, module |-> [bytes |-> bytes, sha |-> sha]]
    BY PatchRead
  <1>7. /\ p.form = "AIPPA1" /\ p.linear = l /\ p.module.bytes = bytes /\ p.module.sha = sha
        /\ p \in PatchProblems
    BY ONLY <1>4, <1>5, <1>6 DEF PatchProblems, Modules
  <1>8. Decodes(b) <=> Valid(p) /\ LinearFixed(b, 192) /\ Bytes(p) = b
    BY DEF Decodes, p
  <1> HIDE DEF p, l
  <1>9. Valid(p) <=> LinearValid(l) /\ PatchGemm(l) /\ bytes > 0 /\ sha # 0
    <2> HIDE DEF bytes, sha
    <2> QED BY <1>7 DEF Valid, ProblemValid, ModuleValid, GeluMulForms, CompactGateForms, RoundedForms
  <1>10. Bytes(p) = b <=> PatchHeaded(b, bytes, sha) /\ LinearFixed(b, 192) /\ minor = LinearMinor(mode)
    <2>1. Bytes(p) = PatchProjectionBytes(p)
      BY <1>7 DEF Bytes, GeluMulForms, CompactGateForms, RoundedForms
    <2>2. PatchProjectionBytes(p) = b
            <=> PatchShape(b) /\ PatchHeaded(b, bytes, sha) /\ LinearBytes(l) = Nested(b)
      <3> HIDE DEF bytes, sha
      <3> QED BY ONLY <1>7, PatchWrites
    <2>3. LinearBytes(l) = Nested(b)
            <=> /\ LinearShape(Nested(b)) /\ LinearFixed(Nested(b), 0)
                /\ Nested(b).at[10] = LinearMinor(Nested(b).at[28]) /\ LinearRead(Nested(b), 0) = l
      BY ONLY <1>4, LinearIs
    <2>4. /\ LinearShape(Nested(b)) /\ LinearRead(Nested(b), 0) = l
          /\ LinearFixed(Nested(b), 0) <=> LinearFixed(b, 192)
          /\ Nested(b).at[10] = minor /\ Nested(b).at[28] = mode
      BY ONLY <1>1, NestedIs DEF l
    <2> HIDE DEF minor, mode, bytes, sha
    <2> QED BY ONLY <1>1, <2>1, <2>2, <2>3, <2>4
  <1>11. Runtime!Parses(b) <=> Runtime!PatchProjectionParses(b)
    BY DEF Runtime!Parses
  <1>12. PatchHeaded(b, bytes, sha)
           <=> /\ Runtime!Sized(b, 384)
               /\ Runtime!Words(b, 12, <<120, 1, 1, 256, 1, 1, 256, 1, 1, 4, 4, 4, 4, 256, 1, 3, 224, 224, 14, 14,
                                         1152, 16, 16, 0>>)
               /\ Runtime!Longs(b, 108, <<602112, 2709504, 4608, 1179648, 602112>>)
               /\ Runtime!Field(b, 188) = 0
    BY SMT, <1>1, <1>2 DEF PatchHeaded, Runtime!Sized, Runtime!Field
  <1>13. Runtime!HasModule(b, 148, 156) <=> bytes # 0 /\ sha # 0
    BY <1>2 DEF Runtime!HasModule, Runtime!Field
  <1>14. Runtime!CublasLtParses(b, 192) <=> LinearFixed(b, 192) /\ LinearValid(l)
    <2>1. 192 \in Nat
      OBVIOUS
    <2> QED BY ONLY <1>3, <2>1, ProductParsed DEF l
  <1>15. Runtime!Words(b, 208, <<120>>) /\ Runtime!Words(b, 216, <<1>>) /\ Runtime!Longs(b, 260, <<256, 1152, 588>>)
           <=> PatchGemm(l)
    <2>1. 16 \in Product /\ 24 \in Product /\ 68 \in Product /\ 76 \in Product /\ 84 \in Product
      BY ProductLays
    <2>2. 192 + 16 = 208 /\ 192 + 24 = 216 /\ 192 + 68 = 260 /\ 192 + 76 = 268 /\ 192 + 84 = 276
      BY SMT
    <2>3. 208 \in DOMAIN b.at /\ 216 \in DOMAIN b.at /\ 260 \in DOMAIN b.at /\ 268 \in DOMAIN b.at /\ 276 \in DOMAIN b.at
      BY ONLY <1>3, <2>1, <2>2 DEF ProductAt
    <2>4. /\ l.arch = b.at[208] /\ l.dtype = b.at[216] /\ l.m = b.at[260] /\ l.n = b.at[268] /\ l.k = b.at[276]
      BY <2>2 DEF l, LinearRead
    <2>5. /\ Runtime!Words(b, 208, <<120>>) <=> b.at[208] = 120
          /\ Runtime!Words(b, 216, <<1>>) <=> b.at[216] = 1
      BY SMT, <2>3 DEF Runtime!Words, Runtime!Run
    <2>6. Runtime!Longs(b, 260, <<256, 1152, 588>>) <=> b.at[260] = 256 /\ b.at[268] = 1152 /\ b.at[276] = 588
      BY SMT, <2>3 DEF Runtime!Longs, Runtime!Run
    <2>7. PatchGemm(l) <=> l.arch = 120 /\ l.dtype = 1 /\ l.m = 256 /\ l.n = 1152 /\ l.k = 588
      BY SMT DEF PatchGemm, SM120
    <2> QED BY ONLY SMT, <2>4, <2>5, <2>6, <2>7
  <1> DEFINE words == Runtime!Words(b, 12, <<120, 1, 1, 256, 1, 1, 256, 1, 1, 4, 4, 4, 4, 256, 1, 3, 224, 224, 14, 14,
                                         1152, 16, 16, 0>>)
             longs == Runtime!Longs(b, 108, <<602112, 2709504, 4608, 1179648, 602112>>)
             gemm == Runtime!Words(b, 208, <<120>>) /\ Runtime!Words(b, 216, <<1>>)
                       /\ Runtime!Longs(b, 260, <<256, 1152, 588>>)
  <1>16. Runtime!PatchProjectionParses(b)
           <=> /\ Runtime!Sized(b, 384) /\ words /\ longs /\ Runtime!HasModule(b, 148, 156)
               /\ Runtime!Field(b, 188) = 0 /\ Runtime!CublasLtParses(b, 192) /\ gemm
    BY ONLY SMT DEF Runtime!PatchProjectionParses
  <1>17. PatchHeaded(b, bytes, sha) <=> Runtime!Sized(b, 384) /\ words /\ longs /\ Runtime!Field(b, 188) = 0
    BY ONLY <1>12
  <1>18. gemm <=> PatchGemm(l)
    BY ONLY <1>15
  <1>19. LinearFixed(b, 192) /\ LinearValid(l) => minor = LinearMinor(mode) \/ (minor = 1 /\ mode = 1)
    <2>1. l.mode = mode
      <3>1. 192 + 28 = 220
        BY SMT
      <3> QED BY <3>1 DEF l, LinearRead
    <2>2. LinearFixed(b, 192) => minor <= 1 /\ (mode = 2 => minor = 1)
      <3>1. 192 + 28 = 220 /\ 192 + 10 = 202
        BY SMT
      <3> QED BY ONLY <3>1 DEF LinearFixed
    <2>3. minor \in Nat
      <3>1. 10 \in Product /\ 192 + 10 = 202
        BY ProductLays, SMT
      <3> QED BY ONLY <1>3, <3>1 DEF ProductAt
    <2>4. LinearValid(l) => l.mode \in {1, 2}
      BY ONLY Zenon DEF LinearValid
    <2> HIDE DEF minor, mode
    <2> QED BY ONLY <2>1, <2>2, <2>3, <2>4 DEF LinearMinor
  <1>20. minor = 1 /\ mode = 1 => Tolerated(b)
    BY DEF Tolerated
  <1> HIDE DEF words, longs, gemm, minor, mode, bytes, sha
  <1>21. bytes > 0 <=> bytes # 0
    BY ONLY <1>5
  <1> QED BY ONLY <1>8, <1>9, <1>10, <1>11, <1>13, <1>14, <1>16, <1>17, <1>18, <1>19, <1>20, <1>21
-----------------------------------------------------------------------------

(* All forms.                                                              *)

(* The kernels without parameters: what is written is of the form's layout *)
(* and is read back.                                                       *)
LEMMA FixedBack ==
  ASSUME NEW p \in [form : {"AILNR1", "AITEM1", "AISLC1", "AIARM1", "AIVAT1", "AISMD1", "AIPIA1", "AIKVS1",
                            "AIKVP1"}, module : Modules]
  PROVE LaidWhole(Bytes(p)) /\ Read(Bytes(p)) = p
  <1>1. p = [form |-> p.form, module |-> p.module] /\ p.module \in Modules
    OBVIOUS
  <1>2. CASE p.form \in {"AILNR1", "AITEM1", "AISLC1"}
    BY <1>1, <1>2, LayerNormBack, TimeEmbeddingBack, ActionSliceBack
  <1>3. CASE p.form \in {"AIARM1", "AIVAT1", "AISMD1"}
    BY <1>1, <1>3, AdaptiveRmsNormBack, VisionAttentionBack, SuffixMetadataBack
  <1>4. CASE p.form \in {"AIPIA1", "AIKVS1", "AIKVP1"}
    BY <1>1, <1>4, PrefixInputBack, PrefixKvStoreBack, KvPackBack
  <1> QED BY <1>2, <1>3, <1>4

(* The kernels with a variant.                                             *)
LEMMA VariantBack ==
  ASSUME NEW p \in [form : {"AIRMS1", "AIROP1"}, variant : Nat, module : Modules], ProblemValid(p)
  PROVE LaidWhole(Bytes(p)) /\ Read(Bytes(p)) = p
  <1>1. CASE p.form = "AIRMS1"
    <2>1. p \in [form : {"AIRMS1"}, variant : Nat, module : Modules]
      BY <1>1
    <2> QED BY <2>1, RmsNormBack
  <1>2. CASE p.form = "AIROP1"
    <2>1. p \in [form : {"AIROP1"}, variant : Nat, module : Modules]
      BY <1>2
    <2> QED BY <2>1, RopeBack
  <1> QED BY <1>1, <1>2

(* The attention the provider compiles itself.                             *)
LEMMA RoundedBack ==
  ASSUME NEW p \in RoundedProblems, Valid(p), Bytes(p).magic = p.form
  PROVE LaidWhole(Bytes(p)) /\ Read(Bytes(p)) = p
  <1>1. p.form \in {"AIRAT1", "AIRAT2", "AIRAT3"}
    BY DEF RoundedProblems, RoundedForms
  <1> QED BY <1>1, RoundedOneBack, RoundedManyBack

(* from_bytes(to_bytes(p)) is p, and the payload has the layout of its     *)
(* form.                                                                   *)
LEMMA WholeBack ==
  ASSUME NEW p \in Problem, Valid(p), Bytes(p).magic = p.form
  PROVE LaidWhole(Bytes(p)) /\ Read(Bytes(p)) = p
  <1>0. ProblemValid(p)
    BY DEF Valid
  <1>1. CASE p \in [form : {"AILNR1", "AITEM1", "AISLC1", "AIARM1", "AIVAT1", "AISMD1", "AIPIA1", "AIKVS1",
                            "AIKVP1"}, module : Modules]
    BY <1>1, FixedBack
  <1>2. CASE p \in [form : {"AIRMS1", "AIROP1"}, variant : Nat, module : Modules]
    BY <1>0, <1>2, VariantBack
  <1>3. CASE p \in [form : {"AIFIAT1"}, variant : Nat]
    BY <1>0, <1>3, FlashInferBack
  <1>4. CASE p \in [form : {"AIMAD1"} \cup CompactGateForms, numel : Nat, module : Modules]
    BY <1>4, MulAddBack
  <1>5. CASE p \in [form : GeluMulForms, numel : Nat, width : Nat, module : Modules]
    BY <1>5, GeluMulBack
  <1>6. CASE p \in [form : {"AIPSP1", "AIQRP1"}, rows : Nat, widths : [1..3 -> Nat], module : Modules]
    BY <1>6, SplitBack
  <1>7. CASE p \in [form : {"AISTU1"}, total : Nat, count : Nat, offset : Nat, module : Modules]
    BY <1>7, StateUpdateBack
  <1>8. CASE p \in RoundedProblems
    BY <1>8, RoundedBack
  <1>9. CASE p \in CudaProblems
    BY <1>9, CudaBack
  <1>10. CASE p \in LinearProblems
    BY <1>10, LinearBack
  <1>11. CASE p \in PatchProblems
    BY <1>11, PatchBack
  <1> QED BY <1>1, <1>2, <1>3, <1>4, <1>5, <1>6, <1>7, <1>8, <1>9, <1>10, <1>11 DEF Problem

(* Both ends of a payload.                                                 *)
SameAccepted(b) ==
  /\ Decodes(b) => Runtime!Parses(b)
  /\ Runtime!Parses(b) => Decodes(b) \/ Tolerated(b)

(* Compiler and runtime accept the same payloads of every form, but for    *)
(* what Tolerated names.                                                   *)
LEMMA WholeAgree ==
  ASSUME NEW b, LaidWhole(b)
  PROVE SameAccepted(b)
  <1>1. b.magic \in Magics
    BY DEF LaidWhole
  <1>2. CASE b.magic \in {"AIRMS1", "AILNR1", "AITEM1", "AISLC1", "AIARM1", "AIVAT1", "AISMD1", "AIPIA1"}
    BY <1>2, RmsNormAgree, LayerNormAgree, TimeEmbeddingAgree, ActionSliceAgree, AdaptiveRmsNormAgree,
       VisionAttentionAgree, SuffixMetadataAgree, PrefixInputAgree DEF SameAccepted
  <1>3. CASE b.magic \in {"AIKVS1", "AIROP1", "AIKVP1", "AIFIAT1", "AIPSP1", "AIQRP1", "AISTU1", "AILTMM1"}
    BY <1>3, PrefixKvStoreAgree, RopeAgree, KvPackAgree, FlashInferAgree, SplitAgree, StateUpdateAgree,
       LinearAgree DEF SameAccepted
  <1>4. CASE b.magic \in {"AICUKR1", "AIPPA1"}
    BY <1>4, CudaAgree, PatchAgree DEF SameAccepted
  <1>5. CASE b.magic \in ({"AIMAD1"} \cup CompactGateForms) \cup GeluMulForms
    BY <1>5, MulAddAgree, GeluMulAgree DEF SameAccepted
  <1>6. CASE b.magic \in RoundedForms
    <2>1. b.magic \in {"AIRAT1", "AIRAT2", "AIRAT3"}
      BY <1>6 DEF RoundedForms
    <2> QED BY <2>1, RoundedOneAgree, RoundedManyAgree DEF SameAccepted
  <1> QED BY <1>1, <1>2, <1>3, <1>4, <1>5, <1>6 DEF Magics

(* What the compiler wrote, the compiler decodes.                          *)
LEMMA CudaFixed ==
  ASSUME NEW p \in CudaProblems, NEW b, CudaWritten(b, p)
  PROVE CudaKernelFixed(b)
  <1>1. b.at[8] = 1 /\ b.at[10] = 0 /\ b.at[112] = 0
    <2>1. Runtime!Shorts(b, 8, <<1, 0>>) /\ b.at[112] = 0
      BY DEF CudaWritten
    <2> QED BY ONLY SMT, <2>1 DEF Runtime!Shorts, Runtime!Run
  <1>2. b.at[12] = 128 /\ b.at[20] = p.kernel /\ b.at[32] = 1 /\ b.at[44] = 0
    <2> DEFINE v == <<128, p.arch, p.kernel, p.input, p.output, 1, p.grid, p.block, 0>>
    <2>1. \A i \in 1..9 : b.at[12 + (4 * (i - 1))] = v[i]
      <3>1. Runtime!Words(b, 12, v)
        BY DEF CudaWritten
      <3>2. DOMAIN v = 1..9
        OBVIOUS
      <3> HIDE DEF v
      <3> QED BY ONLY <3>1, <3>2 DEF Runtime!Words, Runtime!Run
    <2>2. v[1] = 128 /\ v[3] = p.kernel /\ v[6] = 1 /\ v[9] = 0
      OBVIOUS
    <2>3. /\ 12 + (4 * (1 - 1)) = 12 /\ 12 + (4 * (3 - 1)) = 20 /\ 12 + (4 * (6 - 1)) = 32
          /\ 12 + (4 * (9 - 1)) = 44
      BY SMT
    <2>4. 1 \in 1..9 /\ 3 \in 1..9 /\ 6 \in 1..9 /\ 9 \in 1..9
      BY SMT
    <2> HIDE DEF v
    <2> QED BY ONLY <2>1, <2>2, <2>3, <2>4
  <1>3. b.at[104] = 1 /\ b.at[108] = CudaOperandCount(p.kernel)
    <2> DEFINE v == <<p.in_align, p.out_align, 1, CudaOperandCount(p.kernel)>>
    <2>1. \A i \in 1..4 : b.at[96 + (4 * (i - 1))] = v[i]
      <3>1. Runtime!Words(b, 96, v)
        BY DEF CudaWritten
      <3>2. DOMAIN v = 1..4
        OBVIOUS
      <3> HIDE DEF v
      <3> QED BY ONLY <3>1, <3>2 DEF Runtime!Words, Runtime!Run
    <2>2. v[3] = 1 /\ v[4] = CudaOperandCount(p.kernel)
      OBVIOUS
    <2>3. 96 + (4 * (3 - 1)) = 104 /\ 96 + (4 * (4 - 1)) = 108 /\ 3 \in 1..4 /\ 4 \in 1..4
      BY SMT
    <2> HIDE DEF v
    <2> QED BY ONLY <2>1, <2>2, <2>3
  <1> QED BY ONLY <1>1, <1>2, <1>3 DEF CudaKernelFixed, CudaOperandCount

(* from_bytes takes what to_bytes wrote.                                   *)
LEMMA DecodesBack ==
  ASSUME NEW p \in Problem, Valid(p), Bytes(p).magic = p.form
  PROVE Decodes(Bytes(p))
  <1> DEFINE b == Bytes(p)
  <1>1. Read(b) = p /\ Valid(p) /\ b.magic = p.form /\ Bytes(p) = b
    BY WholeBack
  <1>2. CASE p.form \notin {"AICUKR1", "AILTMM1", "AIPPA1"}
    <2> HIDE DEF b
    <2> QED BY ONLY <1>1, <1>2 DEF Decodes
  <1>3. CASE p.form = "AICUKR1"
    <2>1. p \in CudaProblems
      BY <1>3 DEF Problem, CudaProblems, RoundedProblems, LinearProblems, PatchProblems, RoundedForms,
                  GeluMulForms, CompactGateForms
    <2>2. b = CudaKernelBytes(p)
      BY <1>3 DEF Bytes, GeluMulForms, CompactGateForms, RoundedForms
    <2> HIDE DEF b
    <2>3. CudaKernelFixed(b)
      BY ONLY <2>1, <2>2, CudaWrites, CudaFixed
    <2> QED BY ONLY <1>1, <1>3, <2>3 DEF Decodes
  <1>4. CASE p.form = "AILTMM1"
    <2>1. p \in LinearProblems
      BY <1>4 DEF Problem, CudaProblems, RoundedProblems, LinearProblems, PatchProblems, RoundedForms,
                  GeluMulForms, CompactGateForms
    <2>2. b = LinearBytes(p)
      BY <1>4 DEF Bytes, GeluMulForms, CompactGateForms, RoundedForms
    <2> HIDE DEF b
    <2>3. LinearFixed(b, 0)
      BY ONLY <2>1, <2>2, LinearIs
    <2> QED BY ONLY <1>1, <1>4, <2>3 DEF Decodes
  <1>5. CASE p.form = "AIPPA1"
    <2>1. p \in PatchProblems /\ p.linear \in LinearProblems
      BY <1>5 DEF Problem, CudaProblems, RoundedProblems, LinearProblems, PatchProblems, RoundedForms,
                  GeluMulForms, CompactGateForms
    <2>2. b = PatchProjectionBytes(p)
      BY <1>5 DEF Bytes, GeluMulForms, CompactGateForms, RoundedForms
    <2> HIDE DEF b
    <2>3. PatchShape(b) /\ LinearBytes(p.linear) = Nested(b)
      BY ONLY <2>1, <2>2, PatchWrites
    <2>4. LinearFixed(Nested(b), 0)
      BY ONLY <2>1, <2>3, LinearIs
    <2>5. LinearFixed(b, 192)
      BY ONLY <2>3, <2>4, NestedIs
    <2> QED BY ONLY <1>1, <1>5, <2>5 DEF Decodes
  <1> QED BY <1>2, <1>3, <1>4, <1>5

(* Whatever problem of whatever form a lowering states, to_bytes writes a  *)
(* payload with the fields of the form, from_bytes reads the same problem  *)
(* back from it, and the runtime's parser accepts it.                      *)
THEOREM WrittenIsReadBack ==
  \A p \in Problems : /\ LaidWhole(Bytes(p)) /\ Read(Bytes(p)) = p
                      /\ Decodes(Bytes(p)) /\ Runtime!Parses(Bytes(p))
  <1> SUFFICES ASSUME NEW p \in Problems
               PROVE /\ LaidWhole(Bytes(p)) /\ Read(Bytes(p)) = p
                     /\ Decodes(Bytes(p)) /\ Runtime!Parses(Bytes(p))
    OBVIOUS
  <1>1. p \in Problem /\ Valid(p) /\ Bytes(p).magic = p.form
    BY ProblemsAssumption
  <1>2. LaidWhole(Bytes(p)) /\ Read(Bytes(p)) = p
    BY ONLY <1>1, WholeBack
  <1>3. Decodes(Bytes(p))
    BY ONLY <1>1, DecodesBack
  <1>4. Runtime!Parses(Bytes(p))
    BY ONLY <1>2, <1>3, WholeAgree DEF SameAccepted
  <1> QED BY ONLY <1>2, <1>3, <1>4

(* A payload of a known form, whatever numbers its fields hold, is accepted *)
(* by from_bytes only if the runtime's parser accepts it, and the parser   *)
(* accepts no more than Tolerated names.                                   *)
THEOREM ParsersAgree ==
  ASSUME NEW b, LaidWhole(b)
  PROVE (Decodes(b) => Runtime!Parses(b)) /\ (Runtime!Parses(b) => Decodes(b) \/ Tolerated(b))
  BY WholeAgree DEF SameAccepted
=============================================================================
