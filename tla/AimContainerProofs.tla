-------------------------- MODULE AimContainerProofs --------------------------
(***************************************************************************)
(* Theorems about the publication of AIM containers, for every scenario:   *)
(* any number of writers, variants, edits, crashes and mapped models.      *)
(***************************************************************************)
EXTENDS AimContainer, FiniteSetTheorems, WellFoundedInduction, TLAPS

-----------------------------------------------------------------------------
(* The inductive invariant *)

\* The parts of a container: chunks, sections, directory entries, the file.
Bytes == Seq(Chunks)
Section == [kind : {"kernels", "weights", "plan"}, bytes : Bytes]
Directory == Seq([section : Nat, digest : Bytes])
MaybeDirectory == Directory \cup {NONE}
File == [header : MaybeDirectory, body : Seq(Section), directory : MaybeDirectory,
         checksum : (MaybeDirectory \X Seq(Section) \X MaybeDirectory) \cup {NONE}]

\* What a name or an open file may refer to.
MaybeInode == Inodes \cup {NONE}

\* Where a writer has read nothing yet, or its call is over.
Quiet == {"idle", "ok", "failed", "verify", "verify_memory", "cleanup"}

\* Where a writer assembles its temporary file, streaming or from memory.
Streaming == {"section", "copy", "directory", "header", "sync",
              "checksum", "sync_checksum", "replace"}
FromMemory == {"write_memory", "sync_memory", "replace_memory"}

Locations == Quiet \cup {"digest", "validate", "plan", "open", "open_memory"}
             \cup Streaming \cup FromMemory

\* What no step on the disk touches: the payloads and the calls' local variables.
CallsOK ==
  /\ scenario \in Scenarios
  /\ payload \in [Payloads -> Bytes]
  /\ pc \in [Writers -> Locations]
  /\ at \in [Writers -> Positions]
  /\ buffer \in [Writers -> Bytes]
  /\ identity \in [Writers -> Seq(Bytes)]
  /\ table \in [Writers -> Directory]
  /\ leftover \subseteq Writers
  /\ edits \in 0..MaxEdits /\ crashes \in Nat

\* What steps on the disk change, and the open files.
DiskOK ==
  /\ names \in [Paths -> MaybeInode]
  /\ cached \in [Inodes -> File] /\ durable \in [Inodes -> File]
  /\ bindings \subseteq MaybeInode
  /\ fd \in [Writers -> MaybeInode]
  /\ mapped \subseteq [inode : Inodes, bytes : File]

\* The type invariant.
TypeOK == CallsOK /\ DiskOK

\* How far the local variables of a call are at each of its locations.
Fits(l, a, b, i, t) ==
  /\ l \in Quiet => a = 1 /\ b = <<>> /\ i = <<>> /\ t = <<>>
  /\ l = "digest" => Len(i) = a - 1 /\ t = <<>>
  /\ l \in {"validate", "plan"} => Len(i) = a /\ t = <<>> /\ KindAt(a) = "plan"
  /\ l \in {"validate", "open", "section"} => b = <<>>
  /\ l = "open" => a = 1 /\ t = <<>>
  /\ l \in {"open", "open_memory"} \cup Streaming \cup FromMemory =>
       Len(i) = 3 * Len(Variants)
  /\ l \in {"section", "copy"} => Len(t) = a - 1
  /\ l \in Streaming \ {"section", "copy"} => Len(t) = 3 * Len(Variants)

Progress(w) == Fits(pc[w], at[w], buffer[w], identity[w], table[w])

\* A writer has its own temporary file open exactly while it assembles it.
Opened(w) ==
  /\ pc[w] \in Streaming \cup FromMemory => fd[w] = names[w] /\ names[w] # NONE
  /\ pc[w] \notin Streaming \cup FromMemory => fd[w] = NONE

\* A temporary file belongs to one writer: nothing published, nothing mapped and
\* no other writer's file is the inode it assembles.
Owned(w) ==
  names[w] # NONE =>
    /\ names[w] \notin bindings
    /\ \A m \in mapped : m.inode # names[w]
    /\ \A v \in Writers : v # w => names[v] # names[w]

\* A directory entry names a section that holds its kind of payload.
Entered(f, entry, kind) ==
  /\ entry.section \in DOMAIN f.body
  /\ f.body[entry.section] = [kind |-> kind, bytes |-> entry.digest]

\* What the temporary file f, of which d has been synced, holds at each location
\* of its writer.
Holds(l, a, b, i, t, f, d) ==
  /\ l \in Streaming =>
       /\ \A p \in 1..Len(t) : t[p].digest = i[p] /\ Entered(f, t[p], KindAt(p))
       /\ \A s \in DOMAIN f.body : (\E p \in 1..Len(t) : t[p].section = s)
                                   \/ (l = "copy" /\ s = Len(f.body))
  /\ l = "copy" =>
       /\ f.body # <<>>
       /\ f.body[Len(f.body)] = [kind |-> KindAt(a), bytes |-> b]
       /\ \A p \in 1..Len(t) : t[p].section # Len(f.body)
  /\ l \in {"header", "sync", "checksum", "sync_checksum", "replace"} => f.directory = t
  /\ l \in {"sync", "checksum", "sync_checksum", "replace"} => f.header = t
  /\ l \in {"sync_checksum", "replace"} => f.checksum = FileHash(f)
  /\ l \in {"sync_memory", "replace_memory"} => Intact(f)
  /\ l \in {"replace", "replace_memory"} => d = f

\* The temporary file of w is assembled as far as w is.
Assembled(w) ==
  Holds(pc[w], at[w], buffer[w], identity[w], table[w], Written(w), durable[fd[w]])

\* Whatever the destination may name, now or after a power loss, is whole and
\* wholly on disk.
Published ==
  /\ names["destination"] \in bindings
  /\ \A i \in bindings \ {NONE} : Intact(cached[i]) /\ durable[i] = cached[i]

\* The bottom layer: typed calls, each as far as its location says.
CallInv == CallsOK /\ \A w \in Writers : Progress(w)

\* The inductive invariant of every scenario.
ContainerInv ==
  /\ CallInv
  /\ DiskOK
  /\ \A w \in Writers : Opened(w) /\ Owned(w) /\ Assembled(w)
  /\ Published
  /\ MappedUnchanged
  /\ TemporaryOwned

-----------------------------------------------------------------------------
(* What is known of payloads that are validated in reads of their own, in a  *)
(* scenario with at most one edit and no container assembled in memory       *)

\* The scenarios in which what is published is also known to execute.
Quietly == MaxEdits <= 1 /\ ~scenario.inMemory

\* The chunks read so far are those of the file as it is now.
Prefix(read, file) ==
  Len(read) <= Len(file) /\ \A i \in 1..Len(read) : read[i] = file[i]

\* What was digested at p passes the check made of p: i are the digests.
Valid(i, p) ==
  /\ KindAt(p) = "kernels" => IsCubin(p, i[p])
  /\ KindAt(p) = "plan" => IsPlan(p, i[p], i[p - 1])

\* After e edits the file at p has changed since, and nothing changes any more:
\* y are the payloads.
Stale(i, y, e, p) == e >= 1 /\ i[p] # y[FileAt(p)]

\* The positions whose check is over, for a writer at location l and position a.
Checked(l, a, p) ==
  CASE l = "digest" -> p <= a - 3 \/ (KindAt(p) = "plan" /\ p <= a - 1)
    [] l = "validate" -> p <= a - 3
    [] l = "plan" -> p <= a - 1
    [] OTHER -> l \in {"open"} \cup Streaming

\* Another file had the same kind of payload with the same digest.
Twin(i, p) ==
  \E q \in Positions : KindAt(q) = KindAt(p) /\ FileAt(q) # FileAt(p) /\ i[q] = i[p]

\* No entry of the table t is for the file at p as it was digested there.
Unwritten(i, t, p) ==
  \A q \in 1..Len(t) : KindAt(q) = KindAt(p) /\ FileAt(q) = FileAt(p) => i[q] # i[p]

\* What a writer knows of the payloads at each location.
Knows(l, a, b, i, t, y, e) ==
  /\ l \notin FromMemory \cup {"open_memory"}
  /\ e = 0 /\ l \notin Quiet => \A p \in 1..Len(i) : i[p] = y[FileAt(p)]
  /\ e = 0 /\ l = "digest" => Prefix(b, y[FileAt(a)])
  /\ l = "plan" => Prefix(b, y[FileAt(a)]) \/ Stale(i, y, e, a)
  /\ \A p \in Positions : Checked(l, a, p) =>
       \/ Valid(i, p)
       \/ (Stale(i, y, e, p) /\ (Unwritten(i, t, p) \/ Twin(i, p)))
  /\ l = "copy" =>
       \/ \A p \in Positions : FileAt(p) = FileAt(a) => Valid(i, p)
       \/ (e >= 1 /\ Prefix(b, y[FileAt(a)]))

\* What w knows now.
ReadOnce(w) == Knows(pc[w], at[w], buffer[w], identity[w], table[w], payload, edits)

\* What is published executes.
PublishedExecutable ==
  \A i \in bindings \ {NONE} : \A p \in Positions :
    Executable(cached[i], p) \/ Reused(cached[i], p)

\* The second invariant, inductive beside the first.
ReadInv == Quietly => (\A w \in Writers : ReadOnce(w)) /\ PublishedExecutable

-----------------------------------------------------------------------------
(* Positions, files and sequences *)

\* A sequence that is not empty has a length.
LEMMA NonEmptySequence ==
  ASSUME NEW S, NEW q \in Seq(S), q # <<>>
  PROVE  Len(q) \in Nat \ {0}
OBVIOUS

\* A scenario's parameters, as the assumptions give them.
LEMMA ScenarioFacts ==
  ASSUME scenario \in Scenarios
  PROVE  /\ Variants \in Seq([{"kernels", "weights", "plan"} -> Payloads])
         /\ Len(Variants) \in Nat \ {0}
         /\ \A q \in Payloads : Contents[q] \subseteq Bytes
         /\ "destination" \notin Writers
         /\ MaxEdits \in Nat /\ MaxCrashes \in Nat /\ MaxLoads \in Nat
         /\ Inodes \subseteq Nat /\ NONE \notin Inodes
         /\ scenario.inMemory \in BOOLEAN
<1>1. Len(Variants) \in Nat \ {0}
  <2>1. Variants \in Seq([{"kernels", "weights", "plan"} -> Payloads]) /\ Variants # <<>>
    BY ContainerAssumption DEF Variants, Payloads, Contents
  <2> QED BY <2>1, NonEmptySequence
<1> QED
  BY <1>1, ContainerAssumption, NoneAssumption
  DEF Variants, Payloads, Contents, Bytes, Writers, MaxEdits, MaxCrashes, MaxLoads, Inodes

\* The payloads of a variant follow each other: kernels, weights, plan.
LEMMA PositionFacts ==
  ASSUME scenario \in Scenarios, NEW p \in Positions
  PROVE  /\ p \in Nat /\ p >= 1 /\ p <= 3 * Len(Variants)
         /\ KindAt(p) \in {"kernels", "weights", "plan"}
         /\ FileAt(p) \in Payloads
         /\ KindAt(p) = "plan" => p - 1 \in Positions /\ p - 2 \in Positions
         /\ KindAt(p) # "plan" => p + 1 \in Positions
         /\ p = 3 * Len(Variants) => KindAt(p) = "plan"
<1> DEFINE n == Len(Variants)
           v == ((p - 1) \div 3) + 1
           k == ((p - 1) % 3) + 1
<1>1. n \in Nat \ {0} /\ p \in 1..(3 * n)
  BY ScenarioFacts DEF Positions
<1>2. v \in 1..n /\ k \in 1..3 /\ p = 3 * (v - 1) + k
  BY <1>1, SMT
<1>3. KindAt(p) = Kinds[k] /\ FileAt(p) = Variants[v][KindAt(p)]
  BY DEF KindAt, FileAt, ArchAt
<1> HIDE DEF n, v, k
<1>4. KindAt(p) \in {"kernels", "weights", "plan"} /\ (KindAt(p) = "plan" <=> k = 3)
  BY <1>2, <1>3 DEF Kinds
<1>5. FileAt(p) \in Payloads
  <2>1. Variants[v] \in [{"kernels", "weights", "plan"} -> Payloads]
    BY ScenarioFacts, <1>2 DEF n
  <2> QED BY <2>1, <1>3, <1>4
<1>6. KindAt(p) = "plan" => p - 1 \in 1..(3 * n) /\ p - 2 \in 1..(3 * n)
  BY <1>1, <1>2, <1>4
<1>7. KindAt(p) # "plan" => p + 1 \in 1..(3 * n)
  BY <1>1, <1>2, <1>4
<1>8. p = 3 * n => KindAt(p) = "plan"
  BY <1>1, <1>2, <1>4
<1> QED BY <1>1, <1>4, <1>5, <1>6, <1>7, <1>8 DEF Positions, n

\* The first payload of all is a kernel bundle.
LEMMA FirstPosition ==
  ASSUME scenario \in Scenarios
  PROVE  1 \in Positions
BY ScenarioFacts, SMT DEF Positions

\* An element of a sequence over S.
LEMMA SequenceElement ==
  ASSUME NEW S, NEW q \in Seq(S), NEW i \in 1..Len(q)
  PROVE  q[i] \in S
OBVIOUS

\* Replacing an element of a sequence.
LEMMA ReplaceElement ==
  ASSUME NEW S, NEW q \in Seq(S), NEW n, NEW e, n \in DOMAIN q => e \in S
  PROVE  /\ [q EXCEPT ![n] = e] \in Seq(S)
         /\ Len([q EXCEPT ![n] = e]) = Len(q) /\ DOMAIN [q EXCEPT ![n] = e] = DOMAIN q
<1> DEFINE r == [q EXCEPT ![n] = e]
<1>1. Len(q) \in Nat /\ DOMAIN q = 1..Len(q) /\ q \in [1..Len(q) -> S]
  OBVIOUS
<1>2. r \in [1..Len(q) -> S]
  BY <1>1
<1> HIDE DEF r
<1>3. r \in Seq(S) /\ Len(r) = Len(q) /\ DOMAIN r = DOMAIN q
  BY <1>1, <1>2
<1> QED BY <1>3 DEF r

\* What Append adds, and what it leaves.
LEMMA AppendFacts ==
  ASSUME NEW S, NEW q \in Seq(S), NEW e \in S
  PROVE  /\ Append(q, e) \in Seq(S)
         /\ Append(q, e) # <<>>
         /\ Len(Append(q, e)) = Len(q) + 1
         /\ DOMAIN Append(q, e) = 1..(Len(q) + 1)
         /\ Append(q, e)[Len(q) + 1] = e
         /\ \A i \in 1..Len(q) : Append(q, e)[i] = q[i]
OBVIOUS

-----------------------------------------------------------------------------
(* Layer one: the calls.  Types and Progress, one step per action. *)

\* The parameters never change.
LEMMA SameScenario ==
  ASSUME scenario' = scenario
  PROVE  /\ Writers' = Writers /\ Paths' = Paths /\ Payloads' = Payloads
         /\ Positions' = Positions /\ Inodes' = Inodes /\ MaxEdits' = MaxEdits
         /\ Variants' = Variants /\ Contents' = Contents
         /\ MaybeInode' = MaybeInode
BY DEF Writers, Paths, Payloads, Positions, Inodes, MaxEdits, Variants, Contents, MaybeInode

\* Reading one more chunk.
LEMMA ReadTyped ==
  ASSUME CallsOK, NEW w \in Writers, ReadChunk(w)
  PROVE  /\ buffer'[w] \in Bytes
         /\ buffer' \in [Writers -> Bytes]
         /\ \A v \in Writers \ {w} : buffer'[v] = buffer[v]
<1>1. payload[FileAt(at[w])] \in Seq(Chunks) /\ buffer[w] \in Seq(Chunks)
  BY PositionFacts DEF CallsOK, Bytes
<1>2. Len(buffer[w]) + 1 \in 1..Len(payload[FileAt(at[w])])
  BY <1>1 DEF ReadChunk, More
<1>3. Chunk(w) \in Chunks
  BY <1>1, <1>2, SequenceElement DEF Chunk
<1>4. Append(buffer[w], Chunk(w)) \in Bytes
  BY <1>1, <1>3, AppendFacts DEF Bytes
<1> QED BY <1>4 DEF ReadChunk, CallsOK

\* A step of one call, given by what its local variables become.
LEMMA CallFrame ==
  ASSUME CallInv, scenario' = scenario, payload' = payload, edits' = edits,
         leftover' \subseteq Writers, crashes' \in Nat,
         NEW w \in Writers, NEW l \in Locations, NEW a \in Positions, NEW b \in Bytes,
         NEW i \in Seq(Bytes), NEW t \in Directory,
         pc' = [pc EXCEPT ![w] = l], at' = [at EXCEPT ![w] = a],
         buffer' = [buffer EXCEPT ![w] = b], identity' = [identity EXCEPT ![w] = i],
         table' = [table EXCEPT ![w] = t],
         Fits(l, a, b, i, t)
  PROVE  CallInv'
<1> USE SameScenario
<1>1. CallsOK'
  BY DEF CallInv, CallsOK
<1>2. ASSUME NEW v \in Writers PROVE Progress(v)'
  <2>1. Fits(pc'[v], at'[v], buffer'[v], identity'[v], table'[v])
    <3>1. CASE v = w
      BY <3>1 DEF CallInv, CallsOK
    <3>2. CASE v # w
      BY <3>2 DEF CallInv, CallsOK, Progress
    <3> QED BY <3>1, <3>2
  <2> QED BY <2>1 DEF Progress, Fits
<1> QED BY <1>1, <1>2 DEF CallInv

\* A call that ends, or is killed, has no local variables left.
LEMMA LeaveCalls ==
  ASSUME CallInv, scenario' = scenario, payload' = payload, edits' = edits,
         leftover' \subseteq Writers, crashes' \in Nat,
         NEW w \in Writers, NEW l \in Quiet, Leave(w, l)
  PROVE  CallInv'
<1>1. l \in Locations /\ Fits(l, 1, <<>>, <<>>, <<>>)
  BY DEF Locations, Fits, Quiet, Streaming, FromMemory
<1>2. 1 \in Positions
  BY FirstPosition DEF CallInv, CallsOK
<1>3. <<>> \in Bytes /\ <<>> \in Seq(Bytes) /\ <<>> \in Directory
  BY DEF Bytes, Directory
<1>4. /\ pc' = [pc EXCEPT ![w] = l] /\ at' = [at EXCEPT ![w] = 1]
      /\ buffer' = [buffer EXCEPT ![w] = <<>>] /\ identity' = [identity EXCEPT ![w] = <<>>]
      /\ table' = [table EXCEPT ![w] = <<>>]
  BY DEF Leave, Goto
<1> QED
  BY <1>1, <1>2, <1>3, <1>4, CallFrame

\* What a variable that does not change looks like to CallFrame.
LEMMA Unchanged ==
  ASSUME CallsOK, NEW w \in Writers
  PROVE  /\ pc = [pc EXCEPT ![w] = pc[w]] /\ pc[w] \in Locations
         /\ at = [at EXCEPT ![w] = at[w]] /\ at[w] \in Positions
         /\ buffer = [buffer EXCEPT ![w] = buffer[w]] /\ buffer[w] \in Bytes
         /\ identity = [identity EXCEPT ![w] = identity[w]] /\ identity[w] \in Seq(Bytes)
         /\ table = [table EXCEPT ![w] = table[w]] /\ table[w] \in Directory
         /\ leftover \subseteq Writers /\ crashes \in Nat
BY DEF CallsOK

\* A step that only goes on to another location.
LEMMA GotoCalls ==
  ASSUME CallInv, scenario' = scenario, payload' = payload, edits' = edits,
         leftover' \subseteq Writers, crashes' \in Nat,
         NEW w \in Writers, NEW l \in Locations,
         pc' = [pc EXCEPT ![w] = l], at' = at, buffer' = buffer,
         identity' = identity, table' = table,
         Fits(l, at[w], buffer[w], identity[w], table[w])
  PROVE  CallInv'
<1>1. CallsOK
  BY DEF CallInv
<1> DEFINE a == at[w]
           b == buffer[w]
           i == identity[w]
           t == table[w]
<1>2. /\ at' = [at EXCEPT ![w] = a] /\ a \in Positions
      /\ buffer' = [buffer EXCEPT ![w] = b] /\ b \in Bytes
      /\ identity' = [identity EXCEPT ![w] = i] /\ i \in Seq(Bytes)
      /\ table' = [table EXCEPT ![w] = t] /\ t \in Directory
  BY <1>1, Unchanged
<1>3. Fits(l, a, b, i, t)
  OBVIOUS
<1> HIDE DEF a, b, i, t
<1> QED BY <1>2, <1>3, CallFrame

\* write_streaming until it opens its temporary file.
LEMMA ReadingCalls ==
  ASSUME CallInv, scenario' = scenario, NEW w \in Writers,
         \/ Begin(w) \/ Refuse(w) \/ DigestChunk(w) \/ DigestEnd(w) \/ ValidateKernels(w)
         \/ PlanChunk(w) \/ PlanEnd(w) \/ Unreadable(w)
  PROVE  CallInv'
<1> USE SameScenario DEF environment
<1>0. CallsOK /\ Progress(w)
  BY DEF CallInv
<1>a. Fits(pc[w], at[w], buffer[w], identity[w], table[w])
  BY <1>0 DEF Progress
<1>u. /\ pc = [pc EXCEPT ![w] = pc[w]] /\ pc[w] \in Locations
      /\ at = [at EXCEPT ![w] = at[w]] /\ at[w] \in Positions
      /\ buffer = [buffer EXCEPT ![w] = buffer[w]] /\ buffer[w] \in Bytes
      /\ identity = [identity EXCEPT ![w] = identity[w]] /\ identity[w] \in Seq(Bytes)
      /\ table = [table EXCEPT ![w] = table[w]] /\ table[w] \in Directory
      /\ leftover \subseteq Writers /\ crashes \in Nat
  BY <1>0, Unchanged
<1>p. /\ at[w] \in Nat /\ at[w] >= 1 /\ at[w] <= 3 * Len(Variants)
      /\ KindAt(at[w]) # "plan" => at[w] + 1 \in Positions
      /\ at[w] = 3 * Len(Variants) => KindAt(at[w]) = "plan"
      /\ Len(Variants) \in Nat \ {0} /\ 1 \in Positions
  BY <1>0, <1>u, PositionFacts, ScenarioFacts, FirstPosition DEF CallsOK
<1>e. <<>> \in Bytes /\ <<>> \in Seq(Bytes) /\ <<>> \in Directory
  BY DEF Bytes, Directory
<1>1. CASE Begin(w)
  <2>1. Fits("digest", at[w], buffer[w], identity[w], table[w])
    BY <1>1, <1>a, <1>p DEF Begin, Fits, Quiet, Streaming, FromMemory
  <2>2. /\ pc' = [pc EXCEPT ![w] = "digest"] /\ "digest" \in Locations
        /\ at' = at /\ buffer' = buffer /\ identity' = identity /\ table' = table
        /\ payload' = payload /\ edits' = edits /\ leftover' = leftover /\ crashes' = crashes
    BY <1>1 DEF Begin, Goto, local, Locations
  <2> QED BY <2>1, <2>2, <1>u, GotoCalls
<1>2. CASE Refuse(w)
  <2>1. Fits("failed", at[w], buffer[w], identity[w], table[w])
    BY <1>2, <1>a, <1>p DEF Refuse, Fits, Quiet, Streaming, FromMemory
  <2>2. /\ pc' = [pc EXCEPT ![w] = "failed"] /\ "failed" \in Locations
        /\ at' = at /\ buffer' = buffer /\ identity' = identity /\ table' = table
        /\ payload' = payload /\ edits' = edits /\ leftover' = leftover /\ crashes' = crashes
    BY <1>2 DEF Refuse, Goto, local, Locations, Quiet
  <2> QED BY <2>1, <2>2, <1>u, GotoCalls
<1>3. CASE DigestChunk(w) \/ PlanChunk(w)
  <2>1. /\ pc' = pc /\ at' = at /\ identity' = identity /\ table' = table
        /\ payload' = payload /\ edits' = edits /\ leftover' = leftover /\ crashes' = crashes
        /\ ReadChunk(w) /\ pc[w] \in {"digest", "plan"}
    BY <1>3 DEF DigestChunk, PlanChunk
  <2>2. buffer'[w] \in Bytes /\ buffer' = [buffer EXCEPT ![w] = buffer'[w]]
    BY <2>1, <1>0, ReadTyped DEF ReadChunk, CallsOK
  <2>3. Fits(pc[w], at[w], buffer'[w], identity[w], table[w])
    BY <2>1, <1>a DEF Fits, Quiet, Streaming, FromMemory
  <2> QED BY <2>1, <2>2, <2>3, <1>u, CallFrame
<1>4. CASE DigestEnd(w)
  <2>1. /\ table' = table /\ payload' = payload /\ edits' = edits
        /\ leftover' = leftover /\ crashes' = crashes
        /\ buffer' = [buffer EXCEPT ![w] = <<>>] /\ pc[w] = "digest"
        /\ identity' = [identity EXCEPT ![w] = Append(identity[w], buffer[w])]
    BY <1>4 DEF DigestEnd
  <2>2. /\ Append(identity[w], buffer[w]) \in Seq(Bytes)
        /\ Len(Append(identity[w], buffer[w])) = at[w]
    BY <2>1, <1>u, <1>a, <1>p, AppendFacts DEF Fits
  <2>3. table[w] = <<>>
    BY <2>1, <1>a DEF Fits
  <2>4. CASE KindAt(at[w]) = "plan"
    <3>1. Fits("validate", at[w], <<>>, Append(identity[w], buffer[w]), table[w])
      BY <2>2, <2>3, <2>4 DEF Fits, Quiet, Streaming, FromMemory
    <3>2. /\ pc' = [pc EXCEPT ![w] = "validate"] /\ at' = at /\ "validate" \in Locations
      BY <1>4, <2>4 DEF DigestEnd, Goto, Locations
    <3> QED BY ZenonT(60), <3>1, <3>2, <2>1, <2>2, <1>u, <1>e, CallFrame
  <2>5. CASE KindAt(at[w]) # "plan"
    <3>1. Fits("digest", at[w] + 1, <<>>, Append(identity[w], buffer[w]), table[w])
      BY <2>2, <2>3, <1>p DEF Fits, Quiet, Streaming, FromMemory
    <3>2. /\ pc' = [pc EXCEPT ![w] = "digest"] /\ "digest" \in Locations
          /\ at' = [at EXCEPT ![w] = at[w] + 1] /\ at[w] + 1 \in Positions
      BY <1>4, <1>u, <1>p, <2>1, <2>5 DEF DigestEnd, Locations
    <3>3. table' = [table EXCEPT ![w] = table[w]]
      BY <1>u, <2>1
    <3> QED BY <3>1, <3>2, <3>3, <2>1, <2>2, <1>u, <1>e, CallFrame
  <2> QED BY <2>4, <2>5
<1>5. CASE ValidateKernels(w)
  <2>1. /\ payload' = payload /\ edits' = edits /\ leftover' = leftover /\ crashes' = crashes
        /\ pc[w] = "validate"
    BY <1>5 DEF ValidateKernels
  <2>2. CASE KernelAccepted(w)
    <3>1. Fits("plan", at[w], buffer[w], identity[w], table[w])
      BY <2>1, <1>a DEF Fits, Quiet, Streaming, FromMemory
    <3>2. /\ pc' = [pc EXCEPT ![w] = "plan"] /\ "plan" \in Locations
          /\ at' = at /\ buffer' = buffer /\ identity' = identity /\ table' = table
      BY <1>5, <2>2 DEF ValidateKernels, Goto, local, Locations
    <3> QED BY <3>1, <3>2, <2>1, <1>u, GotoCalls
  <2>3. CASE ~KernelAccepted(w)
    <3>1. Leave(w, "failed") /\ "failed" \in Quiet
      BY <1>5, <2>3 DEF ValidateKernels, Quiet
    <3> QED BY <3>1, <2>1, <1>u, LeaveCalls
  <2> QED BY <2>2, <2>3
<1>6. CASE PlanEnd(w)
  <2>1. /\ payload' = payload /\ edits' = edits /\ leftover' = leftover /\ crashes' = crashes
        /\ pc[w] = "plan"
    BY <1>6 DEF PlanEnd
  <2>2. CASE ~PlanAccepted(w)
    <3>1. Leave(w, "failed") /\ "failed" \in Quiet
      BY <1>6, <2>2 DEF PlanEnd, Quiet
    <3> QED BY <3>1, <2>1, <1>u, LeaveCalls
  <2>3. CASE PlanAccepted(w)
    <3>1. /\ buffer' = [buffer EXCEPT ![w] = <<>>] /\ identity' = identity /\ table' = table
      BY <1>6, <2>3 DEF PlanEnd
    <3>2. Len(identity[w]) = at[w] /\ table[w] = <<>>
      BY <2>1, <1>a DEF Fits
    <3>3. CASE at[w] = Len(Variants) * 3
      <4>1. Fits("open", 1, <<>>, identity[w], table[w])
        BY <3>2, <3>3, <1>p DEF Fits, Quiet, Streaming, FromMemory
      <4>2. /\ pc' = [pc EXCEPT ![w] = "open"] /\ "open" \in Locations
            /\ at' = [at EXCEPT ![w] = 1]
        BY <1>6, <2>3, <3>3 DEF PlanEnd, Goto, Locations
      <4> QED BY <4>1, <4>2, <3>1, <2>1, <1>u, <1>e, <1>p, CallFrame
    <3>4. CASE at[w] # Len(Variants) * 3
      <4>1. Fits("digest", at[w] + 1, <<>>, identity[w], table[w])
        BY <3>2, <1>p DEF Fits, Quiet, Streaming, FromMemory
      <4>2. /\ pc' = [pc EXCEPT ![w] = "digest"] /\ "digest" \in Locations
            /\ at' = [at EXCEPT ![w] = at[w] + 1]
        BY <1>6, <2>3, <3>4 DEF PlanEnd, Goto, Locations
      <4>3. at[w] + 1 \in Positions
        BY <3>4, <1>p DEF Positions
      <4> QED BY <4>1, <4>2, <4>3, <3>1, <2>1, <1>u, <1>e, CallFrame
    <3> QED BY <3>3, <3>4
  <2> QED BY <2>2, <2>3
<1>7. CASE Unreadable(w)
  <2>1. /\ payload' = payload /\ edits' = edits /\ leftover' = leftover /\ crashes' = crashes
        /\ Leave(w, "failed") /\ "failed" \in Quiet
    BY <1>7 DEF Unreadable, Quiet
  <2> QED BY <2>1, <1>u, LeaveCalls
<1> QED BY <1>1, <1>2, <1>3, <1>4, <1>5, <1>6, <1>7

\* The file a writer has open.
LEMMA WrittenTyped ==
  ASSUME CallInv, DiskOK, NEW w \in Writers, Opened(w), pc[w] \in Streaming \cup FromMemory
  PROVE  fd[w] \in Inodes /\ fd[w] = names[w] /\ Written(w) \in File
BY DEF CallInv, CallsOK, DiskOK, Opened, Written, MaybeInode

\* The next position, or the directory.
LEMMA AdvanceCalls ==
  ASSUME CallInv, scenario' = scenario, payload' = payload, edits' = edits,
         leftover' = leftover, crashes' = crashes, identity' = identity,
         NEW w \in Writers, NEW s \in Nat, pc[w] \in {"section", "copy"}, Advance(w, s)
  PROVE  CallInv'
<1>0. CallsOK /\ Progress(w)
  BY DEF CallInv
<1>1. Fits(pc[w], at[w], buffer[w], identity[w], table[w])
  BY <1>0 DEF Progress
<1>2. /\ at[w] \in Positions /\ identity[w] \in Seq(Bytes) /\ table[w] \in Directory
      /\ leftover \subseteq Writers /\ crashes \in Nat
  BY <1>0, Unchanged
<1>3. /\ at[w] \in Nat /\ at[w] >= 1 /\ at[w] <= 3 * Len(Variants)
      /\ Len(Variants) \in Nat \ {0}
  BY <1>0, <1>2, PositionFacts, ScenarioFacts DEF CallsOK
<1>4. Len(identity[w]) = 3 * Len(Variants) /\ Len(table[w]) = at[w] - 1
  BY <1>1 DEF Fits, Streaming
<1> DEFINE entry == [section |-> s, digest |-> identity[w][at[w]]]
           t == Append(table[w], entry)
<1>5. entry \in [section : Nat, digest : Bytes]
  <2>1. identity[w][at[w]] \in Bytes
    BY <1>2, <1>3, <1>4, SequenceElement
  <2> QED BY <2>1
<1>6. t \in Directory /\ Len(t) = at[w]
  <2> HIDE DEF entry
  <2> QED BY <1>2, <1>3, <1>4, <1>5, AppendFacts DEF Directory
<1>7. /\ table' = [table EXCEPT ![w] = t] /\ buffer' = [buffer EXCEPT ![w] = <<>>]
      /\ identity' = [identity EXCEPT ![w] = identity[w]] /\ <<>> \in Bytes
  BY <1>0, Unchanged DEF Advance, Bytes
<1> HIDE DEF t
<1>8. CASE at[w] = Len(Variants) * 3
  <2>1. Fits("directory", at[w], <<>>, identity[w], t)
    BY <1>3, <1>4, <1>6, <1>8 DEF Fits, Quiet, Streaming, FromMemory
  <2>2. /\ pc' = [pc EXCEPT ![w] = "directory"] /\ "directory" \in Locations
        /\ at' = [at EXCEPT ![w] = at[w]]
    BY <1>0, <1>8, Unchanged DEF Advance, Goto, Locations, Streaming
  <2> QED BY <2>1, <2>2, <1>2, <1>6, <1>7, CallFrame
<1>9. CASE at[w] # Len(Variants) * 3
  <2>1. Fits("section", at[w] + 1, <<>>, identity[w], t)
    BY <1>3, <1>4, <1>6 DEF Fits, Quiet, Streaming, FromMemory
  <2>2. /\ pc' = [pc EXCEPT ![w] = "section"] /\ "section" \in Locations
        /\ at' = [at EXCEPT ![w] = at[w] + 1] /\ at[w] + 1 \in Positions
    BY <1>3, <1>9 DEF Advance, Goto, Locations, Streaming, Positions
  <2> QED BY <2>1, <2>2, <1>2, <1>6, <1>7, CallFrame
<1> QED BY <1>8, <1>9

\* Both writers from the moment they assemble the container.
LEMMA AssemblingCalls ==
  ASSUME CallInv, DiskOK, scenario' = scenario, NEW w \in Writers, Opened(w),
         \/ OpenTemporary(w) \/ ReuseSection(w) \/ StartSection(w) \/ CopyChunk(w) \/ CopyEnd(w)
         \/ WriteDirectory(w) \/ WriteHeader(w) \/ SyncContainer(w)
         \/ WriteChecksum(w) \/ SyncChecksum(w) \/ BeginInMemory(w)
         \/ OpenInMemory(w) \/ WriteInMemory(w) \/ SyncInMemory(w)
         \/ Replace(w) \/ Verify(w) \/ Cleanup(w) \/ Abort(w) \/ Kill(w)
  PROVE  CallInv'
<1> USE DEF environment, local, Goto
<1>0. CallsOK /\ Progress(w)
  BY DEF CallInv
<1>1. Fits(pc[w], at[w], buffer[w], identity[w], table[w])
  BY <1>0 DEF Progress
<1>2. leftover \subseteq Writers /\ crashes \in Nat
  BY <1>0 DEF CallsOK
<1>3. CASE \/ OpenTemporary(w) \/ StartSection(w) \/ WriteDirectory(w) \/ WriteHeader(w)
           \/ SyncContainer(w) \/ WriteChecksum(w) \/ SyncChecksum(w)
           \/ OpenInMemory(w) \/ WriteInMemory(w) \/ SyncInMemory(w)
           \/ Verify(w) \/ Cleanup(w)
  <2> DEFINE l == pc'[w]
  <2>1. /\ payload' = payload /\ edits' = edits /\ leftover' \subseteq Writers
        /\ crashes' = crashes /\ at' = at /\ buffer' = buffer
        /\ identity' = identity /\ table' = table
    BY <1>2, <1>3
    DEF OpenTemporary, StartSection, WriteDirectory, WriteHeader, SyncContainer, WriteChecksum,
        SyncChecksum, OpenInMemory, WriteInMemory, SyncInMemory, Verify, Cleanup, Open, Sync, Write
  <2>2. pc' = [pc EXCEPT ![w] = l] /\ l \in Locations
    <3>1. pc \in [Writers -> Locations]
      BY <1>0 DEF CallsOK
    <3> QED
      BY <1>3, <3>1
      DEF OpenTemporary, StartSection, WriteDirectory, WriteHeader, SyncContainer, WriteChecksum,
          SyncChecksum, OpenInMemory, WriteInMemory, SyncInMemory, Verify, Cleanup,
          Locations, Streaming, FromMemory, Quiet
  <2>3. \/ pc[w] = "open" /\ l = "section"
        \/ pc[w] = "section" /\ l = "copy"
        \/ pc[w] \in Streaming \ {"section", "copy"} /\ l \in Streaming \ {"section", "copy"}
        \/ pc[w] \in {"open_memory"} \cup FromMemory /\ l \in FromMemory
        \/ pc[w] \in Quiet /\ l \in Quiet
    <3>1. pc \in [Writers -> Locations]
      BY <1>0 DEF CallsOK
    <3> QED
      BY <1>3, <3>1
      DEF OpenTemporary, StartSection, WriteDirectory, WriteHeader, SyncContainer, WriteChecksum,
          SyncChecksum, OpenInMemory, WriteInMemory, SyncInMemory, Verify, Cleanup,
          Streaming, FromMemory, Quiet
  <2> HIDE DEF l
  <2>4. Fits(l, at[w], buffer[w], identity[w], table[w])
    <3>1. at[w] \in Nat
      BY <1>0, PositionFacts DEF CallsOK
    <3>2. Len(<<>>) = 0
      OBVIOUS
    <3> QED BY <2>3, <1>1, <3>1, <3>2 DEF Fits, Quiet, Streaming, FromMemory
  <2> QED BY <2>1, <2>2, <2>4, <1>2, GotoCalls
<1>4. CASE ReuseSection(w)
  <2>1. Written(w).body \in Seq(Section)
    BY <1>4, WrittenTyped DEF ReuseSection, Streaming, File
  <2>2. PICK s \in SectionsWith(Written(w), KindAt(at[w]), identity[w][at[w]]) : Advance(w, s)
    BY <1>4 DEF ReuseSection
  <2>3. s \in Nat
    BY <2>1, <2>2 DEF SectionsWith
  <2> QED BY <1>4, <2>2, <2>3, AdvanceCalls DEF ReuseSection
<1>5. CASE CopyChunk(w)
  <2>1. /\ pc' = pc /\ at' = at /\ identity' = identity /\ table' = table
        /\ payload' = payload /\ edits' = edits /\ leftover' = leftover /\ crashes' = crashes
        /\ ReadChunk(w) /\ pc[w] = "copy"
    BY <1>5 DEF CopyChunk
  <2>2. buffer'[w] \in Bytes /\ buffer' = [buffer EXCEPT ![w] = buffer'[w]]
    BY <2>1, <1>0, ReadTyped DEF ReadChunk, CallsOK
  <2>3. Fits(pc[w], at[w], buffer'[w], identity[w], table[w])
    BY <2>1, <1>1 DEF Fits, Quiet, Streaming, FromMemory
  <2>4. /\ pc = [pc EXCEPT ![w] = pc[w]] /\ pc[w] \in Locations
        /\ at = [at EXCEPT ![w] = at[w]] /\ at[w] \in Positions
        /\ identity = [identity EXCEPT ![w] = identity[w]] /\ identity[w] \in Seq(Bytes)
        /\ table = [table EXCEPT ![w] = table[w]] /\ table[w] \in Directory
    BY <1>0, Unchanged
  <2> QED BY <2>1, <2>2, <2>3, <2>4, <1>2, CallFrame
<1>6. CASE CopyEnd(w)
  <2>1. /\ payload' = payload /\ edits' = edits /\ leftover' = leftover /\ crashes' = crashes
        /\ pc[w] = "copy"
    BY <1>6 DEF CopyEnd
  <2>2. CASE buffer[w] = identity[w][at[w]]
    <3>1. Written(w).body \in Seq(Section)
      BY <2>1, WrittenTyped DEF Streaming, File
    <3>2. Advance(w, Len(Written(w).body)) /\ identity' = identity /\ Len(Written(w).body) \in Nat
      BY <3>1, <1>6, <2>2 DEF CopyEnd
    <3> QED BY <2>1, <3>2, AdvanceCalls
  <2>3. CASE buffer[w] # identity[w][at[w]]
    <3>1. Leave(w, "cleanup") /\ "cleanup" \in Quiet
      BY <1>6, <2>3 DEF CopyEnd, Quiet
    <3> QED BY <2>1, <3>1, <1>2, LeaveCalls
  <2> QED BY <2>2, <2>3
<1>7. CASE BeginInMemory(w)
  <2> DEFINE bytes == [p \in Positions |-> payload[FileAt(p)]]
  <2>1. /\ payload' = payload /\ edits' = edits /\ leftover' = leftover /\ crashes' = crashes
        /\ at' = at /\ buffer' = buffer /\ table' = table
        /\ identity' = [identity EXCEPT ![w] = bytes]
        /\ pc' = [pc EXCEPT ![w] = "open_memory"] /\ "open_memory" \in Locations
    BY <1>7 DEF BeginInMemory, Locations
  <2>2. bytes \in Seq(Bytes) /\ Len(bytes) = 3 * Len(Variants)
    <3>1. \A p \in Positions : payload[FileAt(p)] \in Bytes
      BY <1>0, PositionFacts DEF CallsOK
    <3>2. 3 * Len(Variants) \in Nat /\ Positions = 1..(3 * Len(Variants))
      BY <1>0, ScenarioFacts DEF CallsOK, Positions
    <3> QED BY <3>1, <3>2
  <2> HIDE DEF bytes
  <2>3. Fits("open_memory", at[w], buffer[w], bytes, table[w])
    BY <2>2 DEF Fits, Quiet, Streaming, FromMemory
  <2>4. /\ at = [at EXCEPT ![w] = at[w]] /\ at[w] \in Positions
        /\ buffer = [buffer EXCEPT ![w] = buffer[w]] /\ buffer[w] \in Bytes
        /\ table = [table EXCEPT ![w] = table[w]] /\ table[w] \in Directory
    BY <1>0, Unchanged
  <2> QED BY <2>1, <2>2, <2>3, <2>4, <1>2, CallFrame
<1>8. CASE Replace(w) \/ Abort(w) \/ Kill(w)
  <2>1. /\ payload' = payload /\ edits' = edits /\ leftover' \subseteq Writers /\ crashes' \in Nat
        /\ \E l \in Quiet : Leave(w, l)
    BY <1>2, <1>8 DEF Replace, Abort, Kill, Quiet
  <2> QED BY <2>1, LeaveCalls
<1> QED BY <1>3, <1>4, <1>5, <1>6, <1>7, <1>8

-----------------------------------------------------------------------------
(* Layer two: the disk.  Types, and the file every writer has open. *)

\* Every nonempty set of naturals has a least element: initial segments of the
\* naturals are ordered by strict inclusion, which is well founded on finite sets.
LEMMA LeastNatural ==
  ASSUME NEW S, S \subseteq Nat, S # {}
  PROVE  \E m \in S : \A n \in S : m <= n
  <1> DEFINE Below(n) == 0..(n - 1)
             T == {Below(n) : n \in S}
             R == StrictSubsetOrdering(Nat)
  <1>1. \A n \in Nat : Below(n) \in SUBSET Nat /\ IsFiniteSet(Below(n))
    BY FS_Interval
  <1>2. T \subseteq FiniteSubsetsOf(Nat) /\ T # {}
    BY <1>1 DEF FiniteSubsetsOf
  <1>3. PICK t \in T : \A u \in T : ~(<<u, t>> \in R)
    <2>1. IsWellFoundedOn(R, FiniteSubsetsOf(Nat))
      BY FS_StrictSubsetOrderingWellFounded
    <2> HIDE DEF R, T
    <2> QED
      BY <1>2, <2>1, WFMin
  <1>4. PICK m \in S : t = Below(m)
    BY <1>3
  <1>5. ASSUME NEW n \in S, n < m PROVE FALSE
    <2>1. Below(n) \subseteq Below(m) /\ Below(n) # Below(m)
      BY <1>5
    <2>2. <<Below(n), Below(m)>> \in R
      BY <1>1, <2>1 DEF StrictSubsetOrdering
    <2> QED
      BY <1>3, <1>4, <2>2
  <1> QED
    BY <1>5

\* The container assembled in memory is whole.
LEMMA ImageIntact ==
  ASSUME scenario \in Scenarios, NEW bytes \in Seq(Bytes), Len(bytes) = 3 * Len(Variants)
  PROVE  Image(bytes) \in File /\ Intact(Image(bytes))
<1> DEFINE same(p) == {q \in Positions : KindAt(q) = KindAt(p) /\ bytes[q] = bytes[p]}
           first(p) == CHOOSE q \in same(p) : \A r \in same(p) : q <= r
           parts == {p \in Positions : first(p) = p}
           section(p) == Cardinality({q \in parts : q <= first(p)})
           stored(s) == CHOOSE p \in parts : section(p) = s
           directory == [p \in Positions |-> [section |-> section(p), digest |-> bytes[p]]]
           body == [s \in 1..Cardinality(parts) |->
                      [kind |-> KindAt(stored(s)), bytes |-> bytes[stored(s)]]]
           whole == [header |-> directory, body |-> body, directory |-> directory,
                     checksum |-> NONE]
<1>0. /\ 3 * Len(Variants) \in Nat /\ Positions = 1..(3 * Len(Variants))
      /\ \A p \in Positions : bytes[p] \in Bytes
      /\ \A p \in Positions : KindAt(p) \in {"kernels", "weights", "plan"}
  BY ScenarioFacts, PositionFacts DEF Positions
<1>1. ASSUME NEW p \in Positions
      PROVE  first(p) \in same(p) /\ \A r \in same(p) : first(p) <= r
  <2>1. same(p) \subseteq Nat /\ same(p) # {}
    BY <1>0
  <2> HIDE DEF same
  <2> QED BY <2>1, LeastNatural
<1>2. ASSUME NEW p \in Positions
      PROVE  /\ first(p) \in parts /\ first(first(p)) = first(p)
             /\ KindAt(first(p)) = KindAt(p) /\ bytes[first(p)] = bytes[p]
  <2>1. first(p) \in Positions /\ same(first(p)) = same(p)
    BY <1>1
  <2>2. first(first(p)) = first(p)
    BY <2>1
  <2>3. KindAt(first(p)) = KindAt(p) /\ bytes[first(p)] = bytes[p]
    BY <1>1
  <2> QED BY <2>1, <2>2, <2>3
<1>3. IsFiniteSet(parts) /\ Cardinality(parts) \in Nat /\ parts \subseteq Positions
  <2>1. parts \in SUBSET Positions
    OBVIOUS
  <2> DEFINE n == 3 * Len(Variants)
  <2>2. n \in Int /\ Positions = 1..n
    BY <1>0
  <2> HIDE DEF parts, n
  <2>3. IsFiniteSet(Positions)
    BY <2>2, FS_Interval
  <2>4. IsFiniteSet(parts)
    BY <2>1, <2>3, FS_Subset
  <2> QED BY <2>1, <2>4, FS_CardinalityType
<1>4. \A p \in parts : first(p) = p
  OBVIOUS
<1> HIDE DEF first, parts
<1>5. ASSUME NEW p \in Positions
      PROVE  section(p) \in 1..Cardinality(parts) /\ section(p) = section(first(p))
  <2> DEFINE below == {q \in parts : q <= first(p)}
  <2>1. below \in SUBSET parts
    OBVIOUS
  <2>2. first(p) \in below
    <3>1. first(p) \in parts
      BY <1>2
    <3>2. first(p) \in Nat
      <4>1. \A r \in parts : r \in Nat
        BY <1>0, <1>3
      <4> HIDE DEF below
      <4> QED BY <3>1, <4>1
    <3> QED BY <3>1, <3>2
  <2>3. section(p) = section(first(p))
    BY <1>2
  <2>4. section(p) = Cardinality(below)
    OBVIOUS
  <2> HIDE DEF below, section
  <2>5. /\ IsFiniteSet(below) /\ Cardinality(below) <= Cardinality(parts)
        /\ Cardinality(below) \in Nat /\ Cardinality(below) # 0
    BY <1>3, <2>1, <2>2, FS_Subset, FS_CardinalityType, FS_EmptySet
  <2> QED BY <1>3, <2>3, <2>4, <2>5
<1>6. ASSUME NEW p \in parts, NEW q \in parts, p < q
      PROVE  section(p) # section(q)
  <2> DEFINE low == {r \in parts : r <= p}
             high == {r \in parts : r <= q}
  <2>1. low \in SUBSET high /\ low # high /\ high \in SUBSET parts
    <3>1. \A r \in parts : r \in Nat
      BY <1>0, <1>3
    <3>2. q \in high /\ q \notin low
      BY <1>6, <3>1
    <3>3. \A r \in parts : r <= p => r <= q
      BY <1>6, <3>1
    <3> QED BY <3>2, <3>3
  <2>2. section(p) = Cardinality(low) /\ section(q) = Cardinality(high)
    BY <1>4
  <2> HIDE DEF low, high, section
  <2>3. IsFiniteSet(high)
    BY <1>3, <2>1, FS_Subset
  <2> QED BY <2>1, <2>2, <2>3, FS_Subset
<1>7. ASSUME NEW p \in parts, NEW q \in parts, section(p) = section(q)
      PROVE  p = q
  <2>1. p \in Nat /\ q \in Nat
    BY <1>0, <1>3
  <2> HIDE DEF section
  <2> QED BY <1>6, <1>7, <2>1
<1> HIDE DEF section
<1>8. ASSUME NEW s \in 1..Cardinality(parts)
      PROVE  stored(s) \in parts /\ section(stored(s)) = s
  <2> DEFINE f == [p \in parts |-> section(p)]
  <2>1. f \in [parts -> 1..Cardinality(parts)] /\ IsInjective(f)
    BY <1>3, <1>5, <1>7 DEF IsInjective
  <2>2. IsFiniteSet(1..Cardinality(parts)) /\ Cardinality(1..Cardinality(parts)) = Cardinality(parts)
    <3>1. IsFiniteSet(1..Cardinality(parts))
      BY <1>3, FS_Interval
    <3> DEFINE n == Cardinality(parts)
    <3>2. n \in Nat
      BY <1>3
    <3> HIDE DEF n
    <3>3. Cardinality(1..n) = n
      BY <3>2, FS_Interval
    <3> QED BY <3>1, <3>3 DEF n
  <2> HIDE DEF f
  <2>3. f \in Injection(parts, 1..Cardinality(parts))
    BY <2>1 DEF Injection
  <2>4. f \in Surjection(parts, 1..Cardinality(parts))
    BY <2>2, <2>3, FS_Injection
  <2>5. \E p \in parts : section(p) = s
    BY <2>4 DEF Surjection, f
  <2> QED BY <2>5
<1>9. ASSUME NEW p \in Positions
      PROVE  stored(section(p)) = first(p)
  <2>1. section(p) \in 1..Cardinality(parts) /\ section(p) = section(first(p)) /\ first(p) \in parts
    BY <1>2, <1>5
  <2> QED BY <1>7, <1>8, <2>1
<1> HIDE DEF stored
<1>10. Image(bytes) = [whole EXCEPT !.checksum = FileHash(whole)]
  BY DEF Image, stored, section, parts, first, same
<1>11. directory \in Directory
  <2>1. \A p \in Positions : section(p) \in Nat /\ bytes[p] \in Bytes
    BY <1>0, <1>5
  <2> QED BY <1>0, <2>1 DEF Directory
<1>12. body \in Seq(Section)
  <2>1. \A s \in 1..Cardinality(parts) :
          [kind |-> KindAt(stored(s)), bytes |-> bytes[stored(s)]] \in Section
    BY <1>0, <1>3, <1>8 DEF Section
  <2> QED BY <1>3, <2>1
<1>13. ASSUME NEW p \in Positions
       PROVE  /\ directory[p].section \in DOMAIN body
              /\ body[directory[p].section] = [kind |-> KindAt(p), bytes |-> directory[p].digest]
  <2>1. directory[p].section = section(p) /\ directory[p].digest = bytes[p]
    OBVIOUS
  <2>2. section(p) \in DOMAIN body
    BY <1>5
  <2>3. body[section(p)] = [kind |-> KindAt(first(p)), bytes |-> bytes[first(p)]]
    BY <1>9, <2>2
  <2> QED BY <1>2, <2>1, <2>2, <2>3
<1> HIDE DEF directory, body
<1>14. directory # NONE
  BY <1>11, NoneAssumption DEF Directory, Bytes
<1>15. /\ Image(bytes).header = directory /\ Image(bytes).directory = directory
       /\ Image(bytes).body = body
       /\ Image(bytes).checksum = <<directory, body, directory>>
       /\ Image(bytes) = [header |-> directory, body |-> body, directory |-> directory,
                          checksum |-> <<directory, body, directory>>]
  BY <1>10 DEF FileHash
<1>16. Image(bytes) \in File
  BY <1>11, <1>12, <1>15 DEF File, MaybeDirectory
<1>17. Intact(Image(bytes))
  BY <1>13, <1>14, <1>15 DEF Intact, FileHash
<1> QED BY <1>16, <1>17

\* What every process keeps of a file that is still in use.
LEMMA KeptFile ==
  ASSUME NEW contents \in [Inodes -> File]
  PROVE  /\ Kept(contents) \in [Inodes -> File]
         /\ \A i \in Inodes : i \in InUse' => Kept(contents)[i] = contents[i]
<1>1. Empty \in File
  BY DEF Empty, File, MaybeDirectory, Section
<1> HIDE DEF Empty
<1> QED BY <1>1 DEF Kept

\* A power loss leaves a block of the file or what was synced of it.
LEMMA SurvivesFile ==
  ASSUME DiskOK, NEW i \in Inodes, NEW lost \in SUBSET Blocks
  PROVE  /\ Survives(i, lost) \in File
         /\ durable[i] = cached[i] => Survives(i, lost) = cached[i]
<1> DEFINE c == cached[i]
           d == durable[i]
           h == IF "header" \in lost THEN d.header ELSE c.header
           b == IF "body" \in lost THEN d.body ELSE c.body
           y == IF "directory" \in lost THEN d.directory ELSE c.directory
           x == IF "checksum" \in lost THEN d.checksum ELSE c.checksum
<1>1. c \in File /\ d \in File
  BY DEF DiskOK
<1>2. Survives(i, lost) = [header |-> h, body |-> b, directory |-> y, checksum |-> x]
  BY DEF Survives, Blocks
<1> HIDE DEF c, d
<1>3. Survives(i, lost) \in File
  BY <1>1, <1>2 DEF File
<1>4. ASSUME d = c PROVE Survives(i, lost) = c
  <2>1. c = [header |-> c.header, body |-> c.body, directory |-> c.directory, checksum |-> c.checksum]
    BY <1>1 DEF File
  <2> QED BY <1>2, <1>4, <2>1
<1> QED BY <1>3, <1>4 DEF c, d

\* Every inode somebody refers to exists, and a new file gets one of the others.
LEMMA FreshInode ==
  ASSUME scenario \in Scenarios, DiskOK, Inodes # InUse
  PROVE  Fresh \in Inodes /\ Fresh \notin InUse
<1>1. InUse \subseteq Inodes
  BY DEF DiskOK, InUse, MaybeInode
<1>2. Inodes \ InUse # {} /\ Inodes \ InUse \subseteq Nat
  BY <1>1, ScenarioFacts
<1>3. \E i \in Inodes \ InUse : \A j \in Inodes \ InUse : i <= j
  <2> HIDE DEF InUse
  <2> QED BY <1>2, LeastNatural
<1> QED BY <1>3 DEF Fresh

\* Opening the temporary file: the inode it has, or a free one.
LEMMA OpenedInode ==
  ASSUME scenario \in Scenarios, DiskOK, NEW w \in Writers, Open(w)
  PROVE  \E i \in Inodes :
           /\ names[w] = NONE => i \notin InUse
           /\ names[w] # NONE => i = names[w]
           /\ names' = [names EXCEPT ![w] = i] /\ fd' = [fd EXCEPT ![w] = i]
           /\ cached' = [cached EXCEPT ![i] = Empty]
           /\ durable' = durable /\ bindings' = bindings
<1> DEFINE i == IF names[w] = NONE THEN Fresh ELSE names[w]
<1>1. names[w] \in MaybeInode
  BY DEF DiskOK, Paths
<1>2. names[w] = NONE => Inodes # InUse
  BY DEF Open, Container, Temporary
<1>3. i \in Inodes /\ (names[w] = NONE => i \notin InUse)
  BY <1>1, <1>2, FreshInode DEF MaybeInode
<1>4. /\ names' = [names EXCEPT ![w] = i] /\ fd' = [fd EXCEPT ![w] = i]
      /\ cached' = [cached EXCEPT ![i] = Empty]
      /\ durable' = durable /\ bindings' = bindings
  BY DEF Open, Container, Temporary
<1> QED BY <1>3, <1>4

\* The layer below the others: calls, types and open files.
FrameInv == CallInv /\ DiskOK /\ \A w \in Writers : Opened(w)

\* A step of one writer leaves the other writers where they are.
SameCall(v) ==
  /\ pc'[v] = pc[v] /\ fd'[v] = fd[v] /\ at'[v] = at[v] /\ buffer'[v] = buffer[v]
  /\ identity'[v] = identity[v] /\ table'[v] = table[v] /\ names'[v] = names[v]

\* The steps of writer w, and its death.
WriterMoves(w) ==
  \/ Begin(w) \/ Refuse(w) \/ BeginInMemory(w)
  \/ WriterStep(w)
  \/ Unreadable(w) \/ Abort(w) \/ Kill(w)

\* A step of w leaves every other writer where it was.
LEMMA OthersKept ==
  ASSUME FrameInv, scenario' = scenario, NEW w \in Writers, WriterMoves(w),
         NEW v \in Writers \ {w}
  PROVE  SameCall(v)
<1>0. /\ pc \in [Writers -> Locations] /\ at \in [Writers -> Positions]
      /\ buffer \in [Writers -> Bytes] /\ identity \in [Writers -> Seq(Bytes)]
      /\ table \in [Writers -> Directory] /\ fd \in [Writers -> MaybeInode]
      /\ names \in [Paths -> MaybeInode] /\ v \in Writers /\ v \in Paths /\ w \in Paths
      /\ v # "destination" /\ w # "destination" /\ scenario \in Scenarios /\ DiskOK
  BY ScenarioFacts DEF FrameInv, CallInv, CallsOK, DiskOK, Paths
<1> USE DEF SameCall, local, disk, Goto, Leave, ReadChunk
<1>1. CASE \/ Begin(w) \/ Refuse(w) \/ BeginInMemory(w) \/ Unreadable(w) \/ Abort(w) \/ Kill(w)
  BY <1>0, <1>1 DEF Begin, Refuse, BeginInMemory, Unreadable, Abort, Kill
<1>2. CASE DigestChunk(w) \/ DigestEnd(w) \/ PlanChunk(w)
  BY <1>0, <1>2 DEF DigestChunk, DigestEnd, PlanChunk
<1>3. CASE ValidateKernels(w) \/ PlanEnd(w)
  BY <1>0, <1>3 DEF ValidateKernels, PlanEnd
<1>4. CASE OpenTemporary(w) \/ OpenInMemory(w)
  <2>1. Open(w) /\ pc'[v] = pc[v] /\ UNCHANGED <<at, buffer, identity, table>>
    BY <1>0, <1>4 DEF OpenTemporary, OpenInMemory, Open
  <2>2. \E i \in Inodes : names' = [names EXCEPT ![w] = i] /\ fd' = [fd EXCEPT ![w] = i]
    BY <1>0, <2>1, OpenedInode
  <2> QED BY <1>0, <2>1, <2>2
<1>5. CASE ReuseSection(w) \/ CopyEnd(w)
  <2>1. CASE ReuseSection(w)
    BY SMTT(60), <1>0, <2>1 DEF ReuseSection, Advance
  <2>2. CASE CopyEnd(w)
    BY SMTT(60), <1>0, <2>2 DEF CopyEnd, Advance
  <2> QED BY <1>5, <2>1, <2>2
<1>6. CASE StartSection(w) \/ CopyChunk(w) \/ WriteDirectory(w) \/ WriteHeader(w) \/ WriteInMemory(w)
  BY <1>0, <1>6 DEF StartSection, CopyChunk, WriteDirectory, WriteHeader, WriteInMemory, Write
<1>7. CASE SyncContainer(w) \/ WriteChecksum(w) \/ SyncChecksum(w) \/ SyncInMemory(w)
  BY <1>0, <1>7 DEF SyncContainer, WriteChecksum, SyncChecksum, SyncInMemory, Sync
<1>8. CASE Replace(w) \/ Verify(w) \/ Cleanup(w)
  BY <1>0, <1>8 DEF Replace, Verify, Cleanup, Temporary
<1> QED
  BY <1>1, <1>2, <1>3, <1>4, <1>5, <1>6, <1>7, <1>8 DEF WriterMoves, WriterStep

\* What a writer writes is a file again, and it writes to its own.
LEMMA WriteTyped ==
  ASSUME FrameInv, scenario' = scenario, NEW w \in Writers,
         \/ StartSection(w) \/ CopyChunk(w) \/ WriteDirectory(w) \/ WriteHeader(w)
         \/ WriteInMemory(w) \/ WriteChecksum(w)
  PROVE  /\ fd[w] \in Inodes /\ fd[w] = names[w] /\ fd' = fd /\ Written(w) \in File
         /\ \E g \in File : cached' = [cached EXCEPT ![fd[w]] = g]
         /\ names' = names /\ durable' = durable /\ bindings' = bindings /\ mapped' = mapped
         /\ pc[w] \in Streaming \cup FromMemory /\ pc'[w] \in Streaming \cup FromMemory
<1>0. CallInv /\ DiskOK /\ Opened(w) /\ CallsOK /\ Progress(w)
  BY DEF FrameInv, CallInv
<1>1. pc[w] \in Streaming \cup FromMemory /\ pc'[w] \in Streaming \cup FromMemory
  <2>1. pc \in [Writers -> Locations]
    BY <1>0 DEF CallsOK
  <2> QED
    BY <2>1 DEF StartSection, CopyChunk, WriteDirectory, WriteHeader, WriteInMemory, WriteChecksum,
                Goto, Streaming, FromMemory
<1>2. fd[w] \in Inodes /\ fd[w] = names[w] /\ Written(w) \in File
  BY <1>0, <1>1, WrittenTyped
<1>3. Written(w) = cached[fd[w]] /\ Container(w) = fd[w]
  BY <1>2 DEF Written, Container, Temporary
<1>4. /\ names' = names /\ durable' = durable /\ bindings' = bindings /\ mapped' = mapped
      /\ fd' = fd
  <2>1. fd = [fd EXCEPT ![w] = fd[w]]
    BY <1>0 DEF DiskOK
  <2> QED
    BY <1>3, <2>1 DEF StartSection, CopyChunk, WriteDirectory, WriteHeader, WriteInMemory,
                      WriteChecksum, local, environment
<1> DEFINE f == Written(w)
<1>5. /\ f \in File /\ f.body \in Seq(Section)
      /\ f.header \in MaybeDirectory /\ f.directory \in MaybeDirectory
      /\ f = [header |-> f.header, body |-> f.body, directory |-> f.directory,
              checksum |-> f.checksum]
  BY <1>2 DEF File
<1>6. table[w] \in MaybeDirectory /\ at[w] \in Positions
  BY <1>0 DEF CallsOK, MaybeDirectory
<1> HIDE DEF f
<1>7. \E g \in File : cached' = [cached EXCEPT ![fd[w]] = g]
  <2>1. CASE StartSection(w)
    <3> DEFINE part == [kind |-> KindAt(at[w]), bytes |-> <<>>]
               g == [f EXCEPT !.body = Append(@, part)]
    <3>1. part \in Section
      BY <1>0, <1>6, PositionFacts DEF CallsOK, Section, Bytes
    <3> HIDE DEF part
    <3>2. Append(f.body, part) \in Seq(Section)
      BY <1>5, <3>1, AppendFacts
    <3>3. g \in File
      BY <1>5, <3>2 DEF File
    <3>4. cached' = [cached EXCEPT ![fd[w]] = g]
      BY <2>1 DEF StartSection, Write, f, part
    <3> QED BY <3>3, <3>4
  <2>2. CASE CopyChunk(w)
    <3> DEFINE n == Len(f.body)
               b == [f.body EXCEPT ![n].bytes = buffer'[w]]
               g == [f EXCEPT !.body[Len(f.body)].bytes = buffer'[w]]
    <3>1. buffer'[w] \in Bytes
      BY <1>0, <2>2, ReadTyped DEF CopyChunk
    <3>2. b \in Seq(Section)
      <4>1. ASSUME n \in DOMAIN f.body PROVE [f.body[n] EXCEPT !.bytes = buffer'[w]] \in Section
        <5>1. f.body[n] \in Section
          BY <1>5, <4>1
        <5> QED BY <3>1, <5>1 DEF Section
      <4> HIDE DEF n
      <4>2. b = [f.body EXCEPT ![n] = [f.body[n] EXCEPT !.bytes = buffer'[w]]]
        OBVIOUS
      <4> QED BY <1>5, <4>1, <4>2, ReplaceElement
    <3>3. g = [f EXCEPT !.body = b]
      BY <1>5
    <3> HIDE DEF b
    <3>4. g \in File
      BY <1>5, <3>2, <3>3 DEF File
    <3>5. cached' = [cached EXCEPT ![fd[w]] = g]
      BY <2>2 DEF CopyChunk, Write, f
    <3> QED BY <3>4, <3>5
  <2>3. CASE WriteDirectory(w)
    <3>1. [f EXCEPT !.directory = table[w]] \in File
      BY <1>5, <1>6 DEF File
    <3> QED BY <2>3, <3>1 DEF WriteDirectory, Write, f
  <2>4. CASE WriteHeader(w)
    <3>1. [f EXCEPT !.header = table[w]] \in File
      BY <1>5, <1>6 DEF File
    <3> QED BY <2>4, <3>1 DEF WriteHeader, Write, f
  <2>5. CASE WriteInMemory(w)
    <3>1. Len(identity[w]) = 3 * Len(Variants) /\ identity[w] \in Seq(Bytes)
      BY <1>0, <2>5 DEF CallsOK, Progress, Fits, WriteInMemory, FromMemory
    <3>2. Image(identity[w]) \in File
      BY <1>0, <3>1, ImageIntact DEF CallsOK
    <3> QED BY <2>5, <3>2 DEF WriteInMemory, Write
  <2>6. CASE WriteChecksum(w)
    <3> DEFINE hash == FileHash(f)
               g == [f EXCEPT !.checksum = hash]
    <3>1. hash \in MaybeDirectory \X Seq(Section) \X MaybeDirectory
      BY <1>5 DEF FileHash
    <3> HIDE DEF hash
    <3>2. g \in File
      BY <1>5, <3>1 DEF File
    <3>3. cached' = [cached EXCEPT ![fd[w]].checksum = FileHash(cached[fd[w]])]
      BY <1>3, <2>6 DEF WriteChecksum
    <3>4. cached' = [cached EXCEPT ![fd[w]] = g]
      BY <1>3, <3>3 DEF f, hash
    <3> QED BY <3>2, <3>4
  <2> QED BY <2>1, <2>2, <2>3, <2>4, <2>5, <2>6
<1> QED BY <1>1, <1>2, <1>4, <1>7

\* Every step of a writer keeps the disk's types and its own file open.
LEMMA WriterDisk ==
  ASSUME FrameInv, scenario' = scenario, NEW w \in Writers, WriterMoves(w)
  PROVE  DiskOK' /\ Opened(w)'
<1> USE SameScenario DEF local, disk, environment, Goto
<1>0. /\ scenario \in Scenarios /\ CallInv /\ DiskOK /\ Opened(w) /\ CallsOK
      /\ w \in Paths /\ w # "destination" /\ Paths' = Paths /\ Inodes' = Inodes
      /\ Writers' = Writers /\ MaybeInode' = MaybeInode /\ pc \in [Writers -> Locations]
      /\ NONE \in MaybeInode /\ NONE \notin Inodes /\ "destination" \in Paths
  BY ScenarioFacts, SameScenario DEF FrameInv, CallInv, CallsOK, Paths, MaybeInode
<1>1. /\ names \in [Paths -> MaybeInode] /\ fd \in [Writers -> MaybeInode]
      /\ cached \in [Inodes -> File] /\ durable \in [Inodes -> File]
      /\ bindings \subseteq MaybeInode /\ mapped \subseteq [inode : Inodes, bytes : File]
  BY <1>0 DEF DiskOK
<1>2. ASSUME UNCHANGED <<names, cached, durable, bindings, mapped>>,
             \/ fd' = fd /\ (pc[w] \in Streaming \cup FromMemory <=> pc'[w] \in Streaming \cup FromMemory)
             \/ fd' = [fd EXCEPT ![w] = NONE] /\ pc'[w] \notin Streaming \cup FromMemory
      PROVE  DiskOK' /\ Opened(w)'
  BY <1>0, <1>1, <1>2 DEF DiskOK, Opened
<1>3. CASE \/ Begin(w) \/ Refuse(w) \/ BeginInMemory(w) \/ Unreadable(w) \/ Abort(w) \/ Kill(w)
           \/ DigestChunk(w) \/ DigestEnd(w) \/ PlanChunk(w) \/ ValidateKernels(w) \/ PlanEnd(w)
           \/ Verify(w)
  <2>1. UNCHANGED <<names, cached, durable, bindings, mapped>>
    BY <1>3 DEF Begin, Refuse, BeginInMemory, Unreadable, Abort, Kill, DigestChunk, DigestEnd,
                PlanChunk, ValidateKernels, PlanEnd, Verify
  <2>2. \/ fd' = fd /\ (pc[w] \in Streaming \cup FromMemory <=> pc'[w] \in Streaming \cup FromMemory)
        \/ fd' = [fd EXCEPT ![w] = NONE] /\ pc'[w] \notin Streaming \cup FromMemory
    BY <1>0, <1>3 DEF Begin, Refuse, BeginInMemory, Unreadable, Abort, Kill, DigestChunk,
                      DigestEnd, PlanChunk, ValidateKernels, PlanEnd, Verify, Leave,
                      Streaming, FromMemory
  <2> QED BY <1>2, <2>1, <2>2
<1>4. CASE ReuseSection(w) \/ CopyEnd(w)
  <2>1. UNCHANGED <<names, cached, durable, bindings, mapped>>
    BY <1>4 DEF ReuseSection, CopyEnd
  <2>2. \/ fd' = fd /\ (pc[w] \in Streaming \cup FromMemory <=> pc'[w] \in Streaming \cup FromMemory)
        \/ fd' = [fd EXCEPT ![w] = NONE] /\ pc'[w] \notin Streaming \cup FromMemory
    BY <1>0, <1>4 DEF ReuseSection, CopyEnd, Advance, Leave, Streaming, FromMemory
  <2> QED BY <1>2, <2>1, <2>2
<1>5. CASE OpenTemporary(w) \/ OpenInMemory(w)
  <2>1. Open(w) /\ mapped' = mapped /\ pc'[w] \in {"section", "write_memory"}
    BY <1>0, <1>5 DEF OpenTemporary, OpenInMemory
  <2>2. PICK i \in Inodes :
          /\ names' = [names EXCEPT ![w] = i] /\ fd' = [fd EXCEPT ![w] = i]
          /\ cached' = [cached EXCEPT ![i] = Empty]
          /\ durable' = durable /\ bindings' = bindings
    BY <1>0, <2>1, OpenedInode
  <2>3. Empty \in File
    BY DEF Empty, File, MaybeDirectory, Section
  <2> HIDE DEF Empty
  <2> QED BY <1>0, <1>1, <2>1, <2>2, <2>3 DEF DiskOK, Opened, MaybeInode, Streaming, FromMemory
<1>6. CASE \/ StartSection(w) \/ CopyChunk(w) \/ WriteDirectory(w) \/ WriteHeader(w)
           \/ WriteInMemory(w) \/ WriteChecksum(w)
  <2>1. /\ fd[w] \in Inodes /\ fd[w] = names[w] /\ fd' = fd
        /\ \E g \in File : cached' = [cached EXCEPT ![fd[w]] = g]
        /\ names' = names /\ durable' = durable /\ bindings' = bindings /\ mapped' = mapped
        /\ pc[w] \in Streaming \cup FromMemory /\ pc'[w] \in Streaming \cup FromMemory
    BY <1>6, WriteTyped
  <2> QED BY <1>0, <1>1, <2>1 DEF DiskOK, Opened
<1>7. CASE SyncContainer(w) \/ SyncChecksum(w) \/ SyncInMemory(w)
  <2>1. /\ pc[w] \in Streaming \cup FromMemory /\ pc'[w] \in Streaming \cup FromMemory
        /\ Sync(w) /\ fd' = fd /\ mapped' = mapped
    BY <1>0, <1>7 DEF SyncContainer, SyncChecksum, SyncInMemory, Streaming, FromMemory
  <2>2. Written(w) \in File
    BY <1>0, <2>1, WrittenTyped
  <2> QED BY <1>0, <1>1, <2>1, <2>2 DEF DiskOK, Opened, Sync
<1>8. CASE Replace(w) \/ Cleanup(w)
  <2>1. /\ Release /\ mapped' = mapped
        /\ \/ fd' = [fd EXCEPT ![w] = NONE]
           \/ fd' = fd /\ fd[w] = NONE
        /\ pc'[w] \notin Streaming \cup FromMemory
    BY <1>0, <1>8 DEF Replace, Cleanup, Leave, Opened, Streaming, FromMemory
  <2>2. cached' \in [Inodes -> File] /\ durable' \in [Inodes -> File]
    BY <1>1, <2>1, KeptFile DEF Release
  <2>3. names' \in [Paths -> MaybeInode] /\ bindings' \subseteq MaybeInode
    BY <1>0, <1>1, <1>8 DEF Replace, Cleanup, Container, Temporary
  <2> QED BY <1>0, <1>1, <2>1, <2>2, <2>3 DEF DiskOK, Opened
<1> QED
  BY <1>3, <1>4, <1>5, <1>6, <1>7, <1>8 DEF WriterMoves, WriterStep

\* So does every step of somebody else.
LEMMA OtherFrame ==
  ASSUME FrameInv, scenario' = scenario,
         (\E q \in Payloads : Edit(q)) \/ LoadModel \/ DestroyModel \/ PowerLoss \/ Writeback
  PROVE  FrameInv'
<1> USE SameScenario DEF local, disk, environment
<1>0. /\ scenario \in Scenarios /\ CallInv /\ DiskOK /\ CallsOK
      /\ Paths' = Paths /\ Inodes' = Inodes /\ Payloads' = Payloads
      /\ Positions' = Positions /\ MaxEdits' = MaxEdits
      /\ Writers' = Writers /\ MaybeInode' = MaybeInode /\ Variants' = Variants
      /\ NONE \in MaybeInode /\ NONE \notin Inodes /\ "destination" \in Paths
      /\ "destination" \notin Writers /\ MaxEdits \in Nat
      /\ \A w \in Writers : Opened(w) /\ Progress(w)
  BY ScenarioFacts, SameScenario DEF FrameInv, CallInv, CallsOK, Paths, MaybeInode
<1>1. /\ names \in [Paths -> MaybeInode] /\ fd \in [Writers -> MaybeInode]
      /\ cached \in [Inodes -> File] /\ durable \in [Inodes -> File]
      /\ bindings \subseteq MaybeInode /\ mapped \subseteq [inode : Inodes, bytes : File]
  BY <1>0 DEF DiskOK
<1>2. ASSUME UNCHANGED <<pc, local, names>>
      PROVE  \A w \in Writers : Opened(w)' /\ Progress(w)'
  BY <1>0, <1>2 DEF Opened, Progress, Fits
<1>3. ASSUME UNCHANGED <<pc, at, buffer, identity, table, payload, leftover, edits, crashes>>
      PROVE  CallsOK'
  BY <1>0, <1>3 DEF CallsOK
<1>4. CASE \E q \in Payloads : Edit(q)
  <2>1. PICK q \in Payloads : Edit(q)
    BY <1>4
  <2>2. payload' \in [Payloads -> Bytes] /\ edits' \in 0..MaxEdits
    BY <1>0, <2>1, ScenarioFacts DEF Edit, CallsOK
  <2>3. CallsOK'
    BY <1>0, <2>1, <2>2 DEF Edit, CallsOK
  <2>4. DiskOK'
    BY <1>0, <1>1, <2>1 DEF Edit, DiskOK
  <2>5. UNCHANGED <<pc, local, names>>
    BY <2>1 DEF Edit
  <2> QED BY <1>0, <1>2, <2>3, <2>4, <2>5 DEF FrameInv, CallInv
<1>5. CASE LoadModel
  <2>1. mapped' \subseteq [inode : Inodes, bytes : File]
    BY <1>0, <1>1, <1>5 DEF LoadModel, MaybeInode
  <2>2. DiskOK' /\ CallsOK'
    BY <1>0, <1>1, <1>3, <1>5, <2>1 DEF LoadModel, DiskOK
  <2>3. UNCHANGED <<pc, local, names>>
    BY <1>5 DEF LoadModel
  <2> QED BY <1>0, <1>2, <2>2, <2>3 DEF FrameInv, CallInv
<1>6. CASE DestroyModel \/ Writeback
  <2>1. /\ Release /\ mapped' \subseteq mapped /\ names' = names
        /\ bindings' \subseteq MaybeInode
        /\ UNCHANGED <<pc, fd, at, buffer, identity, table, payload, leftover, edits, crashes>>
    BY <1>0, <1>1, <1>6 DEF DestroyModel, Writeback
  <2>2. cached' \in [Inodes -> File] /\ durable' \in [Inodes -> File]
    BY <1>1, <2>1, KeptFile DEF Release
  <2>3. DiskOK' /\ CallsOK'
    BY <1>0, <1>1, <1>3, <2>1, <2>2 DEF DiskOK
  <2> QED BY <1>0, <1>2, <2>1, <2>3 DEF FrameInv, CallInv
<1>7. CASE PowerLoss
  <2>1. PICK lost \in SUBSET Blocks : cached' = Kept([i \in Inodes |-> Survives(i, lost)])
    BY <1>7 DEF PowerLoss
  <2>2. [i \in Inodes |-> Survives(i, lost)] \in [Inodes -> File]
    BY <1>0, SurvivesFile
  <2>3. cached' \in [Inodes -> File] /\ durable' \in [Inodes -> File]
    BY <1>7, <2>1, <2>2, KeptFile DEF PowerLoss
  <2>4. /\ names' \in [Paths -> MaybeInode] /\ bindings' \subseteq MaybeInode
        /\ fd' = [w \in Writers |-> NONE] /\ mapped' = {}
    BY <1>0, <1>1, <1>7 DEF PowerLoss
  <2>5. DiskOK'
    BY <1>0, <2>3, <2>4 DEF DiskOK
  <2>6. /\ pc' = [w \in Writers |-> "idle"] /\ at' = [w \in Writers |-> 1]
        /\ buffer' = [w \in Writers |-> <<>>] /\ identity' = [w \in Writers |-> <<>>]
        /\ table' = [w \in Writers |-> <<>>] /\ payload' = payload /\ edits' = edits
        /\ leftover' \subseteq Writers /\ crashes' \in Nat
    BY <1>0, <1>7 DEF PowerLoss, CallsOK
  <2>7. CallsOK'
    <3>1. <<>> \in Bytes /\ <<>> \in Seq(Bytes) /\ <<>> \in Directory /\ "idle" \in Locations
      BY DEF Bytes, Directory, Locations, Quiet
    <3>2. 1 \in Positions
      BY <1>0, FirstPosition
    <3> QED BY <1>0, <2>6, <3>1, <3>2 DEF CallsOK
  <2>8. \A w \in Writers : Opened(w)' /\ Progress(w)'
    BY <1>0, <2>4, <2>6 DEF Opened, Progress, Fits, Quiet, Streaming, FromMemory
  <2> QED BY <1>0, <2>5, <2>7, <2>8 DEF FrameInv, CallInv
<1> QED BY <1>4, <1>5, <1>6, <1>7

\* The types, the calls and the open files: together they are inductive.
LEMMA FrameStep ==
  ASSUME FrameInv, [Next]_vars
  PROVE  FrameInv'
<1>1. CASE UNCHANGED vars
  BY <1>1, SameScenario
  DEF vars, local, disk, environment, FrameInv, CallInv, CallsOK, DiskOK, Opened, Progress, Fits
<1>2. ASSUME scenario' = scenario, NEW w \in Writers, WriterMoves(w)
      PROVE  FrameInv'
  <2>1. CallInv /\ DiskOK /\ Opened(w)
    BY DEF FrameInv
  <2>2. CallInv'
    BY <1>2, <2>1, ReadingCalls, AssemblingCalls DEF WriterMoves, WriterStep
  <2>3. DiskOK' /\ Opened(w)'
    BY <1>2, WriterDisk
  <2>4. ASSUME NEW v \in Writers, v # w PROVE Opened(v)'
    BY <1>2, <2>4, OthersKept DEF SameCall, Opened, FrameInv
  <2> QED BY <1>2, <2>2, <2>3, <2>4, SameScenario DEF FrameInv
<1> QED
  BY <1>1, <1>2, OtherFrame DEF Next, Step, WriterMoves

-----------------------------------------------------------------------------
(* Layer three: whose inode is whose. *)

\* The destination's inode may survive a crash, and temporaries are owned.
OwnerInv ==
  /\ names["destination"] \in bindings
  /\ \A w \in Writers : Owned(w)

\* An inode in use, as the other definitions see it.
LEMMA NotInUse ==
  ASSUME NEW i \in Inodes, i \notin InUse, NONE \notin Inodes
  PROVE  /\ i \notin bindings
         /\ \A m \in mapped : m.inode # i
         /\ \A v \in Paths : names[v] # i
BY DEF InUse

\* Opening a temporary file takes nobody's inode.
LEMMA OpenOwned ==
  ASSUME FrameInv, OwnerInv, scenario' = scenario, NEW w \in Writers, Open(w),
         mapped' = mapped
  PROVE  OwnerInv'
<1>0. /\ scenario \in Scenarios /\ DiskOK /\ Writers' = Writers /\ NONE \notin Inodes
      /\ names \in [Paths -> MaybeInode] /\ "destination" \notin Writers
      /\ Paths = {"destination"} \cup Writers
  BY ScenarioFacts, SameScenario DEF FrameInv, CallInv, CallsOK, DiskOK, Paths
<1>1. PICK i \in Inodes :
        /\ names[w] = NONE => i \notin InUse
        /\ names[w] # NONE => i = names[w]
        /\ names' = [names EXCEPT ![w] = i] /\ fd' = [fd EXCEPT ![w] = i]
        /\ cached' = [cached EXCEPT ![i] = Empty]
        /\ durable' = durable /\ bindings' = bindings
  BY <1>0, OpenedInode
<1>2. /\ i \notin bindings /\ i # NONE
      /\ \A m \in mapped : m.inode # i
      /\ \A v \in Writers : v # w => names[v] # i
  <2>1. CASE names[w] = NONE
    BY <1>0, <1>1, <2>1, NotInUse
  <2>2. CASE names[w] # NONE
    BY <1>0, <1>1, <2>2 DEF OwnerInv, Owned
  <2> QED BY <2>1, <2>2
<1>3. names'["destination"] \in bindings'
  BY <1>0, <1>1 DEF OwnerInv
<1>4. ASSUME NEW v \in Writers PROVE Owned(v)'
  <2>1. names'[v] = IF v = w THEN i ELSE names[v]
    BY <1>0, <1>1
  <2>2. \A u \in Writers : names'[u] = IF u = w THEN i ELSE names[u]
    BY <1>0, <1>1
  <2>3. Owned(v)
    BY DEF OwnerInv
  <2> QED BY <1>0, <1>1, <1>2, <2>1, <2>2, <2>3 DEF Owned
<1> QED BY <1>0, <1>3, <1>4 DEF OwnerInv

\* No step gives a temporary file's inode away before the file is published.
LEMMA OwnerStep ==
  ASSUME FrameInv, OwnerInv, [Next]_vars
  PROVE  OwnerInv'
<1> USE DEF local, disk, environment
<1>1. CASE UNCHANGED vars
  BY <1>1, SameScenario DEF vars, OwnerInv, Owned
<1>2. CASE Next
  <2>0. /\ scenario \in Scenarios /\ DiskOK /\ NONE \notin Inodes
        /\ names \in [Paths -> MaybeInode] /\ "destination" \notin Writers
        /\ Paths = {"destination"} \cup Writers /\ scenario' = scenario /\ Writers' = Writers
    BY <1>2, ScenarioFacts, SameScenario DEF FrameInv, CallInv, CallsOK, DiskOK, Paths, Next
  <2>1. ASSUME names' = names, bindings' = bindings, mapped' \subseteq mapped
        PROVE  OwnerInv'
    BY <2>0, <2>1 DEF OwnerInv, Owned
  <2>2. ASSUME NEW w \in Writers, WriterMoves(w) PROVE OwnerInv'
    <3>1. CASE \/ Begin(w) \/ Refuse(w) \/ BeginInMemory(w) \/ Unreadable(w) \/ Abort(w) \/ Kill(w)
               \/ DigestChunk(w) \/ DigestEnd(w) \/ PlanChunk(w) \/ ValidateKernels(w) \/ PlanEnd(w)
               \/ Verify(w) \/ ReuseSection(w) \/ CopyEnd(w)
      <4>1. names' = names /\ bindings' = bindings /\ mapped' = mapped
        BY <3>1 DEF Begin, Refuse, BeginInMemory, Unreadable, Abort, Kill, DigestChunk, DigestEnd,
                    PlanChunk, ValidateKernels, PlanEnd, Verify, ReuseSection, CopyEnd
      <4> QED BY <2>1, <4>1
    <3>2. CASE OpenTemporary(w) \/ OpenInMemory(w)
      <4>1. Open(w) /\ mapped' = mapped
        BY <3>2 DEF OpenTemporary, OpenInMemory
      <4> QED BY <2>0, <4>1, OpenOwned
    <3>3. CASE \/ StartSection(w) \/ CopyChunk(w) \/ WriteDirectory(w) \/ WriteHeader(w)
               \/ WriteInMemory(w) \/ WriteChecksum(w)
      <4>1. names' = names /\ bindings' = bindings /\ mapped' = mapped
        BY <2>0, <3>3, WriteTyped
      <4> QED BY <2>1, <4>1
    <3>4. CASE SyncContainer(w) \/ SyncChecksum(w) \/ SyncInMemory(w)
      <4>1. names' = names /\ bindings' = bindings /\ mapped' = mapped
        BY <3>4 DEF SyncContainer, SyncChecksum, SyncInMemory, Sync
      <4> QED BY <2>1, <4>1
    <3>5. CASE Replace(w)
      <4>1. /\ names' = [names EXCEPT ![w] = NONE, !["destination"] = names[w]]
            /\ bindings' = bindings \cup {names[w]} /\ mapped' = mapped /\ names[w] # NONE
        BY <3>5 DEF Replace, Temporary, Container
      <4>2. names'["destination"] = names[w]
        BY <2>0, <4>1
      <4>3. \A v \in Writers : names'[v] = IF v = w THEN NONE ELSE names[v]
        BY <2>0, <4>1
      <4> QED BY <2>0, <4>1, <4>2, <4>3 DEF OwnerInv, Owned
    <3>6. CASE Cleanup(w)
      <4>1. /\ names' = [names EXCEPT ![w] = NONE] /\ bindings' = bindings /\ mapped' = mapped
        BY <3>6 DEF Cleanup, Temporary
      <4>2. names'["destination"] = names["destination"]
        BY <2>0, <4>1
      <4>3. \A v \in Writers : names'[v] = IF v = w THEN NONE ELSE names[v]
        BY <2>0, <4>1
      <4> QED BY <2>0, <4>1, <4>2, <4>3 DEF OwnerInv, Owned
    <3> QED
      BY <2>2, <3>1, <3>2, <3>3, <3>4, <3>5, <3>6 DEF WriterMoves, WriterStep
  <2>3. CASE \E q \in Payloads : Edit(q)
    BY <2>1, <2>3 DEF Edit
  <2>4. CASE LoadModel
    BY <2>0, <2>4 DEF LoadModel, OwnerInv, Owned
  <2>5. CASE DestroyModel
    BY <2>1, <2>5 DEF DestroyModel
  <2>6. CASE PowerLoss
    <3>1. PICK i \in bindings : names' = [names EXCEPT !["destination"] = i] /\ bindings' = {i}
      BY <2>6 DEF PowerLoss
    <3>2. names'["destination"] = i /\ \A v \in Writers : names'[v] = names[v]
      BY <2>0, <3>1
    <3> QED BY <2>0, <2>6, <3>1, <3>2 DEF PowerLoss, OwnerInv, Owned
  <2>7. CASE Writeback
    <3>1. names' = names /\ bindings' = {names["destination"]} /\ mapped' = mapped
      BY <2>7 DEF Writeback
    <3> QED BY <2>0, <3>1 DEF OwnerInv, Owned
  <2> QED
    BY <1>2, <2>2, <2>3, <2>4, <2>5, <2>6, <2>7 DEF Next, Step, WriterMoves
<1> QED BY <1>1, <1>2

\* A temporary file is removed by the call that made it, unless that is killed.
LEMMA TemporaryStep ==
  ASSUME FrameInv, TemporaryOwned, [Next]_vars
  PROVE  TemporaryOwned'
<1> USE DEF local, disk, environment, Goto, TemporaryOwned, Assembling
<1>0. /\ pc \in [Writers -> Locations] /\ scenario \in Scenarios
      /\ names \in [Paths -> MaybeInode] /\ "destination" \notin Writers
      /\ Paths = {"destination"} \cup Writers
  BY ScenarioFacts DEF FrameInv, CallInv, CallsOK, DiskOK, Paths
<1>1. CASE UNCHANGED vars
  BY <1>1, SameScenario DEF vars
<1>2. CASE Next
  <2>0. scenario' = scenario /\ Writers' = Writers
    BY <1>2, SameScenario DEF Next
  <2>1. ASSUME NEW w \in Writers, WriterMoves(w) PROVE TemporaryOwned'
    <3>1. /\ leftover \ {w} \subseteq leftover'
          /\ \/ names'[w] = NONE
             \/ pc'[w] \in Assembling \cup {"cleanup"}
             \/ w \in leftover'
             \/ /\ names'[w] = names[w] /\ pc[w] \notin Assembling \cup {"cleanup"}
                /\ leftover' = leftover
      <4>1. CASE \/ Begin(w) \/ Refuse(w) \/ BeginInMemory(w) \/ Unreadable(w) \/ Abort(w) \/ Kill(w)
        BY <1>0, <4>1 DEF Begin, Refuse, BeginInMemory, Unreadable, Abort, Kill, Leave
      <4>2. CASE DigestChunk(w) \/ DigestEnd(w) \/ PlanChunk(w) \/ ValidateKernels(w) \/ PlanEnd(w)
                 \/ Verify(w)
        BY <1>0, <4>2 DEF DigestChunk, DigestEnd, PlanChunk, ValidateKernels, PlanEnd, Verify, Leave
      <4>3. CASE OpenTemporary(w) \/ OpenInMemory(w)
        BY <1>0, <4>3 DEF OpenTemporary, OpenInMemory
      <4>4. CASE ReuseSection(w) \/ CopyEnd(w) \/ StartSection(w) \/ CopyChunk(w)
        BY <1>0, <4>4 DEF ReuseSection, CopyEnd, StartSection, CopyChunk, Advance, Leave
      <4>5. CASE \/ WriteDirectory(w) \/ WriteHeader(w) \/ WriteInMemory(w) \/ WriteChecksum(w)
                 \/ SyncContainer(w) \/ SyncChecksum(w) \/ SyncInMemory(w)
        BY <1>0, <4>5 DEF WriteDirectory, WriteHeader, WriteInMemory, WriteChecksum,
                          SyncContainer, SyncChecksum, SyncInMemory
      <4>6. CASE Replace(w) \/ Cleanup(w)
        BY <1>0, <4>6 DEF Replace, Cleanup, Temporary
      <4> QED
        BY <2>1, <4>1, <4>2, <4>3, <4>4, <4>5, <4>6 DEF WriterMoves, WriterStep
    <3>2. ASSUME NEW v \in Writers, v # w PROVE SameCall(v)
      BY <2>0, <2>1, <3>2, OthersKept
    <3> QED BY <2>0, <3>1, <3>2 DEF SameCall
  <2>2. CASE (\E q \in Payloads : Edit(q)) \/ LoadModel \/ DestroyModel \/ Writeback
    BY <2>0, <2>2 DEF Edit, LoadModel, DestroyModel, Writeback
  <2>3. CASE PowerLoss
    <3>1. \A v \in Writers : names'[v] = names[v]
      BY <1>0, <2>3 DEF PowerLoss
    <3> QED BY <1>0, <2>0, <2>3, <3>1 DEF PowerLoss
  <2> QED
    BY <1>2, <2>1, <2>2, <2>3 DEF Next, Step, WriterMoves
<1> QED BY <1>1, <1>2

-----------------------------------------------------------------------------
(* Layer four: what the files hold. *)

\* A step of one writer leaves every other file in use as it is.
LEMMA FileKept ==
  ASSUME FrameInv, scenario' = scenario, NEW w \in Writers, WriterMoves(w),
         NEW i \in Inodes, i # names[w], i \in InUse, i \in InUse'
  PROVE  cached'[i] = cached[i] /\ durable'[i] = durable[i]
<1> USE DEF local, disk, environment
<1>0. /\ scenario \in Scenarios /\ DiskOK /\ Opened(w) /\ CallInv
      /\ cached \in [Inodes -> File] /\ durable \in [Inodes -> File]
  BY DEF FrameInv, CallInv, CallsOK, DiskOK
<1> HIDE DEF InUse
<1>1. CASE \/ Begin(w) \/ Refuse(w) \/ BeginInMemory(w) \/ Unreadable(w) \/ Abort(w) \/ Kill(w)
           \/ DigestChunk(w) \/ DigestEnd(w) \/ PlanChunk(w) \/ ValidateKernels(w) \/ PlanEnd(w)
           \/ Verify(w) \/ ReuseSection(w) \/ CopyEnd(w)
  BY <1>1 DEF Begin, Refuse, BeginInMemory, Unreadable, Abort, Kill, DigestChunk, DigestEnd,
              PlanChunk, ValidateKernels, PlanEnd, Verify, ReuseSection, CopyEnd
<1>2. CASE OpenTemporary(w) \/ OpenInMemory(w)
  <2>1. Open(w)
    BY <1>2 DEF OpenTemporary, OpenInMemory
  <2>2. PICK j \in Inodes :
          /\ names[w] = NONE => j \notin InUse
          /\ names[w] # NONE => j = names[w]
          /\ cached' = [cached EXCEPT ![j] = Empty] /\ durable' = durable
    BY <1>0, <2>1, OpenedInode
  <2> QED BY <1>0, <2>2
<1>3. CASE \/ StartSection(w) \/ CopyChunk(w) \/ WriteDirectory(w) \/ WriteHeader(w)
           \/ WriteInMemory(w) \/ WriteChecksum(w)
  <2>1. /\ fd[w] = names[w] /\ durable' = durable
        /\ \E g \in File : cached' = [cached EXCEPT ![fd[w]] = g]
    BY <1>3, WriteTyped
  <2> QED BY <1>0, <2>1
<1>4. CASE SyncContainer(w) \/ SyncChecksum(w) \/ SyncInMemory(w)
  <2>1. Sync(w) /\ pc[w] \in Streaming \cup FromMemory
    BY <1>4 DEF SyncContainer, SyncChecksum, SyncInMemory, Streaming, FromMemory
  <2>2. fd[w] = names[w]
    BY <1>0, <2>1 DEF Opened
  <2> QED BY <1>0, <2>1, <2>2 DEF Sync
<1>5. CASE Replace(w) \/ Cleanup(w)
  <2>1. Release
    BY <1>5 DEF Replace, Cleanup
  <2> QED BY <1>0, <2>1, KeptFile DEF Release
<1> QED
  BY <1>1, <1>2, <1>3, <1>4, <1>5 DEF WriterMoves, WriterStep

\* What a file holds does not depend on who looks.
LEMMA HoldsSame ==
  ASSUME scenario' = scenario, NEW w \in Writers,
         Holds(pc'[w], at'[w], buffer'[w], identity'[w], table'[w],
               cached'[fd'[w]], durable'[fd'[w]])
  PROVE  Assembled(w)'
BY SameScenario DEF Assembled, Holds, Written, Entered, Intact, BytesAt, FileHash

\* One more directory entry, for a section that holds its payload.
LEMMA AdvanceHolds ==
  ASSUME NEW l \in {"section", "directory"}, NEW i, NEW t \in Directory, NEW f,
         NEW n \in Nat, NEW e \in [section : Nat, digest : Bytes],
         Len(t) = n, e.digest = i[n + 1], Entered(f, e, KindAt(n + 1)),
         \A p \in 1..n : t[p].digest = i[p] /\ Entered(f, t[p], KindAt(p)),
         \A s \in DOMAIN f.body : s = e.section \/ \E p \in 1..n : t[p].section = s,
         NEW a, NEW b, NEW d
  PROVE  Holds(l, a, b, i, Append(t, e), f, d)
<1> DEFINE u == Append(t, e)
<1>1. /\ Len(u) = n + 1 /\ u[n + 1] = e /\ \A p \in 1..n : u[p] = t[p]
  BY AppendFacts DEF Directory
<1> HIDE DEF u
<1>2. ASSUME NEW p \in 1..Len(u)
      PROVE  u[p].digest = i[p] /\ Entered(f, u[p], KindAt(p))
  <2>1. CASE p = n + 1
    BY <1>1, <2>1
  <2>2. CASE p # n + 1
    <3>1. p \in 1..n
      BY <1>1, <2>2
    <3> QED BY <1>1, <3>1
  <2> QED BY <2>1, <2>2
<1>3. ASSUME NEW s \in DOMAIN f.body
      PROVE  \E p \in 1..Len(u) : u[p].section = s
  <2>1. CASE s = e.section
    BY <1>1, <2>1
  <2>2. ASSUME NEW p \in 1..n, t[p].section = s PROVE \E q \in 1..Len(u) : u[q].section = s
    BY <1>1, <2>2
  <2> QED BY <2>1, <2>2
<1>4. Holds(l, a, b, i, u, f, d)
  BY <1>2, <1>3 DEF Holds
<1> QED BY <1>4 DEF u

\* Each step of a writer leaves its own file as the next location wants it.
LEMMA WriterHolds ==
  ASSUME FrameInv, FrameInv', scenario' = scenario, NEW w \in Writers,
         Assembled(w), WriterMoves(w)
  PROVE  Assembled(w)'
<1> DEFINE f == Written(w)
           n == 3 * Len(Variants)
<1>0. /\ scenario \in Scenarios /\ DiskOK /\ Opened(w) /\ CallInv /\ CallsOK
      /\ cached \in [Inodes -> File] /\ durable \in [Inodes -> File]
      /\ pc \in [Writers -> Locations] /\ table \in [Writers -> Directory]
      /\ buffer \in [Writers -> Bytes]
      /\ fd \in [Writers -> MaybeInode] /\ names \in [Paths -> MaybeInode] /\ w \in Paths
      /\ Fits(pc[w], at[w], buffer[w], identity[w], table[w])
      /\ at[w] \in Nat /\ at[w] >= 1 /\ at[w] <= n /\ at[w] \in Positions
      /\ KindAt(at[w]) \in {"kernels", "weights", "plan"}
      /\ n \in Nat /\ n = Len(Variants) * 3
      /\ identity[w] \in Seq(Bytes) /\ table[w] \in Directory
  BY ScenarioFacts, PositionFacts DEF FrameInv, CallInv, CallsOK, DiskOK, Progress, Paths
<1>1. Holds(pc[w], at[w], buffer[w], identity[w], table[w], f, durable[fd[w]])
  BY DEF Assembled
<1>2. pc[w] \in Streaming \cup FromMemory =>
        /\ fd[w] \in Inodes /\ f = cached[fd[w]] /\ f \in File /\ f.body \in Seq(Section)
        /\ f = [header |-> f.header, body |-> f.body, directory |-> f.directory,
                checksum |-> f.checksum]
        /\ fd[w] = names[w]
  BY <1>0, WrittenTyped DEF Written, File
<1> HIDE DEF n, f
<1> USE DEF local, disk, environment, Goto
<1>3. ASSUME pc'[w] \notin Streaming \cup {"sync_memory", "replace_memory"}
      PROVE  Assembled(w)'
  <2>1. Holds(pc'[w], at'[w], buffer'[w], identity'[w], table'[w], cached'[fd'[w]], durable'[fd'[w]])
    BY <1>3 DEF Holds, Streaming
  <2> QED BY <2>1, HoldsSame
<1>4. CASE \/ Begin(w) \/ Refuse(w) \/ BeginInMemory(w) \/ Unreadable(w) \/ Abort(w) \/ Kill(w)
           \/ DigestChunk(w) \/ DigestEnd(w) \/ PlanChunk(w) \/ ValidateKernels(w) \/ PlanEnd(w)
           \/ Verify(w) \/ OpenInMemory(w) \/ Replace(w) \/ Cleanup(w)
  <2>1. pc'[w] \notin Streaming \cup {"sync_memory", "replace_memory"}
    BY <1>0, <1>4 DEF Begin, Refuse, BeginInMemory, Unreadable, Abort, Kill, DigestChunk,
                      DigestEnd, PlanChunk, ValidateKernels, PlanEnd, Verify, OpenInMemory,
                      Replace, Cleanup, Leave, Streaming
  <2> QED BY <1>3, <2>1
<1>5. CASE OpenTemporary(w)
  <2>1. Open(w) /\ pc'[w] = "section" /\ table' = table /\ pc[w] = "open"
    BY <1>0, <1>5 DEF OpenTemporary, Open
  <2>2. PICK i \in Inodes : fd' = [fd EXCEPT ![w] = i] /\ cached' = [cached EXCEPT ![i] = Empty]
    BY <1>0, <2>1, OpenedInode
  <2>3. cached'[fd'[w]].body = <<>> /\ table'[w] = <<>>
    BY <1>0, <2>1, <2>2 DEF Fits, Empty
  <2> DEFINE g == cached'[fd'[w]]
  <2>4. g.body = <<>> /\ DOMAIN g.body = {}
    BY <2>3
  <2> HIDE DEF g
  <2>5. Holds("section", at'[w], buffer'[w], identity'[w], <<>>, g, durable'[fd'[w]])
    BY <2>4 DEF Holds
  <2> QED BY <2>1, <2>3, <2>5, HoldsSame DEF g
<1>6. ASSUME NEW s \in Nat, Advance(w, s), identity' = identity, cached' = cached, fd' = fd,
             durable' = durable, pc[w] \in {"section", "copy"},
             s \in DOMAIN f.body,
             f.body[s] = [kind |-> KindAt(at[w]), bytes |-> identity[w][at[w]]],
             \A j \in DOMAIN f.body : j = s \/ \E p \in 1..Len(table[w]) : table[w][p].section = j
      PROVE  Assembled(w)'
  <2> DEFINE e == [section |-> s, digest |-> identity[w][at[w]]]
  <2>1. /\ Len(table[w]) = at[w] - 1 /\ Len(identity[w]) = n
        /\ \A p \in 1..Len(table[w]) :
              /\ table[w][p].digest = identity[w][p]
              /\ Entered(f, table[w][p], KindAt(p))
    BY <1>0, <1>1, <1>6 DEF Fits, Holds, Streaming, n
  <2>2. identity[w][at[w]] \in Bytes
    BY <1>0, <2>1, SequenceElement
  <2>3. /\ e \in [section : Nat, digest : Bytes]
        /\ e.digest = identity[w][(at[w] - 1) + 1] /\ Entered(f, e, KindAt((at[w] - 1) + 1))
        /\ e.section = s
    <3>1. (at[w] - 1) + 1 = at[w]
      BY <1>0
    <3> QED BY <1>6, <2>2, <3>1 DEF Entered
  <2>4. table'[w] = Append(table[w], e) /\ pc'[w] \in {"section", "directory"}
    BY <1>0, <1>6 DEF Advance
  <2>5. at[w] - 1 \in Nat
    BY <1>0
  <2> HIDE DEF e
  <2> DEFINE l == pc'[w]
             k == at[w] - 1
             i == identity[w]
             t == table[w]
             a == at'[w]
             b == buffer'[w]
             d == durable'[fd'[w]]
  <2>a. /\ l \in {"section", "directory"} /\ k \in Nat /\ t \in Directory /\ Len(t) = k
        /\ e \in [section : Nat, digest : Bytes]
        /\ e.digest = i[k + 1] /\ Entered(f, e, KindAt(k + 1))
        /\ \A p \in 1..k : t[p].digest = i[p] /\ Entered(f, t[p], KindAt(p))
        /\ \A j \in DOMAIN f.body : j = e.section \/ \E p \in 1..k : t[p].section = j
    BY <1>0, <1>6, <2>1, <2>3, <2>4, <2>5
  <2> HIDE DEF l, k, i, t, a, b, d
  <2>b. Holds(l, a, b, i, Append(t, e), f, d)
    BY <2>a, AdvanceHolds
  <2>6. Holds(pc'[w], at'[w], buffer'[w], identity[w], Append(table[w], e), f, durable'[fd'[w]])
    BY <2>b DEF l, k, i, t, a, b, d
  <2>7. f = cached'[fd'[w]]
    BY <1>2, <1>6 DEF Streaming
  <2> QED BY <1>6, <2>4, <2>6, <2>7, HoldsSame
<1>7. CASE ReuseSection(w)
  <2>1. PICK s \in SectionsWith(f, KindAt(at[w]), identity[w][at[w]]) : Advance(w, s)
    BY <1>7 DEF ReuseSection, f
  <2>2. /\ pc[w] = "section" /\ identity' = identity /\ cached' = cached /\ fd' = fd
        /\ durable' = durable
    BY <1>7 DEF ReuseSection
  <2>3. /\ s \in DOMAIN f.body /\ s \in Nat
        /\ f.body[s] = [kind |-> KindAt(at[w]), bytes |-> identity[w][at[w]]]
    BY <1>2, <2>1, <2>2 DEF SectionsWith, Streaming
  <2>4. \A j \in DOMAIN f.body : \E p \in 1..Len(table[w]) : table[w][p].section = j
    BY <1>1, <2>2 DEF Holds, Streaming
  <2> QED BY <1>6, <2>1, <2>2, <2>3, <2>4
<1>8. CASE CopyEnd(w)
  <2>1. CASE buffer[w] # identity[w][at[w]]
    <3>1. pc'[w] = "cleanup"
      BY <1>0, <1>8, <2>1 DEF CopyEnd, Leave
    <3> QED BY <1>3, <3>1 DEF Streaming
  <2>2. CASE buffer[w] = identity[w][at[w]]
    <3>1. /\ pc[w] = "copy" /\ identity' = identity /\ cached' = cached /\ fd' = fd
          /\ durable' = durable /\ Advance(w, Len(f.body))
      BY <1>8, <2>2 DEF CopyEnd, f
    <3>2. /\ f.body # <<>> /\ f.body \in Seq(Section)
          /\ f.body[Len(f.body)] = [kind |-> KindAt(at[w]), bytes |-> buffer[w]]
          /\ \A j \in DOMAIN f.body :
                j = Len(f.body) \/ \E p \in 1..Len(table[w]) : table[w][p].section = j
      BY <1>1, <1>2, <3>1 DEF Holds, Streaming
    <3>3. Len(f.body) \in Nat /\ Len(f.body) \in DOMAIN f.body
      BY <3>2, NonEmptySequence
    <3> QED BY <1>6, <2>2, <3>1, <3>2, <3>3
  <2> QED BY <2>1, <2>2
<1>9. CASE StartSection(w)
  <2> DEFINE part == [kind |-> KindAt(at[w]), bytes |-> <<>>]
             g == [f EXCEPT !.body = Append(@, part)]
             t == table[w]
  <2>1. /\ pc[w] = "section" /\ pc'[w] = "copy" /\ fd' = fd
        /\ at' = at /\ buffer' = buffer /\ identity' = identity /\ table' = table
        /\ cached' = [cached EXCEPT ![fd[w]] = g]
    BY <1>0, <1>9 DEF StartSection, Write, f
  <2>2. part \in Section /\ f.body \in Seq(Section)
    BY <1>0, <1>2, <2>1 DEF Section, Bytes, Streaming
  <2>3. buffer[w] = <<>>
    BY <1>0, <2>1 DEF Fits
  <2>4. part = [kind |-> KindAt(at[w]), bytes |-> buffer[w]]
    BY <2>3
  <2>5. cached'[fd[w]] = g
    BY <1>0, <1>2, <2>1 DEF Streaming
  <2> HIDE DEF part
  <2>6. g.body = Append(f.body, part)
    BY <1>2, <2>1 DEF Streaming
  <2> HIDE DEF g
  <2>7. /\ g.body # <<>> /\ Len(g.body) = Len(f.body) + 1 /\ DOMAIN g.body = 1..(Len(f.body) + 1)
        /\ g.body[Len(g.body)] = part
        /\ Len(f.body) \in Nat /\ DOMAIN f.body = 1..Len(f.body)
        /\ \A s \in DOMAIN f.body : g.body[s] = f.body[s]
    BY <2>2, <2>6, AppendFacts
  <2>8. /\ \A p \in 1..Len(t) : t[p].digest = identity[w][p] /\ Entered(f, t[p], KindAt(p))
        /\ \A s \in DOMAIN f.body : \E p \in 1..Len(t) : t[p].section = s
    BY <1>1, <2>1 DEF Holds, Streaming
  <2> HIDE DEF t
  <2>9. Holds("copy", at[w], buffer[w], identity[w], t, g, durable'[fd[w]])
    <3>1. \A p \in 1..Len(t) :
            /\ t[p].digest = identity[w][p] /\ Entered(g, t[p], KindAt(p))
            /\ t[p].section # Len(g.body)
      BY SMTT(60), <2>7, <2>8 DEF Entered
    <3>2. \A s \in DOMAIN g.body : s = Len(g.body) \/ \E p \in 1..Len(t) : t[p].section = s
      BY <2>7, <2>8
    <3> QED BY <2>4, <2>7, <3>1, <3>2 DEF Holds
  <2> QED BY <2>1, <2>5, <2>9, HoldsSame DEF t
<1>10. CASE CopyChunk(w)
  <2> DEFINE m == Len(f.body)
             body == [f.body EXCEPT ![m].bytes = buffer'[w]]
             g == [f EXCEPT !.body[Len(f.body)].bytes = buffer'[w]]
             t == table[w]
  <2>1. /\ pc[w] = "copy" /\ pc' = pc /\ fd' = fd
        /\ at' = at /\ identity' = identity /\ table' = table
        /\ cached' = [cached EXCEPT ![fd[w]] = g]
    BY <1>10 DEF CopyChunk, Write, f
  <2>2. /\ \A p \in 1..Len(t) : t[p].digest = identity[w][p] /\ Entered(f, t[p], KindAt(p))
        /\ \A s \in DOMAIN f.body : s = m \/ \E p \in 1..Len(t) : t[p].section = s
        /\ f.body # <<>>
        /\ f.body[m] = [kind |-> KindAt(at[w]), bytes |-> buffer[w]]
        /\ \A p \in 1..Len(t) : t[p].section # m
    BY <1>1, <2>1 DEF Holds, Streaming
  <2>3. cached'[fd[w]] = g
    BY <1>0, <1>2, <2>1 DEF Streaming
  <2>4. g.body = body
    BY <1>2, <2>1 DEF Streaming
  <2>5. f.body \in Seq(Section) /\ m \in DOMAIN f.body
    BY <1>2, <2>1, <2>2, NonEmptySequence DEF Streaming
  <2>6. [f.body[m] EXCEPT !.bytes = buffer'[w]] = [kind |-> KindAt(at[w]), bytes |-> buffer'[w]]
    BY <2>2
  <2>7. /\ body = [f.body EXCEPT ![m] = [f.body[m] EXCEPT !.bytes = buffer'[w]]]
    OBVIOUS
  <2>8. [kind |-> KindAt(at[w]), bytes |-> buffer'[w]] \in Section
    <3>1. buffer'[w] \in Bytes
      BY <1>0, <1>10, ReadTyped DEF CopyChunk
    <3> QED BY <1>0, <3>1 DEF Section
  <2> DEFINE part == [kind |-> KindAt(at[w]), bytes |-> buffer'[w]]
  <2>9. g.body = [f.body EXCEPT ![m] = part]
    BY <2>4, <2>6, <2>7
  <2> HIDE DEF g, m, body, part
  <2>10. /\ Len(g.body) = m /\ DOMAIN g.body = DOMAIN f.body /\ g.body # <<>>
         /\ g.body[m] = part /\ \A s \in DOMAIN f.body : s # m => g.body[s] = f.body[s]
    <3>1. Len(g.body) = Len(f.body) /\ DOMAIN g.body = DOMAIN f.body /\ g.body \in Seq(Section)
      BY <2>5, <2>8, <2>9, ReplaceElement DEF part
    <3>2. g.body[m] = part /\ \A s \in DOMAIN f.body : s # m => g.body[s] = f.body[s]
      BY <2>5, <2>9
    <3>3. g.body # <<>>
      BY <2>5, <3>1
    <3> QED BY <3>1, <3>2, <3>3 DEF m
  <2>11. Holds("copy", at[w], buffer'[w], identity[w], t, g, durable'[fd[w]])
    <3> HIDE DEF t
    <3>1. \A p \in 1..Len(t) :
            /\ t[p].digest = identity[w][p] /\ Entered(g, t[p], KindAt(p))
            /\ t[p].section # Len(g.body)
      BY <2>2, <2>10 DEF Entered
    <3>2. \A s \in DOMAIN g.body : s = Len(g.body) \/ \E p \in 1..Len(t) : t[p].section = s
      BY <2>2, <2>10
    <3> QED BY <2>10, <3>1, <3>2 DEF Holds, part
  <2> QED BY <2>1, <2>3, <2>11, HoldsSame
<1>11. CASE WriteDirectory(w) \/ WriteHeader(w)
  <2>1. /\ fd' = fd /\ at' = at /\ buffer' = buffer /\ identity' = identity /\ table' = table
    BY <1>11 DEF WriteDirectory, WriteHeader
  <2>2. CASE WriteDirectory(w)
    <3>1. pc[w] = "directory" /\ pc'[w] = "header" /\ cached'[fd[w]] = [f EXCEPT !.directory = table[w]]
      BY <1>0, <1>2, <2>2 DEF WriteDirectory, Write, f, Streaming
    <3>2. Holds("header", at[w], buffer[w], identity[w], table[w], [f EXCEPT !.directory = table[w]],
                durable'[fd[w]])
      BY <1>1, <1>2, <3>1 DEF Holds, Entered, Streaming
    <3> QED BY <2>1, <3>1, <3>2, HoldsSame
  <2>3. CASE WriteHeader(w)
    <3>1. pc[w] = "header" /\ pc'[w] = "sync" /\ cached'[fd[w]] = [f EXCEPT !.header = table[w]]
      BY <1>0, <1>2, <2>3 DEF WriteHeader, Write, f, Streaming
    <3>2. Holds("sync", at[w], buffer[w], identity[w], table[w], [f EXCEPT !.header = table[w]],
                durable'[fd[w]])
      BY <1>1, <1>2, <3>1 DEF Holds, Entered, Streaming
    <3> QED BY <2>1, <3>1, <3>2, HoldsSame
  <2> QED BY <1>11, <2>2, <2>3
<1>12. CASE SyncContainer(w) \/ SyncChecksum(w) \/ SyncInMemory(w)
  <2>1. /\ fd' = fd /\ at' = at /\ buffer' = buffer /\ identity' = identity /\ table' = table
        /\ cached' = cached /\ durable' = [durable EXCEPT ![fd[w]] = f]
        /\ \/ pc[w] = "sync" /\ pc'[w] = "checksum"
           \/ pc[w] = "sync_checksum" /\ pc'[w] = "replace"
           \/ pc[w] = "sync_memory" /\ pc'[w] = "replace_memory"
    BY <1>0, <1>12 DEF SyncContainer, SyncChecksum, SyncInMemory, Sync, f
  <2>2. durable'[fd[w]] = f /\ cached'[fd[w]] = f
    BY <1>0, <1>2, <2>1 DEF Streaming, FromMemory
  <2>3. Holds(pc'[w], at[w], buffer[w], identity[w], table[w], f, f)
    BY <1>1, <2>1 DEF Holds, Streaming
  <2> QED BY <2>1, <2>2, <2>3, HoldsSame
<1>13. CASE WriteChecksum(w)
  <2> DEFINE hash == FileHash(f)
             g == [f EXCEPT !.checksum = hash]
  <2>1. /\ pc[w] = "checksum" /\ pc'[w] = "sync_checksum"
        /\ at' = at /\ buffer' = buffer /\ identity' = identity /\ table' = table
    BY <1>0, <1>13 DEF WriteChecksum
  <2>2. fd' = fd
    BY <1>13, WriteTyped
  <2>3. Container(w) = fd[w] /\ fd[w] \in Inodes /\ f = cached[fd[w]]
    BY <1>2, <2>1 DEF Container, Temporary, Streaming
  <2>4. cached'[fd[w]] = g
    BY <1>0, <1>13, <2>3 DEF WriteChecksum
  <2> HIDE DEF hash
  <2>5. g.checksum = hash /\ FileHash(g) = hash
    BY <1>2, <2>1 DEF FileHash, hash, Streaming
  <2>6. Holds("sync_checksum", at[w], buffer[w], identity[w], table[w], g, durable'[fd[w]])
    BY <1>1, <1>2, <2>1, <2>5 DEF Holds, Entered, Streaming
  <2> QED BY <2>1, <2>2, <2>4, <2>6, HoldsSame
<1>14. CASE WriteInMemory(w)
  <2>1. /\ pc[w] = "write_memory" /\ pc'[w] = "sync_memory" /\ fd' = fd
        /\ cached'[fd[w]] = Image(identity[w])
    BY <1>0, <1>2, <1>14 DEF WriteInMemory, Write, FromMemory
  <2>2. Intact(Image(identity[w]))
    BY <1>0, <2>1, ImageIntact DEF Fits, FromMemory
  <2>3. Holds("sync_memory", at'[w], buffer'[w], identity'[w], table'[w], cached'[fd[w]],
              durable'[fd[w]])
    BY <2>1, <2>2 DEF Holds, Streaming
  <2> QED BY <2>1, <2>3, HoldsSame
<1> QED
  BY <1>4, <1>5, <1>7, <1>8, <1>9, <1>10, <1>11, <1>12, <1>13, <1>14 DEF WriterMoves, WriterStep

\* Nothing is known of a file nobody assembles.
LEMMA NothingHeld ==
  ASSUME NEW l, l \notin Streaming \cup FromMemory, NEW a, NEW b, NEW i, NEW t, NEW f, NEW d
  PROVE  Holds(l, a, b, i, t, f, d)
BY DEF Holds, Streaming, FromMemory

\* A step of one writer leaves what another one assembles as it is.
LEMMA OtherHolds ==
  ASSUME FrameInv, OwnerInv, scenario' = scenario, NEW w \in Writers, WriterMoves(w),
         NEW v \in Writers \ {w}, Assembled(v)
  PROVE  Assembled(v)'
<1>0. /\ scenario \in Scenarios /\ DiskOK /\ Opened(v) /\ NONE \notin Inodes
      /\ names \in [Paths -> MaybeInode] /\ v \in Paths /\ Owned(v) /\ SameCall(v)
      /\ w # v /\ scenario' = scenario /\ Writers' = Writers
  BY ScenarioFacts, OthersKept, SameScenario
  DEF FrameInv, OwnerInv, CallInv, CallsOK, DiskOK, Paths
<1>1. Holds(pc[v], at[v], buffer[v], identity[v], table[v], cached[fd[v]], durable[fd[v]])
  BY DEF Assembled, Written
<1>2. CASE pc[v] \in Streaming \cup FromMemory
  <2>1. fd[v] = names[v] /\ fd[v] \in Inodes /\ fd[v] # names[w]
    BY <1>0, <1>2 DEF Opened, Owned, MaybeInode
  <2>2. fd[v] \in InUse /\ fd[v] \in InUse'
    BY <1>0, <2>1 DEF InUse, SameCall
  <2>3. cached'[fd[v]] = cached[fd[v]] /\ durable'[fd[v]] = durable[fd[v]]
    BY <1>0, <2>1, <2>2, FileKept
  <2> QED BY <1>0, <1>1, <2>3, HoldsSame DEF SameCall
<1>3. CASE pc[v] \notin Streaming \cup FromMemory
  <2>1. pc'[v] \notin Streaming \cup FromMemory
    BY <1>0, <1>3 DEF SameCall
  <2> QED BY <1>0, <2>1, NothingHeld, HoldsSame
<1> QED BY <1>2, <1>3

\* A file that is the same is as whole.
LEMMA SameIntact ==
  ASSUME scenario' = scenario, NEW i, cached'[i] = cached[i], Intact(cached[i])
  PROVE  Intact(cached[i])'
BY SameScenario DEF Intact, FileHash

\* The file a writer is about to publish is whole and on disk.
LEMMA ReadyIntact ==
  ASSUME FrameInv, NEW w \in Writers, Assembled(w), pc[w] \in {"replace", "replace_memory"}
  PROVE  /\ fd[w] = names[w] /\ names[w] \in Inodes
         /\ Intact(cached[names[w]]) /\ durable[names[w]] = cached[names[w]]
<1> DEFINE f == Written(w)
           t == table[w]
           n == 3 * Len(Variants)
<1>0. /\ scenario \in Scenarios /\ pc[w] \in Streaming \cup FromMemory
      /\ table[w] \in Directory /\ Progress(w) /\ n \in Nat /\ Positions = 1..n
      /\ CallInv /\ DiskOK /\ Opened(w) /\ CallsOK
  BY ScenarioFacts DEF FrameInv, CallInv, CallsOK, Streaming, FromMemory, Positions
<1>1. fd[w] \in Inodes /\ fd[w] = names[w] /\ f \in File /\ f = cached[fd[w]]
  BY <1>0, WrittenTyped DEF Written
<1>2. Holds(pc[w], at[w], buffer[w], identity[w], t, f, durable[fd[w]])
  BY DEF Assembled
<1> HIDE DEF f
<1>3. durable[fd[w]] = f
  BY <1>2 DEF Holds
<1>4. CASE pc[w] = "replace_memory"
  BY <1>1, <1>2, <1>3, <1>4 DEF Holds
<1>5. CASE pc[w] = "replace"
  <2>1. /\ f.header = t /\ f.directory = t /\ f.checksum = FileHash(f)
        /\ \A p \in 1..Len(t) : Entered(f, t[p], KindAt(p))
    BY <1>2, <1>5 DEF Holds, Streaming
  <2>2. Len(t) = n
    BY <1>0, <1>5 DEF Progress, Fits, Streaming
  <2>3. t # NONE
    BY <1>0, NoneAssumption DEF Directory, Bytes
  <2> HIDE DEF n, t
  <2>4. Intact(f)
    BY <1>0, <2>1, <2>2, <2>3 DEF Intact, Entered
  <2> QED BY <1>1, <1>3, <2>4
<1> QED BY <1>4, <1>5

\* The top layer: what temporaries hold, what is published, what is mapped.
ContentInv == (\A w \in Writers : Assembled(w)) /\ Published /\ MappedUnchanged

\* A writer's step leaves what is published and what is mapped as it is, and
\* publishes only what is whole.
LEMMA WriterContent ==
  ASSUME FrameInv, FrameInv', OwnerInv, OwnerInv', ContentInv, scenario' = scenario,
         NEW w \in Writers, WriterMoves(w)
  PROVE  ContentInv'
<1>0. /\ scenario \in Scenarios /\ DiskOK /\ NONE \notin Inodes /\ Owned(w) /\ Assembled(w)
      /\ names \in [Paths -> MaybeInode] /\ w \in Paths /\ Writers' = Writers
      /\ "destination" \in Paths
      /\ bindings \subseteq MaybeInode /\ mapped \subseteq [inode : Inodes, bytes : File]
      /\ cached \in [Inodes -> File] /\ durable \in [Inodes -> File] /\ Opened(w)
  BY ScenarioFacts, SameScenario
  DEF FrameInv, OwnerInv, ContentInv, CallInv, CallsOK, DiskOK, Paths
<1>1. ASSUME NEW v \in Writers PROVE Assembled(v)'
  <2>1. CASE v = w
    BY <1>0, <2>1, WriterHolds
  <2>2. CASE v # w
    BY <1>0, <2>2, OtherHolds DEF ContentInv
  <2> QED BY <2>1, <2>2
<1>2. /\ mapped' = mapped
      /\ bindings' = bindings \/ (bindings' = bindings \cup {names[w]} /\ Replace(w))
  <2> USE DEF local, disk, environment
  <2>1. CASE \/ Begin(w) \/ Refuse(w) \/ BeginInMemory(w) \/ Unreadable(w) \/ Abort(w) \/ Kill(w)
             \/ DigestChunk(w) \/ DigestEnd(w) \/ PlanChunk(w) \/ ValidateKernels(w) \/ PlanEnd(w)
             \/ Verify(w) \/ ReuseSection(w) \/ CopyEnd(w)
    BY <2>1 DEF Begin, Refuse, BeginInMemory, Unreadable, Abort, Kill, DigestChunk, DigestEnd,
                PlanChunk, ValidateKernels, PlanEnd, Verify, ReuseSection, CopyEnd
  <2>2. CASE OpenTemporary(w) \/ OpenInMemory(w)
    BY <2>2 DEF OpenTemporary, OpenInMemory, Open
  <2>3. CASE \/ StartSection(w) \/ CopyChunk(w) \/ WriteDirectory(w) \/ WriteHeader(w)
             \/ WriteInMemory(w) \/ WriteChecksum(w)
    BY <2>3, WriteTyped
  <2>4. CASE SyncContainer(w) \/ SyncChecksum(w) \/ SyncInMemory(w) \/ Cleanup(w)
    BY <2>4 DEF SyncContainer, SyncChecksum, SyncInMemory, Sync, Cleanup
  <2>5. CASE Replace(w)
    BY <2>5 DEF Replace, Container, Temporary
  <2> QED
    BY <2>1, <2>2, <2>3, <2>4, <2>5 DEF WriterMoves, WriterStep
<1>3. ASSUME NEW i \in bindings, i # NONE
      PROVE  Intact(cached[i])' /\ durable'[i] = cached'[i]
  <2>1. i \in Inodes /\ i # names[w] /\ i \in InUse /\ i \in InUse'
    BY <1>0, <1>2, <1>3 DEF Owned, MaybeInode, InUse
  <2>2. cached'[i] = cached[i] /\ durable'[i] = durable[i]
    BY <2>1, FileKept
  <2> QED BY <1>3, <2>2, SameIntact DEF ContentInv, Published
<1>4. ASSUME Replace(w), NEW i, i = names[w]
      PROVE  Intact(cached[i])' /\ durable'[i] = cached'[i]
  <2>1. pc[w] \in {"replace", "replace_memory"} /\ Release /\ i \in bindings'
    BY <1>4 DEF Replace, Container, Temporary
  <2>2. i \in Inodes /\ Intact(cached[i]) /\ durable[i] = cached[i]
    BY <1>0, <1>4, <2>1, ReadyIntact
  <2>3. i \in InUse'
    BY <1>0, <2>1, <2>2 DEF InUse
  <2>4. cached'[i] = cached[i] /\ durable'[i] = durable[i]
    BY <1>0, <2>1, <2>2, <2>3, KeptFile DEF Release
  <2> QED BY <2>2, <2>4, SameIntact
<1>5. Published'
  BY <1>2, <1>3, <1>4 DEF Published, OwnerInv
<1>6. MappedUnchanged'
  <2>1. ASSUME NEW m \in mapped PROVE cached'[m.inode] = m.bytes
    <3>1. m.inode \in Inodes /\ m.inode # names[w]
      <4>1. m.inode \in Inodes
        BY <1>0
      <4> QED BY <1>0, <4>1 DEF Owned
    <3>2. m.inode \in InUse /\ m.inode \in InUse'
      BY <1>0, <1>2, <3>1 DEF InUse
    <3>3. cached'[m.inode] = cached[m.inode]
      BY <3>1, <3>2, FileKept
    <3> QED BY <3>3 DEF ContentInv, MappedUnchanged
  <2> QED BY <1>2, <2>1 DEF MappedUnchanged
<1> QED BY <1>0, <1>1, <1>5, <1>6 DEF ContentInv

\* A power loss keeps what is published, and the rest of the system touches no file.
LEMMA OtherContent ==
  ASSUME FrameInv, OwnerInv, OwnerInv', ContentInv, scenario' = scenario,
         (\E q \in Payloads : Edit(q)) \/ LoadModel \/ DestroyModel \/ PowerLoss \/ Writeback
  PROVE  ContentInv'
<1>0. /\ scenario \in Scenarios /\ DiskOK /\ NONE \notin Inodes /\ Writers' = Writers
      /\ bindings \subseteq MaybeInode /\ mapped \subseteq [inode : Inodes, bytes : File]
      /\ cached \in [Inodes -> File] /\ durable \in [Inodes -> File]
      /\ fd \in [Writers -> MaybeInode]
      /\ \A w \in Writers : Assembled(w) /\ Opened(w)
  BY ScenarioFacts, SameScenario DEF FrameInv, ContentInv, CallInv, CallsOK, DiskOK
<1> USE DEF local, disk, environment
<1>1. CASE (\E q \in Payloads : Edit(q)) \/ LoadModel
  <2>1. UNCHANGED <<disk, pc, local>>
    BY <1>1 DEF Edit, LoadModel
  <2>2. ASSUME NEW w \in Writers PROVE Assembled(w)'
    BY <1>0, <2>1, HoldsSame DEF Assembled, Written
  <2>3. Published'
    BY <2>1, SameIntact DEF ContentInv, Published
  <2>4. MappedUnchanged'
    BY <1>1, <2>1 DEF ContentInv, MappedUnchanged, Edit, LoadModel
  <2> QED BY <1>0, <2>2, <2>3, <2>4 DEF ContentInv
<1>2. CASE DestroyModel \/ Writeback
  <2>1. /\ UNCHANGED <<pc, local>> /\ Release
        /\ mapped' \subseteq mapped /\ bindings' \subseteq bindings
    BY <1>2 DEF DestroyModel, Writeback, OwnerInv
  <2>2. \A i \in Inodes : i \in InUse' => cached'[i] = cached[i] /\ durable'[i] = durable[i]
    BY <1>0, <2>1, KeptFile DEF Release
  <2>3. ASSUME NEW w \in Writers PROVE Assembled(w)'
    <3>1. CASE fd[w] = NONE
      <4>1. pc'[w] \notin Streaming \cup FromMemory
        BY <1>0, <2>1, <3>1 DEF Opened
      <4> QED BY <1>0, <4>1, NothingHeld, HoldsSame
    <3>2. CASE fd[w] # NONE
      <4>1. fd[w] \in Inodes /\ fd[w] \in InUse'
        BY <1>0, <2>1, <3>2 DEF InUse, MaybeInode
      <4>2. cached'[fd[w]] = cached[fd[w]] /\ durable'[fd[w]] = durable[fd[w]]
        BY <2>2, <4>1
      <4>3. Holds(pc[w], at[w], buffer[w], identity[w], table[w], cached[fd[w]], durable[fd[w]])
        BY <1>0 DEF Assembled, Written
      <4> QED BY <2>1, <4>2, <4>3, HoldsSame
    <3> QED BY <3>1, <3>2
  <2>4. ASSUME NEW i \in bindings', i # NONE PROVE Intact(cached[i])' /\ durable'[i] = cached'[i]
    <3>1. i \in bindings /\ i \in Inodes /\ i \in InUse'
      BY <1>0, <2>1, <2>4 DEF InUse, MaybeInode
    <3>2. Intact(cached[i]) /\ durable[i] = cached[i]
      BY <2>4, <3>1 DEF ContentInv, Published
    <3> QED BY <2>2, <3>1, <3>2, SameIntact
  <2>5. ASSUME NEW m \in mapped' PROVE cached'[m.inode] = m.bytes
    <3>1. m \in mapped /\ m.inode \in Inodes
      BY <1>0, <2>1
    <3>2. m.inode \in InUse'
      BY <1>0, <2>1, <3>1 DEF InUse
    <3> QED BY <2>2, <3>1, <3>2 DEF ContentInv, MappedUnchanged
  <2> QED BY <1>0, <2>3, <2>4, <2>5 DEF ContentInv, Published, MappedUnchanged, OwnerInv
<1>3. CASE PowerLoss
  <2>1. PICK i \in bindings : bindings' = {i}
    BY <1>3 DEF PowerLoss
  <2>2. PICK lost \in SUBSET Blocks : cached' = Kept([j \in Inodes |-> Survives(j, lost)])
    BY <1>3 DEF PowerLoss
  <2>3. durable' = cached' /\ mapped' = {} /\ \A w \in Writers : pc'[w] = "idle"
    BY <1>3 DEF PowerLoss
  <2>4. ASSUME i # NONE PROVE Intact(cached[i])'
    <3>1. i \in Inodes /\ i \in InUse' /\ Intact(cached[i]) /\ durable[i] = cached[i]
      BY <1>0, <2>1, <2>4 DEF ContentInv, Published, MaybeInode, InUse
    <3> DEFINE after == [j \in Inodes |-> Survives(j, lost)]
    <3>2. after \in [Inodes -> File]
      BY <1>0, SurvivesFile
    <3>3. after[i] = cached[i]
      BY <1>0, <3>1, SurvivesFile
    <3> HIDE DEF after
    <3>4. cached'[i] = after[i]
      BY <2>2, <3>1, <3>2, KeptFile DEF after
    <3> QED BY <3>1, <3>3, <3>4, SameIntact
  <2>5. Published'
    BY <2>1, <2>3, <2>4 DEF Published, OwnerInv
  <2>6. ASSUME NEW w \in Writers PROVE Assembled(w)'
    <3>1. pc'[w] \notin Streaming \cup FromMemory
      BY <2>3 DEF Streaming, FromMemory
    <3> QED BY <1>0, <3>1, NothingHeld, HoldsSame
  <2> QED BY <1>0, <2>3, <2>5, <2>6 DEF ContentInv, MappedUnchanged
<1> QED BY <1>1, <1>2, <1>3

\* ContainerInv by its layers.
LEMMA ContainerLayers ==
  ContainerInv <=> FrameInv /\ OwnerInv /\ ContentInv /\ TemporaryOwned
BY DEF ContainerInv, FrameInv, OwnerInv, ContentInv, Published

\* It is inductive.
LEMMA ContainerStep ==
  ASSUME ContainerInv, [Next]_vars
  PROVE  ContainerInv'
<1>0. FrameInv /\ OwnerInv /\ ContentInv /\ TemporaryOwned
  BY ContainerLayers
<1>1. FrameInv' /\ OwnerInv' /\ TemporaryOwned'
  BY <1>0, FrameStep, OwnerStep, TemporaryStep
<1>2. ContentInv'
  <2>1. CASE UNCHANGED vars
    <3>1. /\ scenario' = scenario /\ Writers' = Writers /\ UNCHANGED <<disk, pc, local, mapped>>
      BY <2>1, SameScenario DEF vars, environment
    <3>2. ASSUME NEW w \in Writers PROVE Assembled(w)'
      BY <1>0, <3>1, HoldsSame DEF Assembled, Written, ContentInv, disk, local
    <3> QED BY <1>0, <3>1, <3>2, SameIntact DEF ContentInv, Published, MappedUnchanged, disk
  <2>2. CASE Next
    BY <1>0, <1>1, <2>2, WriterContent, OtherContent DEF Next, Step, WriterMoves
  <2> QED BY <2>1, <2>2
<1> QED BY <1>1, <1>2, ContainerLayers DEF ContainerInv, FrameInv, OwnerInv, ContentInv, Published

\* Nobody has called a writer yet, and there is no destination.
LEMMA ContainerInit ==
  ASSUME Init
  PROVE  ContainerInv
<1>0. /\ scenario \in Scenarios /\ names = [q \in Paths |-> NONE] /\ bindings = {NONE}
      /\ cached = [i \in Inodes |-> Empty] /\ durable = cached
      /\ pc = [w \in Writers |-> "idle"] /\ fd = [w \in Writers |-> NONE]
      /\ at = [w \in Writers |-> 1] /\ buffer = [w \in Writers |-> <<>>]
      /\ identity = [w \in Writers |-> <<>>] /\ table = [w \in Writers |-> <<>>]
      /\ leftover = {} /\ mapped = {} /\ edits = 0 /\ crashes = 0
  BY DEF Init
<1>1. CallsOK
  <2>1. payload \in [Payloads -> Bytes]
    <3>1. /\ payload \in [Payloads -> UNION {Contents[q] : q \in Payloads}]
          /\ \A q \in Payloads : payload[q] \in Contents[q]
      BY DEF Init
    <3>2. \A q \in Payloads : Contents[q] \subseteq Bytes
      BY <1>0, ScenarioFacts
    <3> QED BY <3>1, <3>2
  <2>2. <<>> \in Bytes /\ <<>> \in Seq(Bytes) /\ <<>> \in Directory /\ "idle" \in Locations
    BY DEF Bytes, Directory, Locations, Quiet
  <2>3. 1 \in Positions /\ 0 \in 0..MaxEdits
    BY <1>0, FirstPosition, ScenarioFacts
  <2> QED BY <1>0, <2>1, <2>2, <2>3 DEF CallsOK
<1>2. Empty \in File
  BY DEF Empty, File, MaybeDirectory, Section
<1> HIDE DEF Empty
<1>3. DiskOK
  BY <1>0, <1>2 DEF DiskOK, MaybeInode
<1>4. ASSUME NEW w \in Writers
      PROVE  Progress(w) /\ Opened(w) /\ Owned(w) /\ Assembled(w)
  <2>1. pc[w] = "idle" /\ fd[w] = NONE /\ names[w] = NONE
    BY <1>0, <1>4 DEF Paths
  <2>2. Progress(w)
    BY <1>0 DEF Progress, Fits, Quiet, Streaming, FromMemory
  <2>3. Assembled(w)
    BY <2>1, NothingHeld DEF Assembled, Streaming, FromMemory
  <2> QED BY <2>1, <2>2, <2>3 DEF Opened, Owned, Streaming, FromMemory
<1>5. Published /\ MappedUnchanged /\ TemporaryOwned
  BY <1>0 DEF Published, MappedUnchanged, TemporaryOwned, Paths
<1> QED BY <1>1, <1>3, <1>4, <1>5 DEF ContainerInv, CallInv

-----------------------------------------------------------------------------
(* The theorems on the files *)

\* What the layers say, in every reachable state: the inductive invariant.
THEOREM ContainerInvariant == Spec => []ContainerInv
<1>1. Init => ContainerInv
  BY ContainerInit
<1>2. ContainerInv /\ [Next]_vars => ContainerInv'
  BY ContainerStep
<1> QED BY <1>1, <1>2, PTL DEF Spec

\* Every variable keeps its type: among them, no writer reads past its payloads,
\* and an open file, a mapped file or a name is one of the files there are.
THEOREM TypeCorrect == Spec => []TypeOK
<1>1. ContainerInv => TypeOK
  BY DEF ContainerInv, CallInv, TypeOK
<1> QED BY <1>1, ContainerInvariant, PTL

\* Whatever payloads are edited, processes killed or writes lost, the
\* destination is absent or passes every checksum of AimReader.read.
THEOREM DestinationAlwaysIntact == Spec => []DestinationIntact
<1>1. ContainerInv => DestinationIntact
  BY DEF ContainerInv, Published, DestinationIntact
<1> QED BY <1>1, ContainerInvariant, PTL

\* Replacing the destination changes no byte under a runtime that mapped it.
THEOREM MappedNeverChanges == Spec => []MappedUnchanged
<1>1. ContainerInv => MappedUnchanged
  BY DEF ContainerInv
<1> QED BY <1>1, ContainerInvariant, PTL

\* Only a killed process leaves a temporary file behind.
THEOREM TemporaryAlwaysOwned == Spec => []TemporaryOwned
<1>1. ContainerInv => TemporaryOwned
  BY DEF ContainerInv
<1> QED BY <1>1, ContainerInvariant, PTL

-----------------------------------------------------------------------------
(* Layer five: what a writer knows of payloads it reads more than once. *)

\* A variant's payloads, from any of them.
LEMMA KindFacts ==
  ASSUME scenario \in Scenarios, NEW p \in Positions
  PROVE  /\ KindAt(p) = "plan" =>
              /\ p - 1 \in Positions /\ p - 2 \in Positions
              /\ KindAt(p - 2) = "kernels" /\ KindAt(p - 1) = "weights"
         /\ KindAt(p) = "kernels" /\ p > 2 => KindAt(p - 2) = "weights"
         /\ KindAt(p) = "weights" /\ p > 2 => KindAt(p - 2) = "plan"
<1> DEFINE n == Len(Variants)
           k(x) == ((x - 1) % 3) + 1
<1>1. n \in Nat \ {0} /\ p \in 1..(3 * n) /\ Positions = 1..(3 * n)
  BY ScenarioFacts DEF Positions
<1>2. k(p) \in 1..3
  BY <1>1, SMT
<1>3. /\ k(p) = 3 => p >= 3 /\ k(p - 1) = 2 /\ k(p - 2) = 1
      /\ k(p) = 1 /\ p > 2 => k(p - 2) = 2
      /\ k(p) = 2 /\ p > 2 => k(p - 2) = 3
  BY <1>1, SMT
<1>4. \A x \in Int : KindAt(x) = Kinds[k(x)]
  BY DEF KindAt
<1>5. p \in Int /\ p - 1 \in Int /\ p - 2 \in Int
  BY <1>1
<1>6. KindAt(p) = Kinds[k(p)] /\ KindAt(p - 1) = Kinds[k(p - 1)] /\ KindAt(p - 2) = Kinds[k(p - 2)]
  BY <1>4, <1>5
<1> HIDE DEF k, n
<1>7. k(p) = 3 => p - 1 \in Positions /\ p - 2 \in Positions
  BY <1>1, <1>3
<1> QED BY <1>2, <1>3, <1>6, <1>7 DEF Kinds

\* Reading to the end of a file that did not change gives the file.
LEMMA PrefixWhole ==
  ASSUME NEW f \in Bytes, NEW b \in Bytes, Prefix(b, f), ~(Len(b) < Len(f))
  PROVE  b = f
<1>1. Len(b) = Len(f) /\ \A j \in 1..Len(b) : b[j] = f[j]
  BY DEF Prefix, Bytes
<1> QED BY <1>1 DEF Bytes

\* So does one more chunk of it.
LEMMA PrefixMore ==
  ASSUME NEW f \in Bytes, NEW b \in Bytes, Prefix(b, f), Len(b) < Len(f)
  PROVE  Prefix(Append(b, f[Len(b) + 1]), f)
<1> DEFINE c == f[Len(b) + 1]
           r == Append(b, c)
<1>1. Len(b) + 1 \in 1..Len(f) /\ Len(b) \in Nat /\ Len(f) \in Nat
  BY DEF Bytes
<1>2. c \in Chunks
  BY <1>1, SequenceElement DEF Bytes
<1> HIDE DEF c
<1>3. /\ Len(r) = Len(b) + 1 /\ r[Len(b) + 1] = c
      /\ \A j \in 1..Len(b) : r[j] = b[j]
  BY <1>2, AppendFacts DEF Bytes
<1> HIDE DEF r
<1>4. ASSUME NEW j \in 1..Len(r) PROVE r[j] = f[j]
  <2>1. CASE j = Len(b) + 1
    BY <1>3, <2>1 DEF c
  <2>2. CASE j # Len(b) + 1
    <3>1. j \in 1..Len(b)
      BY <1>1, <1>3, <2>2
    <3> QED BY <1>3, <3>1 DEF Prefix
  <2> QED BY <2>1, <2>2
<1>5. Prefix(r, f)
  BY <1>1, <1>3, <1>4 DEF Prefix
<1> QED BY <1>5 DEF r, c

\* Nothing read is a prefix of everything.
LEMMA PrefixEmpty ==
  ASSUME NEW f \in Bytes
  PROVE  Prefix(<<>>, f)
BY DEF Prefix, Bytes

\* A writer that has not started, or is done, knows nothing.
LEMMA KnowsNothing ==
  ASSUME NEW l \in Quiet, NEW a, NEW b, NEW i, NEW t, NEW y, NEW e
  PROVE  Knows(l, a, b, i, t, y, e)
<1>1. /\ l \notin FromMemory \cup {"open_memory"} \cup {"open"} \cup Streaming
      /\ l \notin {"digest", "validate", "plan", "copy"}
  BY DEF Quiet, FromMemory, Streaming
<1>2. \A p : ~Checked(l, a, p)
  BY <1>1 DEF Checked
<1> HIDE DEF Checked
<1> QED BY <1>1, <1>2 DEF Knows

\* What is known goes on to the next location, when no check and no copy is begun.
LEMMA KnowsOn ==
  ASSUME NEW a, NEW b, NEW i, NEW t, NEW y, NEW e, NEW l, NEW c, NEW m, NEW d,
         l \in {"open"} \cup Streaming, m \in Streaming \ {"copy"},
         Knows(l, a, b, i, t, y, e)
  PROVE  Knows(m, c, d, i, t, y, e)
<1>1. /\ l \notin {"digest", "validate", "plan"} /\ m \notin {"digest", "validate", "plan", "copy"}
      /\ m \in Streaming /\ l \notin Quiet
      /\ m \notin FromMemory \cup {"open_memory"}
  BY DEF Quiet, FromMemory, Streaming
<1>2. \A p : Checked(l, a, p)
  BY <1>1 DEF Checked
<1> QED BY <1>1, <1>2 DEF Knows

\* What is known does not depend on who looks.
LEMMA KnowsSame ==
  ASSUME scenario' = scenario, NEW w \in Writers,
         Knows(pc'[w], at'[w], buffer'[w], identity'[w], table'[w], payload', edits')
  PROVE  ReadOnce(w)'
<1>1. Positions' = Positions /\ \A p : FileAt(p)' = FileAt(p)
  BY SameScenario DEF FileAt
<1>2. \A i, p : Twin(i, p)' <=> Twin(i, p)
  BY <1>1 DEF Twin
<1>3. \A i, t, p : Unwritten(i, t, p)' <=> Unwritten(i, t, p)
  BY <1>1 DEF Unwritten
<1>4. \A i, y, e, p : Stale(i, y, e, p)' <=> Stale(i, y, e, p)
  BY <1>1 DEF Stale
<1>5. ASSUME NEW l, NEW a, NEW b, NEW i, NEW t, NEW y, NEW e, Knows(l, a, b, i, t, y, e)
      PROVE  Knows(l, a, b, i, t, y, e)'
  BY <1>1, <1>2, <1>3, <1>4, <1>5 DEF Knows
<1> QED BY <1>5 DEF ReadOnce

\* The entry for position a copies no file anew under its digest of before it changed.
NoneRevived(a, i, t, y, e) ==
  \A p \in Positions :
    /\ Stale(i, y, e, p) /\ Unwritten(i, t, p)
    /\ KindAt(a) = KindAt(p) /\ FileAt(a) = FileAt(p) /\ i[a] = i[p]
    => Valid(i, p) \/ Twin(i, p)

\* One more directory entry: a payload that is stale and was not copied either
\* stays so, or another file had it.
LEMMA KnowsAdvance ==
  ASSUME scenario \in Scenarios,
         NEW l \in {"section", "copy"}, NEW a \in Positions, NEW b, NEW i, NEW t \in Directory,
         NEW y, NEW e, Knows(l, a, b, i, t, y, e), Len(t) = a - 1,
         NEW entry \in [section : Nat, digest : Bytes],
         NoneRevived(a, i, t, y, e)
  PROVE  \A m \in {"section", "directory"} : \A c, d : Knows(m, c, d, i, Append(t, entry), y, e)
<1> SUFFICES ASSUME NEW m \in {"section", "directory"}, NEW c, NEW d
             PROVE  Knows(m, c, d, i, Append(t, entry), y, e)
  OBVIOUS
<1> DEFINE u == Append(t, entry)
<1>1. a \in Nat /\ Len(u) = a
  BY PositionFacts, AppendFacts DEF Directory
<1> HIDE DEF u
<1>2. /\ l \notin {"digest", "validate", "plan"} /\ m \notin {"digest", "validate", "plan", "copy"}
      /\ l \in Streaming /\ l \notin Quiet /\ m \notin FromMemory \cup {"open_memory"}
  BY DEF Quiet, FromMemory, Streaming
<1>3. ASSUME NEW p \in Positions
      PROVE  Valid(i, p) \/ (Stale(i, y, e, p) /\ (Unwritten(i, u, p) \/ Twin(i, p)))
  <2>1. Checked(l, a, p)
    BY <1>2 DEF Checked
  <2>2. Valid(i, p) \/ (Stale(i, y, e, p) /\ (Unwritten(i, t, p) \/ Twin(i, p)))
    BY <2>1 DEF Knows
  <2>3. ASSUME Unwritten(i, t, p), ~Unwritten(i, u, p)
        PROVE  KindAt(a) = KindAt(p) /\ FileAt(a) = FileAt(p) /\ i[a] = i[p]
    <3>1. PICK q \in 1..Len(u) : KindAt(q) = KindAt(p) /\ FileAt(q) = FileAt(p) /\ i[q] = i[p]
      BY <2>3 DEF Unwritten
    <3>2. q = a
      <4>1. q \notin 1..Len(t)
        BY <2>3, <3>1 DEF Unwritten
      <4> QED BY <1>1, <3>1, <4>1
    <3> QED BY <3>1, <3>2
  <2> QED BY <2>2, <2>3 DEF NoneRevived
<1>4. e = 0 => \A p \in 1..Len(i) : i[p] = y[FileAt(p)]
  BY <1>2 DEF Knows
<1>5. Knows(m, c, d, i, u, y, e)
  BY <1>2, <1>3, <1>4 DEF Knows
<1> QED BY <1>5 DEF u

\* A step of a writer, from what it knew to what it knows.
LEMMA WriterReads ==
  ASSUME FrameInv, FrameInv', scenario' = scenario, NEW w \in Writers,
         Assembled(w), WriterMoves(w), ~scenario.inMemory, ReadOnce(w)
  PROVE  ReadOnce(w)'
<1> DEFINE a == at[w]
           b == buffer[w]
           i == identity[w]
           t == table[w]
           y == payload
           e == edits
           f == payload[FileAt(at[w])]
<1>0. /\ scenario \in Scenarios /\ DiskOK /\ Opened(w) /\ CallInv /\ CallsOK
      /\ pc \in [Writers -> Locations] /\ table \in [Writers -> Directory]
      /\ at \in [Writers -> Positions]
      /\ identity \in [Writers -> Seq(Bytes)]
      /\ buffer \in [Writers -> Bytes] /\ payload \in [Payloads -> Bytes]
      /\ Fits(pc[w], a, b, i, t)
      /\ a \in Nat /\ a >= 1 /\ a <= 3 * Len(Variants) /\ a \in Positions
      /\ a = 3 * Len(Variants) => KindAt(a) = "plan"
      /\ KindAt(a) # "plan" => a + 1 \in Positions
      /\ Len(Variants) \in Nat /\ Positions = 1..(3 * Len(Variants))
      /\ KindAt(a) \in {"kernels", "weights", "plan"} /\ FileAt(a) \in Payloads
      /\ i \in Seq(Bytes) /\ t \in Directory /\ b \in Bytes /\ f \in Bytes
      /\ edits \in Nat
      /\ \A p \in Positions : p \in Nat /\ p >= 1 /\ FileAt(p) \in Payloads
  BY SMTT(60), ScenarioFacts, PositionFacts DEF FrameInv, CallInv, CallsOK, Progress, Positions
<1>1. Knows(pc[w], a, b, i, t, y, e)
  BY DEF ReadOnce
<1> HIDE DEF a, b, i, t, y, e, f
<1> USE DEF local, disk, environment, Goto
<1>2. CASE \/ Refuse(w) \/ Unreadable(w) \/ Abort(w) \/ Kill(w) \/ Verify(w) \/ Replace(w) \/ Cleanup(w)
  <2>1. pc'[w] \in Quiet
    BY <1>0, <1>2 DEF Refuse, Unreadable, Abort, Kill, Verify, Replace, Cleanup, Leave, Quiet
  <2> QED BY <2>1, KnowsNothing, KnowsSame
<1>3. CASE BeginInMemory(w)
  BY <1>3 DEF BeginInMemory
<1>4. CASE OpenInMemory(w) \/ WriteInMemory(w) \/ SyncInMemory(w)
  <2>1. pc[w] \in FromMemory \cup {"open_memory"}
    BY <1>4 DEF OpenInMemory, WriteInMemory, SyncInMemory, FromMemory
  <2> QED BY <1>1, <2>1 DEF Knows
<1>5. CASE Begin(w)
  <2>1. /\ pc'[w] = "digest" /\ at' = at /\ buffer' = buffer /\ identity' = identity
        /\ table' = table /\ payload' = payload /\ edits' = edits
        /\ pc[w] \in Quiet
    BY <1>0, <1>5 DEF Begin, Quiet
  <2>2. a = 1 /\ b = <<>> /\ i = <<>> /\ t = <<>>
    BY <1>0, <2>1 DEF Fits
  <2>3. \A p \in Positions : ~Checked("digest", a, p)
    BY <1>0, <2>2 DEF Checked
  <2>4. Prefix(b, y[FileAt(a)])
    BY <1>0, <2>2, PrefixEmpty DEF f, a, y
  <2>5. \A p \in 1..Len(i) : i[p] = y[FileAt(p)]
    BY <2>2
  <2>6. Knows("digest", a, b, i, t, y, e)
    BY <2>3, <2>4, <2>5 DEF Knows, FromMemory
  <2> QED BY <2>1, <2>6, KnowsSame DEF a, b, i, t, y, e
<1>6. CASE DigestChunk(w) \/ PlanChunk(w)
  <2>1. /\ pc' = pc /\ at' = at /\ identity' = identity /\ table' = table
        /\ payload' = payload /\ edits' = edits /\ pc[w] \in {"digest", "plan"}
        /\ buffer'[w] = Append(b, f[Len(b) + 1]) /\ Len(b) < Len(f)
    BY <1>0, <1>6 DEF DigestChunk, PlanChunk, ReadChunk, More, Chunk, b, f
  <2>2. Prefix(b, y[FileAt(a)]) => Prefix(buffer'[w], y[FileAt(a)])
    BY <1>0, <2>1, PrefixMore DEF f, a, y
  <2>3. Knows(pc[w], a, buffer'[w], i, t, y, e)
    BY <1>1, <2>1, <2>2 DEF Knows
  <2> QED BY <2>1, <2>3, KnowsSame DEF a, i, t, y, e
<1>7. CASE DigestEnd(w)
  <2> DEFINE k == Append(i, b)
  <2>1. /\ pc[w] = "digest" /\ ~(Len(b) < Len(f))
        /\ identity'[w] = k /\ buffer'[w] = <<>> /\ table' = table
        /\ payload' = payload /\ edits' = edits
    BY <1>0, <1>7 DEF DigestEnd, More, b, f, i
  <2>2. Len(i) = a - 1 /\ t = <<>>
    BY <1>0, <2>1 DEF Fits
  <2>3. /\ Len(k) = a /\ k[a] = b /\ \A p \in 1..(a - 1) : k[p] = i[p]
    <3>1. (a - 1) + 1 = a
      BY <1>0
    <3> QED BY <1>0, <2>2, <3>1, AppendFacts
  <2> HIDE DEF k
  <2>4. ASSUME e = 0, NEW p \in 1..Len(k) PROVE k[p] = y[FileAt(p)]
    <3>1. CASE p = a
      <4>1. Prefix(b, f)
        BY <1>1, <2>1, <2>4 DEF Knows, f, a, y
      <4> QED BY <1>0, <2>1, <2>3, <3>1, <4>1, PrefixWhole DEF f, a, y
    <3>2. CASE p # a
      <4>1. p \in 1..(a - 1)
        BY <1>0, <2>3, <3>2
      <4>2. i[p] = y[FileAt(p)]
        BY <1>1, <2>1, <2>2, <2>4, <4>1 DEF Knows, Quiet
      <4> QED BY <2>3, <4>1, <4>2
    <3> QED BY <3>1, <3>2
  <2>5. ASSUME NEW p \in Positions, Checked("digest", a, p)
        PROVE  Valid(k, p) \/ (Stale(k, y, e, p) /\ Unwritten(k, t, p))
    <3>1. p \in 1..(a - 1)
      BY <1>0, <2>5 DEF Checked
    <3>2. KindAt(p) = "plan" => p - 1 \in 1..(a - 1)
      BY <1>0, <3>1, KindFacts
    <3>3. k[p] = i[p] /\ (KindAt(p) = "plan" => k[p - 1] = i[p - 1])
      BY <2>3, <3>1, <3>2
    <3>4. Valid(i, p) \/ Stale(i, y, e, p)
      BY <1>1, <2>1, <2>5 DEF Knows
    <3>5. Unwritten(k, t, p)
      BY <2>2 DEF Unwritten
    <3> QED BY <3>3, <3>4, <3>5 DEF Valid, Stale
  <2>6. CASE KindAt(a) = "plan"
    <3>1. pc'[w] = "validate" /\ at' = at
      BY <1>0, <1>7, <2>6 DEF DigestEnd, a
    <3>2. \A p \in Positions : Checked("validate", a, p) => Checked("digest", a, p)
      BY DEF Checked
    <3>3. Knows("validate", a, <<>>, k, t, y, e)
      BY <2>4, <2>5, <3>2 DEF Knows, FromMemory
    <3> QED BY <2>1, <3>1, <3>3, KnowsSame DEF a, t, y, e
  <2>7. CASE KindAt(a) # "plan"
    <3>1. pc'[w] = "digest" /\ at'[w] = a + 1 /\ a + 1 \in Positions
      BY <1>0, <1>7, <2>1, <2>7 DEF DigestEnd, a
    <3>2. ASSUME NEW p \in Positions, Checked("digest", a + 1, p), ~Checked("digest", a, p)
          PROVE  Valid(k, p)
      <4>1. p = a - 2
        <5>1. p <= (a + 1) - 3 \/ (KindAt(p) = "plan" /\ p <= (a + 1) - 1)
          BY <3>2 DEF Checked
        <5>2. ~(p <= a - 3) /\ ~(KindAt(p) = "plan" /\ p <= a - 1)
          BY <3>2 DEF Checked
        <5>3. p # a \/ KindAt(p) # "plan"
          BY <2>7
        <5> QED BY <1>0, <5>1, <5>2, <5>3
      <4>2. a > 2
        BY <1>0, <4>1
      <4>3. KindAt(p) = "weights" \/ KindAt(p) = "plan"
        BY <1>0, <2>7, <4>1, <4>2, KindFacts
      <4>4. KindAt(p) # "plan"
        BY <1>0, <3>2, <4>1 DEF Checked
      <4> QED BY <4>3, <4>4 DEF Valid
    <3>3. Prefix(<<>>, y[FileAt(a + 1)])
      BY <1>0, <3>1, PrefixEmpty DEF y
    <3>4. Knows("digest", a + 1, <<>>, k, t, y, e)
      BY <2>4, <2>5, <3>2, <3>3 DEF Knows, FromMemory
    <3> QED BY <2>1, <3>1, <3>4, KnowsSame DEF t, y, e
  <2> QED BY <2>6, <2>7
<1>8. CASE ValidateKernels(w)
  <2>1. CASE ~KernelAccepted(w)
    <3>1. pc'[w] \in Quiet
      BY <1>0, <1>8, <2>1 DEF ValidateKernels, Leave, Quiet
    <3> QED BY <3>1, KnowsNothing, KnowsSame
  <2>2. CASE KernelAccepted(w)
    <3>1. /\ pc[w] = "validate" /\ pc'[w] = "plan" /\ at' = at /\ buffer' = buffer
          /\ identity' = identity /\ table' = table /\ payload' = payload /\ edits' = edits
      BY <1>0, <1>8, <2>2 DEF ValidateKernels
    <3>2. b = <<>> /\ KindAt(a) = "plan" /\ Len(i) = a /\ t = <<>>
      BY <1>0, <3>1 DEF Fits
    <3>3. /\ a - 1 \in Positions /\ a - 2 \in Positions
          /\ KindAt(a - 2) = "kernels" /\ KindAt(a - 1) = "weights"
      BY <1>0, <3>2, KindFacts
    <3>4. IsCubin(a - 2, y[FileAt(a - 2)])
      BY <2>2 DEF KernelAccepted, a, y
    <3>5. e = 0 => i[a - 2] = y[FileAt(a - 2)]
      <4>1. a - 2 \in 1..Len(i)
        BY <1>0, <3>2, <3>3
      <4> QED BY <1>1, <3>1, <4>1 DEF Knows, Quiet
    <3>6. ASSUME NEW p \in Positions, Checked("plan", a, p)
          PROVE  Valid(i, p) \/ (Stale(i, y, e, p) /\ Unwritten(i, t, p))
      <4>1. Unwritten(i, t, p)
        BY <3>2 DEF Unwritten
      <4>2. CASE p <= a - 3
        BY <1>1, <3>1, <4>1, <4>2 DEF Knows, Checked
      <4>3. CASE p = a - 2
        BY <1>0, <3>3, <3>4, <3>5, <4>1, <4>3 DEF Valid, Stale, e
      <4>4. CASE p = a - 1
        BY <3>3, <4>4 DEF Valid
      <4>5. p <= a - 1
        BY <3>6 DEF Checked
      <4>6. p <= a - 3 \/ p = a - 2 \/ p = a - 1
        <5>1. p \in Nat /\ a \in Nat
          BY <1>0
        <5> QED BY <4>5, <5>1
      <4> QED BY <4>2, <4>3, <4>4, <4>6
    <3>7. Prefix(b, y[FileAt(a)])
      BY <1>0, <3>2, PrefixEmpty DEF y
    <3>8. e = 0 => \A p \in 1..Len(i) : i[p] = y[FileAt(p)]
      BY <1>1, <3>1 DEF Knows, Quiet
    <3>9. Knows("plan", a, b, i, t, y, e)
      BY <3>6, <3>7, <3>8 DEF Knows, FromMemory
    <3> QED BY <3>1, <3>9, KnowsSame DEF a, b, i, t, y, e
  <2> QED BY <2>1, <2>2
<1>9. CASE PlanEnd(w)
  <2>1. CASE ~PlanAccepted(w)
    <3>1. pc'[w] \in Quiet
      BY <1>0, <1>9, <2>1 DEF PlanEnd, Leave, Quiet
    <3> QED BY <3>1, KnowsNothing, KnowsSame
  <2>2. CASE PlanAccepted(w)
    <3>1. /\ pc[w] = "plan" /\ ~(Len(b) < Len(f)) /\ buffer'[w] = <<>>
          /\ identity' = identity /\ table' = table /\ payload' = payload /\ edits' = edits
          /\ IsPlan(a, b, i[a - 1])
          /\ \/ pc'[w] = "open" /\ at'[w] = 1
             \/ pc'[w] = "digest" /\ at'[w] = a + 1 /\ a # Len(Variants) * 3
      BY <1>0, <1>9, <2>2 DEF PlanEnd, PlanAccepted, More, a, b, f, i
    <3>2. KindAt(a) = "plan" /\ Len(i) = a /\ t = <<>>
      BY <1>0, <3>1 DEF Fits
    <3>3. e = 0 => \A p \in 1..Len(i) : i[p] = y[FileAt(p)]
      BY <1>1, <3>1 DEF Knows, Quiet
    <3>4. Valid(i, a) \/ Stale(i, y, e, a)
      <4>1. CASE Stale(i, y, e, a)
        BY <4>1
      <4>2. CASE ~Stale(i, y, e, a)
        <5>1. Prefix(b, f)
          BY <1>1, <3>1, <4>2 DEF Knows, f, a, y
        <5>2. b = y[FileAt(a)]
          BY <1>0, <3>1, <5>1, PrefixWhole DEF f, a, y
        <5>3. i[a] = y[FileAt(a)]
          <6>1. CASE e = 0
            BY <1>0, <3>2, <3>3, <6>1
          <6>2. CASE e # 0
            BY <1>0, <4>2, <6>2 DEF Stale, e
          <6> QED BY <6>1, <6>2
        <5> QED BY <3>1, <3>2, <5>2, <5>3 DEF Valid
      <4> QED BY <4>1, <4>2
    <3>5. ASSUME NEW p \in Positions, p <= a
          PROVE  Valid(i, p) \/ (Stale(i, y, e, p) /\ Unwritten(i, t, p))
      <4>1. Unwritten(i, t, p)
        BY <3>2 DEF Unwritten
      <4>2. CASE p = a
        BY <3>4, <4>1, <4>2
      <4>3. CASE p # a
        <5>1. Checked("plan", a, p)
          BY <1>0, <3>5, <4>3 DEF Checked
        <5> QED BY <1>1, <3>1, <4>1, <5>1 DEF Knows
      <4> QED BY <4>2, <4>3
    <3>6. CASE pc'[w] = "open"
      <4>1. a = 3 * Len(Variants)
        BY <1>0, <1>9, <2>2, <3>1, <3>6 DEF PlanEnd, a
      <4>2. \A p \in Positions : p <= a
        BY <1>0, <4>1
      <4>3. Knows("open", at'[w], <<>>, i, t, y, e)
        BY <3>3, <3>5, <4>2 DEF Knows, FromMemory
      <4> QED BY <3>1, <3>6, <4>3, KnowsSame DEF i, t, y, e
    <3>7. CASE pc'[w] # "open"
      <4>1. a + 1 \in Positions /\ \A p \in Positions : Checked("digest", a + 1, p) => p <= a
        <5>1. a + 1 \in Positions
          <6> DEFINE n == Len(Variants)
          <6>1. n \in Nat /\ a \in Nat /\ a <= 3 * n /\ a # n * 3 /\ Positions = 1..(3 * n)
            BY <1>0, <3>1, <3>7
          <6> HIDE DEF n
          <6> QED BY <6>1
        <5>2. ASSUME NEW p \in Positions, Checked("digest", a + 1, p) PROVE p <= a
          <6>1. p <= (a + 1) - 3 \/ p <= (a + 1) - 1
            BY <5>2 DEF Checked
          <6> QED BY <1>0, <6>1
        <5> QED BY <5>1, <5>2
      <4>2. Prefix(<<>>, y[FileAt(a + 1)])
        BY <1>0, <4>1, PrefixEmpty DEF y
      <4>3. Knows("digest", a + 1, <<>>, i, t, y, e)
        BY <3>3, <3>5, <4>1, <4>2 DEF Knows, FromMemory
      <4> QED BY <3>1, <3>7, <4>3, KnowsSame DEF i, t, y, e
    <3> QED BY <3>6, <3>7
  <2> QED BY <2>1, <2>2
<1>10. CASE \/ OpenTemporary(w) \/ WriteDirectory(w) \/ WriteHeader(w) \/ SyncContainer(w)
            \/ WriteChecksum(w) \/ SyncChecksum(w)
  <2>1. /\ pc[w] \in {"open"} \cup Streaming /\ pc'[w] \in Streaming \ {"copy"}
        /\ identity' = identity /\ table' = table /\ payload' = payload /\ edits' = edits
    BY <1>0, <1>10 DEF OpenTemporary, Open, WriteDirectory, WriteHeader, SyncContainer,
                       WriteChecksum, SyncChecksum, Streaming
  <2>2. Knows(pc'[w], at'[w], buffer'[w], i, t, y, e)
    BY <1>1, <2>1, KnowsOn
  <2> QED BY <2>1, <2>2, KnowsSame DEF i, t, y, e
<1>11. CASE StartSection(w)
  <2>1. /\ pc[w] = "section" /\ pc'[w] = "copy" /\ at' = at /\ buffer' = buffer
        /\ identity' = identity /\ table' = table /\ payload' = payload /\ edits' = edits
    BY <1>0, <1>11 DEF StartSection
  <2>2. b = <<>>
    BY <1>0, <2>1 DEF Fits
  <2>3. \A p \in Positions : Checked("section", a, p)
    BY DEF Checked, Streaming
  <2>4. CASE e = 0
    <3>1. \A p \in Positions : Valid(i, p)
      BY <1>1, <2>1, <2>3, <2>4 DEF Knows, Stale
    <3>2. \A p \in 1..Len(i) : i[p] = y[FileAt(p)]
      BY <1>1, <2>1, <2>4 DEF Knows, Quiet
    <3>3. Knows("copy", a, b, i, t, y, e)
      BY <3>1, <3>2 DEF Knows, FromMemory
    <3> QED BY <2>1, <3>3, KnowsSame DEF a, b, i, t, y, e
  <2>5. CASE e # 0
    <3>1. e >= 1
      BY <1>0, <2>5 DEF e
    <3>2. Prefix(b, y[FileAt(a)])
      BY <1>0, <2>2, PrefixEmpty DEF y
    <3>3. Knows("copy", a, b, i, t, y, e)
      BY <1>1, <2>1, <2>3, <2>5, <3>1, <3>2 DEF Knows, FromMemory
    <3> QED BY <2>1, <3>3, KnowsSame DEF a, b, i, t, y, e
  <2> QED BY <2>4, <2>5
<1>12. CASE CopyChunk(w)
  <2>1. /\ pc' = pc /\ at' = at /\ identity' = identity /\ table' = table
        /\ payload' = payload /\ edits' = edits /\ pc[w] = "copy"
        /\ buffer'[w] = Append(b, f[Len(b) + 1]) /\ Len(b) < Len(f)
    BY <1>0, <1>12 DEF CopyChunk, ReadChunk, More, Chunk, b, f
  <2>2. Prefix(b, y[FileAt(a)]) => Prefix(buffer'[w], y[FileAt(a)])
    BY <1>0, <2>1, PrefixMore DEF f, a, y
  <2>3. Knows(pc[w], a, buffer'[w], i, t, y, e)
    BY <1>1, <2>1, <2>2 DEF Knows
  <2> QED BY <2>1, <2>3, KnowsSame DEF a, i, t, y, e
<1>13. ASSUME NEW section \in Nat, Advance(w, section), identity' = identity, payload' = payload,
              edits' = edits, pc[w] \in {"section", "copy"},
              NoneRevived(a, i, t, y, e)
       PROVE  ReadOnce(w)'
  <2> DEFINE entry == [section |-> section, digest |-> i[a]]
  <2>1. table'[w] = Append(t, entry) /\ pc'[w] \in {"section", "directory"}
    BY <1>0, <1>13 DEF Advance, t, i, a
  <2>2. Len(t) = a - 1 /\ Len(i) = 3 * Len(Variants)
    BY <1>0, <1>13 DEF Fits, Streaming
  <2>3. i[a] \in Bytes
    BY <1>0, <2>2, SequenceElement
  <2>4. entry \in [section : Nat, digest : Bytes]
    BY <1>13, <2>3
  <2> DEFINE l == pc[w]
             m == pc'[w]
             c == at'[w]
             d == buffer'[w]
  <2>5. l \in {"section", "copy"} /\ m \in {"section", "directory"} /\ Knows(l, a, b, i, t, y, e)
    BY <1>1, <1>13, <2>1
  <2> HIDE DEF entry, l, m, c, d
  <2>a. /\ scenario \in Scenarios /\ a \in Positions /\ t \in Directory /\ Len(t) = a - 1
        /\ NoneRevived(a, i, t, y, e)
    BY <1>0, <1>13, <2>2
  <2>6. Knows(m, c, d, i, Append(t, entry), y, e)
    <3>1. \A n \in {"section", "directory"} : \A g, h : Knows(n, g, h, i, Append(t, entry), y, e)
      BY <2>a, <2>4, <2>5, KnowsAdvance
    <3> QED BY <2>5, <3>1
  <2>7. Knows(pc'[w], at'[w], buffer'[w], i, table'[w], y, e)
    BY <2>1, <2>6 DEF m, c, d
  <2> QED BY <1>13, <2>7, KnowsSame DEF i, y, e
<1>14. CASE ReuseSection(w)
  <2>1. /\ pc[w] = "section" /\ identity' = identity /\ payload' = payload /\ edits' = edits
    BY <1>14 DEF ReuseSection
  <2>2. PICK s \in SectionsWith(Written(w), KindAt(a), i[a]) : Advance(w, s)
    BY <1>14 DEF ReuseSection, a, i
  <2>3. Written(w) \in File
    BY <1>0, <2>1, WrittenTyped DEF Streaming
  <2> DEFINE g == Written(w)
  <2>4. s \in DOMAIN g.body /\ g.body[s] = [kind |-> KindAt(a), bytes |-> i[a]]
    BY <2>2 DEF SectionsWith
  <2>5. s \in Nat
    <3>1. g.body \in Seq(Section)
      BY <2>3 DEF File
    <3> HIDE DEF g
    <3> QED BY <2>4, <3>1
  <2>6. /\ \A p \in 1..Len(t) : t[p].digest = i[p] /\ Entered(g, t[p], KindAt(p))
        /\ \E p \in 1..Len(t) : t[p].section = s
    <3>1. Holds("section", a, b, i, t, g, durable[fd[w]])
      BY <2>1 DEF Assembled, a, b, i, t
    <3> HIDE DEF g
    <3> QED BY <2>4, <3>1 DEF Holds, Streaming
  <2> HIDE DEF g
  <2>7. PICK q \in 1..Len(t) : t[q].section = s
    BY <2>6
  <2>8. KindAt(q) = KindAt(a) /\ i[q] = i[a] /\ q \in Positions
    <3>1. Entered(g, t[q], KindAt(q)) /\ t[q].digest = i[q]
      BY <2>6
    <3>2. [kind |-> KindAt(a), bytes |-> i[a]] = [kind |-> KindAt(q), bytes |-> i[q]]
      BY <2>4, <2>7, <3>1 DEF Entered
    <3>3. Len(t) = a - 1
      BY <1>0, <2>1 DEF Fits
    <3>4. q \in Positions
      BY <1>0, <3>3
    <3>5. KindAt(a) = KindAt(q) /\ i[a] = i[q]
      BY <3>2
    <3> QED BY <3>4, <3>5
  <2>9. ASSUME NEW p \in Positions, Unwritten(i, t, p),
               KindAt(a) = KindAt(p), FileAt(a) = FileAt(p), i[a] = i[p]
        PROVE  Twin(i, p)
    <3>1. FileAt(q) # FileAt(p)
      BY <2>8, <2>9 DEF Unwritten
    <3> QED BY <2>8, <2>9, <3>1 DEF Twin
  <2> QED BY <1>13, <2>1, <2>2, <2>5, <2>9 DEF NoneRevived
<1>15. CASE CopyEnd(w)
  <2>1. CASE buffer[w] # identity[w][at[w]]
    <3>1. pc'[w] \in Quiet
      BY <1>0, <1>15, <2>1 DEF CopyEnd, Leave, Quiet
    <3> QED BY <3>1, KnowsNothing, KnowsSame
  <2>2. CASE buffer[w] = identity[w][at[w]]
    <3>1. /\ pc[w] = "copy" /\ ~(Len(b) < Len(f)) /\ b = i[a]
          /\ identity' = identity /\ payload' = payload /\ edits' = edits
          /\ Advance(w, Len(Written(w).body))
      BY <1>15, <2>2 DEF CopyEnd, More, b, f, i, a
    <3>2. Len(Written(w).body) \in Nat
      <4>1. Written(w) \in File
        BY <1>0, <3>1, WrittenTyped DEF Streaming
      <4>2. Written(w).body \in Seq(Section)
        BY <4>1 DEF File
      <4> DEFINE body == Written(w).body
      <4> HIDE DEF body
      <4>3. Len(body) \in Nat
        BY <4>2 DEF body
      <4> QED BY <4>3 DEF body
    <3>3. ASSUME NEW p \in Positions, Stale(i, y, e, p), FileAt(a) = FileAt(p), i[a] = i[p]
          PROVE  Valid(i, p)
      <4>1. CASE \A q \in Positions : FileAt(q) = FileAt(a) => Valid(i, q)
        BY <3>3, <4>1
      <4>2. CASE Prefix(b, y[FileAt(a)])
        <5>1. b = y[FileAt(a)]
          BY <1>0, <3>1, <4>2, PrefixWhole DEF f, a, y
        <5> QED BY <3>1, <3>3, <5>1 DEF Stale
      <4> QED BY <1>1, <3>1, <4>1, <4>2 DEF Knows
    <3> QED BY <1>13, <3>1, <3>2, <3>3 DEF NoneRevived
  <2> QED BY <2>1, <2>2
<1> QED
  BY <1>2, <1>3, <1>4, <1>5, <1>6, <1>7, <1>8, <1>9, <1>10, <1>11, <1>12, <1>14, <1>15
  DEF WriterMoves, WriterStep

\* A writer edits no payload.
LEMMA PayloadsKept ==
  ASSUME FrameInv, scenario' = scenario, NEW w \in Writers, WriterMoves(w)
  PROVE  payload' = payload /\ edits' = edits
<1> USE DEF local, disk, environment
<1>1. CASE \/ Begin(w) \/ Refuse(w) \/ BeginInMemory(w) \/ Unreadable(w) \/ Abort(w) \/ Kill(w)
           \/ DigestChunk(w) \/ DigestEnd(w) \/ PlanChunk(w) \/ ValidateKernels(w) \/ PlanEnd(w)
           \/ Verify(w) \/ ReuseSection(w) \/ CopyEnd(w)
  BY <1>1 DEF Begin, Refuse, BeginInMemory, Unreadable, Abort, Kill, DigestChunk, DigestEnd,
              PlanChunk, ValidateKernels, PlanEnd, Verify, ReuseSection, CopyEnd
<1>2. CASE OpenTemporary(w) \/ OpenInMemory(w) \/ StartSection(w) \/ CopyChunk(w)
           \/ WriteDirectory(w) \/ WriteHeader(w) \/ WriteInMemory(w) \/ WriteChecksum(w)
  BY <1>2 DEF OpenTemporary, OpenInMemory, StartSection, CopyChunk, WriteDirectory, WriteHeader,
              WriteInMemory, WriteChecksum
<1>3. CASE SyncContainer(w) \/ SyncChecksum(w) \/ SyncInMemory(w) \/ Replace(w) \/ Cleanup(w)
  BY <1>3 DEF SyncContainer, SyncChecksum, SyncInMemory, Replace, Cleanup
<1> QED BY <1>1, <1>2, <1>3 DEF WriterMoves, WriterStep

\* The one edit: what was valid stays so, and what is digested becomes stale.
LEMMA EditReads ==
  ASSUME FrameInv, scenario' = scenario, MaxEdits <= 1, \E q \in Payloads : Edit(q),
         NEW w \in Writers, ReadOnce(w)
  PROVE  ReadOnce(w)'
<1> DEFINE l == pc[w]
           a == at[w]
           b == buffer[w]
           i == identity[w]
           t == table[w]
<1>1. PICK q \in Payloads : Edit(q)
  OBVIOUS
<1>2. PICK bytes \in Contents[q] \ {payload[q]} : payload' = [payload EXCEPT ![q] = bytes]
  BY <1>1 DEF Edit
<1>3. edits = 0 /\ edits' = 1 /\ UNCHANGED <<pc, local>>
  BY <1>1, ScenarioFacts DEF Edit, FrameInv, CallInv, CallsOK
<1>4. Knows(l, a, b, i, t, payload, 0)
  BY <1>3 DEF ReadOnce
<1>5. /\ payload \in [Payloads -> Bytes] /\ Fits(l, a, b, i, t)
      /\ a \in Positions /\ a \in Nat /\ a >= 1 /\ FileAt(a) \in Payloads
  BY PositionFacts DEF FrameInv, CallInv, CallsOK, Progress
<1>6. UNCHANGED <<pc, at, buffer, identity, table>>
  BY <1>3 DEF local
<1> HIDE DEF l, a, b, i, t
<1>7. l = "plan" => Prefix(b, payload'[FileAt(a)]) \/ Stale(i, payload', 1, a)
  <2> SUFFICES ASSUME l = "plan" PROVE Prefix(b, payload'[FileAt(a)]) \/ Stale(i, payload', 1, a)
    OBVIOUS
  <2>1. Prefix(b, payload[FileAt(a)])
    BY <1>4 DEF Knows, Stale
  <2>2. i[a] = payload[FileAt(a)]
    <3>1. a \in 1..Len(i)
      BY <1>5 DEF Fits
    <3> QED BY <1>4, <3>1 DEF Knows, Quiet
  <2>3. CASE FileAt(a) = q
    <3>1. payload'[FileAt(a)] # payload[FileAt(a)]
      BY <1>2, <1>5, <2>3
    <3> QED BY <2>2, <3>1 DEF Stale
  <2>4. CASE FileAt(a) # q
    BY <1>2, <1>5, <2>1, <2>4
  <2> QED BY <2>3, <2>4
<1>8. \A p \in Positions : Checked(l, a, p) => Valid(i, p)
  BY <1>4 DEF Knows, Stale
<1>9. l = "copy" => \A p \in Positions : FileAt(p) = FileAt(a) => Valid(i, p)
  BY <1>4 DEF Knows
<1>10. l \notin FromMemory \cup {"open_memory"}
  BY <1>4 DEF Knows
<1> DEFINE y == payload'
<1>11. Knows(l, a, b, i, t, payload', 1)
  BY <1>7, <1>8, <1>9, <1>10 DEF Knows
<1> QED BY <1>3, <1>6, <1>11, KnowsSame DEF l, a, b, i, t

\* What a step leaves bound is what was bound, unchanged, or what it publishes.
LEMMA BindingsKept ==
  ASSUME ContainerInv, [Next]_vars, NEW j \in bindings', j # NONE
  PROVE  /\ scenario' = scenario
         /\ \/ j \in bindings /\ cached'[j] = cached[j]
            \/ \E w \in Writers : Replace(w) /\ j = names[w] /\ cached'[j] = cached[j]
<1>0. /\ FrameInv /\ OwnerInv /\ ContentInv /\ scenario \in Scenarios /\ DiskOK
      /\ bindings \subseteq MaybeInode /\ cached \in [Inodes -> File]
  BY ContainerLayers DEF FrameInv, CallInv, CallsOK, DiskOK
<1> USE DEF local, disk, environment
<1>1. CASE UNCHANGED vars
  BY <1>1 DEF vars
<1>2. CASE Next
  <2>0. scenario' = scenario
    BY <1>2 DEF Next
  <2>1. ASSUME NEW w \in Writers, WriterMoves(w), bindings' = bindings
        PROVE  cached'[j] = cached[j]
    <3>1. j \in Inodes /\ j # names[w] /\ j \in InUse /\ j \in InUse'
      BY <1>0, <2>1 DEF OwnerInv, Owned, MaybeInode, InUse
    <3> QED BY <1>0, <2>0, <2>1, <3>1, FileKept
  <2>2. ASSUME NEW w \in Writers, WriterMoves(w), ~Replace(w)
        PROVE  bindings' = bindings
    <3>1. CASE \/ Begin(w) \/ Refuse(w) \/ BeginInMemory(w) \/ Unreadable(w) \/ Abort(w) \/ Kill(w)
               \/ DigestChunk(w) \/ DigestEnd(w) \/ PlanChunk(w) \/ ValidateKernels(w) \/ PlanEnd(w)
               \/ Verify(w) \/ ReuseSection(w) \/ CopyEnd(w)
      BY <3>1 DEF Begin, Refuse, BeginInMemory, Unreadable, Abort, Kill, DigestChunk, DigestEnd,
                  PlanChunk, ValidateKernels, PlanEnd, Verify, ReuseSection, CopyEnd
    <3>2. CASE OpenTemporary(w) \/ OpenInMemory(w)
      BY <3>2 DEF OpenTemporary, OpenInMemory, Open
    <3>3. CASE \/ StartSection(w) \/ CopyChunk(w) \/ WriteDirectory(w) \/ WriteHeader(w)
               \/ WriteInMemory(w) \/ WriteChecksum(w)
      BY <1>0, <2>0, <3>3, WriteTyped
    <3>4. CASE SyncContainer(w) \/ SyncChecksum(w) \/ SyncInMemory(w) \/ Cleanup(w)
      BY <3>4 DEF SyncContainer, SyncChecksum, SyncInMemory, Sync, Cleanup
    <3> QED
      BY <2>2, <3>1, <3>2, <3>3, <3>4 DEF WriterMoves, WriterStep
  <2>3. ASSUME NEW w \in Writers, Replace(w), WriterMoves(w)
        PROVE  \/ j \in bindings /\ cached'[j] = cached[j]
               \/ j = names[w] /\ cached'[j] = cached[j]
    <3>1. Release /\ bindings' = bindings \cup {names[w]} /\ names[w] # NONE
      BY <2>3 DEF Replace, Container, Temporary
    <3>2. j \in Inodes /\ j \in InUse'
      BY <1>0, <2>3, <3>1 DEF InUse, MaybeInode, Opened, FrameInv, DiskOK, Paths
    <3>3. cached'[j] = cached[j]
      BY <1>0, <3>1, <3>2, KeptFile DEF Release
    <3> QED BY <3>1, <3>3
  <2>4. CASE (\E q \in Payloads : Edit(q)) \/ LoadModel
    BY <2>0, <2>4 DEF Edit, LoadModel
  <2>5. CASE DestroyModel \/ Writeback
    <3>1. Release /\ bindings' \subseteq bindings
      BY <1>0, <2>5 DEF DestroyModel, Writeback, OwnerInv
    <3>2. j \in Inodes /\ j \in InUse'
      BY <1>0, <3>1 DEF InUse, MaybeInode
    <3>3. cached'[j] = cached[j]
      BY <1>0, <3>1, <3>2, KeptFile DEF Release
    <3> QED BY <2>0, <3>1, <3>3
  <2>6. CASE PowerLoss
    <3>1. j \in bindings
      BY <2>6 DEF PowerLoss
    <3>2. PICK lost \in SUBSET Blocks : cached' = Kept([k \in Inodes |-> Survives(k, lost)])
      BY <2>6 DEF PowerLoss
    <3>3. j \in Inodes /\ j \in InUse' /\ durable[j] = cached[j]
      BY <1>0, <3>1 DEF ContentInv, Published, MaybeInode, InUse
    <3> DEFINE after == [k \in Inodes |-> Survives(k, lost)]
    <3>4. after \in [Inodes -> File]
      BY <1>0, SurvivesFile
    <3>5. after[j] = cached[j]
      BY <1>0, <3>3, SurvivesFile
    <3> HIDE DEF after
    <3>6. cached'[j] = after[j]
      BY <3>2, <3>3, <3>4, KeptFile DEF after
    <3> QED BY <2>0, <3>1, <3>5, <3>6
  <2>7. ASSUME NEW w \in Writers, WriterMoves(w)
        PROVE  \/ j \in bindings /\ cached'[j] = cached[j]
               \/ Replace(w) /\ j = names[w] /\ cached'[j] = cached[j]
    BY <2>1, <2>2, <2>3, <2>7
  <2> QED BY <1>2, <2>0, <2>4, <2>5, <2>6, <2>7 DEF Next, Step, WriterMoves
<1> QED BY <1>1, <1>2

\* What a writer publishes executes.
LEMMA ReplaceExecutable ==
  ASSUME ContainerInv, NEW w \in Writers, Replace(w), ReadOnce(w), NEW p \in Positions
  PROVE  Executable(cached[names[w]], p) \/ Reused(cached[names[w]], p)
<1> DEFINE i == identity[w]
           t == table[w]
           f == cached[names[w]]
<1>0. FrameInv /\ Assembled(w) /\ Progress(w) /\ scenario \in Scenarios /\ table[w] \in Directory
  BY DEF ContainerInv, FrameInv, CallInv, CallsOK
<1>1. pc[w] = "replace"
  BY DEF Replace, ReadOnce, Knows, FromMemory
<1>2. fd[w] = names[w] /\ names[w] \in Inodes
  BY <1>0, <1>1, ReadyIntact
<1>3. /\ Holds("replace", at[w], buffer[w], i, t, f, durable[fd[w]])
      /\ Knows("replace", at[w], buffer[w], i, t, payload, edits)
  BY <1>0, <1>1, <1>2 DEF Assembled, Written, ReadOnce
<1>4. Len(t) = 3 * Len(Variants)
  BY <1>0, <1>1 DEF Progress, Fits, Streaming
<1> HIDE DEF i, t, f
<1>5. ASSUME NEW q \in Positions PROVE BytesAt(f, q) = i[q]
  <2>1. q \in 1..Len(t) /\ f.directory = t
    BY <1>3, <1>4, <1>5 DEF Holds, Positions
  <2>2. t[q].digest = i[q] /\ Entered(f, t[q], KindAt(q))
    BY <1>3, <2>1 DEF Holds, Streaming
  <2> QED BY <2>1, <2>2 DEF Entered, BytesAt
<1>6. Valid(i, p) \/ (Stale(i, payload, edits, p) /\ (Unwritten(i, t, p) \/ Twin(i, p)))
  <2>1. Checked("replace", at[w], p)
    BY DEF Checked, Streaming
  <2> QED BY <1>3, <2>1 DEF Knows
<1>7. ~Unwritten(i, t, p)
  BY <1>4 DEF Unwritten, Positions
<1>8. CASE Valid(i, p)
  <2>1. KindAt(p) = "plan" => p - 1 \in Positions
    BY <1>0, PositionFacts
  <2> QED BY <1>5, <1>8, <2>1 DEF Valid, Executable, f
<1>9. CASE Twin(i, p)
  BY <1>5, <1>9 DEF Twin, Reused, f
<1> QED BY <1>6, <1>7, <1>8, <1>9

\* In a scenario with one edit at most, and no container assembled in memory,
\* what the writers know and what is published executes goes on from step to step.
LEMMA ReadStep ==
  ASSUME ContainerInv, ReadInv, [Next]_vars
  PROVE  ReadInv'
<1> SUFFICES ASSUME Quietly' PROVE (\A w \in Writers : ReadOnce(w))' /\ PublishedExecutable'
  BY DEF ReadInv
<1>0. /\ scenario' = scenario /\ FrameInv /\ FrameInv' /\ OwnerInv /\ scenario \in Scenarios
      /\ \A w \in Writers : Assembled(w)
      /\ Positions' = Positions /\ Writers' = Writers /\ MaxEdits' = MaxEdits
  <2>1. scenario' = scenario /\ FrameInv /\ OwnerInv /\ ContentInv
    BY ContainerLayers DEF vars, Next
  <2> QED BY <2>1, FrameStep, SameScenario DEF FrameInv, ContentInv, CallInv, CallsOK
<1>1. MaxEdits <= 1 /\ ~scenario.inMemory /\ (\A w \in Writers : ReadOnce(w)) /\ PublishedExecutable
  BY <1>0 DEF Quietly, ReadInv
<1> USE DEF local, disk, environment
<1>2. ASSUME NEW v \in Writers, pc'[v] = pc[v], at'[v] = at[v], buffer'[v] = buffer[v],
             identity'[v] = identity[v], table'[v] = table[v], payload' = payload, edits' = edits
      PROVE  ReadOnce(v)'
  <2>1. Knows(pc'[v], at'[v], buffer'[v], identity'[v], table'[v], payload', edits')
    BY <1>1, <1>2 DEF ReadOnce
  <2> QED BY <1>0, <2>1, KnowsSame
<1>3. ASSUME NEW v \in Writers PROVE ReadOnce(v)'
  <2>1. CASE UNCHANGED vars
    BY <1>2, <2>1 DEF vars
  <2>2. ASSUME NEW w \in Writers, WriterMoves(w) PROVE ReadOnce(v)'
    <3>1. CASE v = w
      BY <1>0, <1>1, <2>2, <3>1, WriterReads
    <3>2. CASE v # w
      <4>1. SameCall(v)
        BY <1>0, <2>2, <3>2, OthersKept
      <4>2. payload' = payload /\ edits' = edits
        BY <1>0, <2>2, PayloadsKept
      <4> QED BY <1>2, <4>1, <4>2 DEF SameCall
    <3> QED BY <3>1, <3>2
  <2>3. CASE LoadModel \/ DestroyModel \/ Writeback
    BY <1>2, <2>3 DEF LoadModel, DestroyModel, Writeback
  <2>4. CASE PowerLoss
    <3>1. pc'[v] \in Quiet
      BY <2>4 DEF PowerLoss, Quiet
    <3> QED BY <1>0, <3>1, KnowsNothing, KnowsSame
  <2>5. CASE \E q \in Payloads : Edit(q)
    BY <1>0, <1>1, <2>5, EditReads
  <2> QED BY <2>1, <2>2, <2>3, <2>4, <2>5 DEF Next, Step, WriterMoves
<1>4. ASSUME NEW j \in bindings', j # NONE, NEW p \in Positions
      PROVE  (Executable(cached[j], p) \/ Reused(cached[j], p))'
  <2>1. cached'[j] = cached[j] /\ (Executable(cached[j], p) \/ Reused(cached[j], p))
    <3>1. CASE j \in bindings /\ cached'[j] = cached[j]
      BY <1>1, <1>4, <3>1 DEF PublishedExecutable
    <3>2. ASSUME NEW w \in Writers, Replace(w), j = names[w], cached'[j] = cached[j]
          PROVE  Executable(cached[j], p) \/ Reused(cached[j], p)
      BY <1>1, <3>2, ReplaceExecutable
    <3> QED BY <1>4, <3>1, <3>2, BindingsKept
  <2>2. \A q : FileAt(q)' = FileAt(q)
    BY <1>0, SameScenario DEF FileAt
  <2> QED BY <1>0, <2>1, <2>2 DEF Executable, Reused
<1>5. PublishedExecutable'
  BY <1>0, <1>4 DEF PublishedExecutable
<1> QED BY <1>0, <1>3, <1>5

\* What a writer knows at the start, and what is published then: nothing.
LEMMA ReadInit ==
  ASSUME Init
  PROVE  ReadInv
<1>1. /\ pc = [w \in Writers |-> "idle"] /\ bindings = {NONE}
  BY DEF Init
<1>2. ASSUME NEW w \in Writers PROVE ReadOnce(w)
  <2>1. pc[w] \in Quiet
    BY <1>1 DEF Quiet
  <2> QED BY <2>1, KnowsNothing DEF ReadOnce
<1> QED BY <1>1, <1>2 DEF ReadInv, PublishedExecutable

\* The container that write_streaming publishes executes, if at most one payload
\* file is edited: it validates kernels and plan in reads of their own, but
\* digests before and compares after enclose them.  What escapes is a section
\* reused for another file of the same bytes.
THEOREM DestinationAlwaysExecutable == Spec => []DestinationExecutable
<1>1. Init => ContainerInv /\ ReadInv
  BY ContainerInit, ReadInit
<1>2. (ContainerInv /\ ReadInv) /\ [Next]_vars => (ContainerInv /\ ReadInv)'
  BY ContainerStep, ReadStep
<1>3. ContainerInv /\ ReadInv => DestinationExecutable
  BY DEF ContainerInv, Published, ReadInv, Quietly, PublishedExecutable, DestinationExecutable
<1> QED BY <1>1, <1>2, <1>3, PTL DEF Spec

===============================================================================
