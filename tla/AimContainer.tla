----------------------------- MODULE AimContainer -----------------------------
(***************************************************************************)
(* Publication of an AIM container, src/aginfer/aim.py: AimWriter.write,   *)
(* AimWriter.write_streaming and AimReader.read, over a file system that   *)
(* may lose what was not synced, with payload files others may edit, and   *)
(* with runtimes that map the published file (LoadModel in                 *)
(* cpp/runtime.cc) while it is replaced.                                   *)
(*                                                                         *)
(* A file's bytes are a sequence of chunks, and its digest is its bytes.   *)
(* A container is four blocks that reach the disk separately: the header,  *)
(* the sections, the variant directory and the file checksum.              *)
(***************************************************************************)
EXTENDS Naturals, Sequences, FiniteSets, SequencesExt

CONSTANTS
  Scenarios,     \* what is written, by whom, beside which disturbances
  Chunks,        \* what payloads are made of
  Cubins,        \* <<architecture, first chunk>>: what _validate_cubin accepts
  Plans,         \* <<architecture, plan, weights size>>: what parse_executable_plan accepts
  NONE           \* no file, no block

Kinds == <<"kernels", "weights", "plan">>

ASSUME ContainerAssumption ==
  \A s \in Scenarios :
    /\ s.variants \in Seq([{"kernels", "weights", "plan"} -> DOMAIN s.contents]) \ {<<>>}
    /\ \A q \in DOMAIN s.contents : s.contents[q] \subseteq Seq(Chunks)
    /\ s.inMemory \in BOOLEAN
    /\ {s.maxEdits, s.maxCrashes, s.maxLoads} \subseteq Nat
    /\ "destination" \notin s.writers
    /\ s.inodes \subseteq Nat

ASSUME NoneAssumption ==
  /\ \A s \in Scenarios : NONE \notin s.inodes
  /\ NONE \notin Seq([section : Nat, digest : Seq(Chunks)])

VARIABLES
  scenario,    \* the one this behaviour is about; it never changes
  payload,     \* payload file -> its bytes now
  names,       \* path -> inode, the directory of the destination
  cached,      \* inode -> the container every process sees
  durable,     \* inode -> what of it has been synced
  bindings,    \* the inodes the destination may name after a power loss
  pc,          \* writer -> where its call is
  fd,          \* writer -> inode of the temporary file it has open
  at,          \* writer -> the payload, counted over all variants, it is at
  buffer,      \* writer -> chunks read so far of the open payload
  identity,    \* writer -> digests of the payloads, in order
  table,       \* writer -> directory entries, in order
  leftover,    \* writers killed since their last call finished
  mapped,      \* what runtimes have mapped: inode and bytes at load
  edits, crashes

local == <<fd, at, buffer, identity, table>>
disk == <<names, cached, durable, bindings>>
environment == <<payload, leftover, mapped, edits, crashes>>
vars == <<scenario, disk, pc, local, environment>>

\* Processes that write the one destination, by process id.
Writers == scenario.writers

\* The variants in architecture order: kind -> payload file.
Variants == scenario.variants

\* Payload file -> the contents it may have.
Contents == scenario.contents

Payloads == DOMAIN Contents

\* Bound on files alive at once.
Inodes == scenario.inodes

\* Bounds on edits of payload files, on killed processes and power losses, and
\* on models mapped at once.
MaxEdits == scenario.maxEdits
MaxCrashes == scenario.maxCrashes
MaxLoads == scenario.maxLoads

Paths == {"destination"} \cup Writers

Positions == 1..(3 * Len(Variants))

KindAt(p) == Kinds[((p - 1) % 3) + 1]

\* An architecture is named by its place among the variants.
ArchAt(p) == ((p - 1) \div 3) + 1

FileAt(p) == Variants[ArchAt(p)][KindAt(p)]

Empty == [header |-> NONE, body |-> <<>>, directory |-> NONE, checksum |-> NONE]

\* Hash of the file with its checksum field zeroed.
FileHash(f) == <<f.header, f.body, f.directory>>

\* _parse: header, directory and file digests, then the digest of every section.
Intact(f) ==
  /\ f.header # NONE /\ f.header = f.directory
  /\ f.checksum = FileHash(f)
  /\ \A p \in Positions :
       LET entry == f.directory[p] IN
         /\ entry.section \in DOMAIN f.body
         /\ f.body[entry.section] = [kind |-> KindAt(p), bytes |-> entry.digest]

BytesAt(f, p) == f.body[f.directory[p].section].bytes

\* _parse: the kernels start with a CUBIN of the variant's architecture.
IsCubin(p, kernels) == kernels # <<>> /\ <<ArchAt(p), kernels[1]>> \in Cubins

CubinsOnly(f) ==
  \A p \in Positions : KindAt(p) = "kernels" => IsCubin(p, BytesAt(f, p))

\* verify_executable_plans: the plan is one for the architecture and the weights.
IsPlan(p, plan, weights) == <<ArchAt(p), plan, Len(weights)>> \in Plans

PlansParse(f) ==
  \A p \in Positions :
    KindAt(p) = "plan" => IsPlan(p, BytesAt(f, p), BytesAt(f, p - 1))

\* Fault: the container is written in place.
TemporaryInPlace(w) == "destination"

\* The temporary file next to the destination is named after the process id.
Temporary(w) == w

Container(w) == names[Temporary(w)]

Written(w) == cached[fd[w]]

InUse ==
  (  {names[q] : q \in Paths} \cup {fd[w] : w \in Writers}
   \cup bindings \cup {m.inode : m \in mapped}) \ {NONE}

\* An inode nobody refers to any more is free, whatever it held.
Kept(contents) == [i \in Inodes |-> IF i \in InUse' THEN contents[i] ELSE Empty]

Release == cached' = Kept(cached) /\ durable' = Kept(durable)

\* Which free inode a new file gets makes no difference.
Fresh == CHOOSE i \in Inodes \ InUse : \A j \in Inodes \ InUse : i <= j

Init ==
  /\ scenario \in Scenarios
  /\ payload \in {f \in [Payloads -> UNION {Contents[q] : q \in Payloads}] :
                    \A q \in Payloads : f[q] \in Contents[q]}
  /\ names = [q \in Paths |-> NONE]
  /\ cached = [i \in Inodes |-> Empty] /\ durable = cached
  /\ bindings = {NONE}
  /\ pc = [w \in Writers |-> "idle"]
  /\ fd = [w \in Writers |-> NONE]
  /\ at = [w \in Writers |-> 1]
  /\ buffer = [w \in Writers |-> <<>>]
  /\ identity = [w \in Writers |-> <<>>]
  /\ table = [w \in Writers |-> <<>>]
  /\ leftover = {} /\ mapped = {} /\ edits = 0 /\ crashes = 0

Goto(w, next) == pc' = [pc EXCEPT ![w] = next]

\* The call is over, and its local variables with it.
Leave(w, result) ==
  /\ Goto(w, result)
  /\ fd' = [fd EXCEPT ![w] = NONE]
  /\ at' = [at EXCEPT ![w] = 1]
  /\ buffer' = [buffer EXCEPT ![w] = <<>>]
  /\ identity' = [identity EXCEPT ![w] = <<>>]
  /\ table' = [table EXCEPT ![w] = <<>>]

Write(w, f) == cached' = [cached EXCEPT ![fd[w]] = f]

-----------------------------------------------------------------------------
(* Reading a payload in chunks *)

More(w) == Len(buffer[w]) < Len(payload[FileAt(at[w])])

Chunk(w) == payload[FileAt(at[w])][Len(buffer[w]) + 1]

ReadChunk(w) ==
  /\ More(w)
  /\ buffer' = [buffer EXCEPT ![w] = Append(@, Chunk(w))]

-----------------------------------------------------------------------------
(* write_streaming: identify and validate every payload *)

Begin(w) ==
  /\ pc[w] \in {"idle", "ok", "failed"}
  /\ Goto(w, "digest")
  /\ UNCHANGED <<disk, local, environment>>

\* A bad argument, a payload write does not accept, or the destination among
\* the payloads.
Refuse(w) ==
  /\ pc[w] \in {"idle", "ok", "failed"}
  /\ Goto(w, "failed")
  /\ UNCHANGED <<disk, local, environment>>

DigestChunk(w) ==
  /\ pc[w] = "digest"
  /\ ReadChunk(w)
  /\ UNCHANGED <<disk, pc, fd, at, identity, table, environment>>

\* The three payloads of a variant are digested before they are validated.
DigestEnd(w) ==
  /\ pc[w] = "digest" /\ ~More(w)
  /\ identity' = [identity EXCEPT ![w] = Append(@, buffer[w])]
  /\ buffer' = [buffer EXCEPT ![w] = <<>>]
  /\ IF KindAt(at[w]) = "plan"
     THEN Goto(w, "validate") /\ UNCHANGED at
     ELSE at' = [at EXCEPT ![w] = @ + 1] /\ UNCHANGED pc
  /\ UNCHANGED <<disk, fd, table, environment>>

\* No payload is empty, and the kernels, read again, start with a CUBIN.
KernelAccepted(w) ==
  /\ \A p \in (at[w] - 2)..at[w] : identity[w][p] # <<>>
  /\ IsCubin(at[w] - 2, payload[FileAt(at[w] - 2)])

ValidateKernels(w) ==
  /\ pc[w] = "validate"
  /\ IF KernelAccepted(w) THEN Goto(w, "plan") /\ UNCHANGED local ELSE Leave(w, "failed")
  /\ UNCHANGED <<disk, environment>>

PlanChunk(w) ==
  /\ pc[w] = "plan"
  /\ ReadChunk(w)
  /\ UNCHANGED <<disk, pc, fd, at, identity, table, environment>>

\* The plan, read again, parses against the digested weights' size.
PlanAccepted(w) == IsPlan(at[w], buffer[w], identity[w][at[w] - 1])

PlanEnd(w) ==
  /\ pc[w] = "plan" /\ ~More(w)
  /\ IF ~PlanAccepted(w)
     THEN Leave(w, "failed")
     ELSE /\ buffer' = [buffer EXCEPT ![w] = <<>>]
          /\ IF at[w] = Len(Variants) * 3
             THEN Goto(w, "open") /\ at' = [at EXCEPT ![w] = 1]
             ELSE Goto(w, "digest") /\ at' = [at EXCEPT ![w] = @ + 1]
          /\ UNCHANGED <<fd, identity, table>>
  /\ UNCHANGED <<disk, environment>>

\* A payload, or the container just published, cannot be read.
Unreadable(w) ==
  /\ pc[w] \in {"digest", "validate", "plan", "verify", "verify_memory"}
  /\ Leave(w, "failed")
  /\ UNCHANGED <<disk, environment>>

-----------------------------------------------------------------------------
(* write_streaming: assemble the temporary file *)

\* Modes "w+b" and "wb": a left-over file of the same name is truncated.
Open(w) ==
  LET i == IF Container(w) = NONE THEN Fresh ELSE Container(w) IN
    /\ Container(w) = NONE => Inodes # InUse
    /\ names' = [names EXCEPT ![Temporary(w)] = i]
    /\ fd' = [fd EXCEPT ![w] = i]
    /\ cached' = [cached EXCEPT ![i] = Empty]
    /\ UNCHANGED <<durable, bindings, at, buffer, identity, table>>

OpenTemporary(w) ==
  /\ pc[w] = "open"
  /\ Open(w)
  /\ Goto(w, "section")
  /\ UNCHANGED environment

\* Fault: sections are told apart by kind and size alone.
SectionsOfSize(f, kind, bytes) ==
  {s \in DOMAIN f.body : f.body[s].kind = kind /\ Len(f.body[s].bytes) = Len(bytes)}

\* The section already holding this kind of payload with this digest and size.
SectionsWith(f, kind, bytes) ==
  {s \in DOMAIN f.body : f.body[s] = [kind |-> kind, bytes |-> bytes]}

Advance(w, section) ==
  /\ table' = [table EXCEPT ![w] =
                 Append(@, [section |-> section, digest |-> identity[w][at[w]]])]
  /\ buffer' = [buffer EXCEPT ![w] = <<>>]
  /\ IF at[w] = Len(Variants) * 3
     THEN Goto(w, "directory") /\ UNCHANGED at
     ELSE Goto(w, "section") /\ at' = [at EXCEPT ![w] = @ + 1]

ReuseSection(w) ==
  /\ pc[w] = "section"
  /\ \E s \in SectionsWith(Written(w), KindAt(at[w]), identity[w][at[w]]) :
       Advance(w, s)
  /\ UNCHANGED <<disk, fd, identity, environment>>

StartSection(w) ==
  /\ pc[w] = "section"
  /\ SectionsWith(Written(w), KindAt(at[w]), identity[w][at[w]]) = {}
  /\ Write(w, [Written(w) EXCEPT !.body =
                 Append(@, [kind |-> KindAt(at[w]), bytes |-> <<>>])])
  /\ Goto(w, "copy")
  /\ UNCHANGED <<names, durable, bindings, local, environment>>

CopyChunk(w) ==
  /\ pc[w] = "copy"
  /\ ReadChunk(w)
  /\ Write(w, [Written(w) EXCEPT !.body[Len(Written(w).body)].bytes = buffer'[w]])
  /\ UNCHANGED <<names, durable, bindings, pc, fd, at, identity, table, environment>>

\* Fault: the copy is not compared with the digest taken before.
CopyEndUncompared(w) ==
  /\ pc[w] = "copy" /\ ~More(w)
  /\ Advance(w, Len(Written(w).body))
  /\ UNCHANGED <<disk, fd, identity, environment>>

\* "AIM payload changed while streaming" unless size and digest are as before.
CopyEnd(w) ==
  /\ pc[w] = "copy" /\ ~More(w)
  /\ IF buffer[w] = identity[w][at[w]]
     THEN Advance(w, Len(Written(w).body)) /\ UNCHANGED <<fd, identity>>
     ELSE Leave(w, "cleanup")
  /\ UNCHANGED <<disk, environment>>

WriteDirectory(w) ==
  /\ pc[w] = "directory"
  /\ Write(w, [Written(w) EXCEPT !.directory = table[w]])
  /\ Goto(w, "header")
  /\ UNCHANGED <<names, durable, bindings, local, environment>>

\* The header holds the directory's digest, and a zeroed checksum.
WriteHeader(w) ==
  /\ pc[w] = "header"
  /\ Write(w, [Written(w) EXCEPT !.header = table[w]])
  /\ Goto(w, "sync")
  /\ UNCHANGED <<names, durable, bindings, local, environment>>

Sync(w) ==
  /\ durable' = [durable EXCEPT ![fd[w]] = Written(w)]
  /\ UNCHANGED <<names, cached, bindings>>

SyncContainer(w) ==
  /\ pc[w] = "sync"
  /\ Sync(w)
  /\ Goto(w, "checksum")
  /\ UNCHANGED <<local, environment>>

\* _zeroed_stream_hash of the closed file, then a patch of its header: both
\* open the temporary file again, by name.
WriteChecksum(w) ==
  /\ pc[w] = "checksum" /\ Container(w) # NONE
  /\ fd' = [fd EXCEPT ![w] = Container(w)]
  /\ cached' = [cached EXCEPT ![Container(w)].checksum = FileHash(cached[Container(w)])]
  /\ Goto(w, "sync_checksum")
  /\ UNCHANGED <<names, durable, bindings, at, buffer, identity, table, environment>>

SyncChecksum(w) ==
  /\ pc[w] = "sync_checksum"
  /\ Sync(w)
  /\ Goto(w, "replace")
  /\ UNCHANGED <<local, environment>>

-----------------------------------------------------------------------------
(* write: the same container assembled in memory from the caller's bytes *)

\* The container of given payloads.  Equal payloads of a kind share a section,
\* and sections are in the order of their first use.
Image(bytes) ==
  LET same(p) == {q \in Positions : KindAt(q) = KindAt(p) /\ bytes[q] = bytes[p]}
      first(p) == CHOOSE q \in same(p) : \A r \in same(p) : q <= r
      parts == {p \in Positions : first(p) = p}
      section(p) == Cardinality({q \in parts : q <= first(p)})
      stored(s) == CHOOSE p \in parts : section(p) = s
      directory == [p \in Positions |-> [section |-> section(p), digest |-> bytes[p]]]
      whole == [header |-> directory,
                body |-> [s \in 1..Cardinality(parts) |->
                            [kind |-> KindAt(stored(s)), bytes |-> bytes[stored(s)]]],
                directory |-> directory, checksum |-> NONE]
  IN [whole EXCEPT !.checksum = FileHash(whole)]

\* What write validates before it assembles: no plan is parsed.
Acceptable(bytes) ==
  \A p \in Positions : /\ bytes[p] # <<>>
                       /\ KindAt(p) = "kernels" => IsCubin(p, bytes[p])

BeginInMemory(w) ==
  /\ scenario.inMemory   \* AimWriter.write may be called too
  /\ pc[w] \in {"idle", "ok", "failed"}
  /\ LET bytes == [p \in Positions |-> payload[FileAt(p)]] IN
       /\ Acceptable(bytes)
       /\ identity' = [identity EXCEPT ![w] = bytes]
  /\ Goto(w, "open_memory")
  /\ UNCHANGED <<disk, fd, at, buffer, table, environment>>

OpenInMemory(w) ==
  /\ pc[w] = "open_memory"
  /\ Open(w)
  /\ Goto(w, "write_memory")
  /\ UNCHANGED environment

WriteInMemory(w) ==
  /\ pc[w] = "write_memory"
  /\ Write(w, Image(identity[w]))
  /\ Goto(w, "sync_memory")
  /\ UNCHANGED <<names, durable, bindings, local, environment>>

SyncInMemory(w) ==
  /\ pc[w] = "sync_memory"
  /\ Sync(w)
  /\ Goto(w, "replace_memory")
  /\ UNCHANGED <<local, environment>>

-----------------------------------------------------------------------------
(* Publication, shared by both writers *)

\* os.replace: atomic for every process, not yet for a power loss.
Replace(w) ==
  /\ pc[w] \in {"replace", "replace_memory"} /\ Container(w) # NONE
  /\ names' = [names EXCEPT ![Temporary(w)] = NONE, !["destination"] = Container(w)]
  /\ bindings' = bindings \cup {Container(w)}
  /\ Leave(w, IF pc[w] = "replace" THEN "verify" ELSE "verify_memory")
  /\ leftover' = leftover \ {w}
  /\ UNCHANGED <<payload, mapped, edits, crashes>>
  /\ Release

\* AimReader.read of whatever the destination names by now.
Verify(w) ==
  /\ pc[w] \in {"verify", "verify_memory"}
  /\ LET f == cached[names["destination"]] IN
       Goto(w, IF Intact(f) /\ CubinsOnly(f) /\ (pc[w] = "verify" => PlansParse(f))
               THEN "ok" ELSE "failed")
  /\ UNCHANGED <<disk, local, environment>>

Assembling == {"open", "section", "copy", "directory", "header", "sync",
               "checksum", "sync_checksum", "replace",
               "open_memory", "write_memory", "sync_memory", "replace_memory"}

\* Any call on the temporary file or on a payload raises.
Abort(w) ==
  /\ pc[w] \in Assembling
  /\ Leave(w, "cleanup")
  /\ UNCHANGED <<disk, environment>>

\* Fault: a failed writer leaves its temporary file.
CleanupLeaves(w) ==
  /\ pc[w] = "cleanup"
  /\ Goto(w, "failed")
  /\ leftover' = leftover \ {w}
  /\ UNCHANGED <<disk, local, payload, mapped, edits, crashes>>

\* finally: the temporary file goes, if there is one.
Cleanup(w) ==
  /\ pc[w] = "cleanup"
  /\ names' = [names EXCEPT ![Temporary(w)] = NONE]
  /\ leftover' = leftover \ {w}
  /\ Goto(w, "failed")
  /\ UNCHANGED <<bindings, local, payload, mapped, edits, crashes>>
  /\ Release

-----------------------------------------------------------------------------
(* Others *)

\* Someone rewrites a payload file in place.
Edit(q) ==
  /\ edits < MaxEdits /\ edits' = edits + 1
  /\ \E bytes \in Contents[q] \ {payload[q]} : payload' = [payload EXCEPT ![q] = bytes]
  /\ UNCHANGED <<disk, pc, local, leftover, mapped, crashes>>

\* LoadModel in a build that skips checksums: bounds, directory and CUBINs.
LoadAccepts(f) ==
  /\ f.header # NONE /\ f.directory # NONE
  /\ \A p \in Positions :
       /\ f.directory[p].section \in DOMAIN f.body
       /\ KindAt(p) = "kernels" => IsCubin(p, BytesAt(f, p))

LoadModel ==
  /\ names["destination"] # NONE
  /\ Cardinality(mapped) < MaxLoads
  /\ LET i == names["destination"] IN
       /\ LoadAccepts(cached[i])
       /\ mapped' = mapped \cup {[inode |-> i, bytes |-> cached[i]]}
  /\ UNCHANGED <<disk, pc, local, payload, leftover, edits, crashes>>

DestroyModel ==
  /\ \E m \in mapped : mapped' = mapped \ {m}
  /\ UNCHANGED <<names, bindings, pc, local, payload, leftover, edits, crashes>>
  /\ Release

\* A writer is killed: no finally block runs.
Kill(w) ==
  /\ crashes < MaxCrashes /\ crashes' = crashes + 1
  /\ pc[w] \notin {"idle", "ok", "failed"}
  /\ Leave(w, "idle")
  /\ leftover' = leftover \cup {w}
  /\ UNCHANGED <<disk, payload, mapped, edits>>

\* Blocks a power loss may take back to their last synced value.
Blocks == {"header", "body", "directory", "checksum"}

Survives(i, lost) ==
  [b \in Blocks |-> IF b \in lost THEN durable[i][b] ELSE cached[i][b]]

\* The rename itself is not synced: an earlier binding may come back.
PowerLoss ==
  /\ crashes < MaxCrashes /\ crashes' = crashes + 1
  /\ \E i \in bindings :
       /\ names' = [names EXCEPT !["destination"] = i]
       /\ bindings' = {i}
  /\ leftover' = leftover \cup {w \in Writers : pc[w] \notin {"idle", "ok", "failed"}}
  /\ mapped' = {}
  /\ pc' = [w \in Writers |-> "idle"]
  /\ fd' = [w \in Writers |-> NONE]
  /\ at' = [w \in Writers |-> 1]
  /\ buffer' = [w \in Writers |-> <<>>]
  /\ identity' = [w \in Writers |-> <<>>]
  /\ table' = [w \in Writers |-> <<>>]
  /\ \E lost \in SUBSET Blocks :
       cached' = Kept([i \in Inodes |-> Survives(i, lost)])
  /\ durable' = cached'
  /\ UNCHANGED <<payload, edits>>

\* The system writes the directory back in its own time.
Writeback ==
  /\ bindings # {names["destination"]}
  /\ bindings' = {names["destination"]}
  /\ UNCHANGED <<names, pc, local, environment>>
  /\ Release

-----------------------------------------------------------------------------

WriterStep(w) ==
  \/ DigestChunk(w) \/ DigestEnd(w) \/ ValidateKernels(w) \/ PlanChunk(w) \/ PlanEnd(w)
  \/ OpenTemporary(w) \/ ReuseSection(w) \/ StartSection(w) \/ CopyChunk(w) \/ CopyEnd(w)
  \/ WriteDirectory(w) \/ WriteHeader(w) \/ SyncContainer(w)
  \/ WriteChecksum(w) \/ SyncChecksum(w)
  \/ OpenInMemory(w) \/ WriteInMemory(w) \/ SyncInMemory(w)
  \/ Replace(w) \/ Verify(w) \/ Cleanup(w)

Step ==
  \/ \E w \in Writers :
       \/ Begin(w) \/ Refuse(w) \/ BeginInMemory(w)
       \/ WriterStep(w)
       \/ Unreadable(w) \/ Abort(w) \/ Kill(w)
  \/ \E q \in Payloads : Edit(q)
  \/ LoadModel \/ DestroyModel
  \/ PowerLoss \/ Writeback

Next == UNCHANGED scenario /\ Step

Spec == Init /\ [][Next]_vars

-----------------------------------------------------------------------------
(* Properties *)

\* At every moment, and after every crash, the destination is absent or passes
\* every checksum of AimReader.read: whatever payloads are edited, processes
\* killed or writes lost, nobody finds a partial container (write and
\* write_streaming sync before os.replace, and compare what they copied).
DestinationIntact ==
  names["destination"] # NONE => Intact(cached[names["destination"]])

\* What write_streaming publishes can be executed, although it validated the
\* kernels and the plan in reads of their own, and a payload may be edited
\* between any two reads: its digest before and its comparison after enclose
\* them.  Only a payload whose section is reused escapes: its digest is that
\* of the same kind of payload in another file, so add_file reuses the section
\* and never looks at the file again.  (Two edits, there and back, escape too,
\* and write checks no plan before it publishes: the scenarios with either are
\* left out.)
Executable(f, p) ==
  /\ KindAt(p) = "kernels" => IsCubin(p, BytesAt(f, p))
  /\ KindAt(p) = "plan" => IsPlan(p, BytesAt(f, p), BytesAt(f, p - 1))

Reused(f, p) ==
  \E q \in Positions : /\ KindAt(q) = KindAt(p) /\ FileAt(q) # FileAt(p)
                       /\ BytesAt(f, q) = BytesAt(f, p)

DestinationExecutable ==
  (names["destination"] # NONE /\ MaxEdits <= 1 /\ ~scenario.inMemory) =>
    LET f == cached[names["destination"]] IN
      \A p \in Positions : Executable(f, p) \/ Reused(f, p)

\* Replacing the destination never changes a byte under a runtime that mapped
\* it (LoadModel maps the file, writers only ever write to another inode).
MappedUnchanged == \A m \in mapped : cached[m.inode] = m.bytes

\* A temporary file exists only while its writer assembles one, or because the
\* process was killed: every failure of the try block removes it.
TemporaryOwned ==
  \A w \in Writers : names[w] # NONE =>
    pc[w] \in Assembling \cup {"cleanup"} \/ w \in leftover

===============================================================================
