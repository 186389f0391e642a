---------------------------- MODULE CommandStream ----------------------------
(***************************************************************************)
(* The command stream: what CommandStream.to_bytes writes, what Python's   *)
(* from_bytes accepts and what the runtime's ParseCommandStream accepts.   *)
(* A stream on disk is its header and three flat tables; a command owns a  *)
(* span of the operand table and a span of the payload.  Offsets count     *)
(* records, not bytes, and `reserved` is 0 exactly when the magic, the     *)
(* sizes of the fixed parts, the flags and the reserved bytes are legal.   *)
(***************************************************************************)
EXTENDS Integers, Sequences, SequencesExt

CONSTANTS MaxCommands, MaxOperands, MaxCommandPayload,
          MaxU32, MaxU64   \* the largest unsigned integers of the two widths

ASSUME StreamConstants ==
  /\ {MaxCommands, MaxOperands, MaxCommandPayload, MaxU32, MaxU64} \subseteq Nat \ {0}
  /\ MaxU32 <= MaxU64

\* A digest is the content it covers; the zero digest covers nothing.
Sha(content) == <<"sha256", content>>
NoDigest == <<"zero">>

KnownArch == {89, 110, 120}
KnownTag == 1..4
Read == 1
Write == 2
ReadWrite == 3
HeaderSize == 1

Total(seq) == FoldLeft(LAMBDA sum, item : sum + item, 0, seq)

\* Arithmetic of the runtime: unsigned, wrapping, with its checked forms.
Minus(left, right) == (left - right) % (MaxU64 + 1)
Plus(left, right) == (left + right) % (MaxU64 + 1)
Fits(number) == number <= MaxU64

Body(s) == <<s.commands, s.operands, s.payload>>
StreamSize(s) == HeaderSize + Len(s.commands) + Len(s.operands) + Len(s.payload)

-----------------------------------------------------------------------------
(* A stream in memory has commands that own their operands and payload.    *)

OperandsBefore(commands, i) == Total([j \in 1..i-1 |-> Len(commands[j].operands)])
PayloadBefore(commands, i) == Total([j \in 1..i-1 |-> Len(commands[j].payload)])

CommandRecord(commands, i) ==
  LET c == commands[i]
  IN [tag |-> c.tag, provider |-> c.provider, major |-> c.major, minor |-> c.minor,
      flags |-> IF c.captureSafe THEN 1 ELSE 0,
      first |-> OperandsBefore(commands, i), count |-> Len(c.operands),
      size |-> Len(c.payload), start |-> PayloadBefore(commands, i),
      workspaceAt |-> c.workspaceAt, workspaceBytes |-> c.workspaceBytes,
      capability |-> c.capability, reserved |-> 0]

ToBytes(stream) ==
  LET n == Len(stream.commands)
      commands == [i \in 1..n |-> CommandRecord(stream.commands, i)]
      operands == FlattenSeq([i \in 1..n |-> stream.commands[i].operands])
      payload == FlattenSeq([i \in 1..n |-> stream.commands[i].payload])
  IN [minor |-> 0, reserved |-> 0, arch |-> stream.arch,
      commandCount |-> n, operandCount |-> Len(operands), valueCount |-> stream.valueCount,
      arenaBytes |-> stream.arenaBytes, stateBytes |-> stream.stateBytes,
      workspaceBytes |-> stream.workspaceBytes,
      commandsAt |-> HeaderSize, operandsAt |-> HeaderSize + n,
      payloadAt |-> HeaderSize + n + Len(operands), payloadBytes |-> Len(payload),
      sectionSize |-> HeaderSize + n + Len(operands) + Len(payload),
      memoryDigest |-> stream.memoryDigest, bodyDigest |-> Sha(<<commands, operands, payload>>),
      commands |-> commands, operands |-> operands, payload |-> payload]

PayloadOf(s, i) == SubSeq(s.payload, s.commands[i].start + 1, s.commands[i].start + s.commands[i].size)
OperandsOf(s, i) == SubSeq(s.operands, s.commands[i].first + 1, s.commands[i].first + s.commands[i].count)
CaptureSafe(c) == c.flags % 2 = 1

-----------------------------------------------------------------------------
(* CommandStream.from_bytes and the constructors it calls.                 *)

PyStreamHeader(s) ==
  /\ s.minor = 0 /\ s.reserved = 0
  /\ s.commandCount \in 1..MaxCommands
  /\ s.operandCount \in 1..MaxOperands
  /\ s.commandsAt = HeaderSize
  /\ s.operandsAt = HeaderSize + s.commandCount
  /\ s.payloadAt = s.operandsAt + s.operandCount
  /\ s.payloadAt <= StreamSize(s)
  /\ s.payloadBytes = StreamSize(s) - s.payloadAt
  /\ s.sectionSize = StreamSize(s)
  /\ s.memoryDigest # NoDigest
  /\ s.bodyDigest = Sha(Body(s))
  /\ s.arch \in KnownArch

\* ProviderCommand.__post_init__ on the record with its span cut out.
PyCommandValid(s, i) ==
  LET c == s.commands[i]
  IN /\ c.tag \in KnownTag
     /\ c.provider > 0 /\ c.major > 0
     /\ c.capability # NoDigest
     /\ \E o \in ToSet(OperandsOf(s, i)) : o.access \in {Write, ReadWrite}
     /\ Len(PayloadOf(s, i)) <= MaxCommandPayload
     /\ c.workspaceBytes = 0 => c.workspaceAt = 0

PyCommandSpans(s, i) ==
  LET c == s.commands[i]
      earlier(field) == Total([j \in 1..i-1 |-> s.commands[j][field]])
  IN /\ c.flags \in {0, 1} /\ c.reserved = 0
     /\ c.first = earlier("count")
     /\ c.count # 0 /\ c.count <= s.operandCount - c.first
     /\ c.start = earlier("size")
     /\ c.size <= s.payloadBytes - c.start

\* CommandStream.__post_init__ on the decoded stream.
PyStreamValid(s) ==
  /\ s.valueCount \in 1..MaxU32
  /\ \A o \in ToSet(s.operands) : o.value < s.valueCount
  /\ \A c \in ToSet(s.commands) :
        /\ c.workspaceAt <= s.workspaceBytes
        /\ c.workspaceBytes <= s.workspaceBytes - c.workspaceAt

FromBytes(s) ==
  /\ PyStreamHeader(s)
  /\ \A o \in ToSet(s.operands) : o.access \in {Read, Write, ReadWrite}
  /\ \A i \in 1..s.commandCount : PyCommandSpans(s, i) /\ PyCommandValid(s, i)
  /\ Total([i \in 1..s.commandCount |-> s.commands[i].count]) = s.operandCount
  /\ Total([i \in 1..s.commandCount |-> s.commands[i].size]) = s.payloadBytes
  /\ PyStreamValid(s)

-----------------------------------------------------------------------------
(* ParseCommandStream of the runtime.                                      *)

StreamTables(s) ==
  LET operandsAt == HeaderSize + s.commandCount
      payloadAt == operandsAt + s.operandCount
  IN /\ Fits(operandsAt) /\ Fits(payloadAt)
     /\ s.commandsAt = HeaderSize
     /\ s.operandsAt = operandsAt
     /\ s.payloadAt = payloadAt
     /\ s.payloadAt <= StreamSize(s)
     /\ s.payloadBytes = Minus(StreamSize(s), s.payloadAt)
     /\ s.sectionSize = StreamSize(s)

StreamHeader(s) ==
  /\ s.minor = 0 /\ s.reserved = 0
  /\ s.arch \in KnownArch
  /\ s.commandCount # 0 /\ s.commandCount <= MaxCommands
  /\ s.operandCount # 0 /\ s.operandCount <= MaxOperands
  /\ s.valueCount # 0 /\ s.valueCount <= MaxU32
  /\ StreamTables(s)
  /\ s.memoryDigest # NoDigest
  /\ s.bodyDigest = Sha(Body(s))

WorkspaceInside(c, workspaceBytes) ==
  /\ c.workspaceBytes = 0 => c.workspaceAt = 0
  /\ c.workspaceAt <= workspaceBytes
  /\ c.workspaceBytes <= Minus(workspaceBytes, c.workspaceAt)

\* `next` holds next_operand and next_payload before the command.
CommandAccepted(s, i, next) ==
  LET c == s.commands[i]
  IN /\ c.tag \in KnownTag
     /\ c.provider # 0 /\ c.major # 0 /\ c.capability # NoDigest
     /\ c.flags \div 2 = 0 /\ c.reserved = 0
     /\ c.first = next.operand /\ c.count # 0
     /\ c.count <= Minus(s.operandCount, next.operand)
     /\ c.size <= MaxCommandPayload
     /\ c.start = next.payload /\ c.start <= s.payloadBytes
     /\ c.size <= Minus(s.payloadBytes, c.start)
     /\ WorkspaceInside(c, s.workspaceBytes)
     /\ \E k \in 1..c.count : s.operands[c.first + k].access \in {Write, ReadWrite}

Refused == [ok |-> FALSE, operand |-> 0, payload |-> 0]
AfterCommand(s, next, i) ==
  IF next.ok /\ CommandAccepted(s, i, next)
  THEN [ok |-> TRUE, operand |-> next.operand + s.commands[i].count,
        payload |-> next.payload + s.commands[i].size]
  ELSE Refused

ParseCommandStream(s) ==
  /\ StreamHeader(s)
  /\ \A o \in ToSet(s.operands) :
        o.access \in {Read, Write, ReadWrite} /\ o.value < s.valueCount
  /\ FoldLeft(LAMBDA next, i : AfterCommand(s, next, i),
              [ok |-> TRUE, operand |-> 0, payload |-> 0], [i \in 1..s.commandCount |-> i])
       = [ok |-> TRUE, operand |-> s.operandCount, payload |-> s.payloadBytes]
=============================================================================
