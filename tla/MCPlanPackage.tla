---------------------------- MODULE MCPlanPackage ----------------------------
(* Small requests, files and machines for PlanPackage. *)
EXTENDS PlanPackage

F32(shape, producer) == [dtype |-> 1, shape |-> shape, producer |-> producer]
Place(region, bytes, offset, allocation, alias) ==
  [region |-> region, bytes |-> bytes, offset |-> offset, allocation |-> allocation, alias |-> alias]
Operand(value, access) == [value |-> value, access |-> access, offset |-> 0]
Command(tag, provider, operands, workspace, captures) ==
  [tag |-> tag, provider |-> provider, major |-> 1, minor |-> 0, capability |-> Sha("capability"),
   operands |-> operands, payload |-> <<tag>>, workspaceAt |-> 0, workspaceBytes |-> workspace,
   captureSafe |-> captures]

\* The digests of a request chain its parts; its spans are those of the packer.
Asked(schedule, allocations, commands) ==
  LET memory == [scheduleDigest |-> Sha(schedule), alignment |-> 4, arenaBytes |-> 8, stateBytes |-> 8,
                 allocations |-> allocations]
      stream == [arch |-> 120, memoryDigest |-> Sha(memory), valueCount |-> Len(schedule.values),
                 arenaBytes |-> 8, stateBytes |-> 8, workspaceBytes |-> 4, commands |-> commands]
      in == [schedule |-> schedule, memory |-> memory, stream |-> stream, spans |-> <<>>, weightsBytes |-> 0]
      spans == PackCommandWeights(in, [id \in ConstantRoots(in) |-> id])
  IN [in EXCEPT !.spans = spans, !.weightsBytes = BlobBytes(in, spans)]

\* 0 and 6 are weights, 1 and 3 the ports, 4 views the temporary 2, 5 is a
\* state and 7 a constant no command reads.
BaseSchedule ==
  [values |-> <<F32(<<2>>, None), F32(<<2>>, None), F32(<<2>>, 0), F32(<<2>>, 1), F32(<<1, 2>>, 0),
                F32(<<2>>, None), F32(<<1>>, None), F32(<<1>>, None)>>,
   inputs |-> <<1>>, outputs |-> <<3>>, states |-> <<5>>]
BaseMemory ==
  <<Place("constant", 8, 0, 0, 0), Place("external", 8, 0, 0, 0), Place("arena", 8, 0, 8, 0),
    Place("external", 8, 0, 0, 0), Place("alias", 8, 0, 0, 2), Place("state", 8, 0, 8, 0),
    Place("constant", 4, 0, 0, 0), Place("constant", 4, 0, 0, 0)>>
Project == Command(1, 1, <<Operand(0, Read), Operand(6, Read), Operand(1, Read), Operand(2, Write)>>, 4, FALSE)
Update == Command(2, 2, <<Operand(4, Read), Operand(5, ReadWrite), Operand(3, Write)>>, 0, TRUE)

Base == Asked(BaseSchedule, BaseMemory, <<Project, Update>>)
OneProvider == Asked(BaseSchedule, BaseMemory, <<Project, [Update EXCEPT !.provider = 1]>>)

\* Requests the compiler refuses, each for a reason of its own.
StaleMemory == [Base EXCEPT !.memory.scheduleDigest = OtherDigest]
StaleStream == [Base EXCEPT !.stream.memoryDigest = OtherDigest]
MissingSpan == [Base EXCEPT !.spans = Front(@)]
Overlapping == [Base EXCEPT !.spans[2].offset = 4]
Misaligned == [Base EXCEPT !.spans[2].offset = 9, !.weightsBytes = 16]
OutputIsInput == Asked(BaseSchedule, [BaseMemory EXCEPT ![4] = Place("alias", 8, 0, 0, 1)], <<Project, Update>>)
SharedInputs == Asked([BaseSchedule EXCEPT !.inputs = <<1, 1>>], BaseMemory, <<Project, Update>>)
ReadsUnused == Asked(BaseSchedule, [BaseMemory EXCEPT ![3] = Place("unused", 8, 0, 0, 0)], <<Project, Update>>)
PastTheEnd == Asked(BaseSchedule, BaseMemory, <<Project, [Update EXCEPT !.operands[1].offset = 8]>>)
TwoAbis == Asked(BaseSchedule, BaseMemory, <<Project, [Update EXCEPT !.provider = 1, !.major = 2]>>)

MCRequests == {Base, OneProvider, StaleMemory, StaleStream, MissingSpan, Overlapping, Misaligned, OutputIsInput,
               SharedInputs, ReadsUnused, PastTheEnd, TwoAbis}

\* The program of the compilations and containers: two weights, one command.
Small ==
  Asked([values |-> <<F32(<<2>>, None), F32(<<2>>, None), F32(<<2>>, 0), F32(<<1>>, None)>>,
         inputs |-> <<1>>, outputs |-> <<2>>, states |-> <<>>],
        <<Place("constant", 8, 0, 0, 0), Place("external", 8, 0, 0, 0), Place("external", 8, 0, 0, 0),
          Place("constant", 4, 0, 0, 0)>>,
        <<Command(1, 1, <<Operand(0, Read), Operand(3, Read), Operand(1, Read), Operand(2, Write)>>, 4, TRUE)>>)
MCShardOf == [id \in {0, 3} |-> IF id = 0 THEN "shard1" ELSE "shard2"]
SmallPlan == CHOOSE p \in CompileExecutablePlan(Small) : TRUE

V2(plan) == [arch |-> 120, cubin |-> {120}, ptx |-> FALSE, format |-> "v2", plan |-> plan, weights |-> 12]
V1 == [arch |-> 89, cubin |-> {89}, ptx |-> FALSE, format |-> "v1", parses |-> TRUE, profiles |-> 1,
       regions |-> {"upload", "arena"}]
Container(variants) ==
  [present |-> TRUE, layout |-> TRUE, abi |-> 1, platform |-> "x86_64", variants |-> variants,
   compat |-> [driver |-> <<1, 0>>, cudart |-> <<2, 3>>, providers |-> <<[id |-> 1, range |-> <<2, 2>>]>>]]
MCFiles == {Container(<<V2(SmallPlan), V1>>),
            Container(<<V2([SmallPlan EXCEPT !.alignment = 2])>>),
            [Container(<<V1>>) EXCEPT !.compat.cudart = <<0, 0>>],
            [Container(<<V1>>) EXCEPT !.platform = "aarch64"],
            [Container(<<V1>>) EXCEPT !.present = FALSE]}

Options(arch, driver, cudart, providers) ==
  [abi |-> 1, flags |-> 0, arch |-> arch, driver |-> driver, cudart |-> cudart, providers |-> providers]
MCOptions == {Options(0, 0, 0, <<>>), [Options(0, 0, 0, <<>>) EXCEPT !.abi = 2],
              Options(89, 1, 3, <<[id |-> 1, version |-> 2]>>),
              Options(120, 1, 3, <<[id |-> 1, version |-> 2], [id |-> 1, version |-> 3]>>)}
MCMachine == [arch |-> 120, driver |-> 1]
MCUpgrades == {[cudart |-> 2, provider |-> 2], [cudart |-> 4, provider |-> 0]}
MCProfiles == {Default, 1}
=============================================================================
