--------------------------- MODULE CommandPayloads ---------------------------
(***************************************************************************)
(* A command payload between the compiler, which writes it next to the     *)
(* operands it declares, and the runtime, which parses it, checks the      *)
(* operands it is given and launches kernels on them.  In between one      *)
(* field or the magic may have changed, and so may the command record; a   *)
(* changed payload that the compiler still decodes may be lowered anew.    *)
(***************************************************************************)
EXTENDS PayloadDecoders, FiniteSets

CONSTANTS Problems,      \* problems whose payloads are written
          Values(_)      \* what a field holding a value may come to hold

Runtime == INSTANCE KernelExtents

(* A problem has the fields of its dataclass, which its __post_init__ has  *)
(* accepted; the magic it is written with says its form.                   *)
Modules == [bytes : Nat, sha : Nat]
RoundedProblems ==
  [form : RoundedForms, variant : Nat, module : Modules, version : Nat, warps : Nat,
   qk : Seq(Nat), pv : Seq(Nat)]
CudaProblems ==
  [form : {"AICUKR1"}, arch : Nat, kernel : Nat, input : Nat, output : Nat, numel : Nat, grid : Nat,
   block : Nat, in_align : Nat, out_align : Nat, module : Modules]
LinearProblems ==
  [form : {"AILTMM1"}, arch : Nat, version : Nat, dtype : Nat, mode : Nat, m : Nat, n : Nat, k : Nat,
   workspace : Nat, algorithm : [1..9 -> Nat], aligns : [1..5 -> Nat]]
PatchProblems == [form : {"AIPPA1"}, linear : LinearProblems, module : Modules]
Problem ==
  [form : {"AILNR1", "AITEM1", "AISLC1", "AIARM1", "AIVAT1", "AISMD1", "AIPIA1", "AIKVS1", "AIKVP1"},
   module : Modules]
  \cup [form : {"AIRMS1", "AIROP1"}, variant : Nat, module : Modules]
  \cup [form : {"AIFIAT1"}, variant : Nat]
  \cup [form : {"AIMAD1"} \cup CompactGateForms, numel : Nat, module : Modules]
  \cup [form : GeluMulForms, numel : Nat, width : Nat, module : Modules]
  \cup [form : {"AIPSP1", "AIQRP1"}, rows : Nat, widths : [1..3 -> Nat], module : Modules]
  \cup [form : {"AISTU1"}, total : Nat, count : Nat, offset : Nat, module : Modules]
  \cup RoundedProblems \cup CudaProblems \cup LinearProblems \cup PatchProblems

ASSUME ProblemsAssumption == \A p \in Problems : p \in Problem /\ Valid(p) /\ Bytes(p).magic = p.form

VARIABLES problem,       \* what the compiler wrote or last read
          payload,
          command,       \* the record that names the payload
          origin,        \* "lowered" | "altered" | "disturbed"
          outcome        \* "pending" | "prepared" | "refused"
vars == <<problem, payload, command, origin, outcome>>

NoModule == [bytes |-> 0, sha |-> 0]
HasModule(p) == p.form \notin {"AILTMM1", "AIFIAT1"}

(* The lowerings' ProviderCommand and the module binding beside it.        *)
CommandFor(p) ==
  [provider |-> ProviderId(p), tag |-> Tag(p), operands |-> Operands(p), workspace |-> Workspace(p),
   module |-> IF HasModule(p) THEN p.module ELSE NoModule,
   arch |-> IF p.form \in {"AICUKR1", "AILTMM1"} THEN p.arch ELSE SM120]

Families == {GeluMulForms, {"AIPSP1", "AIQRP1"}, {"AIMAD1"} \cup CompactGateForms,
             {"AIRAT2", "AIRAT3"}}

Init ==
  /\ problem \in Problems
  /\ payload = Bytes(problem)
  /\ command = CommandFor(problem)
  /\ origin = "lowered" /\ outcome = "pending"

AlterField ==
  /\ origin = "lowered" /\ outcome = "pending" /\ problem \in Problems
  /\ \E o \in DOMAIN payload.at : \E v \in (Values(payload.at[o]) \cap Nat) \ {payload.at[o]} :
       payload' = [magic |-> payload.magic, size |-> payload.size,
                   at |-> [q \in DOMAIN payload.at |-> IF q = o THEN v ELSE payload.at[q]]]
  /\ origin' = "altered"
  /\ UNCHANGED <<problem, command, outcome>>

AlterMagic ==
  /\ origin = "lowered" /\ outcome = "pending" /\ problem \in Problems
  /\ \E family \in Families :
       /\ payload.magic \in family
       /\ \E magic \in family \ {payload.magic} :
            payload' = [magic |-> magic, size |-> payload.size, at |-> payload.at]
  /\ origin' = "altered"
  /\ UNCHANGED <<problem, command, outcome>>

(* The compiler reads a payload it was handed and lowers what it says.     *)
Lower ==
  /\ origin = "altered" /\ outcome = "pending" /\ Decodes(payload)
  /\ problem' = Read(payload)
  /\ command' = CommandFor(Read(payload))
  /\ origin' = "lowered"
  /\ UNCHANGED <<payload, outcome>>

Flip(access) == IF access = "r" THEN "w" ELSE "r"
Changed(operands, i, operand) == [j \in DOMAIN operands |-> IF j = i THEN operand ELSE operands[j]]

Disturb ==
  /\ origin = "lowered" /\ outcome = "pending"
  /\ \/ \E i \in DOMAIN command.operands :
          LET operand == command.operands[i]
          IN \E other \in {[operand EXCEPT !.bytes = @ - 1], [operand EXCEPT !.access = Flip(@)]} :
               command' = [command EXCEPT !.operands = Changed(@, i, other)]
     \/ command' = [command EXCEPT !.operands = SubSeq(@, 1, Len(@) - 1)]
     \/ \E n \in {command.workspace - 1, command.workspace + 1} :
          n >= 0 /\ command' = [command EXCEPT !.workspace = n]
     \/ \E m \in {[command.module EXCEPT !.sha = @ + 1], [command.module EXCEPT !.bytes = @ + 1]} :
          command' = [command EXCEPT !.module = m]
     \/ \E arch \in Archs \ {command.arch} : command' = [command EXCEPT !.arch = arch]
     \/ \E tag \in {"kernel", "matmul", "attention"} \ {command.tag} : command' = [command EXCEPT !.tag = tag]
  /\ origin' = "disturbed"
  /\ UNCHANGED <<problem, payload, outcome>>

Prepare ==
  /\ outcome = "pending"
  /\ outcome' = IF Runtime!Prepares(payload, command) THEN "prepared" ELSE "refused"
  /\ UNCHANGED <<problem, payload, command, origin>>

Next == AlterField \/ AlterMagic \/ Lower \/ Disturb \/ Prepare
Spec == Init /\ [][Next]_vars

-----------------------------------------------------------------------------
(* Where the runtime's parsers take more than the compiler's do: pointer   *)
(* alignments below the element size, activations for another device than  *)
(* the delivered one, and the minor version of the product in a patch      *)
(* projection.                                                             *)
Tolerated(b) ==
  \/ b.magic = "AICUKR1" /\ (b.at[96] < DTypeBytes[b.at[24]] \/ b.at[100] < DTypeBytes[b.at[28]])
  \/ b.magic = "AICUKR1" /\ b.at[20] \in ActivationKernels /\ b.at[16] # SM120
  \/ b.magic = "AIPPA1" /\ b.at[202] = 1 /\ b.at[220] = 1

(* from_bytes and the runtime's parser accept the same payloads: neither   *)
(* reads a field at another offset, with another width or bound, than the  *)
(* other.                                                                  *)
DecodersAgree ==
  /\ Decodes(payload) => Runtime!Parses(payload)
  /\ Runtime!Parses(payload) => Decodes(payload) \/ Tolerated(payload)

(* A command the compiler lowered with the payload is prepared: provider,  *)
(* tag, operand order, sizes, workspace and module are those the runtime   *)
(* asks for.                                                               *)
LoweredIsPrepared == origin = "lowered" => outcome # "refused"

(* A prepared command touches no byte behind an operand or the workspace   *)
(* it was given, writes only operands it declared as written, and reads no *)
(* scratch it has not written.                                             *)
PreparedInBounds ==
  outcome = "prepared" =>
    LET extents == Runtime!Extents(payload)
        scratch == Runtime!ScratchExtent(payload)
        contract == Operands(Read(payload))
    IN /\ Len(extents) = Len(command.operands)
       /\ \A i \in DOMAIN extents : /\ extents[i] <= command.operands[i].bytes
                                    /\ contract[i].access = command.operands[i].access
       /\ scratch.read <= scratch.written /\ scratch.written <= command.workspace

(* A prepared command the compiler lowered produces the whole of every     *)
(* output; an update of a state writes its window of it.                   *)
OutputsComplete ==
  outcome = "prepared" /\ origin = "lowered" =>
    LET extents == Runtime!Extents(payload)
    IN \A i \in DOMAIN extents :
         command.operands[i].access = "w" =>
           extents[i] = IF problem.form = "AISTU1" THEN 2 * (problem.offset + problem.count)
                        ELSE command.operands[i].bytes
=============================================================================
