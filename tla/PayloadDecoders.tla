--------------------------- MODULE PayloadDecoders ---------------------------
(***************************************************************************)
(* What the compiler takes a payload for, and the operands it gives the    *)
(* command.  from_bytes reads a problem and a module out of a payload; a   *)
(* form that is written field by field is accepted when encoding what was  *)
(* read yields the same bytes, the elementwise and the cuBLASLt form when  *)
(* every field passes its own check.                                       *)
(***************************************************************************)
EXTENDS PayloadEncoders

F32 == 1
BF16 == 2
I32 == 3
BOOL == 4

ModuleIn(b, bytes, sha) == [bytes |-> b.at[bytes], sha |-> b.at[sha]]
ModuleValid(module) == module.bytes > 0 /\ module.sha # 0

RmsNormRead(b) == [form |-> b.magic, variant |-> b.at[16], module |-> ModuleIn(b, 120, 128)]
LayerNormRead(b) == [form |-> b.magic, module |-> ModuleIn(b, 124, 132)]
TimeEmbeddingRead(b) == [form |-> b.magic, module |-> ModuleIn(b, 108, 140)]
ActionSliceRead(b) == [form |-> b.magic, module |-> ModuleIn(b, 108, 140)]
AdaptiveRmsNormRead(b) == [form |-> b.magic, module |-> ModuleIn(b, 144, 152)]
VisionAttentionRead(b) == [form |-> b.magic, module |-> ModuleIn(b, 140, 148)]
SuffixMetadataRead(b) == [form |-> b.magic, module |-> ModuleIn(b, 116, 140)]
PrefixInputRead(b) == [form |-> b.magic, module |-> ModuleIn(b, 124, 140)]
PrefixKvStoreRead(b) == [form |-> b.magic, module |-> ModuleIn(b, 124, 140)]
RopeRead(b) == [form |-> b.magic, variant |-> b.at[16], module |-> ModuleIn(b, 136, 144)]
KvPackRead(b) == [form |-> b.magic, module |-> ModuleIn(b, 132, 140)]
GeluMulRead(b) ==
  [form |-> b.magic, numel |-> b.at[16], width |-> b.at[64], module |-> ModuleIn(b, 24, 32)]
MulAddRead(b) == [form |-> b.magic, numel |-> b.at[16], module |-> ModuleIn(b, 24, 32)]
SplitRead(b) ==
  [form |-> b.magic, rows |-> b.at[16], widths |-> <<b.at[20], b.at[24], b.at[28]>>,
   module |-> ModuleIn(b, 32, 40)]
StateUpdateRead(b) ==
  [form |-> b.magic, total |-> b.at[16], count |-> b.at[24], offset |-> b.at[32],
   module |-> ModuleIn(b, 40, 48)]
(* The size says whether library algorithms follow, the magic how many     *)
(* warps share a softmax row.                                              *)
RoundedRead(b) ==
  [form |-> b.magic, variant |-> b.at[16], module |-> ModuleIn(b, 40, 48),
   version |-> IF b.size = 192 THEN b.at[80] ELSE 0,
   warps |-> IF b.magic = "AIRAT3" THEN 4 ELSE 1,
   qk |-> IF b.size = 192 THEN [i \in 1..9 |-> b.at[92 + (4 * i)]] ELSE <<>>,
   pv |-> IF b.size = 192 THEN [i \in 1..9 |-> b.at[128 + (4 * i)]] ELSE <<>>]
FlashInferRead(b) == [form |-> b.magic, variant |-> b.at[16]]

CudaKernelRead(b) ==
  [form |-> b.magic, arch |-> b.at[16], kernel |-> b.at[20], input |-> b.at[24],
   output |-> b.at[28], numel |-> b.at[48], grid |-> b.at[36], block |-> b.at[40],
   in_align |-> b.at[96], out_align |-> b.at[100], module |-> ModuleIn(b, 56, 64)]
CudaKernelFixed(b) ==
  /\ b.at[8] = 1 /\ b.at[10] = 0 /\ b.at[12] = 128
  /\ b.at[32] = 1 /\ b.at[104] = 1 /\ b.at[112] = 0
  /\ b.at[44] = 0
  /\ b.at[108] = (IF b.at[20] \in UnaryKernels THEN 1 ELSE 2)

(* cuBLASLt payloads start at base: alone at 0, in a patch projection at 192. *)
LinearRead(b, base) ==
  [form |-> "AILTMM1", arch |-> b.at[base + 16], version |-> b.at[base + 20],
   dtype |-> b.at[base + 24], mode |-> b.at[base + 28], m |-> b.at[base + 68],
   n |-> b.at[base + 76], k |-> b.at[base + 84], workspace |-> b.at[base + 124],
   algorithm |-> [i \in 1..9 |-> b.at[base + (IF i < 8 THEN 128 + (4 * i) ELSE 144 + (2 * i))]],
   aligns |-> [i \in 1..5 |-> b.at[base + 160 + (4 * i)]]]
LinearFixed(b, base) ==
  /\ b.at[base + 8] = 1 /\ b.at[base + 10] <= 1 /\ b.at[base + 12] = 192
  /\ b.at[base + 28] = 2 => b.at[base + 10] = 1
  /\ \A i \in 1..4 : b.at[base + 28 + (4 * i)] = 1
  /\ \A i \in 1..5 : b.at[base + 44 + (4 * i)] = 0
  /\ b.at[base + 92] = b.at[base + 84] /\ b.at[base + 100] = b.at[base + 84]
  /\ b.at[base + 108] = b.at[base + 76] /\ b.at[base + 116] = b.at[base + 76]
  /\ b.at[base + 184] = 0
PatchProjectionRead(b) ==
  [form |-> b.magic, linear |-> LinearRead(b, 192), module |-> ModuleIn(b, 148, 156)]

(***************************************************************************)
(* from_bytes.                                                             *)
(***************************************************************************)
Read(b) ==
  CASE b.magic = "AIRMS1" -> RmsNormRead(b)
    [] b.magic = "AILNR1" -> LayerNormRead(b)
    [] b.magic = "AITEM1" -> TimeEmbeddingRead(b)
    [] b.magic = "AISLC1" -> ActionSliceRead(b)
    [] b.magic = "AIARM1" -> AdaptiveRmsNormRead(b)
    [] b.magic = "AIVAT1" -> VisionAttentionRead(b)
    [] b.magic = "AISMD1" -> SuffixMetadataRead(b)
    [] b.magic = "AIPIA1" -> PrefixInputRead(b)
    [] b.magic = "AIKVS1" -> PrefixKvStoreRead(b)
    [] b.magic = "AIROP1" -> RopeRead(b)
    [] b.magic = "AIKVP1" -> KvPackRead(b)
    [] b.magic = "AICUKR1" -> CudaKernelRead(b)
    [] b.magic \in GeluMulForms -> GeluMulRead(b)
    [] b.magic \in {"AIMAD1"} \cup CompactGateForms -> MulAddRead(b)
    [] b.magic \in {"AIPSP1", "AIQRP1"} -> SplitRead(b)
    [] b.magic = "AISTU1" -> StateUpdateRead(b)
    [] b.magic \in RoundedForms -> RoundedRead(b)
    [] b.magic = "AILTMM1" -> LinearRead(b, 0)
    [] b.magic = "AIPPA1" -> PatchProjectionRead(b)
    [] b.magic = "AIFIAT1" -> FlashInferRead(b)

ProblemValid(p) ==
  CASE p.form = "AIRMS1" -> p.variant \in 1..2
    [] p.form = "AIROP1" -> p.variant \in 1..4
    [] p.form = "AIFIAT1" -> p.variant \in 1..2
    [] p.form = "AICUKR1" -> CudaKernelValid(p)
    [] p.form \in GeluMulForms -> GeluMulValid(p)
    [] p.form = "AIMAD1" -> MulAddValid(p)
    [] p.form \in CompactGateForms -> CompactGateValid(p)
    [] p.form = "AIPSP1" -> SplitValid(p)
    [] p.form = "AIQRP1" -> QkvRopePackValid(p)
    [] p.form = "AISTU1" -> StateUpdateValid(p)
    [] p.form \in RoundedForms -> RoundedValid(p)
    [] p.form = "AILTMM1" -> LinearValid(p)
    [] p.form = "AIPPA1" -> LinearValid(p.linear) /\ PatchGemm(p.linear)
    [] OTHER -> TRUE
Valid(p) == ProblemValid(p) /\ (p.form \notin {"AILTMM1", "AIFIAT1"} => ModuleValid(p.module))

Bytes(p) ==
  CASE p.form = "AIRMS1" -> RmsNormBytes(p)
    [] p.form = "AILNR1" -> LayerNormBytes(p)
    [] p.form = "AITEM1" -> TimeEmbeddingBytes(p)
    [] p.form = "AISLC1" -> ActionSliceBytes(p)
    [] p.form = "AIARM1" -> AdaptiveRmsNormBytes(p)
    [] p.form = "AIVAT1" -> VisionAttentionBytes(p)
    [] p.form = "AISMD1" -> SuffixMetadataBytes(p)
    [] p.form = "AIPIA1" -> PrefixInputBytes(p)
    [] p.form = "AIKVS1" -> PrefixKvStoreBytes(p)
    [] p.form = "AIROP1" -> RopeBytes(p)
    [] p.form = "AIKVP1" -> KvPackBytes(p)
    [] p.form = "AICUKR1" -> CudaKernelBytes(p)
    [] p.form \in GeluMulForms -> GeluMulBytes(p)
    [] p.form \in {"AIMAD1"} \cup CompactGateForms -> MulAddBytes(p)
    [] p.form \in {"AIPSP1", "AIQRP1"} -> SplitBytes(p)
    [] p.form = "AISTU1" -> StateUpdateBytes(p)
    [] p.form \in RoundedForms -> RoundedBytes(p)
    [] p.form = "AILTMM1" -> LinearBytes(p)
    [] p.form = "AIPPA1" -> PatchProjectionBytes(p)
    [] p.form = "AIFIAT1" -> FlashInferBytes(p)

Decodes(b) ==
  LET p == Read(b)
  IN /\ Valid(p)
     /\ CASE b.magic = "AICUKR1" -> CudaKernelFixed(b)
          [] b.magic = "AILTMM1" -> LinearFixed(b, 0)
          [] b.magic = "AIPPA1" -> LinearFixed(b, 192) /\ Bytes(p) = b
          [] OTHER -> Bytes(p) = b

(***************************************************************************)
(* The operands of the command a problem is lowered to: tensors of the     *)
(* shapes the provider's inventory contract names, inputs before outputs.  *)
(***************************************************************************)
\* A shape has at most four dimensions.
Tensor(dtype, shape) ==
  LET extent(i) == IF i <= Len(shape) THEN shape[i] ELSE 1
  IN DTypeBytes[dtype] * extent(1) * extent(2) * extent(3) * extent(4)
Contract(inputs, outputs) ==
  [i \in 1..(Len(inputs) + Len(outputs)) |->
     [access |-> IF i <= Len(inputs) THEN "r" ELSE "w", bytes |-> (inputs \o outputs)[i]]]

RmsNormOperands(p) ==
  LET v == RmsNormShape[p.variant]
      x == Tensor(v.dtype, <<v.rows, v.width>>)
  IN Contract(<<x, Tensor(F32, <<v.width>>)>>, <<x>>)
LayerNormOperands ==
  LET x == Tensor(F32, <<256, 1152>>) IN Contract(<<x, Tensor(F32, <<1152>>), Tensor(F32, <<1152>>)>>, <<x>>)
TimeEmbeddingOperands == Contract(<<Tensor(F32, <<1>>)>>, <<Tensor(F32, <<1, 1024>>)>>)
ActionSliceOperands == Contract(<<Tensor(F32, <<1, 50, 32>>)>>, <<Tensor(F32, <<1, 50, 7>>)>>)
AdaptiveRmsNormOperands ==
  LET x == Tensor(BF16, <<1, 50, 1024>>) IN Contract(<<x, Tensor(F32, <<1, 3072>>)>>, <<x, x>>)
VisionAttentionOperands ==
  LET x == Tensor(F32, <<1, 256, 16, 72>>) IN Contract(<<x, x, x, Tensor(BOOL, <<1>>)>>, <<x>>)
SuffixMetadataOperands ==
  Contract(<<Tensor(BOOL, <<1, 968>>)>>, <<Tensor(BOOL, <<1, 50, 1018>>), Tensor(I32, <<1, 50>>)>>)
PrefixInputOperands ==
  LET image == Tensor(F32, <<1, 256, 2048>>)
      mask == Tensor(BOOL, <<1>>)
  IN Contract(<<image, image, image, Tensor(BF16, <<257152, 2048>>), Tensor(I32, <<1, 200>>),
                mask, mask, mask, Tensor(BOOL, <<1, 200>>)>>,
              <<Tensor(F32, <<1, 968, 2048>>), Tensor(BOOL, <<1, 968>>), Tensor(I32, <<1, 968>>)>>)
PrefixKvStoreOperands ==
  LET x == Tensor(BF16, <<1, 968, 1, 256>>) IN Contract(<<x, x>>, <<x, x>>)
RopeOperands(p) ==
  LET x == Tensor(BF16, RopeShape[p.variant] \o <<256>>)
  IN Contract(<<x, Tensor(I32, <<1, RopeShape[p.variant][1]>>)>>, <<x>>)
KvPackOperands ==
  LET prefix == Tensor(BF16, <<1, 1, 968, 256>>)
      current == Tensor(BF16, <<1, 50, 1, 256>>)
      pack == Tensor(BF16, <<1, 1, 1018, 256>>)
  IN Contract(<<prefix, prefix, current, current>>, <<pack, pack>>)
CudaKernelOperands(p) ==
  LET x == Tensor(p.input, <<p.numel>>)
  IN Contract(IF p.kernel \in UnaryKernels THEN <<x>> ELSE <<x, x>>, <<Tensor(p.output, <<p.numel>>)>>)
GeluMulOperands(p) ==
  LET x == Tensor(BF16, <<p.numel>>)
  IN Contract(IF p.width = 0 THEN <<x, x>> ELSE <<2 * x>>, <<x>>)
MulAddOperands(p) ==
  LET x == Tensor(BF16, <<p.numel>>) IN Contract(<<x, x, x>>, <<x>>)
CompactGateOperands(p) ==
  LET x == Tensor(BF16, <<1, 50, 1024>>)
      modulation == Tensor(F32, <<1, 3072>>)
  IN CASE p.form = "AIANG1" -> Contract(<<x, modulation>>, <<x>>)
       [] p.form = "AIGRD1" -> Contract(<<x, modulation, x>>, <<x>>)
       [] p.form = "AIGRN1" -> Contract(<<x, modulation, x, modulation>>, <<x, x>>)
SplitOperands(p) ==
  LET part(i) == Tensor(BF16, <<1, p.rows, p.widths[i]>>)
  IN Contract(<<part(1) + part(2) + part(3)>>, <<part(1), part(2), part(3)>>)
\* Fault: the caches are declared before the position ids.
QkvRopePackOperandsReordered ==
  LET prefix == Tensor(BF16, <<1, 968, 256>>)
      pack == Tensor(BF16, <<1, 1018, 256>>)
  IN Contract(<<Tensor(BF16, <<1, 50, 2560>>), prefix, prefix, Tensor(I32, <<1, 50>>)>>,
              <<Tensor(BF16, <<1, 50, 8, 256>>), pack, pack>>)
QkvRopePackOperands ==
  LET prefix == Tensor(BF16, <<1, 968, 256>>)
      pack == Tensor(BF16, <<1, 1018, 256>>)
  IN Contract(<<Tensor(BF16, <<1, 50, 2560>>), Tensor(I32, <<1, 50>>), prefix, prefix>>,
              <<Tensor(BF16, <<1, 50, 8, 256>>), pack, pack>>)
StateUpdateOperands(p) ==
  LET source == Tensor(BF16, <<p.count>>)
      target == Tensor(BF16, <<p.total>>)
  IN Contract(<<source, source>>, <<target, target>>)
AttentionOperands(v, scalar, mask) ==
  LET query == v.q * v.heads * v.dim * scalar
      key == v.k * v.kv * v.dim * scalar
  IN Contract(<<query, key, key, mask>>, <<query>>)
RoundedOperands(p) ==
  AttentionOperands(RoundedShape[p.variant], RoundedShape[p.variant].scalar,
                    <<Tensor(BOOL, <<50, 1018>>), Tensor(BOOL, <<968>>), 1, 1>>[p.variant])
FlashInferOperands(p) ==
  AttentionOperands([q |-> FlashShape[p.variant].q, k |-> FlashShape[p.variant].k,
                     heads |-> 8, kv |-> 1, dim |-> 256], 2,
                    <<Tensor(BOOL, <<50, 1018>>), Tensor(BOOL, <<968>>)>>[p.variant])
LinearOperands(p) ==
  Contract(<<Tensor(p.dtype, <<p.m, p.k>>), Tensor(p.dtype, <<p.n, p.k>>), Tensor(p.dtype, <<p.n>>)>>,
           <<Tensor(p.dtype, <<p.m, p.n>>)>>)
PatchProjectionOperands ==
  Contract(<<Tensor(F32, <<1, 3, 224, 224>>), Tensor(F32, <<1152, 3, 14, 14>>), Tensor(F32, <<1152>>)>>,
           <<Tensor(F32, <<1, 16, 16, 1152>>)>>)

Operands(p) ==
  CASE p.form = "AIRMS1" -> RmsNormOperands(p)
    [] p.form = "AILNR1" -> LayerNormOperands
    [] p.form = "AITEM1" -> TimeEmbeddingOperands
    [] p.form = "AISLC1" -> ActionSliceOperands
    [] p.form = "AIARM1" -> AdaptiveRmsNormOperands
    [] p.form = "AIVAT1" -> VisionAttentionOperands
    [] p.form = "AISMD1" -> SuffixMetadataOperands
    [] p.form = "AIPIA1" -> PrefixInputOperands
    [] p.form = "AIKVS1" -> PrefixKvStoreOperands
    [] p.form = "AIROP1" -> RopeOperands(p)
    [] p.form = "AIKVP1" -> KvPackOperands
    [] p.form = "AICUKR1" -> CudaKernelOperands(p)
    [] p.form \in GeluMulForms -> GeluMulOperands(p)
    [] p.form = "AIMAD1" -> MulAddOperands(p)
    [] p.form \in CompactGateForms -> CompactGateOperands(p)
    [] p.form = "AIPSP1" -> SplitOperands(p)
    [] p.form = "AIQRP1" -> QkvRopePackOperands
    [] p.form = "AISTU1" -> StateUpdateOperands(p)
    [] p.form \in RoundedForms -> RoundedOperands(p)
    [] p.form = "AILTMM1" -> LinearOperands(p)
    [] p.form = "AIPPA1" -> PatchProjectionOperands
    [] p.form = "AIFIAT1" -> FlashInferOperands(p)

PatchMatrixBytes == 256 * 588 * 4
Workspace(p) ==
  CASE p.form \in RoundedForms -> RoundedWorkspace(p)
    [] p.form = "AILTMM1" -> p.workspace
    [] p.form = "AIPPA1" -> PatchMatrixBytes + p.linear.workspace
    [] OTHER -> 0

(* The provider a command names, and whether the stream tags it a matrix   *)
(* product, an attention or a plain kernel.                                *)
ProviderId(p) ==
  CASE p.form = "AILTMM1" -> 1 [] p.form = "AIFIAT1" -> 3 [] p.form = "AIPPA1" -> 4
    [] p.form \in RoundedForms -> 5 [] OTHER -> 2
Tag(p) ==
  CASE p.form \in {"AILTMM1", "AIPPA1"} -> "matmul"
    [] p.form \in RoundedForms \cup {"AIFIAT1", "AIVAT1"} -> "attention"
    [] OTHER -> "kernel"
=============================================================================
