---------------------------- MODULE PayloadParsers ----------------------------
(***************************************************************************)
(* The command payloads, as the runtime reads them: one parser for each    *)
(* *_payload.cc of src/cpp, what src/cpp/providers/dispatch.cc and the     *)
(* Prepare functions then require of a command's operands, and the bytes   *)
(* of them the kernels of src/kernels reach when they are launched.        *)
(*                                                                         *)
(* A parser reads fields at fixed offsets.  Words and Longs say that the   *)
(* fields from an offset on hold the given values; a field that does not   *)
(* start where the parser looks for it holds none.                         *)
(***************************************************************************)
EXTENDS Integers, Sequences

Run(b, offset, width, values) ==
  \A i \in DOMAIN values : LET o == offset + (width * (i - 1))
                           IN o \in DOMAIN b.at /\ b.at[o] = values[i]
Shorts(b, offset, values) == Run(b, offset, 2, values)
Words(b, offset, values) == Run(b, offset, 4, values)
Longs(b, offset, values) == Run(b, offset, 8, values)
Field(b, offset) == IF offset \in DOMAIN b.at THEN b.at[offset] ELSE 0
HasModule(b, bytes, sha) == Field(b, bytes) # 0 /\ Field(b, sha) # 0
Sized(b, size) == b.size = size /\ Shorts(b, 8, <<1, 0>>)

(***************************************************************************)
(* The fixed kernels.                                                      *)
(***************************************************************************)
RmsNormParses(b) ==
  /\ Sized(b, 192) /\ Words(b, 12, <<120>>)
  /\ Words(b, 24, <<1>>) /\ Words(b, 32, <<1, 1>>)
  /\ Words(b, 52, <<1, 1, 256, 1, 1, 0, 16, 16, 16, 1, 897988541>>) /\ Field(b, 160) = 0
  /\ \/ /\ Words(b, 16, <<1, 1>>) /\ Words(b, 28, <<1>>) /\ Words(b, 40, <<50, 1024, 50>>)
        /\ Longs(b, 96, <<204800, 4096, 204800>>)
     \/ /\ Words(b, 16, <<2, 2>>) /\ Words(b, 28, <<2>>) /\ Words(b, 40, <<968, 2048, 968>>)
        /\ Longs(b, 96, <<3964928, 8192, 3964928>>)
  /\ HasModule(b, 120, 128)

LayerNormParses(b) ==
  /\ Sized(b, 192)
  /\ Words(b, 12, <<120, 1, 1, 1, 1, 256, 1152, 256, 1, 1, 256, 1, 1, 0, 16, 16, 16, 1, 1, 897988541>>)
  /\ Longs(b, 92, <<1179648, 4608, 4608, 1179648>>) /\ Field(b, 164) = 0
  /\ HasModule(b, 124, 132)

TimeEmbeddingParses(b) ==
  /\ Sized(b, 192)
  /\ Words(b, 12, <<120, 1, 1, 1, 1024, 512, 2, 256, 4, 4, 1, 1, 2, 1, 1, 1, 0, 0, 0, 0>>)
  /\ Longs(b, 92, <<4, 4096>>) /\ Longs(b, 116, <<4, 4000, 0>>) /\ Field(b, 172) = 0
  /\ HasModule(b, 108, 140)

ActionSliceParses(b) ==
  /\ Sized(b, 192)
  /\ Words(b, 12, <<120, 1, 1, 3, 50, 32, 7, 350, 2, 256, 4, 4, 1, 1, 2, 0, 7, 1, 0, 0>>)
  /\ Longs(b, 92, <<6400, 1400>>) /\ Longs(b, 116, <<0, 0, 0>>) /\ Field(b, 172) = 0
  /\ HasModule(b, 108, 140)

AdaptiveRmsNormParses(b) ==
  /\ Sized(b, 192)
  /\ Words(b, 12, <<120, 1, 2, 1, 2, 2, 1, 1, 50, 1024, 3072, 2, 50, 1, 1, 256, 1, 1, 0,
                    16, 16, 16, 16, 1, 897988541>>)
  /\ Longs(b, 112, <<102400, 12288, 102400, 102400>>) /\ Field(b, 184) = 0
  /\ HasModule(b, 144, 152)

VisionAttentionParses(b) ==
  /\ Sized(b, 192)
  /\ Words(b, 12, <<120, 1, 1, 1, 1, 4, 1, 1, 1, 256, 256, 16, 72, 256, 16, 1, 256, 1, 1, 0, 1,
                    1039227887>>)
  /\ Longs(b, 100, <<1179648, 1179648, 1179648, 1, 1179648>>) /\ Field(b, 180) = 0
  /\ HasModule(b, 140, 148)

SuffixMetadataParses(b) ==
  /\ Sized(b, 192)
  /\ Words(b, 12, <<120, 1, 5, 5, 3, 1, 1, 1, 1, 968, 50, 1018, 199, 256, 1, 1, 4, 0, 0, 0>>)
  /\ Longs(b, 92, <<968, 50900, 200>>) /\ Longs(b, 124, <<0, 0>>) /\ Field(b, 172) = 0
  /\ HasModule(b, 116, 140)

PrefixInputParses(b) ==
  /\ Sized(b, 192)
  /\ Words(b, 12, <<120, 1, 9, 3, 3, 256, 200, 2048, 257152, 968, 7744, 256, 4, 2, 4, 1, 4, 4, 0, 0>>)
  /\ Longs(b, 92, <<2097152, 1053294592, 800, 7929856>>) /\ Longs(b, 132, <<0>>) /\ Field(b, 172) = 0
  /\ HasModule(b, 124, 140)

PrefixKvStoreParses(b) ==
  /\ Sized(b, 192)
  /\ Words(b, 12, <<120, 1, 2, 1, 2, 1, 1, 1, 1, 968, 256, 242, 1, 1, 256, 1, 1, 16, 0, 0>>)
  /\ Longs(b, 92, <<495616, 495616, 495616, 495616>>) /\ Longs(b, 132, <<0>>) /\ Field(b, 172) = 0
  /\ HasModule(b, 124, 140)

RopeVariant(b, variant, heads, sequence, grid, tensor, positions) ==
  /\ Words(b, 16, <<variant>>) /\ Words(b, 44, <<heads, sequence>>) /\ Words(b, 60, <<grid>>)
  /\ Longs(b, 112, <<tensor, positions, tensor>>)
RopeParses(b) ==
  /\ Sized(b, 192) /\ Words(b, 12, <<120>>) /\ Words(b, 20, <<2, 3, 2, 2, 3, 1>>)
  /\ Words(b, 52, <<256, 128>>)
  /\ Words(b, 64, <<1, 1, 256, 1, 1, 0, 16, 16, 16, 2, 1, 1176256512>>) /\ Field(b, 176) = 0
  /\ \/ RopeVariant(b, 1, 8, 968, 3872, 3964928, 3872)
     \/ RopeVariant(b, 2, 1, 968, 484, 495616, 3872)
     \/ RopeVariant(b, 3, 8, 50, 200, 204800, 200)
     \/ RopeVariant(b, 4, 1, 50, 25, 25600, 200)
  /\ HasModule(b, 136, 144)

KvPackParses(b) ==
  /\ Sized(b, 192)
  /\ Words(b, 12, <<120, 1, 2, 1, 1, 2, 1, 1, 1, 968, 50, 1018, 256, 255, 1, 1, 256, 1, 1, 16>>)
  /\ Longs(b, 92, <<495616, 25600, 25600, 521216, 521216>>) /\ Field(b, 172) = 0
  /\ HasModule(b, 132, 140)

FlashInferParses(b) ==
  /\ Sized(b, 192) /\ Words(b, 12, <<120>>) /\ Words(b, 20, <<2, 2, 2, 4>>)
  /\ Words(b, 40, <<1, 8, 1>>) /\ Words(b, 60, <<256>>)
  /\ Words(b, 68, <<1, 1, 32, 4, 1, 49152, 1031798784>>)
  /\ Field(b, 136) = 1 /\ Field(b, 156) = 2 /\ Field(b, 176) = 0
  /\ \/ /\ Words(b, 16, <<1>>) /\ Words(b, 36, <<1>>) /\ Words(b, 52, <<50, 1018>>)
        /\ Words(b, 64, <<7>>) /\ Longs(b, 96, <<204800, 521216, 521216, 50900, 204800>>)
     \/ /\ Words(b, 16, <<2>>) /\ Words(b, 36, <<2>>) /\ Words(b, 52, <<968, 968>>)
        /\ Words(b, 64, <<121>>) /\ Longs(b, 96, <<3964928, 495616, 495616, 968, 3964928>>)

(***************************************************************************)
(* The forms that carry sizes.                                             *)
(***************************************************************************)
KnownArch == {89, 110, 120}
ValidAlignment(x) == x \in {2 ^ k : k \in 0..20}
ScalarBytes == <<4, 2, 4, 1>>
Kernels == <<<<2, 1>>, <<1, 2>>, <<4, 3>>, <<1, 1>>, <<2, 2>>, <<3, 3>>, <<1, 1>>, <<2, 2>>,
             <<1, 1>>, <<2, 2>>, <<1, 1>>>>
KnownElementCount(kernel, numel) ==
  CASE kernel = 9 -> numel = 1101824
    [] kernel = 10 -> numel \in {204800, 15859712}
    [] kernel = 11 -> numel = 1024
    [] OTHER -> numel > 0
LaunchAbi(kernel) == IF kernel \in 4..8 THEN 2 ELSE 1
Grid(numel, block) ==
  LET minimum == (numel + block - 1) \div block IN IF minimum < 65535 THEN minimum ELSE 65535

CudaKernelParses(b) ==
  LET kernel == Field(b, 20)
  IN /\ Sized(b, 128) /\ Words(b, 12, <<128>>)
     /\ Field(b, 16) \in KnownArch
     /\ Words(b, 32, <<1>>) /\ Words(b, 44, <<0>>) /\ Words(b, 104, <<1>>) /\ Field(b, 112) = 0
     /\ kernel \in DOMAIN Kernels
     /\ Words(b, 24, Kernels[kernel]) /\ Words(b, 108, <<LaunchAbi(kernel)>>)
     /\ KnownElementCount(kernel, Field(b, 48))
     /\ HasModule(b, 56, 64)
     /\ Field(b, 40) \in 1..1024
     /\ Field(b, 36) = Grid(Field(b, 48), Field(b, 40))
     /\ ValidAlignment(Field(b, 96)) /\ ValidAlignment(Field(b, 100))

Numbered(b) == /\ Sized(b, 128) /\ Words(b, 12, <<120>>)
               /\ Field(b, 16) \in 1..(2 ^ 26) /\ HasModule(b, 24, 32)
GeluMulParses(b) ==
  LET width == Field(b, 64)
  IN /\ Numbered(b) /\ Words(b, 68, <<0>>)
     /\ IF b.magic = "AIGMU1" THEN width = 0
        ELSE width > 0 /\ width <= 32768 /\ b.at[16] % width = 0 /\ b.at[16] \div width <= 2048
RoundedMulAddParses(b) == Numbered(b) /\ Words(b, 64, <<0>>)
CompactGateParses(b) == RoundedMulAddParses(b) /\ b.at[16] = 51200

ProjectionSplitParses(b) ==
  LET widths == [i \in 1..3 |-> Field(b, 16 + (4 * i))]
  IN /\ Sized(b, 128) /\ Words(b, 12, <<120>>)
     /\ Field(b, 16) \in 1..128
     /\ \A i \in 1..3 : widths[i] # 0 /\ widths[i] % 8 = 0
     /\ widths[1] + widths[2] + widths[3] <= 65536
     /\ b.magic = "AIQRP1" => Words(b, 16, <<50, 2048, 256, 256>>)
     /\ HasModule(b, 32, 40) /\ Field(b, 72) = 0

StateUpdateParses(b) ==
  LET total == Field(b, 16)
      count == Field(b, 24)
      offset == Field(b, 32)
  IN /\ Sized(b, 128) /\ Words(b, 12, <<120>>) /\ Field(b, 80) = 0
     /\ count # 0 /\ count <= total /\ total <= 2 ^ 30 /\ offset <= total - count
     /\ total % 8 = 0 /\ count % 8 = 0 /\ offset % 8 = 0
     /\ HasModule(b, 40, 48)

(* Query rows, key rows, heads, key heads, head width of a variant.        *)
AttentionDims(variant) ==
  CASE variant = 1 -> <<50, 1018, 8, 1, 256>>
    [] variant = 2 -> <<968, 968, 8, 1, 256>>
    [] OTHER -> <<256, 256, 16, 16, 72>>
AttentionScalar(variant) == IF variant >= 3 THEN 4 ELSE 2
ScoreBytes(variant) ==
  LET d == AttentionDims(variant) IN d[1] * d[2] * d[3] * AttentionScalar(variant)
RoundedAttentionParses(b) ==
  LET matmul == b.size = 192
      variant == Field(b, 16)
  IN /\ b.size \in {128, 192}
     /\ b.magic \in (IF matmul THEN {"AIRAT2", "AIRAT3"} ELSE {"AIRAT1"})
     /\ Shorts(b, 8, <<CASE b.magic = "AIRAT3" -> 3 [] b.magic = "AIRAT2" -> 2 [] OTHER -> 1, 0>>)
     /\ Words(b, 12, <<120>>)
     /\ variant \in (IF b.magic = "AIRAT2" THEN 1..4 ELSE 1..2)
     /\ Words(b, 20, AttentionDims(variant))
     /\ HasModule(b, 40, 48)
     /\ IF matmul
        THEN /\ Field(b, 80) # 0 /\ Words(b, 84, <<0>>) /\ Longs(b, 88, <<ScoreBytes(variant)>>)
             /\ \A o \in {124, 128, 160, 164} : Field(b, o) <= 65535
             /\ Field(b, 168) = 0
        ELSE Field(b, 80) = 0

(* TensorBytesValid keeps the products in range; here only that none is empty. *)
CublasLtParses(b, base) ==
  LET f(o) == Field(b, base + o)
  IN /\ Words(b, base + 12, <<192>>) /\ Shorts(b, base + 8, <<1>>) /\ f(10) <= 1
     /\ f(16) \in KnownArch /\ f(20) # 0 /\ f(24) \in {1, 2}
     /\ f(28) = 1 \/ (f(28) = 2 /\ f(24) = 1 /\ f(10) = 1)
     /\ Words(b, base + 32, <<1, 1, 1, 1, 0, 0, 0, 0, 0>>) /\ f(184) = 0
     /\ f(68) # 0 /\ f(76) # 0 /\ f(84) # 0
     /\ Longs(b, base + 92, <<f(84), f(84), f(76), f(76)>>)
     /\ \A o \in {164, 168, 172, 176, 180} : ValidAlignment(f(o))
CublasLtLinearParses(b) == b.size = 192 /\ CublasLtParses(b, 0)

PatchProjectionParses(b) ==
  /\ Sized(b, 384)
  /\ Words(b, 12, <<120, 1, 1, 256, 1, 1, 256, 1, 1, 4, 4, 4, 4, 256, 1, 3, 224, 224, 14, 14,
                    1152, 16, 16, 0>>)
  /\ Longs(b, 108, <<602112, 2709504, 4608, 1179648, 602112>>)
  /\ HasModule(b, 148, 156) /\ Field(b, 188) = 0
  /\ CublasLtParses(b, 192)
  /\ Words(b, 208, <<120>>) /\ Words(b, 216, <<1>>) /\ Longs(b, 260, <<256, 1152, 588>>)

Parses(b) ==
  CASE b.magic = "AIRMS1" -> RmsNormParses(b)
    [] b.magic = "AILNR1" -> LayerNormParses(b)
    [] b.magic = "AITEM1" -> TimeEmbeddingParses(b)
    [] b.magic = "AISLC1" -> ActionSliceParses(b)
    [] b.magic = "AIARM1" -> AdaptiveRmsNormParses(b)
    [] b.magic = "AIVAT1" -> VisionAttentionParses(b)
    [] b.magic = "AISMD1" -> SuffixMetadataParses(b)
    [] b.magic = "AIPIA1" -> PrefixInputParses(b)
    [] b.magic = "AIKVS1" -> PrefixKvStoreParses(b)
    [] b.magic = "AIROP1" -> RopeParses(b)
    [] b.magic = "AIKVP1" -> KvPackParses(b)
    [] b.magic = "AIFIAT1" -> FlashInferParses(b)
    [] b.magic = "AICUKR1" -> CudaKernelParses(b)
    [] b.magic \in {"AIGMU1", "AIGMP1", "AIGMT1"} -> GeluMulParses(b)
    [] b.magic = "AIMAD1" -> RoundedMulAddParses(b)
    [] b.magic \in {"AIANG1", "AIGRD1", "AIGRN1"} -> CompactGateParses(b)
    [] b.magic \in {"AIPSP1", "AIQRP1"} -> ProjectionSplitParses(b)
    [] b.magic = "AISTU1" -> StateUpdateParses(b)
    [] b.magic \in {"AIRAT1", "AIRAT2", "AIRAT3"} -> RoundedAttentionParses(b)
    [] b.magic = "AILTMM1" -> CublasLtLinearParses(b)
    [] b.magic = "AIPPA1" -> PatchProjectionParses(b)

(***************************************************************************)
(* Dispatch: the operands' accesses and least sizes, reads before writes.  *)
(***************************************************************************)
Required(reads, writes) ==
  [i \in 1..(Len(reads) + Len(writes)) |->
     [access |-> IF i <= Len(reads) THEN "r" ELSE "w", bytes |-> (reads \o writes)[i]]]

CudaKernelRequires(b) ==
  LET in == b.at[48] * ScalarBytes[b.at[24]]
      out == b.at[48] * ScalarBytes[b.at[28]]
  IN Required(IF b.at[20] \in 4..8 THEN <<in, in>> ELSE <<in>>, <<out>>)
GeluMulRequires(b) ==
  LET bytes == 2 * b.at[16]
  IN Required(IF b.magic = "AIGMU1" THEN <<bytes, bytes>> ELSE <<2 * bytes>>, <<bytes>>)
RoundedMulAddRequires(b) ==
  LET bytes == 2 * b.at[16] IN Required(<<bytes, bytes, bytes>>, <<bytes>>)
CompactGateRequires(b) ==
  CASE b.magic = "AIANG1" -> Required(<<102400, 12288>>, <<102400>>)
    [] b.magic = "AIGRD1" -> Required(<<102400, 12288, 102400>>, <<102400>>)
    [] b.magic = "AIGRN1" -> Required(<<102400, 12288, 102400, 12288>>, <<102400, 102400>>)
ProjectionSplitRequires(b) ==
  LET part(i) == b.at[16] * b.at[16 + (4 * i)] * 2
  IN IF b.magic = "AIQRP1"
     THEN Required(<<256000, 200, 495616, 495616>>, <<204800, 521216, 521216>>)
     ELSE Required(<<part(1) + part(2) + part(3)>>, <<part(1), part(2), part(3)>>)
\* Fault: the caches need only hold the update.
StateUpdateRequiresWindow(b) == Required(<<2 * b.at[24], 2 * b.at[24]>>, <<2 * b.at[24], 2 * b.at[24]>>)
StateUpdateRequires(b) ==
  Required(<<2 * b.at[24], 2 * b.at[24]>>, <<2 * b.at[16], 2 * b.at[16]>>)
RoundedAttentionRequires(b) ==
  LET variant == b.at[16]
      d == AttentionDims(variant)
      query == d[1] * d[3] * d[5] * AttentionScalar(variant)
      key == d[2] * d[4] * d[5] * AttentionScalar(variant)
  IN Required(<<query, key, key, CASE variant = 1 -> 50900 [] variant = 2 -> 968 [] OTHER -> 1>>,
              <<query>>)
CublasLtLinearRequires(b) ==
  LET scalar == IF b.at[24] = 1 THEN 4 ELSE 2
      m == b.at[68]
      n == b.at[76]
      k == b.at[84]
  IN Required(<<m * k * scalar, n * k * scalar, n * scalar>>, <<m * n * scalar>>)

Requires(b) ==
  CASE b.magic = "AIRMS1" -> Required(<<b.at[96], b.at[104]>>, <<b.at[112]>>)
    [] b.magic = "AILNR1" -> Required(<<b.at[92], b.at[100], b.at[108]>>, <<b.at[116]>>)
    [] b.magic = "AITEM1" -> Required(<<4>>, <<4096>>)
    [] b.magic = "AISLC1" -> Required(<<6400>>, <<1400>>)
    [] b.magic = "AIARM1" -> Required(<<102400, 12288>>, <<102400, 102400>>)
    [] b.magic = "AIVAT1" ->
         Required(<<b.at[100], b.at[108], b.at[116], b.at[124]>>, <<b.at[132]>>)
    [] b.magic = "AISMD1" -> Required(<<968>>, <<50900, 200>>)
    [] b.magic = "AIPIA1" ->
         Required(<<2097152, 2097152, 2097152, 1053294592, 800, 1, 1, 1, 200>>, <<7929856, 968, 3872>>)
    [] b.magic = "AIKVS1" -> Required(<<495616, 495616>>, <<495616, 495616>>)
    [] b.magic = "AIROP1" -> Required(<<b.at[112], b.at[120]>>, <<b.at[128]>>)
    [] b.magic = "AIKVP1" -> Required(<<495616, 495616, 25600, 25600>>, <<521216, 521216>>)
    [] b.magic = "AIFIAT1" ->
         Required(<<b.at[96], b.at[104], b.at[112], b.at[120]>>, <<b.at[128]>>)
    [] b.magic = "AICUKR1" -> CudaKernelRequires(b)
    [] b.magic \in {"AIGMU1", "AIGMP1", "AIGMT1"} -> GeluMulRequires(b)
    [] b.magic = "AIMAD1" -> RoundedMulAddRequires(b)
    [] b.magic \in {"AIANG1", "AIGRD1", "AIGRN1"} -> CompactGateRequires(b)
    [] b.magic \in {"AIPSP1", "AIQRP1"} -> ProjectionSplitRequires(b)
    [] b.magic = "AISTU1" -> StateUpdateRequires(b)
    [] b.magic \in {"AIRAT1", "AIRAT2", "AIRAT3"} -> RoundedAttentionRequires(b)
    [] b.magic = "AILTMM1" -> CublasLtLinearRequires(b)
    [] b.magic = "AIPPA1" -> Required(<<602112, 2709504, 4608>>, <<1179648>>)

(* The scratch a form is given must have exactly the size the payload asks for. *)
RequiredWorkspace(b) ==
  CASE b.magic \in {"AIRAT2", "AIRAT3"} -> b.at[88]
    [] b.magic = "AILTMM1" -> b.at[124]
    [] b.magic = "AIPPA1" -> b.at[140] + b.at[316]
    [] OTHER -> 0

(* The form of payload a provider and a tag of the command stream lead to. *)
Dispatched(provider, tag, magic) ==
  \/ provider = 1 /\ tag = "matmul" /\ magic = "AILTMM1"
  \/ provider = 4 /\ tag = "matmul" /\ magic = "AIPPA1"
  \/ provider = 5 /\ tag = "attention" /\ magic \in {"AIRAT1", "AIRAT2", "AIRAT3"}
  \/ provider = 3 /\ tag = "attention" /\ magic = "AIFIAT1"
  \/ /\ provider = 2 /\ tag = (IF magic = "AIVAT1" THEN "attention" ELSE "kernel")
     /\ magic \notin {"AILTMM1", "AIPPA1", "AIRAT1", "AIRAT2", "AIRAT3", "AIFIAT1"}

(* The module the command names is the one the payload was made for.  The  *)
(* two library providers take the architecture from the payload itself.    *)
ModuleOf(b) ==
  CASE b.magic \in {"AIRMS1"} -> <<b.at[120], b.at[128]>>
    [] b.magic = "AILNR1" -> <<b.at[124], b.at[132]>>
    [] b.magic \in {"AITEM1", "AISLC1"} -> <<b.at[108], b.at[140]>>
    [] b.magic = "AIARM1" -> <<b.at[144], b.at[152]>>
    [] b.magic = "AIVAT1" -> <<b.at[140], b.at[148]>>
    [] b.magic = "AISMD1" -> <<b.at[116], b.at[140]>>
    [] b.magic \in {"AIPIA1", "AIKVS1"} -> <<b.at[124], b.at[140]>>
    [] b.magic = "AIROP1" -> <<b.at[136], b.at[144]>>
    [] b.magic = "AIKVP1" -> <<b.at[132], b.at[140]>>
    [] b.magic = "AICUKR1" -> <<b.at[56], b.at[64]>>
    [] b.magic \in {"AIGMU1", "AIGMP1", "AIGMT1", "AIMAD1", "AIANG1", "AIGRD1", "AIGRN1"} ->
         <<b.at[24], b.at[32]>>
    [] b.magic \in {"AIPSP1", "AIQRP1"} -> <<b.at[32], b.at[40]>>
    [] b.magic \in {"AISTU1", "AIRAT1", "AIRAT2", "AIRAT3"} -> <<b.at[40], b.at[48]>>
    [] b.magic = "AIPPA1" -> <<b.at[148], b.at[156]>>
TargetArch(b) == IF b.magic \in {"AICUKR1", "AILTMM1"} THEN b.at[16] ELSE 120

(* PrepareProviderCommand.                                                 *)
Prepares(b, command) ==
  /\ Dispatched(command.provider, command.tag, b.magic)
  /\ Parses(b)
  /\ TargetArch(b) = command.arch
  /\ b.magic \notin {"AILTMM1", "AIFIAT1"} =>
       ModuleOf(b) = <<command.module.bytes, command.module.sha>>
  /\ Len(command.operands) = Len(Requires(b))
  /\ \A i \in DOMAIN command.operands :
       /\ command.operands[i].access = Requires(b)[i].access
       /\ command.operands[i].bytes # 0 /\ command.operands[i].bytes >= Requires(b)[i].bytes
  /\ command.workspace = RequiredWorkspace(b)
=============================================================================
