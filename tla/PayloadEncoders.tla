--------------------------- MODULE PayloadEncoders ---------------------------
(***************************************************************************)
(* The command payloads, as the compiler writes and reads them: one        *)
(* to_bytes and one from_bytes for each provider module of                 *)
(* src/src/aginfer/providers.  A payload is its magic, its size and a map  *)
(* from byte offsets to the fields that start there; the offsets follow    *)
(* from the order and the widths in which struct.pack receives the fields, *)
(* which is what the runtime's parsers have to agree with.  Reserved bytes *)
(* are one field; digests, commits, library versions and the bits of       *)
(* floats are small numbers or their IEEE words.                           *)
(*                                                                         *)
(* A problem is a record: the form (its magic), the module it runs in and  *)
(* whatever its provider lets vary.                                        *)
(***************************************************************************)
EXTENDS Integers, Sequences, SequencesExt

Round(number, unit) == (number + unit - 1) \div unit
PowerOfTwo(x) == x \in {2 ^ k : k \in 0..20}

U16(values) == [width |-> 2, values |-> values]
U32(values) == [width |-> 4, values |-> values]
U64(values) == [width |-> 8, values |-> values]
Digest(sha) == [width |-> 32, values |-> <<sha>>]
Commit(sha) == [width |-> 20, values |-> <<sha>>]
Reserved(bytes) == [width |-> bytes, values |-> <<0>>]

(* struct.Struct("<...").pack: fields follow each other without padding.   *)
Place(placed, part) ==
  LET end == placed.size + (part.width * Len(part.values))
      starts == {placed.size + (part.width * (i - 1)) : i \in DOMAIN part.values}
  IN [size |-> end,
      at |-> [o \in DOMAIN placed.at \cup starts |->
                IF o \in starts THEN part.values[((o - placed.size) \div part.width) + 1]
                                ELSE placed.at[o]]]

Packed(magic, major, minor, parts) ==
  LET placed == FoldLeft(Place, [size |-> 8, at |-> [o \in {} |-> 0]],
                         <<U16(<<major, minor>>)>> \o parts)
  IN [magic |-> magic, size |-> placed.size, at |-> placed.at]

(***************************************************************************)
(* The twelve fixed kernels: everything but the module is a constant of    *)
(* the provider (RMSNorm and RoPE choose between variants).                *)
(***************************************************************************)
SM120 == 120
Epsilon == 897988541            \* 1.0e-6
VisionScale == 1039227887       \* 1 / sqrt(72)
HeadScale == 1031798784         \* 0.0625
Theta == 1176256512             \* 10000.0

RmsNormShape == <<[dtype |-> 1, rows |-> 50, width |-> 1024],
                  [dtype |-> 2, rows |-> 968, width |-> 2048]>>
RmsNormBytes(p) ==
  LET v == RmsNormShape[p.variant]
      tensor == v.rows * v.width * (IF v.dtype = 1 THEN 4 ELSE 2)
  IN Packed("AIRMS1", 1, 0,
       <<U32(<<SM120, p.variant, v.dtype, 1, v.dtype, 1, 1, v.rows, v.width, v.rows, 1, 1,
               256, 1, 1, 0, 16, 16, 16, 1, Epsilon>>),
         U64(<<tensor, v.width * 4, tensor, p.module.bytes>>), Digest(p.module.sha), Reserved(32)>>)

LayerNormBytes(p) ==
  Packed("AILNR1", 1, 0,
    <<U32(<<SM120, 1, 1, 1, 1, 256, 1152, 256, 1, 1, 256, 1, 1, 0, 16, 16, 16, 1, 1, Epsilon>>),
      U64(<<256 * 1152 * 4, 1152 * 4, 1152 * 4, 256 * 1152 * 4, p.module.bytes>>),
      Digest(p.module.sha), Reserved(28)>>)

(* The two doubles are the periods 0.004 and 4.0, in thousandths.          *)
TimeEmbeddingBytes(p) ==
  Packed("AITEM1", 1, 0,
    <<U32(<<SM120, 1, 1, 1, 1024, 512, 2, 256, 4, 4, 1, 1, 2, 1, 1, 1, 0, 0, 0, 0>>),
      U64(<<4, 4096, p.module.bytes, 4, 4000, 0>>), Digest(p.module.sha), Reserved(20)>>)

ActionSliceBytes(p) ==
  Packed("AISLC1", 1, 0,
    <<U32(<<SM120, 1, 1, 3, 50, 32, 7, 350, 2, 256, 4, 4, 1, 1, 2, 0, 7, 1, 0, 0>>),
      U64(<<6400, 1400, p.module.bytes, 0, 0, 0>>), Digest(p.module.sha), Reserved(20)>>)

AdaptiveRmsNormBytes(p) ==
  Packed("AIARM1", 1, 0,
    <<U32(<<SM120, 1, 2, 1, 2, 2, 1, 1, 50, 1024, 3072, 2, 50, 1, 1, 256, 1, 1, 0,
            16, 16, 16, 16, 1, Epsilon>>),
      U64(<<102400, 12288, 102400, 102400, p.module.bytes>>), Digest(p.module.sha), Reserved(8)>>)

VisionAttentionBytes(p) ==
  Packed("AIVAT1", 1, 0,
    <<U32(<<SM120, 1, 1, 1, 1, 4, 1, 1, 1, 256, 256, 16, 72, 256, 16, 1, 256, 1, 1, 0, 1,
            VisionScale>>),
      U64(<<1179648, 1179648, 1179648, 1, 1179648, p.module.bytes>>),
      Digest(p.module.sha), Reserved(12)>>)

SuffixMetadataBytes(p) ==
  Packed("AISMD1", 1, 0,
    <<U32(<<SM120, 1, 5, 5, 3, 1, 1, 1, 1, 968, 50, 1018, 199, 256, 1, 1, 4, 0, 0, 0>>),
      U64(<<968, 50900, 200, p.module.bytes, 0, 0>>), Digest(p.module.sha), Reserved(20)>>)

PrefixInputBytes(p) ==
  Packed("AIPIA1", 1, 0,
    <<U32(<<SM120, 1, 9, 3, 3, 256, 200, 2048, 257152, 968, 7744, 256, 4, 2, 4, 1, 4, 4, 0, 0>>),
      U64(<<2097152, 1053294592, 800, 7929856, p.module.bytes, 0>>),
      Digest(p.module.sha), Reserved(20)>>)

PrefixKvStoreBytes(p) ==
  Packed("AIKVS1", 1, 0,
    <<U32(<<SM120, 1, 2, 1, 2, 1, 1, 1, 1, 968, 256, 242, 1, 1, 256, 1, 1, 16, 0, 0>>),
      U64(<<495616, 495616, 495616, 495616, p.module.bytes, 0>>),
      Digest(p.module.sha), Reserved(20)>>)

RopeShape == <<<<968, 8>>, <<968, 1>>, <<50, 8>>, <<50, 1>>>>      \* sequence, heads
RopeBytes(p) ==
  LET sequence == RopeShape[p.variant][1]
      heads == RopeShape[p.variant][2]
      tensor == sequence * heads * 256 * 2
  IN Packed("AIROP1", 1, 0,
       <<U32(<<SM120, p.variant, 2, 3, 2, 2, 3, 1, heads, sequence, 256, 128,
               Round(sequence * heads * 128, 256), 1, 1, 256, 1, 1, 0, 16, 16, 16, 2, 1, Theta>>),
         U64(<<tensor, sequence * 4, tensor, p.module.bytes>>), Digest(p.module.sha), Reserved(16)>>)

KvPackBytes(p) ==
  Packed("AIKVP1", 1, 0,
    <<U32(<<SM120, 1, 2, 1, 1, 2, 1, 1, 1, 968, 50, 1018, 256, 255, 1, 1, 256, 1, 1, 16>>),
      U64(<<495616, 25600, 25600, 521216, 521216, p.module.bytes>>),
      Digest(p.module.sha), Reserved(20)>>)

(***************************************************************************)
(* Elementwise kernels: casts, additions, multiplications, activations.    *)
(* KernelDTypes gives input and output type of the kernels in the order of *)
(* their identifiers.                                                      *)
(***************************************************************************)
DTypeBytes == <<4, 2, 4, 1>>                         \* f32, bf16, i32, bool
KernelDTypes == <<<<2, 1>>, <<1, 2>>, <<4, 3>>, <<1, 1>>, <<2, 2>>, <<3, 3>>, <<1, 1>>, <<2, 2>>,
                  <<1, 1>>, <<2, 2>>, <<1, 1>>>>
ActivationKernels == 9..11
UnaryKernels == (1..3) \cup ActivationKernels
ActivationSizes == {<<9, 1101824>>, <<10, 204800>>, <<10, 15859712>>, <<11, 1024>>}
Archs == {89, 110, 120}

(* __post_init__ of the three problems and of the payload.                 *)
CudaKernelValid(p) ==
  /\ p.arch \in Archs
  /\ p.kernel \in DOMAIN KernelDTypes
  /\ <<p.input, p.output>> = KernelDTypes[p.kernel]
  /\ p.numel > 0
  /\ p.kernel \in ActivationKernels => p.arch = SM120 /\ <<p.kernel, p.numel>> \in ActivationSizes
  /\ p.block \in 1..1024
  /\ p.grid = LET blocks == Round(p.numel, p.block) IN IF blocks < 65535 THEN blocks ELSE 65535
  /\ PowerOfTwo(p.in_align) /\ p.in_align >= DTypeBytes[p.input]
  /\ PowerOfTwo(p.out_align) /\ p.out_align >= DTypeBytes[p.output]

CudaKernelBytes(p) ==
  Packed("AICUKR1", 1, 0,
    <<U32(<<128, p.arch, p.kernel, p.input, p.output, 1, p.grid, p.block, 0>>),
      U64(<<p.numel, p.module.bytes>>), Digest(p.module.sha),
      U32(<<p.in_align, p.out_align, 1, IF p.kernel \in UnaryKernels THEN 1 ELSE 2>>), Reserved(16)>>)

(* CudaKernelPayload.for_problem: the geometry and alignment of the problem. *)
CudaKernelFor(arch, kernel, numel, module) ==
  LET d == KernelDTypes[kernel]
      blocks == Round(numel, 256)
  IN [form |-> "AICUKR1", arch |-> arch, kernel |-> kernel, input |-> d[1], output |-> d[2],
      numel |-> numel, grid |-> IF blocks < 65535 THEN blocks ELSE 65535, block |-> 256,
      in_align |-> DTypeBytes[d[1]], out_align |-> DTypeBytes[d[2]], module |-> module]

(***************************************************************************)
(* Kernels that fuse several scheduled operations.                         *)
(***************************************************************************)
GeluMulForms == {"AIGMU1", "AIGMP1", "AIGMT1"}
CompactGateForms == {"AIANG1", "AIGRD1", "AIGRN1"}
MaxNumel == 2 ^ 26

GeluMulValid(p) ==
  /\ p.numel \in 1..MaxNumel
  /\ p.width \in 0..32768
  /\ p.width # 0 => p.numel % p.width = 0 /\ p.numel \div p.width <= 2048
  /\ p.form = "AIGMT1" => p.width # 0
(* The magic follows from the problem: a width makes the packed form.      *)
GeluMulBytes(p) ==
  Packed(IF p.form = "AIGMT1" THEN "AIGMT1" ELSE IF p.width # 0 THEN "AIGMP1" ELSE "AIGMU1", 1, 0,
    <<U32(<<SM120>>), U64(<<p.numel, p.module.bytes>>), Digest(p.module.sha),
      U32(<<p.width>>), Reserved(60)>>)

MulAddValid(p) == p.numel \in 1..MaxNumel
MulAddBytes(p) ==
  Packed(p.form, 1, 0,
    <<U32(<<SM120>>), U64(<<p.numel, p.module.bytes>>), Digest(p.module.sha), Reserved(64)>>)
CompactGateValid(p) == MulAddValid(p) /\ p.numel = 51200

\* Fault: widths need not be whole vectors.
SplitValidUnaligned(p) ==
  /\ p.rows \in 1..128
  /\ \A i \in 1..3 : p.widths[i] > 0
  /\ p.widths[1] + p.widths[2] + p.widths[3] <= 65536
SplitValid(p) ==
  /\ p.rows \in 1..128
  /\ \A i \in 1..3 : p.widths[i] > 0 /\ p.widths[i] % 8 = 0
  /\ p.widths[1] + p.widths[2] + p.widths[3] <= 65536
SplitBytes(p) ==
  Packed(p.form, 1, 0,
    <<U32(<<SM120, p.rows, p.widths[1], p.widths[2], p.widths[3]>>), U64(<<p.module.bytes>>),
      Digest(p.module.sha), Reserved(56)>>)
QkvRopePackValid(p) == SplitValid(p) /\ p.rows = 50 /\ p.widths = <<2048, 256, 256>>

StateUpdateValid(p) ==
  /\ 0 < p.count /\ p.count <= p.total /\ p.total <= 2 ^ 30
  /\ p.offset >= 0 /\ p.offset + p.count <= p.total
  /\ p.total % 8 = 0 /\ p.count % 8 = 0 /\ p.offset % 8 = 0
StateUpdateBytes(p) ==
  Packed("AISTU1", 1, 0,
    <<U32(<<SM120>>), U64(<<p.total, p.count, p.offset, p.module.bytes>>),
      Digest(p.module.sha), Reserved(48)>>)

(***************************************************************************)
(* Attention and matrix products that use a library.                       *)
(***************************************************************************)
RoundedShape == <<[q |-> 50, k |-> 1018, heads |-> 8, kv |-> 1, dim |-> 256, scalar |-> 2],
                  [q |-> 968, k |-> 968, heads |-> 8, kv |-> 1, dim |-> 256, scalar |-> 2],
                  [q |-> 256, k |-> 256, heads |-> 16, kv |-> 16, dim |-> 72, scalar |-> 4],
                  [q |-> 256, k |-> 256, heads |-> 16, kv |-> 16, dim |-> 72, scalar |-> 4]>>
RoundedForms == {"AIRAT1", "AIRAT2", "AIRAT3"}

RoundedWorkspace(p) ==
  LET v == RoundedShape[p.variant]
  IN IF p.version = 0 THEN 0 ELSE v.heads * v.q * v.k * v.scalar
RoundedValid(p) ==
  /\ p.variant \in 1..4
  /\ p.variant >= 3 => p.version # 0
  /\ p.warps \in {1, 4}
  /\ p.warps = 4 => p.version # 0 /\ p.variant \in {1, 2}
  /\ \A algorithm \in {p.qk, p.pv} : Len(algorithm) = (IF p.version = 0 THEN 0 ELSE 9)
  /\ \A algorithm \in {p.qk, p.pv} : \A i \in DOMAIN algorithm : i > 7 => algorithm[i] < 65536
RoundedBytes(p) ==
  LET v == RoundedShape[p.variant]
      head == <<U32(<<SM120, p.variant, v.q, v.k, v.heads, v.kv, v.dim>>),
                U64(<<p.module.bytes>>), Digest(p.module.sha)>>
      grouped == p.warps = 4
  IN IF p.version = 0 THEN Packed("AIRAT1", 1, 0, head \o <<Reserved(48)>>)
     ELSE Packed(IF grouped THEN "AIRAT3" ELSE "AIRAT2", IF grouped THEN 3 ELSE 2, 0,
            head \o <<U32(<<p.version, 0>>), U64(<<RoundedWorkspace(p)>>),
                      U32(p.qk \o p.pv), Reserved(24)>>)

LinearValid(p) ==
  /\ p.arch \in Archs /\ p.dtype \in {1, 2}
  /\ p.m > 0 /\ p.n > 0 /\ p.k > 0
  /\ p.mode \in {1, 2} /\ (p.mode = 2 => p.dtype = 1)
  /\ p.version > 0
  /\ \A i \in 1..5 : PowerOfTwo(p.aligns[i])
LinearBytes(p) ==
  Packed("AILTMM1", 1, IF p.mode = 2 THEN 1 ELSE 0,
    <<U32(<<192, p.arch, p.version, p.dtype, p.mode, 1, 1, 1, 1, 0, 0, 0, 0, 0>>),
      U64(<<p.m, p.n, p.k, p.k, p.k, p.n, p.n, p.workspace>>), U32(SubSeq(p.algorithm, 1, 7)),
      U16(SubSeq(p.algorithm, 8, 9)), U32(p.aligns), Reserved(8)>>)

(* The header of a patch projection, followed by the payload of its product. *)
PatchGemm(p) == <<p.arch, p.dtype, p.m, p.n, p.k>> = <<SM120, 1, 256, 1152, 588>>
PatchProjectionBytes(p) ==
  LET nested == LinearBytes(p.linear)
      header == Packed("AIPPA1", 1, 0,
                  <<U32(<<SM120, 1, 1, 256, 1, 1, 256, 1, 1, 4, 4, 4, 4, 256, 1, 3, 224, 224, 14, 14,
                          1152, 16, 16, 0>>),
                    U64(<<602112, 2709504, 4608, 1179648, 602112, p.module.bytes>>),
                    Digest(p.module.sha), Reserved(4)>>)
  IN [magic |-> header.magic, size |-> header.size + nested.size,
      at |-> [o \in DOMAIN header.at \cup {192 + i : i \in DOMAIN nested.at} |->
                IF o < 192 THEN header.at[o] ELSE nested.at[o - 192]]]

(* FlashInfer's two delivered attentions; commits 1 and 2 are the pinned ones. *)
FlashShape == <<[mask |-> 1, q |-> 50, k |-> 1018, grid |-> 7, maskBytes |-> 50900],
                [mask |-> 2, q |-> 968, k |-> 968, grid |-> 121, maskBytes |-> 968]>>
FlashInferBytes(p) ==
  LET v == FlashShape[p.variant]
      query == v.q * 8 * 256 * 2
      key == v.k * 256 * 2
  IN Packed("AIFIAT1", 1, 0,
       <<U32(<<SM120, p.variant, 2, 2, 2, 4, v.mask, 1, 8, 1, v.q, v.k, 256, v.grid, 1, 1, 32, 4, 1,
               49152, HeadScale>>),
         U64(<<query, key, key, v.maskBytes, query>>), Commit(1), Commit(2), Reserved(16)>>)
=============================================================================
