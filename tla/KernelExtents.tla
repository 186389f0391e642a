---------------------------- MODULE KernelExtents ----------------------------
(***************************************************************************)
(* How far into each operand the kernels of src/kernels reach when the     *)
(* runtime launches them: the grid is the one Prepare takes from the       *)
(* payload or computes, the guard and the strides are the kernel's.  An    *)
(* extent is the number of leading bytes of an operand that the launch     *)
(* touches; all of those kernels write an output densely from its start.   *)
(***************************************************************************)
EXTENDS PayloadParsers

Lesser(a, b) == IF a < b THEN a ELSE b
Blocks(threads, block) == (threads + block - 1) \div block
(* One element for each thread below a guard; all elements, when threads   *)
(* stride over them by the size of the grid.                               *)
Guarded(grid, elements) == Lesser(grid * 256, elements)
Strided(grid, elements) == IF grid > 0 THEN elements ELSE 0

RmsNormExtent(b) ==
  LET width == IF b.at[16] = 1 THEN 1024 ELSE 2048
      tensor == b.at[48] * width * (IF b.at[16] = 1 THEN 4 ELSE 2)   \* a row for each block
  IN <<tensor, 4 * width, tensor>>
LayerNormExtent(b) ==
  LET tensor == b.at[40] * 1152 * 4 IN <<tensor, 1152 * 4, 1152 * 4, tensor>>
TimeEmbeddingExtent(b) == <<4, 2 * Guarded(b.at[36], 512) * 4>>
(* Thread i copies column i % 7 of row i \div 7, out of rows of 32.        *)
ActionSliceExtent(b) ==
  LET last == Guarded(b.at[44], 350) - 1
  IN <<(((last \div 7) * 32) + (last % 7) + 1) * 4, (last + 1) * 4>>
AdaptiveRmsNormExtent(grid) ==
  LET tensor == Lesser(grid, 50) * 1024 * 2 IN [tensor |-> tensor, modulation |-> 3072 * 4]
(* One block for each query token and head.                                *)
VisionAttentionExtent(b) ==
  LET query == b.at[64] * b.at[68] * 72 * 4
      key == 256 * 16 * 72 * 4
  IN <<query, key, key, 1, query>>
SuffixMetadataExtent(b) ==
  <<968, Strided(b.at[60], 50 * 1018), Lesser(b.at[64], 50) * 4>>
PrefixInputExtent(b) ==
  LET image == 256 * 2048 * 4
      tokens == 3 * 256 + 200
  IN <<image, image, image, 257152 * 2048 * 2, 200 * 4, 1, 1, 1, 200,
       Guarded(b.at[52], tokens * 2048) * 4, tokens, tokens * 4>>
(* The first half of the threads copies keys, the second half values.      *)
PrefixKvStoreExtent(b) ==
  LET vectors == (968 * 256) \div 8
      threads == Guarded(b.at[56], 2 * vectors)
      key == 16 * Lesser(threads, vectors)
      value == 16 * (threads - Lesser(threads, vectors))
  IN <<key, value, key, value>>
RopeExtent(b) ==
  LET sequence == IF b.at[16] <= 2 THEN 968 ELSE 50
      heads == IF b.at[16] \in {1, 3} THEN 8 ELSE 1
      tensor == 2 * Guarded(b.at[60], sequence * heads * 128) * 2     \* pairs
  IN <<tensor, sequence * 4, tensor>>
KvPackExtent(b) ==
  LET prefix == Strided(b.at[64], (968 * 256) \div 8) * 16
      current == Strided(b.at[64], (50 * 256) \div 8) * 16
  IN <<prefix, prefix, current, current, prefix + current, prefix + current>>
FlashInferExtent(b) ==
  LET query == b.at[52] * 8 * 256 * 2
      key == b.at[56] * 256 * 2
  IN <<query, key, key, IF b.at[36] = 1 THEN b.at[52] * b.at[56] ELSE b.at[56], query>>

CudaKernelExtent(b) ==
  LET elements == Strided(b.at[36], b.at[48])
      in == elements * ScalarBytes[b.at[24]]
      out == elements * ScalarBytes[b.at[28]]
  IN IF LaunchAbi(b.at[20]) = 2 THEN <<in, in, out>> ELSE <<in, out>>
\* Fault: tall tiles are launched on a kernel that does not stride rows.
GeluMulExtentUnstrided(b) ==
  LET numel == b.at[16]
      width == b.at[64]
      columns == Blocks(width, 256)
      tiled == Lesser(numel \div width, 4096 \div columns) * Guarded(columns, width)
      done == IF b.magic = "AIGMT1" THEN tiled ELSE Strided(Lesser(Blocks(numel, 256), 4096), numel)
  IN IF b.magic = "AIGMU1" THEN <<2 * done, 2 * done, 2 * done>> ELSE <<4 * done, 2 * done>>
(* PrepareGeluMul: tiles cover the columns with blocks and stride rows.    *)
GeluMulExtent(b) ==
  LET numel == b.at[16]
      width == b.at[64]
      rows == numel \div width
      columns == Blocks(width, 256)
      tall == IF rows <= 128 THEN rows ELSE Lesser(rows, 4096 \div columns)
      tiled == (IF rows <= 128 THEN tall ELSE Strided(tall, rows)) * Guarded(columns, width)
      done == IF b.magic = "AIGMT1" THEN tiled ELSE Strided(Lesser(Blocks(numel, 256), 4096), numel)
  IN IF b.magic = "AIGMU1" THEN <<2 * done, 2 * done, 2 * done>> ELSE <<4 * done, 2 * done>>
RoundedMulAddExtent(b) ==
  LET done == 2 * Strided(Lesser(Blocks(b.at[16], 256), 4096), b.at[16]) IN <<done, done, done, done>>
CompactGateExtent(b) ==
  LET residual == 2 * Guarded(200, 51200)
      norm == AdaptiveRmsNormExtent(50)
  IN CASE b.magic = "AIGRD1" -> <<residual, norm.modulation, residual, residual>>
       [] b.magic = "AIANG1" -> <<norm.tensor, norm.modulation, norm.tensor>>
       [] b.magic = "AIGRN1" ->
            <<norm.tensor, norm.modulation, norm.tensor, norm.modulation, norm.tensor, norm.tensor>>
(* 200 blocks turn the queries, 25 the keys, 242 copy the prefix, 7 append *)
(* the new values; a vector is eight elements of sixteen bytes.            *)
QkvRopePackExtent ==
  LET grid == 474
      query == 2 * 2 * Guarded(Lesser(grid, 200), 50 * 8 * 128)
      key == 2 * 2 * Guarded(Lesser(grid - 200, 25), 50 * 128)
      copied == 16 * Guarded(Lesser(grid - 225, 242), 2 * ((968 * 256) \div 8))
      value == 16 * Guarded(grid - 467, 50 * 32)
  IN <<query + key + value, 50 * 4, copied \div 2, copied \div 2,
       query, (copied \div 2) + key, (copied \div 2) + value>>
ProjectionSplitExtent(b) ==
  LET rows == b.at[16]
      width(i) == b.at[16 + (4 * i)] \div 8
      all == width(1) + width(2) + width(3)
      done == Guarded(Blocks(rows * all, 256), rows * all) \div all
  IN IF b.magic = "AIQRP1" THEN QkvRopePackExtent
     ELSE <<16 * done * all, 16 * done * width(1), 16 * done * width(2), 16 * done * width(3)>>
(* Writes start at the offset, and leave the rest of the cache alone.      *)
StateUpdateExtent(b) ==
  LET vectors == b.at[24] \div 8
      threads == Guarded(Blocks(2 * vectors, 256), 2 * vectors)
      first == 16 * Lesser(threads, vectors)
      second == 16 * (threads - Lesser(threads, vectors))
  IN <<first, second, (2 * b.at[32]) + first, (2 * b.at[32]) + second>>
(* The library's products read and write whole matrices; between them a    *)
(* softmax runs over the rows of the scores, some in each block.           *)
RoundedAttentionExtent(b) ==
  LET variant == b.at[16]
      d == AttentionDims(variant)
      query == d[1] * d[3] * d[5] * AttentionScalar(variant)
      key == d[2] * d[4] * d[5] * AttentionScalar(variant)
  IN <<query, key, key, CASE variant = 1 -> d[1] * d[2] [] variant = 2 -> d[2] [] OTHER -> 1, query>>
SoftmaxBytes(b) ==
  LET variant == b.at[16]
      d == AttentionDims(variant)
      warps == IF b.magic = "AIRAT3" THEN 4 ELSE 1
      rows == Lesser(Blocks(d[1] * d[3], warps) * warps, d[1] * d[3])
      row == IF variant >= 3 THEN 8 * 32 ELSE Lesser(32 * 32, d[2])
  IN rows * row * AttentionScalar(variant)
CublasLtLinearExtent(b, base) ==
  LET scalar == IF b.at[base + 24] = 1 THEN 4 ELSE 2
      m == b.at[base + 68]
      n == b.at[base + 76]
      k == b.at[base + 84]
  IN <<m * k * scalar, n * k * scalar, n * scalar, m * n * scalar>>
(* The kernel lays the patches out in the workspace, whence the product    *)
(* takes them; its own scratch lies behind them.                           *)
PatchProjectionExtent(b) ==
  LET product == CublasLtLinearExtent(b, 192)
      patches == Lesser(b.at[24], 256) * 588 * 4
  IN [operands |-> <<patches, product[2], product[3], product[4]>>,
      patches |-> patches, read |-> product[1]]

Extents(b) ==
  CASE b.magic = "AIRMS1" -> RmsNormExtent(b)
    [] b.magic = "AILNR1" -> LayerNormExtent(b)
    [] b.magic = "AITEM1" -> TimeEmbeddingExtent(b)
    [] b.magic = "AISLC1" -> ActionSliceExtent(b)
    [] b.magic = "AIARM1" -> LET norm == AdaptiveRmsNormExtent(b.at[60])
                             IN <<norm.tensor, norm.modulation, norm.tensor, norm.tensor>>
    [] b.magic = "AIVAT1" -> VisionAttentionExtent(b)
    [] b.magic = "AISMD1" -> SuffixMetadataExtent(b)
    [] b.magic = "AIPIA1" -> PrefixInputExtent(b)
    [] b.magic = "AIKVS1" -> PrefixKvStoreExtent(b)
    [] b.magic = "AIROP1" -> RopeExtent(b)
    [] b.magic = "AIKVP1" -> KvPackExtent(b)
    [] b.magic = "AIFIAT1" -> FlashInferExtent(b)
    [] b.magic = "AICUKR1" -> CudaKernelExtent(b)
    [] b.magic \in {"AIGMU1", "AIGMP1", "AIGMT1"} -> GeluMulExtent(b)
    [] b.magic = "AIMAD1" -> RoundedMulAddExtent(b)
    [] b.magic \in {"AIANG1", "AIGRD1", "AIGRN1"} -> CompactGateExtent(b)
    [] b.magic \in {"AIPSP1", "AIQRP1"} -> ProjectionSplitExtent(b)
    [] b.magic = "AISTU1" -> StateUpdateExtent(b)
    [] b.magic \in {"AIRAT1", "AIRAT2", "AIRAT3"} -> RoundedAttentionExtent(b)
    [] b.magic = "AILTMM1" -> CublasLtLinearExtent(b, 0)
    [] b.magic = "AIPPA1" -> PatchProjectionExtent(b).operands

(* The scratch a command writes, and the part of it that it reads back.    *)
ScratchExtent(b) ==
  CASE b.magic \in {"AIRAT2", "AIRAT3"} -> [written |-> SoftmaxBytes(b), read |-> ScoreBytes(b.at[16])]
    [] b.magic = "AIPPA1" -> LET e == PatchProjectionExtent(b)
                             IN [written |-> e.patches, read |-> e.read]
    [] OTHER -> [written |-> 0, read |-> 0]
=============================================================================
