-------------------------- MODULE MCCommandPayloads --------------------------
(* Every form of payload: all variants of the fixed kernels and, of the     *)
(* sized ones, sizes at the edges of blocks, grids and limits.              *)
EXTENDS CommandPayloads

Cubin == [bytes |-> 7000, sha |-> 77]

Algorithm == <<21, 20, 1, 0, 0, 5, 6, 7, 8>>
OtherAlgorithm == <<31, 30, 2, 1, 1, 6, 7, 8, 9>>
Linear(arch, dtype, m, n, k, mode, workspace) ==
  [form |-> "AILTMM1", arch |-> arch, dtype |-> dtype, m |-> m, n |-> n, k |-> k, mode |-> mode,
   version |-> 130, workspace |-> workspace, algorithm |-> Algorithm,
   aligns |-> <<16, 16, 4, 16, 256>>]
Rounded(variant, version, warps) ==
  [form |-> IF version = 0 THEN "AIRAT1" ELSE IF warps = 4 THEN "AIRAT3" ELSE "AIRAT2",
   variant |-> variant, module |-> Cubin, version |-> version, warps |-> warps,
   qk |-> IF version = 0 THEN <<>> ELSE Algorithm, pv |-> IF version = 0 THEN <<>> ELSE OtherAlgorithm]
GeluMul(form, numel, width) == [form |-> form, numel |-> numel, width |-> width, module |-> Cubin]
Split(form, rows, widths) == [form |-> form, rows |-> rows, widths |-> widths, module |-> Cubin]
StateUpdate(total, count, offset) ==
  [form |-> "AISTU1", total |-> total, count |-> count, offset |-> offset, module |-> Cubin]

MCProblems ==
  {[form |-> f, module |-> Cubin] : f \in {"AILNR1", "AITEM1", "AISLC1", "AIARM1", "AIVAT1", "AISMD1",
                                           "AIPIA1", "AIKVS1", "AIKVP1"}}
  \cup {[form |-> "AIRMS1", variant |-> v, module |-> Cubin] : v \in 1..2}
  \cup {[form |-> "AIROP1", variant |-> v, module |-> Cubin] : v \in 1..4}
  \cup {[form |-> "AIFIAT1", variant |-> v] : v \in 1..2}
  \cup {CudaKernelFor(a, k, n, Cubin) : a \in {89, 120}, k \in 1..8, n \in {257, 65535 * 256 + 1}}
  \cup {CudaKernelFor(120, s[1], s[2], Cubin) : s \in ActivationSizes}
  \cup {GeluMul("AIGMU1", 5 * 256 + 1, 0), GeluMul("AIGMU1", 2 ^ 26, 0), GeluMul("AIGMP1", 600, 200),
        GeluMul("AIGMT1", 3 * 300, 300), GeluMul("AIGMT1", 129 * 32768, 32768),
        GeluMul("AIGMT1", 2048 * 513, 513)}
  \cup {[form |-> "AIMAD1", numel |-> n, module |-> Cubin] : n \in {1, 51200, 2 ^ 26}}
  \cup {[form |-> f, numel |-> 51200, module |-> Cubin] : f \in CompactGateForms}
  \cup {Split("AIPSP1", 1, <<8, 8, 8>>), Split("AIPSP1", 50, <<2048, 256, 256>>),
        Split("AIPSP1", 128, <<32768, 16384, 16384>>), Split("AIQRP1", 50, <<2048, 256, 256>>)}
  \cup {StateUpdate(16, 8, 8), StateUpdate(4096, 2048, 1024), StateUpdate(8, 8, 0)}
  \cup {Rounded(v, 0, 1) : v \in 1..2} \cup {Rounded(v, 130, 1) : v \in 1..4}
  \cup {Rounded(v, 130, 4) : v \in 1..2}
  \cup {Linear(120, 1, 50, 1024, 32, 1, 0), Linear(120, 1, 256, 1152, 588, 2, 4096),
        Linear(89, 2, 968, 2048, 16, 1, 256), Linear(110, 1, 1, 1, 1, 1, 0)}
  \cup {[form |-> "AIPPA1", module |-> Cubin, linear |-> Linear(120, 1, 256, 1152, 588, mode, w)] :
          mode \in {1, 2}, w \in {0, 4096}}

MCValues(v) == (0..4) \cup {v - 1, v + 1, 8, 89, 256, 65536}
=============================================================================
