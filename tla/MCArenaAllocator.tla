-------------------------- MODULE MCArenaAllocator --------------------------
(* Every workload of NumValues values over a short schedule. *)
EXTENDS ArenaAllocator

CONSTANTS
  NumValues,  \* values in a workload
  LastStep,   \* the last schedule index
  Units       \* block sizes, in multiples of the alignment

MCIntervals ==
  {i \in [start : 0..LastStep, end : 0..LastStep, units : Units] : i.start <= i.end}

MCWorkloads ==
  {{[start |-> w[v].start, id |-> v, end |-> w[v].end, size |-> w[v].units * Alignment]
      : v \in 1..NumValues} : w \in [1..NumValues -> MCIntervals]}
=============================================================================
