---------------------------- MODULE MCAimContainer ----------------------------
\* Instances for model checking.  A chunk is a number.  Kernels <<2>> are for the
\* first architecture and <<4>> for the second; plan <<1>> is for the first and
\* two chunks of weights, <<2>> for the first and one chunk, <<3>> for the second
\* and two.
EXTENDS AimContainer

MCOneVariant == <<[kernels |-> "k", weights |-> "w", plan |-> "p"]>>

\* Both architectures use one weights file, which is stored once.
MCTwoVariants == <<[kernels |-> "k", weights |-> "w", plan |-> "p"],
                   [kernels |-> "k2", weights |-> "w", plan |-> "p2"]>>

\* One writer, an edit and a crash, streaming.
MCEdited ==
  [writers |-> {"w1"}, variants |-> MCOneVariant, inMemory |-> FALSE, inodes |-> {1, 2, 3},
   contents |-> [k |-> {<<2>>, <<1>>}, w |-> {<<0, 1>>, <<1, 1>>, <<1>>}, p |-> {<<1>>, <<2>>}],
   maxEdits |-> 1, maxCrashes |-> 1, maxLoads |-> 0]

\* Two processes write the same destination.
MCTwoWriters ==
  [writers |-> {"w1", "w2"}, variants |-> MCOneVariant, inMemory |-> FALSE, inodes |-> 1..4,
   contents |-> [k |-> {<<2>>}, w |-> {<<1>>}, p |-> {<<2>>}],
   maxEdits |-> 0, maxCrashes |-> 0, maxLoads |-> 0]

\* A runtime maps what both ways of writing replace, beside a crash.
MCMapped ==
  [writers |-> {"w1"}, variants |-> MCOneVariant, inMemory |-> TRUE, inodes |-> 1..4,
   contents |-> [k |-> {<<2>>}, w |-> {<<0, 1>>}, p |-> {<<1>>}],
   maxEdits |-> 0, maxCrashes |-> 1, maxLoads |-> 1]

\* Both ways of writing two architectures that share their weights.
MCSharedMemory ==
  [writers |-> {"w1"}, variants |-> MCTwoVariants, inMemory |-> TRUE, inodes |-> {1, 2, 3},
   contents |-> [k |-> {<<2>>}, k2 |-> {<<4>>}, w |-> {<<0, 1>>}, p |-> {<<1>>}, p2 |-> {<<3>>}],
   maxEdits |-> 0, maxCrashes |-> 0, maxLoads |-> 0]

\* A section both variants share is edited while it is stored once.
MCShared ==
  [writers |-> {"w1"}, variants |-> MCTwoVariants, inMemory |-> FALSE, inodes |-> {1, 2, 3},
   contents |-> [k |-> {<<2>>}, k2 |-> {<<4>>}, w |-> {<<0, 1>>, <<1, 1>>, <<>>},
                 p |-> {<<1>>, <<2>>}, p2 |-> {<<3>>}],
   maxEdits |-> 2, maxCrashes |-> 0, maxLoads |-> 0]

\* The second architecture's kernels or plan may at first be a copy of the
\* first's, and be put right while the writer reads.
MCCopied ==
  [writers |-> {"w1"}, variants |-> MCTwoVariants, inMemory |-> FALSE, inodes |-> {1, 2, 3},
   contents |-> [k |-> {<<2>>}, k2 |-> {<<2>>, <<4>>}, w |-> {<<0, 1>>},
                 p |-> {<<1>>}, p2 |-> {<<1>>, <<3>>}],
   maxEdits |-> 1, maxCrashes |-> 0, maxLoads |-> 0]

MCScenarios == {MCEdited, MCTwoWriters, MCMapped, MCSharedMemory, MCShared, MCCopied}

MCChunks == 0..4

MCCubins == {<<1, 2>>, <<2, 4>>}

MCPlans == {<<1, <<1>>, 2>>, <<1, <<2>>, 1>>, <<2, <<3>>, 2>>}
===============================================================================
