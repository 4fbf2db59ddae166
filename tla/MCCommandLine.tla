--------------------------- MODULE MCCommandLine ---------------------------
(* Two programs at a time; programs, like URLs, are alike.                 *)
EXTENDS CommandLine, TLC

\* Up to two URLs, not the same one twice.
SmallBatches ==
  {<<>>} \cup {<<u>> : u \in Url} \cup ({<<u, v>> : u, v \in Url} \ {<<u, u>> : u \in Url})

Symmetry == Permutations(Prog) \cup Permutations(Url)
=============================================================================
