--------------------------- MODULE MCPaidGeneration ---------------------------
(* PaidGeneration with symmetric callers, keys and sessions. *)
EXTENDS PaidGeneration, TLC

Symmetry == Permutations(Callers) \cup Permutations(Keys) \cup Permutations(Sessions)
==============================================================================
