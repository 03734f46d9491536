-------------------------- MODULE MCAccountDeletion --------------------------
(* AccountDeletion with symmetric accounts and writers. *)
EXTENDS AccountDeletion, TLC

Symmetry == Permutations(Actors) \cup Permutations(Writers)
==============================================================================
