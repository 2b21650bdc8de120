----------------------------- MODULE MCListCache -----------------------------
(* Instances of ListCache for TLC. *)
EXTENDS ListCache, TLC

Symmetry ==
  Permutations(Ptrs) \cup Permutations(Clients) \cup Permutations(Mutations)
=============================================================================
