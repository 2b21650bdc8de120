---------------------------- MODULE MCPostingList ----------------------------
(* Instances of PostingList for TLC. *)
EXTENDS PostingList, TLC

Symmetry == Permutations(Clients) \cup Permutations(Vals)
=============================================================================
