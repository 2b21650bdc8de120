---------------------------- MODULE WalConstants ----------------------------
(* The bounds of RaftWal and what is assumed of them. *)
EXTENDS Integers

CONSTANTS
  MaxTerm, MaxIndex,     \* bounds on terms and on the length of the log
  Candidates,            \* whom a vote can go to
  NoVote,
  HigherTermConflicts    \* whether the end of the log may be replaced by entries
                         \* that end in the term of a replaced one or a later term

ASSUME WalAssumption ==
  /\ MaxTerm \in Nat /\ MaxIndex \in Nat
  /\ NoVote \notin Candidates
  /\ HigherTermConflicts \in BOOLEAN
=============================================================================
