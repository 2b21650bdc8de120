------------------------- MODULE MembershipConstants -------------------------
(* The servers of Membership and what is assumed of them. *)
EXTENDS Integers

CONSTANTS
  Zeros,       \* servers of group zero
  Founders,    \* those of them that have been there from the start
  Others,
  MaxLog,      \* bound on the proposals to group zero
  NoServer

ASSUME MembershipAssumption ==
  /\ Founders \subseteq Zeros /\ Founders # {}
  /\ Zeros \cap Others = {}
  /\ NoServer \notin Zeros \cup Others
  /\ MaxLog \in Nat
=============================================================================
