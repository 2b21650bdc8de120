---------------------------- MODULE PostingLayers ----------------------------
(***************************************************************************)
(* The two layers of a posting list (posting/list.go) and the pure         *)
(* operations on them.  The immutable layer is the list persisted in       *)
(* RocksDB; the mutation layer (mlayer) holds the mutations that have not  *)
(* been merged into it.                                                    *)
(*                                                                         *)
(* Both layers are slices of postings kept sorted by a unique uid, so they *)
(* are modelled as functions of the uid.  (The slices themselves, the      *)
(* binary searches and the two-pointer merge are in PostingSlices, which   *)
(* is checked to implement the operators of this module.)  The value, the  *)
(* value type and the label of a posting only ever matter through          *)
(* samePosting, which compares all three: together they are one element of *)
(* Vals, the content of the posting.                                       *)
(***************************************************************************)
EXTENDS Integers, FiniteSets

CONSTANTS
  Uids,     \* the uids a posting may have; math.MaxUint64 is MaxUid
  MaxUid,   \* the uid shared by all edges that carry a value
  Vals,     \* contents of a posting
  Absent    \* "no posting with this uid"

ASSUME LayersAssumption ==
  /\ Uids \subseteq Nat \ {0}
  /\ IsFiniteSet(Uids)
  /\ MaxUid \in Uids
  /\ \A u \in Uids : u <= MaxUid
  /\ Absent \notin Vals

-----------------------------------------------------------------------------
Contents == [Uids -> Vals \cup {Absent}]

\* The operations a caller may pass; Add is only ever produced internally.
Ops == {"Set", "Del"}

\* An entry of mlayer; NoMut stands for "this uid is not in mlayer".
NoMut == [op |-> "None", val |-> Absent]
Mut(op, v) == [op |-> op, val |-> v]
Muts == [op : {"Set", "Del", "Add"}, val : Vals]
Layers == [Uids -> Muts \cup {NoMut}]

EmptyLayer == [u \in Uids |-> NoMut]

(***************************************************************************)
(* A directed edge as AddMutation receives it: an edge with a value is     *)
(* stored under MaxUid whatever its ValueId, an edge to another entity     *)
(* under the uid of that entity, which must not be zero.                   *)
(***************************************************************************)
Edges == [valueId : Uids \cup {0}, hasValue : BOOLEAN, val : Vals]
ValueId(e) == IF e.hasValue THEN MaxUid ELSE e.valueId

-----------------------------------------------------------------------------
(* updateMutationLayer, case 1: the uid is in mlayer. *)

\* Mutant: the new posting is stored with the caller's operation.
ReplaceOpForgetsAdd(old, op) == op

\* A Set that follows an Add stays an Add.
ReplaceOp(old, op) == IF old.op = "Add" THEN "Add" ELSE op

IgnoredByMlayer(old, op, v) ==
  \/ old.val = v /\ (op = "Del" <=> old.op = "Del")
  \/ old.val # v /\ op = "Del"

\* A Del that follows an Add removes the entry.
UndoesAdd(old, op) == old.op = "Add" /\ op = "Del"

UpdateInMlayer(ml, u, op, v) ==
  IF IgnoredByMlayer(ml[u], op, v)
  THEN ml
  ELSE [ml EXCEPT ![u] = IF UndoesAdd(ml[u], op) THEN NoMut
                         ELSE Mut(ReplaceOp(ml[u], op), v)]

(* updateMutationLayer, case 2: it is not, and the immutable layer decides. *)

IgnoredByImmutable(p, op, v) ==
  \/ op = "Set" /\ p = v
  \/ op = "Del" /\ p # v

UpdateOverImmutable(pl, ml, u, op, v) ==
  IF IgnoredByImmutable(pl[u], op, v)
  THEN ml
  ELSE [ml EXCEPT ![u] =
          Mut(IF op = "Set" /\ pl[u] = Absent THEN "Add" ELSE op, v)]

\* The mutation layer after updateMutationLayer, and its result.
UpdateMutationLayer(pl, ml, u, op, v) ==
  IF ml[u] # NoMut
  THEN UpdateInMlayer(ml, u, op, v)
  ELSE UpdateOverImmutable(pl, ml, u, op, v)

HasMutated(pl, ml, u, op, v) ==
  IF ml[u] # NoMut
  THEN ~IgnoredByMlayer(ml[u], op, v)
  ELSE ~IgnoredByImmutable(pl[u], op, v)

-----------------------------------------------------------------------------
\* What iterate passes to its callback for one uid, and for all of them:
\* mlayer over the immutable layer.
Over(m, p) == IF m = NoMut THEN p ELSE IF m.op = "Del" THEN Absent ELSE m.val
Merged(pl, ml) == [u \in Uids |-> Over(ml[u], pl[u])]

Present(c) == {u \in Uids : c[u] # Absent}
After(S, afterUid) == {u \in S : u > afterUid}
WithOp(ml, op) == {u \in Uids : ml[u].op = op}

\* Length: the size of the immutable layer, +1 for an Add, -1 for a Del.
LengthOf(pl, ml, afterUid) ==
  Cardinality(After(Present(pl), afterUid))
    + Cardinality(After(WithOp(ml, "Add"), afterUid))
    - Cardinality(After(WithOp(ml, "Del"), afterUid))

\* Value and Uids: the two ways a list is read.
ValueIn(c) == c[MaxUid]
UidsIn(c, afterUid, intersect) ==
  After(Present(c) \ {MaxUid}, afterUid) \cap intersect

-----------------------------------------------------------------------------
\* What AddMutation promises: a Set overwrites, a Del removes the posting if
\* its content is the given one.
Apply(c, u, op, v) ==
  IF op = "Del" /\ c[u] # v THEN c
  ELSE [c EXCEPT ![u] = IF op = "Set" THEN v ELSE Absent]

(***************************************************************************)
(* How the two layers fit together: an Add is for a uid that is not in the *)
(* immutable layer, a Set or a Del for one that is.  Length is the number  *)
(* of postings only because of this.                                       *)
(***************************************************************************)
LayersFit(pl, ml) ==
  \A u \in Uids : ml[u] # NoMut => (ml[u].op = "Add" <=> pl[u] = Absent)
=============================================================================
