----------------------------- MODULE PostingSlices ----------------------------
(***************************************************************************)
(* The layers of a posting list as the slices they are (posting/list.go):  *)
(* binary searches, insertion and removal in place, the two-pointer merge  *)
(* of iterate and the scan of an intersection in Uids.                     *)
(*                                                                         *)
(* A list goes through mutations and commits.  The operators of            *)
(* PostingLayers are applied to the same layers as functions of the uid,   *)
(* next to the slices, and the two must stay the same thing.               *)
(***************************************************************************)
EXTENDS PostingLayers, UidAlgo

VARIABLES
  plist,    \* pl.Postings: a sequence of [uid, val]
  mlayer,   \* l.mlayer: a sequence of [uid, op, val]
  pl, ml    \* the layers as PostingLayers has them

vars == <<plist, mlayer, pl, ml>>

Init ==
  /\ plist = <<>>
  /\ mlayer = <<>>
  /\ pl = [u \in Uids |-> Absent]
  /\ ml = EmptyLayer

-----------------------------------------------------------------------------
Find(s, uid) == Search([i \in DOMAIN s |-> uid <= s[i].uid])

\* Mutant: the posting of afterUid itself is included.
StartAt(s, afterUid) == IF afterUid > 0 THEN Find(s, afterUid) ELSE 1

\* Where iterate and Length start.
StartAfter(s, afterUid) ==
  IF afterUid > 0 THEN Search([i \in DOMAIN s |-> afterUid < s[i].uid]) ELSE 1

Found(s, i, uid) == i <= Len(s) /\ s[i].uid = uid

-----------------------------------------------------------------------------
(* updateMutationLayer: the new mutation layer and the result *)

Post(u, op, v) == [uid |-> u, op |-> op, val |-> v]

Removed(i) == RemoveAt(mlayer, i)

\* The uid is at index i of the mutation layer.
UpdateFound(i, u, op, v) ==
  LET old == mlayer[i]
      same == old.val = v
  IN  IF same /\ (op = "Del") = (old.op = "Del") THEN <<mlayer, FALSE>>
      ELSE IF ~same /\ op = "Del" THEN <<mlayer, FALSE>>
      ELSE IF old.op = "Add" /\ op = "Del" THEN <<Removed(i), TRUE>>
      ELSE <<[mlayer EXCEPT ![i] = Post(u, IF old.op = "Add" THEN "Add" ELSE op, v)], TRUE>>

\* Mutant: the posting is put at the end.
InsertedLast(i, p) == Append(mlayer, p)

Inserted(i, p) == InsertAt(mlayer, i, p)

\* It is not: i is where it would be.
UpdateMissing(i, u, op, v) ==
  LET j == Find(plist, u)
      uidFound == Found(plist, j, u)
      psame == uidFound /\ plist[j].val = v
  IN  IF (op = "Set" /\ psame) \/ (op = "Del" /\ ~psame) THEN <<mlayer, FALSE>>
      ELSE <<Inserted(i, Post(u, IF op = "Set" /\ ~uidFound THEN "Add" ELSE op, v)), TRUE>>

updateMutationLayer(u, op, v) ==
  LET i == Find(mlayer, u)
  IN  IF Found(mlayer, i, u) THEN UpdateFound(i, u, op, v) ELSE UpdateMissing(i, u, op, v)

-----------------------------------------------------------------------------
(* Reads *)

Kept(mp) == IF mp.op = "Del" THEN <<>> ELSE <<[uid |-> mp.uid, val |-> mp.val]>>

\* The postings that iterate passes to its callback.
iterate(afterUid) ==
  LET P == Len(plist)
      M == Len(mlayer)
      from[p \in 1..P + 1, m \in 1..M + 1] ==
        IF p > P /\ m > M THEN <<>>
        ELSE IF m > M \/ (p <= P /\ plist[p].uid < mlayer[m].uid)
             THEN <<plist[p]>> \o from[p + 1, m]
        ELSE IF p > P \/ mlayer[m].uid < plist[p].uid
             THEN Kept(mlayer[m]) \o from[p, m + 1]
        ELSE Kept(mlayer[m]) \o from[p + 1, m + 1]
  IN  from[StartAfter(plist, afterUid), StartAfter(mlayer, afterUid)]

Length(afterUid) ==
  LET tail == SubSeq(mlayer, StartAfter(mlayer, afterUid), Len(mlayer))
  IN  Len(plist) + 1 - StartAfter(plist, afterUid)
        + Len(SelectSeq(tail, LAMBDA p : p.op = "Add"))
        - Len(SelectSeq(tail, LAMBDA p : p.op = "Del"))

\* Mutant: an equal uid is skipped, too.
AdvancePast(uids, i, uid) ==
  CHOOSE j \in i..Len(uids) + 1 :
    /\ \A k \in i..j - 1 : uids[k] <= uid
    /\ j <= Len(uids) => uids[j] > uid

\* The first index from i on that is not below uid.
AdvanceTo(uids, i, uid) ==
  CHOOSE j \in i..Len(uids) + 1 :
    /\ \A k \in i..j - 1 : uids[k] < uid
    /\ j <= Len(uids) => uids[j] >= uid

\* task.List.Size: the bytes of the encoded list, of at least 8 for each uid.
Size(uids) == IF uids = <<>> THEN 0 ELSE 2 + 8 * Len(uids)

\* The callback of Uids, with intersectIdx and the result as its state.  Absent
\* is the nil intersection.  The scan stops at the end of the intersection, but
\* the test that follows compares with its Size: an index behind the end is
\* used, and panics.
UidsCallback(acc, p, uids) ==
  IF acc.panic \/ p.uid = MaxUid THEN acc
  ELSE IF uids = Absent THEN [acc EXCEPT !.out = Append(@, p.uid)]
  ELSE LET i == AdvanceTo(uids, acc.idx, p.uid)
       IN  IF i > Size(uids) THEN [acc EXCEPT !.idx = i]
           ELSE IF i > Len(uids) THEN [idx |-> i, out |-> <<>>, panic |-> TRUE]
           ELSE [idx |-> i, panic |-> FALSE,
                 out |-> IF uids[i] > p.uid THEN acc.out ELSE Append(acc.out, p.uid)]

UidsOver(it, uids) ==
  LET from[k \in Nat, acc \in [idx : Nat, out : Seq(Uids), panic : BOOLEAN]] ==
        IF k > Len(it) THEN [out |-> acc.out, panic |-> acc.panic]
        ELSE from[k + 1, UidsCallback(acc, it[k], uids)]
  IN  from[1, [idx |-> 1, out |-> <<>>, panic |-> FALSE]]

UidsOf(afterUid, uids) == UidsOver(iterate(afterUid), uids)

ValueOf ==
  LET it == iterate(MaxUid - 1)
  IN  IF it = <<>> THEN Absent ELSE it[1].val

-----------------------------------------------------------------------------
AddMutation ==
  \E u \in Uids, op \in Ops, v \in Vals :
    /\ mlayer' = updateMutationLayer(u, op, v)[1]
    /\ ml' = UpdateMutationLayer(pl, ml, u, op, v)
    /\ UNCHANGED <<plist, pl>>

commit ==
  /\ mlayer # <<>>
  /\ plist' = iterate(0)
  /\ mlayer' = <<>>
  /\ pl' = Merged(pl, ml)
  /\ ml' = EmptyLayer

Next == AddMutation \/ commit

Spec == Init /\ [][Next]_vars

-----------------------------------------------------------------------------
(* Properties *)

\* The slices hold postings only: no operation leaves a hole in them.
TypeOK ==
  /\ plist \in Seq([uid : Uids, val : Vals])
  /\ mlayer \in Seq([uid : Uids, op : {"Set", "Del", "Add"}, val : Vals])
  /\ pl \in Contents /\ ml \in Layers

Sorted(s) == \A i \in 1..Len(s) - 1 : s[i].uid < s[i + 1].uid

\* The postings of a slice, as a function of the uid.
AsFunction(s, none) ==
  [u \in Uids |-> IF \E i \in DOMAIN s : s[i].uid = u
                  THEN s[CHOOSE i \in DOMAIN s : s[i].uid = u] ELSE none]

\* The slices are sorted by a unique uid, whatever the order of the mutations,
\* and hold the layers that PostingLayers computes; every call of
\* updateMutationLayer reports a change when HasMutated defines one.
SlicesAreLayers ==
  /\ TypeOK
  /\ Sorted(plist) /\ Sorted(mlayer)
  /\ \A u \in Uids :
       LET p == AsFunction(plist, [uid |-> u, val |-> Absent])[u]
           m == AsFunction(mlayer, [uid |-> u] @@ NoMut)[u]
       IN  pl[u] = p.val /\ ml[u] = Mut(m.op, m.val)
  /\ \A u \in Uids, op \in Ops, v \in Vals :
       updateMutationLayer(u, op, v)[2] = HasMutated(pl, ml, u, op, v)

\* The merge of iterate visits the postings of the merged layers in the order
\* of their uids, from any starting point, and Length counts as defined.
IterationIsMerge ==
  \A a \in Uids \cup {0} :
    LET it == iterate(a)
        c == Merged(pl, ml)
    IN  /\ Sorted(it)
        /\ {it[i].uid : i \in DOMAIN it} = After(Present(c), a)
        /\ \A i \in DOMAIN it : it[i].val = c[it[i].uid]
        /\ Length(a) = LengthOf(pl, ml, a)

\* Value, and Uids without an intersection, return what their definitions say.
\* With one, Uids loses nothing of it and adds nothing to it, from any starting
\* point; it panics, and returns nothing, exactly when the list goes on behind
\* the end of an intersection that is not empty.
ReadsAreDefined ==
  LET c == Merged(pl, ml)
      uids == SelectSeq([i \in 1..MaxUid |-> i], LAMBDA u : u \in Uids)
      lists == {SelectSeq(uids, LAMBDA u : u \in S) : S \in SUBSET Uids}
  IN  /\ ValueOf = ValueIn(c)
      /\ \A a \in Uids \cup {0} :
           LET it == iterate(a)
               all == UidsIn(c, a, Uids)
           IN  /\ UidsOf(a, Absent).out = SelectSeq(uids, LAMBDA u : u \in all)
               /\ \A s \in lists :
                    UidsOver(it, s) =
                      [out |-> IF PastEnd(all, s) THEN <<>> ELSE SelectSeq(s, LAMBDA u : u \in all),
                       panic |-> PastEnd(all, s)]

\* ListOptions: "Intersect results with this list of UIDs."  Whatever the list
\* and the intersection, Uids returns the uids they share.
IntersectsResults ==
  LET all == UidsIn(Merged(pl, ml), 0, Uids)
      uids == SelectSeq([i \in 1..MaxUid |-> i], LAMBDA u : u \in Uids)
  IN  \A S \in SUBSET Uids :
        LET s == SelectSeq(uids, LAMBDA u : u \in S)
        IN  UidsOf(0, s).out = SelectSeq(s, LAMBDA u : u \in all)
=============================================================================
