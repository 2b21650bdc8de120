------------------------------- MODULE UidAlgo ------------------------------
(***************************************************************************)
(* algo/uidlist.go, algo/heap.go: lists of uids in increasing order.  A    *)
(* loop is a function of the variables it carries from turn to turn.       *)
(***************************************************************************)
EXTENDS GoSort, FiniteSets, SequencesExt, FiniteSetsExt

(* for ; k < len(l) && l[k] < uid; k++ : where the pointer comes to rest. *)
Advance(l, k, uid) == Min({i \in k..Len(l) : l[i] >= uid} \cup {Max({k, Len(l) + 1})})

(* IntersectWith: u cut down to what v has too, with one pass over both. *)
IntersectWith(u, v) ==
    LET from[i \in Nat, k \in Nat, out \in Seq(Nat)] ==
          IF i > Len(u) THEN out
          ELSE LET p == Advance(v, k, u[i])
               IN  from[i + 1, p, IF p <= Len(v) /\ v[p] = u[i] THEN Append(out, u[i]) ELSE out]
    IN  from[1, 1, <<>>]

(* IntersectSorted: the shortest list against pointers into all the others;
   the first list without the uid ends the search for it. *)
IntersectSorted(lists) ==
    LET n == Len(lists)
        short == Min({i \in 1..n : \A j \in 1..n : Len(lists[i]) <= Len(lists[j])})
        from[i \in Nat, j \in Nat, ptrs \in Seq(Nat), out \in Seq(Nat)] ==
          IF i > Len(lists[short]) THEN out
          ELSE IF j > n THEN from[i + 1, 1, ptrs, Append(out, lists[short][i])]
          ELSE IF j = short THEN from[i, j + 1, ptrs, out]
          ELSE LET p == Advance(lists[j], ptrs[j], lists[short][i])
                   skip == p > Len(lists[j]) \/ lists[j][p] > lists[short][i]
               IN  from[IF skip THEN i + 1 ELSE i, IF skip THEN 1 ELSE j + 1,
                        [ptrs EXCEPT ![j] = p], out]
    IN  IF n = 0 THEN <<>> ELSE from[1, 1, [j \in 1..n |-> 1], <<>>]

(* List.Uids with an intersection panics when the list has a uid behind the end
   of it, unless it is empty (see PostingSlices). *)
PastEnd(list, uids) == uids # <<>> /\ \E u \in list : u > Last(uids)

(* MergeSorted: a heap with the head of each list; the least head is put out
   unless it was the last one put out, and its list moves on or leaves. *)
\* Mutant: a uid of two lists is put out twice.
MergeTwice(lists) ==
    LET from[idx \in Seq(Nat), out \in Seq(Nat)] ==
          LET heap == {i \in DOMAIN lists : idx[i] <= Len(lists[i])}
              top == CHOOSE i \in heap : \A j \in heap : lists[i][idx[i]] <= lists[j][idx[j]]
          IN  IF heap = {} THEN out
              ELSE from[[idx EXCEPT ![top] = @ + 1], Append(out, lists[top][idx[top]])]
    IN  from[[i \in DOMAIN lists |-> 1], <<>>]

MergeSorted(lists) ==
    LET from[idx \in Seq(Nat), out \in Seq(Nat)] ==
          LET heap == {i \in DOMAIN lists : idx[i] <= Len(lists[i])}
              top == CHOOSE i \in heap : \A j \in heap : lists[i][idx[i]] <= lists[j][idx[j]]
              val == lists[top][idx[top]]
          IN  IF heap = {} THEN out
              ELSE from[[idx EXCEPT ![top] = @ + 1],
                        IF out = <<>> \/ Last(out) # val THEN Append(out, val) ELSE out]
    IN  from[[i \in DOMAIN lists |-> 1], <<>>]

(* IndexOf: one higher than in Go, 0 when the uid is not there. *)
IndexOf(l, uid) ==
    LET i == Search([k \in DOMAIN l |-> l[k] >= uid])
    IN  IF i <= Len(l) /\ l[i] = uid THEN i ELSE 0

(* ApplyFilter: what the marks keep. *)
ApplyFilter(l, keep) ==
    LET kept == SetToSortSeq({i \in DOMAIN l : keep[i]}, <)
    IN  [k \in DOMAIN kept |-> l[kept[k]]]
=============================================================================
