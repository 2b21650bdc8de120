------------------------------ MODULE UidCalls ------------------------------
(***************************************************************************)
(* The functions of algo/uidlist.go, called with any lists of uids.        *)
(***************************************************************************)
EXTENDS UidAlgo

CONSTANTS UcUids, UcLists     \* uids, numbers; how many lists a call gets

VARIABLES ucArgs, ucOut       \* the lists; the results of the calls, <<>> before

ucVars == <<ucArgs, ucOut>>

Sorted(S) == SetToSortSeq(S, <)

Init ==
    /\ \E n \in 0..UcLists : ucArgs \in [1..n -> {Sorted(S) : S \in SUBSET UcUids}]
    /\ ucOut = <<>>

(* Every call of the package on the same arguments. *)
Next ==
    /\ ucOut = <<>>
    /\ ucOut' = <<[merge |-> MergeSorted(ucArgs),
                   intersect |-> IntersectSorted(ucArgs),
                   with |-> IF Len(ucArgs) < 2 THEN <<>> ELSE IntersectWith(ucArgs[1], ucArgs[2]),
                   index |-> IF ucArgs = <<>> THEN <<>> ELSE [u \in UcUids |-> IndexOf(ucArgs[1], u)],
                   filter |-> IF Len(ucArgs) < 2 THEN <<>>
                              ELSE ApplyFilter(ucArgs[1], [k \in DOMAIN ucArgs[1] |->
                                                              ucArgs[1][k] \in Range(ucArgs[2])])]>>
    /\ UNCHANGED ucArgs

(* The lists stand for sets: a merge is the union and an intersection the
   intersection of all lists, in increasing order and each uid once, though
   every function walks the lists with pointers that never turn back; IndexOf
   finds the place of a uid, or that it is not there. *)
UidListsAreSets ==
    ucOut # <<>> =>
        LET out == ucOut[1]
            sets == {Range(ucArgs[i]) : i \in DOMAIN ucArgs}
            both == Sorted(Range(ucArgs[1]) \cap Range(ucArgs[2]))
        IN  /\ out.merge = Sorted(UNION sets)
            /\ out.intersect = Sorted({u \in UcUids : sets # {} /\ \A s \in sets : u \in s})
            /\ Len(ucArgs) >= 2 => out.with = both /\ out.filter = both
            /\ ucArgs # <<>> => \A u \in UcUids :
                  IF u \in Range(ucArgs[1]) THEN ucArgs[1][out.index[u]] = u ELSE out.index[u] = 0
=============================================================================
