----------------------------- MODULE SortBuckets ----------------------------
(***************************************************************************)
(* worker/sort.go, with TokensTable of posting/index.go, the index tokens  *)
(* of types/index.go and Scalar.Sort of types/sort.go: lists of uids are   *)
(* ordered by the value of an indexed attribute, one bucket (a token of    *)
(* the index) after the other, while mutations change values and add       *)
(* buckets: between two buckets, between the lists of a bucket, and after  *)
(* the uids of a bucket were read and before their values are.             *)
(***************************************************************************)
EXTENDS UidAlgo

CONSTANTS
    SbUids,       \* uids, numbers
    SbValues,     \* values, integers
    PerBucket,    \* a token stands for this many values (1 for ints)
    TokenMod,     \* tokens are unsigned numbers below this (2^32)
    SbLists,      \* the UidMatrix of a request: a set of sequences of lists
    SbOffsets, SbCounts

VARIABLES
    sbVal,        \* uid -> its value, or Gone
    index,        \* token -> the uids in its posting list
    table,        \* TokensTable.key
    sbReq,        \* [lists, offset, count]
    token,        \* the bucket the loop is at, "" before and after
    sbI,          \* the list of the UidMatrix that intersectBucket is at
    result,       \* its uids in the bucket, to be sorted
    ilists,       \* per list: [offset, ulist]
    sbCall,       \* "idle", "buckets", "done" or "panic"
    sbMut         \* the one concurrent mutation: [uid, old, new, at]

sbVars == <<sbVal, index, table, sbReq, token, sbI, result, ilists, sbCall, sbMut>>

NoToken == -1
Gone == Max(SbValues) + 1      \* no value
Tokens == 0..(TokenMod - 1)

(* IntIndex, FloatIndex, DateIndex, TimeIndex: int32(v), which cuts towards
   zero, in big-endian bytes: these compare as unsigned numbers. *)
cut(v) == IF v >= 0 THEN v \div PerBucket ELSE -((-v) \div PerBucket)
tokenOf(v) == cut(v) % TokenMod

(* TokensTable.Add, by binary search. *)
tableAdd(t, s) ==
    LET i == Search([k \in DOMAIN t |-> t[k] >= s])
    IN  IF i <= Len(t) /\ t[i] = s THEN t
        ELSE SubSeq(t, 1, i - 1) \o <<s>> \o SubSeq(t, i, Len(t))

GetFirst(t) == IF t = <<>> THEN NoToken ELSE t[1]
GetNext(s) ==
    LET i == Search([k \in DOMAIN table |-> table[k] > s])
    IN  IF i <= Len(table) THEN table[i] ELSE NoToken

Init ==
    /\ sbVal = [u \in SbUids |-> 0] /\ index = [t \in Tokens |-> {}] /\ table = <<>>
    /\ sbReq = [lists |-> <<>>, offset |-> 0, count |-> 0]
    /\ token = NoToken /\ sbI = 1 /\ result = {}
    /\ ilists = <<>>
    /\ sbCall = "idle"
    /\ sbMut = [uid |-> 0, old |-> 0, new |-> 0, at |-> "none"]

(* initIndex has read the tokens of the store; processSort is called. *)
processSort ==
    /\ sbCall = "idle"
    /\ \E vals \in [SbUids -> SbValues], lists \in SbLists, off \in SbOffsets, cnt \in SbCounts :
        /\ sbVal' = vals
        /\ index' = [t \in Tokens |-> {u \in SbUids : tokenOf(vals[u]) = t}]
        /\ table' = SetToSortSeq({tokenOf(vals[u]) : u \in SbUids}, <)
        /\ sbReq' = [lists |-> lists, offset |-> off, count |-> cnt]
        /\ ilists' = [i \in DOMAIN lists |-> [offset |-> off, ulist |-> <<>>]]
        /\ token' = GetFirst(table')
    /\ sbCall' = IF token' = NoToken THEN "done" ELSE "buckets"
    /\ UNCHANGED <<sbI, result, sbMut>>

(* sortByValue: fetchValue for each uid, and Scalar.Sort (sort.Sort keeps equal
   elements of a short list in order).  When a value is gone the error is
   ignored by intersectBucket, and the uids stay in the order of the index. *)
byValue(us) == SetToSortSeq(us, LAMBDA a, b : \/ sbVal[a] < sbVal[b]
                                              \/ sbVal[a] = sbVal[b] /\ a < b)
sortByValue(us) ==
    IF \E u \in us : sbVal[u] = Gone THEN SetToSortSeq(us, <) ELSE byValue(us)

(* intersectBucket, one list: the uids that it shares with the bucket, unless
   the list is full or all of them are skipped.  A bucket with a uid behind the
   end of a list that is not full panics in List.Uids. *)
intersectList ==
    /\ sbCall = "buckets" /\ sbI <= Len(sbReq.lists) /\ result = {}
    /\ LET il == ilists[sbI]
           uids == index[token] \cap Range(sbReq.lists[sbI])
           n == Cardinality(uids)
           full == sbReq.count > 0 /\ Len(il.ulist) >= sbReq.count
           skipped == il.offset >= n
       IN  IF ~full /\ PastEnd(index[token], sbReq.lists[sbI])
           THEN sbCall' = "panic" /\ UNCHANGED <<result, ilists, sbI>>
           ELSE /\ result' = IF full \/ skipped THEN {} ELSE uids
                /\ ilists' = IF ~full /\ skipped THEN [ilists EXCEPT ![sbI].offset = @ - n] ELSE ilists
                /\ sbI' = IF full \/ skipped THEN sbI + 1 ELSE sbI
                /\ UNCHANGED sbCall
    /\ UNCHANGED <<sbVal, index, table, sbReq, token, sbMut>>

(* Its uids are sorted by value, and copied from the offset on up to the count. *)
\* Mutant: the offset is applied before the sort.
pageOfUnsorted(uids, offset) == sortByValue(Range(SubSeq(SetToSortSeq(uids, <), offset + 1, Cardinality(uids))))
pageOf(uids, offset) == SubSeq(sortByValue(uids), offset + 1, Cardinality(uids))

copySorted ==
    /\ result # {}
    /\ LET il == ilists[sbI]
           page == pageOf(result, il.offset)
           slack == sbReq.count - Len(il.ulist)
           n == IF sbReq.count > 0 THEN Min({slack, Len(page)}) ELSE Len(page)
       IN  ilists' = [ilists EXCEPT ![sbI] = [offset |-> 0, ulist |-> @.ulist \o SubSeq(page, 1, n)]]
    /\ result' = {} /\ sbI' = sbI + 1
    /\ UNCHANGED <<sbVal, index, table, sbReq, token, sbCall, sbMut>>

(* The end of a bucket: errDone when every list is full, else the next one. *)
nextBucket ==
    /\ sbCall = "buckets" /\ sbI > Len(sbReq.lists)
    /\ LET full == \A i \in DOMAIN sbReq.lists : Len(ilists[i].ulist) >= sbReq.count
           next == IF full THEN NoToken ELSE GetNext(token)
       IN  token' = next /\ sbCall' = IF next = NoToken THEN "done" ELSE "buckets"
    /\ sbI' = 1
    /\ UNCHANGED <<sbVal, index, table, sbReq, result, ilists, sbMut>>

(* A mutation gives a uid another value or deletes it: the value list, the old
   posting of the index, the new one, and the table (AddMutationWithIndex), each
   under a lock of its own. *)
setValue ==
    /\ sbCall = "buckets" /\ sbMut.at = "none"
    /\ \E u \in SbUids, v \in SbValues \cup {Gone} :
        /\ v # sbVal[u]
        /\ sbMut' = [uid |-> u, old |-> sbVal[u], new |-> v, at |-> "value"]
        /\ sbVal' = [sbVal EXCEPT ![u] = v]
    /\ UNCHANGED <<index, table, sbReq, token, sbI, result, ilists, sbCall>>

delIndex ==
    /\ sbMut.at = "value" /\ sbCall # "panic"
    /\ index' = [index EXCEPT ![tokenOf(sbMut.old)] = @ \ {sbMut.uid}]
    /\ sbMut' = [sbMut EXCEPT !.at = IF sbMut.new = Gone THEN "done" ELSE "deleted"]
    /\ UNCHANGED <<sbVal, table, sbReq, token, sbI, result, ilists, sbCall>>

addIndex ==
    /\ sbMut.at = "deleted" /\ sbCall # "panic"
    /\ index' = [index EXCEPT ![tokenOf(sbMut.new)] = @ \cup {sbMut.uid}]
    /\ sbMut' = [sbMut EXCEPT !.at = "added"]
    /\ UNCHANGED <<sbVal, table, sbReq, token, sbI, result, ilists, sbCall>>

addToken ==
    /\ sbMut.at = "added" /\ sbCall # "panic"
    /\ table' = tableAdd(table, tokenOf(sbMut.new))
    /\ sbMut' = [sbMut EXCEPT !.at = "done"]
    /\ UNCHANGED <<sbVal, index, sbReq, token, sbI, result, ilists, sbCall>>

Next ==
    \/ processSort \/ intersectList \/ copySorted \/ nextBucket
    \/ setValue \/ delIndex \/ addIndex \/ addToken

-----------------------------------------------------------------------------
(* Signs are not mixed: the unsigned order of tokens is then that of values. *)
SameSign == LET vs == (Range(sbVal) \ {Gone}) \cup IF sbMut.at = "none" THEN {} ELSE {sbMut.old}
            IN  (\A v \in vs : cut(v) >= 0) \/ (\A v \in vs : cut(v) < 0)

Without(l, u) == SelectSeq(l, LAMBDA w : w # u)

(* A finished sort without a concurrent mutation is the page asked for of the
   list ordered by value.  With one, the uids it does not touch are still a run
   of the ordered list without gaps, in order and each once; and if it deletes
   a value, so that a bucket is not sorted, each is there once, no bucket comes
   before a lesser one, and none between two others is left out.  A sort that
   no mutation disturbs panics only if a uid with a value is behind the end of a
   list that the uids of lesser buckets have not filled. *)
SortedPage ==
    /\ sbCall = "done" /\ SameSign => \A i \in DOMAIN sbReq.lists :
        LET m == sbMut.uid
            got == Without(ilists[i].ulist, m)
            all == byValue(Range(sbReq.lists[i]) \ {m})
            bucket(u) == tokenOf(sbVal[u])
        IN  IF sbMut.at = "none"
            THEN got = SubSeq(all, sbReq.offset + 1,
                              Min({Len(all), sbReq.offset + sbReq.count}))
            ELSE IF sbMut.new # Gone
            THEN \E a, b \in 0..Len(all) : got = SubSeq(all, a + 1, b)
            ELSE /\ IsInjective(got) /\ Range(got) \subseteq Range(all)
                 /\ \A j, k \in DOMAIN got :
                       /\ j < k => bucket(got[j]) <= bucket(got[k])
                       /\ \A u \in Range(all) :
                             bucket(got[j]) < bucket(u) /\ bucket(u) < bucket(got[k]) => u \in Range(got)
    /\ sbCall = "panic" /\ sbMut.at = "none" =>
         \E i \in DOMAIN sbReq.lists, u \in SbUids :
           LET before == {w \in Range(sbReq.lists[i]) : tokenOf(sbVal[w]) < tokenOf(sbVal[u])}
           IN  /\ PastEnd({u}, sbReq.lists[i])
               /\ Cardinality(before) < sbReq.offset + sbReq.count

(* The table stays strictly increasing and has every token of the index, but
   for the one that a mutation has yet to add. *)
TableIsSorted ==
    /\ \A i \in 1..(Len(table) - 1) : table[i] < table[i + 1]
    /\ \A t \in Tokens :
         /\ index[t] # {}
         /\ ~(sbMut.at = "added" /\ t = tokenOf(sbMut.new))
         => t \in Range(table)
=============================================================================
