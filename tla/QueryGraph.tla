------------------------------ MODULE QueryGraph -----------------------------
(***************************************************************************)
(* query/query.go: ProcessGraph runs one goroutine per node of the query   *)
(* tree.  A node gets its uids (worker/task.go), runs its filters, a tree  *)
(* of nodes of their own, in parallel, pages or orders its lists, and then *)
(* runs its children in parallel on the uids that are left.  Tasks may     *)
(* fail and the context may end while goroutines are still at work.        *)
(*                                                                         *)
(* Uids are numbers and lists are sequences, for the code works on them by *)
(* position.  SortOverNetwork is taken at what SortBuckets shows of it.    *)
(***************************************************************************)
EXTENDS UidAlgo

CONSTANTS
    QNodes, QRoot,
    QChildren, QFilters,   \* node -> sequence of nodes
    QPaged,                \* the node with pagination parameters
    QKind,                 \* node -> "root", "op", "edge" (a predicate) or "func"
    QAllOf,                \* the functions named allof
    QRootUids,             \* uids of the root
    QRows,                 \* what the lists of QPaged may be: a set of sequences of lists
    QTokenLists,           \* the lists of the two tokens of a function: a set of pairs
    QParams,               \* parameters of QPaged: [count, offset, after, order, docount]
    QRank                  \* uid -> rank of the value it is ordered by

VARIABLES
    q,          \* node -> [pc, src, dest, matrix, counts, rep]
    qRow,       \* the lists of QPaged
    qTokens,    \* func node -> its token lists
    qOp,        \* op node -> "|" or "&"
    qParam,
    qCtx,       \* the context has ended
    qPanic      \* "no", or where the process has panicked: "page" or "uids"

qVars == <<q, qRow, qTokens, qOp, qParam, qCtx, qPanic>>
qInput == <<qRow, qTokens, qOp, qParam>>

Funcs == {n \in QNodes : QKind[n] = "func"}
Ops == {n \in QNodes : QKind[n] = "op"}
Idle == [pc |-> "idle", src |-> <<>>, dest |-> <<>>, matrix |-> <<>>,
         counts |-> <<>>, rep |-> "none"]
Starting(src) == [Idle EXCEPT !.pc = "start", !.src = src]
Replied(r, rep) == [r EXCEPT !.pc = "done", !.rep = rep]
NoParams == [count |-> 0, offset |-> 0, after |-> 0, order |-> FALSE, docount |-> FALSE]
Param(n) == IF n = QPaged THEN qParam ELSE NoParams

Init ==
    /\ q = [n \in QNodes |-> Idle]
    /\ qRow = <<>> /\ qTokens = <<>> /\ qOp = <<>>
    /\ qParam = NoParams
    /\ qCtx = FALSE /\ qPanic = "no"

(* The handler: any parameters and any data. *)
startQuery ==
    /\ q[QRoot].pc = "idle"
    /\ qRow' \in QRows
    /\ qTokens' \in [Funcs -> QTokenLists]
    /\ qOp' \in [Ops -> {"|", "&"}]
    /\ qParam' \in QParams
    /\ q' = [q EXCEPT ![QRoot] = Starting(QRootUids)]
    /\ UNCHANGED <<qCtx, qPanic>>

(* pageRange, with Go's remainder (the sign of the dividend); the slice
   expression panics unless start <= end <= n, the division when n is 0. *)
goMod(a, n) == IF a >= 0 THEN a % n ELSE -((-a) % n)
pageRange(p, n) ==
    IF p.count = 0 /\ p.offset = 0 THEN [start |-> 0, end |-> n]
    ELSE IF p.count < 0
         THEN [start |-> IF n = 0 THEN 1 ELSE goMod(goMod(n + p.count, n) + n, n), end |-> n]
    ELSE [start |-> Max({p.offset, 0}),
          end |-> IF p.count = 0 THEN n ELSE Min({Max({p.offset, 0}) + p.count, n})]

(* applyPagination: every list is cut down to the filtered uids, then to its
   page. *)
applyPagination(r, p) ==
    IF p.count = 0 /\ p.offset = 0 THEN [rec |-> r, panic |-> "no"]
    ELSE LET cut == [i \in DOMAIN r.matrix |-> IntersectWith(r.matrix[i], r.dest)]
             range == [i \in DOMAIN cut |-> pageRange(p, Len(cut[i]))]
             pages == [i \in DOMAIN cut |-> SubSeq(cut[i], range[i].start + 1, range[i].end)]
         IN  [rec |-> [r EXCEPT !.matrix = pages, !.dest = MergeSorted(pages)],
              panic |-> IF \E i \in DOMAIN cut : range[i].start > range[i].end
                        THEN "page" ELSE "no"]

(* SortOverNetwork (see SortBuckets): the page of each list by value.  Without
   a count it is 1000, more than any list here has.  The sort panics at the
   bucket of a uid behind the end of the list, if the list is not full by then. *)
SortPage(l, p) ==
    LET sorted == SetToSortSeq(Range(l), LAMBDA a, b : QRank[a] < QRank[b])
    IN  SubSeq(sorted, p.offset + 1,
               IF p.count = 0 THEN Len(l) ELSE Min({Len(l), p.offset + p.count}))

SortPanics(l, p) ==
    \E u \in DOMAIN QRank :
        /\ PastEnd({u}, l)
        /\ p.count > 0 =>
             Cardinality({w \in Range(l) : QRank[w] < QRank[u]}) < p.offset + p.count

(* applyOrderAndPagination: the lists as they came, before the filters, are
   ordered and paged; the uids are cut down to those that are left in one.
   processSort asserts a count above zero.  The call may fail. *)
applyOrderAndPagination(r, p) ==
    LET pages == [i \in DOMAIN r.matrix |-> SortPage(r.matrix[i], p)]
        included == [k \in DOMAIN r.dest |->
                        \E i \in DOMAIN pages : r.dest[k] \in Range(pages[i])]
    IN  [rec |-> [r EXCEPT !.matrix = pages, !.dest = ApplyFilter(r.dest, included)],
         panic |-> IF p.count < 0 THEN "page"
                   ELSE IF \E i \in DOMAIN pages : SortPanics(r.matrix[i], p) THEN "uids"
                   ELSE "no"]

page(r, p) == IF p.order THEN applyOrderAndPagination(r, p) ELSE applyPagination(r, p)

(* _count_ with filters: how many uids of each list are left. *)
countFiltered(r) ==
    LET cut == [i \in DOMAIN r.matrix |-> IntersectWith(r.matrix[i], r.dest)]
    IN  [r EXCEPT !.matrix = cut, !.counts = [i \in DOMAIN cut |-> Len(cut[i])]]

(* From the filters on: page, count or start the children. *)
FinishWith(n, res, failed, others) ==
    LET rec == IF failed THEN Replied(res.rec, "error")
               ELSE IF Param(n).docount THEN Replied(countFiltered(res.rec), "nil")
               ELSE IF QChildren[n] = <<>> THEN Replied(res.rec, "nil")
               ELSE [res.rec EXCEPT !.pc = "children"]
    IN  /\ qPanic' = res.panic
        /\ q' = [m \in QNodes |->
                    IF m = n THEN rec
                    ELSE IF rec.pc = "children" /\ m \in Range(QChildren[n])
                    THEN Starting(rec.dest) ELSE others[m]]

Finish(n, r, others) ==
    \/ FinishWith(n, page(r, Param(n)), FALSE, others)
    \/ Param(n).order /\ FinishWith(n, [rec |-> r, panic |-> "no"], TRUE, others)

(* processTask: one list per uid of the source, from `after` on, or per token
   of a function, the latter intersected with the source uids, if there are
   any (a filter): List.Uids panics when a token's list goes on behind them. *)
After(l) == SelectSeq(l, LAMBDA u : u > qParam.after)
processTask(n) ==
    IF QKind[n] = "edge"
    THEN [i \in DOMAIN q[n].src |-> IF n = QPaged THEN After(qRow[i]) ELSE <<>>]
    ELSE [t \in 1..2 |-> IF q[n].src = <<>> THEN qTokens[n][t]
                         ELSE IntersectWith(qTokens[n][t], q[n].src)]

taskPanics(n) ==
    QKind[n] = "func" /\ \E t \in 1..2 : PastEnd(Range(qTokens[n][t]), q[n].src)

(* ProcessGraph up to its filters. *)
ProcessGraph(n) ==
    /\ q[n].pc = "start" /\ qPanic = "no"
    /\ LET matrix == IF QKind[n] \in {"root", "op"} THEN q[n].matrix ELSE processTask(n)
           r == [q[n] EXCEPT !.matrix = matrix,
                             !.dest = IF QKind[n] \in {"root", "op"} THEN q[n].src
                                      ELSE IF n \in QAllOf THEN IntersectSorted(matrix)
                                      ELSE MergeSorted(matrix)]
           early(rec) == q' = [q EXCEPT ![n] = rec] /\ UNCHANGED qPanic
       IN  \/ QKind[n] \in {"edge", "func"} /\ early(Replied(q[n], "error"))
           \/ IF taskPanics(n) THEN qPanic' = "uids" /\ UNCHANGED q
              ELSE IF Param(n).docount /\ QFilters[n] = <<>>
              THEN early(Replied([q[n] EXCEPT !.counts = [i \in DOMAIN q[n].src |-> Len(qRow[i])]],
                                 "nil"))
              ELSE IF r.dest = <<>> THEN early(Replied(r, "nil"))
              ELSE IF QFilters[n] = <<>> THEN Finish(n, r, q)
              ELSE /\ q' = [m \in QNodes |->
                               IF m = n THEN [r EXCEPT !.pc = "filters"]
                               ELSE IF m \in Range(QFilters[n]) THEN Starting(r.dest)
                               ELSE q[m]]
                   /\ UNCHANGED qPanic
    /\ UNCHANGED <<qInput, qCtx>>

(* The goroutines that have not replied yet when f has: the loop over the
   filters or children takes one reply for each. *)
\* Mutant: the first reply is enough.
AwaitsNone(ns, f) == {}
Awaits(ns, f) == {g \in Range(ns) \ {f} : q[g].rep # "taken"}

(* One reply is taken from the channel of filters: an error is passed on at
   once; after the last the lists of the filters are joined. *)
filterReplies(n, f) ==
    /\ q[n].pc = "filters" /\ qPanic = "no"
    /\ f \in Range(QFilters[n]) /\ q[f].rep \in {"nil", "error"}
    /\ LET taken == [q EXCEPT ![f].rep = "taken"]
           lists == [i \in DOMAIN QFilters[n] |-> q[QFilters[n][i]].dest]
           joined == IF n \in Ops /\ qOp[n] = "|" THEN MergeSorted(lists)
                     ELSE IntersectSorted(lists)
       IN  IF q[f].rep = "error"
           THEN q' = [taken EXCEPT ![n] = Replied(@, "error")] /\ UNCHANGED qPanic
           ELSE IF Awaits(QFilters[n], f) # {}
           THEN q' = taken /\ UNCHANGED qPanic
           ELSE Finish(n, [q[n] EXCEPT !.dest = joined], taken)
    /\ UNCHANGED <<qInput, qCtx>>

childReplies(n, c) ==
    /\ q[n].pc = "children" /\ qPanic = "no"
    /\ c \in Range(QChildren[n]) /\ q[c].rep \in {"nil", "error"}
    /\ LET taken == [q EXCEPT ![c].rep = "taken"]
       IN  q' = IF q[c].rep = "error" THEN [taken EXCEPT ![n] = Replied(@, "error")]
                ELSE IF Awaits(QChildren[n], c) # {} THEN taken
                ELSE [taken EXCEPT ![n] = Replied(@, "nil")]
    /\ UNCHANGED <<qInput, qCtx, qPanic>>

(* The context ends; a node that waits may then reply with its error. *)
ctxDone ==
    /\ q[QRoot].pc # "idle" /\ ~qCtx
    /\ qCtx' = TRUE
    /\ UNCHANGED <<q, qInput, qPanic>>

giveUp(n) ==
    /\ qCtx /\ qPanic = "no" /\ q[n].pc \in {"filters", "children"}
    /\ q' = [q EXCEPT ![n] = Replied(@, "error")]
    /\ UNCHANGED <<qInput, qCtx, qPanic>>

(* A node can always reply: filterChan and childChan have a place for each. *)
\* Mutant: the channel has no buffer, and a parent that gave up does not read.
ParentReads(n) ==
    n = QRoot \/ \E p \in QNodes : q[p].pc \in {"filters", "children"}
                              /\ n \in Range(QFilters[p]) \cup Range(QChildren[p])
CanReply(n) == TRUE

Goroutine(n) ==
    /\ CanReply(n)
    /\ \/ ProcessGraph(n) \/ giveUp(n)
       \/ \E f \in QNodes : filterReplies(n, f) \/ childReplies(n, f)

Goroutines == \E n \in QNodes : Goroutine(n)

Next == startQuery \/ ctxDone \/ Goroutines

Fairness == WF_qVars(Goroutines)

-----------------------------------------------------------------------------
(* What a filter keeps, as a Boolean expression over its functions. *)
Keeps(u) ==
    LET holds(f) == LET in(t) == u \in Range(qTokens[f][t])
                    IN  IF f \in QAllOf THEN in(1) /\ in(2) ELSE in(1) \/ in(2)
        value[n \in QNodes] ==
            IF n \in Funcs THEN holds(n)
            ELSE LET fs == Range(QFilters[n])
                 IN  IF n \in Ops /\ qOp[n] = "|" THEN \E f \in fs : value[f]
                     ELSE \A f \in fs : value[f]
    IN  value[QPaged]

(* The page asked for: from the offset, or the last ones. *)
WantedPage(l) ==
    IF qParam.count < 0 THEN SubSeq(l, Max({1, Len(l) + qParam.count + 1}), Len(l))
    ELSE SubSeq(l, qParam.offset + 1,
                IF qParam.count = 0 THEN Len(l) ELSE Min({Len(l), qParam.offset + qParam.count}))

Kept(l) == SelectSeq(l, Keeps)
Answered == q[QRoot].rep = "nil" /\ qPanic = "no"

(* When the query succeeds every goroutine of the tree is done, so what the
   output is made from no longer changes; and the uids of the paged node, or
   the counts, are those of its lists, filtered and then paged - but for a
   negative count beyond the length of a list, which wraps around, and for an
   order, which is paged before it is filtered. *)
AnswerIsComplete ==
    Answered =>
        /\ \A n \in QNodes : q[n].pc \in {"idle", "done"}
        /\ LET lists == [i \in DOMAIN QRootUids |-> After(qRow[i])]
               wanted == [i \in DOMAIN lists |->
                             IF qParam.order THEN Kept(SortPage(lists[i], qParam))
                             ELSE WantedPage(Kept(lists[i]))]
               wraps == \E i \in DOMAIN lists : -qParam.count > Len(Kept(lists[i]))
           IN  q[QPaged].pc = "done" /\ ~wraps =>
                  /\ ~(qParam.docount /\ QFilters[QPaged] = <<>>) =>
                       Range(q[QPaged].dest) = UNION {Range(wanted[i]) : i \in DOMAIN lists}
                  /\ q[QPaged].counts # <<>> /\ ~qParam.order =>
                       \A i \in DOMAIN lists : q[QPaged].counts[i] = Len(wanted[i])

(* Every goroutine of a query ends, also when another one failed first or the
   context ended: a reply never blocks, its channel has room for all. *)
GoroutinesEnd ==
    (q[QRoot].pc # "idle") ~> (qPanic # "no" \/ \A n \in QNodes : q[n].pc \in {"idle", "done"})

(* "a PL might have only 50 entries but the user wants to skip 100 entries and
   return 10 entries. In this case, you should return a count of 0, not 10":
   ProcessGraph counts a page that begins behind the end of a list as empty. *)
OffsetBeyondTheEnd == qParam.docount /\ qParam.count >= 0 => qPanic # "page"
=============================================================================
