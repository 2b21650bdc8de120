-------------------------- MODULE MutationRequest ---------------------------
(***************************************************************************)
(* cmd/dgraph/main.go: what a server does with a request of a client.  The *)
(* mutations come first: the quads in the text of the request, then (gRPC  *)
(* only) those of its Mutation object.  convertAndApply turns quads into   *)
(* edges, with uids from the group that hands them out, and sends them to  *)
(* the groups of their predicates; the query runs when all that succeeded. *)
(*                                                                         *)
(* A request is [via, query, blocks, root, forbidden]; query is "empty",   *)
(* "bad" (gql.Parse refuses it) or "good".  A block of mutations is        *)
(* [as, set, del], as "text" or "object"; a quad is [s, p, o, bad] where s *)
(* and o are names <<"new", n>>, <<"xid", x>> and <<"uid", i>> (i = -1     *)
(* when it is no number), or o is <<"value">>, and bad says what is wrong  *)
(* with the quad: "" or "syntax", "type", "blank" (a line without a quad)  *)
(* and "long" (a line of more than 64 KB) in a text, "value" in an object. *)
(* forbidden is the flag nomutations of the server.                        *)
(*                                                                         *)
(* What MutateOverNetwork does is in Proposals, how uids are chosen in     *)
(* UidAssign: here the one applies in all groups, or fails and may have    *)
(* applied in some, and the other answers with uids not marked before.     *)
(***************************************************************************)
EXTENDS GroupConf, Functions

CONSTANTS MrRequests, MrUids, Fingerprint64     \* [xid -> uid], never 0

VARIABLES
    mrReq,         \* the request
    mrBlock,       \* the block of mutations it is at
    mrStep,        \* "receive", "parse", "set", "del", "apply", "query", "end"
    mrQuads,       \* what was parsed of the block: [set, del]
    mrEdges,       \* the edges made so far: [set, del]
    allocIds,      \* uids to report when the request succeeds, by new name
    mrMarked,      \* uids marked in the group of _uid_
    mrDone,        \* per block: [group -> [set, del]] that was applied
    mrReply        \* "none", "error", "done" or "answer"

mrVars == <<mrReq, mrBlock, mrStep, mrQuads, mrEdges, allocIds, mrMarked, mrDone, mrReply>>

NoQuads == [set |-> <<>>, del |-> <<>>]

Init ==
    /\ GcInit
    /\ mrReq \in MrRequests
    /\ mrBlock = 1
    /\ mrStep = "receive"
    /\ mrQuads = NoQuads /\ mrEdges = NoQuads
    /\ allocIds = <<>> /\ mrMarked = {} /\ mrDone = <<>>
    /\ mrReply = "none"

Fail ==
    /\ mrReply' = "error" /\ mrStep' = "end"
    /\ UNCHANGED <<mrReq, mrBlock, mrQuads, mrEdges, allocIds>>

Block == mrReq.blocks[mrBlock]
Bad(quads) == {quads[i].bad : i \in DOMAIN quads}

(* The text of the request first, then its Mutation object, then the query. *)
StepAt(b) == IF b <= Len(mrReq.blocks) THEN "parse" ELSE "query"

(* Both handlers refuse a request with nothing in it, and a text that gql.Parse
   refuses.  A Mutation object makes up for an empty text. *)
receive ==
    /\ mrStep = "receive"
    /\ LET empty == mrReq.query = "empty" /\ (mrReq.via = "http" \/ mrReq.blocks = <<>>)
       IN  IF empty \/ mrReq.query = "bad" THEN Fail
           ELSE mrStep' = StepAt(1) /\ UNCHANGED <<mrReq, mrBlock, mrQuads, mrEdges, allocIds, mrReply>>
    /\ UNCHANGED <<mrMarked, mrDone>>

(* A block without set or del is passed over, also where mutations are
   forbidden. *)
skipBlock ==
    /\ Block.set = <<>> /\ Block.del = <<>>
    /\ mrDone' = Append(mrDone, <<>>)
    /\ mrBlock' = mrBlock + 1 /\ mrStep' = StepAt(mrBlock + 1)
    /\ UNCHANGED <<mrReq, mrQuads, mrEdges, allocIds, mrMarked, mrReply>>

(* convertToNQuad parses line by line.  The scanner stops at a line that is too
   long, and nobody asks it why. *)
scanned(lines) ==
    SubSeq(lines, 1, Min({i \in DOMAIN lines : lines[i].bad = "long"} \cup {Len(lines) + 1}) - 1)
convertToNQuad(lines) == SelectSeq(scanned(lines), LAMBDA l : l.bad # "blank")

(* An error of convertToNQuad or validateTypes refuses the block.  What
   validateTypes converts it assigns to its copy of the quad. *)
mutationHandler ==
    /\ Block.as = "text" /\ Block.set \o Block.del # <<>>
    /\ LET set == convertToNQuad(Block.set)
           del == convertToNQuad(Block.del)
       IN  IF (Bad(set) \cup Bad(del)) \cap {"syntax", "type"} # {}
           THEN Fail /\ UNCHANGED <<mrMarked, mrDone>>
           ELSE /\ mrQuads' = [set |-> set, del |-> del]
                /\ mrStep' = "set"
                /\ UNCHANGED <<mrReq, mrBlock, mrEdges, allocIds, mrMarked, mrDone, mrReply>>

(* mutationToNQuad stops at a value it cannot read; runMutations ignores the
   error and goes on with the quads before it.  The error of MarshalBinary is
   ignored too, but a value that was just decoded has none. *)
mutationToNQuad(quads) ==
    SubSeq(quads, 1, Min({i \in DOMAIN quads : quads[i].bad = "value"} \cup {Len(quads) + 1}) - 1)

runMutations ==
    /\ Block.as = "object" /\ Block.set \o Block.del # <<>>
    /\ mrQuads' = [set |-> mutationToNQuad(Block.set), del |-> mutationToNQuad(Block.del)]
    /\ mrStep' = "set"
    /\ UNCHANGED <<mrReq, mrBlock, mrEdges, allocIds, mrMarked, mrDone, mrReply>>

-----------------------------------------------------------------------------
Names(quads) == {quads[i].s : i \in DOMAIN quads} \cup ({quads[i].o : i \in DOMAIN quads} \ {<<"value">>})
NewNames(quads) == {n \in Names(quads) : n[1] = "new"}

(* newUids before the call: the names that are no uids, 0 for a new one. *)
newUids(quads) ==
    [n \in {m \in Names(quads) : m[1] # "uid"} |-> IF n[1] = "new" THEN 0 ELSE Fingerprint64[n[2]]]

(* AssignUidsOverNetwork: createNumQuery asks for as many uids as there are
   zeros; the answer fills them, in the order of another walk over the map. *)
AssignUidsOverNetwork(umap) ==
    LET zeros == {n \in DOMAIN umap : umap[n] = 0}
    IN  {[n \in DOMAIN umap |-> IF n \in zeros THEN f[n] ELSE umap[n]] :
            f \in {g \in [zeros -> MrUids \ mrMarked] : IsInjective(g)}}

GetUid(n) == IF n[1] = "uid" THEN n[2] ELSE Fingerprint64[n[2]]
\* Mutant: the answer is not looked at.
withoutAnswer(n, umap) == IF n[1] = "new" THEN 0 ELSE GetUid(n)
toUid(n, umap) == IF n \in DOMAIN umap THEN umap[n] ELSE GetUid(n)
ToEdgeUsing(quad, umap) ==
    [entity |-> toUid(quad.s, umap), attr |-> quad.p,
     value |-> IF quad.o = <<"value">> THEN quad.o ELSE <<"id", toUid(quad.o, umap)>>]

(* Names without a uid: "_uid_:" and no number. *)
Unusable(quads) == <<"uid", -1>> \in Names(quads)

(* convertToEdges, for the set or the del quads of the block.  The call may
   fail after the uids were marked; a name without a uid is noticed after. *)
convertToEdges(op, next) ==
    /\ mrStep = op
    /\ IF op = "set" /\ mrReq.forbidden THEN Fail /\ UNCHANGED <<mrMarked, mrDone>>
       ELSE LET quads == mrQuads[op]
            IN  \E umap \in AssignUidsOverNetwork(newUids(quads)) :
                 \/ /\ DOMAIN umap # {}
                    /\ mrMarked' \in {mrMarked, mrMarked \cup Range(umap)}
                    /\ Fail /\ UNCHANGED mrDone
                 \/ /\ mrMarked' = mrMarked \cup Range(umap)
                    /\ UNCHANGED mrDone
                    /\ IF Unusable(quads) THEN Fail
                       ELSE /\ mrEdges' = [mrEdges EXCEPT ![op] =
                                 [i \in DOMAIN quads |-> ToEdgeUsing(quads[i], umap)]]
                            /\ allocIds' = IF op = "set" THEN Restrict(umap, NewNames(quads)) ELSE allocIds
                            /\ mrStep' = next
                            /\ UNCHANGED <<mrReq, mrBlock, mrQuads, mrReply>>

(* addToMutationMap. *)
Of(g, edges) == SelectSeq(edges, LAMBDA e : BelongsTo(e.attr) = g)
mutationMap ==
    LET all == Range(mrEdges.set) \cup Range(mrEdges.del)
    IN  [g \in {BelongsTo(e.attr) : e \in all} |-> [set |-> Of(g, mrEdges.set), del |-> Of(g, mrEdges.del)]]

(* applyMutations, and on to the next block or the query. *)
applyMutations ==
    /\ mrStep = "apply"
    /\ UNCHANGED mrMarked
    /\ \/ /\ mrDone' = Append(mrDone, mutationMap)
          /\ mrBlock' = mrBlock + 1
          /\ mrStep' = StepAt(mrBlock + 1)
          /\ mrQuads' = NoQuads /\ mrEdges' = NoQuads
          /\ UNCHANGED <<mrReq, allocIds, mrReply>>
       \/ /\ DOMAIN mutationMap # {}
          /\ \E some \in SUBSET DOMAIN mutationMap :
                mrDone' = Append(mrDone, Restrict(mutationMap, some))
          /\ Fail

(* queryHandler: without a root there is no query. *)
queryHandler ==
    /\ mrReq.via = "http"
    /\ mrReply' \in IF mrReq.root = "none" THEN {"done"} ELSE {"answer", "error"}

(* grpcServer.Query does not look for a function at the root. *)
Query ==
    /\ mrReq.via = "grpc"
    /\ mrReply' \in IF mrReq.root \in {"none", "func"} THEN {"done"} ELSE {"answer", "error"}

ProcessGraph ==
    /\ mrStep = "query" /\ mrStep' = "end"
    /\ queryHandler \/ Query
    /\ UNCHANGED <<mrReq, mrBlock, mrQuads, mrEdges, allocIds, mrMarked, mrDone>>

Serve ==
    /\ gcResult = "ok"
    /\ UNCHANGED gcVars
    /\ \/ receive
       \/ mrStep = "parse" /\ (skipBlock \/ mutationHandler \/ runMutations)
       \/ convertToEdges("set", "del") \/ convertToEdges("del", "apply")
       \/ applyMutations \/ ProcessGraph

Next == (GcNext /\ UNCHANGED mrVars) \/ Serve

-----------------------------------------------------------------------------
(* The quads of a block before the first that cannot be read: a line that is too
   long, a value of no known kind. *)
Readable(quads) ==
    LET stops == {i \in DOMAIN quads : quads[i].bad \in {"long", "value"}}
        upto == {i \in DOMAIN quads : \A j \in stops : i < j}
    IN  SelectSeq(SubSeq(quads, 1, Cardinality(upto)), LAMBDA x : x.bad # "blank")
NonEmpty(b) == mrReq.blocks[b].set \o mrReq.blocks[b].del # <<>>

(* A quad's edge, when new names have the uids that `den` gives. *)
Uid(n, den) == CASE n[1] = "new" -> den[n] [] n[1] = "xid" -> Fingerprint64[n[2]] [] n[1] = "uid" -> n[2]
Says(quad, den) ==
    [entity |-> Uid(quad.s, den), attr |-> quad.p,
     value |-> IF quad.o = <<"value">> THEN quad.o ELSE <<"id", Uid(quad.o, den)>>]

(* A request that is answered has, for each of its blocks, every quad up to the
   first unreadable one applied once, in the group of its predicate, in order;
   with one uid per name: the number, the fingerprint, or for a new name one that
   no other new name of these quads has; all are marked.  The uids reported are
   those of the set quads of the last block that has any quads or lines.  When
   the request fails, no block behind the failing one has an effect, and a
   request with a text that is refused has none at all. *)
RequestIsItsQuads ==
    /\ Len(mrDone) <= mrBlock
    /\ mrReq.query = "bad" => mrDone = <<>> /\ mrMarked = {} /\ mrReply \in {"none", "error"}
    /\ mrReply \in {"done", "answer"} => Len(mrDone) = Len(mrReq.blocks)
    /\ \A b \in 1..(mrBlock - 1) :
         \A op \in {"set", "del"} :
           LET quads == Readable(mrReq.blocks[b][op])
               got == mrDone[b]
               For(g) == SelectSeq(quads, LAMBDA x : BelongsTo(x.p) = g)
           IN  /\ \A i \in DOMAIN quads : BelongsTo(quads[i].p) \in DOMAIN got
               /\ \E den \in [NewNames(quads) -> mrMarked] :
                    /\ IsInjective(den)
                    /\ \A g \in DOMAIN got :
                         got[g][op] = [i \in DOMAIN For(g) |-> Says(For(g)[i], den)]
                    /\ /\ op = "set" /\ NonEmpty(b)
                       /\ \A c \in (b + 1)..Len(mrReq.blocks) : ~NonEmpty(c)
                       => allocIds = den
               /\ \A n \in Names(quads) : n[1] = "xid" => Fingerprint64[n[2]] \in mrMarked

-----------------------------------------------------------------------------
(* The uids of all new names of the request are reported. *)
AllNewNamesAreReported ==
    mrReply \in {"done", "answer"} =>
      \A b \in DOMAIN mrReq.blocks : NewNames(mrReq.blocks[b].set) \subseteq DOMAIN allocIds

(* A request that is answered has all its quads applied. *)
NoQuadIsDropped ==
    mrReply \in {"done", "answer"} =>
      \A b \in DOMAIN mrReq.blocks :
        Bad(mrReq.blocks[b].set \o mrReq.blocks[b].del) \cap {"value", "long"} = {}

(* "Done" is the answer to a request without a query. *)
DoneMeansNoQuery == mrReply = "done" => mrReq.root = "none"
=============================================================================
