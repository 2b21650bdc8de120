----------------------------- MODULE NodeRelease -----------------------------
(***************************************************************************)
(* query/query.go, query/codec.go: the nodes of a response.  A request     *)
(* takes them from a pool, builds its tree in preorder, marshals it and    *)
(* passes the root to a channel if there is room; one goroutine, release,  *)
(* receives from that channel, sends the children of a node to the same    *)
(* channel, zeroes the node and puts it back into the pool.                *)
(*                                                                         *)
(* A node is a number, with the request that fills it and its children.    *)
(* What a node says (uid, properties) is left out.  sync.Pool is external: *)
(* Get returns any pooled node or a new one.                               *)
(***************************************************************************)
EXTENDS Integers, Sequences, SequencesExt, FiniteSets

CONSTANTS
    NdRequests,
    NdMax,        \* nodes that are ever allocated
    NdDepth,      \* depth of a response
    NodeChCap     \* capacity of nodeCh (1000)

VARIABLES
    nodes,        \* node -> [by, kids]
    made,         \* nodes allocated so far
    nodePool,
    nodeCh,       \* nodes; 0 is nil
    rel,          \* release: [n, i], the node it has (0 for none) and its next child
    rq            \* request -> [pc, stack]: the nodes being filled, from the root down

ndVars == <<nodes, made, nodePool, nodeCh, rel, rq>>

NewNode == [by |-> "none", kids |-> <<>>]

Init ==
    /\ nodes = [n \in 1..NdMax |-> NewNode] /\ made = 0
    /\ nodePool = {} /\ nodeCh = <<>>
    /\ rel = [n |-> 0, i |-> 1]
    /\ rq = [r \in NdRequests |-> [pc |-> "idle", stack |-> <<>>]]

Top(r) == Last(rq[r].stack)

(* New: from the pool, or allocated; the attribute is set. *)
New(r) ==
    \E n \in nodePool \cup ((1..NdMax) \cap {made + 1}) :
        /\ nodePool' = nodePool \ {n}
        /\ made' = IF n > made THEN n ELSE made
        /\ nodes' = [nodes EXCEPT ![n].by = r]
        /\ rq' = [rq EXCEPT ![r] = [pc |-> "build", stack |-> Append(@.stack, n)]]

(* ToProtocolBuffer: the node _root_. *)
ToProtocolBuffer(r) ==
    /\ rq[r].pc = "idle"
    /\ New(r)
    /\ UNCHANGED <<nodeCh, rel>>

(* A node for a uid, of the root or of a child in preTraverse. *)
preTraverse(r) ==
    /\ rq[r].pc = "build" /\ Len(rq[r].stack) < NdDepth
    /\ New(r)
    /\ UNCHANGED <<nodeCh, rel>>

(* AddChild once the node is filled. *)
AddChild(r) ==
    /\ Len(rq[r].stack) > 1
    /\ nodes' = [nodes EXCEPT ![rq[r].stack[Len(rq[r].stack) - 1]].kids = Append(@, Top(r))]
    /\ rq' = [rq EXCEPT ![r].stack = Front(@)]
    /\ UNCHANGED <<made, nodePool, nodeCh, rel>>

(* preTraverse leaves a node out that is empty or, with what it has so far,
   invalid; nodes of the root are always added. *)
leaveOut(r) ==
    /\ Len(rq[r].stack) > 2
    /\ rq' = [rq EXCEPT ![r].stack = Front(@)]
    /\ UNCHANGED <<nodes, made, nodePool, nodeCh, rel>>

(* An error of preTraverse: there is no response. *)
traverseFails(r) ==
    /\ Len(rq[r].stack) > 1
    /\ rq' = [rq EXCEPT ![r] = [pc |-> "done", stack |-> <<>>]]
    /\ UNCHANGED <<nodes, made, nodePool, nodeCh, rel>>

(* Marshal: proto.Marshal reads the tree (or fails); the root is passed on
   unless the channel is full.  A request with mutations only has no node. *)
Marshal(r) ==
    /\ \/ rq[r].pc = "build" /\ Len(rq[r].stack) = 1
       \/ rq[r].pc = "idle"
    /\ LET root == IF rq[r].stack = <<>> THEN 0 ELSE rq[r].stack[1]
       IN  nodeCh' \in {nodeCh} \cup
                       IF Len(nodeCh) < NodeChCap THEN {Append(nodeCh, root)} ELSE {}
    /\ rq' = [rq EXCEPT ![r] = [pc |-> "done", stack |-> <<>>]]
    /\ UNCHANGED <<nodes, made, nodePool, rel>>

nextRequest(r) ==
    /\ rq[r].pc = "done"
    /\ rq' = [rq EXCEPT ![r].pc = "idle"]
    /\ UNCHANGED <<nodes, made, nodePool, nodeCh, rel>>

(* release: receive, *)
receive ==
    /\ rel.n = 0 /\ nodeCh # <<>>
    /\ rel' = [n |-> Head(nodeCh), i |-> 1]
    /\ nodeCh' = Tail(nodeCh)
    /\ UNCHANGED <<nodes, made, nodePool, rq>>

(* send the children, which waits for room, *)
sendChild ==
    /\ rel.n # 0 /\ rel.i <= Len(nodes[rel.n].kids)
    /\ Len(nodeCh) < NodeChCap
    /\ nodeCh' = Append(nodeCh, nodes[rel.n].kids[rel.i])
    /\ rel' = [rel EXCEPT !.i = @ + 1]
    /\ UNCHANGED <<nodes, made, nodePool, rq>>

(* zero the node and put it into the pool. *)
\* Mutant: the children are not reset.
ZeroedButChildren(n) == [nodes[n] EXCEPT !.by = "none"]
Zeroed(n) == NewNode

put ==
    /\ rel.n # 0 /\ rel.i > Len(nodes[rel.n].kids)
    /\ nodes' = [nodes EXCEPT ![rel.n] = Zeroed(rel.n)]
    /\ nodePool' = nodePool \cup {rel.n}
    /\ rel' = [n |-> 0, i |-> 1]
    /\ UNCHANGED <<made, nodeCh, rq>>

release == receive \/ sendChild \/ put

Next ==
    \/ \E r \in NdRequests :
         \/ ToProtocolBuffer(r) \/ preTraverse(r) \/ AddChild(r) \/ leaveOut(r)
         \/ traverseFails(r) \/ Marshal(r) \/ nextRequest(r)
    \/ release

Spec == Init /\ [][Next]_ndVars /\ WF_ndVars(release)

-----------------------------------------------------------------------------
(* The children of n that are still its own: release has passed some on. *)
Kids(n) == {i \in DOMAIN nodes[n].kids : rel.n = n => i >= rel.i}

(* The ways to reach n: the channel, release, a parent, a request, the pool. *)
Holders(n) ==
    {<<"ch", 0, i>> : i \in {j \in DOMAIN nodeCh : nodeCh[j] = n}}
    \cup {<<"release", 0, 0>> : x \in {rel.n} \cap {n}}
    \cup UNION {{<<"parent", p, i>> : i \in {j \in Kids(p) : nodes[p].kids[j] = n}} : p \in 1..made}
    \cup UNION {{<<r, 0, i>> : i \in {j \in DOMAIN rq[r].stack : rq[r].stack[j] = n}} : r \in NdRequests}
    \cup {<<"pool", 0, 0>> : x \in nodePool \cap {n}}

Tree(r) ==
    LET below[d \in 0..NdDepth] ==
          IF d = 0 THEN Range(rq[r].stack)
          ELSE below[d - 1] \cup UNION {Range(nodes[n].kids) : n \in below[d - 1]}
    IN  below[NdDepth]

(* However requests and release interleave, a node is reached in one way only,
   so none is released twice; the pool gives out empty nodes; and the tree of a
   response is made of nodes that its own request has filled. *)
NodesBelongToOne ==
    /\ \A n \in 1..made : Cardinality(Holders(n)) <= 1
    /\ \A n \in nodePool : nodes[n] = NewNode
    /\ \A r \in NdRequests : \A n \in Tree(r) : nodes[n].by = r

(* "Passing onto to channel which would put it into the sync pool": what is on
   the channel reaches the pool. *)
PassedNodesArePooled == \A n \in 1..NdMax : n \in Range(nodeCh) ~> n \in nodePool
=============================================================================
