------------------------------ MODULE MCCluster ------------------------------
(***************************************************************************)
(* The bulk loader and the exchanges between servers, for TLC.  The parts  *)
(* do not interact: a behaviour is a behaviour of the one named by part,   *)
(* the variables of the others keep their initial values.                  *)
(***************************************************************************)
EXTENDS Integers, Sequences, SequencesExt, TLC

CONSTANTS
    Parsers, Handlers, ChanCap, ShuffleSize, MaxLines, MaxBadEdges, MaxWrites, markUids,
    MaxEvictions,
    NumKeys, Lists, KvsCap, BatchMax, KeyBytes,
    Converters, FlushAt, BufCap, ChkvCap, ChbCap, BkMaxKeys,
    RlNodes, RlMaxLeads, PrGroups, GroupEdges,
    BmPeers, MsgSizes, BmMsgs, MessagesCap, MaxCalls,
    PoolUsers, PoolCap, MaxConns

(* Keys of the backup: ':' is 1, letters 2 and 3, '|' 4, '~' 5, a high byte 6. *)
BkUniverse == {<<2, 4, 0>>, <<2, 4, 1>>, <<2, 4, 2>>, <<2, 4, 6>>, <<2, 4, 4>>, <<2, 1, 2>>,
               <<2, 1, 6>>, <<2, 3, 4, 0>>, <<3, 3, 4, 0>>}
BkSize == [k \in BkUniverse |-> IF k = <<2, 4, 0>> THEN 2 ELSE IF k = <<2, 4, 6>> THEN 3 ELSE 1]
BkGroups == <<2>> :> 0 @@ <<2, 3>> :> 1 @@ <<3, 3>> :> 0

(* Configuration files of up to three lines; OneFile is for the requests. *)
Exact(p) == [val |-> p, exact |-> TRUE]
Prefix(p) == [val |-> p, exact |-> FALSE]
Group(i, ps) == [is |-> "group", id |-> i, preds |-> ps]
Default(f, n, k) == [is |-> "default", form |-> f, n |-> n, k |-> k]
Patterns == {<<Prefix(<<1>>), Exact(<<2>>)>>, <<Exact(<<1, 2>>)>>, <<Prefix(<<>>)>>}
Lines ==
    {[is |-> "skip"], [is |-> "short"], Default("other", 1, 0), Default("nan", 1, 0), Default("n+k", 7, 2)}
    \cup {Default("n", n, 0) : n \in {0, 1, 3, 8, 9}} \cup {Default("n+k", 2, k) : k \in 0..3}
    \cup {Group(i, ps) : i \in {-1, 0, 1}, ps \in Patterns}
OneFile == <<Group(0, <<Prefix(<<1>>)>>), Group(1, <<Exact(<<2>>)>>), Default("n+k", 2, 1)>>
Files == {OneFile, <<[is |-> "absent"]>>} \cup UNION {[1..n -> Lines] : n \in 0..3}

(* Requests: a text, an object, or both; up to three quads in one of them. *)
Quad(s, p, o) == [s |-> s, p |-> p, o |-> o, bad |-> ""]
A == <<"new", "a">>
B == <<"new", "b">>
X == <<"xid", "x">>
Val == <<"value">>
Quads(bads) ==
    {Quad(A, <<1>>, Val), Quad(A, <<2>>, B), Quad(X, <<2>>, A), Quad(<<"uid", 3>>, <<1, 2>>, X),
     Quad(<<"uid", -1>>, <<1>>, Val)}
    \cup {[Quad(B, <<3>>, Val) EXCEPT !.bad = b] : b \in bads}
QuadsOf == [text |-> Quads({"syntax", "type", "long", "blank"}), object |-> Quads({"value"})]
UpTo(as, n) == UNION {[1..i -> QuadsOf[as]] : i \in 0..n}
Blocks(as, n, d) == {[as |-> as, set |-> s, del |-> t] : s \in UpTo(as, n), t \in UpTo(as, d)}
Request(v, bs, r) == [via |-> v, query |-> "good", blocks |-> bs, root |-> r, forbidden |-> FALSE]
NoRequest == Request("http", <<>>, "none")
EmptyBlock == [as |-> "object", set |-> <<>>, del |-> <<>>]
Requests ==
    {Request("http", <<b>>, "uid") : b \in Blocks("text", 2, 1)}
    \cup {[Request("grpc", <<b>>, "none") EXCEPT !.query = "empty"] : b \in Blocks("object", 2, 1)}
    \cup {Request("grpc", <<b, c>>, "func") : b \in Blocks("text", 1, 0), c \in Blocks("object", 1, 1)}
    \cup {Request(v, <<>>, r) : v \in {"http", "grpc"}, r \in {"none", "uid", "func"}}
    \cup {[Request(v, <<>>, "none") EXCEPT !.query = t] : v \in {"http", "grpc"}, t \in {"empty", "bad"}}
    \cup {[Request("grpc", <<b>>, "uid") EXCEPT !.forbidden = TRUE] :
             b \in {EmptyBlock, [EmptyBlock EXCEPT !.set = <<Quad(A, <<1>>, B)>>]}}

VARIABLES
    part,
    ldCall, ldFile, ldReader, input, cnq, ldParser, ldHandler, ldPlist, ldErr, ctr, loaded,
    ldEvicted,
    shStore, shBefore, shLeader, gkeys, served, wire, kvs, kvsClosed, batch, writer,
    shHeld, shCall,
    bkStore, bkKey, lastPred, chkv, chkvClosed, chb, chbClosed, bkHeap, bkLen, bkTodo, bkSlice,
    bkFile, bkWriter, bkCall, bkTorn,
    rlLeader, rlMoves, chain, reqids, rlRan, rlBacked, reply,
    mutationMap, prTodo, prAt, prErrors, prReply, prWait, props, che, raftQ, prApplied,
    bmSent, messages, bmAt, bufArray, bufLen, bmCalls, stepped, bmDown, bmBatches, bmTorn,
    pool, poolConns, dialled, closedConns, puState, puConn,
    gcFile, groupConfig, curGroupId, seenDefault, gcResult,
    mrReq, mrBlock, mrStep, mrQuads, mrEdges, allocIds, mrMarked, mrDone, mrReply

L == INSTANCE Loader
S == INSTANCE ShardStream
K == INSTANCE BackupFile
R == INSTANCE BackupRelay
P == INSTANCE Proposals
M == INSTANCE Batching
C == INSTANCE Pool
Q == INSTANCE MutationRequest WITH
       GcFiles <- Files, GcPreds <- {<<1>>, <<1, 2>>, <<2>>, <<3>>}, GcBits <- 3,
       Fingerprint32 <- <<1>> :> 0 @@ <<1, 2>> :> 1 @@ <<2>> :> 5 @@ <<3>> :> 7,
       MrRequests <- Requests, MrUids <- 1..4, Fingerprint64 <- [x |-> 4]

ldVars == <<ldCall, ldFile, ldReader, input, cnq, ldParser, ldHandler, ldPlist, ldErr,
            ctr, loaded, ldEvicted>>
shVars == <<shStore, shBefore, shLeader, gkeys, served, wire, kvs, kvsClosed, batch, writer,
            shHeld, shCall>>
bkVars == <<bkStore, bkKey, lastPred, chkv, chkvClosed, chb, chbClosed, bkHeap, bkLen, bkTodo,
            bkSlice, bkFile, bkWriter, bkCall, bkTorn>>
rlVars == <<rlLeader, rlMoves, chain, reqids, rlRan, rlBacked, reply>>
prVars == <<mutationMap, prTodo, prAt, prErrors, prReply, prWait, props, che, raftQ,
            prApplied>>
bmVars == <<bmSent, messages, bmAt, bufArray, bufLen, bmCalls, stepped, bmDown, bmBatches, bmTorn>>
poVars == <<pool, poolConns, dialled, closedConns, puState, puConn>>
gcVars == <<gcFile, groupConfig, curGroupId, seenDefault, gcResult>>
mrVars == <<mrReq, mrBlock, mrStep, mrQuads, mrEdges, allocIds, mrMarked, mrDone, mrReply>>
rqVars == <<gcVars, mrVars>>
vars == <<part, ldVars, shVars, bkVars, rlVars, prVars, bmVars, poVars, rqVars>>

Init ==
    /\ part \in {"load", "shard", "backup", "relay", "http", "grpc", "batch", "pool", "conf", "request"}
    /\ L!Init /\ S!Init /\ K!Init /\ R!Init /\ P!Init /\ M!Init /\ C!Init
    /\ part # "conf" => gcFile = OneFile
    /\ part # "request" => mrReq = NoRequest
    /\ Q!Init
    /\ part # "relay" => rlLeader = CHOOSE n \in RlNodes : TRUE

Load(Step) == part = "load" /\ Step
    /\ UNCHANGED <<part, shVars, bkVars, rlVars, prVars, bmVars, poVars, rqVars>>
Shard(Step) == part = "shard" /\ Step
    /\ UNCHANGED <<part, ldVars, bkVars, rlVars, prVars, bmVars, poVars, rqVars>>
Backup(Step) == part = "backup" /\ Step
    /\ UNCHANGED <<part, ldVars, shVars, rlVars, prVars, bmVars, poVars, rqVars>>
Relay(Step) == part = "relay" /\ Step
    /\ UNCHANGED <<part, ldVars, shVars, bkVars, prVars, bmVars, poVars, rqVars>>
Propose(Step) == part \in {"http", "grpc"} /\ Step
    /\ UNCHANGED <<part, ldVars, shVars, bkVars, rlVars, bmVars, poVars, rqVars>>
Batch(Step) == part = "batch" /\ Step
    /\ UNCHANGED <<part, ldVars, shVars, bkVars, rlVars, prVars, poVars, rqVars>>
Pooling(Step) == part = "pool" /\ Step
    /\ UNCHANGED <<part, ldVars, shVars, bkVars, rlVars, prVars, bmVars, rqVars>>
Serving(Step) == part \in {"conf", "request"} /\ Step
    /\ UNCHANGED <<part, ldVars, shVars, bkVars, rlVars, prVars, bmVars, poVars>>

Next ==
    \/ Load(L!Next) \/ Shard(S!Next) \/ Backup(K!Next) \/ Relay(R!Next)
    \/ Propose(P!Next) \/ Batch(M!Next) \/ Pooling(C!Next) \/ Serving(Q!Next)

(* What the fairness of each part is about: HttpFairness and GrpcFairness of
   Proposals, Fairness of the others. *)
Running ==
    \/ Load(L!Goroutines) \/ Shard(S!Running) \/ Backup(K!Goroutines) \/ Propose(P!Goroutines)
    \/ part = "http" /\ Propose(\E g \in PrGroups : P!ctxDone(g))
    \/ part = "grpc" /\ Propose(\E g \in PrGroups : P!process(g) \/ P!Lose(g))

Spec == Init /\ [][Next]_vars /\ WF_vars(Running)

-----------------------------------------------------------------------------
(* What is moved arrives: LoadEdges that returns no error has asked for every
   write of every line of its groups once, and no more of them were refused than
   lists were held when evictions began; populateShard misses no list of the
   leader but behind a twin key; a backup that reports success has the text of
   each list of its group once, but for keys that look like index keys, unless a
   cell of a buffer was overwritten before it was written to the file. *)
TransfersAreComplete == L!LoadIsComplete /\ S!OnlyTwinsAreMissed /\ K!BackupHasTheGroup

(* A mutation that is reported as done is applied in all its groups, and what
   is applied for a request is what its quads say. *)
AckedIsApplied == P!AckedIsApplied /\ Q!RequestIsItsQuads

(* Nothing is done twice or by two: a predicate has one group; a relayed
   backup request is run by one server, once; a peer steps into its Raft only
   what was sent to it; and a connection is in one pool, with one user, or
   closed. *)
EachInOnePlace ==
    /\ Q!EachPredicateInOneGroup /\ R!OneBackupPerRequest
    /\ M!PeersStepTheirMessages /\ C!EveryConnectionOnce

(* A pool once installed for an address is never replaced: a caller returns its
   connection to the pool it came from. *)
PoolIsNeverReplaced == [][pool # "none" => pool' = pool]_vars

(* LoadEdges, populateShard, backup and MutateOverNetwork return once they are
   called, also when goroutines fail while their channels are full.  LoadEdges
   needs more handlers than failing conversions (it has 3000): a handler that
   fails takes no further quad.  backup needs a store without a key that it seeks
   for ever, and is stuck with a converter that has a buffer for a writer who gave
   up, if the channel is full.  MutateOverNetwork returns by the deadline of an
   HTTP request whatever Raft does; a gRPC request without a deadline hangs only
   on a proposal that Raft has lost. *)
CallsReturn ==
    (\/ part = "load" /\ ldCall = "loading"
     \/ part = "shard" /\ shCall # "idle"
     \/ part = "backup" /\ bkCall = "scan" /\ ~K!SeeksInPlace
     \/ part \in {"http", "grpc"} /\ prReply = "none")
    ~>
    (\/ part = "load" /\ ldCall = "returned"
     \/ part = "shard" /\ shCall \in {"ok", "error"}
     \/ part = "backup" /\ (bkCall \in {"ok", "error", "crash"} \/ K!SendsToNobody)
     \/ part \in {"http", "grpc"} /\ prReply \in {"nil", "error"}
     \/ part = "grpc" /\ P!WaitsForLost)
=============================================================================
