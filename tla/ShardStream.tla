----------------------------- MODULE ShardStream ----------------------------
(***************************************************************************)
(* worker/predicate.go: a server brings its store up to date from its      *)
(* leader.  It sends the keys and checksums it has (generateGroup), the    *)
(* leader streams the lists that differ (PredicateData), and populateShard *)
(* passes them through a channel to writeBatch, which writes in batches.   *)
(*                                                                         *)
(* A list is its checksum.  generateGroup keeps k.Data() of keys the       *)
(* iterator has left behind, bytes of C memory: KeyBytes lists what they   *)
(* may read as when the request is encoded.                                *)
(***************************************************************************)
EXTENDS GoSort, FiniteSets, FiniteSetsExt

CONSTANTS
    NumKeys,     \* keys are 1..NumKeys, in the order of the store
    Lists,       \* posting lists (checksums)
    KvsCap,      \* capacity of the channel kvs (1000)
    BatchMax,    \* entries that fill a write batch (32 MB)
    KeyBytes     \* subset of {"own", "later"}: what a kept key reads as

VARIABLES
    shStore,     \* the follower's store
    shBefore,    \* history: the store when the call started
    shLeader,    \* the leader's store, as its iterator sees it
    gkeys,       \* the request: a sequence of [key, sum]
    served,      \* PredicateData: last key its iterator has passed
    wire,        \* the gRPC stream
    kvs,         \* the channel to writeBatch
    kvsClosed,
    batch,       \* writeBatch: the entries of the write batch
    writer,      \* "run", "failed" or "wrote" (both blocked on che), "end"
    shHeld,      \* populateShard: the list it received last
    shCall       \* populateShard: "idle", "recv", "select", "wait", "ok", "error"

shVars == <<shStore, shBefore, shLeader, gkeys, served, wire, kvs, kvsClosed,
            batch, writer, shHeld, shCall>>

Keys == 1..NumKeys
None == 0                               \* no such key
KVs == [key : Keys, val : Lists]
Eof == [key |-> 0, val |-> 0]           \* the leader closed the stream
Broken == [key |-> 0, val |-> 1]        \* the stream ended with an error
Present(s) == {k \in Keys : s[k] # None}
InOrder(S) == CHOOSE q \in [1..Cardinality(S) -> S] :
                  \A i, j \in DOMAIN q : i < j => q[i] < q[j]

Init ==
    /\ shStore = [k \in Keys |-> None]
    /\ shBefore = shStore
    /\ shLeader = shStore
    /\ gkeys = <<>> /\ served = 0 /\ wire = <<>>
    /\ kvs = <<>> /\ kvsClosed = FALSE
    /\ batch = <<>>
    /\ writer = "end"
    /\ shCall = "idle" /\ shHeld = Eof

(* generateGroup: every key of the store with its checksum. *)
generateGroup(store) ==
    LET own == InOrder(Present(store))
        reads(i) == {own[i]} \cup IF "later" \in KeyBytes
                                  THEN {own[j] : j \in i..Len(own)} ELSE {}
    IN  {g \in [DOMAIN own -> [key : Keys, sum : Lists]] :
            \A i \in DOMAIN own : g[i].key \in reads(i) /\ g[i].sum = store[own[i]]}

(* populateShard is called: any two stores, the request is made and the
   stream opened, writeBatch is started. *)
populateShard ==
    /\ shCall = "idle"
    /\ \E mine, theirs \in [Keys -> Lists \cup {None}] :
        /\ shStore' = mine /\ shBefore' = mine /\ shLeader' = theirs
        /\ gkeys' \in generateGroup(mine)
    /\ shCall' = "recv"
    /\ writer' = "run"
    /\ UNCHANGED <<served, wire, kvs, kvsClosed, batch, shHeld>>

(* PredicateData: binary search for the key in the request; the list is
   left out when the entry found has this key and this checksum. *)
upToDate(k) ==
    LET idx == Search([i \in DOMAIN gkeys |-> k <= gkeys[i].key])
    IN  idx <= Len(gkeys) /\ gkeys[idx] = [key |-> k, sum |-> shLeader[k]]

PredicateData ==
    /\ shCall # "idle" /\ served <= NumKeys
    /\ LET left == {k \in Present(shLeader) : k > served}
           k == Min(left)
       IN  IF left = {}
           THEN served' = NumKeys + 1 /\ wire' = Append(wire, Eof)
           ELSE /\ served' = k
                /\ wire' = IF upToDate(k) THEN wire
                           ELSE Append(wire, [key |-> k, val |-> shLeader[k]])
    /\ UNCHANGED <<shStore, shBefore, shLeader, gkeys, kvs, kvsClosed, batch,
                   writer, shHeld, shCall>>

(* The connection breaks: what is still in flight is lost. *)
StreamBreaks ==
    /\ shCall # "idle" /\ served <= NumKeys
    /\ served' = NumKeys + 1
    /\ wire' = <<Broken>>
    /\ UNCHANGED <<shStore, shBefore, shLeader, gkeys, kvs, kvsClosed, batch,
                   writer, shHeld, shCall>>

(* stream.Recv: a list to pass on, the end of the stream, or an error that
   ends the call with the channel closed and nobody left to read che. *)
Recv ==
    /\ shCall = "recv" /\ wire # <<>>
    /\ wire' = Tail(wire)
    /\ shHeld' = Head(wire)
    /\ shCall' = CASE shHeld' = Eof -> "wait" [] shHeld' = Broken -> "error"
                   [] OTHER -> "select"
    /\ kvsClosed' = (shCall' # "select")
    /\ UNCHANGED <<shStore, shBefore, shLeader, gkeys, served, kvs, batch, writer>>

(* The select: the list goes into the channel, or the context ended, or
   writeBatch reports a failed write. *)
pushKV ==
    /\ shCall = "select" /\ Len(kvs) < KvsCap
    /\ kvs' = Append(kvs, shHeld)
    /\ shCall' = "recv"
    /\ UNCHANGED <<shStore, shBefore, shLeader, gkeys, served, wire, kvsClosed,
                   batch, writer, shHeld>>

ctxDone ==
    /\ shCall = "select"
    /\ kvsClosed' = TRUE
    /\ shCall' = "error"
    /\ UNCHANGED <<shStore, shBefore, shLeader, gkeys, served, wire, kvs, batch,
                   writer, shHeld>>

writeFailed ==
    /\ shCall = "select" /\ writer = "failed"
    /\ kvsClosed' = TRUE
    /\ shCall' = "error"
    /\ writer' = "end"
    /\ UNCHANGED <<shStore, shBefore, shLeader, gkeys, served, wire, kvs, batch,
                   shHeld>>

(* After the stream: close(kvs), then the verdict of writeBatch. *)
waitWriter ==
    /\ shCall = "wait" /\ writer \in {"failed", "wrote"}
    /\ shCall' = IF writer = "failed" THEN "error" ELSE "ok"
    /\ writer' = "end"
    /\ UNCHANGED <<shStore, shBefore, shLeader, gkeys, served, wire, kvs, kvsClosed,
                   batch, shHeld>>

written(b) == [k \in Keys |->
    LET puts == {i \in DOMAIN b : b[i].key = k}
    IN  IF puts = {} THEN shStore[k] ELSE b[Max(puts)].val]

(* writeBatch: an entry joins the batch; a full batch, and what is left when
   the channel is closed, is written, which may fail.  Then it blocks on che. *)
writeBatch ==
    /\ writer = "run"
    /\ \/ /\ kvs # <<>>
          /\ kvs' = Tail(kvs)
          /\ LET b == Append(batch, Head(kvs))
             IN  \/ /\ Len(b) < BatchMax
                    /\ batch' = b /\ UNCHANGED <<shStore, writer>>
                 \/ /\ Len(b) = BatchMax
                    /\ shStore' = written(b) /\ batch' = <<>> /\ UNCHANGED writer
                 \/ /\ Len(b) = BatchMax
                    /\ writer' = "failed" /\ batch' = b /\ UNCHANGED shStore
       \/ /\ kvs = <<>> /\ kvsClosed
          /\ \/ /\ shStore' = written(batch) /\ batch' = <<>> /\ writer' = "wrote"
             \/ /\ batch # <<>> /\ writer' = "failed" /\ UNCHANGED <<shStore, batch>>
          /\ UNCHANGED kvs
    /\ UNCHANGED <<shBefore, shLeader, gkeys, served, wire, kvsClosed, shHeld,
                   shCall>>

Running == PredicateData \/ Recv \/ pushKV \/ writeFailed \/ waitWriter \/ writeBatch

Next == populateShard \/ StreamBreaks \/ ctxDone \/ Running

(* The goroutines on both servers run. *)
Fairness == WF_shVars(Running)

-----------------------------------------------------------------------------
(* The variables have their types. *)
TypeOK ==
    /\ {shStore, shBefore, shLeader} \subseteq [Keys -> Lists \cup {None}]
    /\ gkeys \in Seq([key : Keys, sum : Lists])
    /\ served \in 0..(NumKeys + 1)
    /\ kvs \in Seq(KVs) /\ Len(kvs) <= KvsCap
    /\ batch \in Seq(KVs) /\ Len(batch) <= BatchMax
    /\ kvsClosed \in BOOLEAN
    /\ writer \in {"run", "failed", "wrote", "end"}
    /\ shHeld \in KVs \cup {Eof, Broken}
    /\ shCall \in {"idle", "recv", "select", "wait", "ok", "error"}

(* At no moment has the store anything that is neither its own old list nor
   the leader's, and when populateShard reports success it has every list of
   the leader, however the stream was cut into batches - but for a key it had
   before, if an earlier key had the very list the leader has for this one:
   that key may be read as this one, and then its checksum hides the list. *)
OnlyTwinsAreMissed ==
    /\ TypeOK
    /\ \A k \in Keys : shStore[k] \in {shBefore[k], shLeader[k]}
    /\ shCall = "ok" => \A k \in Present(shLeader) :
          \/ shStore[k] = shLeader[k]
          \/ /\ "later" \in KeyBytes /\ shBefore[k] # None
             /\ \E j \in 1..(k - 1) : shBefore[j] = shLeader[k]

(* When populateShard reports success the store has every list of the leader
   (TestPopulateShard fills an empty store and then compares). *)
ShardIsLeaders ==
    shCall = "ok" => \A k \in Present(shLeader) : shStore[k] = shLeader[k]
=============================================================================
