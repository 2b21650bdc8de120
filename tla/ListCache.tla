------------------------------ MODULE ListCache ------------------------------
(***************************************************************************)
(* The cache of posting lists (posting/lists.go, posting/hash.go): the map *)
(* of lists, their reference counts and the pool they come from, the       *)
(* channel of dirty keys, gentle merges, and the eviction that stops the   *)
(* world when memory runs out.                                             *)
(*                                                                         *)
(* Clients run GetOrCreate, use the list (one AddMutation, or a read) and  *)
(* drop their reference; periodicMerging is one goroutine, gentle merges   *)
(* and the workers of MergeLists are others.  What a list contains is the  *)
(* set of mutations applied to it: every mutation is an Add of its own, so *)
(* losing one shows.  PostingList has the layers of one list in detail.    *)
(***************************************************************************)
EXTENDS Integers, Sequences, FiniteSets

CONSTANTS
  Keys,        \* keys of posting lists (their fingerprints)
  Ptrs,        \* List objects; a bound on how many exist at a time
  Clients, Mergers, Workers,
               \* callers of GetOrCreate, gentle merges that may run at the
               \* same time (gentleMergeChan), goroutines of MergeLists
  Mutations,   \* each is applied at most once: a bound on AddMutation calls
  DirtyCap,    \* capacity of dirtyChan
  MergeBatch,  \* how many keys one gentle merge takes
  MayEvict,    \* memory usage can exceed stw_ram_mb
  Nil

\* Goroutines of the three kinds are different ones, and there are finitely many.
\* A client that has its list sends to dirtyChan at most once before it
\* calls GetOrCreate again: this is what the capacity must allow for.
ASSUME CacheAssumption ==
  /\ IsFiniteSet(Keys) /\ IsFiniteSet(Clients) /\ IsFiniteSet(Workers)
  /\ Mergers \cap Workers = {} /\ Clients \cap (Mergers \cup Workers) = {}
  /\ DirtyCap \in Nat /\ DirtyCap >= Cardinality(Clients)
  /\ MergeBatch \in Nat \ {0}
  /\ MayEvict \in BOOLEAN
  /\ Nil \notin Keys \cup Ptrs \cup Mutations \cup Clients \cup Mergers \cup Workers

VARIABLES
  store,       \* key -> mutations in RocksDB
  lists,       \* List objects
  pool,        \* objects in listPool, or not allocated yet
  lhmap,       \* key -> object or Nil
  client,      \* client -> its call
  committer,   \* gentle merge or worker -> its state
  dirtyChan,
  dirtyMap,
  periodic,    \* where periodicMerging is
  workChan,    \* objects MergeLists has yet to merge
  acked        \* key -> mutations whose AddMutation has returned

vars == <<store, lists, pool, lhmap, client, committer, dirtyChan, dirtyMap,
          periodic, workChan, acked>>

Committers == Mergers \cup Workers

List == [key : Keys \cup {Nil}, refcount : Nat, ready : BOOLEAN,
         deleteMe : BOOLEAN, dirty : BOOLEAN, mlayer : SUBSET Mutations,
         pbuffer : (SUBSET Mutations) \cup {Nil},
         lock : Clients \cup Committers \cup {Nil}]

\* What getNew makes of an object: *l = List{}, wg.Add(1), refcount = 1.
NewList == [key |-> Nil, refcount |-> 1, ready |-> FALSE, deleteMe |-> FALSE,
            dirty |-> FALSE, mlayer |-> {}, pbuffer |-> Nil, lock |-> Nil]

\* pc, the key, lp (the list GetOrCreate returns), l (the one it made) and the
\* mutation that is under way.
Call == [pc : {"idle", "get", "put", "incr", "init", "have", "lock", "send", "release"},
         key : Keys \cup {Nil}, lp : Ptrs \cup {Nil}, l : Ptrs \cup {Nil},
         mut : Mutations \cup {Nil}]
IdleClient == [pc |-> "idle", key |-> Nil, lp |-> Nil, l |-> Nil, mut |-> Nil]

Merge == [pc : {"idle", "next", "delete", "check", "commit", "locked", "done"},
          keys : SUBSET Keys, l : Ptrs \cup {Nil}]
IdleCommitter == [pc |-> "idle", keys |-> {}, l |-> Nil]

Init ==
  /\ store = [k \in Keys |-> {}]
  /\ lists = [p \in Ptrs |-> [NewList EXCEPT !.refcount = 0]]
  /\ pool = Ptrs
  /\ lhmap = [k \in Keys |-> Nil]
  /\ client = [c \in Clients |-> IdleClient]
  /\ committer = [x \in Committers |-> IdleCommitter]
  /\ dirtyChan = <<>>
  /\ dirtyMap = {}
  /\ periodic = "select"
  /\ workChan = {}
  /\ acked = [k \in Keys |-> {}]

-----------------------------------------------------------------------------
(* Reference counts *)

incr(p) == lists' = [lists EXCEPT ![p].refcount = @ + 1]

\* Mutant: the object goes back to the pool with its last reference left.
decrEarly(p) ==
  /\ lists' = [lists EXCEPT ![p].refcount = @ - 1]
  /\ pool' = IF lists[p].refcount = 2 THEN pool \cup {p} ELSE pool

\* At zero the object goes back to the pool.
decr(p) ==
  /\ lists' = [lists EXCEPT ![p].refcount = @ - 1]
  /\ pool' = IF lists[p].refcount = 1 THEN pool \cup {p} ELSE pool

\* GetOrCreate runs under the read lock of stopTheWorld.
InGetOrCreate == {c \in Clients : client[c].pc \in {"get", "put", "incr", "init"}}
WorldStopped == periodic # "select"

-----------------------------------------------------------------------------
(* GetOrCreate *)

\* Mutant: a writer that waits does not hold readers back.
EnterUnlessLocked == periodic \in {"select", "stop"}

\* A writer that waits for stopTheWorld holds new readers back.
EnterAllowed == ~WorldStopped

GetOrCreate(c) ==
  /\ client[c].pc = "idle"
  /\ EnterAllowed
  /\ \E k \in Keys : client' = [client EXCEPT ![c].pc = "get", ![c].key = k]
  /\ UNCHANGED <<store, lists, pool, lhmap, committer, dirtyChan, dirtyMap,
                 periodic, workChan, acked>>

GetFound(c) ==
  /\ client[c].pc = "get"
  /\ lhmap[client[c].key] # Nil
  /\ client' = [client EXCEPT ![c].pc = "incr", ![c].lp = lhmap[client[c].key]]
  /\ UNCHANGED <<store, lists, pool, lhmap, committer, dirtyChan, dirtyMap,
                 periodic, workChan, acked>>

getNew(c) ==
  /\ client[c].pc = "get"
  /\ lhmap[client[c].key] = Nil
  /\ \E p \in pool :
       /\ pool' = pool \ {p}
       /\ lists' = [lists EXCEPT ![p] = NewList]
       /\ client' = [client EXCEPT ![c].pc = "put", ![c].l = p]
  /\ UNCHANGED <<store, lhmap, committer, dirtyChan, dirtyMap, periodic,
                 workChan, acked>>

\* Mutant: an ordinary put, which replaces what another caller has put.
PutAlways(k, p) == p

\* What PutIfMissing leaves under the key and returns.
PutIfMissing(k, p) == IF lhmap[k] = Nil THEN p ELSE lhmap[k]

PutNew(c) ==
  LET k == client[c].key
      lp == PutIfMissing(k, client[c].l)
  IN  /\ client[c].pc = "put"
      /\ lhmap' = [lhmap EXCEPT ![k] = lp]
      /\ client' = [client EXCEPT ![c].pc = "incr", ![c].lp = lp]
      /\ UNCHANGED <<store, lists, pool, committer, dirtyChan, dirtyMap,
                     periodic, workChan, acked>>

TakeReference(c) ==
  /\ client[c].pc = "incr"
  /\ incr(client[c].lp)
  /\ client' = [client EXCEPT ![c].pc = IF client[c].l = Nil THEN "have" ELSE "init"]
  /\ UNCHANGED <<store, pool, lhmap, committer, dirtyChan, dirtyMap, periodic,
                 workChan, acked>>

init(p, k) == lists' = [lists EXCEPT ![p].key = k, ![p].ready = TRUE]

\* Mutant: the object that lost the race keeps the reference of getNew.
UndoForgotten(p) == UNCHANGED <<lists, pool>>

UndoGetNew(p) == decr(p)

InitOrUndo(c) ==
  /\ client[c].pc = "init"
  /\ IF client[c].lp = client[c].l
     THEN init(client[c].l, client[c].key) /\ UNCHANGED pool
     ELSE UndoGetNew(client[c].l)
  /\ client' = [client EXCEPT ![c].pc = "have", ![c].l = Nil]
  /\ UNCHANGED <<store, lhmap, committer, dirtyChan, dirtyMap, periodic,
                 workChan, acked>>

-----------------------------------------------------------------------------
(* AddMutation, and the caller's decr.  A caller that only reads the list  *)
(* goes from "have" to Release.                                            *)

InFlight == {client[c].mut : c \in Clients} \ {Nil}
Fresh == Mutations \ (InFlight \cup UNION {acked[k] : k \in Keys})

\* wg.Wait, then the look at deleteMe: ErrRetry if it is set.
AddMutation(c) ==
  /\ client[c].pc = "have"
  /\ lists[client[c].lp].ready
  /\ IF lists[client[c].lp].deleteMe
     THEN client' = [client EXCEPT ![c].pc = "release"]
     ELSE \E m \in Fresh : client' = [client EXCEPT ![c].pc = "lock", ![c].mut = m]
  /\ UNCHANGED <<store, lists, pool, lhmap, committer, dirtyChan, dirtyMap,
                 periodic, workChan, acked>>

\* Mutant: the mark is left as it is.
MarkForgotten(l) == l.dirty

DirtyMark(l) == TRUE

\* The layers change under the list's lock, which stays held until dirtyChan
\* takes the key.
AddMutationUpdate(c) ==
  LET l == lists[client[c].lp]
  IN  /\ client[c].pc = "lock"
      /\ l.lock = Nil
      /\ lists' = [lists EXCEPT ![client[c].lp] =
                    [l EXCEPT !.lock = c, !.dirty = DirtyMark(l),
                              !.mlayer = @ \cup {client[c].mut},
                              !.pbuffer = IF @ = Nil THEN store[l.key] ELSE @]]
      /\ client' = [client EXCEPT ![c].pc = "send"]
      /\ UNCHANGED <<store, pool, lhmap, committer, dirtyChan, dirtyMap,
                     periodic, workChan, acked>>

Room == Len(dirtyChan) < DirtyCap

SendDirty(c) ==
  /\ client[c].pc = "send"
  /\ Room
  /\ dirtyChan' = Append(dirtyChan, lists[client[c].lp].key)
  /\ lists' = [lists EXCEPT ![client[c].lp].lock = Nil]
  /\ acked' = [acked EXCEPT ![client[c].key] = @ \cup {client[c].mut}]
  /\ client' = [client EXCEPT ![c].pc = "release", ![c].mut = Nil]
  /\ UNCHANGED <<store, pool, lhmap, committer, dirtyMap, periodic, workChan>>

Release(c) ==
  /\ client[c].pc \in {"have", "release"}
  /\ decr(client[c].lp)
  /\ client' = [client EXCEPT ![c] = IdleClient]
  /\ UNCHANGED <<store, lhmap, committer, dirtyChan, dirtyMap, periodic,
                 workChan, acked>>

-----------------------------------------------------------------------------
(* periodicMerging: its two select cases, and gentleMerge *)

ReceiveDirty ==
  /\ periodic = "select"
  /\ dirtyChan # <<>>
  /\ dirtyMap' = dirtyMap \cup {Head(dirtyChan)}
  /\ dirtyChan' = Tail(dirtyChan)
  /\ UNCHANGED <<store, lists, pool, lhmap, client, committer, periodic,
                 workChan, acked>>

LeftInDirtyMap(S) == dirtyMap \ S

\* With no room in gentleMergeChan the merge is skipped.
gentleMerge ==
  /\ periodic = "select"
  /\ \E g \in Mergers, S \in SUBSET dirtyMap :
       /\ committer[g].pc = "idle"
       /\ S # {}
       /\ Cardinality(S) <= MergeBatch
       /\ S # dirtyMap => Cardinality(S) = MergeBatch
       /\ committer' = [committer EXCEPT ![g] = [pc |-> "next", keys |-> S, l |-> Nil]]
       /\ dirtyMap' = LeftInDirtyMap(S)
  /\ UNCHANGED <<store, lists, pool, lhmap, client, dirtyChan, periodic,
                 workChan, acked>>

\* mergeAndUpdateKeys looks the list up and takes no reference to it.
NextKey(g) ==
  /\ committer[g].pc = "next"
  /\ IF committer[g].keys = {}
     THEN committer' = [committer EXCEPT ![g] = IdleCommitter]
     ELSE \E k \in committer[g].keys :
            committer' = [committer EXCEPT
              ![g] = [pc |-> IF lhmap[k] = Nil THEN "next" ELSE "check",
                      keys |-> committer[g].keys \ {k}, l |-> lhmap[k]]]
  /\ UNCHANGED <<store, lists, pool, lhmap, client, dirtyChan, dirtyMap,
                 periodic, workChan, acked>>

-----------------------------------------------------------------------------
(* mergeAndUpdate: CommitIfDirty and commit *)

Merged(x) == IF x \in Mergers THEN "next" ELSE "done"

CommitIfDirty(x) ==
  /\ committer[x].pc = "check"
  /\ committer' = [committer EXCEPT ![x].pc =
                     IF lists[committer[x].l].dirty THEN "commit" ELSE Merged(x)]
  /\ UNCHANGED <<store, lists, pool, lhmap, client, dirtyChan, dirtyMap,
                 periodic, workChan, acked>>

CommitLock(x) ==
  /\ committer[x].pc = "commit"
  /\ lists[committer[x].l].ready
  /\ lists[committer[x].l].lock = Nil
  /\ lists' = [lists EXCEPT ![committer[x].l].lock = x]
  /\ committer' = [committer EXCEPT ![x].pc = "locked"]
  /\ UNCHANGED <<store, pool, lhmap, client, dirtyChan, dirtyMap, periodic,
                 workChan, acked>>

\* (If the object was reset under its holder the unlock is a fatal error of the
\* Go runtime, and the goroutine goes no further.)
Commit(x) ==
  LET l == lists[committer[x].l]
      plist == IF l.pbuffer = Nil THEN store[l.key] ELSE l.pbuffer
  IN  /\ committer[x].pc = "locked"
      /\ l.lock = x
      /\ IF l.mlayer = {}
         THEN /\ lists' = [lists EXCEPT ![committer[x].l].dirty = FALSE,
                                        ![committer[x].l].lock = Nil]
              /\ UNCHANGED store
         ELSE /\ store' = [store EXCEPT ![l.key] = plist \cup l.mlayer]
              /\ lists' = [lists EXCEPT ![committer[x].l] =
                            [l EXCEPT !.pbuffer = Nil, !.dirty = FALSE,
                                      !.mlayer = {}, !.lock = Nil]]
      /\ committer' = [committer EXCEPT ![x].pc = Merged(x)]
      /\ UNCHANGED <<pool, lhmap, client, dirtyChan, dirtyMap, periodic,
                     workChan, acked>>

-----------------------------------------------------------------------------
(* The eviction: periodicMerging stops the world and runs MergeLists.      *)

\* stopTheWorld.Lock, from the moment new readers are held back.
StopTheWorld ==
  /\ MayEvict
  /\ periodic = "select"
  /\ periodic' = "stop"
  /\ UNCHANGED <<store, lists, pool, lhmap, client, committer, dirtyChan,
                 dirtyMap, workChan, acked>>

WorldLocked ==
  /\ periodic = "stop"
  /\ InGetOrCreate = {}
  /\ periodic' = "flush"
  /\ UNCHANGED <<store, lists, pool, lhmap, client, committer, dirtyChan,
                 dirtyMap, workChan, acked>>

\* "posting lists which are currently being processed to not get stuck"
Flush == IF dirtyChan = <<>> THEN <<>> ELSE Tail(dirtyChan)

FlushDirtyChan ==
  /\ periodic = "flush"
  /\ dirtyChan' = Flush
  /\ periodic' = IF dirtyChan = Flush THEN "evict" ELSE "flush"
  /\ UNCHANGED <<store, lists, pool, lhmap, client, committer, dirtyMap,
                 workChan, acked>>

\* EachWithDelete: the map's reference goes to workChan.
EachWithDelete ==
  /\ periodic = "evict"
  /\ \E k \in Keys :
       /\ lhmap[k] # Nil
       /\ lhmap' = [lhmap EXCEPT ![k] = Nil]
       /\ workChan' = workChan \cup {lhmap[k]}
  /\ UNCHANGED <<store, lists, pool, client, committer, dirtyChan, dirtyMap,
                 periodic, acked>>

TakeWork(w) ==
  /\ committer[w].pc = "idle"
  /\ \E p \in workChan :
       /\ workChan' = workChan \ {p}
       /\ committer' = [committer EXCEPT ![w].pc = "delete", ![w].l = p]
  /\ UNCHANGED <<store, lists, pool, lhmap, client, dirtyChan, dirtyMap,
                 periodic, acked>>

SetForDeletion(w) ==
  /\ committer[w].pc = "delete"
  /\ lists[committer[w].l].ready
  /\ lists' = [lists EXCEPT ![committer[w].l].deleteMe = TRUE]
  /\ committer' = [committer EXCEPT ![w].pc = "check"]
  /\ UNCHANGED <<store, pool, lhmap, client, dirtyChan, dirtyMap, periodic,
                 workChan, acked>>

WorkDone(w) ==
  /\ committer[w].pc = "done"
  /\ decr(committer[w].l)
  /\ committer' = [committer EXCEPT ![w] = IdleCommitter]
  /\ UNCHANGED <<store, lhmap, client, dirtyChan, dirtyMap, periodic,
                 workChan, acked>>

\* Mutant: MergeLists returns without waiting for its workers.
AllMergedNotWaiting == workChan = {}

\* wg.Wait at the end of MergeLists.
AllMerged == workChan = {} /\ \A w \in Workers : committer[w].pc = "idle"

EvictDone ==
  /\ periodic = "evict"
  /\ \A k \in Keys : lhmap[k] = Nil
  /\ AllMerged
  /\ dirtyMap' = {}
  /\ periodic' = "select"
  /\ UNCHANGED <<store, lists, pool, lhmap, client, committer, dirtyChan,
                 workChan, acked>>

-----------------------------------------------------------------------------
\* What a client does by itself once it is in GetOrCreate or AddMutation.
ClientStep(c) ==
  \/ GetFound(c) \/ getNew(c) \/ PutNew(c) \/ TakeReference(c) \/ InitOrUndo(c)
  \/ AddMutationUpdate(c) \/ SendDirty(c) \/ Release(c)

CommitterStep(x) == CommitIfDirty(x) \/ CommitLock(x) \/ Commit(x)
WorkerStep(w) == TakeWork(w) \/ SetForDeletion(w) \/ WorkDone(w)
EvictStep == WorldLocked \/ FlushDirtyChan \/ EachWithDelete \/ EvictDone

Next ==
  \/ \E c \in Clients : GetOrCreate(c) \/ AddMutation(c) \/ ClientStep(c)
  \/ ReceiveDirty \/ gentleMerge \/ StopTheWorld \/ EvictStep
  \/ \E g \in Mergers : NextKey(g)
  \/ \E x \in Committers : CommitterStep(x)
  \/ \E w \in Workers : WorkerStep(w)

Spec == Init /\ [][Next]_vars

\* Goroutines that can run do; the ticker and dirtyChan are both served.  No
\* client has to come back, and memory does not have to run out.
FairSpec ==
  /\ Spec
  /\ \A c \in Clients : WF_vars(ClientStep(c))
  /\ WF_vars(ReceiveDirty) /\ WF_vars(gentleMerge) /\ WF_vars(EvictStep)
  /\ \A g \in Mergers : WF_vars(NextKey(g))
  /\ \A x \in Committers : WF_vars(CommitterStep(x))
  /\ \A w \in Workers : WF_vars(WorkerStep(w))

-----------------------------------------------------------------------------
(* Properties *)

TypeOK ==
  /\ store \in [Keys -> SUBSET Mutations]
  /\ lists \in [Ptrs -> List]
  /\ pool \subseteq Ptrs
  /\ lhmap \in [Keys -> Ptrs \cup {Nil}]
  /\ client \in [Clients -> Call]
  /\ committer \in [Committers -> Merge]
  /\ dirtyChan \in Seq(Keys) /\ Len(dirtyChan) <= DirtyCap
  /\ dirtyMap \subseteq Keys
  /\ periodic \in {"select", "stop", "flush", "evict"}
  /\ workChan \subseteq Ptrs
  /\ acked \in [Keys -> SUBSET Mutations]

Using == {c \in Clients : client[c].pc \in {"init", "have", "lock", "send", "release"}}

\* Who has a counted reference to p: the map, MergeLists, the callers that
\* GetOrCreate has returned it to, and the one that has just made it.
References(p) ==
  Cardinality({k \in Keys : lhmap[k] = p})
    + (IF p \in workChan THEN 1 ELSE 0)
    + Cardinality({w \in Workers : committer[w].l = p})
    + Cardinality({c \in Using : client[c].lp = p})
    + Cardinality({c \in Clients :
        client[c].l = p /\ (client[c].pc = "put" \/ client[c].lp \notin {Nil, p})})

\* The reference counts are exact: no decr can take one below zero (the
\* assertion in decr), no list is pooled while someone has a reference to it,
\* and none is leaked.
RefCountsExact ==
  /\ TypeOK
  /\ \A p \in Ptrs :
       IF p \in pool THEN References(p) = 0
       ELSE lists[p].refcount = References(p) /\ References(p) > 0

\* The list GetOrCreate returned stays the list of the key it was asked for,
\* until the caller drops its reference: it is not reset for another key.
HeldListsStay ==
  \A c \in Clients :
    client[c].pc \in {"have", "lock", "send", "release"} =>
      /\ client[c].lp \notin pool
      /\ lists[client[c].lp].ready => lists[client[c].lp].key = client[c].key

\* A key never has two lists that accept mutations: an evicted list is merged
\* and marked before GetOrCreate can make another for the key.
OneOpenList ==
  \A p, q \in Ptrs \ pool :
    LET Open(r) == lists[r].ready /\ ~lists[r].deleteMe
    IN  Open(p) /\ Open(q) /\ lists[p].key = lists[q].key => p = q

\* The goroutine x is about to look at the dirty mark of p or to merge p.
WillMerge(x, p) == committer[x].l = p /\ committer[x].pc \in {"delete", "check", "commit", "locked"}

\* No list in the map is forgotten by the merges: while it has mutations, its
\* key is in dirtyChan, in dirtyMap, or in the hands of a merge, a client
\* that is about to send it, or an eviction.
DirtyListsTracked ==
  \A k \in Keys :
    lhmap[k] # Nil /\ lists[lhmap[k]].mlayer # {} =>
      \/ \E i \in 1..Len(dirtyChan) : dirtyChan[i] = k
      \/ k \in dirtyMap
      \/ \E x \in Committers : k \in committer[x].keys \/ WillMerge(x, lhmap[k])
      \/ \E c \in Clients : client[c].pc = "send" /\ client[c].lp = lhmap[k]
      \/ periodic \in {"flush", "evict"}

\* A mutation that AddMutation has acknowledged is in the store, or in the list
\* that the next GetOrCreate of its key returns.
AckedNotLost ==
  \A k \in Keys :
    acked[k] \subseteq store[k] \cup (IF lhmap[k] = Nil THEN {} ELSE lists[lhmap[k]].mlayer)

\* Every acknowledged mutation reaches the store by the gentle merges alone.
MutationsGetMerged ==
  \A k \in Keys, m \in Mutations : m \in acked[k] ~> m \in store[k]

\* The world does not stay stopped: no list that an eviction has to merge is
\* held by a goroutine that is stuck on dirtyChan.
EvictionEnds == WorldStopped ~> ~WorldStopped

\* A list marked by SetForDeletion, once merged, has nothing left to merge: "no
\* more mutations can be applied to this".
EvictedListsStayMerged ==
  \A p \in Ptrs \ pool :
    lists[p].deleteMe /\ ~(\E x \in Committers : WillMerge(x, p)) => lists[p].mlayer = {}
=============================================================================
