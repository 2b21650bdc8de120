----------------------------- MODULE PostingList -----------------------------
(***************************************************************************)
(* One posting list in memory (type List of posting/list.go), used by      *)
(* several goroutines at once.                                             *)
(*                                                                         *)
(* Clients call AddMutation and the locked reads, mergers call             *)
(* CommitIfDirty, counters call Length, which takes no lock.  A step of    *)
(* the model is one access to memory that another goroutine can observe:   *)
(* the load of pbuffer, the read of the store and the compare-and-swap of  *)
(* getPostingList are separate steps, and so are the write to the store    *)
(* and the resets of pbuffer and mlayer in commit.                         *)
(*                                                                         *)
(* The list is initialised and is not evicted; the life of a List in the   *)
(* map of lists (init, deleteMe, reference counts, dirtyChan) is ListCache.*)
(***************************************************************************)
EXTENDS PostingLayers

CONSTANTS
  Clients,    \* goroutines that mutate and read the list
  Mergers,    \* goroutines that commit it (gentle merges, eviction)
  Counters,   \* goroutines that call Length
  Nil         \* the nil pointer, and "no goroutine"

Threads == Clients \cup Mergers \cup Counters

ASSUME ThreadsAssumption ==
  /\ Clients \cap Mergers = {}
  /\ Clients \cap Counters = {}
  /\ Mergers \cap Counters = {}
  /\ Nil \notin Threads
  /\ Nil \notin Contents

VARIABLES
  store,      \* the list as RocksDB has it
  pbuffer,    \* List.pbuffer: the immutable layer in memory, or Nil
  mlayer,     \* List.mlayer
  dirty,      \* List.dirtyTs # 0
  writer,     \* the goroutine holding List.RWMutex for writing, or Nil
  readers,    \* the goroutines holding it for reading
  pc,         \* goroutine -> where it is
  call,       \* goroutine -> the mutation it was called with
  plist,      \* goroutine -> the list getPostingList has got hold of
  result      \* goroutine -> what its last call returned

vars == <<store, pbuffer, mlayer, dirty, writer, readers, pc, call, plist, result>>

NoResult == [none |-> TRUE]
Calls == [uid : Uids, op : Ops, val : Vals]
NoCall == [none |-> TRUE]
Results ==
  [mutated : BOOLEAN] \cup [read : Contents] \cup [length : Int]
    \cup [error : {"ValueId cannot be zero"}] \cup {NoResult}

\* "lock", "drain" and "rlock" wait for the mutex; "load", "get" and "cas" are
\* getPostingList; "use" is the code that runs with its result; "clearbuf"
\* and "clearml" are the two resets at the end of commit.
Places == {"idle", "lock", "drain", "rlock", "load", "get", "cas", "use",
           "clearbuf", "clearml"}

Init ==
  /\ store \in Contents
  /\ pbuffer = Nil
  /\ mlayer = EmptyLayer
  /\ dirty = FALSE
  /\ writer = Nil
  /\ readers = {}
  /\ pc = [t \in Threads |-> "idle"]
  /\ call = [t \in Threads |-> NoCall]
  /\ plist = [t \in Threads |-> Nil]
  /\ result = [t \in Threads |-> NoResult]

-----------------------------------------------------------------------------
(* Helpers: the mutex, and where a goroutine goes. *)

Goto(t, place) == pc' = [pc EXCEPT ![t] = place]

\* sync.RWMutex.Lock announces the writer, which holds back later writers and
\* readers, and then waits for the readers that are in to leave.
Announce(t) == writer = Nil /\ writer' = t /\ UNCHANGED readers

\* Mutant: the writer does not wait for the readers.
DrainedAnyway == TRUE

Drained == readers = {}

Unlock(t) == writer' = Nil /\ UNCHANGED readers
RLock(t) == writer = Nil /\ readers' = readers \cup {t} /\ UNCHANGED writer
RUnlock(t) == readers' = readers \ {t} /\ UNCHANGED writer

\* The call of t is over.
Return(t, r) ==
  /\ Goto(t, "idle")
  /\ call' = [call EXCEPT ![t] = NoCall]
  /\ plist' = [plist EXCEPT ![t] = Nil]
  /\ result' = [result EXCEPT ![t] = r]

\* Mutant: a mutation does not mark the list dirty.
DirtyAfterForgotten(ml) == dirty

\* dirtyTs after a mutation that leaves the mutation layer ml.
DirtyAfter(ml) == dirty \/ ml # EmptyLayer

\* Mutant: commit leaves the old immutable layer in memory.
ResetBufferForgotten == UNCHANGED pbuffer

\* What commit does to pbuffer.
ResetBuffer == pbuffer' = Nil

WaitForLock(t) ==
  /\ pc[t] = "lock"
  /\ Announce(t)
  /\ Goto(t, "drain")
  /\ UNCHANGED <<store, pbuffer, mlayer, dirty, call, plist, result>>

-----------------------------------------------------------------------------
(* getPostingList.  There is no need for lock acquisition here, its comment  *)
(* says; under the list's mutex or without it, these are its three accesses. *)

\* Mutant: after a failed compare-and-swap only the store is read again.
RetryFromStore == "get"

\* "Someone else replaced the pointer in the meantime. Retry recursively."
RetryFrom == "load"

LoadBuffer(t) ==
  /\ pc[t] = "load"
  /\ IF pbuffer = Nil
     THEN Goto(t, "get") /\ UNCHANGED plist
     ELSE Goto(t, "use") /\ plist' = [plist EXCEPT ![t] = pbuffer]
  /\ UNCHANGED <<store, pbuffer, mlayer, dirty, writer, readers, call, result>>

GetFromStore(t) ==
  /\ pc[t] = "get"
  /\ plist' = [plist EXCEPT ![t] = store]
  /\ Goto(t, "cas")
  /\ UNCHANGED <<store, pbuffer, mlayer, dirty, writer, readers, call, result>>

SwapBuffer(t) ==
  /\ pc[t] = "cas"
  /\ IF pbuffer = Nil
     THEN pbuffer' = plist[t] /\ Goto(t, "use") /\ UNCHANGED plist
     ELSE Goto(t, RetryFrom) /\ plist' = [plist EXCEPT ![t] = Nil] /\ UNCHANGED pbuffer
  /\ UNCHANGED <<store, mlayer, dirty, writer, readers, call, result>>

getPostingList(t) == LoadBuffer(t) \/ GetFromStore(t) \/ SwapBuffer(t)

-----------------------------------------------------------------------------
(* AddMutation *)

\* Mutant: a zero ValueId is let through.
RejectedNever(e) == FALSE

Rejected(e) == ValueId(e) = 0

AddMutation(t) ==
  /\ pc[t] = "idle"
  /\ \E e \in Edges, op \in Ops :
       IF Rejected(e)
       THEN /\ Return(t, [error |-> "ValueId cannot be zero"])
       ELSE /\ call' = [call EXCEPT ![t] = [uid |-> ValueId(e), op |-> op, val |-> e.val]]
            /\ Goto(t, "lock")
            /\ result' = [result EXCEPT ![t] = NoResult]
            /\ UNCHANGED plist
  /\ UNCHANGED <<store, pbuffer, mlayer, dirty, writer, readers>>

\* updateMutationLayer looks in mlayer first and needs the immutable layer
\* only if the uid is not there.
AddMutationLocked(t) ==
  /\ pc[t] = "drain" /\ t \in Clients
  /\ Drained
  /\ Goto(t, IF mlayer[call[t].uid] # NoMut THEN "use" ELSE "load")
  /\ UNCHANGED <<store, pbuffer, mlayer, dirty, writer, readers, call, plist, result>>

AddMutationUpdate(t) ==
  /\ pc[t] = "use" /\ t = writer /\ t \in Clients
  /\ LET c == call[t]
         ml == UpdateMutationLayer(plist[t], mlayer, c.uid, c.op, c.val)
     IN  /\ mlayer' = ml
         /\ dirty' = DirtyAfter(ml)
         /\ Return(t, [mutated |-> HasMutated(plist[t], mlayer, c.uid, c.op, c.val)])
  /\ Unlock(t)
  /\ UNCHANGED <<store, pbuffer>>

-----------------------------------------------------------------------------
(* Iterate, Uids and Value: a read of the merged list under the read lock. *)

Read(t) ==
  /\ pc[t] = "idle"
  /\ Goto(t, "rlock")
  /\ result' = [result EXCEPT ![t] = NoResult]
  /\ UNCHANGED <<store, pbuffer, mlayer, dirty, writer, readers, call, plist>>

ReadLock(t) ==
  /\ pc[t] = "rlock"
  /\ RLock(t)
  /\ Goto(t, "load")
  /\ UNCHANGED <<store, pbuffer, mlayer, dirty, call, plist, result>>

ReadIterate(t) ==
  /\ pc[t] = "use" /\ t \in readers
  /\ Return(t, [read |-> Merged(plist[t], mlayer)])
  /\ RUnlock(t)
  /\ UNCHANGED <<store, pbuffer, mlayer, dirty>>

-----------------------------------------------------------------------------
(* CommitIfDirty and commit *)

CommitIfDirty(t) ==
  /\ pc[t] = "idle"
  /\ dirty
  /\ Goto(t, "lock")
  /\ UNCHANGED <<store, pbuffer, mlayer, dirty, writer, readers, call, plist, result>>

\* An empty mlayer only clears the dirty mark.
CommitClean(t) ==
  /\ pc[t] = "drain" /\ t \in Mergers
  /\ Drained
  /\ mlayer = EmptyLayer
  /\ dirty' = FALSE
  /\ Unlock(t)
  /\ Goto(t, "idle")
  /\ UNCHANGED <<store, pbuffer, mlayer, call, plist, result>>

CommitLocked(t) ==
  /\ pc[t] = "drain" /\ t \in Mergers
  /\ Drained
  /\ mlayer # EmptyLayer
  /\ Goto(t, "load")
  /\ UNCHANGED <<store, pbuffer, mlayer, dirty, writer, readers, call, plist, result>>

CommitStore(t) ==
  /\ pc[t] = "use" /\ t = writer /\ t \in Mergers
  /\ store' = Merged(plist[t], mlayer)
  /\ Goto(t, "clearbuf")
  /\ UNCHANGED <<pbuffer, mlayer, dirty, writer, readers, call, plist, result>>

CommitClearBuffer(t) ==
  /\ pc[t] = "clearbuf"
  /\ ResetBuffer
  /\ dirty' = FALSE
  /\ Goto(t, "clearml")
  /\ UNCHANGED <<store, mlayer, writer, readers, call, plist, result>>

CommitClearMlayer(t) ==
  /\ pc[t] = "clearml"
  /\ mlayer' = EmptyLayer
  /\ Return(t, NoResult)
  /\ Unlock(t)
  /\ UNCHANGED <<store, pbuffer, dirty>>

-----------------------------------------------------------------------------
(* Length.  It neither waits for init nor takes the mutex: getPostingList    *)
(* and the pass over mlayer interleave with everything else.  The pass is    *)
(* one step here; in the code it also races with the writers of mlayer.      *)

Length(t) ==
  /\ pc[t] = "idle"
  /\ Goto(t, "load")
  /\ result' = [result EXCEPT ![t] = NoResult]
  /\ UNCHANGED <<store, pbuffer, mlayer, dirty, writer, readers, call, plist>>

LengthCount(t) ==
  /\ pc[t] = "use" /\ t \in Counters
  /\ Return(t, [length |-> LengthOf(plist[t], mlayer, 0)])
  /\ UNCHANGED <<store, pbuffer, mlayer, dirty, writer, readers>>

-----------------------------------------------------------------------------
ClientStep(t) ==
  \/ AddMutationLocked(t) \/ AddMutationUpdate(t)
  \/ ReadLock(t) \/ ReadIterate(t)

MergerStep(t) ==
  \/ CommitClean(t) \/ CommitLocked(t)
  \/ CommitStore(t) \/ CommitClearBuffer(t) \/ CommitClearMlayer(t)

\* What a goroutine does once it has been called.
Step(t) ==
  \/ WaitForLock(t) \/ getPostingList(t)
  \/ ClientStep(t) \/ MergerStep(t) \/ LengthCount(t)

Next ==
  \/ \E t \in Clients : AddMutation(t) \/ Read(t)
  \/ \E t \in Mergers : CommitIfDirty(t)
  \/ \E t \in Counters : Length(t)
  \/ \E t \in Threads : Step(t)

Spec == Init /\ [][Next]_vars

(***************************************************************************)
(* A goroutine that can run eventually does.  Go's RWMutex lets no         *)
(* goroutine starve (writers queue for it, and the readers that wait for a *)
(* writer enter when it leaves), hence strong fairness of the two          *)
(* acquisitions.                                                           *)
(***************************************************************************)
Fairness ==
  /\ \A t \in Threads : WF_vars(Step(t))
  /\ \A t \in Clients \cup Mergers : SF_vars(WaitForLock(t))
  /\ \A t \in Clients : SF_vars(ReadLock(t))

FairSpec == Spec /\ Fairness

-----------------------------------------------------------------------------
(* Properties *)

TypeOK ==
  /\ store \in Contents
  /\ pbuffer \in Contents \cup {Nil}
  /\ mlayer \in Layers
  /\ dirty \in BOOLEAN
  /\ writer \in Threads \cup {Nil}
  /\ readers \subseteq Threads
  /\ pc \in [Threads -> Places]
  /\ call \in [Threads -> Calls \cup {NoCall}]
  /\ plist \in [Threads -> Contents \cup {Nil}]
  /\ result \in [Threads -> Results]

\* The immutable layer: what getPostingList would return now.
Immutable == IF pbuffer = Nil THEN store ELSE pbuffer

\* A commit is past its write to the store and has not yet reset the layers.
Committing == \E t \in Mergers : pc[t] \in {"clearbuf", "clearml"}

(***************************************************************************)
(* The list as its callers see it.                                         *)
(***************************************************************************)
View == Merged(Immutable, mlayer)

Abstract == INSTANCE ListSpec WITH
  contents <- View,
  pending <- [t \in Clients |-> call[t]],
  result <- [t \in Clients |-> result[t]]

\* AddMutation and the locked reads are atomic operations on one map: every
\* requested mutation takes effect once, as requested, with the results that
\* map gives ("Returns whether any mutation happens"), and no
\* step of a commit or of getPostingList changes what the list contains.
ListImplementsSpec == Abstract!Spec

\* Except inside a commit, the immutable layer in memory is the one in the
\* store: what getPostingList returns is never out of date, and the next
\* commit cannot write an old list back.
BufferFresh == pbuffer # Nil /\ ~Committing => pbuffer = store

\* The Set / Del / Add marks of mlayer make Length the number of postings an
\* iteration over the same two layers visits, from every starting uid.
LengthCountsIteration ==
  ~Committing =>
    \A a \in Uids \cup {0} :
      LengthOf(Immutable, mlayer, a) = Cardinality(After(Present(View), a))

\* CommitIfDirty never skips a list that has mutations to merge: dirtyTs is
\* set whenever mlayer is not empty, except while a commit empties it.
DirtyCoversMutations == mlayer # EmptyLayer /\ ~Committing => dirty

\* Every locked call returns: no goroutine stays blocked on the mutex, and the
\* retry of getPostingList after a failed compare-and-swap ends.  (Length is
\* only lock-free: commits that keep resetting pbuffer can make it retry.)
CallsReturn == \A t \in Clients \cup Mergers : pc[t] # "idle" ~> pc[t] = "idle"

\* Length "counts number of elements": its result is never negative.  (It can
\* be, when a commit is under way: see the README.)
LengthIsACount ==
  \A t \in Counters : result[t] # NoResult => result[t].length >= 0
=============================================================================
