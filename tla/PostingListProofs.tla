-------------------------- MODULE PostingListProofs --------------------------
(***************************************************************************)
(* Proofs about PostingList, for every number of goroutines, uids and      *)
(* contents.                                                               *)
(***************************************************************************)
EXTENDS PostingList, FiniteSetTheorems, TLAPS

(***************************************************************************)
(* What the operations on the two layers of a posting list guarantee, for  *)
(* every set of uids and contents.                                         *)
(***************************************************************************)
\* An edge that AddMutation accepts is stored under a uid of the list.
LEMMA ValueIdType ==
  ASSUME NEW e \in Edges, ValueId(e) # 0
  PROVE  ValueId(e) \in Uids /\ e.val \in Vals
BY LayersAssumption DEF Edges, ValueId

\* iterate yields a list of contents.
LEMMA MergedType ==
  ASSUME NEW pl \in Contents, NEW ml \in Layers
  PROVE  Merged(pl, ml) \in Contents
<1>1. ASSUME NEW u \in Uids, ml[u] # NoMut
      PROVE  ml[u] \in Muts
  BY <1>1 DEF Layers
<1>2. ASSUME NEW u \in Uids
      PROVE  Merged(pl, ml)[u] \in Vals \cup {Absent}
  BY <1>1 DEF Merged, Over, Muts, Contents
<1>3. QED  BY <1>2 DEF Merged, Contents

\* An empty mutation layer hides nothing of the immutable layer.
LEMMA MergedEmpty ==
  ASSUME NEW pl \in Contents
  PROVE  Merged(pl, EmptyLayer) = pl
BY DEF Merged, Over, EmptyLayer, Contents

\* The empty mutation layer is a mutation layer, and fits every list.
LEMMA EmptyLayerFits ==
  ASSUME NEW pl \in Contents
  PROVE  EmptyLayer \in Layers /\ LayersFit(pl, EmptyLayer)
BY DEF EmptyLayer, Layers, LayersFit

\* Merging the same mutation layer twice changes nothing: between the write to
\* the store and the reset of mlayer, a commit does not change the list.
LEMMA MergedTwice ==
  ASSUME NEW pl \in Contents, NEW ml \in Layers
  PROVE  Merged(Merged(pl, ml), ml) = Merged(pl, ml)
BY DEF Merged, Over

-----------------------------------------------------------------------------
\* updateMutationLayer yields a mutation layer.
LEMMA UpdateType ==
  ASSUME NEW pl \in Contents, NEW ml \in Layers,
         NEW u \in Uids, NEW op \in Ops, NEW v \in Vals
  PROVE  UpdateMutationLayer(pl, ml, u, op, v) \in Layers
<1>1. \A w \in Uids : ml[w] # NoMut => ml[w] \in Muts
  BY DEF Layers
<1>2. Mut(op, v) \in Muts /\ Mut("Add", v) \in Muts
  BY DEF Mut, Muts, Ops
<1>3. \A m \in Muts \cup {NoMut} : [ml EXCEPT ![u] = m] \in Layers
  BY DEF Layers
<1>4. UpdateInMlayer(ml, u, op, v) \in Layers
  <2>1. Mut(ReplaceOp(ml[u], op), v) \in Muts
    BY <1>2 DEF ReplaceOp
  <2>2. QED  BY <1>3, <2>1 DEF UpdateInMlayer
<1>5. UpdateOverImmutable(pl, ml, u, op, v) \in Layers
  BY <1>2, <1>3 DEF UpdateOverImmutable
<1>6. QED  BY <1>4, <1>5 DEF UpdateMutationLayer

\* updateMutationLayer touches the entry of its uid only.
LEMMA UpdateElsewhere ==
  ASSUME NEW pl \in Contents, NEW ml \in Layers,
         NEW u \in Uids, NEW op \in Ops, NEW v \in Vals,
         NEW w \in Uids, w # u
  PROVE  UpdateMutationLayer(pl, ml, u, op, v)[w] = ml[w]
BY DEF UpdateMutationLayer, UpdateInMlayer, UpdateOverImmutable, Layers

\* updateMutationLayer keeps the marks right: an Add is for a uid that the
\* immutable layer lacks, a Set or a Del for one that it has.
LEMMA UpdateFits ==
  ASSUME NEW pl \in Contents, NEW ml \in Layers,
         NEW u \in Uids, NEW op \in Ops, NEW v \in Vals,
         LayersFit(pl, ml)
  PROVE  LayersFit(pl, UpdateMutationLayer(pl, ml, u, op, v))
<1> DEFINE new == UpdateMutationLayer(pl, ml, u, op, v)
<1>1. ASSUME new[u] # NoMut
      PROVE  new[u].op = "Add" <=> pl[u] = Absent
  <2>1. CASE ml[u] # NoMut
    BY <1>1, <2>1, LayersAssumption
    DEF UpdateMutationLayer, UpdateInMlayer, UndoesAdd, ReplaceOp, Mut, Layers, LayersFit, Ops
  <2>2. CASE ml[u] = NoMut
    BY <1>1, <2>2, LayersAssumption
    DEF UpdateMutationLayer, UpdateOverImmutable, IgnoredByImmutable, Mut, Layers, Ops
  <2>3. QED  BY <2>1, <2>2
<1>2. \A w \in Uids : w # u => new[w] = ml[w]
  BY UpdateElsewhere
<1>3. QED  BY <1>1, <1>2 DEF LayersFit

\* updateMutationLayer does to the merged list what AddMutation promises.
LEMMA UpdateApplies ==
  ASSUME NEW pl \in Contents, NEW ml \in Layers,
         NEW u \in Uids, NEW op \in Ops, NEW v \in Vals,
         LayersFit(pl, ml)
  PROVE  Merged(pl, UpdateMutationLayer(pl, ml, u, op, v))
           = Apply(Merged(pl, ml), u, op, v)
<1> DEFINE new == UpdateMutationLayer(pl, ml, u, op, v)
           old == Merged(pl, ml)
<1>1. Merged(pl, new)[u] = Apply(old, u, op, v)[u]
  <2>1. old[u] = Over(ml[u], pl[u]) /\ Merged(pl, new)[u] = Over(new[u], pl[u])
    BY DEF Merged
  <2>2. Apply(old, u, op, v)[u] =
          IF op = "Set" THEN v ELSE IF old[u] = v THEN Absent ELSE old[u]
    BY DEF Apply, Merged, Ops
  <2>3. CASE ml[u] # NoMut
    <3>1. ml[u] \in Muts
      BY <2>3 DEF Layers
    <3>2. new[u] = IF IgnoredByMlayer(ml[u], op, v) THEN ml[u]
                   ELSE IF UndoesAdd(ml[u], op) THEN NoMut
                   ELSE Mut(ReplaceOp(ml[u], op), v)
      BY <2>3 DEF UpdateMutationLayer, UpdateInMlayer, Layers
    <3>3. CASE IgnoredByMlayer(ml[u], op, v)
      BY <2>1, <2>2, <2>3, <3>1, <3>2, <3>3, LayersAssumption
      DEF IgnoredByMlayer, Over, Muts, Ops
    <3>4. CASE ~IgnoredByMlayer(ml[u], op, v) /\ UndoesAdd(ml[u], op)
      BY <2>1, <2>2, <2>3, <3>1, <3>2, <3>4, LayersAssumption
      DEF IgnoredByMlayer, UndoesAdd, Over, Muts, Ops, LayersFit
    <3>5. CASE ~IgnoredByMlayer(ml[u], op, v) /\ ~UndoesAdd(ml[u], op)
      BY <2>1, <2>2, <2>3, <3>1, <3>2, <3>5, LayersAssumption
      DEF IgnoredByMlayer, UndoesAdd, ReplaceOp, Over, Mut, NoMut, Muts, Ops
    <3>6. QED  BY <3>3, <3>4, <3>5
  <2>4. CASE ml[u] = NoMut
    <3>1. new[u] = IF IgnoredByImmutable(pl[u], op, v) THEN NoMut
                   ELSE Mut(IF op = "Set" /\ pl[u] = Absent THEN "Add" ELSE op, v)
      BY <2>4 DEF UpdateMutationLayer, UpdateOverImmutable, Layers
    <3>2. QED
      BY <2>1, <2>2, <2>4, <3>1, LayersAssumption
      DEF IgnoredByImmutable, Over, Mut, NoMut, Ops
  <2>5. QED  BY <2>3, <2>4
<1>2. ASSUME NEW w \in Uids, w # u
      PROVE  Merged(pl, new)[w] = Apply(old, u, op, v)[w]
  <2>1. new[w] = ml[w]
    BY <1>2, UpdateElsewhere
  <2>2. QED  BY <1>2, <2>1 DEF Merged, Apply
<1>3. /\ DOMAIN Apply(old, u, op, v) = Uids
      /\ Apply(old, u, op, v) = [w \in Uids |-> Apply(old, u, op, v)[w]]
  BY DEF Apply, Merged
<1>4. QED  BY <1>1, <1>2, <1>3 DEF Merged

\* AddMutation "returns whether any mutation happens": its result is TRUE
\* exactly when the merged list changes.
LEMMA HasMutatedIffChanged ==
  ASSUME NEW pl \in Contents, NEW ml \in Layers,
         NEW u \in Uids, NEW op \in Ops, NEW v \in Vals
  PROVE  HasMutated(pl, ml, u, op, v)
           <=> Apply(Merged(pl, ml), u, op, v) # Merged(pl, ml)
<1> DEFINE old == Merged(pl, ml)
<1>1. old[u] = Over(ml[u], pl[u])
  BY DEF Merged
<1>2. Apply(old, u, op, v) # old <=> IF op = "Set" THEN old[u] # v ELSE old[u] = v
  BY LayersAssumption DEF Apply, Merged, Ops
<1>3. CASE ml[u] # NoMut
  <2>1. ml[u] \in Muts
    BY <1>3 DEF Layers
  <2>2. QED
    BY <1>1, <1>2, <1>3, <2>1, LayersAssumption
    DEF HasMutated, IgnoredByMlayer, Over, Muts, Ops
<1>4. CASE ml[u] = NoMut
  BY <1>1, <1>2, <1>4 DEF HasMutated, IgnoredByImmutable, Over, Ops
<1>5. QED  BY <1>3, <1>4

-----------------------------------------------------------------------------
(***************************************************************************)
(* Length is the number of postings iterate visits after afterUid, for any *)
(* two layers that fit: the uids of the merged list are those of the       *)
(* immutable layer, with the disjoint Adds and without the Dels, which are *)
(* all there.                                                              *)
(***************************************************************************)
LEMMA LengthCounts ==
  ASSUME NEW pl \in Contents, NEW ml \in Layers, NEW a \in Nat,
         LayersFit(pl, ml)
  PROVE  LengthOf(pl, ml, a) = Cardinality(After(Present(Merged(pl, ml)), a))
<1> DEFINE P == After(Present(pl), a)
           A == After(WithOp(ml, "Add"), a)
           D == After(WithOp(ml, "Del"), a)
           M == After(Present(Merged(pl, ml)), a)
<1>1. \A u \in Uids : ml[u] = NoMut \/ ml[u] \in Muts
  BY DEF Layers
<1>2. \A u \in Uids : ml[u].op = "Add" => pl[u] = Absent
  BY <1>1 DEF LayersFit, NoMut
<1>3. \A u \in Uids : ml[u].op = "Del" => pl[u] # Absent
  BY <1>1 DEF LayersFit, NoMut
<1>4. M = (P \cup A) \ D
  <2>1. ASSUME NEW u \in Uids
        PROVE  Merged(pl, ml)[u] # Absent
                 <=> (pl[u] # Absent \/ ml[u].op = "Add") /\ ml[u].op # "Del"
    <3>1. CASE ml[u] = NoMut
      BY <3>1 DEF Merged, Over, NoMut
    <3>2. CASE ml[u] \in Muts
      <4>1. ml[u] # NoMut
        BY <3>2 DEF Muts, NoMut
      <4>2. ml[u].val # Absent /\ ml[u].op \in {"Set", "Del", "Add"}
        BY <3>2, LayersAssumption DEF Muts
      <4>3. ml[u].op = "Set" => pl[u] # Absent
        BY <4>1 DEF LayersFit
      <4>4. QED  BY <4>1, <4>2, <4>3 DEF Merged, Over
    <3>3. QED  BY <1>1, <3>1, <3>2
  <2>2. QED  BY <2>1 DEF After, Present, WithOp
<1>5. P \cap A = {} /\ D \subseteq P
  BY <1>2, <1>3 DEF After, Present, WithOp
<1>6. IsFiniteSet(P) /\ IsFiniteSet(A) /\ IsFiniteSet(D)
  <2>1. P \subseteq Uids /\ A \subseteq Uids /\ D \subseteq Uids
    BY DEF After, Present, WithOp
  <2>2. QED  BY <2>1, LayersAssumption, FS_Subset
<1>7. Cardinality(P \cup A) = Cardinality(P) + Cardinality(A)
  <2>1. Cardinality(P \cap A) = 0
    BY <1>5, FS_EmptySet
  <2>2. Cardinality(P) \in Nat /\ Cardinality(A) \in Nat
    BY <1>6, FS_CardinalityType
  <2>3. Cardinality(P \cup A) = Cardinality(P) + Cardinality(A) - Cardinality(P \cap A)
    <3> HIDE DEF P, A
    <3> QED  BY <1>6, FS_Union
  <2>4. QED  BY <2>1, <2>2, <2>3
<1>8. Cardinality((P \cup A) \ D) = Cardinality(P \cup A) - Cardinality(D)
  <2>1. (P \cup A) \cap D = D
    BY <1>5
  <2>2. IsFiniteSet(P \cup A)
    BY Zenon, <1>6, FS_Union
  <2>3. Cardinality((P \cup A) \ D) = Cardinality(P \cup A) - Cardinality((P \cup A) \cap D)
    <3> HIDE DEF P, A, D
    <3> QED  BY Zenon, <2>2, FS_Difference
  <2>4. QED  BY Zenon, <2>1, <2>3
<1>9. QED
  BY <1>4, <1>6, <1>7, <1>8, FS_CardinalityType DEF LengthOf

-----------------------------------------------------------------------------

Fetching == {"load", "get", "cas", "use"}

(***************************************************************************)
(* Who holds the mutex, read off from where the goroutines are.  Only      *)
(* Length runs getPostingList without it.                                  *)
(***************************************************************************)
MutexInv ==
  /\ \A t \in Threads :
       /\ pc[t] \in {"drain", "clearbuf", "clearml"} => writer = t
       /\ pc[t] \in Fetching /\ t \notin Counters => writer = t \/ t \in readers
       /\ writer = t => /\ pc[t] \in Fetching \cup {"drain", "clearbuf", "clearml"}
                        /\ t \notin Counters
       /\ t \in readers => pc[t] \in Fetching /\ t \in Clients /\ writer # t
       /\ pc[t] = "rlock" => t \in Clients
       /\ pc[t] \in {"clearbuf", "clearml"} => t \in Mergers
       /\ t \in Counters => pc[t] \in Fetching \cup {"idle"}
       /\ t \in Clients /\ (pc[t] = "lock" \/ writer = t) => call[t] \in Calls
       /\ t \in Clients /\ (pc[t] \in {"idle", "rlock"} \/ t \in readers) => call[t] = NoCall
  /\ writer # Nil /\ pc[writer] # "drain" => readers = {}

\* The result of getPostingList is at hand where it is used; a mutation whose
\* uid is in mlayer does not use it.
UseInv ==
  \A t \in Threads :
    pc[t] \in {"cas", "use"} =>
      \/ plist[t] # Nil
      \/ pc[t] = "use" /\ t \in Clients /\ writer = t /\ mlayer[call[t].uid] # NoMut

TypeInv == TypeOK /\ MutexInv /\ UseInv

-----------------------------------------------------------------------------
\* A list that has just been initialised is well typed, and unlocked.
LEMMA InitTypeInv == Init => TypeInv
<1> SUFFICES ASSUME Init PROVE TypeInv
  OBVIOUS
<1>1. TypeOK
  BY Zenon DEF Init, TypeOK, EmptyLayer, Layers, Places, Results
<1>2. MutexInv
  BY ThreadsAssumption DEF Init, MutexInv, Fetching
<1>3. UseInv
  BY DEF Init, UseInv
<1>4. QED  BY <1>1, <1>2, <1>3 DEF TypeInv

\* Length is an integer whatever the two layers are.
LEMMA LengthType ==
  ASSUME NEW pl \in Contents, NEW ml \in Layers
  PROVE  LengthOf(pl, ml, 0) \in Int
<1>1. \A S \in SUBSET Uids : Cardinality(S) \in Nat
  BY Zenon, LayersAssumption, FS_Subset, FS_CardinalityType
<1>2. /\ After(Present(pl), 0) \in SUBSET Uids
      /\ After(WithOp(ml, "Add"), 0) \in SUBSET Uids
      /\ After(WithOp(ml, "Del"), 0) \in SUBSET Uids
  BY DEF After, Present, WithOp
<1>3. QED  BY <1>1, <1>2 DEF LengthOf

\* The mutation layer an AddMutation leaves is well formed, also when its uid
\* was in mlayer and the immutable layer was not fetched.
LEMMA UpdateTypeInMlayer ==
  ASSUME NEW pl, NEW ml \in Layers,
         NEW u \in Uids, NEW op \in Ops, NEW v \in Vals,
         pl \in Contents \/ ml[u] # NoMut
  PROVE  UpdateMutationLayer(pl, ml, u, op, v) \in Layers
<1>1. CASE pl \in Contents
  BY <1>1, UpdateType
<1>2. CASE ml[u] # NoMut
  <2>1. UpdateMutationLayer(pl, ml, u, op, v)
          = UpdateMutationLayer([w \in Uids |-> Absent], ml, u, op, v)
    BY <1>2 DEF UpdateMutationLayer
  <2>2. [w \in Uids |-> Absent] \in Contents
    BY DEF Contents
  <2>3. QED  BY <2>1, <2>2, UpdateType
<1>3. QED  BY <1>1, <1>2
-----------------------------------------------------------------------------
\* Every step keeps TypeInv.  One step of the proof per action.
LEMMA NextTypeInv == TypeInv /\ [Next]_vars => TypeInv'
<1> SUFFICES ASSUME TypeInv, [Next]_vars PROVE TypeInv'
  OBVIOUS
<1> USE DEF TypeInv
<1>1. ASSUME NEW t \in Clients, AddMutation(t) PROVE TypeInv'
  <2>1. PICK e \in Edges, op \in Ops :
          IF Rejected(e)
          THEN Return(t, [error |-> "ValueId cannot be zero"])
          ELSE /\ call' = [call EXCEPT ![t] = [uid |-> ValueId(e), op |-> op, val |-> e.val]]
               /\ Goto(t, "lock")
               /\ result' = [result EXCEPT ![t] = NoResult]
               /\ UNCHANGED plist
    BY Zenon, <1>1 DEF AddMutation
  <2>2. pc[t] = "idle" /\ UNCHANGED <<store, pbuffer, mlayer, dirty, writer, readers>>
    BY Zenon, <1>1 DEF AddMutation
  <2>3. CASE Rejected(e)
    <3> DEFINE err == [error |-> "ValueId cannot be zero"]
    <3>1. Return(t, err)
      BY Zenon, <2>1, <2>3
    <3>2. err \in Results
      BY DEF Results
    <3> HIDE DEF err
    <3>3. TypeOK'
      BY Zenon, <2>2, <3>1, <3>2 DEF Return, Goto, TypeOK, Places
    <3>4. MutexInv'
      BY <2>2, <3>1, ThreadsAssumption
      DEF Return, Goto, TypeOK, MutexInv, Fetching, Threads
    <3>5. UseInv'
      BY <2>2, <3>1 DEF Return, Goto, TypeOK, UseInv, Threads
    <3>6. QED  BY <3>3, <3>4, <3>5
  <2>4. CASE ~Rejected(e)
    <3>1. [uid |-> ValueId(e), op |-> op, val |-> e.val] \in Calls
      BY <2>4, ValueIdType DEF Rejected, Calls
    <3>2. TypeOK'
      BY ZenonT(30), <2>1, <2>2, <2>4, <3>1 DEF Goto, TypeOK, Places, Results
    <3>3. MutexInv'
      BY <2>1, <2>2, <2>4, <3>1, ThreadsAssumption
      DEF Goto, TypeOK, MutexInv, Fetching, Threads
    <3>4. UseInv'
      BY <2>1, <2>2, <2>4, ThreadsAssumption
      DEF Goto, TypeOK, MutexInv, UseInv, Threads
    <3>5. QED  BY <3>2, <3>3, <3>4
  <2>5. QED  BY <2>3, <2>4
<1>2. ASSUME NEW t \in Clients, Read(t) PROVE TypeInv'
  <2>1. TypeOK'
    BY Zenon, <1>2 DEF Read, Goto, TypeOK, Places, Results
  <2>2. MutexInv'
    BY <1>2, ThreadsAssumption DEF Read, Goto, TypeOK, MutexInv, Fetching, Threads
  <2>3. UseInv'
    BY <1>2, ThreadsAssumption DEF
       Read, Goto, TypeOK, MutexInv, UseInv, Fetching, Threads
  <2>4. QED  BY <2>1, <2>2, <2>3
<1>3. ASSUME NEW t \in Mergers, CommitIfDirty(t) PROVE TypeInv'
  <2>1. TypeOK'
    BY Zenon, <1>3 DEF CommitIfDirty, Goto, TypeOK, Places, Results
  <2>2. MutexInv'
    BY <1>3, ThreadsAssumption DEF
       CommitIfDirty, Goto, TypeOK, MutexInv, Fetching, Threads
  <2>3. UseInv'
    BY <1>3, ThreadsAssumption DEF
       CommitIfDirty, Goto, TypeOK, MutexInv, UseInv, Fetching, Threads
  <2>4. QED  BY <2>1, <2>2, <2>3
<1>4. ASSUME NEW t \in Counters, Length(t) PROVE TypeInv'
  <2>1. TypeOK'
    BY Zenon, <1>4 DEF Length, Goto, TypeOK, Places, Results
  <2>2. MutexInv'
    BY <1>4, ThreadsAssumption DEF Length, Goto, TypeOK, MutexInv, Fetching, Threads
  <2>3. UseInv'
    BY <1>4, ThreadsAssumption DEF
       Length, Goto, TypeOK, MutexInv, UseInv, Fetching, Threads
  <2>4. QED  BY <2>1, <2>2, <2>3
<1>5. ASSUME NEW t \in Threads, WaitForLock(t) PROVE TypeInv'
  <2>1. TypeOK'
    BY Zenon, <1>5 DEF WaitForLock, Announce, Goto, TypeOK, Places, Results
  <2>2. MutexInv'
    BY <1>5, ThreadsAssumption DEF
       WaitForLock, Announce, Goto, TypeOK, MutexInv, Fetching, Threads
  <2>3. UseInv'
    BY <1>5, ThreadsAssumption DEF
       WaitForLock, Announce, Goto, TypeOK, MutexInv, UseInv, Fetching, Threads
  <2>4. QED  BY <2>1, <2>2, <2>3
<1>6. ASSUME NEW t \in Threads, LoadBuffer(t) PROVE TypeInv'
  <2>1. TypeOK'
    BY Zenon, <1>6 DEF LoadBuffer, Goto, TypeOK, Places, Results
  <2>2. MutexInv'
    BY <1>6, ThreadsAssumption DEF LoadBuffer, Goto, TypeOK, MutexInv, Fetching, Threads
  <2>3. UseInv'
    BY <1>6, ThreadsAssumption DEF
       LoadBuffer, Goto, TypeOK, MutexInv, UseInv, Fetching, Threads
  <2>4. QED  BY <2>1, <2>2, <2>3
<1>7. ASSUME NEW t \in Threads, GetFromStore(t) PROVE TypeInv'
  <2>1. TypeOK'
    BY Zenon, <1>7 DEF GetFromStore, Goto, TypeOK, Places, Results
  <2>2. MutexInv'
    BY <1>7, ThreadsAssumption DEF
       GetFromStore, Goto, TypeOK, MutexInv, Fetching, Threads
  <2>3. UseInv'
    BY <1>7, ThreadsAssumption DEF
       GetFromStore, Goto, TypeOK, MutexInv, UseInv, Fetching, Threads
  <2>4. QED  BY <2>1, <2>2, <2>3
<1>8. ASSUME NEW t \in Threads, SwapBuffer(t) PROVE TypeInv'
  <2>1. TypeOK'
    <3>1. plist[t] \in Contents
      BY <1>8 DEF SwapBuffer, TypeOK, UseInv
    <3>2. QED
      BY <1>8, <3>1 DEF SwapBuffer, RetryFrom, Goto, TypeOK, Places
  <2>2. MutexInv'
    BY <1>8, ThreadsAssumption DEF
       SwapBuffer, RetryFrom, Goto, TypeOK, MutexInv, Fetching, Threads
  <2>3. UseInv'
    BY <1>8, ThreadsAssumption DEF
       SwapBuffer, RetryFrom, Goto, TypeOK, MutexInv, UseInv, Fetching, Threads
  <2>4. QED  BY <2>1, <2>2, <2>3
<1>9. ASSUME NEW t \in Threads, AddMutationLocked(t) PROVE TypeInv'
  <2>1. TypeOK'
    BY Zenon, <1>9 DEF AddMutationLocked, Drained, Goto, TypeOK, Places, Results
  <2>2. MutexInv'
    BY <1>9, ThreadsAssumption DEF
       AddMutationLocked, Drained, Goto, TypeOK, MutexInv, Fetching, Threads
  <2>3. UseInv'
    BY <1>9, ThreadsAssumption DEF
       AddMutationLocked, Drained, Goto, TypeOK, MutexInv, UseInv, Fetching, Threads
  <2>4. QED  BY <2>1, <2>2, <2>3
<1>10. ASSUME NEW t \in Threads, AddMutationUpdate(t) PROVE TypeInv'
  <2>1. TypeOK'
    <3> DEFINE c == call[t]
               ml == UpdateMutationLayer(plist[t], mlayer, c.uid, c.op, c.val)
    <3>1. c \in Calls
      BY <1>10 DEF AddMutationUpdate, MutexInv
    <3>2. plist[t] \in Contents \/ mlayer[c.uid] # NoMut
      BY <1>10 DEF AddMutationUpdate, TypeOK, UseInv
    <3>3. ml \in Layers
      BY Zenon, <3>1, <3>2, UpdateTypeInMlayer DEF TypeOK, Calls
    <3>4. HasMutated(plist[t], mlayer, c.uid, c.op, c.val) \in BOOLEAN
      BY Zenon DEF HasMutated
    <3>5. QED
      BY Zenon, <1>10, <3>3, <3>4 DEF
         AddMutationUpdate, DirtyAfter, Return, Unlock, Goto, TypeOK, Places, Results
  <2>2. MutexInv'
    BY <1>10, ThreadsAssumption DEF
       AddMutationUpdate, DirtyAfter, Return, Unlock, Goto, TypeOK, MutexInv, Fetching,
       Threads
  <2>3. UseInv'
    BY <1>10, ThreadsAssumption DEF
       AddMutationUpdate, DirtyAfter, Return, Unlock, Goto, TypeOK, MutexInv, UseInv,
       Fetching, Threads
  <2>4. QED  BY <2>1, <2>2, <2>3
<1>11. ASSUME NEW t \in Threads, ReadLock(t) PROVE TypeInv'
  <2>1. TypeOK'
    BY Zenon, <1>11 DEF ReadLock, RLock, Goto, TypeOK, Places, Results
  <2>2. MutexInv'
    BY <1>11, ThreadsAssumption DEF
       ReadLock, RLock, Goto, TypeOK, MutexInv, Fetching, Threads
  <2>3. UseInv'
    BY <1>11, ThreadsAssumption DEF
       ReadLock, RLock, Goto, TypeOK, MutexInv, UseInv, Fetching, Threads
  <2>4. QED  BY <2>1, <2>2, <2>3
<1>12. ASSUME NEW t \in Threads, ReadIterate(t) PROVE TypeInv'
  <2>1. TypeOK'
    <3>1. plist[t] \in Contents
      BY <1>12 DEF ReadIterate, TypeOK, UseInv, MutexInv
    <3>2. Merged(plist[t], mlayer) \in Contents
      BY <3>1, MergedType DEF TypeOK
    <3>3. QED
      BY ZenonT(30), <1>12, <3>2 DEF
         ReadIterate, Return, RUnlock, Goto, TypeOK, Places, Results
  <2>2. MutexInv'
    BY <1>12, ThreadsAssumption DEF
       ReadIterate, Return, RUnlock, Goto, TypeOK, MutexInv, Fetching, Threads
  <2>3. UseInv'
    BY Zenon, <1>12, ThreadsAssumption DEF
       ReadIterate, Return, RUnlock, Goto, TypeOK, MutexInv, UseInv, Fetching, Threads
  <2>4. QED  BY <2>1, <2>2, <2>3
<1>13. ASSUME NEW t \in Threads, CommitClean(t) PROVE TypeInv'
  <2>1. TypeOK'
    BY Zenon, <1>13 DEF CommitClean, Drained, Unlock, Goto, TypeOK, Places, Results
  <2>2. MutexInv'
    BY <1>13, ThreadsAssumption DEF
       CommitClean, Drained, Unlock, Goto, TypeOK, MutexInv, Fetching, Threads
  <2>3. UseInv'
    BY <1>13, ThreadsAssumption DEF
       CommitClean, Drained, Unlock, Goto, TypeOK, MutexInv, UseInv, Fetching, Threads
  <2>4. QED  BY <2>1, <2>2, <2>3
<1>14. ASSUME NEW t \in Threads, CommitLocked(t) PROVE TypeInv'
  <2>1. TypeOK'
    BY Zenon, <1>14 DEF CommitLocked, Drained, Goto, TypeOK, Places, Results
  <2>2. MutexInv'
    BY Zenon, <1>14, ThreadsAssumption DEF
       CommitLocked, Drained, Goto, TypeOK, MutexInv, Fetching, Threads
  <2>3. UseInv'
    BY <1>14, ThreadsAssumption DEF
       CommitLocked, Drained, Goto, TypeOK, MutexInv, UseInv, Fetching, Threads
  <2>4. QED  BY <2>1, <2>2, <2>3
<1>15. ASSUME NEW t \in Threads, CommitStore(t) PROVE TypeInv'
  <2>1. TypeOK'
    <3>1. plist[t] \in Contents
      BY <1>15, ThreadsAssumption DEF CommitStore, TypeOK, UseInv
    <3>2. Merged(plist[t], mlayer) \in Contents
      BY <3>1, MergedType DEF TypeOK
    <3>3. QED
      BY <1>15, <3>2 DEF CommitStore, Goto, TypeOK, Places
  <2>2. MutexInv'
    BY Zenon, <1>15, ThreadsAssumption DEF
       CommitStore, Goto, TypeOK, MutexInv, Fetching, Threads
  <2>3. UseInv'
    BY <1>15, ThreadsAssumption DEF
       CommitStore, Goto, TypeOK, MutexInv, UseInv, Fetching, Threads
  <2>4. QED  BY <2>1, <2>2, <2>3
<1>16. ASSUME NEW t \in Threads, CommitClearBuffer(t) PROVE TypeInv'
  <2>1. TypeOK'
    BY Zenon, <1>16 DEF CommitClearBuffer, ResetBuffer, Goto, TypeOK, Places, Results
  <2>2. MutexInv'
    BY Zenon, <1>16, ThreadsAssumption DEF
       CommitClearBuffer, ResetBuffer, Goto, TypeOK, MutexInv, Fetching, Threads
  <2>3. UseInv'
    BY <1>16, ThreadsAssumption DEF
       CommitClearBuffer, ResetBuffer, Goto, TypeOK, MutexInv, UseInv, Fetching, Threads
  <2>4. QED  BY <2>1, <2>2, <2>3
<1>17. ASSUME NEW t \in Threads, CommitClearMlayer(t) PROVE TypeInv'
  <2>1. TypeOK'
    <3>1. EmptyLayer \in Layers
      BY DEF EmptyLayer, Layers
    <3>2. QED
      BY Zenon, <1>17, <3>1 DEF
         CommitClearMlayer, Return, Unlock, Goto, TypeOK, Places, Results
  <2>2. MutexInv'
    BY <1>17, ThreadsAssumption DEF
       CommitClearMlayer, Return, Unlock, Goto, TypeOK, MutexInv, Fetching, Threads
  <2>3. UseInv'
    BY <1>17, ThreadsAssumption DEF
       CommitClearMlayer, Return, Unlock, Goto, TypeOK, MutexInv, UseInv, Fetching,
       Threads
  <2>4. QED  BY <2>1, <2>2, <2>3
<1>18. ASSUME NEW t \in Threads, LengthCount(t) PROVE TypeInv'
  <2>1. TypeOK'
    <3>1. plist[t] \in Contents
      BY Zenon, <1>18, ThreadsAssumption DEF LengthCount, TypeOK, UseInv
    <3>2. LengthOf(plist[t], mlayer, 0) \in Int
      BY <3>1, LengthType DEF TypeOK
    <3>3. QED
      BY Zenon, <1>18, <3>2 DEF LengthCount, Return, Goto, TypeOK, Places, Results
  <2>2. MutexInv'
    BY <1>18, ThreadsAssumption DEF
       LengthCount, Return, Goto, TypeOK, MutexInv, Fetching, Threads
  <2>3. UseInv'
    BY Zenon, <1>18, ThreadsAssumption DEF
       LengthCount, Return, Goto, TypeOK, MutexInv, UseInv, Fetching, Threads
  <2>4. QED  BY <2>1, <2>2, <2>3
<1>19. CASE UNCHANGED vars
  BY <1>19 DEF vars, TypeOK, MutexInv, UseInv
<1>20. QED
  BY <1>1, <1>2, <1>3, <1>4, <1>5, <1>6, <1>7, <1>8, <1>9, <1>10, <1>11, <1>12, <1>13,
     <1>14, <1>15, <1>16, <1>17, <1>18, <1>19 DEF
     Next, Step, ClientStep, MergerStep, getPostingList

\* The types of the variables, whatever Length does.
THEOREM ListTypes == Spec => []TypeOK
<1>1. Init => TypeInv  BY InitTypeInv
<1>2. TypeInv /\ [Next]_vars => TypeInv'  BY NextTypeInv
<1>3. TypeInv => TypeOK  BY DEF TypeInv
<1>4. QED  BY <1>1, <1>2, <1>3, PTL DEF Spec

-----------------------------------------------------------------------------
(***************************************************************************)
(* How the layers in memory and the store are related when Length does not *)
(* run: what getPostingList has read is current while the mutex is held,   *)
(* and a commit that has written the store has written the merged list.    *)
(***************************************************************************)
DataInv ==
  /\ \A t \in Threads :
       /\ pc[t] = "clearbuf" => pbuffer # Nil /\ store = Merged(pbuffer, mlayer)
       /\ pc[t] = "clearml" => pbuffer = Nil /\ store = Merged(store, mlayer)
       /\ pc[t] = "cas" => plist[t] = store
       /\ pc[t] = "use" =>
            \/ pbuffer # Nil /\ plist[t] = pbuffer
            \/ t \in Clients /\ writer = t /\ mlayer[call[t].uid] # NoMut
  /\ BufferFresh
  /\ (\A t \in Threads : pc[t] # "clearml") => LayersFit(Immutable, mlayer)
  /\ DirtyCoversMutations

ListInv == TypeInv /\ DataInv

\* A step of a goroutine t that leaves the layers and the store alone.
LEMMA DataKept ==
  ASSUME DataInv, NEW t \in Threads, Mergers \subseteq Threads,
         UNCHANGED <<store, pbuffer, mlayer>>, dirty' = dirty \/ mlayer = EmptyLayer,
         \A s \in Threads \ {t} : /\ pc'[s] = pc[s] /\ plist'[s] = plist[s] /\ call'[s] = call[s]
                                  /\ writer = s => writer' = s,
         {pc[t], pc'[t]} \cap {"clearbuf", "clearml"} = {},
         pc'[t] = "cas" => plist'[t] = store,
         pc'[t] = "use" =>
           \/ pbuffer # Nil /\ plist'[t] = pbuffer
           \/ t \in Clients /\ writer' = t /\ mlayer[call'[t].uid] # NoMut
  PROVE  DataInv'
<1>1. /\ pc[t] \notin {"clearbuf", "clearml"} /\ pc'[t] \notin {"clearbuf", "clearml"}
      /\ Committing' = Committing
      /\ (\A s \in Threads : pc'[s] # "clearml") <=> (\A s \in Threads : pc[s] # "clearml")
  BY Zenon DEF Committing
<1>2. BufferFresh' /\ DirtyCoversMutations'
  BY <1>1 DEF DataInv, BufferFresh, DirtyCoversMutations
<1>3. (\A s \in Threads : pc'[s] # "clearml") => LayersFit(Immutable, mlayer)'
  BY <1>1 DEF DataInv, Immutable
<1>4. ASSUME NEW s \in Threads
      PROVE  /\ pc'[s] = "clearbuf" => pbuffer' # Nil /\ store' = Merged(pbuffer', mlayer')
             /\ pc'[s] = "clearml" => pbuffer' = Nil /\ store' = Merged(store', mlayer')
             /\ pc'[s] = "cas" => plist'[s] = store'
             /\ pc'[s] = "use" =>
                  \/ pbuffer' # Nil /\ plist'[s] = pbuffer'
                  \/ s \in Clients /\ writer' = s /\ mlayer'[call'[s].uid] # NoMut
  <2>1. CASE s = t
    BY <1>1, <2>1
  <2>2. CASE s # t
    BY <2>2 DEF DataInv
  <2> QED  BY <2>1, <2>2
<1> QED  BY <1>2, <1>3, <1>4 DEF DataInv

\* Without Length, every step keeps DataInv.
LEMMA NextDataInv ==
  ASSUME Counters = {}, ListInv, [Next]_vars
  PROVE  DataInv'
<1> USE DEF ListInv, TypeInv
<1>0. /\ Threads = Clients \cup Mergers /\ Clients \cap Mergers = {}
      /\ Nil \notin Contents /\ Nil \notin Threads
  BY ThreadsAssumption DEF Threads
<1>t. /\ pc \in [Threads -> Places] /\ call \in [Threads -> Calls \cup {NoCall}]
      /\ plist \in [Threads -> Contents \cup {Nil}]
  BY DEF TypeOK
<1>1. ASSUME NEW t \in Clients, AddMutation(t) PROVE DataInv'
  <2>1. /\ pc' = [pc EXCEPT ![t] = "idle"] \/ pc' = [pc EXCEPT ![t] = "lock"]
        /\ \A s \in Threads \ {t} : call'[s] = call[s] /\ plist'[s] = plist[s]
        /\ UNCHANGED <<store, pbuffer, mlayer, dirty, writer>>
        /\ pc[t] = "idle"
    BY Zenon, <1>0, <1>t, <1>1 DEF AddMutation, Return, Goto
  <2>2. pc'[t] \in {"idle", "lock"} /\ \A s \in Threads \ {t} : pc'[s] = pc[s]
    BY <1>0, <1>t, <2>1
  <2> QED  BY <1>0, <2>1, <2>2, DataKept
<1>2. ASSUME NEW t \in Clients, Read(t) PROVE DataInv'
  <2>1. /\ UNCHANGED <<store, pbuffer, mlayer, dirty, writer, call, plist>>
        /\ pc[t] = "idle" /\ pc' = [pc EXCEPT ![t] = "rlock"]
    BY Zenon, <1>2 DEF Read, Goto
  <2> QED  BY <1>0, <1>t, <2>1, DataKept
<1>3. ASSUME NEW t \in Mergers, CommitIfDirty(t) PROVE DataInv'
  <2>1. /\ UNCHANGED <<store, pbuffer, mlayer, dirty, writer, call, plist>>
        /\ pc[t] = "idle" /\ pc' = [pc EXCEPT ![t] = "lock"]
    BY Zenon, <1>3 DEF CommitIfDirty, Goto
  <2> QED  BY <1>0, <1>t, <2>1, DataKept
<1>4. ASSUME NEW t \in Threads, WaitForLock(t) PROVE DataInv'
  <2>1. /\ UNCHANGED <<store, pbuffer, mlayer, dirty, call, plist>>
        /\ pc[t] = "lock" /\ pc' = [pc EXCEPT ![t] = "drain"] /\ writer = Nil
    BY Zenon, <1>4 DEF WaitForLock, Announce, Goto
  <2> QED  BY <1>0, <1>t, <2>1, DataKept
<1>5. ASSUME NEW t \in Threads, LoadBuffer(t) PROVE DataInv'
  <2>1. /\ UNCHANGED <<store, pbuffer, mlayer, dirty, writer, call>>
        /\ pc[t] = "load"
        /\ \/ pc' = [pc EXCEPT ![t] = "get"] /\ plist' = plist
           \/ /\ pbuffer # Nil /\ pc' = [pc EXCEPT ![t] = "use"]
              /\ plist' = [plist EXCEPT ![t] = pbuffer]
    BY Zenon, <1>5 DEF LoadBuffer, Goto
  <2> QED  BY <1>0, <1>t, <2>1, DataKept
<1>6. ASSUME NEW t \in Threads, GetFromStore(t) PROVE DataInv'
  <2>1. /\ UNCHANGED <<store, pbuffer, mlayer, dirty, writer, call>>
        /\ pc[t] = "get" /\ pc' = [pc EXCEPT ![t] = "cas"]
        /\ plist' = [plist EXCEPT ![t] = store]
    BY ZenonT(30), <1>6 DEF GetFromStore, Goto
  <2> QED  BY <1>0, <1>t, <2>1, DataKept
<1>7. ASSUME NEW t \in Threads, SwapBuffer(t) PROVE DataInv'
  BY <1>0, <1>7 DEF
     SwapBuffer, RetryFrom, Goto, TypeOK, MutexInv, UseInv, DataInv, Fetching,
     BufferFresh, Immutable, Committing, DirtyCoversMutations
<1>8. ASSUME NEW t \in Threads, AddMutationLocked(t) PROVE DataInv'
  <2>1. /\ UNCHANGED <<store, pbuffer, mlayer, dirty, writer, call, plist>>
        /\ pc[t] = "drain" /\ t \in Clients
        /\ \/ pc' = [pc EXCEPT ![t] = "load"]
           \/ pc' = [pc EXCEPT ![t] = "use"] /\ mlayer[call[t].uid] # NoMut
    BY Zenon, <1>8 DEF AddMutationLocked, Goto
  <2>2. writer = t
    BY <2>1 DEF MutexInv
  <2> QED  BY <1>0, <1>t, <2>1, <2>2, DataKept
<1>9. ASSUME NEW t \in Threads, AddMutationUpdate(t) PROVE DataInv'
  <2> DEFINE c == call[t]
             ml == UpdateMutationLayer(plist[t], mlayer, c.uid, c.op, c.val)
  <2>1. c \in Calls /\ (plist[t] \in Contents \/ mlayer[c.uid] # NoMut)
    BY Zenon, <1>9, ThreadsAssumption DEF AddMutationUpdate, TypeOK, MutexInv, UseInv
  <2>2. \A s \in Threads : s # t => pc[s] \in {"idle", "lock", "rlock"}
    BY Zenon, <1>0, <1>9 DEF AddMutationUpdate, TypeOK, MutexInv, Fetching, Places
  <2>3. LayersFit(Immutable, mlayer)
    BY <1>9, <2>2 DEF AddMutationUpdate, DataInv
  <2>4. ml = UpdateMutationLayer(Immutable, mlayer, c.uid, c.op, c.val)
    <3>1. CASE mlayer[c.uid] # NoMut
      BY <3>1 DEF UpdateMutationLayer
    <3>2. CASE mlayer[c.uid] = NoMut
      BY Zenon, <1>9, <3>2 DEF AddMutationUpdate, DataInv, Immutable
    <3>3. QED  BY <3>1, <3>2
  <2>5. LayersFit(Immutable, ml)
    <3>1. Immutable \in Contents
      BY DEF Immutable, TypeOK
    <3>2. QED  BY <2>1, <2>3, <2>4, <3>1, UpdateFits DEF TypeOK, Calls
  <2>6. /\ mlayer' = ml /\ dirty' = DirtyAfter(ml)
        /\ UNCHANGED <<store, pbuffer>>
        /\ pc' = [pc EXCEPT ![t] = "idle"] /\ pc[t] = "use"
    BY <1>9 DEF AddMutationUpdate, Return, Goto
  <2>7. \A s \in Threads : pc'[s] \in {"idle", "lock", "rlock"}
    BY <2>2, <2>6 DEF TypeOK
  <2> HIDE DEF ml, c
  <2>8. BufferFresh'
    BY Zenon, <2>2, <2>6, <1>0 DEF DataInv, BufferFresh, Committing
  <2>9. DirtyCoversMutations'
    BY ZenonT(30), <2>6, <2>2, <1>0 DEF DirtyCoversMutations, DirtyAfter, Committing
  <2>10. QED
    BY <2>5, <2>6, <2>7, <2>8, <2>9 DEF DataInv, Immutable
<1>10. ASSUME NEW t \in Threads, ReadLock(t) PROVE DataInv'
  <2>1. /\ UNCHANGED <<store, pbuffer, mlayer, dirty, writer, call, plist>>
        /\ pc[t] = "rlock" /\ pc' = [pc EXCEPT ![t] = "load"]
    BY Zenon, <1>10 DEF ReadLock, RLock, Goto
  <2> QED  BY <1>0, <1>t, <2>1, DataKept
<1>11. ASSUME NEW t \in Threads, ReadIterate(t) PROVE DataInv'
  <2>1. /\ UNCHANGED <<store, pbuffer, mlayer, dirty, writer>>
        /\ pc[t] = "use" /\ pc' = [pc EXCEPT ![t] = "idle"]
        /\ plist' = [plist EXCEPT ![t] = Nil] /\ call' = [call EXCEPT ![t] = NoCall]
    BY Zenon, <1>11 DEF ReadIterate, Return, RUnlock, Goto
  <2> QED  BY <1>0, <1>t, <2>1, DataKept
<1>12. ASSUME NEW t \in Threads, CommitClean(t) PROVE DataInv'
  <2>1. /\ UNCHANGED <<store, pbuffer, mlayer, call, plist>> /\ mlayer = EmptyLayer
        /\ pc[t] = "drain" /\ pc' = [pc EXCEPT ![t] = "idle"]
    BY Zenon, <1>12 DEF CommitClean, Goto
  <2>2. writer = t
    BY <2>1 DEF MutexInv
  <2> QED  BY <1>0, <1>t, <2>1, <2>2, DataKept
<1>13. ASSUME NEW t \in Threads, CommitLocked(t) PROVE DataInv'
  <2>1. /\ UNCHANGED <<store, pbuffer, mlayer, dirty, writer, call, plist>>
        /\ pc[t] = "drain" /\ pc' = [pc EXCEPT ![t] = "load"]
    BY Zenon, <1>13 DEF CommitLocked, Goto
  <2> QED  BY <1>0, <1>t, <2>1, DataKept
<1>14. ASSUME NEW t \in Threads, CommitStore(t) PROVE DataInv'
  <2>1. \A s \in Threads : s # t => pc[s] \in {"idle", "lock", "rlock"}
    BY <1>0, <1>14 DEF CommitStore, TypeOK, MutexInv, Fetching, Places
  <2>2. QED
    BY ZenonT(30), <1>0, <1>14, <2>1 DEF
       CommitStore, Goto, TypeOK, MutexInv, UseInv, DataInv, Fetching, BufferFresh,
       Immutable, Committing, DirtyCoversMutations
<1>15. ASSUME NEW t \in Threads, CommitClearBuffer(t) PROVE DataInv'
  <2>1. \A s \in Threads : s # t => pc[s] \in {"idle", "lock", "rlock"}
    BY <1>0, <1>15 DEF CommitClearBuffer, TypeOK, MutexInv, Fetching, Places
  <2>2. QED
    <3>1. /\ pc[t] = "clearbuf" /\ pbuffer' = Nil
          /\ UNCHANGED <<store, mlayer, writer, call, plist>>
          /\ pc' = [pc EXCEPT ![t] = "clearml"]
      BY Zenon, <1>15 DEF CommitClearBuffer, ResetBuffer, Goto
    <3>2. /\ pbuffer \in Contents /\ mlayer \in Layers /\ store = Merged(pbuffer, mlayer)
          /\ t \in Mergers
      BY <3>1 DEF TypeOK, DataInv, MutexInv
    <3>3. store = Merged(store, mlayer)
      BY Zenon, <3>2, MergedTwice
    <3>4. pc'[t] = "clearml" /\ \A s \in Threads : s # t => pc'[s] = pc[s]
      BY Zenon, <1>t, <3>1
    <3>5. Committing'
      BY Zenon, <3>2, <3>4 DEF Committing
    <3>6. \A s \in Threads :
             /\ pc'[s] = "clearml" => pbuffer' = Nil /\ store' = Merged(store', mlayer')
             /\ pc'[s] \notin {"clearbuf", "cas", "use"}
      BY <2>1, <3>1, <3>3, <3>4
    <3> QED  BY Zenon, <3>1, <3>4, <3>5, <3>6 DEF DataInv, BufferFresh, DirtyCoversMutations
<1>16. ASSUME NEW t \in Threads, CommitClearMlayer(t) PROVE DataInv'
  <2>1. \A s \in Threads : s # t => pc[s] \in {"idle", "lock", "rlock"}
    BY <1>0, <1>16 DEF CommitClearMlayer, TypeOK, MutexInv, Fetching, Places
  <2>2. QED
    BY Zenon, <1>0, <1>16, <2>1, EmptyLayerFits DEF
       CommitClearMlayer, Return, Unlock, Goto, TypeOK, MutexInv, UseInv, DataInv,
       Fetching, BufferFresh, Immutable, Committing, DirtyCoversMutations
<1>17. CASE UNCHANGED vars
  BY <1>17 DEF vars, DataInv, BufferFresh, Immutable, Committing, DirtyCoversMutations
<1>18. QED
  BY Zenon, <1>1, <1>2, <1>3, <1>4, <1>5, <1>6, <1>7, <1>8, <1>9, <1>10, <1>11, <1>12,
     <1>13, <1>14, <1>15, <1>16, <1>17 DEF
     Next, Step, ClientStep, MergerStep, getPostingList, LengthCount

(***************************************************************************)
(* What holds of a list that is only used through its locked operations.   *)
(***************************************************************************)
LEMMA ListInvariant ==
  ASSUME Counters = {}
  PROVE  Spec => []ListInv
<1>1. Init => ListInv
  <2> SUFFICES ASSUME Init PROVE DataInv
    BY InitTypeInv DEF ListInv
  <2>1. LayersFit(Immutable, mlayer)
    BY EmptyLayerFits DEF Init, Immutable
  <2>2. QED
    BY <2>1 DEF Init, DataInv, BufferFresh, DirtyCoversMutations
<1>2. ListInv /\ [Next]_vars => ListInv'
  BY NextTypeInv, NextDataInv DEF ListInv
<1>3. QED  BY <1>1, <1>2, PTL DEF Spec

\* Without Length, the immutable layer cached in memory is never out of date:
\* getPostingList under the mutex cannot hand out, or commit write back, an
\* old list.
THEOREM BufferStaysFresh ==
  ASSUME Counters = {}
  PROVE  Spec => []BufferFresh
<1>1. ListInv => BufferFresh  BY DEF ListInv, DataInv
<1>2. QED  BY <1>1, ListInvariant, PTL

\* CommitIfDirty, which reads dirtyTs without the mutex, skips no list that has
\* mutations to merge.
THEOREM DirtyListsAreSeen ==
  ASSUME Counters = {}
  PROVE  Spec => []DirtyCoversMutations
<1>1. ListInv => DirtyCoversMutations  BY DEF ListInv, DataInv
<1>2. QED  BY <1>1, ListInvariant, PTL

\* Length, computed from the marks, is the number of postings an iteration over
\* the same layers visits.
THEOREM LengthIsIteration ==
  ASSUME Counters = {}
  PROVE  Spec => []LengthCountsIteration
<1>1. ListInv => LengthCountsIteration
  <2> SUFFICES ASSUME ListInv, ~Committing, NEW a \in Uids \cup {0}
               PROVE  LengthOf(Immutable, mlayer, a)
                        = Cardinality(After(Present(View), a))
    BY DEF LengthCountsIteration
  <2>1. LayersFit(Immutable, mlayer)
    BY DEF ListInv, TypeInv, MutexInv, DataInv, Committing
  <2>2. Immutable \in Contents /\ mlayer \in Layers /\ a \in Nat
    BY LayersAssumption DEF ListInv, TypeInv, TypeOK, Immutable
  <2>3. QED  BY <2>1, <2>2, LengthCounts DEF View
<1>2. QED  BY <1>1, ListInvariant, PTL

-----------------------------------------------------------------------------
(* The refinement of ListSpec. *)

\* No step but the update of an AddMutation changes what the list contains.
LEMMA ViewStaysPut ==
  ASSUME Counters = {}, ListInv, [Next]_vars,
         ~ \E t \in Clients : AddMutationUpdate(t)
  PROVE  View' = View
<1> USE DEF ListInv, TypeInv
<1>0. /\ Threads = Clients \cup Mergers /\ Clients \cap Mergers = {}
      /\ Nil \notin Contents /\ Nil \notin Threads
  BY ThreadsAssumption DEF Threads
<1>1. CASE UNCHANGED <<store, pbuffer, mlayer>>
  BY Zenon, <1>1 DEF View, Immutable
<1>2. ASSUME NEW t \in Threads, SwapBuffer(t) PROVE View' = View
  BY <1>0, <1>2 DEF SwapBuffer, View, Immutable, DataInv
<1>3. ASSUME NEW t \in Threads, CommitStore(t) PROVE View' = View
  BY Zenon, <1>0, <1>3 DEF CommitStore, View, Immutable, DataInv
<1>4. ASSUME NEW t \in Threads, CommitClearBuffer(t) PROVE View' = View
  BY <1>0, <1>4, MergedTwice
  DEF CommitClearBuffer, ResetBuffer, View, Immutable, DataInv, TypeOK
<1>5. ASSUME NEW t \in Threads, CommitClearMlayer(t) PROVE View' = View
  BY Zenon, <1>0, <1>5, MergedEmpty
  DEF CommitClearMlayer, View, Immutable, DataInv, TypeOK
<1>6. QED
  <2>1. CASE UNCHANGED vars
    BY <1>1, <2>1 DEF vars
  <2>2. ASSUME NEW t \in Clients, AddMutation(t) \/ Read(t) PROVE View' = View
    BY Zenon, <1>1, <2>2 DEF AddMutation, Read
  <2>3. ASSUME NEW t \in Mergers, CommitIfDirty(t) PROVE View' = View
    BY <1>1, <2>3 DEF CommitIfDirty
  <2>4. ASSUME NEW t \in Threads, Step(t) PROVE View' = View
    <3>1. CASE WaitForLock(t) \/ LoadBuffer(t) \/ GetFromStore(t)
      BY <1>1, <3>1 DEF WaitForLock, LoadBuffer, GetFromStore
    <3>2. CASE AddMutationLocked(t) \/ ReadLock(t) \/ ReadIterate(t)
      BY Zenon, <1>1, <3>2 DEF AddMutationLocked, ReadLock, ReadIterate
    <3>3. CASE CommitClean(t) \/ CommitLocked(t)
      BY <1>1, <3>3 DEF CommitClean, CommitLocked
    <3>4. ~AddMutationUpdate(t)
      BY Zenon DEF AddMutationUpdate
    <3>5. QED
      BY Zenon, <2>4, <1>2, <1>3, <1>4, <1>5, <3>1, <3>2, <3>3, <3>4
      DEF Step, ClientStep, MergerStep, getPostingList, LengthCount
  <2>5. QED
    BY <2>1, <2>2, <2>3, <2>4 DEF Next

\* ListSpec and PostingList share the operators of PostingLayers.
LEMMA SharedOperators ==
  /\ Abstract!Contents = Contents
  /\ Abstract!Edges = Edges
  /\ Abstract!Ops = Ops
  /\ \A e : Abstract!ValueId(e) = ValueId(e)
  /\ \A c, u, op, v : Abstract!Apply(c, u, op, v) = Apply(c, u, op, v)
BY DEF Abstract!Contents, Contents, Abstract!Edges, Edges, Abstract!Ops, Ops,
       Abstract!ValueId, ValueId, Abstract!Apply, Apply

\* The update of an AddMutation is a Mutate step of ListSpec.
LEMMA UpdateIsMutate ==
  ASSUME ListInv, NEW t \in Clients, Counters = {}, AddMutationUpdate(t)
  PROVE  Abstract!Mutate(t)
<1> DEFINE c == call[t]
           changed == HasMutated(plist[t], mlayer, c.uid, c.op, c.val)
<1>1. /\ c \in Calls
      /\ t \in Threads /\ Nil \notin Threads /\ Nil \notin Contents
      /\ \A s \in Threads : pc[s] # "clearml"
  <2>1. t \in Threads /\ Nil \notin Threads /\ Nil \notin Contents
        /\ Clients \cap Mergers = {} /\ pc[t] = "use" /\ writer = t
    BY Zenon, ThreadsAssumption DEF AddMutationUpdate, Threads
  <2>2. QED  BY Zenon, <2>1 DEF ListInv, TypeInv, MutexInv
<1>2. Immutable \in Contents /\ mlayer \in Layers /\ LayersFit(Immutable, mlayer)
  BY Zenon, <1>1 DEF ListInv, TypeInv, TypeOK, DataInv, Immutable
<1>3. /\ mlayer' = UpdateMutationLayer(Immutable, mlayer, c.uid, c.op, c.val)
      /\ changed <=> HasMutated(Immutable, mlayer, c.uid, c.op, c.val)
  <2>1. CASE mlayer[c.uid] # NoMut
    BY Zenon, <2>1 DEF AddMutationUpdate, UpdateMutationLayer, HasMutated
  <2>2. CASE mlayer[c.uid] = NoMut
    <3>1. plist[t] = Immutable
      BY Zenon, <1>1, <2>2 DEF AddMutationUpdate, ListInv, DataInv, Immutable
    <3>2. QED  BY Zenon, <3>1 DEF AddMutationUpdate
  <2>3. QED  BY <2>1, <2>2
<1>4. Immutable' = Immutable
  BY Zenon DEF AddMutationUpdate, Immutable
<1>5. View' = Apply(View, c.uid, c.op, c.val)
  <2>1. c.uid \in Uids /\ c.op \in Ops /\ c.val \in Vals
    BY <1>1 DEF Calls
  <2> HIDE DEF c
  <2>2. QED  BY Zenon, <1>2, <1>3, <1>4, <2>1, UpdateApplies DEF View
<1>6. changed <=> View' # View
  BY Zenon, <1>1, <1>2, <1>3, <1>5, HasMutatedIffChanged DEF View, Calls
<1>7. /\ result' = [result EXCEPT ![t] = [mutated |-> changed]]
      /\ call' = [call EXCEPT ![t] = NoCall]
  BY DEF AddMutationUpdate, Return
<1>8. changed \in BOOLEAN /\ (View' # View) \in BOOLEAN
  BY Zenon DEF HasMutated
<1>9. [s \in Clients |-> result'[s]]
         = [[s \in Clients |-> result[s]] EXCEPT ![t] = [mutated |-> View' # View]]
  <2>1. [mutated |-> changed] = [mutated |-> View' # View]
    BY Zenon, <1>6, <1>8
  <2> HIDE DEF changed, c
  <2>2. QED
    BY Zenon, <1>1, <1>7, <2>1, ThreadsAssumption DEF ListInv, TypeInv, TypeOK, Threads
<1>10. [s \in Clients |-> call'[s]] = [[s \in Clients |-> call[s]] EXCEPT ![t] = NoCall]
  BY Zenon, <1>1, <1>7, ThreadsAssumption DEF ListInv, TypeInv, TypeOK, Threads
<1>11. c # NoCall
  BY <1>1 DEF Calls, NoCall
<1>12. [s \in Clients |-> call[s]][t] = c
  OBVIOUS
<1> HIDE DEF c, changed
<1>13. QED
  BY ZenonT(30), <1>5, <1>9, <1>10, <1>11, <1>12, SharedOperators
  DEF Abstract!Mutate, Abstract!NoCall, NoCall

\* Every step of the list is a step of ListSpec or leaves it unchanged.
LEMMA NextIsAbstract ==
  ASSUME ListInv, Counters = {}, [Next]_vars
  PROVE  [Abstract!Next]_(Abstract!vars)
<1>0. /\ Threads = Clients \cup Mergers /\ Clients \cap Mergers = {}
      /\ Nil \notin Contents /\ Nil \notin Threads
  BY ThreadsAssumption DEF Threads
<1>1. ASSUME NEW t \in Clients, AddMutationUpdate(t)
      PROVE  Abstract!Next
  BY <1>1, UpdateIsMutate DEF Abstract!Next
<1>2. CASE ~ \E t \in Clients : AddMutationUpdate(t)
  <2>1. View' = View
    BY <1>2, ViewStaysPut
  <2>2. ASSUME NEW t \in Clients, NEW r,
               result' = [result EXCEPT ![t] = r]
        PROVE  [s \in Clients |-> result'[s]]
                 = [[s \in Clients |-> result[s]] EXCEPT ![t] = r]
    BY Zenon, <1>0, <2>2 DEF ListInv, TypeInv, TypeOK
  <2>3. ASSUME NEW t \in Clients, NEW r,
               call' = [call EXCEPT ![t] = r]
        PROVE  [s \in Clients |-> call'[s]]
                 = [[s \in Clients |-> call[s]] EXCEPT ![t] = r]
    BY Zenon, <1>0, <2>3 DEF ListInv, TypeInv, TypeOK
  <2>4. ASSUME NEW t \in Clients, call[t] = NoCall,
               call' = [call EXCEPT ![t] = NoCall]
        PROVE  call' = call
    BY <1>0, <2>4 DEF ListInv, TypeInv, TypeOK
  <2>5. ASSUME NEW t \in Clients, AddMutation(t)
        PROVE  Abstract!Next
    <3>1. call[t] = NoCall
      BY Zenon, <1>0, <2>5 DEF AddMutation, ListInv, TypeInv, MutexInv
    <3>2. PICK e \in Edges, op \in Ops :
            IF Rejected(e)
            THEN Return(t, [error |-> "ValueId cannot be zero"])
            ELSE /\ call' = [call EXCEPT ![t] = [uid |-> ValueId(e), op |-> op, val |-> e.val]]
                 /\ result' = [result EXCEPT ![t] = NoResult]
      BY Zenon, <2>5 DEF AddMutation
    <3>3. CASE Rejected(e)
      <4>1. /\ call' = [call EXCEPT ![t] = NoCall]
            /\ result' = [result EXCEPT ![t] = [error |-> "ValueId cannot be zero"]]
        BY Zenon, <3>2, <3>3 DEF Return
      <4>2. call' = call
        BY Zenon, <2>4, <3>1, <4>1
      <4>3. Abstract!RejectZero(t)
        BY Zenon, <2>1, <2>2, <3>1, <4>1, <4>2 DEF
           Abstract!RejectZero, Abstract!NoCall, NoCall
      <4>4. QED  BY <4>3 DEF Abstract!Next
    <3>4. CASE ~Rejected(e)
      <4> DEFINE r == [uid |-> ValueId(e), op |-> op, val |-> e.val]
      <4>1. call' = [call EXCEPT ![t] = r] /\ result' = [result EXCEPT ![t] = NoResult]
        BY <3>2, <3>4
      <4>2. \E f \in Edges, o \in Ops :
              ValueId(f) # 0 /\ r = [uid |-> ValueId(f), op |-> o, val |-> f.val]
        BY <3>4 DEF Rejected
      <4> HIDE DEF r
      <4>3. /\ [s \in Clients |-> call'[s]] = [[s \in Clients |-> call[s]] EXCEPT ![t] = r]
            /\ [s \in Clients |-> result'[s]]
                 = [[s \in Clients |-> result[s]] EXCEPT ![t] = NoResult]
        BY Zenon, <2>2, <2>3, <4>1
      <4>4. \E f \in Abstract!Edges, o \in Abstract!Ops :
              /\ Abstract!ValueId(f) # 0
              /\ r = [uid |-> Abstract!ValueId(f), op |-> o, val |-> f.val]
        BY <4>2, SharedOperators
      <4>5. \E f \in Abstract!Edges, o \in Abstract!Ops :
              /\ Abstract!ValueId(f) # 0
              /\ [s \in Clients |-> call'[s]]
                   = [[s \in Clients |-> call[s]] EXCEPT
                        ![t] = [uid |-> Abstract!ValueId(f), op |-> o, val |-> f.val]]
        BY <4>3, <4>4, Zenon
      <4>6. [s \in Clients |-> call[s]][t] = Abstract!NoCall
        BY <3>1 DEF Abstract!NoCall, NoCall
      <4>7. [s \in Clients |-> result'[s]]
              = [[s \in Clients |-> result[s]] EXCEPT ![t] = Abstract!NoResult]
        BY Zenon, <4>3 DEF Abstract!NoResult, NoResult
      <4>8. Abstract!Request(t)
        BY <2>1, <4>5, <4>6, <4>7, Zenon DEF Abstract!Request
      <4>9. QED  BY <4>8 DEF Abstract!Next
    <3>5. QED  BY <3>3, <3>4
  <2>6. ASSUME NEW t \in Clients, Read(t)
        PROVE  Abstract!Next
    <3>1. Abstract!Forget(t)
      BY Zenon, <2>1, <2>2, <2>6 DEF Read, Abstract!Forget, Abstract!NoResult, NoResult
    <3>2. QED  BY <3>1 DEF Abstract!Next
  <2>7. ASSUME NEW t \in Threads, ReadIterate(t)
        PROVE  Abstract!Next
    <3>1. t \in Clients /\ writer # t /\ call[t] = NoCall
      BY Zenon, <2>7 DEF ReadIterate, ListInv, TypeInv, MutexInv
    <3>2. plist[t] = Immutable
      BY <2>7, <3>1 DEF ReadIterate, ListInv, DataInv, Immutable
    <3>3. /\ result' = [result EXCEPT ![t] = [read |-> View]]
          /\ call' = [call EXCEPT ![t] = NoCall]
      BY <2>7, <3>2 DEF ReadIterate, Return, View
    <3>4. call' = call
      BY Zenon, <2>4, <3>1, <3>3
    <3>5. Abstract!Read(t)
      BY Zenon, <2>1, <2>2, <3>1, <3>3, <3>4 DEF Abstract!Read, Abstract!NoCall, NoCall
    <3>6. QED  BY Zenon, <3>1, <3>5 DEF Abstract!Next
  <2>8. ASSUME NEW t \in Threads, CommitClearMlayer(t)
        PROVE  /\ [s \in Clients |-> result'[s]] = [s \in Clients |-> result[s]]
               /\ [s \in Clients |-> call'[s]] = [s \in Clients |-> call[s]]
    <3>1. t \notin Clients
      BY <1>0, <2>8 DEF CommitClearMlayer, ListInv, TypeInv, MutexInv
    <3>2. QED
      BY <1>0, <2>8, <3>1 DEF CommitClearMlayer, Return, ListInv, TypeInv, TypeOK
  <2>9. ASSUME NEW t \in Mergers, CommitIfDirty(t)
        PROVE  result' = result /\ call' = call
    BY <2>9 DEF CommitIfDirty
  <2>10. ASSUME NEW t \in Threads, Step(t),
               ~ReadIterate(t), ~CommitClearMlayer(t)
        PROVE  result' = result /\ call' = call
    <3>1. ~AddMutationUpdate(t)
      BY Zenon, <1>2 DEF AddMutationUpdate
    <3>2. ~LengthCount(t)
      BY Zenon, <1>0, <2>10 DEF LengthCount
    <3>3. QED
      BY Zenon, <2>10, <3>1, <3>2
      DEF Step, ClientStep, MergerStep, getPostingList, WaitForLock, LoadBuffer,
          GetFromStore, SwapBuffer, AddMutationLocked, ReadLock, CommitClean,
          CommitLocked, CommitStore, CommitClearBuffer
  <2>11. CASE UNCHANGED vars
    BY <2>1, <2>11 DEF vars, Abstract!vars
  <2>12. QED
    BY Zenon, <2>1, <2>5, <2>6, <2>7, <2>8, <2>9, <2>10, <2>11 DEF Next, Abstract!vars
<1>3. QED  BY <1>1, <1>2

\* The list implements ListSpec: AddMutation and the locked reads are atomic
\* operations on one map, whatever merging goes on.
THEOREM ListRefinesSpec ==
  ASSUME Counters = {}
  PROVE  Spec => ListImplementsSpec
<1>1. Init => Abstract!Init
  <2> SUFFICES ASSUME Init PROVE Abstract!Init
    OBVIOUS
  <2>1. View = store
    BY MergedEmpty DEF Init, View, Immutable
  <2>2. /\ [t \in Clients |-> result[t]] = [t \in Clients |-> NoResult]
        /\ [t \in Clients |-> call[t]] = [t \in Clients |-> NoCall]
    BY DEF Init, Threads
  <2>3. QED
    BY Zenon, <2>1, <2>2, SharedOperators
    DEF Init, Abstract!Init, Abstract!NoResult, NoResult, Abstract!NoCall, NoCall
<1>2. ListInv /\ [Next]_vars => [Abstract!Next]_(Abstract!vars)
  BY NextIsAbstract
<1>3. QED
  BY <1>1, <1>2, ListInvariant, PTL DEF Spec, ListImplementsSpec, Abstract!Spec
=============================================================================
