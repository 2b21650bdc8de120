------------------------ MODULE ListCacheMergeProofs ------------------------
(***************************************************************************)
(* Proofs about what the merges of ListCache do with mutations, on top of  *)
(* the invariant of ListCacheProofs: no list with mutations is forgotten,  *)
(* and where memory does not run out none that is acknowledged is lost.    *)
(***************************************************************************)
EXTENDS ListCacheProofs

(* Without evictions: what is in a list of the map or in the store stays. *)
AckInv ==
  /\ periodic = "select" /\ workChan = {}
  /\ \A w \in Workers : committer[w].pc = "idle"
  /\ \A x \in Committers : committer[x].pc \in {"check", "commit", "locked"} =>
       \E k \in Keys : lhmap[k] = committer[x].l
  /\ \A x \in Committers : committer[x].pc = "locked" =>
       lists[committer[x].l].ready /\ lists[committer[x].l].lock = x
  /\ \A k \in Keys : lhmap[k] # Nil => lists[lhmap[k]].pbuffer \in {Nil, store[k]}
  /\ \A c \in Clients :
       /\ client[c].pc = "put" => lists[client[c].l].pbuffer = Nil
       /\ client[c].pc \in Holding => lhmap[client[c].key] = client[c].lp
       /\ client[c].pc = "send" => /\ lists[client[c].lp].lock = c
                                   /\ client[c].mut \in lists[client[c].lp].mlayer
  /\ AckedNotLost

(* A list with mutations is marked dirty, one that a call has just made has none,
   and a merge has its keys until it is through with them. *)
TrackInv ==
  /\ \A x \in Committers : committer[x].pc = "idle" \/ x \in Workers => committer[x].keys = {}
  /\ \A p \in Ptrs \ pool : lists[p].mlayer # {} => lists[p].dirty
  /\ \A c \in Clients : client[c].pc = "put" => lists[client[c].l].mlayer = {}
  /\ DirtyListsTracked

-----------------------------------------------------------------------------
(* Calls that change the contents of no list *)

\* What the lists in S contain is the same, and they are initialized if they were.
Contents(S) ==
  \A p \in S : /\ lists'[p].mlayer = lists[p].mlayer /\ lists'[p].pbuffer = lists[p].pbuffer
               /\ lists'[p].lock = lists[p].lock /\ lists'[p].dirty = lists[p].dirty
               /\ lists[p].ready => lists'[p].ready

\* Client c has gone to pc, and no mutation has been added or sent: what the lists
\* in use contain and the map are as before.
Quiet(c, pc, k, lp, l, m) ==
  /\ Moves(c, pc, k, lp, l, m)
  /\ UNCHANGED <<store, lhmap, committer, dirtyChan, dirtyMap, periodic, workChan, acked>>
  /\ Contents(Ptrs \ pool)
  /\ \A p \in pool \ pool' : lists'[p].mlayer = {}
  /\ pc = "put" => lists'[l].pbuffer = Nil /\ lists'[l].mlayer = {}
  /\ pc \in Holding => \/ lhmap[k] = lp
                       \/ client[c].pc \in Holding /\ k = client[c].key /\ lp = client[c].lp
  /\ client[c].pc # "send" /\ pc # "send"

\* Nothing that the map has, that a call has made or that one holds is in the pool.
LEMMA InUse ==
  ASSUME Inv
  PROVE  /\ \A k \in Keys : lhmap[k] # Nil => lhmap[k] \in Ptrs \ pool
         /\ \A c \in Clients : /\ client[c].pc = "put" => client[c].l \in Ptrs \ pool
                               /\ client[c].pc \in Holding => client[c].lp \in Ptrs \ pool
<1>1. TypeOK /\ RefInv /\ CallInv
  BY DEF Inv
<1>2. \A k \in Keys : lhmap[k] # Nil => lhmap[k] \in Ptrs \ pool
  <2> SUFFICES ASSUME NEW k \in Keys, lhmap[k] # Nil PROVE lhmap[k] \in Ptrs \ pool
    OBVIOUS
  <2>1. lhmap[k] \in Ptrs
    BY <1>1 DEF TypeOK
  <2> QED  BY <1>1, <2>1, OwnersCount
<1>3. \A c \in Clients : client[c].pc = "put" => client[c].l \in Ptrs \ pool
  BY <1>1 DEF CallInv, CallOK
<1>4. \A c \in Clients : client[c].pc \in Holding => client[c].lp \in Ptrs \ pool
  BY <1>1, HolderCounts
<1> QED  BY <1>2, <1>3, <1>4

\* A reference more or less does not change the contents.
LEMMA CountsContents ==
  ASSUME lists \in [Ptrs -> List], NEW p \in Ptrs, NEW n, Counts(p, n)
  PROVE  Contents(Ptrs)
<1>1. lists[p] \in List /\ lists'[p] = [lists[p] EXCEPT !.refcount = n]
  BY DEF Counts
<1>2. /\ lists'[p].mlayer = lists[p].mlayer /\ lists'[p].pbuffer = lists[p].pbuffer
      /\ lists'[p].lock = lists[p].lock /\ lists'[p].ready = lists[p].ready
      /\ lists'[p].dirty = lists[p].dirty
  BY <1>1 DEF List
<1>3. \A q \in Ptrs \ {p} : lists'[q] = lists[q]
  BY DEF Counts
<1> QED  BY <1>2, <1>3 DEF Contents

\* The steps of a call other than PutNew, the mutation and the sending of its key.
LEMMA QuietCall ==
  ASSUME Inv, NEW c \in Clients,
         \/ GetOrCreate(c) \/ GetFound(c) \/ AddMutation(c)
         \/ TakeReference(c) \/ InitOrUndo(c) \/ Release(c) \/ getNew(c)
  PROVE  \E pc, k, lp, l, m : Quiet(c, pc, k, lp, l, m)
<1>0. TypeOK /\ RefInv /\ CallInv /\ CallOK(c) /\ lists \in [Ptrs -> List] /\ pool \subseteq Ptrs
  BY DEF Inv, CallInv, TypeOK
<1>1. CASE GetOrCreate(c)
  <2>1. PICK k \in Keys : Moves(c, "get", k, client[c].lp, client[c].l, client[c].mut)
    BY <1>0, <1>1, Moves_GetOrCreate
  <2>2. Contents(Ptrs \ pool) /\ "get" \notin Holding
    BY <1>1 DEF Contents, GetOrCreate, Holding
  <2>3. Quiet(c, "get", k, client[c].lp, client[c].l, client[c].mut)
    BY <1>1, <2>1, <2>2 DEF GetOrCreate, Quiet
  <2> QED  BY <2>3
<1>2. CASE GetFound(c)
  <2>1. Moves(c, "incr", client[c].key, lhmap[client[c].key], client[c].l, client[c].mut)
    BY <1>0, <1>2, Moves_GetFound
  <2>2. Contents(Ptrs \ pool) /\ "incr" \notin Holding
    BY <1>2 DEF Contents, GetFound, Holding
  <2>3. Quiet(c, "incr", client[c].key, lhmap[client[c].key], client[c].l, client[c].mut)
    BY <1>2, <2>1, <2>2 DEF GetFound, Quiet
  <2> QED  BY <2>3
<1>3. CASE AddMutation(c)
  <2>1. \/ Moves(c, "release", client[c].key, client[c].lp, client[c].l, client[c].mut)
        \/ \E m \in Mutations : Moves(c, "lock", client[c].key, client[c].lp, client[c].l, m)
    BY <1>0, <1>3, Moves_Retry, Moves_Start
  <2>2. Contents(Ptrs \ pool) /\ client[c].pc \in Holding
    BY <1>3 DEF Contents, AddMutation, Holding
  <2>3. /\ UNCHANGED <<store, pool, lhmap, committer, dirtyChan, dirtyMap, periodic, workChan, acked>>
        /\ client[c].pc = "have"
    BY <1>3 DEF AddMutation
  <2>4. ASSUME NEW pc \in {"release", "lock"}, NEW m,
               Moves(c, pc, client[c].key, client[c].lp, client[c].l, m)
        PROVE  Quiet(c, pc, client[c].key, client[c].lp, client[c].l, m)
    BY <2>2, <2>3, <2>4 DEF Quiet
  <2> QED  BY <2>1, <2>4
<1>4. CASE TakeReference(c)
  <2> DEFINE pc == IF client[c].l = Nil THEN "have" ELSE "init"
  <2>1. Moves(c, pc, client[c].key, client[c].lp, client[c].l, client[c].mut)
    BY <1>0, <1>4, Moves_TakeReference
  <2>2. PICK p \in Ptrs : p = client[c].lp /\ lhmap[client[c].key] = p
    BY <1>0, <1>4 DEF TakeReference, CallOK
  <2>3. lists' = [lists EXCEPT ![p].refcount = lists[p].refcount + 1]
        /\ lists[p].refcount + 1 \in Nat
    BY <1>0, <1>4, <2>2 DEF TakeReference, incr, List
  <2>4. Counts(p, lists[p].refcount + 1)
    BY Zenon, <1>0, <2>3, CountsChange
  <2>5. Contents(Ptrs \ pool)
    BY <1>0, <2>4, CountsContents DEF Contents
  <2>6. pc # "put" /\ pc # "send"
    OBVIOUS
  <2> HIDE DEF pc
  <2>7. Quiet(c, pc, client[c].key, client[c].lp, client[c].l, client[c].mut)
    BY <1>4, <2>1, <2>2, <2>5, <2>6 DEF TakeReference, Quiet
  <2> QED  BY <2>7
<1>5. CASE InitOrUndo(c)
  <2>1. Moves(c, "have", client[c].key, client[c].lp, Nil, client[c].mut)
    BY <1>0, <1>5, Moves_InitOrUndo
  <2>2. PICK p \in Ptrs, k \in Keys : p = client[c].l /\ k = client[c].key
    BY <1>0, <1>5 DEF InitOrUndo, CallOK
  <2>3. lhmap[client[c].key] = client[c].lp
        /\ UNCHANGED <<store, lhmap, committer, dirtyChan, dirtyMap, periodic, workChan, acked>>
    BY <1>0, <1>5 DEF InitOrUndo, CallOK
  <2>4. Contents(Ptrs \ pool)
    <3>1. CASE client[c].lp = client[c].l
      <4>1. init(p, k)
        BY <1>5, <2>2, <3>1 DEF InitOrUndo
      <4> QED  BY <1>0, <4>1, InitChange DEF Contents
    <3>2. CASE client[c].lp # client[c].l
      <4>1. decr(p)
        BY <1>5, <2>2, <3>2 DEF InitOrUndo, UndoGetNew
      <4>2. c \in Makers(p)
        BY <1>0, <1>5, <2>2, <3>2, CacheAssumption DEF Makers, InitOrUndo, CallOK
      <4>3. References(p) # 0 /\ References(p) \in Nat
        BY <4>2, Counted, Sum
      <4>4. lists[p].refcount - 1 \in Nat
        BY <1>0, <4>3 DEF RefInv
      <4>5. Counts(p, lists[p].refcount - 1)
        BY Zenon, <1>0, <4>1, <4>4, CountsChange DEF decr
      <4> QED  BY <1>0, <4>5, CountsContents DEF Contents
    <3> QED  BY <3>1, <3>2
  <2>5. pool \subseteq pool' /\ client[c].pc = "init"
    BY <1>5 DEF InitOrUndo, UndoGetNew, decr
  <2>6. Quiet(c, "have", client[c].key, client[c].lp, Nil, client[c].mut)
    BY <2>1, <2>3, <2>4, <2>5 DEF Quiet
  <2> QED  BY <2>6
<1>6. CASE Release(c)
  <2>1. Moves(c, "idle", Nil, Nil, Nil, Nil) /\ "idle" \notin Holding
    BY <1>0, <1>6, Moves_Release DEF Holding
  <2>2. client[c].pc \in Holding
    BY <1>6 DEF Release, Holding
  <2>3. PICK p \in Ptrs : p = client[c].lp
    BY <1>0, <2>2 DEF CallOK
  <2>4. References(p) # 0 /\ References(p) \in Nat /\ p \notin pool
    BY <1>0, <2>2, <2>3, HolderCounts, Counted, Sum
  <2>5. lists[p].refcount - 1 \in Nat
    BY <1>0, <2>4 DEF RefInv
  <2>6. Counts(p, lists[p].refcount - 1)
    BY Zenon, <1>0, <1>6, <2>3, <2>5, CountsChange DEF Release, decr
  <2>7. Contents(Ptrs \ pool)
    BY <1>0, <2>6, CountsContents DEF Contents
  <2>8. pool \subseteq pool' /\ client[c].pc # "send"
    BY <1>6 DEF Release, decr
  <2>9. Quiet(c, "idle", Nil, Nil, Nil, Nil)
    BY <1>6, <2>1, <2>7, <2>8 DEF Release, Quiet
  <2> QED  BY <2>9
<1>7. CASE getNew(c)
  <2>1. PICK n \in pool : /\ pool' = pool \ {n} /\ lists' = [lists EXCEPT ![n] = NewList]
                          /\ Moves(c, "put", client[c].key, client[c].lp, n, client[c].mut)
    BY <1>0, <1>7, Moves_getNew
  <2>2. lists'[n].pbuffer = Nil /\ lists'[n].mlayer = {}
    BY <1>0, <2>1 DEF NewList
  <2>3. Contents(Ptrs \ pool) /\ "put" \notin Holding
    BY <1>0, <2>1 DEF Contents, Holding
  <2>4. UNCHANGED <<store, lhmap, committer, dirtyChan, dirtyMap, periodic, workChan, acked>>
        /\ client[c].pc = "get"
    BY <1>7 DEF getNew
  <2>5. Quiet(c, "put", client[c].key, client[c].lp, n, client[c].mut)
    BY Zenon, <2>1, <2>2, <2>3, <2>4 DEF Quiet
  <2> QED  BY <2>5
<1> QED  BY Zenon, <1>1, <1>2, <1>3, <1>4, <1>5, <1>6, <1>7

-----------------------------------------------------------------------------
(* Without evictions *)

\* A call moves on, and neither the contents of a list in use nor the map changes.
LEMMA AckCall ==
  ASSUME Inv, AckInv, NEW c \in Clients, NEW pc, NEW k, NEW lp, NEW l, NEW m,
         Quiet(c, pc, k, lp, l, m)
  PROVE  AckInv'
<1>0. /\ Moves(c, pc, k, lp, l, m) /\ Contents(Ptrs \ pool) /\ pc # "send"
      /\ UNCHANGED <<store, lhmap, committer, periodic, workChan, acked>>
      /\ pc = "put" => lists'[l].pbuffer = Nil
  BY DEF Quiet
<1>0a. pc \in Holding => lhmap[k] = lp
  BY DEF Quiet, AckInv
<1>1. /\ \A j \in Keys : lhmap[j] # Nil => lhmap[j] \in Ptrs \ pool
      /\ \A q \in Clients : /\ client[q].pc = "put" => client[q].l \in Ptrs \ pool
                            /\ client[q].pc \in Holding => client[q].lp \in Ptrs \ pool
  BY Zenon, InUse
<1>2. AckedNotLost'
  BY Zenon, <1>0, <1>1 DEF AckInv, AckedNotLost, Contents
<1>3. \A x \in Committers : committer[x].pc = "locked" =>
        lists'[committer[x].l].ready /\ lists'[committer[x].l].lock = x
  <2> SUFFICES ASSUME NEW x \in Committers, committer[x].pc = "locked"
               PROVE  lists'[committer[x].l].ready /\ lists'[committer[x].l].lock = x
    OBVIOUS
  <2>1. PICK j \in Keys : lhmap[j] = committer[x].l
    BY DEF AckInv
  <2>2. committer[x].l \in Ptrs
    BY HasList DEF Inv
  <2>3. committer[x].l \in Ptrs \ pool
    BY Zenon, <1>1, <2>1, <2>2, CacheAssumption
  <2>4. lists[committer[x].l].ready /\ lists[committer[x].l].lock = x
    BY DEF AckInv
  <2> QED  BY <1>0, <2>3, <2>4 DEF Contents
<1>4. \A j \in Keys : lhmap[j] # Nil => lists'[lhmap[j]].pbuffer \in {Nil, store[j]}
  BY <1>0, <1>1 DEF AckInv, Contents
<1>5. ASSUME NEW q \in Clients
      PROVE  /\ client'[q].pc = "put" => lists'[client'[q].l].pbuffer = Nil
             /\ client'[q].pc \in Holding => lhmap[client'[q].key] = client'[q].lp
             /\ client'[q].pc = "send" => /\ lists'[client'[q].lp].lock = q
                                          /\ client'[q].mut \in lists'[client'[q].lp].mlayer
  <2>1. CASE q = c
    BY Zenon, <1>0, <1>0a, <2>1 DEF Moves
  <2>2. CASE q # c
    <3>1. client'[q] = client[q] /\ "send" \in Holding
      BY Zenon, <1>0, <2>2 DEF Moves, Holding
    <3>2. /\ client[q].pc = "put" => lists[client[q].l].pbuffer = Nil
          /\ client[q].pc \in Holding => lhmap[client[q].key] = client[q].lp
          /\ client[q].pc = "send" => /\ lists[client[q].lp].lock = q
                                      /\ client[q].mut \in lists[client[q].lp].mlayer
      BY DEF AckInv
    <3> QED  BY <1>0, <1>1, <3>1, <3>2 DEF Contents
  <2> QED  BY <2>1, <2>2
<1> QED  BY <1>0, <1>2, <1>3, <1>4, <1>5 DEF AckInv

\* These steps lose nothing that is acknowledged.
LEMMA Ack_Calls ==
  ASSUME Inv, AckInv, NEW c \in Clients,
         \/ GetOrCreate(c) \/ GetFound(c) \/ AddMutation(c)
         \/ TakeReference(c) \/ InitOrUndo(c) \/ Release(c) \/ getNew(c)
  PROVE  AckInv'
BY QuietCall, AckCall

\* A list is put in the map only where there was none, and is empty.
LEMMA Ack_PutNew ==
  ASSUME Inv, AckInv, NEW c \in Clients, PutNew(c)
  PROVE  AckInv'
<1> DEFINE k == client[c].key
           n == client[c].l
           lp == PutIfMissing(k, n)
<1>1. Moves(c, "incr", k, lp, n, client[c].mut)
  BY Moves_PutNew DEF Inv
<1>2. /\ UNCHANGED <<store, lists, committer, periodic, workChan, acked>>
      /\ lhmap' = [lhmap EXCEPT ![k] = lp] /\ lhmap \in [Keys -> Ptrs \cup {Nil}]
      /\ client[c].pc = "put" /\ k \in Keys /\ n \in Ptrs /\ n # Nil
  BY CacheAssumption DEF PutNew, Inv, CallInv, CallOK, TypeOK
<1>3. lists[n].pbuffer = Nil /\ (lhmap[k] # Nil => lp = lhmap[k]) /\ (lhmap[k] = Nil => lp = n)
  BY <1>2 DEF AckInv, PutIfMissing
<1>4. "send" \in Holding /\ "incr" \notin Holding
  BY DEF Holding
<1> HIDE DEF k, n, lp
<1>6. \A j \in Keys : lhmap[j] # Nil => lhmap'[j] = lhmap[j]
  BY <1>2, <1>3
<1>7. \A j \in Keys : lhmap[j] = Nil => lhmap'[j] \in {Nil, n}
  BY Zenon, <1>2, <1>3
<1>8. AckedNotLost'
  BY <1>2, <1>6, <1>7 DEF AckInv, AckedNotLost
<1>9. \A x \in Committers : committer[x].pc \in {"check", "commit", "locked"} =>
        \E j \in Keys : lhmap'[j] = committer[x].l
  <2> SUFFICES ASSUME NEW x \in Committers, committer[x].pc \in {"check", "commit", "locked"}
               PROVE  \E j \in Keys : lhmap'[j] = committer[x].l
    OBVIOUS
  <2>1. PICK j \in Keys : lhmap[j] = committer[x].l
    BY DEF AckInv
  <2>2. committer[x].l # Nil
    BY HasList, CacheAssumption DEF Inv
  <2> QED  BY <1>6, <2>1, <2>2
<1>10. \A j \in Keys : lhmap'[j] # Nil => lists[lhmap'[j]].pbuffer \in {Nil, store[j]}
  BY Zenon, <1>3, <1>6, <1>7 DEF AckInv
<1>11. ASSUME NEW q \in Clients
       PROVE  /\ client'[q].pc = "put" => lists[client'[q].l].pbuffer = Nil
              /\ client'[q].pc \in Holding => lhmap'[client'[q].key] = client'[q].lp
              /\ client'[q].pc = "send" => /\ lists[client'[q].lp].lock = q
                                           /\ client'[q].mut \in lists[client'[q].lp].mlayer
  <2>1. CASE q = c
    BY Zenon, <1>1, <1>4, <2>1 DEF Moves
  <2>2. CASE q # c
    <3>1. client'[q] = client[q]
      BY Zenon, <1>1, <2>2 DEF Moves
    <3>2. client[q].pc \in Holding =>
            client[q].key \in Keys /\ client[q].lp # Nil /\ lhmap[client[q].key] = client[q].lp
      BY CacheAssumption DEF Inv, CallInv, CallOK, AckInv, Holding
    <3> QED  BY <1>4, <1>6, <3>1, <3>2 DEF AckInv
  <2> QED  BY <2>1, <2>2
<1> QED  BY <1>2, <1>8, <1>9, <1>10, <1>11 DEF AckInv

\* A mutation goes to the list that the map has for its key, under its lock.
LEMMA Ack_AddMutationUpdate ==
  ASSUME Inv, AckInv, NEW c \in Clients, AddMutationUpdate(c)
  PROVE  AckInv'
<1>1. Moves(c, "send", client[c].key, client[c].lp, client[c].l, client[c].mut)
  BY Moves_Update DEF Inv
<1>2. client[c].pc = "lock" /\ client[c].pc \in Holding
      /\ UNCHANGED <<store, pool, lhmap, committer, periodic, workChan, acked>>
  BY DEF AddMutationUpdate, Holding
<1>3. PICK p \in Ptrs, k \in Keys : p = client[c].lp /\ k = client[c].key
  BY Zenon, <1>2 DEF Inv, CallInv, CallOK
<1>4. lists[p].key = k /\ lhmap[k] = p /\ lists[p].lock = Nil /\ p # Nil
  BY Zenon, <1>2, <1>3, CacheAssumption DEF
     Inv, CallInv, CallOK, HeldInv, AckInv, AddMutationUpdate
<1> DEFINE y == [lists[p] EXCEPT !.lock = c, !.dirty = DirtyMark(lists[p]),
                                 !.mlayer = lists[p].mlayer \cup {client[c].mut},
                                 !.pbuffer = IF lists[p].pbuffer = Nil THEN store[k] ELSE lists[p].pbuffer]
<1>5. lists \in [Ptrs -> List] /\ lists[p] \in List
  BY DEF Inv, TypeOK
<1>6. lists' = [lists EXCEPT ![p] = y]
  BY <1>3, <1>4 DEF AddMutationUpdate
<1>7. /\ y.lock = c /\ y.mlayer = lists[p].mlayer \cup {client[c].mut} /\ y.ready = lists[p].ready
      /\ y.pbuffer = IF lists[p].pbuffer = Nil THEN store[k] ELSE lists[p].pbuffer
  BY <1>5 DEF List
<1> HIDE DEF y
<1>8. lists'[p] = y /\ \A q \in Ptrs \ {p} : lists'[q] = lists[q]
  BY <1>5, <1>6
<1>9. /\ \A j \in Keys : lhmap[j] # Nil => lhmap[j] \in Ptrs
      /\ \A j \in Keys : lhmap[j] = p => j = k
      /\ \A q \in Clients : /\ client[q].pc = "put" => client[q].l \in Ptrs \ {p}
                            /\ client[q].pc \in Holding => client[q].lp \in Ptrs
  <2>1. /\ \A j \in Keys : lhmap[j] # Nil => lhmap[j] \in Ptrs
        /\ \A q \in Clients : /\ client[q].pc = "put" => client[q].l \in Ptrs
                              /\ client[q].pc \in Holding => client[q].lp \in Ptrs
    BY InUse
  <2>2. \A j \in Keys : lhmap[j] = p => j = k
    BY <1>4 DEF Inv, MapInv
  <2>3. \A q \in Clients : client[q].pc = "put" => client[q].l # p
    BY Zenon, <1>2, <1>3 DEF Inv, CallInv, CallOK
  <2> QED  BY Zenon, <2>1, <2>2, <2>3
<1>10. AckedNotLost'
  BY <1>2, <1>7, <1>8, <1>9 DEF AckInv, AckedNotLost
<1>11. \A x \in Committers : committer[x].pc = "locked" =>
        lists'[committer[x].l].ready /\ lists'[committer[x].l].lock = x
  <2> SUFFICES ASSUME NEW x \in Committers, committer[x].pc = "locked"
               PROVE  lists'[committer[x].l].ready /\ lists'[committer[x].l].lock = x
    OBVIOUS
  <2>1. lists[committer[x].l].ready /\ lists[committer[x].l].lock = x /\ x # Nil
    BY CacheAssumption DEF AckInv, Committers
  <2>2. committer[x].l \in Ptrs \ {p}
    BY Zenon, <1>4, <2>1, HasList DEF Inv
  <2> QED  BY <1>8, <2>1, <2>2
<1>12. \A j \in Keys : lhmap[j] # Nil => lists'[lhmap[j]].pbuffer \in {Nil, store[j]}
  <2> SUFFICES ASSUME NEW j \in Keys, lhmap[j] # Nil
               PROVE  lists'[lhmap[j]].pbuffer \in {Nil, store[j]}
    OBVIOUS
  <2>1. lists[lhmap[j]].pbuffer \in {Nil, store[j]} /\ lhmap[j] \in Ptrs
    BY Zenon, <1>9 DEF AckInv
  <2> QED  BY Zenon, <1>7, <1>8, <1>9, <2>1
<1>13. ASSUME NEW q \in Clients
       PROVE  /\ client'[q].pc = "put" => lists'[client'[q].l].pbuffer = Nil
              /\ client'[q].pc \in Holding => lhmap[client'[q].key] = client'[q].lp
              /\ client'[q].pc = "send" => /\ lists'[client'[q].lp].lock = q
                                           /\ client'[q].mut \in lists'[client'[q].lp].mlayer
  <2>1. CASE q = c
    BY <1>1, <1>3, <1>4, <1>7, <1>8, <2>1 DEF Moves
  <2>2. CASE q # c
    <3>1. client'[q] = client[q] /\ "send" \in Holding /\ q # Nil
      BY Zenon, <1>1, <2>2, CacheAssumption DEF Moves, Holding
    <3>2. /\ client[q].pc = "put" => lists[client[q].l].pbuffer = Nil
          /\ client[q].pc \in Holding => lhmap[client[q].key] = client[q].lp
          /\ client[q].pc = "send" => /\ lists[client[q].lp].lock = q
                                      /\ client[q].mut \in lists[client[q].lp].mlayer
      BY Zenon DEF AckInv
    <3> QED  BY <1>4, <1>8, <1>9, <3>1, <3>2
  <2> QED  BY Zenon, <2>1, <2>2
<1> QED  BY <1>2, <1>10, <1>11, <1>12, <1>13 DEF AckInv

\* The mutation is acknowledged: it is in the list that the map has.
LEMMA Ack_SendDirty ==
  ASSUME Inv, AckInv, NEW c \in Clients, SendDirty(c)
  PROVE  AckInv'
<1>1. Moves(c, "release", client[c].key, client[c].lp, client[c].l, Nil)
  BY Moves_SendDirty DEF Inv
<1>2. client[c].pc = "send" /\ client[c].pc \in Holding
      /\ UNCHANGED <<store, pool, lhmap, committer, periodic, workChan>>
  BY DEF SendDirty, Holding
<1>3. PICK p \in Ptrs, k \in Keys : p = client[c].lp /\ k = client[c].key
  BY Zenon, <1>2 DEF Inv, CallInv, CallOK
<1>4. lhmap[k] = p /\ lists[p].lock = c /\ p # Nil /\ client[c].mut \in lists[p].mlayer
  BY <1>2, <1>3, CacheAssumption DEF AckInv
<1>5. lists \in [Ptrs -> List] /\ lists[p] \in List /\ acked \in [Keys -> SUBSET Mutations]
  BY DEF Inv, TypeOK
<1> DEFINE y == [lists[p] EXCEPT !.lock = Nil]
<1>6. lists' = [lists EXCEPT ![p] = y] /\ acked' = [acked EXCEPT ![k] = acked[k] \cup {client[c].mut}]
  BY <1>3 DEF SendDirty
<1>7. y.mlayer = lists[p].mlayer /\ y.pbuffer = lists[p].pbuffer /\ y.ready = lists[p].ready
  BY <1>5 DEF List
<1> HIDE DEF y
<1>8. /\ \A q \in Ptrs \ {p} : lists'[q] = lists[q]
      /\ \A q \in Ptrs : /\ lists'[q].mlayer = lists[q].mlayer /\ lists'[q].pbuffer = lists[q].pbuffer
                         /\ lists'[q].ready = lists[q].ready
  BY <1>5, <1>6, <1>7
<1>9. /\ \A j \in Keys : lhmap[j] # Nil => lhmap[j] \in Ptrs
      /\ \A q \in Clients : /\ client[q].pc = "put" => client[q].l \in Ptrs
                            /\ client[q].pc \in Holding => client[q].lp \in Ptrs
  BY InUse
<1>10. AckedNotLost'
  <2> SUFFICES ASSUME NEW j \in Keys
               PROVE  acked'[j] \subseteq store[j] \cup (IF lhmap[j] = Nil THEN {} ELSE lists'[lhmap[j]].mlayer)
    BY <1>2 DEF AckedNotLost
  <2>1. acked[j] \subseteq store[j] \cup (IF lhmap[j] = Nil THEN {} ELSE lists[lhmap[j]].mlayer)
    BY DEF AckInv, AckedNotLost
  <2>2. lhmap[j] # Nil => lists'[lhmap[j]].mlayer = lists[lhmap[j]].mlayer
    BY Zenon, <1>8, <1>9
  <2>3. CASE j = k
    BY Zenon, <1>4, <1>5, <1>6, <2>1, <2>2, <2>3
  <2>4. CASE j # k
    BY Zenon, <1>5, <1>6, <2>1, <2>2, <2>4
  <2> QED  BY <2>3, <2>4
<1>11. \A x \in Committers : committer[x].pc = "locked" =>
        lists'[committer[x].l].ready /\ lists'[committer[x].l].lock = x
  <2> SUFFICES ASSUME NEW x \in Committers, committer[x].pc = "locked"
               PROVE  lists'[committer[x].l].ready /\ lists'[committer[x].l].lock = x
    OBVIOUS
  <2>1. lists[committer[x].l].ready /\ lists[committer[x].l].lock = x /\ x # c
    BY CacheAssumption DEF AckInv, Committers
  <2>2. committer[x].l \in Ptrs \ {p}
    BY Zenon, <1>4, <2>1, HasList DEF Inv
  <2> QED  BY Zenon, <1>8, <2>1, <2>2
<1>12. \A j \in Keys : lhmap[j] # Nil => lists'[lhmap[j]].pbuffer \in {Nil, store[j]}
  BY Zenon, <1>8, <1>9 DEF AckInv
<1>13. ASSUME NEW q \in Clients
       PROVE  /\ client'[q].pc = "put" => lists'[client'[q].l].pbuffer = Nil
              /\ client'[q].pc \in Holding => lhmap[client'[q].key] = client'[q].lp
              /\ client'[q].pc = "send" => /\ lists'[client'[q].lp].lock = q
                                           /\ client'[q].mut \in lists'[client'[q].lp].mlayer
  <2>1. CASE q = c
    BY Zenon, <1>1, <1>3, <1>4, <2>1 DEF Moves
  <2>2. CASE q # c
    <3>1. client'[q] = client[q] /\ "send" \in Holding
      BY Zenon, <1>1, <2>2 DEF Moves, Holding
    <3>2. /\ client[q].pc = "put" => lists[client[q].l].pbuffer = Nil
          /\ client[q].pc \in Holding => lhmap[client[q].key] = client[q].lp
          /\ client[q].pc = "send" => /\ lists[client[q].lp].lock = q
                                      /\ client[q].mut \in lists[client[q].lp].mlayer
      BY Zenon DEF AckInv
    <3> QED  BY <1>4, <1>8, <1>9, <2>2, <3>1, <3>2
  <2> QED  BY <2>1, <2>2
<1> QED  BY <1>2, <1>10, <1>11, <1>12, <1>13 DEF AckInv

\* What the calls and the map say of the lists is the same after a step of the
\* merges that leaves the contents alone.
LEMMA AckMerge ==
  ASSUME Inv, AckInv, NEW x \in Mergers, NEW y, y = committer'[x],
         \A z \in Committers \ {x} : committer'[z] = committer[z],
         UNCHANGED <<store, lists, lhmap, client, periodic, workChan, acked>>,
         y.pc \in {"check", "commit", "locked"} => \E k \in Keys : lhmap[k] = y.l,
         y.pc # "locked"
  PROVE  AckInv'
<1>1. AckedNotLost'
  BY DEF AckInv, AckedNotLost
<1>2. \A w \in Workers : committer'[w] = committer[w]
  BY Zenon, CacheAssumption DEF Committers
<1>3. \A z \in Committers :
        /\ committer'[z].pc \in {"check", "commit", "locked"} =>
             \E k \in Keys : lhmap[k] = committer'[z].l
        /\ committer'[z].pc = "locked" =>
             lists[committer'[z].l].ready /\ lists[committer'[z].l].lock = z
  BY DEF AckInv
<1> QED  BY <1>1, <1>2, <1>3 DEF AckInv

\* A gentle merge starts, takes up a key of the map, or looks at the mark.
LEMMA Ack_Merges ==
  ASSUME Inv, AckInv, gentleMerge \/ \E g \in Mergers : NextKey(g) \/ CommitIfDirty(g)
  PROVE  AckInv'
<1>0. committer \in [Committers -> Merge] /\ lhmap \in [Keys -> Ptrs \cup {Nil}] /\ dirtyMap \subseteq Keys
  BY Zenon DEF Inv, TypeOK
<1>1. CASE gentleMerge
  <2>1. PICK g \in Mergers, S \in SUBSET dirtyMap :
          committer' = [committer EXCEPT ![g] = [pc |-> "next", keys |-> S, l |-> Nil]]
    BY Zenon, <1>1 DEF gentleMerge
  <2>2. g \in Committers
    BY DEF Committers
  <2>3. committer'[g].pc = "next" /\ \A z \in Committers \ {g} : committer'[z] = committer[z]
    BY Zenon, <1>0, <2>1, <2>2
  <2> QED  BY Zenon, <1>1, <2>3, AckMerge DEF gentleMerge
<1>2. ASSUME NEW g \in Mergers, NextKey(g)
      PROVE  AckInv'
  <2>1. g \in Committers /\ committer[g].keys \subseteq Keys
    BY <1>0 DEF Committers, Merge
  <2>2. /\ \A z \in Committers \ {g} : committer'[z] = committer[z]
        /\ committer'[g].pc # "locked"
        /\ committer'[g].pc \in {"check", "commit", "locked"} => \E k \in Keys : lhmap[k] = committer'[g].l
    <3>1. CASE committer[g].keys = {}
      BY <1>0, <1>2, <2>1, <3>1 DEF NextKey, IdleCommitter
    <3>2. CASE committer[g].keys # {}
      <4>1. PICK k \in committer[g].keys :
              committer' = [committer EXCEPT
                ![g] = [pc |-> IF lhmap[k] = Nil THEN "next" ELSE "check",
                        keys |-> committer[g].keys \ {k}, l |-> lhmap[k]]]
        BY <1>2, <3>2 DEF NextKey
      <4>2. /\ \A z \in Committers \ {g} : committer'[z] = committer[z]
            /\ committer'[g].pc \in {"next", "check"} /\ committer'[g].l = lhmap[k]
        BY <1>0, <2>1, <4>1
      <4> QED  BY Zenon, <2>1, <4>2
    <3> QED  BY Zenon, <3>1, <3>2
  <2> QED  BY <1>2, <2>2, AckMerge DEF NextKey
<1>3. ASSUME NEW g \in Mergers, CommitIfDirty(g)
      PROVE  AckInv'
  <2>1. g \in Committers /\ committer[g].pc = "check"
    BY <1>3 DEF Committers, CommitIfDirty
  <2>2. PICK k \in Keys : lhmap[k] = committer[g].l
    BY <2>1 DEF AckInv
  <2>3. PICK pc \in {"commit", "next"} : committer' = [committer EXCEPT ![g].pc = pc]
    BY Zenon, <1>3 DEF CommitIfDirty, Merged
  <2>4. /\ committer'[g].pc = pc /\ committer'[g].l = committer[g].l
        /\ \A z \in Committers \ {g} : committer'[z] = committer[z]
    BY ZenonT(30), <2>1, <2>3, MergeMoves DEF Inv
  <2> QED  BY ZenonT(30), <1>3, <2>2, <2>3, <2>4, AckMerge DEF CommitIfDirty
<1> QED  BY <1>1, <1>2, <1>3

\* A merge locks a list that is in the map.
LEMMA Ack_CommitLock ==
  ASSUME Inv, AckInv, NEW g \in Mergers, CommitLock(g)
  PROVE  AckInv'
<1>1. g \in Committers /\ g \notin Workers /\ g \notin Clients
  BY CacheAssumption DEF Committers
<1>2. /\ committer[g].pc = "commit" /\ committer' = [committer EXCEPT ![g].pc = "locked"]
      /\ UNCHANGED <<store, lhmap, client, periodic, workChan, acked>>
  BY DEF CommitLock
<1>3. /\ committer'[g].pc = "locked" /\ committer'[g].l = committer[g].l
      /\ \A z \in Committers \ {g} : committer'[z] = committer[z]
  BY Zenon, <1>1, <1>2, MergeMoves DEF Inv
<1>4. PICK p \in Ptrs : p = committer[g].l
  BY <1>1, <1>2, HasList DEF Inv
<1>5. PICK k \in Keys : lhmap[k] = p
  BY <1>1, <1>2, <1>4 DEF AckInv
<1>6. lists[p].ready /\ lists[p].lock = Nil /\ lists' = [lists EXCEPT ![p].lock = g]
  BY <1>4 DEF CommitLock
<1>7. lists \in [Ptrs -> List] /\ lists[p] \in List
  BY DEF Inv, TypeOK
<1> DEFINE y == [lists[p] EXCEPT !.lock = g]
<1>8. y.lock = g /\ y.mlayer = lists[p].mlayer /\ y.pbuffer = lists[p].pbuffer /\ y.ready = lists[p].ready
  BY <1>7 DEF List
<1>9. lists' = [lists EXCEPT ![p] = y]
  BY <1>6
<1> HIDE DEF y
<1>10. /\ \A q \in Ptrs \ {p} : lists'[q] = lists[q]
       /\ \A q \in Ptrs : /\ lists'[q].mlayer = lists[q].mlayer /\ lists'[q].pbuffer = lists[q].pbuffer
                          /\ lists'[q].ready = lists[q].ready
       /\ lists'[p].lock = g
  BY Zenon, <1>7, <1>8, <1>9
<1>11. /\ \A j \in Keys : lhmap[j] # Nil => lhmap[j] \in Ptrs
       /\ \A q \in Clients : /\ client[q].pc = "put" => client[q].l \in Ptrs
                             /\ client[q].pc \in Holding => client[q].lp \in Ptrs
  BY InUse
<1>12. AckedNotLost'
  BY <1>2, <1>10, <1>11 DEF AckInv, AckedNotLost
<1>13. ASSUME NEW z \in Committers
       PROVE  /\ committer'[z].pc \in {"check", "commit", "locked"} =>
                   \E j \in Keys : lhmap[j] = committer'[z].l
              /\ committer'[z].pc = "locked" =>
                   lists'[committer'[z].l].ready /\ lists'[committer'[z].l].lock = z
  <2>1. CASE z = g
    BY <1>3, <1>4, <1>5, <1>6, <1>10, <2>1
  <2>2. CASE z # g
    <3>1. committer'[z] = committer[z] /\ z # Nil
      BY Zenon, <1>3, <2>2, CacheAssumption DEF Committers
    <3>2. /\ committer[z].pc \in {"check", "commit", "locked"} =>
               (\E j \in Keys : lhmap[j] = committer[z].l) /\ committer[z].l \in Ptrs
          /\ committer[z].pc = "locked" =>
               lists[committer[z].l].ready /\ lists[committer[z].l].lock = z
      BY Zenon, HasList DEF AckInv, Inv
    <3> QED  BY <1>6, <1>10, <3>1, <3>2
  <2> QED  BY <2>1, <2>2
<1>14. \A j \in Keys : lhmap[j] # Nil => lists'[lhmap[j]].pbuffer \in {Nil, store[j]}
  BY <1>10, <1>11 DEF AckInv
<1>15. ASSUME NEW q \in Clients
       PROVE  /\ client[q].pc = "put" => lists'[client[q].l].pbuffer = Nil
              /\ client[q].pc \in Holding => lhmap[client[q].key] = client[q].lp
              /\ client[q].pc = "send" => /\ lists'[client[q].lp].lock = q
                                          /\ client[q].mut \in lists'[client[q].lp].mlayer
  <2>1. /\ client[q].pc = "put" => lists[client[q].l].pbuffer = Nil
        /\ client[q].pc \in Holding => lhmap[client[q].key] = client[q].lp
        /\ client[q].pc = "send" => /\ lists[client[q].lp].lock = q
                                    /\ client[q].mut \in lists[client[q].lp].mlayer
    BY DEF AckInv
  <2>2. q # Nil /\ "send" \in Holding
    BY CacheAssumption DEF Holding
  <2> QED  BY Zenon, <1>6, <1>10, <1>11, <2>1, <2>2
<1>16. \A w \in Workers : committer'[w] = committer[w]
  BY Zenon, <1>1, <1>3 DEF Committers
<1> QED  BY <1>2, <1>12, <1>13, <1>14, <1>15, <1>16 DEF AckInv

\* A merge moves what a list has into the store, under its lock.
LEMMA Ack_Commit ==
  ASSUME Inv, AckInv, NEW g \in Mergers, Commit(g)
  PROVE  AckInv'
<1>1. g \in Committers /\ g \notin Workers /\ g \notin Clients
  BY Zenon, CacheAssumption DEF Committers
<1>2. /\ committer[g].pc = "locked" /\ committer' = [committer EXCEPT ![g].pc = "next"]
      /\ UNCHANGED <<lhmap, client, periodic, workChan, acked>>
  BY DEF Commit, Merged
<1>3. /\ committer'[g].pc = "next"
      /\ \A z \in Committers \ {g} : committer'[z] = committer[z]
  BY Zenon, <1>1, <1>2, MergeMoves DEF Inv
<1>4. PICK p \in Ptrs : p = committer[g].l
  BY <1>1, <1>2, HasList DEF Inv
<1>5. PICK k \in Keys : lhmap[k] = p
  BY Zenon, <1>1, <1>2, <1>4 DEF AckInv
<1>6. lists[p].ready /\ lists[p].lock = g /\ p # Nil
  BY Zenon, <1>1, <1>2, <1>4, CacheAssumption DEF AckInv
<1>7. lists[p].key = k /\ lists[p].pbuffer \in {Nil, store[k]}
      /\ \A j \in Keys : lhmap[j] = p => j = k
  BY <1>5, <1>6 DEF Inv, MapInv, AckInv
<1>8. lists \in [Ptrs -> List] /\ lists[p] \in List /\ store \in [Keys -> SUBSET Mutations]
  BY Zenon DEF Inv, TypeOK
<1>9. /\ \A q \in Ptrs \ {p} : lists'[q] = lists[q]
      /\ lists'[p].mlayer = {} /\ (lists'[p].pbuffer = Nil \/ lists'[p].pbuffer = store'[k])
      /\ \A j \in Keys : store'[j] = IF j = k THEN store[k] \cup lists[p].mlayer ELSE store[j]
  <2>1. CASE lists[p].mlayer = {}
    <3> DEFINE y == [lists[p] EXCEPT !.dirty = FALSE, !.lock = Nil]
    <3>1. y.mlayer = lists[p].mlayer /\ y.pbuffer = lists[p].pbuffer
      BY <1>8 DEF List
    <3>2. lists' = [lists EXCEPT ![p] = y] /\ store' = store
      BY Zenon, <1>4, <2>1 DEF Commit
    <3> HIDE DEF y
    <3>3. lists'[p] = y /\ \A q \in Ptrs \ {p} : lists'[q] = lists[q]
      BY <1>8, <3>2
    <3> QED  BY Zenon, <1>7, <2>1, <3>1, <3>2, <3>3
  <2>2. CASE lists[p].mlayer # {}
    <3> DEFINE y == [lists[p] EXCEPT !.pbuffer = Nil, !.dirty = FALSE, !.mlayer = {}, !.lock = Nil]
    <3>1. y.mlayer = {} /\ y.pbuffer = Nil
      BY Zenon, <1>8 DEF List
    <3>2. lists' = [lists EXCEPT ![p] = y]
      BY Zenon, <1>4, <2>2 DEF Commit
    <3>3. store' = [store EXCEPT ![k] = (IF lists[p].pbuffer = Nil THEN store[k] ELSE lists[p].pbuffer)
                                          \cup lists[p].mlayer]
      BY <1>4, <1>7, <2>2 DEF Commit
    <3>4. store' = [store EXCEPT ![k] = store[k] \cup lists[p].mlayer]
      BY Zenon, <1>7, <3>3
    <3> HIDE DEF y
    <3>5. lists'[p] = y /\ \A q \in Ptrs \ {p} : lists'[q] = lists[q]
      BY <1>8, <3>2
    <3>6. \A j \in Keys : store'[j] = IF j = k THEN store[k] \cup lists[p].mlayer ELSE store[j]
      BY <1>8, <3>4
    <3> QED  BY Zenon, <3>1, <3>5, <3>6
  <2> QED  BY Zenon, <2>1, <2>2
<1>11. /\ \A j \in Keys : lhmap[j] # Nil => lhmap[j] \in Ptrs
       /\ \A q \in Clients : /\ client[q].pc = "put" => client[q].l \in Ptrs \ {p}
                             /\ client[q].pc \in Holding => client[q].lp \in Ptrs
  <2>1. \A q \in Clients : client[q].pc = "put" => client[q].l # p
    BY <1>6 DEF Inv, CallInv, CallOK
  <2> QED  BY Zenon, <2>1, InUse
<1>12. AckedNotLost'
  <2> SUFFICES ASSUME NEW j \in Keys
               PROVE  acked[j] \subseteq store'[j] \cup (IF lhmap[j] = Nil THEN {} ELSE lists'[lhmap[j]].mlayer)
    BY Zenon, <1>2 DEF AckedNotLost
  <2>1. acked[j] \subseteq store[j] \cup (IF lhmap[j] = Nil THEN {} ELSE lists[lhmap[j]].mlayer)
    BY Zenon DEF AckInv, AckedNotLost
  <2>2. CASE j = k
    BY Zenon, <1>5, <1>6, <1>9, <2>1, <2>2
  <2>3. CASE j # k
    BY Zenon, <1>7, <1>9, <1>11, <2>1, <2>3
  <2> QED  BY <2>2, <2>3
<1>13. ASSUME NEW z \in Committers
       PROVE  /\ committer'[z].pc \in {"check", "commit", "locked"} =>
                   \E j \in Keys : lhmap[j] = committer'[z].l
              /\ committer'[z].pc = "locked" =>
                   lists'[committer'[z].l].ready /\ lists'[committer'[z].l].lock = z
  <2>1. CASE z = g
    BY Zenon, <1>3, <2>1
  <2>2. CASE z # g
    <3>1. committer'[z] = committer[z]
      BY Zenon, <1>3, <2>2
    <3>2. /\ committer[z].pc \in {"check", "commit", "locked"} =>
               (\E j \in Keys : lhmap[j] = committer[z].l) /\ committer[z].l \in Ptrs
          /\ committer[z].pc = "locked" =>
               lists[committer[z].l].ready /\ lists[committer[z].l].lock = z
      BY HasList DEF AckInv, Inv
    <3> QED  BY <1>6, <1>9, <2>2, <3>1, <3>2
  <2> QED  BY <2>1, <2>2
<1>14. \A j \in Keys : lhmap[j] # Nil => lists'[lhmap[j]].pbuffer \in {Nil, store'[j]}
  <2> SUFFICES ASSUME NEW j \in Keys, lhmap[j] # Nil
               PROVE  lists'[lhmap[j]].pbuffer \in {Nil, store'[j]}
    OBVIOUS
  <2>1. CASE j = k
    BY Zenon, <1>5, <1>9, <2>1
  <2>2. CASE j # k
    <3>1. lists[lhmap[j]].pbuffer \in {Nil, store[j]} /\ lhmap[j] \in Ptrs \ {p}
      BY Zenon, <1>7, <1>11, <2>2 DEF AckInv
    <3> QED  BY Zenon, <1>9, <2>2, <3>1
  <2> QED  BY <2>1, <2>2
<1>15. ASSUME NEW q \in Clients
       PROVE  /\ client[q].pc = "put" => lists'[client[q].l].pbuffer = Nil
              /\ client[q].pc \in Holding => lhmap[client[q].key] = client[q].lp
              /\ client[q].pc = "send" => /\ lists'[client[q].lp].lock = q
                                          /\ client[q].mut \in lists'[client[q].lp].mlayer
  <2>1. /\ client[q].pc = "put" => lists[client[q].l].pbuffer = Nil
        /\ client[q].pc \in Holding => lhmap[client[q].key] = client[q].lp
        /\ client[q].pc = "send" => /\ lists[client[q].lp].lock = q
                                    /\ client[q].mut \in lists[client[q].lp].mlayer
    BY DEF AckInv
  <2>2. q # g /\ "send" \in Holding
    BY <1>1 DEF Holding
  <2> QED  BY Zenon, <1>6, <1>9, <1>11, <2>1, <2>2
<1>16. \A w \in Workers : committer'[w] = committer[w]
  BY <1>1, <1>3 DEF Committers
<1> QED  BY <1>2, <1>12, <1>13, <1>14, <1>15, <1>16 DEF AckInv

\* The empty cache has nothing to lose.
LEMMA AckInit == Init => AckInv
BY DEF Init, AckInv, AckedNotLost, Committers, IdleClient, IdleCommitter, Holding

\* Where memory does not run out, the steps of calls and of gentle merges are all
\* that there is.
LEMMA AckStep ==
  ASSUME ~MayEvict, Inv, AckInv, [Next]_vars
  PROVE  AckInv'
<1>1. ASSUME NEW c \in Clients, GetOrCreate(c) \/ AddMutation(c) \/ ClientStep(c)
      PROVE  AckInv'
  BY Zenon, <1>1, Ack_Calls, Ack_PutNew, Ack_AddMutationUpdate, Ack_SendDirty DEF ClientStep
<1>2. CASE gentleMerge \/ \E g \in Mergers : NextKey(g)
  BY <1>2, Ack_Merges
<1>3. CASE UNCHANGED vars \/ ReceiveDirty
  <2>1. UNCHANGED <<store, lists, lhmap, client, committer, periodic, workChan, acked>>
    BY Zenon, <1>3 DEF vars, ReceiveDirty
  <2>2. AckedNotLost'
    BY Zenon, <2>1 DEF AckInv, AckedNotLost
  <2> QED  BY Zenon, <2>1, <2>2 DEF AckInv
<1>4. CASE StopTheWorld \/ EvictStep
  BY <1>4 DEF
     StopTheWorld, EvictStep, WorldLocked, FlushDirtyChan, EachWithDelete, EvictDone,
     AckInv
<1>5. ASSUME NEW x \in Committers, CommitterStep(x)
      PROVE  AckInv'
  <2>1. committer[x].pc # "idle"
    BY Zenon, <1>5 DEF CommitterStep, CommitIfDirty, CommitLock, Commit
  <2>2. x \in Mergers
    BY <2>1 DEF AckInv, Committers
  <2> QED  BY Zenon, <1>5, <2>2, Ack_Merges, Ack_CommitLock, Ack_Commit DEF CommitterStep
<1>6. ASSUME NEW w \in Workers, WorkerStep(w)
      PROVE  FALSE
  BY <1>6 DEF WorkerStep, TakeWork, SetForDeletion, WorkDone, AckInv
<1> QED  BY Zenon, <1>1, <1>2, <1>3, <1>4, <1>5, <1>6 DEF Next

\* AddMutation, commit and GetOrCreate where memory never runs out: a mutation that
\* has been acknowledged is in the store or in the list that the map has for its
\* key, however calls and gentle merges interleave.  (With evictions it is not so:
\* a call that has seen the list unmarked can still add to it after it is evicted.)
THEOREM AckedStays ==
  ASSUME ~MayEvict
  PROVE  Spec => []AckedNotLost
<1>1. Inv /\ AckInv /\ [Next]_vars => AckInv'
  BY Zenon, AckStep
<1>2. AckInv => AckedNotLost
  BY DEF AckInv
<1> QED  BY <1>1, <1>2, AckInit, SpecInv, PTL DEF Spec

-----------------------------------------------------------------------------
(* Dirty lists *)

\* Somebody is going to merge the list of k: the alternatives of DirtyListsTracked.
Tracked(k) ==
  \/ \E i \in 1..Len(dirtyChan) : dirtyChan[i] = k
  \/ k \in dirtyMap
  \/ \E x \in Committers : k \in committer[x].keys \/ WillMerge(x, lhmap[k])
  \/ \E c \in Clients : client[c].pc = "send" /\ client[c].lp = lhmap[k]
  \/ periodic \in {"flush", "evict"}

\* DirtyListsTracked, with the alternatives named.
LEMMA TrackedLists ==
  DirtyListsTracked <=>
    \A k \in Keys : lhmap[k] # Nil /\ lists[lhmap[k]].mlayer # {} => Tracked(k)
BY DEF DirtyListsTracked, Tracked

\* The same after a step.
LEMMA TrackedListsNext ==
  DirtyListsTracked' <=>
    \A k \in Keys : lhmap'[k] # Nil /\ lists'[lhmap'[k]].mlayer # {} => Tracked(k)'
BY Zenon DEF DirtyListsTracked, Tracked

\* A call that adds no mutation and sends no key.
LEMMA TrackCall ==
  ASSUME Inv, TrackInv, NEW c \in Clients, NEW pc, NEW k, NEW lp, NEW l, NEW m,
         Quiet(c, pc, k, lp, l, m)
  PROVE  TrackInv'
<1>0. /\ Moves(c, pc, k, lp, l, m) /\ Contents(Ptrs \ pool)
      /\ UNCHANGED <<lhmap, committer, dirtyChan, dirtyMap, periodic>>
      /\ \A p \in pool \ pool' : lists'[p].mlayer = {}
      /\ pc = "put" => lists'[l].mlayer = {}
      /\ client[c].pc # "send"
  BY Zenon DEF Quiet
<1>1. /\ \A j \in Keys : lhmap[j] # Nil => lhmap[j] \in Ptrs \ pool
      /\ \A q \in Clients : client[q].pc = "put" => client[q].l \in Ptrs \ pool
  BY InUse
<1>2. \A p \in Ptrs \ pool' : lists'[p].mlayer # {} => lists'[p].dirty
  <2> SUFFICES ASSUME NEW p \in Ptrs \ pool' PROVE lists'[p].mlayer # {} => lists'[p].dirty
    BY Zenon
  <2>1. CASE p \in pool
    BY Zenon, <1>0, <2>1
  <2>2. CASE p \notin pool
    BY <1>0, <2>2 DEF Contents, TrackInv
  <2> QED  BY <2>1, <2>2
<1>3. \A q \in Clients : client'[q].pc = "put" => lists'[client'[q].l].mlayer = {}
  <2> SUFFICES ASSUME NEW q \in Clients, client'[q].pc = "put"
               PROVE  lists'[client'[q].l].mlayer = {}
    BY Zenon
  <2>1. CASE q = c
    BY Zenon, <1>0, <2>1 DEF Moves
  <2>2. CASE q # c
    <3>1. client'[q] = client[q] /\ client[q].pc = "put"
      BY <1>0, <2>2 DEF Moves
    <3>2. client[q].l \in Ptrs \ pool /\ lists[client[q].l].mlayer = {}
      BY ZenonT(30), <1>1, <3>1 DEF TrackInv
    <3>3. lists'[client[q].l].mlayer = lists[client[q].l].mlayer
      BY Zenon, <1>0, <3>2 DEF Contents
    <3> QED  BY Zenon, <3>1, <3>2, <3>3
  <2> QED  BY Zenon, <2>1, <2>2
<1>4. DirtyListsTracked'
  <2> SUFFICES ASSUME NEW j \in Keys, lhmap'[j] # Nil, lists'[lhmap'[j]].mlayer # {}
               PROVE  Tracked(j)'
    BY Zenon, TrackedListsNext
  <2>1. Tracked(j)
    BY Zenon, <1>0, <1>1, TrackedLists DEF TrackInv, Contents
  <2>2. \A q \in Clients : client[q].pc = "send" => client'[q] = client[q]
    BY Zenon, <1>0 DEF Moves
  <2> QED  BY Zenon, <1>0, <2>1, <2>2 DEF Tracked, WillMerge
<1> QED  BY Zenon, <1>0, <1>2, <1>3, <1>4 DEF TrackInv

\* The list that is put in the map has no mutations.
LEMMA Track_PutNew ==
  ASSUME Inv, TrackInv, NEW c \in Clients, PutNew(c)
  PROVE  TrackInv'
<1> DEFINE k == client[c].key
           n == client[c].l
           lp == PutIfMissing(k, n)
<1>1. Moves(c, "incr", k, lp, n, client[c].mut)
  BY Zenon, Moves_PutNew DEF Inv
<1>2. /\ UNCHANGED <<lists, pool, committer, dirtyChan, dirtyMap, periodic>>
      /\ lhmap' = [lhmap EXCEPT ![k] = lp] /\ lhmap \in [Keys -> Ptrs \cup {Nil}]
      /\ client[c].pc = "put" /\ k \in Keys
  BY Zenon DEF PutNew, Inv, CallInv, CallOK, TypeOK
<1>3. lists[n].mlayer = {} /\ (lhmap[k] # Nil => lp = lhmap[k]) /\ (lhmap[k] = Nil => lp = n)
  BY Zenon, <1>2 DEF TrackInv, PutIfMissing
<1> HIDE DEF k, n, lp
<1>4. \A p \in Ptrs \ pool' : lists'[p].mlayer # {} => lists'[p].dirty
  BY Zenon, <1>2 DEF TrackInv
<1>5. \A q \in Clients : client'[q].pc = "put" => lists'[client'[q].l].mlayer = {}
  BY <1>1, <1>2 DEF Moves, TrackInv
<1>6. DirtyListsTracked'
  <2> SUFFICES ASSUME NEW j \in Keys, lhmap'[j] # Nil, lists'[lhmap'[j]].mlayer # {}
               PROVE  Tracked(j)'
    BY TrackedListsNext
  <2>1. lhmap'[j] = lhmap[j]
    BY Zenon, <1>2, <1>3
  <2>2. Tracked(j)
    BY Zenon, <1>2, <2>1, TrackedLists DEF TrackInv
  <2>3. \A q \in Clients : client[q].pc = "send" => client'[q] = client[q]
    BY Zenon, <1>1, <1>2 DEF Moves
  <2> QED  BY Zenon, <1>2, <2>1, <2>2, <2>3 DEF Tracked, WillMerge
<1> QED  BY Zenon, <1>2, <1>4, <1>5, <1>6 DEF TrackInv

\* A mutation marks its list, and the call is going to send the key.
LEMMA Track_AddMutationUpdate ==
  ASSUME Inv, TrackInv, NEW c \in Clients, AddMutationUpdate(c)
  PROVE  TrackInv'
<1>1. Moves(c, "send", client[c].key, client[c].lp, client[c].l, client[c].mut)
  BY Moves_Update DEF Inv
<1>2. client[c].pc = "lock"
      /\ UNCHANGED <<pool, lhmap, committer, dirtyChan, dirtyMap, periodic>>
  BY Zenon DEF AddMutationUpdate
<1>3. PICK p \in Ptrs : p = client[c].lp /\ lists[p].ready
  BY <1>2 DEF Inv, CallInv, CallOK, Holding
<1> DEFINE y == [lists[p] EXCEPT !.lock = c, !.dirty = DirtyMark(lists[p]),
                                 !.mlayer = lists[p].mlayer \cup {client[c].mut},
                                 !.pbuffer = IF lists[p].pbuffer = Nil THEN store[lists[p].key]
                                             ELSE lists[p].pbuffer]
<1>4. lists \in [Ptrs -> List] /\ lists[p] \in List
  BY DEF Inv, TypeOK
<1>5. lists' = [lists EXCEPT ![p] = y]
  BY <1>3 DEF AddMutationUpdate
<1>6. y.dirty
  BY <1>4 DEF List, DirtyMark
<1> HIDE DEF y
<1>7. lists'[p] = y /\ \A q \in Ptrs \ {p} : lists'[q] = lists[q]
  BY Zenon, <1>4, <1>5
<1>8. /\ \A j \in Keys : lhmap[j] # Nil => lhmap[j] \in Ptrs
      /\ \A q \in Clients : client[q].pc = "put" => client[q].l \in Ptrs \ {p}
  <2>1. \A q \in Clients : client[q].pc = "put" => client[q].l # p
    BY Zenon, <1>3 DEF Inv, CallInv, CallOK
  <2> QED  BY Zenon, <2>1, InUse
<1>9. \A q \in Ptrs \ pool' : lists'[q].mlayer # {} => lists'[q].dirty
  BY Zenon, <1>2, <1>6, <1>7 DEF TrackInv
<1>10. \A q \in Clients : client'[q].pc = "put" => lists'[client'[q].l].mlayer = {}
  BY <1>1, <1>7, <1>8 DEF Moves, TrackInv
<1>11. DirtyListsTracked'
  <2> SUFFICES ASSUME NEW j \in Keys, lhmap'[j] # Nil, lists'[lhmap'[j]].mlayer # {}
               PROVE  Tracked(j)'
    BY Zenon, TrackedListsNext
  <2>1. CASE lhmap[j] = p
    BY Zenon, <1>1, <1>2, <1>3, <2>1 DEF Moves, Tracked
  <2>2. CASE lhmap[j] # p
    <3>1. Tracked(j)
      BY Zenon, <1>2, <1>7, <1>8, <2>2, TrackedLists DEF TrackInv
    <3>2. \A q \in Clients : client[q].pc = "send" => client'[q] = client[q]
      BY Zenon, <1>1, <1>2 DEF Moves
    <3> QED  BY Zenon, <1>2, <3>1, <3>2 DEF Tracked, WillMerge
  <2> QED  BY <2>1, <2>2
<1> QED  BY Zenon, <1>2, <1>9, <1>10, <1>11 DEF TrackInv

\* The key that is sent is the one that the map has the list under.
LEMMA Track_SendDirty ==
  ASSUME Inv, TrackInv, NEW c \in Clients, SendDirty(c)
  PROVE  TrackInv'
<1>1. Moves(c, "release", client[c].key, client[c].lp, client[c].l, Nil)
  BY Moves_SendDirty DEF Inv
<1>2. client[c].pc = "send" /\ UNCHANGED <<pool, lhmap, committer, dirtyMap, periodic>>
  BY Zenon DEF SendDirty
<1>3. PICK p \in Ptrs : p = client[c].lp /\ lists[p].ready
  BY <1>2 DEF Inv, CallInv, CallOK, Holding
<1> DEFINE y == [lists[p] EXCEPT !.lock = Nil]
<1>4. lists \in [Ptrs -> List] /\ lists[p] \in List /\ dirtyChan \in Seq(Keys)
  BY DEF Inv, TypeOK
<1>5. lists' = [lists EXCEPT ![p] = y] /\ dirtyChan' = Append(dirtyChan, lists[p].key)
  BY <1>3 DEF SendDirty
<1>6. y.dirty = lists[p].dirty /\ y.mlayer = lists[p].mlayer
  BY <1>4 DEF List
<1> HIDE DEF y
<1>7. \A q \in Ptrs : lists'[q].mlayer = lists[q].mlayer /\ lists'[q].dirty = lists[q].dirty
  BY Zenon, <1>4, <1>5, <1>6
<1>8. /\ \A j \in Keys : lhmap[j] # Nil => lhmap[j] \in Ptrs
      /\ \A q \in Clients : client[q].pc = "put" => client[q].l \in Ptrs
  BY Zenon, InUse
<1>9. \A q \in Ptrs \ pool' : lists'[q].mlayer # {} => lists'[q].dirty
  BY Zenon, <1>2, <1>7 DEF TrackInv
<1>10. \A q \in Clients : client'[q].pc = "put" => lists'[client'[q].l].mlayer = {}
  BY <1>1, <1>7, <1>8 DEF Moves, TrackInv
<1>11. lists[p].key \in Keys
  BY Zenon, <1>3 DEF Inv, MapInv
<1>12. /\ Len(dirtyChan) \in Nat /\ Len(dirtyChan') = Len(dirtyChan) + 1
       /\ dirtyChan'[Len(dirtyChan) + 1] = lists[p].key
       /\ \A i \in 1..Len(dirtyChan) : dirtyChan'[i] = dirtyChan[i]
  BY <1>4, <1>5, <1>11
<1>13. \A j \in Keys : \/ \E i \in 1..Len(dirtyChan) : dirtyChan[i] = j
                       \/ lists[p].key = j
                       => \E i \in 1..Len(dirtyChan') : dirtyChan'[i] = j
  <2> SUFFICES ASSUME NEW j \in Keys,
                      (\E i \in 1..Len(dirtyChan) : dirtyChan[i] = j) \/ lists[p].key = j
               PROVE  \E i \in 1..Len(dirtyChan') : dirtyChan'[i] = j
    OBVIOUS
  <2>1. CASE \E i \in 1..Len(dirtyChan) : dirtyChan[i] = j
    <3>1. PICK i \in 1..Len(dirtyChan) : dirtyChan[i] = j
      BY <2>1
    <3>2. i \in 1..Len(dirtyChan') /\ dirtyChan'[i] = j
      BY <1>12, <3>1
    <3> QED  BY <3>2
  <2>2. CASE lists[p].key = j
    <3>1. Len(dirtyChan) + 1 \in 1..Len(dirtyChan') /\ dirtyChan'[Len(dirtyChan) + 1] = j
      BY <1>12, <2>2
    <3> QED  BY <3>1
  <2> QED  BY <2>1, <2>2
<1>14. DirtyListsTracked'
  <2> SUFFICES ASSUME NEW j \in Keys, lhmap'[j] # Nil, lists'[lhmap'[j]].mlayer # {}
               PROVE  Tracked(j)'
    BY Zenon, TrackedListsNext
  <2>1. Tracked(j)
    BY <1>2, <1>7, <1>8, TrackedLists DEF TrackInv
  <2>2. CASE lhmap[j] = p
    <3>1. lists[p].key = j
      BY Zenon, <1>2, <1>3, <2>2 DEF Inv, MapInv
    <3> QED  BY ZenonT(30), <1>13, <3>1 DEF Tracked
  <2>3. CASE lhmap[j] # p
    <3>1. \A q \in Clients : client[q].pc = "send" /\ client[q].lp = lhmap[j] =>
                               client'[q] = client[q]
      BY <1>1, <1>3, <2>3 DEF Moves
    <3> QED  BY Zenon, <1>2, <1>13, <2>1, <3>1 DEF Tracked, WillMerge
  <2> QED  BY Zenon, <2>2, <2>3
<1> QED  BY Zenon, <1>2, <1>9, <1>10, <1>14 DEF TrackInv

\* A step of the merges that loses track of no list with mutations.
LEMMA TrackMerge ==
  ASSUME Inv, TrackInv, UNCHANGED <<lhmap, client>>, pool \subseteq pool',
         \A p \in Ptrs \ pool : \/ lists'[p].mlayer = {}
                                \/ /\ lists'[p].mlayer = lists[p].mlayer
                                   /\ lists'[p].dirty = lists[p].dirty,
         \A x \in Committers : committer'[x].pc = "idle" \/ x \in Workers => committer'[x].keys = {},
         \A k \in Keys : lhmap[k] # Nil /\ lists'[lhmap[k]].mlayer # {} /\ Tracked(k) =>
                           Tracked(k)'
  PROVE  TrackInv'
<1>1. /\ \A j \in Keys : lhmap[j] # Nil => lhmap[j] \in Ptrs \ pool
      /\ \A q \in Clients : client[q].pc = "put" => client[q].l \in Ptrs \ pool
  BY Zenon, InUse
<1>2. \A p \in Ptrs \ pool' : lists'[p].mlayer # {} => lists'[p].dirty
  BY Zenon DEF TrackInv
<1>3. \A q \in Clients : client'[q].pc = "put" => lists'[client'[q].l].mlayer = {}
  BY Zenon, <1>1 DEF TrackInv
<1>4. DirtyListsTracked'
  <2> SUFFICES ASSUME NEW j \in Keys, lhmap'[j] # Nil, lists'[lhmap'[j]].mlayer # {}
               PROVE  Tracked(j)'
    BY TrackedListsNext
  <2>1. Tracked(j)
    BY ZenonT(30), <1>1, TrackedLists DEF TrackInv
  <2> QED  BY Zenon, <2>1
<1> QED  BY ZenonT(30), <1>2, <1>3, <1>4 DEF TrackInv

\* A key that leaves dirtyChan is in dirtyMap.
LEMMA Track_ReceiveDirty ==
  ASSUME Inv, TrackInv, ReceiveDirty
  PROVE  TrackInv'
<1>1. /\ dirtyChan \in Seq(Keys) /\ dirtyChan # <<>>
      /\ UNCHANGED <<lists, pool, lhmap, client, committer, periodic>>
      /\ dirtyMap' = dirtyMap \cup {Head(dirtyChan)} /\ dirtyChan' = Tail(dirtyChan)
  BY DEF ReceiveDirty, Inv, TypeOK
<1>2. \A i \in 1..Len(dirtyChan) : \/ dirtyChan[i] \in dirtyMap'
                                   \/ \E n \in 1..Len(dirtyChan') : dirtyChan'[n] = dirtyChan[i]
  <2> SUFFICES ASSUME NEW i \in 1..Len(dirtyChan), i # 1
               PROVE  \E n \in 1..Len(dirtyChan') : dirtyChan'[n] = dirtyChan[i]
    BY <1>1
  <2>1. /\ Len(dirtyChan) \in Nat /\ Len(dirtyChan') = Len(dirtyChan) - 1
        /\ \A n \in 1..(Len(dirtyChan) - 1) : dirtyChan'[n] = dirtyChan[n + 1]
    BY <1>1
  <2>2. i - 1 \in 1..Len(dirtyChan') /\ dirtyChan'[i - 1] = dirtyChan[i]
    BY <2>1
  <2> QED  BY <2>2
<1>3. ASSUME NEW k \in Keys, Tracked(k)
      PROVE  Tracked(k)'
  BY Zenon, <1>1, <1>2, <1>3 DEF Tracked, WillMerge
<1>4. \A x \in Committers : committer'[x].pc = "idle" \/ x \in Workers => committer'[x].keys = {}
  BY Zenon, <1>1 DEF TrackInv
<1> QED  BY Zenon, <1>1, <1>3, <1>4, TrackMerge

\* A key that leaves dirtyMap is in the hands of a merge.
LEMMA Track_gentleMerge ==
  ASSUME Inv, TrackInv, gentleMerge
  PROVE  TrackInv'
<1>1. PICK g \in Mergers, S \in SUBSET dirtyMap :
        /\ committer[g].pc = "idle"
        /\ committer' = [committer EXCEPT ![g] = [pc |-> "next", keys |-> S, l |-> Nil]]
        /\ dirtyMap' = dirtyMap \ S
  BY Zenon DEF gentleMerge, LeftInDirtyMap
<1>2. UNCHANGED <<lists, pool, lhmap, client, dirtyChan, periodic>>
      /\ committer \in [Committers -> Merge] /\ g \in Committers /\ g \notin Workers
  BY Zenon, CacheAssumption DEF gentleMerge, Inv, TypeOK, Committers
<1>3. /\ committer'[g].keys = S /\ committer'[g].pc = "next"
      /\ \A x \in Committers \ {g} : committer'[x] = committer[x]
  BY <1>1, <1>2
<1>4. /\ committer[g].keys = {}
      /\ \A x \in Committers : committer'[x].pc = "idle" \/ x \in Workers => committer'[x].keys = {}
  BY Zenon, <1>1, <1>2, <1>3 DEF TrackInv
<1>5. ASSUME NEW k \in Keys, Tracked(k)
      PROVE  Tracked(k)'
  BY Zenon, <1>1, <1>2, <1>3, <1>4, <1>5 DEF Tracked, WillMerge
<1> QED  BY Zenon, <1>2, <1>4, <1>5, TrackMerge

\* A merge that takes up a key is about to look at the list the map has for it.
LEMMA Track_NextKey ==
  ASSUME Inv, TrackInv, NEW g \in Mergers, NextKey(g)
  PROVE  TrackInv'
<1>1. UNCHANGED <<lists, pool, lhmap, client, dirtyChan, dirtyMap, periodic>>
      /\ committer[g].pc = "next" /\ committer \in [Committers -> Merge] /\ g \in Committers
      /\ g \notin Workers
  BY Zenon, CacheAssumption DEF NextKey, Inv, TypeOK, Committers
<1>2. CASE committer[g].keys = {}
  <2>1. /\ committer'[g].keys = {} /\ \A x \in Committers \ {g} : committer'[x] = committer[x]
    BY <1>1, <1>2 DEF NextKey, IdleCommitter
  <2>2. \A x \in Committers : committer'[x].pc = "idle" \/ x \in Workers => committer'[x].keys = {}
    BY <2>1 DEF TrackInv
  <2>3. ASSUME NEW k \in Keys, Tracked(k)
        PROVE  Tracked(k)'
    BY Zenon, <1>1, <1>2, <2>1, <2>3 DEF Tracked, WillMerge
  <2> QED  BY ZenonT(30), <1>1, <2>2, <2>3, TrackMerge
<1>3. CASE committer[g].keys # {}
  <2>1. PICK k \in committer[g].keys :
          committer' = [committer EXCEPT
            ![g] = [pc |-> IF lhmap[k] = Nil THEN "next" ELSE "check",
                    keys |-> committer[g].keys \ {k}, l |-> lhmap[k]]]
    BY Zenon, <1>3 DEF NextKey
  <2>2. /\ committer'[g].keys = committer[g].keys \ {k} /\ committer'[g].l = lhmap[k]
        /\ committer'[g].pc = IF lhmap[k] = Nil THEN "next" ELSE "check"
        /\ \A x \in Committers \ {g} : committer'[x] = committer[x]
    BY Zenon, <1>1, <2>1
  <2>3. \A x \in Committers : committer'[x].pc = "idle" \/ x \in Workers => committer'[x].keys = {}
    BY <1>1, <2>2 DEF TrackInv
  <2>4. ASSUME NEW j \in Keys, Tracked(j), lhmap[j] # Nil
        PROVE  Tracked(j)'
    BY <1>1, <2>2, <2>4 DEF Tracked, WillMerge
  <2> QED  BY Zenon, <1>1, <2>3, <2>4, TrackMerge
<1> QED  BY <1>2, <1>3

\* CommitIfDirty passes over a list only if it has no mutations.
LEMMA Track_CommitIfDirty ==
  ASSUME Inv, TrackInv, NEW x \in Committers, CommitIfDirty(x)
  PROVE  TrackInv'
<1> DEFINE pc == IF lists[committer[x].l].dirty THEN "commit" ELSE Merged(x)
<1>1. /\ committer' = [committer EXCEPT ![x].pc = pc] /\ committer[x].pc = "check"
      /\ UNCHANGED <<lists, pool, lhmap, client, dirtyChan, dirtyMap, periodic>>
  BY DEF CommitIfDirty
<1>2. pc \in {"commit", "next", "done"} /\ (lists[committer[x].l].dirty => pc = "commit")
  BY DEF Merged
<1> HIDE DEF pc
<1>3. /\ committer'[x].pc = pc /\ committer'[x].l = committer[x].l
      /\ committer'[x].keys = committer[x].keys
      /\ \A y \in Committers \ {x} : committer'[y] = committer[y]
  BY ZenonT(30), <1>1, <1>2, MergeMoves DEF Inv
<1>4. \A y \in Committers : committer'[y].pc = "idle" \/ y \in Workers => committer'[y].keys = {}
  BY <1>2, <1>3 DEF TrackInv
<1>5. ASSUME NEW k \in Keys, lhmap[k] # Nil, lists[lhmap[k]].mlayer # {}, Tracked(k)
      PROVE  Tracked(k)'
  <2>1. lists[lhmap[k]].dirty
    BY <1>5, InUse DEF TrackInv
  <2>2. WillMerge(x, lhmap[k]) => WillMerge(x, lhmap[k])'
    BY <1>1, <1>2, <1>3, <2>1 DEF WillMerge
  <2>3. \A y \in Committers : /\ k \in committer[y].keys => k \in committer'[y].keys
                              /\ WillMerge(y, lhmap[k]) => WillMerge(y, lhmap[k])'
    BY Zenon, <1>1, <1>3, <2>2 DEF WillMerge
  <2> QED  BY Zenon, <1>1, <1>5, <2>3 DEF Tracked
<1> QED  BY <1>1, <1>4, <1>5, TrackMerge

\* Who has locked a list is about to merge it.
LEMMA Track_CommitLock ==
  ASSUME Inv, TrackInv, NEW x \in Committers, CommitLock(x)
  PROVE  TrackInv'
<1>1. /\ committer' = [committer EXCEPT ![x].pc = "locked"]
      /\ lists' = [lists EXCEPT ![committer[x].l].lock = x]
      /\ UNCHANGED <<pool, lhmap, client, dirtyChan, dirtyMap, periodic>>
  BY DEF CommitLock
<1>2. /\ committer'[x].pc = "locked" /\ committer'[x].l = committer[x].l
      /\ committer'[x].keys = committer[x].keys
      /\ \A y \in Committers \ {x} : committer'[y] = committer[y]
  BY Zenon, <1>1, MergeMoves DEF Inv
<1>3. \A p \in Ptrs : lists'[p].mlayer = lists[p].mlayer /\ lists'[p].dirty = lists[p].dirty
  <2>1. lists \in [Ptrs -> List]
    BY DEF Inv, TypeOK
  <2> QED  BY <1>1, <2>1 DEF List
<1>4. \A y \in Committers : committer'[y].pc = "idle" \/ y \in Workers => committer'[y].keys = {}
  BY <1>2 DEF TrackInv
<1>5. ASSUME NEW k \in Keys, Tracked(k)
      PROVE  Tracked(k)'
  BY <1>1, <1>2, <1>5 DEF Tracked, WillMerge
<1> QED  BY Zenon, <1>1, <1>3, <1>4, <1>5, TrackMerge

\* A list that commit is through with has no mutations.
LEMMA Track_Commit ==
  ASSUME Inv, TrackInv, NEW x \in Committers, Commit(x)
  PROVE  TrackInv'
<1>1. /\ committer' = [committer EXCEPT ![x].pc = Merged(x)] /\ committer[x].pc = "locked"
      /\ Merged(x) \in {"next", "done"}
      /\ UNCHANGED <<pool, lhmap, client, dirtyChan, dirtyMap, periodic>>
  BY DEF Commit, Merged
<1>2. /\ committer'[x].pc = Merged(x) /\ committer'[x].l = committer[x].l
      /\ committer'[x].keys = committer[x].keys
      /\ \A y \in Committers \ {x} : committer'[y] = committer[y]
  BY Zenon, <1>1, MergeMoves DEF Inv
<1>3. PICK p \in Ptrs : p = committer[x].l
  BY Zenon, <1>1, HasList DEF Inv
<1>4. lists \in [Ptrs -> List] /\ lists[p] \in List
  BY DEF Inv, TypeOK
<1>5. lists'[p].mlayer = {} /\ \A q \in Ptrs \ {p} : lists'[q] = lists[q]
  <2>1. CASE lists[p].mlayer = {}
    <3> DEFINE y == [lists[p] EXCEPT !.dirty = FALSE, !.lock = Nil]
    <3>1. y.mlayer = lists[p].mlayer
      BY <1>4 DEF List
    <3>2. lists' = [lists EXCEPT ![p] = y]
      BY Zenon, <1>3, <2>1 DEF Commit
    <3> HIDE DEF y
    <3> QED  BY <1>4, <2>1, <3>1, <3>2
  <2>2. CASE lists[p].mlayer # {}
    <3> DEFINE y == [lists[p] EXCEPT !.pbuffer = Nil, !.dirty = FALSE, !.mlayer = {}, !.lock = Nil]
    <3>1. y.mlayer = {}
      BY Zenon, <1>4 DEF List
    <3>2. lists' = [lists EXCEPT ![p] = y]
      BY <1>3, <2>2 DEF Commit
    <3> HIDE DEF y
    <3> QED  BY <1>4, <3>1, <3>2
  <2> QED  BY <2>1, <2>2
<1>6. \A y \in Committers : committer'[y].pc = "idle" \/ y \in Workers => committer'[y].keys = {}
  BY <1>1, <1>2 DEF TrackInv
<1>7. ASSUME NEW k \in Keys, lists'[lhmap[k]].mlayer # {}, Tracked(k)
      PROVE  Tracked(k)'
  <2>1. ~WillMerge(x, lhmap[k])
    BY <1>3, <1>5, <1>7 DEF WillMerge
  <2>2. \A y \in Committers : /\ k \in committer[y].keys => k \in committer'[y].keys
                              /\ WillMerge(y, lhmap[k]) => WillMerge(y, lhmap[k])'
    BY Zenon, <1>1, <1>2, <2>1 DEF WillMerge
  <2> QED  BY Zenon, <1>1, <1>7, <2>2 DEF Tracked
<1> QED  BY Zenon, <1>1, <1>5, <1>6, <1>7, TrackMerge

\* A worker that has marked its list is about to look whether it is dirty.
LEMMA Track_SetForDeletion ==
  ASSUME Inv, TrackInv, NEW w \in Workers, SetForDeletion(w)
  PROVE  TrackInv'
<1>1. /\ committer' = [committer EXCEPT ![w].pc = "check"] /\ w \in Committers
      /\ lists' = [lists EXCEPT ![committer[w].l].deleteMe = TRUE]
      /\ UNCHANGED <<pool, lhmap, client, dirtyChan, dirtyMap, periodic>>
  BY DEF SetForDeletion, Committers
<1>2. /\ committer'[w].pc = "check" /\ committer'[w].l = committer[w].l
      /\ committer'[w].keys = committer[w].keys
      /\ \A y \in Committers \ {w} : committer'[y] = committer[y]
  BY Zenon, <1>1, MergeMoves DEF Inv
<1>3. \A p \in Ptrs : lists'[p].mlayer = lists[p].mlayer /\ lists'[p].dirty = lists[p].dirty
  <2>1. lists \in [Ptrs -> List]
    BY Zenon DEF Inv, TypeOK
  <2> QED  BY Zenon, <1>1, <2>1 DEF List
<1>4. \A y \in Committers : committer'[y].pc = "idle" \/ y \in Workers => committer'[y].keys = {}
  BY <1>2 DEF TrackInv
<1>5. ASSUME NEW k \in Keys, Tracked(k)
      PROVE  Tracked(k)'
  BY Zenon, <1>1, <1>2, <1>5 DEF Tracked, WillMerge
<1> QED  BY Zenon, <1>1, <1>3, <1>4, <1>5, TrackMerge

\* A worker that takes a list had none.
LEMMA Track_TakeWork ==
  ASSUME Inv, TrackInv, NEW w \in Workers, TakeWork(w)
  PROVE  TrackInv'
<1>1. PICK p : committer' = [committer EXCEPT ![w].pc = "delete", ![w].l = p]
  BY Zenon DEF TakeWork
<1>2. /\ committer[w].pc = "idle" /\ w \in Committers /\ committer \in [Committers -> Merge]
      /\ UNCHANGED <<lists, pool, lhmap, client, dirtyChan, dirtyMap, periodic>>
  BY DEF TakeWork, Committers, Inv, TypeOK
<1>3. /\ committer'[w].pc = "delete" /\ committer'[w].keys = committer[w].keys
      /\ \A y \in Committers \ {w} : committer'[y] = committer[y]
  <2>1. committer[w] \in Merge
    BY Zenon, <1>2
  <2> QED  BY <1>1, <1>2, <2>1 DEF Merge
<1>4. \A y \in Committers : committer'[y].pc = "idle" \/ y \in Workers => committer'[y].keys = {}
  BY <1>3 DEF TrackInv
<1>5. ASSUME NEW k \in Keys, Tracked(k)
      PROVE  Tracked(k)'
  BY Zenon, <1>2, <1>3, <1>5 DEF Tracked, WillMerge
<1> QED  BY <1>2, <1>4, <1>5, TrackMerge

\* A worker has no keys.
LEMMA Track_WorkDone ==
  ASSUME Inv, TrackInv, NEW w \in Workers, WorkDone(w)
  PROVE  TrackInv'
<1>1. /\ committer' = [committer EXCEPT ![w] = IdleCommitter] /\ committer[w].pc = "done"
      /\ w \in Committers /\ committer \in [Committers -> Merge]
      /\ UNCHANGED <<lhmap, client, dirtyChan, dirtyMap, periodic>>
      /\ lists' = [lists EXCEPT ![committer[w].l].refcount = @ - 1] /\ pool \subseteq pool'
  BY DEF WorkDone, decr, Committers, Inv, TypeOK
<1>2. committer'[w].keys = {} /\ \A y \in Committers \ {w} : committer'[y] = committer[y]
  BY <1>1 DEF IdleCommitter
<1>3. \A p \in Ptrs : lists'[p].mlayer = lists[p].mlayer /\ lists'[p].dirty = lists[p].dirty
  <2>1. lists \in [Ptrs -> List]
    BY Zenon DEF Inv, TypeOK
  <2> QED  BY <1>1, <2>1 DEF List
<1>4. \A y \in Committers : committer'[y].pc = "idle" \/ y \in Workers => committer'[y].keys = {}
  BY Zenon, <1>2 DEF TrackInv
<1>5. ASSUME NEW k \in Keys, Tracked(k)
      PROVE  Tracked(k)'
  <2>1. committer[w].keys = {}
    BY Zenon, <1>1 DEF TrackInv
  <2> QED  BY Zenon, <1>1, <1>2, <1>5, <2>1 DEF Tracked, WillMerge
<1> QED  BY Zenon, <1>1, <1>3, <1>4, <1>5, TrackMerge

\* The eviction: while it goes on every list is accounted for, and when it is done
\* there is none in the map.
LEMMA Track_Evict ==
  ASSUME Inv, TrackInv, StopTheWorld \/ EvictStep
  PROVE  TrackInv'
<1>1. \A x \in Committers : committer'[x] = committer[x]
  BY Zenon DEF StopTheWorld, EvictStep, WorldLocked, FlushDirtyChan, EachWithDelete, EvictDone
<1>2. /\ UNCHANGED <<lists, pool, client>>
      /\ \A x \in Committers : committer'[x].pc = "idle" \/ x \in Workers => committer'[x].keys = {}
  BY Zenon, <1>1 DEF
     TrackInv, StopTheWorld, EvictStep, WorldLocked, FlushDirtyChan, EachWithDelete,
     EvictDone
<1>3. DirtyListsTracked'
  <2>1. CASE StopTheWorld
    BY Zenon, <2>1 DEF StopTheWorld, TrackInv, DirtyListsTracked, WillMerge
  <2>2. CASE WorldLocked \/ FlushDirtyChan \/ EachWithDelete
    <3>1. periodic' \in {"flush", "evict"}
      BY <2>2 DEF WorldLocked, FlushDirtyChan, EachWithDelete
    <3> QED  BY <3>1 DEF DirtyListsTracked
  <2>3. CASE EvictDone
    BY Zenon, <2>3 DEF EvictDone, DirtyListsTracked
  <2> QED  BY Zenon, <2>1, <2>2, <2>3 DEF EvictStep
<1> QED  BY Zenon, <1>2, <1>3 DEF TrackInv

\* At first no list has mutations.
LEMMA TrackInit == Init => TrackInv
BY DEF Init, TrackInv, DirtyListsTracked, IdleClient, IdleCommitter

\* Every step keeps track of the lists with mutations.
LEMMA TrackStep ==
  ASSUME Inv, TrackInv, [Next]_vars
  PROVE  TrackInv'
<1>1. ASSUME NEW c \in Clients, GetOrCreate(c) \/ AddMutation(c) \/ ClientStep(c)
      PROVE  TrackInv'
  BY Zenon, <1>1, QuietCall, TrackCall, Track_PutNew, Track_AddMutationUpdate, Track_SendDirty
     DEF ClientStep
<1>2. CASE ReceiveDirty \/ gentleMerge \/ StopTheWorld \/ EvictStep
  BY Zenon, <1>2, Track_ReceiveDirty, Track_gentleMerge, Track_Evict
<1>3. CASE UNCHANGED vars
  BY <1>3 DEF vars, TrackInv, DirtyListsTracked, WillMerge
<1>4. ASSUME NEW g \in Mergers, NextKey(g)
      PROVE  TrackInv'
  BY <1>4, Track_NextKey
<1>5. ASSUME NEW x \in Committers, CommitterStep(x)
      PROVE  TrackInv'
  BY Zenon, <1>5, Track_CommitIfDirty, Track_CommitLock, Track_Commit DEF CommitterStep
<1>6. ASSUME NEW w \in Workers, WorkerStep(w)
      PROVE  TrackInv'
  BY <1>6, Track_TakeWork, Track_SetForDeletion, Track_WorkDone DEF WorkerStep
<1> QED  BY Zenon, <1>1, <1>2, <1>3, <1>4, <1>5, <1>6 DEF Next

\* dirtyChan, dirtyMap, gentleMerge and CommitIfDirty: no list of the map that has
\* mutations is forgotten.  Its key is on its way to a merge, a merge is about to
\* look at it, or the eviction is.
THEOREM NoDirtyListForgotten == Spec => []DirtyListsTracked
<1>1. Inv /\ TrackInv /\ [Next]_vars => TrackInv'
  BY Zenon, TrackStep
<1>2. TrackInv => DirtyListsTracked
  BY DEF TrackInv
<1> QED  BY <1>1, <1>2, TrackInit, SpecInv, PTL DEF Spec
=============================================================================
