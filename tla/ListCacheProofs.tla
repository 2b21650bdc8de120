--------------------------- MODULE ListCacheProofs ---------------------------
(***************************************************************************)
(* Proofs about ListCache, for any keys, clients, merges and workers: the  *)
(* reference counts are exact, a list stays the list of its key while it   *)
(* is held, and a key has one list that takes mutations.                   *)
(***************************************************************************)
EXTENDS ListCacheCallProofs

-----------------------------------------------------------------------------
(* The end of GetOrCreate, and the merges *)

\* The call that put its list initializes it; the one that found another gives its
\* own back.
LEMMA Step_InitOrUndo ==
  ASSUME Inv, NEW c \in Clients, InitOrUndo(c)
  PROVE  Inv'
<1>0. TypeOK /\ RefInv /\ CallInv /\ MergeInv /\ MapInv /\ HeldInv /\ OpenInv /\ OneOpenList
  BY DEF Inv
<1> USE <1>0
<1>p. PICK lp \in Ptrs, n \in Ptrs : lp = client[c].lp /\ n = client[c].l
  BY DEF InitOrUndo, CallInv, CallOK
<1>k. PICK k \in Keys : k = client[c].key
  BY DEF InitOrUndo, CallInv, CallOK
<1>1. Moves(c, "have", k, lp, Nil, client[c].mut)
  BY <1>p, <1>k, Moves_InitOrUndo
<1>2. /\ UNCHANGED <<store, lhmap, committer, dirtyChan, dirtyMap, periodic, workChan, acked>>
      /\ client[c].pc = "init" /\ lhmap[k] = lp
      /\ lp = n => init(n, k) /\ pool' = pool
      /\ lp # n => decr(n)
  BY <1>p, <1>k DEF InitOrUndo, UndoGetNew, CallInv, CallOK
<1>3. /\ periodic \notin {"flush", "evict"} /\ lp # Nil /\ n # Nil
      /\ lists \in [Ptrs -> List] /\ pool \subseteq Ptrs
  BY Zenon, <1>2, CacheAssumption DEF MapInv, InGetOrCreate, TypeOK
<1>4. ASSUME NEW q \in Ptrs
      PROVE  References(q)' = References(q) - One(lp # n /\ q = n)
  <2>1. (c \in Users(q) <=> q = lp) /\ (c \in Users(q)' <=> q = lp)
    BY Zenon, <1>1, <1>2, <1>p DEF Users, Using, Moves
  <2>2. (c \in Makers(q) <=> lp # n /\ q = n) /\ c \notin Makers(q)'
    BY Zenon, <1>1, <1>2, <1>3, <1>p, CacheAssumption DEF Makers, Moves
  <2>3. References(q)' = References(q) - One(c \in Users(q)) - One(c \in Makers(q))
                            + One(c \in Users(q)') + One(c \in Makers(q)')
    BY <1>1, <1>2, ClientRefs DEF Moves
  <2> QED  BY <2>1, <2>2, <2>3, Sum DEF One
<1>5. c \in Users(lp) /\ (lp # n => c \in Makers(n) /\ n \notin pool)
  <2>1. c \in Users(lp) /\ (lp # n => c \in Makers(n))
    BY <1>2, <1>3, <1>p DEF Users, Using, Makers
  <2>2. lp # n => References(n) # 0
    BY <2>1, Counted
  <2> QED  BY <2>1, <2>2 DEF RefInv
<1>6. \A q \in Clients \ {c} : client[q].pc = "put" => client[q].l # n
  <2> SUFFICES ASSUME NEW q \in Clients \ {c}, client[q].pc = "put", client[q].l = n
               PROVE  FALSE
    OBVIOUS
  <2>1. q \in Makers(n) /\ lists[n].refcount = 1 /\ n \notin pool
    BY DEF Makers, CallInv, CallOK
  <2>2. References(n) = 1
    BY <2>1 DEF RefInv
  <2>3. Users(n) = {} /\ Makers(n) = {q}
    BY <2>1, <2>2, Counted
  <2> QED  BY <1>5, <2>3
<1>7. CASE lp = n
  <2>1. /\ lists' \in [Ptrs -> List]
        /\ \A q \in Ptrs \ {n} : lists'[q] = lists[q]
        /\ lists'[n].key = k /\ lists'[n].ready
        /\ lists'[n].refcount = lists[n].refcount
        /\ lists'[n].deleteMe = lists[n].deleteMe
    BY <1>2, <1>3, <1>7, InitChange
  <2>2. pool' = pool
    BY <1>2, <1>7
  <2>3. TypeOK'
    BY Zenon, <1>1, <1>2, <2>1, <2>2 DEF TypeOK, Moves
  <2>4. RefInv'
    <3> SUFFICES ASSUME NEW q \in Ptrs
                 PROVE  References(q)' = References(q) /\ lists'[q].refcount = lists[q].refcount
      BY <2>2 DEF RefInv
    <3> QED  BY <1>4, <1>7, <2>1, Sum DEF One
  <2>5. CallInv'
    <3> SUFFICES ASSUME NEW q \in Clients PROVE CallOK(q)'
      BY DEF CallInv
    <3>1. CASE q = c
      BY <1>1, <3>1 DEF CallOK, Moves, Holding
    <3>2. CASE q # c
      <4>1. client'[q] = client[q] /\ CallOK(q)
        BY <1>1, <3>2 DEF Moves, CallInv
      <4>2. client[q].pc = "put" => lists'[client[q].l] = lists[client[q].l]
        BY Zenon, <1>6, <2>1, <3>2, <4>1 DEF CallOK
      <4>3. \A p \in Ptrs : lists[p].ready => lists'[p].ready
        BY <2>1
      <4> QED  BY Zenon, <1>2, <2>2, <4>1, <4>2, <4>3 DEF CallOK, Holding
    <3> QED  BY <3>1, <3>2
  <2>6. MergeInv'
    BY Zenon, <1>2 DEF MergeInv
  <2>7. MapInv'
    <3>1. \A i, j \in Keys : lhmap'[i] = lhmap'[j] /\ lhmap'[j] # Nil => i = j
      BY Zenon, <1>2 DEF MapInv
    <3>2. ASSUME NEW j \in Keys, lhmap'[j] # Nil
          PROVE  IF lists'[lhmap'[j]].ready THEN lists'[lhmap'[j]].key = j
                 ELSE \E q \in Clients : /\ client'[q].pc \in {"incr", "init"}
                                         /\ client'[q].l = lhmap'[j] /\ client'[q].lp = lhmap'[j]
      <4>1. lhmap'[j] = lhmap[j] /\ lhmap[j] \in Ptrs /\ lhmap[j] # Nil
        BY <1>2, <3>2 DEF TypeOK
      <4>2. CASE j = k
        BY Zenon, <1>2, <1>7, <2>1, <4>1, <4>2
      <4>3. CASE j # k
        <5>1. lhmap[j] # n
          BY <1>2, <1>3, <1>7, <4>3 DEF MapInv
        <5>2. lists'[lhmap[j]] = lists[lhmap[j]]
          BY <2>1, <4>1, <5>1
        <5>3. CASE lists[lhmap[j]].ready
          BY <4>1, <5>2, <5>3 DEF MapInv
        <5>4. CASE ~lists[lhmap[j]].ready
          <6>1. PICK q \in Clients : /\ client[q].pc \in {"incr", "init"}
                                     /\ client[q].l = lhmap[j] /\ client[q].lp = lhmap[j]
            BY <4>1, <5>4 DEF MapInv
          <6>2. client'[q] = client[q]
            BY <1>1, <1>p, <5>1, <6>1 DEF Moves
          <6> QED  BY <4>1, <5>2, <5>4, <6>1, <6>2
        <5> QED  BY <5>3, <5>4
      <4> QED  BY <4>2, <4>3
    <3>3. \A q \in Ptrs : lists'[q].ready => lists'[q].key \in Keys
      BY <2>1 DEF MapInv
    <3> QED  BY Zenon, <1>2, <1>3, <3>1, <3>2, <3>3 DEF MapInv
  <2>8. HeldInv'
    <3> SUFFICES ASSUME NEW q \in Clients, client'[q].pc \in Holding
                 PROVE  IF lists'[client'[q].lp].ready
                        THEN lists'[client'[q].lp].key = client'[q].key
                        ELSE lhmap'[client'[q].key] = client'[q].lp
      BY DEF HeldInv
    <3>1. CASE q = c
      BY <1>1, <1>7, <2>1, <3>1 DEF Moves
    <3>2. CASE q # c
      <4>1. client'[q] = client[q] /\ client[q].lp \in Ptrs /\ client[q].key \in Keys
        BY <1>1, <3>2 DEF Moves, CallInv, CallOK, Holding
      <4>2. CASE client[q].lp # n
        BY <1>2, <2>1, <4>1, <4>2 DEF HeldInv
      <4>3. CASE client[q].lp = n
        <5>1. CASE lists[n].ready
          <6>1. lists[n].key = client[q].key
            BY <4>1, <4>3, <5>1 DEF HeldInv
          <6>2. lists[n].key = k
            BY <1>2, <1>3, <1>7, <5>1 DEF MapInv
          <6> QED  BY Zenon, <2>1, <4>1, <4>3, <6>1, <6>2
        <5>2. CASE ~lists[n].ready
          <6>1. lhmap[client[q].key] = n /\ lhmap[k] = n
            BY <1>2, <1>7, <4>1, <4>3, <5>2 DEF HeldInv
          <6>2. client[q].key = k
            BY <1>3, <4>1, <6>1 DEF MapInv
          <6> QED  BY Zenon, <2>1, <4>1, <4>3, <6>2
        <5> QED  BY <5>1, <5>2
      <4> QED  BY Zenon, <4>2, <4>3
    <3> QED  BY <3>1, <3>2
  <2>9. OpenInv' /\ OneOpenList'
    <3>1. \A q \in Ptrs \ pool : Open(q) => lhmap[lists[q].key] = q
      BY <1>3 DEF OpenInv
    <3>2. \A q \in Ptrs \ pool' : Open(q)' => lhmap'[lists'[q].key] = q
      BY Zenon, <1>2, <1>7, <2>1, <2>2, <3>1 DEF Open
    <3>3. OpenInv'
      BY <3>2 DEF OpenInv
    <3>4. OneOpenList'
      BY <3>2 DEF OneOpenList, Open
    <3> QED  BY <3>3, <3>4
  <2> QED  BY <2>3, <2>4, <2>5, <2>6, <2>7, <2>8, <2>9 DEF Inv
<1>8. CASE lp # n
  <2>1. /\ References(n)' = References(n) - 1
        /\ \A q \in Ptrs \ {n} : References(q)' = References(q)
    <3>1. References(n)' = References(n) - One(lp # n /\ n = n)
      BY <1>4
    <3>2. \A q \in Ptrs \ {n} : References(q)' = References(q)
      BY <1>4, Sum DEF One
    <3> QED  BY <1>8, <3>1, <3>2 DEF One
  <2>2. /\ RefInv' /\ Counts(n, lists[n].refcount - 1)
        /\ pool' \subseteq Ptrs /\ pool \subseteq pool' /\ pool' \subseteq pool \cup {n}
    BY <1>2, <1>5, <1>8, <2>1, DecrKeeps
  <2>3. TypeOK'
    BY <1>1, <1>2, <2>2 DEF TypeOK, Moves, Counts
  <2>4. \A q \in Ptrs : /\ lists'[q].key = lists[q].key /\ lists'[q].ready = lists[q].ready
                        /\ lists'[q].deleteMe = lists[q].deleteMe
    BY Zenon, <2>2 DEF Counts
  <2>5. CallInv'
    <3> SUFFICES ASSUME NEW q \in Clients PROVE CallOK(q)'
      BY DEF CallInv
    <3>1. CASE q = c
      BY <1>1, <3>1 DEF CallOK, Moves, Holding
    <3>2. CASE q # c
      <4>1. client'[q] = client[q] /\ CallOK(q)
        BY <1>1, <3>2 DEF Moves, CallInv
      <4>2. client[q].pc = "put" => /\ lists'[client[q].l] = lists[client[q].l]
                                    /\ client[q].l \notin pool'
        BY <1>6, <2>2, <3>2, <4>1 DEF CallOK, Counts
      <4> QED  BY Zenon, <1>2, <2>4, <4>1, <4>2 DEF CallOK, Holding
    <3> QED  BY <3>1, <3>2
  <2>6. MergeInv'
    BY <1>2 DEF MergeInv
  <2>7. MapInv'
    <3>1. \A q \in Clients :
            /\ client[q].pc \in {"incr", "init"} /\ client[q].l = client[q].lp =>
                 client'[q] = client[q]
            /\ client'[q].pc \in Getting => client[q].pc \in Getting
      BY <1>1, <1>2, <1>8, <1>p DEF Moves, Getting
    <3> QED  BY Zenon, <1>2, <2>4, <3>1, MapKept
  <2>8. HeldInv'
    <3> SUFFICES ASSUME NEW q \in Clients, client'[q].pc \in Holding
                 PROVE  IF lists'[client'[q].lp].ready
                        THEN lists'[client'[q].lp].key = client'[q].key
                        ELSE lhmap'[client'[q].key] = client'[q].lp
      BY DEF HeldInv
    <3>1. CASE q = c
      <4>1. client'[q].lp = lp /\ client'[q].key = k
        BY <1>1, <3>1 DEF Moves
      <4>2. lists[lp].ready => lists[lp].key = k
        BY Zenon, <1>2, <1>3 DEF MapInv
      <4> QED  BY Zenon, <1>2, <1>3, <2>4, <4>1, <4>2
    <3>2. CASE q # c
      <4>1. client'[q] = client[q] /\ client[q].lp \in Ptrs
        BY Zenon, <1>1, <3>2 DEF Moves, CallInv, CallOK
      <4>2. IF lists[client[q].lp].ready THEN lists[client[q].lp].key = client[q].key
            ELSE lhmap[client[q].key] = client[q].lp
        BY Zenon, <4>1 DEF HeldInv
      <4> QED  BY Zenon, <1>2, <2>4, <4>1, <4>2
    <3> QED  BY <3>1, <3>2
  <2>9. OpenInv' /\ OneOpenList'
    BY Zenon, <1>2, <2>2, <2>4, OpenKept
  <2> QED  BY <2>2, <2>3, <2>5, <2>6, <2>7, <2>8, <2>9 DEF Inv
<1> QED  BY <1>7, <1>8

\* One goroutine that merges goes to another of its steps, with the same list.
LEMMA MergeMoves ==
  ASSUME TypeOK, NEW x \in Committers, NEW pc,
         pc \in {"idle", "next", "delete", "check", "commit", "locked", "done"},
         committer' = [committer EXCEPT ![x].pc = pc]
  PROVE  /\ committer' \in [Committers -> Merge]
         /\ committer'[x].pc = pc /\ committer'[x].l = committer[x].l
         /\ committer'[x].keys = committer[x].keys
         /\ \A y \in Committers \ {x} : committer'[y] = committer[y]
<1> DEFINE y == [committer[x] EXCEPT !.pc = pc]
<1>1. committer \in [Committers -> Merge] /\ committer[x] \in Merge
  BY DEF TypeOK
<1>2. y \in Merge /\ y.pc = pc /\ y.l = committer[x].l /\ y.keys = committer[x].keys
  BY <1>1 DEF Merge
<1>3. committer' = [committer EXCEPT ![x] = y]
  OBVIOUS
<1> HIDE DEF y
<1> QED  BY <1>1, <1>2, <1>3

\* One goroutine that merges takes up something else.
LEMMA MergeSet ==
  ASSUME TypeOK, NEW x \in Committers, NEW y \in Merge,
         committer' = [committer EXCEPT ![x] = y]
  PROVE  /\ committer' \in [Committers -> Merge] /\ committer'[x] = y
         /\ \A z \in Committers \ {x} : committer'[z] = committer[z]
BY DEF TypeOK

\* A step of the merges that leaves the calls, the map and the references alone,
\* and does not let go of a list that is still to be marked.
LEMMA MergesOnly ==
  ASSUME Inv, TypeOK', MergeInv', UNCHANGED <<client, lhmap, pool, workChan>>, Keep(Ptrs),
         \A w \in Workers : /\ committer'[w].l = committer[w].l
                            /\ committer[w].pc = "delete" => committer'[w].pc = "delete",
         periodic' \in {"flush", "evict"} => InGetOrCreate = {},
         periodic = "evict" => periodic' = "evict" \/ AllMerged
  PROVE  Inv'
<1>0. TypeOK /\ RefInv /\ CallInv /\ MergeInv /\ MapInv /\ HeldInv /\ OpenInv /\ OneOpenList
  BY DEF Inv
<1> USE <1>0
<1>1. \A p \in Ptrs : /\ lists'[p].key = lists[p].key /\ lists'[p].ready = lists[p].ready
                      /\ lists'[p].deleteMe = lists[p].deleteMe
                      /\ lists'[p].refcount = lists[p].refcount
  BY Zenon DEF Keep
<1>2. RefInv'
  <2>1. \A p \in Ptrs : References(p)' = References(p)
    BY Zenon, SameRefs
  <2> QED  BY Zenon, <1>1, <2>1 DEF RefInv
<1>3. CallInv'
  <2> SUFFICES ASSUME NEW c \in Clients PROVE CallOK(c)'
    BY Zenon DEF CallInv
  <2>1. CallOK(c)
    BY DEF CallInv
  <2> QED  BY Zenon, <1>1, <2>1 DEF CallOK, Holding
<1>4. MapInv'
  <2>1. \A k \in Keys : lhmap[k] # Nil => lhmap[k] \in Ptrs
    BY DEF TypeOK
  <2> QED  BY <1>1, <2>1 DEF MapInv, InGetOrCreate
<1>5. HeldInv'
  BY <1>1, HeldKept
<1>6. OneOpenList'
  BY <1>1 DEF OneOpenList
<1>7. OpenInv'
  BY <1>1 DEF OpenInv, Open, AllMerged
<1> QED  BY Zenon, <1>2, <1>3, <1>4, <1>5, <1>6, <1>7 DEF Inv

\* periodicMerging receives a dirty key.
LEMMA Step_ReceiveDirty ==
  ASSUME Inv, ReceiveDirty
  PROVE  Inv'
<1>1. TypeOK /\ MergeInv /\ periodic = "select"
  BY DEF Inv, ReceiveDirty
<1>2. dirtyChan \in Seq(Keys) /\ Len(dirtyChan) <= DirtyCap /\ dirtyChan # <<>>
  BY <1>1 DEF TypeOK, ReceiveDirty
<1>3. Head(dirtyChan) \in Keys /\ Tail(dirtyChan) \in Seq(Keys) /\ Len(Tail(dirtyChan)) <= DirtyCap
  <2>1. Head(dirtyChan) \in Keys /\ Tail(dirtyChan) \in Seq(Keys)
        /\ Len(Tail(dirtyChan)) = Len(dirtyChan) - 1 /\ Len(dirtyChan) \in Nat
    BY <1>2
  <2> QED  BY <1>2, <2>1, CacheAssumption
<1>4. TypeOK'
  BY <1>1, <1>3 DEF TypeOK, ReceiveDirty
<1>5. MergeInv' /\ Keep(Ptrs)
  BY <1>1 DEF MergeInv, ReceiveDirty, Keep
<1> QED  BY <1>1, <1>4, <1>5, MergesOnly DEF ReceiveDirty

\* gentleMerge takes keys out of dirtyMap.
LEMMA Step_gentleMerge ==
  ASSUME Inv, gentleMerge
  PROVE  Inv'
<1>1. TypeOK /\ MergeInv /\ periodic = "select"
  BY DEF Inv, gentleMerge
<1>2. PICK g \in Mergers, S \in SUBSET dirtyMap :
        /\ committer' = [committer EXCEPT ![g] = [pc |-> "next", keys |-> S, l |-> Nil]]
        /\ dirtyMap' = dirtyMap \ S
  BY Zenon DEF gentleMerge, LeftInDirtyMap
<1> DEFINE y == [pc |-> "next", keys |-> S, l |-> Nil]
<1>3. y \in Merge /\ y.pc = "next"
  BY <1>1 DEF Merge, TypeOK
<1>4. g \in Committers /\ g \notin Workers
  BY CacheAssumption DEF Committers
<1>5. committer' = [committer EXCEPT ![g] = y]
  BY <1>2
<1> HIDE DEF y
<1>6. /\ committer' \in [Committers -> Merge] /\ committer'[g] = y
      /\ \A z \in Committers \ {g} : committer'[z] = committer[z]
  BY ZenonT(30), <1>1, <1>3, <1>4, <1>5, MergeSet
<1>7. TypeOK'
  BY <1>1, <1>2, <1>6 DEF TypeOK, gentleMerge
<1>8. UNCHANGED <<store, lists, pool, lhmap, client, dirtyChan, periodic, workChan, acked>>
  BY DEF gentleMerge
<1>9. \A w \in Workers : committer'[w] = committer[w]
  BY <1>4, <1>6 DEF Committers
<1>10. MergeInv'
  BY <1>1, <1>3, <1>6, <1>8, <1>9 DEF MergeInv, Committers
<1>11. Keep(Ptrs)
  BY <1>8 DEF Keep
<1> QED  BY <1>1, <1>7, <1>8, <1>9, <1>10, <1>11, MergesOnly

\* mergeAndUpdateKeys takes up the next key: the list is one of the map, or none.
LEMMA Step_NextKey ==
  ASSUME Inv, NEW g \in Mergers, NextKey(g)
  PROVE  Inv'
<1>1. TypeOK /\ MergeInv /\ MapInv
  BY DEF Inv
<1>2. g \in Committers /\ g \notin Workers
  BY CacheAssumption DEF Committers
<1>3. \E y \in Merge : /\ committer' = [committer EXCEPT ![g] = y]
                       /\ y.pc \notin {"delete", "done"}
                       /\ y.pc \in {"check", "commit", "locked"} => y.l \in Ptrs
  <2>1. committer[g].keys \subseteq Keys
    BY <1>1, <1>2 DEF TypeOK, Merge
  <2>2. CASE committer[g].keys = {}
    <3>1. IdleCommitter \in Merge /\ IdleCommitter.pc = "idle"
      BY DEF Merge, IdleCommitter
    <3> QED  BY <2>2, <3>1 DEF NextKey
  <2>3. CASE committer[g].keys # {}
    <3>1. PICK k \in committer[g].keys :
            committer' = [committer EXCEPT
              ![g] = [pc |-> IF lhmap[k] = Nil THEN "next" ELSE "check",
                      keys |-> committer[g].keys \ {k}, l |-> lhmap[k]]]
      BY <2>3 DEF NextKey
    <3> DEFINE y == [pc |-> IF lhmap[k] = Nil THEN "next" ELSE "check",
                     keys |-> committer[g].keys \ {k}, l |-> lhmap[k]]
    <3>2. lhmap[k] \in Ptrs \cup {Nil}
      BY <1>1, <2>1 DEF TypeOK
    <3>3. y \in Merge /\ y.l = lhmap[k] /\ y.pc = IF lhmap[k] = Nil THEN "next" ELSE "check"
      BY <2>1, <3>2 DEF Merge
    <3> QED  BY Zenon, <3>1, <3>2, <3>3
  <2> QED  BY <2>2, <2>3
<1>4. PICK y \in Merge : /\ committer' = [committer EXCEPT ![g] = y]
                         /\ y.pc \notin {"delete", "done"}
                         /\ y.pc \in {"check", "commit", "locked"} => y.l \in Ptrs
  BY Zenon, <1>3
<1>6. /\ committer' \in [Committers -> Merge] /\ committer'[g] = y
      /\ \A z \in Committers \ {g} : committer'[z] = committer[z]
  BY Zenon, <1>1, <1>2, <1>4, MergeSet
<1>8. UNCHANGED <<store, lists, pool, lhmap, client, dirtyChan, dirtyMap,
                  periodic, workChan, acked>>
  BY DEF NextKey
<1>7. TypeOK'
  BY <1>1, <1>6, <1>8 DEF TypeOK
<1>9. \A w \in Workers : committer'[w] = committer[w]
  BY <1>2, <1>6 DEF Committers
<1>10. MergeInv'
  BY <1>1, <1>4, <1>6, <1>8, <1>9 DEF MergeInv, Committers
<1>11. Keep(Ptrs)
  BY <1>8 DEF Keep
<1> QED  BY <1>1, <1>7, <1>8, <1>9, <1>10, <1>11, MergesOnly DEF MapInv

\* CommitIfDirty, and the steps of commit: one goroutine moves on with its list.
LEMMA CommitterMoves ==
  ASSUME Inv, NEW x \in Committers, NEW pc, pc \in {"next", "commit", "locked", "done"},
         committer[x].pc \in {"check", "commit", "locked"},
         x \in Workers => pc # "next", x \in Mergers => pc # "done",
         committer' = [committer EXCEPT ![x].pc = pc],
         UNCHANGED <<pool, lhmap, client, dirtyChan, dirtyMap, periodic, workChan, acked>>,
         store' \in [Keys -> SUBSET Mutations], lists' \in [Ptrs -> List], Keep(Ptrs)
  PROVE  Inv'
<1>1. TypeOK /\ MergeInv /\ MapInv
  BY DEF Inv
<1>2. /\ committer' \in [Committers -> Merge]
      /\ committer'[x].pc = pc /\ committer'[x].l = committer[x].l
      /\ \A y \in Committers \ {x} : committer'[y] = committer[y]
  BY Zenon, <1>1, MergeMoves
<1>3. TypeOK'
  BY <1>1, <1>2 DEF TypeOK
<1>4. MergeInv'
  BY <1>1, <1>2 DEF MergeInv, Committers
<1>5. \A w \in Workers : /\ committer'[w].l = committer[w].l
                         /\ committer[w].pc = "delete" => committer'[w].pc = "delete"
  BY <1>2 DEF Committers
<1> QED  BY <1>1, <1>3, <1>4, <1>5, MergesOnly DEF MapInv

\* CommitIfDirty looks at the mark.
LEMMA Step_CommitIfDirty ==
  ASSUME Inv, NEW x \in Committers, CommitIfDirty(x)
  PROVE  Inv'
<1> DEFINE pc == IF lists[committer[x].l].dirty THEN "commit" ELSE Merged(x)
<1>1. /\ committer' = [committer EXCEPT ![x].pc = pc] /\ committer[x].pc = "check"
      /\ UNCHANGED <<store, lists, pool, lhmap, client, dirtyChan, dirtyMap,
                     periodic, workChan, acked>>
  BY DEF CommitIfDirty
<1>2. /\ pc \in {"next", "commit", "locked", "done"}
      /\ x \in Workers => pc # "next"
      /\ x \in Mergers => pc # "done"
  BY Zenon, CacheAssumption DEF Merged
<1>3. store' \in [Keys -> SUBSET Mutations] /\ lists' \in [Ptrs -> List] /\ Keep(Ptrs)
  BY <1>1 DEF Inv, TypeOK, Keep
<1> HIDE DEF pc
<1> QED  BY Zenon, <1>1, <1>2, <1>3, CommitterMoves

\* What the steps of commit leave in their list.
LEMMA ListTouched ==
  ASSUME lists \in [Ptrs -> List], NEW p \in Ptrs, NEW y \in List,
         y.key = lists[p].key, y.ready = lists[p].ready, y.deleteMe = lists[p].deleteMe,
         y.refcount = lists[p].refcount, lists' = [lists EXCEPT ![p] = y]
  PROVE  lists' \in [Ptrs -> List] /\ Keep(Ptrs)
BY DEF Keep

\* A goroutine that merges has a list in hand.
LEMMA HasList ==
  ASSUME TypeOK, MergeInv, NEW x \in Committers, committer[x].pc \in {"check", "commit", "locked"}
  PROVE  committer[x].l \in Ptrs
BY DEF MergeInv, Committers

\* commit locks the list.
LEMMA Step_CommitLock ==
  ASSUME Inv, NEW x \in Committers, CommitLock(x)
  PROVE  Inv'
<1>1. /\ committer' = [committer EXCEPT ![x].pc = "locked"] /\ committer[x].pc = "commit"
      /\ UNCHANGED <<store, pool, lhmap, client, dirtyChan, dirtyMap, periodic, workChan, acked>>
      /\ lists' = [lists EXCEPT ![committer[x].l].lock = x]
  BY DEF CommitLock
<1>2. TypeOK /\ MergeInv
  BY DEF Inv
<1>3. PICK p \in Ptrs : p = committer[x].l
  BY <1>1, <1>2, HasList
<1> DEFINE y == [lists[p] EXCEPT !.lock = x]
<1>4. lists \in [Ptrs -> List] /\ lists[p] \in List /\ store \in [Keys -> SUBSET Mutations]
  BY <1>2 DEF TypeOK
<1>5. y \in List /\ y.key = lists[p].key /\ y.ready = lists[p].ready
      /\ y.deleteMe = lists[p].deleteMe /\ y.refcount = lists[p].refcount
  BY <1>4 DEF List
<1>6. lists' = [lists EXCEPT ![p] = y]
  BY <1>1, <1>3
<1> HIDE DEF y
<1>7. lists' \in [Ptrs -> List] /\ Keep(Ptrs)
  BY Zenon, <1>4, <1>5, <1>6, ListTouched
<1> QED  BY Zenon, <1>1, <1>4, <1>7, CommitterMoves

\* commit writes the list and unlocks it.  (An object that was reset has no key, and
\* nothing is written.)
LEMMA Step_Commit ==
  ASSUME Inv, NEW x \in Committers, Commit(x)
  PROVE  Inv'
<1>1. /\ committer' = [committer EXCEPT ![x].pc = Merged(x)] /\ committer[x].pc = "locked"
      /\ UNCHANGED <<pool, lhmap, client, dirtyChan, dirtyMap, periodic, workChan, acked>>
  BY Zenon DEF Commit
<1>2. TypeOK /\ MergeInv
  BY DEF Inv
<1>3. PICK p \in Ptrs : p = committer[x].l
  BY <1>1, <1>2, HasList
<1>4. lists \in [Ptrs -> List] /\ lists[p] \in List /\ store \in [Keys -> SUBSET Mutations]
  BY <1>2 DEF TypeOK
<1>5. store' \in [Keys -> SUBSET Mutations] /\ lists' \in [Ptrs -> List] /\ Keep(Ptrs)
  <2>1. CASE lists[p].mlayer = {}
    <3> DEFINE y == [lists[p] EXCEPT !.dirty = FALSE, !.lock = Nil]
    <3>1. y \in List /\ y.key = lists[p].key /\ y.ready = lists[p].ready
          /\ y.deleteMe = lists[p].deleteMe /\ y.refcount = lists[p].refcount
      BY Zenon, <1>4 DEF List
    <3>2. lists' = [lists EXCEPT ![p] = y] /\ store' = store
      BY Zenon, <1>3, <2>1 DEF Commit
    <3> HIDE DEF y
    <3>3. lists' \in [Ptrs -> List] /\ Keep(Ptrs)
      BY Zenon, <1>4, <3>1, <3>2, ListTouched
    <3> QED  BY <1>4, <3>2, <3>3
  <2>2. CASE lists[p].mlayer # {}
    <3> DEFINE y == [lists[p] EXCEPT !.pbuffer = Nil, !.dirty = FALSE, !.mlayer = {}, !.lock = Nil]
               plist == IF lists[p].pbuffer = Nil THEN store[lists[p].key] ELSE lists[p].pbuffer
    <3>1. y \in List /\ y.key = lists[p].key /\ y.ready = lists[p].ready
          /\ y.deleteMe = lists[p].deleteMe /\ y.refcount = lists[p].refcount
      BY Zenon, <1>4 DEF List
    <3>2. lists' = [lists EXCEPT ![p] = y]
      BY Zenon, <1>3, <2>2 DEF Commit
    <3>3. store' = [store EXCEPT ![lists[p].key] = plist \cup lists[p].mlayer]
      BY Zenon, <1>3, <2>2 DEF Commit
    <3>4. lists[p].key \in Keys => plist \cup lists[p].mlayer \in SUBSET Mutations
      BY <1>4 DEF List
    <3>5. lists[p].key \in Keys \cup {Nil} /\ Nil \notin Keys
      BY <1>4, CacheAssumption DEF List
    <3> HIDE DEF y, plist
    <3>6. store' \in [Keys -> SUBSET Mutations]
      BY Zenon, <1>4, <3>3, <3>4, <3>5
    <3>7. lists' \in [Ptrs -> List] /\ Keep(Ptrs)
      BY Zenon, <1>4, <3>1, <3>2, ListTouched
    <3> QED  BY <3>6, <3>7
  <2> QED  BY <2>1, <2>2
<1>6. /\ Merged(x) \in {"next", "commit", "locked", "done"}
      /\ x \in Workers => Merged(x) # "next"
      /\ x \in Mergers => Merged(x) # "done"
  BY CacheAssumption DEF Merged
<1> QED  BY Zenon, <1>1, <1>5, <1>6, CommitterMoves

\* From here on no call enters GetOrCreate.
LEMMA Step_StopTheWorld ==
  ASSUME Inv, StopTheWorld
  PROVE  Inv'
<1>1. TypeOK /\ MergeInv
  BY DEF Inv
<1>2. TypeOK' /\ MergeInv' /\ Keep(Ptrs)
  BY <1>1 DEF TypeOK, MergeInv, Keep, StopTheWorld
<1> QED  BY <1>2, MergesOnly DEF StopTheWorld

\* The lock is taken when the last call has left GetOrCreate.
LEMMA Step_WorldLocked ==
  ASSUME Inv, WorldLocked
  PROVE  Inv'
<1>1. TypeOK /\ MergeInv
  BY DEF Inv
<1>2. TypeOK' /\ MergeInv' /\ Keep(Ptrs)
  BY <1>1 DEF TypeOK, MergeInv, Keep, WorldLocked
<1> QED  BY Zenon, <1>2, MergesOnly DEF WorldLocked

\* What is in dirtyChan is thrown away before the eviction.
LEMMA Step_FlushDirtyChan ==
  ASSUME Inv, FlushDirtyChan
  PROVE  Inv'
<1>1. TypeOK /\ MergeInv /\ InGetOrCreate = {} /\ periodic = "flush"
  BY DEF Inv, MapInv, FlushDirtyChan
<1>2. Flush \in Seq(Keys) /\ Len(Flush) <= DirtyCap
  <2>1. dirtyChan \in Seq(Keys) /\ Len(dirtyChan) <= DirtyCap /\ DirtyCap \in Nat
    BY <1>1, CacheAssumption DEF TypeOK
  <2>2. CASE dirtyChan = <<>>
    BY <2>1, <2>2 DEF Flush
  <2>3. CASE dirtyChan # <<>>
    <3>1. Tail(dirtyChan) \in Seq(Keys) /\ Len(Tail(dirtyChan)) = Len(dirtyChan) - 1
          /\ Len(dirtyChan) \in Nat
      BY <2>1, <2>3
    <3> QED  BY <2>1, <2>3, <3>1 DEF Flush
  <2> QED  BY <2>2, <2>3
<1>3. TypeOK' /\ MergeInv' /\ Keep(Ptrs)
  BY <1>1, <1>2 DEF TypeOK, MergeInv, Keep, FlushDirtyChan
<1> QED  BY <1>1, <1>3, MergesOnly DEF FlushDirtyChan

\* MergeLists returns when every list has been marked and merged.
LEMMA Step_EvictDone ==
  ASSUME Inv, EvictDone
  PROVE  Inv'
<1>1. TypeOK /\ MergeInv
  BY DEF Inv
<1>2. TypeOK' /\ MergeInv' /\ Keep(Ptrs)
  BY <1>1 DEF TypeOK, MergeInv, Keep, EvictDone
<1> QED  BY <1>2, MergesOnly DEF EvictDone

\* The reference of the map becomes that of MergeLists.  Every list in the map is
\* initialized: nobody is in GetOrCreate.
LEMMA Step_EachWithDelete ==
  ASSUME Inv, EachWithDelete
  PROVE  Inv'
<1>0. TypeOK /\ RefInv /\ CallInv /\ MergeInv /\ MapInv /\ HeldInv /\ OpenInv /\ OneOpenList
  BY DEF Inv
<1> USE <1>0
<1>1. PICK k \in Keys : /\ lhmap[k] # Nil
                        /\ lhmap' = [lhmap EXCEPT ![k] = Nil]
                        /\ workChan' = workChan \cup {lhmap[k]}
  BY Zenon DEF EachWithDelete
<1>2. periodic = "evict" /\ periodic' = "evict" /\ InGetOrCreate = {}
      /\ UNCHANGED <<store, lists, pool, client, committer, dirtyChan, dirtyMap, acked>>
  BY Zenon DEF EachWithDelete, MapInv
<1>3. PICK p \in Ptrs : p = lhmap[k]
  BY <1>1 DEF TypeOK
<1>4. /\ \A j \in Keys : lhmap'[j] = IF j = k THEN Nil ELSE lhmap[j]
      /\ \A j \in Keys : lhmap[j] = p <=> j = k
      /\ p # Nil /\ p \notin workChan /\ workChan' = workChan \cup {p}
  BY <1>1, <1>3, CacheAssumption DEF TypeOK, MapInv, MergeInv
<1>5. \A c \in Clients : client[c].pc \notin {"get", "put", "incr", "init"}
  BY <1>2 DEF InGetOrCreate
<1>6. \A j \in Keys : lhmap[j] # Nil => lists[lhmap[j]].ready /\ lists[lhmap[j]].key = j
  BY <1>5 DEF MapInv
<1>7. TypeOK'
  <2>1. lhmap' \in [Keys -> Ptrs \cup {Nil}]
    BY <1>1 DEF TypeOK
  <2> QED  BY <1>2, <1>4, <2>1 DEF TypeOK
<1>8. RefInv'
  <2> SUFFICES ASSUME NEW q \in Ptrs PROVE References(q)' = References(q)
    BY <1>2 DEF RefInv
  <2>1. Merging(q)' = Merging(q) /\ Users(q)' = Users(q) /\ Makers(q)' = Makers(q)
    BY <1>2 DEF Merging, Users, Using, Makers
  <2>2. CASE q # p
    <3>1. InMap(q)' = InMap(q) /\ Queued(q)' = Queued(q)
      BY <1>1, <1>3, <1>4, <2>2, CacheAssumption DEF InMap, Queued
    <3> QED  BY <2>1, <3>1, Sum, SumNext
  <2>3. CASE q = p
    <3>1. InMap(q) = {k} /\ InMap(q)' = {}
      BY <1>4, <2>3 DEF InMap
    <3>2. Cardinality(InMap(q)) = 1 /\ Cardinality(InMap(q)') = 0
      BY Zenon, <3>1, FS_EmptySet, FS_Singleton
    <3>3. Queued(q) = 0 /\ Queued(q)' = 1
      BY <1>4, <2>3 DEF Queued
    <3> QED  BY <2>1, <3>2, <3>3, Sum, SumNext
  <2> QED  BY <2>2, <2>3
<1>9. CallInv'
  <2> SUFFICES ASSUME NEW c \in Clients PROVE CallOK(c)'
    BY DEF CallInv
  <2>1. CallOK(c) /\ client[c].pc \notin {"get", "put", "incr", "init"}
    BY <1>5 DEF CallInv
  <2> QED  BY Zenon, <1>2, <2>1 DEF CallOK
<1>10. MergeInv'
  <2>1. \A j \in Keys : lhmap'[j] \notin workChan'
    <3>1. Nil \notin workChan
      BY CacheAssumption DEF TypeOK
    <3> QED  BY <1>4, <3>1 DEF MergeInv
  <2> QED  BY <1>2, <2>1 DEF MergeInv
<1>11. MapInv'
  <2>1. \A i, j \in Keys : lhmap'[i] = lhmap'[j] /\ lhmap'[j] # Nil => i = j
    BY <1>4 DEF MapInv
  <2>2. \A j \in Keys : lhmap'[j] # Nil => lists'[lhmap'[j]].ready /\ lists'[lhmap'[j]].key = j
    BY <1>2, <1>4, <1>6
  <2>3. \A q \in Ptrs : lists'[q].ready => lists'[q].key \in Keys
    BY <1>2 DEF MapInv
  <2>4. InGetOrCreate' = {}
    BY <1>2 DEF InGetOrCreate
  <2> QED  BY Zenon, <2>1, <2>2, <2>3, <2>4 DEF MapInv
<1>12. HeldInv'
  <2> SUFFICES ASSUME NEW c \in Clients, client[c].pc \in Holding
               PROVE  IF lists[client[c].lp].ready THEN lists[client[c].lp].key = client[c].key
                      ELSE lhmap'[client[c].key] = client[c].lp
    BY <1>2 DEF HeldInv
  <2>1. client[c].key \in Keys /\ client[c].lp \in Ptrs /\ client[c].lp # Nil
    BY CacheAssumption DEF CallInv, CallOK, Holding
  <2>2. lists[client[c].lp].ready
    BY <1>6, <2>1 DEF HeldInv
  <2> QED  BY <2>2 DEF HeldInv
<1>13. OneOpenList'
  BY <1>2 DEF OneOpenList
<1>14. OpenInv'
  <2> SUFFICES ASSUME NEW q \in Ptrs \ pool, Open(q)
               PROVE  \/ lhmap'[lists[q].key] = q
                      \/ /\ lhmap'[lists[q].key] = Nil
                         /\ q \in workChan'
                              \/ \E w \in Workers : committer[w].l = q /\ committer[w].pc = "delete"
    BY <1>2 DEF OpenInv, Open
  <2>1. lists[q].key \in Keys
    BY DEF MapInv, Open
  <2>2. \/ lhmap[lists[q].key] = q
        \/ /\ lhmap[lists[q].key] = Nil
           /\ q \in workChan \/ \E w \in Workers : committer[w].l = q /\ committer[w].pc = "delete"
    BY DEF OpenInv
  <2> QED  BY Zenon, <1>3, <1>4, <2>1, <2>2
<1> QED  BY <1>7, <1>8, <1>9, <1>10, <1>11, <1>12, <1>13, <1>14 DEF Inv

\* The reference of MergeLists goes to one of its workers.
LEMMA Step_TakeWork ==
  ASSUME Inv, NEW w \in Workers, TakeWork(w)
  PROVE  Inv'
<1>0. TypeOK /\ RefInv /\ CallInv /\ MergeInv /\ MapInv /\ HeldInv /\ OpenInv /\ OneOpenList
  BY DEF Inv
<1> USE <1>0
<1>1. PICK p \in workChan : /\ workChan' = workChan \ {p}
                            /\ committer' = [committer EXCEPT ![w].pc = "delete", ![w].l = p]
  BY Zenon DEF TakeWork
<1>2. committer[w].pc = "idle" /\ committer[w].l = Nil /\ p \in Ptrs /\ p # Nil
      /\ UNCHANGED <<store, lists, pool, lhmap, client, dirtyChan, dirtyMap, periodic, acked>>
  BY CacheAssumption DEF TakeWork, MergeInv, TypeOK
<1> DEFINE y == [committer[w] EXCEPT !.pc = "delete", !.l = p]
<1>3. w \in Committers /\ w \notin Mergers
  BY CacheAssumption DEF Committers
<1>4. y \in Merge /\ y.pc = "delete" /\ y.l = p
  BY Zenon, <1>2, <1>3 DEF Merge, TypeOK
<1>5. committer' = [committer EXCEPT ![w] = y]
  BY Zenon, <1>1
<1> HIDE DEF y
<1>6. /\ committer' \in [Committers -> Merge] /\ committer'[w] = y
      /\ \A z \in Committers \ {w} : committer'[z] = committer[z]
  BY Zenon, <1>3, <1>4, <1>5, MergeSet
<1>7. TypeOK'
  BY <1>1, <1>2, <1>6 DEF TypeOK
<1>8. /\ \A z \in Workers \ {w} : committer'[z] = committer[z]
      /\ \A g \in Mergers : committer'[g] = committer[g]
      /\ committer'[w].pc = "delete" /\ committer'[w].l = p
  BY <1>3, <1>4, <1>6 DEF Committers
<1>9. RefInv'
  <2> SUFFICES ASSUME NEW q \in Ptrs PROVE References(q)' = References(q)
    BY Zenon, <1>2 DEF RefInv
  <2>1. InMap(q)' = InMap(q) /\ Users(q)' = Users(q) /\ Makers(q)' = Makers(q)
    BY Zenon, <1>2 DEF InMap, Users, Using, Makers
  <2>2. CASE q # p
    <3>1. q # Nil
      BY CacheAssumption
    <3>2. Merging(q)' = Merging(q) /\ Queued(q)' = Queued(q)
      BY Zenon, <1>1, <1>2, <1>8, <2>2, <3>1 DEF Merging, Queued
    <3> QED  BY <2>1, <3>2, Sum, SumNext
  <2>3. CASE q = p
    <3>1. Merging(q)' = Merging(q) \cup {w} /\ w \notin Merging(q)
      BY Zenon, <1>2, <1>8, <2>3 DEF Merging
    <3>2. Cardinality(Merging(q)') = Cardinality(Merging(q)) + 1
      BY Zenon, <3>1, Finite, FS_AddElement
    <3>3. Queued(q) = 1 /\ Queued(q)' = 0
      BY <1>1, <2>3 DEF Queued
    <3> QED  BY <2>1, <3>2, <3>3, Sum, SumNext
  <2> QED  BY <2>2, <2>3
<1>10. CallInv' /\ HeldInv' /\ OneOpenList'
  <2>1. CallInv'
    BY Zenon, <1>2 DEF CallInv, CallOK
  <2>2. HeldInv' /\ OneOpenList'
    BY Zenon, <1>2 DEF HeldInv, OneOpenList
  <2> QED  BY <2>1, <2>2
<1>11. MergeInv'
  BY Zenon, <1>1, <1>2, <1>8 DEF MergeInv
<1>12. MapInv'
  BY Zenon, <1>2 DEF MapInv, InGetOrCreate
<1>13. OpenInv'
  <2> SUFFICES ASSUME NEW q \in Ptrs \ pool, Open(q)
               PROVE  \/ lhmap[lists[q].key] = q
                      \/ /\ periodic = "evict" /\ lhmap[lists[q].key] = Nil
                         /\ q \in workChan'
                              \/ \E z \in Workers :
                                      committer'[z].l = q /\ committer'[z].pc = "delete"
    BY Zenon, <1>2 DEF OpenInv, Open
  <2>1. \/ lhmap[lists[q].key] = q
        \/ /\ periodic = "evict" /\ lhmap[lists[q].key] = Nil
           /\ q \in workChan \/ \E z \in Workers : committer[z].l = q /\ committer[z].pc = "delete"
    BY Zenon DEF OpenInv
  <2> QED  BY Zenon, <1>1, <1>2, <1>8, <2>1
<1> QED  BY <1>7, <1>9, <1>10, <1>11, <1>12, <1>13 DEF Inv

\* The list is marked, and takes no more mutations.
LEMMA Step_SetForDeletion ==
  ASSUME Inv, NEW w \in Workers, SetForDeletion(w)
  PROVE  Inv'
<1>0. TypeOK /\ RefInv /\ CallInv /\ MergeInv /\ MapInv /\ HeldInv /\ OpenInv /\ OneOpenList
  BY DEF Inv
<1> USE <1>0
<1>1. /\ committer' = [committer EXCEPT ![w].pc = "check"] /\ committer[w].pc = "delete"
      /\ lists' = [lists EXCEPT ![committer[w].l].deleteMe = TRUE]
      /\ UNCHANGED <<store, pool, lhmap, client, dirtyChan, dirtyMap, periodic, workChan, acked>>
  BY DEF SetForDeletion
<1>2. PICK p \in Ptrs : p = committer[w].l
  BY <1>1 DEF MergeInv
<1>3. w \in Committers /\ w \notin Mergers
  BY CacheAssumption DEF Committers
<1>4. /\ committer' \in [Committers -> Merge]
      /\ committer'[w].pc = "check" /\ committer'[w].l = p
      /\ \A y \in Committers \ {w} : committer'[y] = committer[y]
  BY Zenon, <1>1, <1>2, <1>3, MergeMoves
<1> DEFINE y == [lists[p] EXCEPT !.deleteMe = TRUE]
<1>5. lists \in [Ptrs -> List] /\ lists[p] \in List
  BY DEF TypeOK
<1>6. y \in List /\ y.key = lists[p].key /\ y.ready = lists[p].ready
      /\ y.deleteMe /\ y.refcount = lists[p].refcount
  BY Zenon, <1>5 DEF List
<1>7. lists' = [lists EXCEPT ![p] = y]
  BY <1>1, <1>2
<1> HIDE DEF y
<1>8. /\ lists' \in [Ptrs -> List]
      /\ \A q \in Ptrs : /\ lists'[q].key = lists[q].key /\ lists'[q].ready = lists[q].ready
                         /\ lists'[q].refcount = lists[q].refcount
                         /\ q # p => lists'[q].deleteMe = lists[q].deleteMe
      /\ lists'[p].deleteMe
  BY <1>5, <1>6, <1>7
<1>9. TypeOK'
  BY <1>1, <1>4, <1>8 DEF TypeOK
<1>10. \A z \in Workers : /\ committer'[z].l = committer[z].l
                          /\ z # w => committer'[z] = committer[z]
  BY <1>2, <1>4 DEF Committers
<1>11. RefInv'
  <2>1. \A q \in Ptrs : References(q)' = References(q)
    BY Zenon, <1>1, <1>10, SameRefs
  <2> QED  BY <1>1, <1>8, <2>1 DEF RefInv
<1>12. CallInv'
  <2> SUFFICES ASSUME NEW c \in Clients PROVE CallOK(c)'
    BY DEF CallInv
  <2>1. CallOK(c)
    BY DEF CallInv
  <2> QED  BY <1>1, <1>8, <2>1 DEF CallOK, Holding
<1>13. MergeInv'
  BY Zenon, <1>1, <1>2, <1>3, <1>4, <1>10 DEF MergeInv, Committers
<1>14. MapInv'
  BY <1>1, <1>8, MapKept
<1>15. HeldInv'
  BY <1>1, <1>8, HeldKept
<1>16. OneOpenList'
  BY <1>1, <1>8 DEF OneOpenList
<1>17. OpenInv'
  BY <1>1, <1>2, <1>8, <1>10 DEF OpenInv, Open
<1> QED  BY <1>9, <1>11, <1>12, <1>13, <1>14, <1>15, <1>16, <1>17 DEF Inv

\* The worker's decr.
LEMMA Step_WorkDone ==
  ASSUME Inv, NEW w \in Workers, WorkDone(w)
  PROVE  Inv'
<1>0. TypeOK /\ RefInv /\ CallInv /\ MergeInv /\ MapInv /\ HeldInv /\ OpenInv /\ OneOpenList
  BY DEF Inv
<1> USE <1>0
<1>1. /\ committer' = [committer EXCEPT ![w] = IdleCommitter] /\ committer[w].pc = "done"
      /\ decr(committer[w].l)
      /\ UNCHANGED <<store, lhmap, client, dirtyChan, dirtyMap, periodic, workChan, acked>>
  BY DEF WorkDone
<1>2. PICK p \in Ptrs : p = committer[w].l
  BY <1>1 DEF MergeInv
<1>3. w \in Committers /\ w \notin Mergers
  BY CacheAssumption DEF Committers
<1>4. IdleCommitter \in Merge /\ IdleCommitter.pc = "idle" /\ IdleCommitter.l = Nil
  BY DEF Merge, IdleCommitter
<1>5. /\ committer' \in [Committers -> Merge] /\ committer'[w] = IdleCommitter
      /\ \A z \in Committers \ {w} : committer'[z] = committer[z]
  BY Zenon, <1>1, <1>3, <1>4, MergeSet
<1>6. /\ \A z \in Workers \ {w} : committer'[z] = committer[z]
      /\ \A g \in Mergers : committer'[g] = committer[g]
      /\ committer'[w].pc = "idle" /\ committer'[w].l = Nil
  BY Zenon, <1>3, <1>4, <1>5 DEF Committers
<1>7. w \in Merging(p) /\ p \notin pool /\ p # Nil
  BY <1>2, OwnersCount, CacheAssumption DEF Merging
<1>8. ASSUME NEW q \in Ptrs
      PROVE  References(q)' = References(q) - (IF q = p THEN 1 ELSE 0)
  <2>1. InMap(q)' = InMap(q) /\ Users(q)' = Users(q) /\ Makers(q)' = Makers(q)
        /\ Queued(q)' = Queued(q)
    BY <1>1 DEF InMap, Users, Using, Makers, Queued
  <2>2. q # Nil
    BY CacheAssumption
  <2>3. CASE q # p
    <3>1. Merging(q)' = Merging(q)
      BY Zenon, <1>2, <1>6, <2>2, <2>3 DEF Merging
    <3> QED  BY <2>1, <2>3, <3>1, Sum, SumNext
  <2>4. CASE q = p
    <3>1. Merging(q)' = Merging(q) \ {w} /\ w \in Merging(q)
      BY <1>6, <1>7, <2>2, <2>4 DEF Merging
    <3>2. Cardinality(Merging(q)') = Cardinality(Merging(q)) - 1
      BY Zenon, <3>1, Finite, FS_RemoveElement
    <3> QED  BY <2>1, <2>4, <3>2, Sum, SumNext
  <2> QED  BY <2>3, <2>4
<1>9. /\ References(p)' = References(p) - 1
      /\ \A q \in Ptrs \ {p} : References(q)' = References(q)
  <2>1. \A q \in Ptrs : References(q) \in Nat
    BY Zenon, Sum
  <2> QED  BY <1>8, <2>1
<1>10. /\ RefInv' /\ Counts(p, lists[p].refcount - 1)
       /\ pool' \subseteq Ptrs /\ pool \subseteq pool' /\ pool' \subseteq pool \cup {p}
  BY <1>1, <1>2, <1>7, <1>9, DecrKeeps
<1>11. TypeOK'
  BY <1>1, <1>5, <1>10 DEF TypeOK, Counts
<1>12. \A q \in Ptrs : /\ lists'[q].key = lists[q].key /\ lists'[q].ready = lists[q].ready
                       /\ lists'[q].deleteMe = lists[q].deleteMe
  BY Zenon, <1>10 DEF Counts
<1>13. CallInv'
  <2> SUFFICES ASSUME NEW q \in Clients PROVE CallOK(q)'
    BY DEF CallInv
  <2>1. CallOK(q)
    BY DEF CallInv
  <2>2. client[q].pc = "put" => client[q].l # p
    <3> SUFFICES ASSUME client[q].pc = "put", client[q].l = p PROVE FALSE
      OBVIOUS
    <3>1. q \in Makers(p) /\ lists[p].refcount = 1
      BY Zenon, <2>1 DEF Makers, CallOK
    <3>2. References(p) = 1
      BY Zenon, <1>7, <3>1 DEF RefInv
    <3>3. Merging(p) = {}
      BY <3>1, <3>2, Counted
    <3> QED  BY <1>7, <3>3
  <2>3. client[q].pc = "put" => /\ lists'[client[q].l] = lists[client[q].l]
                                /\ client[q].l \notin pool'
    BY <1>10, <2>1, <2>2 DEF CallOK, Counts
  <2> QED  BY Zenon, <1>1, <1>12, <2>1, <2>3 DEF CallOK, Holding
<1>14. MergeInv'
  BY <1>1, <1>6 DEF MergeInv
<1>15. MapInv'
  BY Zenon, <1>1, <1>12, MapKept
<1>16. HeldInv'
  BY <1>1, <1>12, HeldKept
<1>17. \A z \in Workers : committer[z].pc = "delete" => committer'[z] = committer[z]
  BY <1>1, <1>6
<1>18. OpenInv' /\ OneOpenList'
  BY Zenon, <1>1, <1>10, <1>12, <1>17, OpenKept
<1> QED  BY <1>10, <1>11, <1>13, <1>14, <1>15, <1>16, <1>18 DEF Inv

-----------------------------------------------------------------------------
(* The invariant *)

\* The empty cache: every object is in the pool.
LEMMA InitInv == Init => Inv
<1> SUFFICES ASSUME Init PROVE Inv
  OBVIOUS
<1> USE DEF Init
<1>1. TypeOK
  <2>1. IdleClient \in Call /\ IdleCommitter \in Merge
    BY DEF IdleClient, IdleCommitter, Call, Merge
  <2>2. [NewList EXCEPT !.refcount = 0] \in List
    BY Zenon DEF NewList, List
  <2>3. dirtyChan \in Seq(Keys) /\ Len(dirtyChan) <= DirtyCap
    BY CacheAssumption
  <2> HIDE DEF Init
  <2>4. /\ store \in [Keys -> SUBSET Mutations] /\ acked \in [Keys -> SUBSET Mutations]
        /\ lhmap \in [Keys -> Ptrs \cup {Nil}] /\ pool \subseteq Ptrs /\ workChan \subseteq Ptrs
        /\ dirtyMap \subseteq Keys /\ periodic \in {"select", "stop", "flush", "evict"}
    BY DEF Init
  <2>5. lists \in [Ptrs -> List]
    BY <2>2 DEF Init
  <2>6. client \in [Clients -> Call] /\ committer \in [Committers -> Merge]
    BY <2>1 DEF Init
  <2> QED  BY <2>3, <2>4, <2>5, <2>6 DEF TypeOK
<1>2. \A c \in Clients : client[c].pc = "idle" /\ client[c].lp = Nil /\ client[c].l = Nil
  BY DEF IdleClient
<1>3. \A x \in Committers : committer[x].pc = "idle" /\ committer[x].l = Nil
  BY DEF IdleCommitter
<1>4. \A p \in Ptrs : ~lists[p].ready /\ p # Nil
  BY CacheAssumption DEF NewList
<1>5. pool = Ptrs /\ workChan = {} /\ periodic = "select" /\ \A k \in Keys : lhmap[k] = Nil
  OBVIOUS
<1> HIDE DEF Init
<1>6. RefInv
  <2> SUFFICES ASSUME NEW p \in Ptrs PROVE References(p) = 0
    BY <1>5 DEF RefInv
  <2>1. InMap(p) = {} /\ Merging(p) = {} /\ Users(p) = {} /\ Makers(p) = {} /\ Queued(p) = 0
    BY <1>2, <1>3, <1>4, <1>5 DEF
       InMap, Merging, Users, Using, Makers, Queued, Committers
  <2>2. Cardinality({}) = 0
    BY Zenon, FS_EmptySet
  <2> QED  BY <2>1, <2>2, Sum
<1>7. CallInv /\ HeldInv
  BY <1>2 DEF CallInv, CallOK, HeldInv, Holding
<1>8. MergeInv
  BY Zenon, <1>3, <1>5 DEF MergeInv, Committers
<1>9. MapInv /\ OpenInv /\ OneOpenList
  BY <1>4, <1>5 DEF MapInv, OpenInv, OneOpenList
<1> QED  BY <1>1, <1>6, <1>7, <1>8, <1>9 DEF Inv

\* Nothing of the invariant is about anything else than the variables.
LEMMA StutterInv ==
  ASSUME Inv, UNCHANGED vars
  PROVE  Inv'
<1> USE DEF vars
<1>0. TypeOK /\ RefInv /\ CallInv /\ MergeInv /\ MapInv /\ HeldInv /\ OpenInv /\ OneOpenList
  BY DEF Inv
<1>1. TypeOK' /\ MergeInv' /\ Keep(Ptrs)
  BY <1>0 DEF TypeOK, MergeInv, Keep
<1> QED  BY Zenon, <1>0, <1>1, MergesOnly DEF MapInv

\* Every step of a call, of a merge and of the eviction keeps it.
LEMMA StepInv == Inv /\ [Next]_vars => Inv'
<1> SUFFICES ASSUME Inv, [Next]_vars PROVE Inv'
  OBVIOUS
<1>1. ASSUME NEW c \in Clients, GetOrCreate(c) \/ AddMutation(c) \/ ClientStep(c)
      PROVE  Inv'
  BY Zenon, <1>1, Step_GetOrCreate, Step_AddMutation, Step_GetFound, Step_getNew, Step_PutNew,
     Step_TakeReference, Step_InitOrUndo, Step_AddMutationUpdate, Step_SendDirty,
     Step_Release DEF ClientStep
<1>2. CASE ReceiveDirty \/ gentleMerge \/ StopTheWorld
  BY <1>2, Step_ReceiveDirty, Step_gentleMerge, Step_StopTheWorld
<1>3. CASE EvictStep
  BY <1>3, Step_WorldLocked, Step_FlushDirtyChan, Step_EachWithDelete, Step_EvictDone
     DEF EvictStep
<1>4. ASSUME NEW g \in Mergers, NextKey(g)
      PROVE  Inv'
  BY <1>4, Step_NextKey
<1>5. ASSUME NEW x \in Committers, CommitterStep(x)
      PROVE  Inv'
  BY <1>5, Step_CommitIfDirty, Step_CommitLock, Step_Commit DEF CommitterStep
<1>6. ASSUME NEW w \in Workers, WorkerStep(w)
      PROVE  Inv'
  BY <1>6, Step_TakeWork, Step_SetForDeletion, Step_WorkDone DEF WorkerStep
<1>7. CASE UNCHANGED vars
  BY <1>7, StutterInv
<1> QED  BY <1>1, <1>2, <1>3, <1>4, <1>5, <1>6, <1>7 DEF Next

\* The invariant holds in every state.
LEMMA SpecInv == Spec => []Inv
BY InitInv, StepInv, PTL DEF Spec

\* posting/lists.go, incr, decr, getNew and the map: whatever calls, merges and
\* evictions do, the count of a list is the number of those who have it.  decr
\* never takes it below zero, and a list is in the pool exactly when nobody has it.
THEOREM CountsAreExact == Spec => []RefCountsExact
<1>1. Inv => RefCountsExact
  BY DEF Inv, RefInv, RefCountsExact
<1> QED  BY <1>1, SpecInv, PTL

\* GetOrCreate: the list that it has returned is not pooled, and not initialized
\* for another key, before the caller's decr.
THEOREM HeldListsAreKept == Spec => []HeldListsStay
<1>1. Inv => HeldListsStay
  <2> SUFFICES ASSUME Inv, NEW c \in Clients, client[c].pc \in Holding
               PROVE  /\ client[c].lp \notin pool
                      /\ lists[client[c].lp].ready => lists[client[c].lp].key = client[c].key
    BY DEF HeldListsStay, Holding
  <2>1. TypeOK /\ RefInv /\ CallInv /\ HeldInv
    BY DEF Inv
  <2>2. client[c].lp \notin pool
    BY <2>1, HolderCounts
  <2> QED  BY <2>1, <2>2 DEF HeldInv
<1> QED  BY <1>1, SpecInv, PTL

\* PutIfMissing, EachWithDelete and SetForDeletion: a key has never two lists that
\* accept mutations, not even while an eviction is merging the old ones.
THEOREM ListsOfAKey == Spec => []OneOpenList
<1>1. Inv => OneOpenList
  BY DEF Inv
<1> QED  BY <1>1, SpecInv, PTL
=============================================================================
