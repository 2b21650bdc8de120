------------------------- MODULE ListCacheCallProofs -------------------------
(***************************************************************************)
(* Proofs about ListCache: the invariant that relates the references, the  *)
(* map, the calls and the merges, what the steps of a call do to the lists *)
(* and that these steps keep the invariant.  ListCacheProofs goes on with  *)
(* the merges and the eviction and has the theorems.                       *)
(***************************************************************************)
EXTENDS ListCache, FiniteSetTheorems, TLAPS

Getting == {"get", "put", "incr", "init"}
Holding == {"have", "lock", "send", "release"}

(* Who the references of References are held by. *)
InMap(p) == {k \in Keys : lhmap[k] = p}
Queued(p) == IF p \in workChan THEN 1 ELSE 0
Merging(p) == {w \in Workers : committer[w].l = p}
Users(p) == {c \in Using : client[c].lp = p}
Makers(p) == {c \in Clients :
               client[c].l = p /\ (client[c].pc = "put" \/ client[c].lp \notin {Nil, p})}

RefInv ==
  \A p \in Ptrs : IF p \in pool THEN References(p) = 0
                  ELSE lists[p].refcount = References(p) /\ References(p) > 0

(* What a call has in hand at each of its steps.  The list that it has made is
   its alone until it is put in the map. *)
CallOK(c) ==
  LET x == client[c]
  IN  /\ x.pc \in {"idle", "get"} => x.lp = Nil /\ x.l = Nil
      /\ x.pc # "idle" => x.key \in Keys
      /\ x.pc = "put" => /\ x.lp = Nil /\ x.l \in Ptrs \ pool
                         /\ lists[x.l].refcount = 1 /\ ~lists[x.l].ready
      /\ x.pc \in {"incr", "init"} => x.lp \in Ptrs /\ lhmap[x.key] = x.lp
      /\ x.pc = "init" => x.l \in Ptrs
      /\ x.pc \in Holding => x.l = Nil /\ x.lp \in Ptrs
      /\ x.pc \in {"lock", "send"} => x.mut \in Mutations /\ lists[x.lp].ready

CallInv == \A c \in Clients : CallOK(c)

(* A worker has a list from TakeWork to WorkDone, a gentle merge one that it
   has found in the map.  What MergeLists has to merge has left the map. *)
MergeInv ==
  /\ \A k \in Keys : lhmap[k] \notin workChan
  /\ \A w \in Workers :
       /\ committer[w].pc # "next"
       /\ IF committer[w].pc = "idle" THEN committer[w].l = Nil ELSE committer[w].l \in Ptrs
  /\ \A g \in Mergers :
       /\ committer[g].pc \notin {"delete", "done"}
       /\ committer[g].pc \in {"check", "commit", "locked"} => committer[g].l \in Ptrs

(* A list in the map is that of its key, or a call is about to initialize it.
   Nobody is in GetOrCreate once the world is stopped. *)
MapInv ==
  /\ \A j, k \in Keys : lhmap[j] = lhmap[k] /\ lhmap[k] # Nil => j = k
  /\ \A k \in Keys : lhmap[k] # Nil =>
       IF lists[lhmap[k]].ready THEN lists[lhmap[k]].key = k
       ELSE \E c \in Clients : /\ client[c].pc \in {"incr", "init"}
                               /\ client[c].l = lhmap[k] /\ client[c].lp = lhmap[k]
  /\ \A p \in Ptrs : lists[p].ready => lists[p].key \in Keys
  /\ periodic \in {"flush", "evict"} => InGetOrCreate = {}

HeldInv ==
  \A c \in Clients : client[c].pc \in Holding =>
    IF lists[client[c].lp].ready THEN lists[client[c].lp].key = client[c].key
    ELSE lhmap[client[c].key] = client[c].lp

Open(p) == lists[p].ready /\ ~lists[p].deleteMe

(* A list that takes mutations is in the map, or an eviction is about to mark it. *)
OpenInv ==
  \A p \in Ptrs \ pool : Open(p) =>
    \/ lhmap[lists[p].key] = p
    \/ /\ periodic = "evict" /\ lhmap[lists[p].key] = Nil
       /\ p \in workChan \/ \E w \in Workers : committer[w].l = p /\ committer[w].pc = "delete"

Inv ==
  TypeOK /\ RefInv /\ CallInv /\ MergeInv /\ MapInv /\ HeldInv /\ OpenInv /\ OneOpenList

-----------------------------------------------------------------------------
(* What the actions do to the calls and to the lists. *)

\* Client c has gone to pc, with this key, these lists and this mutation in hand.
Moves(c, pc, k, lp, l, m) ==
  /\ client' \in [Clients -> Call]
  /\ \A q \in Clients \ {c} : client'[q] = client[q]
  /\ client'[c].pc = pc /\ client'[c].key = k /\ client'[c].lp = lp /\ client'[c].l = l
  /\ client'[c].mut = m

\* The lists in S are the same for everybody but those who merge them.
Keep(S) ==
  \A p \in S : /\ lists'[p].key = lists[p].key
               /\ lists'[p].ready = lists[p].ready
               /\ lists'[p].deleteMe = lists[p].deleteMe
               /\ lists'[p].refcount = lists[p].refcount

\* List p has n references now, and nothing else of it has changed.
Counts(p, n) ==
  /\ lists' \in [Ptrs -> List]
  /\ \A q \in Ptrs \ {p} : lists'[q] = lists[q]
  /\ lists'[p] = [lists[p] EXCEPT !.refcount = n]
  /\ lists'[p].refcount = n
  /\ lists'[p].key = lists[p].key
  /\ lists'[p].ready = lists[p].ready
  /\ lists'[p].deleteMe = lists[p].deleteMe

\* A step that replaces the record of one call.
LEMMA PutCall ==
  ASSUME client \in [Clients -> Call], NEW c \in Clients, NEW x \in Call,
         client' = [client EXCEPT ![c] = x]
  PROVE  Moves(c, x.pc, x.key, x.lp, x.l, x.mut)
BY DEF Moves

\* A step that replaces one list.
LEMMA PutList ==
  ASSUME lists \in [Ptrs -> List], NEW p \in Ptrs, NEW y \in List,
         lists' = [lists EXCEPT ![p] = y]
  PROVE  /\ lists' \in [Ptrs -> List] /\ lists'[p] = y
         /\ \A q \in Ptrs \ {p} : lists'[q] = lists[q]
OBVIOUS

\* GetOrCreate starts with the key that it was called with.
LEMMA Moves_GetOrCreate ==
  ASSUME TypeOK, CallInv, NEW c \in Clients, GetOrCreate(c)
  PROVE  \E k \in Keys : Moves(c, "get", k, client[c].lp, client[c].l, client[c].mut)
<1>1. PICK k \in Keys : client' = [client EXCEPT ![c].pc = "get", ![c].key = k]
  BY Zenon DEF GetOrCreate
<1> DEFINE x == [client[c] EXCEPT !.pc = "get", !.key = k]
<1>2. client \in [Clients -> Call] /\ client[c] \in Call
  BY DEF TypeOK
<1>3. x \in Call
  BY Zenon, <1>2 DEF Call
<1>4. client' = [client EXCEPT ![c] = x]
  BY Zenon, <1>1, <1>2
<1>5. x.pc = "get" /\ x.key = k /\ x.lp = client[c].lp /\ x.l = client[c].l /\ x.mut = client[c].mut
  BY <1>2 DEF Call
<1> HIDE DEF x
<1>6. Moves(c, "get", k, client[c].lp, client[c].l, client[c].mut)
  BY Zenon, <1>2, <1>3, <1>4, <1>5, PutCall
<1> QED  BY <1>6

\* It has found a list.
LEMMA Moves_GetFound ==
  ASSUME TypeOK, CallInv, NEW c \in Clients, GetFound(c)
  PROVE  Moves(c, "incr", client[c].key, lhmap[client[c].key], client[c].l, client[c].mut)
<1>1. /\ client' = [client EXCEPT ![c].pc = "incr", ![c].lp = lhmap[client[c].key]]
      /\ lhmap[client[c].key] \in Ptrs
  BY DEF GetFound, TypeOK, CallInv, CallOK
<1> DEFINE x == [client[c] EXCEPT !.pc = "incr", !.lp = lhmap[client[c].key]]
<1>2. client \in [Clients -> Call] /\ client[c] \in Call
  BY DEF TypeOK
<1>3. x \in Call
  BY Zenon, <1>2, <1>1 DEF Call
<1>4. client' = [client EXCEPT ![c] = x]
  BY Zenon, <1>1, <1>2
<1>5. /\ x.pc = "incr" /\ x.key = client[c].key
      /\ x.lp = lhmap[client[c].key] /\ x.l = client[c].l /\ x.mut = client[c].mut
  BY <1>2 DEF Call
<1> HIDE DEF x
<1>6. Moves(c, "incr", client[c].key, lhmap[client[c].key], client[c].l, client[c].mut)
  BY Zenon, <1>2, <1>3, <1>4, <1>5, PutCall
<1> QED  BY <1>6

\* It has made one.
LEMMA Moves_getNew ==
  ASSUME TypeOK, CallInv, NEW c \in Clients, getNew(c)
  PROVE  \E p \in pool : /\ pool' = pool \ {p} /\ lists' = [lists EXCEPT ![p] = NewList]
                           /\ Moves(c, "put", client[c].key, client[c].lp, p, client[c].mut)
<1>1. PICK p \in pool : /\ pool' = pool \ {p}
                       /\ lists' = [lists EXCEPT ![p] = NewList]
                       /\ client' = [client EXCEPT ![c].pc = "put", ![c].l = p]
  BY Zenon DEF getNew
<1>0. p \in Ptrs
  BY DEF TypeOK
<1> DEFINE x == [client[c] EXCEPT !.pc = "put", !.l = p]
<1>2. client \in [Clients -> Call] /\ client[c] \in Call
  BY DEF TypeOK
<1>3. x \in Call
  BY Zenon, <1>2, <1>0 DEF Call
<1>4. client' = [client EXCEPT ![c] = x]
  BY Zenon, <1>1, <1>2
<1>5. /\ x.pc = "put" /\ x.key = client[c].key
      /\ x.lp = client[c].lp /\ x.l = p /\ x.mut = client[c].mut
  BY <1>2 DEF Call
<1> HIDE DEF x
<1>6. Moves(c, "put", client[c].key, client[c].lp, p, client[c].mut)
  BY Zenon, <1>2, <1>3, <1>4, <1>5, PutCall
<1> QED  BY Zenon, <1>1, <1>6

\* It has put it in the map, or found that another call has.
LEMMA Moves_PutNew ==
  ASSUME TypeOK, CallInv, NEW c \in Clients, PutNew(c)
  PROVE  Moves(c, "incr", client[c].key, PutIfMissing(client[c].key, client[c].l),
               client[c].l, client[c].mut)
<1>1. LET lp == PutIfMissing(client[c].key, client[c].l)
      IN  lp \in Ptrs /\ client' = [client EXCEPT ![c].pc = "incr", ![c].lp = lp]
  BY DEF PutNew, PutIfMissing, TypeOK, CallInv, CallOK
<1> DEFINE x == [client[c] EXCEPT !.pc = "incr", !.lp = PutIfMissing(client[c].key, client[c].l)]
<1>2. client \in [Clients -> Call] /\ client[c] \in Call
  BY DEF TypeOK
<1>3. x \in Call
  BY Zenon, <1>2, <1>1 DEF Call
<1>4. client' = [client EXCEPT ![c] = x]
  BY Zenon, <1>1, <1>2
<1>5. /\ x.pc = "incr" /\ x.key = client[c].key
      /\ x.lp = PutIfMissing(client[c].key, client[c].l)
      /\ x.l = client[c].l /\ x.mut = client[c].mut
  BY <1>2 DEF Call
<1> HIDE DEF x
<1>6. Moves(c, "incr", client[c].key, PutIfMissing(client[c].key, client[c].l),
               client[c].l, client[c].mut)
  BY Zenon, <1>2, <1>3, <1>4, <1>5, PutCall
<1> QED  BY <1>6

\* It has counted its reference.
LEMMA Moves_TakeReference ==
  ASSUME TypeOK, CallInv, NEW c \in Clients, TakeReference(c)
  PROVE  Moves(c, (IF client[c].l = Nil THEN "have" ELSE "init"), client[c].key,
               client[c].lp, client[c].l, client[c].mut)
<1>1. client' = [client EXCEPT ![c].pc = IF client[c].l = Nil THEN "have" ELSE "init"]
  BY DEF TakeReference
<1> DEFINE x == [client[c] EXCEPT !.pc = (IF client[c].l = Nil THEN "have" ELSE "init")]
<1>2. client \in [Clients -> Call] /\ client[c] \in Call
  BY DEF TypeOK
<1>3. x \in Call
  BY <1>2 DEF Call
<1>4. client' = [client EXCEPT ![c] = x]
  BY <1>1, <1>2
<1>5. x.pc = (IF client[c].l = Nil THEN "have" ELSE "init") /\ x.key = client[c].key
      /\ x.lp = client[c].lp /\ x.l = client[c].l /\ x.mut = client[c].mut
  BY <1>2 DEF Call
<1> HIDE DEF x
<1>6. Moves(c, (IF client[c].l = Nil THEN "have" ELSE "init"), client[c].key,
               client[c].lp, client[c].l, client[c].mut)
  BY Zenon, <1>2, <1>3, <1>4, <1>5, PutCall
<1> QED  BY <1>6

\* It has initialized the list that it made, or given it back.
LEMMA Moves_InitOrUndo ==
  ASSUME TypeOK, CallInv, NEW c \in Clients, InitOrUndo(c)
  PROVE  Moves(c, "have", client[c].key, client[c].lp, Nil, client[c].mut)
<1>1. client' = [client EXCEPT ![c].pc = "have", ![c].l = Nil]
  BY DEF InitOrUndo
<1> DEFINE x == [client[c] EXCEPT !.pc = "have", !.l = Nil]
<1>2. client \in [Clients -> Call] /\ client[c] \in Call
  BY DEF TypeOK
<1>3. x \in Call
  BY Zenon, <1>2 DEF Call
<1>4. client' = [client EXCEPT ![c] = x]
  BY Zenon, <1>1, <1>2
<1>5. /\ x.pc = "have" /\ x.key = client[c].key
      /\ x.lp = client[c].lp /\ x.l = Nil /\ x.mut = client[c].mut
  BY <1>2 DEF Call
<1> HIDE DEF x
<1>6. Moves(c, "have", client[c].key, client[c].lp, Nil, client[c].mut)
  BY Zenon, <1>2, <1>3, <1>4, <1>5, PutCall
<1> QED  BY <1>6

\* AddMutation has changed the layers.
LEMMA Moves_Update ==
  ASSUME TypeOK, CallInv, NEW c \in Clients, AddMutationUpdate(c)
  PROVE  Moves(c, "send", client[c].key, client[c].lp, client[c].l, client[c].mut)
<1>1. client' = [client EXCEPT ![c].pc = "send"]
  BY DEF AddMutationUpdate
<1> DEFINE x == [client[c] EXCEPT !.pc = "send"]
<1>2. client \in [Clients -> Call] /\ client[c] \in Call
  BY DEF TypeOK
<1>3. x \in Call
  BY <1>2 DEF Call
<1>4. client' = [client EXCEPT ![c] = x]
  BY <1>1, <1>2
<1>5. /\ x.pc = "send" /\ x.key = client[c].key
      /\ x.lp = client[c].lp /\ x.l = client[c].l /\ x.mut = client[c].mut
  BY <1>2 DEF Call
<1> HIDE DEF x
<1>6. Moves(c, "send", client[c].key, client[c].lp, client[c].l, client[c].mut)
  BY Zenon, <1>2, <1>3, <1>4, <1>5, PutCall
<1> QED  BY <1>6

\* It has sent the key.
LEMMA Moves_SendDirty ==
  ASSUME TypeOK, CallInv, NEW c \in Clients, SendDirty(c)
  PROVE  Moves(c, "release", client[c].key, client[c].lp, client[c].l, Nil)
<1>1. client' = [client EXCEPT ![c].pc = "release", ![c].mut = Nil]
  BY DEF SendDirty
<1> DEFINE x == [client[c] EXCEPT !.pc = "release", !.mut = Nil]
<1>2. client \in [Clients -> Call] /\ client[c] \in Call
  BY DEF TypeOK
<1>3. x \in Call
  BY Zenon, <1>2 DEF Call
<1>4. client' = [client EXCEPT ![c] = x]
  BY Zenon, <1>1, <1>2
<1>5. /\ x.pc = "release" /\ x.key = client[c].key
      /\ x.lp = client[c].lp /\ x.l = client[c].l /\ x.mut = Nil
  BY <1>2 DEF Call
<1> HIDE DEF x
<1>6. Moves(c, "release", client[c].key, client[c].lp, client[c].l, Nil)
  BY Zenon, <1>2, <1>3, <1>4, <1>5, PutCall
<1> QED  BY <1>6

\* It has found the list marked.
LEMMA Moves_Retry ==
  ASSUME TypeOK, CallInv, NEW c \in Clients, AddMutation(c), lists[client[c].lp].deleteMe
  PROVE  Moves(c, "release", client[c].key, client[c].lp, client[c].l, client[c].mut)
<1>1. client' = [client EXCEPT ![c].pc = "release"]
  BY DEF AddMutation
<1> DEFINE x == [client[c] EXCEPT !.pc = "release"]
<1>2. client \in [Clients -> Call] /\ client[c] \in Call
  BY DEF TypeOK
<1>3. x \in Call
  BY <1>2 DEF Call
<1>4. client' = [client EXCEPT ![c] = x]
  BY <1>1, <1>2
<1>5. /\ x.pc = "release" /\ x.key = client[c].key
      /\ x.lp = client[c].lp /\ x.l = client[c].l /\ x.mut = client[c].mut
  BY <1>2 DEF Call
<1> HIDE DEF x
<1>6. Moves(c, "release", client[c].key, client[c].lp, client[c].l, client[c].mut)
  BY Zenon, <1>2, <1>3, <1>4, <1>5, PutCall
<1> QED  BY <1>6

\* It goes on with a new mutation.
LEMMA Moves_Start ==
  ASSUME TypeOK, CallInv, NEW c \in Clients, AddMutation(c), ~lists[client[c].lp].deleteMe
  PROVE  \E m \in Mutations : Moves(c, "lock", client[c].key, client[c].lp, client[c].l, m)
<1>1. PICK m \in Mutations : client' = [client EXCEPT ![c].pc = "lock", ![c].mut = m]
  BY DEF AddMutation, Fresh
<1> DEFINE x == [client[c] EXCEPT !.pc = "lock", !.mut = m]
<1>2. client \in [Clients -> Call] /\ client[c] \in Call
  BY DEF TypeOK
<1>3. x \in Call
  BY Zenon, <1>2 DEF Call
<1>4. client' = [client EXCEPT ![c] = x]
  BY Zenon, <1>1, <1>2
<1>5. /\ x.pc = "lock" /\ x.key = client[c].key
      /\ x.lp = client[c].lp /\ x.l = client[c].l /\ x.mut = m
  BY <1>2 DEF Call
<1> HIDE DEF x
<1>6. Moves(c, "lock", client[c].key, client[c].lp, client[c].l, m)
  BY Zenon, <1>2, <1>3, <1>4, <1>5, PutCall
<1> QED  BY <1>6

\* The caller has dropped its reference.
LEMMA Moves_Release ==
  ASSUME TypeOK, NEW c \in Clients, Release(c)
  PROVE  Moves(c, "idle", Nil, Nil, Nil, Nil)
BY DEF Moves, Release, TypeOK, Call, IdleClient

\* A reference more or less.
LEMMA CountsChange ==
  ASSUME lists \in [Ptrs -> List], NEW p \in Ptrs, NEW n \in Nat,
         lists' = [lists EXCEPT ![p].refcount = n]
  PROVE  Counts(p, n)
<1> DEFINE y == [lists[p] EXCEPT !.refcount = n]
<1>1. lists[p] \in List
  OBVIOUS
<1>2. y \in List
  BY <1>1 DEF List
<1>3. lists' = [lists EXCEPT ![p] = y]
  OBVIOUS
<1>4. /\ y.refcount = n /\ y.key = lists[p].key
      /\ y.ready = lists[p].ready /\ y.deleteMe = lists[p].deleteMe
  BY <1>1 DEF List
<1>5. y = [lists[p] EXCEPT !.refcount = n]
  OBVIOUS
<1> HIDE DEF y
<1> QED  BY <1>2, <1>3, <1>4, <1>5, PutList DEF Counts

\* init of a list.
LEMMA InitChange ==
  ASSUME lists \in [Ptrs -> List], NEW p \in Ptrs, NEW k \in Keys, init(p, k)
  PROVE  /\ lists' \in [Ptrs -> List]
         /\ \A q \in Ptrs \ {p} : lists'[q] = lists[q]
         /\ lists'[p].key = k /\ lists'[p].ready
         /\ lists'[p].refcount = lists[p].refcount
         /\ lists'[p].deleteMe = lists[p].deleteMe
         /\ lists'[p].mlayer = lists[p].mlayer /\ lists'[p].pbuffer = lists[p].pbuffer
         /\ lists'[p].lock = lists[p].lock /\ lists'[p].dirty = lists[p].dirty
<1> DEFINE y == [lists[p] EXCEPT !.key = k, !.ready = TRUE]
<1>1. lists[p] \in List
  OBVIOUS
<1>2. y \in List
  BY Zenon, <1>1 DEF List
<1>3. lists' = [lists EXCEPT ![p] = y]
  BY Zenon DEF init
<1>4. /\ y.key = k /\ y.ready /\ y.refcount = lists[p].refcount
      /\ y.deleteMe = lists[p].deleteMe
      /\ y.mlayer = lists[p].mlayer /\ y.pbuffer = lists[p].pbuffer /\ y.lock = lists[p].lock
      /\ y.dirty = lists[p].dirty
  BY <1>1 DEF List
<1> HIDE DEF y
<1> QED  BY <1>2, <1>3, <1>4, PutList

-----------------------------------------------------------------------------
(* Counting references *)

One(b) == IF b THEN 1 ELSE 0

\* Two sets that differ in one element at most.
LEMMA Differ ==
  ASSUME NEW A, NEW B, NEW x, IsFiniteSet(A), IsFiniteSet(B), A \ {x} = B \ {x}
  PROVE  /\ Cardinality(A) \in Nat /\ Cardinality(B) \in Nat
         /\ Cardinality(B) = Cardinality(A) - One(x \in A) + One(x \in B)
<1>1. Cardinality(A) \in Nat /\ Cardinality(B) \in Nat /\ Cardinality(A \ {x}) \in Nat
  BY FS_CardinalityType, FS_RemoveElement
<1>2. Cardinality(A \ {x}) = IF x \in A THEN Cardinality(A) - 1 ELSE Cardinality(A)
  BY FS_RemoveElement
<1>3. Cardinality(B \ {x}) = IF x \in B THEN Cardinality(B) - 1 ELSE Cardinality(B)
  BY FS_RemoveElement
<1> QED  BY <1>1, <1>2, <1>3 DEF One

\* There are finitely many references to a list.
LEMMA Finite ==
  ASSUME NEW p
  PROVE  /\ IsFiniteSet(InMap(p)) /\ IsFiniteSet(Merging(p))
         /\ IsFiniteSet(Users(p)) /\ IsFiniteSet(Makers(p))
<1>1. IsFiniteSet(Keys) /\ IsFiniteSet(Workers) /\ IsFiniteSet(Clients)
  BY CacheAssumption
<1>2. /\ InMap(p) \subseteq Keys /\ Merging(p) \subseteq Workers
      /\ Users(p) \subseteq Clients /\ Makers(p) \subseteq Clients
  BY DEF InMap, Merging, Users, Makers, Using
<1> QED  BY <1>1, <1>2, FS_Subset

\* The same after a step.
LEMMA FiniteNext ==
  ASSUME NEW p
  PROVE  /\ IsFiniteSet(InMap(p)') /\ IsFiniteSet(Merging(p)')
         /\ IsFiniteSet(Users(p)') /\ IsFiniteSet(Makers(p)')
<1>1. IsFiniteSet(Keys) /\ IsFiniteSet(Workers) /\ IsFiniteSet(Clients)
  BY CacheAssumption
<1>2. /\ InMap(p)' \subseteq Keys /\ Merging(p)' \subseteq Workers
      /\ Users(p)' \subseteq Clients /\ Makers(p)' \subseteq Clients
  BY DEF InMap, Merging, Users, Makers, Using
<1> QED  BY <1>1, <1>2, FS_Subset

\* References, holder by holder.
LEMMA Sum ==
  ASSUME NEW p
  PROVE  /\ References(p) = Cardinality(InMap(p)) + Queued(p) + Cardinality(Merging(p))
                              + Cardinality(Users(p)) + Cardinality(Makers(p))
         /\ Cardinality(InMap(p)) \in Nat /\ Queued(p) \in {0, 1}
         /\ Cardinality(Merging(p)) \in Nat
         /\ Cardinality(Users(p)) \in Nat /\ Cardinality(Makers(p)) \in Nat
         /\ References(p) \in Nat
<1>1. References(p) = Cardinality(InMap(p)) + Queued(p) + Cardinality(Merging(p))
                              + Cardinality(Users(p)) + Cardinality(Makers(p))
  BY DEF References, InMap, Queued, Merging, Users, Makers
<1>2. /\ Cardinality(InMap(p)) \in Nat /\ Cardinality(Merging(p)) \in Nat
      /\ Cardinality(Users(p)) \in Nat /\ Cardinality(Makers(p)) \in Nat
  BY Finite, FS_CardinalityType
<1>3. Queued(p) \in {0, 1}
  BY DEF Queued
<1> QED  BY <1>1, <1>2, <1>3

\* The same after a step.
LEMMA SumNext ==
  ASSUME NEW p
  PROVE  References(p)' = Cardinality(InMap(p)') + Queued(p)' + Cardinality(Merging(p)')
                              + Cardinality(Users(p)') + Cardinality(Makers(p)')
BY DEF References, InMap, Queued, Merging, Users, Makers

\* A reference is counted: where there is one the count is not 0, and where there
\* are two it is not 1.
LEMMA Counted ==
  ASSUME NEW p, References(p) \in {0, 1}
  PROVE  /\ \A c \in Makers(p) : /\ References(p) = 1 /\ InMap(p) = {} /\ Merging(p) = {}
                                  /\ Users(p) = {} /\ p \notin workChan /\ Makers(p) = {c}
         /\ References(p) = 0 => /\ InMap(p) = {} /\ Merging(p) = {} /\ Users(p) = {}
                                 /\ Makers(p) = {} /\ p \notin workChan
<1> DEFINE a == Cardinality(InMap(p))
           b == Cardinality(Merging(p))
           d == Cardinality(Users(p))
           e == Cardinality(Makers(p))
<1>1. a + Queued(p) + b + d + e \in {0, 1}
  BY Sum
<1>2. a \in Nat /\ b \in Nat /\ d \in Nat /\ e \in Nat /\ Queued(p) \in {0, 1}
  BY Sum
<1>3. References(p) = a + Queued(p) + b + d + e
  BY Sum
<1>4. /\ a = 0 <=> InMap(p) = {}
      /\ b = 0 <=> Merging(p) = {}
      /\ d = 0 <=> Users(p) = {}
      /\ e = 0 <=> Makers(p) = {}
  BY Finite, FS_EmptySet
<1>5. Queued(p) = 0 => p \notin workChan
  BY DEF Queued
<1>6. ASSUME NEW c \in Makers(p), e = 1
      PROVE  Makers(p) = {c}
  BY <1>6, Finite, FS_Singleton
<1> HIDE DEF a, b, d, e
<1>7. ASSUME NEW c \in Makers(p)
      PROVE  e = 1 /\ a = 0 /\ b = 0 /\ d = 0 /\ Queued(p) = 0
  <2>1. e # 0
    BY <1>4, <1>7
  <2> QED  BY <1>1, <1>2, <2>1
<1>8. ASSUME References(p) = 0
      PROVE  a = 0 /\ b = 0 /\ d = 0 /\ e = 0 /\ Queued(p) = 0
  <2>1. a + Queued(p) + b + d + e = 0
    BY <1>3, <1>8
  <2>2. Queued(p) \in Nat
    BY <1>2
  <2> QED  BY <1>2, <2>1, <2>2
<1>9. ASSUME NEW c \in Makers(p)
      PROVE  References(p) = 1
  BY <1>3, <1>7, <1>9
<1> QED  BY <1>4, <1>5, <1>6, <1>7, <1>8, <1>9

\* A step of one call.
LEMMA ClientRefs ==
  ASSUME NEW c \in Clients, \A q \in Clients \ {c} : client'[q] = client[q],
         UNCHANGED <<lhmap, committer, workChan>>, NEW p
  PROVE  References(p)' = References(p) - One(c \in Users(p)) - One(c \in Makers(p))
                            + One(c \in Users(p)') + One(c \in Makers(p)')
<1>1. InMap(p)' = InMap(p) /\ Queued(p)' = Queued(p) /\ Merging(p)' = Merging(p)
  BY DEF InMap, Queued, Merging
<1>2. Users(p)' \ {c} = Users(p) \ {c} /\ Makers(p)' \ {c} = Makers(p) \ {c}
  BY DEF Users, Makers, Using
<1>3. Cardinality(Users(p)') = Cardinality(Users(p)) - One(c \in Users(p)) + One(c \in Users(p)')
  BY <1>2, Differ, Finite, FiniteNext
<1>4. Cardinality(Makers(p)')
        = Cardinality(Makers(p)) - One(c \in Makers(p)) + One(c \in Makers(p)')
  BY <1>2, Differ, Finite, FiniteNext
<1>5. /\ Cardinality(InMap(p)) + Queued(p) + Cardinality(Merging(p)) \in Nat
      /\ Cardinality(Users(p)) \in Nat /\ Cardinality(Makers(p)) \in Nat
      /\ One(c \in Users(p)) \in Nat /\ One(c \in Makers(p)) \in Nat
      /\ One(c \in Users(p)') \in Nat /\ One(c \in Makers(p)') \in Nat
  BY Sum DEF One
<1>6. References(p)' = Cardinality(InMap(p)) + Queued(p) + Cardinality(Merging(p))
                         + Cardinality(Users(p)') + Cardinality(Makers(p)')
  BY <1>1, SumNext
<1>7. References(p) = Cardinality(InMap(p)) + Queued(p) + Cardinality(Merging(p))
                        + Cardinality(Users(p)) + Cardinality(Makers(p))
  BY Sum
<1> QED  BY <1>3, <1>4, <1>5, <1>6, <1>7

\* A step that moves no reference.
LEMMA SameRefs ==
  ASSUME UNCHANGED <<client, lhmap, workChan>>,
         \A w \in Workers : committer'[w].l = committer[w].l, NEW p
  PROVE  References(p)' = References(p)
<1>1. /\ InMap(p)' = InMap(p) /\ Queued(p)' = Queued(p) /\ Merging(p)' = Merging(p)
      /\ Users(p)' = Users(p) /\ Makers(p)' = Makers(p)
  BY DEF InMap, Queued, Merging, Users, Makers, Using
<1> QED  BY <1>1, Sum, SumNext

\* A call that holds a list has a reference to it.
LEMMA HolderCounts ==
  ASSUME TypeOK, RefInv, CallInv, NEW c \in Clients, client[c].pc \in Holding \cup {"init"}
  PROVE  client[c].lp \in Ptrs \ pool /\ c \in Users(client[c].lp)
<1>1. client[c].lp \in Ptrs /\ c \in Users(client[c].lp)
  BY DEF CallInv, CallOK, Users, Using, Holding
<1>2. References(client[c].lp) # 0
  BY <1>1, Counted
<1> QED  BY <1>1, <1>2 DEF RefInv

\* Lists that the map, MergeLists or a worker has are not in the pool.
LEMMA OwnersCount ==
  ASSUME TypeOK, RefInv, NEW p \in Ptrs
  PROVE  /\ \A k \in Keys : lhmap[k] = p => p \notin pool
         /\ p \in workChan => p \notin pool
         /\ \A w \in Workers : committer[w].l = p => p \notin pool
<1>1. References(p) = 0 => InMap(p) = {} /\ Merging(p) = {} /\ p \notin workChan
  BY Counted
<1> QED  BY <1>1 DEF RefInv, InMap, Merging

\* decr keeps the counts exact when a reference is dropped with it.
LEMMA DecrKeeps ==
  ASSUME TypeOK, RefInv, NEW p \in Ptrs \ pool, decr(p),
         References(p)' = References(p) - 1,
         \A q \in Ptrs \ {p} : References(q)' = References(q)
  PROVE  /\ RefInv' /\ Counts(p, lists[p].refcount - 1)
         /\ pool' \subseteq Ptrs /\ pool \subseteq pool' /\ pool' \subseteq pool \cup {p}
         /\ p \in pool' => References(p) = 1
<1>1. lists \in [Ptrs -> List] /\ pool \subseteq Ptrs
  BY DEF TypeOK
<1>2. References(p) \in Nat /\ lists[p].refcount = References(p) /\ References(p) > 0
  BY Sum DEF RefInv
<1>3. Counts(p, lists[p].refcount - 1)
  <2>1. lists[p].refcount - 1 \in Nat
    BY <1>2
  <2>2. lists' = [lists EXCEPT ![p].refcount = lists[p].refcount - 1]
    BY DEF decr
  <2> QED  BY Zenon, <1>1, <2>1, <2>2, CountsChange
<1>4. pool' = IF lists[p].refcount = 1 THEN pool \cup {p} ELSE pool
  BY DEF decr
<1>5. ASSUME NEW q \in Ptrs
      PROVE  IF q \in pool' THEN References(q)' = 0
             ELSE lists'[q].refcount = References(q)' /\ References(q)' > 0
  <2>1. CASE q = p
    <3>1. lists'[q].refcount = References(q)' /\ References(q)' = References(p) - 1
      BY Zenon, <1>2, <1>3, <2>1 DEF Counts
    <3>2. q \in pool' <=> References(p) = 1
      BY <1>2, <1>4, <2>1
    <3> QED  BY <1>2, <3>1, <3>2
  <2>2. CASE q # p
    <3>1. References(q)' = References(q) /\ (q \in pool' <=> q \in pool) /\ lists'[q] = lists[q]
      BY <1>3, <1>4, <2>2 DEF Counts
    <3> QED  BY <3>1 DEF RefInv
  <2> QED  BY <2>1, <2>2
<1> QED  BY <1>1, <1>2, <1>3, <1>4, <1>5 DEF RefInv

\* The references of a client that goes on with what it has.
LEMMA SameHands ==
  ASSUME TypeOK, CallInv, NEW c \in Clients,
         NEW pc \in Holding, NEW m, client[c].pc \in Holding,
         Moves(c, pc, client[c].key, client[c].lp, client[c].l, m),
         UNCHANGED <<lhmap, committer, workChan>>, NEW p \in Ptrs
  PROVE  References(p)' = References(p)
<1>1. c \in Users(p) <=> client[c].lp = p
  BY DEF Users, Using, Holding
<1>2. c \in Users(p)' <=> client[c].lp = p
  BY DEF Users, Using, Moves, Holding
<1>3. client[c].l = Nil /\ p # Nil
  BY CacheAssumption DEF CallInv, CallOK
<1>4. c \notin Makers(p) /\ c \notin Makers(p)'
  BY <1>3 DEF Makers, Moves
<1>5. References(p)' = References(p) - One(c \in Users(p)) - One(c \in Makers(p))
                            + One(c \in Users(p)') + One(c \in Makers(p)')
  BY ClientRefs DEF Moves
<1> QED  BY <1>1, <1>2, <1>4, <1>5, Sum DEF One

-----------------------------------------------------------------------------
(* Every step keeps the invariant. *)

\* A step that leaves the map, the eviction and the marks of the lists alone.
LEMMA OpenKept ==
  ASSUME OpenInv, OneOpenList, UNCHANGED <<lhmap, periodic, workChan>>, pool \subseteq pool',
         \A q \in Ptrs : /\ lists'[q].key = lists[q].key /\ lists'[q].ready = lists[q].ready
                        /\ lists'[q].deleteMe = lists[q].deleteMe,
         \A w \in Workers : committer[w].pc = "delete" => committer'[w] = committer[w]
  PROVE  OpenInv' /\ OneOpenList'
<1>1. OpenInv'
  <2> SUFFICES ASSUME NEW p \in Ptrs \ pool', Open(p)'
               PROVE  \/ lhmap[lists[p].key] = p
                      \/ /\ periodic = "evict" /\ lhmap[lists[p].key] = Nil
                         /\ \/ p \in workChan
                            \/ \E w \in Workers : committer'[w].l = p /\ committer'[w].pc = "delete"
    BY DEF OpenInv
  <2>1. p \in Ptrs \ pool /\ Open(p)
    BY DEF Open
  <2>2. \/ lhmap[lists[p].key] = p
        \/ /\ periodic = "evict" /\ lhmap[lists[p].key] = Nil
           /\ p \in workChan \/ \E w \in Workers : committer[w].l = p /\ committer[w].pc = "delete"
    BY Zenon, <2>1 DEF OpenInv
  <2> QED  BY Zenon, <2>2
<1>2. OneOpenList'
  BY DEF OneOpenList
<1> QED  BY <1>1, <1>2

\* A step that leaves the map alone, and the calls that have put a new list in it:
\* a list whose marks it changes is not in the map.
LEMMA MapKept ==
  ASSUME TypeOK, MapInv, UNCHANGED <<lhmap, periodic>>,
         \A p \in Ptrs : \/ lists'[p].key = lists[p].key /\ lists'[p].ready = lists[p].ready
                         \/ ~lists'[p].ready /\ InMap(p) = {},
         \A q \in Clients :
           /\ client[q].pc \in {"incr", "init"} /\ client[q].l = client[q].lp =>
                /\ client'[q].pc \in {"incr", "init"}
                /\ client'[q].l = client[q].l /\ client'[q].lp = client[q].lp
           /\ client'[q].pc \in Getting => client[q].pc \in Getting
  PROVE  MapInv'
<1>1. \A j, k \in Keys : lhmap'[j] = lhmap'[k] /\ lhmap'[k] # Nil => j = k
  BY DEF MapInv
<1>2. ASSUME NEW j \in Keys, lhmap'[j] # Nil
      PROVE  IF lists'[lhmap'[j]].ready THEN lists'[lhmap'[j]].key = j
             ELSE \E q \in Clients : /\ client'[q].pc \in {"incr", "init"}
                                     /\ client'[q].l = lhmap'[j] /\ client'[q].lp = lhmap'[j]
  <2>1. lhmap'[j] = lhmap[j] /\ lhmap[j] \in Ptrs /\ lhmap[j] # Nil /\ j \in InMap(lhmap[j])
    BY <1>2 DEF TypeOK, InMap
  <2>2. lists'[lhmap[j]].key = lists[lhmap[j]].key /\ lists'[lhmap[j]].ready = lists[lhmap[j]].ready
    BY <2>1
  <2>3. IF lists[lhmap[j]].ready THEN lists[lhmap[j]].key = j
        ELSE \E q \in Clients : /\ client[q].pc \in {"incr", "init"}
                                /\ client[q].l = lhmap[j] /\ client[q].lp = lhmap[j]
    BY Zenon, <2>1 DEF MapInv
  <2>4. CASE lists[lhmap[j]].ready
    BY <2>1, <2>2, <2>3, <2>4
  <2>5. CASE ~lists[lhmap[j]].ready
    BY <2>1, <2>2, <2>3, <2>5
  <2> QED  BY <2>4, <2>5
<1>3. \A q \in Ptrs : lists'[q].ready => lists'[q].key \in Keys
  BY DEF MapInv
<1>4. periodic' \in {"flush", "evict"} => InGetOrCreate' = {}
  BY DEF MapInv, InGetOrCreate, Getting
<1> QED  BY Zenon, <1>1, <1>2, <1>3, <1>4 DEF MapInv

\* A step that leaves the map alone, and the lists that calls have in their hands:
\* no call gets one.
LEMMA HeldKept ==
  ASSUME CallInv, HeldInv, UNCHANGED lhmap,
         \A p \in Ptrs : \/ lists'[p].key = lists[p].key /\ lists'[p].ready = lists[p].ready
                         \/ Users(p) = {},
         \A q \in Clients : client'[q].pc \in Holding =>
           /\ client[q].pc \in Holding
           /\ client'[q].lp = client[q].lp /\ client'[q].key = client[q].key
  PROVE  HeldInv'
<1> SUFFICES ASSUME NEW q \in Clients, client'[q].pc \in Holding
             PROVE  IF lists'[client'[q].lp].ready
                    THEN lists'[client'[q].lp].key = client'[q].key
                    ELSE lhmap'[client'[q].key] = client'[q].lp
  BY DEF HeldInv
<1>1. /\ client[q].pc \in Holding
      /\ client'[q].lp = client[q].lp /\ client'[q].key = client[q].key
  OBVIOUS
<1>2. client[q].lp \in Ptrs /\ q \in Users(client[q].lp)
  BY <1>1 DEF CallInv, CallOK, Holding, Users, Using
<1>3. IF lists[client[q].lp].ready THEN lists[client[q].lp].key = client[q].key
      ELSE lhmap[client[q].key] = client[q].lp
  BY <1>1 DEF HeldInv
<1> QED  BY <1>1, <1>2, <1>3

\* GetOrCreate begins: the call has only its key.
LEMMA Step_GetOrCreate ==
  ASSUME Inv, NEW c \in Clients, GetOrCreate(c)
  PROVE  Inv'
<1>0. TypeOK /\ RefInv /\ CallInv /\ MergeInv /\ MapInv /\ HeldInv /\ OpenInv /\ OneOpenList
  BY DEF Inv
<1> USE <1>0
<1>1. PICK k \in Keys : Moves(c, "get", k, client[c].lp, client[c].l, client[c].mut)
  BY Moves_GetOrCreate
<1>2. /\ UNCHANGED <<store, lists, pool, lhmap, committer, dirtyChan, dirtyMap,
                      periodic, workChan, acked>>
      /\ client[c].pc = "idle" /\ client[c].lp = Nil /\ client[c].l = Nil
      /\ periodic = "select"
  BY DEF GetOrCreate, EnterAllowed, WorldStopped, CallInv, CallOK
<1>3. TypeOK'
  BY <1>1, <1>2 DEF TypeOK, Moves
<1>4. RefInv'
  <2> SUFFICES ASSUME NEW p \in Ptrs PROVE References(p)' = References(p)
    BY <1>2 DEF RefInv
  <2>1. c \notin Users(p) /\ c \notin Users(p)'
    BY <1>1, <1>2 DEF Users, Using, Moves
  <2>2. c \notin Makers(p) /\ c \notin Makers(p)'
    BY <1>1, <1>2, CacheAssumption DEF Makers, Moves
  <2>3. References(p)' = References(p) - One(c \in Users(p)) - One(c \in Makers(p))
                            + One(c \in Users(p)') + One(c \in Makers(p)')
    BY <1>1, <1>2, ClientRefs DEF Moves
  <2> QED  BY <2>1, <2>2, <2>3, Sum DEF One
<1>5. CallInv'
  BY <1>1, <1>2 DEF CallInv, CallOK, Moves, Holding
<1>6. MergeInv'
  BY <1>2 DEF MergeInv
<1>7. MapInv'
  BY <1>1, <1>2 DEF MapInv, Moves, InGetOrCreate
<1>8. HeldInv'
  BY <1>1, <1>2 DEF HeldInv, Moves, Holding
<1>9. OpenInv' /\ OneOpenList'
  BY Zenon, <1>2, OpenKept
<1> QED  BY <1>3, <1>4, <1>5, <1>6, <1>7, <1>8, <1>9 DEF Inv

\* Get finds a list in the map: no reference is taken yet.
LEMMA Step_GetFound ==
  ASSUME Inv, NEW c \in Clients, GetFound(c)
  PROVE  Inv'
<1>0. TypeOK /\ RefInv /\ CallInv /\ MergeInv /\ MapInv /\ HeldInv /\ OpenInv /\ OneOpenList
  BY DEF Inv
<1> USE <1>0
<1>1. Moves(c, "incr", client[c].key, lhmap[client[c].key], client[c].l, client[c].mut)
  BY Moves_GetFound
<1>2. /\ UNCHANGED <<store, lists, pool, lhmap, committer, dirtyChan, dirtyMap,
                      periodic, workChan, acked>>
      /\ client[c].pc = "get" /\ client[c].lp = Nil /\ client[c].l = Nil
      /\ client[c].key \in Keys /\ lhmap[client[c].key] \in Ptrs
  BY DEF GetFound, CallInv, CallOK, TypeOK
<1>3. TypeOK'
  BY <1>1, <1>2 DEF TypeOK, Moves
<1>4. RefInv'
  <2> SUFFICES ASSUME NEW p \in Ptrs PROVE References(p)' = References(p)
    BY <1>2 DEF RefInv
  <2>1. c \notin Users(p) /\ c \notin Users(p)'
    BY <1>1, <1>2 DEF Users, Using, Moves
  <2>2. c \notin Makers(p) /\ c \notin Makers(p)'
    BY <1>1, <1>2, CacheAssumption DEF Makers, Moves
  <2>3. References(p)' = References(p) - One(c \in Users(p)) - One(c \in Makers(p))
                            + One(c \in Users(p)') + One(c \in Makers(p)')
    BY Zenon, <1>1, <1>2, ClientRefs DEF Moves
  <2> QED  BY <2>1, <2>2, <2>3, Sum DEF One
<1>5. CallInv'
  BY <1>1, <1>2 DEF CallInv, CallOK, Moves, Holding
<1>6. MergeInv'
  BY <1>2 DEF MergeInv
<1>7. MapInv'
  BY <1>1, <1>2 DEF MapInv, Moves, InGetOrCreate
<1>8. HeldInv'
  BY <1>1, <1>2 DEF HeldInv, Moves, Holding
<1>9. OpenInv' /\ OneOpenList'
  BY Zenon, <1>2, OpenKept
<1> QED  BY <1>3, <1>4, <1>5, <1>6, <1>7, <1>8, <1>9 DEF Inv

\* AddMutation looks at deleteMe, with the same list in hand.
LEMMA Step_AddMutation ==
  ASSUME Inv, NEW c \in Clients, AddMutation(c)
  PROVE  Inv'
<1>0. TypeOK /\ RefInv /\ CallInv /\ MergeInv /\ MapInv /\ HeldInv /\ OpenInv /\ OneOpenList
  BY DEF Inv
<1> USE <1>0
<1>1. \/ Moves(c, "release", client[c].key, client[c].lp, client[c].l, client[c].mut)
      \/ \E m \in Mutations : Moves(c, "lock", client[c].key, client[c].lp, client[c].l, m)
  BY Moves_Retry, Moves_Start
<1>2. /\ UNCHANGED <<store, lists, pool, lhmap, committer, dirtyChan, dirtyMap,
                      periodic, workChan, acked>>
      /\ client[c].pc = "have" /\ lists[client[c].lp].ready
  BY DEF AddMutation
<1>3. TypeOK'
  BY <1>1, <1>2 DEF TypeOK, Moves
<1>4. RefInv'
  <2> SUFFICES ASSUME NEW p \in Ptrs PROVE References(p)' = References(p)
    BY Zenon, <1>2 DEF RefInv
  <2> QED  BY <1>1, <1>2, SameHands DEF Holding
<1>5. CallInv'
  BY <1>1, <1>2 DEF CallInv, CallOK, Moves, Holding
<1>6. MergeInv'
  BY <1>2 DEF MergeInv
<1>7. MapInv'
  BY <1>1, <1>2 DEF MapInv, Moves, InGetOrCreate
<1>8. HeldInv'
  BY <1>1, <1>2 DEF HeldInv, Moves, Holding
<1>9. OpenInv' /\ OneOpenList'
  BY Zenon, <1>2, OpenKept
<1> QED  BY <1>3, <1>4, <1>5, <1>6, <1>7, <1>8, <1>9 DEF Inv

\* getNew takes a pooled object, which nobody had: the call has its one reference.
LEMMA Step_getNew ==
  ASSUME Inv, NEW c \in Clients, getNew(c)
  PROVE  Inv'
<1>0. TypeOK /\ RefInv /\ CallInv /\ MergeInv /\ MapInv /\ HeldInv /\ OpenInv /\ OneOpenList
  BY DEF Inv
<1> USE <1>0
<1>1. PICK n \in pool : /\ pool' = pool \ {n} /\ lists' = [lists EXCEPT ![n] = NewList]
                        /\ Moves(c, "put", client[c].key, client[c].lp, n, client[c].mut)
  BY Moves_getNew
<1>2. /\ UNCHANGED <<store, lhmap, committer, dirtyChan, dirtyMap, periodic, workChan, acked>>
      /\ client[c].pc = "get" /\ client[c].lp = Nil /\ client[c].l = Nil
      /\ client[c].key \in Keys
  BY DEF getNew, CallInv, CallOK
<1>3. NewList \in List /\ NewList.refcount = 1 /\ NewList.ready = FALSE
  BY CacheAssumption DEF NewList, List
<1>4. n \in Ptrs /\ n # Nil /\ lists \in [Ptrs -> List] /\ pool \subseteq Ptrs
  BY CacheAssumption DEF TypeOK
<1>5. /\ lists' \in [Ptrs -> List] /\ lists'[n] = NewList
      /\ \A q \in Ptrs \ {n} : lists'[q] = lists[q]
  BY <1>1, <1>3, <1>4
<1>6. /\ InMap(n) = {} /\ Merging(n) = {} /\ Users(n) = {} /\ Makers(n) = {} /\ n \notin workChan
      /\ References(n) = 0
  BY <1>4, Counted DEF RefInv
<1>7. TypeOK'
  BY <1>1, <1>2, <1>5 DEF TypeOK, Moves
<1>8. RefInv'
  <2>1. ASSUME NEW p \in Ptrs
        PROVE  References(p)' = References(p) + One(p = n)
    <3>1. c \notin Users(p) /\ c \notin Users(p)'
      BY <1>1, <1>2 DEF Users, Using, Moves
    <3>2. c \notin Makers(p) /\ (c \in Makers(p)' <=> p = n)
      BY Zenon, <1>1, <1>2, CacheAssumption DEF Makers, Moves
    <3>3. References(p)' = References(p) - One(c \in Users(p)) - One(c \in Makers(p))
                              + One(c \in Users(p)') + One(c \in Makers(p)')
      BY <1>1, <1>2, ClientRefs DEF Moves
    <3> QED  BY <3>1, <3>2, <3>3, Sum DEF One
  <2>2. \A p \in Ptrs \ {n} : References(p)' = References(p)
    BY <2>1, Sum DEF One
  <2>3. References(n)' = 1
    BY <1>4, <1>6, <2>1 DEF One
  <2> QED  BY <1>1, <1>3, <1>4, <1>5, <2>2, <2>3 DEF RefInv
<1>9. \A q \in Clients : client[q].lp # n /\ (client[q].pc = "put" => client[q].l # n)
  <2> SUFFICES ASSUME NEW q \in Clients,
                      client[q].lp = n \/ (client[q].pc = "put" /\ client[q].l = n)
               PROVE  FALSE
    BY Zenon
  <2>1. CASE client[q].pc = "put"
    BY <1>4, <1>6, <2>1 DEF CallInv, CallOK, Makers
  <2>2. CASE client[q].pc = "incr"
    BY <1>6, <2>2 DEF CallInv, CallOK, InMap
  <2>3. CASE client[q].pc \in {"idle", "get"}
    BY <1>4, <2>3 DEF CallInv, CallOK
  <2>4. CASE client[q].pc \in Holding \cup {"init"}
    BY <1>6, <2>1, <2>4 DEF Users, Using, Holding
  <2>5. client[q].pc \in {"idle", "get", "put", "incr", "init", "have", "lock", "send", "release"}
    BY DEF TypeOK, Call
  <2> QED  BY <2>1, <2>2, <2>3, <2>4, <2>5 DEF Holding
<1>10. CallInv'
  <2> SUFFICES ASSUME NEW q \in Clients PROVE CallOK(q)'
    BY Zenon DEF CallInv
  <2>1. CASE q = c
    BY <1>1, <1>2, <1>3, <1>4, <1>5, <2>1 DEF CallOK, Moves, Holding
  <2>2. CASE q # c
    <3>1. client'[q] = client[q] /\ CallOK(q)
      BY Zenon, <1>1, <2>2 DEF Moves, CallInv
    <3>2. client[q].pc = "put" => /\ lists'[client[q].l] = lists[client[q].l]
                                  /\ client[q].l \in Ptrs \ pool'
      BY Zenon, <1>1, <1>5, <1>9, <3>1 DEF CallOK
    <3>3. client[q].pc \in {"lock", "send"} => lists'[client[q].lp] = lists[client[q].lp]
      BY <1>5, <1>9, <3>1 DEF CallOK, Holding
    <3> QED  BY ZenonT(30), <1>2, <3>1, <3>2, <3>3 DEF CallOK
  <2> QED  BY <2>1, <2>2
<1>11. MergeInv'
  BY <1>2 DEF MergeInv
<1>12. \A p \in Ptrs : \/ lists'[p].key = lists[p].key /\ lists'[p].ready = lists[p].ready
                       \/ ~lists'[p].ready /\ InMap(p) = {} /\ Users(p) = {}
  BY Zenon, <1>3, <1>5, <1>6
<1>13. MapInv'
  <2>1. \A q \in Clients :
          /\ client[q].pc \in {"incr", "init"} => client'[q] = client[q]
          /\ client'[q].pc \in Getting => client[q].pc \in Getting
    BY Zenon, <1>1, <1>2 DEF Moves, Getting
  <2> QED  BY <1>2, <1>12, <2>1, MapKept
<1>14. HeldInv'
  <2>1. \A q \in Clients : client'[q].pc \in Holding => client'[q] = client[q]
    BY Zenon, <1>1 DEF Moves, Holding
  <2> QED  BY <1>2, <1>12, <2>1, HeldKept
<1>15. OpenInv' /\ OneOpenList'
  BY <1>1, <1>2, <1>3, <1>5 DEF OpenInv, OneOpenList, Open
<1> QED  BY <1>7, <1>8, <1>10, <1>11, <1>13, <1>14, <1>15 DEF Inv

\* PutIfMissing: the reference of getNew becomes that of the map, or the list stays
\* the call's own until it is undone.
LEMMA Step_PutNew ==
  ASSUME Inv, NEW c \in Clients, PutNew(c)
  PROVE  Inv'
<1> DEFINE k == client[c].key
           n == client[c].l
           lp == PutIfMissing(k, n)
<1>0. TypeOK /\ RefInv /\ CallInv /\ MergeInv /\ MapInv /\ HeldInv /\ OpenInv /\ OneOpenList
  BY DEF Inv
<1> USE <1>0
<1>1. Moves(c, "incr", k, lp, n, client[c].mut)
  BY Moves_PutNew
<1>2. /\ UNCHANGED <<store, lists, pool, committer, dirtyChan, dirtyMap, periodic, workChan, acked>>
      /\ client[c].pc = "put" /\ client[c].lp = Nil /\ n \in Ptrs \ pool /\ k \in Keys
      /\ lists[n].refcount = 1 /\ ~lists[n].ready
      /\ lhmap' = [lhmap EXCEPT ![k] = lp]
  BY DEF PutNew, CallInv, CallOK
<1>3. n # Nil /\ References(n) = 1 /\ c \in Makers(n)
  BY <1>2, CacheAssumption DEF RefInv, Makers
<1>4. InMap(n) = {} /\ Merging(n) = {} /\ Users(n) = {} /\ n \notin workChan /\ Makers(n) = {c}
  BY <1>3, Counted
<1>5. lhmap \in [Keys -> Ptrs \cup {Nil}] /\ lp \in Ptrs /\ lp # Nil
      /\ (lhmap[k] = Nil => lp = n) /\ (lhmap[k] # Nil => lp = lhmap[k] /\ lp # n)
  BY ZenonT(30), <1>2, <1>3, <1>4, CacheAssumption DEF TypeOK, PutIfMissing, InMap
<1>6. \A j \in Keys : lhmap'[j] = IF j = k THEN lp ELSE lhmap[j]
  BY <1>2, <1>5
<1>7. periodic \notin {"flush", "evict"}
  BY ZenonT(30), <1>2 DEF MapInv, InGetOrCreate
<1> HIDE DEF k, n, lp
<1>8. TypeOK'
  BY <1>1, <1>2, <1>5 DEF TypeOK, Moves
<1>9. RefInv'
  <2> SUFFICES ASSUME NEW p \in Ptrs PROVE References(p)' = References(p)
    BY <1>2 DEF RefInv
  <2>1. Users(p)' = Users(p)
    BY <1>1, <1>2 DEF Users, Using, Moves
  <2>2. Merging(p)' = Merging(p) /\ Queued(p)' = Queued(p)
    BY <1>2 DEF Merging, Queued
  <2>3. \A q \in Clients \ {c} : q \in Makers(p)' <=> q \in Makers(p)
    BY <1>1 DEF Makers, Moves
  <2>4. (c \in Makers(p) <=> p = n) /\ (c \in Makers(p)' <=> p = n /\ lp # n)
    BY Zenon, <1>1, <1>2, <1>3, <1>5 DEF Makers, Moves, n
  <2>5. CASE p = n /\ lp = n
    <3>1. InMap(p)' = {k}
      BY <1>2, <1>4, <1>5, <1>6, <2>5 DEF InMap
    <3>2. Makers(p)' = {}
      <4>1. Makers(p)' \subseteq Clients
        BY DEF Makers
      <4> QED  BY <1>4, <2>3, <2>4, <2>5, <4>1
    <3>3. Cardinality(InMap(p)') = 1 /\ Cardinality(Makers(p)') = 0
      BY Zenon, <3>1, <3>2, FS_EmptySet, FS_Singleton
    <3>4. Cardinality(InMap(p)) = 0 /\ Cardinality(Makers(p)) = 1
      BY Zenon, <1>4, <2>5, FS_EmptySet, FS_Singleton
    <3> QED  BY <2>1, <2>2, <3>3, <3>4, Sum, SumNext
  <2>6. CASE ~(p = n /\ lp = n)
    <3>1. InMap(p)' = InMap(p)
      BY Zenon, <1>2, <1>5, <1>6, <2>6, CacheAssumption DEF InMap
    <3>2. Makers(p)' = Makers(p)
      BY <2>3, <2>4, <2>6 DEF Makers
    <3> QED  BY <2>1, <2>2, <3>1, <3>2, Sum, SumNext
  <2> QED  BY <2>5, <2>6
<1>10. CallInv'
  <2> SUFFICES ASSUME NEW q \in Clients PROVE CallOK(q)'
    BY DEF CallInv
  <2>1. CASE q = c
    BY ZenonT(30), <1>1, <1>2, <1>5, <1>6, <2>1 DEF CallOK, Moves, Holding
  <2>2. CASE q # c
    <3>1. client'[q] = client[q] /\ CallOK(q)
      BY <1>1, <2>2 DEF Moves, CallInv
    <3>2. client[q].pc \in {"incr", "init"} => lhmap'[client[q].key] = client[q].lp
      BY ZenonT(30), <1>5, <1>6, <3>1, CacheAssumption DEF CallOK
    <3> QED  BY Zenon, <1>2, <3>1, <3>2 DEF CallOK
  <2> QED  BY <2>1, <2>2
<1>11. MergeInv'
  <2>1. \A j \in Keys : lhmap'[j] \notin workChan'
    BY ZenonT(60), <1>2, <1>4, <1>5, <1>6 DEF MergeInv
  <2> QED  BY ZenonT(30), <1>2, <2>1 DEF MergeInv
<1>12. MapInv'
  <2>1. \A j \in Keys : lhmap[j] # n
    BY <1>4 DEF InMap
  <2>2. \A i, j \in Keys : lhmap'[i] = lhmap'[j] /\ lhmap'[j] # Nil => i = j
    <3> SUFFICES ASSUME NEW i \in Keys, NEW j \in Keys, lhmap'[i] = lhmap'[j], lhmap'[j] # Nil
                 PROVE  i = j
      BY Zenon
    <3>1. lhmap[i] = lhmap[j] /\ lhmap[j] # Nil => i = j
      BY Zenon DEF MapInv
    <3>2. /\ lhmap'[i] = IF i = k THEN lp ELSE lhmap[i]
          /\ lhmap'[j] = IF j = k THEN lp ELSE lhmap[j]
          /\ lhmap[i] # n /\ lhmap[j] # n
      BY Zenon, <1>6, <2>1
    <3> QED  BY Zenon, <1>5, <3>1, <3>2
  <2>3. ASSUME NEW j \in Keys, lhmap'[j] # Nil
        PROVE  IF lists'[lhmap'[j]].ready THEN lists'[lhmap'[j]].key = j
               ELSE \E q \in Clients : /\ client'[q].pc \in {"incr", "init"}
                                       /\ client'[q].l = lhmap'[j] /\ client'[q].lp = lhmap'[j]
    <3>1. CASE lhmap'[j] = lhmap[j]
      BY <1>1, <1>2, <2>3, <3>1 DEF MapInv, Moves
    <3>2. CASE lhmap'[j] # lhmap[j]
      BY Zenon, <1>1, <1>2, <1>5, <1>6, <3>2 DEF Moves
    <3> QED  BY <3>1, <3>2
  <2>4. \A p \in Ptrs : lists'[p].ready => lists'[p].key \in Keys
    BY <1>2 DEF MapInv
  <2> QED  BY <1>2, <1>7, <2>2, <2>3, <2>4 DEF MapInv
<1>13. HeldInv'
  <2> SUFFICES ASSUME NEW q \in Clients, client'[q].pc \in Holding
               PROVE  IF lists'[client'[q].lp].ready
                      THEN lists'[client'[q].lp].key = client'[q].key
                      ELSE lhmap'[client'[q].key] = client'[q].lp
    BY DEF HeldInv
  <2>1. client'[q] = client[q] /\ client[q].lp \in Ptrs /\ client[q].key \in Keys
    BY <1>1 DEF Moves, Holding, CallInv, CallOK
  <2>2. lhmap[client[q].key] = client[q].lp => lhmap'[client[q].key] = client[q].lp
    BY Zenon, <1>5, <1>6, <2>1, CacheAssumption
  <2>3. IF lists[client[q].lp].ready THEN lists[client[q].lp].key = client[q].key
        ELSE lhmap[client[q].key] = client[q].lp
    BY <2>1 DEF HeldInv
  <2> QED  BY Zenon, <1>2, <2>1, <2>2, <2>3
<1>14. OpenInv' /\ OneOpenList'
  <2>1. OneOpenList'
    BY Zenon, <1>2 DEF OneOpenList
  <2>2. OpenInv'
    <3> SUFFICES ASSUME NEW p \in Ptrs \ pool, Open(p)
                 PROVE  lhmap'[lists[p].key] = p
      BY Zenon, <1>2 DEF OpenInv, Open
    <3>1. lhmap[lists[p].key] = p /\ lists[p].key \in Keys
      BY <1>7 DEF OpenInv, MapInv, Open
    <3> QED  BY <1>5, <1>6, <3>1, CacheAssumption
  <2> QED  BY <2>1, <2>2
<1> QED  BY <1>8, <1>9, <1>10, <1>11, <1>12, <1>13, <1>14 DEF Inv

\* incr: the list is in the map, so it is not pooled.
LEMMA Step_TakeReference ==
  ASSUME Inv, NEW c \in Clients, TakeReference(c)
  PROVE  Inv'
<1> DEFINE pc == IF client[c].l = Nil THEN "have" ELSE "init"
<1>0. TypeOK /\ RefInv /\ CallInv /\ MergeInv /\ MapInv /\ HeldInv /\ OpenInv /\ OneOpenList
  BY DEF Inv
<1> USE <1>0
<1>p. PICK p \in Ptrs : p = client[c].lp
  BY DEF TakeReference, CallInv, CallOK
<1>1. Moves(c, pc, client[c].key, p, client[c].l, client[c].mut)
  BY <1>p, Moves_TakeReference
<1>2. /\ UNCHANGED <<store, pool, lhmap, committer, dirtyChan, dirtyMap, periodic, workChan, acked>>
      /\ client[c].pc = "incr" /\ p \in Ptrs /\ lhmap[client[c].key] = p /\ client[c].key \in Keys
      /\ client[c].l \in Ptrs \cup {Nil}
      /\ lists' = [lists EXCEPT ![p].refcount = @ + 1]
  BY <1>p DEF TakeReference, CallInv, CallOK, incr, TypeOK, Call
<1>3. p \notin pool /\ p # Nil
  BY <1>2, OwnersCount, CacheAssumption
<1>4. lists[p].refcount \in Nat /\ lists[p].refcount = References(p) /\ References(p) > 0
  BY <1>2, <1>3, Sum DEF RefInv
<1>5. Counts(p, lists[p].refcount + 1)
  <2>1. lists[p].refcount + 1 \in Nat /\ lists \in [Ptrs -> List]
    BY <1>4 DEF TypeOK
  <2> QED  BY Zenon, <1>2, <2>1, CountsChange
<1>6. pc \in {"have", "init"} /\ (pc = "have" <=> client[c].l = Nil)
  OBVIOUS
<1> HIDE DEF pc
<1>7. TypeOK'
  BY <1>1, <1>2, <1>5 DEF TypeOK, Moves, Counts
<1>8. ASSUME NEW q \in Ptrs
      PROVE  References(q)' = References(q) + One(q = p)
  <2>1. c \notin Users(q) /\ (c \in Users(q)' <=> q = p)
    BY <1>1, <1>2, <1>6, <1>p DEF Users, Using, Moves
  <2>2. c \in Makers(q) <=> c \in Makers(q)'
    BY <1>1, <1>2, <1>6, <1>p DEF Makers, Moves
  <2>3. References(q)' = References(q) - One(c \in Users(q)) - One(c \in Makers(q))
                            + One(c \in Users(q)') + One(c \in Makers(q)')
    BY <1>1, <1>2, ClientRefs DEF Moves
  <2> QED  BY <2>1, <2>2, <2>3, Sum DEF One
<1>9. RefInv'
  <2>1. References(p)' = References(p) + 1
    <3>1. References(p)' = References(p) + One(p = p)
      BY <1>2, <1>8
    <3> QED  BY <3>1 DEF One
  <2>2. \A q \in Ptrs \ {p} : References(q)' = References(q)
    BY <1>8, Sum DEF One
  <2>3. lists'[p].refcount = References(p)' /\ References(p)' > 0
    BY <1>4, <1>5, <2>1 DEF Counts
  <2>4. ASSUME NEW q \in Ptrs \ {p}
        PROVE  IF q \in pool' THEN References(q)' = 0
               ELSE lists'[q].refcount = References(q)' /\ References(q)' > 0
    <3>1. lists'[q] = lists[q] /\ pool' = pool /\ References(q)' = References(q)
      BY <1>2, <1>5, <2>2 DEF Counts
    <3> QED  BY <3>1 DEF RefInv
  <2> QED  BY <1>2, <1>3, <2>3, <2>4 DEF RefInv
<1>10. CallInv'
  <2>1. \A q \in Clients : client[q].pc = "put" => client[q].l # p
    <3> SUFFICES ASSUME NEW q \in Clients, client[q].pc = "put", client[q].l = p
                 PROVE  FALSE
      OBVIOUS
    <3>1. lists[p].refcount = 1 /\ q \in Makers(p)
      BY <1>2 DEF CallInv, CallOK, Makers
    <3>2. References(p) = 1
      BY <1>4, <3>1
    <3>3. InMap(p) = {}
      BY <3>1, <3>2, Counted
    <3> QED  BY <1>2, <3>3 DEF InMap
  <2> QED
    BY <1>1, <1>2, <1>3, <1>5, <1>6, <2>1 DEF
       CallInv, CallOK, Moves, Holding, Counts, Keep
<1>11. MergeInv'
  BY <1>2 DEF MergeInv
<1>12. \A q \in Ptrs : /\ lists'[q].key = lists[q].key /\ lists'[q].ready = lists[q].ready
                      /\ lists'[q].deleteMe = lists[q].deleteMe
  BY Zenon, <1>5 DEF Counts
<1>13. MapInv'
  <2>1. \A q \in Clients :
          /\ client[q].pc \in {"incr", "init"} /\ client[q].l = client[q].lp =>
               /\ client'[q].pc \in {"incr", "init"}
               /\ client'[q].l = client[q].l /\ client'[q].lp = client[q].lp
          /\ client'[q].pc \in Getting => client[q].pc \in Getting
    BY Zenon, <1>1, <1>2, <1>3, <1>6, <1>p DEF Moves, Getting
  <2> QED  BY Zenon, <1>2, <1>12, <2>1, MapKept
<1>14. HeldInv'
  <2> SUFFICES ASSUME NEW q \in Clients, client'[q].pc \in Holding
               PROVE  IF lists'[client'[q].lp].ready
                      THEN lists'[client'[q].lp].key = client'[q].key
                      ELSE lhmap'[client'[q].key] = client'[q].lp
    BY DEF HeldInv
  <2>1. CASE q # c
    BY <1>1, <1>2, <1>12, <2>1 DEF HeldInv, Moves, CallInv, CallOK
  <2>2. CASE q = c
    BY <1>1, <1>2, <1>3, <1>12, <2>2 DEF Moves, MapInv
  <2> QED  BY <2>1, <2>2
<1>15. OpenInv' /\ OneOpenList'
  BY Zenon, <1>2, <1>12, OpenKept
<1> QED  BY <1>7, <1>9, <1>10, <1>11, <1>13, <1>14, <1>15 DEF Inv

\* A call goes on with the list that it holds, and the lists are what they were to
\* everybody but those who merge them.
LEMMA ListsKept ==
  ASSUME Inv, NEW c \in Clients, NEW pc \in Holding, NEW m,
         client[c].pc \in Holding,
         Moves(c, pc, client[c].key, client[c].lp, client[c].l, m),
         pc \in {"lock", "send"} => m \in Mutations /\ lists[client[c].lp].ready,
         Keep(Ptrs), lists' \in [Ptrs -> List],
         UNCHANGED <<pool, lhmap, committer, periodic, workChan>>
  PROVE  RefInv' /\ CallInv' /\ MergeInv' /\ MapInv' /\ HeldInv' /\ OpenInv' /\ OneOpenList'
<1>0. TypeOK /\ RefInv /\ CallInv /\ MergeInv /\ MapInv /\ HeldInv /\ OpenInv /\ OneOpenList
  BY Zenon DEF Inv
<1> USE <1>0
<1>1. \A p \in Ptrs : /\ lists'[p].key = lists[p].key /\ lists'[p].ready = lists[p].ready
                      /\ lists'[p].deleteMe = lists[p].deleteMe
                      /\ lists'[p].refcount = lists[p].refcount
  BY Zenon DEF Keep
<1>2. RefInv'
  <2> SUFFICES ASSUME NEW p \in Ptrs
               PROVE  References(p)' = References(p) /\ lists'[p].refcount = lists[p].refcount
    BY Zenon DEF RefInv
  <2> QED  BY <1>1, SameHands
<1>3. CallInv'
  <2> SUFFICES ASSUME NEW q \in Clients PROVE CallOK(q)'
    BY DEF CallInv
  <2>1. CASE q = c
    <3>1. CallOK(c)
      BY Zenon DEF CallInv
    <3>2. /\ client'[c].pc = pc /\ client'[c].key = client[c].key
          /\ client'[c].lp = client[c].lp /\ client'[c].l = client[c].l /\ client'[c].mut = m
      BY DEF Moves
    <3>3. /\ pc \notin {"idle", "get", "put", "incr", "init"} /\ client[c].pc # "idle"
          /\ client[c].key \in Keys /\ client[c].l = Nil /\ client[c].lp \in Ptrs
      BY Zenon, <3>1 DEF CallOK, Holding
    <3>4. lists'[client[c].lp].ready = lists[client[c].lp].ready
      BY <1>1, <3>3
    <3> QED  BY Zenon, <2>1, <3>2, <3>3, <3>4 DEF CallOK
  <2>2. CASE q # c
    <3>1. client'[q] = client[q] /\ CallOK(q)
      BY <2>2 DEF Moves, CallInv
    <3> QED  BY Zenon, <1>1, <3>1 DEF CallOK, Holding
  <2> QED  BY <2>1, <2>2
<1>4. MergeInv'
  BY ZenonT(30) DEF MergeInv
<1>5. MapInv'
  <2>1. \A q \in Clients :
          /\ client[q].pc \in {"incr", "init"} => client'[q] = client[q]
          /\ client'[q].pc \in Getting => client[q].pc \in Getting
    BY DEF Moves, Holding, Getting
  <2> QED  BY ZenonT(30), <1>1, <2>1, MapKept
<1>6. HeldInv'
  <2>1. \A q \in Clients : client'[q].pc \in Holding =>
          /\ client[q].pc \in Holding
          /\ client'[q].lp = client[q].lp /\ client'[q].key = client[q].key
    BY Zenon DEF Moves
  <2> QED  BY ZenonT(30), <1>1, <2>1, HeldKept
<1>7. OpenInv' /\ OneOpenList'
  BY Zenon, <1>1, OpenKept
<1> QED  BY Zenon, <1>2, <1>3, <1>4, <1>5, <1>6, <1>7

\* The mutation changes the layers of the list and nothing else of it.
LEMMA Step_AddMutationUpdate ==
  ASSUME Inv, NEW c \in Clients, AddMutationUpdate(c)
  PROVE  Inv'
<1> DEFINE p == client[c].lp
           y == [lists[p] EXCEPT !.lock = c, !.dirty = DirtyMark(lists[p]),
                                 !.mlayer = @ \cup {client[c].mut},
                                 !.pbuffer = IF @ = Nil THEN store[lists[p].key] ELSE @]
<1>0. TypeOK /\ CallInv /\ MapInv
  BY DEF Inv
<1> USE <1>0
<1>1. Moves(c, "send", client[c].key, client[c].lp, client[c].l, client[c].mut)
  BY Moves_Update
<1>2. /\ UNCHANGED <<store, pool, lhmap, committer, dirtyChan, dirtyMap,
                      periodic, workChan, acked>>
      /\ client[c].pc = "lock" /\ p \in Ptrs /\ client[c].mut \in Mutations
      /\ lists[p].ready
      /\ lists' = [lists EXCEPT ![p] = y]
  BY DEF AddMutationUpdate, CallInv, CallOK, Holding
<1>3. lists[p] \in List /\ lists \in [Ptrs -> List] /\ store[lists[p].key] \in SUBSET Mutations
  BY <1>2 DEF TypeOK, MapInv
<1>4. y \in List
  BY Zenon, <1>2, <1>3 DEF List, DirtyMark
<1>5. /\ y.key = lists[p].key /\ y.ready = lists[p].ready
      /\ y.deleteMe = lists[p].deleteMe /\ y.refcount = lists[p].refcount
  BY <1>3 DEF List
<1> HIDE DEF y, p
<1>6. Keep(Ptrs) /\ lists' \in [Ptrs -> List]
  BY ZenonT(30), <1>2, <1>3, <1>4, <1>5, PutList DEF Keep
<1>7. TypeOK'
  BY Zenon, <1>1, <1>2, <1>6 DEF TypeOK, Moves
<1>8. client[c].pc \in Holding /\ "send" \in Holding /\ lists[client[c].lp].ready
  BY <1>2 DEF Holding, p
<1>9. RefInv' /\ CallInv' /\ MergeInv' /\ MapInv' /\ HeldInv' /\ OpenInv' /\ OneOpenList'
  BY Zenon, <1>1, <1>2, <1>6, <1>8, ListsKept
<1> QED  BY <1>7, <1>9 DEF Inv

\* dirtyChan takes the key, and the list is unlocked.
LEMMA Step_SendDirty ==
  ASSUME Inv, NEW c \in Clients, SendDirty(c)
  PROVE  Inv'
<1> DEFINE p == client[c].lp
           y == [lists[p] EXCEPT !.lock = Nil]
<1>0. TypeOK /\ CallInv /\ MapInv
  BY DEF Inv
<1> USE <1>0
<1>1. Moves(c, "release", client[c].key, client[c].lp, client[c].l, Nil)
  BY Moves_SendDirty
<1>2. /\ UNCHANGED <<store, pool, lhmap, committer, dirtyMap, periodic, workChan>>
      /\ client[c].pc = "send" /\ p \in Ptrs /\ client[c].mut \in Mutations
      /\ client[c].key \in Keys /\ lists[p].ready
      /\ lists' = [lists EXCEPT ![p].lock = Nil]
      /\ Len(dirtyChan) < DirtyCap /\ dirtyChan' = Append(dirtyChan, lists[p].key)
      /\ acked' = [acked EXCEPT ![client[c].key] = @ \cup {client[c].mut}]
  BY DEF SendDirty, Room, CallInv, CallOK, Holding
<1>3. lists[p] \in List /\ lists \in [Ptrs -> List] /\ lists[p].key \in Keys
  BY <1>2 DEF TypeOK, MapInv
<1>4. y \in List /\ lists' = [lists EXCEPT ![p] = y]
  <2>1. y \in List
    BY <1>3 DEF List
  <2> QED  BY <1>2, <2>1
<1>5. /\ y.key = lists[p].key /\ y.ready = lists[p].ready
      /\ y.deleteMe = lists[p].deleteMe /\ y.refcount = lists[p].refcount
  BY <1>3 DEF List
<1> HIDE DEF y, p
<1>6. Keep(Ptrs) /\ lists' \in [Ptrs -> List]
  BY <1>2, <1>3, <1>4, <1>5, PutList DEF Keep
<1>7. TypeOK'
  <2>1. dirtyChan' \in Seq(Keys) /\ Len(dirtyChan') <= DirtyCap
    <3>1. dirtyChan \in Seq(Keys) /\ DirtyCap \in Nat
      BY CacheAssumption DEF TypeOK
    <3> QED  BY <1>2, <1>3, <3>1
  <2>2. acked' \in [Keys -> SUBSET Mutations]
    BY <1>2 DEF TypeOK
  <2> QED  BY <1>1, <1>2, <1>6, <2>1, <2>2 DEF TypeOK, Moves
<1>8. "release" \in Holding /\ client[c].pc \in Holding /\ "release" \notin {"lock", "send"}
  BY <1>2 DEF Holding
<1>9. RefInv' /\ CallInv' /\ MergeInv' /\ MapInv' /\ HeldInv' /\ OpenInv' /\ OneOpenList'
  BY ZenonT(30), <1>1, <1>2, <1>6, <1>8, ListsKept
<1> QED  BY <1>7, <1>9 DEF Inv

\* The caller's decr: the list goes to the pool only if nobody else has it.
LEMMA Step_Release ==
  ASSUME Inv, NEW c \in Clients, Release(c)
  PROVE  Inv'
<1>0. TypeOK /\ RefInv /\ CallInv /\ MergeInv /\ MapInv /\ HeldInv /\ OpenInv /\ OneOpenList
  BY DEF Inv
<1> USE <1>0
<1>1. Moves(c, "idle", Nil, Nil, Nil, Nil)
  BY Moves_Release
<1>p. PICK p \in Ptrs : p = client[c].lp
  BY Zenon DEF Release, CallInv, CallOK, Holding
<1>2. /\ UNCHANGED <<store, lhmap, committer, dirtyChan, dirtyMap, periodic, workChan, acked>>
      /\ client[c].pc \in {"have", "release"} /\ decr(p) /\ client[c].l = Nil
  BY <1>p DEF Release, CallInv, CallOK, Holding
<1>3. p \notin pool
  BY <1>2, <1>p, HolderCounts DEF Holding
<1>4. ASSUME NEW q \in Ptrs
      PROVE  References(q)' = References(q) - One(q = p)
  <2>1. (c \in Users(q) <=> q = p) /\ c \notin Users(q)'
    BY ZenonT(30), <1>1, <1>2, <1>p DEF Users, Using, Moves
  <2>2. c \notin Makers(q) /\ c \notin Makers(q)'
    BY ZenonT(30), <1>1, <1>2, CacheAssumption DEF Makers, Moves
  <2>3. References(q)' = References(q) - One(c \in Users(q)) - One(c \in Makers(q))
                            + One(c \in Users(q)') + One(c \in Makers(q)')
    BY Zenon, <1>1, <1>2, ClientRefs DEF Moves
  <2> QED  BY <2>1, <2>2, <2>3, Sum DEF One
<1>5. References(p)' = References(p) - 1 /\ \A q \in Ptrs \ {p} : References(q)' = References(q)
  <2>1. References(p)' = References(p) - One(p = p)
    BY <1>4
  <2>2. \A q \in Ptrs \ {p} : References(q)' = References(q)
    BY <1>4, Sum DEF One
  <2> QED  BY <2>1, <2>2 DEF One
<1>6. /\ RefInv' /\ Counts(p, lists[p].refcount - 1)
      /\ pool' \subseteq Ptrs /\ pool \subseteq pool' /\ pool' \subseteq pool \cup {p}
      /\ p \in pool' => References(p) = 1
  BY <1>2, <1>3, <1>5, DecrKeeps
<1>7. TypeOK'
  BY <1>1, <1>2, <1>6 DEF TypeOK, Moves, Counts
<1>8. \A q \in Ptrs : /\ lists'[q].key = lists[q].key /\ lists'[q].ready = lists[q].ready
                      /\ lists'[q].deleteMe = lists[q].deleteMe
  BY Zenon, <1>6 DEF Counts
<1>9. CallInv'
  <2> SUFFICES ASSUME NEW q \in Clients PROVE CallOK(q)'
    BY Zenon DEF CallInv
  <2>1. CASE q = c
    BY <1>1, <2>1 DEF CallOK, Moves, Holding
  <2>2. CASE q # c
    <3>1. client'[q] = client[q] /\ CallOK(q)
      BY Zenon, <1>1, <2>2 DEF Moves, CallInv
    <3>2. client[q].pc = "put" => client[q].l # p
      <4> SUFFICES ASSUME client[q].pc = "put", client[q].l = p PROVE FALSE
        OBVIOUS
      <4>1. q \in Makers(p) /\ lists[p].refcount = 1
        BY Zenon, <1>2, <3>1 DEF Makers, CallOK
      <4>2. References(p) = 1
        BY Zenon, <1>3, <4>1 DEF RefInv
      <4>3. Users(p) = {}
        BY <4>1, <4>2, Counted
      <4> QED  BY <1>2, <1>p, <4>3 DEF Users, Using
    <3>3. client[q].pc = "put" => /\ lists'[client[q].l] = lists[client[q].l]
                                  /\ client[q].l \notin pool'
      BY <1>6, <3>1, <3>2 DEF CallOK, Counts
    <3> QED  BY Zenon, <1>2, <1>6, <1>8, <3>1, <3>3 DEF CallOK, Holding
  <2> QED  BY <2>1, <2>2
<1>10. MergeInv'
  BY Zenon, <1>2 DEF MergeInv
<1>11. MapInv'
  <2>1. \A q \in Clients :
          /\ client[q].pc \in {"incr", "init"} => client'[q] = client[q]
          /\ client'[q].pc \in Getting => client[q].pc \in Getting
    BY Zenon, <1>1, <1>2 DEF Moves, Getting
  <2> QED  BY <1>2, <1>8, <2>1, MapKept
<1>12. HeldInv'
  <2>1. \A q \in Clients : client'[q].pc \in Holding => client'[q] = client[q]
    BY <1>1 DEF Moves, Holding
  <2> QED  BY <1>2, <1>8, <2>1, HeldKept
<1>13. OpenInv' /\ OneOpenList'
  BY Zenon, <1>2, <1>6, <1>8, OpenKept
<1> QED  BY <1>6, <1>7, <1>9, <1>10, <1>11, <1>12, <1>13 DEF Inv
==============================================================================
