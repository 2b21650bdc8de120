-------------------------- MODULE IndexedApplyProofs --------------------------
(***************************************************************************)
(* Proofs about IndexedApply, for any values, tokens and entries: replay   *)
(* after a crash gives the value that applying each entry once gives, and, *)
(* where one goroutine applies the entries, leaves the entity under no     *)
(* token that its value does not have; an eviction costs the index only    *)
(* the tokens whose lists it hit.                                          *)
(***************************************************************************)
EXTENDS IndexedApply, TLAPS

(* The entries of a group are applied by one goroutine (processCommitCh). *)
OneWriter == \A u, w \in Writers : u = w

(* The values that edges set. *)
Sets(es) == {es[i].val : i \in {j \in 1..Len(es) : es[j].op = "Set"}}

(* The edges of its entry that a writer has not applied. *)
Left(r) == IF r.pc = "index" THEN Tail(r.edges) ELSE r.edges

(* What was set by the entries that were ever handed out, and what is still to
   be set before the replay has caught up. *)
EverSet == UNION {Sets(log[i]) : i \in 1..high - 1}
Ahead == UNION {Sets(log[i]) : i \in next..high - 1}
UnderWay == UNION {Sets(Left(writer[w])) : w \in Writers}
ToBeSet == Ahead \cup UnderWay

(* Tokens of some value in S. *)
TokensAmong(S) == UNION {TokensIn(v) : v \in S}

Call == [pc : {"idle", "read", "mutate", "index"}, edges : Seq(Edges),
         old : Vals \cup {NoValue}, del : SUBSET Tokens, set : SUBSET Tokens]

(* The types, but for the history variable ideal, and what each program counter
   says of the rest of the call. *)
CallInv ==
  /\ log \in Seq(Seq(Edges)) /\ Len(log) <= MaxEntries
  /\ \A i \in 1..Len(log) : log[i] # <<>>
  /\ next \in 1..high /\ high \in 1..Len(log) + 1
  /\ value \in Vals \cup {NoValue} /\ valueStore \in Vals \cup {NoValue}
  /\ index \subseteq Tokens /\ indexStore \subseteq Tokens /\ missed \subseteq Tokens
  /\ faults \subseteq {"crash", "evict"}
  /\ writer \in [Writers -> Call]
  /\ \A w \in Writers : (writer[w].pc = "idle") <=> (writer[w].edges = <<>>)

(* Whatever is in a list or in the store was set by an entry handed out. *)
OriginInv ==
  /\ \A w \in Writers : /\ Sets(writer[w].edges) \subseteq EverSet
                        /\ writer[w].set \subseteq TokensAmong(EverSet)
  /\ {value, valueStore} \ {NoValue} \subseteq EverSet
  /\ index \cup indexStore \subseteq TokensAmong(EverSet)

(* Where the value is not the ideal one, an edge that sets it is to come. *)
IdealInv ==
  "evict" \notin faults =>
    /\ ideal \in Vals \cup {NoValue}
    /\ value # ideal => ToBeSet # {}

(* The writer deletes the tokens of the value that it replaced and adds those of
   the value that it set. *)
OldInv ==
  \A w \in Writers :
    /\ writer[w].pc = "mutate" => writer[w].old = value
    /\ writer[w].pc = "index" => writer[w].set \subseteq TokensIn(value)

(* A token that the value does not have is about to be deleted, or an edge that
   sets a value with this token is to come. *)
StaleInv ==
  "evict" \notin faults =>
    \A t \in index :
      \/ t \in TokensIn(value)
      \/ t \in TokensAmong(ToBeSet)
      \/ \E w \in Writers : writer[w].pc = "index" /\ t \in writer[w].del

(* Without a crash, a token that no writer is about to delete or to add is
   right, or an eviction hit its list. *)
MatchInv ==
  "crash" \notin faults =>
    /\ \A w \in Writers :
         writer[w].pc = "index" => TokensIn(value) \cap writer[w].del \subseteq writer[w].set
    /\ \A t \in Tokens \ missed :
         \/ t \in index <=> t \in TokensIn(value)
         \/ \E w \in Writers : writer[w].pc = "index" /\ t \in writer[w].del \cup writer[w].set

-----------------------------------------------------------------------------
(* Operators *)

\* The tokens of a value are tokens.
LEMMA TokensTyped ==
  ASSUME NEW v \in Vals \cup {NoValue}
  PROVE  TokensIn(v) \subseteq Tokens
BY IndexAssumption DEF TokensIn

\* More values have more tokens.
LEMMA TokensGrow ==
  ASSUME NEW S, NEW T, S \subseteq T
  PROVE  TokensAmong(S) \subseteq TokensAmong(T)
BY DEF TokensAmong

\* The edges of an entry: the first one and the rest.
LEMMA FirstEdge ==
  ASSUME NEW es \in Seq(Edges), es # <<>>
  PROVE  /\ Head(es) \in Edges /\ Tail(es) \in Seq(Edges)
         /\ (Len(es) = 1) <=> (Tail(es) = <<>>)
         /\ Sets(Tail(es)) \subseteq Sets(es)
         /\ Sets(es) \subseteq
              Sets(Tail(es)) \cup (IF Head(es).op = "Set" THEN {Head(es).val} ELSE {})
         /\ Head(es).op = "Set" => Head(es).val \in Sets(es)
<1>1. /\ Head(es) \in Edges /\ Tail(es) \in Seq(Edges) /\ Len(es) \in Nat \ {0}
      /\ Len(Tail(es)) = Len(es) - 1 /\ Head(es) = es[1]
      /\ \A i \in 1..Len(es) - 1 : Tail(es)[i] = es[i + 1]
  <2>1. Len(es) \in Nat \ {0}
    OBVIOUS
  <2>2. Head(es) = es[1] /\ Head(es) \in Edges
    BY <2>1
  <2>3. Tail(es) \in Seq(Edges) /\ Len(Tail(es)) = Len(es) - 1
    BY <2>1
  <2>4. \A i \in 1..Len(es) - 1 : Tail(es)[i] = es[i + 1]
    BY <2>1
  <2> QED  BY <2>1, <2>2, <2>3, <2>4
<1>2. (Len(es) = 1) <=> (Tail(es) = <<>>)
  <2>1. \A s \in Seq(Edges) : (s = <<>>) <=> (Len(s) = 0)
    OBVIOUS
  <2>2. (Tail(es) = <<>>) <=> (Len(Tail(es)) = 0)
    BY Zenon, <1>1, <2>1
  <2>3. (Len(es) = 1) <=> (Len(Tail(es)) = 0)
    BY <1>1
  <2> QED  BY <2>2, <2>3
<1>3. Sets(Tail(es)) \subseteq Sets(es)
  BY <1>1 DEF Sets
<1>4. ASSUME NEW v \in Sets(es)
      PROVE  v \in Sets(Tail(es)) \cup (IF Head(es).op = "Set" THEN {Head(es).val} ELSE {})
  <2>1. PICK i \in 1..Len(es) : es[i].op = "Set" /\ es[i].val = v
    BY <1>4 DEF Sets
  <2>2. CASE i = 1
    BY <1>1, <2>1, <2>2
  <2>3. CASE i # 1
    <3>1. i - 1 \in 1..Len(Tail(es)) /\ Tail(es)[i - 1] = es[i]
      BY <1>1, <2>3
    <3> QED  BY <2>1, <3>1 DEF Sets
  <2> QED  BY <2>2, <2>3
<1>5. Head(es).op = "Set" => Head(es).val \in Sets(es)
  BY <1>1 DEF Sets
<1> QED  BY <1>1, <1>2, <1>3, <1>4, <1>5

\* An edge leaves a value, and sets only its own.
LEMMA EdgeEffect ==
  ASSUME NEW v \in Vals \cup {NoValue}, NEW e \in Edges
  PROVE  /\ AfterEdge(v, e) \in Vals \cup {NoValue}
         /\ AfterEdge(v, e) \in {v, NoValue} \cup (IF e.op = "Set" THEN {e.val} ELSE {})
         /\ e.op = "Set" => AfterEdge(v, e) = e.val
         /\ e.op # "Set" /\ AfterEdge(v, e) # v => AfterEdge(v, e) = NoValue
BY DEF AfterEdge, Edges

\* The record of a call that goes on with its next edge, or has ended.
LEMMA NextCall ==
  ASSUME NEW r \in Call, r.edges # <<>>
  PROVE  /\ NextEdge(r) \in Call /\ NextEdge(r).edges = Tail(r.edges)
         /\ NextEdge(r).pc \in {"idle", "read"} /\ NextEdge(r).set = {}
         /\ (NextEdge(r).pc = "idle") <=> (NextEdge(r).edges = <<>>)
         /\ Left(NextEdge(r)) = Tail(r.edges)
<1>1. r.edges \in Seq(Edges)
  BY DEF Call
<1>2. Tail(r.edges) \in Seq(Edges) /\ ((Len(r.edges) = 1) <=> (Tail(r.edges) = <<>>))
  BY <1>1, FirstEdge
<1>3. Idle \in Call /\ Idle.pc = "idle" /\ Idle.edges = <<>> /\ Idle.set = {}
  BY DEF Idle, Call
<1>4. CASE Len(r.edges) = 1
  BY Zenon, <1>2, <1>3, <1>4 DEF NextEdge, Left
<1>5. CASE Len(r.edges) # 1
  <2> DEFINE x == [Idle EXCEPT !.pc = "read", !.edges = Tail(r.edges)]
  <2>1. NextEdge(r) = x
    BY <1>5 DEF NextEdge
  <2>2. x \in Call /\ x.pc = "read" /\ x.edges = Tail(r.edges) /\ x.set = {}
    BY Zenon, <1>2, <1>3 DEF Idle, Call
  <2> HIDE DEF x
  <2> QED  BY <1>2, <1>5, <2>1, <2>2 DEF Left
<1> QED  BY <1>4, <1>5

\* A step replaces the record of one writer.
LEMMA PutWriter ==
  ASSUME NEW w \in Writers, writer \in [Writers -> Call], NEW x \in Call,
         writer' = [writer EXCEPT ![w] = x]
  PROVE  /\ writer' \in [Writers -> Call] /\ writer'[w] = x
         /\ \A q \in Writers \ {w} : writer'[q] = writer[q]
OBVIOUS

-----------------------------------------------------------------------------
(* What a step does to the call of its writer *)

\* process hands the next entry to mutate.
LEMMA TakeEntryEffect ==
  ASSUME CallInv, NEW w \in Writers, TakeEntry(w)
  PROVE  /\ next \in 1..Len(log) /\ log[next] \in Seq(Edges) /\ log[next] # <<>>
         /\ next' = next + 1 /\ next' \in 1..high' /\ high' \in 1..Len(log) + 1
         /\ high <= high' /\ (next < high => high' = high) /\ (next = high => high' = next + 1)
         /\ writer' \in [Writers -> Call]
         /\ writer'[w].pc = "read" /\ writer'[w].edges = log[next] /\ writer'[w].set = {}
         /\ writer[w].edges = <<>>
         /\ \A q \in Writers \ {w} : writer'[q] = writer[q]
<1> DEFINE x == [Idle EXCEPT !.pc = "read", !.edges = log[next]]
<1>1. next \in 1..Len(log) /\ log[next] \in Seq(Edges) /\ log[next] # <<>>
  BY DEF TakeEntry, CallInv
<1>2. x \in Call /\ x.pc = "read" /\ x.edges = log[next] /\ x.set = {}
  BY Zenon, <1>1 DEF Idle, Call
<1>3. writer' = [writer EXCEPT ![w] = x] /\ writer \in [Writers -> Call]
  BY DEF TakeEntry, CallInv
<1> HIDE DEF x
<1>4. writer' \in [Writers -> Call] /\ writer'[w] = x
      /\ \A q \in Writers \ {w} : writer'[q] = writer[q]
  BY <1>2, <1>3, PutWriter
<1>5. /\ next' = next + 1 /\ next' \in 1..high' /\ high' \in 1..Len(log) + 1
      /\ high <= high' /\ (next < high => high' = high) /\ (next = high => high' = next + 1)
  BY <1>1 DEF TakeEntry, CallInv
<1>6. writer[w].edges = <<>>
  BY DEF TakeEntry, CallInv
<1> QED  BY <1>1, <1>2, <1>4, <1>5, <1>6

\* AddMutationWithIndex reads the value.
LEMMA ReadValueEffect ==
  ASSUME CallInv, NEW w \in Writers, ReadValue(w)
  PROVE  /\ writer' \in [Writers -> Call]
         /\ writer'[w].pc = "mutate" /\ writer'[w].old = value
         /\ writer'[w].edges = writer[w].edges /\ writer'[w].set = writer[w].set
         /\ writer[w].pc = "read" /\ writer[w].edges # <<>>
         /\ \A q \in Writers \ {w} : writer'[q] = writer[q]
<1> DEFINE x == [writer[w] EXCEPT !.pc = "mutate", !.old = value]
<1>1. writer \in [Writers -> Call] /\ value \in Vals \cup {NoValue}
  BY DEF CallInv
<1>2. x \in Call /\ x.pc = "mutate" /\ x.old = value
      /\ x.edges = writer[w].edges /\ x.set = writer[w].set
  BY Zenon, <1>1 DEF Call
<1>3. writer' = [writer EXCEPT ![w] = x]
  BY Zenon DEF ReadValue
<1> HIDE DEF x
<1>4. writer[w].pc = "read" /\ writer[w].edges # <<>>
  BY DEF ReadValue, CallInv
<1> QED  BY <1>1, <1>2, <1>3, <1>4, PutWriter

\* The mutation of the value, by the first edge that is left.
LEMMA AddMutationEffect ==
  ASSUME CallInv, NEW w \in Writers, AddMutation(w)
  PROVE  \E e \in Edges :
           /\ e = Head(writer[w].edges)
           /\ writer[w].pc = "mutate" /\ writer[w].edges \in Seq(Edges) /\ writer[w].edges # <<>>
           /\ value' = AfterEdge(value, e) /\ ideal' = AfterEdge(ideal, e)
           /\ writer' \in [Writers -> Call]
           /\ \A q \in Writers \ {w} : writer'[q] = writer[q]
           /\ (writer'[w].pc = "idle") <=> (writer'[w].edges = <<>>)
           /\ writer'[w].edges \in {writer[w].edges, Tail(writer[w].edges)}
           /\ Left(writer'[w]) = Tail(writer[w].edges)
           /\ value' = value => writer'[w].pc \in {"idle", "read"} /\ writer'[w].set = {}
           /\ value' # value => /\ writer'[w].pc = "index"
                                /\ writer'[w].del = TokensIn(writer[w].old)
                                /\ writer'[w].set = SetTokens(e)
<1> DEFINE r == writer[w]
           e == Head(r.edges)
           y == [r EXCEPT !.pc = "index", !.del = DelTokens(r, e), !.set = SetTokens(e)]
<1>1. writer \in [Writers -> Call] /\ r \in Call /\ r.pc = "mutate"
      /\ r.edges \in Seq(Edges) /\ r.edges # <<>>
  BY DEF CallInv, AddMutation, Call
<1>2. e \in Edges
  BY <1>1, FirstEdge
<1>3. value' = AfterEdge(value, e) /\ ideal' = AfterEdge(ideal, e)
  BY DEF AddMutation
<1>4. CASE value' = value
  <2>1. writer' = [writer EXCEPT ![w] = NextEdge(r)]
    BY Zenon, <1>3, <1>4 DEF AddMutation
  <2>2. /\ NextEdge(r) \in Call /\ NextEdge(r).edges = Tail(r.edges)
        /\ NextEdge(r).pc \in {"idle", "read"} /\ NextEdge(r).set = {}
        /\ (NextEdge(r).pc = "idle") <=> (NextEdge(r).edges = <<>>)
        /\ Left(NextEdge(r)) = Tail(r.edges)
    BY <1>1, NextCall
  <2>3. /\ writer' \in [Writers -> Call] /\ writer'[w] = NextEdge(r)
        /\ \A q \in Writers \ {w} : writer'[q] = writer[q]
    BY <1>1, <2>1, <2>2, PutWriter
  <2> QED  BY Zenon, <1>1, <1>2, <1>3, <1>4, <2>2, <2>3
<1>5. CASE value' # value
  <2>1. writer' = [writer EXCEPT ![w] = y]
    BY <1>3, <1>5 DEF AddMutation
  <2>2. TokensIn(r.old) \subseteq Tokens /\ SetTokens(e) \subseteq Tokens
    BY <1>1, <1>2, TokensTyped DEF SetTokens, Call, Edges
  <2>3. y \in Call /\ y.pc = "index" /\ y.edges = r.edges /\ y.del = TokensIn(r.old)
        /\ y.set = SetTokens(e)
    BY Zenon, <1>1, <2>2 DEF Call, DelTokens
  <2> HIDE DEF y
  <2>4. /\ writer' \in [Writers -> Call] /\ writer'[w] = y
        /\ \A q \in Writers \ {w} : writer'[q] = writer[q]
    BY <1>1, <2>1, <2>3, PutWriter
  <2> QED  BY <1>1, <1>2, <1>3, <1>5, <2>3, <2>4 DEF Left
<1> QED  BY <1>4, <1>5

\* runMutations gives up: the call has ended.
LEMMA AddMutationFailsEffect ==
  ASSUME CallInv, NEW w \in Writers, AddMutationFails(w)
  PROVE  /\ writer' \in [Writers -> Call] /\ writer'[w] = Idle
         /\ \A q \in Writers \ {w} : writer'[q] = writer[q]
         /\ writer[w].pc = "mutate" /\ "evict" \in faults' /\ faults' = faults \cup {"evict"}
<1>1. Idle \in Call
  BY DEF Idle, Call
<1>2. writer \in [Writers -> Call] /\ writer' = [writer EXCEPT ![w] = Idle]
  BY DEF CallInv, AddMutationFails
<1>3. writer[w].pc = "mutate" /\ faults' = faults \cup {"evict"}
  BY DEF AddMutationFails
<1> QED  BY <1>1, <1>2, <1>3, PutWriter

\* The token is crossed off, in del as long as there are tokens to delete.
LEMMA CrossedOff ==
  ASSUME NEW r \in Call, NEW t
  PROVE  /\ WithoutToken(r, t) \in Call
         /\ WithoutToken(r, t).pc = r.pc /\ WithoutToken(r, t).edges = r.edges
         /\ WithoutToken(r, t).old = r.old
         /\ r.del # {} => /\ WithoutToken(r, t).del = r.del \ {t}
                          /\ WithoutToken(r, t).set = r.set
         /\ r.del = {} => /\ WithoutToken(r, t).del = {}
                          /\ WithoutToken(r, t).set = r.set \ {t}
<1>1. CASE r.del # {}
  <2> DEFINE x == [r EXCEPT !.del = r.del \ {t}]
  <2>1. WithoutToken(r, t) = x
    BY <1>1 DEF WithoutToken, DeleteTurn
  <2>2. x \in Call /\ x.pc = r.pc /\ x.edges = r.edges /\ x.old = r.old
        /\ x.del = r.del \ {t} /\ x.set = r.set
    BY DEF Call
  <2> QED  BY <1>1, <2>1, <2>2
<1>2. CASE r.del = {}
  <2> DEFINE x == [r EXCEPT !.set = r.set \ {t}]
  <2>1. WithoutToken(r, t) = x
    BY <1>2 DEF WithoutToken, DeleteTurn
  <2>2. x \in Call /\ x.pc = r.pc /\ x.edges = r.edges /\ x.old = r.old
        /\ x.set = r.set \ {t} /\ x.del = r.del
    BY DEF Call
  <2> QED  BY <1>2, <2>1, <2>2
<1> QED  BY <1>1, <1>2

(* The turn of token t of writer w is over. *)
TokenDone(w, t) ==
  /\ writer[w].pc = "index" /\ t \in Tokens
  /\ writer' \in [Writers -> Call]
  /\ \A q \in Writers \ {w} : writer'[q] = writer[q]
  /\ writer'[w].pc = "index" /\ writer'[w].edges = writer[w].edges
  /\ \/ /\ t \in writer[w].del
        /\ writer'[w].del = writer[w].del \ {t} /\ writer'[w].set = writer[w].set
     \/ /\ writer[w].del = {} /\ t \in writer[w].set
        /\ writer'[w].del = {} /\ writer'[w].set = writer[w].set \ {t}

\* The mutation of one token's list: deleted while del has tokens, then added.
LEMMA addIndexMutationEffect ==
  ASSUME CallInv, NEW w \in Writers, addIndexMutation(w)
  PROVE  \E t \in Tokens :
           /\ TokenDone(w, t) /\ missed' = missed \ {t}
           /\ writer[w].del # {} => index' = index \ {t}
           /\ writer[w].del = {} => index' = index \cup {t}
<1> DEFINE r == writer[w]
           turn == IF DeleteTurn(r) THEN r.del ELSE r.set
<1>1. writer \in [Writers -> Call] /\ r \in Call /\ r.pc = "index"
      /\ r.del \subseteq Tokens /\ r.set \subseteq Tokens
  BY DEF CallInv, Call, addIndexMutation
<1>2. PICK t \in turn : /\ index' = IF DeleteTurn(r) THEN index \ {t} ELSE index \cup {t}
                        /\ missed' = missed \ {t}
                        /\ writer' = [writer EXCEPT ![w] = WithoutToken(r, t)]
  BY Zenon DEF addIndexMutation
<1>3. t \in Tokens /\ (r.del # {} => t \in r.del) /\ (r.del = {} => t \in r.set)
  BY <1>1 DEF DeleteTurn
<1>4. TokenDone(w, t)
  BY <1>1, <1>2, <1>3, CrossedOff, PutWriter DEF TokenDone
<1> QED  BY <1>2, <1>3, <1>4 DEF DeleteTurn

\* The list of the token was evicted: the error is traced and the loop goes on.
LEMMA addIndexMutationFailsEffect ==
  ASSUME CallInv, NEW w \in Writers, addIndexMutationFails(w)
  PROVE  \E t \in Tokens :
           /\ TokenDone(w, t) /\ missed' = missed \cup {t}
           /\ index' = index /\ faults' = faults \cup {"evict"}
<1> DEFINE r == writer[w]
           turn == IF DeleteTurn(r) THEN r.del ELSE r.set
<1>1. writer \in [Writers -> Call] /\ r \in Call /\ r.pc = "index"
      /\ r.del \subseteq Tokens /\ r.set \subseteq Tokens
  BY DEF CallInv, Call, addIndexMutationFails
<1>2. PICK t \in turn : /\ missed' = missed \cup {t}
                        /\ writer' = [writer EXCEPT ![w] = WithoutToken(r, t)]
  BY Zenon DEF addIndexMutationFails
<1>3. t \in Tokens /\ (r.del # {} => t \in r.del) /\ (r.del = {} => t \in r.set)
  BY <1>1 DEF DeleteTurn
<1>4. TokenDone(w, t)
  BY <1>1, <1>2, <1>3, CrossedOff, PutWriter DEF TokenDone
<1> QED  BY <1>2, <1>3, <1>4 DEF addIndexMutationFails

\* The index is done: the next edge, or the end of the call.
LEMMA IndexDoneEffect ==
  ASSUME CallInv, NEW w \in Writers, IndexDone(w)
  PROVE  /\ writer[w].pc = "index" /\ writer[w].del = {} /\ writer[w].set = {}
         /\ writer[w].edges \in Seq(Edges) /\ writer[w].edges # <<>>
         /\ writer' \in [Writers -> Call]
         /\ \A q \in Writers \ {w} : writer'[q] = writer[q]
         /\ writer'[w].pc \in {"idle", "read"} /\ writer'[w].set = {}
         /\ (writer'[w].pc = "idle") <=> (writer'[w].edges = <<>>)
         /\ writer'[w].edges = Tail(writer[w].edges)
         /\ Left(writer'[w]) = Left(writer[w])
<1>1. /\ writer \in [Writers -> Call] /\ writer[w] \in Call
      /\ writer[w].pc = "index" /\ writer[w].del = {} /\ writer[w].set = {}
      /\ writer[w].edges \in Seq(Edges) /\ writer[w].edges # <<>>
      /\ writer' = [writer EXCEPT ![w] = NextEdge(writer[w])]
  BY DEF CallInv, Call, IndexDone
<1>2. Left(writer[w]) = Tail(writer[w].edges)
  BY <1>1 DEF Left
<1> QED  BY <1>1, <1>2, NextCall, PutWriter

-----------------------------------------------------------------------------
(* The types, and where everything comes from *)

\* The invariant CallInv holds initially.
LEMMA CallInit == ASSUME Init PROVE CallInv
<1>1. PICK m \in 0..MaxEntries : log \in [1..m -> Entries]
  BY DEF Init, SeqsUpTo
<1>2. m \in Nat /\ m <= MaxEntries /\ Len(log) = m
  BY <1>1, IndexAssumption
<1>3. \A es \in Entries : es \in Seq(Edges) /\ es # <<>>
  <2> SUFFICES ASSUME NEW es \in Entries PROVE es \in Seq(Edges) /\ es # <<>>
    OBVIOUS
  <2>1. PICK n \in 0..MaxEdges : es \in [1..n -> Edges]
    BY DEF Entries, SeqsUpTo
  <2>2. n \in Nat
    BY IndexAssumption
  <2> QED  BY <2>1, <2>2 DEF Entries
<1>4. log \in Seq(Seq(Edges)) /\ \A i \in 1..Len(log) : log[i] # <<>>
  BY <1>1, <1>2, <1>3
<1>5. Idle \in Call /\ Idle.pc = "idle" /\ Idle.edges = <<>>
  BY DEF Idle, Call
<1> QED  BY <1>2, <1>4, <1>5 DEF Init, CallInv

\* Every step keeps the types, and the edges that the program counter implies.
LEMMA CallStep == ASSUME CallInv, [Next]_vars PROVE CallInv'
<1>1. ASSUME NEW w \in Writers, TakeEntry(w) PROVE CallInv'
  BY Zenon, <1>1, TakeEntryEffect DEF CallInv, TakeEntry
<1>2. ASSUME NEW w \in Writers, ReadValue(w) PROVE CallInv'
  BY Zenon, <1>2, ReadValueEffect DEF CallInv, ReadValue
<1>3. ASSUME NEW w \in Writers, AddMutation(w) PROVE CallInv'
  <2>1. PICK e \in Edges :
           /\ value' = AfterEdge(value, e)
           /\ writer' \in [Writers -> Call]
           /\ \A q \in Writers \ {w} : writer'[q] = writer[q]
           /\ (writer'[w].pc = "idle") <=> (writer'[w].edges = <<>>)
    BY <1>3, AddMutationEffect
  <2>2. value' \in Vals \cup {NoValue}
    BY <2>1, EdgeEffect DEF CallInv
  <2> QED  BY <1>3, <2>1, <2>2 DEF CallInv, AddMutation
<1>4. ASSUME NEW w \in Writers, AddMutationFails(w) PROVE CallInv'
  <2>1. Idle.pc = "idle" /\ Idle.edges = <<>>
    BY DEF Idle
  <2> QED  BY Zenon, <1>4, <2>1, AddMutationFailsEffect DEF CallInv, AddMutationFails
<1>5. ASSUME NEW w \in Writers, addIndexMutation(w) PROVE CallInv'
  <2>1. PICK t \in Tokens : TokenDone(w, t) /\ missed' = missed \ {t}
                            /\ index' \in {index \ {t}, index \cup {t}}
    BY <1>5, addIndexMutationEffect
  <2>2. index' \subseteq Tokens /\ missed' \subseteq Tokens
    BY <2>1 DEF CallInv
  <2> QED  BY <1>5, <2>1, <2>2 DEF CallInv, addIndexMutation, TokenDone
<1>6. ASSUME NEW w \in Writers, addIndexMutationFails(w) PROVE CallInv'
  <2>1. PICK t \in Tokens : TokenDone(w, t) /\ missed' = missed \cup {t}
                            /\ index' = index /\ faults' = faults \cup {"evict"}
    BY <1>6, addIndexMutationFailsEffect
  <2> QED  BY <1>6, <2>1 DEF CallInv, addIndexMutationFails, TokenDone
<1>7. ASSUME NEW w \in Writers, IndexDone(w) PROVE CallInv'
  BY Zenon, <1>7, IndexDoneEffect DEF CallInv, IndexDone
<1>8. ASSUME CommitValue PROVE CallInv'
  BY <1>8 DEF CallInv, CommitValue
<1>9. ASSUME CommitToken PROVE CallInv'
  BY <1>9 DEF CallInv, CommitToken
<1>10. ASSUME CrashAndRestart PROVE CallInv'
  <2>1. Idle \in Call /\ Idle.pc = "idle" /\ Idle.edges = <<>>
    BY DEF Idle, Call
  <2> QED  BY <1>10, <2>1 DEF CallInv, CrashAndRestart, ReplayFrom
<1>11. ASSUME UNCHANGED vars PROVE CallInv'
  BY <1>11 DEF CallInv, vars
<1> QED  BY <1>1, <1>2, <1>3, <1>4, <1>5, <1>6, <1>7, <1>8, <1>9, <1>10, <1>11 DEF Next

\* An entry that was handed out stays so: high never goes back.
LEMMA EverSetGrows ==
  ASSUME CallInv, [Next]_vars
  PROVE  log' = log /\ high' >= high /\ EverSet \subseteq EverSet'
<1>1. log' = log
  BY Zenon DEF Next, vars, TakeEntry, ReadValue, AddMutation, AddMutationFails, addIndexMutation,
         addIndexMutationFails, IndexDone, CommitValue, CommitToken, CrashAndRestart
<1>2. high' >= high /\ high \in Nat /\ high' \in Nat
  <2>1. ASSUME NEW w \in Writers, TakeEntry(w) PROVE high' >= high
    BY <2>1, TakeEntryEffect DEF CallInv
  <2>2. CASE high' = high
    BY <2>2 DEF CallInv
  <2>3. high' = high \/ \E w \in Writers : TakeEntry(w)
    BY Zenon DEF Next, vars, ReadValue, AddMutation, AddMutationFails, addIndexMutation,
           addIndexMutationFails, IndexDone, CommitValue, CommitToken, CrashAndRestart
  <2>4. CallInv'
    BY CallStep
  <2> QED  BY <2>1, <2>2, <2>3, <2>4 DEF CallInv
<1>3. \A i \in 1..high - 1 : i \in 1..high' - 1
  <2>1. PICK m \in Nat, n \in Nat : m = high /\ n = high' /\ m <= n
    BY <1>2
  <2>2. m <= n
    BY <2>1
  <2>3. \A i \in 1..m - 1 : i \in 1..n - 1
    BY <2>2
  <2> QED  BY Zenon, <2>1, <2>3
<1>4. ASSUME NEW v \in EverSet PROVE v \in EverSet'
  <2>1. PICK i \in 1..high - 1 : v \in Sets(log[i])
    BY <1>4 DEF EverSet
  <2>2. i \in 1..high' - 1 /\ v \in Sets(log'[i])
    BY <1>1, <1>3, <2>1
  <2> QED  BY <2>2 DEF EverSet
<1> QED  BY <1>1, <1>2, <1>4

\* Nothing is in a list or in the store that no entry handed out has set.
LEMMA OriginStep == ASSUME CallInv, OriginInv, [Next]_vars PROVE OriginInv'
<1>1. log' = log /\ EverSet \subseteq EverSet'
  BY EverSetGrows
<1>2. TokensAmong(EverSet) \subseteq TokensAmong(EverSet')
  BY <1>1, TokensGrow
<1>3. /\ {value, valueStore} \ {NoValue} \subseteq EverSet'
      /\ index \cup indexStore \subseteq TokensAmong(EverSet')
      /\ \A w \in Writers : /\ Sets(writer[w].edges) \subseteq EverSet'
                            /\ writer[w].set \subseteq TokensAmong(EverSet')
  BY <1>1, <1>2 DEF OriginInv
<1>4. Sets(<<>>) = {}
  BY DEF Sets
<1>5. ASSUME NEW w \in Writers, TakeEntry(w) PROVE OriginInv'
  <2>1. Sets(log[next]) \subseteq EverSet'
    BY <1>1, <1>5, TakeEntryEffect DEF EverSet, CallInv
  <2> QED  BY Zenon, <1>3, <1>5, <2>1, TakeEntryEffect DEF OriginInv, TakeEntry
<1>6. ASSUME NEW w \in Writers, ReadValue(w) PROVE OriginInv'
  BY Zenon, <1>3, <1>6, ReadValueEffect DEF OriginInv, ReadValue
<1>7. ASSUME NEW w \in Writers, AddMutation(w) PROVE OriginInv'
  <2>1. PICK e \in Edges :
           /\ e = Head(writer[w].edges)
           /\ writer[w].edges \in Seq(Edges) /\ writer[w].edges # <<>>
           /\ value' = AfterEdge(value, e)
           /\ \A q \in Writers \ {w} : writer'[q] = writer[q]
           /\ writer'[w].edges \in {writer[w].edges, Tail(writer[w].edges)}
           /\ writer'[w].set \in {{}, SetTokens(e)}
    BY Zenon, <1>7, AddMutationEffect
  <2>2. /\ Sets(Tail(writer[w].edges)) \subseteq Sets(writer[w].edges)
        /\ e.op = "Set" => e.val \in Sets(writer[w].edges)
    BY <2>1, FirstEdge
  <2>3. e.op = "Set" => e.val \in EverSet'
    BY <1>3, <2>2
  <2>4. SetTokens(e) \subseteq TokensAmong(EverSet')
    BY <2>3 DEF SetTokens, TokensAmong
  <2>5. value' \in {value, NoValue} \cup (IF e.op = "Set" THEN {e.val} ELSE {})
    BY Zenon, <2>1, EdgeEffect DEF CallInv
  <2>6. {value', valueStore'} \ {NoValue} \subseteq EverSet'
    BY <1>3, <1>7, <2>3, <2>5 DEF AddMutation
  <2>7. ASSUME NEW q \in Writers
        PROVE  /\ Sets(writer'[q].edges) \subseteq EverSet'
               /\ writer'[q].set \subseteq TokensAmong(EverSet')
    BY Zenon, <1>3, <2>1, <2>2, <2>4
  <2> QED  BY <1>3, <1>7, <2>6, <2>7 DEF OriginInv, AddMutation
<1>8. ASSUME NEW w \in Writers, AddMutationFails(w) PROVE OriginInv'
  <2>1. Idle.edges = <<>> /\ Idle.set = {}
    BY DEF Idle
  <2> QED  BY <1>3, <1>4, <1>8, <2>1, AddMutationFailsEffect DEF OriginInv, AddMutationFails
<1>9. ASSUME NEW w \in Writers, addIndexMutation(w) PROVE OriginInv'
  <2>1. PICK t \in Tokens :
          /\ TokenDone(w, t)
          /\ writer[w].del # {} => index' = index \ {t}
          /\ writer[w].del = {} => index' = index \cup {t}
    BY <1>9, addIndexMutationEffect
  <2>2. index' \subseteq index \cup writer[w].set
    BY <2>1 DEF TokenDone
  <2> QED  BY <1>3, <1>9, <2>1, <2>2 DEF OriginInv, addIndexMutation, TokenDone
<1>10. ASSUME NEW w \in Writers, addIndexMutationFails(w) PROVE OriginInv'
  <2>1. PICK t \in Tokens : TokenDone(w, t)
    BY <1>10, addIndexMutationFailsEffect
  <2> QED  BY <1>3, <1>10, <2>1 DEF OriginInv, addIndexMutationFails, TokenDone
<1>11. ASSUME NEW w \in Writers, IndexDone(w) PROVE OriginInv'
  <2>1. Sets(Tail(writer[w].edges)) \subseteq Sets(writer[w].edges)
    BY <1>11, IndexDoneEffect, FirstEdge
  <2> QED  BY Zenon, <1>3, <1>11, <2>1, IndexDoneEffect DEF OriginInv, IndexDone
<1>12. ASSUME CommitValue PROVE OriginInv'
  BY <1>3, <1>12 DEF OriginInv, CommitValue
<1>13. ASSUME CommitToken PROVE OriginInv'
  BY <1>3, <1>13 DEF OriginInv, CommitToken
<1>14. ASSUME CrashAndRestart PROVE OriginInv'
  <2>1. Idle.edges = <<>> /\ Idle.set = {}
    BY DEF Idle
  <2> QED  BY <1>3, <1>4, <1>14, <2>1 DEF OriginInv, CrashAndRestart
<1>15. ASSUME UNCHANGED vars PROVE OriginInv'
  BY <1>3, <1>15 DEF OriginInv, vars
<1> QED  BY <1>5, <1>6, <1>7, <1>8, <1>9, <1>10, <1>11, <1>12, <1>13, <1>14, <1>15 DEF Next

-----------------------------------------------------------------------------
(* Replay *)

\* A value is to be set by an entry not yet handed out again, or by a writer.
LEMMA InToBeSet ==
  /\ \A v \in ToBeSet : \/ \E i \in next..high - 1 : v \in Sets(log[i])
                        \/ \E w \in Writers : v \in Sets(Left(writer[w]))
  /\ \A i \in next'..high' - 1 : Sets(log'[i]) \subseteq ToBeSet'
  /\ \A w \in Writers : Sets(Left(writer'[w])) \subseteq ToBeSet'
<1>1. /\ \A v \in Ahead : \E i \in next..high - 1 : v \in Sets(log[i])
      /\ \A i \in next'..high' - 1 : Sets(log'[i]) \subseteq Ahead'
  BY DEF Ahead
<1>2. \A v \in UnderWay : \E w \in Writers : v \in Sets(Left(writer[w]))
  BY DEF UnderWay
<1>3. \A w \in Writers : Sets(Left(writer'[w])) \subseteq UnderWay'
  BY DEF UnderWay
<1> QED  BY <1>1, <1>2, <1>3 DEF ToBeSet

\* What is to be set stays so, but for the values D that the step itself sets.
LEMMA StillToBeSet ==
  ASSUME log' = log, next' = next, high' = high, NEW w \in Writers, NEW D,
         \A q \in Writers \ {w} : writer'[q] = writer[q],
         Sets(Left(writer[w])) \subseteq Sets(Left(writer'[w])) \cup D
  PROVE  ToBeSet \subseteq ToBeSet' \cup D
<1> SUFFICES ASSUME NEW v \in ToBeSet PROVE v \in ToBeSet' \cup D
  OBVIOUS
<1>1. CASE \E i \in next..high - 1 : v \in Sets(log[i])
  BY <1>1, InToBeSet
<1>2. ASSUME NEW q \in Writers, v \in Sets(Left(writer[q])) PROVE v \in ToBeSet' \cup D
  <2>1. CASE q = w
    BY <1>2, <2>1, InToBeSet
  <2>2. CASE q # w
    <3>1. writer'[q] = writer[q]
      BY <2>2
    <3> QED  BY <1>2, <3>1, InToBeSet
  <2> QED  BY <2>1, <2>2
<1> QED  BY <1>1, <1>2, InToBeSet

\* An entry that is handed out is still to be set, by its writer.
LEMMA TakenIsToBeSet ==
  ASSUME CallInv, NEW w \in Writers, TakeEntry(w)
  PROVE  ToBeSet \subseteq ToBeSet'
<1>1. ASSUME NEW i \in next..high - 1
      PROVE  i \in next'..high' - 1 \/ log[i] = Left(writer'[w])
  <2>1. Left(writer'[w]) = log[next] /\ next' = next + 1 /\ high' >= high
        /\ next \in Nat /\ high \in Nat /\ high' \in Nat
    <3>1. next \in Nat /\ high \in Nat
      BY DEF CallInv
    <3> QED  BY <3>1, TakeEntryEffect DEF Left
  <2>2. CASE i = next
    BY <2>1, <2>2
  <2>3. CASE i # next
    <3>1. i \in next + 1..high - 1
      BY <2>1, <2>3
    <3>2. PICK m \in Nat, n \in Nat : m = high /\ n = high' /\ m <= n
      BY <2>1
    <3>3. next \in Nat /\ i \in next + 1..m - 1 /\ m <= n
      BY <2>1, <3>1, <3>2
    <3>4. i \in next + 1..n - 1
      BY <3>3
    <3> QED  BY Zenon, <2>1, <3>2, <3>4
  <2> QED  BY <2>2, <2>3
<1>2. Sets(Left(writer[w])) = {}
  <2>1. Left(writer[w]) = <<>>
    BY Zenon, TakeEntryEffect DEF TakeEntry, Left
  <2> QED  BY <2>1 DEF Sets
<1>3. log' = log /\ \A q \in Writers \ {w} : writer'[q] = writer[q]
  BY TakeEntryEffect DEF TakeEntry
<1> SUFFICES ASSUME NEW v \in ToBeSet PROVE v \in ToBeSet'
  OBVIOUS
<1>4. ASSUME NEW i \in next..high - 1, v \in Sets(log[i]) PROVE v \in ToBeSet'
  BY <1>1, <1>3, <1>4, InToBeSet
<1>5. ASSUME NEW q \in Writers, v \in Sets(Left(writer[q])) PROVE v \in ToBeSet'
  <2>1. q # w
    BY <1>2, <1>5
  <2>2. writer'[q] = writer[q]
    BY <1>3, <2>1
  <2> QED  BY <1>5, <2>2, InToBeSet
<1> QED  BY <1>4, <1>5, InToBeSet

\* A step that neither takes an entry, nor mutates the value, nor restarts,
\* leaves to be set what was.
LEMMA OthersKeepToBeSet ==
  ASSUME CallInv, [Next]_vars, "evict" \notin faults', next' = next, value' = value
  PROVE  \/ ToBeSet \subseteq ToBeSet'
         \/ CrashAndRestart
         \/ \E w \in Writers : AddMutation(w)
<1>1. ASSUME NEW w \in Writers, TakeEntry(w) PROVE FALSE
  BY <1>1, TakeEntryEffect
<1>2. ASSUME NEW w \in Writers, ReadValue(w) PROVE ToBeSet \subseteq ToBeSet'
  <2>1. Left(writer'[w]) = Left(writer[w])
    BY <1>2, ReadValueEffect DEF Left
  <2>2. log' = log /\ next' = next /\ high' = high
    BY <1>2 DEF ReadValue
  <2>3. ToBeSet \subseteq ToBeSet' \cup {}
    BY <1>2, <2>1, <2>2, ReadValueEffect, StillToBeSet
  <2> QED  BY <2>3
<1>3. ASSUME NEW w \in Writers, AddMutationFails(w) PROVE FALSE
  BY <1>3, AddMutationFailsEffect
<1>4. ASSUME NEW w \in Writers, addIndexMutation(w) PROVE ToBeSet \subseteq ToBeSet'
  <2>1. PICK t \in Tokens : TokenDone(w, t)
    BY <1>4, addIndexMutationEffect
  <2>2. Left(writer'[w]) = Left(writer[w])
    BY <2>1 DEF Left, TokenDone
  <2>3. /\ log' = log /\ next' = next /\ high' = high
        /\ \A q \in Writers \ {w} : writer'[q] = writer[q]
    BY <1>4, <2>1 DEF addIndexMutation, TokenDone
  <2>4. ToBeSet \subseteq ToBeSet' \cup {}
    BY <2>2, <2>3, StillToBeSet
  <2> QED  BY <2>4
<1>5. ASSUME NEW w \in Writers, addIndexMutationFails(w) PROVE FALSE
  BY <1>5 DEF addIndexMutationFails
<1>6. ASSUME NEW w \in Writers, IndexDone(w) PROVE ToBeSet \subseteq ToBeSet'
  <2>1. log' = log /\ next' = next /\ high' = high
    BY <1>6 DEF IndexDone
  <2>2. ToBeSet \subseteq ToBeSet' \cup {}
    BY <1>6, <2>1, IndexDoneEffect, StillToBeSet
  <2> QED  BY <2>2
<1>7. ASSUME CommitValue \/ CommitToken \/ UNCHANGED vars PROVE ToBeSet \subseteq ToBeSet'
  BY <1>7 DEF ToBeSet, Ahead, UnderWay, CommitValue, CommitToken, vars
<1> QED  BY <1>1, <1>2, <1>3, <1>4, <1>5, <1>6, <1>7 DEF Next

\* The first edge that is left sets its value, the others are still to come.
LEMMA MutationKeepsToBeSet ==
  ASSUME CallInv, NEW w \in Writers, AddMutation(w), NEW e, e = Head(writer[w].edges)
  PROVE  ToBeSet \subseteq ToBeSet' \cup (IF e.op = "Set" THEN {e.val} ELSE {})
<1>1. /\ writer[w].edges \in Seq(Edges) /\ writer[w].edges # <<>> /\ writer[w].pc = "mutate"
      /\ \A q \in Writers \ {w} : writer'[q] = writer[q]
      /\ Left(writer'[w]) = Tail(writer[w].edges)
  BY AddMutationEffect
<1>2. log' = log /\ next' = next /\ high' = high
  BY DEF AddMutation
<1>3. Left(writer[w]) = writer[w].edges
  BY <1>1 DEF Left
<1>4. Sets(Left(writer[w])) \subseteq
        Sets(Left(writer'[w])) \cup (IF e.op = "Set" THEN {e.val} ELSE {})
  BY <1>1, <1>3, FirstEdge
<1> QED  BY Zenon, <1>1, <1>2, <1>4, StillToBeSet

\* After a restart every entry that was ever handed out is to be set again.
LEMMA RestartSetsAgain ==
  ASSUME CallInv, CrashAndRestart
  PROVE  EverSet \subseteq ToBeSet'
<1> SUFFICES ASSUME NEW v \in EverSet PROVE v \in ToBeSet'
  OBVIOUS
<1>1. PICK i \in 1..high - 1 : v \in Sets(log[i])
  BY DEF EverSet
<1>2. next' = 1 /\ high' = high /\ log' = log
  BY DEF CrashAndRestart, ReplayFrom
<1> QED  BY <1>1, <1>2, InToBeSet

\* A value that is not the ideal one will be: both become what the next edge
\* sets, and the edge that set the value is among those of the replay.
LEMMA IdealStep == ASSUME CallInv, OriginInv, IdealInv, [Next]_vars PROVE IdealInv'
<1> SUFFICES ASSUME "evict" \notin faults'
             PROVE  ideal' \in Vals \cup {NoValue} /\ (value' # ideal' => ToBeSet' # {})
  BY DEF IdealInv
<1>1. "evict" \notin faults
  BY Zenon DEF Next, vars, TakeEntry, ReadValue, AddMutation, AddMutationFails, addIndexMutation,
         addIndexMutationFails, IndexDone, CommitValue, CommitToken, CrashAndRestart
<1>2. ideal \in Vals \cup {NoValue} /\ (value # ideal => ToBeSet # {})
  BY <1>1 DEF IdealInv
<1>3. CASE \E w \in Writers : TakeEntry(w)
  <2>1. PICK w \in Writers : TakeEntry(w)
    BY <1>3
  <2>2. ideal' = ideal /\ value' = value
    BY <2>1 DEF TakeEntry
  <2> QED  BY <1>2, <2>1, <2>2, TakenIsToBeSet
<1>4. CASE \E w \in Writers : AddMutation(w)
  <2>1. PICK w \in Writers : AddMutation(w)
    BY <1>4
  <2>2. PICK e \in Edges : /\ e = Head(writer[w].edges)
                           /\ value' = AfterEdge(value, e) /\ ideal' = AfterEdge(ideal, e)
    BY <2>1, AddMutationEffect
  <2>3. CASE e.op = "Set"
    BY <1>2, <2>2, <2>3, EdgeEffect DEF CallInv
  <2>4. CASE e.op # "Set"
    <3>1. ToBeSet \subseteq ToBeSet'
      BY <2>1, <2>2, <2>4, MutationKeepsToBeSet
    <3>2. ideal' \in Vals \cup {NoValue}
      BY <1>2, <2>2, EdgeEffect
    <3>3. value = ideal => value' = ideal'
      BY <2>2
    <3> QED  BY <1>2, <3>1, <3>2, <3>3
  <2> QED  BY <2>3, <2>4
<1>5. CASE CrashAndRestart
  <2>1. value' = valueStore /\ ideal' = NoValue
    BY <1>5 DEF CrashAndRestart
  <2>2. valueStore # NoValue => EverSet # {}
    BY DEF OriginInv
  <2> QED  BY <1>5, <2>1, <2>2, RestartSetsAgain
<1>6. CASE ~(\E w \in Writers : TakeEntry(w) \/ AddMutation(w)) /\ ~CrashAndRestart
  <2>1. next' = next /\ value' = value /\ ideal' = ideal
    BY Zenon, <1>1, <1>6 DEF Next, vars, ReadValue, AddMutationFails, addIndexMutation,
         addIndexMutationFails, IndexDone, CommitValue, CommitToken
  <2>2. ToBeSet \subseteq ToBeSet'
    BY <1>6, <2>1, OthersKeepToBeSet
  <2> QED  BY <1>2, <2>1, <2>2
<1> QED  BY <1>3, <1>4, <1>5, <1>6

-----------------------------------------------------------------------------
(* The index, where one goroutine applies the entries *)

\* A step of a writer is a step of the only one.
LEMMA OneAtATime ==
  ASSUME OneWriter, NEW w \in Writers
  PROVE  \A q \in Writers : q = w
BY DEF OneWriter

\* The value that AddMutationWithIndex has read is the one that it replaces: no
\* other mutation comes between.
LEMMA OldStep == ASSUME OneWriter, CallInv, OldInv, [Next]_vars PROVE OldInv'
<1>1. ASSUME NEW w \in Writers, TakeEntry(w) PROVE OldInv'
  BY <1>1, OneAtATime, TakeEntryEffect DEF OldInv
<1>2. ASSUME NEW w \in Writers, ReadValue(w) PROVE OldInv'
  BY Zenon, <1>2, OneAtATime, ReadValueEffect DEF OldInv, ReadValue
<1>3. ASSUME NEW w \in Writers, AddMutation(w) PROVE OldInv'
  <2>1. PICK e \in Edges :
           /\ value' = AfterEdge(value, e)
           /\ value' = value => writer'[w].pc \in {"idle", "read"}
           /\ value' # value => writer'[w].pc = "index" /\ writer'[w].set = SetTokens(e)
    BY <1>3, AddMutationEffect
  <2>2. SetTokens(e) \subseteq TokensIn(value')
    BY <2>1, EdgeEffect DEF SetTokens, CallInv
  <2> QED  BY <1>3, <2>1, <2>2, OneAtATime DEF OldInv
<1>4. ASSUME NEW w \in Writers, AddMutationFails(w) PROVE OldInv'
  BY <1>4, OneAtATime, AddMutationFailsEffect DEF OldInv, Idle
<1>5. ASSUME NEW w \in Writers, addIndexMutation(w) PROVE OldInv'
  <2>1. PICK t \in Tokens : TokenDone(w, t)
    BY <1>5, addIndexMutationEffect
  <2> QED  BY <1>5, <2>1, OneAtATime DEF OldInv, TokenDone, addIndexMutation
<1>6. ASSUME NEW w \in Writers, addIndexMutationFails(w) PROVE OldInv'
  <2>1. PICK t \in Tokens : TokenDone(w, t)
    BY <1>6, addIndexMutationFailsEffect
  <2> QED  BY <1>6, <2>1, OneAtATime DEF OldInv, TokenDone, addIndexMutationFails
<1>7. ASSUME NEW w \in Writers, IndexDone(w) PROVE OldInv'
  BY <1>7, OneAtATime, IndexDoneEffect DEF OldInv
<1>8. ASSUME CommitValue \/ CommitToken \/ UNCHANGED vars PROVE OldInv'
  BY <1>8 DEF OldInv, CommitValue, CommitToken, vars
<1>9. ASSUME CrashAndRestart PROVE OldInv'
  BY <1>9 DEF OldInv, CrashAndRestart, Idle
<1> QED  BY <1>1, <1>2, <1>3, <1>4, <1>5, <1>6, <1>7, <1>8, <1>9 DEF Next

\* A token that the value does not have is deleted, or added again by an edge
\* that gives the value this token.
LEMMA StaleStep ==
  ASSUME OneWriter, CallInv, OriginInv, OldInv, StaleInv, [Next]_vars
  PROVE  StaleInv'
<1> SUFFICES ASSUME "evict" \notin faults', NEW t \in index'
             PROVE  \/ t \in TokensIn(value')
                    \/ t \in TokensAmong(ToBeSet')
                    \/ \E w \in Writers : writer'[w].pc = "index" /\ t \in writer'[w].del
  BY DEF StaleInv
<1>1. "evict" \notin faults
  BY Zenon DEF Next, vars, TakeEntry, ReadValue, AddMutation, AddMutationFails, addIndexMutation,
         addIndexMutationFails, IndexDone, CommitValue, CommitToken, CrashAndRestart
<1>2. t \in index =>
        \/ t \in TokensIn(value)
        \/ t \in TokensAmong(ToBeSet)
        \/ \E w \in Writers : writer[w].pc = "index" /\ t \in writer[w].del
  BY <1>1 DEF StaleInv
<1>3. CASE \E w \in Writers : TakeEntry(w)
  <2>1. PICK w \in Writers : TakeEntry(w)
    BY <1>3
  <2>2. TokensAmong(ToBeSet) \subseteq TokensAmong(ToBeSet')
    BY <2>1, TakenIsToBeSet, TokensGrow
  <2>3. value' = value /\ index' = index /\ writer[w].pc = "idle"
    BY <2>1 DEF TakeEntry
  <2> QED  BY <1>2, <2>1, <2>2, <2>3, OneAtATime
<1>4. CASE \E w \in Writers : AddMutation(w)
  <2>1. PICK w \in Writers : AddMutation(w)
    BY <1>4
  <2>2. PICK e \in Edges :
           /\ e = Head(writer[w].edges) /\ writer[w].pc = "mutate"
           /\ value' = AfterEdge(value, e)
           /\ value' # value => /\ writer'[w].pc = "index"
                                /\ writer'[w].del = TokensIn(writer[w].old)
    BY <2>1, AddMutationEffect
  <2>3. writer[w].old = value /\ index' = index
    BY <2>1, <2>2 DEF OldInv, AddMutation
  <2>4. CASE t \in TokensIn(value)
    BY <2>2, <2>3, <2>4
  <2>5. CASE t \in TokensAmong(ToBeSet)
    <3>1. PICK v \in ToBeSet : t \in TokensIn(v)
      BY <2>5 DEF TokensAmong
    <3>2. v \in ToBeSet' \/ (e.op = "Set" /\ v = e.val)
      BY <2>1, <2>2, <3>1, MutationKeepsToBeSet
    <3>3. e.op = "Set" => value' = e.val
      BY <2>2, EdgeEffect DEF CallInv
    <3> QED  BY <3>1, <3>2, <3>3 DEF TokensAmong
  <2> QED  BY <1>2, <2>1, <2>2, <2>3, <2>4, <2>5, OneAtATime
<1>5. CASE CrashAndRestart
  <2>1. t \in TokensAmong(EverSet)
    BY <1>5 DEF OriginInv, CrashAndRestart
  <2> QED  BY <1>5, <2>1, RestartSetsAgain, TokensGrow
<1>6. CASE ~(\E w \in Writers : TakeEntry(w) \/ AddMutation(w)) /\ ~CrashAndRestart
  <2>1. next' = next /\ value' = value
    BY Zenon, <1>1, <1>6 DEF Next, vars, ReadValue, AddMutationFails, addIndexMutation,
         addIndexMutationFails, IndexDone, CommitValue, CommitToken
  <2>2. TokensAmong(ToBeSet) \subseteq TokensAmong(ToBeSet')
    BY <1>6, <2>1, OthersKeepToBeSet, TokensGrow
  <2>3. ASSUME NEW w \in Writers, ReadValue(w) PROVE index' = index /\ writer[w].pc = "read"
    BY <2>3 DEF ReadValue
  <2>4. ASSUME NEW w \in Writers, IndexDone(w) PROVE index' = index /\ writer[w].del = {}
    BY <2>4 DEF IndexDone
  <2>5. ASSUME CommitValue \/ CommitToken \/ UNCHANGED vars
        PROVE  index' = index /\ writer' = writer
    BY <2>5 DEF CommitValue, CommitToken, vars
  <2>6. ASSUME NEW w \in Writers, addIndexMutation(w)
        PROVE  \/ t \in TokensIn(value')
               \/ t \in TokensAmong(ToBeSet')
               \/ \E q \in Writers : writer'[q].pc = "index" /\ t \in writer'[q].del
    <3>1. PICK u \in Tokens :
            /\ TokenDone(w, u)
            /\ writer[w].del # {} => index' = index \ {u}
            /\ writer[w].del = {} => index' = index \cup {u}
      BY <2>6, addIndexMutationEffect
    <3>2. CASE writer[w].del # {}
      <4>1. t \in index /\ t # u /\ writer'[w].pc = "index"
            /\ writer'[w].del = writer[w].del \ {u}
        BY <3>1, <3>2 DEF TokenDone
      <4> QED  BY <1>2, <2>1, <2>2, <2>6, <4>1, OneAtATime
    <3>3. CASE writer[w].del = {}
      <4>1. u \in TokensIn(value)
        BY <3>1, <3>3 DEF TokenDone, OldInv
      <4>2. t = u \/ t \in index
        BY <3>1, <3>3
      <4> QED  BY <1>2, <2>1, <2>2, <2>6, <3>3, <4>1, <4>2, OneAtATime
    <3> QED  BY <3>2, <3>3
  <2>7. ASSUME NEW w \in Writers, AddMutationFails(w) \/ addIndexMutationFails(w) PROVE FALSE
    BY <2>7 DEF AddMutationFails, addIndexMutationFails
  <2> QED  BY <1>2, <1>6, <2>1, <2>2, <2>3, <2>4, <2>5, <2>6, <2>7, OneAtATime DEF Next
<1> QED  BY <1>3, <1>4, <1>5, <1>6

\* Without a crash the index follows the value: what the writer has still to
\* delete or to add, and what an eviction hit, is all that may be wrong.
LEMMA MatchStep ==
  ASSUME OneWriter, CallInv, OldInv, MatchInv, [Next]_vars
  PROVE  MatchInv'
<1> SUFFICES ASSUME "crash" \notin faults' PROVE MatchInv'
  BY DEF MatchInv
<1>1. "crash" \notin faults /\ ~CrashAndRestart
  BY Zenon DEF Next, vars, TakeEntry, ReadValue, AddMutation, AddMutationFails, addIndexMutation,
         addIndexMutationFails, IndexDone, CommitValue, CommitToken, CrashAndRestart
<1>2. /\ \A w \in Writers :
           writer[w].pc = "index" => TokensIn(value) \cap writer[w].del \subseteq writer[w].set
      /\ \A t \in Tokens \ missed :
           \/ t \in index <=> t \in TokensIn(value)
           \/ \E w \in Writers : writer[w].pc = "index" /\ t \in writer[w].del \cup writer[w].set
  BY <1>1 DEF MatchInv
<1>3. ASSUME NEW w \in Writers, TakeEntry(w) PROVE MatchInv'
  <2>1. writer'[w].pc = "read" /\ writer[w].pc = "idle"
        /\ value' = value /\ index' = index /\ missed' = missed
    BY Zenon, <1>3, TakeEntryEffect DEF TakeEntry
  <2> QED  BY <1>2, <1>3, <2>1, OneAtATime DEF MatchInv
<1>4. ASSUME NEW w \in Writers, ReadValue(w) PROVE MatchInv'
  <2>1. writer'[w].pc = "mutate" /\ writer[w].pc = "read"
        /\ value' = value /\ index' = index /\ missed' = missed
    BY Zenon, <1>4, ReadValueEffect DEF ReadValue
  <2> QED  BY <1>2, <1>4, <2>1, OneAtATime DEF MatchInv
<1>5. ASSUME NEW w \in Writers, AddMutation(w) PROVE MatchInv'
  <2>1. PICK e \in Edges :
           /\ writer[w].pc = "mutate" /\ value' = AfterEdge(value, e)
           /\ value' = value => writer'[w].pc \in {"idle", "read"}
           /\ value' # value => /\ writer'[w].pc = "index"
                                /\ writer'[w].del = TokensIn(writer[w].old)
                                /\ writer'[w].set = SetTokens(e)
    BY <1>5, AddMutationEffect
  <2>2. writer[w].old = value /\ index' = index /\ missed' = missed
    BY <1>5, <2>1 DEF OldInv, AddMutation
  <2>3. \A t \in Tokens \ missed : t \in index <=> t \in TokensIn(value)
    BY Zenon, <1>2, <1>5, <2>1, OneAtATime
  <2>4. CASE value' = value
    BY <1>5, <2>1, <2>2, <2>3, <2>4, OneAtATime DEF MatchInv
  <2>5. CASE value' # value
    <3>1. SetTokens(e) = TokensIn(value')
      BY ZenonT(30), <2>1, <2>5, EdgeEffect DEF SetTokens, TokensIn, CallInv
    <3>2. writer'[w].pc = "index" /\ writer'[w].del = TokensIn(value)
          /\ writer'[w].set = TokensIn(value')
      BY <2>1, <2>2, <2>5, <3>1
    <3> QED  BY <1>5, <2>2, <2>3, <3>2, OneAtATime DEF MatchInv
  <2> QED  BY <2>4, <2>5
<1>6. ASSUME NEW w \in Writers, AddMutationFails(w) PROVE MatchInv'
  <2>1. writer'[w].pc = "idle" /\ writer[w].pc = "mutate"
        /\ value' = value /\ index' = index /\ missed' = missed
    BY Zenon, <1>6, AddMutationFailsEffect DEF AddMutationFails, Idle
  <2> QED  BY <1>2, <1>6, <2>1, OneAtATime DEF MatchInv
<1>7. ASSUME NEW w \in Writers, addIndexMutation(w) PROVE MatchInv'
  <2>1. PICK u \in Tokens :
          /\ TokenDone(w, u) /\ missed' = missed \ {u}
          /\ writer[w].del # {} => index' = index \ {u}
          /\ writer[w].del = {} => index' = index \cup {u}
    BY <1>7, addIndexMutationEffect
  <2>2. value' = value /\ writer[w].pc = "index" /\ writer'[w].pc = "index"
    BY <1>7, <2>1 DEF addIndexMutation, TokenDone
  <2>3. TokensIn(value) \cap writer[w].del \subseteq writer[w].set
        /\ writer[w].set \subseteq TokensIn(value)
    BY Zenon, <1>2, <1>7, <2>2 DEF OldInv
  <2>4. ASSUME NEW t \in Tokens \ missed'
        PROVE  \/ t \in index' <=> t \in TokensIn(value)
               \/ t \in writer'[w].del \cup writer'[w].set
    <3>1. t # u => \/ t \in index <=> t \in TokensIn(value)
                   \/ t \in writer[w].del \cup writer[w].set
      BY <1>2, <1>7, <2>1, <2>4, OneAtATime
    <3>2. CASE writer[w].del # {}
      BY <2>1, <2>3, <3>1, <3>2 DEF TokenDone
    <3>3. CASE writer[w].del = {}
      BY <2>1, <2>3, <3>1, <3>3 DEF TokenDone
    <3> QED  BY <3>2, <3>3
  <2>5. TokensIn(value) \cap writer'[w].del \subseteq writer'[w].set
    BY <2>1, <2>3 DEF TokenDone
  <2> QED  BY <1>7, <2>2, <2>4, <2>5, OneAtATime DEF MatchInv
<1>8. ASSUME NEW w \in Writers, addIndexMutationFails(w) PROVE MatchInv'
  <2>1. PICK u \in Tokens : /\ TokenDone(w, u) /\ missed' = missed \cup {u} /\ index' = index
    BY <1>8, addIndexMutationFailsEffect
  <2>2. value' = value /\ writer[w].pc = "index" /\ writer'[w].pc = "index"
    BY <1>8, <2>1 DEF addIndexMutationFails, TokenDone
  <2>3. TokensIn(value) \cap writer[w].del \subseteq writer[w].set
    BY <1>2, <1>8, <2>2
  <2>4. ASSUME NEW t \in Tokens \ missed'
        PROVE  \/ t \in index' <=> t \in TokensIn(value)
               \/ t \in writer'[w].del \cup writer'[w].set
    <3>1. t # u /\ (\/ t \in index <=> t \in TokensIn(value)
                    \/ t \in writer[w].del \cup writer[w].set)
      BY <1>2, <1>8, <2>1, <2>4, OneAtATime
    <3> QED  BY <2>1, <3>1 DEF TokenDone
  <2>5. TokensIn(value) \cap writer'[w].del \subseteq writer'[w].set
    BY <2>1, <2>3 DEF TokenDone
  <2> QED  BY <1>8, <2>2, <2>4, <2>5, OneAtATime DEF MatchInv
<1>9. ASSUME NEW w \in Writers, IndexDone(w) PROVE MatchInv'
  <2>1. writer'[w].pc \in {"idle", "read"} /\ writer[w].del = {} /\ writer[w].set = {}
        /\ value' = value /\ index' = index /\ missed' = missed
    BY Zenon, <1>9, IndexDoneEffect DEF IndexDone
  <2> QED  BY <1>2, <1>9, <2>1, OneAtATime DEF MatchInv
<1>10. ASSUME CommitValue \/ CommitToken \/ UNCHANGED vars PROVE MatchInv'
  <2>1. writer' = writer /\ value' = value /\ index' = index /\ missed' = missed
    BY <1>10 DEF CommitValue, CommitToken, vars
  <2> QED  BY <1>2, <2>1 DEF MatchInv
<1> QED  BY <1>1, <1>3, <1>4, <1>5, <1>6, <1>7, <1>8, <1>9, <1>10 DEF Next

-----------------------------------------------------------------------------
(* The theorems *)

\* Nothing has been set, read or indexed before the first entry.
LEMMA FirstState ==
  ASSUME Init PROVE OriginInv /\ IdealInv /\ OldInv /\ StaleInv /\ MatchInv
<1>1. \A w \in Writers : writer[w] = Idle
  BY DEF Init
<1>2. Sets(<<>>) = {}
  BY DEF Sets
<1>3. OriginInv
  BY <1>1, <1>2 DEF Init, OriginInv, Idle
<1>4. IdealInv
  BY DEF Init, IdealInv
<1>5. OldInv
  BY <1>1 DEF OldInv, Idle
<1>6. StaleInv
  BY DEF Init, StaleInv
<1>7. MatchInv
  BY <1>1 DEF Init, MatchInv, Idle, TokensIn
<1> QED  BY <1>3, <1>4, <1>5, <1>6, <1>7

\* Once the replay has caught up and nothing is being applied, nothing is to be set.
LEMMA NothingToCome ==
  ASSUME CallInv, CaughtUp PROVE ToBeSet = {}
<1>1. Ahead = {}
  <2>1. next..high - 1 = {}
    BY DEF CallInv, CaughtUp
  <2> QED  BY <2>1 DEF Ahead
<1>2. ASSUME NEW w \in Writers PROVE Sets(Left(writer[w])) = {}
  <2>1. writer[w].pc = "idle" /\ writer[w].edges = <<>>
    BY DEF CallInv, CaughtUp
  <2>2. Left(writer[w]) = <<>>
    BY <2>1 DEF Left
  <2> QED  BY <2>2 DEF Sets
<1>3. UnderWay = {}
  BY <1>2 DEF UnderWay
<1> QED  BY <1>1, <1>3 DEF ToBeSet

\* Applying the entries again after a crash (CrashAndRestart: RAFT starts from the
\* first one), over whatever the merges had stored, gives the value that applying
\* each once gives, whether one goroutine applies them or several, as long as no
\* eviction has made AddMutation fail.
THEOREM ReplayGivesTheValue ==
  Spec => [](CaughtUp /\ "evict" \notin faults => value = ideal)
<1>1. Init => CallInv /\ OriginInv /\ IdealInv
  BY CallInit, FirstState
<1>2. CallInv /\ OriginInv /\ IdealInv /\ [Next]_vars => (CallInv /\ OriginInv /\ IdealInv)'
  BY CallStep, OriginStep, IdealStep
<1>3. CallInv /\ IdealInv => (CaughtUp /\ "evict" \notin faults => value = ideal)
  BY NothingToCome DEF IdealInv
<1> QED  BY <1>1, <1>2, <1>3, PTL DEF Spec

\* The same where no list is ever evicted between GetOrCreate and AddMutation: the
\* types too, and convergence without a condition on the past.
THEOREM ReplayAlwaysConverges ==
  ASSUME ~MayEvict PROVE Spec => []ReplayConverges
<1> DEFINE IInv == CallInv /\ OriginInv /\ IdealInv /\ "evict" \notin faults
<1>1. Init => IInv
  <2>1. Init => "evict" \notin faults
    BY DEF Init
  <2> QED  BY <2>1, CallInit, FirstState
<1>2. IInv /\ [Next]_vars => IInv'
  <2> SUFFICES ASSUME IInv, [Next]_vars PROVE IInv'
    OBVIOUS
  <2>1. ASSUME NEW w \in Writers, AddMutationFails(w) \/ addIndexMutationFails(w) PROVE FALSE
    BY <2>1 DEF AddMutationFails, addIndexMutationFails
  <2>2. ASSUME CrashAndRestart PROVE faults' = faults \cup {"crash"}
    BY <2>2 DEF CrashAndRestart
  <2>3. ASSUME NEW w \in Writers,
               TakeEntry(w) \/ ReadValue(w) \/ AddMutation(w) \/ addIndexMutation(w) \/ IndexDone(w)
        PROVE  faults' = faults
    BY <2>3 DEF TakeEntry, ReadValue, AddMutation, addIndexMutation, IndexDone
  <2>4. ASSUME CommitValue \/ CommitToken \/ UNCHANGED vars PROVE faults' = faults
    BY <2>4 DEF CommitValue, CommitToken, vars
  <2>5. faults' = faults \/ faults' = faults \cup {"crash"}
    BY <2>1, <2>2, <2>3, <2>4 DEF Next
  <2>6. "evict" \notin faults'
    BY <2>5
  <2> QED  BY <2>6, CallStep, OriginStep, IdealStep
<1>3. IInv => ReplayConverges
  <2> SUFFICES ASSUME IInv PROVE ReplayConverges
    OBVIOUS
  <2>1. next \in 1..MaxEntries + 1 /\ high \in 1..MaxEntries + 1
    BY IndexAssumption DEF CallInv
  <2>2. TypeOK
    BY <2>1 DEF TypeOK, CallInv, IdealInv, Call
  <2>3. CaughtUp => value = ideal
    BY NothingToCome DEF IdealInv
  <2> QED  BY <2>2, <2>3 DEF ReplayConverges
<1> QED  BY <1>1, <1>2, <1>3, PTL DEF Spec

\* Where one goroutine applies the entries, no crash leaves the entity under a token
\* that its value does not have: a token that came from a list merged before the crash
\* is the token of a value that the replay sets again, and then deletes.
THEOREM ReplayLeavesNoStaleToken ==
  ASSUME OneWriter PROVE Spec => []NoStaleTokens
<1> DEFINE IInv == CallInv /\ OriginInv /\ OldInv /\ StaleInv
<1>1. Init => IInv
  BY CallInit, FirstState
<1>2. IInv /\ [Next]_vars => IInv'
  BY CallStep, OriginStep, OldStep, StaleStep
<1>3. IInv => NoStaleTokens
  <2> SUFFICES ASSUME IInv, CaughtUp, "evict" \notin faults, NEW t \in index
               PROVE  t \in TokensIn(value)
    BY DEF NoStaleTokens
  <2>1. TokensAmong(ToBeSet) = {}
    BY NothingToCome DEF TokensAmong
  <2> QED  BY <2>1 DEF StaleInv, CaughtUp
<1> QED  BY <1>1, <1>2, <1>3, PTL DEF Spec

\* Where one goroutine applies the entries and nothing crashes, the index finds the
\* entity under the tokens of its value and no others, but for tokens whose own list
\* was evicted when addIndexMutation came to it.
THEOREM IndexFollowsTheValue ==
  ASSUME OneWriter PROVE Spec => []IndexMatchesButMissed
<1> DEFINE IInv == CallInv /\ OldInv /\ MatchInv
<1>1. Init => IInv
  BY CallInit, FirstState
<1>2. IInv /\ [Next]_vars => IInv'
  BY CallStep, OldStep, MatchStep
<1>3. IInv => IndexMatchesButMissed
  <2> SUFFICES ASSUME IInv, CaughtUp, "crash" \notin faults
               PROVE  index \ missed = TokensIn(value) \ missed
    BY DEF IndexMatchesButMissed
  <2>1. \A t \in Tokens \ missed : t \in index <=> t \in TokensIn(value)
    BY DEF MatchInv, CaughtUp
  <2>2. index \subseteq Tokens /\ TokensIn(value) \subseteq Tokens
    BY TokensTyped DEF CallInv
  <2> QED  BY <2>1, <2>2
<1> QED  BY <1>1, <1>2, <1>3, PTL DEF Spec

\* Where one goroutine applies the entries, the value that AddMutationWithIndex reads
\* "BEFORE any mutation actually happens" is the one that the mutation replaces.
THEOREM ReadValueIsReplaced ==
  ASSUME OneWriter PROVE Spec => OldValueIsReplaced
<1> DEFINE IInv == CallInv /\ OldInv
<1>1. Init => IInv
  BY CallInit, FirstState
<1>2. IInv /\ [Next]_vars => IInv'
  BY CallStep, OldStep
<1>3. IInv /\ [Next]_vars =>
        [\A w \in Writers :
           writer[w].pc = "mutate" /\ writer'[w].pc = "index" => writer[w].old = value]_vars
  BY DEF OldInv
<1> QED  BY <1>1, <1>2, <1>3, PTL DEF Spec, OldValueIsReplaced
===============================================================================
