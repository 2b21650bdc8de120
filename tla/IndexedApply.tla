----------------------------- MODULE IndexedApply -----------------------------
(***************************************************************************)
(* Committed RAFT entries applied to an indexed value (mutate and          *)
(* runMutations of worker/mutation.go, AddMutationWithIndex of             *)
(* posting/index.go), with merges, crashes and replay.                     *)
(*                                                                         *)
(* There is one value, of one entity and one indexed predicate; a value    *)
(* has a set of index tokens, and the list of each token contains the      *)
(* entity or not.  The value's list and the lists of the tokens are merged *)
(* into the store one by one, at any time, so a crash keeps any mixture of *)
(* them.  After a restart RAFT hands all committed entries out again.      *)
(*                                                                         *)
(* Entries are applied by one goroutine per group.  The bulk loader calls  *)
(* AddMutationWithIndex from many: that is the case of several Writers.    *)
(***************************************************************************)
EXTENDS IndexConstants, Sequences

\* The sequences of at most n elements of S.
SeqsUpTo(S, n) == UNION {[1..m -> S] : m \in 0..n}

Edges == [op : {"Set", "Del"}, val : Vals]

\* A task.Mutations: mutate runs its Set edges first.
Entries ==
  {es \in SeqsUpTo(Edges, MaxEdges) :
     /\ es # <<>>
     /\ \A i \in 1..Len(es) - 1 : es[i].op = "Del" => es[i + 1].op = "Del"}

VARIABLES
  log,        \* the committed entries
  next,       \* the next one to apply
  value,      \* the value's list: its value as reads see it, or NoValue
  valueStore, \* ... and in RocksDB
  index,      \* the tokens whose list contains the entity, as reads see them
  indexStore, \* ... and in RocksDB
  writer,     \* writer -> the call it is in
  ideal,      \* history: the value if the entries handed out since the last
              \* start had been applied to an empty list, each once
  high,       \* history: the most entries ever handed out
  missed,     \* history: the tokens whose last mutation failed
  faults      \* history: the kinds of faults there have been

vars == <<log, next, value, valueStore, index, indexStore, writer, ideal, high, missed,
          faults>>

\* edges are left to run; old is what Value returned; del and set are the
\* tokens left to delete and to add.
Idle == [pc |-> "idle", edges |-> <<>>, old |-> NoValue, del |-> {}, set |-> {}]

Init ==
  /\ log \in SeqsUpTo(Entries, MaxEntries)
  /\ next = 1
  /\ value = NoValue /\ valueStore = NoValue
  /\ index = {} /\ indexStore = {}
  /\ writer = [w \in Writers |-> Idle]
  /\ ideal = NoValue
  /\ high = 1
  /\ missed = {}
  /\ faults = {}

TokensIn(v) == IF v = NoValue THEN {} ELSE TokensOf[v]

\* AddMutation on the value's list: all values are under one uid.
AfterEdge(v, e) ==
  IF e.op = "Set" THEN e.val ELSE IF v = e.val THEN NoValue ELSE v

AfterEdges(v, es) ==
  LET after[i \in 0..Len(es)] == IF i = 0 THEN v ELSE AfterEdge(after[i - 1], es[i])
  IN  after[Len(es)]

-----------------------------------------------------------------------------
\* process hands an entry to mutate.
TakeEntry(w) ==
  /\ writer[w].pc = "idle"
  /\ next <= Len(log)
  /\ writer' = [writer EXCEPT ![w] = [Idle EXCEPT !.pc = "read", !.edges = log[next]]]
  /\ next' = next + 1
  /\ high' = IF next' > high THEN next' ELSE high
  /\ UNCHANGED <<log, value, valueStore, index, indexStore, ideal, missed, faults>>

\* "Check last posting for original value BEFORE any mutation actually happens."
ReadValue(w) ==
  /\ writer[w].pc = "read"
  /\ writer' = [writer EXCEPT ![w].pc = "mutate", ![w].old = value]
  /\ UNCHANGED <<log, next, value, valueStore, index, indexStore, ideal, high, missed, faults>>

\* The edge is done: the next one, or the end of the call.
NextEdge(r) ==
  IF Len(r.edges) = 1 THEN Idle
  ELSE [Idle EXCEPT !.pc = "read", !.edges = Tail(r.edges)]

\* Mutant: the old value leaves the index only if the edge deletes it.
DelTokensOnDelete(r, e) == IF e.op = "Del" THEN TokensIn(r.old) ELSE {}

\* What leaves the index, and what enters it.
DelTokens(r, e) == TokensIn(r.old)
SetTokens(e) == IF e.op = "Set" THEN TokensIn(e.val) ELSE {}

\* A mutation that changed nothing does not touch the index.
AddMutation(w) ==
  LET r == writer[w]
      e == Head(r.edges)
      v == AfterEdge(value, e)
  IN  /\ r.pc = "mutate"
      /\ value' = v
      /\ ideal' = AfterEdge(ideal, e)
      /\ writer' = [writer EXCEPT ![w] =
                      IF v = value THEN NextEdge(r)
                      ELSE [r EXCEPT !.pc = "index",
                                     !.del = DelTokens(r, e), !.set = SetTokens(e)]]
      /\ UNCHANGED <<log, next, valueStore, index, indexStore, high, missed, faults>>

\* ErrRetry: runMutations gives the rest of the edges up.
AddMutationFails(w) ==
  /\ MayEvict
  /\ writer[w].pc = "mutate"
  /\ writer' = [writer EXCEPT ![w] = Idle]
  /\ ideal' = AfterEdges(ideal, writer[w].edges)
  /\ faults' = faults \cup {"evict"}
  /\ UNCHANGED <<log, next, value, valueStore, index, indexStore, high, missed>>

\* Mutant: the tokens of the new value are added first.
DeleteTurnLast(r) == r.del # {} /\ r.set = {}

\* addIndexMutations for the old value comes before the one for the new value.
DeleteTurn(r) == r.del # {}

WithoutToken(r, t) ==
  IF DeleteTurn(r) THEN [r EXCEPT !.del = @ \ {t}] ELSE [r EXCEPT !.set = @ \ {t}]

\* The mutation of a token's list.  An error is traced and the loop goes on.
addIndexMutation(w) ==
  LET r == writer[w]
      turn == IF DeleteTurn(r) THEN r.del ELSE r.set
  IN  /\ r.pc = "index"
      /\ \E t \in turn :
           /\ index' = IF DeleteTurn(r) THEN index \ {t} ELSE index \cup {t}
           /\ missed' = missed \ {t}
           /\ writer' = [writer EXCEPT ![w] = WithoutToken(r, t)]
      /\ UNCHANGED <<log, next, value, valueStore, indexStore, ideal, high, faults>>

addIndexMutationFails(w) ==
  LET r == writer[w]
      turn == IF DeleteTurn(r) THEN r.del ELSE r.set
  IN  /\ MayEvict
      /\ r.pc = "index"
      /\ \E t \in turn :
           /\ missed' = missed \cup {t}
           /\ writer' = [writer EXCEPT ![w] = WithoutToken(r, t)]
      /\ faults' = faults \cup {"evict"}
      /\ UNCHANGED <<log, next, value, valueStore, index, indexStore, ideal, high>>

IndexDone(w) ==
  /\ writer[w].pc = "index"
  /\ writer[w].del = {} /\ writer[w].set = {}
  /\ writer' = [writer EXCEPT ![w] = NextEdge(writer[w])]
  /\ UNCHANGED <<log, next, value, valueStore, index, indexStore, ideal, high, missed, faults>>

-----------------------------------------------------------------------------
\* Merges: CommitIfDirty of one list.
CommitValue ==
  /\ valueStore # value
  /\ valueStore' = value
  /\ UNCHANGED <<log, next, value, index, indexStore, writer, ideal, high, missed, faults>>

CommitToken ==
  /\ \E t \in Tokens :
       /\ t \in index <=> t \notin indexStore
       /\ indexStore' = IF t \in index THEN indexStore \cup {t} ELSE indexStore \ {t}
  /\ UNCHANGED <<log, next, value, valueStore, index, writer, ideal, high, missed, faults>>

\* Mutant: after a restart the entries already handed out are not applied.
ReplayFromHigh == high

\* The storage has no snapshot: RAFT starts again from the first entry.
ReplayFrom == 1

CrashAndRestart ==
  /\ MayRestart
  /\ value' = valueStore
  /\ index' = indexStore
  /\ writer' = [w \in Writers |-> Idle]
  /\ next' = ReplayFrom
  /\ ideal' = NoValue
  /\ faults' = faults \cup {"crash"}
  /\ UNCHANGED <<log, valueStore, indexStore, high, missed>>

Next ==
  \/ \E w \in Writers :
       \/ TakeEntry(w) \/ ReadValue(w) \/ AddMutation(w) \/ AddMutationFails(w)
       \/ addIndexMutation(w) \/ addIndexMutationFails(w) \/ IndexDone(w)
  \/ CommitValue \/ CommitToken \/ CrashAndRestart

Spec == Init /\ [][Next]_vars

-----------------------------------------------------------------------------
(* Properties *)

TypeOK ==
  /\ log \in Seq(Seq(Edges))
  /\ next \in 1..MaxEntries + 1 /\ high \in 1..MaxEntries + 1
  /\ value \in Vals \cup {NoValue} /\ valueStore \in Vals \cup {NoValue}
  /\ ideal \in Vals \cup {NoValue}
  /\ index \subseteq Tokens /\ indexStore \subseteq Tokens /\ missed \subseteq Tokens
  /\ faults \subseteq {"crash", "evict"}
  /\ writer \in [Writers ->
       [pc : {"idle", "read", "mutate", "index"}, edges : Seq(Edges),
        old : Vals \cup {NoValue}, del : SUBSET Tokens, set : SUBSET Tokens]]

\* Nothing is being applied, and a restart has caught up with where it was.
CaughtUp == next >= high /\ \A w \in Writers : writer[w].pc = "idle"

\* Applying every entry again, over any mixture of merged lists that a crash
\* leaves, gives the value that applying each entry once gives.  (An eviction
\* makes a replica lose edges: AddMutationFails.)
ReplayConverges == TypeOK /\ (CaughtUp /\ "evict" \notin faults => value = ideal)

\* No crash leaves the entity under a token that its value does not have: what
\* was merged of the index is made up for by the replay.
NoStaleTokens == CaughtUp /\ "evict" \notin faults => index \subseteq TokensIn(value)

\* The index finds the entity under the tokens of its value and no others; what
\* an eviction can cost it is a token whose own list it hit.
IndexMatchesButMissed ==
  CaughtUp /\ "crash" \notin faults => index \ missed = TokensIn(value) \ missed

-----------------------------------------------------------------------------
(* What the code's comments promise and these behaviours do not keep: see   *)
(* the README for the constants that show it.                               *)

\* The index is maintained whatever happens.
IndexMatches == CaughtUp => index = TokensIn(value)

\* A list that was evicted is tried again: "In such a case, retry".
RetriesConverge == CaughtUp => value = ideal

\* The original value, read "BEFORE any mutation actually happens", is the one
\* the mutation replaces.
OldValueIsReplaced ==
  [][\A w \in Writers :
       writer[w].pc = "mutate" /\ writer'[w].pc = "index" => writer[w].old = value]_vars
=============================================================================
