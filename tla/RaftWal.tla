------------------------------- MODULE RaftWal -------------------------------
(***************************************************************************)
(* One node's RAFT log on disk: the write-ahead log (raftwal/wal.go), the  *)
(* ready loop that writes it before anything else happens (Run in          *)
(* worker/draft.go) and the restart that reads it back (initFromWal).      *)
(*                                                                         *)
(* The RAFT library is external.  What it may put in a Ready is the action *)
(* Ready: entries that extend the log or replace its uncommitted end, a    *)
(* hard state that never goes back, one vote in a term.  A term and an     *)
(* index determine an entry, so an entry is the pair of them.              *)
(*                                                                         *)
(* Snapshots are left out: their creation is commented out in              *)
(* InitAndStartNode, so no Ready carries one and none is found at restart. *)
(***************************************************************************)
EXTENDS WalConstants, Sequences, FiniteSets, Functions

Entry == [term : 1..MaxTerm, index : 1..MaxIndex]
HardState == [term : 0..MaxTerm, vote : Candidates \cup {NoVote}, commit : 0..MaxIndex]

VARIABLES
  disk,      \* the entries in the store of the wal
  diskHard,  \* the hard state there
  ents,      \* MemoryStorage.ents without its dummy: a sequence of entries
  log,       \* the log as the RAFT library has it: a sequence of terms
  hard,      \* its hard state
  rd,        \* entries of the Ready in hand
  pc,        \* where Run is: "select", "store", "save", "send", "apply", "down"
  stable,    \* history: log as it was when the wal was last written
  votes,     \* history: the votes sent to other nodes, <<term, candidate>>
  applied    \* history: index -> term of the entry last applied there, 0 for none

vars == <<disk, diskHard, ents, log, hard, rd, pc, stable, votes, applied>>

NoHardState == [term |-> 0, vote |-> NoVote, commit |-> 0]

Init ==
  /\ disk = {}
  /\ diskHard = NoHardState
  /\ ents = <<>>
  /\ log = <<>>
  /\ hard = NoHardState
  /\ rd = <<>>
  /\ pc = "select"
  /\ stable = <<>>
  /\ votes = {}
  /\ applied = [i \in 1..MaxIndex |-> 0]

-----------------------------------------------------------------------------
(* The RAFT library *)

TermAt(l, i) == IF i = 0 THEN 0 ELSE l[i]

\* Entries es may follow the first i - 1 entries of log.
Fits(i, es, term) ==
  /\ i + Len(es) - 1 <= MaxIndex
  /\ \A j \in 1..Len(es) : es[j] \in TermAt(log, i - 1)..term
  /\ \A j \in 1..Len(es) - 1 : es[j] <= es[j + 1]
  /\ i <= Len(log) => /\ es[1] # log[i]
                      /\ HigherTermConflicts \/ es[Len(es)] < log[i]

NewHardState(h) ==
  /\ h.term >= hard.term /\ h.commit >= hard.commit
  /\ h.term = hard.term /\ hard.vote # NoVote => h.vote = hard.vote
  /\ h.term = 0 => h.vote = NoVote

Ready ==
  /\ pc = "select"
  /\ \E h \in HardState, i \in hard.commit + 1..Len(log) + 1, n \in 0..2 :
       \E es \in [1..n -> 1..MaxTerm] :
         /\ NewHardState(h)
         /\ n > 0 => Fits(i, es, h.term)
         /\ rd' = [j \in 1..n |-> [term |-> es[j], index |-> i + j - 1]]
         /\ log' = IF n = 0 THEN log ELSE SubSeq(log, 1, i - 1) \o es
         /\ h.commit <= Len(log')
         /\ hard' = h
         /\ h # hard \/ n > 0
  /\ pc' = "store"
  /\ UNCHANGED <<disk, diskHard, ents, stable, votes, applied>>

-----------------------------------------------------------------------------
(* Wal.Store and Wal.Entries.  Keys are ordered by term, then by index.    *)

KeyLess(d, e) == d.term < e.term \/ (d.term = e.term /\ d.index < e.index)

\* Mutant: nothing is deleted.
DeletedNothing(es) == {}

\* The keys from (t, i + 1) on, for the last entry (t, i) of es.
Deleted(es) ==
  IF es = <<>> THEN {}
  ELSE {d \in disk : ~KeyLess(d, [es[Len(es)] EXCEPT !.index = @ + 1])}

\* The entries after the one write batch of Store.
Stored(es) == (disk \cup Range(es)) \ Deleted(es)

\* Mutant: the hard state is written when the commit index has changed.
HardStoredOnCommit(h) == IF h.commit # diskHard.commit THEN h ELSE diskHard

\* Mutant: the commit index is not written.
HardStoredWithoutCommit(h) == [h EXCEPT !.commit = diskHard.commit]

\* The hard state after it.  (An empty one is not written: nothing has changed.)
HardStored(h) == h

\* What an iteration over the keys of the group returns: the i-th entry is the
\* one that has i - 1 keys before it.
Entries(D) ==
  [i \in 1..Cardinality(D) |->
     CHOOSE e \in D : Cardinality({d \in D : KeyLess(d, e)}) = i - 1]

-----------------------------------------------------------------------------
(* MemoryStorage.Append (external): it goes by the first index and the     *)
(* number of the entries, and assumes that they are contiguous.            *)

\* Mutant: what is already there is kept.
AppendAtEnd(old, es) == old \o es

AppendEntries(old, es) ==
  IF es = <<>> THEN old ELSE SubSeq(old, 1, es[1].index - 1) \o es

-----------------------------------------------------------------------------
(* Run: what the loop does with a Ready, in this order *)

WalStore ==
  /\ pc = "store"
  /\ disk' = Stored(rd)
  /\ diskHard' = HardStored(hard)
  /\ stable' = log
  /\ pc' = "save"
  /\ UNCHANGED <<ents, log, hard, rd, votes, applied>>

saveToStorage ==
  /\ pc = "save"
  /\ ents' = AppendEntries(ents, rd)
  /\ pc' = "send"
  /\ UNCHANGED <<disk, diskHard, log, hard, rd, stable, votes, applied>>

\* The vote in the messages of a Ready.
SentVotes(h) == IF h.vote = NoVote THEN {} ELSE {<<h.term, h.vote>>}

SendMessages ==
  /\ pc = "send"
  /\ votes' = votes \cup SentVotes(hard)
  /\ pc' = "apply"
  /\ UNCHANGED <<disk, diskHard, ents, log, hard, rd, stable, applied>>

\* process of the committed entries, and Advance.
ProcessCommitted ==
  /\ pc = "apply"
  /\ applied' = [i \in 1..MaxIndex |-> IF i <= hard.commit THEN log[i] ELSE applied[i]]
  /\ rd' = <<>>
  /\ pc' = "select"
  /\ UNCHANGED <<disk, diskHard, ents, log, hard, stable, votes>>

\* The process stops anywhere; only the disk survives.
Crash ==
  /\ pc # "down"
  /\ pc' = "down"
  /\ ents' = <<>>
  /\ log' = <<>>
  /\ hard' = NoHardState
  /\ rd' = <<>>
  /\ UNCHANGED <<disk, diskHard, stable, votes, applied>>

\* initFromWal, and RestartNode: the library takes the log from the storage,
\* entry i being the i-th.  Its first Ready has all the committed entries again
\* and nothing to store.
Restart ==
  /\ pc = "down"
  /\ ents' = AppendEntries(<<>>, Entries(disk))
  /\ hard' = diskHard
  /\ log' = [i \in 1..Len(ents') |-> ents'[i].term]
  /\ pc' = "apply"
  /\ UNCHANGED <<disk, diskHard, rd, stable, votes, applied>>

Next ==
  \/ Ready \/ WalStore \/ saveToStorage \/ SendMessages \/ ProcessCommitted
  \/ Crash \/ Restart

Spec == Init /\ [][Next]_vars

-----------------------------------------------------------------------------
(* Properties *)

TypeOK ==
  /\ disk \subseteq Entry
  /\ diskHard \in HardState /\ hard \in HardState
  /\ ents \in Seq(Entry) /\ rd \in Seq(Entry)
  /\ log \in Seq(1..MaxTerm) /\ stable \in Seq(1..MaxTerm)
  /\ pc \in {"select", "store", "save", "send", "apply", "down"}
  /\ votes \subseteq (1..MaxTerm) \X Candidates
  /\ applied \in [1..MaxIndex -> 0..MaxTerm]

Indexed(l) == [i \in 1..Len(l) |-> [term |-> l[i], index |-> i]]

\* The wal holds the log and nothing else: Entries gives back, in log order,
\* the log of the last Ready that Store has written.
WalIsLog == Entries(disk) = Indexed(stable)

\* The storage that RAFT reads from is its log, before and after a restart.
StorageIsLog == TypeOK /\ (pc \in {"select", "send", "apply"} => ents = Indexed(log))

\* A node votes for one candidate in a term, restarts included: the vote is
\* on disk before it is sent.
OneVoteInATerm ==
  \A v, w \in votes : v[1] = w[1] => v = w

\* An entry that was applied at an index is the one applied there again after
\* any number of restarts.
AppliedStays ==
  [][\A i \in 1..MaxIndex : applied[i] # 0 => applied'[i] = applied[i]]_vars

\* "Delete all keys above this index": after entries have been stored, no key
\* has an index above the last of them.
NothingAboveLast ==
  pc = "save" /\ rd # <<>> => \A d \in disk : d.index <= rd[Len(rd)].index
=============================================================================
