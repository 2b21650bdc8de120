---------------------------- MODULE RaftWalProofs ----------------------------
(***************************************************************************)
(* Proofs about RaftWal, for logs and terms of any length: the votes of a  *)
(* node survive crashes, and so does its log as long as no entry of the    *)
(* log is replaced by one of its term or a later one.                      *)
(***************************************************************************)
EXTENDS RaftWal, FiniteSetTheorems, TLAPS

-----------------------------------------------------------------------------
(* Votes.  None of this depends on the log. *)

(* The hard state on disk is that of the library, but while a Ready waits to be
   stored; no vote was sent that the disk does not have. *)
VoteInv ==
  /\ hard \in HardState /\ diskHard \in HardState
  /\ votes \subseteq (1..MaxTerm) \X Candidates
  /\ pc \in {"save", "send", "apply", "select"} => hard = diskHard
  /\ pc = "store" =>
       /\ hard.term >= diskHard.term
       /\ hard.term = diskHard.term /\ diskHard.vote # NoVote => hard.vote = diskHard.vote
  /\ hard.term = 0 => hard.vote = NoVote
  /\ diskHard.term = 0 => diskHard.vote = NoVote
  /\ pc \in {"store", "save", "send", "apply", "select", "down"}
  /\ \A v \in votes : /\ v[1] <= diskHard.term
                      /\ v[1] = diskHard.term => v[2] = diskHard.vote
  /\ OneVoteInATerm

\* A node that starts for the first time has no hard state and has sent no vote.
LEMMA VoteInit == ASSUME Init PROVE VoteInv
BY WalAssumption DEF Init, VoteInv, HardState, NoHardState, OneVoteInATerm

\* Every step of Run, and a crash at any of them, keeps VoteInv: a vote leaves in
\* SendMessages only after WalStore has put it on disk.
LEMMA VoteStep == ASSUME VoteInv, [Next]_vars PROVE VoteInv'
<1> USE WalAssumption DEF VoteInv
<1>1. ASSUME Ready PROVE VoteInv'
  BY <1>1 DEF Ready, NewHardState, HardState, OneVoteInATerm
<1>2. ASSUME WalStore PROVE VoteInv'
  BY <1>2 DEF WalStore, HardStored, HardState, OneVoteInATerm
<1>3. ASSUME saveToStorage PROVE VoteInv'
  BY <1>3 DEF saveToStorage, OneVoteInATerm
<1>4. ASSUME SendMessages PROVE VoteInv'
  BY <1>4 DEF SendMessages, SentVotes, HardState, OneVoteInATerm
<1>5. ASSUME ProcessCommitted PROVE VoteInv'
  BY <1>5 DEF ProcessCommitted, OneVoteInATerm
<1>6. ASSUME Crash PROVE VoteInv'
  BY <1>6 DEF Crash, NoHardState, HardState, OneVoteInATerm
<1>7. ASSUME Restart PROVE VoteInv'
  BY <1>7 DEF Restart, OneVoteInATerm
<1>8. ASSUME UNCHANGED vars PROVE VoteInv'
  BY <1>8 DEF vars, OneVoteInATerm
<1> QED  BY <1>1, <1>2, <1>3, <1>4, <1>5, <1>6, <1>7, <1>8 DEF Next

(* A node votes once in a term, whatever crashes and restarts come between:
   Run stores the hard state before it sends, and initFromWal reads it back. *)
THEOREM VotesSurviveCrashes == Spec => []OneVoteInATerm
<1>1. Init => VoteInv
  BY VoteInit
<1>2. VoteInv /\ [Next]_vars => VoteInv'
  BY VoteStep
<1>3. VoteInv => OneVoteInATerm
  BY DEF VoteInv
<1> QED  BY <1>1, <1>2, <1>3, PTL DEF Spec
-----------------------------------------------------------------------------
(* The log.  An entry of the library never goes below the term of the one
   before it, so key order is log order. *)
Rising(l) == \A i, j \in 1..Len(l) : i <= j => l[i] <= l[j]
Log == {l \in Seq(1..MaxTerm) : Len(l) <= MaxIndex /\ Rising(l)}
KeysOf(l) == {[term |-> l[i], index |-> i] : i \in 1..Len(l)}

\* What it is to be a log.
LEMMA LogFacts ==
  ASSUME NEW l \in Log
  PROVE  /\ l \in Seq(1..MaxTerm) /\ Len(l) \in Nat /\ Len(l) <= MaxIndex
         /\ l \in [1..Len(l) -> 1..MaxTerm]
         /\ \A k \in 1..Len(l) : l[k] \in Nat
         /\ \A a, b \in 1..Len(l) : a <= b => l[a] <= l[b]
<1>1. l \in Seq(1..MaxTerm) /\ Len(l) <= MaxIndex /\ Rising(l)
  BY DEF Log
<1>2. Len(l) \in Nat /\ l \in [1..Len(l) -> 1..MaxTerm]
  BY WalAssumption DEF Log
<1>3. \A k \in 1..Len(l) : l[k] \in Nat
  BY <1>2, WalAssumption
<1> QED  BY <1>1, <1>2, <1>3 DEF Rising

\* The i-th entry of a log has i - 1 keys before it.
LEMMA KeyRank ==
  ASSUME NEW l \in Log, NEW i \in 1..Len(l)
  PROVE  Cardinality({d \in KeysOf(l) : KeyLess(d, [term |-> l[i], index |-> i])}) = i - 1
<1> DEFINE S == {d \in KeysOf(l) : KeyLess(d, [term |-> l[i], index |-> i])}
           f == [k \in 1..(i - 1) |-> [term |-> l[k], index |-> k]]
<1>1. \A k \in 1..Len(l) :
        KeyLess([term |-> l[k], index |-> k], [term |-> l[i], index |-> i]) <=> k < i
  <2>1. Len(l) \in Nat /\ MaxTerm \in Nat /\ l \in [1..Len(l) -> 1..MaxTerm]
    BY WalAssumption DEF Log
  <2> SUFFICES ASSUME NEW k \in 1..Len(l)
               PROVE  (l[k] < l[i] \/ (l[k] = l[i] /\ k < i)) <=> k < i
    BY DEF KeyLess
  <2>2. l[k] \in Nat /\ l[i] \in Nat /\ k \in Nat /\ i \in Nat
    BY <2>1
  <2>3. (k <= i => l[k] <= l[i]) /\ (i <= k => l[i] <= l[k])
    BY DEF Log, Rising
  <2> QED  BY <2>2, <2>3
<1>2. S = {[term |-> l[k], index |-> k] : k \in 1..(i - 1)}
  BY <1>1 DEF KeysOf
<1>3. f \in Bijection(1..(i - 1), S)
  <2>1. f \in [1..(i - 1) -> S]
    BY <1>2
  <2>2. \A a, b \in 1..(i - 1) : f[a] = f[b] => a = b
    OBVIOUS
  <2>3. \A d \in S : \E k \in 1..(i - 1) : f[k] = d
    BY <1>2
  <2> HIDE DEF f, S
  <2> QED  BY <2>1, <2>2, <2>3 DEF Bijection, Injection, Surjection, IsInjective
<1> HIDE DEF f, S
<1>4. i - 1 \in Nat
  OBVIOUS
<1>5. Cardinality(S) = i - 1
  BY <1>3, <1>4, FS_CountingElements DEF ExistsBijection
<1> QED  BY <1>5 DEF S

\* An iteration over the keys of a log gives back the log.
LEMMA EntriesOfLog ==
  ASSUME NEW l \in Log
  PROVE  Entries(KeysOf(l)) = Indexed(l)
<1> DEFINE D == KeysOf(l)
           f == [k \in 1..Len(l) |-> [term |-> l[k], index |-> k]]
<1>1. Len(l) \in Nat
  BY DEF Log
<1>2. Cardinality(D) = Len(l)
  <2>1. f \in [1..Len(l) -> D]
    BY DEF KeysOf
  <2>2. \A a, b \in 1..Len(l) : f[a] = f[b] => a = b
    OBVIOUS
  <2>3. \A d \in D : \E k \in 1..Len(l) : f[k] = d
    BY DEF KeysOf
  <2> HIDE DEF f, D
  <2>4. f \in Bijection(1..Len(l), D)
    BY <2>1, <2>2, <2>3 DEF Bijection, Injection, Surjection, IsInjective
  <2> QED  BY <1>1, <2>4, FS_CountingElements DEF ExistsBijection
<1>3. ASSUME NEW i \in 1..Len(l)
      PROVE  (CHOOSE e \in D : Cardinality({d \in D : KeyLess(d, e)}) = i - 1)
               = [term |-> l[i], index |-> i]
  <2>1. [term |-> l[i], index |-> i] \in D
    BY DEF KeysOf
  <2>2. Cardinality({d \in D : KeyLess(d, [term |-> l[i], index |-> i])}) = i - 1
    BY KeyRank
  <2>3. ASSUME NEW e \in D, Cardinality({d \in D : KeyLess(d, e)}) = i - 1
        PROVE  e = [term |-> l[i], index |-> i]
    <3>1. PICK k \in 1..Len(l) : e = [term |-> l[k], index |-> k]
      BY DEF KeysOf
    <3>2. Cardinality({d \in D : KeyLess(d, e)}) = k - 1
      BY <3>1, KeyRank
    <3> QED  BY <1>1, <2>3, <3>1, <3>2
  <2> HIDE DEF D
  <2> QED  BY <2>1, <2>2, <2>3
<1> HIDE DEF D
<1>4. Entries(D) = [i \in 1..Len(l) |-> [term |-> l[i], index |-> i]]
  BY <1>2, <1>3 DEF Entries
<1> QED  BY <1>4 DEF D, Indexed

-----------------------------------------------------------------------------
(* What the wal has, at every step of Run: the log of the last Ready stored.
   While a Ready waits to be stored, storing it would leave the new log; what
   was committed is the same in both logs. *)
DiskInv ==
  /\ stable \in Log /\ log \in Log
  /\ disk = KeysOf(stable)
  /\ pc \in {"select", "save", "send", "apply"} => log = stable
  /\ pc = "store" => Stored(rd) = KeysOf(log)

StorageInv ==
  /\ ents \in Seq(Entry) /\ rd \in Seq(Entry)
  /\ pc \in {"store", "save"} => AppendEntries(ents, rd) = Indexed(log)
  /\ pc \in {"select", "send", "apply"} => ents = Indexed(log)
  /\ pc = "down" => rd = <<>>

CommitInv ==
  /\ pc # "down" => hard.commit <= Len(log)
  /\ diskHard.commit <= Len(stable)
  /\ pc = "store" => /\ hard.commit >= diskHard.commit
                     /\ \A i \in 1..diskHard.commit : log[i] = stable[i]
  /\ applied \in [1..MaxIndex -> 0..MaxTerm]
  /\ \A i \in 1..MaxIndex : applied[i] # 0 => i <= diskHard.commit /\ applied[i] = stable[i]

Inv == VoteInv /\ DiskInv /\ StorageInv /\ CommitInv

\* A log whose end is replaced, as in a Ready.
LEMMA NewLog ==
  ASSUME NEW l \in Log, NEW i \in 1..Len(l) + 1, NEW n \in 1..2,
         NEW es \in [1..n -> 1..MaxTerm],
         i + n - 1 <= MaxIndex,
         \A j \in 1..n : es[j] >= TermAt(l, i - 1),
         \A j \in 1..n - 1 : es[j] <= es[j + 1]
  PROVE  LET new == SubSeq(l, 1, i - 1) \o es IN
           /\ new \in Log
           /\ Len(new) = i + n - 1
           /\ \A k \in 1..Len(new) : new[k] = IF k < i THEN l[k] ELSE es[k - i + 1]
<1> DEFINE new == SubSeq(l, 1, i - 1) \o es
<1> USE WalAssumption
<1>1. /\ Len(l) \in Nat /\ i \in Nat /\ n \in Nat /\ MaxIndex \in Nat
      /\ l \in Seq(1..MaxTerm)
  BY DEF Log
<1>2. es \in Seq(1..MaxTerm) /\ Len(es) = n
  BY <1>1
<1>3. SubSeq(l, 1, i - 1) \in Seq(1..MaxTerm) /\ Len(SubSeq(l, 1, i - 1)) = i - 1
  BY <1>1
<1>4. new \in Seq(1..MaxTerm) /\ Len(new) = i + n - 1
  BY <1>1, <1>2, <1>3
<1>5. \A k \in 1..Len(new) : new[k] = IF k < i THEN l[k] ELSE es[k - i + 1]
  BY <1>1, <1>2, <1>3, <1>4
<1>6. ASSUME NEW a \in 1..Len(new), NEW b \in 1..Len(new), a <= b
      PROVE  new[a] <= new[b]
  <2> HIDE DEF new
  <2>1. \A j \in 1..Len(l) : l[j] \in Nat
    BY SMTT(30), <1>1
  <2>2. \A j \in 1..n : es[j] \in Nat
    OBVIOUS
  <2>3. CASE b < i
    <3>1. a \in 1..Len(l) /\ b \in 1..Len(l) /\ a < i
      BY <1>1, <1>4, <1>6, <2>3
    <3>2. new[a] = l[a] /\ new[b] = l[b]
      BY <1>5, <2>3, <3>1
    <3> QED  BY <1>6, <3>1, <3>2, LogFacts
  <2>4. CASE a < i /\ b >= i
    <3>1. a \in 1..Len(l) /\ i - 1 \in 1..Len(l) /\ a <= i - 1 /\ b - i + 1 \in 1..n
      BY <1>1, <1>4, <2>4
    <3>2. l[a] <= l[i - 1]
      BY <3>1, LogFacts
    <3>3. l[i - 1] <= es[b - i + 1]
      BY SMTT(30), <1>1, <3>1 DEF TermAt
    <3>4. new[a] = l[a] /\ new[b] = es[b - i + 1]
      BY <1>1, <1>5, <2>4
    <3>5. l[a] \in Nat /\ l[i - 1] \in Nat /\ es[b - i + 1] \in Nat
      BY <2>1, <2>2, <3>1
    <3> QED  BY <3>2, <3>3, <3>4, <3>5
  <2>5. CASE a >= i
    <3>1. es[a - i + 1] <= es[b - i + 1]
      <4>1. a - i + 1 \in 1..n /\ b - i + 1 \in 1..n /\ a - i + 1 <= b - i + 1
        BY <1>1, <1>4, <1>6, <2>5
      <4>2. \A c, d \in 1..n : c <= d => es[c] <= es[d]
        BY SMTT(30), <2>2
      <4> QED  BY <4>1, <4>2
    <3> QED  BY SMTT(30), <1>1, <1>4, <1>5, <1>6, <2>5, <3>1
  <2> QED  BY <1>1, <1>4, <2>3, <2>4, <2>5
<1>7. Rising(new)
  BY Zenon, <1>6 DEF Rising
<1>8. new \in Log
  BY Zenon, <1>1, <1>4, <1>7 DEF Log
<1> QED  BY <1>4, <1>5, <1>8

\* Store of a Ready leaves the keys of the new log: the entries that it replaces
\* are in later terms than the last one written, so they are deleted.
LEMMA StoredKeys ==
  ASSUME NEW l \in Log, NEW new \in Log, NEW i \in 1..Len(l) + 1, NEW n \in 1..2,
         NEW es \in [1..n -> 1..MaxTerm],
         Len(new) = i + n - 1,
         \A k \in 1..Len(new) : new[k] = IF k < i THEN l[k] ELSE es[k - i + 1],
         i <= Len(l) => es[n] < l[i],
         disk = KeysOf(l)
  PROVE  Stored([j \in 1..n |-> [term |-> es[j], index |-> i + j - 1]]) = KeysOf(new)
<1> DEFINE r == [j \in 1..n |-> [term |-> es[j], index |-> i + j - 1]]
<1> USE WalAssumption
<1>1. /\ Len(l) \in Nat /\ i \in Nat /\ n \in Nat /\ Len(new) \in Nat
      /\ l \in [1..Len(l) -> 1..MaxTerm] /\ new \in [1..Len(new) -> 1..MaxTerm]
      /\ n \in 1..n /\ es[n] \in Nat
  <2>1. Len(l) \in Nat /\ Len(new) \in Nat
    BY LogFacts
  <2>2. l \in [1..Len(l) -> 1..MaxTerm] /\ new \in [1..Len(new) -> 1..MaxTerm]
    BY Zenon, LogFacts
  <2>3. i \in Nat /\ n \in Nat /\ n \in 1..n
    BY <2>1
  <2>4. es[n] \in Nat
    BY <2>3
  <2> QED  BY <2>1, <2>2, <2>3, <2>4
<1>2. \A k \in 1..Len(l) : k < i => new[k] = l[k]
  BY <1>1
<1>3. \A j \in 1..n : new[i + j - 1] = es[j]
  BY <1>1
<1>4. r # <<>> /\ r[Len(r)] = [term |-> es[n], index |-> i + n - 1]
  <2>1. r \in Seq([term : Nat, index : Nat]) /\ Len(r) = n
    BY <1>1
  <2>2. r # <<>> /\ r[Len(r)] = r[n]
    <3> HIDE DEF r
    <3>1. n # 0
      BY <1>1
    <3> QED  BY <2>1, <3>1
  <2> QED  BY Zenon, <1>1, <2>2
<1>5. Range(r) = {[term |-> new[k], index |-> k] : k \in i..Len(new)}
  <2>1. Range(r) = {[term |-> es[j], index |-> i + j - 1] : j \in 1..n}
    BY <1>1 DEF Range
  <2>2. ASSUME NEW j \in 1..n
        PROVE  \E k \in i..Len(new) :
                    [term |-> es[j], index |-> i + j - 1] = [term |-> new[k], index |-> k]
    BY <1>1, <1>3
  <2>3. ASSUME NEW k \in i..Len(new)
        PROVE  \E j \in 1..n :
                    [term |-> es[j], index |-> i + j - 1] = [term |-> new[k], index |-> k]
    <3>1. k - i + 1 \in 1..n /\ i + (k - i + 1) - 1 = k
      BY <1>1
    <3>2. es[k - i + 1] = new[k]
      BY <1>1, <3>1
    <3> QED  BY Zenon, <3>1, <3>2
  <2> HIDE DEF r
  <2>4. \A d \in Range(r) : \E k \in i..Len(new) : d = [term |-> new[k], index |-> k]
    BY <2>1, <2>2
  <2>5. \A k \in i..Len(new) : [term |-> new[k], index |-> k] \in Range(r)
    BY Zenon, <2>1, <2>3
  <2> QED  BY Zenon, <2>4, <2>5
<1>6. Deleted(r) = {d \in disk : d.term > es[n] \/ (d.term = es[n] /\ d.index >= i + n)}
  <2>1. [r[Len(r)] EXCEPT !.index = @ + 1] = [term |-> es[n], index |-> i + n]
    <3>1. i + n - 1 + 1 = i + n
      BY <1>1
    <3> HIDE DEF r
    <3> QED  BY <1>4, <3>1
  <2>2. \A d \in disk : d.term \in Nat /\ d.index \in Nat
    BY SMTT(30), <1>1 DEF KeysOf
  <2> HIDE DEF r
  <2> QED  BY SMTT(30), <1>1, <1>4, <2>1, <2>2 DEF Deleted, KeyLess
<1>7. \A k \in 1..Len(l) : [term |-> l[k], index |-> k] \in Deleted(r) <=> k >= i
  <2> SUFFICES ASSUME NEW k \in 1..Len(l)
               PROVE  (l[k] > es[n] \/ (l[k] = es[n] /\ k >= i + n)) <=> k >= i
    BY Zenon, <1>6 DEF KeysOf
  <2>1. l[k] \in Nat /\ es[n] \in Nat /\ k \in Nat
    <3>1. l[k] \in Nat
      BY LogFacts
    <3> QED  BY <1>1, <3>1
  <2>2. CASE k >= i
    <3>1. es[n] < l[i] /\ l[i] <= l[k] /\ l[i] \in Nat
      <4>1. i \in 1..Len(l) /\ i <= k
        BY <1>1, <2>2
      <4>2. l[i] \in Nat /\ l[i] <= l[k]
        BY <4>1, LogFacts
      <4> QED  BY <1>1, <4>1, <4>2
    <3> QED  BY SMTT(30), <2>1, <2>2, <3>1
  <2>3. CASE k < i
    <3>1. new[k] <= new[Len(new)] /\ new[Len(new)] = es[n] /\ new[k] = l[k]
      <4>1. k \in 1..Len(new) /\ Len(new) \in 1..Len(new) /\ k <= Len(new) /\ ~(Len(new) < i)
        BY <1>1, <2>3
      <4>2. Len(new) - i + 1 = n
        BY <1>1
      <4> QED  BY Zenon, <2>3, <4>1, <4>2, LogFacts
    <3> QED  BY <1>1, <2>1, <2>3, <3>1
  <2> QED  BY <1>1, <2>1, <2>2, <2>3
<1>8. \A k \in i..Len(new) : [term |-> new[k], index |-> k] \notin Deleted(r)
  <2> SUFFICES ASSUME NEW k \in i..Len(new), [term |-> new[k], index |-> k] \in Deleted(r)
               PROVE  FALSE
    BY Zenon
  <2>1. k \in 1..Len(l) /\ new[k] = l[k]
    BY SMTT(30), <1>6 DEF KeysOf
  <2>2. new[k] <= new[Len(new)] /\ new[Len(new)] = es[n]
    <3>1. k \in 1..Len(new) /\ Len(new) \in 1..Len(new) /\ k <= Len(new) /\ ~(Len(new) < i)
      BY <1>1
    <3>2. Len(new) - i + 1 = n
      BY <1>1
    <3> QED  BY Zenon, <3>1, <3>2, LogFacts
  <2>3. es[n] < l[i] /\ l[i] <= l[k] /\ l[i] \in Nat /\ l[k] \in Nat /\ es[n] \in Nat
    <3>1. i \in 1..Len(l) /\ i <= k
      BY <1>1, <2>1
    <3>2. l[i] \in Nat /\ l[k] \in Nat /\ l[i] <= l[k]
      BY <2>1, <3>1, LogFacts
    <3> QED  BY SMTT(30), <1>1, <3>1, <3>2
  <2>4. l[k] <= es[n]
    BY <2>1, <2>2
  <2> QED  BY SMTT(30), <2>3, <2>4
<1> HIDE DEF r
<1>9. KeysOf(new) \subseteq Stored(r)
  <2> SUFFICES ASSUME NEW k \in 1..Len(new)
               PROVE  [term |-> new[k], index |-> k] \in Stored(r)
    BY DEF KeysOf
  <2>1. CASE k < i
    <3>1. k \in 1..Len(l) /\ new[k] = l[k]
      BY SMTT(30), <1>1, <2>1
    <3> QED  BY <1>1, <1>7, <2>1, <3>1 DEF Stored, KeysOf
  <2>2. CASE k >= i
    BY <1>1, <1>5, <1>8, <2>2 DEF Stored
  <2> QED  BY <1>1, <2>1, <2>2
<1>10. Stored(r) \subseteq KeysOf(new)
  <2> SUFFICES ASSUME NEW d \in Stored(r)
               PROVE  d \in KeysOf(new)
    OBVIOUS
  <2>1. CASE d \in Range(r)
    BY <1>1, <1>5, <2>1 DEF KeysOf
  <2>2. CASE d \in disk
    <3>1. PICK k \in 1..Len(l) : d = [term |-> l[k], index |-> k]
      BY <2>2 DEF KeysOf
    <3>2. k < i
      BY <1>1, <1>7, <3>1 DEF Stored
    <3> QED  BY SMTT(30), <1>1, <1>2, <3>1, <3>2 DEF KeysOf
  <2> QED  BY <2>1, <2>2 DEF Stored
<1>11. Stored(r) = KeysOf(new)
  BY Zenon, <1>9, <1>10
<1> QED  BY <1>11 DEF r

-----------------------------------------------------------------------------
(* What the RAFT library may hand over next. *)
LEMMA ReadyStep ==
  ASSUME Inv, ~HigherTermConflicts, Ready
  PROVE  /\ log' \in Log /\ rd' \in Seq(Entry) /\ hard' \in HardState
         /\ Stored(rd') = KeysOf(log')
         /\ AppendEntries(ents, rd') = Indexed(log')
         /\ hard'.commit <= Len(log') /\ hard'.commit >= hard.commit
         /\ \A k \in 1..hard.commit : log'[k] = log[k]
         /\ pc = "select" /\ pc' = "store"
         /\ UNCHANGED <<disk, diskHard, ents, stable, votes, applied>>
<1> USE WalAssumption
<1>1. PICK h \in HardState, i \in hard.commit + 1..Len(log) + 1, n \in 0..2 :
        \E es \in [1..n -> 1..MaxTerm] :
         /\ NewHardState(h)
         /\ n > 0 => Fits(i, es, h.term)
         /\ rd' = [j \in 1..n |-> [term |-> es[j], index |-> i + j - 1]]
         /\ log' = IF n = 0 THEN log ELSE SubSeq(log, 1, i - 1) \o es
         /\ h.commit <= Len(log')
         /\ hard' = h
         /\ h # hard \/ n > 0
  BY Zenon DEF Ready
<1>2. PICK es \in [1..n -> 1..MaxTerm] :
         /\ NewHardState(h)
         /\ n > 0 => Fits(i, es, h.term)
         /\ rd' = [j \in 1..n |-> [term |-> es[j], index |-> i + j - 1]]
         /\ log' = IF n = 0 THEN log ELSE SubSeq(log, 1, i - 1) \o es
         /\ h.commit <= Len(log')
         /\ hard' = h
  BY SMTT(30), <1>1
<1>3. /\ pc = "select" /\ pc' = "store" /\ hard' \in HardState
      /\ hard'.commit <= Len(log') /\ hard'.commit >= hard.commit
      /\ UNCHANGED <<disk, diskHard, ents, stable, votes, applied>>
  BY <1>2 DEF Ready, NewHardState
<1>4. /\ log \in Log /\ disk = KeysOf(log) /\ ents = Indexed(log)
      /\ hard.commit \in Nat /\ hard.commit <= Len(log) /\ ents \in Seq(Entry)
  BY <1>3 DEF Inv, VoteInv, DiskInv, StorageInv, CommitInv, HardState
<1>5. Len(log) \in Nat /\ log \in Seq(1..MaxTerm) /\ Len(log) <= MaxIndex
  BY <1>4, LogFacts
<1>6. i \in 1..Len(log) + 1 /\ i \in Nat /\ hard.commit < i /\ i <= Len(log) + 1
  BY <1>4, <1>5
<1>7. CASE n = 0
  <2>1. rd' = <<>> /\ log' = log
    BY <1>2, <1>7
  <2>2. Stored(<<>>) = disk
    BY DEF Stored, Deleted, Range
  <2> QED  BY <1>3, <1>4, <2>1, <2>2 DEF AppendEntries
<1>8. CASE n > 0
  <2> DEFINE new == SubSeq(log, 1, i - 1) \o es
             r == [j \in 1..n |-> [term |-> es[j], index |-> i + j - 1]]
  <2>1. n \in 1..2 /\ log' = new /\ rd' = r
    BY <1>2, <1>8
  <2>2. Len(es) = n /\ n \in 1..n
    BY <2>1
  <2>3. /\ i + n - 1 <= MaxIndex
        /\ \A j \in 1..n : es[j] >= TermAt(log, i - 1)
        /\ \A j \in 1..n - 1 : es[j] <= es[j + 1]
        /\ i <= Len(log) => es[n] < log[i]
    <3>1. Fits(i, es, h.term)
      BY <1>2, <1>8
    <3>2. es[Len(es)] = es[n]
      BY <2>2
    <3>3. h.term \in Int /\ TermAt(log, i - 1) \in Int
      BY <1>4, <1>6, LogFacts DEF HardState, TermAt
    <3> QED  BY <2>2, <3>1, <3>2, <3>3 DEF Fits
  <2> HIDE DEF new, r
  <2>4. /\ new \in Log
        /\ Len(new) = i + n - 1
        /\ \A k \in 1..Len(new) : new[k] = IF k < i THEN log[k] ELSE es[k - i + 1]
    BY ZenonT(60), <1>4, <1>6, <2>1, <2>3, NewLog DEF new
  <2>5. Stored(r) = KeysOf(new)
    BY ZenonT(60), <1>4, <1>6, <2>1, <2>3, <2>4, StoredKeys DEF r
  <2>6. r \in Seq(Entry) /\ r # <<>> /\ r[1].index = i /\ Len(r) = n
    <3>1. \A j \in 1..n : [term |-> es[j], index |-> i + j - 1] \in Entry
      BY <1>5, <1>6, <2>1, <2>3 DEF Entry
    <3>2. r \in Seq(Entry) /\ Len(r) = n
      BY <2>1, <3>1 DEF r
    <3>3. r[1] = [term |-> es[1], index |-> i + 1 - 1]
      BY <2>1 DEF r
    <3>4. r[1].index = i
      BY <1>6, <3>3
    <3> QED  BY <2>1, <3>2, <3>4
  <2>7. AppendEntries(ents, r) = Indexed(new)
    <3>1. ents \in Seq(Entry) /\ Len(ents) = Len(log)
      BY <1>4, <1>5 DEF Indexed
    <3>2. /\ SubSeq(ents, 1, i - 1) \in Seq(Entry) /\ Len(SubSeq(ents, 1, i - 1)) = i - 1
          /\ \A k \in 1..i - 1 : SubSeq(ents, 1, i - 1)[k] = ents[k]
      BY <1>5, <1>6, <3>1
    <3>3. AppendEntries(ents, r) = SubSeq(ents, 1, i - 1) \o r
      BY Zenon, <2>6 DEF AppendEntries
    <3>4. /\ SubSeq(ents, 1, i - 1) \o r \in Seq(Entry)
          /\ Len(SubSeq(ents, 1, i - 1) \o r) = i + n - 1
      BY SMTT(30), <1>5, <1>6, <2>1, <2>6, <3>2
    <3>5. ASSUME NEW k \in 1..i + n - 1
          PROVE  (SubSeq(ents, 1, i - 1) \o r)[k] = [term |-> new[k], index |-> k]
      <4>0. k \in Nat /\ k <= i + n - 1 /\ n \in Nat
        BY <1>6, <2>1
      <4> DEFINE q == SubSeq(ents, 1, i - 1)
      <4> HIDE DEF q
      <4>1. CASE k < i
        <5>1. (q \o r)[k] = ents[k]
          <6>1. k \in 1..i - 1
            BY <1>6, <4>0, <4>1
          <6>2. q \in Seq(Entry) /\ Len(q) = i - 1 /\ q[k] = ents[k]
            BY <3>2, <6>1 DEF q
          <6> QED  BY <1>6, <2>6, <6>1, <6>2
        <5>2. ents[k] = [term |-> log[k], index |-> k]
          <6>1. k \in 1..Len(log)
            BY <1>5, <1>6, <4>0, <4>1
          <6> QED  BY <1>4, <6>1 DEF Indexed
        <5>3. new[k] = log[k]
          BY <2>4, <4>1
        <5> QED  BY Zenon, <5>1, <5>2, <5>3 DEF q
      <4>2. CASE k >= i
        <5>1. (q \o r)[k] = r[k - i + 1]
          <6>1. q \in Seq(Entry) /\ Len(q) = i - 1
            BY <3>2 DEF q
          <6>2. k - (i - 1) = k - i + 1 /\ k > i - 1 /\ k <= (i - 1) + n
            BY <1>6, <4>0, <4>2
          <6>3. k \in 1..Len(q) + Len(r) /\ ~(k <= Len(q)) /\ k - Len(q) = k - i + 1
            BY <1>6, <2>6, <4>0, <6>1, <6>2
          <6> HIDE DEF q
          <6>4. (q \o r)[k] = r[k - Len(q)]
            BY <2>6, <6>1, <6>3
          <6> QED  BY SMTT(30), <6>3, <6>4
        <5>2. r[k - i + 1] = [term |-> es[k - i + 1], index |-> k]
          BY <1>5, <1>6, <2>1, <4>2 DEF r
        <5>3. new[k] = es[k - i + 1]
          BY <1>5, <1>6, <2>1, <2>4, <4>2
        <5> QED  BY Zenon, <5>1, <5>2, <5>3 DEF q
      <4>3. k < i \/ k >= i
        BY <1>6, <4>0
      <4> QED  BY Zenon, <4>1, <4>2, <4>3
    <3>6. SubSeq(ents, 1, i - 1) \o r = [k \in 1..i + n - 1 |-> [term |-> new[k], index |-> k]]
      <4> DEFINE q == SubSeq(ents, 1, i - 1) \o r
      <4> HIDE DEF q
      <4>1. q \in Seq(Entry) /\ Len(q) = i + n - 1
        BY <3>4 DEF q
      <4>2. q = [k \in 1..i + n - 1 |-> q[k]]
        BY <4>1
      <4>3. \A k \in 1..i + n - 1 : q[k] = [term |-> new[k], index |-> k]
        BY Zenon, <3>5 DEF q
      <4>4. q = [k \in 1..i + n - 1 |-> [term |-> new[k], index |-> k]]
        BY <4>2, <4>3
      <4> QED  BY Zenon, <4>4 DEF q
    <3> QED  BY Zenon, <2>4, <3>3, <3>6 DEF Indexed
  <2>8. \A k \in 1..hard.commit : new[k] = log[k]
    <3> SUFFICES ASSUME NEW k \in 1..hard.commit
                 PROVE  new[k] = log[k]
      OBVIOUS
    <3>1. k \in 1..(i + n - 1) /\ k < i
      BY <1>4, <1>6, <2>1
    <3> QED  BY <2>4, <3>1
  <2> QED  BY <1>3, <2>1, <2>4, <2>5, <2>6, <2>7, <2>8
<1> QED  BY <1>7, <1>8

\* The invariant holds initially.
LEMMA InitInv == ASSUME Init PROVE Inv
<1> USE WalAssumption
<1>1. VoteInv
  BY VoteInit
<1>2. <<>> \in Log
  BY DEF Log, Rising
<1>3. KeysOf(<<>>) = {}
  BY DEF KeysOf
<1>4. Indexed(<<>>) = <<>>
  BY DEF Indexed
<1> QED
  BY <1>1, <1>2, <1>3, <1>4 DEF Init, Inv, DiskInv, StorageInv, CommitInv, NoHardState

(* Every step of Run, a crash and a restart keep it. *)
LEMMA StepInv == ASSUME Inv, ~HigherTermConflicts, [Next]_vars PROVE Inv'
<1> USE WalAssumption
<1>1. VoteInv /\ VoteInv'
  BY VoteStep DEF Inv
<1>2. DiskInv /\ StorageInv /\ CommitInv
  BY DEF Inv
<1>3. hard.commit \in Nat /\ diskHard.commit \in Nat
  BY <1>1 DEF VoteInv, HardState
<1>4. Len(log) \in Nat /\ Len(stable) \in Nat
  BY <1>2, LogFacts DEF DiskInv
<1>5. ASSUME Ready PROVE Inv'
  <2>1. DiskInv'
    BY <1>2, <1>5, ReadyStep DEF DiskInv, Stored, Deleted
  <2>2. StorageInv'
    BY <1>2, <1>5, ReadyStep DEF StorageInv
  <2>3. hard = diskHard /\ log = stable
    BY <1>1, <1>2, <1>5, ReadyStep DEF VoteInv, DiskInv
  <2>4. CommitInv'
    BY <1>2, <1>5, <2>3, ReadyStep DEF CommitInv
  <2> QED  BY <1>1, <2>1, <2>2, <2>4 DEF Inv
<1>6. ASSUME WalStore PROVE Inv'
  <2>1. DiskInv'
    BY <1>2, <1>6 DEF DiskInv, WalStore
  <2>2. StorageInv'
    BY <1>2, <1>6 DEF StorageInv, WalStore
  <2>3. CommitInv'
    BY SMTT(30), <1>2, <1>3, <1>4, <1>6 DEF CommitInv, WalStore, HardStored
  <2> QED  BY <1>1, <2>1, <2>2, <2>3 DEF Inv
<1>7. ASSUME saveToStorage PROVE Inv'
  <2>1. Indexed(log) \in Seq(Entry)
    <3>1. \A k \in 1..Len(log) : [term |-> log[k], index |-> k] \in Entry
      BY <1>2, <1>4, LogFacts DEF DiskInv, Entry
    <3> QED  BY <1>4, <3>1 DEF Indexed
  <2>2. StorageInv'
    BY <1>2, <1>7, <2>1 DEF StorageInv, saveToStorage
  <2>3. DiskInv' /\ CommitInv'
    BY <1>2, <1>7 DEF DiskInv, CommitInv, saveToStorage
  <2> QED  BY <1>1, <2>2, <2>3 DEF Inv
<1>8. ASSUME SendMessages PROVE Inv'
  BY <1>1, <1>2, <1>8 DEF Inv, DiskInv, StorageInv, CommitInv, SendMessages
<1>9. ASSUME ProcessCommitted PROVE Inv'
  <2>1. DiskInv' /\ StorageInv'
    BY <1>2, <1>9 DEF DiskInv, StorageInv, ProcessCommitted
  <2>2. hard = diskHard /\ log = stable /\ hard.commit <= Len(log)
    BY <1>1, <1>2, <1>9 DEF VoteInv, DiskInv, CommitInv, ProcessCommitted
  <2>3. CommitInv'
    <3>1. \A k \in 1..hard.commit : log[k] \in 0..MaxTerm
      BY <1>2, <1>3, <1>4, <2>2, LogFacts DEF DiskInv
    <3> QED  BY <1>2, <1>3, <1>9, <2>2, <3>1 DEF CommitInv, ProcessCommitted
  <2> QED  BY SMTT(30), <1>1, <2>1, <2>3 DEF Inv
<1>10. ASSUME Crash PROVE Inv'
  <2>1. <<>> \in Log
    BY DEF Log, Rising
  <2>2. DiskInv' /\ StorageInv'
    BY <1>2, <1>10, <2>1 DEF DiskInv, StorageInv, Crash
  <2>3. CommitInv'
    BY <1>2, <1>10 DEF CommitInv, Crash
  <2> QED  BY <1>1, <2>2, <2>3 DEF Inv
<1>11. ASSUME Restart PROVE Inv'
  <2>1. Entries(disk) = Indexed(stable)
    BY <1>2, EntriesOfLog DEF DiskInv
  <2>2. Indexed(stable) \in Seq(Entry) /\ Len(Indexed(stable)) = Len(stable)
    <3>1. \A k \in 1..Len(stable) : [term |-> stable[k], index |-> k] \in Entry
      BY <1>2, <1>4, LogFacts DEF DiskInv, Entry
    <3> QED  BY <1>4, <3>1 DEF Indexed
  <2>3. ents' = Indexed(stable)
    <3>1. ASSUME NEW s \in Seq(Entry), s # <<>> => s[1].index = 1
          PROVE  AppendEntries(<<>>, s) = s
      BY <3>1 DEF AppendEntries
    <3>2. Indexed(stable) # <<>> => Indexed(stable)[1].index = 1
      BY <1>4, <2>2 DEF Indexed
    <3> QED  BY <1>11, <2>1, <2>2, <3>1, <3>2 DEF Restart
  <2>4. log' = stable
    <3>1. \A k \in 1..Len(stable) : ents'[k].term = stable[k]
      BY <2>3 DEF Indexed
    <3>2. stable = [k \in 1..Len(stable) |-> stable[k]]
      BY <1>2, LogFacts DEF DiskInv
    <3> QED  BY <1>11, <2>2, <2>3, <3>1, <3>2 DEF Restart
  <2>5. DiskInv'
    BY <1>2, <1>11, <2>4 DEF DiskInv, Restart
  <2>6. StorageInv'
    BY <1>2, <1>11, <2>2, <2>3, <2>4 DEF StorageInv, Restart
  <2>7. CommitInv'
    BY <1>2, <1>11, <2>4 DEF CommitInv, Restart
  <2> QED  BY <1>1, <2>5, <2>6, <2>7 DEF Inv
<1>12. ASSUME UNCHANGED vars PROVE Inv'
  BY Zenon, <1>1, <1>2, <1>12 DEF
     Inv, DiskInv, StorageInv, CommitInv, Stored, Deleted, vars
<1> QED  BY <1>5, <1>6, <1>7, <1>8, <1>9, <1>10, <1>11, <1>12 DEF Next

(* As long as no entry is replaced by one of its term or a later one, Wal.Entries
   gives back the log of the last Ready that Wal.Store has written. *)
THEOREM WalKeepsTheLog ==
  ASSUME ~HigherTermConflicts
  PROVE  Spec => []WalIsLog
<1>1. Inv => WalIsLog
  BY EntriesOfLog DEF Inv, DiskInv, WalIsLog
<1>2. Init => Inv
  BY InitInv
<1>3. Inv /\ [Next]_vars => Inv'
  BY StepInv
<1> QED  BY <1>1, <1>2, <1>3, PTL DEF Spec

(* Under the same condition the storage that the RAFT library reads from is its
   log whenever it reads, also after a restart. *)
THEOREM StorageKeepsTheLog ==
  ASSUME ~HigherTermConflicts
  PROVE  Spec => []StorageIsLog
<1>1. Inv => TypeOK
  <2> SUFFICES ASSUME Inv PROVE TypeOK
    OBVIOUS
  <2>1. stable \in Seq(1..MaxTerm) /\ log \in Seq(1..MaxTerm)
    BY LogFacts DEF Inv, DiskInv
  <2>2. KeysOf(stable) \subseteq Entry
    <3>1. /\ stable \in [1..Len(stable) -> 1..MaxTerm] /\ Len(stable) \in Nat
          /\ Len(stable) <= MaxIndex
      BY LogFacts DEF Inv, DiskInv
    <3> QED  BY <3>1, WalAssumption DEF KeysOf, Entry
  <2> QED  BY <2>1, <2>2 DEF TypeOK, Inv, VoteInv, DiskInv, StorageInv, CommitInv
<1>2. Inv => StorageIsLog
  BY <1>1 DEF Inv, StorageInv, StorageIsLog
<1>3. Init => Inv
  BY InitInv
<1>4. Inv /\ [Next]_vars => Inv'
  BY StepInv
<1> QED  BY <1>2, <1>3, <1>4, PTL DEF Spec

(* Under the same condition what was applied at an index is applied there again
   after any number of crashes: process in Run goes by the log that
   initFromWal has read back. *)
THEOREM AppliedEntriesStay ==
  ASSUME ~HigherTermConflicts
  PROVE  Spec => AppliedStays
<1> DEFINE Stays == \A i \in 1..MaxIndex : applied[i] # 0 => applied'[i] = applied[i]
<1>1. Init => Inv
  BY InitInv
<1>2. Inv /\ [Next]_vars => Inv'
  BY StepInv
<1>3. Inv /\ [Next]_vars => [Stays]_vars
  <2> SUFFICES ASSUME Inv, Next PROVE Stays
    OBVIOUS
  <2>1. CASE ProcessCommitted
    <3>1. hard = diskHard /\ log = stable
      BY <2>1 DEF Inv, VoteInv, DiskInv, ProcessCommitted
    <3> QED  BY <2>1, <3>1 DEF Inv, CommitInv, ProcessCommitted
  <2>2. CASE applied' = applied
    BY <2>2
  <2> QED
    BY <2>1, <2>2 DEF Next, Ready, WalStore, saveToStorage, SendMessages, Crash, Restart
<1> QED  BY <1>1, <1>2, <1>3, PTL DEF Spec, AppliedStays
=============================================================================
