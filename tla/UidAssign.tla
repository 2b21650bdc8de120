------------------------------ MODULE UidAssign ------------------------------
(***************************************************************************)
(* Handing out new uids (worker/assign.go, uid/assigner.go) through a RAFT *)
(* group whose proposals are waited for (ProposeAndWait and proposals in   *)
(* worker/draft.go).                                                       *)
(*                                                                         *)
(* The server that takes itself for the leader picks random uids, locks    *)
(* them in its lockManager, looks whether they are in use, and proposes    *)
(* the edges that mark them as used.  A request ends with the answer to    *)
(* its proposal or with its context; in the second case the proposal may   *)
(* still be committed.                                                     *)
(*                                                                         *)
(* The RAFT library is external: a proposal is committed or lost, servers  *)
(* apply the committed entries in order, and a server may take itself for  *)
(* the leader before it has applied what an earlier leader committed.  It  *)
(* does not before it has applied what it had applied before a crash: Run  *)
(* ticks the election clock only between two Readys, and the first Ready   *)
(* after a restart has all the entries that were committed on disk.        *)
(***************************************************************************)
EXTENDS Integers, Sequences, FiniteSets

CONSTANTS
  Servers, Requests,
  Uids,          \* a few of the 2^64 - 1
  None,
  MaxNew,        \* bound on how many uids a request asks for
  Deadlines,     \* requests have the deadline of a minute that queryHandler sets
  MayMoveLeader, \* several servers may take themselves for the leader
  MayCrash

ASSUME AssignAssumption ==
  /\ MaxNew \in Nat
  /\ None \notin Servers \cup Requests \cup Uids
  /\ Deadlines \in BOOLEAN /\ MayMoveLeader \in BOOLEAN /\ MayCrash \in BOOLEAN

VARIABLES
  leads,    \* servers whose AmLeader is true
  req,      \* request -> its state
  lmgr,     \* server -> uid -> the request that locked it, or None
  used,     \* server -> uids whose list is not empty
  props,    \* server -> requests in proposals.ids
  sent,     \* proposals that are neither committed nor lost
  log,      \* committed proposals
  applied,  \* server -> how many of them it has applied
  durable   \* server -> how many its write-ahead log has as committed

vars == <<leads, req, lmgr, used, props, sent, log, applied, durable>>

\* server; want and marks are the task.Num; uid is the one being looked at; got
\* are the ones found; che is the answer on the proposal's channel.
IdleRequest ==
  [pc |-> "idle", server |-> None, want |-> 0, marks |-> {}, uid |-> None,
   got |-> {}, che |-> FALSE]

Unlocked == [u \in Uids |-> None]

Init ==
  /\ \E s \in Servers : leads = {s}
  /\ req = [r \in Requests |-> IdleRequest]
  /\ lmgr = [s \in Servers |-> Unlocked]
  /\ used = [s \in Servers |-> {}]
  /\ props = [s \in Servers |-> {}]
  /\ sent = {}
  /\ log = <<>>
  /\ applied = [s \in Servers |-> 0]
  /\ durable = [s \in Servers |-> 0]

-----------------------------------------------------------------------------
(* A request *)

\* assignUids: "only allowed on leader", and something must be asked for.
assignUids(r) ==
  /\ req[r].pc = "idle"
  /\ \E s \in Servers, n \in 0..MaxNew, M \in SUBSET Uids :
       req' = [req EXCEPT ![r] =
                [IdleRequest EXCEPT
                   !.server = s, !.want = n, !.marks = M,
                   !.pc = IF s \notin leads \/ (n = 0 /\ M = {}) THEN "failed"
                          ELSE IF n = 0 THEN "propose" ELSE "alloc"]]
  /\ UNCHANGED <<leads, lmgr, used, props, sent, log, applied, durable>>

\* Mutant: the uid is locked, whoever has it.
IsNewAlways(s, u) == TRUE

IsNew(s, u) == lmgr[s][u] = None

\* allocateUniqueUid, first half: a random uid that the lockManager has not
\* seen.  (Others make it try again.)
LockUid(r) ==
  LET s == req[r].server
  IN  /\ req[r].pc = "alloc"
      /\ \E u \in Uids :
           /\ IsNew(s, u)
           /\ lmgr' = [lmgr EXCEPT ![s][u] = r]
           /\ req' = [req EXCEPT ![r].pc = "check", ![r].uid = u]
      /\ UNCHANGED <<leads, used, props, sent, log, applied, durable>>

\* AssignNew has its N uids.
Enough(r, G) == Cardinality(G) = req[r].want

\* Second half: its list must be empty.
CheckUid(r) ==
  LET u == req[r].uid
      G == IF u \in used[req[r].server] THEN req[r].got ELSE req[r].got \cup {u}
  IN  /\ req[r].pc = "check"
      /\ req' = [req EXCEPT ![r].pc = IF Enough(r, G) THEN "propose" ELSE "alloc",
                            ![r].uid = None, ![r].got = G]
      /\ UNCHANGED <<leads, lmgr, used, props, sent, log, applied, durable>>

\* ProposeAndWait: the channel is stored under the proposal's id, then RAFT has
\* the proposal.
Propose(r) ==
  /\ req[r].pc = "propose"
  /\ props' = [props EXCEPT ![req[r].server] = @ \cup {r}]
  /\ sent' = sent \cup {r}
  /\ req' = [req EXCEPT ![r].pc = "wait"]
  /\ UNCHANGED <<leads, lmgr, used, log, applied, durable>>

\* The two cases of its select.
Answered(r) ==
  /\ req[r].pc = "wait"
  /\ req[r].che
  /\ req' = [req EXCEPT ![r].pc = "done"]
  /\ UNCHANGED <<leads, lmgr, used, props, sent, log, applied, durable>>

ContextDone(r) ==
  /\ req[r].pc = "wait"
  /\ req' = [req EXCEPT ![r].pc = "failed"]
  /\ UNCHANGED <<leads, lmgr, used, props, sent, log, applied, durable>>

-----------------------------------------------------------------------------
(* The lockManager forgets *)

Ended(r) == req[r].pc \in {"done", "failed"}

\* A lock older than a minute.  A deadline of a minute that began before the
\* lock was taken has passed, and the request has ended with it.
Expired(s, u) == Deadlines => Ended(lmgr[s][u])

clean(s) ==
  /\ \E u \in Uids :
       /\ lmgr[s][u] # None
       /\ Expired(s, u)
       /\ lmgr' = [lmgr EXCEPT ![s][u] = None]
  /\ UNCHANGED <<leads, req, used, props, sent, log, applied, durable>>

-----------------------------------------------------------------------------
(* RAFT *)

Commit ==
  /\ \E r \in sent : log' = Append(log, r) /\ sent' = sent \ {r}
  /\ UNCHANGED <<leads, req, lmgr, used, props, applied, durable>>

Lose ==
  /\ \E r \in sent : sent' = sent \ {r}
  /\ UNCHANGED <<leads, req, lmgr, used, props, log, applied, durable>>

\* The edges of a proposal: the new uids and the marked ones.
AppliedUids(r) == req[r].got \cup req[r].marks

\* process: the edges are applied and proposals.Done answers.
Apply(s) ==
  LET r == log[applied[s] + 1]
  IN  /\ applied[s] < Len(log)
      /\ applied' = [applied EXCEPT ![s] = @ + 1]
      /\ durable' = [durable EXCEPT ![s] = IF @ > applied[s] THEN @ ELSE applied[s] + 1]
      /\ used' = [used EXCEPT ![s] = @ \cup AppliedUids(r)]
      /\ props' = [props EXCEPT ![s] = @ \ {r}]
      /\ req' = [req EXCEPT ![r].che = @ \/ r \in props[s]]
      /\ UNCHANGED <<leads, lmgr, sent, log>>

\* Mutant: a server leads before it has applied its own log.
MayLeadAlways(s) == TRUE

MayLead(s) == applied[s] >= durable[s]

MoveLeader ==
  /\ \E s \in Servers \ leads :
       /\ MayLead(s)
       /\ leads = {} \/ MayMoveLeader
       /\ leads' = leads \cup {s}
  /\ UNCHANGED <<req, lmgr, used, props, sent, log, applied, durable>>

\* The requests of the process end with it.  Of the lists, those that had been
\* merged survive.
CrashAndRestart(s) ==
  /\ MayCrash
  /\ \E U \in SUBSET used[s] : used' = [used EXCEPT ![s] = U]
  /\ leads' = leads \ {s}
  /\ lmgr' = [lmgr EXCEPT ![s] = Unlocked]
  /\ props' = [props EXCEPT ![s] = {}]
  /\ applied' = [applied EXCEPT ![s] = 0]
  /\ req' = [r \in Requests |->
              IF req[r].server = s /\ ~Ended(r) THEN [req[r] EXCEPT !.pc = "failed"]
              ELSE req[r]]
  /\ UNCHANGED <<sent, log, durable>>

Next ==
  \/ \E r \in Requests :
       \/ assignUids(r) \/ LockUid(r) \/ CheckUid(r) \/ Propose(r)
       \/ Answered(r) \/ ContextDone(r)
  \/ \E s \in Servers : clean(s) \/ Apply(s) \/ CrashAndRestart(s)
  \/ Commit \/ Lose \/ MoveLeader

Spec == Init /\ [][Next]_vars

-----------------------------------------------------------------------------
(* Properties *)

Request ==
  [pc : {"idle", "alloc", "check", "propose", "wait", "done", "failed"},
   server : Servers \cup {None}, want : 0..MaxNew, marks : SUBSET Uids,
   uid : Uids \cup {None}, got : SUBSET Uids, che : BOOLEAN]

TypeOK ==
  /\ leads \subseteq Servers
  /\ req \in [Requests -> Request]
  /\ \A r \in Requests : Cardinality(req[r].got) <= req[r].want
  /\ lmgr \in [Servers -> [Uids -> Requests \cup {None}]]
  /\ used \in [Servers -> SUBSET Uids]
  /\ props \in [Servers -> SUBSET Requests]
  /\ sent \subseteq Requests
  /\ log \in Seq(Requests)
  /\ applied \in [Servers -> 0..Len(log)] /\ durable \in [Servers -> 0..Len(log)]

Returned == {r \in Requests : req[r].pc = "done"}

\* No uid is handed out twice as a new one: the lockManager covers the time in
\* which a uid is "proposed but still not pushed to a posting list", and the
\* list of the uid the time after it.
UniqueUids ==
  \A r, q \in Returned : r # q => req[r].got \cap req[q].got = {}

\* A server that hands uids out sees every uid that was handed out as used,
\* also after a crash that lost lists which had not been merged.
LeaderKnows ==
  TypeOK /\ \A s \in leads, r \in Returned : AppliedUids(r) \subseteq used[s]
=============================================================================
