----------------------------- MODULE Membership ------------------------------
(***************************************************************************)
(* Who serves a group and who leads it (worker/groups.go).                 *)
(*                                                                         *)
(* Group zero is the source of truth: its servers apply membership updates *)
(* in the order of group zero's RAFT log.  The others send their own       *)
(* status to a server of group zero from time to time, and get back what   *)
(* is new to them.  A server that is started with a peer syncs before it   *)
(* starts its nodes, those of group zero included.                         *)
(*                                                                         *)
(* One group, which every server serves, stands for all: groups share only *)
(* lastUpdate.  RAFT is external: a proposal is committed or lost.         *)
(***************************************************************************)
EXTENDS MembershipConstants, Sequences, FiniteSets, SequencesExt, FiniteSetsExt

Nodes == Zeros \cup Others

VARIABLES
  lead,        \* the server that leads the group, or NoServer
  started,     \* servers whose nodes run
  all,         \* server -> g.all of the group: a sequence of server records
  lastUpdate,  \* server -> g.lastUpdate
  call,        \* server -> its call of UpdateMembership
  pending,     \* proposals that are neither committed nor lost
  log,         \* group zero's log
  applied      \* zero -> how much of it has been applied

vars == <<lead, started, all, lastUpdate, call, pending, log, applied>>

\* A call: the zero it goes to, the caller's status and lastUpdate, the answer.
NoCall == [pc |-> "idle", to |-> NoServer, leader |-> FALSE, lu |-> 0,
           members |-> <<>>, reply |-> 0]

Init ==
  /\ lead = NoServer
  /\ started = Founders
  /\ all = [s \in Nodes |-> <<>>]
  /\ lastUpdate = [s \in Nodes |-> 0]
  /\ call = [s \in Nodes |-> NoCall]
  /\ pending = {}
  /\ log = <<>>
  /\ applied = [z \in Zeros |-> 0]

-----------------------------------------------------------------------------
(* The list of a group *)

\* Where the node is, its entry is overwritten by the last one.
Removed(l, id) ==
  IF \E i \in DOMAIN l : l[i].id = id
  THEN LET i == CHOOSE i \in DOMAIN l : l[i].id = id
       IN  Front([l EXCEPT ![i] = Last(l)])
  ELSE l

\* "If it's a leader, move it to index zero."
Placed(l, u) ==
  LET r == Append(l, u)
  IN  IF u.leader THEN [r EXCEPT ![Len(r)] = r[1], ![1] = u] ELSE r

\* Mutant: the old leader keeps its mark.
FollowersKept(l) == l

\* "Update all servers upwards of index zero as followers."
Followers(l) ==
  [i \in DOMAIN l |-> IF i = 1 THEN l[i] ELSE [l[i] EXCEPT !.leader = FALSE]]

applyMembershipUpdate(l, u) == Followers(Placed(Removed(l, u.id), u))

duplicate(l, id, leader) ==
  \E i \in DOMAIN l : l[i].id = id /\ l[i].leader = leader

\* MembershipUpdateAfter: the members that are newer, and the newest index.
Newer(l, ridx) == SelectSeq(l, LAMBDA s : s.idx > ridx)
NewestIdx(l, ridx) == Max({l[i].idx : i \in DOMAIN l} \cup {ridx})

-----------------------------------------------------------------------------
(* RAFT *)

AmLeader(s) == lead = s

ChangeLeader ==
  /\ \E s \in started \cup {NoServer} : lead # s /\ lead' = s
  /\ UNCHANGED <<started, all, lastUpdate, call, pending, log, applied>>

\* by is the server that proposes, and waits on behalf of a caller or of itself.
Proposal(s, leader, z) == [id |-> s, leader |-> leader, by |-> z]

Propose(p) ==
  /\ Len(log) + Cardinality(pending) < MaxLog
  /\ pending' = pending \cup {p}

Commit ==
  /\ \E p \in pending : log' = Append(log, p) /\ pending' = pending \ {p}
  /\ UNCHANGED <<lead, started, all, lastUpdate, call, applied>>

Lose ==
  /\ \E p \in pending : pending' = pending \ {p}
  /\ UNCHANGED <<lead, started, all, lastUpdate, call, log, applied>>

-----------------------------------------------------------------------------
(* Servers of group zero *)

ServesZero(s) == s \in Zeros \cap started

\* syncMemberships there.
SyncZero(z) ==
  /\ ServesZero(z)
  /\ ~duplicate(all[z], z, AmLeader(z))
  /\ Propose(Proposal(z, AmLeader(z), z))
  /\ UNCHANGED <<lead, started, all, lastUpdate, call, log, applied>>

\* processMembership, and the answer to a caller that waits for it.
Apply(z) ==
  LET i == applied[z] + 1
      e == log[i]
  IN  /\ ServesZero(z)
      /\ i <= Len(log)
      /\ applied' = [applied EXCEPT ![z] = i]
      /\ all' = [all EXCEPT ![z] =
                  applyMembershipUpdate(@, [id |-> e.id, leader |-> e.leader, idx |-> i])]
      /\ call' = IF e.by = z /\ call[e.id].pc = "waiting" /\ call[e.id].to = z
                    /\ call[e.id].leader = e.leader
                 THEN [call EXCEPT ![e.id].pc = "answer"]
                 ELSE call
      /\ UNCHANGED <<lead, started, lastUpdate, pending, log>>

\* UpdateMembership: what is no duplicate is proposed and waited for.  A server
\* that has not started its nodes has no status to send.
UpdateMembership(s) ==
  LET c == call[s]
  IN  /\ c.pc = "sent"
      /\ ServesZero(c.to)
      /\ IF s \in started /\ ~duplicate(all[c.to], s, c.leader)
         THEN /\ Propose(Proposal(s, c.leader, c.to))
              /\ call' = [call EXCEPT ![s].pc = "waiting"]
         ELSE /\ call' = [call EXCEPT ![s].pc = "answer"]
              /\ UNCHANGED pending
      /\ UNCHANGED <<lead, started, all, lastUpdate, log, applied>>

Answer(s) ==
  LET c == call[s]
  IN  /\ c.pc = "answer"
      /\ call' = [call EXCEPT ![s].pc = "answered",
                              ![s].members = Newer(all[c.to], c.lu),
                              ![s].reply = NewestIdx(all[c.to], c.lu)]
      /\ UNCHANGED <<lead, started, all, lastUpdate, pending, log, applied>>

-----------------------------------------------------------------------------
(* The other servers, and those that have not started their nodes *)

\* A redirect leads to a server of group zero.
syncMemberships(s) ==
  /\ ~ServesZero(s)
  /\ call[s].pc = "idle"
  /\ \E z \in Zeros :
       /\ ServesZero(z)
       /\ call' = [call EXCEPT ![s] = [NoCall EXCEPT !.pc = "sent", !.to = z,
                                          !.leader = AmLeader(s), !.lu = lastUpdate[s]]]
  /\ UNCHANGED <<lead, started, all, lastUpdate, pending, log, applied>>

\* Mutant: the mark of the leader is not taken over.
ReceivedUnmarked(l, c) ==
  FoldLeft(LAMBDA acc, mm : applyMembershipUpdate(acc, [id |-> mm.id, leader |-> FALSE, idx |-> c.reply]),
           l, c.members)

\* Every member is recorded with the index of the whole update.
Received(l, c) ==
  FoldLeft(LAMBDA acc, mm : applyMembershipUpdate(acc, [mm EXCEPT !.idx = c.reply]),
           l, c.members)

SyncReply(s) ==
  LET c == call[s]
  IN  /\ c.pc = "answered"
      /\ all' = [all EXCEPT ![s] = Received(@, c)]
      /\ lastUpdate' = [lastUpdate EXCEPT ![s] =
                          IF c.members # <<>> /\ c.reply > @ THEN c.reply ELSE @]
      /\ call' = [call EXCEPT ![s] = NoCall]
      /\ UNCHANGED <<lead, started, pending, log, applied>>

\* The call fails on its way there or back.
SyncFails(s) ==
  /\ call[s].pc # "idle"
  /\ call' = [call EXCEPT ![s] = NoCall]
  /\ UNCHANGED <<lead, started, all, lastUpdate, pending, log, applied>>

\* "Don't run any nodes until we have done at least one full sync."
Start(s) ==
  /\ s \notin started
  /\ lastUpdate[s] > 0
  /\ call[s].pc = "idle"
  /\ started' = started \cup {s}
  /\ UNCHANGED <<lead, all, lastUpdate, call, pending, log, applied>>

Next ==
  \/ ChangeLeader \/ Commit \/ Lose
  \/ \E z \in Zeros : SyncZero(z) \/ Apply(z)
  \/ \E s \in Nodes :
       \/ syncMemberships(s) \/ UpdateMembership(s) \/ Answer(s)
       \/ SyncReply(s) \/ SyncFails(s) \/ Start(s)

Spec == Init /\ [][Next]_vars

-----------------------------------------------------------------------------
(* Properties *)

TypeOK ==
  LET Record == [id : Nodes, leader : BOOLEAN, idx : 0..MaxLog]
  IN  /\ lead \in Nodes \cup {NoServer}
      /\ started \subseteq Nodes
      /\ all \in [Nodes -> Seq(Record)]
      /\ lastUpdate \in [Nodes -> 0..MaxLog]
      /\ call \in [Nodes ->
           [pc : {"idle", "sent", "waiting", "answer", "answered"},
            to : Zeros \cup {NoServer}, leader : BOOLEAN, lu : 0..MaxLog,
            members : Seq(Record), reply : 0..MaxLog]]
      /\ pending \subseteq [id : Nodes, leader : BOOLEAN, by : Zeros]
      /\ log \in Seq([id : Nodes, leader : BOOLEAN, by : Zeros])
      /\ applied \in [Zeros -> 0..MaxLog]

LeaderIn(l) == IF \E i \in DOMAIN l : l[i].leader
               THEN l[CHOOSE i \in DOMAIN l : l[i].leader].id ELSE NoServer
Flags(l) == {<<l[i].id, l[i].leader>> : i \in DOMAIN l}

\* A list names a node once ("There should only be one"), and only its first
\* entry, the one that Leader returns, is marked as leader.
ListsWellFormed ==
  /\ TypeOK
  /\ \A s \in Nodes :
       \A i, j \in DOMAIN all[s] :
         /\ all[s][i].id = all[s][j].id => i = j
         /\ all[s][i].leader => i = 1

\* s has recorded everything up to the newest update that z has applied.  (What
\* z got before it started its nodes has been replayed.)
UpToDate(s, z) ==
  /\ ~ServesZero(s) /\ ServesZero(z)
  /\ applied[z] = NewestIdx(all[z], 0)
  /\ lastUpdate[s] = applied[z]

\* A server that is up to date knows the same servers as group zero, and the
\* leader if group zero knows one.
LeaderAgrees ==
  \A s \in Nodes, z \in Zeros :
    UpToDate(s, z) =>
      /\ {f[1] : f \in Flags(all[s])} = {f[1] : f \in Flags(all[z])}
      /\ LeaderIn(all[z]) # NoServer => LeaderIn(all[s]) = LeaderIn(all[z])

\* A server that is up to date sees what group zero sees: UpdateMembership
\* returns "all new updates".  (It does not return all: see the README.)
ViewsAgree ==
  \A s \in Nodes, z \in Zeros :
    UpToDate(s, z) => Flags(all[s]) = Flags(all[z])
=============================================================================
