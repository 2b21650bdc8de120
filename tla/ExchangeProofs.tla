---------------------------- MODULE ExchangeProofs ----------------------------
(***************************************************************************)
(* Proofs about what servers ask of each other, for any servers, requests, *)
(* groups, edges and users of connections.  UidAssign: where one server    *)
(* assigns, no uid is handed out twice, whatever is lost, late or          *)
(* restarted.  Proposals: a mutation that is reported as done is applied   *)
(* in all its groups.  BackupRelay: a relayed backup request is run once.  *)
(* Pool: no connection is lost or given to two users.                      *)
(***************************************************************************)
EXTENDS UidAssign, Functions, FiniteSetTheorems, TLAPS

-----------------------------------------------------------------------------
(* UidAssign *)

(* The group has one server, or its leader neither crashes nor moves. *)
OneAssigner ==
  \/ \A s, t \in Servers : s = t
  \/ ~MayMoveLeader /\ ~MayCrash

Live == {r \in Requests : req[r].pc \in {"alloc", "check", "propose", "wait"}}

(* The uids that a request has in hand: found, or still to be looked at. *)
InHand(r) == req[r].got \cup (IF req[r].pc = "check" THEN {req[r].uid} ELSE {})

FoundInv ==
  \A r \in Requests :
    /\ IsFiniteSet(req[r].got)
    /\ req[r].pc \in {"alloc", "check"} => Cardinality(req[r].got) < req[r].want
    /\ req[r].pc = "check" => req[r].uid \in Uids

(* A request is served by the leader, and there is only one. *)
LeadInv ==
  /\ \A r \in Live : req[r].server \in leads
  /\ \A s, t \in leads : s = t
  /\ ~MayCrash => leads # {} /\ \A r \in Returned : req[r].server \in leads
  /\ \A r \in Returned : req[r].server \in Servers

(* The lockManager has every uid that a request has in hand. *)
LockInv == \A r \in Live : \A u \in InHand(r) : lmgr[req[r].server][u] = r

(* What is proposed stays as it is; a request that is answered was applied by
   its server, whose log on disk has it. *)
SentInv ==
  /\ \A r \in sent : req[r].pc \in {"wait", "done", "failed"}
  /\ \A i \in 1..Len(log) : req[log[i]].pc \in {"wait", "done", "failed"}
  /\ \A s \in Servers : \A r \in props[s] :
       req[r].server = s /\ req[r].pc \in {"wait", "done", "failed"}
  /\ \A r \in Requests :
       req[r].che => /\ req[r].server \in Servers
                     /\ \E i \in 1..durable[req[r].server] : log[i] = r
  /\ \A r \in Returned : req[r].che

(* A server has marked the uids of what it has applied, and leads only when
   that is all that it had applied before. *)
AppliedInv ==
  \A s \in Servers :
    /\ \A i \in 1..applied[s] : AppliedUids(log[i]) \subseteq used[s]
    /\ applied[s] <= durable[s]
    /\ s \in leads => applied[s] >= durable[s]

(* No request has a uid in hand that was handed out. *)
DisjointInv ==
  /\ \A r \in Live, q \in Returned : req[r].got \cap req[q].got = {}
  /\ UniqueUids

Inv == TypeOK /\ FoundInv /\ LeadInv /\ LockInv /\ SentInv /\ AppliedInv /\ DisjointInv
-----------------------------------------------------------------------------
(* What the record of a request must be for the types to hold. *)
WellFound(x) ==
  /\ x \in Request
  /\ IsFiniteSet(x.got) /\ Cardinality(x.got) <= x.want
  /\ x.pc \in {"alloc", "check"} => Cardinality(x.got) < x.want
  /\ x.pc = "check" => x.uid \in Uids

\* A step that replaces the record of one request.
LEMMA PutRequest ==
  ASSUME TypeOK, FoundInv, NEW r \in Requests, NEW x, WellFound(x),
         req' = [req EXCEPT ![r] = x]
  PROVE  /\ req' \in [Requests -> Request]
         /\ \A q \in Requests : Cardinality(req'[q].got) <= req'[q].want
         /\ FoundInv'
BY DEF TypeOK, FoundInv, WellFound

\* A field that is no part of the search can change.
LEMMA SetPc ==
  ASSUME NEW x \in Request, IsFiniteSet(x.got), Cardinality(x.got) <= x.want,
         NEW p \in {"propose", "wait", "done", "failed"}
  PROVE  WellFound([x EXCEPT !.pc = p])
BY DEF Request, WellFound

\* The record that assignUids makes.
LEMMA FreshRequest ==
  ASSUME NEW s \in Servers, NEW n \in 0..MaxNew, NEW M \in SUBSET Uids,
         NEW p \in {"failed", "propose", "alloc"}, p = "alloc" => n # 0
  PROVE  WellFound([IdleRequest EXCEPT !.server = s, !.want = n, !.marks = M, !.pc = p])
<1> DEFINE x == [IdleRequest EXCEPT !.server = s, !.want = n, !.marks = M, !.pc = p]
<1>1. IdleRequest \in Request
  BY AssignAssumption DEF IdleRequest, Request
<1>2. x \in Request
  BY Zenon, <1>1 DEF Request
<1>3. x.got = {} /\ x.want = n /\ x.pc = p
  BY <1>1 DEF IdleRequest
<1>4. n \in Nat
  BY AssignAssumption
<1> HIDE DEF x
<1>5. WellFound(x)
  BY <1>2, <1>3, <1>4, FS_EmptySet DEF WellFound
<1> QED  BY <1>5 DEF x

\* A set grows by at most one element at a time.
LEMMA OneMore ==
  ASSUME NEW S, NEW x, IsFiniteSet(S)
  PROVE  IsFiniteSet(S \cup {x}) /\ Cardinality(S \cup {x}) <= Cardinality(S) + 1
<1>1. Cardinality(S) \in Nat
  BY FS_CardinalityType
<1> QED  BY <1>1, FS_AddElement

\* Every step keeps the types, and a request has at most as many uids as it wants.
LEMMA TypeStep ==
  ASSUME TypeOK, FoundInv, SentInv, [Next]_vars
  PROVE  TypeOK' /\ FoundInv'
<1> USE DEF TypeOK
<1>1. ASSUME NEW r \in Requests, assignUids(r) PROVE TypeOK' /\ FoundInv'
  <2>1. PICK s \in Servers, n \in 0..MaxNew, M \in SUBSET Uids :
          req' = [req EXCEPT ![r] =
                [IdleRequest EXCEPT
                   !.server = s, !.want = n, !.marks = M,
                   !.pc = IF s \notin leads \/ (n = 0 /\ M = {}) THEN "failed"
                          ELSE IF n = 0 THEN "propose" ELSE "alloc"]]
    BY Zenon, <1>1 DEF assignUids
  <2>2. WellFound([IdleRequest EXCEPT
                   !.server = s, !.want = n, !.marks = M,
                   !.pc = IF s \notin leads \/ (n = 0 /\ M = {}) THEN "failed"
                          ELSE IF n = 0 THEN "propose" ELSE "alloc"])
    BY Zenon, FreshRequest
  <2> QED  BY Zenon, <1>1, <2>1, <2>2, PutRequest DEF assignUids
<1>2. ASSUME NEW r \in Requests, LockUid(r) PROVE TypeOK' /\ FoundInv'
  <2>1. PICK u \in Uids :
          /\ lmgr' = [lmgr EXCEPT ![req[r].server][u] = r]
          /\ req' = [req EXCEPT ![r] = [req[r] EXCEPT !.pc = "check", !.uid = u]]
    BY Zenon, <1>2 DEF LockUid
  <2>2. WellFound([req[r] EXCEPT !.pc = "check", !.uid = u])
    <3>1. req[r] \in Request /\ req[r].pc = "alloc"
      BY <1>2 DEF LockUid
    <3>2. [req[r] EXCEPT !.pc = "check", !.uid = u] \in Request
      BY Zenon, <3>1 DEF Request
    <3> QED  BY <3>1, <3>2 DEF WellFound, Request, FoundInv
  <2>3. lmgr' \in [Servers -> [Uids -> Requests \cup {None}]]
    BY Zenon, <2>1
  <2> QED  BY Zenon, <1>2, <2>1, <2>2, <2>3, PutRequest DEF LockUid
<1>3. ASSUME NEW r \in Requests, CheckUid(r) PROVE TypeOK' /\ FoundInv'
  <2> DEFINE u == req[r].uid
             G == IF u \in used[req[r].server] THEN req[r].got ELSE req[r].got \cup {u}
             x == [req[r] EXCEPT !.pc = IF Enough(r, G) THEN "propose" ELSE "alloc",
                                 !.uid = None, !.got = G]
  <2>1. req' = [req EXCEPT ![r] = x]
    BY Zenon, <1>3 DEF CheckUid
  <2>2. /\ req[r] \in Request /\ u \in Uids /\ IsFiniteSet(req[r].got)
        /\ Cardinality(req[r].got) < req[r].want
    BY <1>3 DEF CheckUid, FoundInv
  <2>3. IsFiniteSet(G) /\ Cardinality(G) <= req[r].want
    <3>1. IsFiniteSet(req[r].got \cup {u})
          /\ Cardinality(req[r].got \cup {u}) <= Cardinality(req[r].got) + 1
      BY Zenon, <2>2, OneMore
    <3> QED  BY <2>2, <3>1, FS_CardinalityType DEF Request
  <2>4. Cardinality(G) \in Nat
    BY <2>3, FS_CardinalityType
  <2>5. WellFound(x)
    <3>1. x \in Request
      BY Zenon, <2>2 DEF Request
    <3>2. x.got = G /\ x.want = req[r].want /\ x.pc \in {"propose", "alloc"}
          /\ (x.pc = "alloc" => Cardinality(G) # req[r].want)
      BY <2>2 DEF Request, Enough
    <3>3. req[r].want \in Nat
      BY <2>2, AssignAssumption DEF Request
    <3> HIDE DEF x, G
    <3> QED  BY <2>3, <2>4, <3>1, <3>2, <3>3 DEF WellFound
  <2> QED  BY Zenon, <1>3, <2>1, <2>5, PutRequest DEF CheckUid
<1>4. ASSUME NEW r \in Requests, Propose(r) PROVE TypeOK' /\ FoundInv'
  <2>1. req' = [req EXCEPT ![r] = [req[r] EXCEPT !.pc = "wait"]]
    BY <1>4 DEF Propose
  <2>2. WellFound([req[r] EXCEPT !.pc = "wait"])
    BY Zenon, SetPc DEF FoundInv
  <2> QED  BY Zenon, <1>4, <2>1, <2>2, PutRequest DEF Propose
<1>5. ASSUME NEW r \in Requests, Answered(r) PROVE TypeOK' /\ FoundInv'
  <2>1. req' = [req EXCEPT ![r] = [req[r] EXCEPT !.pc = "done"]]
    BY <1>5 DEF Answered
  <2>2. WellFound([req[r] EXCEPT !.pc = "done"])
    BY Zenon, SetPc DEF FoundInv
  <2> QED  BY Zenon, <1>5, <2>1, <2>2, PutRequest DEF Answered
<1>6. ASSUME NEW r \in Requests, ContextDone(r) PROVE TypeOK' /\ FoundInv'
  <2>1. req' = [req EXCEPT ![r] = [req[r] EXCEPT !.pc = "failed"]]
    BY <1>6 DEF ContextDone
  <2>2. WellFound([req[r] EXCEPT !.pc = "failed"])
    BY Zenon, SetPc DEF FoundInv
  <2> QED  BY Zenon, <1>6, <2>1, <2>2, PutRequest DEF ContextDone
<1>7. ASSUME NEW s \in Servers, clean(s) PROVE TypeOK' /\ FoundInv'
  BY <1>7 DEF clean, FoundInv
<1>8. ASSUME NEW s \in Servers, Apply(s) PROVE TypeOK' /\ FoundInv'
  <2> DEFINE r == log[applied[s] + 1]
             x == [req[r] EXCEPT !.che = @ \/ r \in props[s]]
  <2>1. r \in Requests /\ applied[s] \in 0..Len(log) /\ applied[s] < Len(log)
    BY <1>8 DEF Apply
  <2>2. req' = [req EXCEPT ![r] = x]
    BY <1>8 DEF Apply
  <2>3. x \in Request
    <3>1. req[r] \in Request /\ (req[r].che \/ r \in props[s]) \in BOOLEAN
      BY <2>1
    <3>2. \A b \in BOOLEAN : [req[r] EXCEPT !.che = b] \in Request
      BY Zenon, <3>1 DEF Request
    <3> QED  BY Zenon, <3>1, <3>2
  <2>4. WellFound(x)
    BY Zenon, <2>1, <2>3 DEF WellFound, Request, FoundInv
  <2>5. AppliedUids(r) \subseteq Uids
    BY <2>1 DEF AppliedUids, Request
  <2>6. /\ applied' \in [Servers -> 0..Len(log)] /\ durable' \in [Servers -> 0..Len(log)]
        /\ used' \in [Servers -> SUBSET Uids] /\ props' \in [Servers -> SUBSET Requests]
    BY <1>8, <2>1, <2>5 DEF Apply
  <2> QED  BY Zenon, <1>8, <2>1, <2>2, <2>4, <2>6, PutRequest DEF Apply
<1>9. ASSUME NEW s \in Servers, CrashAndRestart(s) PROVE TypeOK' /\ FoundInv'
  <2>1. \A r \in Requests : req'[r] = req[r] \/ req'[r] = [req[r] EXCEPT !.pc = "failed"]
    BY <1>9 DEF CrashAndRestart
  <2>2. \A r \in Requests : WellFound([req[r] EXCEPT !.pc = "failed"])
    BY Zenon, SetPc DEF FoundInv
  <2>3. \A r \in Requests : WellFound(req'[r])
    BY Zenon, <2>1, <2>2 DEF WellFound, FoundInv
  <2>4. req' \in [Requests -> Request]
    BY <1>9, <2>3 DEF CrashAndRestart, WellFound
  <2>5. /\ used' \in [Servers -> SUBSET Uids] /\ props' \in [Servers -> SUBSET Requests]
        /\ lmgr' \in [Servers -> [Uids -> Requests \cup {None}]]
        /\ applied' \in [Servers -> 0..Len(log)]
    BY <1>9 DEF CrashAndRestart, Unlocked
  <2> QED  BY <1>9, <2>3, <2>4, <2>5 DEF CrashAndRestart, WellFound, FoundInv
<1>10. ASSUME Commit PROVE TypeOK' /\ FoundInv'
  BY <1>10 DEF Commit, FoundInv
<1>11. ASSUME Lose PROVE TypeOK' /\ FoundInv'
  BY <1>11 DEF Lose, FoundInv
<1>12. ASSUME MoveLeader PROVE TypeOK' /\ FoundInv'
  BY <1>12 DEF MoveLeader, FoundInv
<1>13. ASSUME UNCHANGED vars PROVE TypeOK' /\ FoundInv'
  BY <1>13 DEF vars, FoundInv
<1>14. QED
  BY <1>1, <1>2, <1>3, <1>4, <1>5, <1>6, <1>7, <1>8, <1>9, <1>10, <1>11, <1>12, <1>13
     DEF
     Next

-----------------------------------------------------------------------------
\* Where the log and the indices into it are.
LEMMA LogFacts ==
  ASSUME TypeOK
  PROVE  /\ Len(log) \in Nat /\ \A i \in 1..Len(log) : log[i] \in Requests
         /\ sent \subseteq Requests
         /\ \A s \in Servers : /\ props[s] \subseteq Requests
                               /\ applied[s] \in Nat /\ applied[s] <= Len(log)
                               /\ durable[s] \in Nat /\ durable[s] <= Len(log)
BY DEF TypeOK

\* What assignUids does to the requests.
LEMMA AssignEffect ==
  ASSUME TypeOK, NEW r \in Requests, assignUids(r)
  PROVE  /\ req[r].pc = "idle"
         /\ \A q \in Requests \ {r} : req'[q] = req[q]
         /\ req'[r].server \in Servers /\ req'[r].got = {} /\ ~req'[r].che
         /\ req'[r].pc \in {"failed", "propose", "alloc"}
         /\ req'[r].pc # "failed" => req'[r].server \in leads
         /\ UNCHANGED <<leads, lmgr, used, props, sent, log, applied, durable>>
<1> DEFINE P(s, n, M) == IF s \notin leads \/ (n = 0 /\ M = {}) THEN "failed"
                         ELSE IF n = 0 THEN "propose" ELSE "alloc"
<1>1. PICK s \in Servers, n \in 0..MaxNew, M \in SUBSET Uids :
        req' = [req EXCEPT ![r] =
                 [IdleRequest EXCEPT !.server = s, !.want = n, !.marks = M, !.pc = P(s, n, M)]]
  BY Zenon DEF assignUids
<1>2. P(s, n, M) \in {"failed", "propose", "alloc"} /\ (P(s, n, M) # "failed" => s \in leads)
  OBVIOUS
<1> HIDE DEF P
<1>3. req'[r] = [IdleRequest EXCEPT !.server = s, !.want = n, !.marks = M, !.pc = P(s, n, M)]
  BY <1>1 DEF TypeOK
<1>4. req'[r].server = s /\ req'[r].got = {} /\ req'[r].pc = P(s, n, M) /\ req'[r].che = FALSE
  BY <1>3 DEF IdleRequest
<1>5. \A q \in Requests \ {r} : req'[q] = req[q]
  BY <1>1 DEF TypeOK
<1> QED  BY <1>2, <1>4, <1>5 DEF assignUids

\* What the two halves of allocateUniqueUid do to them.
LEMMA LockEffect ==
  ASSUME TypeOK, NEW r \in Requests, LockUid(r)
  PROVE  /\ req[r].pc = "alloc" /\ req'[r].pc = "check" /\ req'[r].uid \in Uids
         /\ lmgr[req[r].server][req'[r].uid] = None
         /\ lmgr' = [lmgr EXCEPT ![req[r].server][req'[r].uid] = r]
         /\ req'[r].server = req[r].server /\ req'[r].got = req[r].got
         /\ req'[r].che = req[r].che /\ req'[r].marks = req[r].marks
         /\ \A q \in Requests \ {r} : req'[q] = req[q]
         /\ UNCHANGED <<leads, used, props, sent, log, applied, durable>>
BY DEF LockUid, IsNew, TypeOK, Request

\* allocateUniqueUid either keeps the uid it has locked, or looks for another.
LEMMA CheckEffect ==
  ASSUME TypeOK, NEW r \in Requests, CheckUid(r)
  PROVE  /\ req[r].pc = "check" /\ req'[r].pc \in {"propose", "alloc"}
         /\ req'[r].got \subseteq req[r].got \cup {req[r].uid}
         /\ \A u \in req'[r].got : u \in req[r].got \/ u \notin used[req[r].server]
         /\ req'[r].server = req[r].server
         /\ req'[r].che = req[r].che /\ req'[r].marks = req[r].marks
         /\ \A q \in Requests \ {r} : req'[q] = req[q]
         /\ UNCHANGED <<leads, lmgr, used, props, sent, log, applied, durable>>
<1> DEFINE u == req[r].uid
           G == IF u \in used[req[r].server] THEN req[r].got ELSE req[r].got \cup {u}
           P == IF Enough(r, G) THEN "propose" ELSE "alloc"
<1>1. req' = [req EXCEPT ![r].pc = P, ![r].uid = None, ![r].got = G]
  BY DEF CheckUid
<1>2. P \in {"propose", "alloc"} /\ req[r].pc = "check"
      /\ G \subseteq req[r].got \cup {u}
      /\ \A v \in G : v \in req[r].got \/ v \notin used[req[r].server]
  BY DEF CheckUid
<1> HIDE DEF P, G
<1> QED  BY <1>1, <1>2 DEF TypeOK, Request, CheckUid

\* Only one server leads, and it serves every request that is under way.
LEMMA LeadStep ==
  ASSUME TypeOK, FoundInv, LeadInv, OneAssigner, [Next]_vars
  PROVE  LeadInv'
<1>1. ASSUME NEW r \in Requests, assignUids(r) PROVE LeadInv'
  BY <1>1, AssignEffect DEF LeadInv, OneAssigner, Live, Returned, Ended
<1>2. ASSUME NEW r \in Requests, LockUid(r) PROVE LeadInv'
  <2>1. /\ req[r].pc = "alloc" /\ req'[r].pc = "check" /\ req'[r].server = req[r].server
        /\ \A q \in Requests \ {r} : req'[q] = req[q]
        /\ leads' = leads
    BY Zenon, <1>2, LockEffect
  <2> QED  BY <2>1 DEF LeadInv, Live, Returned
<1>3. ASSUME NEW r \in Requests, CheckUid(r) PROVE LeadInv'
  BY <1>3, CheckEffect DEF LeadInv, OneAssigner, Live, Returned, Ended
<1>4. ASSUME NEW r \in Requests, Propose(r) PROVE LeadInv'
  BY <1>4, AssignAssumption DEF
     Propose, TypeOK, LeadInv, OneAssigner, Live, Returned, Ended, vars
<1>5. ASSUME NEW r \in Requests, Answered(r) PROVE LeadInv'
  BY <1>5, AssignAssumption DEF
     Answered, TypeOK, LeadInv, OneAssigner, Live, Returned, Ended, vars
<1>6. ASSUME NEW r \in Requests, ContextDone(r) PROVE LeadInv'
  BY <1>6, AssignAssumption DEF
     ContextDone, TypeOK, LeadInv, OneAssigner, Live, Returned, Ended, vars
<1>7. ASSUME NEW s \in Servers, clean(s) PROVE LeadInv'
  BY <1>7, AssignAssumption DEF
     clean, TypeOK, LeadInv, OneAssigner, Live, Returned, Ended, vars
<1>8. ASSUME NEW s \in Servers, Apply(s) PROVE LeadInv'
  BY <1>8, AssignAssumption DEF
     Apply, TypeOK, LeadInv, OneAssigner, Live, Returned, Ended, vars
<1>9. ASSUME NEW s \in Servers, CrashAndRestart(s) PROVE LeadInv'
  BY <1>9, AssignAssumption DEF
     CrashAndRestart, TypeOK, LeadInv, OneAssigner, Live, Returned, Ended, vars
<1>10. ASSUME Commit PROVE LeadInv'
  BY <1>10, AssignAssumption DEF
     Commit, TypeOK, LeadInv, OneAssigner, Live, Returned, Ended, vars
<1>11. ASSUME Lose PROVE LeadInv'
  BY <1>11, AssignAssumption DEF
     Lose, TypeOK, LeadInv, OneAssigner, Live, Returned, Ended, vars
<1>12. ASSUME MoveLeader PROVE LeadInv'
  BY <1>12, AssignAssumption DEF
     MoveLeader, TypeOK, LeadInv, OneAssigner, Live, Returned, Ended, vars
<1>13. ASSUME UNCHANGED vars PROVE LeadInv'
  BY <1>13, AssignAssumption DEF
     TypeOK, LeadInv, OneAssigner, Live, Returned, Ended, vars
<1>14. QED
  BY <1>1, <1>2, <1>3, <1>4, <1>5, <1>6, <1>7, <1>8, <1>9, <1>10, <1>11, <1>12, <1>13
     DEF
     Next

\* The lockManager keeps what a request has in hand: clean forgets only the
\* uids of requests that have ended.
LEMMA LockStep ==
  ASSUME TypeOK, FoundInv, LeadInv, LockInv, Deadlines, [Next]_vars
  PROVE  LockInv'
<1>1. ASSUME NEW r \in Requests, assignUids(r) PROVE LockInv'
  BY <1>1, AssignEffect DEF LockInv, FoundInv, LeadInv, InHand, Live, Ended, Expired
<1>2. ASSUME NEW r \in Requests, LockUid(r) PROVE LockInv'
  <2> DEFINE s == req[r].server
             u == req'[r].uid
  <2>1. /\ req[r].pc = "alloc" /\ req'[r].pc = "check" /\ u \in Uids
        /\ lmgr[s][u] = None
        /\ lmgr' = [lmgr EXCEPT ![s][u] = r]
        /\ req'[r].server = s /\ req'[r].got = req[r].got
        /\ \A q \in Requests \ {r} : req'[q] = req[q]
    BY <1>2, LockEffect
  <2>2. s \in Servers
    BY <2>1 DEF LeadInv, Live, TypeOK
  <2>3. lmgr'[s][u] = r /\ \A t \in Servers, v \in Uids : lmgr'[t][v] # lmgr[t][v] => t = s /\ v = u
    BY <2>1, <2>2 DEF TypeOK
  <2>4. ASSUME NEW q \in Requests, q \in Live', NEW v \in InHand(q)'
        PROVE  lmgr'[req'[q].server][v] = q
    <3>1. q \in Live /\ req'[q].server = req[q].server
      BY <2>1, <2>4 DEF Live
    <3>2. req[q].server \in Servers /\ v \in Uids
      BY <2>1, <2>4, <3>1 DEF InHand, LeadInv, TypeOK, Request, FoundInv
    <3>3. CASE v \in InHand(q)
      <4>1. lmgr[req[q].server][v] = q
        BY <3>1, <3>3 DEF LockInv
      <4> QED  BY <2>1, <2>3, <3>1, <3>2, <4>1, AssignAssumption
    <3>4. CASE v \notin InHand(q)
      BY <2>1, <2>3, <2>4, <3>4 DEF InHand
    <3> QED  BY <3>3, <3>4
  <2> QED  BY <2>4 DEF LockInv, Live
<1>3. ASSUME NEW r \in Requests, CheckUid(r) PROVE LockInv'
  BY <1>3, CheckEffect DEF LockInv, FoundInv, LeadInv, InHand, Live, Ended, Expired
<1>4. ASSUME NEW r \in Requests, Propose(r) PROVE LockInv'
  BY <1>4, AssignAssumption DEF
     Propose, TypeOK, LockInv, FoundInv, LeadInv, InHand, Live, Ended, Expired, vars
<1>5. ASSUME NEW r \in Requests, Answered(r) PROVE LockInv'
  BY <1>5, AssignAssumption DEF
     Answered, TypeOK, LockInv, FoundInv, LeadInv, InHand, Live, Ended, Expired, vars
<1>6. ASSUME NEW r \in Requests, ContextDone(r) PROVE LockInv'
  BY <1>6, AssignAssumption DEF
     ContextDone, TypeOK, LockInv, FoundInv, LeadInv, InHand, Live, Ended, Expired, vars
<1>7. ASSUME NEW s \in Servers, clean(s) PROVE LockInv'
  BY <1>7, AssignAssumption DEF
     clean, TypeOK, LockInv, FoundInv, LeadInv, InHand, Live, Ended, Expired, vars
<1>8. ASSUME NEW s \in Servers, Apply(s) PROVE LockInv'
  BY <1>8, AssignAssumption DEF
     Apply, TypeOK, LockInv, FoundInv, LeadInv, InHand, Live, Ended, Expired, vars
<1>9. ASSUME NEW s \in Servers, CrashAndRestart(s) PROVE LockInv'
  BY <1>9, AssignAssumption DEF
     CrashAndRestart, TypeOK, LockInv, FoundInv, LeadInv, InHand, Live, Ended, Expired,
     vars
<1>10. ASSUME Commit PROVE LockInv'
  BY <1>10, AssignAssumption DEF
     Commit, TypeOK, LockInv, FoundInv, LeadInv, InHand, Live, Ended, Expired, vars
<1>11. ASSUME Lose PROVE LockInv'
  BY <1>11, AssignAssumption DEF
     Lose, TypeOK, LockInv, FoundInv, LeadInv, InHand, Live, Ended, Expired, vars
<1>12. ASSUME MoveLeader PROVE LockInv'
  BY <1>12, AssignAssumption DEF
     MoveLeader, TypeOK, LockInv, FoundInv, LeadInv, InHand, Live, Ended, Expired, vars
<1>13. ASSUME UNCHANGED vars PROVE LockInv'
  BY <1>13, AssignAssumption DEF
     TypeOK, LockInv, FoundInv, LeadInv, InHand, Live, Ended, Expired, vars
<1>14. QED
  BY <1>1, <1>2, <1>3, <1>4, <1>5, <1>6, <1>7, <1>8, <1>9, <1>10, <1>11, <1>12, <1>13
     DEF
     Next

\* A proposal is of a request that is past its search, and proposeAndWait answers
\* only what its own server has applied and has on disk.
LEMMA SentStep ==
  ASSUME TypeOK, LeadInv, SentInv, AppliedInv, [Next]_vars
  PROVE  SentInv'
<1>1. ASSUME NEW r \in Requests, assignUids(r) PROVE SentInv'
  <2>1. \A q \in Requests : q # r => req'[q] = req[q]
    BY <1>1, AssignEffect
  <2>2. /\ req[r].pc \notin {"wait", "done", "failed"} /\ req'[r].pc # "done"
        /\ req'[r].che => req[r].che /\ req'[r].server = req[r].server
        /\ UNCHANGED <<props, sent, log, durable>>
    BY <1>1, AssignEffect
  <2> QED  BY <2>1, <2>2, LogFacts DEF SentInv, Returned
<1>2. ASSUME NEW r \in Requests, LockUid(r) PROVE SentInv'
  <2>1. \A q \in Requests : q # r => req'[q] = req[q]
    BY Zenon, <1>2, LockEffect
  <2>2. /\ req[r].pc \notin {"wait", "done", "failed"} /\ req'[r].pc # "done"
        /\ req'[r].che => req[r].che /\ req'[r].server = req[r].server
        /\ UNCHANGED <<props, sent, log, durable>>
    BY Zenon, <1>2, LockEffect
  <2> QED  BY <2>1, <2>2, LogFacts DEF SentInv, Returned
<1>3. ASSUME NEW r \in Requests, CheckUid(r) PROVE SentInv'
  <2>1. \A q \in Requests : q # r => req'[q] = req[q]
    BY <1>3, CheckEffect
  <2>2. /\ req[r].pc \notin {"wait", "done", "failed"} /\ req'[r].pc # "done"
        /\ req'[r].che => req[r].che /\ req'[r].server = req[r].server
        /\ UNCHANGED <<props, sent, log, durable>>
    BY <1>3, CheckEffect
  <2> QED  BY <2>1, <2>2, LogFacts DEF SentInv, Returned
<1>4. ASSUME NEW r \in Requests, Propose(r) PROVE SentInv'
  BY <1>4, AssignAssumption DEF
     Propose, TypeOK, SentInv, LeadInv, AppliedInv, Returned, Live, Ended, vars
<1>5. ASSUME NEW r \in Requests, Answered(r) PROVE SentInv'
  <2>1. /\ \A q \in Requests : q # r => req'[q] = req[q]
        /\ req[r].pc = "wait" /\ req'[r].pc = "done" /\ req[r].che
        /\ req'[r].che /\ req'[r].server = req[r].server
        /\ UNCHANGED <<props, sent, log, durable>>
    BY <1>5 DEF Answered, TypeOK, Request
  <2> QED  BY <2>1, LogFacts DEF SentInv, Returned
<1>6. ASSUME NEW r \in Requests, ContextDone(r) PROVE SentInv'
  BY <1>6, AssignAssumption DEF
     ContextDone, TypeOK, SentInv, LeadInv, AppliedInv, Returned, Live, Ended, vars
<1>7. ASSUME NEW s \in Servers, clean(s) PROVE SentInv'
  BY <1>7, AssignAssumption DEF
     clean, TypeOK, SentInv, LeadInv, AppliedInv, Returned, Live, Ended, vars
<1>8. ASSUME NEW s \in Servers, Apply(s) PROVE SentInv'
  <2> DEFINE r == log[applied[s] + 1]
  <2>1. r \in Requests /\ applied[s] + 1 \in 1..Len(log)
    BY <1>8, LogFacts DEF Apply
  <2>2. /\ \A q \in Requests : q # r => req'[q] = req[q]
        /\ req'[r].pc = req[r].pc /\ req'[r].server = req[r].server
        /\ req'[r].che => req[r].che \/ r \in props[s]
        /\ req[r].che => req'[r].che
        /\ UNCHANGED <<sent, log>>
        /\ \A t \in Servers : props'[t] \subseteq props[t]
    BY <1>8, <2>1 DEF Apply, TypeOK, Request
  <2>3. /\ \A t \in Servers : durable'[t] >= durable[t] /\ durable'[t] \in Nat
        /\ durable'[s] >= applied[s] + 1
    BY <1>8, LogFacts DEF Apply, TypeOK
  <2> HIDE DEF r
  <2>4. ASSUME NEW q \in Requests, req'[q].che
        PROVE  /\ req'[q].server \in Servers
               /\ \E i \in 1..durable'[req'[q].server] : log[i] = q
    <3>1. CASE req[q].che
      BY <2>1, <2>2, <2>3, <3>1, LogFacts DEF SentInv
    <3>2. CASE ~req[q].che
      <4>1. q = r /\ q \in props[s]
        BY <2>1, <2>2, <2>4, <3>2
      <4> QED  BY <2>1, <2>2, <2>3, <4>1, LogFacts DEF SentInv, r
    <3> QED  BY <3>1, <3>2
  <2>5. \A q \in Requests : /\ req'[q].pc = req[q].pc /\ req'[q].server = req[q].server
                            /\ req[q].che => req'[q].che
    BY <2>1, <2>2
  <2>6. /\ sent \subseteq Requests /\ \A i \in 1..Len(log) : log[i] \in Requests
        /\ \A t \in Servers : props[t] \subseteq Requests
    BY LogFacts
  <2>7. /\ \A q \in sent' : req'[q].pc \in {"wait", "done", "failed"}
        /\ \A i \in 1..Len(log') : req'[log'[i]].pc \in {"wait", "done", "failed"}
    BY <2>2, <2>5, <2>6 DEF SentInv
  <2>8. \A t \in Servers : \A q \in props'[t] :
          req'[q].server = t /\ req'[q].pc \in {"wait", "done", "failed"}
    BY <2>2, <2>5, <2>6 DEF SentInv
  <2>9. \A q \in Returned' : req'[q].che
    BY <2>5 DEF SentInv, Returned
  <2> QED  BY Zenon, <2>2, <2>4, <2>7, <2>8, <2>9 DEF SentInv
<1>9. ASSUME NEW s \in Servers, CrashAndRestart(s) PROVE SentInv'
  BY <1>9, AssignAssumption DEF
     CrashAndRestart, TypeOK, SentInv, LeadInv, AppliedInv, Returned, Live, Ended, vars
<1>10. ASSUME Commit PROVE SentInv'
  BY <1>10, AssignAssumption DEF
     Commit, TypeOK, SentInv, LeadInv, AppliedInv, Returned, Live, Ended, vars
<1>11. ASSUME Lose PROVE SentInv'
  BY <1>11, AssignAssumption DEF
     Lose, TypeOK, SentInv, LeadInv, AppliedInv, Returned, Live, Ended, vars
<1>12. ASSUME MoveLeader PROVE SentInv'
  BY <1>12, AssignAssumption DEF
     MoveLeader, TypeOK, SentInv, LeadInv, AppliedInv, Returned, Live, Ended, vars
<1>13. ASSUME UNCHANGED vars PROVE SentInv'
  BY <1>13, AssignAssumption DEF
     TypeOK, SentInv, LeadInv, AppliedInv, Returned, Live, Ended, vars
<1>14. QED
  BY <1>1, <1>2, <1>3, <1>4, <1>5, <1>6, <1>7, <1>8, <1>9, <1>10, <1>11, <1>12, <1>13
     DEF
     Next

\* A server that applies, restarts or takes over the lead has marked the uids of
\* the whole prefix of the log that it has applied.
LEMMA AppliedStep ==
  ASSUME TypeOK, SentInv, AppliedInv, [Next]_vars
  PROVE  AppliedInv'
<1>1. ASSUME NEW r \in Requests, assignUids(r) PROVE AppliedInv'
  <2>1. /\ \A q \in Requests : q # r => req'[q] = req[q]
        /\ req[r].pc \notin {"wait", "done", "failed"}
        /\ UNCHANGED <<leads, used, log, applied, durable>>
    BY <1>1, AssignEffect
  <2> QED  BY <2>1, LogFacts DEF SentInv, AppliedInv, AppliedUids
<1>2. ASSUME NEW r \in Requests, LockUid(r) PROVE AppliedInv'
  <2>1. /\ \A q \in Requests : q # r => req'[q] = req[q]
        /\ req[r].pc \notin {"wait", "done", "failed"}
        /\ UNCHANGED <<leads, used, log, applied, durable>>
    BY Zenon, <1>2, LockEffect
  <2> QED  BY <2>1, LogFacts DEF SentInv, AppliedInv, AppliedUids
<1>3. ASSUME NEW r \in Requests, CheckUid(r) PROVE AppliedInv'
  <2>1. /\ \A q \in Requests : q # r => req'[q] = req[q]
        /\ req[r].pc \notin {"wait", "done", "failed"}
        /\ UNCHANGED <<leads, used, log, applied, durable>>
    BY <1>3, CheckEffect
  <2> QED  BY <2>1, LogFacts DEF SentInv, AppliedInv, AppliedUids
<1>4. ASSUME NEW r \in Requests, Propose(r) PROVE AppliedInv'
  BY <1>4, AssignAssumption DEF
     Propose, TypeOK, SentInv, AppliedInv, AppliedUids, MayLead, vars
<1>5. ASSUME NEW r \in Requests, Answered(r) PROVE AppliedInv'
  BY <1>5, AssignAssumption DEF
     Answered, TypeOK, SentInv, AppliedInv, AppliedUids, MayLead, vars
<1>6. ASSUME NEW r \in Requests, ContextDone(r) PROVE AppliedInv'
  BY <1>6, AssignAssumption DEF
     ContextDone, TypeOK, SentInv, AppliedInv, AppliedUids, MayLead, vars
<1>7. ASSUME NEW s \in Servers, clean(s) PROVE AppliedInv'
  BY <1>7, AssignAssumption DEF
     clean, TypeOK, SentInv, AppliedInv, AppliedUids, MayLead, vars
<1>8. ASSUME NEW s \in Servers, Apply(s) PROVE AppliedInv'
  <2>1. PICK n : n = applied[s] + 1
    OBVIOUS
  <2>2. /\ applied[s] \in Nat /\ durable[s] \in Nat /\ n \in 1..Len(log) /\ Len(log) \in Nat
        /\ log[n] \in Requests
    BY <1>8, <2>1, LogFacts DEF Apply
  <2>3. /\ applied' = [applied EXCEPT ![s] = n] /\ UNCHANGED <<leads, log>>
        /\ durable' = [durable EXCEPT ![s] = IF durable[s] > applied[s] THEN durable[s] ELSE n]
        /\ used' = [used EXCEPT ![s] = used[s] \cup AppliedUids(log[n])]
        /\ req' = [req EXCEPT ![log[n]].che = req[log[n]].che \/ log[n] \in props[s]]
    BY Zenon, <1>8, <2>1 DEF Apply
  <2>4. \A i \in 1..Len(log) : AppliedUids(log[i])' = AppliedUids(log[i])
    <3>1. \A q \in Requests : req'[q].got = req[q].got /\ req'[q].marks = req[q].marks
      BY <2>2, <2>3 DEF TypeOK, Request
    <3>2. \A i \in 1..Len(log) : log'[i] = log[i] /\ log[i] \in Requests
      BY <2>3, LogFacts
    <3> QED  BY Zenon, <3>1, <3>2 DEF AppliedUids
  <2>5. ASSUME NEW w \in Servers
        PROVE  /\ \A i \in 1..applied'[w] : AppliedUids(log[i])' \subseteq used'[w]
               /\ applied'[w] <= durable'[w]
               /\ w \in leads' => applied'[w] >= durable'[w]
    <3>1. /\ \A i \in 1..applied[w] : AppliedUids(log[i]) \subseteq used[w]
          /\ applied[w] <= durable[w]
          /\ w \in leads => applied[w] >= durable[w]
      BY DEF AppliedInv
    <3>2. /\ applied[w] \in Nat /\ durable[w] \in Nat /\ applied[w] <= Len(log)
          /\ Len(log) \in Nat
      BY LogFacts
    <3>3. CASE w = s
      <4>1. /\ applied'[w] = n /\ used'[w] = used[w] \cup AppliedUids(log[n])
            /\ durable'[w] = IF durable[w] > applied[w] THEN durable[w] ELSE n
        BY Zenon, <2>3, <3>3 DEF TypeOK
      <4>2. \A i \in 1..n : i = n \/ i \in 1..applied[w]
        BY <2>1, <2>2, <3>3
      <4>3. \A i \in 1..n : AppliedUids(log[i])' = AppliedUids(log[i])
        BY <2>2, <2>3, <2>4, <3>2
      <4>4. applied'[w] <= durable'[w] /\ (w \in leads' => applied'[w] >= durable'[w])
        BY <2>1, <2>2, <2>3, <3>1, <3>2, <3>3, <4>1
      <4>5. \A i \in 1..n : AppliedUids(log[i])' \subseteq used'[w]
        BY Zenon, <3>1, <4>1, <4>2, <4>3
      <4> QED  BY Zenon, <4>1, <4>4, <4>5
    <3>4. CASE w # s
      <4>1. applied'[w] = applied[w] /\ used'[w] = used[w] /\ durable'[w] = durable[w]
        BY Zenon, <2>3, <3>4 DEF TypeOK
      <4>2. \A i \in 1..applied[w] : AppliedUids(log[i])' = AppliedUids(log[i])
        BY <2>3, <2>4, <3>2
      <4> QED  BY Zenon, <2>3, <3>1, <4>1, <4>2
    <3> QED  BY <3>3, <3>4
  <2> QED  BY Zenon, <2>5 DEF AppliedInv
<1>9. ASSUME NEW s \in Servers, CrashAndRestart(s) PROVE AppliedInv'
  BY <1>9, AssignAssumption DEF
     CrashAndRestart, TypeOK, SentInv, AppliedInv, AppliedUids, MayLead, vars
<1>10. ASSUME Commit PROVE AppliedInv'
  BY <1>10, AssignAssumption DEF
     Commit, TypeOK, SentInv, AppliedInv, AppliedUids, MayLead, vars
<1>11. ASSUME Lose PROVE AppliedInv'
  BY <1>11, AssignAssumption DEF
     Lose, TypeOK, SentInv, AppliedInv, AppliedUids, MayLead, vars
<1>12. ASSUME MoveLeader PROVE AppliedInv'
  BY <1>12, AssignAssumption DEF
     MoveLeader, TypeOK, SentInv, AppliedInv, AppliedUids, MayLead, vars
<1>13. ASSUME UNCHANGED vars PROVE AppliedInv'
  BY <1>13, AssignAssumption DEF TypeOK, SentInv, AppliedInv, AppliedUids, MayLead, vars
<1>14. QED
  BY <1>1, <1>2, <1>3, <1>4, <1>5, <1>6, <1>7, <1>8, <1>9, <1>10, <1>11,
     <1>12, <1>13 DEF
     Next

\* The one that leads has marked every uid that was handed out: LeaderKnows.
LEMMA HandedOutIsUsed ==
  ASSUME TypeOK, LeadInv, SentInv, AppliedInv, OneAssigner,
         NEW s \in leads, NEW r \in Returned
  PROVE  AppliedUids(r) \subseteq used[s] /\ req[r].got \subseteq used[s]
<1>1. s \in Servers /\ r \in Requests
  BY DEF TypeOK, Returned
<1>2. req[r].server = s
  BY <1>1 DEF LeadInv, OneAssigner
<1>3. PICK i \in 1..durable[s] : log[i] = r
  BY <1>1, <1>2 DEF SentInv
<1>4. i \in 1..applied[s]
  BY <1>1, LogFacts DEF AppliedInv
<1> QED  BY <1>1, <1>3, <1>4 DEF AppliedInv, AppliedUids

\* No uid that was handed out gets into the hands of another request.
LEMMA DisjointStep ==
  ASSUME TypeOK, FoundInv, LeadInv, LockInv, SentInv, AppliedInv, DisjointInv, OneAssigner,
         [Next]_vars
  PROVE  DisjointInv'
<1>1. ASSUME NEW r \in Requests, assignUids(r) PROVE DisjointInv'
  BY <1>1, AssignEffect DEF
     FoundInv, LeadInv, LockInv, SentInv, AppliedInv, DisjointInv, UniqueUids,
     OneAssigner, Live, Returned, InHand, Ended, AppliedUids
<1>2. ASSUME NEW r \in Requests, LockUid(r) PROVE DisjointInv'
  <2>1. /\ \A q \in Requests : q # r => req'[q] = req[q]
        /\ req[r].pc = "alloc" /\ req'[r].pc = "check" /\ req'[r].got = req[r].got
    BY Zenon, <1>2, LockEffect
  <2> QED  BY <2>1 DEF DisjointInv, UniqueUids, Live, Returned
<1>3. ASSUME NEW r \in Requests, CheckUid(r) PROVE DisjointInv'
  <2>1. /\ \A q \in Requests : q # r => req'[q] = req[q]
        /\ req[r].pc = "check" /\ req'[r].pc \in {"propose", "alloc"}
        /\ \A u \in req'[r].got : u \in req[r].got \/ u \notin used[req[r].server]
    BY <1>3, CheckEffect
  <2>2. ASSUME NEW q \in Returned PROVE req[q].got \subseteq used[req[r].server]
    BY <2>1, HandedOutIsUsed DEF LeadInv, Live
  <2> QED  BY <2>1, <2>2 DEF DisjointInv, UniqueUids, Live, Returned
<1>4. ASSUME NEW r \in Requests, Propose(r) PROVE DisjointInv'
  BY <1>4, AssignAssumption DEF
     Propose, TypeOK, FoundInv, LeadInv, LockInv, SentInv, AppliedInv, DisjointInv,
     UniqueUids, OneAssigner, Live, Returned, InHand, Ended, AppliedUids, vars
<1>5. ASSUME NEW r \in Requests, Answered(r) PROVE DisjointInv'
  <2>1. /\ \A q \in Requests : q # r => req'[q] = req[q]
        /\ req[r].pc = "wait" /\ req'[r].pc = "done" /\ req'[r].got = req[r].got
    BY <1>5 DEF Answered, TypeOK, Request
  <2>2. ASSUME NEW q \in Live, q # r PROVE req[q].got \cap req[r].got = {}
    <3>1. r \in Live /\ req[q].server = req[r].server
      BY <2>1 DEF Live, LeadInv
    <3> QED  BY <2>2, <3>1 DEF LockInv, InHand
  <2> QED  BY <2>1, <2>2 DEF DisjointInv, UniqueUids, Live, Returned
<1>6. ASSUME NEW r \in Requests, ContextDone(r) PROVE DisjointInv'
  BY <1>6, AssignAssumption DEF
     ContextDone, TypeOK, FoundInv, LeadInv, LockInv, SentInv, AppliedInv, DisjointInv,
     UniqueUids, OneAssigner, Live, Returned, InHand, Ended, AppliedUids, vars
<1>7. ASSUME NEW s \in Servers, clean(s) PROVE DisjointInv'
  BY <1>7, AssignAssumption DEF
     clean, TypeOK, FoundInv, LeadInv, LockInv, SentInv, AppliedInv, DisjointInv,
     UniqueUids, OneAssigner, Live, Returned, InHand, Ended, AppliedUids, vars
<1>8. ASSUME NEW s \in Servers, Apply(s) PROVE DisjointInv'
  <2>1. \A q \in Requests : req'[q].pc = req[q].pc /\ req'[q].got = req[q].got
    BY <1>8 DEF Apply, TypeOK, Request
  <2> QED  BY <2>1 DEF DisjointInv, UniqueUids, Live, Returned
<1>9. ASSUME NEW s \in Servers, CrashAndRestart(s) PROVE DisjointInv'
  BY <1>9, AssignAssumption DEF
     CrashAndRestart, TypeOK, FoundInv, LeadInv, LockInv, SentInv, AppliedInv,
     DisjointInv, UniqueUids, OneAssigner, Live, Returned, InHand, Ended, AppliedUids,
     vars
<1>10. ASSUME Commit PROVE DisjointInv'
  BY <1>10, AssignAssumption DEF
     Commit, TypeOK, FoundInv, LeadInv, LockInv, SentInv, AppliedInv, DisjointInv,
     UniqueUids, OneAssigner, Live, Returned, InHand, Ended, AppliedUids, vars
<1>11. ASSUME Lose PROVE DisjointInv'
  BY <1>11, AssignAssumption DEF
     Lose, TypeOK, FoundInv, LeadInv, LockInv, SentInv, AppliedInv, DisjointInv,
     UniqueUids, OneAssigner, Live, Returned, InHand, Ended, AppliedUids, vars
<1>12. ASSUME MoveLeader PROVE DisjointInv'
  BY <1>12, AssignAssumption DEF
     MoveLeader, TypeOK, FoundInv, LeadInv, LockInv, SentInv, AppliedInv, DisjointInv,
     UniqueUids, OneAssigner, Live, Returned, InHand, Ended, AppliedUids, vars
<1>13. ASSUME UNCHANGED vars PROVE DisjointInv'
  BY <1>13, AssignAssumption DEF
     TypeOK, FoundInv, LeadInv, LockInv, SentInv, AppliedInv, DisjointInv, UniqueUids,
     OneAssigner, Live, Returned, InHand, Ended, AppliedUids, vars
<1>14. QED
  BY <1>1, <1>2, <1>3, <1>4, <1>5, <1>6, <1>7, <1>8, <1>9, <1>10, <1>11,
     <1>12, <1>13 DEF
     Next

-----------------------------------------------------------------------------
\* The invariant holds initially.
LEMMA InitInv ==
  ASSUME Init PROVE Inv
<1> USE DEF Init
<1>1. \A r \in Requests : req[r] = IdleRequest /\ IdleRequest.pc = "idle"
                          /\ IdleRequest.got = {} /\ IdleRequest.che = FALSE /\ IdleRequest.want = 0
  BY DEF IdleRequest
<1>2. IdleRequest \in Request
  BY AssignAssumption DEF IdleRequest, Request
<1>3. TypeOK
  <2>1. Len(log) = 0 /\ log \in Seq(Requests)
    OBVIOUS
  <2>2. lmgr \in [Servers -> [Uids -> Requests \cup {None}]]
    BY DEF Unlocked
  <2>3. ASSUME NEW r \in Requests PROVE Cardinality(req[r].got) <= req[r].want
    <3>1. req[r].got = {} /\ req[r].want = 0 /\ Cardinality({}) = 0
      BY <1>1, FS_EmptySet
    <3> HIDE DEF Init
    <3>2. Cardinality(req[r].got) = 0
      BY <3>1
    <3> QED  BY <3>1, <3>2
  <2> QED  BY <1>1, <1>2, <2>1, <2>2, <2>3 DEF TypeOK
<1>4. FoundInv
  BY Zenon, <1>1, FS_EmptySet DEF FoundInv
<1>5. LeadInv /\ LockInv /\ DisjointInv
  BY <1>1 DEF LeadInv, LockInv, DisjointInv, UniqueUids, Live, Returned
<1>6. SentInv /\ AppliedInv
  BY <1>1 DEF SentInv, AppliedInv, Returned
<1> QED  BY <1>3, <1>4, <1>5, <1>6 DEF Inv

\* Every step keeps the invariant: the lemmas above, one conjunct each.
LEMMA StepInv ==
  ASSUME Deadlines, OneAssigner, Inv, [Next]_vars PROVE Inv'
BY TypeStep, LeadStep, LockStep, SentStep, AppliedStep, DisjointStep DEF Inv

(* No uid is handed out twice as a new one (allocateUniqueUid, lockManager and
   ProposeAndWait together), for any number of requests and uids: when requests
   end within their deadline and one server hands the uids out. *)
THEOREM UidsAreUnique ==
  ASSUME Deadlines, OneAssigner
  PROVE  Spec => []UniqueUids
<1>1. Init => Inv
  BY InitInv
<1>2. Inv /\ [Next]_vars => Inv'
  BY StepInv
<1>3. Inv => UniqueUids
  BY DEF Inv, DisjointInv
<1> QED  BY <1>1, <1>2, <1>3, PTL DEF Spec

(* The server that hands out uids has marked every uid that was handed out,
   also after crashes that lost unmerged lists: it leads only when it has
   applied again what its log on disk has. *)
THEOREM LeaderKnowsUsedUids ==
  ASSUME Deadlines, OneAssigner
  PROVE  Spec => []LeaderKnows
<1>1. Init => Inv
  BY InitInv
<1>2. Inv /\ [Next]_vars => Inv'
  BY StepInv
<1>3. Inv => LeaderKnows
  BY HandedOutIsUsed DEF Inv, LeaderKnows
<1> QED  BY <1>1, <1>2, <1>3, PTL DEF Spec

-----------------------------------------------------------------------------
(* Proposals, BackupRelay and Pool *)

CONSTANTS PrGroups, GroupEdges, RlNodes, RlMaxLeads, PoolUsers, PoolCap, MaxConns

VARIABLES
  mutationMap, prTodo, prAt, prErrors, prReply, prWait, prProps, che, raftQ, prApplied,
  rlLeader, rlMoves, chain, reqids, rlRan, rlBacked, reply,
  pool, poolConns, dialled, closedConns, puState, puConn

P == INSTANCE Proposals WITH props <- prProps
R == INSTANCE BackupRelay
C == INSTANCE Pool

-----------------------------------------------------------------------------
(* Proposals *)

PrTypes ==
  /\ mutationMap \subseteq PrGroups /\ prTodo \subseteq PrGroups /\ raftQ \subseteq PrGroups
  /\ prAt \in PrGroups \cup {"none"}
  /\ prErrors \in Seq({"nil", "error"})
  /\ prReply \in {"idle", "none", "nil", "error"}
  /\ prWait \in [PrGroups -> {"idle", "start", "stored", "wait", "nil", "error"}]
  /\ prProps \in [PrGroups -> BOOLEAN]
  /\ che \in [PrGroups -> {"empty", "nil", "error"}]
  /\ prApplied \in [PrGroups -> SUBSET GroupEdges]

(* A group's proposal is given to Raft once, and who has been told "nil" was told
   by the apply loop that has added all edges; it does not come to them again. *)
PrOnce ==
  \A g \in PrGroups :
    /\ g \in prTodo => prWait[g] = "idle"
    /\ prWait[g] \in {"idle", "start", "stored"} => g \notin raftQ /\ che[g] = "empty"
    /\ che[g] # "empty" => g \notin raftQ
    /\ che[g] = "nil" => prApplied[g] = GroupEdges
    /\ prWait[g] = "nil" => g \notin raftQ /\ prApplied[g] = GroupEdges

(* As long as no error came back, each group of the request is to be called, is
   being called, or was told "nil". *)
PrAll ==
  /\ prReply = "idle" => /\ mutationMap = {} /\ prAt = "none"
                         /\ \A g \in PrGroups : prWait[g] = "idle"
  /\ "error" \notin Range(prErrors) =>
       \A g \in mutationMap \ prTodo : g = prAt \/ prWait[g] = "nil"
  /\ prReply = "nil" =>
       "error" \notin Range(prErrors) /\ prTodo = {} /\ prAt = "none"

PrInv == PrTypes /\ PrOnce /\ PrAll

\* A result that is appended to the results.
LEMMA RangeAppend ==
  ASSUME NEW S, NEW s \in Seq(S), NEW x \in S
  PROVE  Append(s, x) \in Seq(S) /\ Range(Append(s, x)) = Range(s) \cup {x}
<1>1. /\ Append(s, x) \in Seq(S) /\ Len(Append(s, x)) = Len(s) + 1 /\ Len(s) \in Nat
      /\ \A i \in 1..Len(s) : Append(s, x)[i] = s[i]
      /\ Append(s, x)[Len(s) + 1] = x
      /\ DOMAIN s = 1..Len(s) /\ DOMAIN Append(s, x) = 1..Len(s) + 1
  OBVIOUS
<1>2. 1..Len(s) + 1 = 1..Len(s) \cup {Len(s) + 1}
  BY <1>1
<1> QED  BY <1>1, <1>2 DEF Range

\* The invariant holds before the request.
LEMMA PrFirst == ASSUME P!Init PROVE PrInv
<1>1. Range(<<>>) = {}
  BY DEF Range
<1>2. PrTypes
  BY DEF P!Init, PrTypes
<1>3. PrOnce
  BY DEF P!Init, PrOnce
<1>4. PrAll
  BY <1>1 DEF P!Init, PrAll
<1> QED  BY <1>2, <1>3, <1>4 DEF PrInv

\* Every step of the request, of Raft and of the apply loop keeps the invariant.
LEMMA PrStep ==
  ASSUME "none" \notin PrGroups, PrInv, [P!Next]_(P!prVars) PROVE PrInv'
<1>0. PrTypes /\ PrOnce /\ PrAll
  BY DEF PrInv
<1>1. ASSUME P!MutateOverNetwork PROVE PrInv'
  <2>1. PrTypes'
    BY <1>0, <1>1 DEF PrTypes, P!MutateOverNetwork
  <2>2. PrOnce'
    BY <1>0, <1>1 DEF PrTypes, PrOnce, PrAll, P!MutateOverNetwork
  <2>3. PrAll'
    BY <1>0, <1>1 DEF PrTypes, PrAll, P!MutateOverNetwork
  <2> QED  BY <2>1, <2>2, <2>3 DEF PrInv
<1>2. ASSUME P!mutateReturns PROVE PrInv'
  <2>1. P!Result \in {"error", "nil"} /\ (P!Result = "nil" => "error" \notin Range(prErrors))
    BY DEF P!Result, P!Range, Range
  <2>2. PrTypes' /\ PrOnce'
    BY <1>0, <1>2, <2>1 DEF PrTypes, PrOnce, P!mutateReturns
  <2>3. PrAll'
    BY <1>0, <1>2, <2>1 DEF PrAll, P!mutateReturns
  <2> QED  BY <2>2, <2>3 DEF PrInv
<1>3. ASSUME NEW g \in PrGroups, P!proposeOrSend(g) PROVE PrInv'
  <2>1. Append(prErrors, "error") \in Seq({"nil", "error"})
        /\ "error" \in Range(Append(prErrors, "error"))
    BY <1>0, RangeAppend DEF PrTypes
  <2>2. PrTypes'
    BY <1>0, <1>3, <2>1 DEF PrTypes, P!proposeOrSend
  <2>3. PrOnce'
    BY <1>0, <1>3 DEF PrTypes, PrOnce, P!proposeOrSend
  <2>4. PrAll'
    BY ZenonT(30), <1>0, <1>3, <2>1 DEF PrTypes, PrAll, P!proposeOrSend
  <2> QED  BY <2>2, <2>3, <2>4 DEF PrInv
<1>4. ASSUME NEW g \in PrGroups, P!storeProposal(g) PROVE PrInv'
  <2>1. PrTypes' /\ PrOnce'
    BY <1>0, <1>4 DEF PrTypes, PrOnce, P!storeProposal
  <2>2. PrAll'
    BY <1>0, <1>4 DEF PrTypes, PrAll, P!storeProposal
  <2> QED  BY <2>1, <2>2 DEF PrInv
<1>5. ASSUME NEW g \in PrGroups, P!propose(g) PROVE PrInv'
  <2>1. PrTypes' /\ PrOnce'
    BY <1>0, <1>5 DEF PrTypes, PrOnce, P!propose
  <2>2. PrAll'
    BY <1>0, <1>5 DEF PrTypes, PrAll, P!propose
  <2> QED  BY <2>1, <2>2 DEF PrInv
<1>6. ASSUME NEW g \in PrGroups, P!ProposalResult(g) PROVE PrInv'
  <2>1. PrTypes' /\ PrOnce'
    BY <1>0, <1>6 DEF PrTypes, PrOnce, P!ProposalResult
  <2>2. PrAll'
    BY <1>0, <1>6 DEF PrTypes, PrAll, P!ProposalResult
  <2> QED  BY <2>1, <2>2 DEF PrInv
<1>7. ASSUME NEW g \in PrGroups, P!ctxDone(g) PROVE PrInv'
  <2>1. Append(prErrors, "error") \in Seq({"nil", "error"})
        /\ "error" \in Range(Append(prErrors, "error"))
    BY <1>0, RangeAppend DEF PrTypes
  <2>2. PrTypes' /\ PrOnce'
    BY ZenonT(30), <1>0, <1>7, <2>1 DEF PrTypes, PrOnce, P!ctxDone
  <2>3. PrAll'
    BY Zenon, <1>0, <1>7, <2>1 DEF PrTypes, PrAll, P!ctxDone
  <2> QED  BY <2>2, <2>3 DEF PrInv
<1>8. ASSUME NEW g \in PrGroups, P!proposed(g) PROVE PrInv'
  <2>1. prErrors' \in Seq({"nil", "error"}) /\ Range(prErrors') = Range(prErrors) \cup {prWait[g]}
    BY <1>0, <1>8, RangeAppend DEF PrTypes, P!proposed
  <2>2. PrTypes' /\ PrOnce'
    BY <1>0, <1>8, <2>1 DEF PrTypes, PrOnce, P!proposed
  <2>3. PrAll'
    BY <1>0, <1>8, <2>1 DEF PrTypes, PrAll, P!proposed
  <2> QED  BY <2>2, <2>3 DEF PrInv
<1>9. ASSUME NEW g \in PrGroups, P!process(g) PROVE PrInv'
  <2>1. PrTypes'
    BY <1>0, <1>9 DEF PrTypes, P!process
  <2>2. PrOnce'
    BY <1>0, <1>9 DEF PrTypes, PrOnce, P!process
  <2>3. PrAll'
    BY Zenon, <1>0, <1>9 DEF PrTypes, PrAll, P!process
  <2> QED  BY <2>1, <2>2, <2>3 DEF PrInv
<1>10. ASSUME NEW g \in PrGroups, P!Lose(g) PROVE PrInv'
  BY Zenon, <1>0, <1>10 DEF PrInv, PrTypes, PrOnce, PrAll, P!Lose
<1>11. ASSUME UNCHANGED P!prVars PROVE PrInv'
  BY <1>0, <1>11 DEF PrInv, PrTypes, PrOnce, PrAll, P!prVars
<1> QED  BY Zenon, <1>1, <1>2, <1>3, <1>4, <1>5, <1>6, <1>7, <1>8, <1>9, <1>10, <1>11 DEF P!Next

\* MutateOverNetwork answers nil only when the apply loop has added every edge of the
\* request in every group that it has edges for; it stays so, though proposals whose
\* context has ended may still be committed and others are lost.
THEOREM AckedMutationIsApplied ==
  ASSUME "none" \notin PrGroups
  PROVE  P!Init /\ [][P!Next]_(P!prVars) => []P!AckedIsApplied
<1>1. PrInv => P!AckedIsApplied
  BY DEF PrInv, PrTypes, PrOnce, PrAll, P!AckedIsApplied
<1> QED  BY <1>1, PrFirst, PrStep, PTL

-----------------------------------------------------------------------------
(* BackupRelay *)

(* While the request travels nobody has run the backup, and every server of the
   chain but the first has recorded the request id, once. *)
RlInv ==
  /\ chain \in Seq(RlNodes) /\ reqids \subseteq RlNodes /\ rlRan \in Seq(RlNodes)
  /\ rlBacked \in BOOLEAN /\ Len(rlRan) <= 1
  /\ Len(chain) <= Cardinality(reqids) + 1
  /\ reply = "none" => rlRan = <<>>
  /\ reply = "success" => rlBacked /\ rlRan # <<>>

\* The servers that have the request id are no more than there are servers.
LEMMA RlFinite ==
  ASSUME IsFiniteSet(RlNodes), NEW S, S \subseteq RlNodes
  PROVE  /\ IsFiniteSet(S) /\ Cardinality(S) \in Nat /\ Cardinality(RlNodes) \in Nat
         /\ Cardinality(S) <= Cardinality(RlNodes)
         /\ \A n \in RlNodes \ S : Cardinality(S \cup {n}) = Cardinality(S) + 1
<1>1. IsFiniteSet(S) /\ Cardinality(S) <= Cardinality(RlNodes)
  BY FS_Subset
<1>2. Cardinality(S) \in Nat /\ Cardinality(RlNodes) \in Nat
  BY <1>1, FS_CardinalityType
<1>3. \A n \in RlNodes \ S : Cardinality(S \cup {n}) = Cardinality(S) + 1
  BY <1>1, FS_AddElement
<1> QED  BY <1>1, <1>2, <1>3

\* Every call, reply and change of the leader keeps the invariant.
LEMMA RlStep ==
  ASSUME IsFiniteSet(RlNodes), RlInv, [R!Next]_(R!rlVars) PROVE RlInv'
<1>0. Cardinality(reqids) \in Nat
  BY RlFinite DEF RlInv
<1>1. ASSUME R!BackupOverNetwork PROVE RlInv'
  <2>1. chain' \in Seq(RlNodes) /\ Len(chain') = 1
    BY <1>1 DEF R!BackupOverNetwork
  <2> QED  BY <1>0, <1>1, <2>1 DEF RlInv, R!BackupOverNetwork
<1>2. ASSUME R!runBackup PROVE RlInv'
  <2>1. R!Top \in RlNodes
    BY <1>2 DEF RlInv, R!Top, R!runBackup
  <2>2. rlRan = <<>> /\ rlRan' = Append(rlRan, R!Top)
    BY <1>2 DEF RlInv, R!runBackup
  <2>3. rlRan' \in Seq(RlNodes) /\ Len(rlRan') = 1 /\ rlRan' # <<>>
    BY <2>1, <2>2
  <2>4. rlBacked' \in BOOLEAN /\ (reply' = "success" => rlBacked') /\ reply' # "none"
    BY Zenon, <1>2 DEF R!runBackup
  <2> QED  BY <1>2, <2>3, <2>4 DEF RlInv, R!runBackup
<1>3. ASSUME R!relay PROVE RlInv'
  <2>1. CASE UNCHANGED <<chain, reqids>>
    BY <1>3, <2>1 DEF RlInv, R!relay
  <2>2. CASE ~UNCHANGED <<chain, reqids>>
    <3>1. PICK n \in RlNodes : /\ n \notin reqids /\ chain' = Append(chain, n)
                               /\ reqids' = reqids \cup {n} /\ reply' = reply
      BY <1>3, <2>2 DEF R!relay, R!addIfNotPresent
    <3>2. Cardinality(reqids') = Cardinality(reqids) + 1
      BY <3>1, RlFinite DEF RlInv
    <3>3. chain' \in Seq(RlNodes) /\ Len(chain') = Len(chain) + 1 /\ Len(chain) \in Nat
      BY <3>1 DEF RlInv
    <3> QED  BY <1>0, <1>3, <3>1, <3>2, <3>3 DEF RlInv, R!relay
  <2> QED  BY <2>1, <2>2
<1>4. ASSUME R!answer PROVE RlInv'
  <2>1. chain \in Seq(RlNodes) /\ Len(chain) \in Nat \ {0}
    BY <1>4 DEF RlInv, R!answer
  <2>2. chain' \in Seq(RlNodes) /\ Len(chain') = Len(chain) - 1
    <3>1. chain' = SubSeq(chain, 1, Len(chain) - 1)
      BY <1>4 DEF R!answer
    <3>2. SubSeq(chain, 1, Len(chain) - 1) \in Seq(RlNodes)
      BY <2>1
    <3>3. Len(SubSeq(chain, 1, Len(chain) - 1)) = Len(chain) - 1
      <4>1. PICK n \in Nat : n = Len(chain) - 1
        BY <2>1
      <4>2. CASE n = 0
        BY <2>1, <4>1, <4>2
      <4>3. CASE n >= 1
        BY <2>1, <4>1, <4>3
      <4> QED  BY <4>1, <4>2, <4>3
    <3> QED  BY Zenon, <3>1, <3>2, <3>3
  <2>3. reply' \in {reply, "failed"} /\ reply # "none"
    BY <1>4 DEF R!answer
  <2> QED  BY <1>0, <1>4, <2>1, <2>2, <2>3 DEF RlInv, R!answer
<1>5. ASSUME R!LeaderChanges \/ UNCHANGED R!rlVars PROVE RlInv'
  BY <1>5 DEF RlInv, R!LeaderChanges, R!rlVars
<1> QED  BY <1>1, <1>2, <1>3, <1>4, <1>5 DEF R!Next

\* Of the servers that a backup request reaches, in a chain of calls that the recorded
\* ids keep finite, one runs the backup, once, and success is reported only when the
\* file was written; the leader may change at every point of the way.
THEOREM BackupRunsOnce ==
  ASSUME IsFiniteSet(RlNodes)
  PROVE  R!Init /\ [][R!Next]_(R!rlVars) => []R!OneBackupPerRequest
<1>1. R!Init => RlInv
  <2> SUFFICES ASSUME R!Init PROVE RlInv
    OBVIOUS
  <2>1. Cardinality(reqids) = 0
    BY FS_EmptySet DEF R!Init
  <2>2. chain \in Seq(RlNodes) /\ rlRan \in Seq(RlNodes) /\ Len(rlRan) = 0 /\ Len(chain) = 0
    BY DEF R!Init
  <2>3. rlBacked \in BOOLEAN
    BY Zenon DEF R!Init
  <2> QED  BY <2>1, <2>2, <2>3 DEF RlInv, R!Init
<1>2. RlInv => R!OneBackupPerRequest
  <2> SUFFICES ASSUME RlInv PROVE R!OneBackupPerRequest
    OBVIOUS
  <2>1. Cardinality(reqids) \in Nat /\ Cardinality(RlNodes) \in Nat
        /\ Cardinality(reqids) <= Cardinality(RlNodes)
    BY RlFinite DEF RlInv
  <2>2. Len(chain) \in Nat
    BY DEF RlInv
  <2>3. R!Cardinality(RlNodes) = Cardinality(RlNodes)
    BY DEF R!Cardinality, Cardinality
  <2> QED  BY <2>1, <2>2, <2>3 DEF RlInv, R!OneBackupPerRequest
<1> QED  BY <1>1, <1>2, RlStep, PTL

-----------------------------------------------------------------------------
(* Pool *)

Conns == Nat \ {0}

(* Connection c is in one place only: q is what the pools hold, h what is in
   hand, z what is closed, of d connections dialled. *)
OnePlace(q, h, z, d) ==
  /\ \A u, v \in PoolUsers :
       /\ h[u] \notin q[v]
       /\ u # v => q[u] \cap q[v] = {} /\ (h[u] # 0 => h[u] # h[v])
  /\ \A u \in PoolUsers : q[u] \cap z = {} /\ h[u] \notin z /\ h[u] \in 0..d /\ q[u] \subseteq 1..d
  /\ z \subseteq 1..d
  /\ \A c \in 1..d : c \in z \/ \E u \in PoolUsers : c = h[u] \/ c \in q[u]

Held == [u \in PoolUsers |-> Range(poolConns[u])]

PoTypes ==
  /\ pool \in PoolUsers \cup {"none"}
  /\ puState \in [PoolUsers -> {"idle", "dial", "echo", "install", "use"}]

(* A pool that is being made is not installed: only its maker uses it. *)
PoPlaces ==
  \A u \in PoolUsers :
    /\ puState[u] = "use" => puConn[u] # 0 /\ pool # "none"
    /\ puState[u] \notin {"use", "echo"} => puConn[u] = 0
    /\ puState[u] = "dial" => poolConns[u] = <<>>
    /\ puState[u] \in {"dial", "echo", "install"} => pool # u

PoChans ==
  /\ poolConns \in [PoolUsers -> Seq(Conns)]
  /\ \A u \in PoolUsers : Len(poolConns[u]) <= PoolCap /\ IsInjective(poolConns[u])
  /\ dialled \in Nat
  /\ puConn \in [PoolUsers -> Nat]
  /\ OnePlace(Held, puConn, closedConns, dialled)

PoInv == PoTypes /\ PoPlaces /\ PoChans

\* A connection that is taken from the channel of a pool.
LEMMA RangeTail ==
  ASSUME NEW S, NEW s \in Seq(S), s # <<>>, IsInjective(s)
  PROVE  /\ Head(s) \in S /\ Tail(s) \in Seq(S) /\ IsInjective(Tail(s))
         /\ Len(Tail(s)) = Len(s) - 1
         /\ Head(s) \in Range(s) /\ Range(Tail(s)) = Range(s) \ {Head(s)}
<1>1. /\ Head(s) \in S /\ Tail(s) \in Seq(S) /\ Len(s) \in Nat \ {0}
      /\ Len(Tail(s)) = Len(s) - 1 /\ Head(s) = s[1]
      /\ \A i \in 1..(Len(s) - 1) : Tail(s)[i] = s[i + 1]
  OBVIOUS
<1>2. DOMAIN s = 1..Len(s) /\ DOMAIN Tail(s) = 1..(Len(s) - 1)
  BY <1>1
<1>3. IsInjective(Tail(s))
  BY <1>1, <1>2 DEF IsInjective
<1>4. Head(s) \in Range(s)
  BY <1>1, <1>2 DEF Range
<1>5. ASSUME NEW c \in Range(Tail(s)) PROVE c \in Range(s) \ {Head(s)}
  <2>1. PICK i \in 1..(Len(s) - 1) : c = Tail(s)[i]
    BY <1>2, <1>5 DEF Range
  <2>2. c = s[i + 1] /\ i + 1 \in 1..Len(s) /\ 1 \in 1..Len(s) /\ i + 1 # 1
    BY <1>1, <2>1
  <2> QED  BY <1>1, <1>2, <2>2 DEF Range, IsInjective
<1>6. ASSUME NEW c \in Range(s) \ {Head(s)} PROVE c \in Range(Tail(s))
  <2>1. PICK i \in 1..Len(s) : c = s[i]
    BY <1>2, <1>6 DEF Range
  <2>2. i - 1 \in 1..(Len(s) - 1) /\ Tail(s)[i - 1] = s[i]
    BY <1>1, <1>6, <2>1
  <2> QED  BY Zenon, <1>2, <2>1, <2>2 DEF Range
<1> QED  BY <1>1, <1>3, <1>4, <1>5, <1>6

\* A connection that is put back into the channel of a pool.
LEMMA InjectiveAppend ==
  ASSUME NEW S, NEW s \in Seq(S), NEW x \in S, IsInjective(s), x \notin Range(s)
  PROVE  IsInjective(Append(s, x)) /\ Len(Append(s, x)) = Len(s) + 1
<1>1. /\ Len(Append(s, x)) = Len(s) + 1 /\ Len(s) \in Nat
      /\ \A i \in 1..Len(s) : Append(s, x)[i] = s[i]
      /\ Append(s, x)[Len(s) + 1] = x
  OBVIOUS
<1>2. DOMAIN s = 1..Len(s) /\ DOMAIN Append(s, x) = 1..(Len(s) + 1)
  BY <1>1
<1>3. \A i \in 1..Len(s) : s[i] # x
  BY <1>2 DEF Range
<1> QED  BY <1>1, <1>2, <1>3 DEF IsInjective

\* A channel has as many connections as entries.
LEMMA InjectiveCard ==
  ASSUME NEW S, NEW s \in Seq(S), IsInjective(s)
  PROVE  Cardinality(Range(s)) = Len(s)
<1>1. Len(s) \in Nat /\ DOMAIN s = 1..Len(s) /\ s \in [1..Len(s) -> Range(s)]
  BY DEF Range
<1>2. s \in Bijection(1..Len(s), Range(s))
  BY <1>1 DEF Bijection, Injection, Surjection, IsInjective, Range
<1>3. ExistsBijection(1..Len(s), Range(s))
  BY <1>2 DEF ExistsBijection
<1> QED  BY <1>1, <1>3, FS_CountingElements

\* Get: from a pool into a hand.
LEMMA Taken ==
  ASSUME NEW q \in [PoolUsers -> SUBSET Conns], NEW h \in [PoolUsers -> Nat], NEW z, NEW d \in Nat,
         OnePlace(q, h, z, d),
         NEW o \in PoolUsers, NEW u \in PoolUsers, NEW c \in q[o], h[u] = 0
  PROVE  OnePlace([q EXCEPT ![o] = @ \ {c}], [h EXCEPT ![u] = c], z, d)
<1> DEFINE r == [q EXCEPT ![o] = @ \ {c}]  k == [h EXCEPT ![u] = c]
<1>1. c # 0 /\ c \notin z /\ c \in 1..d /\ \A v \in PoolUsers : h[v] # c /\ (v # o => c \notin q[v])
  BY DEF OnePlace, Conns
<1>2. /\ \A v \in PoolUsers : \A e : e \in r[v] <=> e \in q[v] /\ ~(v = o /\ e = c)
      /\ \A v \in PoolUsers : k[v] = IF v = u THEN c ELSE h[v]
  OBVIOUS
<1> HIDE DEF r, k
<1>3. \A v, w \in PoolUsers :
       /\ k[v] \notin r[w]
       /\ v # w => r[v] \cap r[w] = {} /\ (k[v] # 0 => k[v] # k[w])
  BY <1>1, <1>2 DEF OnePlace
<1>4. \A v \in PoolUsers : r[v] \cap z = {} /\ k[v] \notin z /\ k[v] \in 0..d /\ r[v] \subseteq 1..d
  BY <1>1, <1>2 DEF OnePlace
<1>5. \A e \in 1..d : e \in z \/ \E v \in PoolUsers : e = k[v] \/ e \in r[v]
  BY <1>1, <1>2 DEF OnePlace
<1>6. OnePlace(r, k, z, d)
  BY <1>3, <1>4, <1>5 DEF OnePlace
<1> QED  BY <1>6 DEF r, k

\* Put: from a hand into a pool.
LEMMA PutBack ==
  ASSUME NEW q \in [PoolUsers -> SUBSET Conns], NEW h \in [PoolUsers -> Nat], NEW z, NEW d \in Nat,
         OnePlace(q, h, z, d),
         NEW o \in PoolUsers, NEW u \in PoolUsers, h[u] # 0
  PROVE  OnePlace([q EXCEPT ![o] = @ \cup {h[u]}], [h EXCEPT ![u] = 0], z, d)
<1> DEFINE r == [q EXCEPT ![o] = @ \cup {h[u]}]  k == [h EXCEPT ![u] = 0]
<1>1. /\ h[u] \in 1..d /\ h[u] \notin z /\ z \subseteq 1..d /\ 0 \notin z
      /\ \A v \in PoolUsers : h[u] \notin q[v] /\ 0 \notin q[v] /\ (v # u => h[v] # h[u])
  BY DEF OnePlace, Conns
<1>2. /\ \A v \in PoolUsers : \A e : e \in r[v] <=> e \in q[v] \/ (v = o /\ e = h[u])
      /\ \A v \in PoolUsers : k[v] = IF v = u THEN 0 ELSE h[v]
  <2>1. r[o] = q[o] \cup {h[u]} /\ \A v \in PoolUsers \ {o} : r[v] = q[v]
    OBVIOUS
  <2>2. \A v \in PoolUsers : k[v] = IF v = u THEN 0 ELSE h[v]
    OBVIOUS
  <2> HIDE DEF r, k
  <2> QED  BY <2>1, <2>2
<1> HIDE DEF r, k
<1>3. \A v, w \in PoolUsers :
       /\ k[v] \notin r[w]
       /\ v # w => r[v] \cap r[w] = {} /\ (k[v] # 0 => k[v] # k[w])
  BY <1>1, <1>2 DEF OnePlace
<1>4. \A v \in PoolUsers : r[v] \cap z = {} /\ k[v] \notin z /\ k[v] \in 0..d /\ r[v] \subseteq 1..d
  BY <1>1, <1>2 DEF OnePlace
<1>5. ASSUME NEW e \in 1..d PROVE e \in z \/ \E v \in PoolUsers : e = k[v] \/ e \in r[v]
  <2>1. CASE e = h[u]
    BY <1>2, <2>1
  <2>2. CASE e # h[u] /\ e \notin z
    <3>1. PICK v \in PoolUsers : e = h[v] \/ e \in q[v]
      BY Zenon, <2>2 DEF OnePlace
    <3>2. e = k[v] \/ e \in r[v]
      BY Zenon, <1>2, <2>2, <3>1
    <3> QED  BY <3>2
  <2> QED  BY Zenon, <2>1, <2>2
<1>6. OnePlace(r, k, z, d)
  BY Zenon, <1>1, <1>3, <1>4, <1>5 DEF OnePlace
<1> QED  BY <1>6 DEF r, k

\* Put of a full pool: the connection is closed.
LEMMA Closed ==
  ASSUME NEW q \in [PoolUsers -> SUBSET Conns], NEW h \in [PoolUsers -> Nat], NEW z, NEW d \in Nat,
         OnePlace(q, h, z, d), NEW u \in PoolUsers, h[u] # 0
  PROVE  OnePlace(q, [h EXCEPT ![u] = 0], z \cup {h[u]}, d)
<1> DEFINE k == [h EXCEPT ![u] = 0]
<1>1. /\ h[u] \in 1..d /\ z \subseteq 1..d /\ 0 \notin z
      /\ \A v \in PoolUsers : h[u] \notin q[v] /\ 0 \notin q[v] /\ (v # u => h[v] # h[u])
  BY DEF OnePlace, Conns
<1>2. \A v \in PoolUsers : k[v] = IF v = u THEN 0 ELSE h[v]
  OBVIOUS
<1> HIDE DEF k
<1>3. \A v, w \in PoolUsers :
       /\ k[v] \notin q[w]
       /\ v # w => q[v] \cap q[w] = {} /\ (k[v] # 0 => k[v] # k[w])
  BY <1>1, <1>2 DEF OnePlace
<1>4. \A v \in PoolUsers : /\ q[v] \cap (z \cup {h[u]}) = {} /\ k[v] \notin z \cup {h[u]}
                           /\ k[v] \in 0..d /\ q[v] \subseteq 1..d
  BY <1>1, <1>2 DEF OnePlace
<1>5. \A e \in 1..d : e \in z \cup {h[u]} \/ \E v \in PoolUsers : e = k[v] \/ e \in q[v]
  BY <1>1, <1>2 DEF OnePlace
<1>6. OnePlace(q, k, z \cup {h[u]}, d)
  BY ZenonT(30), <1>1, <1>3, <1>4, <1>5 DEF OnePlace
<1> QED  BY <1>6 DEF k

\* dialNew: a new connection, in a hand or in the channel of a new pool.
LEMMA Dialled ==
  ASSUME NEW q \in [PoolUsers -> SUBSET Conns], NEW h \in [PoolUsers -> Nat], NEW z, NEW d \in Nat,
         OnePlace(q, h, z, d), NEW u \in PoolUsers
  PROVE  /\ h[u] = 0 => OnePlace(q, [h EXCEPT ![u] = d + 1], z, d + 1)
         /\ q[u] = {} => OnePlace([q EXCEPT ![u] = {d + 1}], h, z, d + 1)
<1>1. /\ d + 1 \notin z /\ z \subseteq 1..(d + 1) /\ d + 1 # 0 /\ d + 1 \in 0..(d + 1)
      /\ \A v \in PoolUsers : /\ d + 1 \notin q[v] /\ h[v] # d + 1
                             /\ h[v] \in 0..(d + 1) /\ q[v] \subseteq 1..(d + 1)
  BY DEF OnePlace
<1>2. \A e \in 1..(d + 1) : e = d + 1 \/ e \in 1..d
  OBVIOUS
<1>3. ASSUME h[u] = 0 PROVE OnePlace(q, [h EXCEPT ![u] = d + 1], z, d + 1)
  <2> DEFINE k == [h EXCEPT ![u] = d + 1]
  <2>1. \A v \in PoolUsers : k[v] = IF v = u THEN d + 1 ELSE h[v]
    OBVIOUS
  <2> HIDE DEF k
  <2>2. \A v, w \in PoolUsers :
         /\ k[v] \notin q[w]
         /\ v # w => q[v] \cap q[w] = {} /\ (k[v] # 0 => k[v] # k[w])
    BY <1>1, <2>1 DEF OnePlace
  <2>3. \A v \in PoolUsers : /\ q[v] \cap z = {} /\ k[v] \notin z
                             /\ k[v] \in 0..(d + 1) /\ q[v] \subseteq 1..(d + 1)
    BY <1>1, <2>1 DEF OnePlace
  <2>4. \A e \in 1..(d + 1) : e \in z \/ \E v \in PoolUsers : e = k[v] \/ e \in q[v]
    BY <1>2, <1>3, <2>1 DEF OnePlace
  <2>5. OnePlace(q, k, z, d + 1)
    BY Zenon, <1>1, <2>2, <2>3, <2>4 DEF OnePlace
  <2> QED  BY <2>5 DEF k
<1>4. ASSUME q[u] = {} PROVE OnePlace([q EXCEPT ![u] = {d + 1}], h, z, d + 1)
  <2> DEFINE r == [q EXCEPT ![u] = {d + 1}]
  <2>1. \A v \in PoolUsers : r[v] = IF v = u THEN {d + 1} ELSE q[v]
    BY Zenon
  <2> HIDE DEF r
  <2>2. \A v, w \in PoolUsers :
         /\ h[v] \notin r[w]
         /\ v # w => r[v] \cap r[w] = {} /\ (h[v] # 0 => h[v] # h[w])
    BY <1>1, <2>1 DEF OnePlace
  <2>3. \A v \in PoolUsers : /\ r[v] \cap z = {} /\ h[v] \notin z
                             /\ h[v] \in 0..(d + 1) /\ r[v] \subseteq 1..(d + 1)
    BY <1>1, <2>1 DEF OnePlace
  <2>4. \A e \in 1..(d + 1) : e \in z \/ \E v \in PoolUsers : e = h[v] \/ e \in r[v]
    BY ZenonT(60), <1>2, <1>4, <2>1 DEF OnePlace
  <2>5. OnePlace(r, h, z, d + 1)
    BY <1>1, <2>2, <2>3, <2>4 DEF OnePlace
  <2> QED  BY <2>5 DEF r
<1> QED  BY <1>3, <1>4

\* Held is a function of sets of connections.
LEMMA HeldTyped ==
  ASSUME PoChans
  PROVE  /\ Held \in [PoolUsers -> SUBSET Conns]
         /\ \A u \in PoolUsers : Held[u] = Range(poolConns[u])
<1>1. ASSUME NEW u \in PoolUsers PROVE Range(poolConns[u]) \subseteq Conns
  <2>1. poolConns[u] \in Seq(Conns)
    BY DEF PoChans
  <2> QED  BY <2>1 DEF Range
<1> QED  BY <1>1 DEF Held

\* Get of one pool: nothing else changes.
LEMMA GetStep ==
  ASSUME PoChans, PoolCap \in Nat, NEW o \in PoolUsers, NEW u \in PoolUsers, puConn[u] = 0,
         C!poolGet(o, u), closedConns' = closedConns
  PROVE  /\ PoChans' /\ puConn'[u] # 0
         /\ \A v \in PoolUsers : v # u => puConn'[v] = puConn[v]
         /\ \A v \in PoolUsers : v # o => poolConns'[v] = poolConns[v]
<1>1. /\ poolConns \in [PoolUsers -> Seq(Conns)] /\ dialled \in Nat /\ puConn \in [PoolUsers -> Nat]
      /\ \A v \in PoolUsers : Len(poolConns[v]) <= PoolCap /\ IsInjective(poolConns[v])
      /\ OnePlace(Held, puConn, closedConns, dialled)
  BY DEF PoChans
<1>2. CASE /\ poolConns[o] # <<>>
           /\ puConn' = [puConn EXCEPT ![u] = Head(poolConns[o])]
           /\ poolConns' = [poolConns EXCEPT ![o] = Tail(@)]
           /\ dialled' = dialled
  <2> DEFINE s == poolConns[o]  c == Head(s)
  <2>1. /\ c \in Conns /\ Tail(s) \in Seq(Conns) /\ IsInjective(Tail(s))
        /\ Len(Tail(s)) = Len(s) - 1 /\ Len(s) \in Nat
        /\ c \in Range(s) /\ Range(Tail(s)) = Range(s) \ {c}
    BY <1>1, <1>2, RangeTail
  <2>2. OnePlace([Held EXCEPT ![o] = @ \ {c}], [puConn EXCEPT ![u] = c], closedConns, dialled)
    BY Zenon, <1>1, <2>1, HeldTyped, Taken
  <2>3. Held' = [Held EXCEPT ![o] = @ \ {c}]
    BY Zenon, <1>1, <1>2, <2>1 DEF Held
  <2>4. /\ poolConns' \in [PoolUsers -> Seq(Conns)] /\ puConn' \in [PoolUsers -> Nat]
        /\ \A v \in PoolUsers : Len(poolConns'[v]) <= PoolCap /\ IsInjective(poolConns'[v])
    BY <1>1, <1>2, <2>1 DEF Conns
  <2> QED  BY Zenon, <1>1, <1>2, <2>1, <2>2, <2>3, <2>4 DEF PoChans, Conns
<1>3. CASE /\ dialled' = dialled + 1
           /\ puConn' = [puConn EXCEPT ![u] = dialled + 1]
           /\ poolConns' = poolConns
  <2>1. OnePlace(Held, [puConn EXCEPT ![u] = dialled + 1], closedConns, dialled + 1)
    BY ZenonT(30), <1>1, HeldTyped, Dialled
  <2>2. Held' = Held
    BY <1>3 DEF Held
  <2> QED  BY <1>1, <1>3, <2>1, <2>2 DEF PoChans
<1> QED  BY <1>2, <1>3 DEF C!poolGet

\* Put into one pool, or the connection is closed: nothing else changes.
LEMMA PutStep ==
  ASSUME PoChans, PoolCap \in Nat, NEW o \in PoolUsers, NEW u \in PoolUsers, puConn[u] # 0,
         C!poolPut(o, u), dialled' = dialled
  PROVE  /\ PoChans' /\ puConn'[u] = 0
         /\ \A v \in PoolUsers : v # u => puConn'[v] = puConn[v]
         /\ \A v \in PoolUsers : v # o => poolConns'[v] = poolConns[v]
<1>1. /\ poolConns \in [PoolUsers -> Seq(Conns)] /\ dialled \in Nat /\ puConn \in [PoolUsers -> Nat]
      /\ \A v \in PoolUsers : Len(poolConns[v]) <= PoolCap /\ IsInjective(poolConns[v])
      /\ OnePlace(Held, puConn, closedConns, dialled)
  BY DEF PoChans
<1>2. puConn' = [puConn EXCEPT ![u] = 0]
  BY Zenon DEF C!poolPut
<1>3. CASE /\ Len(poolConns[o]) < PoolCap
           /\ poolConns' = [poolConns EXCEPT ![o] = Append(@, puConn[u])]
           /\ closedConns' = closedConns
  <2> DEFINE s == poolConns[o]  c == puConn[u]
  <2>0. s \in Seq(Conns) /\ c \in Conns /\ IsInjective(s) /\ c \notin Range(s)
    <3>1. s \in Seq(Conns) /\ IsInjective(s)
      BY Zenon, <1>1
    <3>2. c \notin Held[o] /\ c \in 0..dialled
      BY Zenon, <1>1 DEF OnePlace
    <3>3. Held[o] = Range(s)
      BY Zenon, HeldTyped
    <3>4. c \in Conns
      BY <1>1, <3>2 DEF Conns
    <3> QED  BY Zenon, <3>1, <3>2, <3>3, <3>4
  <2>1. /\ Append(s, c) \in Seq(Conns) /\ IsInjective(Append(s, c))
        /\ Len(Append(s, c)) = Len(s) + 1 /\ Len(s) \in Nat
        /\ Range(Append(s, c)) = Range(s) \cup {c}
    BY <2>0, RangeAppend, InjectiveAppend
  <2>2. OnePlace([Held EXCEPT ![o] = @ \cup {c}], [puConn EXCEPT ![u] = 0], closedConns, dialled)
    BY Zenon, <1>1, HeldTyped, PutBack
  <2>3. Held' = [Held EXCEPT ![o] = @ \cup {c}]
    BY Zenon, <1>1, <1>3, <2>1 DEF Held
  <2>4. /\ poolConns' \in [PoolUsers -> Seq(Conns)] /\ puConn' \in [PoolUsers -> Nat]
        /\ \A v \in PoolUsers : Len(poolConns'[v]) <= PoolCap /\ IsInjective(poolConns'[v])
    BY <1>1, <1>2, <1>3, <2>1
  <2> QED  BY Zenon, <1>1, <1>2, <1>3, <2>1, <2>2, <2>3, <2>4 DEF PoChans
<1>4. CASE /\ closedConns' = closedConns \cup {puConn[u]}
           /\ poolConns' = poolConns
  <2>1. OnePlace(Held, [puConn EXCEPT ![u] = 0], closedConns \cup {puConn[u]}, dialled)
    BY Zenon, <1>1, HeldTyped, Closed
  <2>2. Held' = Held
    BY Zenon, <1>4 DEF Held
  <2> QED  BY Zenon, <1>1, <1>2, <1>4, <2>1, <2>2 DEF PoChans
<1> QED  BY <1>3, <1>4 DEF C!poolPut

\* A pool that is made has one connection, and nobody else has that pool.
LEMMA NewPoolStep ==
  ASSUME PoChans, PoolCap \in Nat \ {0}, NEW u \in PoolUsers, poolConns[u] = <<>>,
         dialled' = dialled + 1, poolConns' = [poolConns EXCEPT ![u] = <<dialled + 1>>],
         UNCHANGED <<closedConns, puConn>>
  PROVE  PoChans'
<1>1. /\ poolConns \in [PoolUsers -> Seq(Conns)] /\ dialled \in Nat /\ puConn \in [PoolUsers -> Nat]
      /\ \A v \in PoolUsers : Len(poolConns[v]) <= PoolCap /\ IsInjective(poolConns[v])
      /\ OnePlace(Held, puConn, closedConns, dialled)
  BY DEF PoChans
<1> DEFINE s == <<dialled + 1>>
<1>2. s \in Seq(Conns) /\ Len(s) = 1 /\ DOMAIN s = 1..1 /\ s[1] = dialled + 1
  BY <1>1 DEF Conns
<1>3. IsInjective(s) /\ Range(s) = {dialled + 1}
  BY <1>2 DEF IsInjective, Range
<1>4. Range(poolConns[u]) = {}
  BY DEF Range
<1>5. OnePlace([Held EXCEPT ![u] = {dialled + 1}], puConn, closedConns, dialled + 1)
  BY Zenon, <1>1, <1>4, HeldTyped, Dialled
<1>6. Held' = [Held EXCEPT ![u] = {dialled + 1}]
  BY ZenonT(30), <1>1, <1>3 DEF Held
<1>7. /\ poolConns' \in [PoolUsers -> Seq(Conns)]
      /\ \A v \in PoolUsers : Len(poolConns'[v]) <= PoolCap /\ IsInjective(poolConns'[v])
  BY <1>1, <1>2, <1>3
<1> QED  BY <1>1, <1>5, <1>6, <1>7 DEF PoChans

\* Nothing happens to connections.
LEMMA ConnsKept ==
  ASSUME PoChans, UNCHANGED <<poolConns, dialled, closedConns, puConn>> PROVE PoChans'
<1>1. Held' = Held
  BY DEF Held
<1> QED  BY <1>1 DEF PoChans

\* Every step of connect, Get and Put keeps the invariant.
LEMMA PoStep ==
  ASSUME PoolCap \in Nat \ {0}, "none" \notin PoolUsers, PoInv, [C!Next]_(C!poVars)
  PROVE  PoInv'
<1>0. /\ pool \in PoolUsers \cup {"none"} /\ PoTypes /\ PoPlaces /\ PoChans
      /\ puState \in [PoolUsers -> {"idle", "dial", "echo", "install", "use"}]
      /\ poolConns \in [PoolUsers -> Seq(Conns)] /\ puConn \in [PoolUsers -> Nat]
  BY DEF PoInv, PoTypes, PoChans
<1>1. ASSUME NEW u \in PoolUsers, C!connect(u) PROVE PoInv'
  <2>1. PoChans'
    BY <1>0, <1>1, ConnsKept DEF C!connect
  <2>2. PoTypes' /\ PoPlaces'
    BY <1>0, <1>1 DEF C!connect, C!Goto, PoTypes, PoPlaces
  <2> QED  BY <2>1, <2>2 DEF PoInv
<1>2. ASSUME NEW u \in PoolUsers, C!newPool(u) PROVE PoInv'
  <2>1. PoChans'
    BY ZenonT(30), <1>0, <1>2, NewPoolStep DEF C!newPool, PoPlaces
  <2>2. PoTypes' /\ PoPlaces'
    BY <1>0, <1>2 DEF C!newPool, C!Goto, PoTypes, PoPlaces
  <2> QED  BY <2>1, <2>2 DEF PoInv
<1>3. ASSUME NEW u \in PoolUsers, C!echo(u), puConn[u] = 0 PROVE PoInv'
  <2>1. /\ puState[u] = "echo" /\ C!poolGet(u, u)
        /\ closedConns' = closedConns /\ puState' = puState /\ pool' = pool
    BY <1>3 DEF C!echo
  <2>2. /\ PoChans'
        /\ \A v \in PoolUsers : v # u => puConn'[v] = puConn[v] /\ poolConns'[v] = poolConns[v]
    BY Zenon, <1>0, <1>3, <2>1, GetStep
  <2>3. PoTypes' /\ PoPlaces'
    BY Zenon, <1>0, <2>1, <2>2 DEF PoTypes, PoPlaces
  <2> QED  BY Zenon, <2>2, <2>3 DEF PoInv
<1>4. ASSUME NEW u \in PoolUsers, C!echo(u), puConn[u] # 0 PROVE PoInv'
  <2>1. /\ puState[u] = "echo" /\ C!poolPut(u, u) /\ dialled' = dialled
        /\ puState' = [puState EXCEPT ![u] = "install"] /\ pool' = pool
    BY <1>4 DEF C!echo, C!Goto
  <2>2. /\ PoChans' /\ puConn'[u] = 0
        /\ \A v \in PoolUsers : v # u => puConn'[v] = puConn[v] /\ poolConns'[v] = poolConns[v]
    BY ZenonT(30), <1>0, <1>4, <2>1, PutStep
  <2>3. PoTypes' /\ PoPlaces'
    BY <1>0, <2>1, <2>2 DEF PoTypes, PoPlaces
  <2> QED  BY <2>2, <2>3 DEF PoInv
<1>5. ASSUME NEW u \in PoolUsers, C!install(u) PROVE PoInv'
  <2>1. PoChans'
    BY Zenon, <1>0, <1>5, ConnsKept DEF C!install
  <2>2. PoTypes' /\ PoPlaces'
    BY Zenon, <1>0, <1>5 DEF C!install, C!Installed, C!Goto, PoTypes, PoPlaces
  <2> QED  BY <2>1, <2>2 DEF PoInv
<1>6. ASSUME NEW u \in PoolUsers, C!Get(u) PROVE PoInv'
  <2>1. /\ puState[u] = "idle" /\ pool \in PoolUsers /\ C!poolGet(pool, u) /\ puConn[u] = 0
        /\ closedConns' = closedConns /\ pool' = pool
        /\ puState' = [puState EXCEPT ![u] = "use"]
    BY <1>0, <1>6 DEF C!Get, C!Goto, PoPlaces
  <2>2. /\ PoChans' /\ puConn'[u] # 0
        /\ \A v \in PoolUsers : v # u => puConn'[v] = puConn[v]
        /\ \A v \in PoolUsers : v # pool => poolConns'[v] = poolConns[v]
    BY Zenon, <1>0, <2>1, GetStep
  <2>3. PoTypes' /\ PoPlaces'
    BY Zenon, <1>0, <2>1, <2>2 DEF PoTypes, PoPlaces
  <2> QED  BY <2>2, <2>3 DEF PoInv
<1>7. ASSUME NEW u \in PoolUsers, C!Put(u) PROVE PoInv'
  <2>1. /\ puState[u] = "use" /\ pool \in PoolUsers /\ C!poolPut(pool, u) /\ puConn[u] # 0
        /\ dialled' = dialled /\ pool' = pool
        /\ puState' = [puState EXCEPT ![u] = "idle"]
    BY Zenon, <1>0, <1>7 DEF C!Put, C!Goto, PoPlaces
  <2>2. /\ PoChans' /\ puConn'[u] = 0
        /\ \A v \in PoolUsers : v # u => puConn'[v] = puConn[v]
        /\ \A v \in PoolUsers : v # pool => poolConns'[v] = poolConns[v]
    BY Zenon, <1>0, <2>1, PutStep
  <2>3. PoTypes' /\ PoPlaces'
    BY Zenon, <1>0, <2>1, <2>2 DEF PoTypes, PoPlaces
  <2> QED  BY <2>2, <2>3 DEF PoInv
<1>8. ASSUME UNCHANGED C!poVars PROVE PoInv'
  <2>1. PoChans'
    BY <1>0, <1>8, ConnsKept DEF C!poVars
  <2> QED  BY <1>0, <1>8, <2>1 DEF C!poVars, PoInv, PoTypes, PoPlaces
<1> QED  BY Zenon, <1>1, <1>2, <1>3, <1>4, <1>5, <1>6, <1>7, <1>8 DEF C!Next

\* connect dials and looks twice, Get and Put use what is installed: a connection
\* is in one pool, once, or with one goroutine, or closed, and none is lost.
THEOREM ConnectionsAreKept ==
  ASSUME PoolCap \in Nat \ {0}, "none" \notin PoolUsers
  PROVE  C!Init /\ [][C!Next]_(C!poVars) => []C!EveryConnectionOnce
<1>1. C!Init => PoInv
  <2> SUFFICES ASSUME C!Init PROVE PoInv
    OBVIOUS
  <2>1. IsInjective(<<>>) /\ Range(<<>>) = {} /\ <<>> \in Seq(Conns) /\ Len(<<>>) = 0
    BY DEF IsInjective, Range
  <2>2. \A u \in PoolUsers : Held[u] = {} /\ puConn[u] = 0
    BY <2>1 DEF C!Init, Held
  <2>3. OnePlace(Held, puConn, closedConns, dialled)
    BY <2>2 DEF C!Init, OnePlace
  <2> QED  BY <2>1, <2>3 DEF C!Init, PoInv, PoTypes, PoPlaces, PoChans
<1>2. PoInv => C!EveryConnectionOnce
  <2> SUFFICES ASSUME PoInv PROVE C!EveryConnectionOnce
    OBVIOUS
  <2>1. \A u \in PoolUsers : C!Pooled(u) = Held[u]
    BY DEF C!Pooled, C!Range, Range, Held
  <2>2. OnePlace(Held, puConn, closedConns, dialled) /\ dialled \in Nat
    BY DEF PoInv, PoChans
  <2>3. \A u \in PoolUsers : /\ Len(poolConns[u]) <= PoolCap
                             /\ Cardinality(Held[u]) = Len(poolConns[u])
    BY InjectiveCard DEF PoInv, PoChans, Held
  <2> HIDE DEF Held
  <2>4. \A u \in PoolUsers : C!Pooled(u) \cap (C!InHand \cup closedConns) = {}
    BY <2>1, <2>2 DEF C!InHand, OnePlace
  <2>5. \A u \in PoolUsers : \A v \in PoolUsers \ {u} :
          /\ C!Pooled(u) \cap C!Pooled(v) = {}
          /\ puConn[u] # 0 => puConn[u] # puConn[v]
    BY <2>1, <2>2 DEF OnePlace
  <2>6. C!InHand \cap closedConns = {}
    BY <2>2 DEF C!InHand, OnePlace
  <2> DEFINE Pools == UNION {C!Pooled(u) : u \in PoolUsers}
  <2>7. Pools \cup C!InHand \cup closedConns = 1..dialled
    <3>1. \A c : c \in Pools <=> \E u \in PoolUsers : c \in C!Pooled(u)
      OBVIOUS
    <3>2. \A c : c \in C!InHand <=> c # 0 /\ \E u \in PoolUsers : c = puConn[u]
      BY DEF C!InHand
    <3> HIDE DEF Pools
    <3>3. Pools \subseteq 1..dialled
      BY <2>1, <2>2, <3>1 DEF OnePlace
    <3>4. C!InHand \subseteq 1..dialled /\ closedConns \subseteq 1..dialled
      BY <2>2, <3>2 DEF OnePlace
    <3>5. \A c \in 1..dialled : c \in closedConns \/ c \in Pools \/ c \in C!InHand
      BY <2>1, <2>2, <3>1, <3>2 DEF OnePlace
    <3> QED  BY Zenon, <3>3, <3>4, <3>5
  <2>8. \A u \in PoolUsers : /\ Len(poolConns[u]) <= PoolCap
                             /\ Cardinality(C!Pooled(u)) = Len(poolConns[u])
    BY <2>1, <2>3
  <2> HIDE DEF Held
  <2> QED  BY Zenon, <2>4, <2>5, <2>6, <2>7, <2>8
             DEF C!EveryConnectionOnce, C!Cardinality, Cardinality
<1>3. PoInv /\ [C!Next]_(C!poVars) => PoInv'
  BY PoStep
<1> QED  BY <1>1, <1>2, <1>3, PTL

==============================================================================
