----------------------------- MODULE MCServers ------------------------------
(***************************************************************************)
(* What the servers of a group keep and hand out, for TLC: new uids        *)
(* (UidAssign), membership (Membership), the log on disk (RaftWal) and the *)
(* value and index that entries are applied to (IndexedApply).  The four   *)
(* share only RAFT, which is external: a behaviour is a behaviour of the   *)
(* one named by part, the variables of the others keep their initial       *)
(* values.                                                                 *)
(***************************************************************************)
EXTENDS UidAssign, MembershipConstants, WalConstants, IndexConstants, TLC

VARIABLES
    part,
    lead, started, all, lastUpdate, call, pending, groupLog, groupApplied,
    disk, diskHard, ents, walLog, hard, rd, pc, stable, votes, walApplied,
    entries, next, value, valueStore, index, indexStore, writer, ideal, high, missed, faults

M == INSTANCE Membership WITH log <- groupLog, applied <- groupApplied
W == INSTANCE RaftWal WITH log <- walLog, applied <- walApplied
I == INSTANCE IndexedApply WITH log <- entries

memberVars == <<lead, started, all, lastUpdate, call, pending, groupLog, groupApplied>>
walVars == <<disk, diskHard, ents, walLog, hard, rd, pc, stable, votes, walApplied>>
indexVars == <<entries, next, value, valueStore, index, indexStore, writer, ideal, high,
               missed, faults>>

PartInit ==
    /\ part \in {"uids", "members", "wal", "index"}
    /\ Init /\ M!Init /\ W!Init /\ I!Init
    /\ part # "index" => entries = <<>>

UidPart(Step) == part = "uids" /\ Step /\ UNCHANGED <<part, memberVars, walVars, indexVars>>
MemberPart(Step) == part = "members" /\ Step /\ UNCHANGED <<part, vars, walVars, indexVars>>
WalPart(Step) == part = "wal" /\ Step /\ UNCHANGED <<part, vars, memberVars, indexVars>>
IndexPart(Step) == part = "index" /\ Step /\ UNCHANGED <<part, vars, memberVars, walVars>>

PartNext == UidPart(Next) \/ MemberPart(M!Next) \/ WalPart(W!Next) \/ IndexPart(I!Next)

PartSpec == PartInit /\ [][PartNext]_<<part, vars, memberVars, walVars, indexVars>>

(* Two values that share a token; only one of them has another. *)
CONSTANTS a, b
SharedTokens == (a :> {1}) @@ (b :> {1, 2})

Symmetry ==
    Permutations(Servers) \cup Permutations(Requests) \cup Permutations(Uids)

-----------------------------------------------------------------------------
(* A list of servers names a node once and its leader first. *)
ListsWellFormed == part = "members" => M!ListsWellFormed

(* A server that is up to date agrees with group zero on who leads. *)
LeaderAgrees == part = "members" => M!LeaderAgrees

(* What a restart would read from the wal is the log. *)
WalIsLog == part = "wal" => W!WalIsLog

(* What the RAFT library reads from its storage is the log. *)
StorageIsLog == part = "wal" => W!StorageIsLog

(* No two votes in a term, across crashes. *)
OneVoteInATerm == part = "wal" => W!OneVoteInATerm

(* An entry that was applied is never replaced, across crashes. *)
AppliedStays == W!AppliedStays

(* Replaying every entry gives the value that applying each once gives. *)
ReplayConverges == part = "index" => I!ReplayConverges

(* No crash leaves an entity under a token its value does not have. *)
NoStaleTokens == part = "index" => I!NoStaleTokens

(* The index has the tokens of the value, but those an eviction hit. *)
IndexMatchesButMissed == part = "index" => I!IndexMatchesButMissed
=============================================================================
