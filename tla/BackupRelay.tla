---------------------------- MODULE BackupRelay -----------------------------
(***************************************************************************)
(* worker/backup.go, worker/worker.go: who runs the backup of a group.     *)
(* BackupOverNetwork asks its own server; a server that is not the leader  *)
(* relays the request to the one it thinks is, in a chain of nested calls. *)
(* Views may be stale and the leader may change while the chain grows.     *)
(* One group and one request id are followed: the goroutines started for   *)
(* the other groups share nothing with it but the channel of replies.      *)
(***************************************************************************)
EXTENDS Integers, Sequences, FiniteSets

CONSTANTS RlNodes, RlMaxLeads     \* servers; changes of the leader

VARIABLES
    rlLeader,      \* the leader of the group
    rlMoves,       \* changes of the leader so far
    chain,         \* the servers whose handler is active, the first asked first
    reqids,        \* the servers that have recorded the request id
    rlRan,         \* servers that ran the backup
    rlBacked,      \* a backup was written
    reply          \* the reply on its way back along the chain, or "none"

rlVars == <<rlLeader, rlMoves, chain, reqids, rlRan, rlBacked, reply>>

Top == chain[Len(chain)]

Init ==
    /\ rlLeader \in RlNodes /\ rlMoves = 0
    /\ chain = <<>> /\ reqids = {} /\ rlRan = <<>> /\ rlBacked = FALSE
    /\ reply = "none"

(* BackupOverNetwork: the first handler is called directly, not as an RPC,
   so its server does not record the request id. *)
BackupOverNetwork ==
    /\ chain = <<>> /\ reply = "none"
    /\ \E n \in RlNodes : chain' = <<n>>
    /\ UNCHANGED <<rlLeader, rlMoves, reqids, rlRan, rlBacked, reply>>

(* handleBackupForGroup on the leader. *)
runBackup ==
    /\ chain # <<>> /\ reply = "none" /\ Top = rlLeader
    /\ rlRan' = Append(rlRan, Top)
    /\ reply' \in {"success", "failed"}
    /\ rlBacked' = (rlBacked \/ reply' = "success")
    /\ UNCHANGED <<rlLeader, rlMoves, chain, reqids>>

(* addIfNotPresent at the server the request is sent to. *)
\* Mutant: the id is not looked up.
addAlways(n) == TRUE
addIfNotPresent(n) == n \notin reqids

(* handleBackupForGroup elsewhere: the leader it knows, any server of the
   group, the leader of group zero: whichever is the first with a connection
   (a server has none to itself), and Backup there.  No connection, an error
   of the call, or a request id seen before ends the chain. *)
relay ==
    /\ chain # <<>> /\ reply = "none" /\ Top # rlLeader
    /\ \/ \E n \in RlNodes \ {Top} :
            IF addIfNotPresent(n)
            THEN chain' = Append(chain, n) /\ reqids' = reqids \cup {n} /\ UNCHANGED reply
            ELSE reply' = "duplicate" /\ UNCHANGED <<chain, reqids>>
       \/ reply' = "failed" /\ UNCHANGED <<chain, reqids>>
    /\ UNCHANGED <<rlLeader, rlMoves, rlRan, rlBacked>>

(* The reply goes back one call; the error of a broken call replaces it. *)
answer ==
    /\ reply # "none" /\ chain # <<>>
    /\ chain' = SubSeq(chain, 1, Len(chain) - 1)
    /\ reply' \in {reply} \cup IF Len(chain) > 1 THEN {"failed"} ELSE {}
    /\ UNCHANGED <<rlLeader, rlMoves, reqids, rlRan, rlBacked>>

LeaderChanges ==
    /\ rlMoves < RlMaxLeads /\ chain # <<>>
    /\ rlLeader' \in RlNodes \ {rlLeader}
    /\ rlMoves' = rlMoves + 1
    /\ UNCHANGED <<chain, reqids, rlRan, rlBacked, reply>>

Next == BackupOverNetwork \/ runBackup \/ relay \/ answer \/ LeaderChanges

-----------------------------------------------------------------------------
(* The request is backed up at most once, though the first server may meet it
   again and the leader may change while it travels; the chain is bounded by
   the request ids, one visit of each server besides the first; and success is
   reported only when the file was written. *)
OneBackupPerRequest ==
    /\ Len(rlRan) <= 1
    /\ Len(chain) <= Cardinality(RlNodes) + 1
    /\ reply = "success" => rlBacked /\ rlRan # <<>>
=============================================================================
