----------------------------- MODULE GroupConf ------------------------------
(***************************************************************************)
(* group/conf.go: the file that assigns predicates to Raft groups, read    *)
(* line by line when a server starts, and BelongsTo, which every server    *)
(* asks for the group of a predicate.                                      *)
(*                                                                         *)
(* A predicate is a sequence of letters.  A line is a record: skip (empty  *)
(* or a comment), short (without a colon), default (its form, n and k) or  *)
(* group (its number, -1 when it is none, and its patterns); a file that   *)
(* does not exist has the one line absent.  A pattern is [val, exact]:     *)
(* exact unless it ends in an asterisk.                                    *)
(***************************************************************************)
EXTENDS Integers, Sequences, FiniteSets, FiniteSetsExt, SequencesExt

CONSTANTS GcFiles,       \* files a server may be started with
          GcPreds,       \* predicates
          GcBits,        \* width of a group number (32)
          Fingerprint32  \* [GcPreds -> 0..2^GcBits - 1]

VARIABLES gcFile,        \* the lines not read yet
          groupConfig,   \* n, k and the patterns in the order of the file
          curGroupId, seenDefault,
          gcResult       \* "reading", then "ok", "error" or "fatal"

gcVars == <<gcFile, groupConfig, curGroupId, seenDefault, gcResult>>

GcInit ==
    /\ gcFile \in GcFiles
    /\ groupConfig = [n |-> 0, k |-> 0, pred |-> <<>>]
    /\ curGroupId = 0 /\ seenDefault = FALSE
    /\ gcResult = "reading"

Line == Head(gcFile)

(* The line is done with, with this outcome ("reading": the loop goes on). *)
NextLine(outcome) == gcFile' = Tail(gcFile) /\ gcResult' = outcome

skipLine ==
    /\ Line.is \in {"skip", "short"}
    /\ NextLine(IF Line.is = "skip" THEN "reading" ELSE "error")
    /\ UNCHANGED <<groupConfig, curGroupId, seenDefault>>

(* k may not leave a gap after the groups of the lines before. *)
\* Mutant: one more.
GapAllowed(k) == k <= curGroupId + 1
NoGap(k) == k <= curGroupId

(* parseDefaultConfig: one default line; "fp % n" or "fp % n + k"; n and k are
   numbers and n is not zero, else the process ends. *)
parseDefaultConfig ==
    /\ Line.is = "default"
    /\ seenDefault' = TRUE
    /\ LET k == IF Line.form = "n+k" THEN Line.k ELSE groupConfig.k
       IN  IF groupConfig.n # 0 \/ Line.form = "other"
           THEN NextLine("error") /\ UNCHANGED groupConfig
           ELSE /\ groupConfig' = [groupConfig EXCEPT !.n = Line.n, !.k = k]
                /\ NextLine(CASE Line.n = 0 \/ Line.form = "nan" -> "fatal"
                              [] k # 0 /\ ~NoGap(k) -> "error"
                              [] OTHER -> "reading")
    /\ UNCHANGED curGroupId

(* parsePredicates: the groups in sequence, none after the default line. *)
parsePredicates ==
    /\ Line.is = "group"
    /\ IF seenDefault \/ Line.id # curGroupId
       THEN /\ NextLine(IF ~seenDefault /\ Line.id = -1 THEN "fatal" ELSE "error")
            /\ UNCHANGED <<groupConfig, curGroupId>>
       ELSE /\ groupConfig' = [groupConfig EXCEPT !.pred = @ \o
                 [i \in DOMAIN Line.preds |->
                    [val |-> Line.preds[i].val, exact |-> Line.preds[i].exact, gid |-> Line.id]]]
            /\ curGroupId' = curGroupId + 1
            /\ NextLine("reading")
    /\ UNCHANGED seenDefault

(* ParseGroupConfig: without a file there is one group; after the last line
   there must be a default. *)
ParseGroupConfig ==
    /\ \/ /\ gcFile # <<>> /\ Line.is = "absent"
          /\ groupConfig' = [groupConfig EXCEPT !.n = 1]
          /\ gcResult' = "ok"
       \/ /\ gcFile = <<>>
          /\ gcResult' = IF groupConfig.n = 0 THEN "error" ELSE "ok"
          /\ UNCHANGED groupConfig
    /\ UNCHANGED <<gcFile, curGroupId, seenDefault>>

GcNext ==
    /\ gcResult = "reading"
    /\ \/ gcFile # <<>> /\ (skipLine \/ parseDefaultConfig \/ parsePredicates)
       \/ ParseGroupConfig

-----------------------------------------------------------------------------
Wrapped(i) == i % 2^GcBits

(* uint32(n) of an n beyond 32 bits may be zero: the division then panics. *)
Panic == -1
fpGroup(pred) ==
    IF Wrapped(groupConfig.n) = 0 THEN Panic
    ELSE Wrapped((Fingerprint32[pred] % Wrapped(groupConfig.n)) + Wrapped(groupConfig.k))

Matches(meta, pred) == IF meta.exact THEN meta.val = pred ELSE IsPrefix(meta.val, pred)

(* The first pattern that matches, else the default. *)
BelongsTo(pred) ==
    LET hits == {i \in DOMAIN groupConfig.pred : Matches(groupConfig.pred[i], pred)}
    IN  IF hits = {} THEN fpGroup(pred) ELSE groupConfig.pred[Min(hits)].gid

-----------------------------------------------------------------------------
(* A file that was accepted gives every predicate one group: the lowest whose
   line names it, else one of the n default groups; and the groups there are
   have no gaps ("so that we can check accurately that k in (fp % N + k)
   generates consecutive groups").  The modulus and the group numbers must fit in
   32 bits.  Without that a predicate that is named still has its group, and the
   default panics for every other one or for none. *)
EachPredicateInOneGroup ==
    gcResult = "ok" =>
      LET defaults == {groupConfig.k + i : i \in 0..(groupConfig.n - 1)}
          all == 0..(curGroupId - 1) \cup defaults
          fits == groupConfig.n < 2^GcBits /\ groupConfig.n + groupConfig.k <= 2^GcBits
      IN  /\ all = 0..Max(all)
          /\ \A p \in GcPreds :
               LET named == {m.gid : m \in {x \in Range(groupConfig.pred) : Matches(x, p)}}
               IN  IF named # {} THEN BelongsTo(p) = Min(named)
                   ELSE IF fits THEN BelongsTo(p) \in defaults
                   ELSE BelongsTo(p) = Panic <=> groupConfig.n % 2^GcBits = 0

(* A file that was accepted gives every predicate a group. *)
AcceptedFilesAnswer == gcResult = "ok" => \A p \in GcPreds : BelongsTo(p) # Panic
=============================================================================
