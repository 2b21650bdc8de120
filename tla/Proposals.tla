----------------------------- MODULE Proposals ------------------------------
(***************************************************************************)
(* worker/mutation.go and the proposals of worker/draft.go: a request's    *)
(* edges are split by group and sent to one group after the other; each    *)
(* group's server proposes its share to Raft and waits on a channel that   *)
(* the apply loop (process, proposals.Done) writes to.  The context may    *)
(* end at any time, and Raft may lose a proposal or commit it much later.  *)
(*                                                                         *)
(* Raft is external: it hands a committed entry to process at most once on *)
(* the server followed here, the one that proposes.  One request is        *)
(* followed: rand.Uint32 is taken to return an id that no other proposal   *)
(* has, and requests then share nothing but the order of the apply loop.   *)
(***************************************************************************)
EXTENDS Sequences, Functions

CONSTANTS PrGroups,       \* Raft groups, each with one server that proposes
          GroupEdges      \* edges of the request for one group (a set)

VARIABLES
    mutationMap, \* the groups the request has edges for
    prTodo,      \* those proposeOrSend was not called for yet
    prAt,        \* the group whose proposeOrSend runs, or "none"
    prErrors,    \* the channel errors: what came back, in order
    prReply,     \* "idle", "none" while it runs, then "nil" or "error"
    prWait,      \* [group] -> state of ProposeAndWait
    props,       \* [group] -> the request is registered in props.ids
    che,         \* [group] -> content of the channel, or "empty"
    raftQ,       \* groups whose Raft accepted the proposal and has not committed it
    prApplied    \* [group] -> edges the apply loop added

prVars == <<mutationMap, prTodo, prAt, prErrors, prReply, prWait, props, che, raftQ,
            prApplied>>

Init ==
    /\ mutationMap = {} /\ prTodo = {} /\ prAt = "none" /\ prErrors = <<>>
    /\ prReply = "idle"
    /\ prWait = [g \in PrGroups |-> "idle"]
    /\ props = [g \in PrGroups |-> FALSE]
    /\ che = [g \in PrGroups |-> "empty"]
    /\ raftQ = {}
    /\ prApplied = [g \in PrGroups |-> {}]

(* addToMutationMap: the groups the edges of the request belong to. *)
MutateOverNetwork ==
    /\ prReply = "idle"
    /\ mutationMap' \in SUBSET PrGroups
    /\ prTodo' = mutationMap'
    /\ prReply' = "none"
    /\ UNCHANGED <<prAt, prErrors, prWait, props, che, raftQ, prApplied>>

(* proposeOrSend: the groups in map order, one at a time.  No connection to
   the leader, a server that no longer serves the group or an ended context
   is an error before anything is proposed. *)
proposeOrSend(g) ==
    /\ prReply = "none" /\ prAt = "none" /\ g \in prTodo
    /\ prTodo' = prTodo \ {g}
    /\ \/ /\ prAt' = g /\ prWait' = [prWait EXCEPT ![g] = "start"]
          /\ UNCHANGED prErrors
       \/ /\ prErrors' = Append(prErrors, "error")
          /\ UNCHANGED <<prAt, prWait>>
    /\ UNCHANGED <<mutationMap, prReply, props, che, raftQ, prApplied>>

(* ProposeAndWait: the channel is registered, then the proposal given to
   Raft, which may refuse it (the registration then stays). *)
storeProposal(g) ==
    /\ prWait[g] = "start"
    /\ props' = [props EXCEPT ![g] = TRUE]
    /\ prWait' = [prWait EXCEPT ![g] = "stored"]
    /\ UNCHANGED <<mutationMap, prTodo, prAt, prErrors, prReply, che, raftQ, prApplied>>

propose(g) ==
    /\ prWait[g] = "stored"
    /\ \/ raftQ' = raftQ \cup {g} /\ prWait' = [prWait EXCEPT ![g] = "wait"]
       \/ prWait' = [prWait EXCEPT ![g] = "error"] /\ UNCHANGED raftQ
    /\ UNCHANGED <<mutationMap, prTodo, prAt, prErrors, prReply, props, che, prApplied>>

ProposalResult(g) ==
    /\ prWait[g] = "wait" /\ che[g] # "empty"
    /\ prWait' = [prWait EXCEPT ![g] = che[g]]
    /\ che' = [che EXCEPT ![g] = "empty"]
    /\ UNCHANGED <<mutationMap, prTodo, prAt, prErrors, prReply, props, raftQ, prApplied>>

(* The context ends while ProposeAndWait, or the Mutate call around it, waits:
   ProposeAndWait returns, or the caller no longer waits for it. *)
\* Mutant: the wait is for the proposal alone.
ctxUnseen(g) == FALSE
ctxDone(g) ==
    /\ prAt = g /\ prWait[g] \in {"start", "stored", "wait"}
    /\ \/ /\ prWait[g] = "wait" /\ prWait' = [prWait EXCEPT ![g] = "error"]
          /\ UNCHANGED <<prAt, prErrors>>
       \/ /\ prErrors' = Append(prErrors, "error") /\ prAt' = "none"
          /\ UNCHANGED prWait
    /\ UNCHANGED <<mutationMap, prTodo, prReply, props, che, raftQ, prApplied>>

proposed(g) ==
    /\ prAt = g /\ prWait[g] \in {"nil", "error"}
    /\ prErrors' = Append(prErrors, prWait[g])
    /\ prAt' = "none"
    /\ UNCHANGED <<mutationMap, prTodo, prReply, prWait, props, che, raftQ, prApplied>>

(* The apply loop: process runs the mutation, edge by edge up to the first
   error, and Done tells whoever is registered, once.  Or Raft loses the
   proposal. *)
process(g) ==
    /\ g \in raftQ
    /\ raftQ' = raftQ \ {g}
    /\ \E done \in SUBSET GroupEdges :
        /\ prApplied' = [prApplied EXCEPT ![g] = done]
        /\ che' = [che EXCEPT ![g] = IF ~props[g] THEN @
                                     ELSE IF done = GroupEdges THEN "nil" ELSE "error"]
    /\ props' = [props EXCEPT ![g] = FALSE]
    /\ UNCHANGED <<mutationMap, prTodo, prAt, prErrors, prReply, prWait>>

Lose(g) ==
    /\ g \in raftQ
    /\ raftQ' = raftQ \ {g}
    /\ UNCHANGED <<mutationMap, prTodo, prAt, prErrors, prReply, prWait, props, che,
                   prApplied>>

(* The loop over the channel errors. *)
\* Mutant: the last result counts.
LastResult == IF prErrors # <<>> THEN prErrors[Len(prErrors)] ELSE "nil"
Result == IF "error" \in Range(prErrors) THEN "error" ELSE "nil"

(* After all groups: an error of one of them, or of the ended context. *)
mutateReturns ==
    /\ prReply = "none" /\ prAt = "none" /\ prTodo = {}
    /\ prReply' \in {"error", Result}
    /\ UNCHANGED <<mutationMap, prTodo, prAt, prErrors, prWait, props, che, raftQ,
                   prApplied>>

Next ==
    \/ MutateOverNetwork \/ mutateReturns
    \/ \E g \in PrGroups :
          \/ proposeOrSend(g) \/ storeProposal(g) \/ propose(g) \/ ProposalResult(g)
          \/ ctxDone(g) \/ proposed(g) \/ process(g) \/ Lose(g)

(* The goroutines of the request, but for the end of its context. *)
Goroutines ==
    \/ mutateReturns
    \/ \E g \in PrGroups :
          proposeOrSend(g) \/ storeProposal(g) \/ propose(g) \/ ProposalResult(g) \/ proposed(g)

(* The context of an HTTP request ends after a minute.  That of a gRPC request
   need not end: all there is to wait for then is Raft, which hands the proposal
   to process or never does. *)
HttpFairness == WF_prVars(Goroutines \/ \E g \in PrGroups : ctxDone(g))
GrpcFairness == WF_prVars(Goroutines \/ \E g \in PrGroups : process(g) \/ Lose(g))

-----------------------------------------------------------------------------
(* A request that was acknowledged is applied in full in every group it has
   edges for, though timed-out proposals may commit late and others be lost. *)
AckedIsApplied ==
    prReply = "nil" => \A g \in mutationMap : prApplied[g] = GroupEdges

(* The request waits for a proposal that Raft has lost. *)
WaitsForLost ==
    \E g \in PrGroups : prAt = g /\ prWait[g] = "wait" /\ che[g] = "empty" /\ g \notin raftQ
=============================================================================
