------------------------------- MODULE ListSpec -------------------------------
(***************************************************************************)
(* What a posting list promises its callers: AddMutation and the reads     *)
(* (Iterate, Uids, Value) behave as if each took effect at one instant on  *)
(* a single map from uids to contents, between its call and its return.    *)
(* Merging is invisible.                                                   *)
(***************************************************************************)
EXTENDS PostingLayers

CONSTANT Clients      \* the goroutines that call the list

VARIABLES
  contents,           \* uid -> content
  pending,            \* client -> the mutation it has asked for, until it is done
  result              \* client -> what its last call returned

vars == <<contents, pending, result>>

NoCall == [none |-> TRUE]
NoResult == [none |-> TRUE]

Init ==
  /\ contents \in Contents
  /\ pending = [t \in Clients |-> NoCall]
  /\ result = [t \in Clients |-> NoResult]

Request(t) ==
  /\ pending[t] = NoCall
  /\ \E e \in Edges, op \in Ops :
       /\ ValueId(e) # 0
       /\ pending' = [pending EXCEPT ![t] = [uid |-> ValueId(e), op |-> op, val |-> e.val]]
  /\ result' = [result EXCEPT ![t] = NoResult]
  /\ UNCHANGED contents

\* The requested mutation happens, and only it; the client learns whether it
\* changed anything.
Mutate(t) ==
  /\ pending[t] # NoCall
  /\ contents' = Apply(contents, pending[t].uid, pending[t].op, pending[t].val)
  /\ result' = [result EXCEPT ![t] = [mutated |-> contents' # contents]]
  /\ pending' = [pending EXCEPT ![t] = NoCall]

RejectZero(t) ==
  /\ pending[t] = NoCall
  /\ result' = [result EXCEPT ![t] = [error |-> "ValueId cannot be zero"]]
  /\ UNCHANGED <<contents, pending>>

Read(t) ==
  /\ pending[t] = NoCall
  /\ result' = [result EXCEPT ![t] = [read |-> contents]]
  /\ UNCHANGED <<contents, pending>>

\* A new read forgets the result of the previous call.
Forget(t) ==
  /\ result' = [result EXCEPT ![t] = NoResult]
  /\ UNCHANGED <<contents, pending>>

Next ==
  \E t \in Clients :
    Request(t) \/ Mutate(t) \/ RejectZero(t) \/ Read(t) \/ Forget(t)

Spec == Init /\ [][Next]_vars
=============================================================================
