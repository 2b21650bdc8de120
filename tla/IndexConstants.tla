--------------------------- MODULE IndexConstants ---------------------------
(* The values and tokens of IndexedApply and what is assumed of them. *)
EXTENDS Integers

CONSTANTS
  Vals, NoValue,
  Tokens,      \* all index tokens
  TokensOf,    \* value -> its tokens
  Writers,
  MaxEntries,  \* bound on the number of entries
  MaxEdges,    \* bound on the number of edges in an entry
  MayRestart,
  MayEvict     \* a list may be evicted between GetOrCreate and AddMutation

ASSUME IndexAssumption ==
  /\ NoValue \notin Vals
  /\ TokensOf \in [Vals -> SUBSET Tokens]
  /\ MaxEntries \in Nat /\ MaxEdges \in Nat
  /\ MayRestart \in BOOLEAN /\ MayEvict \in BOOLEAN
=============================================================================
