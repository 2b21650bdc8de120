-------------------------------- MODULE Pool --------------------------------
(***************************************************************************)
(* worker/conn.go: the pools of connections to other servers, for one      *)
(* address.  connect checks under the read lock, dials and echoes without  *)
(* a lock, and checks again under the write lock; Get takes a pooled       *)
(* connection or dials; Put returns it or, when the pool is full, closes   *)
(* it.  gRPC is external: a dial always succeeds (it does not block).      *)
(***************************************************************************)
EXTENDS Integers, Sequences, FiniteSets, Functions

CONSTANTS PoolUsers,     \* goroutines
          PoolCap,       \* connections a pool keeps (5)
          MaxConns       \* connections dialled

VARIABLES
    pool,        \* the pool installed for the address, 0 when there is none
    poolConns,   \* [user] -> the channel conns of the pool that user made
    dialled,     \* connections so far; connection i has number i
    closedConns, \* connections that were closed
    puState,     \* [user] -> "idle", "dial", "echo", "install", "use"
    puConn       \* [user] -> the connection in hand, 0 for none

poVars == <<pool, poolConns, dialled, closedConns, puState, puConn>>

Init ==
    /\ pool = "none"
    /\ poolConns = [u \in PoolUsers |-> <<>>]
    /\ dialled = 0 /\ closedConns = {}
    /\ puState = [u \in PoolUsers |-> "idle"]
    /\ puConn = [u \in PoolUsers |-> 0]

Goto(u, s) == puState' = [puState EXCEPT ![u] = s]

(* Get on the pool that `owner` made: the channel, else dialNew. *)
poolGet(owner, u) ==
    \/ /\ poolConns[owner] # <<>>
       /\ puConn' = [puConn EXCEPT ![u] = Head(poolConns[owner])]
       /\ poolConns' = [poolConns EXCEPT ![owner] = Tail(@)]
       /\ UNCHANGED dialled
    \/ /\ poolConns[owner] = <<>> /\ dialled < MaxConns
       /\ dialled' = dialled + 1
       /\ puConn' = [puConn EXCEPT ![u] = dialled + 1]
       /\ UNCHANGED poolConns

(* Put: back into the channel, or closed. *)
poolPut(owner, u) ==
    /\ puConn' = [puConn EXCEPT ![u] = 0]
    /\ \/ /\ Len(poolConns[owner]) < PoolCap
          /\ poolConns' = [poolConns EXCEPT ![owner] = Append(@, puConn[u])]
          /\ UNCHANGED closedConns
       \/ /\ Len(poolConns[owner]) = PoolCap
          /\ closedConns' = closedConns \cup {puConn[u]}
          /\ UNCHANGED poolConns

(* The second look at the map, under the write lock. *)
\* Mutant: it is left out.
InstallAnyway(u) == u
Installed(u) == IF pool = "none" THEN u ELSE pool

(* connect: no pool under the read lock; newPool dials and keeps the
   connection; Get and the echo; Put; the second check and the installation. *)
connect(u) ==
    /\ puState[u] = "idle" /\ pool = "none" /\ poolConns[u] = <<>>
    /\ Goto(u, "dial")
    /\ UNCHANGED <<pool, poolConns, dialled, closedConns, puConn>>

newPool(u) ==
    /\ puState[u] = "dial" /\ dialled < MaxConns
    /\ dialled' = dialled + 1
    /\ poolConns' = [poolConns EXCEPT ![u] = <<dialled + 1>>]
    /\ Goto(u, "echo")
    /\ UNCHANGED <<pool, closedConns, puConn>>

echo(u) ==
    /\ puState[u] = "echo"
    /\ IF puConn[u] = 0
       THEN poolGet(u, u) /\ UNCHANGED <<closedConns, puState>>
       ELSE poolPut(u, u) /\ Goto(u, "install") /\ UNCHANGED dialled
    /\ UNCHANGED pool

install(u) ==
    /\ puState[u] = "install"
    /\ pool' = Installed(u)
    /\ Goto(u, "idle")
    /\ UNCHANGED <<poolConns, dialled, closedConns, puConn>>

(* A caller: pools().get(addr), Get, its RPC, Put (deferred).  Without a pool
   Get answers errNoConnection and nothing happens. *)
Get(u) ==
    /\ puState[u] = "idle" /\ pool # "none"
    /\ poolGet(pool, u)
    /\ Goto(u, "use")
    /\ UNCHANGED <<pool, closedConns>>

Put(u) ==
    /\ puState[u] = "use"
    /\ poolPut(pool, u)
    /\ Goto(u, "idle")
    /\ UNCHANGED <<pool, dialled>>

Next == \E u \in PoolUsers :
    connect(u) \/ newPool(u) \/ echo(u) \/ install(u) \/ Get(u) \/ Put(u)

-----------------------------------------------------------------------------
Pooled(u) == Range(poolConns[u])
InHand == {puConn[u] : u \in PoolUsers} \ {0}

(* A connection is in one place: in one pool, once, or with one goroutine, or
   closed; a pool never holds more than its capacity; and a connection that is
   in none of these places any more does not exist, so none is leaked but
   those of a pool that lost the race of connect. *)
EveryConnectionOnce ==
    /\ \A u \in PoolUsers : /\ Len(poolConns[u]) <= PoolCap
                            /\ Cardinality(Pooled(u)) = Len(poolConns[u])
                            /\ Pooled(u) \cap (InHand \cup closedConns) = {}
                            /\ \A v \in PoolUsers \ {u} :
                                  /\ Pooled(u) \cap Pooled(v) = {}
                                  /\ puConn[u] # 0 => puConn[u] # puConn[v]
    /\ InHand \cap closedConns = {}
    /\ (UNION {Pooled(u) : u \in PoolUsers}) \cup InHand \cup closedConns = 1..dialled
=============================================================================
