------------------------------- MODULE Tunnel -------------------------------
(***************************************************************************)
(* One replica's tunnel endpoint (internal/tunnel/tunnel.go: ServeHTTP,    *)
(* acquire, release): at most maxSessionsPerNode websocket sessions per    *)
(* node.  Agents and network are modelled as the code meets them: a        *)
(* connection fails on the agent's side first and on the shim's side when  *)
(* remotedialer notices, so a reconnect races the teardown of the session  *)
(* it replaces.                                                            *)
(***************************************************************************)
EXTENDS FiniteSets, Naturals

CONSTANTS
  Nodes,              \* identities that authorizeNode returns
  Anonymous,          \* a peer it returns no identity for
  Conns,              \* request goroutines
  maxSessionsPerNode

ASSUME SessionsAssumption == maxSessionsPerNode \in Nat \ {0}
ASSUME ConnsAssumption == IsFiniteSet(Conns) /\ Anonymous \notin Nodes

VARIABLES
  active,  \* [Nodes -> entry of the active map, 0 when there is none]
  stage,   \* [Conns -> where its ServeHTTP is]
  peer,    \* [Conns -> who its client certificate says it is]
  alive,   \* connections whose agent still holds its end
  stable   \* from here on the network drops no connection

vars == <<active, stage, peer, alive, stable>>

Holding == {"session", "closing"}   \* between acquire and release
Held(n) == {c \in Conns : stage[c] \in Holding /\ peer[c] = n}

Init ==
  /\ active = [n \in Nodes |-> 0]
  /\ stage = [c \in Conns |-> "idle"]
  /\ peer = [c \in Conns |-> Anonymous]
  /\ alive = {}
  /\ stable = FALSE

(* A request arrives.  An agent dials a replica again only when its last   *)
(* connection to it has failed.                                            *)
Connect(c, n) ==
  /\ stage[c] = "idle"
  /\ \A d \in alive : peer[d] # n
  /\ stage' = [stage EXCEPT ![c] = "auth"]
  /\ peer' = [peer EXCEPT ![c] = n]
  /\ alive' = alive \cup {c}
  /\ UNCHANGED <<active, stable>>

(* No identity: remotedialer answers without a node, no slot is touched. *)
Unauthorized(c) ==
  /\ stage[c] = "auth"
  /\ peer[c] = Anonymous
  /\ stage' = [stage EXCEPT ![c] = "idle"]
  /\ alive' = alive \ {c}
  /\ UNCHANGED <<active, peer, stable>>

acquire(c) ==
  /\ stage[c] = "auth"
  /\ peer[c] # Anonymous
  /\ active[peer[c]] < maxSessionsPerNode
  /\ active' = [active EXCEPT ![peer[c]] = @ + 1]
  /\ stage' = [stage EXCEPT ![c] = "session"]
  /\ UNCHANGED <<peer, alive, stable>>

(* acquire returns false: 429. *)
Refuse(c) ==
  /\ stage[c] = "auth"
  /\ peer[c] # Anonymous
  /\ active[peer[c]] >= maxSessionsPerNode
  /\ stage' = [stage EXCEPT ![c] = "idle"]
  /\ alive' = alive \ {c}
  /\ UNCHANGED <<active, peer, stable>>

(* inner.ServeHTTP returns: the upgrade failed, a read failed (a message   *)
(* over the size limit included), or a ping found the agent gone.          *)
SessionEnds(c) ==
  /\ stage[c] = "session"
  /\ c \in alive => ~stable
  /\ stage' = [stage EXCEPT ![c] = "closing"]
  /\ alive' = alive \ {c}
  /\ UNCHANGED <<active, peer, stable>>

(* A bug in which ServeHTTP returns without its deferred release. *)
releaseForgotten(c) ==
  /\ stage[c] = "closing"
  /\ stage' = [stage EXCEPT ![c] = "idle"]
  /\ UNCHANGED <<active, peer, alive, stable>>

(* A bug in which the node's entry is deleted with its first session. *)
releaseDeletes(c) ==
  /\ stage[c] = "closing"
  /\ active' = [active EXCEPT ![peer[c]] = 0]
  /\ stage' = [stage EXCEPT ![c] = "idle"]
  /\ UNCHANGED <<peer, alive, stable>>

release(c) ==
  /\ stage[c] = "closing"
  /\ active' = [active EXCEPT ![peer[c]] = IF @ > 1 THEN @ - 1 ELSE 0]
  /\ stage' = [stage EXCEPT ![c] = "idle"]
  /\ UNCHANGED <<peer, alive, stable>>

(* The agent's end fails; the shim does not know yet. *)
Drop(c) ==
  /\ c \in alive
  /\ ~stable
  /\ alive' = alive \ {c}
  /\ UNCHANGED <<active, stage, peer, stable>>

Stabilise ==
  /\ ~stable
  /\ stable' = TRUE
  /\ UNCHANGED <<active, stage, peer, alive>>

ServeHTTP(c) == Unauthorized(c) \/ acquire(c) \/ Refuse(c) \/ SessionEnds(c) \/ release(c)

Next ==
  \/ \E c \in Conns, n \in Nodes \cup {Anonymous} : Connect(c, n)
  \/ \E c \in Conns : ServeHTTP(c) \/ Drop(c)
  \/ Stabilise

Spec == Init /\ [][Next]_vars

(* Goroutines run; remotedialer's ping deadline ends the session of an     *)
(* agent that is gone; an agent without a connection keeps dialling.       *)
FairSpec ==
  /\ Spec
  /\ \A c \in Conns : WF_vars(ServeHTTP(c))
  /\ \A n \in Nodes : SF_vars(\E c \in Conns : Connect(c, n))

---------------------------------------------------------------------------
(* Type correctness of the connections and of the map, whose entries stay  *)
(* within the limit.                                                       *)
TypeOK ==
  /\ active \in [Nodes -> 0 .. maxSessionsPerNode]
  /\ stage \in [Conns -> {"idle", "auth", "session", "closing"}]
  /\ peer \in [Conns -> Nodes \cup {Anonymous}]
  /\ alive \in SUBSET Conns
  /\ stable \in BOOLEAN

(* The active map counts exactly the sessions that hold a slot, in any     *)
(* order of connects, failures and teardowns, and no node holds more than  *)
(* the limit.                                                              *)
SessionsExact ==
  \A n \in Nodes :
    active[n] = Cardinality(Held(n)) /\ Cardinality(Held(n)) <= maxSessionsPerNode

(* "The second slot absorbs a reconnect that races the old session's       *)
(* teardown": an agent still there to hear it is refused only when as many *)
(* of its own sessions as the limit allows are dead and not torn down yet. *)
RefusedByDeadSessions ==
  [][\A c \in alive : Refuse(c) =>
       Cardinality(Held(peer[c]) \ alive) = maxSessionsPerNode]_vars

(* Once the network stops dropping connections every agent gets its tunnel *)
(* and keeps it, however many dead sessions it left behind.                *)
EveryAgentReconnects ==
  \A n \in Nodes : stable ~> [](\E c \in alive : stage[c] = "session" /\ peer[c] = n)
============================================================================
