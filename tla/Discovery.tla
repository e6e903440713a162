----------------------------- MODULE Discovery -----------------------------
(***************************************************************************)
(* internal/apiservers/discovery.go and the list it feeds in the           *)
(* supervisor (SetAPIServers): which control planes a replica advertises   *)
(* to agents, and checks serving-certificate addresses against.            *)
(* A control plane is identified with its first usable InternalIP.         *)
(***************************************************************************)
EXTENDS FiniteSets, Naturals

CONSTANTS
  CPs,       \* control-plane nodes
  Unusable   \* those with no usable InternalIP

ASSUME UnusableAssumption == Unusable \subseteq CPs

VARIABLES
  cp,          \* [CPs -> "absent", "notReady" or "ready"]: their Node objects
  advertised,  \* the list agents are given; {} before the first one is known
  found        \* the list a refresh has fetched and not handed over yet

dvars == <<cp, advertised, found>>

CPStates == {"absent", "notReady", "ready"}

Reachable(state) == {c \in CPs \ Unusable : state[c] = "ready"}

DiscoveryInit ==
  /\ cp \in [CPs -> CPStates]
  /\ advertised = {}
  /\ found = {}

(* List, at startup and every two minutes.  An empty result is an error,   *)
(* and an error leaves everything as it is.                                *)
List ==
  /\ found = {}
  /\ found' = Reachable(cp)
  /\ UNCHANGED <<cp, advertised>>

(* A bug in which a failed refresh hands over what it has: nothing. *)
SetAPIServersUnguarded ==
  /\ advertised' = found
  /\ found' = {}
  /\ UNCHANGED cp

(* A bug in which the first list is kept for good. *)
SetAPIServersOnce ==
  /\ found # {}
  /\ advertised' = IF advertised = {} THEN found ELSE advertised
  /\ found' = {}
  /\ UNCHANGED cp

(* set(list): an empty list is ignored. *)
SetAPIServers ==
  /\ found # {}
  /\ advertised' = found
  /\ found' = {}
  /\ UNCHANGED cp

(* Control planes join, leave and flap. *)
ChangeCP(c, state) ==
  /\ cp[c] # state
  /\ cp' = [cp EXCEPT ![c] = state]
  /\ UNCHANGED <<advertised, found>>

(* A new process: New leaves the list unset. *)
RestartDiscovery ==
  /\ advertised' = {}
  /\ found' = {}
  /\ UNCHANGED cp

DiscoveryStep == List \/ SetAPIServers

DiscoveryNext ==
  \/ DiscoveryStep
  \/ \E c \in CPs, state \in CPStates : ChangeCP(c, state)

---------------------------------------------------------------------------
(* Type correctness of the control planes and of what List returns: an     *)
(* address of a control plane that has a usable one.                       *)
DiscoveryTypeOK ==
  /\ cp \in [CPs -> CPStates]
  /\ found \in SUBSET (CPs \ Unusable)
===========================================================================
