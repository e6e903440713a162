------------------------- MODULE AdoptControlPlane -------------------------
(***************************************************************************)
(* adopt.sh join and decommission: Talos control planes are added to the   *)
(* etcd of a live RKE2 cluster and RKE2 ones are removed, by a script that *)
(* can be interrupted anywhere and is then run again.  etcd, Talos and the *)
(* RKE2 controller that prunes members without a Node object are external  *)
(* and as the script, its comments and the runbook rely on them.           *)
(***************************************************************************)
EXTENDS FiniteSets, Naturals

CONSTANTS
  Rke2,      \* RKE2 control planes
  Talos,     \* Talos control planes
  Adopted,   \* those that are members from the start
  Enrolled   \* those whose apiservers enrol in the kubernetes Service

ASSUME AdoptAssumption == Rke2 \cap Talos = {} /\ Adopted \subseteq Talos /\ Enrolled \subseteq Talos
ASSUME ClusterAssumption == IsFiniteSet(Rke2 \cup Talos) /\ Rke2 # {}

CP == Rke2 \cup Talos

VARIABLES
  member,     \* [CP -> "none", "added" (an unstarted learner, without a
              \*   name), "learner" or "voter"]
  up,         \* where etcd and the apiserver run
  nodes,      \* Node objects
  endpoints,  \* of the kubernetes Service
  machine,    \* [Talos -> "maintenance" or "configured"]
  initial,    \* [Talos -> initial-cluster of the configuration it was given]
  pc,         \* where the script is
  target,     \* its argument
  plan,       \* the initial-cluster it generated
  misled      \* history: decommission counted a control plane that was gone or
              \*   going

cluster == <<member, up, nodes, endpoints, machine, initial>>
cpvars == <<cluster, pc, target, plan, misled>>

AdoptInit ==
  LET present == Rke2 \cup Adopted IN
  /\ member = [c \in CP |-> IF c \in present THEN "voter" ELSE "none"]
  /\ up = present /\ nodes = present
  /\ endpoints = present \cap (Rke2 \cup Enrolled)
  /\ machine = [t \in Talos |-> IF t \in Adopted THEN "configured" ELSE "maintenance"]
  /\ initial = [t \in Talos |-> {}]
  /\ pc = "idle" /\ target \in Talos /\ plan = {}
  /\ misled = FALSE

Members(m) == {c \in CP : m[c] # "none"}
Voters(m) == {c \in CP : m[c] = "voter"}

Quorum(m, running) == 2 * Cardinality(running \cap Voters(m)) > Cardinality(Voters(m))

HasQuorum == Quorum(member, up)

(* A member has a name once it has started. *)
etcd_has_member(c) == member[c] \in {"learner", "voter"}

(* The script ends, and its variables with it. *)
Exit == pc' = "idle" /\ plan' = {}

---------------------------------------------------------------------------
(* phase_join *)

(* The gate counts every line of the member list, unstarted ones too. *)
JoinGate(t) ==
  /\ pc = "idle"
  /\ HasQuorum
  /\ Cardinality(Members(member)) >= 3
  /\ pc' = "plan"
  /\ target' = t
  /\ UNCHANGED <<cluster, plan, misled>>

(* A bug in which the new member is left out of its initial-cluster. *)
JoinPlanOthers ==
  /\ pc = "plan"
  /\ HasQuorum
  /\ pc' = "add"
  /\ plan' = {c \in CP : etcd_has_member(c)}
  /\ UNCHANGED <<cluster, target, misled>>

(* The list is read again: initial-cluster is every member that has a name *)
(* by now, and the new one.                                                *)
JoinPlan ==
  /\ pc = "plan"
  /\ HasQuorum
  /\ pc' = "add"
  /\ plan' = {c \in CP : etcd_has_member(c)} \cup {target}
  /\ UNCHANGED <<cluster, target, misled>>

(* A bug in which the member is added with a vote. *)
JoinAddVoting ==
  /\ pc = "add"
  /\ member[target] = "none"
  /\ member' = [member EXCEPT ![target] = "voter"]
  /\ pc' = "apply"
  /\ UNCHANGED <<up, nodes, endpoints, machine, initial, target, plan, misled>>

(* member add --learner unless it is there.  etcd takes one learner at a   *)
(* time and no address twice.                                              *)
JoinAdd ==
  /\ pc = "add"
  /\ \/ /\ etcd_has_member(target)
        /\ pc' = "apply"
        /\ UNCHANGED <<member, plan>>
     \/ /\ member[target] = "none" /\ HasQuorum
        /\ \A c \in CP : member[c] \notin {"added", "learner"}
        /\ member' = [member EXCEPT ![target] = "added"]
        /\ pc' = "apply"
        /\ UNCHANGED plan
     \/ /\ ~etcd_has_member(target)
        /\ Exit
        /\ UNCHANGED member
  /\ UNCHANGED <<up, nodes, endpoints, machine, initial, target, misled>>

(* A bug in which the member must be in the list before the node starts. *)
JoinApplyVerified ==
  /\ pc = "apply"
  /\ etcd_has_member(target)
  /\ machine[target] = "maintenance"
  /\ machine' = [machine EXCEPT ![target] = "configured"]
  /\ initial' = [initial EXCEPT ![target] = plan]
  /\ pc' = "wait"
  /\ UNCHANGED <<member, up, nodes, endpoints, target, plan, misled>>

(* apply-config --insecure, which only a machine in maintenance accepts. *)
JoinApply ==
  /\ pc = "apply"
  /\ machine[target] = "maintenance"
  /\ machine' = [machine EXCEPT ![target] = "configured"]
  /\ initial' = [initial EXCEPT ![target] = plan]
  /\ pc' = "wait"
  /\ UNCHANGED <<member, up, nodes, endpoints, target, plan, misled>>

JoinReady ==
  /\ pc = "wait"
  /\ target \in nodes
  /\ Exit
  /\ UNCHANGED <<cluster, target, misled>>

---------------------------------------------------------------------------
(* phase_decommission *)

(* A bug in which the endpoints of the Service are not looked at. *)
GateUnchecked == TRUE

(* The last control plane with the RKE2 label may only go while the        *)
(* Service has another endpoint; the operator types YES.                   *)
Gate == Cardinality(nodes \cap Rke2) <= 1 => Cardinality(endpoints) > 1

DecommissionGate(k) ==
  /\ pc = "idle"
  /\ HasQuorum
  /\ Gate
  /\ pc' = "stop"
  /\ target' = k
  /\ misled' = (misled \/ ((nodes \cap Rke2) \cup endpoints) \ (up \cap nodes) # {})
  /\ UNCHANGED <<cluster, plan>>


(* systemctl stop rke2-server || true *)
DecommissionStop ==
  /\ pc = "stop"
  /\ up' \in {up, up \ {target}}
  /\ pc' = "delete"
  /\ UNCHANGED <<member, nodes, endpoints, machine, initial, target, plan, misled>>

(* kubectl delete node || true; the members are listed and not looked at. *)
DecommissionDelete ==
  /\ pc = "delete"
  /\ \/ HasQuorum /\ nodes' = nodes \ {target}
     \/ UNCHANGED nodes
  /\ Exit
  /\ UNCHANGED <<member, up, endpoints, machine, initial, target, misled>>

(* die, a timeout, or an interruption: nothing is cleaned up. *)
Interrupt ==
  /\ pc # "idle"
  /\ Exit
  /\ UNCHANGED <<cluster, target, misled>>

---------------------------------------------------------------------------
(* The cluster, external *)

(* A new etcd starts if its initial-cluster is the member list, ... *)
EtcdStarts(t) ==
  /\ machine[t] = "configured" /\ t \notin up
  /\ HasQuorum
  /\ member[t] = "added" /\ initial[t] = Members(member)
  /\ member' = [member EXCEPT ![t] = "learner"]
  /\ up' = up \cup {t}
  /\ UNCHANGED <<nodes, endpoints, machine, initial>>

(* ... Talos promotes it, and its kubelet registers. *)
Promote(t) ==
  /\ member[t] = "learner" /\ HasQuorum
  /\ member' = [member EXCEPT ![t] = "voter"]
  /\ UNCHANGED <<up, nodes, endpoints, machine, initial>>

Register(t) ==
  /\ t \in up \ nodes /\ HasQuorum
  /\ nodes' = nodes \cup {t}
  /\ UNCHANGED <<member, up, endpoints, machine, initial>>

(* RKE2 removes members without a Node object, and the runbook has a       *)
(* learner removed; etcd refuses a removal that costs the quorum.          *)
Prune(c) ==
  LET left == [member EXCEPT ![c] = "none"] IN
  /\ member[c] # "none" /\ c \notin nodes
  /\ HasQuorum /\ Quorum(left, up)
  /\ member' = left
  /\ up' = up \ {c}
  /\ UNCHANGED <<nodes, endpoints, machine, initial>>

(* An apiserver's lease runs out some time after it has stopped. *)
EndpointExpires ==
  /\ endpoints \ up # {}
  /\ endpoints' = endpoints \cap up
  /\ UNCHANGED <<member, up, nodes, machine, initial>>

(* The operator wipes a machine whose join failed. *)
Wipe(t) ==
  /\ machine[t] = "configured" /\ t \notin up
  /\ machine' = [machine EXCEPT ![t] = "maintenance"]
  /\ UNCHANGED <<member, up, nodes, endpoints, initial>>

ClusterStep ==
  /\ \/ \E t \in Talos : EtcdStarts(t) \/ Promote(t) \/ Register(t) \/ Wipe(t)
     \/ \E c \in CP : Prune(c)
     \/ EndpointExpires
  /\ UNCHANGED <<pc, target, plan, misled>>

Join == JoinPlan \/ JoinAdd \/ JoinApply \/ JoinReady

Decommission == DecommissionStop \/ DecommissionDelete

AdoptNext ==
  \/ \E t \in Talos : JoinGate(t)
  \/ \E k \in Rke2 : DecommissionGate(k)
  \/ Join \/ Decommission \/ Interrupt \/ ClusterStep

(* The controller runs and the script ends, all its waits being bounded.   *)
(* The operator runs join again until a new machine is configured, and     *)
(* decommission until the Nodes of servers it has stopped are gone, and is *)
(* not interrupted every time; nor does the deletion fail every time.      *)
AdoptFairness ==
  /\ WF_cpvars(Join \/ Decommission \/ Interrupt)
  /\ \A c \in CP : WF_cpvars(Prune(c) /\ UNCHANGED <<pc, target, plan, misled>>)
  /\ \A t \in Talos \ Adopted :
       /\ SF_cpvars(JoinGate(t))
       /\ SF_cpvars(JoinPlan /\ target = t)
       /\ SF_cpvars(JoinAdd /\ target = t /\ pc' = "apply")
       /\ SF_cpvars(JoinApply /\ target = t)
  /\ SF_cpvars(\E k \in Rke2 \cap (nodes \ up) : DecommissionGate(k))
  /\ SF_cpvars(DecommissionStop /\ target \in nodes \ up)
  /\ SF_cpvars(DecommissionDelete /\ target \in nodes \ nodes')

---------------------------------------------------------------------------
(* Type correctness; etcd runs on started members, a registered Talos node *)
(* runs, a machine in maintenance does not, and a join plans for its node. *)
AdoptTypeOK ==
  /\ member \in [CP -> {"none", "added", "learner", "voter"}]
  /\ \A c \in up : etcd_has_member(c)
  /\ nodes \cap Talos \subseteq up
  /\ \A t \in Talos : machine[t] = "maintenance" => t \notin up
  /\ pc \in {"idle", "plan", "add", "apply", "wait", "stop", "delete"}
  /\ target \in CP /\ plan \subseteq CP
  /\ pc \in {"plan", "add", "apply"} => target \in Talos
  /\ pc \in {"add", "apply"} => target \in plan

(* No join, at whatever point it is interrupted and however often it is    *)
(* run again, no promotion and no pruning costs etcd its quorum: only a    *)
(* server that stops can.                                                  *)
OnlyStoppingCostsQuorum == [][HasQuorum /\ up \subseteq up' => HasQuorum']_cpvars

(* While the Talos apiservers are not enrolled, decommissioning leaves the *)
(* kubernetes Service without an apiserver only when its gate counted one  *)
(* that was gone or going: a Node object whose deletion failed or was not  *)
(* reached, an endpoint that had not expired, or one whose Node object is  *)
(* deleted and whose etcd member is about to be pruned.                    *)
StrandedOnlyWhenMisled == endpoints \cap up = {} => misled

(* The learner an interrupted join leaves behind, which makes the next     *)
(* runs fail at member add, does not keep the node out for good: some run  *)
(* comes to configuring it, as long as the cluster lets nodes join.        *)
InterruptedJoinResumes ==
  \A t \in Talos \ Adopted :
    <>[](/\ HasQuorum /\ Cardinality(Members(member)) >= 3
         /\ \A c \in CP \ {t} : member[c] \notin {"added", "learner"})
      => <>(machine[t] = "configured")

(* A decommission that stopped the server and did not delete its Node,     *)
(* because it was interrupted or the deletion failed and was ignored, is   *)
(* completed by running it again, although there is nothing left to stop:  *)
(* as long as etcd has its quorum and the gate lets the run pass, which it *)
(* need not for the last RKE2 control plane once its endpoint is gone.     *)
InterruptedDecommissionResumes ==
  \A k \in Rke2 :
    <>[](HasQuorum /\ Gate /\ k \notin up) => <>(k \notin nodes)
===========================================================================
