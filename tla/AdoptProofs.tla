---------------------------- MODULE AdoptProofs ----------------------------
(***************************************************************************)
(* adopt.sh for every number of control planes: what its joins and         *)
(* decommissions can do to etcd's quorum and to the kubernetes Service,    *)
(* and with which identity a migrated worker comes back.                   *)
(***************************************************************************)
EXTENDS MCAdopt, FiniteSetTheorems, TLAPS

(* Only Talos machines are joined and only RKE2 ones decommissioned, and a *)
(* learner is a Talos member whose etcd runs.                              *)
Roles ==
  /\ up \subseteq CP /\ nodes \subseteq CP /\ endpoints \subseteq CP
  /\ machine \in [Talos -> {"maintenance", "configured"}]
  /\ pc \in {"stop", "delete"} => target \in Rke2
  /\ \A c \in CP : member[c] = "learner" => c \in up
  /\ \A k \in Rke2 : member[k] \in {"none", "voter"}
  /\ misled \in BOOLEAN

(* While decommission was not misled, an apiserver that stays is behind    *)
(* the Service; an RKE2 apiserver that runs is there.                      *)
Survivor ==
  /\ Rke2 \cap up \subseteq endpoints
  /\ misled \/ \E s \in endpoints \cap up \cap nodes : pc \in {"stop", "delete"} => s # target

(* The worker's identity and configuration at each step of the script. *)
NewIdentity ==
  /\ cordoned \in BOOLEAN
  /\ step = "wipe" => agent = "stopped"
  /\ step \in {"start", "poll"} /\ serverLine => server = "shim"
  /\ step = "poll" => cert # "old"
  /\ step = "poll" /\ cert = "fresh" => issuer = server

IInv == AdoptTypeOK /\ Roles /\ Survivor /\ MigrateTypeOK /\ NewIdentity

---------------------------------------------------------------------------
LEMMA InitOK == Init => IInv
<1> SUFFICES ASSUME Init PROVE IInv
  OBVIOUS
<1>1. AdoptTypeOK /\ Roles
  BY AdoptAssumption DEF Init, AdoptInit, AdoptTypeOK, Roles, CP, etcd_has_member
<1>2. Survivor
  <2>1. PICK k \in Rke2 : TRUE
    BY ClusterAssumption
  <2>2. k \in endpoints \cap up \cap nodes /\ pc = "idle" /\ Rke2 \cap up \subseteq endpoints
    BY <2>1 DEF Init, AdoptInit
  <2> QED
    BY <2>2 DEF Survivor
<1>3. MigrateTypeOK /\ NewIdentity
  BY DEF Init, MigrateInit, MigrateTypeOK, NewIdentity
<1> QED
  BY <1>1, <1>2, <1>3 DEF IInv

(* What is true of the control planes does not depend on the worker, and   *)
(* the other way round.                                                    *)
LEMMA Separate ==
  ASSUME IInv
  PROVE  /\ UNCHANGED mvars => MigrateTypeOK' /\ NewIdentity'
         /\ UNCHANGED cpvars => AdoptTypeOK' /\ Roles' /\ Survivor'
<1>1. ASSUME UNCHANGED mvars PROVE MigrateTypeOK' /\ NewIdentity'
  BY <1>1 DEF IInv, mvars, worker, MigrateTypeOK, NewIdentity
<1>2. ASSUME UNCHANGED cpvars PROVE AdoptTypeOK' /\ Roles' /\ Survivor'
  BY <1>2 DEF IInv, cpvars, cluster, AdoptTypeOK, etcd_has_member, Roles, Survivor
<1> QED
  BY <1>1, <1>2

---------------------------------------------------------------------------
(* phase_join, and interruptions of either phase, leave alone what the     *)
(* Service and the quorum depend on.                                       *)
LEMMA JoinPlanStep ==
  ASSUME IInv, JoinPlan \/ \E t \in Talos : JoinGate(t)
  PROVE  AdoptTypeOK' /\ Roles' /\ Survivor'
<1>1. UNCHANGED cluster /\ UNCHANGED misled /\ pc' \in {"plan", "add"}
  BY DEF JoinPlan, JoinGate
<1>2. target' \in Talos /\ plan' \subseteq CP /\ (pc' = "add" => target' \in plan')
  <2>1. CASE JoinPlan
    BY <2>1 DEF JoinPlan, IInv, AdoptTypeOK
  <2>2. CASE \E t \in Talos : JoinGate(t)
    BY <2>2 DEF JoinGate, IInv, AdoptTypeOK
  <2> QED
    BY <2>1, <2>2
<1>3. AdoptTypeOK'
  BY <1>1, <1>2 DEF IInv, AdoptTypeOK, cluster, etcd_has_member, CP
<1>4. Roles' /\ Survivor'
  BY <1>1 DEF IInv, Roles, Survivor, cluster
<1> QED
  BY <1>3, <1>4

LEMMA JoinAddStep ==
  ASSUME IInv, JoinAdd
  PROVE  AdoptTypeOK' /\ Roles' /\ Survivor'
<1>1. /\ UNCHANGED <<up, nodes, endpoints, machine, initial, target, misled>>
      /\ pc = "add" /\ target \in Talos
      /\ (pc' = "apply" /\ plan' = plan) \/ (pc' = "idle" /\ plan' = {})
      /\ \/ UNCHANGED member
         \/ member[target] = "none" /\ member' = [member EXCEPT ![target] = "added"]
  BY DEF JoinAdd, Exit, IInv, AdoptTypeOK
<1>2. /\ member' \in [CP -> {"none", "added", "learner", "voter"}]
      /\ \A c \in CP : member[c] # "none" => member'[c] = member[c]
      /\ \A c \in CP : member'[c] # member[c] => member'[c] = "added" /\ c \notin Rke2
  BY <1>1, AdoptAssumption DEF IInv, AdoptTypeOK, CP
<1>3. AdoptTypeOK'
  BY <1>1, <1>2 DEF IInv, AdoptTypeOK, Roles, etcd_has_member
<1>4. Roles'
  BY <1>1, <1>2 DEF IInv, Roles, CP
<1>5. Survivor'
  BY <1>1 DEF IInv, Survivor
<1> QED
  BY <1>3, <1>4, <1>5

LEMMA JoinRestStep ==
  ASSUME IInv, JoinApply \/ JoinReady \/ Interrupt
  PROVE  AdoptTypeOK' /\ Roles' /\ Survivor'
<1>1. UNCHANGED <<member, up, nodes, endpoints, target, misled>> /\ plan' \subseteq CP
  BY DEF JoinApply, JoinReady, Interrupt, Exit, cluster, IInv, AdoptTypeOK
<1>2. /\ pc' \in {"wait", "idle"}
      /\ machine' \in [Talos -> {"maintenance", "configured"}]
      /\ \A t \in Talos : machine'[t] = "maintenance" => machine[t] = "maintenance"
  <2>1. CASE JoinApply
    BY <2>1 DEF JoinApply, IInv, AdoptTypeOK, Roles
  <2>2. CASE JoinReady \/ Interrupt
    BY <2>2 DEF JoinReady, Interrupt, Exit, cluster, IInv, Roles
  <2> QED
    BY <2>1, <2>2
<1>3. AdoptTypeOK'
  BY <1>1, <1>2 DEF IInv, AdoptTypeOK, etcd_has_member
<1>4. Roles' /\ Survivor'
  BY <1>1, <1>2 DEF IInv, Roles, Survivor
<1> QED
  BY <1>3, <1>4

---------------------------------------------------------------------------
(* The gate of phase_decommission: unless it counted something that was    *)
(* gone or going, another apiserver than k is behind the Service and stays. *)
LEMMA GateLeavesOne ==
  ASSUME IInv, NEW k \in Rke2, DecommissionGate(k), ~misled'
  PROVE  \E s \in endpoints \cap up \cap nodes : s # k
<1>1. /\ nodes \cap Rke2 \subseteq up \cap nodes /\ endpoints \subseteq up \cap nodes
      /\ Gate
  BY DEF DecommissionGate
<1>2. IsFiniteSet(nodes \cap Rke2) /\ IsFiniteSet(endpoints)
  BY ClusterAssumption, FS_Subset DEF IInv, Roles, CP
<1>3. ASSUME NEW S, IsFiniteSet(S), Cardinality(S) > 1 PROVE \E s \in S : s # k
  <2> SUFFICES ASSUME S \subseteq {k} PROVE FALSE
    OBVIOUS
  <2>1. Cardinality(S) <= Cardinality({k}) /\ Cardinality({k}) = 1 /\ Cardinality(S) \in Nat
    BY <1>3, FS_Subset, FS_Singleton, FS_CardinalityType
  <2> QED
    BY <1>3, <2>1
<1>4. CASE Cardinality(nodes \cap Rke2) <= 1
  <2>1. Cardinality(endpoints) > 1
    BY <1>1, <1>4 DEF Gate
  <2> QED
    BY <1>1, <1>2, <1>3, <2>1
<1>5. CASE ~(Cardinality(nodes \cap Rke2) <= 1)
  <2>1. Cardinality(nodes \cap Rke2) > 1
    BY <1>2, <1>5, FS_CardinalityType
  <2>2. PICK s \in nodes \cap Rke2 : s # k
    BY <1>2, <1>3, <2>1
  <2> QED
    BY <1>1, <2>2 DEF IInv, Survivor
<1> QED
  BY <1>4, <1>5

LEMMA GateStep ==
  ASSUME IInv, NEW k \in Rke2, DecommissionGate(k)
  PROVE  AdoptTypeOK' /\ Roles' /\ Survivor'
<1>1. UNCHANGED <<cluster, plan>> /\ pc' = "stop" /\ target' = k
  BY DEF DecommissionGate
<1>2. misled' \in BOOLEAN
  BY DEF DecommissionGate
<1>3. AdoptTypeOK' /\ Roles'
  BY <1>1, <1>2 DEF IInv, AdoptTypeOK, Roles, cluster, etcd_has_member, CP
<1>4. Survivor'
  BY <1>1, GateLeavesOne DEF IInv, Survivor, cluster
<1> QED
  BY <1>3, <1>4

LEMMA DecommissionStep ==
  ASSUME IInv, Decommission
  PROVE  AdoptTypeOK' /\ Roles' /\ Survivor'
<1>1. /\ UNCHANGED <<member, endpoints, machine, initial, target, misled>>
      /\ plan' \subseteq CP
      /\ pc \in {"stop", "delete"} /\ pc' \in {"delete", "idle"}
      /\ up \ {target} \subseteq up' /\ up' \subseteq up
      /\ nodes \ {target} \subseteq nodes' /\ nodes' \subseteq nodes
      /\ target \in Rke2
  BY DEF Decommission, DecommissionStop, DecommissionDelete, Exit, IInv, Roles, AdoptTypeOK
<1>2. target \notin Talos
  BY <1>1, AdoptAssumption
<1>3. AdoptTypeOK'
  BY <1>1, <1>2 DEF IInv, AdoptTypeOK, etcd_has_member
<1>4. Roles'
  BY <1>1, <1>2 DEF IInv, Roles
<1>5. Survivor'
  BY <1>1 DEF IInv, Survivor
<1> QED
  BY <1>3, <1>4, <1>5

---------------------------------------------------------------------------
(* etcd, Talos, the pruning controller, the endpoints' leases, the operator. *)
LEMMA ClusterStepOK ==
  ASSUME IInv, ClusterStep
  PROVE  AdoptTypeOK' /\ Roles' /\ Survivor'
<1>0. UNCHANGED <<pc, target, plan, misled>>
  BY DEF ClusterStep
<1>1. ASSUME NEW t \in Talos, EtcdStarts(t) PROVE AdoptTypeOK' /\ Roles' /\ Survivor'
  <2>1. /\ UNCHANGED <<nodes, endpoints, machine>> /\ machine[t] = "configured"
        /\ member' = [member EXCEPT ![t] = "learner"] /\ up' = up \cup {t}
        /\ t \in CP /\ t \notin Rke2
    BY <1>1, AdoptAssumption DEF EtcdStarts, CP
  <2>2. AdoptTypeOK'
    BY <1>0, <2>1 DEF IInv, AdoptTypeOK, Roles, etcd_has_member
  <2>3. Roles' /\ Survivor'
    BY <1>0, <2>1 DEF IInv, AdoptTypeOK, Roles, Survivor, CP
  <2> QED
    BY <2>2, <2>3
<1>2. ASSUME NEW t \in Talos, Promote(t) PROVE AdoptTypeOK' /\ Roles' /\ Survivor'
  <2>1. /\ UNCHANGED <<up, nodes, endpoints, machine>>
        /\ member' = [member EXCEPT ![t] = "voter"] /\ t \in CP /\ t \notin Rke2
    BY <1>2, AdoptAssumption DEF Promote, CP
  <2>2. AdoptTypeOK'
    BY <1>0, <2>1 DEF IInv, AdoptTypeOK, Roles, etcd_has_member
  <2>3. Roles' /\ Survivor'
    BY <1>0, <2>1 DEF IInv, AdoptTypeOK, Roles, Survivor, CP
  <2> QED
    BY <2>2, <2>3
<1>3. ASSUME NEW t \in Talos, Register(t) \/ Wipe(t) PROVE AdoptTypeOK' /\ Roles' /\ Survivor'
  <2>1. /\ UNCHANGED <<member, up, endpoints>> /\ nodes \subseteq nodes'
        /\ nodes' \subseteq nodes \cup up /\ nodes' \subseteq CP
        /\ machine' \in [Talos -> {"maintenance", "configured"}]
        /\ \A u \in Talos : machine'[u] = "maintenance" => u \notin up
    BY <1>3 DEF Register, Wipe, IInv, AdoptTypeOK, Roles
  <2>2. AdoptTypeOK'
    BY <1>0, <2>1 DEF IInv, AdoptTypeOK, etcd_has_member
  <2>3. Roles' /\ Survivor'
    BY <1>0, <2>1 DEF IInv, Roles, Survivor
  <2> QED
    BY <2>2, <2>3
<1>4. ASSUME NEW c \in CP, Prune(c) PROVE AdoptTypeOK' /\ Roles' /\ Survivor'
  <2>1. /\ UNCHANGED <<nodes, endpoints, machine>> /\ c \notin nodes
        /\ member' = [member EXCEPT ![c] = "none"] /\ up' = up \ {c}
    BY <1>4 DEF Prune
  <2>2. AdoptTypeOK'
    BY <1>0, <2>1 DEF IInv, AdoptTypeOK, Roles, etcd_has_member
  <2>3. Roles' /\ Survivor'
    BY <1>0, <2>1 DEF IInv, AdoptTypeOK, Roles, Survivor, CP
  <2> QED
    BY <2>2, <2>3
<1>5. ASSUME EndpointExpires PROVE AdoptTypeOK' /\ Roles' /\ Survivor'
  <2>1. UNCHANGED <<member, up, nodes, machine>> /\ endpoints' = endpoints \cap up
    BY <1>5 DEF EndpointExpires
  <2>2. AdoptTypeOK'
    BY <1>0, <2>1 DEF IInv, AdoptTypeOK, etcd_has_member
  <2>3. Roles' /\ Survivor'
    BY <1>0, <2>1 DEF IInv, Roles, Survivor
  <2> QED
    BY <2>2, <2>3
<1> QED
  BY <1>1, <1>2, <1>3, <1>4, <1>5 DEF ClusterStep

LEMMA AdoptStep ==
  ASSUME IInv, AdoptNext
  PROVE  AdoptTypeOK' /\ Roles' /\ Survivor'
BY JoinPlanStep, JoinAddStep, JoinRestStep, GateStep, DecommissionStep, ClusterStepOK
DEF AdoptNext, Join

(* migrate-worker: before it polls, the old identity is gone and the       *)
(* configuration points where it can be made to point.                     *)
LEMMA MigrateStep ==
  ASSUME IInv, MigrateNext
  PROVE  MigrateTypeOK' /\ NewIdentity'
<1>1. CASE Drain
  BY <1>1 DEF Drain, IInv, MigrateTypeOK, NewIdentity, worker
<1>2. CASE NoteSerial
  BY <1>2 DEF NoteSerial, IInv, MigrateTypeOK, NewIdentity
<1>3. CASE StopAgent
  BY <1>3 DEF StopAgent, IInv, MigrateTypeOK, NewIdentity
<1>4. CASE WipeIdentity
  BY <1>4 DEF WipeIdentity, IInv, MigrateTypeOK, NewIdentity
<1>5. CASE Repoint
  BY <1>5 DEF Repoint, IInv, MigrateTypeOK, NewIdentity
<1>6. CASE StartAgent
  BY <1>6 DEF StartAgent, IInv, MigrateTypeOK, NewIdentity
<1>7. CASE Uncordon \/ Abort
  BY <1>7 DEF Uncordon, Abort, IInv, MigrateTypeOK, NewIdentity, worker
<1>8. CASE WorkerStep
  BY <1>8 DEF WorkerStep, Bootstrap, Condition, IInv, MigrateTypeOK, NewIdentity
<1> QED
  BY <1>1, <1>2, <1>3, <1>4, <1>5, <1>6, <1>7, <1>8 DEF MigrateNext, Remote

LEMMA StepOK == IInv /\ [AdoptRun \/ MigrateRun]_<<cpvars, mvars, on>> => IInv'
<1> SUFFICES ASSUME IInv, [AdoptRun \/ MigrateRun]_<<cpvars, mvars, on>> PROVE IInv'
  OBVIOUS
<1>1. CASE AdoptRun
  BY <1>1, AdoptStep, Separate DEF AdoptRun, IInv
<1>2. CASE MigrateRun
  BY <1>2, MigrateStep, Separate DEF MigrateRun, IInv
<1>3. CASE UNCHANGED <<cpvars, mvars, on>>
  BY <1>3, Separate DEF IInv
<1> QED
  BY <1>1, <1>2, <1>3

LEMMA Invariant == Spec => []IInv
  BY InitOK, StepOK, PTL DEF Spec, SafeSpec

---------------------------------------------------------------------------
(* Type correctness of the cluster, the worker and both scripts: etcd runs  *)
(* on started members, and a join only ever plans for its own node.        *)
THEOREM AdoptionTypes == Spec => []AdoptionTypeOK
<1>1. IInv => AdoptionTypeOK
  BY DEF IInv, AdoptionTypeOK
<1> QED
  BY <1>1, Invariant, PTL

(* phase_decommission's gate: it leaves the Service without an apiserver   *)
(* only when it counted one that was gone or going.                        *)
THEOREM StrandedForCause == Spec => []StrandedOnlyWhenMisled
<1>1. IInv => StrandedOnlyWhenMisled
  BY DEF IInv, Survivor, Roles, StrandedOnlyWhenMisled
<1> QED
  BY <1>1, Invariant, PTL

(* One more voter that runs leaves a running majority a majority. *)
LEMMA OneMoreVoter ==
  ASSUME IInv, NEW t \in Talos, member[t] = "learner", HasQuorum,
         member' = [member EXCEPT ![t] = "voter"], up' = up
  PROVE  HasQuorum'
<1> DEFINE V == Voters(member)
<1>1. t \in CP /\ t \in up /\ t \notin V
  BY DEF IInv, Roles, CP, Voters
<1>2. Voters(member') = V \cup {t}
  BY <1>1 DEF Voters, IInv, AdoptTypeOK
<1>3. up \cap (V \cup {t}) = (up \cap V) \cup {t} /\ t \notin up \cap V
  BY <1>1
<1>4. IsFiniteSet(V) /\ IsFiniteSet(up \cap V)
  <2>1. V \subseteq CP /\ up \cap V \subseteq CP
    BY DEF Voters
  <2> QED
    BY <2>1, ClusterAssumption, FS_Subset DEF CP
<1> HIDE DEF V
<1>5. /\ Cardinality(V \cup {t}) = Cardinality(V) + 1
      /\ Cardinality((up \cap V) \cup {t}) = Cardinality(up \cap V) + 1
  BY <1>1, <1>3, <1>4, FS_AddElement
<1>6. Cardinality(V) \in Nat /\ Cardinality(up \cap V) \in Nat
  BY <1>4, FS_CardinalityType
<1>7. 2 * Cardinality(up \cap V) > Cardinality(V)
  BY DEF HasQuorum, Quorum, V
<1>8. 2 * Cardinality((up \cap V) \cup {t}) > Cardinality(V \cup {t})
  BY <1>5, <1>6, <1>7
<1>9. Voters(member)' = V \cup {t} /\ (up \cap Voters(member))' = (up \cap V) \cup {t}
  BY <1>2, <1>3
<1> QED
  BY <1>8, <1>9 DEF HasQuorum, Quorum

(* phase_join adds members without a vote, etcd promotes what runs and     *)
(* refuses a removal that costs the quorum: nothing but a server that      *)
(* stops takes it.                                                         *)
THEOREM JoinsKeepQuorum == Spec => OnlyStoppingCostsQuorum
<1> DEFINE Keeps == HasQuorum /\ up \subseteq up' => HasQuorum'
<1>1. ASSUME IInv, [AdoptRun \/ MigrateRun]_<<cpvars, mvars, on>>
      PROVE  [Keeps]_cpvars
  <2> SUFFICES ASSUME AdoptNext, HasQuorum, up \subseteq up' PROVE HasQuorum'
    BY <1>1 DEF AdoptRun, MigrateRun
  <2>1. ASSUME Voters(member') = Voters(member) PROVE HasQuorum'
    <3>1. /\ up \cap Voters(member) \subseteq up' \cap Voters(member')
          /\ IsFiniteSet(up' \cap Voters(member'))
      <4>1. up' \cap Voters(member') \subseteq Rke2 \cup Talos
        BY DEF Voters, CP
      <4> QED
        BY <2>1, <4>1, ClusterAssumption, FS_Subset
    <3>2. /\ Cardinality(up \cap Voters(member)) <= Cardinality(up' \cap Voters(member'))
          /\ Cardinality(up \cap Voters(member)) \in Nat
          /\ Cardinality(up' \cap Voters(member')) \in Nat
      BY <3>1, FS_Subset, FS_CardinalityType
    <3>3. IsFiniteSet(Voters(member))
      <4>1. Voters(member) \subseteq Rke2 \cup Talos
        BY DEF Voters, CP
      <4> QED
        BY <4>1, ClusterAssumption, FS_Subset
    <3>4. Cardinality(Voters(member)) \in Nat
      BY <3>3, FS_CardinalityType
    <3> QED
      BY <2>1, <3>2, <3>4 DEF HasQuorum, Quorum
  <2>2. CASE \E t \in Talos : Promote(t)
    BY <1>1, <2>2, OneMoreVoter DEF Promote
  <2>3. CASE \E c \in CP : Prune(c)
    <3>1. PICK c \in CP : Prune(c)
      BY <2>3
    <3>2. up' = up /\ member' = [member EXCEPT ![c] = "none"]
      BY <3>1 DEF Prune
    <3>3. Quorum(member', up')
      BY <3>1, <3>2 DEF Prune
    <3> QED
      BY <3>3 DEF HasQuorum, Quorum, Voters
  <2>4. CASE JoinAdd \/ \E t \in Talos : EtcdStarts(t)
    <3>1. member \in [CP -> {"none", "added", "learner", "voter"}]
      BY <1>1 DEF IInv, AdoptTypeOK
    <3>2. CASE JoinAdd
      <4>1. \/ UNCHANGED member
            \/ member[target] = "none" /\ member' = [member EXCEPT ![target] = "added"]
        BY <3>2 DEF JoinAdd
      <4>2. Voters(member') = Voters(member)
        BY <3>1, <4>1 DEF Voters
      <4> QED
        BY <2>1, <4>2
    <3>3. CASE \E t \in Talos : EtcdStarts(t)
      <4>1. PICK t \in Talos : member[t] = "added" /\ member' = [member EXCEPT ![t] = "learner"]
        BY <3>3 DEF EtcdStarts
      <4>2. Voters(member') = Voters(member)
        BY <3>1, <4>1 DEF Voters
      <4> QED
        BY <2>1, <4>2
    <3> QED
      BY <2>4, <3>2, <3>3
  <2>5. CASE UNCHANGED member
    BY <2>1, <2>5 DEF Voters
  <2> QED
    BY <2>2, <2>3, <2>4, <2>5
    DEF AdoptNext, JoinGate, JoinPlan, Join, JoinApply, JoinReady, Interrupt, DecommissionGate,
        Decommission, DecommissionStop, DecommissionDelete, ClusterStep, Register, Wipe,
        EndpointExpires, cluster
<1> QED
  BY <1>1, Invariant, PTL DEF Spec, SafeSpec, OnlyStoppingCostsQuorum

(* phase_migrate_worker: a worker is put back to work only with an         *)
(* identity of this run, from the shim where the configuration allows it.  *)
THEOREM FreshIdentity == Spec => BackWithNewIdentity
<1>1. ASSUME IInv, [AdoptRun \/ MigrateRun]_<<cpvars, mvars, on>>
      PROVE  [cordoned /\ ~cordoned' =>
                cert = "fresh" /\ (serverLine => issuer = "shim")]_mvars
  <2> SUFFICES ASSUME MigrateNext, cordoned, ~cordoned'
               PROVE  cert = "fresh" /\ (serverLine => issuer = "shim")
    BY <1>1 DEF AdoptRun, MigrateRun
  <2>1. Uncordon
    BY DEF MigrateNext, Drain, NoteSerial, Remote, StopAgent, WipeIdentity, Repoint,
           StartAgent, Abort, WorkerStep
  <2> QED
    BY <1>1, <2>1 DEF Uncordon, Rebootstrapped, IInv, MigrateTypeOK, NewIdentity
<1> QED
  BY <1>1, Invariant, PTL DEF Spec, SafeSpec, BackWithNewIdentity
=============================================================================
