------------------------------ MODULE MCAdopt ------------------------------
(* The phases of adopt.sh: joins and decommissions of control planes, or   *)
(* the migration of a worker.  Neither touches what the other works on, so *)
(* a behaviour exercises one of the two.                                   *)
EXTENDS AdoptControlPlane, MigrateWorker

VARIABLE on   \* "control planes" or "worker"

Init == AdoptInit /\ MigrateInit /\ on \in {"control planes", "worker"}

AdoptRun == on = "control planes" /\ AdoptNext /\ UNCHANGED <<mvars, on>>

MigrateRun == on = "worker" /\ MigrateNext /\ UNCHANGED <<cpvars, on>>

SafeSpec == Init /\ [][AdoptRun \/ MigrateRun]_<<cpvars, mvars, on>>

Spec ==
  /\ SafeSpec
  /\ \/ on = "control planes" /\ AdoptFairness
     \/ on = "worker" /\ MigrateFairness

---------------------------------------------------------------------------
(* Type correctness of the cluster, the worker and both scripts. *)
AdoptionTypeOK == AdoptTypeOK /\ MigrateTypeOK

(* InterruptedJoinResumes, of the behaviours that join control planes: the *)
(* learner an interrupted adopt.sh join leaves behind does not keep a node *)
(* out for good.                                                           *)
JoinsResume == on = "control planes" => InterruptedJoinResumes

===========================================================================
