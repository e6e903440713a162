--------------------------- MODULE MigrateWorker ---------------------------
(***************************************************************************)
(* adopt.sh migrate-worker: an rke2 agent is drained, its identity wiped,  *)
(* its configuration pointed at the shim, and it is put back to work once  *)
(* it has bootstrapped again.  The script can be interrupted anywhere, in  *)
(* the middle of what it runs on the worker too, and is then run again.    *)
(* The agent and the Node object's condition are external.                 *)
(***************************************************************************)
VARIABLES
  step,        \* where the script is
  before,      \* the serial it noted: "none" or "old"
  agent,       \* "running" or "stopped"
  cert,        \* certificate on the worker: "none", "old" (from before the
               \*   script last noted the serial) or "fresh"
  issuer,      \* who issued it: "rke2" or "shim"
  server,      \* where the agent's configuration points
  serverLine,  \* whether config.yaml has the line that sed replaces
  ready,       \* the Node's condition, which lags behind the kubelet
  cordoned

worker == <<agent, cert, issuer, server, serverLine, ready>>
mvars == <<step, before, worker, cordoned>>

MigrateInit ==
  /\ step = "idle" /\ before = "none"
  /\ agent = "running" /\ cert = "old" /\ issuer = "rke2" /\ server = "rke2"
  /\ serverLine \in BOOLEAN
  /\ ready = TRUE /\ cordoned = FALSE

(* drain cordons the node first; it may then refuse to evict (Abort). *)
Drain ==
  /\ step = "idle"
  /\ cordoned' = TRUE
  /\ step' = "note"
  /\ UNCHANGED <<before, worker>>

(* A bug in which a worker without a certificate ends the script. *)
NoteSerialRequired ==
  /\ step = "note"
  /\ cert # "none"
  /\ cert' = "old" /\ before' = "old"
  /\ step' = "stop"
  /\ UNCHANGED <<agent, issuer, server, serverLine, ready, cordoned>>

(* The serial, or "none" when there is no certificate or ssh fails. *)
NoteSerial ==
  /\ step = "note"
  /\ cert' = IF cert = "none" THEN "none" ELSE "old"
  /\ before' \in {cert', "none"}
  /\ step' = "stop"
  /\ UNCHANGED <<agent, issuer, server, serverLine, ready, cordoned>>

(* The script on the worker, under set -e. *)
StopAgent ==
  /\ step = "stop"
  /\ agent' = "stopped"
  /\ step' = "wipe"
  /\ UNCHANGED <<before, cert, issuer, server, serverLine, ready, cordoned>>

WipeIdentity ==
  /\ step = "wipe"
  /\ cert' = "none"
  /\ step' = "repoint"
  /\ UNCHANGED <<before, agent, issuer, server, serverLine, ready, cordoned>>

Repoint ==
  /\ step = "repoint"
  /\ server' = IF serverLine THEN "shim" ELSE server
  /\ step' = "start"
  /\ UNCHANGED <<before, agent, cert, issuer, serverLine, ready, cordoned>>

StartAgent ==
  /\ step = "start"
  /\ agent' = "running"
  /\ step' = "poll"
  /\ UNCHANGED <<before, cert, issuer, server, serverLine, ready, cordoned>>

(* A bug in which the Node's condition is all that is asked. *)
RebootstrappedReady == ready

Rebootstrapped == cert # "none" /\ cert # before /\ ready

Uncordon ==
  /\ step = "poll"
  /\ Rebootstrapped
  /\ cordoned' = FALSE
  /\ step' = "idle"
  /\ UNCHANGED <<before, worker>>

(* A command fails, the polling ends, or the script is interrupted. *)
Abort ==
  /\ step # "idle"
  /\ step' = "idle"
  /\ UNCHANGED <<before, worker, cordoned>>

---------------------------------------------------------------------------
(* The worker, external *)

Bootstrap ==
  /\ agent = "running" /\ cert = "none"
  /\ cert' = "fresh" /\ issuer' = server
  /\ UNCHANGED <<agent, server, serverLine, ready>>

(* The condition follows the kubelet, which runs with its certificates. *)
KubeletRuns == agent = "running" /\ cert # "none"

Condition ==
  /\ ready # KubeletRuns
  /\ ready' = KubeletRuns
  /\ UNCHANGED <<agent, cert, issuer, server, serverLine>>

WorkerStep == (Bootstrap \/ Condition) /\ UNCHANGED <<step, before, cordoned>>

Remote == StopAgent \/ WipeIdentity \/ Repoint \/ StartAgent

MigrateNext == Drain \/ NoteSerial \/ Remote \/ Uncordon \/ Abort \/ WorkerStep

(* The agent works, the script goes on, and the operator runs it again. *)
MigrateFairness ==
  /\ WF_mvars(WorkerStep /\ Bootstrap) /\ WF_mvars(WorkerStep /\ Condition)
  /\ WF_mvars(NoteSerial \/ Remote \/ Uncordon)
  /\ WF_mvars(Drain)

---------------------------------------------------------------------------
(* Type correctness; the configuration changes only where sed finds its    *)
(* line, and never under a running agent.                                  *)
MigrateTypeOK ==
  /\ step \in {"idle", "note", "stop", "wipe", "repoint", "start", "poll"}
  /\ before \in {"none", "old"} /\ cert \in {"none", "old", "fresh"}
  /\ issuer \in {"rke2", "shim"} /\ server \in {"rke2", "shim"}
  /\ server = "shim" => serverLine
  /\ step \in {"repoint", "start"} => cert = "none" /\ agent = "stopped"

(* A worker only goes back to work with an identity it got in this run of  *)
(* the script, whatever earlier runs left and whatever the Node's stale    *)
(* condition says; the shim issued it if the configuration could be        *)
(* pointed at it.                                                          *)
BackWithNewIdentity ==
  [][cordoned /\ ~cordoned' => cert = "fresh" /\ (serverLine => issuer = "shim")]_mvars

(* Interruptions, however many and wherever they leave the worker (agent   *)
(* stopped, no certificate, pointed at either server), can be recovered    *)
(* from by running the script again: once it is left alone, the worker is  *)
(* back in the end.                                                        *)
MigrationResumes == <>[][~Abort]_mvars => (cordoned ~> ~cordoned)
===========================================================================
