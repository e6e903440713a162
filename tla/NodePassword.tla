--------------------------- MODULE NodePassword ---------------------------
(***************************************************************************)
(* SecretStore.CheckAndSet (internal/nodepassword/store.go), run           *)
(* concurrently by the certificate handlers of every replica of the       *)
(* DaemonSet against one Kubernetes API.  Each API round trip, each wait  *)
(* for a scrypt slot and each scrypt run is a step of its own: the Secret *)
(* and the Node object are read at different moments and may change       *)
(* before the answer is given.                                            *)
(***************************************************************************)
EXTENDS ScryptHash, FiniteSetsExt

CONSTANTS
  Nodes,          \* node names
  Calls,          \* request goroutines that can be inside CheckAndSet
  Replicas,       \* shim pods
  Slots,          \* capacity of a replica's scryptSlots channel
  ForeignRecords, \* Secrets an rke2 server or an operator writes
  Absent,         \* no Secret of that name
  NoHash          \* a Secret without a "hash" key

ASSUME SlotsAssumption == Slots \in Nat \ {0}
ASSUME CallsAssumption == IsFiniteSet(Calls)
ASSUME ForeignAssumption == ForeignRecords \subseteq Hash \cup {NoHash}
ASSUME SentinelAssumption == Absent \notin Hash /\ NoHash \notin Hash /\ Absent # NoHash

VARIABLES
  secret,    \* [Nodes -> Hash or NoHash or Absent]: the Secrets in kube-system
  nodeObjs,  \* names that have a Node object
  pc,        \* where each call is
  arg,       \* its node and password
  rep,       \* the replica it runs in
  hash,      \* the hash it has read and is verifying, NoHash before
  expired,   \* its context is done: 10 s are over or the client went away
  result,    \* what CheckAndSet returned
  slots,     \* occupied scrypt slots of each replica
  inForce,   \* history: records in force at some moment of the call
  nameFree,  \* history: its name had no Node object at some moment of the call
  removed    \* history: the node's Secret was deleted since the call began

world == <<secret, nodeObjs>>
ghosts == <<inForce, nameFree, removed>>
vars == <<secret, nodeObjs, pc, arg, rep, hash, expired, result, slots,
          inForce, nameFree, removed>>

Waiting == {"verifyWait", "hashWait"}     \* in runScrypt's select
Running == {"verifying", "hashing"}       \* holding a slot
ApiSteps == {"getSecret", "getNode", "create"}
Active == Waiting \cup Running \cup ApiSteps
Results == {"none", "ok", "mismatch", "exists", "error"}

node(c) == arg[c].node
ActiveCalls == {c \in Calls : pc[c] \in Active}

Goto(c, label) == pc' = [pc EXCEPT ![c] = label]

(* The call's locals and its context end with it. *)
Return(c, res) ==
  /\ Goto(c, "done")
  /\ result' = [result EXCEPT ![c] = res]
  /\ hash' = [hash EXCEPT ![c] = NoHash]
  /\ expired' = [expired EXCEPT ![c] = FALSE]

(* The record of node n becomes v; every call of n under way sees it. *)
SetSecret(n, v) ==
  /\ secret' = [secret EXCEPT ![n] = v]
  /\ inForce' = [c \in Calls |-> IF pc[c] \in Active /\ node(c) = n
                                 THEN inForce[c] \cup {v} ELSE inForce[c]]

---------------------------------------------------------------------------
(* CheckAndSet is entered.  A Calls member is reused once it has returned. *)
Begin(c, n, pw, r) ==
  /\ pc[c] \in {"idle", "done"}
  /\ Goto(c, "getSecret")
  /\ arg' = [arg EXCEPT ![c] = [node |-> n, pw |-> pw]]
  /\ rep' = [rep EXCEPT ![c] = r]
  /\ result' = [result EXCEPT ![c] = "none"]
  /\ inForce' = [inForce EXCEPT ![c] = {secret[n]}]
  /\ nameFree' = [nameFree EXCEPT ![c] = n \notin nodeObjs]
  /\ removed' = [removed EXCEPT ![c] = FALSE]
  /\ UNCHANGED <<world, hash, expired, slots>>

(* A bug in which a Secret that was not found is verified all the same. *)
GetSecretUnchecked(c) ==
  /\ pc[c] = "getSecret"
  /\ ~expired[c]
  /\ hash' = [hash EXCEPT ![c] = secret[node(c)]]
  /\ Goto(c, "verifyWait")
  /\ UNCHANGED <<world, arg, rep, expired, result, slots, ghosts>>

(* Get the Secret.  A hash that verifyHash refuses to evaluate, and a      *)
(* Secret without one, end the call before any scrypt.                     *)
GetSecret(c) ==
  /\ pc[c] = "getSecret"
  /\ ~expired[c]
  /\ \/ /\ secret[node(c)] = Absent
        /\ Goto(c, "getNode")
        /\ UNCHANGED <<hash, expired, result>>
     \/ /\ secret[node(c)] = NoHash
        /\ Return(c, "error")
     \/ /\ secret[node(c)] \in Hash
        /\ ~Evaluable(secret[node(c)])
        /\ Return(c, "error")
     \/ /\ secret[node(c)] \in Hash
        /\ Evaluable(secret[node(c)])
        /\ hash' = [hash EXCEPT ![c] = secret[node(c)]]
        /\ Goto(c, "verifyWait")
        /\ UNCHANGED <<expired, result>>
  /\ UNCHANGED <<world, arg, rep, slots, ghosts>>

(* A bug in which the Node lookup is left out. *)
GetNodeSkipped(c) ==
  /\ pc[c] = "getNode"
  /\ Goto(c, "hashWait")
  /\ UNCHANGED <<world, arg, rep, hash, expired, result, slots, ghosts>>

(* No Secret: only a name that has no Node object may be enrolled. *)
GetNode(c) ==
  /\ pc[c] = "getNode"
  /\ ~expired[c]
  /\ \/ /\ node(c) \in nodeObjs
        /\ Return(c, "exists")
     \/ /\ node(c) \notin nodeObjs
        /\ Goto(c, "hashWait")
        /\ UNCHANGED <<hash, expired, result>>
  /\ UNCHANGED <<world, arg, rep, slots, ghosts>>

(* runScrypt gets a slot.  Go's select picks either ready case, so a slot  *)
(* may still be taken when the context is done.                            *)
AcquireSlot(c) ==
  /\ pc[c] \in Waiting
  /\ slots[rep[c]] < Slots
  /\ slots' = [slots EXCEPT ![rep[c]] = @ + 1]
  /\ Goto(c, IF pc[c] = "verifyWait" THEN "verifying" ELSE "hashing")
  /\ UNCHANGED <<world, arg, rep, hash, expired, result, ghosts>>

(* runScrypt's other case: ctx.Done() before a slot was free. *)
SlotTimeout(c) ==
  /\ pc[c] \in Waiting
  /\ expired[c]
  /\ Return(c, "error")
  /\ UNCHANGED <<world, arg, rep, slots, ghosts>>

(* A bug in which the slot is released on a match only. *)
FinishVerifyLeaking(c) ==
  /\ pc[c] = "verifying"
  /\ slots' = [slots EXCEPT ![rep[c]] = IF Matches(hash[c], arg[c].pw) THEN @ - 1 ELSE @]
  /\ Return(c, IF Matches(hash[c], arg[c].pw) THEN "ok" ELSE "mismatch")
  /\ UNCHANGED <<world, arg, rep, ghosts>>

(* scrypt ends, the deferred release runs, the keys are compared. *)
FinishVerify(c) ==
  /\ pc[c] = "verifying"
  /\ slots' = [slots EXCEPT ![rep[c]] = @ - 1]
  /\ Return(c, IF Matches(hash[c], arg[c].pw) THEN "ok" ELSE "mismatch")
  /\ UNCHANGED <<world, arg, rep, ghosts>>

FinishHash(c) ==
  /\ pc[c] = "hashing"
  /\ slots' = [slots EXCEPT ![rep[c]] = @ - 1]
  /\ Goto(c, "create")
  /\ UNCHANGED <<world, arg, rep, hash, expired, result, ghosts>>

(* The Create takes effect; its answer arrives, or is lost on the way. *)
CreateSecret(c) ==
  /\ pc[c] = "create"
  /\ ~expired[c]
  /\ secret[node(c)] = Absent
  /\ SetSecret(node(c), createHash(arg[c].pw))
  /\ \/ Return(c, "ok")
     \/ Return(c, "error")
  /\ UNCHANGED <<nodeObjs, arg, rep, slots, nameFree, removed>>

(* A bug in which a lost race is answered with what was sent. *)
AlreadyExistsOverwrites(c) ==
  /\ pc[c] = "create"
  /\ ~expired[c]
  /\ secret[node(c)] # Absent
  /\ SetSecret(node(c), createHash(arg[c].pw))
  /\ Return(c, "ok")
  /\ UNCHANGED <<nodeObjs, arg, rep, slots, nameFree, removed>>

(* A bug in which the loser of the race is refused without a re-check. *)
AlreadyExistsRefuses(c) ==
  /\ pc[c] = "create"
  /\ ~expired[c]
  /\ secret[node(c)] # Absent
  /\ Return(c, "mismatch")
  /\ UNCHANGED <<world, arg, rep, slots, ghosts>>

(* A bug in which the re-check runs under a deadline of its own. *)
AlreadyExistsRenews(c) ==
  /\ pc[c] = "create"
  /\ secret[node(c)] # Absent
  /\ Goto(c, "getSecret")
  /\ expired' = [expired EXCEPT ![c] = FALSE]
  /\ UNCHANGED <<world, arg, rep, hash, result, slots, ghosts>>

(* AlreadyExists: CheckAndSet calls itself; the context keeps its deadline *)
(* because a derived timeout cannot outlive its parent.                    *)
AlreadyExists(c) ==
  /\ pc[c] = "create"
  /\ ~expired[c]
  /\ secret[node(c)] # Absent
  /\ Goto(c, "getSecret")
  /\ UNCHANGED <<world, arg, rep, hash, expired, result, slots, ghosts>>

(* Any other API error, the context's own included. *)
ApiError(c) ==
  /\ pc[c] \in ApiSteps
  /\ Return(c, "error")
  /\ UNCHANGED <<world, arg, rep, slots, ghosts>>

(* The 10 s timeout fires or the agent closes the connection. *)
Expire(c) ==
  /\ pc[c] \in Active
  /\ ~expired[c]
  /\ expired' = [expired EXCEPT ![c] = TRUE]
  /\ UNCHANGED <<world, pc, arg, rep, hash, result, slots, ghosts>>

(* A replica dies with its calls; its slots are process memory. *)
Crash(r) ==
  /\ \E c \in ActiveCalls : rep[c] = r
  /\ pc' = [c \in Calls |-> IF pc[c] \in Active /\ rep[c] = r THEN "idle" ELSE pc[c]]
  /\ hash' = [c \in Calls |-> IF rep[c] = r THEN NoHash ELSE hash[c]]
  /\ expired' = [c \in Calls |-> IF rep[c] = r THEN FALSE ELSE expired[c]]
  /\ slots' = [slots EXCEPT ![r] = 0]
  /\ UNCHANGED <<world, arg, rep, result, ghosts>>

---------------------------------------------------------------------------
(* The rest of the cluster.  An rke2 server or an operator writes a Secret *)
(* that is not there; an operator deletes one; Node objects come and go.   *)
WriteSecret(n, v) ==
  /\ secret[n] = Absent
  /\ SetSecret(n, v)
  /\ UNCHANGED <<nodeObjs, pc, arg, rep, hash, expired, result, slots,
                 nameFree, removed>>

DeleteSecret(n) ==
  /\ secret[n] # Absent
  /\ SetSecret(n, Absent)
  /\ removed' = [c \in Calls |-> removed[c] \/ node(c) = n]
  /\ UNCHANGED <<nodeObjs, pc, arg, rep, hash, expired, result, slots, nameFree>>

RegisterNode(n) ==
  /\ n \notin nodeObjs
  /\ nodeObjs' = nodeObjs \cup {n}
  /\ UNCHANGED <<secret, pc, arg, rep, hash, expired, result, slots, ghosts>>

DeleteNode(n) ==
  /\ n \in nodeObjs
  /\ nodeObjs' = nodeObjs \ {n}
  /\ nameFree' = [c \in Calls |-> nameFree[c] \/ (pc[c] \in Active /\ node(c) = n)]
  /\ UNCHANGED <<secret, pc, arg, rep, hash, expired, result, slots,
                 inForce, removed>>

---------------------------------------------------------------------------
Init ==
  /\ secret = [n \in Nodes |-> Absent]
  /\ nodeObjs \in SUBSET Nodes
  /\ pc = [c \in Calls |-> "idle"]
  /\ \E n \in Nodes, pw \in Passwords, r \in Replicas :
       /\ arg = [c \in Calls |-> [node |-> n, pw |-> pw]]
       /\ rep = [c \in Calls |-> r]
  /\ hash = [c \in Calls |-> NoHash]
  /\ expired = [c \in Calls |-> FALSE]
  /\ result = [c \in Calls |-> "none"]
  /\ slots = [r \in Replicas |-> 0]
  /\ inForce = [c \in Calls |-> {}]
  /\ nameFree = [c \in Calls |-> FALSE]
  /\ removed = [c \in Calls |-> FALSE]

Step(c) ==
  \/ GetSecret(c) \/ GetNode(c) \/ AcquireSlot(c) \/ SlotTimeout(c)
  \/ FinishVerify(c) \/ FinishHash(c) \/ CreateSecret(c) \/ AlreadyExists(c)
  \/ ApiError(c)

Environment ==
  \/ \E n \in Nodes, v \in ForeignRecords : WriteSecret(n, v)
  \/ \E n \in Nodes : DeleteSecret(n) \/ RegisterNode(n) \/ DeleteNode(n)
  \/ \E r \in Replicas : Crash(r)

Next ==
  \/ \E c \in Calls, n \in Nodes, pw \in Passwords, r \in Replicas : Begin(c, n, pw, r)
  \/ \E c \in Calls : Step(c) \/ Expire(c)
  \/ Environment

Spec == Init /\ [][Next]_vars

(* A goroutine that can run does run, and time passes: every context is    *)
(* done in the end.  Nothing is assumed of operators, nodes or agents.     *)
FairSpec == Spec /\ \A c \in Calls : WF_vars(Step(c)) /\ WF_vars(Expire(c))

---------------------------------------------------------------------------
Record == Hash \cup {Absent, NoHash}

(* Type correctness of the calls, the Secrets, the slots and the history. *)
TypeOK ==
  /\ secret \in [Nodes -> Record]
  /\ nodeObjs \in SUBSET Nodes
  /\ pc \in [Calls -> Active \cup {"idle", "done"}]
  /\ arg \in [Calls -> [node : Nodes, pw : Passwords]]
  /\ rep \in [Calls -> Replicas]
  /\ hash \in [Calls -> Hash \cup {NoHash}]
  /\ expired \in [Calls -> BOOLEAN]
  /\ result \in [Calls -> Results]
  /\ slots \in [Replicas -> Int]
  /\ inForce \in [Calls -> SUBSET Record]
  /\ nameFree \in [Calls -> BOOLEAN]
  /\ removed \in [Calls -> BOOLEAN]

Accepted(c) == pc[c] = "done" /\ result[c] = "ok"

(* Anti-impersonation: once CheckAndSet has accepted a password for a      *)
(* node, that password is the one on record until somebody deletes the     *)
(* Secret, whatever other replicas enrol, verify or lose in the meantime.  *)
AcceptedIsOnRecord ==
  \A c \in Calls : Accepted(c) /\ ~removed[c] =>
    /\ secret[node(c)] \in Hash
    /\ Matches(secret[node(c)], arg[c].pw)

(* An agent is refused for cause: "mismatch" (409) means that some record  *)
(* in force during the call holds another password, "exists" (409) that    *)
(* there was no record.  So the loser of an enrolment race, or the retry   *)
(* of a call whose Create answer was lost, is not turned away when the     *)
(* password on record is its own.                                          *)
RefusalJustified ==
  \A c \in Calls : pc[c] = "done" =>
    /\ result[c] = "mismatch" =>
         \E h \in inForce[c] \cap Hash : ~Matches(h, arg[c].pw)
    /\ result[c] = "exists" => Absent \in inForce[c]

(* A call that enrols a password does so for a name that had no Node       *)
(* object at some moment of that call, a re-check after AlreadyExists      *)
(* included: the takeover of a Talos control plane whose Node was there    *)
(* all along is impossible.  A Node that appears after the lookup does not *)
(* stop the Create.                                                        *)
EnrolmentNeedsFreeName ==
  [][\A c \in Calls : CreateSecret(c) => nameFree[c]]_vars

(* The scrypt semaphore counts exactly the calls that hold a slot, over    *)
(* timeouts, mismatches and crashes, and never exceeds its capacity.       *)
SlotsExact ==
  \A r \in Replicas :
    /\ slots[r] = Cardinality({c \in Calls : pc[c] \in Running /\ rep[c] = r})
    /\ slots[r] <= Slots

(* Memory of the scrypt run a call is in. *)
RunMiB(c) == CostMiB(IF pc[c] = "verifying" THEN hash[c] ELSE createHash(arg[c].pw))

(* What one verification may need.  It is twice the "~64 MiB" that the     *)
(* comment on maxParamN and maxParamR names, and cannot be less: a run at  *)
(* both bounds takes all of it.                                            *)
LargestRunMiB == 128

(* Whatever parameters the Secrets record and however many requests arrive *)
(* at once, the scrypt runs of one replica together need at most 128 MiB   *)
(* for each slot of scryptSlots: verifyHash's bounds and runScrypt's       *)
(* semaphore are both needed for it.                                       *)
ScryptMemoryBounded ==
  \A r \in Replicas :
    MapThenSumSet(RunMiB, {c \in Calls : pc[c] \in Running /\ rep[c] = r})
      <= Slots * LargestRunMiB

(* Every CheckAndSet returns (or dies with its replica), however often     *)
(* the Secret is created and deleted under it and however long the queue   *)
(* for scrypt slots is.                                                    *)
EveryCallReturns ==
  \A c \in Calls : pc[c] \in Active ~> pc[c] \notin Active

---------------------------------------------------------------------------
(* The inductive invariant behind these properties: what each call knows   *)
(* at each label, related to the Secrets and Node objects as they are now. *)
SeesTheWorld(c) ==
  pc[c] \in Active =>
    /\ secret[node(c)] \in inForce[c]
    /\ node(c) \notin nodeObjs => nameFree[c]

VerifiesARecord(c) ==
  pc[c] \in {"verifyWait", "verifying"} =>
    /\ hash[c] \in inForce[c] \cap Hash
    /\ Evaluable(hash[c])
    /\ removed[c] \/ secret[node(c)] = hash[c]

EnrolsAFreeName(c) ==
  /\ pc[c] \in {"getNode", "hashWait", "hashing", "create"} => Absent \in inForce[c]
  /\ pc[c] \in {"hashWait", "hashing", "create"} => nameFree[c]

(* The ground of each answer, as TofuStore asks for it. *)
AnswersForCause(c) ==
  pc[c] = "done" =>
    /\ result[c] = "ok" /\ ~removed[c] =>
         secret[node(c)] \in Hash /\ Matches(secret[node(c)], arg[c].pw)
    /\ result[c] = "mismatch" =>
         \E h \in inForce[c] \cap Hash : ~Matches(h, arg[c].pw)
    /\ result[c] = "exists" => Absent \in inForce[c]

CallOK(c) ==
  SeesTheWorld(c) /\ VerifiesARecord(c) /\ EnrolsAFreeName(c) /\ AnswersForCause(c)

CallInv == \A c \in Calls : CallOK(c)

(* CheckAndSet implements trust on first use as one atomic decision. *)
Answer(c) == IF pc[c] \in Active THEN "pending"
             ELSE IF pc[c] = "done" THEN result[c] ELSE "idle"

Tofu == INSTANCE TofuStore WITH answer <- [c \in Calls |-> Answer(c)]

(* Every step of the concurrent store is a step of TofuStore or none.      *)
ImplementsTofu == Tofu!TofuSpec

===========================================================================
