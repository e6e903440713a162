----------------------------- MODULE TofuStore -----------------------------
(***************************************************************************)
(* What the node-password store promises its callers, without replicas,   *)
(* API round trips, scrypt slots or timeouts: trust on first use as one   *)
(* atomic decision per call.  NodePassword is shown to implement it.      *)
(*                                                                         *)
(* A call may be answered from any record that was in force at some       *)
(* moment of the call; nothing else may be the ground for an answer.      *)
(***************************************************************************)
EXTENDS ScryptHash

CONSTANTS Nodes, Calls, Absent, NoHash, ForeignRecords

VARIABLES
  secret,    \* what is on record for each node name
  nodeObjs,  \* the names that have a Node object
  arg,       \* the node and the password of each call
  answer,    \* idle, pending, or what the call was told
  inForce,   \* the records in force at some moment of the call
  nameFree   \* at some moment of the call its name had no Node object

tvars == <<secret, nodeObjs, arg, answer, inForce, nameFree>>

(* Every pending call of node n has now seen the record v in force. *)
Witness(n, v, pending) ==
  [c \in Calls |-> IF c \in pending /\ arg[c].node = n
                   THEN inForce[c] \cup {v} ELSE inForce[c]]

Pending == {c \in Calls : answer[c] = "pending"}

TofuInit ==
  /\ secret = [n \in Nodes |-> Absent]
  /\ nodeObjs \in SUBSET Nodes
  /\ arg \in [Calls -> [node : Nodes, pw : Passwords]]
  /\ answer = [c \in Calls |-> "idle"]
  /\ inForce = [c \in Calls |-> {}]
  /\ nameFree = [c \in Calls |-> FALSE]

Ask(c, n, pw) ==
  /\ c \notin Pending
  /\ arg' = [arg EXCEPT ![c] = [node |-> n, pw |-> pw]]
  /\ answer' = [answer EXCEPT ![c] = "pending"]
  /\ inForce' = [inForce EXCEPT ![c] = {secret[n]}]
  /\ nameFree' = [nameFree EXCEPT ![c] = n \notin nodeObjs]
  /\ UNCHANGED <<secret, nodeObjs>>

(* First use: the password goes on record, and nothing that is on record   *)
(* is ever replaced.  The answer may still be lost.                        *)
Enrol(c, said) ==
  /\ c \in Pending
  /\ secret[arg[c].node] = Absent
  /\ nameFree[c]
  /\ said \in {"ok", "error"}
  /\ secret' = [secret EXCEPT ![arg[c].node] = createHash(arg[c].pw)]
  /\ answer' = [answer EXCEPT ![c] = said]
  /\ inForce' = Witness(arg[c].node, createHash(arg[c].pw), Pending)
  /\ UNCHANGED <<nodeObjs, arg, nameFree>>

(* The ground each verdict needs. *)
Grounds(c, said) ==
  CASE said = "ok"       -> \E h \in inForce[c] \ {Absent, NoHash} :
                               Evaluable(h) /\ Matches(h, arg[c].pw)
    [] said = "mismatch" -> \E h \in inForce[c] \ {Absent, NoHash} :
                               Evaluable(h) /\ ~Matches(h, arg[c].pw)
    [] said = "exists"   -> Absent \in inForce[c]
    [] said = "error"    -> TRUE

Tell(c, said) ==
  /\ c \in Pending
  /\ Grounds(c, said)
  /\ answer' = [answer EXCEPT ![c] = said]
  /\ UNCHANGED <<secret, nodeObjs, arg, inForce, nameFree>>

(* The replica serving these calls dies: they are never answered. *)
Lose(lost) ==
  /\ lost \subseteq Pending
  /\ answer' = [c \in Calls |-> IF c \in lost THEN "idle" ELSE answer[c]]
  /\ UNCHANGED <<secret, nodeObjs, arg, inForce, nameFree>>

(* Somebody else writes or deletes a record that the store only reads. *)
Provision(n, v) ==
  /\ secret[n] = Absent
  /\ secret' = [secret EXCEPT ![n] = v]
  /\ inForce' = Witness(n, v, Pending)
  /\ UNCHANGED <<nodeObjs, arg, answer, nameFree>>

Remove(n) ==
  /\ secret' = [secret EXCEPT ![n] = Absent]
  /\ inForce' = Witness(n, Absent, Pending)
  /\ UNCHANGED <<nodeObjs, arg, answer, nameFree>>

Register(n) ==
  /\ nodeObjs' = nodeObjs \cup {n}
  /\ UNCHANGED <<secret, arg, answer, inForce, nameFree>>

Unregister(n) ==
  /\ nodeObjs' = nodeObjs \ {n}
  /\ nameFree' = [c \in Calls |-> nameFree[c] \/ (c \in Pending /\ arg[c].node = n)]
  /\ UNCHANGED <<secret, arg, answer, inForce>>

TofuNext ==
  \/ \E c \in Calls, n \in Nodes, pw \in Passwords : Ask(c, n, pw)
  \/ \E c \in Calls, said \in {"ok", "error"} : Enrol(c, said)
  \/ \E c \in Calls, said \in {"ok", "mismatch", "exists", "error"} : Tell(c, said)
  \/ \E lost \in SUBSET Calls : Lose(lost)
  \/ \E n \in Nodes, v \in ForeignRecords : Provision(n, v)
  \/ \E n \in Nodes : Remove(n) \/ Register(n) \/ Unregister(n)

TofuSpec == TofuInit /\ [][TofuNext]_tvars
===========================================================================
