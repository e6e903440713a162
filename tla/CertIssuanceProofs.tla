------------------------- MODULE CertIssuanceProofs -------------------------
(***************************************************************************)
(* The certificate endpoint on top of the password store's promise, for    *)
(* every set of nodes, passwords, requests and concurrent handlers: a node *)
(* identity needs the node's password, and only sound requests enrol.      *)
(***************************************************************************)
EXTENDS CertIssuance, TLAPS

Records == Hash \cup {Absent, NoHash} \cup ForeignRecords

(* Type correctness of the handlers and of what the store keeps. *)
Typed ==
  /\ stage \in [Calls -> {"idle", "store", "sign", "record", "done"}]
  /\ req \in [Calls -> Inputs]
  /\ cert \in [Calls -> {NoCert} \cup {Certificate(in) : in \in Inputs}]
  /\ arg \in [Calls -> [node : Nodes, pw : Passwords]]
  /\ answer \in [Calls -> {"idle", "pending", "ok", "mismatch", "exists", "error"}]
  /\ secret \in [Nodes -> Records]
  /\ inForce \in [Calls -> SUBSET Records]
  /\ enrolled \subseteq Calls

(* What OnlyGoodRequestsEnrol asks of a request. *)
Sound(in) ==
  /\ in.token /\ in.method = "POST" /\ in.csr = "good"
  /\ "refused" \notin in.ips \/ in.kind # "serving-kubelet"

(* The call's password was on record at some moment of the call. *)
Backed(c) ==
  \E h \in inForce[c] \ {Absent, NoHash} : Evaluable(h) /\ Matches(h, arg[c].pw)

(* A node-scoped handler asks the store about the node it will certify,    *)
(* and goes on only with a backed call.                                    *)
HandlerOK(c) ==
  /\ c \in Pending => stage[c] = "store"
  /\ stage[c] = "store" => Sound(req[c]) /\ arg[c].node = req[c].node
  /\ stage[c] = "store" /\ answer[c] = "ok" => Backed(c)
  /\ stage[c] = "sign" /\ req[c].kind \in NodeScoped =>
       arg[c].node = req[c].node /\ Backed(c)
  /\ cert[c].node \in Nodes => arg[c].node = cert[c].node /\ Backed(c)
  /\ c \in enrolled => Sound(req[c])

IInv == Typed /\ \A c \in Calls : HandlerOK(c)

---------------------------------------------------------------------------
(* handleCert's checks: what gets past them is sound, and a node-scoped    *)
(* request names a node and carries a password.                            *)
LEMMA PassesChecks ==
  ASSUME NEW in \in Inputs, Refusal(in) = 0
  PROVE  /\ in.token /\ in.method = "POST" /\ in.csr = "good"
         /\ in.kind \in NodeScoped => in.node \in Nodes /\ in.pw \in Passwords /\ Sound(in)
<1>1. /\ auth(in) /\ in.method = "POST" /\ readCSR(in) /\ CheckCSR(in)
      /\ ~BadNodeHeaders(in)
  BY DEF Refusal
<1> QED
  BY <1>1, InputsAssumption DEF auth, readCSR, CheckCSR, BadNodeHeaders, SANsRefused,
     validateNodeName, ValidatePassword, Sound

(* createHash writes a record that verifies. *)
LEMMA CreatedHashBacks ==
  ASSUME NEW pw \in Passwords
  PROVE  /\ createHash(pw) \in Hash /\ createHash(pw) \notin {Absent, NoHash}
         /\ Evaluable(createHash(pw)) /\ Matches(createHash(pw), pw)
<1>1. createHash(pw) \in Hash
  BY DEF createHash, Hash, Forms, paramN, paramR, paramP, paramKeyLen
<1> QED
  BY <1>1, RecordsAssumption
  DEF createHash, Evaluable, InBounds, Matches, paramN, paramR, paramP, paramKeyLen,
      maxParamN, maxParamR, maxParamP, minKeyLen, maxKeyLen

(* What a step that has nothing to do with call c may change about it. *)
Untouched(c) ==
  /\ stage'[c] = stage[c] /\ req'[c] = req[c] /\ cert'[c] = cert[c]
  /\ arg'[c] = arg[c] /\ answer'[c] = answer[c]
  /\ inForce[c] \subseteq inForce'[c]
  /\ c \in enrolled' => c \in enrolled

LEMMA Frame ==
  ASSUME NEW c \in Calls, HandlerOK(c), Untouched(c)
  PROVE  HandlerOK(c)'
<1>1. Backed(c) => Backed(c)'
  BY DEF Backed, Untouched
<1>2. c \in Pending' => c \in Pending
  BY DEF Pending, Untouched
<1> QED
  BY <1>1, <1>2 DEF HandlerOK, Untouched

(* Witness only adds to what calls have seen. *)
LEMMA WitnessGrows ==
  ASSUME Typed, NEW n, NEW v \in Records
  PROVE  /\ Witness(n, v, Pending) \in [Calls -> SUBSET Records]
         /\ \A c \in Calls : inForce[c] \subseteq Witness(n, v, Pending)[c]
         /\ \A c \in Pending : arg[c].node = n => v \in Witness(n, v, Pending)[c]
BY DEF Typed, Witness, Pending

---------------------------------------------------------------------------
LEMMA InitOK == IssuanceInit => IInv
<1> SUFFICES ASSUME IssuanceInit PROVE IInv
  OBVIOUS
<1>1. Typed
  BY DEF IssuanceInit, TofuInit, Typed, Records
<1>2. ASSUME NEW c \in Calls PROVE HandlerOK(c)
  <2>1. stage[c] = "idle" /\ c \notin Pending /\ c \notin enrolled /\ cert[c].node = ""
    BY DEF IssuanceInit, TofuInit, Pending, NoCert
  <2> QED
    BY <2>1, NamesAssumption DEF HandlerOK
<1> QED
  BY <1>1, <1>2 DEF IInv

(* A request arrives and is refused, goes to the store or to the signer. *)
LEMMA ReceiveStep ==
  ASSUME IInv, NEW c \in Calls, NEW in \in Inputs, Receive(c, in)
  PROVE  IInv'
<1>1. \A d \in Calls \ {c} : Untouched(d)
  BY DEF IInv, Typed, Untouched, Receive, Ask, Reply, tvars
<1>2. /\ req'[c] = in /\ cert'[c].node = "" /\ c \notin enrolled' /\ c \notin Pending
      /\ cert' \in [Calls -> {NoCert} \cup {Certificate(i) : i \in Inputs}]
      /\ req' \in [Calls -> Inputs] /\ enrolled' \subseteq Calls
  BY DEF IInv, Typed, HandlerOK, Receive, NoCert
<1>3. CASE Refusal(in) # 0
  <2>1. UNCHANGED tvars /\ stage' = [stage EXCEPT ![c] = "done"]
    BY <1>3 DEF Receive, Reply
  <2>2. Typed'
    BY <1>2, <2>1 DEF IInv, Typed, tvars
  <2>3. HandlerOK(c)'
    BY <1>2, <2>1, NamesAssumption DEF IInv, Typed, HandlerOK, Pending, tvars
  <2> QED
    BY <1>1, <2>2, <2>3, Frame DEF IInv
<1>4. CASE Refusal(in) = 0 /\ in.kind \in NodeScoped
  <2>1. Ask(c, in.node, in.pw) /\ stage' = [stage EXCEPT ![c] = "store"]
    BY <1>4 DEF Receive, NodeScoped, ClusterWide
  <2>2. in.node \in Nodes /\ in.pw \in Passwords /\ Sound(in)
    BY <1>4, PassesChecks
  <2>3. Typed'
    <3>1. [node |-> in.node, pw |-> in.pw] \in [node : Nodes, pw : Passwords]
      BY <2>2
    <3>2. arg' \in [Calls -> [node : Nodes, pw : Passwords]]
      BY <2>1, <3>1 DEF IInv, Typed, Ask
    <3>3. {secret[in.node]} \in SUBSET Records
      BY <2>2 DEF IInv, Typed
    <3>4. inForce' \in [Calls -> SUBSET Records]
      BY <2>1, <3>3 DEF IInv, Typed, Ask
    <3>5. /\ answer' \in [Calls -> {"idle", "pending", "ok", "mismatch", "exists", "error"}]
          /\ stage' \in [Calls -> {"idle", "store", "sign", "record", "done"}]
          /\ secret' = secret
      BY <2>1 DEF IInv, Typed, Ask
    <3> QED
      BY <1>2, <3>2, <3>4, <3>5 DEF IInv, Typed
  <2>4. HandlerOK(c)'
    BY <1>2, <2>1, <2>2, NamesAssumption DEF IInv, Typed, HandlerOK, Ask
  <2> QED
    BY <1>1, <2>3, <2>4, Frame DEF IInv
<1>5. CASE Refusal(in) = 0 /\ in.kind \in ClusterWide
  <2>1. UNCHANGED tvars /\ stage' = [stage EXCEPT ![c] = "sign"] /\ in.kind \notin NodeScoped
    BY <1>5 DEF Receive, NodeScoped, ClusterWide
  <2>2. Typed'
    BY <1>2, <2>1 DEF IInv, Typed, tvars
  <2>3. HandlerOK(c)'
    BY <1>2, <2>1, NamesAssumption DEF IInv, Typed, HandlerOK, Pending, tvars
  <2> QED
    BY <1>1, <2>2, <2>3, Frame DEF IInv
<1> QED
  BY <1>3, <1>4, <1>5 DEF Receive

(* The store enrols the call's password or answers it for cause. *)
LEMMA StoreStepOK ==
  ASSUME IInv, NEW c \in Calls, StoreStep(c)
  PROVE  IInv'
<1>1. UNCHANGED <<stage, req, cert, arg>>
  BY DEF StoreStep, Enrol, Tell
<1>2. c \in Pending /\ stage[c] = "store" /\ Sound(req[c]) /\ arg[c].node = req[c].node
  BY DEF StoreStep, Enrol, Tell, IInv, HandlerOK
<1>3. CASE \E said \in {"ok", "error"} : Enrol(c, said) /\ enrolled' = enrolled \cup {c}
  <2>1. PICK said \in {"ok", "error"} : Enrol(c, said) /\ enrolled' = enrolled \cup {c}
    BY <1>3
  <2> DEFINE h == createHash(arg[c].pw)
  <2>2. arg[c].pw \in Passwords /\ arg[c].node \in Nodes
    BY DEF IInv, Typed
  <2>3. h \in Records /\ h \notin {Absent, NoHash} /\ Evaluable(h) /\ Matches(h, arg[c].pw)
    BY <2>2, CreatedHashBacks DEF Records
  <2> HIDE DEF h
  <2>4. inForce' = Witness(arg[c].node, h, Pending)
    BY <2>1 DEF Enrol, h
  <2>5. /\ inForce' \in [Calls -> SUBSET Records]
        /\ \A d \in Calls : inForce[d] \subseteq inForce'[d]
        /\ h \in inForce'[c]
    BY <1>2, <2>3, <2>4, WitnessGrows DEF IInv
  <2>6. Backed(c)'
    BY <1>1, <2>3, <2>5 DEF Backed
  <2>7. Typed'
    <3>1. secret' \in [Nodes -> Records]
      BY <2>1, <2>2, <2>3 DEF IInv, Typed, Enrol, h
    <3>2. answer' \in [Calls -> {"idle", "pending", "ok", "mismatch", "exists", "error"}]
      BY <2>1 DEF IInv, Typed, Enrol
    <3> QED
      BY <1>1, <2>1, <2>5, <3>1, <3>2 DEF IInv, Typed
  <2>8. HandlerOK(c)'
    <3>1. answer'[c] = said
      BY <2>1 DEF Enrol, IInv, Typed
    <3> QED
      BY <1>1, <1>2, <2>6, <3>1 DEF IInv, HandlerOK, Pending
  <2>9. \A d \in Calls \ {c} : Untouched(d)
    BY <1>1, <2>1, <2>5 DEF Untouched, Enrol, IInv, Typed
  <2> QED
    BY <2>7, <2>8, <2>9, Frame DEF IInv
<1>4. CASE \E said \in {"ok", "mismatch", "exists", "error"} :
             Tell(c, said) /\ UNCHANGED enrolled
  <2>1. PICK said \in {"ok", "mismatch", "exists", "error"} :
          Tell(c, said) /\ UNCHANGED enrolled
    BY <1>4
  <2>2. answer' = [answer EXCEPT ![c] = said] /\ UNCHANGED <<secret, arg, inForce, enrolled>>
    BY <2>1 DEF Tell
  <2>3. said = "ok" => Backed(c)
    BY <2>1 DEF Tell, Grounds, Backed
  <2>4. Backed(c)' <=> Backed(c)
    BY <2>2 DEF Backed
  <2>5. Typed'
    BY <1>1, <2>2 DEF IInv, Typed
  <2>6. HandlerOK(c)'
    BY <1>1, <1>2, <2>2, <2>3, <2>4 DEF IInv, Typed, HandlerOK, Pending
  <2>7. \A d \in Calls \ {c} : Untouched(d)
    BY <1>1, <2>2 DEF Untouched, IInv, Typed
  <2> QED
    BY <2>5, <2>6, <2>7, Frame DEF IInv
<1> QED
  BY <1>3, <1>4 DEF StoreStep

(* handleCert goes on with an accepted call and refuses the others. *)
LEMMA ReturnStep ==
  ASSUME IInv, NEW c \in Calls, CheckAndSetReturns(c)
  PROVE  IInv'
<1>1. UNCHANGED <<arg, answer, secret, inForce, req, cert, enrolled>>
  BY DEF CheckAndSetReturns, tvars
<1>2. /\ stage[c] = "store" /\ c \notin Pending
      /\ \/ answer[c] = "ok" /\ stage' = [stage EXCEPT ![c] = "sign"]
         \/ stage' = [stage EXCEPT ![c] = "done"]
  BY DEF CheckAndSetReturns, Reply
<1>3. Typed'
  BY <1>1, <1>2 DEF IInv, Typed
<1>4. HandlerOK(c)'
  <2>1. (Backed(c)' <=> Backed(c)) /\ c \notin Pending'
    BY <1>1, <1>2 DEF Backed, Pending
  <2> QED
    BY <1>1, <1>2, <2>1 DEF IInv, Typed, HandlerOK
<1>5. \A d \in Calls \ {c} : Untouched(d)
  BY <1>1, <1>2 DEF Untouched, IInv, Typed
<1> QED
  BY <1>3, <1>4, <1>5, Frame DEF IInv

(* The certificate names a node only for the node-scoped endpoints, and    *)
(* then the one the request named.                                         *)
LEMMA CertificateNode ==
  ASSUME NEW in \in Inputs, Certificate(in).node \in Nodes
  PROVE  in.kind \in NodeScoped /\ Certificate(in).node = in.node
BY NamesAssumption DEF Certificate, NodeScoped

(* The signer issues what the endpoint dictates, or refuses. *)
LEMMA SignStep ==
  ASSUME IInv, NEW c \in Calls, Sign(c)
  PROVE  IInv'
<1>1. UNCHANGED <<arg, answer, secret, inForce, req, enrolled>>
  BY DEF Sign, tvars
<1>2. /\ stage[c] = "sign"
      /\ \/ /\ cert' = [cert EXCEPT ![c] = Certificate(req[c])]
            /\ stage' = [stage EXCEPT ![c] = "record"]
         \/ cert' = cert /\ stage' = [stage EXCEPT ![c] = "done"]
  BY DEF Sign, Reply
<1>3. Typed'
  <2>1. Certificate(req[c]) \in {Certificate(in) : in \in Inputs}
    BY DEF IInv, Typed
  <2> HIDE DEF Certificate
  <2>2. cert' \in [Calls -> {NoCert} \cup {Certificate(in) : in \in Inputs}]
    BY <1>2, <2>1 DEF IInv, Typed
  <2>3. stage' \in [Calls -> {"idle", "store", "sign", "record", "done"}]
    BY <1>2 DEF IInv, Typed
  <2> QED
    BY <1>1, <2>2, <2>3 DEF IInv, Typed
<1>4. HandlerOK(c)'
  <2>1. (Backed(c)' <=> Backed(c)) /\ (c \in Pending' <=> c \in Pending)
    BY <1>1 DEF Backed, Pending
  <2>2. cert'[c].node \in Nodes => arg[c].node = cert'[c].node /\ Backed(c)
    <3>1. CASE cert' = cert
      BY <3>1 DEF IInv, HandlerOK
    <3>2. CASE cert' = [cert EXCEPT ![c] = Certificate(req[c])]
      <4>1. cert'[c] = Certificate(req[c]) /\ req[c] \in Inputs
        BY <3>2 DEF IInv, Typed
      <4> QED
        BY <1>2, <4>1, CertificateNode DEF IInv, HandlerOK
    <3> QED
      BY <1>2, <3>1, <3>2
  <2>3. stage'[c] \in {"record", "done"} /\ c \notin Pending
    BY <1>2 DEF IInv, Typed, HandlerOK
  <2> QED
    BY <1>1, <2>1, <2>2, <2>3 DEF IInv, HandlerOK
<1>5. \A d \in Calls \ {c} : Untouched(d)
  BY <1>1, <1>2 DEF Untouched, IInv, Typed
<1> QED
  BY <1>3, <1>4, <1>5, Frame DEF IInv

(* The reply is sent, or the replica dies with its handlers. *)
LEMMA EndStep ==
  ASSUME IInv, Crash \/ \E c \in Calls : Record(c)
  PROVE  IInv'
<1>1. UNCHANGED <<arg, secret, inForce, req, cert, enrolled>>
  BY DEF Crash, Record, Lose, tvars
<1>2. /\ answer' \in [Calls -> {"idle", "pending", "ok", "mismatch", "exists", "error"}]
      /\ stage' \in [Calls -> {"idle", "store", "sign", "record", "done"}]
      /\ \A d \in Calls :
           \/ stage'[d] = stage[d] /\ answer'[d] = answer[d]
           \/ stage'[d] \in {"idle", "done"} /\ answer'[d] # "pending"
  <2>1. CASE Crash
    BY <2>1 DEF Crash, Lose, IInv, Typed, Pending
  <2>2. ASSUME NEW c \in Calls, Record(c)
        PROVE  /\ stage' = [stage EXCEPT ![c] = "done"] /\ answer' = answer
               /\ answer[c] # "pending"
    BY <2>2 DEF Record, Reply, tvars, IInv, HandlerOK, Pending
  <2> QED
    BY <2>1, <2>2 DEF IInv, Typed
<1>3. Typed'
  BY <1>1, <1>2 DEF IInv, Typed
<1>4. ASSUME NEW d \in Calls PROVE HandlerOK(d)'
  <2>1. Backed(d)' <=> Backed(d)
    BY <1>1 DEF Backed
  <2> QED
    BY <1>1, <1>2, <2>1 DEF IInv, HandlerOK, Pending
<1> QED
  BY <1>3, <1>4 DEF IInv

(* Records, Node objects and control planes come and go. *)
LEMMA OutsideStep ==
  ASSUME IInv, Others \/ Discover
  PROVE  IInv'
<1>1. UNCHANGED <<stage, req, cert, enrolled, arg, answer>>
  BY DEF Others, Discover, hvars, tvars, Provision, Remove, Register, Unregister
<1> DEFINE Grown == /\ secret' \in [Nodes -> Records]
                    /\ inForce' \in [Calls -> SUBSET Records]
                    /\ \A c \in Calls : inForce[c] \subseteq inForce'[c]
<1>2. Grown
  <2>1. ASSUME NEW n \in Nodes, NEW v \in Records,
               secret' = [secret EXCEPT ![n] = v], inForce' = Witness(n, v, Pending)
        PROVE  Grown
    BY <2>1, WitnessGrows DEF IInv, Typed
  <2>2. CASE UNCHANGED <<secret, inForce>>
    BY <2>2 DEF IInv, Typed
  <2>3. CASE \E n \in Nodes, v \in ForeignRecords : Provision(n, v)
    BY <2>1, <2>3 DEF Provision, Records
  <2>4. CASE \E n \in Nodes : Remove(n)
    BY <2>1, <2>4 DEF Remove, Records
  <2> QED
    BY <2>2, <2>3, <2>4 DEF Others, Discover, tvars, Register, Unregister
<1>3. Typed'
  BY <1>1, <1>2 DEF IInv, Typed
<1>4. \A c \in Calls : Untouched(c)
  BY <1>1, <1>2 DEF Untouched
<1> QED
  BY <1>3, <1>4, Frame DEF IInv

---------------------------------------------------------------------------
LEMMA StepOK == IInv /\ [IssuanceNext]_cvars => IInv'
<1> SUFFICES ASSUME IInv, [IssuanceNext]_cvars PROVE IInv'
  OBVIOUS
<1>1. CASE UNCHANGED cvars
  <2>1. UNCHANGED <<stage, req, cert, enrolled, arg, answer, secret, inForce>>
    BY <1>1 DEF cvars, tvars, hvars
  <2>2. Typed' /\ \A c \in Calls : Untouched(c)
    BY <2>1 DEF IInv, Typed, Untouched
  <2> QED
    BY <2>2, Frame DEF IInv
<1> QED
  BY <1>1, ReceiveStep, StoreStepOK, ReturnStep, SignStep, EndStep, OutsideStep
  DEF IssuanceNext

LEMMA Invariant == IssuanceSpec => []IInv
  BY InitOK, StepOK, PTL DEF IssuanceSpec

(* handleCert, CheckAndSet and authorizeNode: whoever holds a certificate  *)
(* for a node asked for it with a password that was on record for that     *)
(* node during the request, for any number of concurrent requests.         *)
THEOREM IdentityNeedsPassword == IssuanceSpec => []NodeIdentityNeedsPassword
<1>1. IInv => NodeIdentityNeedsPassword
  <2> SUFFICES ASSUME IInv, NEW c \in Calls, NEW n \in Nodes,
                      cert[c].node = n \/ authorizeNode(cert[c]) = n
               PROVE  arg[c].node = n /\ Backed(c)
    BY DEF NodeIdentityNeedsPassword, Backed
  <2>1. cert[c].node = n
    BY NamesAssumption DEF authorizeNode
  <2> QED
    BY <2>1 DEF IInv, HandlerOK
<1> QED
  BY <1>1, Invariant, PTL

(* handleCert's order of checks: no password goes on record for a request  *)
(* whose token, method, CSR or addresses would be refused.                 *)
THEOREM SoundRequestsEnrol == IssuanceSpec => []OnlyGoodRequestsEnrol
<1>1. IInv => OnlyGoodRequestsEnrol
  BY DEF IInv, Typed, HandlerOK, Sound, OnlyGoodRequestsEnrol
<1> QED
  BY <1>1, Invariant, PTL
=============================================================================
