---------------------------- MODULE CertIssuance ----------------------------
(***************************************************************************)
(* One replica's certificate endpoint (supervisor.go: auth, handleCert),   *)
(* composed with the password store's promise (TofuStore), the list of     *)
(* control planes (Discovery), the signer (pki.go) and the identity the    *)
(* tunnel reads out of an issued certificate (tunnel.go: authorizeNode).   *)
(* Other replicas appear as writers of records.                            *)
(*                                                                         *)
(* A request is a record; "refused" among its addresses stands for every   *)
(* list or entry that servingSANIPs turns down by itself (more than eight, *)
(* not an IP, not routable, inside the service CIDR).                      *)
(***************************************************************************)
EXTENDS TofuStore, Discovery

CONSTANTS
  Inputs,   \* the requests that arrive
  Adopted   \* TRUE when a separate serving CA is configured

ASSUME InputsAssumption ==
  \A in \in Inputs : in.token \in BOOLEAN /\ in.csr \in {"good", "bad", "unread"}
ASSUME NamesAssumption == "" \notin Nodes   \* validateNodeName
ASSUME RecordsAssumption == Absent \notin Hash /\ NoHash \notin Hash

VARIABLES
  stage,     \* [Calls -> where the handler is]
  req,       \* [Calls -> the request]
  status,    \* [Calls -> HTTP status of the reply, 0 for none]
  cert,      \* [Calls -> the certificate signed for it, or NoCert]
  recorded,  \* calls for which RecordIssued set a node's series
  enrolled   \* history: calls whose password went on record

hvars == <<stage, req, status, cert, recorded, enrolled>>
cvars == <<tvars, dvars, hvars>>

NoCert == [cn |-> "", node |-> "", org |-> "", eku |-> "", signer |-> "", ips |-> {}]

NodeScoped == {"serving-kubelet", "client-kubelet"}
ClusterWide == {"client-kube-proxy", "client-rke2-controller"}

---------------------------------------------------------------------------
(* The checks a request has to pass. *)
auth(in) == in.token
readCSR(in) == in.csr # "unread"   \* in time, not empty, not too large
CheckCSR(in) == in.csr # "bad"     \* parsed, self-signed, key accepted
validateNodeName(in) == in.node \in Nodes
ValidatePassword(in) == in.pw \in Passwords

(* servingSANIPs: the addresses are checked against the advertised list as *)
(* it is when the request is read.                                         *)
SANsRefused(in) ==
  in.kind = "serving-kubelet" /\ ("refused" \in in.ips \/ in.ips \cap advertised # {})

(* What only a node-scoped request is refused for. *)
BadNodeHeaders(in) ==
  /\ in.kind \in NodeScoped
  /\ ~validateNodeName(in) \/ SANsRefused(in) \/ ~ValidatePassword(in)

(* A bug in which the CSR is only judged by Sign. *)
RefusalUncheckedCSR(in) ==
  IF ~auth(in) THEN 401
  ELSE IF in.kind \notin NodeScoped \cup ClusterWide THEN 501
  ELSE IF in.method # "POST" THEN 405
  ELSE IF ~readCSR(in) \/ BadNodeHeaders(in) THEN 400
  ELSE 0

(* The status a request is refused with before the store is asked, in the  *)
(* order of the checks: auth, the mux, the method, readCSR and CheckCSR,   *)
(* the node name, the addresses, the password; 0 when it gets past them.   *)
Refusal(in) ==
  IF ~auth(in) THEN 401
  ELSE IF in.kind \notin NodeScoped \cup ClusterWide THEN 501
  ELSE IF in.method # "POST" THEN 405
  ELSE IF ~readCSR(in) \/ ~CheckCSR(in) \/ BadNodeHeaders(in) THEN 400
  ELSE 0

Reply(c, code) ==
  /\ stage' = [stage EXCEPT ![c] = "done"]
  /\ status' = [status EXCEPT ![c] = code]

Receive(c, in) ==
  /\ stage[c] \in {"idle", "done"}
  /\ req' = [req EXCEPT ![c] = in]
  /\ cert' = [cert EXCEPT ![c] = NoCert]
  /\ enrolled' = enrolled \ {c}
  /\ recorded' = recorded \ {c}
  /\ UNCHANGED dvars
  /\ \/ /\ Refusal(in) # 0
        /\ Reply(c, Refusal(in))
        /\ UNCHANGED tvars
     \/ /\ Refusal(in) = 0
        /\ in.kind \in NodeScoped
        /\ stage' = [stage EXCEPT ![c] = "store"]
        /\ status' = [status EXCEPT ![c] = 0]
        /\ Ask(c, in.node, in.pw)
     \/ /\ Refusal(in) = 0
        /\ in.kind \in ClusterWide
        /\ stage' = [stage EXCEPT ![c] = "sign"]
        /\ status' = [status EXCEPT ![c] = 0]
        /\ UNCHANGED tvars

(* The store works on the call, as it promises. *)
StoreStep(c) ==
  /\ \/ /\ \E said \in {"ok", "error"} : Enrol(c, said)
        /\ enrolled' = enrolled \cup {c}
     \/ /\ \E said \in {"ok", "mismatch", "exists", "error"} : Tell(c, said)
        /\ UNCHANGED enrolled
  /\ UNCHANGED <<dvars, stage, req, status, cert, recorded>>

(* A bug in which a mismatch is logged but not refused. *)
CheckAndSetLenient(c) ==
  /\ stage[c] = "store"
  /\ c \notin Pending
  /\ \/ /\ answer[c] \in {"ok", "mismatch"}
        /\ stage' = [stage EXCEPT ![c] = "sign"]
        /\ UNCHANGED status
     \/ answer[c] = "exists" /\ Reply(c, 409)
     \/ answer[c] = "error" /\ Reply(c, 500)
  /\ UNCHANGED <<tvars, dvars, req, cert, recorded, enrolled>>

(* What handleCert makes of the store's answer. *)
CheckAndSetReturns(c) ==
  /\ stage[c] = "store"
  /\ c \notin Pending
  /\ \/ /\ answer[c] = "ok"
        /\ stage' = [stage EXCEPT ![c] = "sign"]
        /\ UNCHANGED status
     \/ answer[c] \in {"mismatch", "exists"} /\ Reply(c, 409)
     \/ answer[c] = "error" /\ Reply(c, 500)
  /\ UNCHANGED <<tvars, dvars, req, cert, recorded, enrolled>>

(* The subject is dictated by the endpoint, and so is the signer. *)
Certificate(in) ==
  CASE in.kind = "serving-kubelet" ->
         [cn |-> "", node |-> in.node, org |-> "", eku |-> "server",
          signer |-> IF Adopted THEN "serving" ELSE "client", ips |-> in.ips]
    [] in.kind = "client-kubelet" ->
         [cn |-> "system:node:", node |-> in.node, org |-> "system:nodes",
          eku |-> "client", signer |-> "client", ips |-> {}]
    [] OTHER ->
         [cn |-> in.kind, node |-> "", org |-> "", eku |-> "client",
          signer |-> "client", ips |-> {}]

Sign(c) ==
  /\ stage[c] = "sign"
  /\ \/ /\ CheckCSR(req[c])
        /\ cert' = [cert EXCEPT ![c] = Certificate(req[c])]
        /\ stage' = [stage EXCEPT ![c] = "record"]
        /\ UNCHANGED status
     \/ Reply(c, IF CheckCSR(req[c]) THEN 500 ELSE 400) /\ UNCHANGED cert
  /\ UNCHANGED <<tvars, dvars, req, recorded, enrolled>>

(* RecordIssued gets the node header as it came, then the reply is sent. *)
Record(c) ==
  /\ stage[c] = "record"
  /\ recorded' = IF req[c].node = "" THEN recorded ELSE recorded \cup {c}
  /\ Reply(c, 200)
  /\ UNCHANGED <<tvars, dvars, req, cert, enrolled>>

(* The replica dies with its requests and its list of control planes. *)
Crash ==
  /\ \E c \in Calls : stage[c] \notin {"idle", "done"}
  /\ Lose(Pending)
  /\ RestartDiscovery
  /\ stage' = [c \in Calls |-> IF stage[c] = "done" THEN "done" ELSE "idle"]
  /\ recorded' = {}
  /\ UNCHANGED <<req, status, cert, enrolled>>

(* Other replicas, rke2 servers, operators and kubelets. *)
Others ==
  /\ \/ \E n \in Nodes, v \in ForeignRecords : Provision(n, v)
     \/ \E n \in Nodes : Remove(n) \/ Register(n) \/ Unregister(n)
  /\ UNCHANGED <<dvars, hvars>>

Discover ==
  /\ DiscoveryNext
  /\ UNCHANGED <<tvars, hvars>>

---------------------------------------------------------------------------
IssuanceInit ==
  /\ TofuInit
  /\ \A c, d \in Calls : arg[c] = arg[d]
  /\ DiscoveryInit
  /\ stage = [c \in Calls |-> "idle"]
  /\ \E in \in Inputs : req = [c \in Calls |-> in]
  /\ status = [c \in Calls |-> 0]
  /\ cert = [c \in Calls |-> NoCert]
  /\ recorded = {}
  /\ enrolled = {}

IssuanceNext ==
  \/ \E c \in Calls, in \in Inputs : Receive(c, in)
  \/ \E c \in Calls : StoreStep(c) \/ CheckAndSetReturns(c) \/ Sign(c) \/ Record(c)
  \/ Crash
  \/ Others
  \/ Discover

IssuanceSpec == IssuanceInit /\ [][IssuanceNext]_cvars

---------------------------------------------------------------------------
(* authorizeNode: the node a tunnel takes the bearer of a certificate for. *)
(* The listener's pool holds the client CA only.                           *)
authorizeNode(x) ==
  IF x.signer = "client" /\ x.eku = "client" /\ x.cn = "system:node:" /\ x.org = "system:nodes"
  THEN x.node ELSE ""

(* A certificate that lets its bearer act as node n (open n's tunnel, or   *)
(* serve under n's name) was asked for with a password that was on record  *)
(* for n while the request was being handled.  No header, endpoint or      *)
(* interleaving with an operator's deletions gets one without it.          *)
NodeIdentityNeedsPassword ==
  \A c \in Calls, n \in Nodes :
    cert[c].node = n \/ authorizeNode(cert[c]) = n =>
      /\ arg[c].node = n
      /\ \E h \in inForce[c] \ {Absent, NoHash} :
           Evaluable(h) /\ Matches(h, arg[c].pw)

(* A request that would be refused for what it carries enrols nothing: the *)
(* CSR and the addresses are judged before the password goes on record.    *)
OnlyGoodRequestsEnrol ==
  \A c \in enrolled :
    /\ req[c].token /\ req[c].method = "POST" /\ req[c].csr = "good"
    /\ "refused" \notin req[c].ips \/ req[c].kind # "serving-kubelet"

---------------------------------------------------------------------------
(* protocol.md: a serving request that names a control-plane address is    *)
(* refused.                                                                *)
ServingNamesNoControlPlane ==
  [][\A c \in Calls :
       stage'[c] = "store" /\ stage[c] # "store" /\ req'[c].kind = "serving-kubelet" =>
         \A a \in req'[c].ips \cap CPs : cp[a] = "absent"]_cvars
============================================================================
