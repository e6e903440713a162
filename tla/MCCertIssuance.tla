--------------------------- MODULE MCCertIssuance ---------------------------
(* CertIssuance on one node name: a good request of each kind, and one      *)
(* request for every check that can refuse it.                              *)
EXTENDS CertIssuance, TLC

CONSTANTS n1, p1, p2, a1

Good(kind, pw) ==
  [token |-> TRUE, method |-> "POST", csr |-> "good", kind |-> kind,
   node |-> n1, ips |-> {"routable"}, pw |-> pw]

Serving == Good("serving-kubelet", p1)
Client == Good("client-kubelet", p1)

GoodInputs ==
  {Serving, Client, Good("client-kubelet", p2),
   [Good("client-kube-proxy", "") EXCEPT !.node = ""],
   Good("client-rke2-controller", "")}

BadInputs ==
  {[Client EXCEPT !.token = FALSE],
   [Client EXCEPT !.kind = "unknown"],
   [Client EXCEPT !.method = "GET"],
   [Client EXCEPT !.csr = "bad"],
   [Client EXCEPT !.csr = "unread"],
   [Client EXCEPT !.node = "localhost"],
   [Client EXCEPT !.pw = ""],
   [Serving EXCEPT !.ips = {"refused"}],
   [Serving EXCEPT !.ips = {a1}]}

AllInputs == GoodInputs \cup BadInputs
OtherReplica == {createHash(p2)}
NoForeign == {}
===========================================================================
