--------------------------- MODULE MCServingCert ---------------------------
(* ServingCert on small durations: a certificate of 9 units, renewed 6 before *)
(* its end, looked at every 2; the clock outlasts several certificates.        *)
EXTENDS ServingCert
===========================================================================
