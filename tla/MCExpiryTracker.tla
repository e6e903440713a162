-------------------------- MODULE MCExpiryTracker --------------------------
(* ExpiryTracker on one replica: two requests in flight and its scans. *)
EXTENDS ExpiryTracker
===========================================================================
