---------------------------- MODULE ServingCert ----------------------------
(***************************************************************************)
(* The shim's own TLS certificate: internal/certs/serving.go (Manager),    *)
(* minted from the cluster CA by pki.IssueSelf, and the gauge main.go sets *)
(* from it.  A certificate is abstracted to its expiry.                    *)
(***************************************************************************)
EXTENDS Integers

CONSTANTS
  TTL,          \* DefaultTTL, 365 days
  RenewBefore,  \* renewBefore, 30 days
  CheckEvery,   \* checkEvery, 12 hours: the ticker's period
  MaxFailures,  \* bound on the rotations that fail in a row
  Horizon       \* bound on the clock

ASSUME DurationsAssumption ==
  /\ TTL \in Nat /\ RenewBefore \in Nat /\ CheckEvery \in Nat \ {0}
  /\ MaxFailures \in Nat /\ Horizon \in Nat
  /\ RenewBefore < TTL

(* With 30 days and 12 hours this leaves room for 59 failures in a row. *)
ASSUME WindowAssumption == (MaxFailures + 1) * CheckEvery <= RenewBefore

VARIABLES
  now,       \* the clock
  caExpiry,  \* NotAfter of the CA the process has loaded
  current,   \* expiry of the certificate GetCertificate hands out
  metric,    \* ServingCertExpirySeconds
  lastTick,  \* when the ticker last fired
  failures   \* rotations that failed since the last one that did not

vars == <<now, caExpiry, current, metric, lastTick, failures>>

(* A bug in which the issuer's own expiry is not a cap. *)
notAfterUncapped(ca, t) == t + TTL

(* A leaf never outlives its issuer. *)
notAfter(ca, t) == IF t + TTL > ca THEN ca ELSE t + TTL

(* The expiry of a fresh certificate for the shim itself. *)
IssueSelf(ca, t) == notAfter(ca, t)

(* The expiries LoadCA accepts at time t: it refuses a CA that is over. *)
LoadCA(t) == t .. Horizon

(* Startup: NewManager issues at once, main sets the gauge and starts Run. *)
Init ==
  /\ now = 0
  /\ caExpiry \in LoadCA(now)
  /\ current = IssueSelf(caExpiry, now)
  /\ metric = current
  /\ lastTick = now
  /\ failures = 0

(* Time passes, and the ticker fires on time. *)
TimePasses ==
  /\ now < Horizon
  /\ now < lastTick + CheckEvery
  /\ now' = now + 1
  /\ UNCHANGED <<caExpiry, current, metric, lastTick, failures>>

(* A bug in which a certificate is renewed once it is no longer valid. *)
DueOnceExpired == current <= now

(* The complement of time.Until(NotAfter()) > renewBefore. *)
Due == current - now <= RenewBefore

(* One round of Run.  A rotation that fails is retried by the next tick. *)
Tick ==
  /\ now = lastTick + CheckEvery
  /\ lastTick' = now
  /\ \/ /\ ~Due
        /\ UNCHANGED <<current, failures>>
     \/ /\ Due
        /\ current' = IssueSelf(caExpiry, now)
        /\ failures' = 0
     \/ /\ Due
        /\ failures < MaxFailures
        /\ failures' = failures + 1
        /\ UNCHANGED current
  /\ UNCHANGED <<now, caExpiry, metric>>

(* A bug in which the gauge is set from the CA. *)
RestartCAGauge ==
  /\ \E ca \in LoadCA(now) :
       /\ caExpiry' = ca
       /\ current' = IssueSelf(ca, now)
       /\ metric' = ca
  /\ lastTick' = now
  /\ failures' = 0
  /\ UNCHANGED now

(* The process starts again, perhaps on a CA that has been replaced. *)
Restart ==
  /\ \E ca \in LoadCA(now) :
       /\ caExpiry' = ca
       /\ current' = IssueSelf(ca, now)
       /\ metric' = IssueSelf(ca, now)
  /\ lastTick' = now
  /\ failures' = 0
  /\ UNCHANGED now

Next == TimePasses \/ Tick \/ Restart

Spec == Init /\ [][Next]_vars

---------------------------------------------------------------------------
(* Type correctness of the clock and the expiries. *)
TypeOK ==
  /\ now \in Nat /\ lastTick \in Nat
  /\ caExpiry \in Int /\ current \in Int /\ metric \in Int
  /\ failures \in 0 .. MaxFailures

(* "A long-lived pod never serves a stale cert": while the CA is valid, so *)
(* is the certificate GetCertificate hands out, although rotation is only  *)
(* considered every CheckEvery and may fail MaxFailures times in a row.    *)
ServedCertificateIsValid == now < caExpiry => now < current

(* No certificate outlives the CA that vouches for it, over rotations near *)
(* the CA's own end and over a replacement of the CA.                      *)
NeverOutlivesCA == current <= caExpiry

(* The gauge, which main sets once and no rotation updates, errs on one    *)
(* side only: an alert on it may come for a certificate that has already   *)
(* been replaced, but never too late for the one being served.             *)
MetricNeverLate == metric <= current

(* The inductive invariant: a certificate that is not as long-lived as the *)
(* CA had, at the last tick, the renewal window left, less one period for  *)
(* every rotation that has failed.                                         *)
WindowLeft ==
  /\ lastTick <= now /\ now <= lastTick + CheckEvery
  /\ current <= caExpiry
  /\ current = caExpiry \/ current - lastTick > RenewBefore - failures * CheckEvery

(* The gauge comes from a certificate that was issued in the past. *)
MetricFromThePast == metric <= current /\ metric <= now + TTL
===========================================================================
