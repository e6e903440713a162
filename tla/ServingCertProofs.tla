------------------------- MODULE ServingCertProofs -------------------------
(***************************************************************************)
(* The shim's own certificate is valid whenever its CA is, for every       *)
(* lifetime, renewal window, check period and number of failed rotations   *)
(* that fits in the window.                                                *)
(***************************************************************************)
EXTENDS ServingCert, TLAPS

IInv == TypeOK /\ WindowLeft /\ MetricFromThePast

(* The cap of notAfter: what it returns is the CA's own expiry, or a full  *)
(* lifetime that ends no later.                                            *)
LEMMA Capped ==
  ASSUME NEW ca \in Int, NEW t \in Int
  PROVE  /\ IssueSelf(ca, t) \in Int
         /\ IssueSelf(ca, t) <= ca
         /\ IssueSelf(ca, t) = ca \/ IssueSelf(ca, t) = t + TTL
         /\ IssueSelf(ca, t) <= t + TTL
BY DurationsAssumption DEF IssueSelf, notAfter

(* Failures so far take at most as much of the window as all of them. *)
LEMMA FailuresFit ==
  ASSUME NEW f \in 0 .. MaxFailures
  PROVE  /\ f * CheckEvery \in Nat
         /\ f * CheckEvery + CheckEvery <= RenewBefore
         /\ (f + 1) * CheckEvery = f * CheckEvery + CheckEvery
<1> DEFINE d == MaxFailures - f
<1>1. d \in Nat /\ MaxFailures = f + d
  BY DurationsAssumption
<1>2. f * CheckEvery \in Nat /\ d * CheckEvery \in Nat
  BY <1>1, DurationsAssumption
<1>3. (MaxFailures + 1) * CheckEvery = f * CheckEvery + d * CheckEvery + CheckEvery
  BY <1>1, DurationsAssumption
<1>4. (f + 1) * CheckEvery = f * CheckEvery + CheckEvery
  BY DurationsAssumption
<1> QED
  BY <1>2, <1>3, <1>4, WindowAssumption, DurationsAssumption

LEMMA StartOK == Init => IInv
<1> SUFFICES ASSUME Init PROVE IInv
  OBVIOUS
<1>1. caExpiry \in Int /\ now = 0 /\ lastTick = 0 /\ failures = 0
  BY DurationsAssumption DEF Init, LoadCA
<1>2. /\ current \in Int /\ current <= caExpiry /\ current <= 0 + TTL
      /\ current = caExpiry \/ current = 0 + TTL
  BY <1>1, Capped DEF Init
<1>3. failures * CheckEvery = 0
  BY <1>1, DurationsAssumption
<1>4. TypeOK
  BY <1>1, <1>2, DurationsAssumption DEF Init, TypeOK
<1>5. WindowLeft
  BY <1>1, <1>2, <1>3, DurationsAssumption DEF WindowLeft
<1>6. MetricFromThePast
  BY <1>1, <1>2 DEF Init, MetricFromThePast
<1> QED
  BY <1>4, <1>5, <1>6 DEF IInv

(* Every tick, failed rotation, restart and unit of time keeps the window. *)
LEMMA StepOK == IInv /\ [Next]_vars => IInv'
<1> SUFFICES ASSUME IInv, [Next]_vars PROVE IInv'
  OBVIOUS
<1> USE DurationsAssumption
<1>0. /\ now \in Nat /\ lastTick \in Nat /\ failures \in 0 .. MaxFailures
      /\ caExpiry \in Int /\ current \in Int /\ metric \in Int
  BY DEF IInv, TypeOK
<1>1. CASE TimePasses
  BY <1>0, <1>1 DEF IInv, TypeOK, WindowLeft, MetricFromThePast, TimePasses
<1>2. CASE Tick
  <2>0. lastTick' = now /\ now' = now /\ caExpiry' = caExpiry /\ metric' = metric
        /\ now = lastTick + CheckEvery
    BY <1>2 DEF Tick
  <2>1. CASE ~Due /\ UNCHANGED <<current, failures>>
    <3>1. failures * CheckEvery \in Nat
      BY <1>0, FailuresFit
    <3>2. current - lastTick' > RenewBefore
      BY <1>0, <2>0, <2>1 DEF Due
    <3> QED
      BY <1>0, <2>0, <2>1, <3>1, <3>2 DEF IInv, TypeOK, WindowLeft, MetricFromThePast
  <2>2. CASE current' = IssueSelf(caExpiry, now) /\ failures' = 0
    <3>1. /\ current' \in Int /\ current' <= caExpiry
          /\ current' <= now + TTL
          /\ current' = caExpiry \/ current' = now + TTL
      BY <1>0, <2>2, Capped
    <3>2. failures' * CheckEvery = 0
      BY <2>2
    <3> QED
      BY <1>0, <2>0, <2>2, <3>1, <3>2 DEF TypeOK, WindowLeft, MetricFromThePast, IInv
  <2>3. CASE failures < MaxFailures /\ failures' = failures + 1 /\ UNCHANGED current
    <3>1. /\ failures * CheckEvery \in Nat
          /\ failures' * CheckEvery = failures * CheckEvery + CheckEvery
      BY <1>0, <2>3, FailuresFit
    <3>2. current = caExpiry \/ current - lastTick > RenewBefore - failures * CheckEvery
      BY DEF IInv, WindowLeft
    <3>3. current = caExpiry \/ current - now > RenewBefore - failures' * CheckEvery
      BY <1>0, <2>0, <3>1, <3>2
    <3> QED
      BY <1>0, <2>0, <2>3, <3>3 DEF IInv, TypeOK, WindowLeft, MetricFromThePast
  <2> QED
    BY <1>2, <2>1, <2>2, <2>3 DEF Tick
<1>3. CASE Restart
  <2>1. PICK ca \in LoadCA(now) :
          /\ caExpiry' = ca
          /\ current' = IssueSelf(ca, now)
          /\ metric' = IssueSelf(ca, now)
    BY <1>3 DEF Restart
  <2>2. /\ current' \in Int /\ current' <= ca /\ ca \in Int
        /\ current' <= now + TTL
        /\ current' = ca \/ current' = now + TTL
    BY <1>0, <2>1, Capped DEF LoadCA
  <2>3. failures' * CheckEvery = 0 /\ failures' = 0 /\ lastTick' = now /\ now' = now
    BY <1>3 DEF Restart
  <2> QED
    BY <1>0, <2>1, <2>2, <2>3 DEF IInv, TypeOK, WindowLeft, MetricFromThePast
<1>4. CASE UNCHANGED vars
  BY <1>4 DEF IInv, TypeOK, WindowLeft, MetricFromThePast, vars
<1> QED
  BY <1>1, <1>2, <1>3, <1>4 DEF Next

(* What the invariant is for. *)
LEMMA WindowSuffices == IInv => TypeOK /\ ServedCertificateIsValid /\ NeverOutlivesCA
<1> SUFFICES ASSUME IInv PROVE ServedCertificateIsValid /\ NeverOutlivesCA
  BY DEF IInv
<1>1. /\ failures * CheckEvery \in Nat
      /\ failures * CheckEvery + CheckEvery <= RenewBefore
  BY FailuresFit DEF IInv, TypeOK
<1> QED
  BY <1>1, DurationsAssumption
  DEF IInv, TypeOK, WindowLeft, ServedCertificateIsValid, NeverOutlivesCA

(* While the CA is valid the shim serves a valid certificate, whatever the *)
(* phase of the ticker and although rotations fail (serving.go, Run).      *)
THEOREM AlwaysValid == Spec => []ServedCertificateIsValid
<1>1. Init => IInv
  BY StartOK
<1>2. IInv /\ [Next]_vars => IInv'
  BY StepOK
<1>3. IInv => ServedCertificateIsValid
  BY WindowSuffices
<1> QED
  BY <1>1, <1>2, <1>3, PTL DEF Spec

(* No certificate outlives its CA (pki.go, notAfter).                      *)
THEOREM CappedByCA == Spec => []NeverOutlivesCA
<1>1. Init => IInv
  BY StartOK
<1>2. IInv /\ [Next]_vars => IInv'
  BY StepOK
<1>3. IInv => NeverOutlivesCA
  BY WindowSuffices
<1> QED
  BY <1>1, <1>2, <1>3, PTL DEF Spec

(* The gauge never promises more time than the served certificate has left *)
(* (main.go, ServingCertExpirySeconds), over rotations and replaced CAs.   *)
THEOREM GaugeNeverLate == Spec => []MetricNeverLate
<1>1. Init => IInv
  BY StartOK
<1>2. IInv /\ [Next]_vars => IInv'
  BY StepOK
<1>3. IInv => MetricNeverLate
  BY DEF IInv, MetricFromThePast, MetricNeverLate
<1> QED
  BY <1>1, <1>2, <1>3, PTL DEF Spec

===========================================================================
