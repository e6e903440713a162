--------------------------- MODULE ExpiryTracker ---------------------------
(***************************************************************************)
(* internal/expiry/tracker.go: what every replica exports about the        *)
(* certificates issued to nodes.  RecordIssued runs in the goroutine of a  *)
(* certificate request; scan runs hourly in a goroutine of its own.  Both  *)
(* call setSeries, which sets the gauge first and takes the mutex only     *)
(* then; pruneSeries runs under the mutex.  Replicas share the annotations *)
(* on the node-password Secrets and the Events.                            *)
(*                                                                         *)
(* Time is abstracted twice.  The expiry of the g-th certificate issued is *)
(* the number g, and those up to "horizon" are inside the 120-day window.  *)
(* The time stored for a series is kept only as what pruneSeries asks of   *)
(* it: before ("old") or after ("new") the start of the replica's scan.    *)
(***************************************************************************)
EXTENDS Integers, FiniteSets

CONSTANTS
  Nodes, Kinds, Replicas,
  Recorders,  \* request goroutines that can be inside RecordIssued
  MaxGen,     \* bound on the number of certificates issued
  MaxHorizon, \* bound on the clock
  MaxRestarts \* bound on the number of replica restarts

ASSUME BoundsAssumption ==
  MaxGen \in Nat \ {0} /\ MaxHorizon \in Nat /\ MaxRestarts \in Nat
ASSUME DeployedAssumption == Nodes # {} /\ Kinds # {} /\ Replicas # {}

Keys == Nodes \X Kinds
Owners == {"absent", "shim", "rke2"}   \* of a node's Secret; only "shim" is labelled

VARIABLES
  secret,   \* [Nodes -> Owners]
  ann,      \* [Keys -> expiry annotated on the node's Secret, 0 for none]
  issued,   \* certificates issued so far, in all replicas
  horizon,  \* expiries up to this one are within WarnWithin
  event,    \* [Keys -> expiry the warning Event names, 0 for no Event]
  gauge,    \* [Replicas -> [Keys -> exported expiry, 0 for no series]]
  series,   \* [Replicas -> [Keys -> "none", "old" or "new"]]
  expiring, \* [Replicas -> CertsExpiringSoon]
  rec,      \* the RecordIssued calls
  scan,     \* [Replicas -> the scan's place, keys seen, entries left, count of "soon"]
  restarts  \* replica restarts so far

world == <<secret, ann, issued, horizon, restarts>>
vars == <<secret, ann, issued, horizon, event, gauge, series, expiring, rec, scan, restarts>>

NoEntry == [key |-> CHOOSE k \in Keys : TRUE, gen |-> 0]
IdleScan == [pc |-> "idle", seen |-> {}, todo |-> {}, cur |-> NoEntry, soon |-> 0]
IdleRec == [pc |-> "idle", rep |-> CHOOSE r \in Replicas : TRUE, at |-> NoEntry]

setGauge(r, e) == gauge' = [gauge EXCEPT ![r][e.key] = e.gen]
track(r, e) == series' = [series EXCEPT ![r][e.key] = "new"]

---------------------------------------------------------------------------
(* A certificate is signed for a node and RecordIssued is called. *)
Issue(q, r, k) ==
  /\ rec[q].pc = "idle"
  /\ issued < MaxGen
  /\ issued' = issued + 1
  /\ rec' = [rec EXCEPT ![q] =
               [pc |-> "setGauge", rep |-> r, at |-> [key |-> k, gen |-> issued + 1]]]
  /\ UNCHANGED <<secret, ann, horizon, event, gauge, series, scan, restarts, expiring>>

RecordSetGauge(q) ==
  /\ rec[q].pc = "setGauge"
  /\ setGauge(rec[q].rep, rec[q].at)
  /\ rec' = [rec EXCEPT ![q].pc = "track"]
  /\ UNCHANGED <<world, event, series, scan, expiring>>

RecordTrack(q) ==
  /\ rec[q].pc = "track"
  /\ track(rec[q].rep, rec[q].at)
  /\ rec' = [rec EXCEPT ![q].pc = "patch"]
  /\ UNCHANGED <<world, event, gauge, scan, expiring>>

RecordPatch(q) ==
  /\ rec[q].pc = "patch"
  /\ secret[rec[q].at.key[1]] # "absent"
  /\ ann' = [ann EXCEPT ![rec[q].at.key] = rec[q].at.gen]
  /\ rec' = [rec EXCEPT ![q] = IdleRec]
  /\ UNCHANGED <<secret, issued, horizon, event, gauge, series, scan, restarts, expiring>>

(* The Secret is gone, or the API fails: logged, never retried. *)
RecordPatchFails(q) ==
  /\ rec[q].pc = "patch"
  /\ rec' = [rec EXCEPT ![q] = IdleRec]
  /\ UNCHANGED <<world, event, gauge, series, scan, expiring>>

---------------------------------------------------------------------------
(* A bug in which a scan compares with the start of the process. *)
ScanStartForgotten(r) ==
  /\ scan[r].pc = "idle"
  /\ scan' = [scan EXCEPT ![r].pc = "list"]
  /\ UNCHANGED <<world, event, gauge, series, rec, expiring>>

(* start := time.Now() *)
ScanStart(r) ==
  /\ scan[r].pc = "idle"
  /\ series' = [series EXCEPT ![r] =
                  [k \in Keys |-> IF @[k] = "new" THEN "old" ELSE @[k]]]
  /\ scan' = [scan EXCEPT ![r].pc = "list"]
  /\ UNCHANGED <<world, event, gauge, rec, expiring>>

(* The List selects by the label that only CheckAndSet's Create sets. *)
Listed == {k \in Keys : secret[k[1]] = "shim" /\ ann[k] # 0}

ScanList(r) ==
  /\ scan[r].pc = "list"
  /\ scan' = [scan EXCEPT ![r] =
       [pc |-> "loop", seen |-> Listed, cur |-> NoEntry, soon |-> 0,
        todo |-> {[key |-> k, gen |-> ann[k]] : k \in Listed}]]
  /\ UNCHANGED <<world, event, gauge, series, rec, expiring>>

ScanListFails(r) ==
  /\ scan[r].pc = "list"
  /\ scan' = [scan EXCEPT ![r] = IdleScan]
  /\ UNCHANGED <<world, event, gauge, series, rec, expiring>>

(* A bug in which a scan only fills in series that are missing. *)
ScanSetGaugeIfMissing(r, e) ==
  /\ scan[r].pc = "loop"
  /\ e \in scan[r].todo
  /\ gauge' = [gauge EXCEPT ![r][e.key] = IF @ = 0 THEN e.gen ELSE @]
  /\ scan' = [scan EXCEPT ![r].pc = "track", ![r].cur = e, ![r].todo = @ \ {e}]
  /\ UNCHANGED <<world, event, series, rec, expiring>>

ScanSetGauge(r, e) ==
  /\ scan[r].pc = "loop"
  /\ e \in scan[r].todo
  /\ setGauge(r, e)
  /\ scan' = [scan EXCEPT ![r].pc = "track", ![r].cur = e, ![r].todo = @ \ {e}]
  /\ UNCHANGED <<world, event, series, rec, expiring>>

(* A bug in which the warning threshold is off by one. *)
ScanTrackLate(r) ==
  /\ scan[r].pc = "track"
  /\ track(r, scan[r].cur)
  /\ scan' = IF scan[r].cur.gen < horizon
             THEN [scan EXCEPT ![r].pc = "warn", ![r].soon = @ + 1]
             ELSE [scan EXCEPT ![r].pc = "loop"]
  /\ UNCHANGED <<world, event, gauge, rec, expiring>>

ScanTrack(r) ==
  /\ scan[r].pc = "track"
  /\ track(r, scan[r].cur)
  /\ scan' = IF scan[r].cur.gen <= horizon
             THEN [scan EXCEPT ![r].pc = "warn", ![r].soon = @ + 1]
             ELSE [scan EXCEPT ![r].pc = "loop"]
  /\ UNCHANGED <<world, event, gauge, rec, expiring>>

(* warn: Create the Event, Patch it when it is already there. *)
WarnCreate(r) ==
  /\ scan[r].pc = "warn"
  /\ \/ /\ event[scan[r].cur.key] = 0
        /\ event' = [event EXCEPT ![scan[r].cur.key] = scan[r].cur.gen]
        /\ scan' = [scan EXCEPT ![r].pc = "loop"]
     \/ /\ event[scan[r].cur.key] # 0
        /\ scan' = [scan EXCEPT ![r].pc = "warnPatch"]
        /\ UNCHANGED event
  /\ UNCHANGED <<world, gauge, series, rec, expiring>>

WarnPatch(r) ==
  /\ scan[r].pc = "warnPatch"
  /\ event[scan[r].cur.key] # 0
  /\ event' = [event EXCEPT ![scan[r].cur.key] = scan[r].cur.gen]
  /\ scan' = [scan EXCEPT ![r].pc = "loop"]
  /\ UNCHANGED <<world, gauge, series, rec, expiring>>

(* Either call fails: the Event is gone again, or the API is. *)
WarnFails(r) ==
  /\ scan[r].pc \in {"warn", "warnPatch"}
  /\ scan' = [scan EXCEPT ![r].pc = "loop"]
  /\ UNCHANGED <<world, event, gauge, series, rec, expiring>>

(* A bug in which the series is dropped but its gauge is not. *)
PruneSeriesOnly(r) ==
  /\ scan[r].pc = "loop"
  /\ scan[r].todo = {}
  /\ series' = [series EXCEPT ![r] =
        [k \in Keys |-> IF k \in scan[r].seen \/ @[k] = "new" THEN @[k] ELSE "none"]]
  /\ expiring' = [expiring EXCEPT ![r] = scan[r].soon]
  /\ scan' = [scan EXCEPT ![r] = IdleScan]
  /\ UNCHANGED <<world, event, gauge, rec>>

(* The scan ends: CertsExpiringSoon is set and pruneSeries drops what was  *)
(* neither seen nor set since the scan started.                            *)
PruneSeries(r) ==
  /\ scan[r].pc = "loop"
  /\ scan[r].todo = {}
  /\ LET keep == scan[r].seen \cup {k \in Keys : series[r][k] = "new"}
         gone == {k \in Keys \ keep : series[r][k] # "none"}
     IN  /\ gauge' = [gauge EXCEPT ![r] = [k \in Keys |-> IF k \in gone THEN 0 ELSE @[k]]]
         /\ series' = [series EXCEPT ![r] =
                         [k \in Keys |-> IF k \in gone THEN "none" ELSE @[k]]]
  /\ expiring' = [expiring EXCEPT ![r] = scan[r].soon]
  /\ scan' = [scan EXCEPT ![r] = IdleScan]
  /\ UNCHANGED <<world, event, rec>>

---------------------------------------------------------------------------
(* CheckAndSet or an rke2 server writes the Secret; an operator deletes it *)
(* with its annotations; Events age out; time passes; replicas restart.    *)
WriteSecret(n, owner) ==
  /\ secret[n] = "absent"
  /\ secret' = [secret EXCEPT ![n] = owner]
  /\ UNCHANGED <<ann, issued, horizon, event, gauge, series, rec, scan, restarts, expiring>>

DeleteSecret(n) ==
  /\ secret[n] # "absent"
  /\ secret' = [secret EXCEPT ![n] = "absent"]
  /\ ann' = [k \in Keys |-> IF k[1] = n THEN 0 ELSE ann[k]]
  /\ UNCHANGED <<issued, horizon, event, gauge, series, rec, scan, restarts, expiring>>

ExpireEvent(k) ==
  /\ event[k] # 0
  /\ event' = [event EXCEPT ![k] = 0]
  /\ UNCHANGED <<world, gauge, series, rec, scan, expiring>>

TimePasses ==
  /\ horizon < issued
  /\ horizon < MaxHorizon
  /\ horizon' = horizon + 1
  /\ UNCHANGED <<secret, ann, issued, event, gauge, series, rec, scan, restarts, expiring>>

Restart(r) ==
  /\ restarts < MaxRestarts
  /\ restarts' = restarts + 1
  /\ gauge' = [gauge EXCEPT ![r] = [k \in Keys |-> 0]]
  /\ series' = [series EXCEPT ![r] = [k \in Keys |-> "none"]]
  /\ scan' = [scan EXCEPT ![r] = IdleScan]
  /\ rec' = [q \in Recorders |-> IF rec[q].rep = r THEN IdleRec ELSE rec[q]]
  /\ expiring' = [expiring EXCEPT ![r] = 0]
  /\ UNCHANGED <<secret, ann, issued, horizon, event>>

---------------------------------------------------------------------------
Init ==
  /\ secret = [n \in Nodes |-> "absent"]
  /\ ann = [k \in Keys |-> 0]
  /\ issued = 0
  /\ horizon = 0
  /\ event = [k \in Keys |-> 0]
  /\ gauge = [r \in Replicas |-> [k \in Keys |-> 0]]
  /\ series = [r \in Replicas |-> [k \in Keys |-> "none"]]
  /\ expiring = [r \in Replicas |-> 0]
  /\ rec = [q \in Recorders |-> IdleRec]
  /\ scan = [r \in Replicas |-> IdleScan]
  /\ restarts = 0

RecordStep(q) ==
  RecordSetGauge(q) \/ RecordTrack(q) \/ RecordPatch(q) \/ RecordPatchFails(q)

ScanStep(r) ==
  \/ ScanStart(r) \/ ScanList(r) \/ ScanListFails(r)
  \/ \E e \in scan[r].todo : ScanSetGauge(r, e)
  \/ ScanTrack(r) \/ WarnCreate(r) \/ WarnPatch(r) \/ WarnFails(r) \/ PruneSeries(r)

Environment ==
  \/ \E n \in Nodes : DeleteSecret(n) \/ \E owner \in {"shim", "rke2"} : WriteSecret(n, owner)
  \/ \E k \in Keys : ExpireEvent(k)
  \/ TimePasses
  \/ \E r \in Replicas : Restart(r)

Next ==
  \/ \E q \in Recorders, r \in Replicas, k \in Keys : Issue(q, r, k)
  \/ \E q \in Recorders : RecordStep(q)
  \/ \E r \in Replicas : ScanStep(r)
  \/ Environment

Spec == Init /\ [][Next]_vars

(* The ticker makes scans recur, goroutines that can run do, and the API   *)
(* does not fail every single time.                                        *)
FairSpec ==
  /\ Spec
  /\ \A q \in Recorders : WF_vars(RecordStep(q))
  /\ \A r \in Replicas : /\ WF_vars(ScanStep(r))
                         /\ SF_vars(ScanList(r))
                         /\ SF_vars(WarnCreate(r))

---------------------------------------------------------------------------
(* Somebody in replica r is between setSeries' two writes for key k. *)
SettingSeries(r, k) ==
  \/ \E q \in Recorders : rec[q].pc = "track" /\ rec[q].rep = r /\ rec[q].at.key = k
  \/ scan[r].pc = "track" /\ scan[r].cur.key = k

(* Whatever the interleaving of setSeries and pruneSeries, an exported     *)
(* series is known to the tracker, so that some later scan can remove it.  *)
NoOrphanSeries ==
  \A r \in Replicas, k \in Keys :
    gauge[r][k] # 0 => series[r][k] # "none" \/ SettingSeries(r, k)

(* A decommissioned node stops alerting: once its Secret is gone for good  *)
(* every replica drops its series, whatever was in flight.                 *)
GoneNodesAreForgotten ==
  \A r \in Replicas, k \in Keys :
    <>[](secret[k[1]] = "absent") => <>[](gauge[r][k] = 0)

(* A replica that did not issue a certificate, or whose scan overwrote the *)
(* newer value with the one it had listed, ends up exporting the annotated *)
(* expiry of every enrolled node.                                          *)
GaugesConverge ==
  \A r \in Replicas, k \in Keys, g \in 1 .. MaxGen :
    <>[](secret[k[1]] = "shim" /\ ann[k] = g) => <>[](gauge[r][k] = g)

(* CertsExpiringSoon settles on the number of listed certificates that are *)
(* inside the window, in every replica.                                    *)
ExpiringSoonConverges ==
  \A r \in Replicas, due \in SUBSET Keys :
    <>[]({k \in Listed : ann[k] <= horizon} = due) => <>[](expiring[r] = Cardinality(due))

(* A certificate recorded on a Secret the shim wrote is warned about, over *)
(* and over, once it is inside the window.                                 *)
EnrolledNodesAreWarned ==
  \A k \in Keys :
    <>[](secret[k[1]] = "shim" /\ ann[k] \in 1 .. horizon) => []<>(event[k] # 0)

---------------------------------------------------------------------------
(* certificates.md: the expiry of every issuance is recorded on the node's *)
(* existing Secret, and a scan emits the event: adopted Secrets included.  *)
AdoptedNodesAreWarned ==
  \A k \in Keys :
    <>[](secret[k[1]] = "rke2" /\ ann[k] \in 1 .. horizon) => []<>(event[k] # 0)

(* tracker.go: a series recorded after a scan's List started is kept. *)
RecordedSeriesAreKept ==
  \A r \in Replicas, k \in Keys :
    series[r][k] = "new" /\ ~SettingSeries(r, k) => gauge[r][k] # 0
===========================================================================
