------------------------ MODULE ExpiryTrackerProofs ------------------------
(***************************************************************************)
(* No exported series escapes the tracker, for every number of replicas,   *)
(* nodes, certificate kinds and concurrent RecordIssued calls.             *)
(***************************************************************************)
EXTENDS ExpiryTracker, TLAPS

Entry == [key : Keys, gen : Nat]
RecCall == [pc : {"idle", "setGauge", "track", "patch"}, rep : Replicas, at : Entry]
ScanState == [pc : {"idle", "list", "loop", "track", "warn", "warnPatch"},
              seen : SUBSET Keys, todo : SUBSET Entry, cur : Entry, soon : Nat]

(* Type correctness of the goroutines and of every replica's series. *)
Typed ==
  /\ ann \in [Keys -> Nat] /\ issued \in Nat
  /\ gauge \in [Replicas -> [Keys -> Nat]]
  /\ series \in [Replicas -> [Keys -> {"none", "old", "new"}]]
  /\ rec \in [Recorders -> RecCall]
  /\ scan \in [Replicas -> ScanState]

IInv == Typed /\ NoOrphanSeries

(* The goroutines that are between setSeries' two writes stay there. *)
StillSetting ==
  /\ \A q \in Recorders : rec[q].pc = "track" => rec'[q] = rec[q]
  /\ \A r \in Replicas :
       scan[r].pc = "track" => scan'[r].pc = "track" /\ scan'[r].cur = scan[r].cur

---------------------------------------------------------------------------
LEMMA IdleTyped == NoEntry \in Entry /\ IdleScan \in ScanState /\ IdleRec \in RecCall
<1>1. Keys # {} /\ Replicas # {}
  <2>1. PICK n \in Nodes, k \in Kinds : TRUE
    BY DeployedAssumption
  <2>2. <<n, k>> \in Keys
    BY DEF Keys
  <2> QED
    BY <2>2, DeployedAssumption
<1>2. (CHOOSE k \in Keys : TRUE) \in Keys /\ (CHOOSE r \in Replicas : TRUE) \in Replicas
  BY <1>1
<1>3. NoEntry \in Entry
  BY <1>2 DEF NoEntry, Entry
<1> QED
  BY <1>2, <1>3 DEF IdleScan, IdleRec, ScanState, RecCall

LEMMA InitOK == Init => IInv
  BY IdleTyped DEF Init, IInv, Typed, NoOrphanSeries

(* A step that keeps the gauges, forgets no series and ends no setSeries. *)
LEMMA QuietStep ==
  ASSUME IInv, StillSetting, gauge' = gauge,
         \A r \in Replicas, k \in Keys : series[r][k] # "none" => series'[r][k] # "none"
  PROVE  NoOrphanSeries'
BY DEF IInv, NoOrphanSeries, StillSetting, SettingSeries

LEMMA IssueStep ==
  ASSUME IInv, NEW q \in Recorders, NEW r \in Replicas, NEW k \in Keys, Issue(q, r, k)
  PROVE  IInv'
<1>1. [pc |-> "setGauge", rep |-> r, at |-> [key |-> k, gen |-> issued + 1]] \in RecCall
  BY DEF IInv, Typed, RecCall, Entry
<1>2. Typed'
  BY <1>1 DEF IInv, Typed, Issue
<1>3. StillSetting
  BY DEF Issue, StillSetting, IInv, Typed
<1> QED
  BY <1>2, <1>3, QuietStep DEF IInv, Issue

(* setSeries' first write, by either goroutine. *)
LEMMA SetGaugeStep ==
  ASSUME IInv, NEW r \in Replicas, NEW e \in Entry, setGauge(r, e), UNCHANGED series,
         SettingSeries(r, e.key)', StillSetting
  PROVE  gauge' \in [Replicas -> [Keys -> Nat]] /\ NoOrphanSeries'
<1>1. gauge' \in [Replicas -> [Keys -> Nat]]
  BY DEF IInv, Typed, setGauge, Entry
<1>2. ASSUME NEW s \in Replicas, NEW k \in Keys, gauge'[s][k] # 0
      PROVE  series'[s][k] # "none" \/ SettingSeries(s, k)'
  <2>1. CASE s = r /\ k = e.key
    BY <2>1
  <2>2. CASE ~(s = r /\ k = e.key)
    <3>1. gauge[s][k] # 0
      BY <1>2, <2>2 DEF setGauge, IInv, Typed, Entry
    <3> QED
      BY <3>1 DEF IInv, NoOrphanSeries, StillSetting, SettingSeries
  <2> QED
    BY <2>1, <2>2
<1> QED
  BY <1>1, <1>2 DEF NoOrphanSeries

(* setSeries' second write, by either goroutine. *)
LEMMA TrackStep ==
  ASSUME IInv, NEW r \in Replicas, NEW e \in Entry, track(r, e), UNCHANGED gauge,
         \A s \in Replicas, k \in Keys :
           SettingSeries(s, k) => SettingSeries(s, k)' \/ (s = r /\ k = e.key)
  PROVE  /\ series' \in [Replicas -> [Keys -> {"none", "old", "new"}]]
         /\ NoOrphanSeries'
<1>1. /\ series' \in [Replicas -> [Keys -> {"none", "old", "new"}]]
      /\ \A s \in Replicas, k \in Keys :
           series'[s][k] = IF s = r /\ k = e.key THEN "new" ELSE series[s][k]
  BY DEF IInv, Typed, track, Entry
<1> QED
  BY <1>1 DEF IInv, NoOrphanSeries

LEMMA RecordSetGaugeStep ==
  ASSUME IInv, NEW q \in Recorders, RecordSetGauge(q)
  PROVE  IInv'
<1>1. rec[q] \in RecCall /\ rec[q].rep \in Replicas /\ rec[q].at \in Entry
  BY DEF IInv, Typed, RecCall
<1>2. /\ rec' \in [Recorders -> RecCall]
      /\ rec'[q].pc = "track" /\ rec'[q].rep = rec[q].rep /\ rec'[q].at = rec[q].at
      /\ \A p \in Recorders \ {q} : rec'[p] = rec[p]
  BY DEF RecordSetGauge, IInv, Typed, RecCall
<1>3. SettingSeries(rec[q].rep, rec[q].at.key)' /\ StillSetting
  BY <1>2 DEF RecordSetGauge, SettingSeries, StillSetting
<1>4. gauge' \in [Replicas -> [Keys -> Nat]] /\ NoOrphanSeries'
  BY <1>1, <1>3, SetGaugeStep DEF RecordSetGauge
<1> QED
  BY <1>2, <1>4 DEF RecordSetGauge, IInv, Typed, world

LEMMA RecordTrackStep ==
  ASSUME IInv, NEW q \in Recorders, RecordTrack(q)
  PROVE  IInv'
<1>1. rec[q] \in RecCall /\ rec[q].rep \in Replicas /\ rec[q].at \in Entry
  BY DEF IInv, Typed, RecCall
<1>2. /\ rec' \in [Recorders -> RecCall]
      /\ \A p \in Recorders \ {q} : rec'[p] = rec[p]
  BY DEF RecordTrack, IInv, Typed, RecCall
<1>3. \A s \in Replicas, k \in Keys :
        SettingSeries(s, k) => SettingSeries(s, k)' \/ (s = rec[q].rep /\ k = rec[q].at.key)
  BY <1>2 DEF RecordTrack, SettingSeries
<1>4. series' \in [Replicas -> [Keys -> {"none", "old", "new"}]] /\ NoOrphanSeries'
  BY <1>1, <1>3, TrackStep DEF RecordTrack
<1> QED
  BY <1>2, <1>4 DEF RecordTrack, IInv, Typed, world

LEMMA RecordPatchStep ==
  ASSUME IInv, NEW q \in Recorders, RecordPatch(q) \/ RecordPatchFails(q)
  PROVE  IInv'
<1>1. /\ rec[q].pc = "patch" /\ rec' = [rec EXCEPT ![q] = IdleRec]
      /\ UNCHANGED <<issued, gauge, series, scan>>
  BY DEF RecordPatch, RecordPatchFails, world
<1>2. rec[q].at \in Entry
  BY DEF IInv, Typed, RecCall
<1>3. ann' \in [Keys -> Nat]
  BY <1>2 DEF RecordPatch, RecordPatchFails, world, IInv, Typed, Entry
<1>4. Typed'
  BY <1>1, <1>3, IdleTyped DEF IInv, Typed
<1>5. StillSetting
  BY <1>1 DEF StillSetting, IInv, Typed
<1> QED
  BY <1>1, <1>4, <1>5, QuietStep DEF IInv

---------------------------------------------------------------------------
LEMMA ScanStartStep ==
  ASSUME IInv, NEW r \in Replicas, ScanStart(r)
  PROVE  IInv'
<1>1. /\ scan' \in [Replicas -> ScanState]
      /\ \A s \in Replicas \ {r} : scan'[s] = scan[s]
  BY DEF ScanStart, IInv, Typed, ScanState
<1>2. /\ series' \in [Replicas -> [Keys -> {"none", "old", "new"}]]
      /\ \A s \in Replicas, k \in Keys : series[s][k] # "none" => series'[s][k] # "none"
  BY DEF ScanStart, IInv, Typed
<1>3. Typed' /\ StillSetting
  BY <1>1, <1>2 DEF ScanStart, IInv, Typed, StillSetting, world
<1> QED
  BY <1>2, <1>3, QuietStep DEF ScanStart, IInv

(* The steps of a scan that touch neither a gauge nor a series. *)
LEMMA ScanQuietStep ==
  ASSUME IInv, NEW r \in Replicas,
         ScanList(r) \/ ScanListFails(r) \/ WarnCreate(r) \/ WarnPatch(r) \/ WarnFails(r)
  PROVE  IInv'
<1>1. scan[r].pc # "track" /\ UNCHANGED <<world, gauge, series, rec>>
  BY DEF ScanList, ScanListFails, WarnCreate, WarnPatch, WarnFails
<1>2. /\ scan' \in [Replicas -> ScanState]
      /\ \A s \in Replicas \ {r} : scan'[s] = scan[s]
  <2>1. CASE ScanList(r)
    <3>1. Listed \in SUBSET Keys
      BY DEF Listed
    <3>2. {[key |-> k, gen |-> ann[k]] : k \in Listed} \in SUBSET Entry
      BY <3>1 DEF IInv, Typed, Entry
    <3> DEFINE S == [pc |-> "loop", seen |-> Listed, cur |-> NoEntry, soon |-> 0,
                     todo |-> {[key |-> k, gen |-> ann[k]] : k \in Listed}]
    <3>3. S \in ScanState
      BY <3>1, <3>2, IdleTyped DEF ScanState
    <3> HIDE DEF S
    <3>4. scan' = [scan EXCEPT ![r] = S]
      BY <2>1 DEF ScanList, S
    <3> QED
      BY <3>3, <3>4 DEF IInv, Typed
  <2>2. CASE ScanListFails(r)
    BY <2>2, IdleTyped DEF ScanListFails, IInv, Typed
  <2>3. CASE WarnCreate(r) \/ WarnPatch(r) \/ WarnFails(r)
    <3>1. CASE scan' = [scan EXCEPT ![r].pc = "loop"]
      BY <3>1 DEF IInv, Typed, ScanState
    <3>2. CASE scan' = [scan EXCEPT ![r].pc = "warnPatch"]
      BY <3>2 DEF IInv, Typed, ScanState
    <3> QED
      BY <2>3, <3>1, <3>2 DEF WarnCreate, WarnPatch, WarnFails
  <2> QED
    BY <2>1, <2>2, <2>3
<1>3. Typed' /\ StillSetting
  BY <1>1, <1>2 DEF IInv, Typed, StillSetting, world
<1> QED
  BY <1>1, <1>3, QuietStep DEF IInv

LEMMA ScanSetGaugeStep ==
  ASSUME IInv, NEW r \in Replicas, NEW e \in scan[r].todo, ScanSetGauge(r, e)
  PROVE  IInv'
<1>1. scan[r] \in ScanState /\ e \in Entry
  BY DEF IInv, Typed, ScanState
<1>2. /\ scan' \in [Replicas -> ScanState]
      /\ scan'[r].pc = "track" /\ scan'[r].cur = e
      /\ \A s \in Replicas \ {r} : scan'[s] = scan[s]
  BY <1>1 DEF ScanSetGauge, IInv, Typed, ScanState
<1>3. SettingSeries(r, e.key)' /\ StillSetting
  BY <1>2 DEF ScanSetGauge, SettingSeries, StillSetting
<1>4. gauge' \in [Replicas -> [Keys -> Nat]] /\ NoOrphanSeries'
  BY <1>1, <1>3, SetGaugeStep DEF ScanSetGauge
<1> QED
  BY <1>2, <1>4 DEF ScanSetGauge, IInv, Typed, world

LEMMA ScanTrackStep ==
  ASSUME IInv, NEW r \in Replicas, ScanTrack(r)
  PROVE  IInv'
<1>1. scan[r] \in ScanState /\ scan[r].cur \in Entry
  BY DEF IInv, Typed, ScanState
<1>2. /\ scan' \in [Replicas -> ScanState]
      /\ \A s \in Replicas \ {r} : scan'[s] = scan[s]
  <2>1. CASE scan' = [scan EXCEPT ![r].pc = "warn", ![r].soon = @ + 1]
    BY <2>1 DEF IInv, Typed, ScanState
  <2>2. CASE scan' = [scan EXCEPT ![r].pc = "loop"]
    BY <2>2 DEF IInv, Typed, ScanState
  <2> QED
    BY <2>1, <2>2 DEF ScanTrack
<1>3. \A s \in Replicas, k \in Keys :
        SettingSeries(s, k) => SettingSeries(s, k)' \/ (s = r /\ k = scan[r].cur.key)
  BY <1>2 DEF ScanTrack, SettingSeries
<1>4. series' \in [Replicas -> [Keys -> {"none", "old", "new"}]] /\ NoOrphanSeries'
  BY <1>1, <1>3, TrackStep DEF ScanTrack
<1> QED
  BY <1>2, <1>4 DEF ScanTrack, IInv, Typed, world

(* pruneSeries deletes the gauge of every series it forgets. *)
LEMMA PruneStep ==
  ASSUME IInv, NEW r \in Replicas, PruneSeries(r)
  PROVE  IInv'
<1> DEFINE keep == scan[r].seen \cup {k \in Keys : series[r][k] = "new"}
           gone == {k \in Keys \ keep : series[r][k] # "none"}
<1>1. /\ gauge' = [gauge EXCEPT ![r] = [k \in Keys |-> IF k \in gone THEN 0 ELSE @[k]]]
      /\ series' = [series EXCEPT ![r] = [k \in Keys |-> IF k \in gone THEN "none" ELSE @[k]]]
      /\ scan' = [scan EXCEPT ![r] = IdleScan] /\ scan[r].pc = "loop"
      /\ UNCHANGED <<world, rec>>
  BY DEF PruneSeries
<1> HIDE DEF gone
<1>2. Typed'
  BY <1>1, IdleTyped DEF IInv, Typed, world
<1>3. ASSUME NEW s \in Replicas, NEW k \in Keys
      PROVE  /\ SettingSeries(s, k) => SettingSeries(s, k)'
             /\ \/ gauge'[s][k] = 0
                \/ gauge'[s][k] = gauge[s][k] /\ series'[s][k] = series[s][k]
  BY <1>1 DEF IInv, Typed, SettingSeries
<1> QED
  BY <1>2, <1>3 DEF IInv, NoOrphanSeries

---------------------------------------------------------------------------
(* A replica restarts with no series and without its goroutines. *)
LEMMA RestartStep ==
  ASSUME IInv, NEW r \in Replicas, Restart(r)
  PROVE  IInv'
<1>1. Typed'
  BY IdleTyped DEF Restart, IInv, Typed
<1>2. ASSUME NEW s \in Replicas, NEW k \in Keys, gauge'[s][k] # 0
      PROVE  series'[s][k] # "none" \/ SettingSeries(s, k)'
  <2>1. s # r /\ gauge'[s] = gauge[s] /\ series'[s] = series[s] /\ scan'[s] = scan[s]
    BY <1>2 DEF Restart, IInv, Typed
  <2>2. \A q \in Recorders : rec[q].rep = s => rec'[q] = rec[q]
    BY <2>1 DEF Restart
  <2> QED
    BY <1>2, <2>1, <2>2 DEF IInv, NoOrphanSeries, SettingSeries
<1> QED
  BY <1>1, <1>2 DEF IInv, NoOrphanSeries

(* Secrets, Events and the clock. *)
LEMMA OutsideStep ==
  ASSUME IInv,
         \/ \E n \in Nodes : DeleteSecret(n) \/ \E o \in {"shim", "rke2"} : WriteSecret(n, o)
         \/ \E k \in Keys : ExpireEvent(k)
         \/ TimePasses
         \/ UNCHANGED vars
  PROVE  IInv'
<1>1. UNCHANGED <<issued, gauge, series, rec, scan>>
  BY DEF DeleteSecret, WriteSecret, ExpireEvent, TimePasses, vars, world
<1>2. ann' \in [Keys -> Nat]
  BY DEF DeleteSecret, WriteSecret, ExpireEvent, TimePasses, vars, world, IInv, Typed
<1>3. Typed' /\ StillSetting
  BY <1>1, <1>2 DEF IInv, Typed, StillSetting
<1> QED
  BY <1>1, <1>3, QuietStep DEF IInv

LEMMA StepOK == IInv /\ [Next]_vars => IInv'
<1> SUFFICES ASSUME IInv, [Next]_vars PROVE IInv'
  OBVIOUS
<1>1. CASE \E q \in Recorders : RecordStep(q)
  BY <1>1, RecordSetGaugeStep, RecordTrackStep, RecordPatchStep DEF RecordStep
<1>2. CASE \E r \in Replicas : ScanStep(r)
  BY <1>2, ScanStartStep, ScanQuietStep, ScanSetGaugeStep, ScanTrackStep, PruneStep
  DEF ScanStep
<1>3. CASE Environment \/ UNCHANGED vars
  BY <1>3, OutsideStep, RestartStep DEF Environment
<1> QED
  BY <1>1, <1>2, <1>3, IssueStep DEF Next

(* setSeries and pruneSeries: although the gauge is written outside the    *)
(* mutex, no interleaving of any number of requests and scans leaves a     *)
(* series that the tracker does not know and will never remove.            *)
THEOREM NoOrphans == Spec => []NoOrphanSeries
<1>1. IInv => NoOrphanSeries
  BY DEF IInv
<1> QED
  BY <1>1, InitOK, StepOK, PTL DEF Spec
=============================================================================
