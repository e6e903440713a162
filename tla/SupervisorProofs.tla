-------------------------- MODULE SupervisorProofs --------------------------
(***************************************************************************)
(* One replica of the shim, for every set of requests, options, passwords  *)
(* and control planes and every logging interval: who is answered, with    *)
(* which configuration and which list, and how refusals are logged.        *)
(***************************************************************************)
EXTENDS Supervisor, TLAPS

Requests == [pc : {"idle", "denied", "builds", "waits"},
             pass : Passwords \cup {NoAuth}, stamp : 0 .. MaxClock]

(* A process has the token its options name; a request past auth has it.   *)
TokenInv ==
  /\ proc # "down" => opt \in Options /\ MayStart(opt) /\ token = resolveToken(opt)
  /\ \A r \in R : req[r].pc # "idle" => proc # "down"
  /\ \A r \in R : req[r].pc \in {"builds", "waits"} => req[r].pass = token
  /\ reply.kind \notin {"none", "401", "ca"} => proc # "down" /\ reply.pass = token

(* What is there while once is new, running and done. *)
ConfigInv ==
  /\ proc = "down" => once = "new"
  /\ once \in {"new", "running"} => agent = NilMap
  /\ agent \in {NilMap, {"ours"}, {"captured", "ours"}}
  /\ once = "done" /\ opt.template = "object" => agent = {"captured", "ours"}
  /\ once = "done" /\ opt.template = "other" => agent = {"ours"}

(* One request builds, and only while the Once is running. *)
OneBuilds ==
  \A r \in R : req[r].pc = "builds" =>
    once = "running" /\ \A s \in R \ {r} : req[s].pc # "builds"

StaticInv == proc # "down" /\ ~discover(opt) => advertised = splitCSV(opt)

(* Stamps are from the past, and a line is logged at a stamp. *)
LimiterInv ==
  /\ clock \in 1 .. MaxClock
  /\ last \in 0 .. clock
  /\ suppressed \in Nat /\ warned \in Nat /\ reported \in Nat /\ denied \in Nat
  /\ last = 0 <=> warned = 0
  /\ \A r \in R : req[r].pc = "denied" => req[r].stamp \in 1 .. clock

Typed ==
  /\ req \in [R -> Requests]
  /\ proc \in {"down", "started", "serving"} /\ opt \in Options
  /\ once \in {"new", "running", "done"}
  /\ DiscoveryTypeOK
  /\ discover(opt) => advertised \subseteq CPs \ Unusable

Counting == EveryRefusalCounted /\ WarnRateBounded

Answers == OnlyTokenHoldersAnswered /\ ConfigAnswers /\ StaticListAnswered

IInv ==
  /\ Typed /\ TokenInv /\ ConfigInv /\ OneBuilds /\ StaticInv
  /\ LimiterInv /\ Counting /\ Answers

---------------------------------------------------------------------------
(* A process that discovers starts without a list. *)
LEMMA NothingGiven == \A o : discover(o) => splitCSV(o) = {}
BY DEF discover, splitCSV, Range

(* resolveToken: a process that starts has a token that is no empty        *)
(* password, and it is the file's when a file is named, else --token's     *)
(* when that is given.                                                     *)
LEMMA TokenIsConfigured ==
  ASSUME NEW o \in Options, MayStart(o)
  PROVE  /\ resolveToken(o) \notin {"", NoAuth}
         /\ tokenFile(o) # "" => resolveToken(o) = TrimSpace[tokenFile(o)]
         /\ tokenFile(o) = "" /\ o.tokenFlag \notin {NotGiven, ""} =>
              resolveToken(o) = TrimSpace[o.tokenFlag]
<1>1. resolveToken(o) # Refused
  BY DEF MayStart
<1>2. /\ tokenFile(o) \in DOMAIN TrimSpace \cup {Unreadable}
      /\ tokenText(o) \in DOMAIN TrimSpace
  BY OptionsAssumption DEF tokenFile, tokenText, Setting
<1>3. ASSUME NEW text \in DOMAIN TrimSpace
      PROVE  Token(text) # Refused => Token(text) = TrimSpace[text] /\ Token(text) \notin {"", NoAuth}
  BY NoAuthAssumption DEF Token
<1>u. Unreadable # ""
  BY TrimAssumption
<1>4. CASE tokenFile(o) = Unreadable
  <2>1. resolveToken(o) = Refused
    BY <1>4, <1>u DEF resolveToken
  <2> QED
    BY <1>1, <2>1
<1>5. CASE tokenFile(o) = "" /\ tokenFile(o) # Unreadable
  <2>1. resolveToken(o) = Token(tokenText(o))
    BY <1>5 DEF resolveToken
  <2>2. o.tokenFlag \notin {NotGiven, ""} => tokenText(o) = o.tokenFlag
    BY DEF tokenText
  <2> QED
    BY <1>1, <1>2, <1>3, <1>5, <2>1, <2>2
<1>6. CASE tokenFile(o) # "" /\ tokenFile(o) # Unreadable
  <2>1. resolveToken(o) = Token(tokenFile(o))
    BY <1>6 DEF resolveToken
  <2> QED
    BY <1>1, <1>2, <1>3, <1>6, <2>1
<1> QED
  BY <1>4, <1>5, <1>6

(* buildAgentConfig: whatever the template, the configuration is this      *)
(* cluster's and carries no captured IPsec key; an object is kept.         *)
LEMMA BuiltConfig ==
  ASSUME NEW template \in Templates
  PROVE  /\ Unmarshal(template) # NilMap =>
              Scrub(Override(Unmarshal(template))) \in {{"ours"}, {"captured", "ours"}}
         /\ template = "object" =>
              /\ Unmarshal(template) # NilMap
              /\ Scrub(Override(Unmarshal(template))) = {"captured", "ours"}
         /\ template = "other" =>
              /\ Unmarshal(template) # NilMap
              /\ Scrub(Override(Unmarshal(template))) = {"ours"}
<1>1. CASE template = "object"
  <2>1. Unmarshal(template) = {"captured", "psk"}
    BY <1>1 DEF Unmarshal
  <2>2. "captured" # "nil" /\ {"captured", "psk"} # NilMap
    BY DEF NilMap
  <2>3. Scrub(Override({"captured", "psk"})) = {"captured", "ours"}
    BY DEF Scrub, Override
  <2> QED
    BY <1>1, <2>1, <2>2, <2>3
<1>2. CASE template = "other"
  <2>1. Unmarshal(template) = {}
    BY <1>2 DEF Unmarshal
  <2>2. Scrub(Override({})) = {"ours"} /\ {} # NilMap
    BY DEF Scrub, Override, NilMap
  <2> QED
    BY <1>2, <2>1, <2>2
<1>3. CASE template = "null"
  BY <1>3 DEF Unmarshal
<1> QED
  BY <1>1, <1>2, <1>3 DEF Templates

(* One more line at least an interval after the last one. *)
LEMMA OneMoreInterval ==
  ASSUME NEW w \in Nat, NEW l \in Nat, NEW t \in Nat,
         w # 0, (w - 1) * Every < l, t >= l + Every
  PROVE  w * Every < t
<1>1. w * Every = (w - 1) * Every + Every
  BY LimiterAssumption
<1>2. (w - 1) * Every \in Int
  BY LimiterAssumption
<1> QED
  BY <1>1, <1>2, LimiterAssumption

(* A request that is over is a request like any other. *)
LEMMA IdleTyped == Idle \in Requests /\ Idle.pc = "idle"
BY LimiterAssumption DEF Idle, At, Requests

LEMMA InitOK == Init => IInv
<1> SUFFICES ASSUME Init PROVE IInv
  OBVIOUS
<1>1. Typed
  BY IdleTyped DEF Init, Typed, DiscoveryInit, DiscoveryTypeOK, ConfigInit
<1>2. TokenInv /\ ConfigInv /\ OneBuilds /\ StaticInv
  BY IdleTyped DEF Init, TokenInv, ConfigInv, OneBuilds, StaticInv, ConfigInit, NoReply
<1>3. LimiterInv /\ Counting
  <2>0. LimiterInit /\ \A r \in R : req[r].pc # "denied"
    BY IdleTyped DEF Init
  <2>1. LimiterInv
    BY <2>0, LimiterAssumption DEF LimiterInit, LimiterInv
  <2>2. Counting
    BY <2>0 DEF LimiterInit, Counting, EveryRefusalCounted, WarnRateBounded
  <2> QED
    BY <2>1, <2>2
<1>4. Answers
  BY DEF Init, Answers, OnlyTokenHoldersAnswered, ConfigAnswers, StaticListAnswered, NoReply
<1> QED
  BY <1>1, <1>2, <1>3, <1>4 DEF IInv


(* main with options that pass its checks. *)
LEMMA StartStep ==
  ASSUME IInv, NEW o \in Options, Start(o)
  PROVE  IInv'
<1>1. Typed'
  BY NothingGiven
  DEF IInv, Typed, DiscoveryTypeOK, Requests, CPStates, Start, pvars, avars, lvars, counts,
      dvars
<1>2. TokenInv' /\ ConfigInv' /\ OneBuilds' /\ StaticInv'
  BY DEF IInv, Typed, TokenInv, ConfigInv, OneBuilds, StaticInv, NoReply, Reply, Start,
         pvars, avars, lvars, counts, dvars
<1>3. LimiterInv' /\ Counting'
  BY DEF IInv, LimiterInv, Counting, EveryRefusalCounted, WarnRateBounded, Typed, Requests,
         Start, pvars, avars, lvars, counts, dvars
<1>4. Answers'
  BY DEF IInv, Answers, OnlyTokenHoldersAnswered, ConfigAnswers, StaticListAnswered,
         NoReply, Reply, Start, pvars, avars, lvars, counts, dvars
<1> QED
  BY <1>1, <1>2, <1>3, <1>4 DEF IInv


(* The port is bound. *)
LEMMA ListenStep ==
  ASSUME IInv, Listen
  PROVE  IInv'
<1>1. Typed'
  BY DEF IInv, Typed, DiscoveryTypeOK, Requests, CPStates, Listen, pvars, avars, lvars,
         counts, dvars
<1>2. TokenInv' /\ ConfigInv' /\ OneBuilds' /\ StaticInv'
  BY DEF IInv, Typed, TokenInv, ConfigInv, OneBuilds, StaticInv, NoReply, Reply, Listen,
         pvars, avars, lvars, counts, dvars
<1>3. LimiterInv' /\ Counting'
  BY DEF IInv, LimiterInv, Counting, EveryRefusalCounted, WarnRateBounded, Typed, Requests,
         Listen, pvars, avars, lvars, counts, dvars
<1>4. Answers'
  BY DEF IInv, Answers, OnlyTokenHoldersAnswered, ConfigAnswers, StaticListAnswered,
         NoReply, Reply, Listen, pvars, avars, lvars, counts, dvars
<1> QED
  BY <1>1, <1>2, <1>3, <1>4 DEF IInv


(* A refresh, which a static list does not have. *)
LEMMA RefreshStep ==
  ASSUME IInv, Refresh
  PROVE  IInv'
<1>1. Typed'
  BY DEF IInv, Typed, DiscoveryTypeOK, Requests, CPStates, Refresh, DiscoveryStep, List,
         SetAPIServers, Reachable, pvars, avars, lvars, counts, dvars
<1>2. TokenInv' /\ ConfigInv' /\ OneBuilds' /\ StaticInv'
  BY DEF IInv, Typed, TokenInv, ConfigInv, OneBuilds, StaticInv, NoReply, Reply, Refresh,
         DiscoveryStep, List, SetAPIServers, Reachable, pvars, avars, lvars, counts, dvars
<1>3. LimiterInv' /\ Counting'
  BY DEF IInv, LimiterInv, Counting, EveryRefusalCounted, WarnRateBounded, Typed, Requests,
         Refresh, DiscoveryStep, List, SetAPIServers, Reachable, pvars, avars, lvars,
         counts, dvars
<1>4. Answers'
  BY DEF IInv, Answers, OnlyTokenHoldersAnswered, ConfigAnswers, StaticListAnswered,
         NoReply, Reply, Refresh, DiscoveryStep, List, SetAPIServers, Reachable, pvars,
         avars, lvars, counts, dvars
<1> QED
  BY <1>1, <1>2, <1>3, <1>4 DEF IInv


(* Control planes come and go. *)
LEMMA ControlPlaneStep ==
  ASSUME IInv, ControlPlaneChange
  PROVE  IInv'
<1>1. Typed'
  BY DEF IInv, Typed, DiscoveryTypeOK, Requests, CPStates, ControlPlaneChange, ChangeCP,
         pvars, avars, lvars, counts, dvars
<1>2. TokenInv' /\ ConfigInv' /\ OneBuilds' /\ StaticInv'
  BY DEF IInv, Typed, TokenInv, ConfigInv, OneBuilds, StaticInv, NoReply, Reply,
         ControlPlaneChange, ChangeCP, pvars, avars, lvars, counts, dvars
<1>3. LimiterInv' /\ Counting'
  BY DEF IInv, LimiterInv, Counting, EveryRefusalCounted, WarnRateBounded, Typed, Requests,
         ControlPlaneChange, ChangeCP, pvars, avars, lvars, counts, dvars
<1>4. Answers'
  BY DEF IInv, Answers, OnlyTokenHoldersAnswered, ConfigAnswers, StaticListAnswered,
         NoReply, Reply, ControlPlaneChange, ChangeCP, pvars, avars, lvars, counts, dvars
<1> QED
  BY <1>1, <1>2, <1>3, <1>4 DEF IInv


(* Time passes. *)
LEMMA TickStep ==
  ASSUME IInv, Tick
  PROVE  IInv'
<1>1. Typed'
  BY DEF IInv, Typed, DiscoveryTypeOK, Requests, CPStates, Tick, ClockTicks, pvars, avars,
         lvars, counts, dvars
<1>2. TokenInv' /\ ConfigInv' /\ OneBuilds' /\ StaticInv'
  BY DEF IInv, Typed, TokenInv, ConfigInv, OneBuilds, StaticInv, NoReply, Reply, Tick,
         ClockTicks, pvars, avars, lvars, counts, dvars
<1>3. LimiterInv' /\ Counting'
  BY LimiterAssumption
  DEF IInv, LimiterInv, Counting, EveryRefusalCounted, WarnRateBounded, Typed, Requests,
      Tick, ClockTicks, pvars, avars, lvars, counts, dvars
<1>4. Answers'
  BY DEF IInv, Answers, OnlyTokenHoldersAnswered, ConfigAnswers, StaticListAnswered,
         NoReply, Reply, Tick, ClockTicks, pvars, avars, lvars, counts, dvars
<1> QED
  BY <1>1, <1>2, <1>3, <1>4 DEF IInv


(* handleCACerts. *)
LEMMA CACertsStep ==
  ASSUME IInv, NEW r \in R, handleCACerts(r)
  PROVE  IInv'
<1>1. Typed'
  BY DEF IInv, Typed, DiscoveryTypeOK, Requests, CPStates, handleCACerts, pvars, avars,
         lvars, counts, dvars
<1>2. TokenInv' /\ ConfigInv' /\ OneBuilds' /\ StaticInv'
  BY DEF IInv, Typed, TokenInv, ConfigInv, OneBuilds, StaticInv, NoReply, Reply,
         handleCACerts, pvars, avars, lvars, counts, dvars
<1>3. LimiterInv' /\ Counting'
  BY DEF IInv, LimiterInv, Counting, EveryRefusalCounted, WarnRateBounded, Typed, Requests,
         handleCACerts, pvars, avars, lvars, counts, dvars
<1>4. Answers'
  BY DEF IInv, Answers, OnlyTokenHoldersAnswered, ConfigAnswers, StaticListAnswered,
         NoReply, Reply, handleCACerts, pvars, avars, lvars, counts, dvars
<1> QED
  BY <1>1, <1>2, <1>3, <1>4 DEF IInv


(* auth refuses and reads the clock. *)
LEMMA DenyStep ==
  ASSUME IInv, NEW r \in R, NEW pass \in Passwords, Deny(r, pass)
  PROVE  IInv'
<1>1. Typed'
  BY LimiterAssumption
  DEF IInv, Typed, DiscoveryTypeOK, Requests, CPStates, Deny, Arrives, Idle, At, Goto,
      LimiterInv, pvars, avars, lvars, counts, dvars
<1>2. TokenInv' /\ ConfigInv' /\ OneBuilds' /\ StaticInv'
  BY DEF IInv, Typed, TokenInv, ConfigInv, OneBuilds, StaticInv, NoReply, Reply, Deny,
         Arrives, Idle, At, Goto, LimiterInv, pvars, avars, lvars, counts, dvars
<1>3. LimiterInv' /\ Counting'
  BY LimiterAssumption
  DEF IInv, LimiterInv, Counting, EveryRefusalCounted, WarnRateBounded, Typed, Requests,
      Deny, Arrives, Idle, At, Goto, LimiterInv, pvars, avars, lvars, counts, dvars
<1>4. Answers'
  BY DEF IInv, Answers, OnlyTokenHoldersAnswered, ConfigAnswers, StaticListAnswered,
         NoReply, Reply, Deny, Arrives, Idle, At, Goto, LimiterInv, pvars, avars, lvars,
         counts, dvars
<1> QED
  BY <1>1, <1>2, <1>3, <1>4 DEF IInv


(* The process ends. *)
LEMMA EndStep ==
  ASSUME IInv, End
  PROVE  IInv'
<1>1. Typed'
  BY IdleTyped DEF IInv, Typed, DiscoveryTypeOK, End, RestartDiscovery, ResetConfig
<1>2. TokenInv' /\ ConfigInv' /\ OneBuilds' /\ StaticInv'
  BY IdleTyped
  DEF IInv, Typed, TokenInv, ConfigInv, OneBuilds, StaticInv, NoReply, End, ResetConfig
<1>3. LimiterInv' /\ Counting'
  <2>0. ResetLimiter /\ \A r \in R : req'[r].pc # "denied"
    BY IdleTyped DEF End
  <2>1. LimiterInv'
    BY <2>0 DEF IInv, LimiterInv, ResetLimiter
  <2>2. Counting'
    BY <2>0 DEF ResetLimiter, Counting, EveryRefusalCounted, WarnRateBounded
  <2> QED
    BY <2>1, <2>2
<1>4. Answers'
  BY DEF Answers, OnlyTokenHoldersAnswered, ConfigAnswers, StaticListAnswered, NoReply, End
<1> QED
  BY <1>1, <1>2, <1>3, <1>4 DEF IInv


(* A refusal takes its turn at the limiter. *)
LEMMA RefuseStep ==
  ASSUME IInv, NEW r \in R, Refuse(r)
  PROVE  IInv'
<1>1. Typed'
  BY IdleTyped DEF IInv, Typed, DiscoveryTypeOK, Refuse, Goto, pvars, avars, dvars
<1>2. TokenInv' /\ ConfigInv' /\ OneBuilds' /\ StaticInv'
  BY IdleTyped
  DEF IInv, Typed, TokenInv, ConfigInv, OneBuilds, StaticInv, Reply, Refuse, Goto, pvars,
      avars, dvars
<1>3. LimiterInv' /\ Counting'
  <2> DEFINE stamp == req[r].stamp
  <2>1. stamp \in 1 .. clock /\ allow(stamp)
    BY DEF IInv, LimiterInv, Refuse
  <2>2. \A s \in R : req'[s].pc = "denied" => req'[s].stamp \in 1 .. clock'
    BY IdleTyped DEF IInv, Typed, LimiterInv, Refuse, Goto, allow
  <2>3. CASE Quiet(stamp)
    BY <2>1, <2>2, <2>3
    DEF IInv, LimiterInv, Counting, EveryRefusalCounted, WarnRateBounded, allow
  <2>4. CASE ~Quiet(stamp)
    <3>1. last = 0 \/ stamp >= last + Every
      BY <2>1, <2>4, LimiterAssumption DEF IInv, LimiterInv, Quiet
    <3>2. warned * Every < stamp
      <4>1. CASE last = 0
        BY <2>1, <4>1, LimiterAssumption DEF IInv, LimiterInv
      <4>2. CASE last # 0
        BY <2>1, <3>1, <4>2, OneMoreInterval, LimiterAssumption
        DEF IInv, LimiterInv, Counting, WarnRateBounded
      <4> QED
        BY <4>1, <4>2
    <3>3. LimiterInv'
      BY <2>1, <2>2, <2>4 DEF IInv, LimiterInv, allow, Log
    <3>4. EveryRefusalCounted'
      BY <2>1, <2>4 DEF IInv, LimiterInv, Counting, EveryRefusalCounted, allow, Log
    <3>5. WarnRateBounded'
      <4>1. warned' - 1 = warned /\ last' = stamp /\ clock' = clock
        BY <2>1, <2>4 DEF IInv, LimiterInv, allow, Log
      <4> QED
        BY <2>1, <3>2, <4>1 DEF IInv, LimiterInv, WarnRateBounded
    <3> QED
      BY <3>3, <3>4, <3>5 DEF Counting
  <2> QED
    BY <2>3, <2>4
<1>4. Answers'
  BY DEF Answers, OnlyTokenHoldersAnswered, ConfigAnswers, StaticListAnswered, Reply, Refuse
<1> QED
  BY <1>1, <1>2, <1>3, <1>4 DEF IInv


(* The endpoints that answer in one step. *)
LEMMA ReadOnlyStep ==
  ASSUME IInv, NEW r \in R, NEW pass \in Passwords, handleReadOnly(r, pass)
  PROVE  IInv'
<1>0. /\ reply'.kind \in {"constant", "apiservers"} /\ reply'.pass = token
      /\ reply'.kind = "apiservers" => reply'.body = advertised
  BY DEF handleReadOnly, Authorized, Reply
<1>a. proc # "down" /\ UNCHANGED <<pvars, avars, lvars, req>>
  BY DEF handleReadOnly, Arrives
<1>1. Typed'
  BY <1>a DEF IInv, Typed, DiscoveryTypeOK, pvars, avars, dvars
<1>2. TokenInv' /\ ConfigInv' /\ OneBuilds' /\ StaticInv'
  BY <1>0, <1>a
  DEF IInv, Typed, TokenInv, ConfigInv, OneBuilds, StaticInv, pvars, avars, dvars
<1>3. LimiterInv' /\ Counting'
  BY <1>a
  DEF IInv, LimiterInv, Counting, EveryRefusalCounted, WarnRateBounded, lvars, counts
<1>4. Answers'
  BY <1>0, <1>a, TokenIsConfigured
  DEF IInv, Typed, TokenInv, StaticInv, Answers, OnlyTokenHoldersAnswered, ConfigAnswers,
      StaticListAnswered, pvars, dvars
<1> QED
  BY <1>1, <1>2, <1>3, <1>4 DEF IInv


(* handleConfig: one request claims the build, the others wait. *)
LEMMA ConfigStep ==
  ASSUME IInv, NEW r \in R, NEW pass \in Passwords, handleConfig(r, pass)
  PROVE  IInv'
<1>0. PICK pc \in {"builds", "waits"} :
        /\ req' = [req EXCEPT ![r] = At(pc, pass, 0)]
        /\ IF pc = "builds" THEN once = "new" /\ once' = "running" ELSE once # "new" /\ once' = once
        /\ agent' = agent
  BY DEF handleConfig, OnceFirst, Goto, avars
<1>a. /\ proc # "down" /\ pass = token /\ reply' = NoReply
      /\ UNCHANGED <<pvars, lvars>>
  BY DEF handleConfig, Arrives, Authorized
<1>b. At(pc, pass, 0) \in Requests /\ At(pc, pass, 0).pc = pc /\ At(pc, pass, 0).pass = pass
  BY LimiterAssumption DEF At, Requests
<1>1. Typed'
  BY <1>0, <1>a, <1>b DEF IInv, Typed, DiscoveryTypeOK, pvars, dvars
<1>2. TokenInv' /\ ConfigInv' /\ OneBuilds' /\ StaticInv'
  BY <1>0, <1>a, <1>b
  DEF IInv, Typed, TokenInv, ConfigInv, OneBuilds, StaticInv, NoReply, pvars, dvars
<1>3. LimiterInv' /\ Counting'
  BY <1>0, <1>a, <1>b
  DEF IInv, Typed, LimiterInv, Counting, EveryRefusalCounted, WarnRateBounded, lvars, counts
<1>4. Answers'
  BY <1>a DEF Answers, OnlyTokenHoldersAnswered, ConfigAnswers, StaticListAnswered, NoReply
<1> QED
  BY <1>1, <1>2, <1>3, <1>4 DEF IInv


(* buildAgentConfig: it returns, or it panics and nothing is stored. *)
LEMMA BuildStep ==
  ASSUME IInv, NEW r \in R, buildAgentConfig(r)
  PROVE  IInv'
<1>0. PICK at \in Requests :
        /\ req' = [req EXCEPT ![r] = at]
        /\ at.pc \in {"idle", "waits"}
        /\ (at.pc = "waits" => at.pass = req[r].pass)
  BY IdleTyped DEF IInv, Typed, buildAgentConfig, Goto, Requests
<1>a. /\ req[r].pc = "builds" /\ once = "running" /\ once' = "done"
      /\ UNCHANGED <<pvars, lvars>>
      /\ reply' = NoReply \/ reply' = Reply("dropped", req[r].pass, {})
  BY DEF buildAgentConfig, Build, BuildPanics
<1>b. proc # "down" /\ opt.template \in Templates /\ req[r].pass = token
  BY <1>a, OptionsAssumption DEF IInv, Typed, TokenInv, MayStart
<1>c. /\ agent' \in {NilMap, {"ours"}, {"captured", "ours"}}
      /\ opt.template = "object" => agent' = {"captured", "ours"}
      /\ opt.template = "other" => agent' = {"ours"}
  BY <1>a, <1>b, BuiltConfig DEF IInv, ConfigInv, buildAgentConfig, Build, BuildPanics
<1>1. Typed'
  BY <1>0, <1>a DEF IInv, Typed, DiscoveryTypeOK, pvars, dvars
<1>2. TokenInv' /\ ConfigInv' /\ OneBuilds' /\ StaticInv'
  <2>1. TokenInv'
    BY <1>0, <1>a, <1>b DEF IInv, Typed, TokenInv, NoReply, Reply, pvars
  <2>2. ConfigInv' /\ StaticInv'
    BY <1>a, <1>b, <1>c DEF IInv, ConfigInv, StaticInv, pvars, dvars
  <2>3. OneBuilds'
    BY <1>0, <1>a DEF IInv, Typed, OneBuilds
  <2> QED
    BY <2>1, <2>2, <2>3
<1>3. LimiterInv' /\ Counting'
  BY <1>0, <1>a
  DEF IInv, Typed, LimiterInv, Counting, EveryRefusalCounted, WarnRateBounded, lvars, counts
<1>4. Answers'
  <2>1. reply'.kind = "none" \/ (reply'.kind = "dropped" /\ reply'.pass = token)
    BY <1>a, <1>b DEF NoReply, Reply
  <2>2. /\ opt' = opt /\ token \notin {"", NoAuth}
        /\ tokenFile(opt) # "" => token = TrimSpace[tokenFile(opt)]
        /\ tokenFile(opt) = "" /\ opt.tokenFlag \notin {NotGiven, ""} =>
             token = TrimSpace[opt.tokenFlag]
    BY <1>a, <1>b, TokenIsConfigured DEF IInv, Typed, TokenInv, pvars
  <2> QED
    BY <2>1, <2>2 DEF Answers, OnlyTokenHoldersAnswered, ConfigAnswers, StaticListAnswered
<1> QED
  BY <1>1, <1>2, <1>3, <1>4 DEF IInv


(* A request that has passed the Once is answered. *)
LEMMA EncodeStep ==
  ASSUME IInv, NEW r \in R, Encode(r)
  PROVE  IInv'
<1>a. /\ req[r].pc = "waits" /\ once = "done"
      /\ req' = [req EXCEPT ![r] = Idle]
      /\ reply' = Reply("config", req[r].pass, agent)
      /\ UNCHANGED <<pvars, avars, lvars>>
  BY DEF Encode, OncePassed, Goto
<1>b. proc # "down" /\ req[r].pass = token
  BY <1>a DEF IInv, TokenInv
<1>1. Typed'
  BY <1>a, IdleTyped DEF IInv, Typed, DiscoveryTypeOK, pvars, avars, dvars
<1>2. TokenInv' /\ ConfigInv' /\ OneBuilds' /\ StaticInv'
  BY <1>a, <1>b, IdleTyped
  DEF IInv, Typed, TokenInv, ConfigInv, OneBuilds, StaticInv, Reply, pvars, avars, dvars
<1>3. LimiterInv' /\ Counting'
  BY <1>a, IdleTyped
  DEF IInv, Typed, LimiterInv, Counting, EveryRefusalCounted, WarnRateBounded, lvars, counts
<1>4. Answers'
  <2>1. /\ "psk" \notin agent
        /\ opt.template = "object" => agent = {"captured", "ours"}
        /\ opt.template = "other" => agent = {"ours"}
    BY <1>a DEF IInv, ConfigInv, NilMap
  <2> QED
    BY <1>a, <1>b, <2>1, TokenIsConfigured
    DEF IInv, Typed, TokenInv, Answers, OnlyTokenHoldersAnswered, ConfigAnswers,
        StaticListAnswered, Reply, pvars
<1> QED
  BY <1>1, <1>2, <1>3, <1>4 DEF IInv


LEMMA StepOK == IInv /\ [Next]_vars => IInv'
<1> SUFFICES ASSUME IInv, [Next]_vars PROVE IInv'
  OBVIOUS
<1>1. CASE UNCHANGED vars
  <2>1. Typed' /\ TokenInv' /\ ConfigInv' /\ OneBuilds' /\ StaticInv'
    BY <1>1
    DEF IInv, Typed, DiscoveryTypeOK, TokenInv, ConfigInv, OneBuilds, StaticInv, vars,
        dvars, avars
  <2>2. LimiterInv' /\ Counting' /\ Answers'
    BY <1>1 DEF IInv, LimiterInv, Counting, EveryRefusalCounted, WarnRateBounded, Answers,
                OnlyTokenHoldersAnswered, ConfigAnswers, StaticListAnswered, vars, lvars, counts
  <2> QED
    BY <2>1, <2>2 DEF IInv
<1>2. ASSUME NEW o \in Options, Start(o) PROVE IInv'
  BY <1>2, StartStep
<1>3. CASE Listen \/ End \/ Refresh \/ ControlPlaneChange \/ Tick
  BY <1>3, ListenStep, EndStep, RefreshStep, ControlPlaneStep, TickStep
<1>4. ASSUME NEW r \in R, Handler(r) PROVE IInv'
  BY <1>4, RefuseStep, BuildStep, EncodeStep DEF Handler
<1>5. ASSUME NEW r \in R, NEW pass \in Passwords, Request(r, pass) PROVE IInv'
  BY <1>5, CACertsStep, DenyStep, ReadOnlyStep, ConfigStep DEF Request
<1> QED
  BY <1>1, <1>2, <1>3, <1>4, <1>5 DEF Next

LEMMA Invariant == Spec => []IInv
BY InitOK, StepOK, PTL DEF Spec

---------------------------------------------------------------------------
(* Type correctness, whatever texts a static list holds: a discovered list *)
(* has usable control planes only, and no two of any number of requests    *)
(* build the configuration.                                                *)
THEOREM SupervisorTypes == Spec => []SupervisorTypeOK
<1>1. IInv => SupervisorTypeOK
  <2> SUFFICES ASSUME IInv PROVE SupervisorTypeOK
    OBVIOUS
  <2>1. agent \in Config \cup {NilMap}
    BY DEF IInv, ConfigInv, Config
  <2> QED
    BY <2>1, LimiterAssumption DEF IInv, Typed, LimiterInv, OneBuilds, SupervisorTypeOK
<1> QED
  BY <1>1, Invariant, PTL

(* auth and resolveToken together: only a caller who sent the token the    *)
(* operator configured is told anything but the CA.                        *)
THEOREM TokenHoldersOnly == Spec => []OnlyTokenHoldersAnswered
<1>1. IInv => OnlyTokenHoldersAnswered
  BY DEF IInv, Answers
<1> QED
  BY <1>1, Invariant, PTL

(* handleConfig: no answer carries the captured key, and none is           *)
(* unfinished where the template can be built at all.                      *)
THEOREM FinishedConfig == Spec => []ConfigAnswers
<1>1. IInv => ConfigAnswers
  BY DEF IInv, Answers
<1> QED
  BY <1>1, Invariant, PTL

(* handleAPIServers: a static list stays as it was given. *)
THEOREM StaticList == Spec => []StaticListAnswered
<1>1. IInv => StaticListAnswered
  BY DEF IInv, Answers
<1> QED
  BY <1>1, Invariant, PTL

(* logLimiter: no refusal is lost or counted twice. *)
THEOREM RefusalsCounted == Spec => []EveryRefusalCounted
<1>1. IInv => EveryRefusalCounted
  BY DEF IInv, Counting
<1> QED
  BY <1>1, Invariant, PTL

(* logLimiter: at most one line per interval, in whatever order refusals   *)
(* reach the mutex.                                                        *)
THEOREM RateBounded == Spec => []WarnRateBounded
<1>1. IInv => WarnRateBounded
  BY DEF IInv, Counting
<1> QED
  BY <1>1, Invariant, PTL

(* SetAPIServers: a running process never takes its list away. *)
THEOREM ListKept == Spec => NeverEmptied
<1>1. [Next]_vars => [proc # "down" /\ proc' # "down" /\ advertised # {} => advertised' # {}]_vars
  <2> SUFFICES ASSUME Next, proc # "down", proc' # "down", advertised # {}
               PROVE  advertised' # {}
    OBVIOUS
  <2>1. ASSUME NEW o \in Options, Start(o) PROVE FALSE
    BY <2>1 DEF Start
  <2>2. CASE Listen \/ ControlPlaneChange \/ Tick
    BY <2>2 DEF Listen, ControlPlaneChange, ChangeCP, Tick, dvars
  <2>3. CASE End
    BY <2>3 DEF End
  <2>4. CASE Refresh
    BY <2>4 DEF Refresh, DiscoveryStep, List, SetAPIServers
  <2>5. ASSUME NEW r \in R, Handler(r) PROVE advertised' = advertised
    BY <2>5 DEF Handler, Refuse, buildAgentConfig, Encode, pvars, dvars
  <2>6. ASSUME NEW r \in R, NEW pass \in Passwords, Request(r, pass) PROVE advertised' = advertised
    BY <2>6 DEF Request, handleCACerts, Deny, handleReadOnly, handleConfig, pvars, dvars
  <2> QED
    BY <2>1, <2>2, <2>3, <2>4, <2>5, <2>6 DEF Next
<1> QED
  BY <1>1, PTL DEF Spec, NeverEmptied

=============================================================================
