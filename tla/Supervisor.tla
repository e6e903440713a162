---------------------------- MODULE Supervisor ----------------------------
(***************************************************************************)
(* One replica of the shim from the start of its process to its end: the   *)
(* options (Startup), the list of control planes (Discovery), the agent    *)
(* configuration (AgentConfig), the refusals' log (LogLimiter), and the    *)
(* read-only endpoints of supervisor.go that answer from them.  A request  *)
(* is a goroutine; the certificate endpoints are in CertIssuance, the      *)
(* tunnel in Tunnel.                                                       *)
(***************************************************************************)
EXTENDS Discovery, Startup, AgentConfig, LogLimiter

CONSTANTS
  R,          \* request goroutines
  Options,    \* sets of options the process may be started with
  Passwords,  \* what a caller may send
  NoAuth      \* no Authorization header, or another user than "node"

(* Options are what flags, variables and files can hold: texts, a file     *)
(* that cannot be read, a flag that is not given and a template of some    *)
(* kind.  A static list holds any texts: main does not look at them.       *)
ASSUME OptionsAssumption ==
  \A o \in Options :
    /\ o.tokenFileFlag \in DOMAIN TrimSpace \cup {NotGiven, Unreadable}
    /\ o.tokenFileEnv \in DOMAIN TrimSpace \cup {Unreadable}
    /\ o.tokenFlag \in DOMAIN TrimSpace \cup {NotGiven}
    /\ o.tokenEnv \in DOMAIN TrimSpace
    /\ o.template \in Templates \cup {Unreadable, "invalid"}

(* No password is the absence of one. *)
ASSUME NoAuthAssumption == \A text \in DOMAIN TrimSpace : TrimSpace[text] # NoAuth

VARIABLES
  proc,   \* "down", "started" or "serving"
  opt,    \* the options of the process
  token,  \* Config.Token
  req,    \* [R -> where the handler is]
  reply   \* what the last step answered, to the holder of which password

vars == <<dvars, avars, lvars, proc, opt, token, req, reply>>

NoReply == [kind |-> "none", pass |-> NoAuth, body |-> {}]

Reply(kind, pass, body) == [kind |-> kind, pass |-> pass, body |-> body]

At(pc, pass, stamp) == [pc |-> pc, pass |-> pass, stamp |-> stamp]

Idle == At("idle", NoAuth, 0)

Init ==
  /\ DiscoveryInit /\ ConfigInit /\ LimiterInit
  /\ proc = "down"
  /\ opt \in Options
  /\ token = ""
  /\ req = [r \in R |-> Idle]
  /\ reply = NoReply

---------------------------------------------------------------------------
(* The process *)

(* main up to the goroutines; New installs a static list. *)
Start(o) ==
  /\ proc = "down"
  /\ MayStart(o)
  /\ proc' = "started"
  /\ opt' = o
  /\ token' = resolveToken(o)
  /\ advertised' = splitCSV(o)
  /\ reply' = NoReply
  /\ UNCHANGED <<cp, found, avars, lvars, req>>

Listen ==
  /\ proc = "started"
  /\ MayListen(opt)
  /\ proc' = "serving"
  /\ reply' = NoReply
  /\ UNCHANGED <<dvars, avars, lvars, opt, token, req>>

(* os.Exit, or the end of the pod: what the process knew is gone. *)
End ==
  /\ proc # "down"
  /\ proc' = "down"
  /\ token' = ""
  /\ RestartDiscovery /\ ResetConfig /\ ResetLimiter
  /\ req' = [r \in R |-> Idle]
  /\ reply' = NoReply
  /\ UNCHANGED opt

(* A bug in which the refresh runs whether or not a list was given. *)
RefreshAlways ==
  /\ proc # "down"
  /\ DiscoveryStep
  /\ reply' = NoReply
  /\ UNCHANGED <<avars, lvars, proc, opt, token, req>>

(* The refresh goroutine, unless a list was given. *)
Refresh ==
  /\ proc # "down"
  /\ discover(opt)
  /\ DiscoveryStep
  /\ reply' = NoReply
  /\ UNCHANGED <<avars, lvars, proc, opt, token, req>>

(* The control planes matter only to a process that looks at them. *)
ControlPlaneChange ==
  /\ discover(opt)
  /\ \E c \in CPs, state \in CPStates : ChangeCP(c, state)
  /\ reply' = NoReply
  /\ UNCHANGED <<avars, lvars, proc, opt, token, req>>

Tick ==
  /\ ClockTicks
  /\ reply' = NoReply
  /\ UNCHANGED <<dvars, avars, proc, opt, token, req>>

---------------------------------------------------------------------------
(* Requests *)

pvars == <<dvars, proc, opt, token>>

Goto(r, at) == req' = [req EXCEPT ![r] = at]

Arrives(r) == proc = "serving" /\ req[r] = Idle

Authorized(pass) == pass = token

(* /cacerts is open to everybody. *)
handleCACerts(r) ==
  /\ Arrives(r)
  /\ reply' = Reply("ca", NoAuth, {})
  /\ UNCHANGED <<pvars, avars, lvars, req>>

(* auth: the clock is read before the limiter's mutex is taken. *)
Deny(r, pass) ==
  /\ Arrives(r)
  /\ ~Authorized(pass)
  /\ denied + Cardinality({x \in R : req[x].pc = "denied"}) < MaxDenied
  /\ Goto(r, At("denied", NoAuth, clock))
  /\ reply' = NoReply
  /\ UNCHANGED <<pvars, avars, lvars>>

Refuse(r) ==
  /\ req[r].pc = "denied"
  /\ allow(req[r].stamp)
  /\ Goto(r, Idle)
  /\ reply' = Reply("401", NoAuth, {})
  /\ UNCHANGED <<pvars, avars>>

(* readyz, the CAs, the list of control planes (one atomic load) and the   *)
(* 501 for what is not known are answered in one step.                     *)
handleReadOnly(r, pass) ==
  /\ Arrives(r)
  /\ Authorized(pass)
  /\ reply' \in {Reply("constant", pass, {}), Reply("apiservers", pass, advertised)}
  /\ UNCHANGED <<pvars, avars, lvars, req>>

(* handleConfig: into once.Do ... *)
handleConfig(r, pass) ==
  /\ Arrives(r)
  /\ Authorized(pass)
  /\ \/ OnceFirst /\ Goto(r, At("builds", pass, 0))
     \/ /\ once # "new"
        /\ Goto(r, At("waits", pass, 0))
        /\ UNCHANGED avars
  /\ reply' = NoReply
  /\ UNCHANGED <<pvars, lvars>>

(* ... the build, whose panic net/http turns into a dropped connection ... *)
buildAgentConfig(r) ==
  /\ req[r].pc = "builds"
  /\ \/ /\ Build(opt.template)
        /\ Goto(r, [req[r] EXCEPT !.pc = "waits"])
        /\ reply' = NoReply
     \/ /\ BuildPanics(opt.template)
        /\ Goto(r, Idle)
        /\ reply' = Reply("dropped", req[r].pass, {})
  /\ UNCHANGED <<pvars, lvars>>

(* ... and out of it to the answer. *)
Encode(r) ==
  /\ req[r].pc = "waits"
  /\ OncePassed
  /\ Goto(r, Idle)
  /\ reply' = Reply("config", req[r].pass, agent)
  /\ UNCHANGED <<pvars, avars, lvars>>

Handler(r) == Refuse(r) \/ buildAgentConfig(r) \/ Encode(r)

Request(r, pass) ==
  handleCACerts(r) \/ Deny(r, pass) \/ handleReadOnly(r, pass) \/ handleConfig(r, pass)

Next ==
  \/ \E o \in Options : Start(o)
  \/ Listen \/ End \/ Refresh \/ ControlPlaneChange \/ Tick
  \/ \E r \in R : Handler(r) \/ \E pass \in Passwords : Request(r, pass)

(* A goroutine that can run does, and the refresh is on a ticker.  Nothing *)
(* is assumed of restarts, callers or control planes.                      *)
Fairness ==
  /\ WF_vars(Refresh /\ List)
  /\ WF_vars(Refresh /\ SetAPIServers)
  /\ \A r \in R : WF_vars(Handler(r))

Spec == Init /\ [][Next]_vars /\ Fairness

---------------------------------------------------------------------------
(* Type correctness.  A replica that discovers advertises usable control   *)
(* planes only, with nothing of a static list an earlier process had, and  *)
(* no two requests build the configuration.                                *)
SupervisorTypeOK ==
  /\ DiscoveryTypeOK
  /\ discover(opt) => advertised \subseteq CPs \ Unusable
  /\ proc \in {"down", "started", "serving"}
  /\ opt \in Options
  /\ once \in {"new", "running", "done"}
  /\ agent \in Config \cup {NilMap}
  /\ clock \in 1 .. MaxClock /\ last \in 0 .. MaxClock
  /\ denied \in Nat /\ suppressed \in Nat
  /\ \A r \in R : req[r].pc = "builds" =>
       once = "running" /\ \A s \in R \ {r} : req[s].pc # "builds"

(* Nothing but the CA is given to a caller who did not send the token the  *)
(* operator configured: never to an empty password, to the named file's    *)
(* token alone when a file is named, and to --token's when one is given    *)
(* without a file, whatever else is set.                                   *)
OnlyTokenHoldersAnswered ==
  reply.kind \notin {"none", "401", "ca"} =>
    /\ reply.pass \notin {"", NoAuth}
    /\ tokenFile(opt) # "" => reply.pass = TrimSpace[tokenFile(opt)]
    /\ tokenFile(opt) = "" /\ opt.tokenFlag \notin {NotGiven, ""} =>
         reply.pass = TrimSpace[opt.tokenFlag]

(* No /config answer has the captured cluster's IPsec key.  Where the      *)
(* template is a JSON object every answer, whoever built it and whoever    *)
(* waited, is the finished configuration: this cluster's values next to    *)
(* every captured one.  Where it is another value, every answer has this   *)
(* cluster's values.  Nothing is claimed of a null template, whose build   *)
(* panics: requests that waited for it, and later ones, are answered null. *)
ConfigAnswers ==
  reply.kind = "config" =>
    /\ "psk" \notin reply.body
    /\ opt.template = "object" => reply.body = {"captured", "ours"}
    /\ opt.template = "other" => reply.body = {"ours"}

(* A static list, even one that comes out empty, is what agents are given  *)
(* for as long as the process runs: nothing discovered replaces it.        *)
StaticListAnswered ==
  reply.kind = "apiservers" /\ ~discover(opt) => reply.body = splitCSV(opt)

(* A list agents depend on is never taken away by a running process, not   *)
(* even while no control plane is Ready or the API cannot be reached.      *)
NeverEmptied ==
  [][proc # "down" /\ proc' # "down" /\ advertised # {} => advertised' # {}]_vars

(* Once the process and the set of reachable control planes settle, a      *)
(* discovered list settles on that set, a refresh under way and control    *)
(* planes that flap without becoming reachable notwithstanding.            *)
ListConverges ==
  \A list \in (SUBSET (CPs \ Unusable)) \ {{}} :
    <>[](proc # "down" /\ discover(opt) /\ Reachable(cp) = list)
      => <>[](advertised = list)

(* Every request is answered or dropped, also those that wait for a build  *)
(* that panics.                                                            *)
EveryRequestEnds == \A r \in R : req[r] # Idle ~> req[r] = Idle
===========================================================================
