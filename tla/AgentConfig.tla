---------------------------- MODULE AgentConfig ----------------------------
(***************************************************************************)
(* The agent configuration (supervisor.go: handleConfig, buildAgentConfig):*)
(* built from the captured template by the first request, under a          *)
(* sync.Once, and served from then on.  A template is valid JSON (main     *)
(* checks that much): an object, null, or something else.  A configuration *)
(* is the set of what it holds: the captured keys, this cluster's values,  *)
(* the captured cluster's IPsec key.                                       *)
(***************************************************************************)
Templates == {"object", "null", "other"}

Config == SUBSET {"captured", "ours", "psk"}

NilMap == {"nil"}   \* a nil map, which encodes as null

VARIABLES
  once,   \* "new", "running" or "done"
  agent   \* Server.agent

avars == <<once, agent>>

ConfigInit == once = "new" /\ agent = NilMap

ResetConfig == once' = "new" /\ agent' = NilMap

(* json.Unmarshal into an empty map: null makes the map nil, and what is   *)
(* not an object is logged and leaves it empty.                            *)
Unmarshal(template) ==
  CASE template = "object" -> {"captured", "psk"}
    [] template = "other"  -> {}
    [] template = "null"   -> NilMap

Override(cfg) == cfg \cup {"ours"}

Scrub(cfg) == cfg \ {"psk"}

(* A bug in which two first callers can both build. *)
OnceFirstRacing ==
  /\ once # "done"
  /\ once' = "running"
  /\ UNCHANGED agent

(* once.Do claims the build for the first caller; the others wait until it *)
(* has returned, by whatever way.                                          *)
OnceFirst ==
  /\ once = "new"
  /\ once' = "running"
  /\ UNCHANGED agent

(* A bug in which the others only look whether somebody is building. *)
OncePassedEarly == once # "new"

OncePassed == once = "done"

(* A bug in which a panic leaves the others waiting. *)
BuildPanicsStuck(template) ==
  /\ once = "running"
  /\ template = "null"
  /\ UNCHANGED avars

(* Assigning into the nil map panics; Once counts that as done. *)
BuildPanics(template) ==
  /\ once = "running"
  /\ Unmarshal(template) = NilMap
  /\ once' = "done"
  /\ UNCHANGED agent

Build(template) ==
  /\ once = "running"
  /\ Unmarshal(template) # NilMap
  /\ once' = "done"
  /\ agent' = Scrub(Override(Unmarshal(template)))
===========================================================================
