------------------------------ MODULE Startup ------------------------------
(***************************************************************************)
(* What main.go makes of its options before it serves: parseOptions,       *)
(* resolveToken, the checks that end in os.Exit, and which goroutines are  *)
(* started.  A file is identified with its contents, and a text with what  *)
(* TrimSpace makes of it.                                                  *)
(*                                                                         *)
(* A set of options is a record                                            *)
(*   [tokenFileFlag, tokenFileEnv, tokenFlag, tokenEnv : the token's sources, *)
(*    apiserversFlag, apiserversEnv : the static list of endpoints, as the *)
(*      sequence of what is between the commas, <<>> for the empty string, *)
(*    cidrs, ca, kube, servingCA, tls : whether they are valid and load,   *)
(*    template : what the agent-config file holds]                         *)
(***************************************************************************)
EXTENDS Functions

CONSTANTS
  Blank,       \* white space
  TrimSpace,   \* [texts -> the text without the white space around it]
  NotGiven,    \* a flag that is not on the command line
  Unreadable,  \* a file that cannot be read
  Refused      \* an error

ASSUME TrimAssumption ==
  /\ "" \in DOMAIN TrimSpace /\ TrimSpace[""] = ""
  /\ Blank \in DOMAIN TrimSpace /\ TrimSpace[Blank] = ""
  /\ {NotGiven, Unreadable} \cap DOMAIN TrimSpace = {}
  /\ \A text \in DOMAIN TrimSpace : TrimSpace[text] # Refused

(* flag.StringVar with the environment's value as its default.  A variable *)
(* set to the empty string counts as not set.                              *)
Setting(flag, env) == IF flag # NotGiven THEN flag ELSE env

(* An empty token is an error. *)
Token(text) == IF TrimSpace[text] = "" THEN Refused ELSE TrimSpace[text]

tokenFile(o) == Setting(o.tokenFileFlag, o.tokenFileEnv)

(* --token has no default from the environment, or the usage text would    *)
(* show it.  SHIM_TOKEN is looked at when the flag is empty.               *)
tokenText(o) == IF o.tokenFlag \notin {NotGiven, ""} THEN o.tokenFlag ELSE o.tokenEnv

(* A bug in which a token file without a token falls back to the others. *)
resolveTokenFallback(o) ==
  CASE tokenFile(o) = Unreadable -> Refused
    [] tokenFile(o) = "" \/ Token(tokenFile(o)) = Refused -> Token(tokenText(o))
    [] OTHER -> Token(tokenFile(o))

(* The file wins and is never fallen back from. *)
resolveToken(o) ==
  CASE tokenFile(o) = Unreadable -> Refused
    [] tokenFile(o) = ""         -> Token(tokenText(o))
    [] OTHER                     -> Token(tokenFile(o))

apiServersCSV(o) == Setting(o.apiserversFlag, o.apiserversEnv)

(* A list is discovered unless one is given; one of blanks is given. *)
discover(o) == apiServersCSV(o) = <<>>

splitCSV(o) == Range(apiServersCSV(o)) \ {Blank}

(* Every check between parseOptions and the first goroutine. *)
MayStart(o) ==
  /\ resolveToken(o) # Refused
  /\ o.cidrs /\ o.ca /\ o.kube
  /\ o.template \notin {Unreadable, "invalid"}
  /\ o.servingCA

(* Loading or minting the serving certificate, and binding the port. *)
MayListen(o) == o.tls
===========================================================================
