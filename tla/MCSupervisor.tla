--------------------------- MODULE MCSupervisor ---------------------------
(* Two concurrent requests to a process that restarts with any of these    *)
(* sets of options: a discovered list with an object as the template, a    *)
(* static list, one entry of which is no control plane, with null, a list  *)
(* of blanks with another JSON value, and token files that are blank or    *)
(* cannot be read beside a usable token.                                   *)
EXTENDS Supervisor

CONSTANTS a1, a2

MCTrimSpace == [text \in {"", Blank, "t1", " t1", "t2"} |->
                  CASE text \in {"", Blank} -> "" [] text = " t1" -> "t1" [] OTHER -> text]

Default ==
  [tokenFileFlag |-> NotGiven, tokenFileEnv |-> " t1",
   tokenFlag |-> NotGiven, tokenEnv |-> "t2",
   apiserversFlag |-> NotGiven, apiserversEnv |-> <<>>,
   cidrs |-> TRUE, ca |-> TRUE, kube |-> TRUE, servingCA |-> TRUE, tls |-> TRUE,
   template |-> "object"]

MCOptions == {
  Default,
  [Default EXCEPT !.tokenFileFlag = "", !.tokenFlag = "t2", !.tokenEnv = "t1",
                  !.apiserversEnv = <<a1, "no host">>, !.template = "null"],
  [Default EXCEPT !.tokenFileFlag = "", !.tokenFlag = Blank],
  [Default EXCEPT !.apiserversFlag = <<Blank, Blank>>, !.template = "other"],
  [Default EXCEPT !.tokenFileEnv = Blank, !.apiserversEnv = <<a1>>],
  [Default EXCEPT !.tokenFileEnv = Unreadable]}

MCPasswords == {"t1", "t2", "", NoAuth}
===========================================================================
