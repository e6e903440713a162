-------------------------- MODULE MCNodePassword --------------------------
(* NodePassword on small instances. *)
EXTENDS NodePassword, TLC

CONSTANTS n1, p1, p2, r1, r2, c1, c2

(* What an rke2 server writes; the largest hash verifyHash evaluates, and one *)
(* it must not spend memory on.                                               *)
ForeignRke2 == {createHash(pw) : pw \in Passwords} \cup {NoHash}
LargestHash == [createHash(p1) EXCEPT !.n = maxParamN, !.r = maxParamR]
OversizedHash == [LargestHash EXCEPT !.n = maxParamN + 1]
ForeignOdd == {LargestHash, OversizedHash}

(* Passwords, replicas and calls are interchangeable where only whole sets    *)
(* of them are used, as with ForeignRke2.                                     *)
Symmetric ==
  Permutations(Passwords) \cup Permutations(Replicas) \cup Permutations(Calls)
===========================================================================
