---------------------------- MODULE ScryptHash ----------------------------
(***************************************************************************)
(* The stored form of a node password: internal/nodepassword/scrypt.go.   *)
(* A hash is abstracted to the password it was derived from, the outcome  *)
(* of reading its text back, and the scrypt parameters it records, which  *)
(* verifyHash honours within bounds.  The salt and the derived bytes are  *)
(* left out: scrypt is taken to be collision free.                        *)
(***************************************************************************)
EXTENDS Integers

CONSTANT Passwords   \* node passwords that ValidatePassword lets through

(* What createHash writes: rke2's own parameters.  N is an exponent of 2. *)
paramN == 15
paramR == 8
paramP == 1
paramKeyLen == 64

(* Bounds on the parameters read back from a stored hash. *)
maxParamN == 16
maxParamR == 16
maxParamP == 4
minKeyLen == 32
maxKeyLen == 1024

(* How the stored text reads: canonical, or refused by Sscanf, by the      *)
(* version test, by the re-encoding test or by the base64 decoder.         *)
Forms == {"canonical", "unparsable", "otherVersion", "slack", "notBase64"}

Hash == [of : Passwords, form : Forms, n : Nat, r : Int, p : Int, keyLen : Nat]

createHash(pw) ==
  [of |-> pw, form |-> "canonical",
   n |-> paramN, r |-> paramR, p |-> paramP, keyLen |-> paramKeyLen]

(* A bug in which the largest exponent is off by one. *)
InBoundsOffByOne(h) ==
  /\ h.n \in 1 .. maxParamN + 1
  /\ h.r \in 1 .. maxParamR
  /\ h.p \in 1 .. maxParamP
  /\ h.keyLen \in minKeyLen .. maxKeyLen

InBounds(h) ==
  /\ h.n \in 1 .. maxParamN
  /\ h.r \in 1 .. maxParamR
  /\ h.p \in 1 .. maxParamP
  /\ h.keyLen \in minKeyLen .. maxKeyLen

(* Every test verifyHash makes before it spends memory on scrypt. *)
Evaluable(h) == h.form = "canonical" /\ InBounds(h)

(* The comparison verifyHash makes once scrypt has run. *)
Matches(h, pw) == h.of = pw

Pow2[n \in Nat] == IF n = 0 THEN 1 ELSE 2 * Pow2[n - 1]

(* Memory of one scrypt run in MiB: 128 * N * r bytes, of 2^20. *)
CostMiB(h) == (Pow2[h.n] * h.r) \div 8192
===========================================================================
