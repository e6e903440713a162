----------------------------- MODULE Recursion -----------------------------
(***************************************************************************)
(* Induction over the naturals, and the existence of recursively defined   *)
(* functions, stated with sets and functions only: facts the proofs about  *)
(* the modules' recursive functions cite.                                  *)
(***************************************************************************)
EXTENDS Integers, WellFoundedInduction, TLAPS

(* A set of naturals that is not empty has a least element. *)
LEMMA Least ==
  ASSUME NEW T, T \subseteq Nat, T # {}
  PROVE  \E m \in T : \A k \in T : m <= k
<1> DEFINE R == OpToRel(<, Nat)
<1>1. \A x, y \in Nat : <<y, x>> \in R <=> y < x
  BY DEF OpToRel
<1>2. IsWellFoundedOn(R, Nat)
  BY NatLessThanWellFounded, Zenon
<1> HIDE DEF R
<1>3. PICK x \in T : \A y \in T : ~(<<y, x>> \in R)
  BY <1>2, WFMin
<1>4. \A y \in T : ~(y < x)
  BY <1>1, <1>3
<1> QED
  BY <1>3, <1>4

(* A set that has 0, and the successor of every natural it has, has all. *)
LEMMA Induction ==
  ASSUME NEW S, 0 \in S, \A n \in Nat : n \in S => n + 1 \in S
  PROVE  \A n \in Nat : n \in S
<1> DEFINE T == {n \in Nat : n \notin S}
<1> SUFFICES T = {}
  OBVIOUS
<1> SUFFICES ASSUME T # {} PROVE FALSE
  OBVIOUS
<1>1. PICK m \in T : \A k \in T : m <= k
  BY Least
<1>2. m \in Nat /\ m # 0
  BY <1>1
<1>3. m - 1 \in Nat /\ m - 1 \notin T
  BY <1>1, <1>2
<1>4. (m - 1) + 1 \in S
  BY <1>3
<1> QED
  BY <1>1, <1>2, <1>4

Iterates(g, T, c, F) ==
  g \in [Nat -> T] /\ g[0] = c /\ \A n \in Nat : g[n + 1] = F[n][g[n]]

(* A function on the naturals is given by its value at 0 and a step.  The  *)
(* approximations up to n exist and agree; the function is their diagonal. *)
LEMMA Iteration ==
  ASSUME NEW T, NEW c \in T, NEW F \in [Nat -> [T -> T]]
  PROVE  \E g : Iterates(g, T, c, F)
<1> DEFINE Good(n, g) == /\ g \in [0 .. n -> T] /\ g[0] = c
                         /\ \A i \in 0 .. n - 1 : g[i + 1] = F[i][g[i]]
           S == {n \in Nat : \E g : Good(n, g)}
           A(n) == CHOOSE g : Good(n, g)
           G == [n \in Nat |-> A(n)[n]]
<1>1. 0 \in S
  <2>1. Good(0, [i \in 0 .. 0 |-> c])
    OBVIOUS
  <2> QED
    BY <2>1
<1>2. \A n \in Nat : n \in S => n + 1 \in S
  <2> SUFFICES ASSUME NEW n \in Nat, NEW g, Good(n, g) PROVE n + 1 \in S
    OBVIOUS
  <2> DEFINE h == [i \in 0 .. n + 1 |-> IF i = n + 1 THEN F[n][g[n]] ELSE g[i]]
  <2>1. F[n][g[n]] \in T
    OBVIOUS
  <2>2. h \in [0 .. n + 1 -> T] /\ h[0] = c
    BY <2>1
  <2>3. \A i \in 0 .. n : h[i + 1] = F[i][h[i]]
    OBVIOUS
  <2>4. Good(n + 1, h)
    BY <2>2, <2>3
  <2> HIDE DEF h, Good
  <2> QED
    BY <2>4
<1> HIDE DEF S
<1>3. \A n \in Nat : n \in S
  BY <1>1, <1>2, Induction
<1>4. \A n \in Nat : Good(n, A(n))
  <2> HIDE DEF Good
  <2> QED
    BY <1>3 DEF S
<1>5. ASSUME NEW n \in Nat, NEW g, NEW h, Good(n, g), Good(n + 1, h) PROVE g[n] = h[n]
  <2> DEFINE E == {i \in Nat : i <= n => g[i] = h[i]}
  <2>1. 0 \in E
    BY <1>5
  <2>2. \A i \in Nat : i \in E => i + 1 \in E
    <3> SUFFICES ASSUME NEW i \in Nat, g[i] = h[i], i + 1 <= n PROVE g[i + 1] = h[i + 1]
      OBVIOUS
    <3>1. i \in 0 .. n - 1 /\ i \in 0 .. (n + 1) - 1
      OBVIOUS
    <3> QED
      BY <1>5, <3>1
  <2>3. n \in E
    <3> HIDE DEF E
    <3> QED
      BY <2>1, <2>2, Induction
  <2> QED
    BY <2>3
<1>6. G \in [Nat -> T] /\ G[0] = c
  <2>1. \A n \in Nat : A(n)[n] \in T
    <3> SUFFICES ASSUME NEW n \in Nat PROVE A(n)[n] \in T
      OBVIOUS
    <3> HIDE DEF A
    <3>1. A(n) \in [0 .. n -> T] /\ n \in 0 .. n
      BY <1>4
    <3> QED
      BY <3>1
  <2>2. A(0)[0] = c
    BY <1>4
  <2> HIDE DEF A
  <2> QED
    BY <2>1, <2>2
<1>7. \A n \in Nat : G[n + 1] = F[n][G[n]]
  <2> SUFFICES ASSUME NEW n \in Nat PROVE G[n + 1] = F[n][G[n]]
    OBVIOUS
  <2>1. A(n)[n] = A(n + 1)[n]
    <3> HIDE DEF Good, A
    <3> QED
      BY <1>4, <1>5
  <2>2. A(n + 1)[n + 1] = F[n][A(n + 1)[n]]
    <3>1. n + 1 \in Nat /\ n \in 0 .. (n + 1) - 1
      OBVIOUS
    <3> QED
      BY <1>4, <3>1
  <2> HIDE DEF A
  <2> QED
    BY <2>1, <2>2
<1> HIDE DEF G
<1> QED
  BY <1>6, <1>7 DEF Iterates
============================================================================
