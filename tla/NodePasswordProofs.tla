------------------------ MODULE NodePasswordProofs ------------------------
(***************************************************************************)
(* NodePassword's safety for any number of nodes, passwords, concurrent    *)
(* calls, replicas and scrypt slots.                                       *)
(***************************************************************************)
EXTENDS NodePassword, Recursion, FiniteSetTheorems, TLAPS

(* createHash writes a hash that verifyHash evaluates, and that matches    *)
(* the password it was made from.                                          *)
LEMMA CreatedHashVerifies ==
  ASSUME NEW pw \in Passwords
  PROVE  /\ createHash(pw) \in Hash
         /\ Evaluable(createHash(pw))
         /\ Matches(createHash(pw), pw)
  BY DEF createHash, Hash, Forms, Evaluable, InBounds, Matches, paramN, paramR,
         paramP, paramKeyLen, maxParamN, maxParamR, maxParamP, minKeyLen, maxKeyLen

(* The initial states are well typed. *)
LEMMA TypeInit == Init => TypeOK
  BY DEF Init, TypeOK, Record, Active, Results

(* Every step keeps the types. *)
LEMMA TypeStep == TypeOK /\ [Next]_vars => TypeOK'
<1> SUFFICES ASSUME TypeOK, [Next]_vars PROVE TypeOK'
  OBVIOUS
<1> USE DEF TypeOK, Record, world, ghosts, Goto, Return, SetSecret, node
<1>1. ASSUME NEW c \in Calls, NEW n \in Nodes, NEW pw \in Passwords, NEW r \in Replicas,
             Begin(c, n, pw, r)
      PROVE  TypeOK'
  BY <1>1 DEF Begin, Active, ApiSteps, Results
<1>2. ASSUME NEW c \in Calls, GetSecret(c) PROVE TypeOK'
  BY <1>2 DEF GetSecret, Active, ApiSteps, Waiting, Results
<1>3. ASSUME NEW c \in Calls, GetNode(c) PROVE TypeOK'
  BY <1>3 DEF GetNode, Active, Waiting, Results
<1>4. ASSUME NEW c \in Calls, AcquireSlot(c) PROVE TypeOK'
  BY <1>4 DEF AcquireSlot, Active, Running
<1>5. ASSUME NEW c \in Calls, SlotTimeout(c) PROVE TypeOK'
  BY <1>5 DEF SlotTimeout, Active, Results
<1>6. ASSUME NEW c \in Calls, FinishVerify(c) PROVE TypeOK'
  <2>1. CASE Matches(hash[c], arg[c].pw)
    BY <1>6, <2>1 DEF FinishVerify, Active, Results
  <2>2. CASE ~Matches(hash[c], arg[c].pw)
    BY <1>6, <2>2 DEF FinishVerify, Active, Results
  <2> QED BY <2>1, <2>2
<1>7. ASSUME NEW c \in Calls, FinishHash(c) PROVE TypeOK'
  BY <1>7 DEF FinishHash, Active, ApiSteps
<1>8. ASSUME NEW c \in Calls, CreateSecret(c) PROVE TypeOK'
  <2>1. createHash(arg[c].pw) \in Record
    BY CreatedHashVerifies
  <2>2. secret' \in [Nodes -> Record] /\ inForce' \in [Calls -> SUBSET Record]
    BY <1>8, <2>1 DEF CreateSecret
  <2>3. /\ pc' \in [Calls -> Active \cup {"idle", "done"}]
        /\ result' \in [Calls -> Results]
        /\ hash' \in [Calls -> Hash \cup {NoHash}]
        /\ expired' \in [Calls -> BOOLEAN]
    BY <1>8 DEF CreateSecret, Results
  <2> QED BY <1>8, <2>2, <2>3 DEF CreateSecret
<1>9. ASSUME NEW c \in Calls, AlreadyExists(c) PROVE TypeOK'
  BY <1>9 DEF AlreadyExists, Active, ApiSteps
<1>10. ASSUME NEW c \in Calls, ApiError(c) PROVE TypeOK'
  BY <1>10 DEF ApiError, Active, Results
<1>11. ASSUME NEW c \in Calls, Expire(c) PROVE TypeOK'
  BY <1>11 DEF Expire
<1>12. ASSUME NEW n \in Nodes, NEW v \in ForeignRecords, WriteSecret(n, v) PROVE TypeOK'
  BY <1>12, ForeignAssumption DEF WriteSecret
<1>13. ASSUME NEW n \in Nodes, DeleteSecret(n) PROVE TypeOK'
  BY <1>13 DEF DeleteSecret
<1>14. ASSUME NEW n \in Nodes, RegisterNode(n) PROVE TypeOK'
  BY <1>14 DEF RegisterNode
<1>15. ASSUME NEW n \in Nodes, DeleteNode(n) PROVE TypeOK'
  <2>1. nameFree' \in [Calls -> BOOLEAN]
    BY <1>15, Zenon DEF DeleteNode
  <2> QED BY <1>15, <2>1 DEF DeleteNode
<1>16. ASSUME NEW r \in Replicas, Crash(r) PROVE TypeOK'
  <2>1. /\ pc' \in [Calls -> Active \cup {"idle", "done"}]
        /\ hash' \in [Calls -> Hash \cup {NoHash}]
        /\ slots' \in [Replicas -> Int]
    BY <1>16 DEF Crash
  <2>2. expired' \in [Calls -> BOOLEAN]
    BY <1>16, Zenon DEF Crash
  <2> QED BY <1>16, <2>1, <2>2 DEF Crash
<1>17. CASE UNCHANGED vars
  BY <1>17 DEF vars
<1> QED
  BY <1>1, <1>2, <1>3, <1>4, <1>5, <1>6, <1>7, <1>8, <1>9, <1>10, <1>11,
     <1>12, <1>13, <1>14, <1>15, <1>16, <1>17 DEF Next, Step, Environment

(* The variables keep their types in every reachable state. *)
THEOREM TypeCorrect == Spec => []TypeOK
  BY TypeInit, TypeStep, PTL DEF Spec

---------------------------------------------------------------------------
(* A call that a step leaves alone, in a world the step leaves alone,      *)
(* keeps its invariant.                                                    *)
LEMMA CallFrame ==
  ASSUME NEW d \in Calls, CallOK(d), UNCHANGED world,
         pc'[d] = pc[d], arg'[d] = arg[d], hash'[d] = hash[d], result'[d] = result[d],
         inForce'[d] = inForce[d], nameFree'[d] = nameFree[d], removed'[d] = removed[d]
  PROVE  CallOK(d)'
  BY DEF world, CallOK, SeesTheWorld, VerifiesARecord, EnrolsAFreeName, AnswersForCause,
         node

(* Every step keeps what each call knows. *)
LEMMA CallStep == TypeOK /\ CallInv /\ [Next]_vars => CallInv'
<1> SUFFICES ASSUME TypeOK, CallInv, [Next]_vars, NEW d \in Calls PROVE CallOK(d)'
  BY DEF CallInv
<1>0. CallOK(d)
  BY DEF CallInv
<1> USE DEF world, ghosts, Goto, Return
<1>1. ASSUME NEW c \in Calls, NEW n \in Nodes, NEW pw \in Passwords, NEW r \in Replicas,
             Begin(c, n, pw, r)
      PROVE  CallOK(d)'
  <2>1. CASE d = c
    BY <1>1, <2>1 DEF Begin, TypeOK, CallOK, SeesTheWorld, VerifiesARecord,
       EnrolsAFreeName, AnswersForCause, node
  <2>2. CASE d # c
    BY <1>0, <1>1, <2>2, CallFrame DEF Begin, TypeOK
  <2> QED BY <2>1, <2>2
<1>2. ASSUME NEW c \in Calls, GetSecret(c) PROVE CallOK(d)'
  <2>1. CASE d = c
    BY <1>0, <1>2, <2>1 DEF GetSecret, TypeOK, CallOK, SeesTheWorld, VerifiesARecord,
       EnrolsAFreeName, AnswersForCause, node, Active, ApiSteps
  <2>2. CASE d # c
    BY <1>0, <1>2, <2>2, CallFrame DEF GetSecret, TypeOK
  <2> QED BY <2>1, <2>2
<1>3. ASSUME NEW c \in Calls, GetNode(c) PROVE CallOK(d)'
  <2>1. CASE d = c
    BY <1>0, <1>3, <2>1 DEF GetNode, TypeOK, CallOK, SeesTheWorld, VerifiesARecord,
       EnrolsAFreeName, AnswersForCause, node, Active, ApiSteps
  <2>2. CASE d # c
    BY <1>0, <1>3, <2>2, CallFrame DEF GetNode, TypeOK
  <2> QED BY <2>1, <2>2
<1>4. ASSUME NEW c \in Calls, AcquireSlot(c) PROVE CallOK(d)'
  <2>1. CASE d = c
    BY <1>0, <1>4, <2>1 DEF AcquireSlot, TypeOK, CallOK, SeesTheWorld, VerifiesARecord,
       EnrolsAFreeName, AnswersForCause, node, Active, Waiting
  <2>2. CASE d # c
    BY <1>0, <1>4, <2>2, CallFrame DEF AcquireSlot, TypeOK
  <2> QED BY <2>1, <2>2
<1>5. ASSUME NEW c \in Calls, SlotTimeout(c) PROVE CallOK(d)'
  <2>1. CASE d = c
    BY <1>5, <2>1 DEF SlotTimeout, TypeOK, CallOK, SeesTheWorld, VerifiesARecord,
       EnrolsAFreeName, AnswersForCause, node, Active, ApiSteps, Waiting, Running
  <2>2. CASE d # c
    BY <1>0, <1>5, <2>2, CallFrame DEF SlotTimeout, TypeOK
  <2> QED BY <2>1, <2>2
<1>6. ASSUME NEW c \in Calls, FinishVerify(c) PROVE CallOK(d)'
  <2>1. CASE d = c
    BY <1>0, <1>6, <2>1 DEF FinishVerify, TypeOK, CallOK, SeesTheWorld, VerifiesARecord,
       EnrolsAFreeName, AnswersForCause, node, Active, ApiSteps, Waiting, Running
  <2>2. CASE d # c
    BY <1>0, <1>6, <2>2, CallFrame DEF FinishVerify, TypeOK
  <2> QED BY <2>1, <2>2
<1>7. ASSUME NEW c \in Calls, FinishHash(c) PROVE CallOK(d)'
  <2>1. CASE d = c
    BY <1>0, <1>7, <2>1 DEF FinishHash, TypeOK, CallOK, SeesTheWorld, VerifiesARecord,
       EnrolsAFreeName, AnswersForCause, node, Active, Running
  <2>2. CASE d # c
    BY <1>0, <1>7, <2>2, CallFrame DEF FinishHash, TypeOK
  <2> QED BY <2>1, <2>2
<1>8. ASSUME NEW c \in Calls, CreateSecret(c) PROVE CallOK(d)'
  <2>1. createHash(arg[c].pw) \in Hash /\ Matches(createHash(arg[c].pw), arg[c].pw)
    BY CreatedHashVerifies DEF TypeOK
  <2>2. CASE d = c
    BY <1>0, <1>8, <2>1, <2>2 DEF CreateSecret, SetSecret, TypeOK, CallOK, SeesTheWorld,
       VerifiesARecord, EnrolsAFreeName, AnswersForCause, node, Active, ApiSteps,
       Waiting, Running
  <2>3. CASE d # c
    <3>1. UNCHANGED <<pc[d], arg[d], hash[d], result[d], nameFree[d], removed[d], nodeObjs>>
      BY <1>8, <2>3 DEF CreateSecret, TypeOK
    <3>2. secret[node(c)] = Absent /\ secret'[node(c)] = createHash(arg[c].pw)
      BY <1>8 DEF CreateSecret, SetSecret, TypeOK, node
    <3>3. inForce[d] \subseteq inForce'[d]
      BY <1>8 DEF CreateSecret, SetSecret
    <3>4. CASE node(d) # node(c)
      BY <1>0, <1>8, <3>1, <3>3, <3>4 DEF CreateSecret, SetSecret, TypeOK, CallOK,
         SeesTheWorld, VerifiesARecord, EnrolsAFreeName, AnswersForCause, node
    <3>5. CASE node(d) = node(c)
      BY <1>0, <1>8, <2>1, <3>1, <3>2, <3>3, <3>5, SentinelAssumption
      DEF CreateSecret, SetSecret, TypeOK, CallOK,
         SeesTheWorld, VerifiesARecord, EnrolsAFreeName, AnswersForCause, node
    <3> QED BY <3>4, <3>5
  <2> QED BY <2>2, <2>3
<1>9. ASSUME NEW c \in Calls, AlreadyExists(c) PROVE CallOK(d)'
  <2>1. CASE d = c
    BY <1>0, <1>9, <2>1 DEF AlreadyExists, TypeOK, CallOK, SeesTheWorld, VerifiesARecord,
       EnrolsAFreeName, AnswersForCause, node, Active, ApiSteps
  <2>2. CASE d # c
    BY <1>0, <1>9, <2>2, CallFrame DEF AlreadyExists, TypeOK
  <2> QED BY <2>1, <2>2
<1>10. ASSUME NEW c \in Calls, ApiError(c) PROVE CallOK(d)'
  <2>1. CASE d = c
    BY <1>10, <2>1 DEF ApiError, TypeOK, CallOK, SeesTheWorld, VerifiesARecord,
       EnrolsAFreeName, AnswersForCause, node, Active, ApiSteps, Waiting, Running
  <2>2. CASE d # c
    BY <1>0, <1>10, <2>2, CallFrame DEF ApiError, TypeOK
  <2> QED BY <2>1, <2>2
<1>11. ASSUME NEW c \in Calls, Expire(c) PROVE CallOK(d)'
  BY <1>0, <1>11, CallFrame DEF Expire
<1>12. ASSUME NEW n \in Nodes, NEW v \in ForeignRecords, WriteSecret(n, v) PROVE CallOK(d)'
  <2>1. inForce[d] \subseteq inForce'[d]
    BY <1>12 DEF WriteSecret, SetSecret
  <2>2. CASE node(d) # n
    BY <1>0, <1>12, <2>1, <2>2 DEF WriteSecret, SetSecret, TypeOK, CallOK,
       SeesTheWorld, VerifiesARecord, EnrolsAFreeName, AnswersForCause, node
  <2>3. CASE node(d) = n
    BY <1>0, <1>12, <2>1, <2>3, SentinelAssumption DEF WriteSecret, SetSecret, TypeOK,
       CallOK, SeesTheWorld, VerifiesARecord, EnrolsAFreeName, AnswersForCause, node
  <2> QED BY <2>2, <2>3
<1>13. ASSUME NEW n \in Nodes, DeleteSecret(n) PROVE CallOK(d)'
  <2>1. inForce[d] \subseteq inForce'[d]
    BY <1>13 DEF DeleteSecret, SetSecret
  <2>2. CASE node(d) # n
    BY <1>0, <1>13, <2>1, <2>2 DEF DeleteSecret, SetSecret, TypeOK, CallOK,
       SeesTheWorld, VerifiesARecord, EnrolsAFreeName, AnswersForCause, node
  <2>3. CASE node(d) = n
    BY <1>0, <1>13, <2>1, <2>3 DEF DeleteSecret, SetSecret, TypeOK,
       CallOK, SeesTheWorld, VerifiesARecord, EnrolsAFreeName, AnswersForCause, node
  <2> QED BY <2>2, <2>3
<1>14. ASSUME NEW n \in Nodes, RegisterNode(n) PROVE CallOK(d)'
  BY <1>0, <1>14 DEF RegisterNode, CallOK, SeesTheWorld, VerifiesARecord,
     EnrolsAFreeName, AnswersForCause, node
<1>15. ASSUME NEW n \in Nodes, DeleteNode(n) PROVE CallOK(d)'
  BY <1>0, <1>15 DEF DeleteNode, TypeOK, CallOK, SeesTheWorld, VerifiesARecord,
     EnrolsAFreeName, AnswersForCause, node
<1>16. ASSUME NEW r \in Replicas, Crash(r) PROVE CallOK(d)'
  <2>1. CASE pc[d] \in Active /\ rep[d] = r
    BY <1>0, <1>16, <2>1 DEF Crash, TypeOK, CallOK, SeesTheWorld, VerifiesARecord,
       EnrolsAFreeName, AnswersForCause, node, Active, ApiSteps, Waiting, Running
  <2>2. CASE pc[d] \notin Active
    BY <1>0, <1>16, <2>2 DEF Crash, TypeOK, CallOK, SeesTheWorld, VerifiesARecord,
       EnrolsAFreeName, AnswersForCause, node, Active, ApiSteps, Waiting, Running
  <2>3. CASE rep[d] # r
    BY <1>0, <1>16, <2>3, CallFrame DEF Crash, TypeOK
  <2> QED BY <2>1, <2>2, <2>3
<1>17. CASE UNCHANGED vars
  BY <1>0, <1>17, CallFrame DEF vars
<1> QED
  BY <1>1, <1>2, <1>3, <1>4, <1>5, <1>6, <1>7, <1>8, <1>9, <1>10, <1>11,
     <1>12, <1>13, <1>14, <1>15, <1>16, <1>17 DEF Next, Step, Environment

(* The type and call invariants hold in every reachable state. *)
THEOREM CallsSafe == Spec => [](TypeOK /\ CallInv)
<1>1. Init => CallInv
  BY DEF Init, CallInv, CallOK, SeesTheWorld, VerifiesARecord, EnrolsAFreeName,
         AnswersForCause, Active, Waiting, Running, ApiSteps
<1> QED
  BY <1>1, TypeInit, TypeStep, CallStep, PTL DEF Spec

(* An accepted password is the one on record until the Secret is deleted:  *)
(* CheckAndSet's anti-impersonation guarantee, for any number of replicas. *)
THEOREM AcceptedOnRecord == Spec => []AcceptedIsOnRecord
<1>1. CallInv => AcceptedIsOnRecord
  BY DEF CallInv, CallOK, AnswersForCause, AcceptedIsOnRecord, Accepted
<1> QED
  BY <1>1, CallsSafe, PTL

(* Every refusal has its ground in a record in force during the call. *)
THEOREM RefusedForCause == Spec => []RefusalJustified
<1>1. CallInv => RefusalJustified
  BY DEF CallInv, CallOK, AnswersForCause, RefusalJustified
<1> QED
  BY <1>1, CallsSafe, PTL

(* A password is enrolled only for a name that had no Node object at some  *)
(* moment of the call (store.go's Node lookup).                            *)
THEOREM EnrolsFreeNames == Spec => EnrolmentNeedsFreeName
<1>1. TypeOK /\ CallInv /\ [Next]_vars =>
        [\A c \in Calls : CreateSecret(c) => nameFree[c]]_vars
  BY DEF CallInv, CallOK, EnrolsAFreeName, CreateSecret
<1> QED
  BY <1>1, CallsSafe, PTL DEF Spec, EnrolmentNeedsFreeName

---------------------------------------------------------------------------
Holders(r) == {c \in Calls : pc[c] \in Running /\ rep[c] = r}

(* The calls holding a slot of r are finitely many. *)
LEMMA HoldersFinite == ASSUME NEW r PROVE IsFiniteSet(Holders(r))
  BY CallsAssumption, FS_Subset DEF Holders

(* A step that moves no call into or out of scrypt leaves the semaphore    *)
(* exact.                                                                  *)
LEMMA SlotsFrame ==
  ASSUME SlotsExact, UNCHANGED slots, \A r \in Replicas : Holders(r)' = Holders(r)
  PROVE  SlotsExact'
  BY DEF SlotsExact, Holders

(* runScrypt and its deferred release keep the semaphore exact.            *)
LEMMA SlotsStep == TypeOK /\ SlotsExact /\ [Next]_vars => SlotsExact'
<1> SUFFICES ASSUME TypeOK, SlotsExact, [Next]_vars PROVE SlotsExact'
  OBVIOUS
<1> USE DEF world, ghosts, Goto, Return
<1>1. ASSUME NEW c \in Calls, NEW n \in Nodes, NEW pw \in Passwords, NEW r \in Replicas,
             Begin(c, n, pw, r)
      PROVE  SlotsExact'
  <2>1. \A q \in Replicas : Holders(q)' = Holders(q)
    BY <1>1 DEF Begin, TypeOK, Holders, Running
  <2> QED BY <1>1, <2>1, SlotsFrame DEF Begin
<1>2. ASSUME NEW c \in Calls, GetSecret(c) PROVE SlotsExact'
  <2>1. \A q \in Replicas : Holders(q)' = Holders(q)
    BY <1>2 DEF GetSecret, TypeOK, Holders, Running
  <2> QED BY <1>2, <2>1, SlotsFrame DEF GetSecret
<1>3. ASSUME NEW c \in Calls, GetNode(c) PROVE SlotsExact'
  <2>1. \A q \in Replicas : Holders(q)' = Holders(q)
    BY <1>3 DEF GetNode, TypeOK, Holders, Running
  <2> QED BY <1>3, <2>1, SlotsFrame DEF GetNode
<1>4. ASSUME NEW c \in Calls, AcquireSlot(c) PROVE SlotsExact'
  <2>1. SUFFICES ASSUME NEW q \in Replicas
                 PROVE  slots'[q] = Cardinality(Holders(q)') /\ slots'[q] <= Slots
    BY DEF SlotsExact, Holders
  <2>2. slots[q] = Cardinality(Holders(q)) /\ slots[q] <= Slots
    BY DEF SlotsExact, Holders
  <2>3. CASE q = rep[c]
    <3>1. Holders(q)' = Holders(q) \cup {c} /\ c \notin Holders(q)
      BY <1>4, <2>3 DEF AcquireSlot, TypeOK, Holders, Running, Waiting
    <3>2. Cardinality(Holders(q)') = Cardinality(Holders(q)) + 1
      BY <3>1, HoldersFinite, FS_AddElement
    <3> QED BY <1>4, <2>2, <2>3, <3>2, SlotsAssumption DEF AcquireSlot, TypeOK
  <2>4. CASE q # rep[c]
    <3>1. Holders(q)' = Holders(q)
      BY <1>4, <2>4 DEF AcquireSlot, TypeOK, Holders
    <3> QED BY <1>4, <2>2, <2>4, <3>1 DEF AcquireSlot, TypeOK
  <2> QED BY <2>3, <2>4
<1>5. ASSUME NEW c \in Calls, SlotTimeout(c) PROVE SlotsExact'
  <2>1. \A q \in Replicas : Holders(q)' = Holders(q)
    BY <1>5 DEF SlotTimeout, TypeOK, Holders, Running, Waiting
  <2> QED BY <1>5, <2>1, SlotsFrame DEF SlotTimeout
<1>6. ASSUME NEW c \in Calls, FinishVerify(c) \/ FinishHash(c) PROVE SlotsExact'
  <2>1. SUFFICES ASSUME NEW q \in Replicas
                 PROVE  slots'[q] = Cardinality(Holders(q)') /\ slots'[q] <= Slots
    BY DEF SlotsExact, Holders
  <2>2. slots[q] = Cardinality(Holders(q)) /\ slots[q] <= Slots
    BY DEF SlotsExact, Holders
  <2>3. CASE q = rep[c]
    <3>1. Holders(q)' = Holders(q) \ {c} /\ c \in Holders(q)
      BY <1>6, <2>3 DEF FinishVerify, FinishHash, TypeOK, Holders, Running
    <3>2. Cardinality(Holders(q)') = Cardinality(Holders(q)) - 1
      BY <3>1, HoldersFinite, FS_RemoveElement
    <3> QED BY <1>6, <2>2, <2>3, <3>2, SlotsAssumption DEF FinishVerify, FinishHash, TypeOK
  <2>4. CASE q # rep[c]
    <3>1. Holders(q)' = Holders(q)
      BY <1>6, <2>4 DEF FinishVerify, FinishHash, TypeOK, Holders
    <3> QED BY <1>6, <2>2, <2>4, <3>1 DEF FinishVerify, FinishHash, TypeOK
  <2> QED BY <2>3, <2>4
<1>8. ASSUME NEW c \in Calls, CreateSecret(c) PROVE SlotsExact'
  <2>1. \A q \in Replicas : Holders(q)' = Holders(q)
    BY <1>8 DEF CreateSecret, TypeOK, Holders, Running
  <2> QED BY <1>8, <2>1, SlotsFrame DEF CreateSecret
<1>9. ASSUME NEW c \in Calls, AlreadyExists(c) \/ ApiError(c) PROVE SlotsExact'
  <2>1. \A q \in Replicas : Holders(q)' = Holders(q)
    BY <1>9 DEF AlreadyExists, ApiError, ApiSteps, TypeOK, Holders, Running
  <2> QED BY <1>9, <2>1, SlotsFrame DEF AlreadyExists, ApiError
<1>10. ASSUME UNCHANGED <<pc, rep, slots>> PROVE SlotsExact'
  BY <1>10, SlotsFrame DEF Holders
<1>11. ASSUME NEW r \in Replicas, Crash(r) PROVE SlotsExact'
  <2>1. SUFFICES ASSUME NEW q \in Replicas
                 PROVE  slots'[q] = Cardinality(Holders(q)') /\ slots'[q] <= Slots
    BY DEF SlotsExact, Holders
  <2>2. CASE q = r
    <3>1. Holders(q)' = {}
      BY <1>11, <2>2 DEF Crash, TypeOK, Holders, Running, Active
    <3> QED BY <1>11, <2>2, <3>1, FS_EmptySet, SlotsAssumption DEF Crash, TypeOK
  <2>3. CASE q # r
    <3>1. Holders(q)' = Holders(q)
      BY <1>11, <2>3 DEF Crash, TypeOK, Holders
    <3> QED BY <1>11, <2>3, <3>1 DEF Crash, TypeOK, SlotsExact, Holders
  <2> QED BY <2>2, <2>3
<1>12. ASSUME Next PROVE SlotsExact'
  BY <1>1, <1>2, <1>3, <1>4, <1>5, <1>6, <1>8, <1>9, <1>10, <1>11, <1>12
  DEF Next, Step, Environment, Expire, WriteSecret, DeleteSecret, RegisterNode, DeleteNode
<1> QED
  BY <1>10, <1>12 DEF vars

(* The scrypt semaphore of every replica counts exactly its running        *)
(* calls and stays within its capacity.                                    *)
THEOREM SlotsBounded == Spec => []SlotsExact
<1>1. Init => SlotsExact
  <2> SUFFICES ASSUME Init, NEW r \in Replicas
               PROVE  slots[r] = Cardinality(Holders(r)) /\ slots[r] <= Slots
    BY DEF SlotsExact, Holders
  <2>1. Holders(r) = {}
    BY DEF Init, Holders, Running
  <2> QED BY <2>1, FS_EmptySet, SlotsAssumption DEF Init
<1> QED
  BY <1>1, SlotsStep, TypeCorrect, PTL DEF Spec

---------------------------------------------------------------------------
(* N is a power of 2: Pow2 is the function its definition asks for. *)
LEMMA Pow2Def == Pow2 = [n \in Nat |-> IF n = 0 THEN 1 ELSE 2 * Pow2[n - 1]]
<1> DEFINE F == [n \in Nat |-> [x \in Nat |-> 2 * x]]
<1>1. F \in [Nat -> [Nat -> Nat]]
  OBVIOUS
<1>2. \A n, x \in Nat : F[n][x] = 2 * x
  OBVIOUS
<1> HIDE DEF F
<1>3. PICK g : Iterates(g, Nat, 1, F)
  BY <1>1, Iteration
<1>4. \A n \in Nat : g[n] = IF n = 0 THEN 1 ELSE 2 * g[n - 1]
  <2> SUFFICES ASSUME NEW n \in Nat, n # 0 PROVE g[n] = 2 * g[n - 1]
    BY <1>3 DEF Iterates
  <2>1. n - 1 \in Nat /\ (n - 1) + 1 = n
    OBVIOUS
  <2> QED
    BY <1>2, <1>3, <2>1 DEF Iterates
<1>5. g = [n \in Nat |-> IF n = 0 THEN 1 ELSE 2 * g[n - 1]]
  BY <1>3, <1>4 DEF Iterates
<1> QED
  BY <1>5 DEF Pow2

(* Pow2 grows. *)
LEMMA Pow2Grows == \A n, k \in Nat : Pow2[n] \in Nat /\ Pow2[n] <= Pow2[n + k]
<1>0. Pow2[0] = 1 /\ \A n \in Nat : Pow2[n + 1] = 2 * Pow2[n]
  BY Pow2Def
<1>1. \A n \in Nat : Pow2[n] \in Nat
  <2> DEFINE S == {n \in Nat : Pow2[n] \in Nat}
  <2>1. 0 \in S /\ \A n \in Nat : n \in S => n + 1 \in S
    BY <1>0
  <2> HIDE DEF S
  <2>2. \A n \in Nat : n \in S
    BY <2>1, Induction
  <2> QED
    BY <2>2 DEF S
<1>2. ASSUME NEW n \in Nat PROVE \A k \in Nat : Pow2[n] <= Pow2[n + k]
  <2> DEFINE S == {k \in Nat : Pow2[n] <= Pow2[n + k]}
  <2>1. 0 \in S
    BY <1>1
  <2>2. ASSUME NEW k \in Nat, k \in S PROVE k + 1 \in S
    <3>1. Pow2[n + (k + 1)] = 2 * Pow2[n + k]
      BY <1>0
    <3> QED
      BY <1>1, <2>2, <3>1
  <2> HIDE DEF S
  <2>3. \A k \in Nat : k \in S
    BY <2>1, <2>2, Induction
  <2> QED
    BY <2>3 DEF S
<1> QED
  BY <1>1, <1>2

(* The largest N of the bounds. *)
LEMMA LargestN == Pow2[maxParamN] = 65536
<1>1. Pow2[0] = 1 /\ \A n \in Nat : Pow2[n + 1] = 2 * Pow2[n]
  BY Pow2Def
<1>2. \A n \in Nat : Pow2[n + 4] = 16 * Pow2[n]
  <2> SUFFICES ASSUME NEW n \in Nat PROVE Pow2[n + 4] = 16 * Pow2[n]
    OBVIOUS
  <2>1. Pow2[n] \in Nat
    BY Pow2Grows
  <2>2. Pow2[n + 1] = 2 * Pow2[n] /\ Pow2[(n + 1) + 1] = 2 * Pow2[n + 1]
    BY <1>1
  <2>3. /\ Pow2[((n + 1) + 1) + 1] = 2 * Pow2[(n + 1) + 1]
        /\ Pow2[(((n + 1) + 1) + 1) + 1] = 2 * Pow2[((n + 1) + 1) + 1]
    BY <1>1
  <2>4. (((n + 1) + 1) + 1) + 1 = n + 4
    OBVIOUS
  <2> QED
    BY <2>1, <2>2, <2>3, <2>4
<1>3. Pow2[4] = 16 * Pow2[0] /\ Pow2[8] = 16 * Pow2[4]
  BY <1>2
<1>4. Pow2[12] = 16 * Pow2[8] /\ Pow2[16] = 16 * Pow2[12]
  BY <1>2
<1> QED
  BY <1>1, <1>3, <1>4 DEF maxParamN

(* A hash that verifyHash evaluates costs no more than 128 MiB. *)
LEMMA EvaluableIsCheap ==
  ASSUME NEW h \in Hash, Evaluable(h)
  PROVE  CostMiB(h) \in 0 .. LargestRunMiB
<1> DEFINE p == Pow2[h.n]
           r == h.r
           P == Pow2[maxParamN]
           R == maxParamR
<1>1. h.n \in Nat /\ maxParamN - h.n \in Nat /\ r \in Nat /\ r <= R /\ R \in Nat
  BY DEF Hash, Evaluable, InBounds, maxParamN, maxParamR
<1>2. maxParamN = h.n + (maxParamN - h.n) /\ maxParamN \in Nat
  BY <1>1 DEF maxParamN
<1>3. p \in Nat /\ P \in Nat /\ p <= P
  BY <1>1, <1>2, Pow2Grows
<1>4. CostMiB(h) = (p * r) \div 8192 /\ LargestRunMiB = (P * R) \div 8192
  <2>1. P * R = 1048576
    BY LargestN DEF maxParamR
  <2>2. 1048576 \div 8192 = 128
    BY SMT
  <2> HIDE DEF P, R
  <2> QED
    BY <2>1, <2>2 DEF CostMiB, LargestRunMiB
<1> HIDE DEF p, r, P, R
<1>5. p * r \in Nat /\ P * R \in Nat /\ p * r <= P * r /\ P * r <= P * R /\ P * r \in Nat
  BY <1>1, <1>3, SMT
<1>6. \A x, y \in Nat : x <= y => x \div 8192 \in 0 .. y \div 8192
  BY SMT
<1> QED
  BY <1>4, <1>5, <1>6, SMT

---------------------------------------------------------------------------
(* The call a sum over S takes next. *)
Pick(s) == CHOOSE c \in s : TRUE

Adds(g, S) == g = [s \in SUBSET S |-> IF s = {} THEN 0 ELSE RunMiB(Pick(s)) + g[s \ {Pick(s)}]]

(* Over a finite set of calls the sum exists.  The approximation n is      *)
(* right on the sets of at most n calls.                                   *)
LEMMA SumExists ==
  ASSUME NEW S, IsFiniteSet(S), \A c \in S : RunMiB(c) \in Nat
  PROVE  \E g \in [SUBSET S -> Nat] : Adds(g, S)
<1> DEFINE T == [SUBSET S -> Nat]
           next(g) == [s \in SUBSET S |->
                         IF s = {} THEN 0 ELSE RunMiB(Pick(s)) + g[s \ {Pick(s)}]]
           F == [n \in Nat |-> [g \in T |-> next(g)]]
           zero == [s \in SUBSET S |-> 0]
<1>1. \A s \in SUBSET S : s # {} => Pick(s) \in s /\ s \ {Pick(s)} \in SUBSET S
  BY DEF Pick
<1>2. \A g \in T : next(g) \in T
  BY <1>1
<1>3. F \in [Nat -> [T -> T]] /\ zero \in T
  BY <1>2
<1>4. /\ \A n \in Nat, g \in T : F[n][g] = next(g)
      /\ \A g : \A s \in SUBSET S :
           next(g)[s] = IF s = {} THEN 0 ELSE RunMiB(Pick(s)) + g[s \ {Pick(s)}]
      /\ zero[{}] = 0 /\ \A g : next(g)[{}] = 0
  OBVIOUS
<1> HIDE DEF F, T, zero, next
<1>5. PICK a : Iterates(a, T, zero, F)
  BY <1>3, Iteration
<1>6. \A n \in Nat : a[n] \in T /\ a[n + 1] = next(a[n])
  BY <1>4, <1>5 DEF Iterates
<1> DEFINE R == {n \in Nat : \A s \in SUBSET S : Cardinality(s) <= n => a[n + 1][s] = a[n][s]}
<1>7. \A s \in SUBSET S : IsFiniteSet(s) /\ Cardinality(s) \in Nat
  BY FS_Subset, FS_CardinalityType
<1>8. 0 \in R
  <2> SUFFICES ASSUME NEW s \in SUBSET S, Cardinality(s) <= 0 PROVE a[0 + 1][s] = a[0][s]
    OBVIOUS
  <2>1. s = {}
    BY <1>7, FS_EmptySet
  <2>2. a[0][s] = 0
    BY <1>4, <1>5, <2>1 DEF Iterates
  <2>3. a[0 + 1] = next(a[0])
    BY <1>6
  <2>4. next(a[0])[s] = 0
    BY <1>4, <2>1
  <2> QED
    BY <2>2, <2>3, <2>4
<1>9. \A n \in Nat : n \in R => n + 1 \in R
  <2> SUFFICES ASSUME NEW n \in Nat, n \in R, NEW s \in SUBSET S, Cardinality(s) <= n + 1
               PROVE  a[(n + 1) + 1][s] = a[n + 1][s]
    OBVIOUS
  <2>0. n + 1 \in Nat /\ a[n + 1] = next(a[n]) /\ a[(n + 1) + 1] = next(a[n + 1])
    BY <1>6
  <2>1. CASE s = {}
    BY <1>4, <2>0, <2>1
  <2>2. CASE s # {}
    <3> DEFINE u == s \ {Pick(s)}
    <3>1. u \in SUBSET S /\ Pick(s) \in s
      BY <1>1, <2>2
    <3>2. Cardinality(u) = Cardinality(s) - 1
      BY <1>7, <3>1, FS_RemoveElement
    <3>3. a[n + 1][u] = a[n][u]
      BY <1>7, <3>1, <3>2
    <3>4. /\ next(a[n])[s] = RunMiB(Pick(s)) + a[n][u]
          /\ next(a[n + 1])[s] = RunMiB(Pick(s)) + a[n + 1][u]
      BY <1>4, <2>2
    <3> QED
      BY <2>0, <3>3, <3>4
  <2> QED
    BY <2>1, <2>2
<1> HIDE DEF R
<1>10. Cardinality(S) \in R
  BY <1>7, <1>8, <1>9, Induction
<1> DEFINE g == a[Cardinality(S)]
<1>11. g \in T /\ next(g) \in T /\ \A s \in SUBSET S : next(g)[s] = g[s]
  <2>1. Cardinality(S) \in Nat /\ \A s \in SUBSET S : Cardinality(s) <= Cardinality(S)
    BY <1>7, FS_Subset
  <2> QED
    BY <1>2, <1>6, <1>10, <2>1 DEF R
<1> HIDE DEF g
<1>12. next(g) = g
  BY <1>11 DEF T
<1> QED
  BY <1>11, <1>12 DEF T, next, Adds

(* A sum over n calls of at most M each is at most n times M. *)
LEMMA SumBounded ==
  ASSUME NEW S, IsFiniteSet(S), NEW M \in Nat, \A c \in S : RunMiB(c) \in 0 .. M
  PROVE  MapThenSumSet(RunMiB, S) \in 0 .. Cardinality(S) * M
<1> DEFINE g == CHOOSE g : Adds(g, S)
<1>1. MapThenSumSet(RunMiB, S) = g[S]
  BY DEF MapThenSumSet, MapThenFoldSet, Adds, Pick
<1>2. Adds(g, S)
  <2>1. \E h : Adds(h, S)
    <3>1. \A c \in S : RunMiB(c) \in Nat
      OBVIOUS
    <3> QED
      BY <3>1, SumExists
  <2> QED
    BY <2>1
<1> HIDE DEF g
<1> DEFINE B == {n \in Nat : \A s \in SUBSET S : Cardinality(s) = n => g[s] \in 0 .. n * M}
<1>3. \A s \in SUBSET S : IsFiniteSet(s) /\ Cardinality(s) \in Nat
  BY FS_Subset, FS_CardinalityType
<1>4. 0 \in B
  <2> SUFFICES ASSUME NEW s \in SUBSET S, Cardinality(s) = 0 PROVE g[s] = 0
    OBVIOUS
  <2>1. s = {}
    BY <1>3, FS_EmptySet
  <2> QED
    BY <1>2, <2>1 DEF Adds
<1>5. \A n \in Nat : n \in B => n + 1 \in B
  <2> SUFFICES ASSUME NEW n \in Nat, n \in B, NEW s \in SUBSET S, Cardinality(s) = n + 1
               PROVE  g[s] \in 0 .. (n + 1) * M
    OBVIOUS
  <2> DEFINE u == s \ {Pick(s)}
  <2>1. s # {}
    <3>1. Cardinality(s) # 0
      OBVIOUS
    <3> QED
      BY <3>1, FS_EmptySet
  <2>2. Pick(s) \in s /\ u \in SUBSET S
    BY <2>1 DEF Pick
  <2>3. Cardinality(u) = n
    BY <1>3, <2>2, FS_RemoveElement
  <2>4. g[u] \in 0 .. n * M
    BY <2>2, <2>3
  <2>5. g[s] = RunMiB(Pick(s)) + g[u]
    BY <1>2, <2>1 DEF Adds
  <2>6. RunMiB(Pick(s)) \in 0 .. M
    BY <2>2
  <2>7. n * M \in Nat /\ (n + 1) * M = n * M + M
    OBVIOUS
  <2> HIDE DEF u
  <2> QED
    BY <2>4, <2>5, <2>6, <2>7
<1> HIDE DEF B
<1>6. Cardinality(S) \in B
  BY <1>3, <1>4, <1>5, Induction
<1>7. g[S] \in 0 .. Cardinality(S) * M
  BY <1>6 DEF B
<1> QED
  BY <1>1, <1>3, <1>7

(* Whatever the Secrets hold, the scrypt runs of a replica need no more    *)
(* memory than 128 MiB for each of its slots.                              *)
THEOREM MemoryBounded == Spec => []ScryptMemoryBounded
<1>1. TypeOK /\ CallInv /\ SlotsExact => ScryptMemoryBounded
  <2> SUFFICES ASSUME TypeOK, CallInv, SlotsExact, NEW r \in Replicas
               PROVE  MapThenSumSet(RunMiB, Holders(r)) <= Slots * LargestRunMiB
    BY DEF ScryptMemoryBounded, Holders
  <2>1. \A c \in Holders(r) : RunMiB(c) \in 0 .. LargestRunMiB
    <3> SUFFICES ASSUME NEW c \in Holders(r) PROVE RunMiB(c) \in 0 .. LargestRunMiB
      OBVIOUS
    <3>1. CASE pc[c] = "verifying"
      <4>1. hash[c] \in Hash /\ Evaluable(hash[c])
        BY <3>1 DEF CallInv, CallOK, VerifiesARecord, Holders
      <4> QED
        BY <3>1, <4>1, EvaluableIsCheap DEF RunMiB
    <3>2. CASE pc[c] # "verifying"
      <4>1. createHash(arg[c].pw) \in Hash /\ Evaluable(createHash(arg[c].pw))
        BY CreatedHashVerifies DEF TypeOK, Holders
      <4> QED
        BY <3>2, <4>1, EvaluableIsCheap DEF RunMiB
    <3> QED
      BY <3>1, <3>2
  <2>2. LargestRunMiB \in Nat
    BY DEF LargestRunMiB
  <2>3. MapThenSumSet(RunMiB, Holders(r)) \in 0 .. Cardinality(Holders(r)) * LargestRunMiB
    BY <2>1, <2>2, HoldersFinite, SumBounded
  <2>4. Cardinality(Holders(r)) <= Slots /\ Cardinality(Holders(r)) \in Nat
    BY HoldersFinite, FS_CardinalityType DEF SlotsExact, Holders
  <2>5. \A k \in Nat : k <= Slots => k * LargestRunMiB <= Slots * LargestRunMiB
    BY <2>2, SlotsAssumption
  <2> QED
    BY <2>2, <2>3, <2>4, <2>5, SlotsAssumption
<1> QED
  BY <1>1, CallsSafe, SlotsBounded, PTL

---------------------------------------------------------------------------
answerFn == [c \in Calls |-> Answer(c)]

(* A step on call c alone changes at most c's answer. *)
LEMMA AnswerOf ==
  ASSUME TypeOK, NEW c \in Calls, NEW label, NEW res, pc' = [pc EXCEPT ![c] = label],
         result' = [result EXCEPT ![c] = res]
  PROVE  answerFn' = [answerFn EXCEPT ![c] = IF label \in Active THEN "pending"
                                             ELSE IF label = "done" THEN res ELSE "idle"]
  BY DEF answerFn, Answer, TypeOK

(* A step between two labels of a call under way is invisible. *)
LEMMA AnswerStays ==
  ASSUME TypeOK, NEW c \in Calls, NEW label \in Active, pc[c] \in Active,
         pc' = [pc EXCEPT ![c] = label], UNCHANGED result
  PROVE  UNCHANGED answerFn
  BY DEF answerFn, Answer, TypeOK

(* TofuStore's hashes are NodePassword's. *)
LEMMA SameHashes ==
  /\ \A pw : Tofu!createHash(pw) = createHash(pw)
  /\ \A h : Tofu!Evaluable(h) <=> Evaluable(h)
  /\ \A h, pw : Tofu!Matches(h, pw) <=> Matches(h, pw)
  BY DEF createHash, Evaluable, Matches, InBounds, Tofu!createHash, Tofu!Evaluable,
     Tofu!Matches, Tofu!InBounds, paramN, paramR, paramP, paramKeyLen, maxParamN,
     maxParamR, maxParamP, minKeyLen, maxKeyLen, Tofu!paramN, Tofu!paramR,
     Tofu!paramP, Tofu!paramKeyLen, Tofu!maxParamN, Tofu!maxParamR, Tofu!maxParamP,
     Tofu!minKeyLen, Tofu!maxKeyLen

(* A call under way is pending in TofuStore, any other is not. *)
LEMMA PendingIsActive == ASSUME TypeOK PROVE Tofu!Pending = ActiveCalls
  BY DEF Tofu!Pending, Answer, ActiveCalls, TypeOK, Results

(* A call that returns with grounds for its result is a Tell step. *)
LEMMA ReturnTells ==
  ASSUME TypeOK, NEW c \in Calls, NEW res \in {"ok", "mismatch", "exists", "error"},
         pc[c] \in Active, Return(c, res), UNCHANGED <<world, arg, ghosts>>,
         Tofu!Grounds(c, res)
  PROVE  Tofu!TofuNext
<1>1. answerFn' = [answerFn EXCEPT ![c] = res]
  BY AnswerOf DEF Return, Goto, Active, ApiSteps, Waiting, Running
<1>2. Tofu!Tell(c, res)
  BY <1>1, PendingIsActive DEF Tofu!Tell, answerFn, ActiveCalls, world, ghosts
<1> QED
  BY <1>2 DEF Tofu!TofuNext

(* An error needs no ground. *)
LEMMA ErrorTells ==
  ASSUME TypeOK, NEW c \in Calls, pc[c] \in Active, Return(c, "error"),
         UNCHANGED <<world, arg, ghosts>>
  PROVE  Tofu!TofuNext
<1>1. Tofu!Grounds(c, "error")
  BY DEF Tofu!Grounds
<1> QED
  BY <1>1, ReturnTells

(* A step that only moves a call between labels is no step of TofuStore. *)
LEMMA MoveIsInvisible ==
  ASSUME TypeOK, NEW c \in Calls, NEW label \in Active, pc[c] \in Active,
         Goto(c, label), UNCHANGED <<world, arg, result, ghosts>>
  PROVE  UNCHANGED Tofu!tvars
  BY AnswerStays DEF Goto, Tofu!tvars, answerFn, world, ghosts

(* SetSecret shows every pending call the new record, as Witness asks. *)
LEMMA SetSecretWitnesses ==
  ASSUME TypeOK, NEW n \in Nodes, NEW v, SetSecret(n, v)
  PROVE  inForce' = Tofu!Witness(n, v, Tofu!Pending)
  BY PendingIsActive DEF SetSecret, Tofu!Witness, ActiveCalls, node

(* Every step of NodePassword is a step of TofuStore, or changes nothing   *)
(* that TofuStore sees.                                                    *)
LEMMA TofuStep == TypeOK /\ CallInv /\ [Next]_vars => Tofu!TofuNext \/ UNCHANGED Tofu!tvars
<1> DEFINE Implemented == Tofu!TofuNext \/ UNCHANGED Tofu!tvars
<1> SUFFICES ASSUME TypeOK, CallInv, [Next]_vars PROVE Implemented
  OBVIOUS
<1>1. ASSUME NEW c \in Calls, NEW n \in Nodes, NEW pw \in Passwords, NEW r \in Replicas,
             Begin(c, n, pw, r)
      PROVE  Implemented
  <2>1. answerFn' = [answerFn EXCEPT ![c] = "pending"]
    BY <1>1, AnswerOf DEF Begin, Goto, Active, ApiSteps
  <2>2. c \notin Tofu!Pending
    BY <1>1, PendingIsActive
    DEF Begin, ActiveCalls, Active, ApiSteps, Waiting, Running
  <2>3. Tofu!Ask(c, n, pw)
    BY <1>1, <2>1, <2>2 DEF Begin, Tofu!Ask, answerFn, world
  <2> QED BY <2>3 DEF Tofu!TofuNext
<1>2. ASSUME NEW c \in Calls, GetSecret(c) PROVE Implemented
  <2>1. CASE Return(c, "error")
    BY <1>2, <2>1, ErrorTells DEF GetSecret, Active, ApiSteps
  <2>2. CASE Goto(c, "getNode") \/ Goto(c, "verifyWait")
    BY <1>2, <2>2, MoveIsInvisible DEF GetSecret, Return, Goto, Active, ApiSteps, Waiting, TypeOK
  <2> QED BY <1>2, <2>1, <2>2 DEF GetSecret
<1>3. ASSUME NEW c \in Calls, GetNode(c) PROVE Implemented
  <2>1. CASE Return(c, "exists")
    <3>1. Tofu!Grounds(c, "exists")
      BY <1>3 DEF GetNode, CallInv, CallOK, EnrolsAFreeName, Tofu!Grounds
    <3> QED BY <1>3, <2>1, <3>1, ReturnTells DEF GetNode, Active, ApiSteps
  <2>2. CASE Goto(c, "hashWait")
    BY <1>3, <2>2, MoveIsInvisible DEF GetNode, Return, Goto, Active, ApiSteps, Waiting, TypeOK
  <2> QED BY <1>3, <2>1, <2>2 DEF GetNode
<1>4. ASSUME NEW c \in Calls, AcquireSlot(c) PROVE Implemented
  BY <1>4, MoveIsInvisible DEF AcquireSlot, Active, Waiting, Running
<1>5. ASSUME NEW c \in Calls, SlotTimeout(c) PROVE Implemented
  BY <1>5, ErrorTells DEF SlotTimeout, Active
<1>6. ASSUME NEW c \in Calls, FinishVerify(c) PROVE Implemented
  <2>1. /\ hash[c] \in inForce[c] \ {Absent, NoHash}
        /\ Evaluable(hash[c])
    BY <1>6, SentinelAssumption DEF FinishVerify, CallInv, CallOK, VerifiesARecord
  <2>2. CASE Matches(hash[c], arg[c].pw)
    <3>1. Tofu!Grounds(c, "ok")
      BY <2>1, <2>2, SameHashes DEF Tofu!Grounds
    <3> QED BY <1>6, <2>2, <3>1, ReturnTells DEF FinishVerify, Active, Running
  <2>3. CASE ~Matches(hash[c], arg[c].pw)
    <3>1. Tofu!Grounds(c, "mismatch")
      BY <2>1, <2>3, SameHashes DEF Tofu!Grounds
    <3> QED BY <1>6, <2>3, <3>1, ReturnTells DEF FinishVerify, Active, Running
  <2> QED BY <2>2, <2>3
<1>7. ASSUME NEW c \in Calls, FinishHash(c) PROVE Implemented
  BY <1>7, MoveIsInvisible DEF FinishHash, Active, ApiSteps, Running
<1>8. ASSUME NEW c \in Calls, CreateSecret(c) PROVE Implemented
  <2>1. PICK said \in {"ok", "error"} : Return(c, said)
    BY <1>8 DEF CreateSecret
  <2>2. answerFn' = [answerFn EXCEPT ![c] = said]
    BY <2>1, AnswerOf DEF Return, Goto, Active, ApiSteps, Waiting, Running
  <2>3. c \in Tofu!Pending /\ nameFree[c]
    BY <1>8, PendingIsActive DEF CreateSecret, ActiveCalls, Active, ApiSteps, CallInv,
       CallOK, EnrolsAFreeName
  <2>4. inForce' = Tofu!Witness(arg[c].node, createHash(arg[c].pw), Tofu!Pending)
    BY <1>8, SetSecretWitnesses DEF CreateSecret, node, TypeOK
  <2>5. Tofu!createHash(arg[c].pw) = createHash(arg[c].pw)
    BY SameHashes
  <2>6. Tofu!Enrol(c, said)
    BY <1>8, <2>2, <2>3, <2>4, <2>5 DEF CreateSecret, SetSecret, Tofu!Enrol, answerFn, node
  <2> QED BY <2>6 DEF Tofu!TofuNext
<1>9. ASSUME NEW c \in Calls, AlreadyExists(c) PROVE Implemented
  BY <1>9, MoveIsInvisible DEF AlreadyExists, Active, ApiSteps
<1>10. ASSUME NEW c \in Calls, ApiError(c) PROVE Implemented
  BY <1>10, ErrorTells DEF ApiError, Active
<1>11. ASSUME UNCHANGED <<world, pc, arg, result, ghosts>> PROVE Implemented
  BY <1>11 DEF Tofu!tvars, Answer, world, ghosts
<1>12. ASSUME NEW n \in Nodes, NEW v \in ForeignRecords, WriteSecret(n, v) PROVE Implemented
  <2>1. UNCHANGED answerFn
    BY <1>12 DEF WriteSecret, answerFn, Answer
  <2>2. Tofu!Provision(n, v)
    BY <1>12, <2>1, SetSecretWitnesses DEF WriteSecret, SetSecret, Tofu!Provision, answerFn
  <2> QED BY <2>2 DEF Tofu!TofuNext
<1>13. ASSUME NEW n \in Nodes, DeleteSecret(n) PROVE Implemented
  <2>1. UNCHANGED answerFn
    BY <1>13 DEF DeleteSecret, answerFn, Answer
  <2>2. Tofu!Remove(n)
    BY <1>13, <2>1, SetSecretWitnesses DEF DeleteSecret, SetSecret, Tofu!Remove, answerFn
  <2> QED BY <2>2 DEF Tofu!TofuNext
<1>14. ASSUME NEW n \in Nodes, RegisterNode(n) PROVE Implemented
  <2>1. UNCHANGED answerFn
    BY <1>14 DEF RegisterNode, answerFn, Answer
  <2>2. Tofu!Register(n)
    BY <1>14, <2>1 DEF RegisterNode, Tofu!Register, answerFn, ghosts
  <2> QED BY <2>2 DEF Tofu!TofuNext
<1>15. ASSUME NEW n \in Nodes, DeleteNode(n) PROVE Implemented
  <2>1. UNCHANGED answerFn
    BY <1>15 DEF DeleteNode, answerFn, Answer
  <2>2. Tofu!Unregister(n)
    BY <1>15, <2>1, PendingIsActive DEF DeleteNode, Tofu!Unregister, answerFn, ActiveCalls, node
  <2> QED BY <2>2 DEF Tofu!TofuNext
<1>16. ASSUME NEW r \in Replicas, Crash(r) PROVE Implemented
  <2> DEFINE lost == {c \in ActiveCalls : rep[c] = r}
  <2>1. answerFn' = [c \in Calls |-> IF c \in lost THEN "idle" ELSE answerFn[c]]
    BY <1>16 DEF Crash, answerFn, Answer, ActiveCalls, Active, ApiSteps, Waiting, Running
  <2>2. Tofu!Lose(lost)
    BY <1>16, <2>1, PendingIsActive DEF Crash, Tofu!Lose, answerFn, world, ghosts
  <2>3. lost \in SUBSET Calls
    BY DEF ActiveCalls
  <2> QED BY <2>2, <2>3 DEF Tofu!TofuNext
<1> QED
  BY <1>1, <1>2, <1>3, <1>4, <1>5, <1>6, <1>7, <1>8, <1>9, <1>10, <1>11, <1>12, <1>13,
     <1>14, <1>15, <1>16 DEF Next, Step, Environment, Expire, vars, world, ghosts

(* The concurrent store, with its split reads, races, timeouts and         *)
(* crashes, implements trust on first use as one atomic decision.          *)
THEOREM StoreImplementsTofu == Spec => ImplementsTofu
<1>1. Init => Tofu!TofuInit
  BY DEF Init, Tofu!TofuInit, Answer, Active, ApiSteps, Waiting, Running
<1>2. TypeOK /\ CallInv /\ [Next]_vars => [Tofu!TofuNext]_(Tofu!tvars)
  BY TofuStep
<1> QED
  BY <1>1, <1>2, CallsSafe, PTL DEF Spec, ImplementsTofu, Tofu!TofuSpec
===========================================================================
