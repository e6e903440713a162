---------------------------- MODULE TunnelProofs ----------------------------
(***************************************************************************)
(* The tunnel's session limit for every number of nodes, connections and   *)
(* slots: the active map is exact, and a live agent is refused only by its *)
(* own dead sessions.  And its message limit for every stream of frames,   *)
(* however it is cut into reads: the parser is never out of step with it.  *)
(***************************************************************************)
EXTENDS Tunnel, FrameLimit, Recursion, FiniteSetTheorems, SequenceTheorems, TLAPS

(* A slot belongs to a node. *)
HoldersAreNodes == \A c \in Conns : stage[c] \in Holding => peer[c] \in Nodes

Exact == \A n \in Nodes : active[n] = Cardinality(Held(n))

(* An agent has one live connection, and a live connection is waiting for  *)
(* a slot or has one.                                                      *)
OneLiveEach ==
  /\ \A c \in alive : stage[c] \in {"auth", "session"}
  /\ \A c, d \in alive : peer[c] = peer[d] => c = d

IInv == TypeOK /\ HoldersAreNodes /\ Exact /\ OneLiveEach

---------------------------------------------------------------------------
LEMMA HeldFinite == \A n \in Nodes : IsFiniteSet(Held(n))
BY ConnsAssumption, FS_Subset DEF Held

(* A step that leaves the slots alone leaves the count alone. *)
LEMMA SameHolders ==
  ASSUME Exact, UNCHANGED active, \A n \in Nodes : Held(n)' = Held(n)
  PROVE  Exact'
BY DEF Exact

LEMMA InitOK == Init => IInv
<1> SUFFICES ASSUME Init PROVE IInv
  OBVIOUS
<1>1. \A n \in Nodes : Held(n) = {}
  BY DEF Init, Held, Holding
<1>2. Exact
  BY <1>1, FS_EmptySet DEF Init, Exact
<1>3. TypeOK
  <2>1. active \in [Nodes -> 0 .. maxSessionsPerNode]
    BY SessionsAssumption DEF Init
  <2>2. stable \in BOOLEAN
    BY DEF Init
  <2> QED
    BY <2>1, <2>2 DEF Init, TypeOK
<1>4. HoldersAreNodes /\ OneLiveEach
  BY DEF Init, HoldersAreNodes, Holding, OneLiveEach
<1> QED
  BY <1>2, <1>3, <1>4 DEF IInv

LEMMA ConnectStep ==
  ASSUME IInv, NEW c \in Conns, NEW n \in Nodes \cup {Anonymous}, Connect(c, n)
  PROVE  IInv'
<1>1. TypeOK' /\ HoldersAreNodes'
  BY DEF IInv, TypeOK, HoldersAreNodes, Holding, Connect
<1>2. \A m \in Nodes : Held(m)' = Held(m)
  BY DEF IInv, TypeOK, Held, Holding, Connect
<1>3. Exact'
  BY <1>2, SameHolders DEF IInv, Connect
<1>4. OneLiveEach'
  BY DEF IInv, TypeOK, OneLiveEach, Connect
<1> QED
  BY <1>1, <1>3, <1>4 DEF IInv

(* acquire: one more holder for its node, within the limit. *)
LEMMA AcquireStep ==
  ASSUME IInv, NEW c \in Conns, acquire(c)
  PROVE  IInv'
<1> DEFINE n == peer[c]
<1>1. n \in Nodes /\ c \notin Held(n)
  BY DEF IInv, TypeOK, acquire, Held, Holding
<1>2. Held(n)' = Held(n) \cup {c} /\ \A m \in Nodes \ {n} : Held(m)' = Held(m)
  BY <1>1 DEF IInv, TypeOK, acquire, Held, Holding
<1>3. Cardinality(Held(n)') = Cardinality(Held(n)) + 1
  BY <1>1, <1>2, HeldFinite, FS_AddElement
<1>4. Exact'
  BY <1>1, <1>2, <1>3 DEF IInv, TypeOK, Exact, acquire
<1>5. TypeOK'
  BY <1>1, SessionsAssumption DEF IInv, TypeOK, acquire
<1>6. HoldersAreNodes' /\ OneLiveEach'
  BY <1>1 DEF IInv, TypeOK, HoldersAreNodes, OneLiveEach, Holding, acquire
<1> QED
  BY <1>4, <1>5, <1>6 DEF IInv

(* release: one holder less, and the entry was at least one. *)
LEMMA ReleaseStep ==
  ASSUME IInv, NEW c \in Conns, release(c)
  PROVE  IInv'
<1> DEFINE n == peer[c]
<1>1. n \in Nodes /\ c \in Held(n)
  BY DEF IInv, HoldersAreNodes, release, Held, Holding
<1>2. Held(n)' = Held(n) \ {c} /\ \A m \in Nodes \ {n} : Held(m)' = Held(m)
  BY <1>1 DEF IInv, TypeOK, release, Held, Holding
<1>3. /\ Cardinality(Held(n)') = Cardinality(Held(n)) - 1
      /\ Cardinality(Held(n)') \in Nat
  <2>1. IsFiniteSet(Held(n)) /\ IsFiniteSet(Held(n) \ {c})
    BY <1>1, HeldFinite, FS_RemoveElement
  <2> QED
    BY <1>1, <1>2, <2>1, FS_RemoveElement, FS_CardinalityType
<1>4. active'[n] = active[n] - 1
  BY <1>1, <1>3 DEF IInv, TypeOK, Exact, release
<1>5. Exact'
  BY <1>1, <1>2, <1>3, <1>4 DEF IInv, TypeOK, Exact, release
<1>6. TypeOK'
  BY <1>1, <1>4, SessionsAssumption DEF IInv, TypeOK, release
<1>7. HoldersAreNodes' /\ OneLiveEach'
  BY DEF IInv, TypeOK, HoldersAreNodes, OneLiveEach, Holding, release
<1> QED
  BY <1>5, <1>6, <1>7 DEF IInv

(* The steps of ServeHTTP that touch no slot, and a dropped connection. *)
LEMMA OtherStep ==
  ASSUME IInv, NEW c \in Conns,
         Unauthorized(c) \/ Refuse(c) \/ SessionEnds(c) \/ Drop(c)
  PROVE  IInv'
<1>1. TypeOK'
  BY DEF IInv, TypeOK, Unauthorized, Refuse, SessionEnds, Drop
<1>2. HoldersAreNodes'
  BY DEF IInv, TypeOK, HoldersAreNodes, Holding, Unauthorized, Refuse, SessionEnds, Drop
<1>3. \A m \in Nodes : Held(m)' = Held(m)
  BY DEF IInv, TypeOK, Held, Holding, Unauthorized, Refuse, SessionEnds, Drop
<1>4. Exact'
  BY <1>3, SameHolders DEF IInv, Unauthorized, Refuse, SessionEnds, Drop
<1>5. OneLiveEach'
  BY DEF IInv, TypeOK, OneLiveEach, Unauthorized, Refuse, SessionEnds, Drop
<1> QED
  BY <1>1, <1>2, <1>4, <1>5 DEF IInv

LEMMA StepOK == IInv /\ [Next]_vars => IInv'
<1> SUFFICES ASSUME IInv, [Next]_vars PROVE IInv'
  OBVIOUS
<1>1. CASE UNCHANGED vars
  <2>1. \A m \in Nodes : Held(m)' = Held(m)
    BY <1>1 DEF vars, Held
  <2> QED
    BY <1>1, <2>1 DEF IInv, TypeOK, HoldersAreNodes, Exact, OneLiveEach, vars
<1>2. ASSUME NEW c \in Conns, NEW n \in Nodes \cup {Anonymous}, Connect(c, n) PROVE IInv'
  BY <1>2, ConnectStep
<1>3. ASSUME NEW c \in Conns, ServeHTTP(c) \/ Drop(c) PROVE IInv'
  BY <1>3, AcquireStep, ReleaseStep, OtherStep DEF ServeHTTP
<1>4. CASE Stabilise
  <2>1. \A m \in Nodes : Held(m)' = Held(m)
    BY <1>4 DEF Stabilise, Held
  <2> QED
    BY <1>4, <2>1 DEF IInv, TypeOK, HoldersAreNodes, Exact, OneLiveEach, Stabilise
<1> QED
  BY <1>1, <1>2, <1>3, <1>4 DEF Next

LEMMA Invariant == Spec => []IInv
BY InitOK, StepOK, PTL DEF Spec

---------------------------------------------------------------------------
(* Type correctness: no entry of the active map passes the limit. *)
THEOREM TunnelTypes == Spec => []TypeOK
<1>1. IInv => TypeOK
  BY DEF IInv
<1> QED
  BY <1>1, Invariant, PTL

(* acquire and release: the map counts the sessions, none is leaked and    *)
(* none given back twice.                                                  *)
THEOREM ExactSlots == Spec => []SessionsExact
<1>1. IInv => SessionsExact
  BY DEF IInv, TypeOK, Exact, SessionsExact
<1> QED
  BY <1>1, Invariant, PTL

(* ServeHTTP's 429: a live agent meets it only when all slots of its node  *)
(* are held by sessions that are dead.                                     *)
THEOREM RefusedOnlyByTheDead == Spec => RefusedByDeadSessions
<1>1. IInv => \A c \in alive : Refuse(c) =>
                Cardinality(Held(peer[c]) \ alive) = maxSessionsPerNode
  <2> SUFFICES ASSUME IInv, NEW c \in alive, Refuse(c)
               PROVE  Cardinality(Held(peer[c]) \ alive) = maxSessionsPerNode
    OBVIOUS
  <2>1. c \in Conns /\ peer[c] \in Nodes
    BY DEF IInv, TypeOK, Refuse
  <2>2. Held(peer[c]) \ alive = Held(peer[c])
    BY <2>1 DEF IInv, OneLiveEach, Held, Holding, Refuse
  <2>3. active[peer[c]] = maxSessionsPerNode
    BY <2>1, SessionsAssumption DEF IInv, TypeOK, Refuse
  <2> QED
    BY <2>1, <2>2, <2>3 DEF IInv, Exact
<1> QED
  BY <1>1, Invariant, PTL DEF RefusedByDeadSessions

---------------------------------------------------------------------------
(* The message limit (frameLimitConn). *)

(* A stream in which nothing follows a payload that never ends. *)
Stream(fs) == fs \in Seq(Frame) /\ \A i \in 1 .. Len(fs) - 1 : fs[i].len < Huge

---------------------------------------------------------------------------
(* What the parser makes of a header. *)

(* The fields of a frame. *)
LEMMA FrameFacts ==
  ASSUME NEW f \in Frame
  PROVE  /\ f.op \in 0 .. 15 /\ f.len \in 0 .. Huge
         /\ f.ext = 7 \/ f.ext = 16 \/ f.ext = 64
         /\ f.ext = 7 => f.len <= 125
         /\ f.ext = 16 => f.len < Huge
         /\ f.masked \in BOOLEAN
  BY DEF Frame

(* Two bytes of a length, put together again. *)
LEMMA TwoBytes ==
  ASSUME NEW x \in Nat
  PROVE  x \div 256 \in Nat /\ x % 256 \in Nat /\ (x \div 256) * 256 + (x % 256) = x
<1>1. x \div 256 \in Nat /\ x % 256 \in Nat
  OBVIOUS
<1>2. (x \div 256) * 256 + (x % 256) = x
  OBVIOUS
<1> QED
  BY <1>1, <1>2

(* The opcode, masked out of the first byte. *)
LEMMA Opcode == ASSUME NEW x \in 0 .. 15 PROVE (128 + x) % 16 = x
  OBVIOUS

(* The mask bit and the mask key come together. *)
LEMMA MaskFacts ==
  ASSUME NEW f \in Frame
  PROVE  /\ MaskKey(f) \in Seq(Nat)
         /\ \/ MaskBit(f) = 128 /\ Len(MaskKey(f)) = 4
            \/ MaskBit(f) = 0 /\ Len(MaskKey(f)) = 0
<1>1. CASE f.masked
  <2>1. MaskBit(f) = 128 /\ MaskKey(f) = [i \in 1 .. 4 |-> 255]
    BY <1>1 DEF MaskBit, MaskKey, Noise
  <2>2. MaskKey(f) \in Seq(Nat) /\ Len(MaskKey(f)) = 4
    BY <2>1
  <2> QED
    BY <2>1, <2>2
<1>2. CASE ~f.masked
  BY <1>2 DEF MaskBit, MaskKey
<1> QED
  BY <1>1, <1>2, FrameFacts

(* The bytes before the mask key, as they are found in the whole header. *)
LEMMA BeforeTheKey ==
  ASSUME NEW p \in Seq(Nat), NEW key \in Seq(Nat)
  PROVE  /\ p \o key \in Seq(Nat) /\ Len(p \o key) = Len(p) + Len(key)
         /\ \A i \in 1 .. Len(p) : (p \o key)[i] = p[i]
  OBVIOUS

(* What inspect reads out of a complete header is what the agent put in,   *)
(* for each encoding of the length, with and without a mask.               *)
LEMMA HeaderFacts ==
  ASSUME NEW f \in Frame
  PROVE  /\ Header(f) \in Seq(Nat) /\ Len(Header(f)) >= 2
         /\ headerLen(Header(f)) = Len(Header(f))
         /\ payloadLen(Header(f)) = f.len
         /\ Header(f)[1] % 16 = f.op
<1> DEFINE x == f.len
           o == f.op
           b == MaskBit(f)
           n == Len(MaskKey(f))
           p == Lengths(f)
           h == Header(f)
<1>0. o \in 0 .. 15 /\ x \in Nat /\ Huge \in Nat /\ x <= Huge /\ (128 + o) % 16 = o
  <2>1. Huge \in Nat
    BY DEF Huge
  <2>2. o \in 0 .. 15 /\ x \in 0 .. Huge
    BY FrameFacts
  <2> QED
    BY <2>1, <2>2, Opcode
<1>m. (b = 128 /\ n = 4) \/ (b = 0 /\ n = 0)
  BY MaskFacts
<1>h. ASSUME p \in Seq(Nat)
      PROVE  h \in Seq(Nat) /\ Len(h) = Len(p) + n /\ \A i \in 1 .. Len(p) : h[i] = p[i]
  BY <1>h, BeforeTheKey, MaskFacts DEF Header
<1>d. x \div 256 \in Nat /\ x % 256 \in Nat /\ (x \div 256) * 256 + (x % 256) = x
  BY <1>0, TwoBytes
<1>1. CASE f.ext = 7
  <2>1. p = <<128 + o, b + x>> /\ x <= 125
    BY <1>1, FrameFacts DEF Lengths
  <2> HIDE DEF h, x, o, b, n, p
  <2>2. (b + x) % 128 = x /\ (b + x >= 128 <=> b = 128)
    BY <1>0, <1>m, <2>1
  <2>3. p \in Seq(Nat) /\ Len(p) = 2 /\ p[1] = 128 + o /\ p[2] = b + x
    BY <1>0, <1>m, <2>1
  <2>4. h \in Seq(Nat) /\ Len(h) = 2 + n /\ h[1] = 128 + o /\ h[2] = b + x
    BY <1>h, <2>3
  <2>5. headerLen(h) = 2 + n /\ payloadLen(h) = x
    BY <1>0, <1>m, <2>1, <2>2, <2>4 DEF headerLen, payloadLen
  <2> QED
    BY <1>0, <1>m, <2>4, <2>5 DEF h, x, o
<1>2. CASE f.ext = 16
  <2>1. p = <<128 + o, b + 126, x \div 256, x % 256>>
    BY <1>2 DEF Lengths
  <2> HIDE DEF h, x, o, b, n, p
  <2>2. /\ p \in Seq(Nat) /\ Len(p) = 4 /\ p[1] = 128 + o /\ p[2] = b + 126
        /\ p[3] = x \div 256 /\ p[4] = x % 256
    BY <1>0, <1>d, <1>m, <2>1
  <2>3. /\ h \in Seq(Nat) /\ Len(h) = 4 + n /\ h[1] = 128 + o /\ h[2] = b + 126
        /\ h[3] = x \div 256 /\ h[4] = x % 256
    BY <1>h, <2>2
  <2>4. h[2] % 128 = 126 /\ (h[2] >= 128 <=> b = 128)
    BY <1>m, <2>3
  <2>5. headerLen(h) = 4 + n
    BY <1>m, <2>4 DEF headerLen
  <2>6. payloadLen(h) = h[3] * 256 + h[4]
    BY <2>4 DEF payloadLen
  <2>7. payloadLen(h) = x
    BY <1>d, <2>3, <2>6
  <2>8. h[1] % 16 = o /\ Len(h) >= 2
    BY <1>0, <1>m, <2>3
  <2> QED
    BY <2>3, <2>5, <2>7, <2>8 DEF h, x, o
<1>3. CASE f.ext = 64 /\ x < Huge
  <2>1. p = <<128 + o, b + 127, 0, 0, 0, 0, 0, 0, x \div 256, x % 256>>
    BY <1>0, <1>3 DEF Lengths
  <2> HIDE DEF h, x, o, b, n, p
  <2>2. p \in Seq(Nat) /\ Len(p) = 10 /\ p[1] = 128 + o /\ p[2] = b + 127
    BY <1>0, <1>d, <1>m, <2>1
  <2>3. /\ p[3] = 0 /\ p[4] = 0 /\ p[5] = 0 /\ p[6] = 0 /\ p[7] = 0 /\ p[8] = 0
        /\ p[9] = x \div 256 /\ p[10] = x % 256
    BY <1>0, <1>d, <1>m, <2>1
  <2>4. /\ h \in Seq(Nat) /\ Len(h) = 10 + n
        /\ h[1] = p[1] /\ h[2] = p[2] /\ h[3] = p[3] /\ h[4] = p[4] /\ h[5] = p[5]
        /\ h[6] = p[6] /\ h[7] = p[7] /\ h[8] = p[8] /\ h[9] = p[9] /\ h[10] = p[10]
    <3>1. h \in Seq(Nat) /\ Len(h) = 10 + n /\ \A i \in 1 .. 10 : h[i] = p[i]
      BY <1>h, <2>2
    <3> QED
      BY <3>1
  <2>5. h[1] = 128 + o /\ h[2] = b + 127 /\ h[9] = x \div 256 /\ h[10] = x % 256
    BY <2>2, <2>3, <2>4
  <2>6. ~\E i \in 3 .. 8 : h[i] # 0
    <3>1. /\ h[3] = 0 /\ h[4] = 0 /\ h[5] = 0 /\ h[6] = 0 /\ h[7] = 0 /\ h[8] = 0
      BY <2>3, <2>4
    <3> QED
      BY <3>1
  <2>7. h[2] % 128 = 127 /\ (h[2] >= 128 <=> b = 128)
    BY <1>m, <2>5
  <2>8. headerLen(h) = 10 + n
    BY <1>m, <2>7 DEF headerLen
  <2>9. payloadLen(h) = h[9] * 256 + h[10]
    BY <2>6, <2>7 DEF payloadLen
  <2>10. payloadLen(h) = x
    BY <1>d, <2>5, <2>9
  <2>11. h[1] % 16 = o /\ Len(h) >= 2
    BY <1>0, <1>m, <2>4, <2>5
  <2> QED
    BY <2>4, <2>8, <2>10, <2>11 DEF h, x, o
<1>4. CASE f.ext = 64 /\ x = Huge
  <2>1. p = <<128 + o, b + 127, 128, 0, 0, 0, 0, 0, 0, 1>>
    BY <1>4 DEF Lengths, Huge
  <2> HIDE DEF h, x, o, b, n, p
  <2>2. p \in Seq(Nat) /\ Len(p) = 10 /\ p[1] = 128 + o /\ p[2] = b + 127 /\ p[3] = 128
    BY <1>0, <1>m, <2>1
  <2>3. /\ h \in Seq(Nat) /\ Len(h) = 10 + n
        /\ h[1] = 128 + o /\ h[2] = b + 127 /\ h[3] = 128
    <3>1. h \in Seq(Nat) /\ Len(h) = 10 + n /\ \A i \in 1 .. 10 : h[i] = p[i]
      BY <1>h, <2>2
    <3>2. h[1] = p[1] /\ h[2] = p[2] /\ h[3] = p[3]
      BY <3>1
    <3> QED
      BY <2>2, <3>1, <3>2
  <2>4. h[2] % 128 = 127 /\ (h[2] >= 128 <=> b = 128)
    BY <1>m, <2>3
  <2>5. headerLen(h) = 10 + n
    BY <1>m, <2>4 DEF headerLen
  <2>6. payloadLen(h) = x
    BY <1>4, <2>3, <2>4 DEF payloadLen
  <2> QED
    BY <1>0, <1>m, <2>3, <2>5, <2>6 DEF h, x, o
<1> QED
  BY <1>0, <1>1, <1>2, <1>3, <1>4, FrameFacts

---------------------------------------------------------------------------
(* The stream, frame by frame. *)

(* Sent is the function its definition asks for. *)
LEMMA SentDef ==
  ASSUME NEW fs \in Seq(Frame)
  PROVE  Sent(fs) = [i \in 0 .. Len(fs) |->
                      IF i = 0 THEN <<>> ELSE Sent(fs)[i - 1] \o Encode(fs[i])]
<1> DEFINE G(g, n) == g = [i \in 0 .. n |->
                             IF i = 0 THEN <<>> ELSE g[i - 1] \o Encode(fs[i])]
           S == {n \in Nat : \E g : G(g, n)}
<1>1. 0 \in S
  <2>1. G([i \in 0 .. 0 |-> <<>>], 0)
    OBVIOUS
  <2> QED
    BY <2>1
<1> HIDE DEF G
<1>2. \A n \in Nat : n \in S => n + 1 \in S
  <2> SUFFICES ASSUME NEW n \in Nat, NEW g, G(g, n) PROVE \E h : G(h, n + 1)
    OBVIOUS
  <2> DEFINE h == [i \in 0 .. n + 1 |-> IF i = n + 1 THEN g[n] \o Encode(fs[n + 1]) ELSE g[i]]
  <2>1. \A i \in 0 .. n + 1 : h[i] = IF i = 0 THEN <<>> ELSE h[i - 1] \o Encode(fs[i])
    BY DEF G
  <2>2. G(h, n + 1)
    BY <2>1 DEF G
  <2> QED
    BY <2>2
<1> HIDE DEF S
<1>3. \A n \in Nat : n \in S
  BY <1>1, <1>2, Induction
<1>4. \E g : G(g, Len(fs))
  BY <1>3, LenProperties DEF S
<1> QED
  BY <1>4 DEF Sent, G

(* DataBytes is the function its definition asks for. *)
LEMMA DataBytesDef ==
  ASSUME NEW fs \in Seq(Frame)
  PROVE  DataBytes(fs) = [i \in 0 .. Len(fs) |->
                           IF i = 0 THEN 0
                           ELSE DataBytes(fs)[i - 1] + (IF fs[i].op < 8 THEN fs[i].len ELSE 0)]
<1> DEFINE l(i) == IF fs[i].op < 8 THEN fs[i].len ELSE 0
           G(g, n) == g = [i \in 0 .. n |-> IF i = 0 THEN 0 ELSE g[i - 1] + l(i)]
           S == {n \in Nat : \E g : G(g, n)}
<1>1. 0 \in S
  <2>1. G([i \in 0 .. 0 |-> 0], 0)
    OBVIOUS
  <2> QED
    BY <2>1
<1> HIDE DEF G
<1>2. \A n \in Nat : n \in S => n + 1 \in S
  <2> SUFFICES ASSUME NEW n \in Nat, NEW g, G(g, n) PROVE \E h : G(h, n + 1)
    OBVIOUS
  <2> DEFINE h == [i \in 0 .. n + 1 |-> IF i = n + 1 THEN g[n] + l(n + 1) ELSE g[i]]
  <2>1. \A i \in 0 .. n + 1 : h[i] = IF i = 0 THEN 0 ELSE h[i - 1] + l(i)
    BY DEF G
  <2>2. G(h, n + 1)
    BY <2>1 DEF G
  <2> QED
    BY <2>2
<1> HIDE DEF S
<1>3. \A n \in Nat : n \in S
  BY <1>1, <1>2, Induction
<1>4. \E g : G(g, Len(fs))
  BY <1>3, LenProperties DEF S
<1> QED
  BY <1>4 DEF DataBytes, G

(* The payload bytes that are sent. *)
Sends(f) == IF f.len = Huge THEN 2 ELSE f.len

(* It sends a number of them. *)
LEMMA SendsFacts ==
  ASSUME NEW f \in Frame
  PROVE  f.len \in Nat /\ Sends(f) \in Nat
<1>1. f.len \in 0 .. Huge
  BY FrameFacts
<1>2. f.len \in Nat
  BY <1>1
<1> QED
  BY <1>2 DEF Sends

(* A frame on the wire is its header and as much payload as is sent. *)
LEMMA EncodeFacts ==
  ASSUME NEW f \in Frame
  PROVE  /\ Encode(f) \in Seq(Nat)
         /\ Len(Encode(f)) = Len(Header(f)) + Sends(f)
         /\ \A m \in 1 .. Len(Header(f)) : Encode(f)[m] = Header(f)[m]
<1> DEFINE n == Sends(f)
           h == Header(f)
<1>1. n \in Nat
  BY SendsFacts
<1>2. h \in Seq(Nat)
  BY HeaderFacts
<1>3. Encode(f) = h \o Noise(n)
  BY DEF Encode, Sends
<1> HIDE DEF n, h
<1>4. Noise(n) \in Seq(Nat) /\ Len(Noise(n)) = n
  BY <1>1 DEF Noise
<1>5. /\ h \o Noise(n) \in Seq(Nat) /\ Len(h \o Noise(n)) = Len(h) + n
      /\ \A m \in 1 .. Len(h) : (h \o Noise(n))[m] = h[m]
  BY <1>2, <1>4
<1> QED
  BY <1>3, <1>5 DEF n, h

(* The stream grows by one frame at a time. *)
LEMMA SentFacts ==
  ASSUME NEW fs \in Seq(Frame)
  PROVE  /\ \A i \in 0 .. Len(fs) : Sent(fs)[i] \in Seq(Nat)
         /\ Sent(fs)[0] = <<>>
         /\ \A i \in 1 .. Len(fs) : Sent(fs)[i] = Sent(fs)[i - 1] \o Encode(fs[i])
<1> DEFINE s == Sent(fs)
           n == Len(fs)
           S == {i \in Nat : i <= n => s[i] \in Seq(Nat)}
<1>0. n \in Nat /\ \A i \in 1 .. n : Encode(fs[i]) \in Seq(Nat)
  BY EncodeFacts
<1>1. s = [i \in 0 .. n |-> IF i = 0 THEN <<>> ELSE s[i - 1] \o Encode(fs[i])]
  BY SentDef
<1> HIDE DEF s, n
<1>2. s[0] = <<>>
  BY <1>0, <1>1
<1>3. \A i \in 1 .. n : s[i] = s[i - 1] \o Encode(fs[i])
  <2> SUFFICES ASSUME NEW i \in 1 .. n PROVE s[i] = s[i - 1] \o Encode(fs[i])
    OBVIOUS
  <2>1. i \in 0 .. n /\ i # 0
    BY <1>0
  <2> QED
    BY <1>1, <2>1
<1>4. 0 \in S
  <2>1. s[0] \in Seq(Nat)
    BY <1>2
  <2> QED
    BY <2>1
<1>5. \A i \in Nat : i \in S => i + 1 \in S
  <2> SUFFICES ASSUME NEW i \in Nat, i \in S, i + 1 <= n PROVE s[i + 1] \in Seq(Nat)
    OBVIOUS
  <2>1. s[i] \in Seq(Nat) /\ i + 1 \in 1 .. n /\ (i + 1) - 1 = i
    BY <1>0
  <2>2. Encode(fs[i + 1]) \in Seq(Nat)
    BY <1>0, <2>1
  <2>3. s[i + 1] = s[i] \o Encode(fs[i + 1])
    BY <1>3, <2>1
  <2> QED
    BY <2>1, <2>2, <2>3
<1> HIDE DEF S
<1>6. \A i \in Nat : i \in S
  BY <1>4, <1>5, Induction
<1>7. \A i \in 0 .. n : s[i] \in Seq(Nat)
  BY <1>0, <1>6 DEF S
<1> QED
  BY <1>2, <1>3, <1>7 DEF s, n

(* Frame i, from where it starts to where the next one does. *)
LEMMA SentLen ==
  ASSUME NEW fs \in Seq(Frame), NEW i \in 1 .. Len(fs)
  PROVE  /\ FrameStart(fs, i) \in Nat /\ Len(Sent(fs)[i]) \in Nat
         /\ HeaderEnd(fs, i) = FrameStart(fs, i) + Len(Header(fs[i]))
         /\ Len(Sent(fs)[i]) = HeaderEnd(fs, i) + Sends(fs[i])
         /\ FrameStart(fs, i) + 2 <= HeaderEnd(fs, i)
         /\ HeaderEnd(fs, i) <= Len(Sent(fs)[i])
<1> DEFINE s == Sent(fs)[i - 1]
           e == Encode(fs[i])
           h == Header(fs[i])
           l == Sends(fs[i])
<1>1. i \in Nat /\ i - 1 \in 0 .. Len(fs) /\ fs[i] \in Frame
  OBVIOUS
<1>2. s \in Seq(Nat) /\ Sent(fs)[i] = s \o e
  BY <1>1, SentFacts
<1>3. e \in Seq(Nat) /\ Len(e) = Len(h) + l
  BY <1>1, EncodeFacts
<1>4. h \in Seq(Nat) /\ Len(h) >= 2 /\ l \in Nat
  BY <1>1, HeaderFacts, SendsFacts
<1>5. FrameStart(fs, i) = Len(s) /\ HeaderEnd(fs, i) = Len(s) + Len(h)
  BY DEF FrameStart, HeaderEnd
<1> HIDE DEF s, e, h, l
<1>6. Len(s \o e) = Len(s) + Len(e) /\ Len(s) \in Nat /\ Len(h) \in Nat
  BY <1>2, <1>3, <1>4, ConcatProperties, LenProperties
<1>7. /\ Len(Sent(fs)[i]) = HeaderEnd(fs, i) + l
      /\ FrameStart(fs, i) \in Nat /\ HeaderEnd(fs, i) \in Nat
      /\ HeaderEnd(fs, i) = FrameStart(fs, i) + Len(h)
  BY <1>2, <1>3, <1>4, <1>5, <1>6
<1> QED
  BY <1>4, <1>7 DEF h, l

(* What has been sent stays as it is. *)
LEMMA SentGrows ==
  ASSUME NEW fs \in Seq(Frame), NEW i \in 0 .. Len(fs), NEW j \in i .. Len(fs)
  PROVE  /\ Len(Sent(fs)[i]) <= Len(Sent(fs)[j])
         /\ \A k \in 1 .. Len(Sent(fs)[i]) : Sent(fs)[j][k] = Sent(fs)[i][k]
<1> DEFINE s == Sent(fs)
           P(n) == /\ Len(s[i]) <= Len(s[n])
                   /\ \A k \in 1 .. Len(s[i]) : s[n][k] = s[i][k]
           S == {d \in Nat : i + d <= Len(fs) => P(i + d)}
<1>0. \A n \in 0 .. Len(fs) : s[n] \in Seq(Nat)
  BY SentFacts
<1>1. 0 \in S
  BY <1>0
<1>2. ASSUME NEW d \in Nat, d \in S, i + (d + 1) <= Len(fs) PROVE P(i + (d + 1))
  <2> DEFINE n == i + d
             e == Encode(fs[n + 1])
  <2>1. /\ Len(fs) \in Nat /\ n \in 0 .. Len(fs) /\ n + 1 \in 1 .. Len(fs)
        /\ (n + 1) - 1 = n /\ i + (d + 1) = n + 1
    BY <1>2
  <2>2. P(n)
    BY <1>2, <2>1
  <2>3. s[n + 1] = s[n] \o e
    BY <2>1, SentFacts
  <2>4. e \in Seq(Nat)
    BY <2>1, EncodeFacts
  <2>5. s[n] \in Seq(Nat) /\ s[i] \in Seq(Nat)
    BY <1>0, <2>1
  <2> HIDE DEF s, n, e
  <2>6. /\ Len(s[n] \o e) = Len(s[n]) + Len(e) /\ Len(s[n]) \in Nat /\ Len(e) \in Nat
        /\ \A k \in 1 .. Len(s[n]) : (s[n] \o e)[k] = s[n][k]
    BY <2>4, <2>5
  <2>7. Len(s[i]) \in Nat /\ \A k \in 1 .. Len(s[i]) : k \in 1 .. Len(s[n])
    BY <2>2, <2>5, <2>6
  <2>8. P(n + 1)
    BY <2>2, <2>3, <2>6, <2>7
  <2> QED
    BY <2>1, <2>8
<1> HIDE DEF P
<1>3. \A d \in Nat : d \in S => d + 1 \in S
  BY <1>2
<1> HIDE DEF S
<1>4. j - i \in S
  BY <1>1, <1>3, Induction
<1>5. P(j)
  BY <1>4 DEF S
<1> QED
  BY <1>5 DEF P

(* The header of frame i is on the wire where frame i starts. *)
LEMMA OnTheWire ==
  ASSUME NEW fs \in Seq(Frame), NEW i \in 1 .. Len(fs), NEW m \in 1 .. Len(Header(fs[i]))
  PROVE  Wire(fs)[FrameStart(fs, i) + m] = Header(fs[i])[m]
<1> DEFINE s == Sent(fs)[i - 1]
           e == Encode(fs[i])
           h == Header(fs[i])
           l == Sends(fs[i])
           b == Len(s) + m
<1>1. i \in Nat /\ i - 1 \in 0 .. Len(fs) /\ fs[i] \in Frame
  OBVIOUS
<1>2. s \in Seq(Nat) /\ Sent(fs)[i] = s \o e
  BY <1>1, SentFacts
<1>3. e \in Seq(Nat) /\ Len(e) = Len(h) + l /\ e[m] = h[m]
  BY <1>1, EncodeFacts
<1>4. h \in Seq(Nat) /\ l \in Nat
  BY <1>1, HeaderFacts, SendsFacts
<1>5. m \in 1 .. Len(h)
  OBVIOUS
<1> HIDE DEF s, e, h, l
<1>6. b \in 1 .. Len(s \o e) /\ (s \o e)[b] = e[m]
  <2>1. Len(s \o e) = Len(s) + Len(e) /\ Len(s) \in Nat /\ Len(h) \in Nat /\ Len(e) \in Nat
    BY <1>2, <1>3, <1>4, ConcatProperties, LenProperties
  <2>2. m \in 1 .. Len(e)
    BY <1>3, <1>4, <1>5, <2>1
  <2> QED
    BY <1>2, <1>3, <2>1, <2>2
<1>7. \A k \in 1 .. Len(Sent(fs)[i]) : Sent(fs)[Len(fs)][k] = Sent(fs)[i][k]
  <2>1. i \in 0 .. Len(fs) /\ Len(fs) \in i .. Len(fs)
    BY <1>1
  <2> QED
    BY <2>1, SentGrows
<1>8. Sent(fs)[Len(fs)][b] = e[m]
  BY <1>2, <1>6, <1>7
<1> QED
  BY <1>3, <1>8 DEF Wire, FrameStart, s, h

---------------------------------------------------------------------------
(* The size of a message, frame by frame. *)

(* DataBytes counts what the data frames carry. *)
LEMMA DataFacts ==
  ASSUME NEW fs \in Seq(Frame)
  PROVE  /\ DataBytes(fs)[0] = 0
         /\ \A i \in 1 .. Len(fs) :
              DataBytes(fs)[i] = DataBytes(fs)[i - 1] + (IF fs[i].op < 8 THEN fs[i].len ELSE 0)
         /\ \A i \in 0 .. Len(fs) : DataBytes(fs)[i] \in Nat
<1> DEFINE D == DataBytes(fs)
           n == Len(fs)
           d(i) == IF fs[i].op < 8 THEN fs[i].len ELSE 0
           S == {i \in Nat : i <= n => D[i] \in Nat}
<1>0. n \in Nat /\ \A i \in 1 .. n : d(i) \in Nat
  BY SendsFacts
<1>1. D = [i \in 0 .. n |-> IF i = 0 THEN 0 ELSE D[i - 1] + d(i)]
  BY DataBytesDef
<1> HIDE DEF D, n, d
<1>2. D[0] = 0
  BY <1>0, <1>1
<1>3. ASSUME NEW i \in 1 .. n PROVE D[i] = D[i - 1] + d(i)
  <2>1. i \in 0 .. n /\ i # 0
    BY <1>0
  <2> QED
    BY <1>1, <2>1
<1>4. 0 \in S
  BY <1>2
<1>5. \A i \in Nat : i \in S => i + 1 \in S
  <2> SUFFICES ASSUME NEW i \in Nat, i \in S, i + 1 <= n PROVE D[i + 1] \in Nat
    OBVIOUS
  <2>1. D[i] \in Nat /\ i + 1 \in 1 .. n /\ (i + 1) - 1 = i
    BY <1>0
  <2>2. D[i + 1] = D[i] + d(i + 1) /\ d(i + 1) \in Nat
    BY <1>0, <1>3, <2>1
  <2> QED
    BY <2>1, <2>2
<1> HIDE DEF S
<1>6. \A i \in Nat : i \in S
  BY <1>4, <1>5, Induction
<1>7. \A i \in 0 .. n : D[i] \in Nat
  BY <1>0, <1>6 DEF S
<1> QED
  BY <1>2, <1>3, <1>7 DEF D, n, d

(* A data frame that is no continuation starts a message; no other does. *)
LEMMA FirstFacts ==
  ASSUME NEW fs \in Seq(Frame), NEW i \in 1 .. Len(fs)
  PROVE  /\ First(fs, 0) = 1
         /\ fs[i].op \in 1 .. 7 => First(fs, i) = i
         /\ fs[i].op \notin 1 .. 7 => First(fs, i) = First(fs, i - 1)
<1> DEFINE starts(k) == {j \in 1 .. k : fs[j].op \in 1 .. 7}
<1>1. First(fs, 0) = 1
  <2>1. starts(0) = {}
    OBVIOUS
  <2> QED
    BY <2>1 DEF First
<1>2. ASSUME fs[i].op \in 1 .. 7 PROVE First(fs, i) = i
  <2>1. i \in starts(i) /\ \A k \in starts(i) : k <= i /\ k \in Nat
    BY <1>2
  <2>2. First(fs, i) = CHOOSE j \in starts(i) : \A k \in starts(i) : k <= j
    BY <2>1 DEF First
  <2> HIDE DEF starts
  <2>3. PICK j \in starts(i) : First(fs, i) = j /\ \A k \in starts(i) : k <= j
    BY <2>1, <2>2
  <2> QED
    BY <2>1, <2>3
<1>3. ASSUME fs[i].op \notin 1 .. 7 PROVE First(fs, i) = First(fs, i - 1)
  <2> DEFINE last(T) == IF T = {} THEN 1 ELSE CHOOSE j \in T : \A k \in T : k <= j
  <2>1. starts(i) = starts(i - 1)
    BY <1>3
  <2>2. First(fs, i) = last(starts(i)) /\ First(fs, i - 1) = last(starts(i - 1))
    BY DEF First
  <2> HIDE DEF last, starts
  <2> QED
    BY <2>1, <2>2
<1> QED
  BY <1>1, <1>2, <1>3

(* A message never starts after the frame it reaches to. *)
LEMMA FirstBefore ==
  ASSUME NEW fs \in Seq(Frame), NEW i \in 0 .. Len(fs)
  PROVE  First(fs, i) - 1 \in 0 .. i /\ First(fs, i) \in Nat
<1> DEFINE S == {k \in Nat : k <= Len(fs) =>
                               First(fs, k) \in Nat /\ 1 <= First(fs, k) /\ First(fs, k) - 1 <= k}
<1>0. Len(fs) \in Nat
  OBVIOUS
<1>1. 0 \in S
  <2> DEFINE starts == {j \in 1 .. 0 : fs[j].op \in 1 .. 7}
  <2>1. starts = {}
    OBVIOUS
  <2>2. First(fs, 0) = 1
    BY <2>1 DEF First
  <2> QED
    BY <2>2
<1>2. \A k \in Nat : k \in S => k + 1 \in S
  <2> SUFFICES ASSUME NEW k \in Nat, k \in S, k + 1 <= Len(fs)
               PROVE  /\ First(fs, k + 1) \in Nat
                      /\ 1 <= First(fs, k + 1) /\ First(fs, k + 1) - 1 <= k + 1
    OBVIOUS
  <2>1. k + 1 \in 1 .. Len(fs) /\ (k + 1) - 1 = k
    BY <1>0
  <2>2. First(fs, k + 1) = k + 1 \/ First(fs, k + 1) = First(fs, k)
    BY <2>1, FirstFacts
  <2> QED
    BY <1>0, <2>2
<1> HIDE DEF S
<1>3. i \in S
  BY <1>0, <1>1, <1>2, Induction
<1> QED
  BY <1>0, <1>3 DEF S

(* Frame i makes the message one frame longer, leaves it alone, or starts  *)
(* the next one.                                                           *)
LEMMA SizeStep ==
  ASSUME NEW fs \in Seq(Frame), NEW i \in 1 .. Len(fs)
  PROVE  MessageSize(fs, i) = IF fs[i].op >= 8 THEN MessageSize(fs, i - 1)
                              ELSE IF fs[i].op = 0 THEN MessageSize(fs, i - 1) + fs[i].len
                              ELSE fs[i].len
<1> DEFINE D == DataBytes(fs)
           x == fs[i].len
           o == fs[i].op
           a == First(fs, i) - 1
           b == First(fs, i - 1) - 1
<1>1. i \in Nat /\ i \in 0 .. Len(fs) /\ i - 1 \in 0 .. Len(fs) /\ Len(fs) \in Nat
  OBVIOUS
<1>2. o \in 0 .. 15 /\ x \in Nat
  BY FrameFacts, SendsFacts
<1>3. D[i] = D[i - 1] + (IF o < 8 THEN x ELSE 0) /\ \A k \in 0 .. Len(fs) : D[k] \in Nat
  BY DataFacts
<1>4. a \in 0 .. Len(fs) /\ b \in 0 .. Len(fs)
  BY <1>1, FirstBefore
<1>5. (o \in 1 .. 7 => First(fs, i) = i) /\ (o \notin 1 .. 7 => First(fs, i) = First(fs, i - 1))
  BY FirstFacts
<1>6. MessageSize(fs, i) = D[i] - D[a] /\ MessageSize(fs, i - 1) = D[i - 1] - D[b]
  BY DEF MessageSize
<1>7. (o \in 1 .. 7 => a = i - 1) /\ (o \notin 1 .. 7 => a = b)
  BY <1>1, <1>5
<1> HIDE DEF D, x, o, a, b
<1>8. D[i] \in Nat /\ D[i - 1] \in Nat /\ D[a] \in Nat /\ D[b] \in Nat
  BY <1>1, <1>3, <1>4
<1>9. o \in 1 .. 7 => MessageSize(fs, i) = x
  <2> SUFFICES ASSUME o \in 1 .. 7 PROVE D[i] - D[a] = x
    BY <1>6
  <2>1. D[i] = D[i - 1] + x /\ a = i - 1
    BY <1>3, <1>7
  <2> QED
    BY <1>2, <1>8, <2>1
<1>10. o = 0 => MessageSize(fs, i) = MessageSize(fs, i - 1) + x
  <2> SUFFICES ASSUME o = 0 PROVE D[i] - D[a] = (D[i - 1] - D[b]) + x
    BY <1>6
  <2>1. D[i] = D[i - 1] + x /\ a = b
    BY <1>3, <1>7
  <2> QED
    BY <1>2, <1>8, <2>1
<1>11. o >= 8 => MessageSize(fs, i) = MessageSize(fs, i - 1)
  <2> SUFFICES ASSUME o >= 8 PROVE D[i] - D[a] = D[i - 1] - D[b]
    BY <1>6
  <2>1. D[i] = D[i - 1] + 0 /\ a = b
    BY <1>2, <1>3, <1>7
  <2> QED
    BY <1>2, <1>8, <2>1
<1>12. o >= 8 \/ o = 0 \/ o \in 1 .. 7
  BY <1>2
<1>13. MessageSize(fs, i) = IF o >= 8 THEN MessageSize(fs, i - 1)
                           ELSE IF o = 0 THEN MessageSize(fs, i - 1) + x
                           ELSE x
  BY <1>9, <1>10, <1>11, <1>12
<1> QED
  BY <1>13 DEF o, x

(* A message has a size, and none before the first frame. *)
LEMMA SizeNat ==
  ASSUME NEW fs \in Seq(Frame), NEW i \in 0 .. Len(fs)
  PROVE  MessageSize(fs, i) \in Nat /\ MessageSize(fs, 0) = 0
<1> DEFINE S == {k \in Nat : k <= Len(fs) => MessageSize(fs, k) \in Nat}
<1>0. Len(fs) \in Nat
  OBVIOUS
<1>1. MessageSize(fs, 0) = 0
  <2>1. First(fs, 0) - 1 = 0
    BY <1>0, FirstBefore
  <2>2. DataBytes(fs)[0] = 0
    BY DataFacts
  <2> QED
    BY <2>1, <2>2 DEF MessageSize
<1>2. 0 \in S
  BY <1>1
<1>3. \A k \in Nat : k \in S => k + 1 \in S
  <2> SUFFICES ASSUME NEW k \in Nat, k \in S, k + 1 <= Len(fs)
               PROVE  MessageSize(fs, k + 1) \in Nat
    OBVIOUS
  <2>1. k + 1 \in 1 .. Len(fs) /\ (k + 1) - 1 = k /\ MessageSize(fs, k) \in Nat
    BY <1>0
  <2>2. fs[k + 1].len \in Nat
    BY <2>1, SendsFacts
  <2>3. \/ MessageSize(fs, k + 1) = MessageSize(fs, k)
        \/ MessageSize(fs, k + 1) = MessageSize(fs, k) + fs[k + 1].len
        \/ MessageSize(fs, k + 1) = fs[k + 1].len
    BY <2>1, SizeStep
  <2> QED
    BY <2>1, <2>2, <2>3
<1> HIDE DEF S
<1>4. i \in S
  BY <1>0, <1>2, <1>3, Induction
<1> QED
  BY <1>0, <1>1, <1>4 DEF S

---------------------------------------------------------------------------
(* Where the parser is in the stream. *)

(* inspect looks at the bytes of a read one after the other. *)
LEMMA InspectRun ==
  ASSUME NEW c, NEW bytes \in Seq(Nat)
  PROVE  \E run : /\ inspect(c, bytes) = run[Len(bytes)] /\ run[0] = c
                  /\ \A i \in 1 .. Len(bytes) : run[i] = InspectByte(run[i - 1], bytes[i])
<1> DEFINE G(g, n) == g = [i \in 0 .. n |->
                             IF i = 0 THEN c ELSE InspectByte(g[i - 1], bytes[i])]
           S == {n \in Nat : \E g : G(g, n)}
           r == CHOOSE g : G(g, Len(bytes))
<1>1. 0 \in S
  <2>1. G([i \in 0 .. 0 |-> c], 0)
    OBVIOUS
  <2> QED
    BY <2>1
<1> HIDE DEF G
<1>2. \A n \in Nat : n \in S => n + 1 \in S
  <2> SUFFICES ASSUME NEW n \in Nat, NEW g, G(g, n) PROVE \E h : G(h, n + 1)
    OBVIOUS
  <2> DEFINE h == [i \in 0 .. n + 1 |->
                     IF i = n + 1 THEN InspectByte(g[n], bytes[n + 1]) ELSE g[i]]
  <2>1. \A i \in 0 .. n + 1 : h[i] = IF i = 0 THEN c ELSE InspectByte(h[i - 1], bytes[i])
    BY DEF G
  <2>2. G(h, n + 1)
    BY <2>1 DEF G
  <2> QED
    BY <2>2
<1> HIDE DEF S
<1>3. \A n \in Nat : n \in S
  BY <1>1, <1>2, Induction
<1>4. \E g : G(g, Len(bytes))
  BY <1>3, LenProperties DEF S
<1>5. G(r, Len(bytes))
  BY <1>4
<1>6. inspect(c, bytes) = r[Len(bytes)]
  BY DEF inspect, G
<1> HIDE DEF r
<1>7. Len(bytes) \in Nat
  OBVIOUS
<1>8. r[0] = c /\ \A i \in 1 .. Len(bytes) : r[i] = InspectByte(r[i - 1], bytes[i])
  BY <1>5, <1>7 DEF G
<1> QED
  BY <1>6, <1>8

(* The limiter's fields. *)
State == [hdr : Seq(Nat), payload : Nat, msg : Nat, err : BOOLEAN]

(* No frame up to the i-th takes its message over the limit. *)
Clean(fs, i) == \A j \in 1 .. i : ~Oversized(fs, j)

(* After k bytes the parser is between frame i and the next one ... *)
Boundary(fs, c, k, i) ==
  /\ i \in 0 .. Len(fs) /\ k = Len(Sent(fs)[i])
  /\ c.hdr = <<>> /\ c.payload = 0
  /\ c.msg = MessageSize(fs, i) /\ Clean(fs, i)

(* ... or has the first bytes of the header of frame i ... *)
InHeader(fs, c, k, i) ==
  /\ i \in 1 .. Len(fs) /\ FrameStart(fs, i) <= k /\ k < HeaderEnd(fs, i)
  /\ c.hdr = SubSeq(Header(fs[i]), 1, k - FrameStart(fs, i)) /\ c.payload = 0
  /\ c.msg = MessageSize(fs, i - 1) /\ Clean(fs, i - 1)

(* ... or is in its payload. *)
InPayload(fs, c, k, i) ==
  /\ i \in 1 .. Len(fs) /\ HeaderEnd(fs, i) <= k
  /\ c.hdr = <<>> /\ c.payload > 0 /\ c.payload = fs[i].len - (k - HeaderEnd(fs, i))
  /\ c.msg = MessageSize(fs, i) /\ Clean(fs, i)

(* A parser that has seen the first k bytes and reports no error is at     *)
(* position k of the stream; one that does has seen the header of an       *)
(* oversized frame.                                                        *)
Position(fs, c, k) ==
  /\ c \in State
  /\ c.err => \E j \in 1 .. Len(fs) : Oversized(fs, j) /\ HeaderEnd(fs, j) <= k
  /\ ~c.err => \E i \in 0 .. Len(fs) :
                 Boundary(fs, c, k, i) \/ InHeader(fs, c, k, i) \/ InPayload(fs, c, k, i)

(* A complete header is an error exactly when its frame takes the message  *)
(* over the limit, and adds to the message what the frame does.            *)
LEMMA FrameHeaderFacts ==
  ASSUME NEW fs \in Seq(Frame), NEW i \in 1 .. Len(fs), NEW c \in State,
         ~c.err, c.msg = MessageSize(fs, i - 1)
  PROVE  LET d == FrameHeader(c, fs[i].op, fs[i].len)
         IN  /\ d \in State /\ d.hdr = <<>>
             /\ d.err <=> Oversized(fs, i)
             /\ ~d.err => d.payload = fs[i].len /\ d.msg = MessageSize(fs, i)
<1> DEFINE x == fs[i].len
           o == fs[i].op
           a == MessageSize(fs, i - 1)
           b == MessageSize(fs, i)
           d == FrameHeader(c, o, x)
           M == maxMessageBytes
<1>1. o \in 0 .. 15 /\ x \in Nat
  BY FrameFacts, SendsFacts
<1>2. a \in Nat /\ b \in Nat
  <2>1. i \in 0 .. Len(fs) /\ i - 1 \in 0 .. Len(fs)
    OBVIOUS
  <2> QED
    BY <2>1, SizeNat
<1>3. b = IF o >= 8 THEN a ELSE IF o = 0 THEN a + x ELSE x
  BY SizeStep
<1>4. Oversized(fs, i) <=> o < 8 /\ b > M
  BY DEF Oversized
<1>5. M \in Nat
  BY SizesAssumption DEF Huge
<1>6. /\ c.hdr \in Seq(Nat) /\ c.payload \in Nat /\ c.msg = a /\ c.err = FALSE
      /\ c = [hdr |-> c.hdr, payload |-> c.payload, msg |-> c.msg, err |-> c.err]
  BY DEF State
<1>7. <<>> \in Seq(Nat)
  OBVIOUS
<1> SUFFICES /\ d \in State /\ d.hdr = <<>>
             /\ d.err <=> Oversized(fs, i)
             /\ ~d.err => d.payload = x /\ d.msg = b
  OBVIOUS
<1> HIDE DEF x, o, a, b, M
<1>8. CASE o >= 8
  <2>1. d = [c EXCEPT !.hdr = <<>>, !.payload = x]
    BY <1>8 DEF FrameHeader
  <2>2. ~(o < 8) /\ b = a
    BY <1>1, <1>3, <1>8
  <2> HIDE DEF d
  <2>3. d \in State /\ d.hdr = <<>> /\ d.payload = x /\ d.msg = a /\ d.err = FALSE
    BY <1>1, <1>2, <1>6, <1>7, <2>1 DEF State
  <2> QED
    BY <1>4, <2>2, <2>3
<1>9. CASE o = 0
  <2>1. b = a + x /\ o < 8 /\ ~(o >= 8)
    BY <1>1, <1>3, <1>9
  <2>2. TooLarge(c.msg, x) <=> b > M
    BY <1>1, <1>2, <1>5, <1>6, <2>1 DEF TooLarge, M
  <2>3. d = IF TooLarge(c.msg, x) THEN [c EXCEPT !.hdr = <<>>, !.err = TRUE]
            ELSE [c EXCEPT !.hdr = <<>>, !.payload = x, !.msg = @ + x]
    BY <1>9, <2>1 DEF FrameHeader
  <2> HIDE DEF d
  <2>4. CASE b > M
    <3>1. d = [c EXCEPT !.hdr = <<>>, !.err = TRUE]
      BY <2>2, <2>3, <2>4
    <3>2. d \in State /\ d.hdr = <<>> /\ d.err = TRUE
      BY <1>2, <1>6, <1>7, <3>1 DEF State
    <3> QED
      BY <1>4, <2>1, <2>4, <3>2
  <2>5. CASE ~(b > M)
    <3>1. d = [c EXCEPT !.hdr = <<>>, !.payload = x, !.msg = @ + x]
      BY <2>2, <2>3, <2>5
    <3>2. d = [hdr |-> <<>>, payload |-> x, msg |-> c.msg + x, err |-> c.err]
      BY <1>6, <3>1
    <3>3. c.msg + x \in Nat /\ c.msg + x = b /\ c.err = FALSE
      BY <1>1, <1>2, <1>6, <2>1
    <3>4. d \in State /\ d.hdr = <<>> /\ d.payload = x /\ d.msg = b /\ d.err = FALSE
      BY <1>1, <1>7, <3>2, <3>3 DEF State
    <3> QED
      BY <1>4, <2>1, <2>5, <3>4
  <2> QED
    BY <2>4, <2>5
<1>10. CASE o < 8 /\ o # 0
  <2>1. b = x /\ ~(o >= 8)
    BY <1>1, <1>3, <1>10
  <2>2. TooLarge(0, x) <=> b > M
    BY <1>1, <1>5, <2>1 DEF TooLarge, M
  <2>3. d = IF TooLarge(0, x) THEN [c EXCEPT !.hdr = <<>>, !.err = TRUE]
            ELSE [c EXCEPT !.hdr = <<>>, !.payload = x, !.msg = x]
    BY <1>10, <2>1 DEF FrameHeader
  <2> HIDE DEF d
  <2>4. CASE b > M
    <3>1. d = [c EXCEPT !.hdr = <<>>, !.err = TRUE]
      BY <2>2, <2>3, <2>4
    <3>2. d \in State /\ d.hdr = <<>> /\ d.err = TRUE
      BY <1>2, <1>6, <1>7, <3>1 DEF State
    <3> QED
      BY <1>4, <1>10, <2>4, <3>2
  <2>5. CASE ~(b > M)
    <3>1. d = [c EXCEPT !.hdr = <<>>, !.payload = x, !.msg = x]
      BY <2>2, <2>3, <2>5
    <3>2. d \in State /\ d.hdr = <<>> /\ d.payload = x /\ d.msg = x /\ d.err = FALSE
      BY <1>1, <1>2, <1>6, <1>7, <3>1 DEF State
    <3> QED
      BY <1>4, <1>10, <2>1, <2>5, <3>2
  <2> QED
    BY <2>4, <2>5
<1> QED
  BY <1>1, <1>8, <1>9, <1>10

(* How many bytes a header has is known from its second byte on. *)
LEMMA HeaderPrefix ==
  ASSUME NEW f \in Frame, NEW m \in 0 .. Len(Header(f)) - 1, NEW b, b = Header(f)[m + 1]
  PROVE  LET h == Append(SubSeq(Header(f), 1, m), b)
         IN  /\ h = SubSeq(Header(f), 1, m + 1) /\ h \in Seq(Nat) /\ Len(h) = m + 1
             /\ m + 1 >= 2 => headerLen(h) = Len(Header(f))
             /\ m + 1 = Len(Header(f)) => h = Header(f)
<1> DEFINE H == Header(f)
           h == Append(SubSeq(H, 1, m), b)
<1>1. H \in Seq(Nat) /\ headerLen(H) = Len(H) /\ m \in 0 .. Len(H) - 1 /\ b = H[m + 1]
  BY HeaderFacts
<1> SUFFICES /\ h = SubSeq(H, 1, m + 1) /\ h \in Seq(Nat) /\ Len(h) = m + 1
             /\ m + 1 >= 2 => headerLen(h) = Len(H)
             /\ m + 1 = Len(H) => h = H
  OBVIOUS
<1> HIDE DEF H
<1>2. /\ SubSeq(H, 1, m) \in Seq(Nat) /\ Len(SubSeq(H, 1, m)) = m
      /\ \A j \in 1 .. m : SubSeq(H, 1, m)[j] = H[j]
  BY <1>1
<1>3. /\ SubSeq(H, 1, m + 1) \in Seq(Nat) /\ Len(SubSeq(H, 1, m + 1)) = m + 1
      /\ \A j \in 1 .. m + 1 : SubSeq(H, 1, m + 1)[j] = H[j]
  BY <1>1
<1>4. /\ h \in Seq(Nat) /\ Len(h) = m + 1
      /\ \A j \in 1 .. m + 1 : h[j] = H[j]
  BY <1>1, <1>2
<1> HIDE DEF h
<1>5. h = SubSeq(H, 1, m + 1)
  BY <1>1, <1>3, <1>4, SeqEqual
<1>6. m + 1 >= 2 => headerLen(h) = Len(H)
  <2> SUFFICES ASSUME m + 1 >= 2 PROVE headerLen(h) = headerLen(H)
    BY <1>1
  <2>1. h[2] = H[2]
    BY <1>1, <1>4
  <2> QED
    BY <2>1 DEF headerLen
<1>7. m + 1 = Len(H) => h = H
  BY <1>1, <1>4, SeqEqual
<1> QED
  BY <1>4, <1>5, <1>6, <1>7

(* Each of the three places is a position. *)
LEMMA AtPosition ==
  ASSUME NEW fs, NEW c \in State, NEW k, NEW i \in 0 .. Len(fs), ~c.err,
         Boundary(fs, c, k, i) \/ InHeader(fs, c, k, i) \/ InPayload(fs, c, k, i)
  PROVE  Position(fs, c, k)
  BY DEF Position

(* A byte of a header brings the parser to the next one or, the header     *)
(* complete, to the payload, to the next frame or to an error.             *)
LEMMA HeaderStep ==
  ASSUME NEW fs \in Seq(Frame), NEW c \in State, NEW k \in Nat, NEW i,
         ~c.err, InHeader(fs, c, k, i)
  PROVE  Position(fs, InspectByte(c, Wire(fs)[k + 1]), k + 1)
<1> DEFINE f == fs[i]
           H == Header(f)
           s == FrameStart(fs, i)
           m == k - s
           b == Wire(fs)[k + 1]
           h == Append(c.hdr, b)
           d == InspectByte(c, b)
<1>1. i \in 1 .. Len(fs) /\ i \in Nat /\ f \in Frame /\ i \in 0 .. Len(fs) /\ Len(fs) \in Nat
  BY DEF InHeader
<1>2. /\ s \in Nat /\ Len(H) \in Nat /\ Len(H) >= 2 /\ HeaderEnd(fs, i) = s + Len(H)
      /\ Len(Sent(fs)[i]) = HeaderEnd(fs, i) + Sends(f)
  <2>1. /\ s \in Nat /\ HeaderEnd(fs, i) = s + Len(H)
        /\ Len(Sent(fs)[i]) = HeaderEnd(fs, i) + Sends(f)
    BY <1>1, SentLen
  <2>2. H \in Seq(Nat) /\ Len(H) >= 2
    BY <1>1, HeaderFacts
  <2>3. Len(H) \in Nat
    BY <2>2, LenProperties
  <2> QED
    BY <2>1, <2>2, <2>3
<1>3. /\ s <= k /\ k < HeaderEnd(fs, i) /\ c.hdr = SubSeq(H, 1, m) /\ c.payload = 0
      /\ c.msg = MessageSize(fs, i - 1) /\ Clean(fs, i - 1)
  BY DEF InHeader
<1>4. payloadLen(H) = f.len /\ H[1] % 16 = f.op
  BY <1>1, HeaderFacts
<1>5. /\ HeaderEnd(fs, i) \in Nat /\ m \in 0 .. Len(H) - 1 /\ m + 1 \in 1 .. Len(H)
      /\ k + 1 = s + (m + 1)
  <2> HIDE DEF s, H
  <2> QED
    BY <1>2, <1>3
<1>6. b = H[m + 1]
  <2> HIDE DEF s, m
  <2> QED
    BY <1>1, <1>5, OnTheWire DEF s
<1> HIDE DEF b, m
<1>7. /\ h = SubSeq(H, 1, m + 1) /\ h \in Seq(Nat) /\ Len(h) = m + 1
      /\ m + 1 >= 2 => headerLen(h) = Len(H)
      /\ m + 1 = Len(H) => h = H
  BY <1>1, <1>3, <1>5, <1>6, HeaderPrefix
<1>8. d = IF Len(h) < 2 \/ Len(h) < headerLen(h) THEN [c EXCEPT !.hdr = h]
          ELSE FrameHeader(c, h[1] % 16, payloadLen(h))
  <2>1. ~(c.payload > 0)
    BY <1>3
  <2> QED
    BY <2>1 DEF InspectByte
<1> SUFFICES Position(fs, d, k + 1)
  BY DEF b
<1> HIDE DEF d, h
<1>9. CASE m + 1 < Len(H)
  <2>1. Len(h) < 2 \/ Len(h) < headerLen(h)
    BY <1>2, <1>5, <1>7, <1>9
  <2>2. d = [c EXCEPT !.hdr = h]
    BY <1>8, <2>1
  <2>3. d \in State /\ d.hdr = h /\ d.payload = c.payload /\ d.msg = c.msg /\ d.err = FALSE
    BY <1>7, <2>2 DEF State
  <2> HIDE DEF s, H
  <2>4. s <= k + 1 /\ k + 1 < HeaderEnd(fs, i) /\ (k + 1) - s = m + 1
    BY <1>2, <1>5, <1>9
  <2>5. InHeader(fs, d, k + 1, i)
    BY <1>1, <1>3, <1>7, <2>3, <2>4 DEF InHeader, s, H
  <2> QED
    BY <1>1, <2>3, <2>5, AtPosition
<1>10. CASE m + 1 = Len(H)
  <2>1. h = H /\ ~(Len(h) < 2 \/ Len(h) < headerLen(h))
    BY <1>2, <1>5, <1>7, <1>10
  <2>2. d = FrameHeader(c, f.op, f.len)
    BY <1>4, <1>8, <2>1
  <2>3. /\ d \in State /\ d.hdr = <<>>
        /\ d.err <=> Oversized(fs, i)
        /\ ~d.err => d.payload = f.len /\ d.msg = MessageSize(fs, i)
    BY <1>1, <1>3, <2>2, FrameHeaderFacts
  <2>4. k + 1 = HeaderEnd(fs, i)
    <3> HIDE DEF s, H
    <3> QED
      BY <1>2, <1>5, <1>10
  <2>5. CASE d.err
    <3>1. Oversized(fs, i) /\ HeaderEnd(fs, i) <= k + 1
      BY <1>5, <2>3, <2>4, <2>5
    <3> QED
      BY <1>1, <2>3, <2>5, <3>1 DEF Position
  <2>6. CASE ~d.err
    <3>1. Clean(fs, i)
      BY <1>1, <1>3, <2>3, <2>6 DEF Clean
    <3>2. f.len \in Nat
      BY <1>1, SendsFacts
    <3> HIDE DEF f
    <3>3. CASE f.len = 0
      <4>1. Sends(f) = 0
        BY <3>3 DEF Sends, Huge
      <4>2. k + 1 = Len(Sent(fs)[i])
        BY <1>2, <1>5, <2>4, <4>1
      <4>3. Boundary(fs, d, k + 1, i)
        BY <1>1, <2>3, <2>6, <3>1, <3>3, <4>2 DEF Boundary
      <4> QED
        BY <1>1, <2>3, <2>6, <4>3, AtPosition
    <3>4. CASE f.len > 0
      <4>1. d.payload = f.len - ((k + 1) - HeaderEnd(fs, i)) /\ HeaderEnd(fs, i) <= k + 1
        BY <1>5, <2>3, <2>4, <2>6, <3>2
      <4>2. InPayload(fs, d, k + 1, i)
        BY <1>1, <2>3, <2>6, <3>1, <3>4, <4>1 DEF InPayload, f
      <4> QED
        BY <1>1, <2>3, <2>6, <4>2, AtPosition
    <3> QED
      BY <3>2, <3>3, <3>4
  <2> QED
    BY <2>5, <2>6
<1> QED
  BY <1>5, <1>9, <1>10

(* A byte of a payload brings the parser on, and the last one to the next  *)
(* frame; the payload that never ends is the stream's last.                *)
LEMMA PayloadStep ==
  ASSUME NEW fs, Stream(fs), NEW c \in State, NEW k \in Nat, NEW i,
         k < Len(Wire(fs)), ~c.err, InPayload(fs, c, k, i)
  PROVE  Position(fs, InspectByte(c, Wire(fs)[k + 1]), k + 1)
<1> DEFINE f == fs[i]
           x == f.len
           e == HeaderEnd(fs, i)
           d == InspectByte(c, Wire(fs)[k + 1])
<1>0. fs \in Seq(Frame)
  BY DEF Stream
<1>1. i \in 1 .. Len(fs) /\ i \in Nat /\ f \in Frame /\ i \in 0 .. Len(fs) /\ Len(fs) \in Nat
  BY <1>0 DEF InPayload
<1>2. /\ e \in Nat /\ Len(Sent(fs)[i]) = e + Sends(f)
  <2>1. /\ FrameStart(fs, i) \in Nat /\ Len(Sent(fs)[i]) = e + Sends(f)
        /\ e = FrameStart(fs, i) + Len(Header(f))
    BY <1>0, <1>1, SentLen
  <2>2. Len(Header(f)) \in Nat
    BY <1>1, HeaderFacts
  <2> QED
    BY <2>1, <2>2
<1>3. /\ e <= k /\ c.hdr = <<>> /\ c.payload > 0 /\ c.payload = x - (k - e)
      /\ c.msg = MessageSize(fs, i) /\ Clean(fs, i)
  BY DEF InPayload
<1>4. x \in Nat
  BY <1>1, SendsFacts
<1>5. d = [c EXCEPT !.payload = @ - 1]
  BY <1>3 DEF InspectByte
<1>6. c.payload - 1 \in Nat /\ c.payload - 1 = x - ((k + 1) - e)
  <2>1. c.payload \in Nat
    BY DEF State
  <2> HIDE DEF x, e
  <2> QED
    BY <1>2, <1>3, <1>4, <2>1
<1> SUFFICES Position(fs, d, k + 1)
  OBVIOUS
<1> HIDE DEF d
<1>7. d \in State /\ d.hdr = <<>> /\ d.payload = c.payload - 1 /\ d.msg = c.msg /\ d.err = FALSE
  BY <1>3, <1>5, <1>6 DEF State
<1>8. CASE c.payload - 1 > 0
  <2>1. e <= k + 1
    BY <1>2, <1>3
  <2>2. InPayload(fs, d, k + 1, i)
    BY <1>1, <1>3, <1>6, <1>7, <1>8, <2>1 DEF InPayload
  <2> QED
    BY <1>1, <1>7, <2>2, AtPosition
<1>9. CASE c.payload - 1 = 0
  <2>1. k + 1 = e + x
    <3> HIDE DEF x, e
    <3> QED
      BY <1>2, <1>4, <1>6, <1>9
  <2>2. x # Huge
    <3> SUFFICES ASSUME x = Huge PROVE FALSE
      OBVIOUS
    <3>1. i = Len(fs)
      <4> SUFFICES ASSUME i # Len(fs) PROVE FALSE
        OBVIOUS
      <4>1. i \in 1 .. Len(fs) - 1
        BY <1>1
      <4>2. x < Huge
        BY <4>1 DEF Stream
      <4> QED
        BY <4>2 DEF Huge
    <3>2. Sends(f) = 2
      BY DEF Sends
    <3>3. Len(Wire(fs)) = e + 2
      BY <1>2, <3>1, <3>2 DEF Wire
    <3> HIDE DEF x, e
    <3>4. k < e + 2
      BY <3>3
    <3>5. Huge > 2 /\ Huge \in Nat
      BY DEF Huge
    <3> QED
      BY <1>2, <2>1, <3>4, <3>5
  <2>3. Sends(f) = x
    BY <2>2 DEF Sends
  <2>4. k + 1 = Len(Sent(fs)[i])
    BY <1>2, <2>1, <2>3
  <2>5. Boundary(fs, d, k + 1, i)
    BY <1>1, <1>3, <1>7, <1>9, <2>4 DEF Boundary
  <2> QED
    BY <1>1, <1>7, <2>5, AtPosition
<1>10. c.payload - 1 > 0 \/ c.payload - 1 = 0
  <2>1. c.payload \in Nat /\ c.payload > 0
    BY <1>3 DEF State
  <2> QED
    BY <2>1
<1> QED
  BY <1>8, <1>9, <1>10

(* Between two frames the parser is at the start of the next header. *)
LEMMA BoundaryIsStart ==
  ASSUME NEW fs \in Seq(Frame), NEW c, NEW k \in Nat, NEW i, k < Len(Wire(fs)),
         Boundary(fs, c, k, i)
  PROVE  InHeader(fs, c, k, i + 1)
<1>1. i \in Nat /\ i \in 0 .. Len(fs) /\ Len(fs) \in Nat
  BY DEF Boundary
<1>2. i # Len(fs)
  BY DEF Boundary, Wire
<1>3. i + 1 \in 1 .. Len(fs) /\ (i + 1) - 1 = i
  BY <1>1, <1>2
<1>4. k = FrameStart(fs, i + 1)
  BY <1>3 DEF Boundary, FrameStart
<1>5. /\ FrameStart(fs, i + 1) + 2 <= HeaderEnd(fs, i + 1)
      /\ HeaderEnd(fs, i + 1) = FrameStart(fs, i + 1) + Len(Header(fs[i + 1]))
  BY <1>3, SentLen
<1>6. Len(Header(fs[i + 1])) \in Nat
  BY <1>3, HeaderFacts
<1>7. k <= k /\ k < HeaderEnd(fs, i + 1) /\ k - k = 0
  BY <1>4, <1>5, <1>6
<1>8. SubSeq(Header(fs[i + 1]), 1, 0) = <<>>
  BY SubSeqEmpty
<1> QED
  BY <1>3, <1>4, <1>7, <1>8 DEF InHeader, Boundary

(* Whatever the next byte is, the parser stays in position. *)
LEMMA ByteStep ==
  ASSUME NEW fs, Stream(fs), NEW c, NEW k \in Nat, k < Len(Wire(fs)), Position(fs, c, k)
  PROVE  Position(fs, InspectByte(c, Wire(fs)[k + 1]), k + 1)
<1>0. fs \in Seq(Frame) /\ c \in State
  BY DEF Stream, Position
<1>1. CASE c.err
  <2>1. InspectByte(c, Wire(fs)[k + 1]) = c
    BY <1>1 DEF InspectByte
  <2>2. PICK j \in 1 .. Len(fs) : Oversized(fs, j) /\ HeaderEnd(fs, j) <= k
    BY <1>1 DEF Position
  <2>3. HeaderEnd(fs, j) \in Nat
    <3>1. FrameStart(fs, j) \in Nat /\ HeaderEnd(fs, j) = FrameStart(fs, j) + Len(Header(fs[j]))
      BY <1>0, SentLen
    <3>2. Len(Header(fs[j])) \in Nat
      BY <1>0, HeaderFacts
    <3> QED
      BY <3>1, <3>2
  <2>4. HeaderEnd(fs, j) <= k + 1
    BY <2>2, <2>3
  <2> QED
    BY <1>0, <1>1, <2>1, <2>2, <2>4 DEF Position
<1>2. CASE ~c.err
  <2>1. PICK i \in 0 .. Len(fs) :
          Boundary(fs, c, k, i) \/ InHeader(fs, c, k, i) \/ InPayload(fs, c, k, i)
    BY <1>2 DEF Position
  <2>2. CASE Boundary(fs, c, k, i)
    BY <1>0, <1>2, <2>2, BoundaryIsStart, HeaderStep
  <2>3. CASE InHeader(fs, c, k, i)
    BY <1>0, <1>2, <2>3, HeaderStep
  <2>4. CASE InPayload(fs, c, k, i)
    BY <1>0, <1>2, <2>4, PayloadStep
  <2> QED
    BY <2>1, <2>2, <2>3, <2>4
<1> QED
  BY <1>1, <1>2

(* So does a read of n bytes. *)
LEMMA ReadStep ==
  ASSUME NEW fs, Stream(fs), NEW c, NEW k \in Nat, NEW n \in Nat,
         k + n <= Len(Wire(fs)), Position(fs, c, k)
  PROVE  Position(fs, inspect(c, SubSeq(Wire(fs), k + 1, k + n)), k + n)
<1> DEFINE w == Wire(fs)
           b == SubSeq(w, k + 1, k + n)
<1>1. w \in Seq(Nat) /\ Len(w) \in Nat
  <2>1. fs \in Seq(Frame) /\ Len(fs) \in 0 .. Len(fs)
    BY DEF Stream
  <2>2. Sent(fs)[Len(fs)] \in Seq(Nat)
    BY <2>1, SentFacts
  <2> QED
    BY <2>1, <2>2, LenProperties DEF Wire
<1>2. b \in Seq(Nat) /\ Len(b) = n /\ \A i \in 1 .. n : b[i] = w[k + i]
  <2> HIDE DEF w
  <2>1. \A i \in k + 1 .. k + n : w[i] \in Nat
    BY <1>1 DEF w
  <2>2. /\ b \in Seq(Nat)
        /\ Len(b) = IF k + 1 <= k + n THEN (k + n) - (k + 1) + 1 ELSE 0
        /\ \A i \in 1 .. (k + n) - (k + 1) + 1 : b[i] = w[(k + 1) + i - 1]
    BY <2>1, SubSeqProperties
  <2> HIDE DEF b
  <2>3. (k + n) - (k + 1) + 1 = n /\ (k + 1 <= k + n <=> n # 0)
    OBVIOUS
  <2>4. \A i \in 1 .. n : b[i] = w[(k + 1) + i - 1] /\ (k + 1) + i - 1 = k + i
    BY <2>2, <2>3
  <2> QED
    BY <2>2, <2>3, <2>4
<1> HIDE DEF b
<1>3. PICK run : /\ inspect(c, b) = run[Len(b)] /\ run[0] = c
                 /\ \A i \in 1 .. Len(b) : run[i] = InspectByte(run[i - 1], b[i])
  <2>1. b \in Seq(Nat)
    BY <1>2
  <2> QED
    BY <2>1, InspectRun
<1> DEFINE S == {i \in Nat : i <= n => Position(fs, run[i], k + i)}
<1>4. 0 \in S
  BY <1>3
<1>5. \A i \in Nat : i \in S => i + 1 \in S
  <2> SUFFICES ASSUME NEW i \in Nat, i \in S, i + 1 <= n
               PROVE  Position(fs, run[i + 1], k + (i + 1))
    OBVIOUS
  <2>1. Position(fs, run[i], k + i)
    OBVIOUS
  <2>2. i + 1 \in 1 .. n /\ (i + 1) - 1 = i /\ k + (i + 1) = (k + i) + 1 /\ k + i \in Nat
    OBVIOUS
  <2>3. run[i + 1] = InspectByte(run[i], w[(k + i) + 1])
    BY <1>2, <1>3, <2>2
  <2>4. k + i < Len(w)
    BY <1>1
  <2> QED
    BY <2>1, <2>2, <2>3, <2>4, ByteStep
<1> HIDE DEF S
<1>6. n \in S
  BY <1>4, <1>5, Induction
<1>7. Position(fs, run[n], k + n)
  BY <1>6 DEF S
<1> QED
  BY <1>2, <1>3, <1>7 DEF b

(* Frames follow one another on the wire. *)
LEMMA FrameOrder ==
  ASSUME NEW fs \in Seq(Frame), NEW i \in 0 .. Len(fs), NEW j \in 1 .. Len(fs), i < j
  PROVE  /\ Len(Sent(fs)[i]) \in Nat /\ FrameStart(fs, j) \in Nat /\ HeaderEnd(fs, j) \in Nat
         /\ Len(Sent(fs)[i]) <= FrameStart(fs, j) /\ FrameStart(fs, j) < HeaderEnd(fs, j)
         /\ HeaderEnd(fs, j) <= Len(Sent(fs)[j])
<1>1. i \in Nat /\ j \in Nat /\ Len(fs) \in Nat /\ j - 1 \in i .. Len(fs)
  OBVIOUS
<1>2. Len(Sent(fs)[i]) <= FrameStart(fs, j)
  BY <1>1, SentGrows DEF FrameStart
<1>3. Len(Sent(fs)[i]) \in Nat
  BY SentFacts, LenProperties
<1>4. /\ FrameStart(fs, j) \in Nat /\ FrameStart(fs, j) + 2 <= HeaderEnd(fs, j)
      /\ HeaderEnd(fs, j) = FrameStart(fs, j) + Len(Header(fs[j]))
      /\ HeaderEnd(fs, j) <= Len(Sent(fs)[j])
  BY SentLen
<1>5. Len(Header(fs[j])) \in Nat
  BY HeaderFacts, LenProperties
<1> QED
  BY <1>2, <1>3, <1>4, <1>5

(* In a payload, nothing of the frames behind it has been read. *)
LEMMA PayloadEnds ==
  ASSUME NEW fs, Stream(fs), NEW c \in State, NEW k \in Nat, NEW i, NEW j \in 1 .. Len(fs),
         InPayload(fs, c, k, i), i < j
  PROVE  k < FrameStart(fs, j) /\ FrameStart(fs, j) \in Nat
<1> DEFINE x == fs[i].len
           e == HeaderEnd(fs, i)
<1>1. fs \in Seq(Frame) /\ i \in 1 .. Len(fs) /\ i \in Nat /\ j \in Nat /\ Len(fs) \in Nat
  BY DEF Stream, InPayload
<1>2. i \in 0 .. Len(fs) /\ i \in 1 .. Len(fs) - 1
  BY <1>1
<1>3. x < Huge /\ x \in Nat
  BY <1>1, <1>2, SendsFacts DEF Stream
<1>4. Len(Sent(fs)[i]) = e + Sends(fs[i])
  BY <1>1, SentLen
<1>5. e \in Nat
  <2>1. 0 \in 0 .. Len(fs) /\ 0 < i
    BY <1>1
  <2> QED
    BY <1>1, <2>1, FrameOrder
<1>6. Sends(fs[i]) = x
  BY <1>3 DEF Sends, Huge
<1>7. Len(Sent(fs)[i]) <= FrameStart(fs, j) /\ FrameStart(fs, j) \in Nat
  BY <1>1, <1>2, FrameOrder
<1>8. x - (k - e) > 0
  BY DEF InPayload
<1> HIDE DEF x, e
<1> QED
  BY <1>3, <1>4, <1>5, <1>6, <1>7, <1>8

(* A parser that reports no error has not seen the whole header of an      *)
(* oversized frame.                                                        *)
LEMMA NoneSeen ==
  ASSUME NEW fs, Stream(fs), NEW c, NEW k \in Nat, Position(fs, c, k), ~c.err,
         NEW j \in 1 .. Len(fs), Oversized(fs, j)
  PROVE  k < HeaderEnd(fs, j)
<1>1. fs \in Seq(Frame) /\ c \in State /\ j \in Nat /\ Len(fs) \in Nat
  BY DEF Stream, Position
<1>2. PICK i \in 0 .. Len(fs) :
        Boundary(fs, c, k, i) \/ InHeader(fs, c, k, i) \/ InPayload(fs, c, k, i)
  BY DEF Position
<1>3. i \in Nat
  BY <1>1
<1>4. CASE Boundary(fs, c, k, i)
  <2>1. k = Len(Sent(fs)[i]) /\ Clean(fs, i)
    BY <1>4 DEF Boundary
  <2>2. i < j
    BY <1>1, <1>3, <2>1 DEF Clean
  <2>3. /\ Len(Sent(fs)[i]) \in Nat /\ FrameStart(fs, j) \in Nat /\ HeaderEnd(fs, j) \in Nat
        /\ Len(Sent(fs)[i]) <= FrameStart(fs, j) /\ FrameStart(fs, j) < HeaderEnd(fs, j)
    BY <1>1, <2>2, FrameOrder
  <2> QED
    BY <2>1, <2>3
<1>5. CASE InHeader(fs, c, k, i)
  <2>1. i \in 1 .. Len(fs) /\ k < HeaderEnd(fs, i) /\ Clean(fs, i - 1)
    BY <1>5 DEF InHeader
  <2>2. i <= j
    BY <1>1, <1>3, <2>1 DEF Clean
  <2>3. CASE i < j
    <3>1. /\ Len(Sent(fs)[i]) <= FrameStart(fs, j) /\ FrameStart(fs, j) < HeaderEnd(fs, j)
          /\ FrameStart(fs, j) \in Nat /\ HeaderEnd(fs, j) \in Nat /\ Len(Sent(fs)[i]) \in Nat
      BY <1>1, <2>3, FrameOrder
    <3>2. 0 \in 0 .. Len(fs) /\ 0 < i
      BY <1>1, <2>1
    <3>3. HeaderEnd(fs, i) <= Len(Sent(fs)[i]) /\ HeaderEnd(fs, i) \in Nat
      BY <1>1, <2>1, <3>2, FrameOrder
    <3> QED
      BY <2>1, <3>1, <3>3
  <2>4. CASE i = j
    BY <2>1, <2>4
  <2> QED
    BY <1>1, <1>3, <2>2, <2>3, <2>4
<1>6. CASE InPayload(fs, c, k, i)
  <2>1. Clean(fs, i)
    BY <1>6 DEF InPayload
  <2>2. i < j
    BY <1>1, <1>3, <2>1 DEF Clean
  <2>3. k < FrameStart(fs, j) /\ FrameStart(fs, j) \in Nat
    BY <1>1, <1>6, <2>2, PayloadEnds
  <2>4. 0 \in 0 .. Len(fs) /\ 0 < j
    BY <1>1
  <2>5. FrameStart(fs, j) < HeaderEnd(fs, j) /\ HeaderEnd(fs, j) \in Nat
    BY <1>1, <2>4, FrameOrder
  <2> QED
    BY <2>3, <2>5
<1> QED
  BY <1>2, <1>4, <1>5, <1>6

(* Where a frame starts, the parser starts one. *)
LEMMA InSync ==
  ASSUME NEW fs, Stream(fs), NEW c, NEW k \in Nat, Position(fs, c, k), ~c.err,
         NEW j \in 1 .. Len(fs), k = FrameStart(fs, j)
  PROVE  c.hdr = <<>> /\ c.payload = 0 /\ c.msg = MessageSize(fs, j - 1)
<1>1. /\ fs \in Seq(Frame) /\ c \in State /\ j \in Nat /\ Len(fs) \in Nat
      /\ j - 1 \in 0 .. Len(fs)
  BY DEF Stream, Position
<1>2. PICK i \in 0 .. Len(fs) :
        Boundary(fs, c, k, i) \/ InHeader(fs, c, k, i) \/ InPayload(fs, c, k, i)
  BY DEF Position
<1>3. i \in Nat
  BY <1>1
<1>4. k = Len(Sent(fs)[j - 1])
  BY DEF FrameStart
<1>5. ASSUME NEW a \in 0 .. Len(fs), NEW b \in 1 .. Len(fs), a < b
      PROVE  /\ Len(Sent(fs)[a]) < HeaderEnd(fs, b) /\ HeaderEnd(fs, b) <= Len(Sent(fs)[b])
             /\ Len(Sent(fs)[a]) \in Nat /\ HeaderEnd(fs, b) \in Nat /\ Len(Sent(fs)[b]) \in Nat
  <2>1. Len(Sent(fs)[b]) \in Nat
    BY <1>1, SentLen
  <2>2. /\ Len(Sent(fs)[a]) \in Nat /\ FrameStart(fs, b) \in Nat /\ HeaderEnd(fs, b) \in Nat
        /\ Len(Sent(fs)[a]) <= FrameStart(fs, b) /\ FrameStart(fs, b) < HeaderEnd(fs, b)
        /\ HeaderEnd(fs, b) <= Len(Sent(fs)[b])
    BY <1>1, <1>5, FrameOrder
  <2> QED
    BY <2>1, <2>2
<1>6. CASE Boundary(fs, c, k, i)
  <2>1. i = j - 1
    <3>1. k = Len(Sent(fs)[i])
      BY <1>6 DEF Boundary
    <3>2. CASE i < j - 1
      <4>1. j - 1 \in 1 .. Len(fs)
        BY <1>1, <1>3, <3>2
      <4>2. /\ Len(Sent(fs)[i]) < HeaderEnd(fs, j - 1)
            /\ HeaderEnd(fs, j - 1) <= Len(Sent(fs)[j - 1])
            /\ HeaderEnd(fs, j - 1) \in Nat
        BY <1>5, <3>2, <4>1
      <4> QED
        BY <1>4, <3>1, <4>2
    <3>3. CASE j - 1 < i
      <4>1. i \in 1 .. Len(fs)
        BY <1>1, <1>3, <3>3
      <4>2. /\ Len(Sent(fs)[j - 1]) < HeaderEnd(fs, i)
            /\ HeaderEnd(fs, i) <= Len(Sent(fs)[i])
            /\ HeaderEnd(fs, i) \in Nat
        BY <1>1, <1>5, <3>3, <4>1
      <4> QED
        BY <1>4, <3>1, <4>2
    <3> QED
      BY <1>1, <1>3, <3>2, <3>3
  <2> QED
    BY <1>6, <2>1 DEF Boundary
<1>7. CASE InHeader(fs, c, k, i)
  <2>1. /\ i \in 1 .. Len(fs) /\ FrameStart(fs, i) <= k /\ k < HeaderEnd(fs, i)
        /\ i - 1 \in 0 .. Len(fs)
    BY <1>1, <1>7 DEF InHeader
  <2>2. i = j
    <3>1. CASE i < j
      <4>1. Len(Sent(fs)[i]) <= k
        BY <1>1, <3>1, FrameOrder
      <4>2. /\ HeaderEnd(fs, i) <= Len(Sent(fs)[i]) /\ HeaderEnd(fs, i) \in Nat
            /\ Len(Sent(fs)[i]) \in Nat
        <5>1. 0 \in 0 .. Len(fs) /\ 0 < i
          BY <1>1, <2>1
        <5> QED
          BY <1>5, <2>1, <5>1
      <4> QED
        BY <2>1, <4>1, <4>2
    <3>2. CASE j < i
      <4>1. FrameStart(fs, i) = Len(Sent(fs)[i - 1]) /\ Len(Sent(fs)[i - 1]) \in Nat
        BY <1>1, <2>1, SentFacts, LenProperties DEF FrameStart
      <4>2. i - 1 \in j .. Len(fs) /\ j \in 0 .. Len(fs)
        BY <1>1, <1>3, <2>1, <3>2
      <4>3. Len(Sent(fs)[j]) <= Len(Sent(fs)[i - 1])
        BY <1>1, <4>2, SentGrows
      <4>4. /\ k < HeaderEnd(fs, j) /\ HeaderEnd(fs, j) <= Len(Sent(fs)[j])
            /\ HeaderEnd(fs, j) \in Nat /\ Len(Sent(fs)[j]) \in Nat
        <5>1. j - 1 < j
          BY <1>1
        <5> QED
          BY <1>1, <1>4, <1>5, <5>1
      <4> QED
        BY <2>1, <4>1, <4>3, <4>4
    <3> QED
      BY <1>1, <1>3, <3>1, <3>2
  <2>3. k - FrameStart(fs, i) = 0
    BY <2>2
  <2>4. SubSeq(Header(fs[i]), 1, 0) = <<>>
    BY SubSeqEmpty
  <2> QED
    BY <1>7, <2>2, <2>3, <2>4 DEF InHeader
<1>8. CASE InPayload(fs, c, k, i)
  <2>1. i \in 1 .. Len(fs) /\ HeaderEnd(fs, i) <= k
    BY <1>8 DEF InPayload
  <2>2. CASE i < j
    <3>1. k < FrameStart(fs, j)
      BY <1>1, <1>8, <2>2, PayloadEnds
    <3> QED
      BY <3>1
  <2>3. CASE j <= i
    <3>1. j - 1 < i
      BY <1>1, <1>3, <2>3
    <3>2. Len(Sent(fs)[j - 1]) < HeaderEnd(fs, i) /\ HeaderEnd(fs, i) \in Nat
      BY <1>1, <1>5, <2>1, <3>1
    <3> QED
      BY <1>4, <2>1, <3>2
  <2> QED
    BY <1>1, <1>3, <2>2, <2>3
<1> QED
  BY <1>2, <1>6, <1>7, <1>8

---------------------------------------------------------------------------
(* What holds between two reads: the limiter is at the position the reads  *)
(* have reached, and everything read has been passed on until it fails.    *)
Progress ==
  /\ frames \in Streams
  /\ taken \in Nat /\ passed \in Nat /\ pending \in Int /\ pending >= -1
  /\ taken <= Len(Wire(frames)) /\ pending <= Len(Wire(frames)) - taken
  /\ pending = -1 => taken = 0
  /\ ~lim.err => passed = taken

(* The inductive invariant of the limiter. *)
LimitInv == Progress /\ Position(frames, lim, taken) /\ OversizedNeverPasses

(* What the agent sends is a stream of the constants. *)
LEMMA StreamFacts ==
  ASSUME Progress
  PROVE  /\ Stream(frames) /\ frames \in Seq(Frame) /\ Len(frames) \in Nat
         /\ DOMAIN frames = 1 .. Len(frames) /\ Len(Wire(frames)) \in Nat
<1>1. Stream(frames)
  BY StreamsAssumption DEF Progress, Stream
<1>2. frames \in Seq(Frame)
  BY <1>1 DEF Stream
<1>3. Len(frames) \in Nat /\ DOMAIN frames = 1 .. Len(frames)
  BY <1>2, LenProperties
<1>4. Sent(frames)[Len(frames)] \in Seq(Nat)
  <2>1. Len(frames) \in 0 .. Len(frames)
    BY <1>3
  <2> QED
    BY <1>2, <2>1, SentFacts
<1>5. Len(Wire(frames)) \in Nat
  BY <1>4, LenProperties DEF Wire
<1> QED
  BY <1>1, <1>2, <1>3, <1>5

(* Before Hijack the limiter is at the start of the stream. *)
LEMMA LimitInitInv == LimitInit => LimitInv
<1> SUFFICES ASSUME LimitInit PROVE LimitInv
  OBVIOUS
<1>1. frames \in Seq(Frame) /\ frames \in Streams
  BY StreamsAssumption DEF LimitInit
<1>2. Len(frames) \in Nat /\ 0 \in 0 .. Len(frames) /\ Len(frames) \in 0 .. Len(frames)
  BY <1>1
<1>3. Len(Wire(frames)) \in Nat
  BY <1>1, <1>2, SentFacts, LenProperties DEF Wire
<1>4. Progress
  BY <1>1, <1>3 DEF LimitInit, Progress
<1>5. lim \in State /\ lim.hdr = <<>> /\ lim.payload = 0 /\ lim.msg = 0 /\ ~lim.err
  BY DEF LimitInit, State
<1>6. Len(Sent(frames)[0]) = 0
  <2>1. Sent(frames)[0] = <<>>
    BY <1>1, SentFacts
  <2> QED
    BY <2>1
<1>7. MessageSize(frames, 0) = 0
  BY <1>1, <1>2, SizeNat
<1>8. Clean(frames, 0)
  BY DEF Clean
<1>9. taken = 0 /\ passed = 0
  BY DEF LimitInit
<1>10. Boundary(frames, lim, taken, 0)
  BY <1>2, <1>5, <1>6, <1>7, <1>8, <1>9 DEF Boundary
<1>11. Position(frames, lim, taken)
  BY <1>2, <1>5, <1>10, AtPosition
<1>12. OversizedNeverPasses
  <2> SUFFICES ASSUME NEW j \in DOMAIN frames, Oversized(frames, j)
               PROVE  passed < HeaderEnd(frames, j)
    BY DEF OversizedNeverPasses
  <2>1. Stream(frames) /\ j \in 1 .. Len(frames) /\ taken \in Nat
    BY <1>4, <1>9, StreamFacts
  <2>2. taken < HeaderEnd(frames, j)
    BY <1>5, <1>11, <2>1, NoneSeen
  <2> QED
    BY <1>9, <2>2
<1> QED
  BY <1>4, <1>11, <1>12 DEF LimitInv

(* Taking the connection over reads nothing yet. *)
LEMMA HijackInv ==
  ASSUME LimitInv, NEW n \in Buffered, Hijack(n)
  PROVE  LimitInv'
<1>1. n \in Nat
  BY SizesAssumption
<1>2. Progress /\ Position(frames, lim, taken) /\ OversizedNeverPasses
  BY DEF LimitInv
<1>3. Len(Wire(frames)) \in Nat
  BY <1>2, StreamFacts
<1>4. frames' = frames /\ taken' = taken /\ passed' = passed /\ lim' = lim /\ pending' = n
  BY DEF Hijack
<1>5. taken = 0 /\ n <= Len(Wire(frames))
  BY <1>2 DEF Hijack, Progress
<1>6. Progress'
  BY <1>1, <1>2, <1>3, <1>4, <1>5 DEF Progress
<1> QED
  BY <1>2, <1>4, <1>6 DEF LimitInv, OversizedNeverPasses

(* A read moves the position by what it returns, or cuts the tunnel. *)
LEMMA ReadInv ==
  ASSUME LimitInv, NEW n \in ReadSizes, Read(n)
  PROVE  LimitInv'
<1> DEFINE w == Len(Wire(frames))
<1>1. n \in Nat
  BY SizesAssumption
<1>2. Progress /\ Position(frames, lim, taken) /\ OversizedNeverPasses
  BY DEF LimitInv
<1>3. Stream(frames) /\ w \in Nat /\ DOMAIN frames = 1 .. Len(frames)
  BY <1>2, StreamFacts
<1>4. /\ frames' = frames /\ taken' = taken + n
      /\ lim' = inspect(lim, SubSeq(Wire(frames), taken + 1, taken + n))
      /\ passed' = (IF lim'.err THEN passed ELSE passed + n)
      /\ pending' = (IF pending > 0 THEN pending - n ELSE 0)
      /\ pending >= 0 /\ ~lim.err
      /\ n <= (IF pending > 0 THEN pending ELSE w - taken)
  BY DEF Read
<1>5. /\ frames \in Streams /\ taken \in Nat /\ passed = taken /\ pending \in Int
      /\ taken <= w /\ pending <= w - taken
  BY <1>2, <1>4 DEF Progress
<1> HIDE DEF w
<1>6. /\ n <= w - taken
      /\ pending' \in Int /\ pending' >= 0 /\ pending' <= w - (taken + n)
  BY <1>1, <1>3, <1>4, <1>5
<1>7. taken + n \in Nat /\ taken + n <= w
  BY <1>1, <1>3, <1>5, <1>6
<1>8. Position(frames, lim', taken + n)
  BY <1>1, <1>2, <1>3, <1>4, <1>5, <1>7, ReadStep DEF w
<1>9. passed' \in Nat /\ (~lim'.err => passed' = taken + n)
  BY <1>1, <1>4, <1>5
<1>10. Progress'
  <2>1. frames' \in Streams /\ taken' \in Nat /\ taken' <= Len(Wire(frames'))
    BY <1>4, <1>5, <1>7 DEF w
  <2>2. /\ pending' \in Int /\ pending' >= -1 /\ pending' # -1
        /\ pending' <= Len(Wire(frames')) - taken'
    BY <1>4, <1>6 DEF w
  <2>3. passed' \in Nat /\ (~lim'.err => passed' = taken')
    BY <1>4, <1>9
  <2> QED
    BY <2>1, <2>2, <2>3 DEF Progress
<1>11. OversizedNeverPasses'
  <2> SUFFICES ASSUME NEW j \in 1 .. Len(frames), Oversized(frames, j)
               PROVE  passed' < HeaderEnd(frames, j)
    BY <1>3, <1>4 DEF OversizedNeverPasses
  <2>1. CASE lim'.err
    <3>1. passed' = passed
      BY <1>4, <2>1
    <3> QED
      BY <1>2, <1>3, <3>1 DEF OversizedNeverPasses
  <2>2. CASE ~lim'.err
    <3>1. taken + n < HeaderEnd(frames, j)
      BY <1>3, <1>7, <1>8, <2>2, NoneSeen
    <3> QED
      BY <1>9, <2>2, <3>1
  <2> QED
    BY <2>1, <2>2
<1> QED
  BY <1>4, <1>8, <1>10, <1>11 DEF LimitInv

(* frameLimitConn keeps its place through every Hijack and Read. *)
THEOREM LimiterInvariant == LimitSpec => []LimitInv
<1>1. LimitInv /\ [LimitNext]_lvars => LimitInv'
  <2> SUFFICES ASSUME LimitInv, [LimitNext]_lvars PROVE LimitInv'
    OBVIOUS
  <2>1. CASE UNCHANGED lvars
    BY <2>1 DEF lvars, LimitInv, Progress, OversizedNeverPasses
  <2>2. CASE LimitNext
    BY <2>2, HijackInv, ReadInv DEF LimitNext
  <2> QED
    BY <2>1, <2>2
<1> QED
  BY <1>1, LimitInitInv, PTL DEF LimitSpec

(* Hijack, frameLimitConn.Read: however the bytes are cut into reads, and  *)
(* whichever encoding of the length is used, the library never sees the    *)
(* whole header of a frame that takes its message over maxMessageBytes.    *)
THEOREM LimitEnforced == LimitSpec => []OversizedNeverPasses
<1>1. LimitInv => OversizedNeverPasses
  BY DEF LimitInv
<1> QED
  BY <1>1, LimiterInvariant, PTL

(* inspect: a tunnel is cut only for a message that is too large.          *)
THEOREM NoFalseCut == LimitSpec => []CutForCause
<1>1. LimitInv => CutForCause
  <2> SUFFICES ASSUME LimitInv, lim.err
               PROVE  \E i \in DOMAIN frames :
                        Oversized(frames, i) /\ HeaderEnd(frames, i) <= taken
    BY DEF CutForCause
  <2>1. DOMAIN frames = 1 .. Len(frames)
    BY StreamFacts DEF LimitInv
  <2> QED
    BY <2>1 DEF LimitInv, Position
<1> QED
  BY <1>1, LimiterInvariant, PTL

(* inspect: the parser never loses its place between frames, and knows the *)
(* size of the message under way.                                          *)
THEOREM ParserInSync == LimitSpec => []StaysInSync
<1>1. LimitInv => StaysInSync
  <2> SUFFICES ASSUME LimitInv, NEW i \in DOMAIN frames, ~lim.err,
                      taken = FrameStart(frames, i)
               PROVE  /\ lim.hdr = <<>> /\ lim.payload = 0
                      /\ lim.msg = MessageSize(frames, i - 1)
    BY DEF StaysInSync
  <2>1. Stream(frames) /\ i \in 1 .. Len(frames) /\ taken \in Nat
    BY StreamFacts DEF LimitInv, Progress
  <2>2. Position(frames, lim, taken)
    BY DEF LimitInv
  <2> QED
    BY <2>1, <2>2, InSync
<1> QED
  BY <1>1, LimiterInvariant, PTL
=============================================================================
