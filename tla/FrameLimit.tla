----------------------------- MODULE FrameLimit -----------------------------
(***************************************************************************)
(* The size limit on tunnel messages (internal/tunnel/tunnel.go: Hijack,   *)
(* frameLimitConn).  The limiter parses RFC 6455 frame headers out of a    *)
(* byte stream that arrives in reads of any size, some of it buffered by   *)
(* net/http before the connection was hijacked, and passes the bytes on to *)
(* the websocket library.                                                  *)
(*                                                                         *)
(* Bytes are numbers; mask keys and payloads are bytes that would read as  *)
(* an endless frame if the parser ever took them for a header.             *)
(***************************************************************************)
EXTENDS Integers, Sequences

CONSTANTS
  Streams,         \* sequences of frames an agent may send
  Buffered,        \* numbers of bytes net/http may have read ahead
  ReadSizes,       \* numbers of bytes one Read may return
  maxMessageBytes

(* Every 64-bit length from here on: more than the limit, and in a control *)
(* frame more than the library lets through.                               *)
Huge == 65536

(* The three encodings of a length, which need not be the shortest one.  A *)
(* client must mask its frames; the limiter parses those it does not.      *)
Frame ==
  {f \in [op : 0 .. 15, ext : {7, 16, 64}, len : 0 .. Huge, masked : BOOLEAN] :
     (f.ext = 7 => f.len <= 125) /\ (f.ext = 16 => f.len < Huge)}

(* Nothing follows a payload that never ends. *)
ASSUME StreamsAssumption ==
  \A s \in Streams : s \in Seq(Frame) /\ \A i \in 1 .. Len(s) - 1 : s[i].len < Huge
ASSUME SizesAssumption ==
  Buffered \subseteq Nat /\ ReadSizes \subseteq Nat /\ maxMessageBytes \in 0 .. Huge - 1

VARIABLES
  frames,   \* what the agent sends
  pending,  \* read-ahead bytes still to be replayed, -1 before Hijack
  taken,    \* bytes read from the source
  passed,   \* bytes handed to the websocket library
  lim       \* the limiter: header bytes, payload left, message size, error

lvars == <<frames, pending, taken, passed, lim>>

---------------------------------------------------------------------------
(* The agent's side: what a frame looks like on the wire. *)
Noise(n) == [i \in 1 .. n |-> 255]

MaskBit(f) == IF f.masked THEN 128 ELSE 0
MaskKey(f) == IF f.masked THEN Noise(4) ELSE <<>>

Lengths(f) ==
  CASE f.ext = 7  -> <<128 + f.op, MaskBit(f) + f.len>>
    [] f.ext = 16 -> <<128 + f.op, MaskBit(f) + 126, f.len \div 256, f.len % 256>>
    [] f.ext = 64 /\ f.len < Huge ->
         <<128 + f.op, MaskBit(f) + 127, 0, 0, 0, 0, 0, 0, f.len \div 256, f.len % 256>>
    [] f.ext = 64 /\ f.len = Huge ->
         <<128 + f.op, MaskBit(f) + 127, 128, 0, 0, 0, 0, 0, 0, 1>>

Header(f) == Lengths(f) \o MaskKey(f)

(* Of a payload that never ends, two bytes are sent. *)
Encode(f) == Header(f) \o Noise(IF f.len = Huge THEN 2 ELSE f.len)

(* What is on the wire after i frames. *)
Sent(fs) ==
  LET sent[i \in 0 .. Len(fs)] == IF i = 0 THEN <<>> ELSE sent[i - 1] \o Encode(fs[i])
  IN  sent

Wire(fs) == Sent(fs)[Len(fs)]
FrameStart(fs, i) == Len(Sent(fs)[i - 1])
HeaderEnd(fs, i) == FrameStart(fs, i) + Len(Header(fs[i]))

---------------------------------------------------------------------------
(* A bug in which the mask key is not counted. *)
headerLenUnmasked(h) ==
  2 + (CASE h[2] % 128 = 126 -> 2 [] h[2] % 128 = 127 -> 8 [] OTHER -> 0)

headerLen(h) ==
  2 + (CASE h[2] % 128 = 126 -> 2 [] h[2] % 128 = 127 -> 8 [] OTHER -> 0)
    + (IF h[2] >= 128 THEN 4 ELSE 0)

(* A bug in which the 64-bit length is read as a signed number. *)
payloadLenSigned(h) ==
  CASE h[2] % 128 = 126 -> h[3] * 256 + h[4]
    [] h[2] % 128 = 127 -> IF h[3] >= 128 THEN -1 ELSE h[9] * 256 + h[10]
    [] OTHER            -> h[2] % 128

(* BigEndian.Uint64 is cut off at Huge: every length from there on is more *)
(* than any limit and more than any stream.                                *)
payloadLen(h) ==
  CASE h[2] % 128 = 126 -> h[3] * 256 + h[4]
    [] h[2] % 128 = 127 -> IF \E i \in 3 .. 8 : h[i] # 0 THEN Huge
                           ELSE h[9] * 256 + h[10]
    [] OTHER            -> h[2] % 128

TooLarge(msg, length) == length > maxMessageBytes \/ msg + length > maxMessageBytes

(* A bug in which a message inherits the size of the one before it. *)
FrameHeaderAccumulating(c, opcode, length) ==
  CASE opcode >= 8 -> [c EXCEPT !.hdr = <<>>, !.payload = length]
    [] opcode < 8 /\ TooLarge(c.msg, length) -> [c EXCEPT !.hdr = <<>>, !.err = TRUE]
    [] OTHER -> [c EXCEPT !.hdr = <<>>, !.payload = length, !.msg = @ + length]

(* A complete header: a control frame belongs to no message, a             *)
(* continuation adds to the current one, any other frame starts one.       *)
FrameHeader(c, opcode, length) ==
  CASE opcode >= 8 -> [c EXCEPT !.hdr = <<>>, !.payload = length]
    [] opcode = 0 ->
         IF TooLarge(c.msg, length) THEN [c EXCEPT !.hdr = <<>>, !.err = TRUE]
         ELSE [c EXCEPT !.hdr = <<>>, !.payload = length, !.msg = @ + length]
    [] OTHER ->
         IF TooLarge(0, length) THEN [c EXCEPT !.hdr = <<>>, !.err = TRUE]
         ELSE [c EXCEPT !.hdr = <<>>, !.payload = length, !.msg = length]

(* One byte of inspect's loop; payload bytes, skipped there in one go, are *)
(* skipped one by one.  After an error nothing is looked at.               *)
InspectByte(c, b) ==
  IF c.err THEN c
  ELSE IF c.payload > 0 THEN [c EXCEPT !.payload = @ - 1]
  ELSE LET h == Append(c.hdr, b)
       IN  IF Len(h) < 2 \/ Len(h) < headerLen(h) THEN [c EXCEPT !.hdr = h]
           ELSE FrameHeader(c, h[1] % 16, payloadLen(h))

inspect(c, bytes) ==
  LET run[i \in 0 .. Len(bytes)] == IF i = 0 THEN c ELSE InspectByte(run[i - 1], bytes[i])
  IN  run[Len(bytes)]

---------------------------------------------------------------------------
LimitInit ==
  /\ frames \in Streams
  /\ pending = -1
  /\ taken = 0
  /\ passed = 0
  /\ lim = [hdr |-> <<>>, payload |-> 0, msg |-> 0, err |-> FALSE]

(* A bug in which the read-ahead goes to the library uninspected. *)
HijackUnreplayed(n) ==
  /\ pending = -1
  /\ n <= Len(Wire(frames))
  /\ pending' = 0
  /\ taken' = n
  /\ passed' = n
  /\ UNCHANGED <<frames, lim>>

Hijack(n) ==
  /\ pending = -1
  /\ n <= Len(Wire(frames))
  /\ pending' = n
  /\ UNCHANGED <<frames, taken, passed, lim>>

(* One Read: n bytes from the read-ahead or, once that is used up, from    *)
(* the connection.  A read that fails passes nothing on and closes it.     *)
Read(n) ==
  /\ pending >= 0
  /\ ~lim.err
  /\ n <= IF pending > 0 THEN pending ELSE Len(Wire(frames)) - taken
  /\ lim' = inspect(lim, SubSeq(Wire(frames), taken + 1, taken + n))
  /\ taken' = taken + n
  /\ passed' = IF lim'.err THEN passed ELSE passed + n
  /\ pending' = IF pending > 0 THEN pending - n ELSE 0
  /\ UNCHANGED frames

LimitNext == (\E n \in Buffered : Hijack(n)) \/ (\E n \in ReadSizes : Read(n))

LimitSpec == LimitInit /\ [][LimitNext]_lvars

---------------------------------------------------------------------------
(* The reference: a message starts at the last data frame that is not a    *)
(* continuation, and has the bytes of the data frames from there on.       *)
First(fs, i) ==
  LET starts == {j \in 1 .. i : fs[j].op \in 1 .. 7}
  IN  IF starts = {} THEN 1 ELSE CHOOSE j \in starts : \A k \in starts : k <= j

DataBytes(fs) ==
  LET bytes[i \in 0 .. Len(fs)] ==
        IF i = 0 THEN 0 ELSE bytes[i - 1] + (IF fs[i].op < 8 THEN fs[i].len ELSE 0)
  IN  bytes

MessageSize(fs, i) == DataBytes(fs)[i] - DataBytes(fs)[First(fs, i) - 1]

Oversized(fs, i) == fs[i].op < 8 /\ MessageSize(fs, i) > maxMessageBytes

(* The websocket library never sees the whole header of a frame that takes *)
(* a message over the limit, however the bytes are cut into reads and      *)
(* whichever of the three length encodings the frame uses.                 *)
OversizedNeverPasses ==
  \A i \in DOMAIN frames : Oversized(frames, i) => passed < HeaderEnd(frames, i)

(* A tunnel is cut only for a message that really is too large: control    *)
(* frames between its parts and messages before it do not count.           *)
CutForCause ==
  lim.err => \E i \in DOMAIN frames : Oversized(frames, i) /\ HeaderEnd(frames, i) <= taken

(* At every frame boundary the parser is at a boundary too, and has the    *)
(* size of the message under way.                                          *)
StaysInSync ==
  \A i \in DOMAIN frames :
    ~lim.err /\ taken = FrameStart(frames, i) =>
      lim.hdr = <<>> /\ lim.payload = 0 /\ lim.msg = MessageSize(frames, i - 1)
============================================================================
