---------------------------- MODULE MCFrameLimit ----------------------------
(* FrameLimit with a limit of 3 bytes and streams of up to three frames:    *)
(* every length encoding, masked or not, at the limit, one above it and     *)
(* past 2^63.                                                               *)
EXTENDS FrameLimit

F(op, ext, len) == [op |-> op, ext |-> ext, len |-> len, masked |-> TRUE]
Bare(op, ext, len) == [F(op, ext, len) EXCEPT !.masked = FALSE]

Kinds ==
  {F(2, 7, 3), F(2, 7, 4), F(2, 16, 1), F(2, 64, 2),
   F(0, 7, 1), F(0, 16, 2), F(0, 64, 0), F(9, 7, 2), Bare(2, 16, 2), Bare(0, 7, 1)}
Endless == {F(2, 64, Huge), F(0, 64, Huge), F(9, 64, Huge)}

SmallStreams ==
  {<<a, b, c>> : a \in Kinds, b \in Kinds, c \in Kinds \cup Endless} \cup {<<e>> : e \in Endless}
============================================================================
