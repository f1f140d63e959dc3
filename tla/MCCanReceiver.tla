--------------------------- MODULE MCCanReceiver ---------------------------
(***************************************************************************)
(* Instances of CanReceiver for TLC.                                       *)
(***************************************************************************)
EXTENDS CanReceiver

Anywhere == 1..FrameLength
=============================================================================
