----------------------------- MODULE CanReceiver -----------------------------
(***************************************************************************)
(* SerialCANParser.read_serial_data: finding the charger's CAN frames in   *)
(* the byte stream of the serial adapter.                                  *)
(*                                                                         *)
(* A frame has 17 bytes: the header 0x41 0x54, four bytes of identifier, a *)
(* length, eight bytes of data, a two-byte trailer.  The parser looks for  *)
(* the header pair by pair: of a pair that is not a header it drops both   *)
(* bytes.  A session attaches in the middle of the stream, and the line    *)
(* may lose bytes.                                                         *)
(*                                                                         *)
(* Bytes are named by their number in the stream; what a byte holds        *)
(* follows from its place in its frame and the kind of the frame.  Bytes   *)
(* of data never look like an identifier or a length here; they look like  *)
(* a header in the frames of kind "lookalike" (z speed 0x..41, infrared    *)
(* 0x54).                                                                  *)
(***************************************************************************)
EXTENDS Integers, Sequences, FiniteSets

CONSTANTS
  MaxFrames,  \* bound: frames sent
  MaxLosses,  \* bound: bytes lost
  Kinds,      \* what frames there are: a subset of KindsOfFrame
  MaxOthers,  \* bound: frames that are not of kind "charger"
  Attach      \* the bytes of the first frame at which the session may attach

FrameLength == 17
KindsOfFrame == {"charger", "foreign", "lookalike"}

ASSUME BoundsAssumption ==
  MaxFrames \in Nat \ {0} /\ MaxLosses \in Nat /\ MaxOthers \in Nat
ASSUME KindsAssumption == Kinds \subseteq KindsOfFrame
ASSUME AttachAssumption == Attach \subseteq 1..FrameLength

VARIABLES
  kind,      \* kind[f]: the kind of frame f
  next,      \* number of the byte the adapter delivers next
  buffer,    \* the parser's buffer
  returned,  \* the buffer parsed into the frame returned last, or <<>>
  lost,      \* history: the bytes that never reached the parser
  losses,    \* history: how many of them the line lost, bounded by MaxLosses
  missed     \* history: whole charger frames not returned since the stream was disturbed

vars == <<kind, next, buffer, returned, lost, losses, missed>>

Bytes == 1..(MaxFrames * FrameLength)
FrameOf(n) == ((n - 1) \div FrameLength) + 1
Place(n) == ((n - 1) % FrameLength) + 1

TypeOK ==
  /\ kind \in [1..MaxFrames -> Kinds]
  /\ next \in 1..(MaxFrames * FrameLength + 1)
  /\ buffer \in Seq(Bytes) /\ Len(buffer) < FrameLength
  /\ returned \in Seq(Bytes) /\ Len(returned) \in {0, FrameLength}
  /\ lost \subseteq Bytes
  /\ losses \in 0..MaxLosses
  /\ missed \in Nat

Init ==
  /\ kind \in [1..MaxFrames -> Kinds]
  /\ Cardinality({f \in 1..MaxFrames : kind[f] # "charger"}) <= MaxOthers
  /\ next \in Attach
  /\ buffer = <<>>
  /\ returned = <<>>
  /\ lost = 1..(next - 1)
  /\ losses = 0
  /\ missed = 0
-----------------------------------------------------------------------------
\* The bytes 0x41 and 0x54, wherever the frame has them.
Is41(n) == Place(n) = 1 \/ (kind[FrameOf(n)] = "lookalike" /\ Place(n) = 13)
Is54(n) == Place(n) = 2 \/ (kind[FrameOf(n)] = "lookalike" /\ Place(n) = 14)

\* Mutant: the length byte is not checked.
AcceptedById(b) == \A i \in {3, 4} : Place(b[i]) = i /\ kind[FrameOf(b[i])] # "foreign"

\* can_id_check(buffer[2:4]) == 0x182 and buffer[6] == 0x08
Accepted(b) ==
  /\ \A i \in {3, 4} : Place(b[i]) = i /\ kind[FrameOf(b[i])] # "foreign"
  /\ Place(b[7]) = 7

\* Mutant: the buffer is cleared one byte late.
ExtendPastFrame(b, n) ==
  LET longer == Append(b, n)
  IN  IF \/ Len(longer) = 2 /\ ~(Is41(longer[1]) /\ Is54(longer[2]))
         \/ Len(longer) > FrameLength
      THEN <<>>
      ELSE longer

\* One iteration of the loop on one byte.
Extend(b, n) ==
  LET longer == Append(b, n)
  IN  IF \/ Len(longer) = 2 /\ ~(Is41(longer[1]) /\ Is54(longer[2]))
         \/ Len(longer) >= FrameLength
      THEN <<>>
      ELSE longer

Returns(b, n) == Len(b) + 1 >= FrameLength /\ Accepted(Append(b, n))

FrameBytes(f) == [i \in 1..FrameLength |-> (f - 1) * FrameLength + i]

\* A charger frame that arrives whole and is not returned is missed.
Whole(f) == \A i \in 1..FrameLength : FrameBytes(f)[i] \notin lost

CountMissed ==
  LET f == FrameOf(next)
      ends == Place(next) = FrameLength
  IN  missed' = IF ends /\ kind[f] # "foreign" /\ Whole(f) /\ returned' # FrameBytes(f)
                THEN missed + 1
                ELSE missed

Receive ==
  /\ next \in Bytes
  /\ next' = next + 1
  /\ buffer' = Extend(buffer, next)
  /\ returned' = IF Returns(buffer, next) THEN Append(buffer, next) ELSE returned
  /\ CountMissed
  /\ UNCHANGED <<kind, lost, losses>>

Lose ==
  /\ next \in Bytes
  /\ losses < MaxLosses
  /\ losses' = losses + 1
  /\ lost' = lost \union {next}
  /\ next' = next + 1
  /\ missed' = 0
  /\ UNCHANGED <<kind, buffer, returned>>

Next == Receive \/ Lose

Spec == Init /\ [][Next]_vars
-----------------------------------------------------------------------------
(***************************************************************************)
(* Properties.                                                             *)
(***************************************************************************)

\* Because a frame has an odd number of bytes, the search by pairs cannot stay
\* out of step: after a session has attached, anywhere, or the line has lost a
\* byte, one whole charger frame is missed at most, and two when a second byte
\* is lost while the parser is still out of step (read_serial_data's search for
\* the header and the length 17 it counts to).  Look-alike headers break this.
Resynchronises ==
  (\A f \in 1..MaxFrames : kind[f] # "lookalike") =>
    missed <= IF losses <= 1 THEN 1 ELSE 2

\* What is taken for a frame is one, as far as bytes can tell without a checksum,
\* as long as the line has not lost as many bytes as a frame has.  Identifier and
\* length are of one frame, and so is the header unless it is a look-alike.  What
\* follows is filled from further on by no more than the losses: a lost byte of
\* data goes unnoticed and shifts those after it, into the next frame at the end;
\* data of which no byte was lost is exact.
NeverTorn ==
  returned # <<>> =>
    LET f == FrameOf(returned[7])
        displaced(i) == returned[i] - FrameBytes(f)[i]
    IN  /\ losses < FrameLength =>
             /\ \A i \in 1..2 :
                  displaced(i) = 0 \/ (Place(returned[i]) = 12 + i
                                       /\ kind[FrameOf(returned[i])] = "lookalike")
             /\ \A i \in 3..7 : displaced(i) = 0
        /\ \A i \in 8..FrameLength : displaced(i) \in 0..losses
        /\ (\A i \in 8..15 : FrameBytes(f)[i] \notin lost) => \A i \in 8..15 : displaced(i) = 0
=============================================================================
