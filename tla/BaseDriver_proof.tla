-------------------------- MODULE BaseDriver_proof --------------------------
(***************************************************************************)
(* Proofs about BaseDriver, for any number of calls, speeds, losses and    *)
(* starts.                                                                 *)
(***************************************************************************)
EXTENDS BaseDriver, TLAPS

(***************************************************************************)
(* Frames on the line, counted by their places.                            *)
(***************************************************************************)
Marks(s) == {i \in 1..Len(s) : s[i].cmd \in AllServices}
AtMostOne(s) == \A i, j \in Marks(s) : i = j

LEMMA TailPlaces ==
  ASSUME NEW T, NEW s \in Seq(T), s # <<>>
  PROVE  /\ Tail(s) \in Seq(T) /\ Head(s) = s[1] /\ Head(s) \in T /\ 1 \in 1..Len(s)
         /\ Len(Tail(s)) = Len(s) - 1
         /\ \A i \in 1..Len(Tail(s)) : i + 1 \in 1..Len(s) /\ Tail(s)[i] = s[i + 1]
<1>1. Tail(s) \in Seq(T) /\ Head(s) = s[1] /\ Len(Tail(s)) = Len(s) - 1 /\ Len(s) \in Nat /\ Len(s) # 0
  OBVIOUS
<1> DEFINE n == Len(s)
<1>2. 1 \in 1..n /\ \A i \in 1..(n - 1) : i + 1 \in 1..n
  <2>1. n \in Nat /\ n # 0
    BY <1>1
  <2>. HIDE DEF n
  <2>2. QED
    BY <2>1
<1>3. \A i \in 1..Len(Tail(s)) : Tail(s)[i] = s[i + 1]
  OBVIOUS
<1>4. Head(s) \in T
  BY <1>1, <1>2
<1>5. QED
  BY <1>1, <1>2, <1>3, <1>4

LEMMA AppendPlaces ==
  ASSUME NEW T, NEW s \in Seq(T), NEW e \in T
  PROVE  /\ s \o <<e>> = Append(s, e) /\ Append(s, e) \in Seq(T)
         /\ Len(s) + 1 \in 1..Len(Append(s, e)) /\ Append(s, e)[Len(s) + 1] = e
         /\ \A i \in 1..Len(Append(s, e)) :
              (i \in 1..Len(s) /\ Append(s, e)[i] = s[i]) \/ (i = Len(s) + 1 /\ Append(s, e)[i] = e)
<1> DEFINE n == Len(s)
<1>1. /\ s \o <<e>> = Append(s, e) /\ Append(s, e) \in Seq(T)
      /\ Len(Append(s, e)) = n + 1 /\ Append(s, e)[n + 1] = e
      /\ \A i \in 1..n : Append(s, e)[i] = s[i]
  OBVIOUS
<1>2. n \in Nat
  OBVIOUS
<1>. HIDE DEF n
<1>3. n + 1 \in 1..(n + 1) /\ \A i \in 1..(n + 1) : i \in 1..n \/ i = n + 1
  BY <1>2
<1>4. QED
  BY <1>1, <1>3 DEF n

LEMMA TailMarks ==
  ASSUME NEW T, NEW s \in Seq(T), s # <<>>
  PROVE  /\ \A i \in Marks(Tail(s)) : i + 1 \in Marks(s) /\ Tail(s)[i] = s[i + 1]
         /\ Head(s).cmd \in AllServices => 1 \in Marks(s)
         /\ AtMostOne(s) => AtMostOne(Tail(s))
         /\ AtMostOne(s) /\ Head(s).cmd \in AllServices => Marks(Tail(s)) = {}
<1>1. \A i \in Marks(Tail(s)) : i + 1 \in Marks(s) /\ Tail(s)[i] = s[i + 1] /\ i \in Int /\ i >= 1
  BY TailPlaces DEF Marks
<1>2. Head(s).cmd \in AllServices => 1 \in Marks(s)
  BY TailPlaces DEF Marks
<1>3. ASSUME AtMostOne(s), NEW i \in Marks(Tail(s)), NEW j \in Marks(Tail(s)) PROVE i = j
  <2>1. i + 1 = j + 1
    BY <1>1, <1>3 DEF AtMostOne
  <2>2. QED
    BY <1>1, <2>1
<1>4. ASSUME AtMostOne(s), 1 \in Marks(s), NEW i \in Marks(Tail(s)) PROVE FALSE
  <2>1. i + 1 = 1
    BY <1>1, <1>4 DEF AtMostOne
  <2>2. QED
    BY <1>1, <2>1
<1>5. QED
  BY <1>1, <1>2, <1>3, <1>4 DEF AtMostOne

LEMMA AppendMarks ==
  ASSUME NEW T, NEW s \in Seq(T), NEW e \in T
  PROVE  /\ \A i \in Marks(Append(s, e)) :
              \/ i \in Marks(s) /\ Append(s, e)[i] = s[i]
              \/ i = Len(s) + 1 /\ Append(s, e)[i] = e /\ e.cmd \in AllServices
         /\ Marks(s) = {} => AtMostOne(Append(s, e))
         /\ e.cmd \notin AllServices /\ AtMostOne(s) => AtMostOne(Append(s, e))
<1>1. \A i \in Marks(Append(s, e)) :
        \/ i \in Marks(s) /\ Append(s, e)[i] = s[i]
        \/ i = Len(s) + 1 /\ Append(s, e)[i] = e /\ e.cmd \in AllServices
  BY AppendPlaces DEF Marks
<1>2. QED
  BY <1>1 DEF AtMostOne
-----------------------------------------------------------------------------
(***************************************************************************)
(* The inductive invariant.                                                *)
(***************************************************************************)
Frames == [cmd : Commands, of : Calls \union {None} \union (1..MaxSpeeds)]
Answers == [cmd : Commands \union {"telemetry"}, ok : BOOLEAN]
Unanswered == {"waiting", "gave_up"}

LinesTypeOK == inbox \in Seq(Frames) /\ line \in Seq(Answers)

\* A service's frame on its way is that of a valid call which is no longer queued
\* and whose caller has not been answered.
FrameOK(f) ==
  /\ f.cmd = "speed" => f.of \in 1..MaxSpeeds
  /\ f.cmd \in AllServices =>
       /\ f.of \in Calls \ requests /\ client[f.of] \in Unanswered
       /\ f.cmd = asks[f.of].service /\ Valid(f.of)

GoodFrames == {f \in Frames : FrameOK(f)}

InboxOK == inbox \in Seq(GoodFrames)

\* A call is carried out at most once, after it was queued and only if it is valid.
CallOK(c) ==
  /\ c \in requests => c \notin executed /\ client[c] \in Unanswered
  /\ client[c] = "idle" => c \notin requests /\ c \notin executed
  /\ c \in executed => Valid(c)
  /\ client[c] = "true" => c \in executed
  /\ client[c] = "false" => c \notin executed

HandlerOK ==
  driver = "reply" => current \in Calls \ requests /\ client[current] \in Unanswered

\* Between the node and the board that has its port open there is at most one
\* service frame or the answer to it, that of the handler's call, and the answer is
\* true.  Without a handler there is none.
OneAnswerOut ==
  port = "open" =>
    /\ driver # "reply" => Marks(inbox) = {} /\ Marks(line) = {}
    /\ AtMostOne(inbox) /\ AtMostOne(line)
    /\ \A i \in Marks(inbox) :
         inbox[i].of = current /\ current \notin executed /\ Marks(line) = {}
    /\ \A i \in Marks(line) :
         line[i].cmd = asks[current].service /\ line[i].ok = (current \in executed)

NobodySpeaks == port # "open" => line = <<>>

LineInv == InboxOK /\ OneAnswerOut /\ NobodySpeaks
CallInv == (\A c \in Calls : CallOK(c)) /\ HandlerOK
Inv == TypeOK /\ LinesTypeOK /\ LineInv /\ CallInv
-----------------------------------------------------------------------------
(***************************************************************************)
(* What steps do to the line.                                              *)
(***************************************************************************)

\* The node reads a frame or none, and writes one or none that is no service's.
NodeListens ==
  /\ UNCHANGED <<asks, client, requests, current, port, executed>>
  /\ (driver' = "reply") = (driver = "reply")
  /\ line' = line \/ (line # <<>> /\ line' = Tail(line))
  /\ \/ inbox' = inbox
     \/ \E f \in Frames : /\ f.cmd \notin AllServices
                          /\ f.cmd = "speed" => f.of \in 1..MaxSpeeds
                          /\ inbox' = Append(inbox, f)

\* The board takes a frame or none, and answers, or not, but to no service.
BoardPasses ==
  /\ UNCHANGED <<asks, client, requests, driver, current, port, executed>>
  /\ inbox' = inbox \/ (inbox # <<>> /\ inbox' = Tail(inbox))
  /\ \/ line' = line
     \/ port = "open" /\ \E e \in Answers : e.cmd \notin AllServices /\ line' = Append(line, e)

LEMMA NodeListensSteps ==
  ASSUME Inv,
         \/ OpenFails \/ PowerState \/ PowerOnAnswered \/ PowerUnknown \/ PowerWaits
         \/ ReplyWaits \/ CmdCallback \/ Control \/ ReadData \/ PublishSpeed \/ Start
  PROVE  NodeListens
<1>a. inbox \in Seq(Frames) /\ cmd_vel \in Seq(1..MaxSpeeds)
  BY DEF Inv, LinesTypeOK, TypeOK
<1>1. ASSUME NEW f \in Frames, f.cmd \notin AllServices, f.cmd = "speed" => f.of \in 1..MaxSpeeds,
             inbox' = Written(<<f>>)
      PROVE  \/ inbox' = inbox
             \/ \E g \in Frames : /\ g.cmd \notin AllServices
                                  /\ g.cmd = "speed" => g.of \in 1..MaxSpeeds
                                  /\ inbox' = Append(inbox, g)
  <2>1. inbox \o <<f>> = Append(inbox, f)
    BY <1>a, AppendPlaces
  <2>2. QED
    BY <1>1, <2>1 DEF Written
<1>2. /\ \A cmd \in {"power_on", "report_on"} :
           /\ Frame(cmd, None) \in Frames /\ Frame(cmd, None).cmd = cmd
           /\ cmd \notin AllServices /\ cmd # "speed"
      /\ \A n \in 1..MaxSpeeds : /\ Frame("speed", n) \in Frames
                                 /\ Frame("speed", n).cmd = "speed" /\ Frame("speed", n).of = n
      /\ "speed" \notin AllServices
  BY DEF Frame, Frames, Commands, AllServices
<1>. USE DEF NodeListens, NodeGoesOn, callVars, pubVars, boardVars, Receives, Skips, GivesUp, MayGiveUp
<1>3. ASSUME StartControl
      PROVE  \/ inbox' = inbox
             \/ \E g \in Frames : /\ g.cmd \notin AllServices
                                  /\ g.cmd = "speed" => g.of \in 1..MaxSpeeds
                                  /\ inbox' = Append(inbox, g)
  <2>1. inbox' = Written(<<Frame("report_on", None)>>)
    BY <1>3 DEF StartControl
  <2>2. QED
    BY <1>1, <1>2, <2>1
<1>4. CASE OpenFails \/ PublishSpeed \/ Start \/ Control
  BY <1>4 DEF OpenFails, PublishSpeed, Start, Control
<1>5. CASE PowerUnknown
  BY <1>5 DEF PowerUnknown
<1>6. CASE PowerWaits \/ ReplyWaits \/ ReadData
  BY <1>6 DEF PowerWaits, ReplyWaits, ReadData
<1>7. CASE PowerState
  <2>1. \/ StartControl
        \/ inbox' = Written(<<Frame("power_on", None)>>) /\ driver' = "power_on"
    BY <1>7 DEF PowerState
  <2>2. \/ inbox' = inbox
        \/ \E g \in Frames : /\ g.cmd \notin AllServices
                             /\ g.cmd = "speed" => g.of \in 1..MaxSpeeds
                             /\ inbox' = Append(inbox, g)
    BY <1>1, <1>2, <1>3, <2>1
  <2>3. driver = "query" /\ driver' \in {"power_on", "spin"}
    BY <1>7, <2>1 DEF PowerState, StartControl
  <2>4. QED
    BY <1>7, <2>2, <2>3 DEF PowerState
<1>8. CASE PowerOnAnswered
  <2>1. StartControl \/ (driver' = "spin" /\ inbox' = inbox)
    BY <1>8 DEF PowerOnAnswered
  <2>2. driver = "power_on" /\ driver' = "spin"
    BY <1>8, <2>1 DEF PowerOnAnswered, StartControl
  <2>3. QED
    BY <1>3, <1>8, <2>1, <2>2 DEF PowerOnAnswered
<1>9. CASE CmdCallback
  <2>1. Head(cmd_vel) \in 1..MaxSpeeds
    BY <1>9, <1>a, TailPlaces DEF CmdCallback
  <2>2. inbox' = Written(<<Frame("speed", Head(cmd_vel))>>)
    BY <1>9 DEF CmdCallback
  <2>3. \/ inbox' = inbox
        \/ \E g \in Frames : /\ g.cmd \notin AllServices
                             /\ g.cmd = "speed" => g.of \in 1..MaxSpeeds
                             /\ inbox' = Append(inbox, g)
    BY <1>1, <1>2, <2>1, <2>2
  <2>4. QED
    BY <1>9, <2>3 DEF CmdCallback
<1>10. QED
  BY <1>4, <1>5, <1>6, <1>7, <1>8, <1>9

LEMMA BoardPassesSteps ==
  ASSUME Inv,
         \/ BoardQueried \/ BoardPowers \/ BoardReports \/ BoardMoves
         \/ CommandLost \/ BoardSendsTelemetry
  PROVE  BoardPasses
<1>. USE DEF BoardPasses, BoardTakes, callVars, nodeVars, pubVars, boardVars
<1>1. ASSUME NEW cmd \in {"query", "power_on"}, NEW ok \in BOOLEAN, Answered(cmd, ok)
      PROVE  \/ line' = line
             \/ port = "open" /\ \E e \in Answers : e.cmd \notin AllServices /\ line' = Append(line, e)
  <2>1. Answer(cmd, ok) \in Answers /\ Answer(cmd, ok).cmd \notin AllServices
    BY DEF Answer, Answers, Commands, AllServices
  <2>2. QED
    BY <1>1, <2>1 DEF Answered
<1>2. CASE BoardQueried
  BY <1>1, <1>2 DEF BoardQueried, Inv, TypeOK
<1>3. CASE BoardPowers
  BY <1>1, <1>3 DEF BoardPowers
<1>4. CASE BoardReports \/ BoardMoves
  BY <1>4 DEF BoardReports, BoardMoves
<1>5. CASE CommandLost
  BY <1>5 DEF CommandLost
<1>6. CASE BoardSendsTelemetry
  <2>1. Telemetry \in Answers /\ Telemetry.cmd \notin AllServices
    BY DEF Telemetry, Answer, Answers, AllServices
  <2>2. QED
    BY <1>6, <2>1 DEF BoardSendsTelemetry
<1>7. QED
  BY <1>2, <1>3, <1>4, <1>5, <1>6
-----------------------------------------------------------------------------
(***************************************************************************)
(* The invariant is preserved: by such steps, and by all others.           *)
(***************************************************************************)
Kept == LinesTypeOK' /\ LineInv' /\ CallInv'

LEMMA SubsetSeq ==
  ASSUME NEW S, NEW T, S \subseteq T
  PROVE  Seq(S) \subseteq Seq(T)
OBVIOUS

LEMMA FramesStayOK ==
  ASSUME asks' = asks,
         \A c \in Calls \ requests :
           /\ c \notin requests'
           /\ client[c] \in Unanswered => client'[c] \in Unanswered
  PROVE  GoodFrames \subseteq GoodFrames'
<1>1. ASSUME NEW f \in Frames, FrameOK(f) PROVE FrameOK(f)'
  BY <1>1 DEF FrameOK, Valid, ByteOf
<1>2. QED
  BY <1>1 DEF GoodFrames

LEMMA CallsStayOK ==
  ASSUME CallInv, UNCHANGED <<asks, client, requests, current, executed>>,
         driver' = "reply" => driver = "reply"
  PROVE  CallInv'
<1>1. \A c \in Calls : CallOK(c)' <=> CallOK(c)
  BY DEF CallOK, Valid, ByteOf
<1>2. QED
  BY <1>1 DEF CallInv, HandlerOK

\* One frame fewer, or one more that is no service's: no new mark.
FewerMarks(s, t) ==
  /\ AtMostOne(s) => AtMostOne(t)
  /\ \A i \in Marks(t) : \E j \in Marks(s) : t[i] = s[j]

LEMMA FewerByTail ==
  ASSUME NEW T, NEW s \in Seq(T), s # <<>>
  PROVE  Tail(s) \in Seq(T) /\ FewerMarks(s, Tail(s))
<1>1. AtMostOne(s) => AtMostOne(Tail(s))
  BY TailMarks
<1>2. ASSUME NEW i \in Marks(Tail(s)) PROVE \E j \in Marks(s) : Tail(s)[i] = s[j]
  BY TailMarks
<1>3. Tail(s) \in Seq(T)
  BY TailPlaces
<1>4. QED
  BY <1>1, <1>2, <1>3 DEF FewerMarks

LEMMA FewerByAppend ==
  ASSUME NEW T, NEW s \in Seq(T), NEW e \in T, e.cmd \notin AllServices
  PROVE  Append(s, e) \in Seq(T) /\ FewerMarks(s, Append(s, e))
<1>1. AtMostOne(s) => AtMostOne(Append(s, e))
  BY AppendMarks
<1>2. \A i \in Marks(Append(s, e)) : i \in Marks(s) /\ Append(s, e)[i] = s[i]
  BY AppendMarks
<1>3. QED
  BY <1>1, <1>2, AppendPlaces DEF FewerMarks

LEMMA FewerBySame ==
  ASSUME NEW s
  PROVE  FewerMarks(s, s)
BY DEF FewerMarks

LEMMA NoMarks == Marks(<<>>) = {} /\ AtMostOne(<<>>)
BY DEF Marks, AtMostOne

\* With no new mark in either direction, what OneAnswerOut says still holds.
LEMMA FewerKeeps ==
  ASSUME OneAnswerOut, FewerMarks(inbox, inbox'), FewerMarks(line, line'),
         UNCHANGED <<asks, current, port, executed>>,
         (driver' = "reply") = (driver = "reply")
  PROVE  OneAnswerOut'
<1>1. /\ AtMostOne(line) => AtMostOne(line')
      /\ \A i \in Marks(line') : \E j \in Marks(line) : line'[i] = line[j]
      /\ AtMostOne(inbox) => AtMostOne(inbox')
      /\ \A i \in Marks(inbox') : \E j \in Marks(inbox) : inbox'[i] = inbox[j]
  BY DEF FewerMarks
<1>2. /\ Marks(line) = {} => Marks(line') = {}
      /\ Marks(inbox) = {} => Marks(inbox') = {}
  BY <1>1
<1>. SUFFICES ASSUME port' = "open" PROVE OneAnswerOut'
  BY DEF OneAnswerOut
<1>3. /\ driver' # "reply" => Marks(inbox') = {} /\ Marks(line') = {}
      /\ AtMostOne(inbox') /\ AtMostOne(line')
  BY <1>1, <1>2 DEF OneAnswerOut
<1>4. ASSUME NEW i \in Marks(inbox')
      PROVE  inbox'[i].of = current' /\ current' \notin executed' /\ Marks(line') = {}
  <2>1. PICK j \in Marks(inbox) : inbox'[i] = inbox[j]
    BY <1>1
  <2>2. QED
    BY <1>2, <2>1 DEF OneAnswerOut
<1>5. ASSUME NEW i \in Marks(line')
      PROVE  line'[i].cmd = asks'[current'].service /\ line'[i].ok = (current' \in executed')
  <2>1. PICK j \in Marks(line) : line'[i] = line[j]
    BY <1>1
  <2>2. line[j].cmd = asks[current].service /\ line[j].ok = (current \in executed)
    BY <2>1 DEF OneAnswerOut
  <2>3. QED
    BY <2>1, <2>2
<1>6. QED
  BY <1>3, <1>4, <1>5 DEF OneAnswerOut

LEMMA ListeningKeeps ==
  ASSUME Inv, NodeListens
  PROVE  Kept
<1>a. /\ inbox \in Seq(Frames) /\ line \in Seq(Answers) /\ InboxOK /\ OneAnswerOut
      /\ NobodySpeaks /\ CallInv
      /\ UNCHANGED <<asks, client, requests, current, port, executed>>
      /\ (driver' = "reply") = (driver = "reply")
  BY DEF Inv, LinesTypeOK, LineInv, NodeListens
<1>b. GoodFrames \subseteq GoodFrames'
  BY <1>a, FramesStayOK
<1>1. line' \in Seq(Answers) /\ FewerMarks(line, line') /\ (line = <<>> => line' = <<>>)
  <2>1. CASE line' = line
    BY <1>a, <2>1, FewerBySame
  <2>2. CASE line # <<>> /\ line' = Tail(line)
    BY <1>a, <2>2, FewerByTail
  <2>3. QED
    BY <2>1, <2>2 DEF NodeListens
<1>2. inbox' \in Seq(Frames) /\ FewerMarks(inbox, inbox') /\ inbox' \in Seq(GoodFrames)
  <2>1. CASE inbox' = inbox
    BY <1>a, <2>1, FewerBySame DEF InboxOK
  <2>2. ASSUME NEW f \in Frames, f.cmd \notin AllServices,
               f.cmd = "speed" => f.of \in 1..MaxSpeeds, inbox' = Append(inbox, f)
        PROVE  inbox' \in Seq(Frames) /\ FewerMarks(inbox, inbox') /\ inbox' \in Seq(GoodFrames)
    <3>1. f \in GoodFrames
      BY <2>2 DEF GoodFrames, FrameOK
    <3>2. inbox' \in Seq(Frames) /\ FewerMarks(inbox, inbox')
      BY <1>a, <2>2, FewerByAppend
    <3>3. inbox' \in Seq(GoodFrames)
      BY <1>a, <2>2, <3>1, FewerByAppend DEF InboxOK
    <3>4. QED
      BY <3>2, <3>3
  <2>3. QED
    BY <2>1, <2>2 DEF NodeListens
<1>3. InboxOK'
  BY <1>b, <1>2, SubsetSeq DEF InboxOK
<1>4. OneAnswerOut'
  BY <1>a, <1>1, <1>2, FewerKeeps
<1>5. NobodySpeaks'
  BY <1>a, <1>1 DEF NobodySpeaks
<1>6. CallInv'
  BY <1>a, CallsStayOK
<1>7. QED
  BY <1>1, <1>2, <1>3, <1>4, <1>5, <1>6 DEF Kept, LinesTypeOK, LineInv

LEMMA PassingKeeps ==
  ASSUME Inv, BoardPasses
  PROVE  Kept
<1>a. /\ inbox \in Seq(Frames) /\ line \in Seq(Answers) /\ InboxOK /\ OneAnswerOut
      /\ NobodySpeaks /\ CallInv
      /\ UNCHANGED <<asks, client, requests, driver, current, port, executed>>
  BY DEF Inv, LinesTypeOK, LineInv, BoardPasses
<1>b. GoodFrames \subseteq GoodFrames'
  BY <1>a, FramesStayOK
<1>1. line' \in Seq(Answers) /\ FewerMarks(line, line') /\ (port # "open" => line' = line)
  <2>1. CASE line' = line
    BY <1>a, <2>1, FewerBySame
  <2>2. ASSUME NEW e \in Answers, e.cmd \notin AllServices, line' = Append(line, e), port = "open"
        PROVE  line' \in Seq(Answers) /\ FewerMarks(line, line') /\ port = "open"
    BY <1>a, <2>2, FewerByAppend
  <2>3. QED
    BY <2>1, <2>2 DEF BoardPasses
<1>2. inbox' \in Seq(Frames) /\ FewerMarks(inbox, inbox') /\ inbox' \in Seq(GoodFrames)
  <2>1. CASE inbox' = inbox
    BY <1>a, <2>1, FewerBySame DEF InboxOK
  <2>2. CASE inbox # <<>> /\ inbox' = Tail(inbox)
    BY <1>a, <2>2, FewerByTail DEF InboxOK
  <2>3. QED
    BY <2>1, <2>2 DEF BoardPasses
<1>3. InboxOK'
  BY <1>b, <1>2, SubsetSeq DEF InboxOK
<1>4. OneAnswerOut'
  BY <1>a, <1>1, <1>2, FewerKeeps
<1>5. NobodySpeaks'
  BY <1>a, <1>1 DEF NobodySpeaks
<1>6. CallInv'
  BY <1>a, CallsStayOK
<1>7. QED
  BY <1>1, <1>2, <1>3, <1>4, <1>5, <1>6 DEF Kept, LinesTypeOK, LineInv

\* What the lemmas below take from the invariant.
LEMMA InvParts ==
  ASSUME Inv
  PROVE  /\ inbox \in Seq(Frames) /\ line \in Seq(Answers) /\ inbox \in Seq(GoodFrames)
         /\ OneAnswerOut /\ NobodySpeaks /\ HandlerOK
         /\ \A c \in Calls : CallOK(c)
         /\ asks \in Asks /\ requests \subseteq Calls /\ executed \subseteq Calls
         /\ client \in [Calls -> {"idle", "waiting", "gave_up", "true", "false"}]
         /\ \A c \in Calls : asks[c].service \in AllServices
BY AsksAssumption DEF Inv, TypeOK, LinesTypeOK, LineInv, InboxOK, CallInv

LEMMA RespondedIs ==
  ASSUME Inv, NEW c \in Calls, NEW success \in BOOLEAN, client' = Responded(c, success)
  PROVE  /\ \A d \in Calls : d # c => client'[d] = client[d]
         /\ client[c] = "gave_up" => client'[c] = "gave_up"
         /\ client[c] = "waiting" => client'[c] = IF success THEN "true" ELSE "false"
BY InvParts DEF Responded

LEMMA OpeningKeeps ==
  ASSUME Inv, OpenPort
  PROVE  Kept
<1>. DEFINE f == Frame("query", None)
<1>1. f \in Frames /\ FrameOK(f) /\ f.cmd \notin AllServices
  BY DEF Frame, Frames, Commands, AllServices, FrameOK
<1>2. /\ inbox' = <<f>> /\ line' = <<>> /\ driver' # "reply" /\ port' = "open"
      /\ UNCHANGED <<asks, client, requests, current, executed>>
  BY DEF OpenPort, callVars
<1>3. GoodFrames \subseteq GoodFrames'
  BY <1>2, FramesStayOK
<1>4. Marks(inbox') = {} /\ Marks(line') = {} /\ AtMostOne(inbox') /\ AtMostOne(line')
  BY <1>1, <1>2 DEF Marks, AtMostOne
<1>5. OneAnswerOut'
  BY <1>2, <1>4 DEF OneAnswerOut
<1>6. InboxOK'
  <2>1. f \in GoodFrames'
    BY <1>1, <1>3 DEF GoodFrames
  <2>2. QED
    BY <1>2, <2>1 DEF InboxOK
<1>7. CallInv'
  BY <1>2, CallsStayOK DEF Inv
<1>8. LinesTypeOK' /\ NobodySpeaks'
  BY <1>1, <1>2 DEF LinesTypeOK, NobodySpeaks
<1>9. QED
  BY <1>5, <1>6, <1>7, <1>8 DEF Kept, LineInv

\* Steps that leave the port shut: what is on its way to the board stays good.
LEMMA ShutKeeps ==
  ASSUME Inv, port' # "open", line' = <<>>,
         inbox' \in Seq(GoodFrames), inbox' \in Seq(Frames),
         UNCHANGED <<asks, client, executed>>, requests' \subseteq requests,
         \A c \in requests' : c \in requests,
         driver' = "reply" => driver = "reply" /\ UNCHANGED <<current, requests>>
  PROVE  Kept
<1>1. GoodFrames \subseteq GoodFrames'
  BY FramesStayOK
<1>2. InboxOK'
  BY <1>1, SubsetSeq DEF InboxOK
<1>3. \A c \in Calls : CallOK(c)'
  BY InvParts DEF CallOK, Valid, ByteOf
<1>4. HandlerOK'
  BY InvParts DEF HandlerOK
<1>5. QED
  BY <1>2, <1>3, <1>4 DEF Kept, LineInv, LinesTypeOK, OneAnswerOut, NobodySpeaks, CallInv

LEMMA EndingKeeps ==
  ASSUME Inv, Shutdown \/ ReplyMissing \/ Unplugged
  PROVE  Kept
<1>1. CASE Shutdown
  <2>a. inbox \in Seq(Frames) /\ inbox \in Seq(GoodFrames)
    BY InvParts
  <2>. DEFINE f == Frame("report_off", None)
  <2>1. f \in Frames /\ FrameOK(f)
    BY DEF Frame, Frames, Commands, AllServices, FrameOK
  <2>2. f \in GoodFrames
    BY <2>1 DEF GoodFrames
  <2>3. inbox' = inbox \/ inbox' = inbox \o <<f>>
    BY <1>1 DEF Shutdown, Written
  <2>. HIDE DEF f
  <2>4. inbox' \in Seq(GoodFrames) /\ inbox' \in Seq(Frames)
    BY SMTT(20), <2>a, <2>1, <2>2, <2>3, AppendPlaces
  <2>5. QED
    BY <1>1, <2>4, ShutKeeps DEF Shutdown, NodeEnds, boardVars
<1>2. CASE ReplyMissing
  BY <1>2, InvParts, ShutKeeps DEF ReplyMissing, NodeEnds, boardVars
<1>3. CASE Unplugged
  BY <1>3, ShutKeeps DEF Unplugged, callVars
<1>4. QED
  BY <1>1, <1>2, <1>3

LEMMA HandlingKeeps ==
  ASSUME Inv, NEW c \in Calls, HandleRequest(c)
  PROVE  Kept
<1>a. /\ inbox \in Seq(Frames) /\ line \in Seq(Answers) /\ inbox \in Seq(GoodFrames)
      /\ OneAnswerOut /\ NobodySpeaks /\ requests \subseteq Calls
      /\ asks[c].service \in AllServices /\ \A d \in Calls : CallOK(d)
  BY InvParts
<1>b. /\ driver = "spin" /\ c \in requests /\ requests' = requests \ {c}
      /\ UNCHANGED <<asks, port, line, executed>>
  BY DEF HandleRequest, boardVars
<1>c. c \notin executed /\ client[c] \in Unanswered
  BY <1>a, <1>b DEF CallOK
<1>1. CASE Valid(c)
  <2>. DEFINE f == Frame(asks[c].service, c)
  <2>1. /\ inbox' = Written(<<f>>) /\ driver' = "reply" /\ current' = c /\ client' = client
    BY <1>1 DEF HandleRequest
  <2>2. GoodFrames \subseteq GoodFrames'
    BY <1>b, <2>1, FramesStayOK
  <2>3. f \in Frames /\ f.cmd = asks[c].service /\ f.of = c
    BY <1>a DEF Frame, Frames, Commands
  <2>4. f \in GoodFrames'
    <3>1. ASSUME NEW g \in Frames, g.cmd = asks[c].service, g.of = c
          PROVE  g \in GoodFrames'
      <4>1. FrameOK(g)'
        BY <1>a, <1>b, <1>c, <1>1, <2>1, <3>1 DEF FrameOK, Valid, ByteOf, AllServices
      <4>2. QED
        BY <4>1 DEF GoodFrames
    <3>2. QED
      BY <2>3, <3>1
  <2>. HIDE DEF f
  <2>5. (port # "open" /\ inbox' = inbox) \/ (port = "open" /\ inbox' = Append(inbox, f))
    BY <1>a, <2>1, <2>3, AppendPlaces DEF Written
  <2>6. inbox' \in Seq(Frames) /\ inbox' \in Seq(GoodFrames')
    <3>1. inbox \in Seq(GoodFrames')
      BY <1>a, <2>2, SubsetSeq
    <3>2. CASE inbox' = inbox
      BY <1>a, <3>1, <3>2
    <3>3. CASE inbox' = Append(inbox, f)
      <4>1. inbox' \in Seq(Frames)
        BY <1>a, <2>3, <3>3, AppendPlaces
      <4>2. inbox' \in Seq(GoodFrames')
        BY <2>4, <3>1, <3>3, AppendPlaces
      <4>3. QED
        BY <4>1, <4>2
    <3>4. QED
      BY <2>5, <3>2, <3>3
  <2>7. ASSUME port = "open"
        PROVE  /\ Marks(line') = {} /\ AtMostOne(inbox') /\ AtMostOne(line')
               /\ \A i \in Marks(inbox') : inbox'[i] = f
    <3>1. Marks(inbox) = {} /\ Marks(line) = {} /\ AtMostOne(line)
      BY <1>a, <1>b, <2>7 DEF OneAnswerOut
    <3>2. inbox' = Append(inbox, f)
      BY <2>5, <2>7
    <3>3. AtMostOne(inbox') /\ \A i \in Marks(inbox') : inbox'[i] = f
      BY <1>a, <2>3, <3>1, <3>2, AppendMarks
    <3>4. QED
      BY <1>b, <3>1, <3>3
  <2>8. OneAnswerOut'
    BY <1>b, <1>c, <2>1, <2>3, <2>7 DEF OneAnswerOut
  <2>9. \A d \in Calls : CallOK(d)'
    BY <1>a, <1>b, <2>1 DEF CallOK, Valid, ByteOf
  <2>10. HandlerOK'
    BY <1>a, <1>b, <1>c, <2>1 DEF HandlerOK
  <2>11. NobodySpeaks'
    BY <1>a, <1>b DEF NobodySpeaks
  <2>12. InboxOK'
    BY <2>6 DEF InboxOK
  <2>13. QED
    BY <1>a, <1>b, <2>6, <2>8, <2>9, <2>10, <2>11, <2>12 DEF Kept, LineInv, LinesTypeOK, CallInv
<1>2. CASE ~Valid(c)
  <2>1. client' = Responded(c, FALSE) /\ UNCHANGED <<inbox, driver, current>>
    BY <1>2 DEF HandleRequest
  <2>2. \A d \in Calls : d # c => client'[d] = client[d]
    BY <2>1, RespondedIs
  <2>3. /\ client[c] = "gave_up" => client'[c] = "gave_up"
        /\ client[c] = "waiting" => client'[c] = "false"
    BY <2>1, RespondedIs
  <2>4. GoodFrames \subseteq GoodFrames'
    BY <1>b, <2>2, FramesStayOK
  <2>5. InboxOK'
    BY <1>a, <2>1, <2>4, SubsetSeq DEF InboxOK
  <2>6. OneAnswerOut' /\ NobodySpeaks' /\ HandlerOK'
    BY <1>a, <1>b, <2>1 DEF OneAnswerOut, NobodySpeaks, HandlerOK
  <2>7. ASSUME NEW d \in Calls PROVE CallOK(d)'
    <3>1. CASE d = c
      BY <1>a, <1>b, <1>c, <2>3, <3>1 DEF CallOK, Unanswered
    <3>2. CASE d # c
      BY <1>a, <1>b, <2>2, <3>2 DEF CallOK, Valid, ByteOf
    <3>3. QED
      BY <3>1, <3>2
  <2>8. QED
    BY <1>a, <1>b, <2>1, <2>5, <2>6, <2>7 DEF Kept, LineInv, LinesTypeOK, CallInv
<1>3. QED
  BY <1>1, <1>2

LEMMA ReplyKeeps ==
  ASSUME Inv, ReplyArrives
  PROVE  Kept
<1>a. /\ inbox \in Seq(Frames) /\ line \in Seq(Answers) /\ inbox \in Seq(GoodFrames)
      /\ OneAnswerOut /\ NobodySpeaks /\ HandlerOK
      /\ \A d \in Calls : CallOK(d) /\ asks[d].service \in AllServices
  BY InvParts
<1>b. /\ driver = "reply" /\ port = "open" /\ line # <<>>
      /\ Head(line).cmd = asks[current].service /\ line' = Tail(line)
      /\ client' = Responded(current, Head(line).ok)
      /\ driver' = "spin" /\ current' = None
      /\ UNCHANGED <<asks, requests, port, inbox, executed>>
  BY DEF ReplyArrives, Receives, boardVars
<1>c. current \in Calls /\ current \notin requests /\ client[current] \in Unanswered
  BY <1>a, <1>b DEF HandlerOK
<1>1. Head(line) = line[1] /\ line' \in Seq(Answers) /\ line[1].ok \in BOOLEAN
  <2>1. Head(line) = line[1] /\ Head(line) \in Answers /\ line' \in Seq(Answers)
    BY <1>a, <1>b, TailPlaces
  <2>2. QED
    BY <2>1 DEF Answers
<1>2. Head(line).cmd \in AllServices
  BY <1>a, <1>b, <1>c
<1>3. 1 \in Marks(line) /\ (AtMostOne(line) => Marks(line') = {} /\ AtMostOne(line'))
  BY <1>a, <1>b, <1>2, TailMarks
<1>4. /\ line[1].ok = (current \in executed) /\ Marks(inbox) = {} /\ Marks(line') = {}
      /\ AtMostOne(line') /\ AtMostOne(inbox)
  BY <1>a, <1>b, <1>3 DEF OneAnswerOut
<1>5. OneAnswerOut'
  BY <1>b, <1>4 DEF OneAnswerOut
<1>6. /\ \A d \in Calls : d # current => client'[d] = client[d]
      /\ client[current] = "gave_up" => client'[current] = "gave_up"
      /\ client[current] = "waiting" =>
           client'[current] = IF line[1].ok THEN "true" ELSE "false"
  BY <1>b, <1>c, <1>1, RespondedIs
<1>7. InboxOK'
  <2>1. ASSUME NEW i \in 1..Len(inbox) PROVE inbox[i] \in GoodFrames'
    <3>1. inbox[i] \in GoodFrames /\ inbox[i].cmd \notin AllServices
      BY <1>a, <1>4 DEF Marks
    <3>2. ASSUME NEW f \in GoodFrames, f.cmd \notin AllServices PROVE f \in GoodFrames'
      BY <3>2 DEF GoodFrames, FrameOK
    <3>3. QED
      BY <3>1, <3>2
  <2>2. inbox \in Seq(GoodFrames')
    BY <1>a, <2>1
  <2>3. QED
    BY <1>b, <2>2 DEF InboxOK
<1>8. ASSUME NEW d \in Calls PROVE CallOK(d)'
  <2>1. CASE d = current
    BY <1>a, <1>b, <1>c, <1>1, <1>4, <1>6, <2>1 DEF CallOK, Unanswered, Valid, ByteOf
  <2>2. CASE d # current
    BY <1>a, <1>b, <1>6, <2>2 DEF CallOK, Valid, ByteOf
  <2>3. QED
    BY <2>1, <2>2
<1>9. HandlerOK' /\ NobodySpeaks'
  BY <1>b DEF HandlerOK, NobodySpeaks
<1>10. QED
  BY <1>a, <1>b, <1>1, <1>5, <1>7, <1>8, <1>9 DEF Kept, LineInv, LinesTypeOK, CallInv

LEMMA CallingKeeps ==
  ASSUME Inv, NEW c \in Calls, Call(c) \/ CallTimesOut(c)
  PROVE  Kept
<1>a. /\ inbox \in Seq(Frames) /\ line \in Seq(Answers) /\ inbox \in Seq(GoodFrames)
      /\ OneAnswerOut /\ NobodySpeaks /\ HandlerOK /\ \A d \in Calls : CallOK(d)
      /\ client \in [Calls -> {"idle", "waiting", "gave_up", "true", "false"}]
  BY InvParts
<1>b. /\ UNCHANGED <<asks, driver, current, port, inbox, line, executed>>
      /\ client[c] = "idle" \/ client[c] = "waiting"
      /\ client'[c] \in Unanswered
      /\ \A d \in Calls : d # c => client'[d] = client[d] /\ (d \in requests' <=> d \in requests)
      /\ client[c] = "idle" => c \in requests'
      /\ client[c] = "waiting" => (c \in requests' <=> c \in requests)
  BY <1>a DEF Call, CallTimesOut, Unanswered, nodeVars, boardVars
<1>1. ASSUME NEW f \in GoodFrames PROVE f \in GoodFrames'
  BY <1>b DEF GoodFrames, FrameOK, Unanswered, Valid, ByteOf
<1>2. InboxOK'
  BY <1>a, <1>b, <1>1, SubsetSeq DEF InboxOK
<1>3. OneAnswerOut' /\ NobodySpeaks'
  BY <1>a, <1>b DEF OneAnswerOut, NobodySpeaks
<1>4. HandlerOK'
  BY <1>a, <1>b DEF HandlerOK, Unanswered
<1>5. ASSUME NEW d \in Calls PROVE CallOK(d)'
  <2>1. CASE d = c
    BY <1>a, <1>b, <2>1 DEF CallOK, Unanswered, Valid, ByteOf
  <2>2. CASE d # c
    BY <1>a, <1>b, <2>2 DEF CallOK, Valid, ByteOf
  <2>3. QED
    BY <2>1, <2>2
<1>6. QED
  BY <1>a, <1>b, <1>2, <1>3, <1>4, <1>5 DEF Kept, LineInv, LinesTypeOK, CallInv

LEMMA ServingKeeps ==
  ASSUME Inv, NEW s \in AllServices, BoardServes(s)
  PROVE  Kept
<1>a. /\ inbox \in Seq(Frames) /\ line \in Seq(Answers) /\ inbox \in Seq(GoodFrames)
      /\ OneAnswerOut /\ NobodySpeaks /\ HandlerOK /\ \A d \in Calls : CallOK(d)
  BY InvParts
<1>b. /\ UNCHANGED <<asks, client, requests, driver, current, port>>
      /\ inbox # <<>> /\ Head(inbox).cmd = s /\ inbox' = Tail(inbox)
  BY DEF BoardServes, BoardTakes, callVars, nodeVars
<1>c. PICK ok \in BOOLEAN :
        /\ executed' = IF ok THEN executed \union {Head(inbox).of} ELSE executed
        /\ Answered(s, ok)
  BY DEF BoardServes
<1>. DEFINE c == Head(inbox).of
            e == Answer(s, ok)
<1>1. /\ c \in Calls \ requests /\ client[c] \in Unanswered /\ s = asks[c].service /\ Valid(c)
  <2>1. Head(inbox) \in GoodFrames
    BY <1>a, <1>b, TailPlaces
  <2>2. QED
    BY <1>b, <2>1 DEF GoodFrames, FrameOK
<1>2. e \in Answers /\ e.cmd = s /\ e.ok = ok
  BY DEF Answer, Answers, Commands
<1>3. inbox' \in Seq(Frames) /\ inbox' \in Seq(GoodFrames)
  <2>1. inbox' \in Seq(Frames)
    BY <1>a, <1>b, TailPlaces
  <2>2. inbox' \in Seq(GoodFrames)
    BY <1>a, <1>b, TailPlaces
  <2>3. QED
    BY <2>1, <2>2
<1>4. Head(inbox) = inbox[1] /\ 1 \in Marks(inbox) /\ (AtMostOne(inbox) => Marks(inbox') = {})
  <2>1. Head(inbox) = inbox[1]
    BY <1>a, <1>b, TailPlaces
  <2>2. QED
    BY <1>a, <1>b, <2>1, TailMarks
<1>. HIDE DEF e
<1>5. ASSUME port = "open"
      PROVE  /\ driver = "reply" /\ c = current /\ current \notin executed
             /\ Marks(inbox') = {} /\ Marks(line) = {} /\ AtMostOne(line)
  BY <1>a, <1>4, <1>5 DEF OneAnswerOut
<1>6. line' = line \/ (port = "open" /\ line' = Append(line, e))
  BY <1>c DEF Answered, e
<1>7. line' \in Seq(Answers)
  BY <1>a, <1>2, <1>6, AppendPlaces
<1>8. OneAnswerOut'
  <2>. SUFFICES ASSUME port' = "open" PROVE OneAnswerOut'
    BY DEF OneAnswerOut
  <2>1. /\ driver' = "reply" /\ c = current /\ current \notin executed
        /\ Marks(inbox') = {} /\ Marks(line) = {} /\ AtMostOne(line)
    BY <1>b, <1>5
  <2>2. AtMostOne(line') /\ \A i \in Marks(line') : line'[i] = e
    <3>1. CASE line' = line
      BY <2>1, <3>1
    <3>2. CASE line' = Append(line, e)
      BY <1>a, <1>2, <2>1, <3>2, AppendMarks
    <3>3. QED
      BY <1>6, <3>1, <3>2
  <2>3. ok = (current \in executed')
    BY <1>c, <2>1
  <2>4. AtMostOne(inbox')
    BY <2>1 DEF AtMostOne
  <2>5. \A i \in Marks(line') : line'[i].cmd = asks'[current'].service
                                /\ line'[i].ok = (current' \in executed')
    BY <1>b, <1>1, <1>2, <2>1, <2>2, <2>3
  <2>6. QED
    BY <2>1, <2>2, <2>4, <2>5 DEF OneAnswerOut
<1>9. NobodySpeaks'
  BY <1>a, <1>b, <1>6 DEF NobodySpeaks
<1>10. InboxOK'
  <2>1. GoodFrames \subseteq GoodFrames'
    BY <1>b, FramesStayOK
  <2>2. QED
    BY <1>3, <2>1, SubsetSeq DEF InboxOK
<1>11. ASSUME NEW d \in Calls PROVE CallOK(d)'
  <2>1. d \in executed' => d \in executed \/ (d \notin requests /\ client[d] \in Unanswered /\ Valid(d))
    BY <1>c, <1>1
  <2>2. d \in executed => d \in executed'
    BY <1>c
  <2>3. QED
    BY <1>a, <1>b, <2>1, <2>2 DEF CallOK, Unanswered, Valid, ByteOf
<1>12. HandlerOK'
  BY <1>a, <1>b DEF HandlerOK
<1>13. QED
  BY <1>3, <1>7, <1>8, <1>9, <1>10, <1>11, <1>12 DEF Kept, LineInv, LinesTypeOK, CallInv
-----------------------------------------------------------------------------
(***************************************************************************)
(* The types, the invariant and the theorems.                              *)
(***************************************************************************)

\* A full queue stays within its depth.
LEMMA KeepLastFits ==
  ASSUME NEW s \in Seq(1..MaxSpeeds), Len(s) <= QueueDepth, NEW n \in 1..MaxSpeeds
  PROVE  /\ KeepLast(Append(s, n)) \in Seq(1..MaxSpeeds)
         /\ Len(KeepLast(Append(s, n))) <= QueueDepth
<1>1. /\ Append(s, n) \in Seq(1..MaxSpeeds) /\ Len(Append(s, n)) = Len(s) + 1
      /\ Tail(Append(s, n)) \in Seq(1..MaxSpeeds) /\ Len(Tail(Append(s, n))) = Len(s)
      /\ Len(s) \in Nat
  OBVIOUS
<1>2. CASE Len(Append(s, n)) > QueueDepth
  BY <1>1, <1>2 DEF KeepLast
<1>3. CASE ~(Len(Append(s, n)) > QueueDepth)
  <2>. DEFINE m == Len(Append(s, n))
  <2>1. m \in Nat /\ QueueDepth \in Nat /\ ~(m > QueueDepth)
    BY <1>1, <1>3, DriverBoundsAssumption
  <2>. HIDE DEF m
  <2>2. m <= QueueDepth
    BY <2>1
  <2>3. QED
    BY <1>1, <1>3, <2>2 DEF KeepLast, m
<1>4. QED
  BY <1>2, <1>3

FramesTyped == /\ \A i \in 1..Len(inbox) : inbox[i].cmd \in Commands
               /\ \A i \in 1..Len(line) : line[i].cmd \in Commands \union {"telemetry"}

LEMMA FramesHaveTypes == LinesTypeOK => FramesTyped
<1>. SUFFICES ASSUME LinesTypeOK PROVE FramesTyped
  OBVIOUS
<1>1. ASSUME NEW i \in 1..Len(inbox) PROVE inbox[i].cmd \in Commands
  <2>1. inbox[i] \in Frames
    BY DEF LinesTypeOK
  <2>2. QED
    BY <2>1 DEF Frames
<1>2. ASSUME NEW i \in 1..Len(line) PROVE line[i].cmd \in Commands \union {"telemetry"}
  <2>1. line[i] \in Answers
    BY DEF LinesTypeOK
  <2>2. QED
    BY <2>1 DEF Answers
<1>3. QED
  BY <1>1, <1>2 DEF FramesTyped

NodeTypeOK ==
  /\ driver \in Places
  /\ current \in Calls \union {None} /\ (current # None) = (driver = "reply")
  /\ port \in {"closed", "open", "gone"} /\ control_timer \in BOOLEAN
  /\ casualty \in Calls \union {None} /\ starts \in 1..MaxStarts

CallTypeOK ==
  /\ asks \in Asks /\ requests \subseteq Calls /\ executed \subseteq Calls
  /\ client \in [Calls -> {"idle", "waiting", "gave_up", "true", "false"}]

SpeedTypeOK ==
  /\ published \in 0..MaxSpeeds /\ heard \in 0..published
  /\ cmd_vel \in Seq(1..MaxSpeeds) /\ Len(cmd_vel) <= QueueDepth
  /\ board_speed \in 0..MaxSpeeds /\ missed \in 0..MaxSpeeds

BoardTypeOK ==
  powered \in BOOLEAN /\ reporting \in BOOLEAN /\ losses \in 0..MaxLosses

LEMMA TypeParts ==
  TypeOK <=> NodeTypeOK /\ CallTypeOK /\ SpeedTypeOK /\ BoardTypeOK /\ FramesTyped
<1>1. TypeOK => NodeTypeOK
  BY DEF TypeOK, NodeTypeOK
<1>2. TypeOK => CallTypeOK
  BY DEF TypeOK, CallTypeOK
<1>3. TypeOK => SpeedTypeOK
  BY Zenon DEF TypeOK, SpeedTypeOK
<1>4. TypeOK => BoardTypeOK
  BY DEF TypeOK, BoardTypeOK
<1>5. TypeOK => FramesTyped
  BY DEF TypeOK, FramesTyped
<1>6. NodeTypeOK /\ CallTypeOK /\ SpeedTypeOK /\ BoardTypeOK /\ FramesTyped => TypeOK
  BY Zenon DEF TypeOK, NodeTypeOK, CallTypeOK, SpeedTypeOK, BoardTypeOK, FramesTyped
<1>7. QED
  BY <1>1, <1>2, <1>3, <1>4, <1>5, <1>6

LEMMA NodeTypeStep ==
  ASSUME Inv, Next \/ UNCHANGED vars
  PROVE  NodeTypeOK'
<1>a. NodeTypeOK
  BY TypeParts DEF Inv
<1>. SUFFICES ASSUME ~UNCHANGED <<driver, current, port, control_timer, casualty, starts>>
              PROVE  NodeTypeOK'
  BY <1>a DEF NodeTypeOK
<1>. USE <1>a DEF NodeTypeOK, nodeVars, callVars, boardVars, pubVars, NodeGoesOn, NodeEnds, Places, Waits
<1>1. CASE OpenPort \/ OpenFails \/ PowerUnknown \/ PowerWaits \/ Control \/ ReadData
  BY <1>1 DEF OpenPort, OpenFails, PowerUnknown, PowerWaits, Control, ReadData
<1>2. CASE PowerState \/ PowerOnAnswered
  BY <1>2 DEF PowerState, PowerOnAnswered, StartControl
<1>3. CASE \E c \in Calls : HandleRequest(c)
  BY <1>3, NoneAssumption DEF HandleRequest
<1>4. CASE ReplyArrives \/ ReplyWaits \/ ReplyMissing
  BY <1>4 DEF ReplyArrives, ReplyWaits, ReplyMissing
<1>5. CASE CmdCallback \/ PublishSpeed
  BY <1>5 DEF CmdCallback, PublishSpeed
<1>6. CASE Shutdown \/ Unplugged
  BY <1>6 DEF Shutdown, Unplugged
<1>7. CASE Start
  <2>1. driver = "down" /\ starts < MaxStarts /\ starts' = starts + 1 /\ driver' = "constructor"
        /\ UNCHANGED <<current, port, control_timer, casualty>>
    BY <1>7 DEF Start
  <2>2. starts' \in 1..MaxStarts
    BY <2>1, DriverBoundsAssumption
  <2>3. QED
    BY <2>1, <2>2
<1>8. CASE \E c \in Calls : Call(c) \/ CallTimesOut(c)
  BY <1>8 DEF Call, CallTimesOut
<1>9. CASE BoardStep \/ CommandLost \/ BoardSendsTelemetry
  BY <1>9 DEF BoardStep, BoardQueried, BoardPowers, BoardReports, BoardMoves, BoardServes,
              BoardTakes, CommandLost, BoardSendsTelemetry
<1>10. CASE UNCHANGED vars
  BY <1>10 DEF vars
<1>11. QED
  BY <1>1, <1>2, <1>3, <1>4, <1>5, <1>6, <1>7, <1>8, <1>9, <1>10 DEF Next, DriverStep, Constructor

LEMMA CallTypeStep ==
  ASSUME Inv, Next \/ UNCHANGED vars
  PROVE  CallTypeOK'
<1>a. CallTypeOK
  BY TypeParts DEF Inv
<1>. SUFFICES ASSUME ~UNCHANGED <<asks, client, requests, executed>>
              PROVE  CallTypeOK'
  BY <1>a DEF CallTypeOK
<1>. USE <1>a DEF CallTypeOK, nodeVars, callVars, boardVars, pubVars, NodeGoesOn, NodeEnds
<1>1. CASE OpenPort \/ OpenFails \/ PowerUnknown \/ PowerWaits \/ Control \/ ReadData
  BY <1>1 DEF OpenPort, OpenFails, PowerUnknown, PowerWaits, Control, ReadData
<1>2. CASE PowerState \/ PowerOnAnswered \/ CmdCallback \/ PublishSpeed
  BY <1>2 DEF PowerState, PowerOnAnswered, StartControl, CmdCallback, PublishSpeed
<1>3. ASSUME NEW c \in Calls, NEW success
      PROVE  Responded(c, success) \in [Calls -> {"idle", "waiting", "gave_up", "true", "false"}]
  BY DEF Responded
<1>4. ASSUME NEW c \in Calls, HandleRequest(c) PROVE CallTypeOK'
  BY <1>3, <1>4 DEF HandleRequest
<1>5. CASE ReplyArrives
  <2>1. current \in Calls
    BY <1>5 DEF ReplyArrives, Inv, CallInv, HandlerOK
  <2>2. QED
    BY <1>3, <1>5, <2>1 DEF ReplyArrives
<1>6. CASE ReplyWaits \/ ReplyMissing \/ Shutdown \/ Unplugged \/ Start
  BY <1>6 DEF ReplyWaits, ReplyMissing, Shutdown, Unplugged, Start
<1>7. CASE \E c \in Calls : Call(c) \/ CallTimesOut(c)
  BY <1>7 DEF Call, CallTimesOut
<1>8. CASE BoardQueried \/ BoardPowers \/ BoardReports \/ BoardMoves \/ CommandLost
           \/ BoardSendsTelemetry
  BY <1>8 DEF BoardQueried, BoardPowers, BoardReports, BoardMoves, BoardTakes, CommandLost,
              BoardSendsTelemetry
<1>9. ASSUME NEW s \in AllServices, BoardServes(s) PROVE CallTypeOK'
  <2>1. inbox # <<>> /\ Head(inbox).cmd = s /\ UNCHANGED callVars
    BY <1>9 DEF BoardServes, BoardTakes
  <2>2. Head(inbox).of \in Calls
    BY <2>1, InvParts, TailPlaces DEF GoodFrames, FrameOK
  <2>3. executed' = executed \union {Head(inbox).of} \/ executed' = executed
    BY <1>9 DEF BoardServes
  <2>4. QED
    BY <2>1, <2>2, <2>3
<1>10. CASE UNCHANGED vars
  BY <1>10 DEF vars
<1>11. QED
  BY <1>1, <1>2, <1>4, <1>5, <1>6, <1>7, <1>8, <1>9, <1>10
     DEF Next, DriverStep, Constructor, BoardStep

LEMMA SpeedTypeStep ==
  ASSUME Inv, Next \/ UNCHANGED vars
  PROVE  SpeedTypeOK'
<1>a. SpeedTypeOK
  BY TypeParts DEF Inv
<1>b. /\ 0 \in 0..MaxSpeeds /\ \A n \in 1..MaxSpeeds : n \in 0..MaxSpeeds
      /\ Len(<<>>) <= QueueDepth /\ <<>> \in Seq(1..MaxSpeeds)
      /\ 0 \in 0..published
  BY <1>a, DriverBoundsAssumption DEF SpeedTypeOK
<1>c. inbox # <<>> /\ Head(inbox).cmd = "speed" => Head(inbox).of \in 1..MaxSpeeds
  BY InvParts, TailPlaces DEF GoodFrames, FrameOK
<1>d. SpeedTypeOK' <=> /\ published' \in 0..MaxSpeeds /\ heard' \in 0..published'
                       /\ cmd_vel' \in Seq(1..MaxSpeeds) /\ Len(cmd_vel') <= QueueDepth
                       /\ board_speed' \in 0..MaxSpeeds /\ missed' \in 0..MaxSpeeds
  BY DEF SpeedTypeOK
<1>e. ASSUME UNCHANGED <<published, heard, cmd_vel, board_speed, missed>> PROVE SpeedTypeOK'
  BY <1>a, <1>e DEF SpeedTypeOK
<1>. USE DEF nodeVars, callVars, boardVars, pubVars, NodeGoesOn, NodeEnds
<1>1. CASE OpenPort
  <2>1. board_speed' = 0 /\ UNCHANGED <<published, heard, cmd_vel, missed>>
    BY <1>1 DEF OpenPort
  <2>2. QED
    BY <1>a, <1>b, <1>d, <2>1 DEF SpeedTypeOK
<1>2. CASE OpenFails \/ PowerState \/ PowerOnAnswered \/ PowerUnknown \/ PowerWaits \/ Control \/ ReadData
  BY <1>2, <1>e DEF OpenFails, PowerState, PowerOnAnswered, PowerUnknown, PowerWaits, Control, ReadData
<1>3. CASE (\E c \in Calls : HandleRequest(c)) \/ ReplyArrives \/ ReplyWaits
  BY <1>3, <1>e DEF HandleRequest, ReplyArrives, ReplyWaits
<1>4. CASE ReplyMissing \/ Shutdown
  <2>1. cmd_vel' = <<>> /\ UNCHANGED <<published, heard, board_speed, missed>>
    BY <1>4 DEF ReplyMissing, Shutdown
  <2>2. QED
    BY <1>a, <1>b, <1>d, <2>1 DEF SpeedTypeOK
<1>5. CASE CmdCallback
  <2>1. /\ cmd_vel # <<>> /\ cmd_vel' = Tail(cmd_vel)
        /\ UNCHANGED <<published, heard, board_speed, missed>>
    BY <1>5 DEF CmdCallback
  <2>2. cmd_vel' \in Seq(1..MaxSpeeds) /\ Len(cmd_vel') = Len(cmd_vel) - 1 /\ Len(cmd_vel) \in Nat
    BY <1>a, <2>1, TailPlaces DEF SpeedTypeOK
  <2>. DEFINE n == Len(cmd_vel)
              k == Len(cmd_vel')
  <2>3. n \in Nat /\ k = n - 1 /\ n <= QueueDepth
    BY <1>a, <2>2 DEF SpeedTypeOK
  <2>. HIDE DEF n, k
  <2>4. k <= QueueDepth
    BY <2>3, DriverBoundsAssumption
  <2>5. QED
    BY <1>a, <1>d, <2>1, <2>2, <2>4 DEF SpeedTypeOK, k
<1>6. CASE PublishSpeed
  <2>1. /\ published < MaxSpeeds /\ published' = published + 1
        /\ UNCHANGED <<board_speed, missed>>
        /\ \/ UNCHANGED <<cmd_vel, heard>>
           \/ cmd_vel' = KeepLast(Append(cmd_vel, published')) /\ heard' = published'
    BY <1>6 DEF PublishSpeed
  <2>2. published' \in 1..MaxSpeeds /\ published' \in 0..MaxSpeeds
        /\ published' \in 0..published' /\ (heard \in 0..published => heard \in 0..published')
    BY <1>a, <2>1, DriverBoundsAssumption DEF SpeedTypeOK
  <2>3. cmd_vel' \in Seq(1..MaxSpeeds) /\ Len(cmd_vel') <= QueueDepth
    <3>1. CASE cmd_vel' = cmd_vel
      BY <1>a, <3>1 DEF SpeedTypeOK
    <3>2. CASE cmd_vel' = KeepLast(Append(cmd_vel, published'))
      BY <1>a, <2>2, <3>2, KeepLastFits DEF SpeedTypeOK
    <3>3. QED
      BY <2>1, <3>1, <3>2
  <2>4. heard' \in 0..published'
    BY <1>a, <2>1, <2>2 DEF SpeedTypeOK
  <2>5. QED
    BY <1>a, <1>d, <2>1, <2>2, <2>3, <2>4 DEF SpeedTypeOK
<1>7. CASE Start
  <2>1. heard' = 0 /\ UNCHANGED <<published, cmd_vel, board_speed, missed>>
    BY <1>7 DEF Start
  <2>2. QED
    BY <1>a, <1>b, <1>d, <2>1 DEF SpeedTypeOK
<1>8. CASE Unplugged \/ \E c \in Calls : Call(c) \/ CallTimesOut(c)
  BY <1>8, <1>e DEF Unplugged, Call, CallTimesOut
<1>9. CASE BoardQueried \/ BoardPowers \/ BoardReports \/ BoardSendsTelemetry \/ \E s \in AllServices : BoardServes(s)
  BY <1>9, <1>e DEF BoardQueried, BoardPowers, BoardReports, BoardSendsTelemetry, BoardServes, BoardTakes
<1>10. CASE BoardMoves
  <2>1. /\ inbox # <<>> /\ Head(inbox).cmd = "speed" /\ board_speed' = Head(inbox).of
        /\ UNCHANGED <<published, heard, cmd_vel, missed>>
    BY <1>10 DEF BoardMoves, BoardTakes
  <2>2. QED
    BY <1>a, <1>b, <1>c, <1>d, <2>1 DEF SpeedTypeOK
<1>11. CASE CommandLost
  <2>1. /\ inbox # <<>> /\ missed' = IF Head(inbox).cmd = "speed" THEN Head(inbox).of ELSE missed
        /\ UNCHANGED <<published, heard, cmd_vel, board_speed>>
    BY <1>11 DEF CommandLost
  <2>2. missed' \in 0..MaxSpeeds
    BY <1>a, <1>b, <1>c, <2>1 DEF SpeedTypeOK
  <2>3. QED
    BY <1>a, <1>d, <2>1, <2>2 DEF SpeedTypeOK
<1>12. CASE UNCHANGED vars
  BY <1>12, <1>e DEF vars
<1>13. QED
  BY <1>1, <1>2, <1>3, <1>4, <1>5, <1>6, <1>7, <1>8, <1>9, <1>10, <1>11, <1>12
     DEF Next, DriverStep, Constructor, BoardStep

LEMMA BoardTypeStep ==
  ASSUME Inv, Next \/ UNCHANGED vars
  PROVE  BoardTypeOK'
<1>a. BoardTypeOK
  BY TypeParts DEF Inv
<1>b. losses < MaxLosses => losses + 1 \in 0..MaxLosses
  BY <1>a, DriverBoundsAssumption DEF BoardTypeOK
<1>c. ASSUME UNCHANGED <<powered, reporting, losses>> PROVE BoardTypeOK'
  BY <1>a, <1>c DEF BoardTypeOK
<1>. USE DEF nodeVars, callVars, boardVars, pubVars, NodeGoesOn, NodeEnds
<1>1. CASE OpenPort \/ Unplugged
  BY <1>1, <1>a DEF OpenPort, Unplugged, BoardTypeOK
<1>2. CASE OpenFails \/ PowerState \/ PowerOnAnswered \/ PowerUnknown \/ PowerWaits \/ Control \/ ReadData
  BY <1>2, <1>c DEF OpenFails, PowerState, PowerOnAnswered, PowerUnknown, PowerWaits, Control, ReadData
<1>3. CASE (\E c \in Calls : HandleRequest(c)) \/ ReplyArrives \/ ReplyWaits \/ ReplyMissing
  BY <1>3, <1>c DEF HandleRequest, ReplyArrives, ReplyWaits, ReplyMissing
<1>4. CASE Shutdown \/ CmdCallback \/ PublishSpeed \/ Start
  BY <1>4, <1>c DEF Shutdown, CmdCallback, PublishSpeed, Start
<1>5. CASE \E c \in Calls : Call(c) \/ CallTimesOut(c)
  BY <1>5, <1>c DEF Call, CallTimesOut
<1>6. ASSUME NEW cmd, NEW ok, Answered(cmd, ok) PROVE losses' \in 0..MaxLosses
  BY <1>6, <1>a, <1>b DEF Answered, BoardTypeOK
<1>7. CASE BoardQueried \/ BoardPowers \/ \E s \in AllServices : BoardServes(s)
  BY <1>7, <1>6, <1>a DEF BoardQueried, BoardPowers, BoardServes, BoardTypeOK
<1>8. CASE BoardReports \/ BoardMoves \/ BoardSendsTelemetry
  BY <1>8, <1>a DEF BoardReports, BoardMoves, BoardSendsTelemetry, BoardTypeOK
<1>9. CASE CommandLost
  BY <1>9, <1>a, <1>b DEF CommandLost, BoardTypeOK
<1>10. CASE UNCHANGED vars
  BY <1>10, <1>c DEF vars
<1>11. QED
  BY <1>1, <1>2, <1>3, <1>4, <1>5, <1>7, <1>8, <1>9, <1>10
     DEF Next, DriverStep, Constructor, BoardStep

LEMMA KeptStep ==
  ASSUME Inv, Next \/ UNCHANGED vars
  PROVE  Kept
<1>1. ASSUME UNCHANGED vars PROVE NodeListens
  BY <1>1 DEF NodeListens, vars, callVars, nodeVars, boardVars
<1>2. QED
  BY <1>1, NodeListensSteps, ListeningKeeps, BoardPassesSteps, PassingKeeps, OpeningKeeps,
     EndingKeeps, HandlingKeeps, ReplyKeeps, CallingKeeps, ServingKeeps
     DEF Next, DriverStep, Constructor, BoardStep

LEMMA InvInit == Init => Inv
<1>. SUFFICES ASSUME Init PROVE Inv
  OBVIOUS
<1>1. LinesTypeOK /\ InboxOK
  BY DEF Init, LinesTypeOK, InboxOK
<1>2. NodeTypeOK
  <2>1. 1 \in 1..MaxStarts
    BY DriverBoundsAssumption
  <2>2. (current # None) = (driver = "reply")
    BY DEF Init
  <2>3. QED
    BY <2>1, <2>2 DEF Init, NodeTypeOK, Places
<1>3. CallTypeOK /\ BoardTypeOK
  <2>1. CallTypeOK
    BY DEF Init, CallTypeOK
  <2>2. 0 \in 0..MaxLosses
    BY DriverBoundsAssumption
  <2>3. BoardTypeOK
    BY <2>2 DEF Init, BoardTypeOK
  <2>4. QED
    BY <2>1, <2>3
<1>4. SpeedTypeOK
  <2>1. 0 \in 0..MaxSpeeds /\ 0 \in 0..0 /\ 0 <= QueueDepth
    BY DriverBoundsAssumption
  <2>2. <<>> \in Seq(1..MaxSpeeds) /\ Len(<<>>) = 0
    OBVIOUS
  <2>3. QED
    BY <2>1, <2>2 DEF Init, SpeedTypeOK
<1>5. LineInv
  BY <1>1 DEF Init, LineInv, OneAnswerOut, NobodySpeaks
<1>6. CallInv
  BY DEF Init, CallInv, CallOK, HandlerOK
<1>7. QED
  BY <1>1, <1>2, <1>3, <1>4, <1>5, <1>6, FramesHaveTypes, TypeParts DEF Inv

\* Every reachable state satisfies the invariant.
THEOREM Invariance == Spec => []Inv
<1>1. Inv /\ [Next]_vars => Inv'
  <2>. SUFFICES ASSUME Inv, Next \/ UNCHANGED vars PROVE Inv'
    OBVIOUS
  <2>1. Kept
    BY KeptStep
  <2>2. LinesTypeOK' /\ LineInv' /\ CallInv'
    BY <2>1 DEF Kept
  <2>3. FramesTyped'
    BY <2>2, FramesHaveTypes, PTL
  <2>4. NodeTypeOK' /\ CallTypeOK' /\ SpeedTypeOK' /\ BoardTypeOK'
    BY NodeTypeStep, CallTypeStep, SpeedTypeStep, BoardTypeStep
  <2>5. TypeOK'
    BY <2>3, <2>4, TypeParts, PTL
  <2>6. QED
    BY <2>2, <2>5 DEF Inv
<1>2. QED
  BY InvInit, <1>1, PTL DEF Spec

\* Every reachable state of the driver, its clients, the line and the board is of
\* the declared types, its queue within its depth.
THEOREM TypeCorrect == Spec => []TypeOK
<1>1. Inv => TypeOK
  BY DEF Inv
<1>2. QED
  BY Invariance, <1>1, PTL

\* The caller of a service is told what happened, though the handlers take the first
\* answer with the right command for their own: success only of what the board
\* carried out, failure only of what it did not.
THEOREM CallersHearTheTruth == Spec => []VerdictIsTrue
<1>1. Inv => VerdictIsTrue
  BY DEF Inv, CallInv, CallOK, VerdictIsTrue
<1>2. QED
  BY Invariance, <1>1, PTL

\* handleSetLedColor's range check comes before its cut to bytes, so the board only
\* ever shows a colour that was asked for.
THEOREM ColoursAreAsShown == Spec => []ColourAsAsked
<1>1. Inv => ColourAsAsked
  <2>. SUFFICES ASSUME Inv, NEW c \in executed, asks[c].service = "set_led_color"
                PROVE  ByteOf(c) = asks[c].arg
    BY DEF ColourAsAsked
  <2>1. Valid(c)
    BY InvParts DEF CallOK
  <2>2. asks[c].arg \in 0..255
    BY <2>1 DEF Valid, PinServices
  <2>3. \A n \in 0..255 : n % 256 = n
    OBVIOUS
  <2>4. QED
    BY <2>2, <2>3 DEF ByteOf
<1>2. QED
  BY Invariance, <1>1, PTL
=============================================================================
