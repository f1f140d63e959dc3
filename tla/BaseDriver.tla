------------------------------ MODULE BaseDriver ------------------------------
(***************************************************************************)
(* agv_pro_base: the node that drives the robot's controller board over a  *)
(* serial line.  Its one thread first runs the constructor (open the port, *)
(* ask whether the motors are powered, power them) and then the executor,  *)
(* which runs one callback at a time: a /cmd_vel message, an IO or LED     *)
(* service, the 20 ms timer that reads telemetry.  Every callback reads    *)
(* from and writes to the same line, and a callback that waits for the     *)
(* board keeps all others waiting.                                         *)
(*                                                                         *)
(* Frames are modelled whole: to the board by their command and what it    *)
(* needs, from the board by the command they answer and whether it         *)
(* succeeded.  Answers carry nothing that tells which request they answer. *)
(* The board takes its commands in order after any delay, unless they are  *)
(* lost on the line.                                                       *)
(***************************************************************************)
EXTENDS Integers, Sequences

CONSTANTS
  Calls,        \* calls of the services, by clients like ros_client.py
  Asks,         \* what they may ask for: functions from Calls to a service and its
                \* value, a pin or the worst of the colour's values
  MaxSpeeds,    \* bound: messages published on /cmd_vel
  QueueDepth,   \* depth of the subscription to /cmd_vel, 10 in the source
  MaxTelemetry, \* bound: telemetry frames waiting in the serial driver
  MaxLosses,    \* bound: frames lost on the line, in either direction
  MaxStarts,    \* bound: starts of the node
  PortFaults    \* a subset of {"open", "unplug"}

AllServices ==
  {"set_digital_output", "get_digital_input", "set_led_color", "set_led_mode"}
PinServices == {"set_digital_output", "get_digital_input"}
Waits == {"query", "power_on", "reply"}
Places == Waits \union {"constructor", "spin", "read", "down"}
None == "none"

ASSUME AsksAssumption ==
  \A a \in Asks : /\ DOMAIN a = Calls
                  /\ \A c \in Calls : a[c].service \in AllServices /\ a[c].arg \in Int
ASSUME DriverBoundsAssumption ==
  /\ MaxSpeeds \in Nat /\ QueueDepth \in Nat \ {0} /\ MaxTelemetry \in Nat
  /\ MaxLosses \in Nat /\ MaxStarts \in Nat \ {0}
ASSUME PortFaultsAssumption == PortFaults \subseteq {"open", "unplug"}
ASSUME NoneAssumption == None \notin Calls

VARIABLES
  asks,          \* asks[c]: the service and the value of call c
  client,        \* client[c]: what the caller knows of call c
  requests,      \* calls waiting in the executor
  driver,        \* where the node's thread is
  current,       \* the call whose handler it runs, or None
  port,          \* "closed", "open", or "gone": unplugged while open
  control_timer, \* the telemetry timer exists
  cmd_vel,       \* the subscription's queue: numbers of speeds
  published,     \* number of the newest speed published, bounded by MaxSpeeds
  heard,         \* history: the newest one published since the node started
  inbox,         \* frames on their way to the board
  line,          \* frames from the board that the node has not read
  powered,       \* the board's motors are powered
  reporting,     \* the board sends telemetry
  board_speed,   \* number of the speed the board follows, 0 for none
  executed,      \* history: the calls the board carried out
  missed,        \* history: number of the newest speed lost on the line, 0 for none
  casualty,      \* history: the call in whose handler the node died, or None
  losses, starts \* history: losses and starts, bounded

callVars == <<asks, client, requests>>
nodeVars == <<driver, current, port, control_timer, cmd_vel, casualty, starts>>
boardVars == <<powered, reporting, board_speed, executed, missed, losses>>
pubVars == <<published, heard>>
vars == <<callVars, nodeVars, pubVars, inbox, line, boardVars>>

Commands == {"query", "power_on", "report_on", "report_off", "speed"} \union AllServices
Frame(cmd, of) == [cmd |-> cmd, of |-> of]
Answer(cmd, ok) == [cmd |-> cmd, ok |-> ok]
Telemetry == Answer("telemetry", TRUE)

TypeOK ==
  /\ asks \in Asks
  /\ client \in [Calls -> {"idle", "waiting", "gave_up", "true", "false"}]
  /\ requests \subseteq Calls
  /\ driver \in Places
  /\ current \in Calls \union {None} /\ (current # None) = (driver = "reply")
  /\ port \in {"closed", "open", "gone"}
  /\ control_timer \in BOOLEAN
  /\ published \in 0..MaxSpeeds /\ heard \in 0..published
  /\ cmd_vel \in Seq(1..MaxSpeeds) /\ Len(cmd_vel) <= QueueDepth
  /\ \A i \in 1..Len(inbox) : inbox[i].cmd \in Commands
  /\ \A i \in 1..Len(line) : line[i].cmd \in Commands \union {"telemetry"}
  /\ powered \in BOOLEAN /\ reporting \in BOOLEAN
  /\ board_speed \in 0..MaxSpeeds /\ missed \in 0..MaxSpeeds
  /\ executed \subseteq Calls
  /\ casualty \in Calls \union {None}
  /\ losses \in 0..MaxLosses /\ starts \in 1..MaxStarts

Init ==
  /\ asks \in Asks
  /\ client = [c \in Calls |-> "idle"]
  /\ requests = {}
  /\ driver = "constructor" /\ current = None /\ port = "closed"
  /\ control_timer = FALSE
  /\ cmd_vel = <<>> /\ published = 0 /\ heard = 0
  /\ inbox = <<>> /\ line = <<>>
  /\ powered = FALSE /\ reporting = FALSE /\ board_speed = 0
  /\ executed = {} /\ missed = 0 /\ casualty = None
  /\ losses = 0 /\ starts = 1
-----------------------------------------------------------------------------
(***************************************************************************)
(* The line.  A write that fails is only logged.  read_serial_response     *)
(* skips what is not the answer it waits for.  It looks at its time limit  *)
(* only when a read has returned, so it gives up having read something, or *)
(* at an error of the port.                                                *)
(***************************************************************************)
Written(frames) == IF port = "open" THEN inbox \o frames ELSE inbox

Receives(cmd) ==
  /\ port = "open" /\ line # <<>> /\ Head(line).cmd = cmd
  /\ line' = Tail(line)

Skips(cmd) ==
  /\ port = "open" /\ line # <<>> /\ Head(line).cmd # cmd
  /\ line' = Tail(line)

MayGiveUp == port # "open" \/ line # <<>>

GivesUp ==
  /\ MayGiveUp
  /\ line' = IF port = "open" THEN Tail(line) ELSE line

NodeGoesOn ==
  UNCHANGED <<callVars, port, cmd_vel, pubVars, boardVars, casualty, starts>>

\* With the process go the requests and speeds it holds and what it has not read.
NodeEnds ==
  /\ driver' = "down" /\ current' = None /\ control_timer' = FALSE
  /\ port' = "closed" /\ line' = <<>>
  /\ requests' = {} /\ cmd_vel' = <<>>
-----------------------------------------------------------------------------
(***************************************************************************)
(* The constructor.  Opening the port restarts the board (the constructor  *)
(* sleeps for it), after which nothing older is on the line; whether its   *)
(* motors are powered and it reports by itself then is not known.          *)
(***************************************************************************)
OpenPort ==
  /\ driver = "constructor"
  /\ port' = "open"
  /\ inbox' = <<Frame("query", None)>>
  /\ line' = <<>>
  /\ driver' = "query"
  /\ powered' \in BOOLEAN /\ reporting' \in BOOLEAN /\ board_speed' = 0
  /\ UNCHANGED <<callVars, current, control_timer, cmd_vel, pubVars,
                 executed, missed, casualty, losses, starts>>

\* The constructor returns early; subscription and services exist all the same.
OpenFails ==
  /\ "open" \in PortFaults
  /\ driver = "constructor"
  /\ driver' = "spin"
  /\ UNCHANGED <<callVars, current, port, control_timer, cmd_vel, pubVars,
                 inbox, line, boardVars, casualty, starts>>

StartControl ==
  /\ inbox' = Written(<<Frame("report_on", None)>>)
  /\ control_timer' = TRUE
  /\ driver' = "spin"

\* An unpowered board is told to power its motors, at most once.
PowerState ==
  /\ driver = "query" /\ Receives("query")
  /\ IF Head(line).ok
     THEN StartControl
     ELSE /\ inbox' = Written(<<Frame("power_on", None)>>)
          /\ driver' = "power_on"
          /\ UNCHANGED control_timer
  /\ NodeGoesOn /\ UNCHANGED current

PowerOnAnswered ==
  /\ driver = "power_on" /\ Receives("power_on")
  /\ IF Head(line).ok
     THEN StartControl
     ELSE driver' = "spin" /\ UNCHANGED <<inbox, control_timer>>
  /\ NodeGoesOn /\ UNCHANGED current

\* Without an answer the node runs on without its timer.
PowerUnknown ==
  /\ driver \in {"query", "power_on"} /\ GivesUp
  /\ driver' = "spin"
  /\ NodeGoesOn /\ UNCHANGED <<current, control_timer, inbox>>

PowerWaits ==
  /\ driver \in {"query", "power_on"} /\ Skips(driver)
  /\ NodeGoesOn /\ UNCHANGED <<driver, current, control_timer, inbox>>
-----------------------------------------------------------------------------
(***************************************************************************)
(* The services.  The pin is cut to a byte before its range is checked,    *)
(* the values of set_led_color after.  The answer's checksum is not looked *)
(* at.  Without an answer, read_serial_response returns an empty vector,   *)
(* and reading its fifth or sixth byte goes through a null pointer.        *)
(***************************************************************************)
ByteOf(c) == asks[c].arg % 256

\* Mutant: the values of set_led_color are cut before they are checked, too.
ValidCutFirst(c) ==
  CASE asks[c].service \in PinServices -> ByteOf(c) \in 1..6
    [] asks[c].service = "set_led_color" -> ByteOf(c) \in 0..255
    [] asks[c].service = "set_led_mode" -> TRUE

Valid(c) ==
  CASE asks[c].service \in PinServices -> ByteOf(c) \in 1..6
    [] asks[c].service = "set_led_color" -> asks[c].arg \in 0..255
    [] asks[c].service = "set_led_mode" -> TRUE

\* A response finds its caller only while the caller waits.
Responded(c, success) ==
  IF client[c] = "waiting"
  THEN [client EXCEPT ![c] = IF success THEN "true" ELSE "false"]
  ELSE client

HandleRequest(c) ==
  /\ driver = "spin" /\ c \in requests
  /\ requests' = requests \ {c}
  /\ IF Valid(c)
     THEN /\ inbox' = Written(<<Frame(asks[c].service, c)>>)
          /\ driver' = "reply" /\ current' = c
          /\ UNCHANGED client
     ELSE client' = Responded(c, FALSE) /\ UNCHANGED <<inbox, driver, current>>
  /\ UNCHANGED <<asks, port, control_timer, cmd_vel, pubVars, line, boardVars,
                 casualty, starts>>

ReplyArrives ==
  /\ driver = "reply" /\ Receives(asks[current].service)
  /\ client' = Responded(current, Head(line).ok)
  /\ driver' = "spin" /\ current' = None
  /\ UNCHANGED <<asks, requests, port, control_timer, cmd_vel, pubVars, inbox,
                 boardVars, casualty, starts>>

ReplyWaits ==
  /\ driver = "reply" /\ Skips(asks[current].service)
  /\ NodeGoesOn /\ UNCHANGED <<driver, current, control_timer, inbox>>

\* Mutant: a missing answer is reported as a failure and the node goes on.
ReplyMissingReported ==
  /\ driver = "reply" /\ GivesUp
  /\ client' = Responded(current, FALSE)
  /\ driver' = "spin" /\ current' = None
  /\ UNCHANGED <<asks, requests, port, control_timer, cmd_vel, pubVars, inbox,
                 boardVars, casualty, starts>>

ReplyMissing ==
  /\ driver = "reply" /\ MayGiveUp
  /\ casualty' = current
  /\ NodeEnds
  /\ UNCHANGED <<asks, client, pubVars, inbox, boardVars, starts>>
-----------------------------------------------------------------------------
(***************************************************************************)
(* Speeds, telemetry, and the end of the node.                             *)
(***************************************************************************)
\* Mutants: no limit on the queue, or a full queue that refuses the newest.
KeepAll(s) == s
KeepFirst(s) == IF Len(s) > QueueDepth THEN SubSeq(s, 1, QueueDepth) ELSE s
KeepLast(s) == IF Len(s) > QueueDepth THEN Tail(s) ELSE s

PublishSpeed ==
  /\ published < MaxSpeeds
  /\ published' = published + 1
  /\ IF driver = "down"
     THEN UNCHANGED <<cmd_vel, heard>>
     ELSE cmd_vel' = KeepLast(Append(cmd_vel, published')) /\ heard' = published'
  /\ UNCHANGED <<callVars, driver, current, port, control_timer, inbox, line,
                 boardVars, casualty, starts>>

\* The speed is forwarded whatever is known of the motors' power.
CmdCallback ==
  /\ driver = "spin" /\ cmd_vel # <<>>
  /\ cmd_vel' = Tail(cmd_vel)
  /\ inbox' = Written(<<Frame("speed", Head(cmd_vel))>>)
  /\ UNCHANGED <<callVars, driver, current, port, control_timer, pubVars, line,
                 boardVars, casualty, starts>>

Control ==
  /\ driver = "spin" /\ control_timer
  /\ driver' = "read"
  /\ NodeGoesOn /\ UNCHANGED <<current, control_timer, inbox, line>>

\* readData has no time limit.  It ends with the first frame, a telemetry frame
\* or not (what it publishes is left out), or at an error of the port.
ReadData ==
  /\ driver = "read" /\ GivesUp
  /\ driver' = "spin"
  /\ NodeGoesOn /\ UNCHANGED <<current, control_timer, inbox>>

Shutdown ==
  /\ driver = "spin"
  /\ inbox' = Written(<<Frame("report_off", None)>>)
  /\ NodeEnds
  /\ UNCHANGED <<asks, client, pubVars, boardVars, casualty, starts>>

Start ==
  /\ driver = "down" /\ starts < MaxStarts
  /\ starts' = starts + 1
  /\ driver' = "constructor"
  /\ heard' = 0
  /\ UNCHANGED <<callVars, current, port, control_timer, cmd_vel, published,
                 inbox, line, boardVars, casualty>>
-----------------------------------------------------------------------------
(***************************************************************************)
(* The clients, the line and the board.                                    *)
(***************************************************************************)
\* Services are found once the constructor has created them.
Call(c) ==
  /\ client[c] = "idle" /\ driver # "down"
  /\ client' = [client EXCEPT ![c] = "waiting"]
  /\ requests' = requests \union {c}
  /\ UNCHANGED <<asks, nodeVars, pubVars, inbox, line, boardVars>>

\* _call_service stops waiting; its request stays with the driver.
CallTimesOut(c) ==
  /\ client[c] = "waiting"
  /\ client' = [client EXCEPT ![c] = "gave_up"]
  /\ UNCHANGED <<asks, requests, nodeVars, pubVars, inbox, line, boardVars>>

Unplugged ==
  /\ "unplug" \in PortFaults
  /\ port = "open"
  /\ port' = "gone"
  /\ inbox' = <<>> /\ line' = <<>> /\ reporting' = FALSE
  /\ UNCHANGED <<callVars, driver, current, control_timer, cmd_vel, pubVars,
                 powered, board_speed, executed, missed, losses, casualty, starts>>

\* The answer to the command at hand arrives, unless it is lost or nobody has the
\* port open.
Answered(cmd, ok) ==
  \/ port = "open" /\ line' = Append(line, Answer(cmd, ok)) /\ UNCHANGED losses
  \/ port = "open" /\ losses < MaxLosses /\ losses' = losses + 1 /\ UNCHANGED line
  \/ port # "open" /\ UNCHANGED <<line, losses>>

BoardTakes(cmd) ==
  /\ inbox # <<>> /\ Head(inbox).cmd = cmd
  /\ inbox' = Tail(inbox)
  /\ UNCHANGED <<callVars, nodeVars, pubVars>>

BoardQueried ==
  /\ BoardTakes("query") /\ Answered("query", powered)
  /\ UNCHANGED <<powered, reporting, board_speed, executed, missed>>

\* The motors may stay off: emergency stop, low battery, CAN or motor errors.
BoardPowers ==
  /\ BoardTakes("power_on")
  /\ powered' \in BOOLEAN
  /\ Answered("power_on", powered')
  /\ UNCHANGED <<reporting, board_speed, executed, missed>>

BoardReports ==
  /\ \/ BoardTakes("report_on") /\ reporting' = TRUE
     \/ BoardTakes("report_off") /\ reporting' = FALSE
  /\ UNCHANGED <<line, powered, board_speed, executed, missed, losses>>

BoardMoves ==
  /\ BoardTakes("speed")
  /\ board_speed' = Head(inbox).of
  /\ UNCHANGED <<line, powered, reporting, executed, missed, losses>>

BoardServes(service) ==
  /\ BoardTakes(service)
  /\ \E ok \in BOOLEAN :
       /\ executed' = IF ok THEN executed \union {Head(inbox).of} ELSE executed
       /\ Answered(service, ok)
  /\ UNCHANGED <<powered, reporting, board_speed, missed>>

\* A lost command is not repeated, and the loss of a speed or of report_on, which
\* have no answer, is not even noticed.
CommandLost ==
  /\ inbox # <<>> /\ losses < MaxLosses
  /\ inbox' = Tail(inbox) /\ losses' = losses + 1
  /\ missed' = IF Head(inbox).cmd = "speed" THEN Head(inbox).of ELSE missed
  /\ UNCHANGED <<callVars, nodeVars, pubVars, line, powered, reporting,
                 board_speed, executed>>

BoardSendsTelemetry ==
  /\ reporting /\ port = "open" /\ Len(line) < MaxTelemetry
  /\ line' = Append(line, Telemetry)
  /\ UNCHANGED <<callVars, nodeVars, pubVars, inbox, boardVars>>

BoardStep ==
  \/ BoardQueried \/ BoardPowers \/ BoardReports \/ BoardMoves
  \/ \E s \in AllServices : BoardServes(s)
-----------------------------------------------------------------------------
Constructor ==
  \/ OpenPort \/ OpenFails
  \/ PowerState \/ PowerOnAnswered \/ PowerUnknown \/ PowerWaits
WaitEnds ==
  PowerState \/ PowerOnAnswered \/ PowerUnknown \/ ReplyArrives \/ ReplyMissing
DriverStep ==
  \/ Constructor \/ CmdCallback \/ Control \/ ReadData
  \/ (\E c \in Calls : HandleRequest(c))
  \/ ReplyArrives \/ ReplyWaits \/ ReplyMissing

Next ==
  \/ DriverStep \/ PublishSpeed \/ Shutdown \/ Start \/ Unplugged
  \/ (\E c \in Calls : Call(c) \/ CallTimesOut(c))
  \/ BoardStep \/ CommandLost \/ BoardSendsTelemetry

Spec == Init /\ [][Next]_vars

\* The thread runs and the board works.  Time passes, so a wait in which frames
\* keep arriving ends.  The executor takes every callback that is ready when it
\* collects its work before it collects again, so none is passed over for ever.
Fairness ==
  /\ WF_vars(DriverStep) /\ WF_vars(BoardStep) /\ WF_vars(BoardSendsTelemetry)
  /\ SF_vars(WaitEnds) /\ SF_vars(CmdCallback)

FairSpec == Spec /\ Fairness
-----------------------------------------------------------------------------
(***************************************************************************)
(* Properties.                                                             *)
(***************************************************************************)

\* What a caller is told is what happened: of the service handlers, which take
\* the first answer with the right command for the answer to their request,
\* none reports success for a call the board did not carry out or failure for
\* one it did.  It holds because no handler outlives a missing answer: in a node
\* that survived one, the late answer would be taken by the next call.
VerdictIsTrue ==
  \A c \in Calls : /\ client[c] = "true" => c \in executed
                   /\ client[c] = "false" => c \notin executed

\* The board carries out set_led_color only with values as they were asked for
\* (handleSetLedColor checks 32-bit values before it cuts them to bytes).
ColourAsAsked ==
  \A c \in executed : asks[c].service = "set_led_color" => ByteOf(c) = asks[c].arg

\* The node waits for the board and nothing will come.
Blocked ==
  driver \in Waits \union {"read"} /\ inbox = <<>> /\ line = <<>> /\ ~reporting

\* The board catches up with the newest speed published to a running node,
\* however many services and telemetry frames stand before it, unless its frame
\* is lost, the node ends, the port is gone, or the node waits for a silent board
\* (cmdCallback shares the one thread).
NewestSpeedArrives ==
  board_speed < heard ~>
    \/ board_speed >= heard \/ missed >= heard
    \/ driver = "down" \/ port # "open" \/ Blocked

\* Every handler lives to report whether its operation succeeded, as the
\* comments on the handlers and on read_serial_response's empty vector say.
HandlersReport == casualty = None
=============================================================================
