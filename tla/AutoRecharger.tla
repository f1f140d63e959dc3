--------------------------- MODULE AutoRecharger ---------------------------
(***************************************************************************)
(* The node CombinedAutoRecharger as its threads run it.                   *)
(*                                                                         *)
(*   - The main thread reads keys: q requests a trip to the charger,       *)
(*     Ctrl+C stops the node.                                              *)
(*   - The executor thread polls the request every 0.5 s and navigates     *)
(*     inside that callback, so nothing else of the node runs meanwhile.   *)
(*   - Each successful trip starts one more daemon thread, a docking       *)
(*     session, that follows the charger's frames on the serial line.      *)
(*                                                                         *)
(* The threads share plain attributes: there is no lock in the source, so  *)
(* every access to a shared attribute is a step of its own.                *)
(***************************************************************************)
EXTENDS Naturals, FiniteSets, BasicNavigator

CONSTANTS
  Sessions,       \* the docking threads the node may start
  NoParser,       \* self.parser before the first session
  MaxPresses,     \* bound: how often the operator presses q
  SerialFaults    \* a subset of {"open", "io"}: what may go wrong on the line

ASSUME SessionsAssumption == IsFiniteSet(Sessions) /\ NoParser \notin Sessions
ASSUME PressesAssumption == MaxPresses \in Nat /\ MaxPresses <= Cardinality(Sessions)
ASSUME SerialFaultsAssumption == SerialFaults \subseteq {"open", "io"}

VARIABLES
  navigation_active,     \* attributes of the node, shared by all threads
  navigation_requested,
  serial_control_active,
  parser,                \* the session that created the current SerialCANParser
  port_open,             \* per parser: its serial port is open
  cmd_vel,               \* the last Twist the node published
  main,                  \* where the main thread is
  executor,              \* where the executor thread is
  pc,                    \* where each docking session is
  using,                 \* the parser a session's pending call runs on
  frame,                 \* the frame a session acts on
  presses,               \* history: requests made, bounded by MaxPresses
  hasty,                 \* history: one of them was made while something was going on
  trips                  \* history: navigations begun

sharedVars == <<navigation_active, navigation_requested, serial_control_active, parser, port_open>>
sessionVars == <<pc, using, frame>>
vars == <<sharedVars, cmd_vel, main, executor, sessionVars, presses, hasty, trips, navVars>>

\* A frame by what the control loop does with it: the infrared flag stops the
\* robot whatever the mode says, 0x01 moves it, 0xBB pauses, 0xAA and 0xCF end.
Kind == {"flag", "normal", "pressure", "charging", "estop", "other"}
Terminal == {"flag", "charging", "estop"}

MainPc == {"keys", "request", "stop", "shutdown", "exited"}
ExecutorPc == {"spin", "clear", "activate", "read_goal", "send", "sending",
               "waiting", "result", "start_serial", "failed"}
SessionPc == {"unborn", "create", "open", "call_at", "at", "activate", "test",
              "read", "act", "error", "finally", "done"}

TypeOK ==
  /\ navigation_active \in BOOLEAN
  /\ navigation_requested \in BOOLEAN
  /\ serial_control_active \in BOOLEAN
  /\ parser \in Sessions \union {NoParser}
  /\ port_open \in [Sessions -> BOOLEAN]
  /\ cmd_vel \in {"none", "drive", "stop"}
  /\ main \in MainPc
  /\ executor \in ExecutorPc
  /\ pc \in [Sessions -> SessionPc]
  /\ using \in [Sessions -> Sessions \union {NoParser}]
  /\ frame \in [Sessions -> Kind]
  /\ presses \in Nat
  /\ hasty \in BOOLEAN
  /\ trips \in Nat
  /\ NavTypeOK

Init ==
  /\ navigation_active = FALSE
  /\ navigation_requested = FALSE
  /\ serial_control_active = FALSE
  /\ parser = NoParser
  /\ port_open = [t \in Sessions |-> FALSE]
  /\ cmd_vel = "none"
  /\ main = "keys"
  /\ executor = "spin"
  /\ pc = [t \in Sessions |-> "unborn"]
  /\ using = [t \in Sessions |-> NoParser]
  /\ frame = [t \in Sessions |-> "other"]
  /\ presses = 0
  /\ hasty = FALSE
  /\ trips = 0
  /\ NavInit

\* The main thread's exit ends the process and with it the daemon threads.
Alive == main # "exited"
Live(t) == pc[t] \notin {"unborn", "done"}
-----------------------------------------------------------------------------
(***************************************************************************)
(* The main thread.                                                        *)
(***************************************************************************)
Quiet == executor = "spin" /\ ~navigation_requested /\ \A t \in Sessions : ~Live(t)

\* execute_navigation, then request_navigation's test of navigation_active.
\* A refused key press leaves no trace.
PressQ ==
  /\ main = "keys"
  /\ presses < MaxPresses
  /\ ~navigation_active
  /\ main' = "request"
  /\ presses' = presses + 1
  /\ hasty' = (hasty \/ ~Quiet)
  /\ UNCHANGED <<sharedVars, cmd_vel, executor, sessionVars, trips, navVars>>

\* request_navigation sets the flag it decided on in the step before.
QueueRequest ==
  /\ main = "request"
  /\ navigation_requested' = TRUE
  /\ main' = "keys"
  /\ UNCHANGED <<navigation_active, serial_control_active, parser, port_open, cmd_vel,
                 executor, sessionVars, presses, hasty, trips, navVars>>

\* Ctrl+C breaks the keyboard loop.
PressCtrlC ==
  /\ main = "keys"
  /\ main' = "stop"
  /\ UNCHANGED <<sharedVars, cmd_vel, executor, sessionVars, presses, hasty, trips, navVars>>

StopSerialControl ==
  /\ main = "stop"
  /\ serial_control_active' = FALSE
  /\ main' = "shutdown"
  /\ UNCHANGED <<navigation_active, navigation_requested, parser, port_open, cmd_vel,
                 executor, sessionVars, presses, hasty, trips, navVars>>

\* destroy_node and rclpy.shutdown: nothing is published any more.
Shutdown ==
  /\ main = "shutdown"
  /\ main' = "exited"
  /\ UNCHANGED <<sharedVars, cmd_vel, executor, sessionVars, presses, hasty, trips, navVars>>

MainStep == QueueRequest \/ StopSerialControl \/ Shutdown
Main == PressQ \/ PressCtrlC \/ MainStep
-----------------------------------------------------------------------------
(***************************************************************************)
(* The executor thread: check_navigation_request and all it calls.         *)
(***************************************************************************)
ExecutorTo(next) ==
  /\ Alive
  /\ executor' = next
  /\ UNCHANGED <<cmd_vel, main, sessionVars, presses, hasty>>

TimerFires ==
  /\ executor = "spin"
  /\ navigation_requested /\ ~navigation_active
  /\ ExecutorTo("clear")
  /\ UNCHANGED <<sharedVars, trips, navVars>>

\* Mutant: the request stays set.
ClearRequestForgotten ==
  /\ executor = "clear"
  /\ ExecutorTo("activate")
  /\ UNCHANGED <<sharedVars, trips, navVars>>

ClearRequest ==
  /\ executor = "clear"
  /\ navigation_requested' = FALSE
  /\ ExecutorTo("activate")
  /\ UNCHANGED <<navigation_active, serial_control_active, parser, port_open, trips, navVars>>

ActivateNavigation ==
  /\ executor = "activate"
  /\ navigation_active' = TRUE
  /\ trips' = trips + 1
  /\ ExecutorTo("read_goal")
  /\ UNCHANGED <<navigation_requested, serial_control_active, parser, port_open, navVars>>

\* The position file is read anew for every trip; ChargerStore says what it holds.
ReadGoal ==
  /\ executor = "read_goal"
  /\ ExecutorTo("send")
  /\ UNCHANGED <<sharedVars, trips, navVars>>

ReadGoalFails ==
  /\ executor = "read_goal"
  /\ navigation_active' = FALSE
  /\ ExecutorTo("failed")
  /\ UNCHANGED <<navigation_requested, serial_control_active, parser, port_open, trips, navVars>>

GoThroughPoses ==
  /\ executor = "send"
  /\ SendGoal
  /\ ExecutorTo("sending")
  /\ UNCHANGED <<sharedVars, trips>>

\* nav_through_pose does not look at what goThroughPoses returned.
GoalAnswered ==
  /\ executor = "sending"
  /\ GoalAccepted \/ GoalRejected
  /\ ExecutorTo("waiting")
  /\ UNCHANGED <<sharedVars, trips>>

TaskIsComplete ==
  /\ executor = "waiting"
  /\ ReadStatus
  /\ ExecutorTo("result")
  /\ UNCHANGED <<sharedVars, trips>>

\* Mutant: navigation_active keeps its value.
NavigationReturnsActive ==
  /\ executor = "result"
  /\ ExecutorTo(IF ResultSucceeded THEN "start_serial" ELSE "failed")
  /\ UNCHANGED <<sharedVars, trips, navVars>>

NavigationReturns ==
  /\ executor = "result"
  /\ navigation_active' = FALSE
  /\ ExecutorTo(IF ResultSucceeded THEN "start_serial" ELSE "failed")
  /\ UNCHANGED <<navigation_requested, serial_control_active, parser, port_open, trips, navVars>>

NavigationFailed ==
  /\ executor = "failed"
  /\ navigation_active' = FALSE
  /\ ExecutorTo("spin")
  /\ UNCHANGED <<navigation_requested, serial_control_active, parser, port_open, trips, navVars>>

StartSerialControlAsync(t) ==
  /\ Alive
  /\ executor = "start_serial"
  /\ pc[t] = "unborn"
  /\ pc' = [pc EXCEPT ![t] = "create"]
  /\ executor' = "spin"
  /\ UNCHANGED <<sharedVars, cmd_vel, main, using, frame, presses, hasty, trips, navVars>>

ExecutorStep ==
  \/ TimerFires \/ ClearRequest \/ ActivateNavigation
  \/ ReadGoal \/ ReadGoalFails \/ GoThroughPoses
  \/ TaskIsComplete \/ NavigationReturns \/ NavigationFailed
  \/ \E t \in Sessions : StartSerialControlAsync(t)
-----------------------------------------------------------------------------
(***************************************************************************)
(* A docking session: start_serial_control.                                *)
(*                                                                         *)
(* self.parser is read again at every call, so a session works on the      *)
(* parser of the newest session from its next call on: OpenSerial opens    *)
(* it, the loop reads from it, and the finally clause closes it.           *)
(***************************************************************************)
Goto(t, from, to) ==
  /\ Alive
  /\ pc[t] = from
  /\ pc' = [pc EXCEPT ![t] = to]
  /\ UNCHANGED <<navigation_active, navigation_requested, main, executor,
                 presses, hasty, trips, navVars>>

\* What a call ran on and a frame it returned are forgotten after use.
Returned(t) == using' = [using EXCEPT ![t] = NoParser]
Handled(t) == frame' = [frame EXCEPT ![t] = "other"]

CreateParser(t) ==
  /\ Goto(t, "create", "open")
  /\ parser' = t
  /\ UNCHANGED <<serial_control_active, port_open, cmd_vel, using, frame>>

\* open_serial swallows the exception of a port that cannot be opened.
OpenSerial(t) ==
  /\ Goto(t, "open", "call_at")
  /\ \/ port_open' = [port_open EXCEPT ![parser] = TRUE]
     \/ "open" \in SerialFaults /\ UNCHANGED port_open
  /\ UNCHANGED <<serial_control_active, parser, cmd_vel, using, frame>>

CallSendAtCommands(t) ==
  /\ Goto(t, "call_at", "at")
  /\ using' = [using EXCEPT ![t] = parser]
  /\ UNCHANGED <<serial_control_active, parser, port_open, cmd_vel, frame>>

\* send_at_commands returns in the same way after an OK and after three retries.
AtCommandsReturn(t) ==
  /\ Goto(t, "at", "activate")
  /\ port_open[using[t]]
  /\ Returned(t)
  /\ UNCHANGED <<serial_control_active, parser, port_open, cmd_vel, frame>>

ActivateSerialControl(t) ==
  /\ Goto(t, "activate", "test")
  /\ serial_control_active' = TRUE
  /\ UNCHANGED <<parser, port_open, cmd_vel, using, frame>>

\* while self.serial_control_active: self.parser.read_serial_data()
CallReadSerialData(t) ==
  /\ Goto(t, "test", "read")
  /\ serial_control_active
  /\ using' = [using EXCEPT ![t] = parser]
  /\ UNCHANGED <<serial_control_active, parser, port_open, cmd_vel, frame>>

LeaveLoop(t) ==
  /\ Goto(t, "test", "finally")
  /\ ~serial_control_active
  /\ UNCHANGED <<serial_control_active, parser, port_open, cmd_vel, using, frame>>

\* read_serial_data returns only with a valid frame, however long that takes.
ReadFrame(t) ==
  /\ Goto(t, "read", "act")
  /\ port_open[using[t]]
  /\ \E kind \in Kind : frame' = [frame EXCEPT ![t] = kind]
  /\ Returned(t)
  /\ UNCHANGED <<serial_control_active, parser, port_open, cmd_vel>>

\* Mutant: the loop carries on after an exception.
PortClosedRetries(t) ==
  /\ Goto(t, "read", "test")
  /\ ~port_open[using[t]]
  /\ Returned(t)
  /\ UNCHANGED <<serial_control_active, parser, port_open, cmd_vel, frame>>

\* A call on a port that is not open raises, in the handshake as in the loop.
PortClosed(t) ==
  /\ \E from \in {"at", "read"} : Goto(t, from, "error")
  /\ ~port_open[using[t]]
  /\ Returned(t)
  /\ UNCHANGED <<serial_control_active, parser, port_open, cmd_vel, frame>>

\* So does an unplugged adapter, and a receive buffer two sessions clear in turn.
Contended(t) ==
  \E u \in Sessions \ {t} : pc[u] \in {"at", "read"} /\ using[u] = using[t]

SerialError(t) ==
  /\ \E from \in {"at", "read"} : Goto(t, from, "error")
  /\ "io" \in SerialFaults \/ Contended(t)
  /\ Returned(t)
  /\ UNCHANGED <<serial_control_active, parser, port_open, cmd_vel, frame>>
-----------------------------------------------------------------------------
(***************************************************************************)
(* What a session does with a frame, and how it ends.                      *)
(***************************************************************************)
PublishSpeed(t) ==
  /\ Goto(t, "act", "test")
  /\ frame[t] = "normal"
  /\ cmd_vel' = "drive"
  /\ Handled(t)
  /\ UNCHANGED <<serial_control_active, parser, port_open, using>>

PressureZone(t) ==
  /\ Goto(t, "act", "test")
  /\ frame[t] = "pressure"
  /\ cmd_vel' = "stop"
  /\ Handled(t)
  /\ UNCHANGED <<serial_control_active, parser, port_open, using>>

\* Mutant: an unknown mode breaks the loop.
UnknownModeBreaks(t) ==
  /\ Goto(t, "act", "finally")
  /\ frame[t] = "other"
  /\ Handled(t)
  /\ UNCHANGED <<serial_control_active, parser, port_open, cmd_vel, using>>

UnknownMode(t) ==
  /\ Goto(t, "act", "test")
  /\ frame[t] = "other"
  /\ Handled(t)
  /\ UNCHANGED <<serial_control_active, parser, port_open, cmd_vel, using>>

StopAndBreak(t) ==
  /\ Goto(t, "act", "finally")
  /\ frame[t] \in Terminal
  /\ cmd_vel' = "stop"
  /\ Handled(t)
  /\ UNCHANGED <<serial_control_active, parser, port_open, using>>

\* Mutant: the exception handler publishes no stop.
StopOnErrorForgotten(t) ==
  /\ Goto(t, "error", "finally")
  /\ UNCHANGED <<serial_control_active, parser, port_open, cmd_vel, using, frame>>

StopOnError(t) ==
  /\ Goto(t, "error", "finally")
  /\ cmd_vel' = "stop"
  /\ UNCHANGED <<serial_control_active, parser, port_open, using, frame>>

\* Mutant: the session that ends clears the flag of all sessions.
CloseSerialAndDeactivate(t) ==
  /\ Goto(t, "finally", "done")
  /\ port_open' = [port_open EXCEPT ![parser] = FALSE]
  /\ serial_control_active' = FALSE
  /\ UNCHANGED <<parser, cmd_vel, using, frame>>

CloseSerial(t) ==
  /\ Goto(t, "finally", "done")
  /\ port_open' = [port_open EXCEPT ![parser] = FALSE]
  /\ UNCHANGED <<serial_control_active, parser, cmd_vel, using, frame>>

\* The steps a session takes by itself; a frame comes from the charger, and an
\* error on an open port from the adapter.
SessionStep(t) ==
  \/ CreateParser(t) \/ OpenSerial(t) \/ CallSendAtCommands(t) \/ AtCommandsReturn(t)
  \/ ActivateSerialControl(t) \/ CallReadSerialData(t) \/ LeaveLoop(t) \/ PortClosed(t)
  \/ PublishSpeed(t) \/ PressureZone(t) \/ UnknownMode(t)
  \/ StopAndBreak(t) \/ StopOnError(t) \/ CloseSerial(t)
-----------------------------------------------------------------------------
(***************************************************************************)
(* The action server takes its own steps, or none, whatever the node does. *)
(***************************************************************************)
ServerStep(step) ==
  /\ Alive
  /\ step
  /\ UNCHANGED <<sharedVars, cmd_vel, main, executor, sessionVars, presses, hasty, trips>>

GoalEnds ==
  \/ \E outcome \in Outcome : ServerStep(ServerFinishes(outcome))
  \/ ServerStep(ServerFinishesLate)
ServerFails == ServerStep(ServerCrashes)
ServerReturns == ServerStep(ServerRestarts)

Next ==
  \/ Main
  \/ ExecutorStep
  \/ GoalAnswered
  \/ \E t \in Sessions : SessionStep(t) \/ ReadFrame(t) \/ SerialError(t)
  \/ GoalEnds \/ ServerFails \/ ServerReturns

Spec == Init /\ [][Next]_vars

\* Every thread is scheduled, and an action server that is up accepts or rejects
\* what it is sent; one that keeps dying and coming back is up long enough for
\* wait_for_server's poll to see it.  That it ends a goal, or comes back, is not
\* assumed; nor anything of the operator, the charger's frames, or faults.
Fairness ==
  /\ WF_vars(MainStep)
  /\ WF_vars(ExecutorStep)
  /\ SF_vars(GoThroughPoses)
  /\ WF_vars(GoalAnswered)
  /\ \A t \in Sessions : WF_vars(SessionStep(t))

FairSpec == Spec /\ Fairness
-----------------------------------------------------------------------------
(***************************************************************************)
(* Properties.                                                             *)
(***************************************************************************)

\* The robot is never left driving unattended: while the node is up, the last
\* Twist it published is a speed only if some session is still in its control
\* loop, hence able to publish the stop that ends every way out of it
\* (start_serial_control's branches and its exception handler).
InLoop == {"test", "read", "act", "error"}
DrivenBySession ==
  cmd_vel = "drive" /\ main \in {"keys", "request"} => \E t \in Sessions : pc[t] \in InLoop

\* Two threads set and clear navigation_requested without a lock, yet requests
\* never multiply: every session stems from a trip of its own, and every trip
\* from a key press of its own, the pending request, the press about to be
\* queued and the one just taken included (request_navigation and
\* check_navigation_request).
One(condition) == IF condition THEN 1 ELSE 0
Born == {t \in Sessions : pc[t] # "unborn"}
EveryTripRequested ==
  /\ Cardinality(Born) <= trips
  /\ trips + One(executor = "activate") + One(navigation_requested) + One(main = "request")
       <= presses

\* Docking starts only where the navigation really took the robot (the header's
\* "start the serial control after the navigation succeeded").
DockOnlyAfterArrival == executor = "start_serial" => success = "earned"

\* What the node itself sees to, of every goal that is not rejected: docking starts
\* only on a success the server reported of this very trip's goal, never on an older
\* trip's, however that one ended (isTaskComplete and getResult read attributes that
\* all trips share).  The server's word is not always earned: a goal that took over
\* from another client's after the last tick is reported like the one before it.
DockOnOwnVerdict == executor = "start_serial" /\ ~rejected => success # "none"

\* As long as q was pressed only when nothing was going on, there are never two
\* sessions at once, a session that moves the robot while Nav2 does, or a
\* session that works on a parser it has not created; nothing in the code but
\* the operator ensures this (self.parser is overwritten by each new session).
OneAtATime ==
  ~hasty =>
    \A t \in Sessions : Live(t) =>
      /\ ~navigation_active
      /\ pc[t] # "create" => parser = t
      /\ pc[t] \in {"at", "read"} => using[t] = t
      /\ \A u \in Sessions \ {t} : ~Live(u) /\ ~port_open[u]

\* A queued request is taken up, unless the node is told to stop or waits for ever
\* for what the server does not give, be it dead or never done with a goal (the
\* 0.5 s timer of check_navigation_request).
RequestServed ==
  navigation_requested ~>
    ~navigation_requested \/ main \in {"stop", "shutdown", "exited"} \/ []AwaitsServer

\* The executor comes back from a trip to its other callbacks, whatever the server
\* says of the goal, unless it says nothing for ever (nav_through_pose polls without
\* a limit).
TripEnds ==
  executor # "spin" ~> executor = "spin" \/ main = "exited" \/ []AwaitsServer

\* A session whose port another session has closed notices, stops the robot and
\* ends, unless the port is opened again under it (read_serial_data raises on a
\* closed port, and start_serial_control catches that).
PortUsable(t) == using[t] \in Sessions /\ port_open[using[t]]
ClosedPortEndsSession ==
  \A t \in Sessions :
    pc[t] \in {"at", "read"} /\ ~PortUsable(t) ~>
      pc[t] = "done" \/ main = "exited" \/ PortUsable(t)

\* Ctrl+C leaves the robot stopped (the stop message the KeyboardInterrupt
\* handler of start_serial_control publishes for "interrupted by user").
StoppedAtExit == main = "exited" => cmd_vel # "drive"

\* The node implements the abstract charging service.
TripView ==
  CASE executor \in {"spin", "clear"} -> "none"
    [] executor = "start_serial" -> "arrived"
    [] OTHER -> "under_way"

SessionView ==
  [t \in Sessions |->
    CASE pc[t] = "unborn" -> "unborn"
      [] pc[t] \in {"finally", "done"} -> "ended"
      [] OTHER -> "docking"]

Service == INSTANCE ChargeService WITH
  request <- navigation_requested,
  trip <- TripView,
  session <- SessionView,
  speed <- cmd_vel,
  quitting <- main \in {"shutdown", "exited"}

\* Every step of the node is a step of the charging service or invisible to it:
\* a session starts from a trip that arrived, one that ended never moves the
\* robot again, and it ends with a stop unless the node is quitting.
ImplementsService == Service!Spec

-----------------------------------------------------------------------------
(***************************************************************************)
(* The inductive invariant of the proofs.                                  *)
(***************************************************************************)

\* serial_control_active stays set while a session is in the loop, until the
\* node is told to stop: no other session's end clears it.
ActiveInLoop ==
  \A t \in Sessions :
    pc[t] \in {"test", "read", "act"} /\ main \in {"keys", "request", "stop"} =>
      serial_control_active

\* The keyboard thread never clears the flag the executor has just tested.
ClearingARequest == executor = "clear" => navigation_requested

\* Every session, the one about to start included, uses up a trip.
OnTrip == executor \in {"read_goal", "send", "sending", "waiting", "result", "start_serial"}
SessionsWithinTrips == Cardinality(Born) + One(OnTrip) <= trips

\* What a trip knows of its goal, unless it was rejected: the future it polls is
\* this trip's own, so a success it reports is one of this goal.
VerdictInv ==
  /\ rejected => "reject" \in NavFaults
  /\ success = "unearned" => "late" \in NavFaults
  /\ result_future \in {"pending", "lost"} => executor = "waiting"
  /\ ~rejected =>
       /\ executor = "waiting" => result_future # "None"
       /\ executor = "waiting" /\ result_future = "SUCCEEDED" => success # "none"
       /\ executor = "result" /\ status = "SUCCEEDED" => success # "none"
  /\ DockOnOwnVerdict

IInv ==
  /\ TypeOK
  /\ ActiveInLoop
  /\ DrivenBySession
  /\ ClearingARequest
  /\ SessionsWithinTrips
  /\ EveryTripRequested
=============================================================================
