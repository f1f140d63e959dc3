------------------------ MODULE AutoRecharger_refines ------------------------
(***************************************************************************)
(* AutoRecharger implements ChargeService: its initial states map to the   *)
(* service's, and each of its steps to a step of the service or to none.   *)
(***************************************************************************)
EXTENDS AutoRecharger_proof

LEMMA InitImplements == Init => Service!Init
BY DEF Init, Service!Init, TripView, SessionView

LEMMA MainImplements == Main => [Service!Next]_(Service!vars)
<1>. USE DEF sharedVars, sessionVars, TripView, SessionView, Service!vars
<1>1. PressQ => UNCHANGED Service!vars
  BY DEF PressQ
<1>2. QueueRequest => Service!Ask
  BY DEF QueueRequest, Service!Ask
<1>3. PressCtrlC => UNCHANGED Service!vars
  BY DEF PressCtrlC
<1>4. StopSerialControl => Service!Quit
  BY DEF StopSerialControl, Service!Quit
<1>5. Shutdown => UNCHANGED Service!vars
  BY DEF Shutdown
<1>6. QED
  BY <1>1, <1>2, <1>3, <1>4, <1>5 DEF Main, MainStep, Service!Next

LEMMA ExecutorImplements ==
  TypeOK /\ ClearingARequest /\ (ExecutorStep \/ GoalAnswered) => [Service!Next]_(Service!vars)
<1> SUFFICES ASSUME TypeOK, ClearingARequest, ExecutorStep \/ GoalAnswered
             PROVE  [Service!Next]_(Service!vars)
  OBVIOUS
<1>1. UNCHANGED <<main, cmd_vel>>
  BY DEF ExecutorStep, ExecutorTo, TimerFires, ClearRequest, ActivateNavigation, ReadGoal,
     ReadGoalFails, GoThroughPoses, TaskIsComplete, NavigationReturns, NavigationFailed,
     StartSerialControlAsync, GoalAnswered
<1>. USE <1>1 DEF sharedVars, sessionVars, TripView, SessionView, Service!vars, ExecutorTo
<1>2. TimerFires \/ ActivateNavigation \/ ReadGoal \/ ReadGoalFails \/ GoThroughPoses
        \/ GoalAnswered \/ TaskIsComplete => UNCHANGED Service!vars
  BY DEF TimerFires, ActivateNavigation, ReadGoal, ReadGoalFails, GoThroughPoses, TaskIsComplete,
     GoalAnswered
<1>3. ClearRequest => Service!Depart
  BY DEF ClearRequest, ClearingARequest, Service!Depart
<1>4. NavigationReturns => Service!EndTrip \/ UNCHANGED Service!vars
  BY DEF NavigationReturns, Service!EndTrip
<1>5. NavigationFailed => Service!EndTrip
  BY DEF NavigationFailed, Service!EndTrip
<1>6. ASSUME NEW t \in Sessions, StartSerialControlAsync(t) PROVE Service!Dock(t)
  BY <1>6 DEF StartSerialControlAsync, TypeOK, Service!Dock
<1>7. QED
  BY <1>2, <1>3, <1>4, <1>5, <1>6 DEF ExecutorStep, Service!Next

LEMMA SessionImplements ==
  ASSUME TypeOK, ActiveInLoop, NEW t \in Sessions,
         SessionStep(t) \/ ReadFrame(t) \/ SerialError(t)
  PROVE  [Service!Next]_(Service!vars)
<1>. USE DEF TypeOK, Goto, TripView, SessionView, Service!vars
<1>1. CASE CreateParser(t) \/ OpenSerial(t) \/ CallSendAtCommands(t) \/ AtCommandsReturn(t)
             \/ ActivateSerialControl(t) \/ CallReadSerialData(t) \/ ReadFrame(t)
  BY <1>1 DEF CreateParser, OpenSerial, CallSendAtCommands, AtCommandsReturn,
     ActivateSerialControl, CallReadSerialData, ReadFrame
<1>2. CASE PortClosed(t) \/ SerialError(t) \/ UnknownMode(t) \/ CloseSerial(t)
  BY <1>2 DEF PortClosed, SerialError, UnknownMode, CloseSerial
<1>3. CASE PublishSpeed(t) \/ PressureZone(t)
  <2>1. Service!Move(t)
    BY <1>3 DEF PublishSpeed, PressureZone, Service!Move
  <2>2. QED
    BY <2>1 DEF Service!Next
<1>4. CASE StopAndBreak(t) \/ StopOnError(t)
  <2>1. Service!End(t)
    BY <1>4 DEF StopAndBreak, StopOnError, Service!End
  <2>2. QED
    BY <2>1 DEF Service!Next
<1>5. CASE LeaveLoop(t)
  <2>1. main \in {"shutdown", "exited"}
    BY <1>5 DEF LeaveLoop, ActiveInLoop, MainPc
  <2>2. Service!End(t)
    BY <1>5, <2>1 DEF LeaveLoop, Service!End
  <2>3. QED
    BY <2>2 DEF Service!Next
<1>6. QED
  BY <1>1, <1>2, <1>3, <1>4, <1>5 DEF SessionStep

LEMMA ServerImplements ==
  GoalEnds \/ ServerFails \/ ServerReturns => UNCHANGED Service!vars
BY DEF GoalEnds, ServerFails, ServerReturns, ServerStep, sharedVars, sessionVars, TripView,
   SessionView, Service!vars

LEMMA NextImplements == IInv /\ [Next]_vars => [Service!Next]_(Service!vars)
<1>1. UNCHANGED vars => UNCHANGED Service!vars
  BY DEF vars, sharedVars, sessionVars, TripView, SessionView, Service!vars
<1>2. IInv /\ Next => [Service!Next]_(Service!vars)
  BY MainImplements, ExecutorImplements, SessionImplements, ServerImplements DEF Next, IInv
<1>3. QED
  BY <1>1, <1>2

\* The node, with its threads, flags and overlapping sessions, never does what
\* the charging service does not allow: a session starts only from a trip that
\* was reported to have arrived, one that has ended never moves the robot, and
\* it ends with a stop unless the node is quitting.
THEOREM Implements == Spec => ImplementsService
BY InitImplements, NextImplements, Invariant, PTL DEF Spec, ImplementsService, Service!Spec
=============================================================================
