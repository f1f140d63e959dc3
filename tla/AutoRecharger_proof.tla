------------------------- MODULE AutoRecharger_proof -------------------------
(***************************************************************************)
(* Proofs about AutoRecharger, for any set of sessions, any number of key  *)
(* presses and any faults.                                                 *)
(***************************************************************************)
EXTENDS AutoRecharger, FiniteSetTheorems, TLAPS

LEMMA InitTypeOK == Init => TypeOK
<1> SUFFICES ASSUME Init PROVE TypeOK
  OBVIOUS
<1>. USE DEF Init
<1>1. /\ navigation_active \in BOOLEAN
      /\ navigation_requested \in BOOLEAN
      /\ serial_control_active \in BOOLEAN
      /\ parser \in Sessions \union {NoParser}
      /\ cmd_vel \in {"none", "drive", "stop"}
  OBVIOUS
<1>2. main \in MainPc /\ executor \in ExecutorPc /\ presses \in Nat /\ trips \in Nat
  BY DEF MainPc, ExecutorPc
<1>3. port_open \in [Sessions -> BOOLEAN]
  OBVIOUS
<1>4. pc \in [Sessions -> SessionPc]
  BY DEF SessionPc
<1>5. using \in [Sessions -> Sessions \union {NoParser}] /\ frame \in [Sessions -> Kind]
  BY DEF Kind
<1>6. NavTypeOK
  BY DEF NavInit, NavTypeOK, FutureState, Success
<1>7. QED
  BY <1>1, <1>2, <1>3, <1>4, <1>5, <1>6 DEF TypeOK

LEMMA MainTypeOK == TypeOK /\ Main => TypeOK'
<1>. USE DEF TypeOK, NavTypeOK, sharedVars, sessionVars, navVars
<1>1. TypeOK /\ PressQ => TypeOK'
  BY DEF PressQ, MainPc
<1>2. TypeOK /\ QueueRequest => TypeOK'
  BY DEF QueueRequest, MainPc
<1>3. TypeOK /\ PressCtrlC => TypeOK'
  BY DEF PressCtrlC, MainPc
<1>4. TypeOK /\ StopSerialControl => TypeOK'
  BY ZenonT(30) DEF StopSerialControl, MainPc
<1>5. TypeOK /\ Shutdown => TypeOK'
  BY DEF Shutdown, MainPc
<1>6. QED
  BY <1>1, <1>2, <1>3, <1>4, <1>5 DEF Main, MainStep

LEMMA ExecutorTypeOK == TypeOK /\ (ExecutorStep \/ GoalAnswered) => TypeOK'
<1>. USE DEF TypeOK, NavTypeOK, sharedVars, sessionVars, navVars, ExecutorTo, ExecutorPc
<1>1. TypeOK /\ TimerFires => TypeOK'
  BY DEF TimerFires
<1>2. TypeOK /\ ClearRequest => TypeOK'
  BY ZenonT(30) DEF ClearRequest
<1>3. TypeOK /\ ActivateNavigation => TypeOK'
  BY DEF ActivateNavigation
<1>4. TypeOK /\ ReadGoal => TypeOK'
  BY DEF ReadGoal
<1>5. TypeOK /\ ReadGoalFails => TypeOK'
  BY ZenonT(30) DEF ReadGoalFails
<1>6. TypeOK /\ GoThroughPoses => TypeOK'
  BY DEF GoThroughPoses, SendGoal, Success
<1>7. TypeOK /\ TaskIsComplete => TypeOK'
  BY DEF TaskIsComplete, ReadStatus, TaskComplete, FutureState, Outcome
<1>8. TypeOK /\ NavigationReturns => TypeOK'
  BY ZenonT(30) DEF NavigationReturns
<1>9. TypeOK /\ NavigationFailed => TypeOK'
  BY DEF NavigationFailed
<1>10. TypeOK /\ (\E t \in Sessions : StartSerialControlAsync(t)) => TypeOK'
  BY DEF StartSerialControlAsync, SessionPc
<1>11. TypeOK /\ GoalAnswered => TypeOK'
  BY DEF GoalAnswered, GoalAccepted, GoalRejected, FutureState
<1>12. QED
  BY <1>1, <1>2, <1>3, <1>4, <1>5, <1>6, <1>7, <1>8, <1>9, <1>10, <1>11 DEF ExecutorStep

LEMMA SessionTypeOK ==
  ASSUME TypeOK, NEW t \in Sessions,
         SessionStep(t) \/ ReadFrame(t) \/ SerialError(t)
  PROVE  TypeOK'
<1>. USE DEF TypeOK, NavTypeOK, Goto, SessionPc, navVars
<1>1. CASE CreateParser(t)
  BY <1>1 DEF CreateParser
<1>2. CASE OpenSerial(t)
  <2>1. port_open' \in [Sessions -> BOOLEAN]
    BY <1>2 DEF OpenSerial
  <2>2. UNCHANGED <<serial_control_active, parser, cmd_vel, using, frame>>
    BY <1>2 DEF OpenSerial
  <2>3. pc' \in [Sessions -> SessionPc]
    BY <1>2 DEF OpenSerial
  <2>4. QED
    BY <1>2, <2>1, <2>2, <2>3 DEF OpenSerial
<1>3. CASE CallSendAtCommands(t)
  BY <1>3 DEF CallSendAtCommands
<1>4. CASE AtCommandsReturn(t)
  BY <1>4 DEF AtCommandsReturn, Returned
<1>5. CASE ActivateSerialControl(t)
  BY <1>5 DEF ActivateSerialControl
<1>6. CASE CallReadSerialData(t)
  BY <1>6 DEF CallReadSerialData
<1>7. CASE LeaveLoop(t)
  BY <1>7 DEF LeaveLoop
<1>8. CASE PortClosed(t)
  BY <1>8 DEF PortClosed, Returned
<1>9. CASE PublishSpeed(t)
  BY <1>9 DEF PublishSpeed, Handled, Kind
<1>10. CASE PressureZone(t)
  BY <1>10 DEF PressureZone, Handled, Kind
<1>11. CASE UnknownMode(t)
  BY <1>11 DEF UnknownMode, Handled, Kind
<1>12. CASE StopAndBreak(t)
  BY <1>12 DEF StopAndBreak, Handled, Kind
<1>13. CASE StopOnError(t)
  BY <1>13 DEF StopOnError
<1>14. CASE CloseSerial(t)
  <2>1. port_open' \in [Sessions -> BOOLEAN]
    BY <1>14 DEF CloseSerial
  <2>2. UNCHANGED <<serial_control_active, parser, cmd_vel, using, frame>>
    BY <1>14 DEF CloseSerial
  <2>3. pc' \in [Sessions -> SessionPc]
    BY <1>14 DEF CloseSerial
  <2>4. QED
    BY <1>14, <2>1, <2>2, <2>3 DEF CloseSerial
<1>15. CASE ReadFrame(t)
  BY <1>15 DEF ReadFrame, Returned, Kind
<1>16. CASE SerialError(t)
  BY <1>16 DEF SerialError, Returned
<1>17. QED
  BY <1>1, <1>2, <1>3, <1>4, <1>5, <1>6, <1>7, <1>8, <1>9, <1>10, <1>11, <1>12, <1>13, <1>14, <1>15, <1>16 DEF SessionStep

LEMMA ServerTypeOK == TypeOK /\ (GoalEnds \/ ServerFails \/ ServerReturns) => TypeOK'
<1>. USE DEF TypeOK, NavTypeOK, sharedVars, sessionVars, ServerStep
<1>1. TypeOK /\ GoalEnds => TypeOK'
  BY DEF GoalEnds, ServerFinishes, ServerFinishesLate, ServerReports, FutureState, Outcome, Success
<1>2. TypeOK /\ ServerFails => TypeOK'
  BY DEF ServerFails, ServerCrashes, FutureState
<1>3. TypeOK /\ ServerReturns => TypeOK'
  BY DEF ServerReturns, ServerRestarts
<1>4. QED
  BY <1>1, <1>2, <1>3

LEMMA NextTypeOK == TypeOK /\ [Next]_vars => TypeOK'
<1>1. TypeOK /\ UNCHANGED vars => TypeOK'
  BY DEF TypeOK, NavTypeOK, vars, sharedVars, sessionVars, navVars
<1>2. TypeOK /\ Next => TypeOK'
  BY MainTypeOK, ExecutorTypeOK, SessionTypeOK, ServerTypeOK DEF Next
<1>3. QED
  BY <1>1, <1>2

\* Every attribute of the node and every thread's place keeps its type.
THEOREM TypeCorrect == Spec => []TypeOK
  BY InitTypeOK, NextTypeOK, PTL DEF Spec
-----------------------------------------------------------------------------
(***************************************************************************)
(* The robot is driven by a session.  A step outside the sessions changes  *)
(* neither the last command nor the place of a session in its loop.        *)
(***************************************************************************)
LoopInv == ActiveInLoop /\ DrivenBySession

LEMMA MainLoopInv == TypeOK /\ LoopInv /\ Main => LoopInv'
<1>. USE DEF LoopInv, ActiveInLoop, DrivenBySession, sharedVars, sessionVars
<1>1. LoopInv /\ PressQ => LoopInv'
  BY DEF PressQ
<1>2. LoopInv /\ QueueRequest => LoopInv'
  BY DEF QueueRequest
<1>3. LoopInv /\ PressCtrlC => LoopInv'
  BY DEF PressCtrlC
<1>4. LoopInv /\ StopSerialControl => LoopInv'
  BY DEF StopSerialControl
<1>5. LoopInv /\ Shutdown => LoopInv'
  BY DEF Shutdown
<1>6. QED
  BY <1>1, <1>2, <1>3, <1>4, <1>5 DEF Main, MainStep

\* What the executor and the action server leave alone.
LEMMA OutsideUnchanged ==
  ASSUME (ExecutorStep /\ ~\E t \in Sessions : StartSerialControlAsync(t))
           \/ GoalAnswered \/ GoalEnds \/ ServerFails \/ ServerReturns
  PROVE  UNCHANGED <<serial_control_active, cmd_vel, main, pc, presses>>
<1>. USE DEF ExecutorTo, ServerStep, sharedVars, sessionVars
<1>1. CASE ExecutorStep /\ ~\E t \in Sessions : StartSerialControlAsync(t)
  BY <1>1 DEF ExecutorStep, TimerFires, ClearRequest, ActivateNavigation, ReadGoal,
     ReadGoalFails, GoThroughPoses, TaskIsComplete, NavigationReturns, NavigationFailed
<1>2. CASE GoalAnswered
  BY <1>2 DEF GoalAnswered
<1>3. CASE GoalEnds \/ ServerFails \/ ServerReturns
  BY <1>3 DEF GoalEnds, ServerFails, ServerReturns
<1>4. QED
  BY <1>1, <1>2, <1>3

LEMMA StartLoopInv ==
  ASSUME TypeOK, LoopInv, NEW t \in Sessions, StartSerialControlAsync(t)
  PROVE  LoopInv'
BY DEF TypeOK, LoopInv, ActiveInLoop, DrivenBySession, InLoop, StartSerialControlAsync, sharedVars

LEMMA SessionLoopInv ==
  ASSUME TypeOK, LoopInv, NEW t \in Sessions,
         SessionStep(t) \/ ReadFrame(t) \/ SerialError(t)
  PROVE  LoopInv'
<1>. USE DEF TypeOK, LoopInv, ActiveInLoop, DrivenBySession, InLoop, Goto
<1>1. CASE CreateParser(t)
  BY <1>1 DEF CreateParser
<1>2. CASE OpenSerial(t)
  BY <1>2 DEF OpenSerial
<1>3. CASE CallSendAtCommands(t)
  BY <1>3 DEF CallSendAtCommands
<1>4. CASE AtCommandsReturn(t)
  BY <1>4 DEF AtCommandsReturn
<1>5. CASE ActivateSerialControl(t)
  BY <1>5 DEF ActivateSerialControl
<1>6. CASE CallReadSerialData(t)
  BY <1>6 DEF CallReadSerialData
<1>7. CASE LeaveLoop(t)
  BY <1>7 DEF LeaveLoop
<1>8. CASE PortClosed(t)
  BY <1>8 DEF PortClosed
<1>9. CASE PublishSpeed(t)
  BY <1>9 DEF PublishSpeed
<1>10. CASE PressureZone(t)
  BY <1>10 DEF PressureZone
<1>11. CASE UnknownMode(t)
  BY <1>11 DEF UnknownMode
<1>12. CASE StopAndBreak(t)
  BY <1>12 DEF StopAndBreak
<1>13. CASE StopOnError(t)
  BY <1>13 DEF StopOnError
<1>14. CASE CloseSerial(t)
  BY <1>14 DEF CloseSerial
<1>15. CASE ReadFrame(t)
  BY <1>15 DEF ReadFrame
<1>16. CASE SerialError(t)
  BY <1>16 DEF SerialError
<1>17. QED
  BY <1>1, <1>2, <1>3, <1>4, <1>5, <1>6, <1>7, <1>8, <1>9, <1>10, <1>11, <1>12, <1>13, <1>14, <1>15, <1>16 DEF SessionStep
-----------------------------------------------------------------------------
(***************************************************************************)
(* No session without a trip, no trip without a key press.                 *)
(***************************************************************************)
Requests == trips + One(executor = "activate") + One(navigation_requested) + One(main = "request")
CountInv == ClearingARequest /\ SessionsWithinTrips /\ Requests <= presses

LEMMA BornFinite == IsFiniteSet(Born) /\ Cardinality(Born) \in Nat
<1>1. IsFiniteSet(Born)
  BY SessionsAssumption, FS_Subset DEF Born
<1>2. QED
  BY <1>1, FS_CardinalityType

LEMMA MainCountInv == TypeOK /\ CountInv /\ Main => CountInv'
<1>. USE DEF CountInv, ClearingARequest, SessionsWithinTrips, Requests, Born, OnTrip, One,
             TypeOK, sharedVars, sessionVars
<1>1. TypeOK /\ CountInv /\ PressQ => CountInv'
  BY DEF PressQ
<1>2. TypeOK /\ CountInv /\ QueueRequest => CountInv'
  BY DEF QueueRequest
<1>3. TypeOK /\ CountInv /\ PressCtrlC => CountInv'
  BY DEF PressCtrlC
<1>4. TypeOK /\ CountInv /\ StopSerialControl => CountInv'
  BY DEF StopSerialControl
<1>5. TypeOK /\ CountInv /\ Shutdown => CountInv'
  BY DEF Shutdown
<1>6. QED
  BY <1>1, <1>2, <1>3, <1>4, <1>5 DEF Main, MainStep

LEMMA ExecutorCountInv ==
  TypeOK /\ CountInv /\ (ExecutorStep \/ GoalAnswered) => CountInv'
<1> SUFFICES ASSUME TypeOK, CountInv, ExecutorStep \/ GoalAnswered PROVE CountInv'
  OBVIOUS
<1>. USE BornFinite DEF CountInv, ClearingARequest, SessionsWithinTrips, Requests, OnTrip, One,
                        TypeOK, ExecutorTo, sharedVars, sessionVars
<1>1. CASE TimerFires
  BY <1>1 DEF TimerFires, Born
<1>2. CASE ClearRequest
  BY <1>2 DEF ClearRequest, Born
<1>3. CASE ActivateNavigation
  BY <1>3 DEF ActivateNavigation, Born
<1>4. CASE ReadGoal
  BY <1>4 DEF ReadGoal, Born
<1>5. CASE ReadGoalFails
  BY <1>5 DEF ReadGoalFails, Born
<1>6. CASE GoThroughPoses
  BY <1>6 DEF GoThroughPoses, Born
<1>7. CASE TaskIsComplete
  BY <1>7 DEF TaskIsComplete, Born
<1>8. CASE NavigationReturns
  BY <1>8 DEF NavigationReturns, Born
<1>9. CASE NavigationFailed
  BY <1>9 DEF NavigationFailed, Born
<1>10. ASSUME NEW t \in Sessions, StartSerialControlAsync(t) PROVE CountInv'
  <2>1. t \notin Born /\ Born' = Born \union {t}
    BY <1>10 DEF StartSerialControlAsync, Born
  <2>2. Cardinality(Born') = Cardinality(Born) + 1
    BY <2>1, FS_AddElement
  <2>3. QED
    BY <1>10, <2>2 DEF StartSerialControlAsync
<1>11. CASE GoalAnswered
  BY <1>11 DEF GoalAnswered, Born
<1>12. QED
  BY <1>1, <1>2, <1>3, <1>4, <1>5, <1>6, <1>7, <1>8, <1>9, <1>10, <1>11 DEF ExecutorStep

LEMMA OthersCountInv ==
  ASSUME TypeOK, CountInv,
         \/ \E t \in Sessions : SessionStep(t) \/ ReadFrame(t) \/ SerialError(t)
         \/ GoalEnds \/ ServerFails \/ ServerReturns
  PROVE  CountInv'
<1>1. UNCHANGED <<executor, trips, navigation_requested, main, presses>>
  BY DEF SessionStep, CreateParser, OpenSerial, CallSendAtCommands, AtCommandsReturn,
     ActivateSerialControl, CallReadSerialData, LeaveLoop, PortClosed, PublishSpeed, PressureZone,
     UnknownMode, StopAndBreak, StopOnError, CloseSerial, ReadFrame, SerialError, Goto,
     GoalEnds, ServerFails, ServerReturns, ServerStep, sharedVars
<1>2. ASSUME NEW t \in Sessions, SessionStep(t) \/ ReadFrame(t) \/ SerialError(t)
      PROVE  \E from, to \in SessionPc \ {"unborn"} : Goto(t, from, to)
  BY <1>2 DEF SessionStep, CreateParser, OpenSerial, CallSendAtCommands, AtCommandsReturn,
     ActivateSerialControl, CallReadSerialData, LeaveLoop, PortClosed, PublishSpeed, PressureZone,
     UnknownMode, StopAndBreak, StopOnError, CloseSerial, ReadFrame, SerialError, SessionPc
<1>3. Born' = Born
  BY <1>2 DEF Goto, Born, TypeOK, GoalEnds, ServerFails, ServerReturns, ServerStep, sessionVars
<1>4. QED
  BY <1>1, <1>3 DEF CountInv, ClearingARequest, SessionsWithinTrips, Requests, OnTrip
-----------------------------------------------------------------------------
(***************************************************************************)
(* The inductive invariant and the theorems that follow from it.           *)
(***************************************************************************)
LEMMA SplitIInv == TypeOK => (IInv <=> LoopInv /\ CountInv)
<1>1. TypeOK /\ SessionsWithinTrips => Cardinality(Born) <= trips
  BY BornFinite DEF TypeOK, SessionsWithinTrips, One
<1>2. QED
  BY <1>1 DEF IInv, LoopInv, CountInv, EveryTripRequested, Requests

LEMMA InitIInv == Init => IInv
<1> SUFFICES ASSUME Init PROVE IInv
  OBVIOUS
<1>1. LoopInv
  BY DEF Init, LoopInv, ActiveInLoop, DrivenBySession
<1>2. Born = {}
  BY DEF Init, Born
<1>3. CountInv
  BY <1>2, FS_EmptySet DEF Init, CountInv, ClearingARequest, SessionsWithinTrips, Requests, OnTrip, One
<1>4. QED
  BY <1>1, <1>3, InitTypeOK, SplitIInv

LEMMA NextIInv == IInv /\ [Next]_vars => IInv'
<1> SUFFICES ASSUME IInv, [Next]_vars PROVE IInv'
  OBVIOUS
<1>1. TypeOK /\ LoopInv /\ CountInv
  BY SplitIInv DEF IInv
<1>2. TypeOK'
  BY <1>1, NextTypeOK
<1>3. LoopInv'
  <2>1. CASE UNCHANGED <<serial_control_active, cmd_vel, main, pc, presses>>
    BY <1>1, <2>1 DEF LoopInv, ActiveInLoop, DrivenBySession
  <2>2. CASE UNCHANGED vars
    BY <2>1, <2>2 DEF vars, sharedVars, sessionVars
  <2>3. QED
    BY <1>1, <2>1, <2>2, MainLoopInv, OutsideUnchanged, StartLoopInv, SessionLoopInv DEF Next
<1>4. CountInv'
  <2>1. CASE UNCHANGED vars
    BY <1>1, <2>1 DEF vars, sharedVars, sessionVars, CountInv, ClearingARequest,
       SessionsWithinTrips, Requests, OnTrip, Born
  <2>2. QED
    BY <1>1, <2>1, MainCountInv, ExecutorCountInv, OthersCountInv DEF Next
<1>5. (LoopInv /\ CountInv => IInv)'
  BY <1>2, SplitIInv, PTL
<1>6. QED
  BY <1>3, <1>4, <1>5

\* The inductive invariant holds in every reachable state.
THEOREM Invariant == Spec => []IInv
  BY InitIInv, NextIInv, PTL DEF Spec

\* While the node is up, a speed on /cmd_vel has a session behind it that is in
\* its control loop (start_serial_control), however many sessions overlap.
THEOREM DrivenBySessionHolds == Spec => []DrivenBySession
<1>1. IInv => DrivenBySession
  BY DEF IInv
<1>2. QED
  BY <1>1, Invariant, PTL

\* Sessions never outnumber trips, nor trips key presses, although the flags
\* that carry a request from thread to thread are tested and set in separate
\* steps (request_navigation, check_navigation_request).
THEOREM EveryTripRequestedHolds == Spec => []EveryTripRequested
<1>1. IInv => EveryTripRequested
  BY DEF IInv
<1>2. QED
  BY <1>1, Invariant, PTL
-----------------------------------------------------------------------------
(***************************************************************************)
(* Docking only on the server's success for this trip's goal, unless the   *)
(* goal was rejected.  Nav variables change with the executor's steps and  *)
(* the server's only.                                                      *)
(***************************************************************************)
LEMMA ExecutorVerdictInv ==
  ASSUME TypeOK, VerdictInv, ExecutorStep \/ GoalAnswered
  PROVE  VerdictInv'
<1>. USE DEF VerdictInv, DockOnOwnVerdict, ExecutorTo, navVars
<1>1. CASE TimerFires \/ ClearRequest \/ ActivateNavigation \/ ReadGoal \/ ReadGoalFails
             \/ NavigationFailed
  BY <1>1 DEF TimerFires, ClearRequest, ActivateNavigation, ReadGoal, ReadGoalFails, NavigationFailed
<1>2. CASE GoThroughPoses
  BY <1>2 DEF GoThroughPoses, SendGoal
<1>3. CASE GoalAnswered
  BY <1>3 DEF GoalAnswered, GoalAccepted, GoalRejected, TypeOK, NavTypeOK
<1>4. CASE TaskIsComplete
  BY <1>4 DEF TaskIsComplete, ReadStatus, TaskComplete, Outcome
<1>5. CASE NavigationReturns
  BY <1>5 DEF NavigationReturns, ResultSucceeded
<1>6. CASE \E t \in Sessions : StartSerialControlAsync(t)
  BY <1>6 DEF StartSerialControlAsync
<1>7. QED
  BY <1>1, <1>2, <1>3, <1>4, <1>5, <1>6 DEF ExecutorStep

LEMMA ServerVerdictInv ==
  VerdictInv /\ (GoalEnds \/ ServerFails \/ ServerReturns) => VerdictInv'
<1>. USE DEF VerdictInv, DockOnOwnVerdict, ServerStep
<1>1. ASSUME VerdictInv, GoalEnds PROVE VerdictInv'
  <2>1. PICK outcome \in Outcome, earned \in Success :
          /\ ServerStep(ServerReports(outcome, earned))
          /\ outcome = "SUCCEEDED" => earned # "none"
          /\ earned = "unearned" => "late" \in NavFaults
    BY <1>1 DEF GoalEnds, ServerFinishes, ServerFinishesLate, Outcome, Success
  <2>2. executor = "waiting" /\ UNCHANGED <<executor, status, rejected>>
    BY <1>1, <2>1 DEF ServerReports
  <2>3. result_future' = outcome /\ success' = earned
    BY <2>1 DEF ServerReports
  <2>4. outcome \notin {"pending", "lost", "None"}
    BY DEF Outcome
  <2>5. QED
    BY <1>1, <2>1, <2>2, <2>3, <2>4
<1>2. VerdictInv /\ ServerFails => VerdictInv'
  BY DEF ServerFails, ServerCrashes
<1>3. VerdictInv /\ ServerReturns => VerdictInv'
  BY DEF ServerReturns, ServerRestarts
<1>4. QED
  BY <1>1, <1>2, <1>3

LEMMA OthersVerdictInv ==
  ASSUME VerdictInv,
         \/ Main
         \/ \E t \in Sessions : SessionStep(t) \/ ReadFrame(t) \/ SerialError(t)
         \/ UNCHANGED vars
  PROVE  VerdictInv'
<1>1. UNCHANGED <<executor, navVars>>
  BY DEF Main, MainStep, PressQ, QueueRequest, PressCtrlC, StopSerialControl, Shutdown,
     SessionStep, CreateParser, OpenSerial, CallSendAtCommands, AtCommandsReturn,
     ActivateSerialControl, CallReadSerialData, LeaveLoop, PortClosed, PublishSpeed, PressureZone,
     UnknownMode, StopAndBreak, StopOnError, CloseSerial, ReadFrame, SerialError, Goto, vars
<1>2. QED
  BY <1>1 DEF VerdictInv, DockOnOwnVerdict, navVars

LEMMA VerdictInvariant == Spec => []VerdictInv
<1>1. Init => VerdictInv
  BY DEF Init, NavInit, VerdictInv, DockOnOwnVerdict
<1>2. TypeOK /\ VerdictInv /\ [Next]_vars => VerdictInv'
  BY ExecutorVerdictInv, ServerVerdictInv, OthersVerdictInv DEF Next
<1>3. QED
  BY <1>1, <1>2, TypeCorrect, PTL DEF Spec

\* Unless its goal was rejected, a trip leads to docking only on a success that the
\* server reported of that very goal, whatever crashes, rejections, late takeovers
\* and overlaps came before it (nav_through_pose, isTaskComplete, getResult).
THEOREM DockOnOwnVerdictHolds == Spec => []DockOnOwnVerdict
<1>1. VerdictInv => DockOnOwnVerdict
  BY DEF VerdictInv
<1>2. QED
  BY <1>1, VerdictInvariant, PTL

\* So docking starts only after arrival with an action server that rejects no goal
\* and is never late: that tells of success only when its tree ran for the goal.  The
\* runs recharger_stale_verdict and bt_navigator show that both happen.
THEOREM DockOnlyAfterArrivalHolds ==
  NavFaults \subseteq {"crash"} => (Spec => []DockOnlyAfterArrival)
<1> SUFFICES ASSUME NavFaults \subseteq {"crash"} PROVE Spec => []DockOnlyAfterArrival
  OBVIOUS
<1>1. TypeOK /\ VerdictInv => DockOnlyAfterArrival
  BY DEF TypeOK, NavTypeOK, Success, VerdictInv, DockOnOwnVerdict, DockOnlyAfterArrival
<1>2. QED
  BY <1>1, TypeCorrect, VerdictInvariant, PTL
-----------------------------------------------------------------------------
(***************************************************************************)
(* One thing at a time, while the operator is patient.  A request is one   *)
(* token that goes from the keyboard to the flag, to the executor and to a *)
(* session; a session that is alone works on its own parser and its own    *)
(* port.                                                                   *)
(***************************************************************************)
Navigates == {"read_goal", "send", "sending", "waiting", "result"}
Asleep == \A t \in Sessions : ~Live(t)

OneToken ==
  /\ main = "request" => executor = "spin" /\ ~navigation_requested
  /\ navigation_requested => executor \in {"spin", "clear"}
  /\ main = "request" \/ navigation_requested \/ executor # "spin" => Asleep
  /\ \A t \in Sessions : Live(t) => \A u \in Sessions \ {t} : ~Live(u)

OwnLine ==
  \A t \in Sessions :
    /\ Live(t) /\ pc[t] # "create" => parser = t
    /\ pc[t] \in {"at", "read"} => using[t] = t
    /\ port_open[t] => Live(t)

PatientInv ==
  /\ navigation_active => executor \in Navigates
  /\ ~hasty => OneToken /\ OwnLine

LEMMA MainPatientInv ==
  ASSUME PatientInv, Main
  PROVE  PatientInv'
<1>. USE DEF PatientInv, OneToken, OwnLine, Asleep, Live, sharedVars, sessionVars
<1>1. CASE PressQ
  BY <1>1 DEF PressQ, Quiet
<1>2. CASE QueueRequest
  BY <1>2 DEF QueueRequest
<1>3. CASE PressCtrlC
  BY <1>3 DEF PressCtrlC
<1>4. CASE StopSerialControl
  BY <1>4 DEF StopSerialControl
<1>5. CASE Shutdown
  BY <1>5 DEF Shutdown
<1>6. QED
  BY <1>1, <1>2, <1>3, <1>4, <1>5 DEF Main, MainStep

LEMMA ExecutorPatientInv ==
  ASSUME TypeOK, PatientInv, ExecutorStep \/ GoalAnswered
  PROVE  PatientInv'
<1>. USE DEF PatientInv, OneToken, OwnLine, Asleep, Live, Navigates, ExecutorTo, sharedVars, sessionVars
<1>1. CASE TimerFires
  BY <1>1 DEF TimerFires
<1>2. CASE ClearRequest
  BY <1>2 DEF ClearRequest
<1>3. CASE ActivateNavigation
  BY <1>3 DEF ActivateNavigation
<1>4. CASE ReadGoal \/ ReadGoalFails
  BY <1>4 DEF ReadGoal, ReadGoalFails
<1>5. CASE GoThroughPoses \/ GoalAnswered \/ TaskIsComplete
  BY <1>5 DEF GoThroughPoses, GoalAnswered, TaskIsComplete
<1>6. CASE NavigationReturns \/ NavigationFailed
  BY <1>6 DEF NavigationReturns, NavigationFailed
<1>7. ASSUME NEW t \in Sessions, StartSerialControlAsync(t) PROVE PatientInv'
  <2>1. /\ executor = "start_serial" /\ executor' = "spin" /\ pc[t] = "unborn" /\ pc'[t] = "create"
        /\ \A u \in Sessions : u # t => pc'[u] = pc[u]
        /\ UNCHANGED <<sharedVars, main, using, hasty>>
    BY <1>7 DEF StartSerialControlAsync, TypeOK
  <2>2. ~navigation_active
    BY <2>1
  <2>3. ASSUME ~hasty PROVE OneToken'
    BY <2>1, <2>3
  <2>4. ASSUME ~hasty PROVE OwnLine'
    BY <2>1, <2>4
  <2>5. QED
    BY <2>1, <2>2, <2>3, <2>4
<1>8. QED
  BY <1>1, <1>2, <1>3, <1>4, <1>5, <1>6, <1>7 DEF ExecutorStep

\* A session's step wakes no other, and leaves the token where it is.
LEMMA GotoKeepsToken ==
  ASSUME TypeOK, OneToken, NEW t \in Sessions, NEW from \in SessionPc \ {"unborn", "done"},
         NEW to \in SessionPc, Goto(t, from, to)
  PROVE  /\ OneToken'
         /\ Live(t) /\ pc[t] = from /\ pc'[t] = to
         /\ \A u \in Sessions : u # t => ~Live(u) /\ pc'[u] = pc[u]
BY DEF TypeOK, OneToken, Asleep, Live, Goto

LEMMA SessionPatientInv ==
  ASSUME TypeOK, PatientInv, NEW t \in Sessions,
         SessionStep(t) \/ ReadFrame(t) \/ SerialError(t)
  PROVE  PatientInv'
<1>1. /\ \E from \in SessionPc \ {"unborn", "done"}, to \in SessionPc : Goto(t, from, to)
      /\ UNCHANGED <<navigation_active, executor, hasty>>
  BY DEF SessionStep, CreateParser, OpenSerial, CallSendAtCommands, AtCommandsReturn,
     ActivateSerialControl, CallReadSerialData, LeaveLoop, PortClosed, PublishSpeed, PressureZone,
     UnknownMode, StopAndBreak, StopOnError, CloseSerial, ReadFrame, SerialError, SessionPc, Goto
<1>. SUFFICES ASSUME ~hasty PROVE OneToken' /\ OwnLine'
  BY <1>1 DEF PatientInv
<1>2. OneToken /\ OwnLine
  BY DEF PatientInv
<1>3. OneToken' /\ \A u \in Sessions : u # t => ~Live(u) /\ pc'[u] = pc[u]
  BY <1>1, <1>2, GotoKeepsToken
<1>4. SUFFICES OwnLine'
  BY <1>3
<1>. USE <1>2, <1>3 DEF TypeOK, OwnLine, Live, Goto, Returned
<1>5. CASE CreateParser(t)
  BY <1>5 DEF CreateParser
<1>6. CASE OpenSerial(t)
  BY <1>6 DEF OpenSerial
<1>7. CASE CallSendAtCommands(t)
  BY <1>7 DEF CallSendAtCommands
<1>8. CASE AtCommandsReturn(t)
  BY <1>8 DEF AtCommandsReturn
<1>9. CASE ActivateSerialControl(t)
  BY <1>9 DEF ActivateSerialControl
<1>10. CASE CallReadSerialData(t)
  BY <1>10 DEF CallReadSerialData
<1>11. CASE LeaveLoop(t)
  BY <1>11 DEF LeaveLoop
<1>12. CASE PortClosed(t)
  BY <1>12 DEF PortClosed
<1>13. CASE PublishSpeed(t)
  BY <1>13 DEF PublishSpeed
<1>14. CASE PressureZone(t)
  BY <1>14 DEF PressureZone
<1>15. CASE UnknownMode(t)
  BY <1>15 DEF UnknownMode
<1>16. CASE StopAndBreak(t)
  BY <1>16 DEF StopAndBreak
<1>17. CASE StopOnError(t)
  BY <1>17 DEF StopOnError
<1>18. CASE CloseSerial(t)
  BY <1>18 DEF CloseSerial
<1>19. CASE ReadFrame(t)
  BY <1>19 DEF ReadFrame
<1>20. CASE SerialError(t)
  BY <1>20 DEF SerialError
<1>21. QED
  BY <1>5, <1>6, <1>7, <1>8, <1>9, <1>10, <1>11, <1>12, <1>13, <1>14, <1>15, <1>16, <1>17, <1>18, <1>19, <1>20 DEF SessionStep

LEMMA PatientInvariant == Spec => []PatientInv
<1>1. Init => PatientInv
  BY DEF Init, PatientInv, OneToken, OwnLine, Asleep, Live
<1>2. TypeOK /\ PatientInv /\ [Next]_vars => PatientInv'
  <2>. SUFFICES ASSUME TypeOK, PatientInv, [Next]_vars PROVE PatientInv'
    OBVIOUS
  <2>1. CASE UNCHANGED vars \/ GoalEnds \/ ServerFails \/ ServerReturns
    <3>1. UNCHANGED <<sharedVars, main, executor, pc, using, hasty>>
      BY <2>1 DEF vars, sessionVars, GoalEnds, ServerFails, ServerReturns, ServerStep
    <3>2. QED
      BY <3>1 DEF PatientInv, OneToken, OwnLine, Asleep, Live, sharedVars
  <2>2. QED
    BY <2>1, MainPatientInv, ExecutorPatientInv, SessionPatientInv DEF Next
<1>3. QED
  BY <1>1, <1>2, TypeCorrect, PTL DEF Spec

\* While q is pressed only when nothing is going on, no two sessions are up at
\* once, none moves the robot while Nav2 does, and each works on the parser it
\* created (start_serial_control, which reads self.parser anew at every call).
THEOREM OneAtATimeHolds == Spec => []OneAtATime
<1>1. PatientInv => OneAtATime
  <2>. SUFFICES ASSUME PatientInv, ~hasty, NEW t \in Sessions, Live(t)
                PROVE  /\ ~navigation_active
                       /\ pc[t] # "create" => parser = t
                       /\ pc[t] \in {"at", "read"} => using[t] = t
                       /\ \A u \in Sessions \ {t} : ~Live(u) /\ ~port_open[u]
    BY DEF OneAtATime
  <2>1. OneToken /\ OwnLine
    BY DEF PatientInv
  <2>2. executor = "spin"
    BY <2>1 DEF OneToken, Asleep
  <2>3. ~navigation_active
    BY <2>2 DEF PatientInv, Navigates
  <2>4. QED
    BY <2>1, <2>3 DEF OneToken, OwnLine
<1>2. QED
  BY <1>1, PatientInvariant, PTL
=============================================================================
