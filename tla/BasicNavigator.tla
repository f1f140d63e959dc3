--------------------------- MODULE BasicNavigator ---------------------------
(***************************************************************************)
(* The part of nav2_simple_commander's BasicNavigator that the charging    *)
(* node drives: goThroughPoses, isTaskComplete and getResult, together     *)
(* with the NavigateThroughPoses action server as seen from this client.   *)
(*                                                                         *)
(* The module has no specification of its own: AutoRecharger composes its  *)
(* actions with the thread that calls them.                                *)
(***************************************************************************)
CONSTANT NavFaults      \* what the action server may do to a goal: reject it, die with
                        \* it, or have it take over from another client's too late

ASSUME NavFaultsAssumption == NavFaults \subseteq {"reject", "crash", "late"}

VARIABLES
  nav_server,       \* the action server's process: "up" or "down"
  send_goal_future, \* "idle", "sent", or "lost" when the server died with it
  result_future,    \* "None", "pending", "lost", or the status it resolved to
  status,           \* self.status: what isTaskComplete last read
  success,          \* history: what success the server has reported of this trip's goal
  rejected          \* history: the goal of this trip was rejected

navVars == <<nav_server, send_goal_future, result_future, status, success, rejected>>

Outcome == {"SUCCEEDED", "ABORTED", "CANCELED"}
Success == {"none", "earned", "unearned"}
FutureState == {"None", "pending", "lost"} \union Outcome

NavTypeOK ==
  /\ nav_server \in {"up", "down"}
  /\ send_goal_future \in {"idle", "sent", "lost"}
  /\ result_future \in FutureState
  /\ status \in {"None"} \union Outcome
  /\ success \in Success
  /\ rejected \in BOOLEAN

NavInit ==
  /\ nav_server = "up"
  /\ send_goal_future = "idle"
  /\ result_future = "None"
  /\ status = "None"
  /\ success = "none"
  /\ rejected = FALSE
-----------------------------------------------------------------------------
(***************************************************************************)
(* goThroughPoses: wait for the server, send the goal, spin until the      *)
(* server has answered.  A rejected goal returns early: result_future and  *)
(* status keep what the previous task left in them.                        *)
(***************************************************************************)
SendGoal ==
  /\ nav_server = "up"
  /\ send_goal_future' = "sent"
  /\ success' = "none"
  /\ rejected' = FALSE
  /\ UNCHANGED <<nav_server, result_future, status>>

\* Mutant: a future the task before has left is kept.
GoalAcceptedFutureKept ==
  /\ nav_server = "up"
  /\ send_goal_future = "sent"
  /\ send_goal_future' = "idle"
  /\ result_future' = IF result_future = "None" THEN "pending" ELSE result_future
  /\ UNCHANGED <<nav_server, status, success, rejected>>

GoalAccepted ==
  /\ nav_server = "up"
  /\ send_goal_future = "sent"
  /\ send_goal_future' = "idle"
  /\ result_future' = "pending"
  /\ UNCHANGED <<nav_server, status, success, rejected>>

GoalRejected ==
  /\ "reject" \in NavFaults
  /\ nav_server = "up"
  /\ send_goal_future = "sent"
  /\ send_goal_future' = "idle"
  /\ rejected' = TRUE
  /\ UNCHANGED <<nav_server, result_future, status, success>>

\* Mutants: a poll that times out counts as complete, or a failure does not.
TaskPolled == TRUE
TaskSucceeded == result_future \in {"None", "SUCCEEDED"}

(***************************************************************************)
(* isTaskComplete: a missing future counts as complete, a resolved one is  *)
(* complete and its status is remembered, any other is polled again.       *)
(***************************************************************************)
TaskComplete == result_future \in {"None"} \union Outcome

ReadStatus ==
  /\ TaskComplete
  /\ status' = IF result_future = "None" THEN status ELSE result_future
  /\ UNCHANGED <<nav_server, send_goal_future, result_future, success, rejected>>

\* getResult() == TaskResult.SUCCEEDED
ResultSucceeded == status = "SUCCEEDED"
-----------------------------------------------------------------------------
(***************************************************************************)
(* The action server, bt_navigator's, as far as one client of it can tell; *)
(* BtNavigator has its inside.  It may have other clients, and it need not *)
(* end a goal it took: a tree may run for ever, and a goal may be left     *)
(* pending.  Its process may die and come back; what it was asked before   *)
(* it died is never answered.                                              *)
(***************************************************************************)
ServerReports(outcome, earned) ==
  /\ nav_server = "up"
  /\ result_future = "pending"
  /\ result_future' = outcome
  /\ success' = earned
  /\ UNCHANGED <<nav_server, send_goal_future, status, rejected>>

\* The tree that ran for the goal has ended, or the goal was canceled, replaced by
\* another client's or terminated.
ServerFinishes(outcome) ==
  ServerReports(outcome, IF outcome = "SUCCEEDED" THEN "earned" ELSE "none")

\* The goal took over from another client's after the last tick of that one's tree,
\* which succeeded (SucceededWasReached in BtNavigator).
ServerFinishesLate ==
  /\ "late" \in NavFaults
  /\ ServerReports("SUCCEEDED", "unearned")

ServerCrashes ==
  /\ "crash" \in NavFaults
  /\ nav_server = "up"
  /\ nav_server' = "down"
  /\ send_goal_future' = IF send_goal_future = "sent" THEN "lost" ELSE send_goal_future
  /\ result_future' = IF result_future = "pending" THEN "lost" ELSE result_future
  /\ UNCHANGED <<status, success, rejected>>

ServerRestarts ==
  /\ nav_server = "down"
  /\ nav_server' = "up"
  /\ UNCHANGED <<send_goal_future, result_future, status, success, rejected>>

\* The client waits: for a server that is down, for an answer that died with it, or
\* for the end of its goal.
AwaitsServer ==
  nav_server = "down" \/ send_goal_future = "lost" \/ result_future \in {"pending", "lost"}
=============================================================================
