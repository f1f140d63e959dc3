---------------------------- MODULE BtNavigator ----------------------------
(***************************************************************************)
(* bt_navigator: the node that serves the charging node's goals.  It has   *)
(* two navigators, each an action server that runs a behavior tree, and a  *)
(* muxer that is to let only one of them navigate at a time.               *)
(*                                                                         *)
(* Threads: the executor, which runs the goal and cancel handlers and the  *)
(* lifecycle transitions one at a time, and one thread per server for the  *)
(* execute callback.  Every lock section is a step.                        *)
(***************************************************************************)
EXTENDS SimpleActionServer, FiniteSets

CONSTANTS
  MaxActivations,   \* bound: how often the node is activated
  MaxCancels        \* bound: goals that are being canceled or were, at a time

ASSUME NodeBoundsAssumption == MaxActivations \in Nat /\ MaxCancels \in Nat

VARIABLES
  goal,              \* goal[s]: the goal whose poses are on the tree's blackboard
  outcome,           \* outcome[s]: what the tree, and then run(), has come to
  current_navigator, \* the muxer: the server that navigates, or NoServer
  deactivating,      \* the place in Order of the server the executor deactivates,
                     \* 0 while it spins
  reached,           \* history: reached[s]: the goal whose tree has succeeded, until
                     \* the result is set
  late,              \* history: late[s]: the goal that took over from a tree that
                     \* had ended, until the result is set
  logged,            \* history: the muxer has logged its "Major error!"
  overdue,           \* history: a deactivation ran into server_timeout
  activations        \* history: activations, bounded

treeVars == <<goal, outcome, current_navigator>>
execVars == <<deactivating, activations>>
historyVars == <<reached, late, logged, overdue>>
vars == <<serverVars, treeVars, execVars, historyVars>>

TypeOK ==
  /\ ServerTypeOK
  /\ goal \in [Servers -> Goals \union {None}]
  /\ outcome \in [Servers -> {"RUNNING", "SUCCEEDED", "FAILED", "CANCELED"}]
  /\ current_navigator \in Servers \union {NoServer}
  /\ deactivating \in DOMAIN Order \union {0}
  /\ reached \in [Servers -> Goals \union {None}]
  /\ late \in [Servers -> Goals \union {None}]
  /\ logged \in BOOLEAN /\ overdue \in BOOLEAN
  /\ activations \in 0..MaxActivations

Init ==
  /\ ServerInit
  /\ goal = [s \in Servers |-> None]
  /\ outcome = [s \in Servers |-> "RUNNING"]
  /\ current_navigator = NoServer
  /\ deactivating = 0 /\ activations = 0
  /\ reached = [s \in Servers |-> None] /\ late = [s \in Servers |-> None]
  /\ logged = FALSE /\ overdue = FALSE

\* A thread that follows a null pointer takes the process with it.
Crashed == \E s \in Servers : worker[s] = "crashed"
-----------------------------------------------------------------------------
(***************************************************************************)
(* The executor.                                                           *)
(***************************************************************************)
Spins == ~Crashed /\ deactivating = 0

GoalRequest ==
  /\ Spins
  /\ \E s \in Servers : HandleGoal(s) \/ HandleAccepted(s)
  /\ UNCHANGED <<treeVars, execVars, historyVars>>

CancelRequest ==
  /\ Spins
  /\ Cardinality({g \in Goals : status[g] \in {"canceling", "canceled"}}) < MaxCancels
  /\ \E g \in Goals : HandleCancel(g)
  /\ UNCHANGED <<treeVars, execVars, historyVars>>

\* The lifecycle manager's transitions; a node is activated only when inactive, so
\* when no thread is left to look at the flags.
OnActivate ==
  /\ Spins
  /\ activations < MaxActivations
  /\ \A s \in Servers : ~server_active[s]
  /\ ActivateServers
  /\ activations' = activations + 1
  /\ UNCHANGED <<treeVars, deactivating, historyVars>>

\* deactivate() of one server after the other: it stops a server...
DeactivateFrom(i) ==
  /\ IF i \in DOMAIN Order
       THEN deactivating' = i /\ StopServer(Order[i])
       ELSE deactivating' = 0 /\ UNCHANGED serverVars
  /\ UNCHANGED <<treeVars, activations, historyVars>>

OnDeactivate ==
  /\ Spins
  /\ \A s \in Servers : server_active[s]
  /\ DeactivateFrom(1)

\* ...and waits for its thread.  The wait looks at the clock every 100 ms and, past
\* the limit, terminates what it finds, but goes on waiting.
Waits(s) == ~Crashed /\ deactivating # 0 /\ s = Order[deactivating]

MissedDeadline ==
  \E s \in Servers :
    /\ Waits(s) /\ IsRunning(s)
    /\ TerminateAll(s)
    /\ overdue' = TRUE
    /\ UNCHANGED <<sent, server_active, stop_execution, worker, treeVars, execVars,
                   reached, late, logged>>

\* Mutant: the wait is left without the thread.
DeactivatedInTime ==
  \E s \in Servers : Waits(s) /\ DeactivateFrom(deactivating + 1)

Deactivated ==
  \E s \in Servers : Waits(s) /\ ~IsRunning(s) /\ DeactivateFrom(deactivating + 1)
-----------------------------------------------------------------------------
(***************************************************************************)
(* The execute callback, from onGoalReceived to the result.                *)
(***************************************************************************)
Callback(s, from, to) ==
  /\ ~Crashed
  /\ WorkerTo(s, from, to)
  /\ UNCHANGED <<sent, server_active, stop_execution, execVars, logged, overdue>>

\* executeCallback gives a goal up that it may not or cannot start.
Refused(s) == TerminateCurrent(s) /\ goal' = [goal EXCEPT ![s] = None]

\* get_current_goal, then onGoalReceived's question to the muxer.  Only a goal it
\* goes on with is looked into, and it may be gone by now.
ReceiveGoal(s) ==
  /\ IF current_navigator # NoServer THEN Callback(s, "receive", "wrapup") /\ Refused(s)
     ELSE /\ Callback(s, "receive", IF Active(current[s]) THEN "start" ELSE "crashed")
          /\ goal' = [goal EXCEPT ![s] = current[s]]
          /\ UNCHANGED handleVars
  /\ UNCHANGED <<outcome, current_navigator, reached, late>>

\* Mutant: the muxer is not told.
StartUnannounced(s) ==
  /\ Callback(s, "start", "check")
  /\ UNCHANGED <<handleVars, treeVars, reached, late>>

\* goalReceived has loaded the goal's tree and set its poses.
StartNavigating(s) ==
  /\ ~Crashed
  /\ WorkerTo(s, "start", "check")
  /\ current_navigator' = s
  /\ logged' = (logged \/ current_navigator # NoServer)
  /\ UNCHANGED <<sent, server_active, stop_execution, handleVars, goal, outcome,
                 execVars, reached, late, overdue>>

TreeNotLoaded(s) ==
  /\ Callback(s, "start", "wrapup")
  /\ Refused(s)
  /\ UNCHANGED <<outcome, current_navigator, reached, late>>

\* Mutant: the server's state is not looked at.
OnlyAskedToCancel(s) == IsCancelRequested(s)

\* is_canceling.  server_active_ only turns FALSE while the thread lives, so
\* reading it together with the handles costs at most one more round.
IsCanceling(s) == ~server_active[s] \/ IsCancelRequested(s)

CancelRun(s) ==
  /\ IsCanceling(s)
  /\ Callback(s, "check", "complete")
  /\ outcome' = [outcome EXCEPT ![s] = "CANCELED"]
  /\ UNCHANGED <<handleVars, goal, current_navigator, reached, late>>

\* A tick of the tree; one that throws is left without another onLoop.
TreeRuns(s) ==
  /\ ~IsCanceling(s)
  /\ Callback(s, "check", "loop")
  /\ UNCHANGED <<handleVars, treeVars, reached, late>>

TreeSucceeds(s) ==
  /\ ~IsCanceling(s)
  /\ Callback(s, "check", "loop")
  /\ outcome' = [outcome EXCEPT ![s] = "SUCCEEDED"]
  /\ reached' = [reached EXCEPT ![s] = goal[s]]
  /\ UNCHANGED <<handleVars, goal, current_navigator, late>>

TreeFails(s) ==
  /\ ~IsCanceling(s)
  /\ \E to \in {"loop", "complete"} : Callback(s, "check", to)
  /\ outcome' = [outcome EXCEPT ![s] = "FAILED"]
  /\ UNCHANGED <<handleVars, goal, current_navigator, reached, late>>

RunOn(s) == IF outcome[s] = "RUNNING" THEN "check" ELSE "complete"

OnLoop(s) ==
  /\ Callback(s, "loop", IF preempt_requested[s] THEN "preempt" ELSE RunOn(s))
  /\ UNCHANGED <<handleVars, treeVars, reached, late>>

\* onPreempt compares the tree the pending goal asks for with the loaded one.
OnPreempt(s) ==
  /\ IF Active(pending[s])
       THEN \E to \in {"takeover", "decline"} : Callback(s, "preempt", to)
       ELSE Callback(s, "preempt", "crashed")
  /\ UNCHANGED <<handleVars, treeVars, reached, late>>

\* Whatever goal is pending by now takes over, also from a tree that has ended.
AcceptPendingGoal(s) ==
  \/ /\ Callback(s, "takeover", RunOn(s))
     /\ AcceptPending(s)
     /\ goal' = [goal EXCEPT ![s] = pending[s]]
     /\ late' = [late EXCEPT ![s] = IF outcome[s] = "RUNNING" THEN None ELSE pending[s]]
     /\ UNCHANGED <<outcome, current_navigator, reached>>
  \/ /\ Callback(s, "takeover", "crashed")
     /\ ~Active(pending[s])
     /\ UNCHANGED <<handleVars, treeVars, reached, late>>

DeclinePendingGoal(s) ==
  /\ Callback(s, "decline", RunOn(s))
  /\ TerminatePending(s)
  /\ UNCHANGED <<treeVars, reached, late>>

\* Mutant: the muxer is not told.
StopUnannounced(s) ==
  /\ Callback(s, "complete", "result")
  /\ UNCHANGED <<handleVars, treeVars, reached, late>>

StopNavigating(s) ==
  /\ Callback(s, "complete", "result")
  /\ current_navigator' = IF current_navigator = s THEN NoServer ELSE current_navigator
  /\ UNCHANGED <<handleVars, goal, outcome, reached, late>>

\* Mutant: what was not canceled has succeeded.
SetResultNotCanceled(s) ==
  /\ Callback(s, "result", "wrapup")
  /\ IF outcome[s] = "CANCELED" THEN TerminateAll(s) ELSE SucceededCurrent(s)
  /\ goal' = [goal EXCEPT ![s] = None]
  /\ outcome' = [outcome EXCEPT ![s] = "RUNNING"]
  /\ reached' = [reached EXCEPT ![s] = None]
  /\ late' = [late EXCEPT ![s] = None]
  /\ UNCHANGED current_navigator

SetResult(s) ==
  /\ Callback(s, "result", "wrapup")
  /\ CASE outcome[s] = "SUCCEEDED" -> SucceededCurrent(s)
       [] outcome[s] = "FAILED" -> TerminateCurrent(s)
       [] outcome[s] = "CANCELED" -> TerminateAll(s)
  /\ goal' = [goal EXCEPT ![s] = None]
  /\ outcome' = [outcome EXCEPT ![s] = "RUNNING"]
  /\ reached' = [reached EXCEPT ![s] = None]
  /\ late' = [late EXCEPT ![s] = None]
  /\ UNCHANGED current_navigator

CallbackStep(s) ==
  \/ ReceiveGoal(s) \/ StartNavigating(s) \/ TreeNotLoaded(s) \/ CancelRun(s)
  \/ TreeRuns(s) \/ TreeSucceeds(s) \/ TreeFails(s)
  \/ OnLoop(s) \/ OnPreempt(s) \/ AcceptPendingGoal(s) \/ DeclinePendingGoal(s)
  \/ StopNavigating(s) \/ SetResult(s)

Work(s) ==
  /\ ~Crashed
  /\ LoopTest(s) \/ WrapUp(s) \/ ThreadEnds(s)
  /\ UNCHANGED <<treeVars, execVars, historyVars>>
-----------------------------------------------------------------------------
Next ==
  \/ GoalRequest \/ CancelRequest \/ OnActivate \/ OnDeactivate
  \/ MissedDeadline \/ Deactivated
  \/ \E s \in Servers : CallbackStep(s) \/ Work(s)

Spec == Init /\ [][Next]_vars

\* The threads are scheduled and a tick of the tree returns; that a tree ever
\* comes to an end is not assumed, nor anything of clients and lifecycle manager.
Fairness ==
  /\ WF_vars(Deactivated)
  /\ \A s \in Servers : WF_vars(CallbackStep(s) \/ Work(s))

FairSpec == Spec /\ Fairness
-----------------------------------------------------------------------------
(***************************************************************************)
(* Properties.                                                             *)
(***************************************************************************)

\* A goal is reported as succeeded only if the tree reached it, unless it took
\* over in the onLoop that follows the tree's last tick: that goal gets the
\* success of the one it took over from (BehaviorTreeEngine::run, executeCallback).
SucceededWasReached ==
  [][\A g \in Goals :
       status'[g] = "succeeded" /\ status[g] # "succeeded" =>
         \E s \in Servers : g \in {reached[s], late[s]}]_vars

\* Two navigators never navigate at once unless the muxer has said so in its log:
\* onGoalReceived asks the muxer and tells it in two lock sections, and the
\* second always notices that the answer to the first has become wrong.
Navigating(s) == worker[s] \in {"check", "loop", "preempt", "takeover",
                                "decline", "complete"}
OneNavigatorUnlessLogged ==
  ~logged => \A s, t \in Servers : Navigating(s) /\ Navigating(t) => s = t

\* The muxer never names a navigator that does not navigate, so the end of every
\* navigation, whatever it was and also after two at once, lets the other
\* navigator's goals in (stopNavigating).
MuxerFreed == current_navigator # NoServer => Navigating(current_navigator) \/ Crashed

\* An accepted goal that no thread works on is left behind as the server's current
\* goal only by a deactivation; from then on the server puts every further goal
\* behind it (handle_accepted asks for an active handle or a running thread).
StrandedByDeactivation ==
  \A s \in Servers :
    worker[s] \in {"leaving", "ready"} /\ Active(current[s]) =>
      ~server_active[s] \/ activations > 1

\* The callbacks find every goal they ask for, unless a deactivation that ran out
\* of time has taken it away under them (get_current_goal, get_pending_goal and
\* accept_pending_goal return null, which their callers do not expect).
GoalsFoundUnlessOverdue == Crashed => overdue

\* Once the executor is done deactivating, no navigator of the node is under way.
DeactivatedIsQuiet ==
  deactivating = 0 =>
    \A s \in Servers : ~server_active[s] => worker[s] \in {"none", "ready"}

\* Cancel requests and preemptions are heeded within a round of the tree, however
\* long the tree would run: the goal ends, or the pending goal is taken up or
\* ended, unless no thread is left to do so.  Goals are finitely many, so that all
\* are heeded some time is as much as that each is.
Unheeded ==
  {g \in Goals : /\ status[g] = "canceling" \/ \E s \in Servers : pending[s] = g
                 /\ ~Stranded(g)}
Heeded == Unheeded # {} ~> Unheeded = {} \/ Crashed

\* Deactivation, which keeps the executor from everything else and waits for the
\* threads without a limit, ends.
DeactivationEnds == deactivating # 0 ~> deactivating = 0 \/ Crashed

\* Whatever the threads do, the clients see an action server.
Promise == INSTANCE GoalServer WITH running <- current, waiting <- pending
ImplementsGoalServer == Promise!Spec
=============================================================================
