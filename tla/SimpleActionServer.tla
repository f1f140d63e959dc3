------------------------- MODULE SimpleActionServer -------------------------
(***************************************************************************)
(* nav2_util's SimpleActionServer as the navigators of bt_navigator use    *)
(* it: without a thread of its own for the handlers, and without a         *)
(* completion callback.  A server holds the goal it works on and at most   *)
(* one goal that waits to take over; a thread started for the first goal   *)
(* runs the execute callback until no goal is left.                        *)
(*                                                                         *)
(* A method locks update_mutex_ for its whole body, so it is one step.     *)
(* The thread's loop condition and its end are outside the lock.           *)
(*                                                                         *)
(* The module has no specification of its own: BtNavigator composes its    *)
(* actions with the execute callback and the thread of the executor.       *)
(***************************************************************************)
EXTENDS Integers, Sequences

CONSTANTS
  Order,        \* the servers of the node in the order in which it deactivates them
  MaxGoals      \* bound: goals the clients send

NoServer == ""   \* the muxer's word for it, so no server has this name
ASSUME OrderAssumption == Order \in Seq(STRING \ {NoServer})
ASSUME MaxGoalsAssumption == MaxGoals \in Nat

Servers == {Order[i] : i \in DOMAIN Order}
Goals == 1..MaxGoals
None == 0

VARIABLES
  sent,              \* number of goals sent
  status,            \* status[g]: what the client of goal g sees
  current,           \* current[s]: current_handle_, or None
  pending,           \* pending[s]: pending_handle_, or None
  preempt_requested,
  server_active,
  stop_execution,
  worker             \* worker[s]: where the thread of execution_future_ is, "none"
                     \* without a future, "ready" when the thread has ended

handleVars == <<status, current, pending, preempt_requested>>
serverVars == <<sent, handleVars, server_active, stop_execution, worker>>

Ended == {"succeeded", "aborted", "canceled"}
Status == {"unsent", "rejected", "executing", "canceling"} \union Ended
\* Where the thread is inside the execute callback; BtNavigator gives them meaning.
InCallback == {"receive", "start", "check", "loop", "preempt", "takeover",
               "decline", "complete", "result"}
WorkerPc == {"none", "test", "wrapup", "leaving", "ready", "crashed"} \union InCallback

Active(g) == g # None /\ status[g] \in {"executing", "canceling"}
IsRunning(s) == worker[s] \notin {"none", "ready"}

ServerTypeOK ==
  /\ sent \in 0..MaxGoals
  /\ status \in [Goals -> Status]
  /\ current \in [Servers -> Goals \union {None}]
  /\ pending \in [Servers -> Goals \union {None}]
  /\ preempt_requested \in [Servers -> BOOLEAN]
  /\ server_active \in [Servers -> BOOLEAN]
  /\ stop_execution \in [Servers -> BOOLEAN]
  /\ worker \in [Servers -> WorkerPc]
  /\ \A s \in Servers : /\ \A g \in {current[s], pending[s]} : g # None => Active(g)
                        /\ preempt_requested[s] = (pending[s] # None)

ServerInit ==
  /\ sent = 0
  /\ status = [g \in Goals |-> "unsent"]
  /\ current = [s \in Servers |-> None]
  /\ pending = [s \in Servers |-> None]
  /\ preempt_requested = [s \in Servers |-> FALSE]
  /\ server_active = [s \in Servers |-> FALSE]
  /\ stop_execution = [s \in Servers |-> FALSE]
  /\ worker = [s \in Servers |-> "none"]

WorkerTo(s, from, to) == worker[s] = from /\ worker' = [worker EXCEPT ![s] = to]
-----------------------------------------------------------------------------
(***************************************************************************)
(* What the methods do to the two handles.                                 *)
(***************************************************************************)
Verdict(g) == IF status[g] = "canceling" THEN "canceled" ELSE "aborted"
Terminated(S) ==
  [g \in Goals |-> IF g \in S /\ Active(g) THEN Verdict(g) ELSE status[g]]
Reset(handle, s) == [handle EXCEPT ![s] = IF Active(@) THEN None ELSE @]

TerminateAll(s) ==
  /\ status' = Terminated({current[s], pending[s]})
  /\ current' = Reset(current, s)
  /\ pending' = Reset(pending, s)
  /\ preempt_requested' = [preempt_requested EXCEPT ![s] = FALSE]

TerminateCurrent(s) ==
  /\ status' = Terminated({current[s]})
  /\ current' = Reset(current, s)
  /\ UNCHANGED <<pending, preempt_requested>>

\* Mutant: the request stays.
TerminatePendingStillRequested(s) ==
  /\ status' = Terminated({pending[s]})
  /\ pending' = Reset(pending, s)
  /\ UNCHANGED <<current, preempt_requested>>

\* Without an active pending goal it only logs an error.
TerminatePending(s) ==
  /\ status' = Terminated({pending[s]})
  /\ pending' = Reset(pending, s)
  /\ preempt_requested' = [preempt_requested EXCEPT ![s] = @ /\ ~Active(pending[s])]
  /\ UNCHANGED current

SucceededCurrent(s) ==
  /\ status' = [g \in Goals |->
                  IF g = current[s] /\ Active(g) THEN "succeeded" ELSE status[g]]
  /\ current' = Reset(current, s)
  /\ UNCHANGED <<pending, preempt_requested>>

\* Mutants: the goal taken over is left as it is; the request stays.
AcceptPendingSilently(s) ==
  /\ Active(pending[s])
  /\ current' = [current EXCEPT ![s] = pending[s]]
  /\ pending' = [pending EXCEPT ![s] = None]
  /\ preempt_requested' = [preempt_requested EXCEPT ![s] = FALSE]
  /\ UNCHANGED status
AcceptPendingStillRequested(s) ==
  /\ Active(pending[s])
  /\ status' = [g \in Goals |->
                  IF g = current[s] /\ g # pending[s] /\ Active(g)
                    THEN "aborted" ELSE status[g]]
  /\ current' = [current EXCEPT ![s] = pending[s]]
  /\ pending' = [pending EXCEPT ![s] = None]
  /\ UNCHANGED preempt_requested

AcceptPending(s) ==
  /\ Active(pending[s])
  /\ status' = [g \in Goals |->
                  IF g = current[s] /\ g # pending[s] /\ Active(g)
                    THEN "aborted" ELSE status[g]]
  /\ current' = [current EXCEPT ![s] = pending[s]]
  /\ pending' = [pending EXCEPT ![s] = None]
  /\ preempt_requested' = [preempt_requested EXCEPT ![s] = FALSE]

\* Mutant: only the pending goal's cancellation counts.
PendingCancelRequested(s) == pending[s] # None /\ status[pending[s]] = "canceling"

IsCancelRequested(s) ==
  /\ current[s] # None
  /\ status[IF pending[s] # None THEN pending[s] ELSE current[s]] = "canceling"
-----------------------------------------------------------------------------
(***************************************************************************)
(* The handlers, called by the executor.  handle_goal and handle_accepted  *)
(* are one step: the first only reads server_active_, which no other       *)
(* thread changes.                                                         *)
(***************************************************************************)
HandleGoal(s) ==
  LET g == sent + 1 IN
  /\ g \in Goals
  /\ ~server_active[s]
  /\ sent' = g
  /\ status' = [status EXCEPT ![g] = "rejected"]
  /\ UNCHANGED <<current, pending, preempt_requested, server_active, stop_execution, worker>>

HandleAccepted(s) ==
  LET g == sent + 1 IN
  /\ g \in Goals
  /\ server_active[s]
  /\ sent' = g
  /\ status' = [Terminated({pending[s]}) EXCEPT ![g] = "executing"]
  /\ \/ /\ Active(current[s]) \/ IsRunning(s)
        /\ pending' = [pending EXCEPT ![s] = g]
        /\ preempt_requested' = [preempt_requested EXCEPT ![s] = TRUE]
        /\ UNCHANGED <<current, worker>>
     \/ /\ ~Active(current[s]) /\ ~IsRunning(s)
        /\ pending' = Reset(pending, s)
        /\ preempt_requested' =
             [preempt_requested EXCEPT ![s] = @ /\ ~Active(pending[s])]
        /\ current' = [current EXCEPT ![s] = g]
        /\ worker' = [worker EXCEPT ![s] = "test"]
  /\ UNCHANGED <<server_active, stop_execution>>

HandleCancel(g) ==
  /\ status[g] = "executing"
  /\ status' = [status EXCEPT ![g] = "canceling"]
  /\ UNCHANGED <<sent, current, pending, preempt_requested, server_active,
                 stop_execution, worker>>
-----------------------------------------------------------------------------
(***************************************************************************)
(* The thread: work() around the execute callback.                         *)
(***************************************************************************)
LoopTest(s) ==
  /\ WorkerTo(s, "test",
       IF ~stop_execution[s] /\ Active(current[s]) THEN "receive" ELSE "leaving")
  /\ UNCHANGED <<sent, handleVars, server_active, stop_execution>>

\* Mutant: the thread ends after taking up the pending goal.
WrapUpAndLeave(s) ==
  /\ WorkerTo(s, "wrapup", "leaving")
  /\ IF stop_execution[s] THEN TerminateAll(s)
     ELSE IF Active(pending[s]) THEN AcceptPending(s)
     ELSE UNCHANGED handleVars
  /\ UNCHANGED <<sent, server_active, stop_execution>>

\* The callback has returned.  The call of the missing completion callback throws,
\* which ends the thread as the break after it would.  No callback of this node
\* returns with its goal active, so the source's case for that is left out.
WrapUp(s) ==
  /\ worker[s] = "wrapup"
  /\ IF stop_execution[s]
       THEN TerminateAll(s) /\ WorkerTo(s, "wrapup", "leaving")
     ELSE IF Active(pending[s])
       THEN AcceptPending(s) /\ WorkerTo(s, "wrapup", "test")
     ELSE WorkerTo(s, "wrapup", "leaving") /\ UNCHANGED handleVars
  /\ UNCHANGED <<sent, server_active, stop_execution>>

ThreadEnds(s) ==
  /\ WorkerTo(s, "leaving", "ready")
  /\ UNCHANGED <<sent, handleVars, server_active, stop_execution>>
-----------------------------------------------------------------------------
(***************************************************************************)
(* Activation and deactivation.                                            *)
(***************************************************************************)
ActivateServers ==
  /\ server_active' = [s \in Servers |-> TRUE]
  /\ stop_execution' = [s \in Servers |-> FALSE]
  /\ UNCHANGED <<sent, handleVars, worker>>

StopServer(s) ==
  /\ server_active' = [server_active EXCEPT ![s] = FALSE]
  /\ stop_execution' = [stop_execution EXCEPT ![s] = TRUE]
  /\ UNCHANGED <<sent, handleVars, worker>>

\* A goal no thread will ever look at: the thread has left, or is about to.
Stranded(g) ==
  \E s \in Servers : /\ worker[s] \in {"leaving", "ready"}
                     /\ Active(g) /\ g \in {current[s], pending[s]}
=============================================================================
