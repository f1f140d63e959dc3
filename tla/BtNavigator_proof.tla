-------------------------- MODULE BtNavigator_proof --------------------------
(***************************************************************************)
(* Proofs about BtNavigator, for any number of navigators, goals and       *)
(* activations.                                                            *)
(***************************************************************************)
EXTENDS BtNavigator, TLAPS

\* A goal is held by one server, in one place, and what waits is newer than what
\* is worked on: the strengthening of ServerTypeOK that makes it inductive.
HandlesTypeOK ==
  /\ sent \in 0..MaxGoals
  /\ status \in [Goals -> Status]
  /\ current \in [Servers -> Goals \union {None}]
  /\ pending \in [Servers -> Goals \union {None}]
  /\ preempt_requested \in [Servers -> BOOLEAN]

HandlesActive ==
  \A s \in Servers :
    /\ current[s] # None => status[current[s]] \in {"executing", "canceling"}
    /\ pending[s] # None => status[pending[s]] \in {"executing", "canceling"}
    /\ preempt_requested[s] = (pending[s] # None)

HandlesDistinct ==
  /\ \A s, t \in Servers :
       /\ current[s] # None => current[s] # pending[t]
       /\ current[s] # None /\ current[s] = current[t] => s = t
       /\ pending[s] # None /\ pending[s] = pending[t] => s = t
  /\ \A s \in Servers : current[s] # None /\ pending[s] # None => current[s] < pending[s]

NotYetSent == \A g \in Goals : g > sent => status[g] = "unsent"

HandlesOK == HandlesTypeOK /\ HandlesActive /\ HandlesDistinct /\ NotYetSent
-----------------------------------------------------------------------------
(***************************************************************************)
(* What the methods of the server do to its handles, given that a handle   *)
(* that is held is active.                                                 *)
(***************************************************************************)
LEMMA NoneIsNoGoal == None \notin Goals /\ Goals \subseteq Nat
BY MaxGoalsAssumption DEF None, Goals

\* The goals of S end; s holds none of them any more.
EndsGoals(s, S) ==
  /\ status' = [g \in Goals |-> IF g \in S THEN Verdict(g) ELSE status[g]]
  /\ current' = [current EXCEPT ![s] = IF @ \in S THEN None ELSE @]
  /\ pending' = [pending EXCEPT ![s] = IF @ \in S THEN None ELSE @]
  /\ preempt_requested' = [preempt_requested EXCEPT ![s] = @ /\ pending[s] \notin S]

LEMMA ActiveHandles ==
  ASSUME HandlesOK, NEW s \in Servers
  PROVE  /\ Active(current[s]) <=> current[s] # None
         /\ Active(pending[s]) <=> pending[s] # None
BY DEF HandlesOK, HandlesActive, Active

LEMMA TerminateAllEnds ==
  ASSUME HandlesOK, NEW s \in Servers, TerminateAll(s)
  PROVE  EndsGoals(s, {current[s], pending[s]} \ {None})
<1>1. /\ Active(current[s]) <=> current[s] # None
      /\ Active(pending[s]) <=> pending[s] # None
  BY ActiveHandles
<1>2. status' = [g \in Goals |-> IF g \in {current[s], pending[s]} \ {None}
                                 THEN Verdict(g) ELSE status[g]]
  BY <1>1, NoneIsNoGoal DEF TerminateAll, Terminated
<1>3. /\ current' = [current EXCEPT ![s] = IF @ \in {current[s], pending[s]} \ {None} THEN None ELSE @]
      /\ pending' = [pending EXCEPT ![s] = IF @ \in {current[s], pending[s]} \ {None} THEN None ELSE @]
  BY <1>1 DEF TerminateAll, Reset
<1>4. preempt_requested' = [preempt_requested EXCEPT ![s] =
                              @ /\ pending[s] \notin {current[s], pending[s]} \ {None}]
  <2>1. (preempt_requested[s] /\ pending[s] \notin {current[s], pending[s]} \ {None}) = FALSE
    BY DEF HandlesOK, HandlesActive
  <2>2. QED
    BY <2>1 DEF TerminateAll
<1>5. QED
  BY <1>2, <1>3, <1>4 DEF EndsGoals

LEMMA TerminateCurrentEnds ==
  ASSUME HandlesOK, NEW s \in Servers, TerminateCurrent(s)
  PROVE  EndsGoals(s, {current[s]} \ {None})
<1>1. Active(current[s]) <=> current[s] # None
  BY ActiveHandles
<1>2. status' = [g \in Goals |-> IF g \in {current[s]} \ {None} THEN Verdict(g) ELSE status[g]]
  BY <1>1, NoneIsNoGoal DEF TerminateCurrent, Terminated
<1>3. current' = [current EXCEPT ![s] = IF @ \in {current[s]} \ {None} THEN None ELSE @]
  BY <1>1 DEF TerminateCurrent, Reset
<1>4. pending[s] \notin {current[s]} \ {None}
  BY DEF HandlesOK, HandlesDistinct
<1>5. pending' = [pending EXCEPT ![s] = IF @ \in {current[s]} \ {None} THEN None ELSE @]
  BY <1>4 DEF TerminateCurrent, HandlesOK, HandlesTypeOK
<1>6. preempt_requested' = [preempt_requested EXCEPT ![s] = @ /\ pending[s] \notin {current[s]} \ {None}]
  <2>1. (preempt_requested[s] /\ pending[s] \notin {current[s]} \ {None}) = preempt_requested[s]
    BY <1>4 DEF HandlesOK, HandlesTypeOK
  <2>2. QED
    BY <2>1 DEF TerminateCurrent, HandlesOK, HandlesTypeOK
<1>7. QED
  BY <1>2, <1>3, <1>5, <1>6 DEF EndsGoals

LEMMA TerminatePendingEnds ==
  ASSUME HandlesOK, NEW s \in Servers, TerminatePending(s)
  PROVE  EndsGoals(s, {pending[s]} \ {None})
<1>1. Active(pending[s]) <=> pending[s] # None
  BY ActiveHandles
<1>2. status' = [g \in Goals |-> IF g \in {pending[s]} \ {None} THEN Verdict(g) ELSE status[g]]
  BY <1>1, NoneIsNoGoal DEF TerminatePending, Terminated
<1>3. pending' = [pending EXCEPT ![s] = IF @ \in {pending[s]} \ {None} THEN None ELSE @]
  BY <1>1 DEF TerminatePending, Reset
<1>4. current[s] \notin {pending[s]} \ {None}
  BY DEF HandlesOK, HandlesDistinct
<1>5. current' = [current EXCEPT ![s] = IF @ \in {pending[s]} \ {None} THEN None ELSE @]
  BY <1>4 DEF TerminatePending, HandlesOK, HandlesTypeOK
<1>6. preempt_requested' = [preempt_requested EXCEPT ![s] = @ /\ pending[s] \notin {pending[s]} \ {None}]
  BY <1>1 DEF TerminatePending
<1>7. QED
  BY <1>2, <1>3, <1>5, <1>6 DEF EndsGoals

LEMMA EndsGoalsOK ==
  ASSUME HandlesOK, NEW s \in Servers, NEW S \in SUBSET ({current[s], pending[s]} \ {None}),
         EndsGoals(s, S), UNCHANGED sent
  PROVE  HandlesOK'
<1>. USE DEF HandlesOK
<1>1. \A g \in Goals : Verdict(g) \in Status
  BY DEF Verdict, Status, Ended
<1>2. HandlesTypeOK'
  BY <1>1 DEF EndsGoals, HandlesTypeOK
<1>3. \A t \in Servers :
        /\ current'[t] # None => current'[t] = current[t] /\ current[t] \in Goals \ S
        /\ pending'[t] # None => pending'[t] = pending[t] /\ pending[t] \in Goals \ S
  BY DEF EndsGoals, HandlesTypeOK, HandlesDistinct
<1>4. \A g \in Goals \ S : status'[g] = status[g]
  BY DEF EndsGoals
<1>5. HandlesActive'
  <2>1. \A t \in Servers : preempt_requested'[t] = (pending'[t] # None)
    BY DEF EndsGoals, HandlesActive, HandlesTypeOK
  <2>2. QED
    BY <1>3, <1>4, <2>1 DEF HandlesActive
<1>6. HandlesDistinct'
  BY <1>3 DEF HandlesDistinct
<1>7. NotYetSent'
  <2>1. \A g \in S : g \in Goals /\ ~(g > sent)
    BY DEF HandlesActive, HandlesTypeOK, NotYetSent
  <2>2. QED
    BY <1>4, <2>1 DEF NotYetSent
<1>8. QED
  BY <1>2, <1>5, <1>6, <1>7

LEMMA SucceededCurrentOK ==
  ASSUME HandlesOK, NEW s \in Servers, SucceededCurrent(s), UNCHANGED sent
  PROVE  /\ HandlesOK'
         /\ current[s] # None => status' = [status EXCEPT ![current[s]] = "succeeded"]
         /\ current[s] = None => status' = status
         /\ current' = [current EXCEPT ![s] = None]
         /\ UNCHANGED <<pending, preempt_requested>>
<1>. USE DEF HandlesOK
<1>1. Active(current[s]) <=> current[s] # None
  BY ActiveHandles
<1>2. /\ current[s] # None => status' = [status EXCEPT ![current[s]] = "succeeded"]
      /\ current[s] = None => status' = status
  BY <1>1, NoneIsNoGoal DEF SucceededCurrent, HandlesTypeOK
<1>3. current' = [current EXCEPT ![s] = None] /\ UNCHANGED <<pending, preempt_requested>>
  BY <1>1 DEF SucceededCurrent, Reset
<1>4. HandlesTypeOK'
  BY <1>2, <1>3 DEF HandlesTypeOK, Status, Ended
<1>5. \A g \in Goals : g # current[s] => status'[g] = status[g]
  BY <1>2 DEF HandlesTypeOK
<1>6. HandlesActive'
  <2>1. ASSUME NEW t \in Servers, current'[t] # None
        PROVE  status'[current'[t]] \in {"executing", "canceling"}
    BY <1>3, <1>5, <2>1 DEF HandlesActive, HandlesTypeOK, HandlesDistinct
  <2>2. ASSUME NEW t \in Servers, pending'[t] # None
        PROVE  status'[pending'[t]] \in {"executing", "canceling"}
    BY <1>3, <1>5, <2>2 DEF HandlesActive, HandlesTypeOK, HandlesDistinct
  <2>3. QED
    BY <1>3, <2>1, <2>2 DEF HandlesActive
<1>7. HandlesDistinct'
  BY <1>3 DEF HandlesDistinct, HandlesTypeOK
<1>8. NotYetSent'
  <2>1. current[s] # None => ~(current[s] > sent)
    BY DEF HandlesActive, HandlesTypeOK, NotYetSent
  <2>2. QED
    BY <1>2, <1>5, <2>1 DEF NotYetSent
<1>9. QED
  BY <1>2, <1>3, <1>4, <1>6, <1>7, <1>8

LEMMA AcceptPendingOK ==
  ASSUME HandlesOK, NEW s \in Servers, AcceptPending(s), UNCHANGED sent
  PROVE  /\ HandlesOK'
         /\ pending[s] # None
         /\ status' = [g \in Goals |-> IF g = current[s] THEN "aborted" ELSE status[g]]
         /\ current' = [current EXCEPT ![s] = pending[s]]
         /\ pending' = [pending EXCEPT ![s] = None]
<1>. USE DEF HandlesOK
<1>1. /\ Active(current[s]) <=> current[s] # None
      /\ pending[s] # None
  BY DEF HandlesActive, Active, AcceptPending
<1>2. pending[s] # current[s]
  BY <1>1 DEF HandlesDistinct
<1>3. /\ status' = [g \in Goals |-> IF g = current[s] THEN "aborted" ELSE status[g]]
      /\ current' = [current EXCEPT ![s] = pending[s]]
      /\ pending' = [pending EXCEPT ![s] = None]
      /\ preempt_requested' = [preempt_requested EXCEPT ![s] = FALSE]
  BY <1>1, <1>2, NoneIsNoGoal DEF AcceptPending
<1>4. HandlesTypeOK'
  BY <1>3 DEF HandlesTypeOK, Status, Ended
<1>5. \A g \in Goals : g # current[s] => status'[g] = status[g]
  BY <1>3
<1>6. HandlesActive'
  <2>1. ASSUME NEW t \in Servers, current'[t] # None
        PROVE  status'[current'[t]] \in {"executing", "canceling"}
    <3>1. CASE t = s
      BY <1>1, <1>2, <1>3, <1>5, <3>1 DEF HandlesActive, HandlesTypeOK
    <3>2. CASE t # s
      BY <1>3, <1>5, <2>1, <3>2 DEF HandlesActive, HandlesTypeOK, HandlesDistinct
    <3>3. QED
      BY <3>1, <3>2
  <2>2. ASSUME NEW t \in Servers, pending'[t] # None
        PROVE  status'[pending'[t]] \in {"executing", "canceling"}
    BY <1>3, <1>5, <2>2 DEF HandlesActive, HandlesTypeOK, HandlesDistinct
  <2>3. QED
    BY <1>3, <2>1, <2>2 DEF HandlesActive, HandlesTypeOK
<1>7. HandlesDistinct'
  BY <1>1, <1>3 DEF HandlesDistinct, HandlesTypeOK
<1>8. NotYetSent'
  <2>1. current[s] # None => ~(current[s] > sent)
    BY DEF HandlesActive, HandlesTypeOK, NotYetSent
  <2>2. QED
    BY <1>5, <2>1, NoneIsNoGoal DEF NotYetSent
<1>9. QED
  BY <1>1, <1>3, <1>4, <1>6, <1>7, <1>8
-----------------------------------------------------------------------------
(***************************************************************************)
(* The handlers.                                                           *)
(***************************************************************************)
LEMMA HandleGoalOK ==
  ASSUME HandlesOK, NEW s \in Servers, HandleGoal(s)
  PROVE  HandlesOK'
<1>. USE DEF HandlesOK
<1>1. /\ sent + 1 \in Goals /\ sent' = sent + 1 /\ sent \in Nat
      /\ status' = [status EXCEPT ![sent + 1] = "rejected"]
      /\ status[sent + 1] = "unsent"
      /\ UNCHANGED <<current, pending, preempt_requested>>
  BY MaxGoalsAssumption DEF HandleGoal, HandlesTypeOK, NotYetSent, Goals
<1>2. \A g \in Goals : g # sent + 1 => status'[g] = status[g]
  BY <1>1 DEF HandlesTypeOK
<1>3. HandlesTypeOK'
  BY <1>1, MaxGoalsAssumption DEF HandlesTypeOK, Goals, Status
<1>4. HandlesActive'
  BY <1>1, <1>2 DEF HandlesActive, HandlesTypeOK
<1>5. HandlesDistinct'
  BY <1>1 DEF HandlesDistinct
<1>6. NotYetSent'
  BY <1>1, <1>2, NoneIsNoGoal DEF NotYetSent
<1>7. QED
  BY <1>3, <1>4, <1>5, <1>6

\* An accepted goal waits, or is worked on by a new thread; a goal that waited ends.
LEMMA HandleAcceptedOK ==
  ASSUME HandlesOK, NEW s \in Servers, HandleAccepted(s)
  PROVE  /\ HandlesOK'
         /\ sent + 1 \in Goals /\ status[sent + 1] = "unsent"
         /\ status' = [h \in Goals |-> IF h = sent + 1 THEN "executing"
                                        ELSE IF h = pending[s] THEN Verdict(h) ELSE status[h]]
         /\ \/ /\ pending' = [pending EXCEPT ![s] = sent + 1]
               /\ UNCHANGED <<current, worker>>
            \/ /\ current[s] = None /\ worker[s] \in {"none", "ready"}
               /\ current' = [current EXCEPT ![s] = sent + 1]
               /\ pending' = [pending EXCEPT ![s] = None]
               /\ worker' = [worker EXCEPT ![s] = "test"]
<1>. USE DEF HandlesOK
<1> DEFINE new == sent + 1
<1>1. new \in Goals /\ sent' = new /\ sent \in Nat /\ status[new] = "unsent" /\ new = sent + 1
  BY MaxGoalsAssumption DEF HandleAccepted, HandlesTypeOK, NotYetSent, Goals
<1>. HIDE DEF new
<1>2. /\ Active(current[s]) <=> current[s] # None
      /\ Active(pending[s]) <=> pending[s] # None
  BY ActiveHandles
<1>3. status' = [h \in Goals |-> IF h = new THEN "executing"
                                 ELSE IF h = pending[s] THEN Verdict(h) ELSE status[h]]
  <2>1. Terminated({pending[s]}) =
          [h \in Goals |-> IF h = pending[s] THEN Verdict(h) ELSE status[h]]
    BY <1>2, NoneIsNoGoal DEF Terminated
  <2>2. status' = [Terminated({pending[s]}) EXCEPT ![new] = "executing"]
    BY DEF HandleAccepted, new
  <2>3. QED
    BY <1>1, <2>1, <2>2
<1>4. \A t \in Servers : current[t] # new /\ pending[t] # new
  BY <1>1, NoneIsNoGoal DEF HandlesActive
<1>5. \A t \in Servers : /\ current[t] # None => current[t] < new
                         /\ pending[t] # None => pending[t] < new
  <2>1. ASSUME NEW t \in Servers, NEW h \in {current[t], pending[t]}, h # None
        PROVE  h < new
    <3>1. h \in Goals /\ status[h] # "unsent"
      BY <2>1 DEF HandlesActive, HandlesTypeOK
    <3>2. ~(h > sent)
      BY <3>1 DEF NotYetSent
    <3>3. QED
      BY <1>1, <3>1, <3>2, NoneIsNoGoal
  <2>2. QED
    BY <2>1
<1>6. \A g \in Goals : Verdict(g) \in Status
  BY DEF Verdict, Status, Ended
<1>7. /\ \A h \in Goals : h \notin {new, pending[s]} => status'[h] = status[h]
      /\ status'[new] = "executing"
  BY <1>1, <1>3
<1>8. CASE /\ pending' = [pending EXCEPT ![s] = new]
           /\ preempt_requested' = [preempt_requested EXCEPT ![s] = TRUE]
           /\ UNCHANGED <<current, worker>>
  <2>1. HandlesTypeOK'
    BY <1>1, <1>3, <1>6, <1>8 DEF HandlesTypeOK, Status, Goals
  <2>2. HandlesActive'
    <3>1. ASSUME NEW t \in Servers, current'[t] # None
          PROVE  status'[current'[t]] \in {"executing", "canceling"}
      BY <1>4, <1>7, <1>8, <3>1 DEF HandlesActive, HandlesTypeOK, HandlesDistinct
    <3>2. ASSUME NEW t \in Servers, pending'[t] # None
          PROVE  status'[pending'[t]] \in {"executing", "canceling"}
      <4>1. CASE t = s
        BY <1>7, <1>8, <4>1 DEF HandlesTypeOK
      <4>2. CASE t # s
        BY <1>4, <1>7, <1>8, <3>2, <4>2 DEF HandlesActive, HandlesTypeOK, HandlesDistinct
      <4>3. QED
        BY <4>1, <4>2
    <3>3. QED
      BY <1>1, <1>8, <3>1, <3>2, NoneIsNoGoal DEF HandlesActive, HandlesTypeOK
  <2>3. HandlesDistinct'
    BY <1>1, <1>4, <1>5, <1>8, NoneIsNoGoal DEF HandlesDistinct, HandlesTypeOK
  <2>4. NotYetSent'
    BY <1>1, <1>5, <1>7, NoneIsNoGoal DEF NotYetSent
  <2>5. QED
    BY <1>1, <1>3, <1>8, <2>1, <2>2, <2>3, <2>4 DEF new
<1>9. CASE /\ current[s] = None /\ worker[s] \in {"none", "ready"}
           /\ pending' = [pending EXCEPT ![s] = None]
           /\ preempt_requested' = [preempt_requested EXCEPT ![s] = FALSE]
           /\ current' = [current EXCEPT ![s] = new]
           /\ worker' = [worker EXCEPT ![s] = "test"]
  <2>1. HandlesTypeOK'
    BY <1>1, <1>3, <1>6, <1>9 DEF HandlesTypeOK, Status, Goals
  <2>2. HandlesActive'
    <3>1. ASSUME NEW t \in Servers, current'[t] # None
          PROVE  status'[current'[t]] \in {"executing", "canceling"}
      <4>1. CASE t = s
        BY <1>7, <1>9, <4>1 DEF HandlesTypeOK
      <4>2. CASE t # s
        BY <1>4, <1>7, <1>9, <3>1, <4>2 DEF HandlesActive, HandlesTypeOK, HandlesDistinct
      <4>3. QED
        BY <4>1, <4>2
    <3>2. ASSUME NEW t \in Servers, pending'[t] # None
          PROVE  status'[pending'[t]] \in {"executing", "canceling"}
      BY <1>4, <1>7, <1>9, <3>2 DEF HandlesActive, HandlesTypeOK, HandlesDistinct
    <3>3. QED
      BY <1>9, <3>1, <3>2 DEF HandlesActive, HandlesTypeOK
  <2>3. HandlesDistinct'
    BY <1>1, <1>4, <1>5, <1>9, NoneIsNoGoal DEF HandlesDistinct, HandlesTypeOK
  <2>4. NotYetSent'
    BY <1>1, <1>5, <1>7, NoneIsNoGoal DEF NotYetSent
  <2>5. QED
    BY <1>1, <1>3, <1>9, <2>1, <2>2, <2>3, <2>4 DEF new
<1>10. QED
  <2>1. ~(Active(current[s]) \/ IsRunning(s)) =>
          /\ Reset(pending, s) = [pending EXCEPT ![s] = None]
          /\ [preempt_requested EXCEPT ![s] = @ /\ ~Active(pending[s])] =
               [preempt_requested EXCEPT ![s] = FALSE]
    BY <1>2 DEF Reset, HandlesActive, HandlesTypeOK
  <2>2. QED
    BY <1>2, <1>8, <1>9, <2>1 DEF HandleAccepted, IsRunning, new

LEMMA HandleCancelOK ==
  ASSUME HandlesOK, NEW g \in Goals, HandleCancel(g)
  PROVE  HandlesOK'
BY DEF HandlesOK, HandleCancel, HandlesTypeOK, HandlesActive, HandlesDistinct, NotYetSent, Status
-----------------------------------------------------------------------------
(***************************************************************************)
(* The inductive invariant.                                                *)
(***************************************************************************)

\* The execute callback: it works on the server's current goal, or on one that is
\* gone; the tree has an outcome when run() ends, and only until the result is
\* set; no goal is left active when it returns; a success belongs to the goal.
CallbackOK(s) ==
  /\ worker[s] \in InCallback \ {"receive"} => current[s] \in {goal[s], None}
  /\ worker[s] \in {"complete", "result"} => outcome[s] # "RUNNING"
  /\ outcome[s] # "RUNNING" => worker[s] \in {"loop", "preempt", "takeover", "decline",
                                              "complete", "result", "crashed"}
  /\ worker[s] = "wrapup" => current[s] = None
  /\ outcome[s] = "SUCCEEDED" /\ current[s] # None => current[s] \in {reached[s], late[s]}

\* What the callback looks for is there, as long as no deactivation takes it away.
GoalsAreThere(s) ==
  ~overdue => /\ worker[s] = "receive" => current[s] # None
              /\ worker[s] \in {"preempt", "takeover"} => pending[s] # None
              /\ worker[s] # "crashed"

\* An inactive server has no thread, or the executor waits for it.
QuietUnlessWaiting(s) ==
  ~server_active[s] =>
    worker[s] \in {"none", "ready"} \/ (deactivating # 0 /\ s = Order[deactivating])

\* A thread leaves a goal behind only when it is told to stop, and is told so no
\* earlier than in the deactivation that follows the first activation.
LeavesNothing(s) ==
  /\ stop_execution[s] => ~server_active[s]
  /\ server_active[s] \/ worker[s] # "none" => activations >= 1
  /\ worker[s] \in {"leaving", "ready"} /\ current[s] # None =>
       ~server_active[s] \/ activations > 1

ServerOK(s) ==
  CallbackOK(s) /\ GoalsAreThere(s) /\ QuietUnlessWaiting(s) /\ LeavesNothing(s)

ServersOK == \A s \in Servers : ServerOK(s)

Typed == TypeOK /\ HandlesOK

LEMMA HandlesUnchanged ==
  HandlesOK /\ UNCHANGED <<sent, handleVars>> => HandlesOK'
BY DEF handleVars, HandlesOK, HandlesTypeOK, HandlesActive, HandlesDistinct, NotYetSent

LEMMA TerminationsOK ==
  ASSUME HandlesOK, NEW s \in Servers, UNCHANGED sent,
         TerminateAll(s) \/ TerminateCurrent(s) \/ TerminatePending(s)
  PROVE  HandlesOK'
BY TerminateAllEnds, TerminateCurrentEnds, TerminatePendingEnds, EndsGoalsOK

LEMMA HandlesNext == Typed /\ ServersOK /\ [Next]_vars => HandlesOK'
<1> SUFFICES ASSUME Typed, ServersOK, [Next]_vars PROVE HandlesOK'
  OBVIOUS
<1>a. HandlesOK
  BY DEF Typed
<1>1. CASE GoalRequest
  BY <1>1, <1>a, HandleGoalOK, HandleAcceptedOK DEF GoalRequest
<1>2. CASE CancelRequest
  BY <1>2, <1>a, HandleCancelOK DEF CancelRequest
<1>3. CASE OnActivate \/ OnDeactivate \/ Deactivated \/ UNCHANGED vars
  BY <1>3, <1>a, HandlesUnchanged
     DEF OnActivate, ActivateServers, OnDeactivate, Deactivated, DeactivateFrom, StopServer,
         vars, serverVars
<1>4. CASE MissedDeadline
  BY <1>4, <1>a, TerminationsOK DEF MissedDeadline
<1>5. ASSUME NEW s \in Servers, CallbackStep(s) PROVE HandlesOK'
  <2>1. CASE ReceiveGoal(s) \/ TreeNotLoaded(s)
    BY <2>1, <1>a, TerminationsOK, HandlesUnchanged
       DEF ReceiveGoal, TreeNotLoaded, Refused, Callback
  <2>2. CASE StartNavigating(s) \/ CancelRun(s) \/ TreeRuns(s) \/ TreeSucceeds(s)
               \/ TreeFails(s) \/ OnLoop(s) \/ OnPreempt(s) \/ StopNavigating(s)
    BY <2>2, <1>a, HandlesUnchanged
       DEF StartNavigating, CancelRun, TreeRuns, TreeSucceeds, TreeFails, OnLoop, OnPreempt,
           StopNavigating, Callback
  <2>3. CASE AcceptPendingGoal(s)
    BY <2>3, <1>a, AcceptPendingOK, HandlesUnchanged DEF AcceptPendingGoal, Callback
  <2>4. CASE DeclinePendingGoal(s)
    BY <2>4, <1>a, TerminationsOK DEF DeclinePendingGoal, Callback
  <2>5. CASE SetResult(s)
    <3>1. worker[s] = "result" /\ UNCHANGED sent
      BY <2>5 DEF SetResult, Callback, WorkerTo
    <3>2. outcome[s] \in {"SUCCEEDED", "FAILED", "CANCELED"}
      BY <3>1 DEF ServersOK, ServerOK, CallbackOK, Typed, TypeOK
    <3>3. SucceededCurrent(s) \/ TerminateCurrent(s) \/ TerminateAll(s)
      BY <2>5, <3>2 DEF SetResult
    <3>4. QED
      BY <1>a, <3>1, <3>3, SucceededCurrentOK, TerminationsOK
  <2>6. QED
    BY <1>5, <2>1, <2>2, <2>3, <2>4, <2>5 DEF CallbackStep
<1>6. ASSUME NEW s \in Servers, Work(s) PROVE HandlesOK'
  <2>1. CASE LoopTest(s) \/ ThreadEnds(s)
    BY <2>1, <1>a, HandlesUnchanged DEF LoopTest, ThreadEnds
  <2>2. CASE WrapUp(s)
    <3>1. UNCHANGED sent
      BY <2>2 DEF WrapUp
    <3>2. TerminateAll(s) \/ AcceptPending(s) \/ UNCHANGED handleVars
      BY <2>2 DEF WrapUp
    <3>3. QED
      BY <1>a, <3>1, <3>2, TerminationsOK, AcceptPendingOK, HandlesUnchanged
  <2>3. QED
    BY <1>6, <2>1, <2>2 DEF Work
<1>7. QED
  BY <1>1, <1>2, <1>3, <1>4, <1>5, <1>6 DEF Next

\* The rest of the type invariant: what is not about the handles.
RestTypeOK ==
  /\ worker \in [Servers -> WorkerPc]
  /\ server_active \in [Servers -> BOOLEAN] /\ stop_execution \in [Servers -> BOOLEAN]
  /\ goal \in [Servers -> Goals \union {None}]
  /\ outcome \in [Servers -> {"RUNNING", "SUCCEEDED", "FAILED", "CANCELED"}]
  /\ current_navigator \in Servers \union {NoServer}
  /\ deactivating \in DOMAIN Order \union {0}
  /\ reached \in [Servers -> Goals \union {None}]
  /\ late \in [Servers -> Goals \union {None}]
  /\ logged \in BOOLEAN /\ overdue \in BOOLEAN
  /\ activations \in 0..MaxActivations

LEMMA TypedInParts == HandlesOK /\ RestTypeOK => Typed
<1> SUFFICES ASSUME HandlesOK, RestTypeOK PROVE Typed
  OBVIOUS
<1>1. ASSUME NEW s \in Servers
      PROVE  /\ \A g \in {current[s], pending[s]} : g # None => Active(g)
             /\ preempt_requested[s] = (pending[s] # None)
  BY DEF HandlesOK, HandlesActive, Active
<1>2. ServerTypeOK
  BY <1>1 DEF HandlesOK, HandlesTypeOK, RestTypeOK, ServerTypeOK
<1>3. QED
  BY <1>2 DEF Typed, TypeOK, RestTypeOK

LEMMA InitTyped == Init => Typed
<1> SUFFICES ASSUME Init PROVE Typed
  OBVIOUS
<1>. USE DEF Init, ServerInit
<1>1. 0 \in 0..MaxGoals /\ 0 \in 0..MaxActivations
  BY MaxGoalsAssumption, NodeBoundsAssumption
<1>2. HandlesTypeOK
  BY <1>1 DEF HandlesTypeOK, Status
<1>3. HandlesOK
  BY <1>2 DEF HandlesOK, HandlesActive, HandlesDistinct, NotYetSent
<1>4. RestTypeOK
  BY <1>1 DEF RestTypeOK, WorkerPc
<1>5. QED
  BY <1>3, <1>4, TypedInParts

LEMMA TypedNext == Typed /\ ServersOK /\ [Next]_vars => Typed'
<1> SUFFICES ASSUME Typed, ServersOK, [Next]_vars PROVE Typed'
  OBVIOUS
<1>a. HandlesOK'
  BY HandlesNext
<1>b. RestTypeOK
  BY DEF Typed, TypeOK, ServerTypeOK, RestTypeOK
<1>c. current \in [Servers -> Goals \union {None}] /\ pending \in [Servers -> Goals \union {None}]
  BY DEF Typed, TypeOK, ServerTypeOK
<1>d. SUFFICES RestTypeOK'
  BY <1>a, TypedInParts, PTL
<1>. USE <1>b, <1>c DEF RestTypeOK, treeVars, execVars, historyVars
<1>1. CASE GoalRequest
  BY <1>1 DEF GoalRequest, HandleGoal, HandleAccepted, WorkerPc
<1>2. CASE CancelRequest
  BY <1>2 DEF CancelRequest, HandleCancel
<1>3. CASE OnActivate
  <2>1. activations' \in 0..MaxActivations
    <3>1. /\ activations \in 0..MaxActivations /\ activations < MaxActivations
          /\ activations' = activations + 1
      BY <1>3 DEF OnActivate
    <3>2. QED
      BY <3>1, NodeBoundsAssumption
  <2>2. QED
    BY <1>3, <2>1 DEF OnActivate, ActivateServers
<1>4. CASE OnDeactivate \/ Deactivated
  BY <1>4 DEF OnDeactivate, Deactivated, DeactivateFrom, StopServer, serverVars
<1>5. CASE MissedDeadline
  BY <1>5 DEF MissedDeadline
<1>6. ASSUME NEW s \in Servers, CallbackStep(s)
      PROVE  /\ UNCHANGED <<server_active, stop_execution, deactivating, overdue, activations>>
             /\ logged' \in BOOLEAN /\ worker' \in [Servers -> WorkerPc]
             /\ goal' \in [Servers -> Goals \union {None}]
             /\ outcome' \in [Servers -> {"RUNNING", "SUCCEEDED", "FAILED", "CANCELED"}]
             /\ current_navigator' \in Servers \union {NoServer}
             /\ reached' \in [Servers -> Goals \union {None}]
             /\ late' \in [Servers -> Goals \union {None}]
  <2>. USE DEF Callback, WorkerTo, WorkerPc, InCallback, RunOn
  <2>1. CASE ReceiveGoal(s)
    BY <2>1 DEF ReceiveGoal, Refused
  <2>2. CASE StartNavigating(s) \/ TreeNotLoaded(s)
    BY <2>2 DEF StartNavigating, TreeNotLoaded, Refused
  <2>3. CASE CancelRun(s) \/ TreeRuns(s)
    BY <2>3 DEF CancelRun, TreeRuns
  <2>4. CASE TreeSucceeds(s) \/ TreeFails(s)
    BY <2>4 DEF TreeSucceeds, TreeFails
  <2>5. CASE OnLoop(s) \/ OnPreempt(s)
    BY <2>5 DEF OnLoop, OnPreempt
  <2>6. CASE AcceptPendingGoal(s)
    BY <2>6 DEF AcceptPendingGoal
  <2>7. CASE DeclinePendingGoal(s) \/ StopNavigating(s)
    BY <2>7 DEF DeclinePendingGoal, StopNavigating
  <2>8. CASE SetResult(s)
    BY <2>8 DEF SetResult
  <2>9. QED
    BY <1>6, <2>1, <2>2, <2>3, <2>4, <2>5, <2>6, <2>7, <2>8 DEF CallbackStep
<1>7. ASSUME NEW s \in Servers, Work(s) PROVE worker' \in [Servers -> WorkerPc]
  BY <1>7 DEF Work, LoopTest, WrapUp, ThreadEnds, WorkerTo, WorkerPc, InCallback
<1>8. CASE \E s \in Servers : CallbackStep(s) \/ Work(s)
  <2>1. ASSUME NEW s \in Servers, Work(s)
        PROVE  UNCHANGED <<server_active, stop_execution, treeVars, execVars, historyVars>>
    BY <2>1 DEF Work, LoopTest, WrapUp, ThreadEnds
  <2>2. QED
    BY <1>6, <1>7, <1>8, <2>1
<1>9. CASE UNCHANGED vars
  BY <1>9 DEF vars, serverVars
<1>10. QED
  BY <1>1, <1>2, <1>3, <1>4, <1>5, <1>8, <1>9 DEF Next
-----------------------------------------------------------------------------
(***************************************************************************)
(* The invariant is preserved.  A thread touches its own server only.      *)
(***************************************************************************)
LEMMA MethodEffects ==
  ASSUME HandlesOK, NEW s \in Servers
  PROVE  /\ TerminateAll(s) => /\ current' = [current EXCEPT ![s] = None]
                               /\ pending' = [pending EXCEPT ![s] = None]
         /\ TerminateCurrent(s) \/ SucceededCurrent(s) =>
              current' = [current EXCEPT ![s] = None] /\ pending' = pending
         /\ TerminatePending(s) =>
              current' = current /\ pending' = [pending EXCEPT ![s] = None]
         /\ AcceptPending(s) => /\ pending[s] # None
                                /\ current' = [current EXCEPT ![s] = pending[s]]
                                /\ pending' = [pending EXCEPT ![s] = None]
<1>1. /\ Active(current[s]) <=> current[s] # None
      /\ Active(pending[s]) <=> pending[s] # None
  BY ActiveHandles
<1>2. /\ Reset(current, s) = [current EXCEPT ![s] = None]
      /\ Reset(pending, s) = [pending EXCEPT ![s] = None]
  BY <1>1 DEF Reset, HandlesOK, HandlesTypeOK
<1>3. QED
  BY <1>1, <1>2 DEF TerminateAll, TerminateCurrent, SucceededCurrent, TerminatePending, AcceptPending

\* What a step of the thread of s leaves alone.
Elsewhere(s) ==
  /\ UNCHANGED <<server_active, stop_execution, deactivating, activations, overdue>>
  /\ \A t \in Servers \ {s} :
       /\ worker'[t] = worker[t] /\ current'[t] = current[t] /\ pending'[t] = pending[t]
       /\ goal'[t] = goal[t] /\ outcome'[t] = outcome[t]
       /\ reached'[t] = reached[t] /\ late'[t] = late[t]

LEMMA ThreadsStayAtHome ==
  ASSUME Typed, ServersOK, NEW s \in Servers, CallbackStep(s) \/ Work(s)
  PROVE  Elsewhere(s)
<1>a. /\ worker \in [Servers -> WorkerPc] /\ current \in [Servers -> Goals \union {None}]
      /\ pending \in [Servers -> Goals \union {None}] /\ goal \in [Servers -> Goals \union {None}]
      /\ reached \in [Servers -> Goals \union {None}] /\ late \in [Servers -> Goals \union {None}]
      /\ outcome \in [Servers -> {"RUNNING", "SUCCEEDED", "FAILED", "CANCELED"}]
  BY DEF Typed, TypeOK, ServerTypeOK
<1>b. HandlesOK
  BY DEF Typed
<1>. USE <1>a, <1>b, MethodEffects
     DEF Elsewhere, treeVars, execVars, historyVars, handleVars, Callback, WorkerTo
<1>1. CASE ReceiveGoal(s)
  BY <1>1 DEF ReceiveGoal, Refused
<1>2. CASE StartNavigating(s)
  BY <1>2 DEF StartNavigating
<1>3. CASE TreeNotLoaded(s)
  BY <1>3 DEF TreeNotLoaded, Refused
<1>4. CASE CancelRun(s) \/ TreeRuns(s)
  BY <1>4 DEF CancelRun, TreeRuns
<1>5. CASE TreeSucceeds(s) \/ TreeFails(s)
  BY <1>5 DEF TreeSucceeds, TreeFails
<1>6. CASE OnLoop(s) \/ OnPreempt(s)
  BY <1>6 DEF OnLoop, OnPreempt
<1>7. CASE AcceptPendingGoal(s)
  BY <1>7 DEF AcceptPendingGoal
<1>8. CASE DeclinePendingGoal(s) \/ StopNavigating(s)
  BY <1>8 DEF DeclinePendingGoal, StopNavigating
<1>9. CASE SetResult(s)
  <2>1. outcome[s] \in {"SUCCEEDED", "FAILED", "CANCELED"}
    BY <1>9 DEF SetResult, ServersOK, ServerOK, CallbackOK
  <2>2. SucceededCurrent(s) \/ TerminateCurrent(s) \/ TerminateAll(s)
    BY <1>9, <2>1 DEF SetResult
  <2>3. QED
    BY <1>9, <2>2 DEF SetResult
<1>10. CASE Work(s)
  BY <1>10 DEF Work, LoopTest, WrapUp, ThreadEnds
<1>11. QED
  BY <1>1, <1>2, <1>3, <1>4, <1>5, <1>6, <1>7, <1>8, <1>9, <1>10 DEF CallbackStep

\* A thread keeps its own server in order.
LEMMA ThreadStepOK ==
  ASSUME Typed, ServersOK, NEW s \in Servers, CallbackStep(s) \/ Work(s)
  PROVE  ServerOK(s)'
<1>a. /\ worker \in [Servers -> WorkerPc] /\ current \in [Servers -> Goals \union {None}]
      /\ pending \in [Servers -> Goals \union {None}] /\ goal \in [Servers -> Goals \union {None}]
      /\ reached \in [Servers -> Goals \union {None}] /\ late \in [Servers -> Goals \union {None}]
      /\ outcome \in [Servers -> {"RUNNING", "SUCCEEDED", "FAILED", "CANCELED"}]
      /\ Active(current[s]) <=> current[s] # None
      /\ Active(pending[s]) <=> pending[s] # None
      /\ preempt_requested[s] <=> pending[s] # None
  BY ActiveHandles DEF Typed, TypeOK, ServerTypeOK, HandlesOK, HandlesActive
<1>b. HandlesOK
  BY DEF Typed
<1>c. ServerOK(s)
  BY DEF ServersOK
<1>d. UNCHANGED <<server_active, stop_execution, deactivating, activations, overdue>>
  BY ThreadsStayAtHome DEF Elsewhere
<1>. USE <1>a, <1>b, <1>c, <1>d, MethodEffects
     DEF ServerOK, CallbackOK, GoalsAreThere, QuietUnlessWaiting, LeavesNothing, InCallback,
         treeVars, historyVars, handleVars, Callback, WorkerTo, RunOn
<1>1. CASE ReceiveGoal(s)
  BY <1>1 DEF ReceiveGoal, Refused
<1>2. CASE StartNavigating(s)
  BY <1>2 DEF StartNavigating
<1>3. CASE TreeNotLoaded(s)
  BY <1>3 DEF TreeNotLoaded, Refused
<1>4. CASE CancelRun(s)
  BY <1>4 DEF CancelRun
<1>5. CASE TreeRuns(s)
  BY <1>5 DEF TreeRuns
<1>6. CASE TreeSucceeds(s)
  BY <1>6 DEF TreeSucceeds
<1>7. CASE TreeFails(s)
  BY <1>7 DEF TreeFails
<1>8. CASE OnLoop(s)
  BY <1>8 DEF OnLoop
<1>9. CASE OnPreempt(s)
  BY <1>9 DEF OnPreempt
<1>10. CASE AcceptPendingGoal(s)
  BY <1>10 DEF AcceptPendingGoal
<1>11. CASE DeclinePendingGoal(s)
  BY <1>11 DEF DeclinePendingGoal
<1>12. CASE StopNavigating(s)
  BY <1>12 DEF StopNavigating
<1>13. CASE SetResult(s)
  <2>1. outcome[s] \in {"SUCCEEDED", "FAILED", "CANCELED"}
    BY <1>13 DEF SetResult
  <2>2. SucceededCurrent(s) \/ TerminateCurrent(s) \/ TerminateAll(s)
    BY <1>13, <2>1 DEF SetResult
  <2>3. QED
    BY <1>13, <2>2 DEF SetResult
<1>14. CASE LoopTest(s) /\ UNCHANGED <<treeVars, historyVars>>
  BY <1>14 DEF LoopTest
<1>15. CASE WrapUp(s) /\ UNCHANGED <<treeVars, historyVars>>
  BY <1>15 DEF WrapUp
<1>16. CASE ThreadEnds(s) /\ UNCHANGED <<treeVars, historyVars>>
  BY <1>16 DEF ThreadEnds
<1>17. QED
  BY <1>1, <1>2, <1>3, <1>4, <1>5, <1>6, <1>7, <1>8, <1>9, <1>10, <1>11, <1>12, <1>13,
     <1>14, <1>15, <1>16 DEF CallbackStep, Work

\* The executor keeps every server in order.
LEMMA ExecutorStepOK ==
  ASSUME Typed, ServersOK, NEW t \in Servers,
         GoalRequest \/ CancelRequest \/ OnActivate \/ OnDeactivate
           \/ MissedDeadline \/ Deactivated \/ UNCHANGED vars
  PROVE  ServerOK(t)'
<1>a. /\ worker \in [Servers -> WorkerPc] /\ current \in [Servers -> Goals \union {None}]
      /\ pending \in [Servers -> Goals \union {None}]
      /\ server_active \in [Servers -> BOOLEAN] /\ stop_execution \in [Servers -> BOOLEAN]
      /\ activations \in Nat
  BY DEF Typed, TypeOK, ServerTypeOK
<1>b. HandlesOK
  BY DEF Typed
<1>c. ServerOK(t)
  BY DEF ServersOK
<1>. USE <1>a, <1>b, <1>c
     DEF ServerOK, CallbackOK, GoalsAreThere, QuietUnlessWaiting, LeavesNothing, InCallback,
         treeVars, execVars, historyVars, handleVars
<1>1. CASE GoalRequest
  <2>1. PICK s \in Servers : HandleGoal(s) \/ HandleAccepted(s)
    BY <1>1 DEF GoalRequest
  <2>2. UNCHANGED <<treeVars, execVars, historyVars>>
    BY <1>1 DEF GoalRequest
  <2>3. CASE HandleGoal(s)
    BY <2>2, <2>3 DEF HandleGoal
  <2>4. CASE HandleAccepted(s)
    <3>1. sent + 1 # None /\ server_active[s] /\ UNCHANGED <<server_active, stop_execution>>
      BY <2>4, HandleAcceptedOK, NoneIsNoGoal DEF HandleAccepted
    <3>2. CASE pending' = [pending EXCEPT ![s] = sent + 1] /\ UNCHANGED <<current, worker>>
      BY <2>2, <3>1, <3>2
    <3>3. CASE /\ current[s] = None /\ worker[s] \in {"none", "ready"}
               /\ current' = [current EXCEPT ![s] = sent + 1]
               /\ pending' = [pending EXCEPT ![s] = None]
               /\ worker' = [worker EXCEPT ![s] = "test"]
      BY <2>2, <3>1, <3>3
    <3>4. QED
      BY <2>4, <3>2, <3>3, HandleAcceptedOK
  <2>5. QED
    BY <2>1, <2>3, <2>4
<1>2. CASE CancelRequest
  BY <1>2 DEF CancelRequest, HandleCancel
<1>3. CASE OnActivate
  BY <1>3 DEF OnActivate, ActivateServers
<1>4. ASSUME NEW i \in Int, i # 0, DeactivateFrom(i),
             ~server_active[t] => worker[t] \in {"none", "ready"}
      PROVE  ServerOK(t)'
  <2>1. CASE i \in DOMAIN Order
    BY <1>4, <2>1 DEF DeactivateFrom, StopServer
  <2>2. CASE i \notin DOMAIN Order
    BY <1>4, <2>2 DEF DeactivateFrom, serverVars
  <2>3. QED
    BY <2>1, <2>2
<1>5. CASE OnDeactivate
  BY <1>4, <1>5 DEF OnDeactivate
<1>6. CASE Deactivated
  <2>1. PICK s \in Servers : Waits(s) /\ ~IsRunning(s) /\ DeactivateFrom(deactivating + 1)
    BY <1>6 DEF Deactivated
  <2>2. ~server_active[t] => worker[t] \in {"none", "ready"}
    BY <2>1 DEF Waits, IsRunning
  <2>3. deactivating + 1 \in Int /\ deactivating + 1 # 0
    BY OrderAssumption DEF Typed, TypeOK
  <2>4. QED
    BY <1>4, <2>1, <2>2, <2>3
<1>7. CASE MissedDeadline
  <2>1. PICK s \in Servers : TerminateAll(s)
    BY <1>7 DEF MissedDeadline
  <2>2. /\ current' = [current EXCEPT ![s] = None]
        /\ pending' = [pending EXCEPT ![s] = None]
    BY <2>1, MethodEffects
  <2>3. /\ overdue' = TRUE
        /\ UNCHANGED <<server_active, stop_execution, worker, treeVars, execVars, reached, late>>
    BY <1>7 DEF MissedDeadline
  <2>4. QED
    BY <2>2, <2>3
<1>8. CASE UNCHANGED vars
  BY <1>8 DEF vars, serverVars
<1>9. QED
  BY <1>1, <1>2, <1>3, <1>5, <1>6, <1>7, <1>8

LEMMA ServersOKNext == Typed /\ ServersOK /\ [Next]_vars => ServersOK'
<1> SUFFICES ASSUME Typed, ServersOK, [Next]_vars, NEW t \in Servers
             PROVE  ServerOK(t)'
  BY DEF ServersOK
<1>1. ASSUME NEW s \in Servers, CallbackStep(s) \/ Work(s)
      PROVE  ServerOK(t)'
  <2>1. CASE t = s
    BY <1>1, <2>1, ThreadStepOK
  <2>2. CASE t # s
    <3>1. Elsewhere(s) /\ ServerOK(t)
      BY <1>1, ThreadsStayAtHome DEF ServersOK
    <3>2. QED
      BY <2>2, <3>1
         DEF Elsewhere, ServerOK, CallbackOK, GoalsAreThere, QuietUnlessWaiting, LeavesNothing
  <2>3. QED
    BY <2>1, <2>2
<1>2. QED
  BY <1>1, ExecutorStepOK DEF Next

LEMMA InitServersOK == Init => ServersOK
BY DEF Init, ServerInit, ServersOK, ServerOK, CallbackOK, GoalsAreThere, QuietUnlessWaiting,
       LeavesNothing, InCallback

LEMMA InvariantHolds == Spec => [](Typed /\ ServersOK)
<1>1. Init => Typed /\ ServersOK
  BY InitTyped, InitServersOK
<1>2. Typed /\ ServersOK /\ [Next]_vars => (Typed /\ ServersOK)'
  BY TypedNext, ServersOKNext
<1>3. QED
  BY <1>1, <1>2, PTL DEF Spec
-----------------------------------------------------------------------------
(***************************************************************************)
(* The muxer.                                                              *)
(***************************************************************************)

\* Until the muxer logs an error it knows everyone who navigates.
MuxerKnows == ~logged => \A s \in Servers : Navigating(s) => current_navigator = s

MuxerOK == MuxerFreed /\ MuxerKnows

LEMMA NoServerIsNoServer == NoServer \notin Servers
BY OrderAssumption DEF Servers

\* A step that leaves the muxer alone and brings no navigator in or out.
LEMMA MuxerUntouched ==
  ASSUME MuxerOK, Typed, UNCHANGED <<current_navigator, logged>>, ~Crashed,
         NEW s \in Servers, NEW to, worker' = [worker EXCEPT ![s] = to],
         \/ Navigating(s) <=> to \in {"check", "loop", "preempt", "takeover", "decline", "complete"}
         \/ to = "crashed"
  PROVE  MuxerOK'
<1>1. worker \in [Servers -> WorkerPc] /\ current_navigator \in Servers \union {NoServer}
  BY DEF Typed, TypeOK, ServerTypeOK
<1>2. /\ worker'[s] = to
      /\ \A t \in Servers : t # s => worker'[t] = worker[t]
  BY <1>1
<1>3. MuxerFreed'
  BY <1>1, <1>2 DEF MuxerOK, MuxerFreed, Navigating, Crashed
<1>4. MuxerKnows'
  BY <1>2 DEF MuxerOK, MuxerKnows, Navigating
<1>5. QED
  BY <1>3, <1>4 DEF MuxerOK

LEMMA MuxerOKNext == Typed /\ MuxerOK /\ [Next]_vars => MuxerOK'
<1> SUFFICES ASSUME Typed, MuxerOK, [Next]_vars PROVE MuxerOK'
  OBVIOUS
<1>a. worker \in [Servers -> WorkerPc] /\ current_navigator \in Servers \union {NoServer}
  BY DEF Typed, TypeOK, ServerTypeOK
<1>b. HandlesOK
  BY DEF Typed
<1>c. ASSUME UNCHANGED <<worker, current_navigator, logged>> PROVE MuxerOK'
  BY <1>c DEF MuxerOK, MuxerFreed, MuxerKnows, Navigating, Crashed
<1>. USE DEF treeVars, execVars, historyVars
<1>1. CASE GoalRequest
  <2>1. PICK s \in Servers : HandleGoal(s) \/ HandleAccepted(s)
    BY <1>1 DEF GoalRequest
  <2>2. ~Crashed /\ UNCHANGED <<current_navigator, logged>>
    BY <1>1 DEF GoalRequest, Spins
  <2>3. CASE UNCHANGED worker
    BY <1>c, <2>2, <2>3
  <2>4. CASE worker[s] \in {"none", "ready"} /\ worker' = [worker EXCEPT ![s] = "test"]
    BY <2>2, <2>4, MuxerUntouched DEF Navigating
  <2>5. QED
    BY <1>b, <2>1, <2>3, <2>4, HandleAcceptedOK DEF HandleGoal
<1>2. CASE CancelRequest \/ OnActivate \/ OnDeactivate \/ MissedDeadline \/ Deactivated
             \/ UNCHANGED vars
  BY <1>2, <1>c
     DEF CancelRequest, HandleCancel, OnActivate, ActivateServers, OnDeactivate, MissedDeadline,
         Deactivated, DeactivateFrom, StopServer, vars, serverVars
<1>3. ASSUME NEW s \in Servers, CallbackStep(s) PROVE MuxerOK'
  <2>1. CASE StartNavigating(s)
    <3>1. /\ current_navigator' = s /\ worker'[s] = "check"
          /\ logged' = (logged \/ current_navigator # NoServer)
          /\ \A t \in Servers : t # s => worker'[t] = worker[t]
      BY <1>a, <2>1 DEF StartNavigating, WorkerTo
    <3>2. MuxerFreed'
      BY <3>1 DEF MuxerFreed, Navigating
    <3>3. MuxerKnows'
      BY <3>1, NoServerIsNoServer DEF MuxerOK, MuxerKnows, Navigating
    <3>4. QED
      BY <3>2, <3>3 DEF MuxerOK
  <2>2. CASE StopNavigating(s)
    <3>1. /\ current_navigator' = (IF current_navigator = s THEN NoServer ELSE current_navigator)
          /\ worker'[s] = "result" /\ UNCHANGED logged /\ ~Crashed /\ worker[s] = "complete"
          /\ \A t \in Servers : t # s => worker'[t] = worker[t]
      BY <1>a, <2>2 DEF StopNavigating, Callback, WorkerTo
    <3>2. MuxerFreed'
      BY <1>a, <3>1 DEF MuxerOK, MuxerFreed, Navigating, Crashed
    <3>3. MuxerKnows'
      BY <3>1 DEF MuxerOK, MuxerKnows, Navigating
    <3>4. QED
      BY <3>2, <3>3 DEF MuxerOK
  <2>3. CASE ReceiveGoal(s) \/ TreeNotLoaded(s) \/ SetResult(s)
    <3>1. PICK to \in {"wrapup", "start", "crashed"} :
            /\ worker[s] \in {"receive", "start", "result"}
            /\ worker' = [worker EXCEPT ![s] = to]
            /\ ~Crashed /\ UNCHANGED <<current_navigator, logged>>
      BY <2>3 DEF ReceiveGoal, TreeNotLoaded, SetResult, Callback, WorkerTo
    <3>2. QED
      BY <3>1, MuxerUntouched DEF Navigating
  <2>4. CASE CancelRun(s) \/ TreeRuns(s) \/ TreeSucceeds(s) \/ TreeFails(s) \/ OnLoop(s)
               \/ OnPreempt(s) \/ AcceptPendingGoal(s) \/ DeclinePendingGoal(s)
    <3>1. PICK to \in {"check", "loop", "preempt", "takeover", "decline", "complete", "crashed"} :
            /\ Navigating(s) /\ worker' = [worker EXCEPT ![s] = to]
            /\ ~Crashed /\ UNCHANGED <<current_navigator, logged>>
      BY <2>4
         DEF CancelRun, TreeRuns, TreeSucceeds, TreeFails, OnLoop, OnPreempt, AcceptPendingGoal,
             DeclinePendingGoal, Callback, WorkerTo, RunOn, Navigating
    <3>2. QED
      BY <3>1, MuxerUntouched
  <2>5. QED
    BY <1>3, <2>1, <2>2, <2>3, <2>4 DEF CallbackStep
<1>4. ASSUME NEW s \in Servers, Work(s) PROVE MuxerOK'
  <2>1. PICK to \in {"test", "receive", "leaving", "ready"} :
          /\ worker[s] \in {"test", "wrapup", "leaving"}
          /\ worker' = [worker EXCEPT ![s] = to]
          /\ ~Crashed /\ UNCHANGED <<current_navigator, logged>>
    BY <1>4 DEF Work, LoopTest, WrapUp, ThreadEnds, WorkerTo
  <2>2. QED
    BY <2>1, MuxerUntouched DEF Navigating
<1>5. QED
  BY <1>1, <1>2, <1>3, <1>4 DEF Next

LEMMA MuxerHolds == Spec => []MuxerOK
<1>1. Init => MuxerOK
  BY DEF Init, ServerInit, MuxerOK, MuxerFreed, MuxerKnows, Navigating
<1>2. QED
  BY <1>1, MuxerOKNext, InvariantHolds, PTL DEF Spec
-----------------------------------------------------------------------------
(***************************************************************************)
(* Theorems.                                                               *)
(***************************************************************************)

\* Every variable keeps its type, and every handle a server holds is of an active
\* goal: the check is_active() that the methods of SimpleActionServer make before
\* they touch a handle is always true.
THEOREM TypeCorrect == Spec => []TypeOK
<1>1. Typed => TypeOK
  BY DEF Typed
<1>2. QED
  BY <1>1, InvariantHolds, PTL

\* executeCallback never returns with its goal active, whatever the tree came to
\* and whatever goals arrived meanwhile: the case of SimpleActionServer::work for
\* a callback that does, which WrapUp leaves out, is never entered.
NoGoalLeftActive == \A s \in Servers : worker[s] = "wrapup" => current[s] = None
THEOREM CallbackEndsItsGoal == Spec => []NoGoalLeftActive
<1>1. ServersOK => NoGoalLeftActive
  BY DEF ServersOK, ServerOK, CallbackOK, NoGoalLeftActive
<1>2. QED
  BY <1>1, InvariantHolds, PTL

\* A callback follows a null goal pointer only after a deactivation that ran out of
\* time: get_current_goal, get_pending_goal and accept_pending_goal find a goal.
THEOREM GoalsAreFound == Spec => []GoalsFoundUnlessOverdue
<1>1. ServersOK => GoalsFoundUnlessOverdue
  BY DEF ServersOK, ServerOK, GoalsAreThere, GoalsFoundUnlessOverdue, Crashed
<1>2. QED
  BY <1>1, InvariantHolds, PTL

\* on_deactivate returns only when no navigator of the node is under way.
THEOREM DeactivationIsComplete == Spec => []DeactivatedIsQuiet
<1>1. ServersOK => DeactivatedIsQuiet
  BY DEF ServersOK, ServerOK, QuietUnlessWaiting, DeactivatedIsQuiet
<1>2. QED
  BY <1>1, InvariantHolds, PTL

\* Only a deactivation makes a thread leave the server's current goal behind.
THEOREM OnlyDeactivationStrands == Spec => []StrandedByDeactivation
<1>1. ServersOK => StrandedByDeactivation
  BY DEF ServersOK, ServerOK, LeavesNothing, StrandedByDeactivation, Active
<1>2. QED
  BY <1>1, InvariantHolds, PTL

\* Two navigators navigate at once only after the muxer has logged its error: the
\* check of onGoalReceived and the announcement of goalReceived are two lock
\* sections, and the second notices whatever came between.
THEOREM MuxerNotices == Spec => []OneNavigatorUnlessLogged
<1>1. MuxerOK => OneNavigatorUnlessLogged
  BY DEF MuxerOK, MuxerKnows, OneNavigatorUnlessLogged
<1>2. QED
  BY <1>1, MuxerHolds, PTL

\* The muxer is never left with a navigator that has stopped.
THEOREM MuxerIsFreed == Spec => []MuxerFreed
<1>1. MuxerOK => MuxerFreed
  BY DEF MuxerOK
<1>2. QED
  BY <1>1, MuxerHolds, PTL

\* A goal reported as succeeded is one whose tree succeeded, or one that took over
\* in the onLoop after the tree's last tick.
THEOREM SuccessIsEarned == Spec => SucceededWasReached
<1>. DEFINE Earned == \A g \in Goals :
                        status'[g] = "succeeded" /\ status[g] # "succeeded" =>
                          \E s \in Servers : g \in {reached[s], late[s]}
<1>1. Typed /\ ServersOK /\ [Next]_vars => [Earned]_vars
  <2> SUFFICES ASSUME Typed, ServersOK, [Next]_vars PROVE Earned
    OBVIOUS
  <2>a. HandlesOK
    BY DEF Typed
  <2>b. \A S : \A g \in Goals : Terminated(S)[g] = "succeeded" => status[g] = "succeeded"
    BY DEF Terminated, Verdict
  <2>c. \A s \in Servers :
          TerminateAll(s) \/ TerminateCurrent(s) \/ TerminatePending(s) => Earned
    BY <2>b DEF TerminateAll, TerminateCurrent, TerminatePending
  <2>d. UNCHANGED status => Earned
    OBVIOUS
  <2>e. \A s \in Servers : AcceptPending(s) => Earned
    BY DEF AcceptPending
  <2>. HIDE DEF Earned
  <2>. USE DEF handleVars
  <2>1. CASE GoalRequest
    <3>1. PICK s \in Servers : HandleGoal(s) \/ HandleAccepted(s)
      BY <2>1 DEF GoalRequest
    <3>2. CASE HandleGoal(s)
      BY <2>a, <3>2 DEF HandleGoal, HandlesOK, HandlesTypeOK, Earned
    <3>3. CASE HandleAccepted(s)
      BY <2>a, <3>3, HandleAcceptedOK DEF Earned, Verdict
    <3>4. QED
      BY <3>1, <3>2, <3>3
  <2>2. CASE CancelRequest
    BY <2>a, <2>2 DEF CancelRequest, HandleCancel, HandlesOK, HandlesTypeOK, Earned
  <2>3. CASE OnActivate \/ OnDeactivate \/ Deactivated \/ UNCHANGED vars
    BY <2>3, <2>d
       DEF OnActivate, ActivateServers, OnDeactivate, Deactivated, DeactivateFrom, StopServer,
           vars, serverVars
  <2>4. CASE MissedDeadline
    BY <2>4, <2>c DEF MissedDeadline
  <2>5. ASSUME NEW s \in Servers, CallbackStep(s) PROVE Earned
    <3>1. CASE SetResult(s)
      <4>1. outcome[s] \in {"SUCCEEDED", "FAILED", "CANCELED"}
        BY <3>1 DEF SetResult, Callback, WorkerTo, ServersOK, ServerOK, CallbackOK, Typed, TypeOK
      <4>2. CASE outcome[s] = "SUCCEEDED"
        <5>1. SucceededCurrent(s) /\ UNCHANGED sent
          BY <3>1, <4>2 DEF SetResult, Callback
        <5>2. current[s] # None => current[s] \in {reached[s], late[s]}
          BY <4>2 DEF ServersOK, ServerOK, CallbackOK
        <5>3. QED
          BY <5>1, <5>2 DEF SucceededCurrent, Active, Earned
      <4>3. CASE outcome[s] # "SUCCEEDED"
        BY <2>c, <3>1, <4>1, <4>3 DEF SetResult
      <4>4. QED
        BY <4>2, <4>3
    <3>2. CASE ~SetResult(s)
      BY <2>5, <2>c, <2>d, <2>e, <3>2
         DEF CallbackStep, ReceiveGoal, Refused, StartNavigating, TreeNotLoaded, CancelRun, TreeRuns,
             TreeSucceeds, TreeFails, OnLoop, OnPreempt, AcceptPendingGoal, DeclinePendingGoal,
             StopNavigating
    <3>3. QED
      BY <3>1, <3>2
  <2>6. ASSUME NEW s \in Servers, Work(s) PROVE Earned
    BY <2>6, <2>c, <2>d, <2>e DEF Work, LoopTest, WrapUp, ThreadEnds
  <2>7. QED
    BY <2>1, <2>2, <2>3, <2>4, <2>5, <2>6 DEF Next
<1>2. QED
  BY <1>1, InvariantHolds, PTL DEF Spec, SucceededWasReached
-----------------------------------------------------------------------------
(***************************************************************************)
(* BtNavigator implements GoalServer: every method and handler is a step   *)
(* of the promise or leaves what the clients see alone.                    *)
(***************************************************************************)
Kept == [Promise!Next]_(Promise!vars)

LEMMA EndingIsGivingUp ==
  ASSUME HandlesOK, NEW s \in Servers, NEW S \in SUBSET ({current[s], pending[s]} \ {None}),
         EndsGoals(s, S)
  PROVE  Kept
<1>1. CASE S = {}
  <2>1. UNCHANGED <<status, current, pending>>
    BY <1>1 DEF EndsGoals, HandlesOK, HandlesTypeOK
  <2>2. QED
    BY <2>1 DEF Kept, Promise!vars
<1>2. CASE S # {}
  <2>1. S \in (SUBSET {current[s], pending[s]}) \ {{}}
    BY <1>2
  <2>2. \A g \in S : g # None /\ Promise!Open(g)
    BY DEF HandlesOK, HandlesActive, Promise!Open
  <2>3. status' = [h \in Goals |-> IF h \in S THEN Promise!Given(h) ELSE status[h]]
    BY DEF EndsGoals, Verdict, Promise!Given
  <2>4. /\ current' = Promise!Without(current, s, S)
        /\ pending' = Promise!Without(pending, s, S)
    BY DEF EndsGoals, Promise!Without
  <2>5. Promise!GiveUp(s)
    BY <2>1, <2>2, <2>3, <2>4 DEF Promise!GiveUp
  <2>6. QED
    BY <2>5 DEF Kept, Promise!Next
<1>3. QED
  BY <1>1, <1>2

LEMMA MethodsKeep ==
  ASSUME HandlesOK, NEW s \in Servers, UNCHANGED sent,
         \/ TerminateAll(s) \/ TerminateCurrent(s) \/ TerminatePending(s)
         \/ SucceededCurrent(s) \/ AcceptPending(s) \/ UNCHANGED handleVars
  PROVE  Kept
<1>1. CASE TerminateAll(s) \/ TerminateCurrent(s) \/ TerminatePending(s)
  BY <1>1, TerminateAllEnds, TerminateCurrentEnds, TerminatePendingEnds, EndingIsGivingUp
<1>2. CASE SucceededCurrent(s)
  <2>1. /\ current[s] # None => status' = [status EXCEPT ![current[s]] = "succeeded"]
        /\ current[s] = None => status' = status
        /\ current' = [current EXCEPT ![s] = None]
        /\ UNCHANGED pending
    BY <1>2, SucceededCurrentOK
  <2>2. CASE current[s] # None
    <3>1. Promise!Succeed(s)
      BY <2>1, <2>2 DEF Promise!Succeed
    <3>2. QED
      BY <3>1 DEF Kept, Promise!Next
  <2>3. CASE current[s] = None
    <3>1. UNCHANGED <<status, current, pending>>
      BY <2>1, <2>3 DEF HandlesOK, HandlesTypeOK
    <3>2. QED
      BY <3>1 DEF Kept, Promise!vars
  <2>4. QED
    BY <2>2, <2>3
<1>3. CASE AcceptPending(s)
  <2>1. /\ pending[s] # None
        /\ status' = [g \in Goals |-> IF g = current[s] THEN "aborted" ELSE status[g]]
        /\ current' = [current EXCEPT ![s] = pending[s]]
        /\ pending' = [pending EXCEPT ![s] = None]
    BY <1>3, AcceptPendingOK
  <2>2. current[s] < pending[s]
    <3>1. CASE current[s] # None
      BY <2>1, <3>1 DEF HandlesOK, HandlesDistinct
    <3>2. CASE current[s] = None
      BY <2>1, <3>2 DEF HandlesOK, HandlesTypeOK, Goals, None
    <3>3. QED
      BY <3>1, <3>2
  <2>3. Promise!TakeOver(s)
    BY <2>1, <2>2 DEF Promise!TakeOver
  <2>4. QED
    BY <2>3 DEF Kept, Promise!Next
<1>4. CASE UNCHANGED handleVars
  BY <1>4 DEF handleVars, Kept, Promise!vars
<1>5. QED
  BY <1>1, <1>2, <1>3, <1>4

LEMMA HandlersKeep ==
  ASSUME HandlesOK,
         \/ \E s \in Servers : HandleGoal(s) \/ HandleAccepted(s)
         \/ \E g \in Goals : HandleCancel(g)
  PROVE  Kept
<1>1. ASSUME NEW s \in Servers, HandleGoal(s) PROVE Kept
  <2>1. sent + 1 \in Goals /\ sent \in Nat
    BY <1>1, MaxGoalsAssumption DEF HandleGoal, HandlesOK, HandlesTypeOK
  <2>2. status[sent + 1] = "unsent"
    BY <2>1 DEF HandlesOK, NotYetSent
  <2>3. Promise!Reject(sent + 1)
    BY <1>1, <2>2 DEF HandleGoal, Promise!Reject
  <2>4. QED
    BY <2>1, <2>3 DEF Kept, Promise!Next
<1>2. ASSUME NEW s \in Servers, HandleAccepted(s) PROVE Kept
  <2>1. /\ sent + 1 \in Goals /\ status[sent + 1] = "unsent"
        /\ status' = [h \in Goals |-> IF h = sent + 1 THEN "executing"
                                       ELSE IF h = pending[s] THEN Verdict(h) ELSE status[h]]
        /\ \/ pending' = [pending EXCEPT ![s] = sent + 1] /\ UNCHANGED current
           \/ /\ current[s] = None
              /\ current' = [current EXCEPT ![s] = sent + 1]
              /\ pending' = [pending EXCEPT ![s] = None]
    BY <1>2, HandleAcceptedOK
  <2>2. PICK g \in Goals : g = sent + 1
    BY <2>1
  <2>3. status' = [h \in Goals |-> CASE h = g -> "executing"
                                      [] h # g /\ h = pending[s] -> Promise!Given(h)
                                      [] OTHER -> status[h]]
    BY <2>1, <2>2 DEF Verdict, Promise!Given
  <2>4. Promise!Accept(s, g)
    BY <2>1, <2>2, <2>3 DEF Promise!Accept
  <2>5. QED
    BY <2>4 DEF Kept, Promise!Next
<1>3. ASSUME NEW g \in Goals, HandleCancel(g) PROVE Kept
  <2>1. Promise!AskCancel(g)
    BY <1>3 DEF HandleCancel, Promise!AskCancel
  <2>2. QED
    BY <2>1 DEF Kept, Promise!Next
<1>4. QED
  BY <1>1, <1>2, <1>3

LEMMA StepsKeep == Typed /\ ServersOK /\ [Next]_vars => Kept
<1> SUFFICES ASSUME Typed, ServersOK, [Next]_vars PROVE Kept
  OBVIOUS
<1>a. HandlesOK
  BY DEF Typed
<1>b. UNCHANGED handleVars => Kept
  BY DEF handleVars, Kept, Promise!vars
<1>1. CASE GoalRequest \/ CancelRequest
  BY <1>1, <1>a, HandlersKeep DEF GoalRequest, CancelRequest
<1>2. CASE OnActivate \/ OnDeactivate \/ Deactivated \/ UNCHANGED vars
  BY <1>2, <1>b
     DEF OnActivate, ActivateServers, OnDeactivate, Deactivated, DeactivateFrom, StopServer,
         vars, serverVars
<1>3. CASE MissedDeadline
  BY <1>3, <1>a, MethodsKeep DEF MissedDeadline
<1>4. ASSUME NEW s \in Servers, CallbackStep(s) PROVE Kept
  <2>1. CASE SetResult(s)
    <3>1. worker[s] = "result" /\ UNCHANGED sent
      BY <2>1 DEF SetResult, Callback, WorkerTo
    <3>2. outcome[s] \in {"SUCCEEDED", "FAILED", "CANCELED"}
      BY <3>1 DEF ServersOK, ServerOK, CallbackOK, Typed, TypeOK
    <3>3. SucceededCurrent(s) \/ TerminateCurrent(s) \/ TerminateAll(s)
      BY <2>1, <3>2 DEF SetResult
    <3>4. QED
      BY <1>a, <3>1, <3>3, MethodsKeep
  <2>2. CASE ~SetResult(s)
    <3>1. UNCHANGED sent
      BY <1>4, <2>2
         DEF CallbackStep, ReceiveGoal, StartNavigating, TreeNotLoaded, CancelRun, TreeRuns,
             TreeSucceeds, TreeFails, OnLoop, OnPreempt, AcceptPendingGoal, DeclinePendingGoal,
             StopNavigating, Callback
    <3>2. TerminateCurrent(s) \/ TerminatePending(s) \/ AcceptPending(s) \/ UNCHANGED handleVars
      BY <1>4, <2>2
         DEF CallbackStep, ReceiveGoal, Refused, StartNavigating, TreeNotLoaded, CancelRun, TreeRuns,
             TreeSucceeds, TreeFails, OnLoop, OnPreempt, AcceptPendingGoal, DeclinePendingGoal,
             StopNavigating
    <3>3. QED
      BY <1>a, <3>1, <3>2, MethodsKeep
  <2>3. QED
    BY <2>1, <2>2
<1>5. ASSUME NEW s \in Servers, Work(s) PROVE Kept
  <2>1. UNCHANGED sent /\ (TerminateAll(s) \/ AcceptPending(s) \/ UNCHANGED handleVars)
    BY <1>5 DEF Work, LoopTest, WrapUp, ThreadEnds
  <2>2. QED
    BY <1>a, <2>1, MethodsKeep
<1>6. QED
  BY <1>1, <1>2, <1>3, <1>4, <1>5 DEF Next

\* The clients see an action server: one goal at a time, newer goals take over from
\* older ones, each accepted goal ends once and as it should.
THEOREM ImplementsPromise == Spec => ImplementsGoalServer
<1>1. Init => Promise!Init
  BY DEF Init, ServerInit, Promise!Init
<1>2. Typed /\ ServersOK /\ [Next]_vars => [Promise!Next]_(Promise!vars)
  BY StepsKeep DEF Kept
<1>3. QED
  BY <1>1, <1>2, InvariantHolds, PTL DEF Spec, ImplementsGoalServer, Promise!Spec
=============================================================================
