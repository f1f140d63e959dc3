----------------------------- MODULE GoalServer -----------------------------
(***************************************************************************)
(* What an action server promises its clients, whatever its threads do:    *)
(* it works on one goal at a time, a newer goal takes over from an older   *)
(* one, never the other way round, at most one goal waits to take over,    *)
(* and a goal that was accepted ends at most once: by success only while   *)
(* it is worked on, by cancellation only if its client asked.              *)
(***************************************************************************)
EXTENDS Integers

CONSTANTS Servers, Goals, None

VARIABLES
  status,    \* status[g]: what the client of goal g sees
  running,   \* running[s]: the goal the server works on, or None
  waiting    \* waiting[s]: the goal that waits to take over, or None

vars == <<status, running, waiting>>

Init ==
  /\ status = [g \in Goals |-> "unsent"]
  /\ running = [s \in Servers |-> None]
  /\ waiting = [s \in Servers |-> None]

Open(g) == status[g] \in {"executing", "canceling"}
Given(g) == IF status[g] = "canceling" THEN "canceled" ELSE "aborted"
Without(handle, s, S) == [handle EXCEPT ![s] = IF @ \in S THEN None ELSE @]

Reject(g) ==
  /\ status[g] = "unsent"
  /\ status' = [status EXCEPT ![g] = "rejected"]
  /\ UNCHANGED <<running, waiting>>

\* A goal that still waited gives way to the new one.
Accept(s, g) ==
  /\ status[g] = "unsent"
  /\ status' = [h \in Goals |->
                  CASE h = g -> "executing"
                    [] h # g /\ h = waiting[s] -> Given(h)
                    [] OTHER -> status[h]]
  /\ \/ /\ running[s] = None
        /\ running' = [running EXCEPT ![s] = g]
        /\ waiting' = [waiting EXCEPT ![s] = None]
     \/ waiting' = [waiting EXCEPT ![s] = g] /\ UNCHANGED running

AskCancel(g) ==
  /\ status[g] = "executing"
  /\ status' = [status EXCEPT ![g] = "canceling"]
  /\ UNCHANGED <<running, waiting>>

TakeOver(s) ==
  /\ waiting[s] # None /\ running[s] < waiting[s]
  /\ status' = [h \in Goals |-> IF h = running[s] THEN "aborted" ELSE status[h]]
  /\ running' = [running EXCEPT ![s] = waiting[s]]
  /\ waiting' = [waiting EXCEPT ![s] = None]

Succeed(s) ==
  /\ running[s] # None
  /\ status' = [status EXCEPT ![running[s]] = "succeeded"]
  /\ running' = [running EXCEPT ![s] = None]
  /\ UNCHANGED waiting

GiveUp(s) ==
  \E S \in (SUBSET {running[s], waiting[s]}) \ {{}} :
    /\ \A g \in S : g # None /\ Open(g)
    /\ status' = [h \in Goals |-> IF h \in S THEN Given(h) ELSE status[h]]
    /\ running' = Without(running, s, S)
    /\ waiting' = Without(waiting, s, S)

Next ==
  \/ \E g \in Goals : Reject(g) \/ AskCancel(g)
  \/ \E s \in Servers : TakeOver(s) \/ Succeed(s) \/ GiveUp(s)
  \/ \E s \in Servers, g \in Goals : Accept(s, g)

Spec == Init /\ [][Next]_vars
=============================================================================
