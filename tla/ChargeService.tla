--------------------------- MODULE ChargeService ---------------------------
(***************************************************************************)
(* What the charging node promises, without its threads and flags: it      *)
(* takes requests, makes one trip at a time, and starts a docking session  *)
(* from a trip that arrived.  Sessions move the robot; one that ends       *)
(* leaves it stopped, unless the node is quitting.                         *)
(***************************************************************************)
CONSTANT Sessions

VARIABLES
  request,   \* somebody asked for a trip
  trip,      \* "none", "under_way" or "arrived"
  session,   \* per session: "unborn", "docking" or "ended"
  speed,     \* the last command to the robot: "none", "drive" or "stop"
  quitting   \* the operator has ended the node

vars == <<request, trip, session, speed, quitting>>

Init ==
  /\ ~request
  /\ trip = "none"
  /\ session = [t \in Sessions |-> "unborn"]
  /\ speed = "none"
  /\ ~quitting

Ask ==
  /\ request' = TRUE
  /\ UNCHANGED <<trip, session, speed, quitting>>

Depart ==
  /\ request /\ trip = "none"
  /\ request' = FALSE
  /\ trip' = "under_way"
  /\ UNCHANGED <<session, speed, quitting>>

EndTrip ==
  /\ trip = "under_way"
  /\ trip' \in {"arrived", "none"}
  /\ UNCHANGED <<request, session, speed, quitting>>

Dock(t) ==
  /\ trip = "arrived" /\ session[t] = "unborn"
  /\ trip' = "none"
  /\ session' = [session EXCEPT ![t] = "docking"]
  /\ UNCHANGED <<request, speed, quitting>>

Move(t) ==
  /\ session[t] = "docking"
  /\ speed' \in {"drive", "stop"}
  /\ UNCHANGED <<request, trip, session, quitting>>

End(t) ==
  /\ session[t] = "docking"
  /\ session' = [session EXCEPT ![t] = "ended"]
  /\ \/ speed' = "stop"
     \/ quitting /\ UNCHANGED speed
  /\ UNCHANGED <<request, trip, quitting>>

Quit ==
  /\ quitting' = TRUE
  /\ UNCHANGED <<request, trip, session, speed>>

Next ==
  \/ Ask \/ Depart \/ EndTrip \/ Quit
  \/ \E t \in Sessions : Dock(t) \/ Move(t) \/ End(t)

Spec == Init /\ [][Next]_vars
=============================================================================
