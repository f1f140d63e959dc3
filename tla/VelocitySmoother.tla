--------------------------- MODULE VelocitySmoother ---------------------------
(***************************************************************************)
(* nav2_velocity_smoother: the node between Nav2's controllers and the     *)
(* base.  A command stays in force until it is older than                  *)
(* velocity_timeout; a timer moves the published speed towards it by no    *)
(* more than the acceleration limits allow.  The node is spun by one       *)
(* thread, so a callback is one step; what can come in any order are the   *)
(* timer, the commands, the passing of time, the odometry, and the         *)
(* operator's lifecycle and parameter changes.                             *)
(*                                                                         *)
(* Speeds are integers, a limit is what a speed may change by in a tick,   *)
(* and a scaled change is rounded towards zero.  A command with NaNs is    *)
(* ignored and not modelled; the values refused by the parameter callback, *)
(* which it uses all the same, are not modelled either.                    *)
(***************************************************************************)
EXTENDS Integers, FiniteSets

CONSTANTS
  Axes,                   \* linear.x, linear.y, angular.z
  Commands,               \* what the controller may send
  NoCommand,              \* command_ before the first message
  MaxVelocity, MinVelocity, Deadband,
  Limits,                 \* values the acceleration and deceleration limits may have
  Timeout,                \* velocity_timeout
  Measured,               \* what the odometry may average to against the robot's motion
  MaxChanges              \* bound: parameter changes at run time, and such readings

Velocity == [Axes -> Int]
Zero == [a \in Axes |-> 0]

ASSUME AxesAssumption == IsFiniteSet(Axes)
ASSUME CommandsAssumption == Commands \subseteq Velocity /\ NoCommand \notin Velocity
\* Nothing in the code sees to the order; without it silence does not stop the robot.
ASSUME VelocityAssumption ==
  /\ MinVelocity \in Velocity /\ MaxVelocity \in Velocity
  /\ \A a \in Axes : MinVelocity[a] <= 0 /\ 0 <= MaxVelocity[a]
  /\ Deadband \in [Axes -> Nat]
ASSUME LimitsAssumption == Limits \subseteq [accel : [Axes -> Nat], decel : [Axes -> Nat]]
ASSUME MeasuredAssumption == Measured \subseteq Velocity
ASSUME SmootherBoundsAssumption == Timeout \in Nat /\ MaxChanges \in Nat

VARIABLES
  state,      \* lifecycle state; the timer exists in "active"
  open_loop,  \* feedback: the last smoothed speed, or the odometry
  scale_velocities,
  limits,     \* max_accels_ and max_decels_
  command,    \* command_
  age,        \* time since last_command_time_, up to Timeout + 1
  last_cmd,   \* last_cmd_: the last speed before the deadband
  stopped,    \* stopped_
  odom,       \* what odom_smoother_ returns; Zero while there is none
  driven,     \* the last speed published, which the base follows
  changes     \* history: parameter changes and Measured readings

paramVars == <<open_loop, scale_velocities, limits>>
vars == <<state, paramVars, command, age, last_cmd, stopped, odom, driven, changes>>

Within(v) ==
  v \in Velocity /\ \A a \in Axes : v[a] \in MinVelocity[a]..MaxVelocity[a]

\* Beyond neither the velocity limits nor every odometry: the tick limits the
\* wanted speed, but starts from the measured one in closed loop.
Bounded(v) ==
  LET extremes == {MinVelocity, MaxVelocity} \union Measured
  IN /\ v \in Velocity
     /\ \A a \in Axes :
          (\E low \in extremes : low[a] <= v[a]) /\ (\E high \in extremes : v[a] <= high[a])

\* A command taken over by a tick keeps to the velocity limits; what is published
\* exceeds them only as far as the odometry did.

TypeOK ==
  /\ state \in {"unconfigured", "inactive", "active"}
  /\ open_loop \in BOOLEAN /\ scale_velocities \in BOOLEAN /\ limits \in Limits
  /\ \/ command \in Commands \union {NoCommand}
     \/ Within(command)
  /\ age \in 0..Timeout + 1
  /\ Bounded(last_cmd) /\ Bounded(odom) /\ Bounded(driven)
  /\ stopped \in BOOLEAN
  /\ changes \in 0..MaxChanges

Init ==
  /\ state = "unconfigured"
  /\ open_loop = TRUE /\ scale_velocities = FALSE /\ limits \in Limits
  /\ command = NoCommand /\ age = 0
  /\ last_cmd = Zero /\ stopped = TRUE
  /\ odom = Zero /\ driven = Zero
  /\ changes = 0
-----------------------------------------------------------------------------
(***************************************************************************)
(* The arithmetic of smootherTimer.                                        *)
(***************************************************************************)
Abs(i) == IF i < 0 THEN -i ELSE i
Sign(i) == IF i < 0 THEN -1 ELSE IF i = 0 THEN 0 ELSE 1
Lesser(i, j) == IF i < j THEN i ELSE j
Clamp(i, low, high) == IF i < low THEN low ELSE IF i > high THEN high ELSE i

\* Mutant: the command's speed is not limited.
RestrictedNot(v) == v
Restricted(v) == [a \in Axes |-> Clamp(v[a], MinVelocity[a], MaxVelocity[a])]

Deadbanded(v) == [a \in Axes |-> IF Abs(v[a]) < Deadband[a] THEN 0 ELSE v[a]]

Accelerating(from, to) == Abs(to) >= Abs(from) /\ from * to >= 0

\* What axis a may change by in one tick on the way to its commanded speed.
MaxChange(a, from, to) ==
  IF Accelerating(from, to) THEN limits.accel[a] ELSE limits.decel[a]

\* The scale each axis that is beyond its limit asks for.  An axis that may not
\* change at all asks for zero, which the code takes for none.
EtaConstraints(from, to) ==
  LET change(a) == MaxChange(a, from[a], to[a])
      beyond == {a \in Axes : change(a) > 0 /\ Abs(to[a] - from[a]) > change(a)}
  IN {[num |-> change(a), den |-> Abs(to[a] - from[a])] : a \in beyond}

AtMost(r, s) == r.num * s.den <= s.num * r.den

\* Mutant: the scale of the least constrained axis.
EtaLargest(from, to) ==
  LET constraints == EtaConstraints(from, to)
  IN IF scale_velocities /\ constraints # {}
     THEN CHOOSE r \in constraints : \A s \in constraints : AtMost(s, r)
     ELSE [num |-> 1, den |-> 1]

Eta(from, to) ==
  LET constraints == EtaConstraints(from, to)
  IN IF scale_velocities /\ constraints # {}
     THEN CHOOSE r \in constraints : \A s \in constraints : AtMost(r, s)
     ELSE [num |-> 1, den |-> 1]

\* The speed one tick later, from speed "from" on the way to "to".
ApplyConstraints(from, to) ==
  LET eta == Eta(from, to)
      scaled(a) == (Abs(to[a] - from[a]) * eta.num) \div eta.den
  IN [a \in Axes |->
        from[a] + Sign(to[a] - from[a])
                    * Lesser(scaled(a), MaxChange(a, from[a], to[a]))]
-----------------------------------------------------------------------------
Silent == age > Timeout
Current == IF open_loop THEN last_cmd ELSE odom
Wanted == Restricted(IF Silent \/ command = NoCommand THEN Zero ELSE command)

InputCommandCallback(c) ==
  /\ state # "unconfigured"
  /\ command' = c /\ age' = 0
  /\ UNCHANGED <<state, paramVars, last_cmd, stopped, odom, driven, changes>>

\* Mutant: the speed is remembered as it is published, after the deadband.
SmoothedAndDeadbanded == Deadbanded(ApplyConstraints(Current, Wanted))
Smoothed == ApplyConstraints(Current, Wanted)

\* Mutant: silence is taken for standing still.
StaysSilentAtOnce == Silent
StaysSilent == Silent /\ (last_cmd = Zero \/ stopped)

SmootherTimer ==
  /\ state = "active" /\ command # NoCommand
  /\ IF StaysSilent
     THEN stopped' = TRUE /\ UNCHANGED <<command, last_cmd, driven>>
     ELSE /\ stopped' = FALSE
          /\ command' = Wanted
          /\ last_cmd' = Smoothed
          /\ driven' = Deadbanded(last_cmd')
  /\ UNCHANGED <<state, paramVars, age, odom, changes>>

Elapse ==
  /\ command # NoCommand /\ age <= Timeout
  /\ age' = age + 1
  /\ UNCHANGED <<state, paramVars, command, last_cmd, stopped, odom, driven, changes>>

\* The mean of the twists of the window is v, whatever they were.
OdomCallback(v) ==
  /\ state # "unconfigured" /\ ~open_loop
  /\ odom' = v
  /\ UNCHANGED <<state, paramVars, command, age, last_cmd, stopped, driven>>

\* The robot follows what is published, and its odometry tells.
Follow ==
  /\ odom # driven
  /\ OdomCallback([a \in Axes |-> odom[a] + Sign(driven[a] - odom[a])])
  /\ UNCHANGED changes

\* The robot is pushed, slips or rolls, or its odometry errs.
Disturbed ==
  /\ changes < MaxChanges
  /\ changes' = changes + 1
  /\ \E v \in Measured : OdomCallback(v)
-----------------------------------------------------------------------------
(***************************************************************************)
(* Lifecycle and parameters.  No transition touches the command or the     *)
(* last speed.  A new OdomSmoother returns zero until odometry arrives.    *)
(***************************************************************************)
OnConfigure ==
  /\ state = "unconfigured"
  /\ state' = "inactive"
  /\ open_loop' \in BOOLEAN /\ scale_velocities' \in BOOLEAN /\ limits' \in Limits
  /\ UNCHANGED <<command, age, last_cmd, stopped, odom, driven, changes>>

\* Mutant: activation starts from standstill.
OnActivateAtRest ==
  /\ state = "inactive"
  /\ state' = "active"
  /\ last_cmd' = Zero
  /\ UNCHANGED <<paramVars, command, age, stopped, odom, driven, changes>>

OnActivate ==
  /\ state = "inactive"
  /\ state' = "active"
  /\ UNCHANGED <<paramVars, command, age, last_cmd, stopped, odom, driven, changes>>

\* Nothing is published: the base keeps the last speed.
OnDeactivate ==
  /\ state = "active"
  /\ state' = "inactive"
  /\ UNCHANGED <<paramVars, command, age, last_cmd, stopped, odom, driven, changes>>

OnCleanup ==
  /\ state = "inactive"
  /\ state' = "unconfigured"
  /\ odom' = Zero
  /\ UNCHANGED <<paramVars, command, age, last_cmd, stopped, driven, changes>>

ChangesParameter ==
  /\ state = "active" /\ changes < MaxChanges
  /\ changes' = changes + 1
  /\ UNCHANGED <<state, scale_velocities, command, age, last_cmd, stopped, driven>>

SetLimits ==
  /\ ChangesParameter
  /\ limits' \in Limits \ {limits}
  /\ UNCHANGED <<open_loop, odom>>

SetFeedback ==
  /\ ChangesParameter
  /\ open_loop' \in BOOLEAN
  /\ odom' = Zero
  /\ UNCHANGED limits
-----------------------------------------------------------------------------
Lifecycle == OnConfigure \/ OnActivate \/ OnDeactivate \/ OnCleanup

Next ==
  \/ (\E c \in Commands : InputCommandCallback(c))
  \/ SmootherTimer \/ Elapse \/ Follow \/ Disturbed
  \/ Lifecycle \/ SetLimits \/ SetFeedback

Spec == Init /\ [][Next]_vars

\* The wall timer keeps firing on a thread nothing blocks; the robot does what the
\* base is told and its odometry says so in the end.  No command need ever come,
\* nor time pass, for the properties.
FairSpec == Spec /\ WF_vars(SmootherTimer) /\ WF_vars(Follow)
-----------------------------------------------------------------------------
(***************************************************************************)
(* Properties.                                                             *)
(***************************************************************************)

\* What the deadband may add to a change: it takes off less than itself.
Slack(a) == IF Deadband[a] = 0 THEN 0 ELSE Deadband[a] - 1

\* In open loop the base never sees a jump: from one published speed to the next,
\* a deactivation, a change of parameters, a timeout and a stale command between
\* them or not, an axis gains no more than its acceleration limit, and loses or
\* reverses by no more than its deceleration limit (last_cmd_ survives every
\* transition of the node).
NoJump ==
  [][open_loop => \A a \in Axes :
       Abs(driven'[a] - driven[a]) <= Slack(a)
         + IF Abs(last_cmd'[a]) > Abs(last_cmd[a]) /\ last_cmd[a] * last_cmd'[a] >= 0
           THEN limits.accel[a] ELSE limits.decel[a]]_vars

\* With scale_velocities every change of speed points from the current speed to
\* the wanted one, on the axes that may change at all and up to the rounding of the
\* model (README "Smooth velocities proportionally in the same direction as
\* commanded").
Wish(i) == command'[i] - Current[i]
Change(i) == last_cmd'[i] - Current[i]
MayChange(i) == MaxChange(i, Current[i], command'[i]) > 0
SameDirection ==
  [][scale_velocities /\ last_cmd' # last_cmd =>
       \A a, b \in Axes :
         MayChange(a) /\ MayChange(b) =>
           LET cross == Abs(Change(a) * Wish(b) - Change(b) * Wish(a))
           IN cross <= Abs(Wish(a)) \/ cross <= Abs(Wish(b))]_vars

\* A silent controller's robot is brought to a stand, from any speed and through any
\* push or change of feedback or limits, unless a command comes or the node is
\* deactivated, which leaves the base with its speed (smootherTimer's timeout;
\* README "to stop the robot, in case not properly handled").
SilenceStops ==
  (state = "active" /\ command # NoCommand /\ Silent) ~>
    ((stopped /\ driven = Zero) \/ ~Silent \/ state # "active")

\* A robot whose odometry is fed back leaves standstill only if one tick's gain
\* passes the deadband.
Startable == open_loop \/ \A a \in Axes : Deadband[a] <= limits.accel[a]

\* A command kept up is reached, on every axis, and held; in closed loop only if
\* the deadband lets the robot start.
CommandReached ==
  (/\ <>[](state = "active" /\ command # NoCommand /\ ~Silent /\ Startable)
   /\ <>[][Wanted' = Wanted]_vars)
  => <>[](driven = Deadbanded(Wanted))
=============================================================================
