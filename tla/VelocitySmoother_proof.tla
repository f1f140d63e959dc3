----------------------- MODULE VelocitySmoother_proof -----------------------
(***************************************************************************)
(* Proofs about VelocitySmoother, for any finite number of axes, any       *)
(* limits, deadbands, commands and odometry.                               *)
(***************************************************************************)
EXTENDS VelocitySmoother, FiniteSetTheorems, TLAPS

(***************************************************************************)
(* Arithmetic.                                                             *)
(***************************************************************************)
LEMMA Products ==
  ASSUME NEW x \in Nat, NEW m \in Int, NEW n \in Int, m <= n
  PROVE  x * m <= x * n
OBVIOUS

LEMMA Quotient ==
  ASSUME NEW y \in Nat, NEW d \in Nat \ {0}
  PROVE  /\ y \div d \in Nat
         /\ d * (y \div d) <= y
         /\ y < d * (y \div d) + d
OBVIOUS

LEMMA AbsProperties ==
  ASSUME NEW i \in Int
  PROVE  Abs(i) \in Nat /\ Sign(i) \in {-1, 0, 1} /\ i = Sign(i) * Abs(i)
BY DEF Abs, Sign

\* A quotient of a scale that is at most one.
LEMMA ScaledAtMost ==
  ASSUME NEW x \in Nat, NEW n \in Nat, NEW d \in Nat \ {0}, n <= d
  PROVE  (x * n) \div d \in 0..x
<1> DEFINE q == (x * n) \div d
<1>1. x * n \in Nat
  OBVIOUS
<1>2. q \in Nat /\ d * q <= x * n
  BY <1>1, Quotient
<1>. HIDE DEF q
<1>3. x * n <= d * x
  BY Products
<1>4. ASSUME q >= x + 1 PROVE FALSE
  <2>1. d * (x + 1) <= d * q
    BY <1>2, <1>4, Products
  <2>2. QED
    BY <1>2, <1>3, <2>1
<1>5. q \in 0..x
  BY <1>2, <1>4
<1>6. QED
  BY <1>5 DEF q
-----------------------------------------------------------------------------
(***************************************************************************)
(* The least constraint exists, so that Eta is one of the constraints.     *)
(***************************************************************************)
Fractions == [num : Nat, den : Nat \ {0}]

LEMMA AtMostIsTotalOrder ==
  ASSUME NEW r \in Fractions, NEW s \in Fractions, NEW t \in Fractions
  PROVE  /\ AtMost(r, r)
         /\ AtMost(r, s) \/ AtMost(s, r)
         /\ AtMost(r, s) /\ AtMost(s, t) => AtMost(r, t)
<1>1. AtMost(r, r) /\ (AtMost(r, s) \/ AtMost(s, r))
  BY DEF AtMost, Fractions
<1>2. ASSUME NEW a \in Nat, NEW b \in Nat \ {0}, NEW c \in Nat, NEW d \in Nat \ {0},
             NEW e \in Nat, NEW f \in Nat \ {0}, a * d <= c * b, c * f <= e * d
      PROVE  a * f <= e * b
  BY <1>2
<1>3. AtMost(r, s) /\ AtMost(s, t) => AtMost(r, t)
  BY <1>2 DEF AtMost, Fractions
<1>4. QED
  BY <1>1, <1>3

\* Among the sets of what is below an element a smallest exists, by the wellfounded
\* inclusion of finite sets; nothing is below its element but what equals it.
LEMMA LeastFraction ==
  ASSUME NEW S \in SUBSET Fractions, IsFiniteSet(S), S # {}
  PROVE  \E r \in S : \A s \in S : AtMost(r, s)
<1> DEFINE Below(r) == {s \in S : AtMost(s, r)}
           T == {Below(r) : r \in S}
           Order == StrictSubsetOrdering(S)
<1>1. IsWellFoundedOn(Order, SUBSET S)
  BY FS_StrictSubsetOrderingWellFounded, FS_FiniteSubsetsOfFinite
<1>2. T \subseteq SUBSET S /\ T # {}
  OBVIOUS
<1>. HIDE DEF Order
<1>3. \E x \in T : \A y \in T : ~(<<y, x>> \in Order)
  <2>. HIDE DEF T
  <2>. QED
    BY <1>1, <1>2, WFMin
<1>4. PICK r \in S : \A s \in S : ~(<<Below(s), Below(r)>> \in Order)
  BY <1>3
<1>5. ASSUME NEW s \in S, ~AtMost(r, s) PROVE FALSE
  <2>1. AtMost(s, r) /\ AtMost(s, s)
    BY <1>5, AtMostIsTotalOrder
  <2>2. Below(s) \subseteq Below(r)
    <3>1. ASSUME NEW q \in S, AtMost(q, s) PROVE AtMost(q, r)
      BY <2>1, <3>1, AtMostIsTotalOrder
    <3>2. QED
      BY <3>1
  <2>3. r \notin Below(s) /\ r \in Below(r)
    BY <1>5, AtMostIsTotalOrder
  <2>4. <<Below(s), Below(r)>> \in Order
    BY <2>2, <2>3 DEF Order, StrictSubsetOrdering
  <2>5. QED
    BY <1>4, <2>4
<1>6. QED
  BY <1>5
-----------------------------------------------------------------------------
(***************************************************************************)
(* One tick.                                                               *)
(***************************************************************************)
LEMMA MaxChangeType ==
  ASSUME limits \in Limits, NEW a \in Axes, NEW x \in Int, NEW y \in Int
  PROVE  MaxChange(a, x, y) \in Nat
BY LimitsAssumption DEF MaxChange

LEMMA ConstraintsType ==
  ASSUME limits \in Limits, NEW from \in Velocity, NEW to \in Velocity
  PROVE  /\ EtaConstraints(from, to) \in SUBSET Fractions
         /\ IsFiniteSet(EtaConstraints(from, to))
         /\ \A r \in EtaConstraints(from, to) : r.num > 0 /\ r.num <= r.den
<1> DEFINE change(a) == MaxChange(a, from[a], to[a])
           beyond == {a \in Axes : change(a) > 0 /\ Abs(to[a] - from[a]) > change(a)}
           ratio(a) == [num |-> change(a), den |-> Abs(to[a] - from[a])]
           f == [a \in beyond |-> ratio(a)]
           S == {ratio(a) : a \in beyond}
<1>1. EtaConstraints(from, to) = S
  BY DEF EtaConstraints
<1>2. \A a \in Axes : change(a) \in Nat /\ Abs(to[a] - from[a]) \in Nat
  <2>1. ASSUME NEW a \in Axes PROVE from[a] \in Int /\ to[a] \in Int
    BY DEF Velocity
  <2>2. ASSUME NEW a \in Axes PROVE to[a] - from[a] \in Int
    BY <2>1
  <2>3. QED
    BY <2>1, <2>2, MaxChangeType, AbsProperties
<1>3. \A r \in S : r \in Fractions /\ r.num > 0 /\ r.num <= r.den
  <2>. HIDE DEF change
  <2>. QED
    BY <1>2 DEF Fractions
<1>4. IsFiniteSet(S)
  <2>1. IsFiniteSet(beyond)
    <3>1. beyond \in SUBSET Axes
      OBVIOUS
    <3>. HIDE DEF beyond
    <3>2. QED
      BY <3>1, AxesAssumption, FS_Subset
  <2>2. f \in Surjection(beyond, S)
    <3>. HIDE DEF beyond, ratio
    <3>. QED
      BY DEF Surjection
  <2>. HIDE DEF f, beyond, S
  <2>3. QED
    BY <2>1, <2>2, FS_Surjection
<1>5. QED
  BY <1>1, <1>3, <1>4

LEMMA EtaIsLeast ==
  ASSUME limits \in Limits, NEW from \in Velocity, NEW to \in Velocity
  PROVE  /\ Eta(from, to) \in Fractions
         /\ Eta(from, to).num > 0 /\ Eta(from, to).num <= Eta(from, to).den
         /\ scale_velocities => \A r \in EtaConstraints(from, to) : AtMost(Eta(from, to), r)
<1>1. CASE scale_velocities /\ EtaConstraints(from, to) # {}
  <2>1. \E r \in EtaConstraints(from, to) : \A s \in EtaConstraints(from, to) : AtMost(r, s)
    BY <1>1, ConstraintsType, LeastFraction
  <2>2. Eta(from, to) = CHOOSE r \in EtaConstraints(from, to) :
                          \A s \in EtaConstraints(from, to) : AtMost(r, s)
    BY <1>1 DEF Eta
  <2>3. /\ Eta(from, to) \in EtaConstraints(from, to)
        /\ \A s \in EtaConstraints(from, to) : AtMost(Eta(from, to), s)
    BY <2>1, <2>2
  <2>4. QED
    BY <2>3, ConstraintsType
<1>2. CASE ~(scale_velocities /\ EtaConstraints(from, to) # {})
  <2>1. Eta(from, to) = [num |-> 1, den |-> 1]
    BY <1>2 DEF Eta
  <2>2. QED
    BY <1>2, <2>1 DEF Fractions
<1>3. QED
  BY <1>1, <1>2

\* A tick changes an axis towards what is wanted, not past it, and by no more than
\* its limit.
LEMMA TickStep ==
  ASSUME limits \in Limits, NEW from \in Velocity, NEW to \in Velocity, NEW a \in Axes
  PROVE  \E step \in 0..Abs(to[a] - from[a]) :
           /\ step <= MaxChange(a, from[a], to[a])
           /\ ApplyConstraints(from, to)[a] = from[a] + Sign(to[a] - from[a]) * step
<1> DEFINE eta == Eta(from, to)
           gap == Abs(to[a] - from[a])
           scaled == (gap * eta.num) \div eta.den
           most == MaxChange(a, from[a], to[a])
           step == Lesser(scaled, most)
<1>1. from[a] \in Int /\ to[a] \in Int
  BY DEF Velocity
<1>2. gap \in Nat /\ most \in Nat
  BY <1>1, AbsProperties, MaxChangeType
<1>3. eta.num \in Nat /\ eta.den \in Nat \ {0} /\ eta.num <= eta.den
  BY EtaIsLeast DEF Fractions
<1>4. scaled \in 0..gap
  <2>. HIDE DEF gap, eta
  <2>. QED
    BY <1>2, <1>3, ScaledAtMost
<1>5. ApplyConstraints(from, to)[a] = from[a] + Sign(to[a] - from[a]) * step
  BY DEF ApplyConstraints
<1>. HIDE DEF scaled, most
<1>6. step \in 0..gap /\ step <= most
  <2>. HIDE DEF gap
  <2>. QED
    BY <1>2, <1>4 DEF Lesser
<1>7. QED
  BY <1>5, <1>6 DEF most

LEMMA TickBetween ==
  ASSUME limits \in Limits, NEW from \in Velocity, NEW to \in Velocity
  PROVE  /\ ApplyConstraints(from, to) \in Velocity
         /\ \A a \in Axes :
              LET next == ApplyConstraints(from, to)[a] IN
              /\ Abs(next - from[a]) <= MaxChange(a, from[a], to[a])
              /\ (from[a] <= next /\ next <= to[a]) \/ (to[a] <= next /\ next <= from[a])
<1>1. ASSUME NEW a \in Axes
      PROVE  /\ ApplyConstraints(from, to)[a] \in Int
             /\ LET next == ApplyConstraints(from, to)[a] IN
                /\ Abs(next - from[a]) <= MaxChange(a, from[a], to[a])
                /\ (from[a] <= next /\ next <= to[a]) \/ (to[a] <= next /\ next <= from[a])
  <2>1. from[a] \in Int /\ to[a] \in Int
    BY DEF Velocity
  <2>2. MaxChange(a, from[a], to[a]) \in Nat
    BY <2>1, MaxChangeType
  <2>3. PICK step \in 0..Abs(to[a] - from[a]) :
          /\ step <= MaxChange(a, from[a], to[a])
          /\ ApplyConstraints(from, to)[a] = from[a] + Sign(to[a] - from[a]) * step
    BY TickStep
  <2>4. QED
    BY <2>1, <2>2, <2>3 DEF Abs, Sign
<1>2. ApplyConstraints(from, to) = [a \in Axes |-> ApplyConstraints(from, to)[a]]
  BY DEF ApplyConstraints
<1>3. QED
  BY <1>1, <1>2 DEF Velocity
-----------------------------------------------------------------------------
(***************************************************************************)
(* The invariant: what is published is the last speed after the deadband.  *)
(***************************************************************************)
Published == driven = Deadbanded(last_cmd)

Inv == TypeOK /\ Published

LEMMA WithinIsBounded ==
  ASSUME NEW v, Within(v)
  PROVE  Bounded(v)
<1>1. \A a \in Axes : MinVelocity[a] <= v[a] /\ v[a] <= MaxVelocity[a]
  BY VelocityAssumption DEF Within, Velocity
<1>2. v \in Velocity
  BY DEF Within
<1>3. QED
  BY <1>1, <1>2 DEF Bounded

LEMMA MeasuredIsBounded ==
  ASSUME NEW v \in Measured
  PROVE  Bounded(v)
<1>1. v \in Velocity
  BY MeasuredAssumption
<1>2. \A a \in Axes : v[a] <= v[a]
  BY <1>1 DEF Velocity
<1>3. QED
  BY <1>1, <1>2 DEF Bounded

\* What is between two speeds on every axis is bounded if they are.
LEMMA BetweenIsBounded ==
  ASSUME NEW from, NEW to, Bounded(from), Bounded(to), NEW v \in Velocity,
         \A a \in Axes : (from[a] <= v[a] /\ v[a] <= to[a]) \/ (to[a] <= v[a] /\ v[a] <= from[a])
  PROVE  Bounded(v)
<1> DEFINE extremes == {MinVelocity, MaxVelocity} \union Measured
<1>1. \A m \in extremes : m \in Velocity
  BY VelocityAssumption, MeasuredAssumption
<1>. HIDE DEF extremes
<1>2. ASSUME NEW a \in Axes
      PROVE  /\ \E low \in extremes : low[a] <= v[a]
             /\ \E high \in extremes : v[a] <= high[a]
  <2>1. /\ \A m \in extremes : m[a] \in Int
        /\ from[a] \in Int /\ to[a] \in Int /\ v[a] \in Int
    BY <1>1 DEF Bounded, Velocity
  <2>2. /\ \E low \in extremes : low[a] <= from[a]
        /\ \E high \in extremes : from[a] <= high[a]
        /\ \E low \in extremes : low[a] <= to[a]
        /\ \E high \in extremes : to[a] <= high[a]
    BY DEF Bounded, extremes
  <2>3. QED
    BY <2>1, <2>2
<1>3. QED
  BY <1>2 DEF Bounded, extremes

LEMMA ZeroIsWithin == Zero \in Velocity /\ Within(Zero) /\ Deadbanded(Zero) = Zero
<1>1. Zero \in Velocity
  BY DEF Zero, Velocity
<1>2. Within(Zero)
  BY <1>1, VelocityAssumption DEF Within, Zero, Velocity
<1>3. Deadbanded(Zero) = Zero
  BY DEF Deadbanded, Zero
<1>4. QED
  BY <1>1, <1>2, <1>3

LEMMA RestrictedIsWithin ==
  ASSUME NEW v \in Velocity
  PROVE  Within(Restricted(v))
<1>1. ASSUME NEW a \in Axes
      PROVE  Restricted(v)[a] \in Int /\ Restricted(v)[a] \in MinVelocity[a]..MaxVelocity[a]
  <2>1. /\ v[a] \in Int /\ MinVelocity[a] \in Int /\ MaxVelocity[a] \in Int
        /\ MinVelocity[a] <= 0 /\ 0 <= MaxVelocity[a]
    BY VelocityAssumption DEF Velocity
  <2>2. Restricted(v)[a] = Clamp(v[a], MinVelocity[a], MaxVelocity[a])
    BY DEF Restricted
  <2>3. QED
    BY <2>1, <2>2 DEF Clamp
<1>2. Restricted(v) = [a \in Axes |-> Restricted(v)[a]]
  BY DEF Restricted
<1>3. QED
  BY <1>1, <1>2 DEF Within, Velocity

LEMMA DeadbandedIsBounded ==
  ASSUME NEW v, Bounded(v)
  PROVE  Bounded(Deadbanded(v))
<1>1. v \in Velocity /\ Bounded(Zero) /\ Deadbanded(v) \in Velocity
  BY ZeroIsWithin, WithinIsBounded DEF Bounded, Deadbanded, Velocity
<1>2. ASSUME NEW a \in Axes
      PROVE  LET d == Deadbanded(v)[a]
             IN (v[a] <= d /\ d <= Zero[a]) \/ (Zero[a] <= d /\ d <= v[a])
  <2>1. v[a] \in Int /\ Zero[a] = 0 /\ (Deadbanded(v)[a] = 0 \/ Deadbanded(v)[a] = v[a])
    BY <1>1 DEF Deadbanded, Velocity, Zero
  <2>2. QED
    BY <2>1
<1>3. QED
  BY <1>1, <1>2, BetweenIsBounded

LEMMA TickIsBounded ==
  ASSUME limits \in Limits, NEW from, NEW to, Bounded(from), Bounded(to)
  PROVE  Bounded(ApplyConstraints(from, to))
<1>1. from \in Velocity /\ to \in Velocity
  BY DEF Bounded
<1>2. QED
  BY <1>1, TickBetween, BetweenIsBounded

LEMMA WantedIsWithin == TypeOK /\ command # NoCommand => Within(Wanted)
<1> SUFFICES ASSUME TypeOK, command # NoCommand PROVE Within(Wanted)
  OBVIOUS
<1>1. command \in Velocity
  BY CommandsAssumption DEF TypeOK, Within
<1>2. (IF Silent \/ command = NoCommand THEN Zero ELSE command) \in Velocity
  BY <1>1, ZeroIsWithin
<1>3. QED
  BY <1>2, RestrictedIsWithin DEF Wanted

LEMMA FollowIsBounded ==
  ASSUME NEW v, NEW w, Bounded(v), Bounded(w)
  PROVE  Bounded([a \in Axes |-> v[a] + Sign(w[a] - v[a])])
<1> DEFINE u == [a \in Axes |-> v[a] + Sign(w[a] - v[a])]
<1>1. ASSUME NEW a \in Axes
      PROVE  /\ u[a] \in Int
             /\ (v[a] <= u[a] /\ u[a] <= w[a]) \/ (w[a] <= u[a] /\ u[a] <= v[a])
  <2>1. v[a] \in Int /\ w[a] \in Int
    BY DEF Bounded, Velocity
  <2>2. QED
    BY <2>1 DEF Sign
<1>2. u \in Velocity
  BY <1>1 DEF Velocity
<1>. HIDE DEF u
<1>3. Bounded(u)
  BY <1>1, <1>2, BetweenIsBounded
<1>4. QED
  BY <1>3 DEF u

LEMMA InitInv == Init => Inv
<1> SUFFICES ASSUME Init PROVE Inv
  OBVIOUS
<1>1. Bounded(last_cmd) /\ Bounded(odom) /\ Bounded(driven) /\ Published
  BY ZeroIsWithin, WithinIsBounded DEF Init, Published
<1>2. age \in 0..Timeout + 1 /\ changes \in 0..MaxChanges
  BY SmootherBoundsAssumption DEF Init
<1>3. QED
  BY <1>1, <1>2 DEF Init, Inv, TypeOK

LEMMA NextInv == Inv /\ [Next]_vars => Inv'
<1> SUFFICES ASSUME Inv, [Next]_vars PROVE Inv'
  OBVIOUS
<1>a. TypeOK /\ Published
  BY DEF Inv
<1>. USE <1>a DEF TypeOK
<1>1. ASSUME NEW c \in Commands, InputCommandCallback(c) PROVE Inv'
  <2>1. age' \in 0..Timeout + 1
    BY <1>1, SmootherBoundsAssumption DEF InputCommandCallback
  <2>2. QED
    BY <1>1, <2>1 DEF InputCommandCallback, Inv, Published, paramVars, Within, Bounded
<1>2. CASE SmootherTimer
  <2>1. CASE StaysSilent
    BY <1>2, <2>1 DEF SmootherTimer, Inv, Published, paramVars, Within, Bounded
  <2>2. CASE ~StaysSilent
    <3>1. /\ command' = Wanted /\ last_cmd' = Smoothed /\ driven' = Deadbanded(last_cmd')
          /\ stopped' = FALSE /\ command # NoCommand
          /\ UNCHANGED <<state, paramVars, age, odom, changes>>
      BY <1>2, <2>2 DEF SmootherTimer
    <3>2. Within(Wanted)
      BY <3>1, WantedIsWithin
    <3>3. Bounded(Current) /\ limits \in Limits
      BY DEF Current
    <3>4. Bounded(Smoothed)
      BY <3>2, <3>3, WithinIsBounded, TickIsBounded DEF Smoothed
    <3>5. Bounded(Deadbanded(Smoothed))
      BY <3>4, DeadbandedIsBounded
    <3>6. Within(command') /\ Bounded(last_cmd') /\ Bounded(driven')
      BY <3>1, <3>2, <3>4, <3>5
    <3>7. Within(command)' /\ Bounded(last_cmd)' /\ Bounded(driven)' /\ Bounded(odom)'
      BY <3>1, <3>6 DEF Within, Bounded
    <3>8. QED
      BY <3>1, <3>7 DEF Inv, Published, paramVars
  <2>3. QED
    BY <2>1, <2>2
<1>3. CASE Elapse
  <2>1. age' \in 0..Timeout + 1
    <3>1. age \in 0..Timeout + 1 /\ age <= Timeout /\ age' = age + 1
      BY <1>3 DEF Elapse
    <3>2. QED
      BY <3>1, SmootherBoundsAssumption
  <2>2. QED
    BY <1>3, <2>1 DEF Elapse, Inv, Published, paramVars, Within, Bounded
<1>4. CASE Follow \/ Disturbed
  <2>1. Bounded(odom') /\ UNCHANGED <<state, paramVars, command, age, last_cmd, stopped, driven>>
    <3>1. CASE Follow
      BY <3>1, FollowIsBounded DEF Follow, OdomCallback
    <3>2. CASE Disturbed
      BY <3>2, MeasuredIsBounded DEF Disturbed, OdomCallback
    <3>3. QED
      BY <1>4, <3>1, <3>2
  <2>2. changes' \in 0..MaxChanges
    <3>1. CASE Follow
      BY <3>1 DEF Follow
    <3>2. CASE Disturbed
      <4>1. changes \in 0..MaxChanges /\ changes < MaxChanges /\ changes' = changes + 1
        BY <3>2 DEF Disturbed
      <4>2. QED
        BY <4>1, SmootherBoundsAssumption
    <3>3. QED
      BY <1>4, <3>1, <3>2
  <2>3. QED
    BY <2>1, <2>2 DEF Inv, Published, paramVars, Within, Bounded
<1>5. CASE Lifecycle
  <2>1. Bounded(odom') /\ limits' \in Limits /\ open_loop' \in BOOLEAN /\ scale_velocities' \in BOOLEAN
        /\ state' \in {"unconfigured", "inactive", "active"}
    BY <1>5, ZeroIsWithin, WithinIsBounded
       DEF Lifecycle, OnConfigure, OnActivate, OnDeactivate, OnCleanup, paramVars
  <2>2. UNCHANGED <<command, age, last_cmd, stopped, driven, changes>>
    BY <1>5 DEF Lifecycle, OnConfigure, OnActivate, OnDeactivate, OnCleanup
  <2>3. QED
    BY <2>1, <2>2 DEF Inv, Published, Within, Bounded
<1>6. CASE SetLimits \/ SetFeedback
  <2>1. changes' \in 0..MaxChanges
    <3>1. changes \in 0..MaxChanges /\ changes < MaxChanges /\ changes' = changes + 1
      BY <1>6 DEF SetLimits, SetFeedback, ChangesParameter
    <3>2. QED
      BY <3>1, SmootherBoundsAssumption
  <2>2. Bounded(odom') /\ limits' \in Limits /\ open_loop' \in BOOLEAN
        /\ UNCHANGED <<state, scale_velocities, command, age, last_cmd, stopped, driven>>
    BY <1>6, ZeroIsWithin, WithinIsBounded DEF SetLimits, SetFeedback, ChangesParameter
  <2>3. QED
    BY <2>1, <2>2 DEF Inv, Published, Within, Bounded
<1>7. CASE UNCHANGED vars
  BY <1>7 DEF vars, paramVars, Inv, Published, Within, Bounded
<1>8. QED
  BY <1>1, <1>2, <1>3, <1>4, <1>5, <1>6, <1>7 DEF Next

LEMMA InvHolds == Spec => []Inv
BY InitInv, NextInv, PTL DEF Spec

\* The command the timer has used is within the velocity limits, and the published
\* speed exceeds them on no axis by more than the averaged odometry has: with
\* odometry that keeps to the limits, it keeps to them too (applyConstraints moves
\* from the current speed towards the limited command and is not clamped again).
THEOREM TypeCorrect == Spec => []TypeOK
<1>1. Inv => TypeOK
  BY DEF Inv
<1>2. QED
  BY <1>1, InvHolds, PTL
-----------------------------------------------------------------------------
(***************************************************************************)
(* How far the published speed goes in one step.                           *)
(***************************************************************************)

\* What the limit of a tick is called depends on the wanted speed, the bound of
\* NoJump on the speed that is reached.
LEMMA LimitByResult ==
  ASSUME limits \in Limits, NEW a \in Axes, NEW from \in Int, NEW to \in Int, NEW next \in Int,
         Abs(next - from) <= MaxChange(a, from, to),
         (from <= next /\ next <= to) \/ (to <= next /\ next <= from)
  PROVE  Abs(next - from) <= IF Abs(next) > Abs(from) /\ from * next >= 0
                             THEN limits.accel[a] ELSE limits.decel[a]
<1>1. limits.accel[a] \in Nat /\ limits.decel[a] \in Nat
  BY LimitsAssumption
<1>2. CASE Accelerating(from, to)
  <2>1. (from >= 0 /\ to >= from) \/ (from <= 0 /\ to <= from)
    <3>1. Abs(to) >= Abs(from) /\ from * to >= 0
      BY <1>2 DEF Accelerating
    <3>2. CASE from > 0 /\ to < 0
      <4>1. from * to < 0
        BY <3>2
      <4>2. QED
        BY <3>1, <4>1
    <3>3. CASE from < 0 /\ to > 0
      <4>1. from * to < 0
        BY <3>3
      <4>2. QED
        BY <3>1, <4>1
    <3>4. QED
      BY <3>1, <3>2, <3>3 DEF Abs
  <2>2. next = from \/ (Abs(next) > Abs(from) /\ ((from >= 0 /\ next >= 0) \/ (from <= 0 /\ next <= 0)))
    <3>1. CASE from >= 0 /\ to >= from
      <4>1. from <= next
        BY <3>1
      <4>2. QED
        BY <3>1, <4>1 DEF Abs
    <3>2. CASE from <= 0 /\ to <= from
      <4>1. next <= from
        BY <3>2
      <4>2. QED
        BY <3>2, <4>1 DEF Abs
    <3>3. QED
      BY <2>1, <3>1, <3>2
  <2>3. Abs(next - from) <= limits.accel[a]
    BY <1>2 DEF MaxChange
  <2>4. CASE next = from
    BY <1>1, <2>3, <2>4 DEF Abs
  <2>5. CASE Abs(next) > Abs(from) /\ ((from >= 0 /\ next >= 0) \/ (from <= 0 /\ next <= 0))
    <3>1. from * next >= 0
      BY <2>5
    <3>2. QED
      BY <2>3, <2>5, <3>1
  <2>6. QED
    BY <2>2, <2>4, <2>5
<1>3. CASE ~Accelerating(from, to)
  <2>1. Abs(next - from) <= limits.decel[a]
    BY <1>3 DEF MaxChange
  <2>2. ASSUME Abs(next) > Abs(from), from * next >= 0 PROVE FALSE
    <3>1. (from >= 0 /\ next >= 0) \/ (from <= 0 /\ next <= 0)
      <4>1. from > 0 /\ next < 0 => from * next < 0
        OBVIOUS
      <4>2. from < 0 /\ next > 0 => from * next < 0
        OBVIOUS
      <4>3. QED
        BY <2>2, <4>1, <4>2
    <3>2. (from >= 0 /\ to >= 0) \/ (from <= 0 /\ to <= 0)
      BY <2>2, <3>1 DEF Abs
    <3>3. from * to >= 0
      BY <3>2
    <3>4. Abs(to) >= Abs(from)
      BY <2>2, <3>1, <3>2 DEF Abs
    <3>5. QED
      BY <1>3, <3>3, <3>4 DEF Accelerating
  <2>3. QED
    BY <2>1, <2>2
<1>4. QED
  BY <1>2, <1>3

LEMMA DeadbandSlack ==
  ASSUME NEW a \in Axes, NEW v \in Velocity, NEW w \in Velocity
  PROVE  /\ Abs(Deadbanded(w)[a] - Deadbanded(v)[a]) <= Slack(a) + Abs(w[a] - v[a])
         /\ Slack(a) \in Nat
<1>1. v[a] \in Int /\ w[a] \in Int /\ Deadband[a] \in Nat
  BY VelocityAssumption DEF Velocity
<1>2. /\ Deadbanded(v)[a] = IF Abs(v[a]) < Deadband[a] THEN 0 ELSE v[a]
      /\ Deadbanded(w)[a] = IF Abs(w[a]) < Deadband[a] THEN 0 ELSE w[a]
  BY DEF Deadbanded
<1>3. ASSUME NEW x \in Int, NEW y \in Int, NEW d \in Nat
      PROVE  Abs((IF Abs(y) < d THEN 0 ELSE y) - (IF Abs(x) < d THEN 0 ELSE x))
               <= (IF d = 0 THEN 0 ELSE d - 1) + Abs(y - x)
  <2>1. CASE Abs(x) < d /\ Abs(y) < d
    BY <2>1 DEF Abs
  <2>2. CASE Abs(x) < d /\ ~(Abs(y) < d)
    BY <2>2 DEF Abs
  <2>3. CASE ~(Abs(x) < d) /\ Abs(y) < d
    BY <2>3 DEF Abs
  <2>4. CASE ~(Abs(x) < d) /\ ~(Abs(y) < d)
    BY <2>4 DEF Abs
  <2>5. QED
    BY <2>1, <2>2, <2>3, <2>4
<1>4. Slack(a) = (IF Deadband[a] = 0 THEN 0 ELSE Deadband[a] - 1) /\ Slack(a) \in Nat
  BY <1>1 DEF Slack
<1>5. QED
  BY <1>1, <1>2, <1>3, <1>4

\* In open loop the base never sees a jump, whatever happens between two ticks.
THEOREM SpeedNeverJumps == Spec => NoJump
<1>1. Inv /\ [Next]_vars =>
        [open_loop => \A a \in Axes :
           Abs(driven'[a] - driven[a]) <= Slack(a)
             + IF Abs(last_cmd'[a]) > Abs(last_cmd[a]) /\ last_cmd[a] * last_cmd'[a] >= 0
               THEN limits.accel[a] ELSE limits.decel[a]]_vars
  <2> SUFFICES ASSUME Inv, [Next]_vars, open_loop, NEW a \in Axes
               PROVE  Abs(driven'[a] - driven[a]) <= Slack(a)
                        + IF Abs(last_cmd'[a]) > Abs(last_cmd[a]) /\ last_cmd[a] * last_cmd'[a] >= 0
                          THEN limits.accel[a] ELSE limits.decel[a]
    OBVIOUS
  <2>1. /\ limits \in Limits /\ last_cmd \in Velocity /\ driven = Deadbanded(last_cmd)
        /\ driven \in Velocity
    BY DEF Inv, TypeOK, Published, Bounded
  <2>2. /\ limits.accel[a] \in Nat /\ limits.decel[a] \in Nat /\ Slack(a) \in Nat
        /\ driven[a] \in Int
    BY <2>1, DeadbandSlack, LimitsAssumption DEF Velocity
  <2>3. CASE UNCHANGED driven
    <3>1. Abs(driven'[a] - driven[a]) = 0
      BY <2>2, <2>3 DEF Abs
    <3>2. QED
      BY <2>2, <3>1
  <2>4. CASE SmootherTimer /\ ~StaysSilent
    <3>1. last_cmd' = ApplyConstraints(last_cmd, Wanted) /\ driven' = Deadbanded(last_cmd')
          /\ command # NoCommand
      BY <2>4 DEF SmootherTimer, Smoothed, Current
    <3>2. Wanted \in Velocity
      BY <3>1, WantedIsWithin DEF Inv, Within
    <3>3. last_cmd' \in Velocity
      BY <2>1, <3>1, <3>2, TickBetween
    <3>4. last_cmd[a] \in Int /\ Wanted[a] \in Int /\ last_cmd'[a] \in Int
      BY <2>1, <3>2, <3>3 DEF Velocity
    <3>5. Abs(last_cmd'[a] - last_cmd[a]) <=
            IF Abs(last_cmd'[a]) > Abs(last_cmd[a]) /\ last_cmd[a] * last_cmd'[a] >= 0
            THEN limits.accel[a] ELSE limits.decel[a]
      BY <2>1, <3>1, <3>2, <3>4, TickBetween, LimitByResult
    <3>6. Abs(driven'[a] - driven[a]) <= Slack(a) + Abs(last_cmd'[a] - last_cmd[a])
      BY <2>1, <3>1, <3>3, DeadbandSlack
    <3>7. /\ Abs(driven'[a] - driven[a]) \in Int /\ Abs(last_cmd'[a] - last_cmd[a]) \in Int
      <4>1. driven'[a] \in Int
        BY <3>1, <3>3, <3>4 DEF Deadbanded
      <4>2. driven'[a] - driven[a] \in Int /\ last_cmd'[a] - last_cmd[a] \in Int
        BY <2>2, <3>4, <4>1
      <4>3. QED
        BY <4>2, AbsProperties
    <3>8. QED
      BY <2>2, <3>5, <3>6, <3>7
  <2>5. UNCHANGED driven \/ (SmootherTimer /\ ~StaysSilent)
    BY DEF Next, InputCommandCallback, SmootherTimer, Elapse, Follow, Disturbed, OdomCallback,
           Lifecycle, OnConfigure,
           OnActivate, OnDeactivate, OnCleanup, SetLimits, SetFeedback, ChangesParameter, vars
  <2>6. QED
    BY <2>3, <2>4, <2>5
<1>2. QED
  BY <1>1, InvHolds, PTL DEF Spec, NoJump
-----------------------------------------------------------------------------
(***************************************************************************)
(* The direction of a scaled change.                                       *)
(***************************************************************************)

\* Two numbers scaled by the same ratio and rounded down keep their proportion, but
\* for one of them.
LEMMA ProportionKept ==
  ASSUME NEW x \in Nat, NEW y \in Nat, NEW n \in Nat, NEW d \in Nat \ {0},
         NEW p \in Nat, NEW q \in Nat,
         d * p <= x * n, x * n < d * p + d, d * q <= y * n, y * n < d * q + d
  PROVE  Abs(p * y - q * x) <= x \/ Abs(p * y - q * x) <= y
<1> DEFINE u == x * n - d * p
           v == y * n - d * q
           z == p * y - q * x
<1>1. u \in 0..d /\ v \in 0..d /\ z \in Int
  OBVIOUS
<1>2. d * z = x * v - y * u
  OBVIOUS
<1>. HIDE DEF u, v, z
<1>3. x * v \in 0..(d * x) /\ y * u \in 0..(d * y)
  BY <1>1, Products
<1>4. d * z <= d * x /\ d * (-z) <= d * y
  <2>1. d * (-z) = -(d * z)
    BY <1>1
  <2>2. x * v \in Int /\ y * u \in Int /\ d * x \in Int /\ d * y \in Int /\ d * z \in Int
    BY <1>1
  <2>3. QED
    BY <1>2, <1>3, <2>1, <2>2
<1>5. z <= x
  <2>1. ASSUME z >= x + 1 PROVE FALSE
    <3>1. d * (x + 1) <= d * z
      BY <1>1, <2>1, Products
    <3>2. QED
      BY <1>1, <1>4, <3>1
  <2>2. QED
    BY <1>1, <2>1
<1>6. -z <= y
  <2>1. ASSUME -z >= y + 1 PROVE FALSE
    <3>1. d * (y + 1) <= d * (-z)
      BY <1>1, <2>1, Products
    <3>2. QED
      BY <1>1, <1>4, <3>1
  <2>2. QED
    BY <1>1, <2>1
<1>7. Abs(z) <= x \/ Abs(z) <= y
  BY <1>1, <1>5, <1>6 DEF Abs
<1>8. QED
  BY <1>7 DEF z

LEMMA SignsAside ==
  ASSUME NEW r \in {-1, 0, 1}, NEW s \in {-1, 0, 1},
         NEW x \in Nat, NEW y \in Nat, NEW p \in Nat, NEW q \in Nat
  PROVE  Abs((r * p) * (s * y) - (s * q) * (r * x)) <= Abs(p * y - q * x)
<1> DEFINE z == p * y - q * x
<1>1. z \in Int
  OBVIOUS
<1>2. \/ (r * p) * (s * y) - (s * q) * (r * x) = z
      \/ (r * p) * (s * y) - (s * q) * (r * x) = -z
      \/ (r * p) * (s * y) - (s * q) * (r * x) = 0
  <2>1. CASE r = 0 \/ s = 0
    BY <2>1
  <2>2. CASE r = 1 /\ s = 1
    BY <2>2
  <2>3. CASE r = -1 /\ s = -1
    BY <2>3
  <2>4. CASE r = 1 /\ s = -1
    BY <2>4
  <2>5. CASE r = -1 /\ s = 1
    BY <2>5
  <2>6. QED
    BY <2>1, <2>2, <2>3, <2>4, <2>5
<1>. HIDE DEF z
<1>3. Abs((r * p) * (s * y) - (s * q) * (r * x)) <= Abs(z)
  BY <1>1, <1>2 DEF Abs
<1>4. QED
  BY <1>3 DEF z

\* Where the least constraint scales the change, the limit of an axis that may
\* change at all does not bite once more.
LEMMA ScaledStep ==
  ASSUME limits \in Limits, scale_velocities, NEW from \in Velocity, NEW to \in Velocity,
         NEW a \in Axes, MaxChange(a, from[a], to[a]) > 0
  PROVE  ApplyConstraints(from, to)[a] =
           from[a] + Sign(to[a] - from[a])
                       * ((Abs(to[a] - from[a]) * Eta(from, to).num) \div Eta(from, to).den)
<1> DEFINE n == Eta(from, to).num
           d == Eta(from, to).den
           gap == Abs(to[a] - from[a])
           most == MaxChange(a, from[a], to[a])
           scaled == (gap * n) \div d
<1>1. from[a] \in Int /\ to[a] \in Int
  BY DEF Velocity
<1>2. gap \in Nat /\ most \in Nat
  BY <1>1, AbsProperties, MaxChangeType
<1>3. n \in Nat /\ d \in Nat \ {0} /\ n <= d
  BY EtaIsLeast DEF Fractions
<1>4. scaled <= most /\ scaled \in Nat
  <2>1. CASE gap <= most
    <3>1. scaled \in 0..gap
      <4>. HIDE DEF gap, n, d
      <4>. QED
        BY <1>2, <1>3, ScaledAtMost
    <3>. HIDE DEF gap, most, scaled
    <3>2. QED
      BY <1>2, <2>1, <3>1
  <2>2. CASE gap > most
    <3>1. [num |-> most, den |-> gap] \in EtaConstraints(from, to)
      BY <2>2 DEF EtaConstraints
    <3>2. AtMost(Eta(from, to), [num |-> most, den |-> gap])
      BY <3>1, EtaIsLeast
    <3>3. n * gap <= most * d
      BY <3>2 DEF AtMost
    <3>. HIDE DEF gap, most, n, d
    <3>4. gap * n \in Nat /\ gap * n <= d * most
      BY <1>2, <1>3, <3>3
    <3>5. scaled \in Nat /\ d * scaled <= gap * n
      BY <1>3, <3>4, Quotient
    <3>. HIDE DEF scaled
    <3>6. ASSUME scaled >= most + 1 PROVE FALSE
      <4>1. d * (most + 1) <= d * scaled
        BY <1>2, <1>3, <3>5, <3>6, Products
      <4>2. QED
        BY <1>2, <1>3, <3>4, <3>5, <4>1
    <3>7. QED
      BY <1>2, <3>5, <3>6
  <2>. HIDE DEF gap, most
  <2>3. QED
    BY <1>2, <2>1, <2>2
<1>5. ApplyConstraints(from, to)[a] = from[a] + Sign(to[a] - from[a]) * Lesser(scaled, most)
  BY DEF ApplyConstraints
<1>6. Lesser(scaled, most) = scaled
  <2>. HIDE DEF scaled, most
  <2>. QED
    BY <1>2, <1>4 DEF Lesser
<1>7. QED
  BY <1>5, <1>6

LEMMA DirectionKept ==
  ASSUME limits \in Limits, scale_velocities, NEW from \in Velocity, NEW to \in Velocity,
         NEW a \in Axes, NEW b \in Axes,
         MaxChange(a, from[a], to[a]) > 0, MaxChange(b, from[b], to[b]) > 0
  PROVE  LET made(i) == ApplyConstraints(from, to)[i] - from[i]
             wish(i) == to[i] - from[i]
             cross == Abs(made(a) * wish(b) - made(b) * wish(a))
         IN cross <= Abs(wish(a)) \/ cross <= Abs(wish(b))
<1> DEFINE n == Eta(from, to).num
           d == Eta(from, to).den
           x == Abs(to[a] - from[a])
           y == Abs(to[b] - from[b])
           r == Sign(to[a] - from[a])
           s == Sign(to[b] - from[b])
           p == (x * n) \div d
           q == (y * n) \div d
<1>1. from[a] \in Int /\ to[a] \in Int /\ from[b] \in Int /\ to[b] \in Int
  BY DEF Velocity
<1>2. /\ x \in Nat /\ r \in {-1, 0, 1} /\ to[a] - from[a] = r * x
      /\ y \in Nat /\ s \in {-1, 0, 1} /\ to[b] - from[b] = s * y
  BY <1>1, AbsProperties
<1>3. n \in Nat /\ d \in Nat \ {0}
  BY EtaIsLeast DEF Fractions
<1>4. /\ ApplyConstraints(from, to)[a] = from[a] + r * p
      /\ ApplyConstraints(from, to)[b] = from[b] + s * q
  BY ScaledStep
<1>. HIDE DEF x, y, r, s, n, d
<1>5. /\ p \in Nat /\ d * p <= x * n /\ x * n < d * p + d
      /\ q \in Nat /\ d * q <= y * n /\ y * n < d * q + d
  <2>1. x * n \in Nat /\ y * n \in Nat
    BY <1>2, <1>3
  <2>2. QED
    BY <1>3, <2>1, Quotient
<1>. HIDE DEF p, q
<1>6. /\ ApplyConstraints(from, to)[a] - from[a] = r * p
      /\ ApplyConstraints(from, to)[b] - from[b] = s * q
  <2>1. r * p \in Int /\ s * q \in Int
    BY <1>2, <1>5
  <2>2. QED
    BY <1>1, <1>4, <2>1
<1>7. Abs((r * p) * (s * y) - (s * q) * (r * x)) <= Abs(p * y - q * x)
  BY <1>2, <1>5, SignsAside
<1>8. Abs(p * y - q * x) <= x \/ Abs(p * y - q * x) <= y
  BY <1>2, <1>3, <1>5, ProportionKept
<1>9. /\ Abs((r * p) * (s * y) - (s * q) * (r * x)) \in Int
      /\ Abs(p * y - q * x) \in Int
  <2>1. p * y - q * x \in Int /\ (r * p) * (s * y) - (s * q) * (r * x) \in Int
    BY <1>2, <1>5
  <2>2. QED
    BY <2>1, AbsProperties
<1>10. \/ Abs((r * p) * (s * y) - (s * q) * (r * x)) <= x
       \/ Abs((r * p) * (s * y) - (s * q) * (r * x)) <= y
  BY <1>2, <1>7, <1>8, <1>9
<1>11. QED
  BY <1>2, <1>6, <1>10 DEF x, y

\* A scaled change keeps the direction of the wanted one.
THEOREM ChangesKeepDirection == Spec => SameDirection
<1>1. Inv /\ [Next]_vars =>
        [scale_velocities /\ last_cmd' # last_cmd =>
           \A a, b \in Axes :
             MayChange(a) /\ MayChange(b) =>
               LET cross == Abs(Change(a) * Wish(b) - Change(b) * Wish(a))
               IN cross <= Abs(Wish(a)) \/ cross <= Abs(Wish(b))]_vars
  <2> SUFFICES ASSUME Inv, [Next]_vars, scale_velocities, last_cmd' # last_cmd,
                      NEW a \in Axes, NEW b \in Axes, MayChange(a), MayChange(b)
               PROVE  LET cross == Abs(Change(a) * Wish(b) - Change(b) * Wish(a))
                      IN cross <= Abs(Wish(a)) \/ cross <= Abs(Wish(b))
    OBVIOUS
  <2>1. SmootherTimer /\ ~StaysSilent
    BY DEF Next, InputCommandCallback, SmootherTimer, Elapse, Follow, Disturbed, OdomCallback,
           Lifecycle, OnConfigure,
           OnActivate, OnDeactivate, OnCleanup, SetLimits, SetFeedback, ChangesParameter, vars
  <2>2. /\ command' = Wanted /\ last_cmd' = ApplyConstraints(Current, Wanted)
        /\ command # NoCommand
    BY <2>1 DEF SmootherTimer, Smoothed
  <2>3. limits \in Limits /\ Current \in Velocity
    BY DEF Inv, TypeOK, Bounded, Current
  <2>4. Wanted \in Velocity
    BY <2>2, WantedIsWithin DEF Inv, Within
  <2>5. MaxChange(a, Current[a], Wanted[a]) > 0 /\ MaxChange(b, Current[b], Wanted[b]) > 0
    BY <2>2 DEF MayChange
  <2>6. QED
    BY <2>2, <2>3, <2>4, <2>5, DirectionKept DEF Change, Wish
<1>2. QED
  BY <1>1, InvHolds, PTL DEF Spec, SameDirection
=============================================================================
