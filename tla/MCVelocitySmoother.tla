------------------------- MODULE MCVelocitySmoother -------------------------
(***************************************************************************)
(* Instances of VelocitySmoother for TLC: two axes.                        *)
(***************************************************************************)
EXTENDS VelocitySmoother

TwoAxes == {"x", "z"}
XZ(x, z) == [a \in TwoAxes |-> IF a = "x" THEN x ELSE z]

\* Beyond a limit, in reverse with a turn, and a stop.
SomeCommands == {XZ(4, 1), XZ(-2, 3), XZ(0, 0)}
Most == XZ(3, 3)
Least == XZ(-2, -3)
TurnDeadband == XZ(0, 2)

\* Pushed backwards, faster than the robot may drive.
Push == {XZ(-4, 0)}

\* Slow to gain and quick to lose speed, a turn that starts below its deadband;
\* and the other way round.
TwoLimits ==
  {[accel |-> XZ(1, 1), decel |-> XZ(2, 3)], [accel |-> XZ(2, 2), decel |-> XZ(1, 1)]}
=============================================================================
