# Verification of the AGV Pro ROS 2 software

TLA+ models of the parts of this repository that decide when and how the robot
moves, from the goal a node sends to the speed the controller board gets; TLC
runs that check them on small instances; and TLAPS proofs of all their invariants
and action properties for every value of the constants. File names below are
relative to `src/`.

## Inventory

The repository is a ROS 2 workspace: a few packages of its own
(`agv_pro_*`, `teleop_twist_keyboard`) beside complete copies of Navigation2,
SLAM packages and sensor drivers. The project's own control logic is small; of
Navigation2, the parts modelled are those every trip goes through.

| Component | State it keeps | Operations | Hard about it |
|---|---|---|---|
| **auto recharger** `agv_pro_autocharge/.../combined_auto_recharger.py` | `navigation_active`, `navigation_requested`, `serial_control_active`, `parser`; the position (file, copy, marker) | key `q`, Ctrl+C, the 0.5 s request timer that navigates, one docking thread per trip, position updates, the marker timer | threads without a lock; a thread's parser replaced under it; serial errors in mid-docking; a callback that lasts a whole trip; files cut short |
| **serial CAN parser** `.../serial_can_parser.py` | port, receive buffer, last frame | `open_serial`, `send_at_commands`, `read_serial_data`, `read_serial_response` | finding frames in a stream without checksum; answers without identity; no time limits |
| **BasicNavigator** `navigation2/nav2_simple_commander/.../robot_navigator.py` | `result_future`, `status` | `goThroughPoses`, `isTaskComplete`, `getResult` | a verdict left from the previous task; a server that dies |
| **base driver** `agv_pro_base` | the port, the timer, odometry, the last telemetry | the start-up handshake, `/cmd_vel`, four IO and LED services, `Control` every 20 ms, the destructor | one thread and one line for all of it; answers late or lost; time limits that blocking reads outlast |
| **IO client** `agv_pro_msgs/scripts/ros_client.py` | a call's future | four calls with a 5 s limit | its limit equals the driver's |
| **Nav2 `SimpleActionServer`** `navigation2/nav2_util/.../simple_action_server.hpp` | current and pending goal, `preempt_requested_`, `server_active_`, `stop_execution_`, the worker's future | goal, cancel and accepted handlers, the work loop, `activate`, `deactivate` | the worker thread against the executor, a loop condition and an end of the thread outside the lock |
| **bt_navigator** `navigation2/nav2_bt_navigator`, `nav2_behavior_tree` | the muxer's current navigator, the tree and its blackboard | `executeCallback`, `BehaviorTreeEngine::run`, `onPreempt`, `on_activate`, `on_deactivate` | two navigators' threads sharing a muxer; preemption while a tree ends; a deadline that takes goals away under a callback |
| **Nav2 velocity smoother** `navigation2/nav2_velocity_smoother` | `command_` and its time, `last_cmd_`, `stopped_`, limits | commands in, the timer, lifecycle, parameters at run time | a stale command at the time limit; a deactivation in motion; per-tick limits on axes scaled together |
| keyboard teleoperation | speed settings | a key loop that publishes | one more publisher of `/cmd_vel` |

They interact like this: the recharger asks Nav2 for a trip through
BasicNavigator, whose goal bt_navigator's action server takes up; the controllers'
speeds pass the velocity smoother on their way to `/cmd_vel`
(`navigation2/nav2_bringup/launch/navigation_launch.py:183`); once there, a docking session reads the charger's frames with
the parser and publishes speeds on `/cmd_vel`; the velocity smoother, teleop and
docking all publish on `/cmd_vel` with nothing to arbitrate; the base driver
sends each speed to the controller board, over the line it shares with the
services and the telemetry.

What makes each correct:

- recharger: one trip per request, docking only on arrival, the robot never left
  driving with no session to stop it, later trips never to an older position;
- parser: what it takes for a frame is one, up to the bytes the line has lost, and
  it is back in step after a disturbance;
- bt_navigator: clients see an action server that works on one goal at a time,
  lets newer goals take over and ends each goal once, truthfully; one navigator at
  a time; a deactivation that ends;
- velocity smoother: the base sees no jump, a robot nobody commands is stopped, a
  command kept up is reached;
- base driver: callers learn what happened, newer speeds get through, the node
  survives what its line does.

`PROJECT.json` lists every hazard at its line with the properties that watch it.

## Modules

| Module | Models | State and actions |
|---|---|---|
| `BasicNavigator` | the navigator's three operations and the action server behind them | futures and `status` as in the source; `success` is the history of what the server has said of this trip's goal, earned or not |
| `AutoRecharger` | all threads of the recharger node; EXTENDS `BasicNavigator` | the shared attributes by their names; a place per thread (`main`, `executor`, `pc[t]`); **every access to a shared attribute is a step of its own**, since there is no lock |
| `ChargeService` | what the node promises, without threads and flags | requests, trips, sessions, the last command |
| `ChargerStore` | the charger's position: file, memory, marker, goal, update queue | the callbacks that touch it, with a kill possible between truncating and writing |
| `CanReceiver` | `read_serial_data` over a stream in which bytes are numbered | one step per byte delivered or lost |
| `AtHandshake` | `send_at_commands` against an adapter that answers late, refuses, forwards traffic or falls silent | commands, tries, answers in order |
| `BaseDriver` | the driver's one thread, its clients, the cable and the board | `driver` is the thread's place; `inbox` and `line` are the two directions of the cable |
| `SimpleActionServer` | the handles, flags and worker of each action server of a node: what every method does to them | one operator per method; `worker[s]` is the place of the thread of `execution_future_`. No specification of its own |
| `BtNavigator` | EXTENDS `SimpleActionServer`: the execute callback, the run loop, the muxer, preemption, the executor with goals, cancellations, activation and deactivation | every lock section is a step; `reached`, `late`, `logged` and `overdue` are history |
| `GoalServer` | what clients are promised, without threads, flags or locks | goals sent, taken over, ended |
| `VelocitySmoother` | the smoother's callbacks, time, and the odometry, which follows the robot or departs from it | state by the source's names; `driven` is what the base was last told |
| `MC*` | the instances for TLC | |
| `*_proof`, `AutoRecharger_refines` | theorems about the module of that name | inductive invariants, and lemmas about the operators |

Correspondence worth knowing when reading the modules:

- In `AutoRecharger`, a key press is two steps (`PressQ` tests
  `navigation_active`, `QueueRequest` sets `navigation_requested`); a trip is the
  chain of executor places from `clear` to `start_serial`; `using[t]` is the
  parser a session's pending call runs on, which may no longer be `parser`. A
  frame is named by the branch of the loop it leads to. `hasty` records whether
  the operator ever pressed `q` while something was going on.
- In `ChargerStore`, positions are named by the order of their publication, so
  "older" is `<`. Saving is `PositionUpdate` (update memory, open with `'w'`),
  `Dump`, `UpdateVisualization`, in the order of the callback.
- In `CanReceiver`, a byte's content follows from its place in its frame and its
  frame's kind; look-alike frames hold `0x41 0x54` in their data.
- In `SimpleActionServer`, a handle is the number of its goal, in the order of
  sending, so "newer" is `>`; `update_mutex_` is held for whole methods, so each is
  a step, while the loop test, the end of the thread (`"leaving"` to `"ready"`,
  when its future is seen to be ready) and each call of the execute callback are
  steps of their own. bt_navigator creates its servers without a thread for the
  handlers and without a completion callback, so handlers and lifecycle transitions
  come one at a time, and `deactivate` keeps all handlers waiting.
- In `BtNavigator`, a callback that gets a null goal goes on to dereference it:
  place `"crashed"`, and the process is gone. Which tree a pending goal asks for is
  a choice made when `onPreempt` compares (`"takeover"` or `"decline"`); a tick of
  the tree leaves it running, succeeded or failed. What `current`, `pending` and
  `status` show at any time is a state of `GoalServer` (`Promise`).
- In `VelocitySmoother`, speeds are integers and limits are per tick. `abs` is
  taken to be the floating-point one (the file includes no header that settles it).
  The scale `Eta` is an exact ratio, and only the scaled change is rounded, towards
  zero. `OdomCallback` sets what `getTwist` returns, the mean of a window of twists:
  any value, also beyond the velocity limits. `Follow` moves it towards the published
  speed, as a robot does that obeys; `Disturbed` sets it to a value of `Measured`. A
  new `OdomSmoother` returns zero until odometry arrives, so changes of `feedback`
  start it from there.
- In `BaseDriver`, frames are whole, and lost in either direction. `GivesUp` is the
  empty return of `read_serial_response`: its loop looks at the clock only between reads, so it
  needs something to arrive (or the port to fail). `Valid` keeps the order of cut
  and range check of each handler. The opening of the port restarts the board, as
  the constructor's 3 s sleep presumes; after it nothing older is on the line.
  Reading the empty vector goes through a null pointer, hence `ReplyMissing`
  ends the node.

## Runs

| Run | Expect | Shows |
|---|---|---|
| `recharger` | pass | `DrivenBySession`, `EveryTripRequested`, `OneAtATime`, `DockOnOwnVerdict`, the inductive invariant `IInv`, that the node implements `ChargeService`, and `RequestServed`, `TripEnds`, `ClosedPortEndsSession` |
| `recharger_stale_verdict` | violation | a rejected goal after an earlier success starts docking on the spot |
| `recharger_exit` | violation | Ctrl+C in mid-docking leaves the last speed on `/cmd_vel` |
| `store` | pass | `GoalsNeverGoBack`, `MarkerShowsSavedFile`, `NewestUpdateIsSaved` |
| `store_marker` | violation | a failed save separates the marker from the file |
| `can_receiver` | pass | `Resynchronises`, `NeverTorn` |
| `at_handshake` | pass | `OkMeansExecuted`, `HandshakeEnds` |
| `at_silent` | violation | a silent adapter holds the handshake for ever |
| `base_driver` | pass | `VerdictIsTrue`, `ColourAsAsked`, `NewestSpeedArrives` |
| `bt_navigator` | pass | the node implements `GoalServer`; `SucceededWasReached`, `OneNavigatorUnlessLogged`, `MuxerFreed`, `StrandedByDeactivation`, `GoalsFoundUnlessOverdue`, `DeactivatedIsQuiet`; `Heeded`, `DeactivationEnds` |
| `smoother` | pass | `NoJump`, `SameDirection`, `SilenceStops`, `CommandReached` |
| `base_missing_answer` | violation | a missing answer ends the driver in its service handler |

Each passing run also checks its module's `TypeOK`. Every property has a mutant
in `PROJECT.json`: a plausible bug under which the same run fails. The mutated
definitions stand before the definitions they replace, marked "Mutant".

Bounds, and why they are enough:

- Two sessions and two key presses (`MaxPresses`). All interference between
  sessions is pairwise: an older session and the one that took over `parser`.
  The stale verdict needs two trips.
- Five updates with a queue of two: the queue overflows within one trip and
  again after a restart. The source's depth is 10; only being full matters.
- Four frames of 17 bytes, two losses, one frame that is not the charger's, any
  byte to attach at: a disturbance, the odd length that ends it, and a frame after it.
- Three tries as in the source and three responses of noise.
- Three goals, two navigators, two activations, one cancellation at a time. A
  preemption that is itself preempted, and two navigators of which one is preempted,
  take three goals; a goal left behind by a deactivation does its harm after the
  second activation. 358 569 states.
- Two axes with limits of 2 and 3 each way, steps of 1 and 2 (so that ramps take
  several ticks, in step or not), a deadband of 2 on one axis (one step is below it,
  the other not), a time limit of one, commands beyond a limit, in reverse and zero,
  one change of parameters or one push backwards beyond the limits (`Measured`), beside
  any number of reconfigurations. Deceleration is above zero here; the code accepts
  zero, with which nothing stops the robot.
- Two calls, two speeds with a queue of one, one telemetry frame waiting, one
  frame lost in either direction, two starts. A stale answer needs one earlier call. `SomeAsks`
  pairs the same service twice, and two services with a value that fits a byte
  only once it is cut.

`CHECK_DEADLOCK FALSE` stands in every cfg but the smoother's, which never runs out
of steps: each of the other systems may come to rest (the process has ended, the operator does nothing, the bounded inputs are
used up).

### Fairness

- `AutoRecharger`: threads are scheduled (weak fairness per thread), and the action
  server answers a goal that was sent to it while it is up. That it ends a goal is not
  assumed, nor that it comes back if it dies: `BtNavigator` shows a tree that runs on
  for ever and goals nobody works on. `wait_for_server` polls, so a server that keeps returning is eventually seen
  (strong fairness of `GoThroughPoses`). None for the operator, the charger's
  frames, or faults.
- `ChargerStore`: the executor serves what is ready in turn, so trips and timers
  do not starve the subscription (strong fairness of `PositionUpdate`).
- `AtHandshake`: the thread runs; an adapter that is not silent answers.
- `BtNavigator`: the threads are scheduled, a tick of the tree returns, and the wait
  of a deactivation is left once it may be. That a tree ever succeeds or fails is
  not assumed: cancellation and deactivation must get past one that never does.
- `VelocitySmoother`: the timer fires, and the robot follows what is published, as its
  odometry shows in the end. No command need come.
- `BaseDriver`: the thread runs, the board works off its commands and sends its
  telemetry. The clock runs, so a wait during which frames arrive ends. The
  executor takes all callbacks it found ready before it collects again (strong
  fairness of `CmdCallback`).

### What the violations say

1. `nav_through_pose` ignores what `goThroughPoses` returns. For a rejected goal
   `isTaskComplete` and `getResult` speak of the previous task
   (`combined_auto_recharger.py:433`).
2. A session's `KeyboardInterrupt` handler cannot run, since Python raises the
   interrupt in the main thread; a session blocked in a read never sees the
   cleared flag (`combined_auto_recharger.py:531`).
3. `save_charger_position` only prints a failed write
   (`combined_auto_recharger.py:274`).
4. `read_serial_response` of the parser limits bytes, not time
   (`serial_can_parser.py:126`).
5. The driver's handlers index an empty vector after a time-out or a port error
   (`agv_pro_ros.cpp:281`). The mutant of `VerdictIsTrue` shows what to mind when
   repairing it: a handler that only reports the failure leaves the late answer on
   the line, and the next call of the same service takes it for its own.

### What passing properties except

Where the code breaks a promise under a circumstance that can be named, the
property names it, and the rest holds. Each exception is reachable in the run, and
the code has it:

- `RequestServed`, `TripEnds`: `nav_through_pose` waits without a limit
  (`combined_auto_recharger.py:436`), so a goal the server never ends, or a server that
  is gone, holds the executor for ever (`AwaitsServer`).
- `DockOnOwnVerdict`: docking follows the server's word, and for a goal that was
  rejected an older word (`recharger_stale_verdict`). The word may be unearned: see
  `SucceededWasReached`, whose takeover another client's goal can be part of. The
  charging node then docks where the robot stands.
- `SucceededWasReached`: `run` calls `onLoop` once more after the tick that ended
  the tree (`behavior_tree_engine.cpp:57`). A goal that takes over there is given the
  result of the goal before it: reported as succeeded without having been navigated.
- `OneNavigatorUnlessLogged`: `onGoalReceived` asks the muxer and tells it in two
  lock sections, with the loading of a tree between (`navigator.hpp:251-262`), so both
  navigators can be under way, against `navigator.hpp:47` "allowing only a single
  plugin to be processed at a time". The muxer then always logs its "Major error!".
- `StrandedByDeactivation`: a goal accepted right before a deactivation stays active
  with no thread (`simple_action_server.hpp:214`); after reactivation every later goal
  of that server is put behind it and none is ever worked on.
- `Heeded`: a goal accepted after the worker's last look at the pending slot
  (`simple_action_server.hpp:247`) waits for nobody; the comment at line 195 "Shouldn't
  reach a state with a pending goal but no current one" is about the next goal, which
  ends it.
- `NeverTorn`: there is no checksum, so a byte of data the line loses goes unnoticed,
  and those after it move up, the last from the next frame; a header may be a
  look-alike at the end of the frame before. `Resynchronises` has no answer to
  look-alikes either.
- `OkMeansExecuted`: with forwarded traffic the OK of a repeated `AT+CG` can be taken
  for that of `AT+AT`.
- `GoalsFoundUnlessOverdue`: a deactivation past `server_timeout_` terminates the
  goals (`simple_action_server.hpp:292`) a callback is about to ask for;
  `executeCallback` and `onPreempt` dereference the null they get.
- `TypeOK` of `VelocitySmoother`: only the wanted speed is limited; in closed loop the
  tick starts from the measured one and its result is not clamped again
  (`velocity_smoother.cpp:309`), so a robot measured beyond its limits is told to go on
  beyond them while the ramp lasts.
- `CommandReached`: in closed loop a deadband above one tick's gain keeps the robot
  at rest for ever, because the robot's own standstill is fed back
  (`velocity_smoother.cpp:272`). `SilenceStops`: deactivation publishes nothing, so
  the base keeps its last speed (`velocity_smoother.cpp:150`).
- `NewestSpeedArrives`: a lost speed is not sent again, and a lost `report_on` leaves
  the node blocked in its first read.

Two more the models show without a run of their own. `OneAtATime` needs an
operator who waits: nothing in the code prevents a trip beside a session that is
still docking. And a pin such as 257 is cut to 1 before its range is checked, which
`ColourAsAsked` excludes only for the LED service that checks first.

## Proofs

Every invariant and action property of a passing run is also a theorem of `Spec`,
for every value of the constants that the modules' assumptions admit; so are both
refinements. `IInv` and `VerdictInv` of `AutoRecharger` apart, the inductive
invariants stand in the proof modules: they say how the code gets by, where the properties say what comes of it. Each is proved
action by action, with the state it does not concern in lemmas of its own
(`OutsideUnchanged`, `OthersCountInv`, `Elsewhere`, `CallsStayOK` ...).

**`AutoRecharger_proof`** (any finite set of sessions, any presses, any faults)

- `Invariant`: `Spec => []IInv`. `DrivenBySession` alone is not inductive: when a
  session in the loop finds `serial_control_active` cleared it leaves without a
  stop. So `IInv` adds `ActiveInLoop`: until the node is told to stop, the flag
  stays set while some session is in the loop, because no session clears it.
  `EveryTripRequested` is not inductive either: it bounds trips and requests by
  presses, which needs that the executor's clearing step really clears a request
  (`ClearingARequest`), and sessions by trips, which needs that a trip about to
  start a session has not used itself up (`SessionsWithinTrips`).
- `DockOnOwnVerdictHolds`, by `VerdictInv`: unless the goal was rejected, the future
  polled is this trip's own, so a success is one the server reported of this goal.
  `DockOnlyAfterArrivalHolds`: docking starts only on arrival if the server rejects no
  goal and reports no unearned success (`NavFaults \subseteq {"crash"}`); it may die,
  or never end a goal. The run `recharger_stale_verdict` shows that the first condition
  is needed, `behavior_tree_engine.cpp:57` the second.
- `OneAtATimeHolds`, by `PatientInv`: as long as the operator waits, a request is one
  token that passes from the keyboard to the flag, to the executor and to a session
  (`OneToken`), and a port that is open belongs to the session that is up (`OwnLine`).
- `AutoRecharger_refines!Implements`: every step of the node maps to a step of
  `ChargeService` or a stutter; `IInv` is needed where a session leaves its loop.

**`ChargerStore_proof`** (any depth of queue, any number of updates)

- `MarkerTracksFile`, by `CopyFollowsFile`: through every step of a save, copy, file and
  marker follow each other unless a save failed.
- `TripsNeverGoBack`, by `PositionsInOrder`: positions are in the order of publication
  all the way from the last goal through file, copy and queue to the newest update,
  also when the queue drops its oldest or a kill cuts the file.

**`CanReceiver_proof`** (any stream, losses and place to attach)

- `FramesAreNeverTorn`, by `BufferIsStretch`: what the buffer holds is a stretch of
  the stream from which only lost bytes are missing, so a byte is displaced against the
  length byte by no more than the losses; and by `HeaderSeen`: it began with a header or
  a look-alike. Header and identifier are of the length byte's frame while fewer bytes
  than a frame's are lost: with a whole frame's worth lost, header and data of two
  frames can meet. Trying to prove the property without this bound found it to be
  false; the small run could not lose so much.
- `SearchResynchronises`, by a potential: `Misses` says from the place of the search in
  the frame how many whole frames it will still miss. The search goes by pairs of
  bytes and a frame's length is odd, so a search out of step meets the next header
  or the one after it.

**`AtHandshake_proof`** (any number of tries)

- `OkMeansExecutedHolds`: that `AT+AT` is sent only after `AT+CG` was executed holds with any
  noise, since only OKs for `AT+CG` can be there (`FirstOkIsReal`). That success means
  both were executed holds without noise, by `OneUnderWay`: one command or its
  answer is under way while the parser reads and none otherwise, so nothing is left
  of one command when the next is written.

**`BaseDriver_proof`** (any calls, speeds, losses, starts)

- `CallersHearTheTruth`, by `OneAnswerOut`: while the port is open there is at most
  one service frame on its way to the board or its answer on its way back, it belongs
  to the handler that waits, and an answer says whether the board carried that call
  out. Without a waiting handler there is none. This is what a node that survived a
  missing answer would break. Frames from an earlier start of the node may still be on
  their way (`InboxOK`), until the port is opened again.
- `ColoursAreAsShown`: the board carries out only what passed `Valid` (`CallOK`).

**`BtNavigator_proof`** (any order of servers, any goals, activations and cancellations)

- `HandlesOK` (a server's current goal is older than its pending one, both are active
  and no other server's) and, for each server, `CallbackOK`, `GoalsAreThere`,
  `QuietUnlessWaiting` and `LeavesNothing` are invariant together (`InvariantHolds`).
  `GoalsAreFound`, `DeactivationIsComplete`, `OnlyDeactivationStrands` and
  `SuccessIsEarned` follow; so does `CallbackEndsItsGoal`: the test for a goal still active
  after the execute callback (`simple_action_server.hpp:237`) never succeeds, which is
  why `WrapUp` leaves its branch out.
- `MuxerNotices` and `MuxerIsFreed`, by `MuxerOK`.
- `ImplementsPromise`: every method is a step of `GoalServer` or leaves it alone.

**`VelocitySmoother_proof`** (any finite set of axes, any limits, commands and odometry)

- `TypeCorrect`: a tick ends between the current speed and the limited command, so what is
  published is within the limits widened by what was measured (`BetweenIsBounded`), and
  within the limits if `Measured` is (`Bounded`).
- `SpeedNeverJumps`, by `Published`: what the base was told is the last speed after the
  deadband, in every state.
- `ChangesKeepDirection`, from lemmas about `Eta`: it is the least of the axes'
  fractions (`EtaIsLeast`), so the scaled change exceeds no axis' limit and rounding is
  all that separates its direction from the wanted one. An axis that may not change
  at all is left out: a fraction of zero does not count for eta
  (`velocity_smoother.cpp:292`).

Assumptions, beside the bounds being numbers: sets of sessions and axes are finite;
the first start of the driver counts (`MaxStarts` is not 0); no action server has
the empty name, which is the muxer's word for none (`NoServer`;
`navigator.hpp:57`); velocity limits lie on either side of
zero, deadbands and accelerations are not negative. The smoother's parameters are not
checked for the last (see "Not modelled").

Only model-checked, because fairness and `ENABLED` are beyond the prover: `RequestServed`,
`TripEnds`, `ClosedPortEndsSession`, `NewestUpdateIsSaved`, `HandshakeEnds`,
`NewestSpeedArrives`, `Heeded`, `DeactivationEnds`, `SilenceStops` and `CommandReached`.
The two refinement theorems are about safety, as the abstract specifications are.

## Not modelled

- Odometry, IMU and voltage (numeric); the bytes of the driver's frames, hence a
  telemetry frame that looks like an answer.
- The conversion of the charger's speeds and currents.
- BasicNavigator's other goals, cancelling and lifecycle calls: the recharger does
  not use them. Its model of the action server is what one client can tell of
  `BtNavigator`'s: a goal accepted or rejected, ended in any way, late, or never, beside
  other clients' goals. How the server gets there is in `BtNavigator`.
- Of bt_navigator: the trees, feedback (its read of the current handle is not
  locked), a failing activation, configuration and clean-up, `rclcpp` shutdown.
- Of the smoother: NaN commands (ignored by it), and limits refused at run time, which
  it uses all the same (`velocity_smoother.cpp:376`): `std::clamp` with its bounds the
  wrong way round has no defined result.
- Keyboard teleoperation, one loop from keys to a message; it matters as another
  publisher of `/cmd_vel`, which nothing arbitrates.
- Launch files, descriptions, simulation: configuration.
- The vendored stacks (rest of Navigation2, FAST_LIO, point_lio, cartographer,
  rtabmap, slam_gmapping, pcd2pgm, the lidar and camera drivers): numeric or
  third-party code, an SQL engine and a GUI among it. They are nearly all of the
  repository's lines, so the modelled share of all lines stays small while nearly all
  of the project's own control code is modelled.

## Plan

Done, in this order, the most important first: `BasicNavigator` with
`AutoRecharger`, its abstract `ChargeService`, the proofs; `ChargerStore`;
`CanReceiver` and `AtHandshake`; `BaseDriver`, then its lost commands;
`SimpleActionServer` with `BtNavigator` and its abstract `GoalServer`;
`VelocitySmoother`; the proofs of all invariants and action properties.

Next, proofs:

1. What the abstract specifications promise, as theorems of theirs that the detailed
   ones inherit: of `GoalServer`, that a goal ends once and never comes back; of
   `ChargeService`, that an ended session stays silent.
2. The safety core of the liveness properties, where it can be stated as an action
   property: that no step of `SilenceStops` or `CommandReached` takes the speed further
   away.
3. An abstract specification of the driver's services (asked, carried out, told) that
   `BaseDriver` implements, from `OneAnswerOut`.
