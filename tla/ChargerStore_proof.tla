------------------------- MODULE ChargerStore_proof -------------------------
(***************************************************************************)
(* Proofs about ChargerStore, for any number of updates, any depth of the  *)
(* subscription's queue and any faults.                                    *)
(***************************************************************************)
EXTENDS ChargerStore, SequenceTheorems, TLAPS

\* The inductive invariant behind MarkerShowsSavedFile: unless the last save
\* failed or the file is cut short, the node's copy is the file's content once
\* the save is over, and the marker is the node's copy once it is published.
CopyFollowsFile ==
  \/ unsaved
  \/ json_file = Broken
  \/ /\ executor = "saved" => json_data = json_file
     /\ executor \in {"spin", "navigating"} => json_data = json_file /\ marker = json_data

\* The inductive invariant behind GoalsNeverGoBack: positions come in the order
\* of their ranks, from the last goal by way of the file (or, while the file is
\* cut short, the copy to be saved) to the queue and to the newest update.
Sorted(q) == \A i, j \in 1..Len(q) : i <= j => q[i] <= q[j]
Between(q, low, high) == \A i \in 1..Len(q) : low <= q[i] /\ q[i] <= high

PositionsInOrder ==
  /\ goal # Default /\ goal <= sent
  /\ Sorted(queue) /\ Between(queue, goal, sent)
  /\ json_file # Broken =>
       goal <= json_file /\ json_file <= sent /\ Between(queue, json_file, sent)
  /\ executor = "truncated" =>
       /\ json_data # Default
       /\ goal <= json_data /\ json_data <= sent /\ Between(queue, json_data, sent)
-----------------------------------------------------------------------------
(***************************************************************************)
(* What the subscription's queue does to the entries it holds.             *)
(***************************************************************************)

\* A queue that takes one more entry keeps its bound.
LEMMA KeepLastType ==
  ASSUME NEW q \in Seq(Position), Len(q) <= QueueDepth, NEW e \in Position
  PROVE  /\ KeepLast(Append(q, e)) \in Seq(Position)
         /\ Len(KeepLast(Append(q, e))) <= QueueDepth
<1>1. /\ Append(q, e) \in Seq(Position)
      /\ Append(q, e) # <<>>
      /\ Len(Append(q, e)) = Len(q) + 1
  BY AppendProperties
<1>2. /\ Tail(Append(q, e)) \in Seq(Position)
      /\ Len(Tail(Append(q, e))) = Len(Append(q, e)) - 1
  BY <1>1, HeadTailProperties
<1>3. Len(q) \in Nat
  BY LenProperties
<1>4. QED
  BY <1>1, <1>2, <1>3, QueueDepthAssumption DEF KeepLast

\* An entry that is not below the others leaves the queue sorted, and between
\* the bounds that hold for the entry and the queue.
LEMMA KeepLastOrder ==
  ASSUME NEW q \in Seq(Position), NEW e \in Position, NEW low \in Nat, NEW high \in Nat,
         Sorted(q), Between(q, low, high), high <= e, low <= e
  PROVE  Sorted(KeepLast(Append(q, e))) /\ Between(KeepLast(Append(q, e)), low, e)
<1> DEFINE longer == Append(q, e)
<1>1. /\ longer \in Seq(Position) /\ longer # <<>>
      /\ Len(longer) = Len(q) + 1
      /\ \A i \in 1..Len(q) : longer[i] = q[i]
      /\ longer[Len(q) + 1] = e
  BY AppendProperties
<1>2. /\ Len(q) \in Nat
      /\ \A i \in 1..Len(q) : q[i] \in Nat
  BY LenProperties, ElementOfSeq, MaxUpdatesAssumption DEF Position
<1>3. Sorted(longer) /\ Between(longer, low, e)
  <2>1. Between(longer, low, e)
    BY <1>1, <1>2, MaxUpdatesAssumption DEF Between, Position
  <2>2. Sorted(longer)
    BY SMTT(20), <1>1, <1>2, MaxUpdatesAssumption DEF Between, Sorted, Position
  <2>3. QED
    BY <2>1, <2>2
<1>4. /\ Len(Tail(longer)) = Len(longer) - 1
      /\ \A i \in 1..Len(Tail(longer)) : Tail(longer)[i] = longer[i + 1]
  BY <1>1, HeadTailProperties
<1>5. Sorted(Tail(longer)) /\ Between(Tail(longer), low, e)
  <2> HIDE DEF longer
  <2>1. Between(Tail(longer), low, e)
    BY <1>1, <1>2, <1>3, <1>4 DEF Between
  <2>2. Sorted(Tail(longer))
    BY <1>1, <1>2, <1>3, <1>4 DEF Sorted
  <2>3. QED
    BY <2>1, <2>2
<1>6. QED
  BY <1>3, <1>5 DEF KeepLast

\* Taking the oldest entry leaves a sorted queue, all of it at or above the entry.
LEMMA TailOrder ==
  ASSUME NEW q \in Seq(Position), q # <<>>, NEW low \in Nat, NEW high \in Nat,
         Sorted(q), Between(q, low, high)
  PROVE  /\ Head(q) \in Position /\ low <= Head(q) /\ Head(q) <= high
         /\ Sorted(Tail(q))
         /\ Between(Tail(q), Head(q), high) /\ Between(Tail(q), low, high)
<1>1. Len(q) \in Nat \ {0} /\ \A i \in 1..Len(q) : q[i] \in Position
  BY EmptySeq, ElementOfSeq
<1>2. /\ Head(q) \in Position /\ Head(q) = q[1]
      /\ Len(Tail(q)) = Len(q) - 1
      /\ \A i \in 1..Len(Tail(q)) : Tail(q)[i] = q[i + 1]
  BY HeadTailProperties
<1>3. low <= Head(q) /\ Head(q) <= high
  BY <1>1, <1>2 DEF Between
<1>4. Sorted(Tail(q))
  BY <1>1, <1>2 DEF Sorted
<1>5. Between(Tail(q), Head(q), high)
  BY <1>1, <1>2 DEF Between, Sorted
<1>6. Between(Tail(q), low, high)
  BY <1>1, <1>2 DEF Between
<1>7. QED
  BY <1>2, <1>3, <1>4, <1>5, <1>6
-----------------------------------------------------------------------------
\* What is written to the file is a position that was published, never the default.
WritesAPosition == executor = "truncated" => json_data \in Position

TypeInv == TypeOK /\ WritesAPosition

LEMMA InitTypeInv == Init => TypeInv
<1> SUFFICES ASSUME Init PROVE TypeInv
  OBVIOUS
<1>1. queue \in Seq(Position) /\ Len(queue) <= QueueDepth
  <2>1. queue = <<>>
    BY DEF Init
  <2>2. QED
    BY <2>1, EmptySeq, QueueDepthAssumption
<1>2. 0 \in Position
  BY MaxUpdatesAssumption DEF Position
<1>3. TypeOK
  BY <1>1, <1>2 DEF Init, TypeOK
<1>4. QED
  BY <1>3 DEF Init, TypeInv, WritesAPosition

LEMMA NextTypeInv == TypeInv /\ [Next]_vars => TypeInv'
<1> SUFFICES ASSUME TypeInv, [Next]_vars PROVE TypeInv'
  OBVIOUS
<1>. USE DEF TypeInv, TypeOK, WritesAPosition
<1>1. CASE PublishUpdate
  <2>1. sent' \in Position
    BY <1>1, MaxUpdatesAssumption DEF PublishUpdate, Position
  <2>2. queue' \in Seq(Position) /\ Len(queue') <= QueueDepth
    BY <1>1, <2>1, KeepLastType DEF PublishUpdate
  <2>3. QED
    BY <1>1, <2>1, <2>2 DEF PublishUpdate
<1>2. CASE PositionUpdate
  <2>1. /\ Head(queue) \in Position
        /\ Tail(queue) \in Seq(Position)
        /\ Len(Tail(queue)) = Len(queue) - 1
    BY <1>2, HeadTailProperties DEF PositionUpdate
  <2>2. Len(queue') <= QueueDepth
    BY <1>2, <2>1, LenProperties, QueueDepthAssumption DEF PositionUpdate
  <2>3. QED
    BY <1>2, <2>1, <2>2 DEF PositionUpdate
<1>3. CASE Dump
  BY <1>3 DEF Dump
<1>4. CASE UpdateVisualization
  BY <1>4 DEF UpdateVisualization
<1>5. CASE MarkerTimer
  BY <1>5 DEF MarkerTimer
<1>6. CASE StartTrip
  BY <1>6 DEF StartTrip
<1>7. CASE EndTrip
  BY <1>7 DEF EndTrip
<1>8. CASE Kill
  <2>1. queue' \in Seq(Position) /\ Len(queue') <= QueueDepth
    BY <1>8, EmptySeq, QueueDepthAssumption DEF Kill
  <2>2. QED
    BY <1>8, <2>1 DEF Kill
<1>9. CASE Restart
  BY <1>9 DEF Restart
<1>10. CASE UNCHANGED vars
  BY <1>10 DEF vars
<1>11. QED
  BY <1>1, <1>2, <1>3, <1>4, <1>5, <1>6, <1>7, <1>8, <1>9, <1>10 DEF Next

LEMMA TypeInvIsInvariant == Spec => []TypeInv
BY InitTypeInv, NextTypeInv, PTL DEF Spec

\* Every state is well typed: the queue stays within its depth, and neither the
\* file nor the node's copy ever holds anything but a published position, the
\* first one, the default of load_charger_position or a broken file.
THEOREM TypeCorrect == Spec => []TypeOK
<1>1. TypeInv => TypeOK
  BY DEF TypeInv
<1>2. QED
  BY <1>1, TypeInvIsInvariant, PTL
-----------------------------------------------------------------------------
LEMMA CopyFollowsFileInductive ==
  TypeInv /\ CopyFollowsFile /\ [Next]_vars => CopyFollowsFile'
<1> SUFFICES ASSUME TypeInv, CopyFollowsFile, [Next]_vars PROVE CopyFollowsFile'
  OBVIOUS
<1>. USE DEF TypeInv, TypeOK, CopyFollowsFile
<1>1. CASE PublishUpdate
  BY <1>1 DEF PublishUpdate
<1>2. CASE PositionUpdate
  BY <1>2 DEF PositionUpdate
<1>3. CASE Dump
  BY <1>3 DEF Dump
<1>4. CASE UpdateVisualization
  BY <1>4 DEF UpdateVisualization
<1>5. CASE MarkerTimer
  BY <1>5 DEF MarkerTimer
<1>6. CASE StartTrip
  BY <1>6 DEF StartTrip
<1>7. CASE EndTrip
  BY <1>7 DEF EndTrip
<1>8. CASE Kill
  BY <1>8 DEF Kill
<1>9. CASE Restart
  BY <1>9 DEF Restart
<1>10. CASE UNCHANGED vars
  BY <1>10 DEF vars
<1>11. QED
  BY <1>1, <1>2, <1>3, <1>4, <1>5, <1>6, <1>7, <1>8, <1>9, <1>10 DEF Next

\* Unless the last save of this process failed, the marker on the operator's
\* screen shows the file's content whenever the executor is between callbacks or
\* on a trip, whatever was killed, restarted or held up before.
THEOREM MarkerTracksFile == Spec => []MarkerShowsSavedFile
<1>1. Init => CopyFollowsFile
  BY DEF Init, CopyFollowsFile
<1>2. CopyFollowsFile => MarkerShowsSavedFile
  BY DEF CopyFollowsFile, MarkerShowsSavedFile, MarkerShowsFile
<1>3. QED
  BY <1>1, <1>2, CopyFollowsFileInductive, TypeInvIsInvariant, PTL DEF Spec
-----------------------------------------------------------------------------
\* A bound below a queue's entries may be lowered.
LEMMA BetweenLower ==
  ASSUME NEW q \in Seq(Position), NEW low \in Nat, NEW high \in Nat, NEW lower \in Nat,
         Between(q, low, high), lower <= low
  PROVE  Between(q, lower, high)
<1>1. \A i \in 1..Len(q) : q[i] \in Nat
  BY ElementOfSeq, MaxUpdatesAssumption DEF Position
<1>2. QED
  BY <1>1 DEF Between

LEMMA EmptyQueueInOrder == Sorted(<<>>) /\ \A low, high : Between(<<>>, low, high)
BY DEF Sorted, Between

LEMMA PositionsInOrderInductive ==
  TypeInv /\ PositionsInOrder /\ [Next]_vars => PositionsInOrder'
<1> SUFFICES ASSUME TypeInv, PositionsInOrder, [Next]_vars PROVE PositionsInOrder'
  OBVIOUS
<1>a. /\ sent \in Nat /\ goal \in Nat
      /\ json_file # Broken => json_file \in Position /\ json_file \in Nat
      /\ executor = "truncated" => json_data \in Position /\ json_data \in Nat
  BY MaxUpdatesAssumption DEF TypeInv, TypeOK, WritesAPosition, PositionsInOrder, Position, Default
<1>b. queue \in Seq(Position)
  BY DEF TypeInv, TypeOK
<1>. USE DEF PositionsInOrder
<1>1. CASE PublishUpdate
  <2>1. /\ sent' \in Position /\ sent' = sent + 1 /\ sent <= sent'
        /\ UNCHANGED <<json_file, json_data, goal, executor>>
    BY <1>1, <1>a, MaxUpdatesAssumption DEF PublishUpdate, Position
  <2>2. CASE ~Up
    <3>1. queue' = queue
      BY <1>1, <2>2 DEF PublishUpdate
    <3>2. ASSUME NEW low \in Nat, Between(queue, low, sent)
          PROVE  Between(queue', low, sent')
      BY <3>1, <3>2, <2>1, <1>a, <1>b, ElementOfSeq, MaxUpdatesAssumption DEF Between, Position
    <3>3. QED
      BY <3>1, <3>2, <2>1, <1>a
  <2>3. CASE Up
    <3>1. queue' = KeepLast(Append(queue, sent'))
      BY <1>1, <2>3 DEF PublishUpdate
    <3>2. ASSUME NEW low \in Nat, low <= sent, Between(queue, low, sent)
          PROVE  Sorted(queue') /\ Between(queue', low, sent')
      BY <3>1, <3>2, <2>1, <1>a, <1>b, KeepLastOrder
    <3>3. QED
      BY <3>1, <3>2, <2>1, <1>a
  <2>4. QED
    BY <2>2, <2>3
<1>2. CASE PositionUpdate
  <2>1. ASSUME NEW low \in Nat, Between(queue, low, sent)
        PROVE  /\ Head(queue) \in Position /\ low <= Head(queue) /\ Head(queue) <= sent
               /\ Sorted(Tail(queue))
               /\ Between(Tail(queue), Head(queue), sent) /\ Between(Tail(queue), low, sent)
    BY <2>1, <1>2, <1>a, <1>b, TailOrder DEF PositionUpdate
  <2>2. /\ json_data' = Head(queue) /\ queue' = Tail(queue)
        /\ UNCHANGED <<sent, goal>>
        /\ executor' = "truncated" => json_file' = Broken
        /\ json_file' # Broken => json_file' = json_file
    BY <1>2 DEF PositionUpdate
  <2>3. Head(queue) # Default
    BY <2>1, <1>a, MaxUpdatesAssumption DEF Position, Default
  <2>4. QED
    BY <2>1, <2>2, <2>3, <1>a
<1>3. CASE Dump
  <2>1. json_data # Broken
    BY <1>3, <1>a, MaxUpdatesAssumption DEF Dump, Position, Broken
  <2>2. QED
    BY <1>3, <2>1 DEF Dump
<1>4. CASE UpdateVisualization
  BY <1>4 DEF UpdateVisualization
<1>5. CASE MarkerTimer
  BY <1>5 DEF MarkerTimer
<1>6. CASE StartTrip
  <2>1. json_file # Default
    BY <1>6, <1>a, MaxUpdatesAssumption DEF StartTrip, Position, Default
  <2>2. QED
    BY <1>6, <2>1, <1>a DEF StartTrip
<1>7. CASE EndTrip
  BY <1>7 DEF EndTrip
<1>8. CASE Kill
  BY <1>8, EmptyQueueInOrder DEF Kill
<1>9. CASE Restart
  BY <1>9 DEF Restart
<1>10. CASE UNCHANGED vars
  BY <1>10 DEF vars
<1>11. QED
  BY <1>1, <1>2, <1>3, <1>4, <1>5, <1>6, <1>7, <1>8, <1>9, <1>10 DEF Next

\* Only the start of a trip changes the goal, to what the file holds.
LEMMA GoalStep ==
  TypeInv /\ PositionsInOrder /\ [Next]_vars =>
    goal' = goal \/ (goal' >= goal /\ goal' # Default)
<1> SUFFICES ASSUME TypeInv, PositionsInOrder, [Next]_vars, goal' # goal
             PROVE  goal' >= goal /\ goal' # Default
  OBVIOUS
<1>1. StartTrip
  BY DEF Next, vars, PublishUpdate, PositionUpdate, Dump, UpdateVisualization, MarkerTimer,
         EndTrip, Kill, Restart
<1>2. json_file \in Position /\ goal' = json_file /\ goal <= json_file
  BY <1>1 DEF StartTrip, TypeInv, TypeOK, PositionsInOrder
<1>3. QED
  BY <1>2, MaxUpdatesAssumption DEF TypeInv, TypeOK, Position, Default

\* A trip is never made for an older charger position than the trip before it,
\* nor for the default, whatever is lost, truncated or killed in between.
THEOREM TripsNeverGoBack == Spec => GoalsNeverGoBack
<1>1. Init => PositionsInOrder
  <2>1. Init => goal # Default /\ goal <= sent /\ 0 # Default
    BY MaxUpdatesAssumption DEF Init, Default
  <2>2. QED
    BY <2>1, EmptyQueueInOrder DEF Init, PositionsInOrder
<1>2. TypeInv /\ PositionsInOrder /\ [Next]_vars => [goal' >= goal /\ goal' # Default]_goal
  BY GoalStep
<1>3. QED
  BY <1>1, <1>2, PositionsInOrderInductive, TypeInvIsInvariant, PTL DEF Spec, GoalsNeverGoBack
=============================================================================
