---------------------------- MODULE ChargerStore ----------------------------
(***************************************************************************)
(* The charger's position: the JSON file, its copy in the node's memory,   *)
(* the marker on the operator's screen and the goal of a trip.             *)
(*                                                                         *)
(* All callbacks of the node belong to one mutually exclusive group, so a  *)
(* trip or a save delays the updates behind it.  The process can be killed *)
(* between any two steps (the executor is a daemon thread that Ctrl+C ends *)
(* wherever it is).                                                        *)
(*                                                                         *)
(* A position is named by its rank: 0 is what the file held at first, n is *)
(* the n-th one published on /charger_position_update.                     *)
(***************************************************************************)
EXTENDS Naturals, Sequences

CONSTANTS
  MaxUpdates,   \* bound: positions published
  QueueDepth,   \* depth of the subscription's queue (10 in the source)
  StoreFaults   \* a subset of {"open", "dump", "kill"}

ASSUME MaxUpdatesAssumption == MaxUpdates \in Nat
ASSUME QueueDepthAssumption == QueueDepth \in Nat \ {0}
ASSUME StoreFaultsAssumption == StoreFaults \subseteq {"open", "dump", "kill"}

VARIABLES
  sent,       \* updates published so far
  queue,      \* updates the subscription holds for the node
  json_file,  \* content of charger_position.json
  json_data,  \* the node's copy
  marker,     \* the position last published on /goal_marker
  goal,       \* the position the last trip was made for
  executor,   \* where the executor thread is; "down" when there is no process
  unsaved     \* history: the last save of this process failed

vars == <<sent, queue, json_file, json_data, marker, goal, executor, unsaved>>

Position == 0..MaxUpdates
Default == MaxUpdates + 1  \* the position (0, 0, 0, 1) of load_charger_position
Broken == MaxUpdates + 2   \* a file that json.load refuses: truncated or cut short
Up == executor # "down"

TypeOK ==
  /\ sent \in Position
  /\ queue \in Seq(Position)
  /\ Len(queue) <= QueueDepth
  /\ json_file \in Position \union {Broken}
  /\ json_data \in Position \union {Default}
  /\ marker \in Position \union {Default}
  /\ goal \in Position \union {Default}
  /\ executor \in {"spin", "truncated", "saved", "navigating", "down"}
  /\ unsaved \in BOOLEAN

Init ==
  /\ sent = 0
  /\ queue = <<>>
  /\ json_file = 0
  /\ json_data = 0
  /\ marker = 0
  /\ goal = 0
  /\ executor = "spin"
  /\ unsaved = FALSE
-----------------------------------------------------------------------------
\* Mutants: the queue has no limit, or refuses the newest entry.
KeepAll(s) == s
KeepFirst(s) == IF Len(s) > QueueDepth THEN SubSeq(s, 1, QueueDepth) ELSE s

\* A full queue loses its oldest entry; without a process there is no queue.
KeepLast(s) == IF Len(s) > QueueDepth THEN Tail(s) ELSE s

PublishUpdate ==
  /\ sent < MaxUpdates
  /\ sent' = sent + 1
  /\ queue' = IF Up THEN KeepLast(Append(queue, sent')) ELSE queue
  /\ UNCHANGED <<json_file, json_data, marker, goal, executor, unsaved>>

\* Position_Update_callback up to open(json_file, 'w'), which truncates.
PositionUpdate ==
  /\ executor = "spin"
  /\ queue # <<>>
  /\ json_data' = Head(queue)
  /\ queue' = Tail(queue)
  /\ \/ /\ json_file' = Broken
        /\ executor' = "truncated"
        /\ UNCHANGED unsaved
     \/ /\ "open" \in StoreFaults
        /\ executor' = "saved"
        /\ unsaved' = TRUE
        /\ UNCHANGED json_file
  /\ UNCHANGED <<sent, marker, goal>>

\* json.dump and close; save_charger_position only prints what goes wrong.
Dump ==
  /\ executor = "truncated"
  /\ \/ json_file' = json_data /\ unsaved' = FALSE
     \/ "dump" \in StoreFaults /\ unsaved' = TRUE /\ UNCHANGED json_file
  /\ executor' = "saved"
  /\ UNCHANGED <<sent, queue, json_data, marker, goal>>

\* Mutant: the marker waits for the timer.
UpdateVisualizationSkipped ==
  /\ executor = "saved"
  /\ executor' = "spin"
  /\ UNCHANGED <<sent, queue, json_file, json_data, marker, goal, unsaved>>

UpdateVisualization ==
  /\ executor = "saved"
  /\ marker' = json_data
  /\ executor' = "spin"
  /\ UNCHANGED <<sent, queue, json_file, json_data, goal, unsaved>>

MarkerTimer ==
  /\ executor = "spin"
  /\ marker' = json_data
  /\ UNCHANGED <<sent, queue, json_file, json_data, goal, executor, unsaved>>

\* Mutant: the goal comes from the node's copy.
StartTripFromMemory ==
  /\ executor = "spin"
  /\ goal' = json_data
  /\ executor' = "navigating"
  /\ UNCHANGED <<sent, queue, json_file, json_data, marker, unsaved>>

\* execute_navigation_internal: the goal comes from the file; when the file
\* cannot be read there is no trip.
StartTrip ==
  /\ executor = "spin"
  /\ json_file # Broken
  /\ goal' = json_file
  /\ executor' = "navigating"
  /\ UNCHANGED <<sent, queue, json_file, json_data, marker, unsaved>>

EndTrip ==
  /\ executor = "navigating"
  /\ executor' = "spin"
  /\ UNCHANGED <<sent, queue, json_file, json_data, marker, goal, unsaved>>

Kill ==
  /\ "kill" \in StoreFaults
  /\ Up
  /\ executor' = "down"
  /\ queue' = <<>>
  /\ UNCHANGED <<sent, json_file, json_data, marker, goal, unsaved>>

\* __init__: load_charger_position, then the first marker.
Restart ==
  /\ executor = "down"
  /\ json_data' = IF json_file = Broken THEN Default ELSE json_file
  /\ marker' = json_data'
  /\ executor' = "spin"
  /\ unsaved' = FALSE
  /\ UNCHANGED <<sent, queue, json_file, goal>>

Next ==
  \/ PublishUpdate \/ PositionUpdate \/ Dump \/ UpdateVisualization \/ MarkerTimer
  \/ StartTrip \/ EndTrip \/ Kill \/ Restart

Spec == Init /\ [][Next]_vars

\* The executor thread runs, and a timer or a trip does not starve the
\* subscription: the executor serves what is ready in turn.
Fairness ==
  /\ SF_vars(PositionUpdate)
  /\ WF_vars(Dump) /\ WF_vars(UpdateVisualization) /\ WF_vars(EndTrip)

FairSpec == Spec /\ Fairness
-----------------------------------------------------------------------------
(***************************************************************************)
(* Properties.                                                             *)
(***************************************************************************)

\* Whatever fails, overflows or is killed in between, a later trip is never made
\* for an older position than an earlier one, and never for the default that
\* stands in for an unreadable file (execute_navigation_internal reads the file).
GoalsNeverGoBack == [][goal' >= goal /\ goal' # Default]_goal

\* Between two callbacks the marker shows what the file holds, as the comment in
\* timer_callback says ("always publish the position in the current JSON file").
MarkerShowsFile ==
  executor \in {"spin", "navigating"} /\ json_file # Broken => marker = json_file

\* It does so unless the last save failed: kills, restarts and updates held up
\* by a trip do not separate the marker from the file for longer than a callback,
\* and the next save that works brings them together again.
MarkerShowsSavedFile == unsaved \/ MarkerShowsFile

\* The newest position published to a running node reaches the file, however
\* many updates a trip has held up, unless the process is killed or the write
\* fails.
NewestUpdateIsSaved ==
  \A n \in 1..MaxUpdates :
    sent = n /\ queue # <<>> ~> json_file \in n..MaxUpdates \/ unsaved \/ ~Up
=============================================================================
