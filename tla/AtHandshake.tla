----------------------------- MODULE AtHandshake -----------------------------
(***************************************************************************)
(* SerialCANParser.send_at_commands and read_serial_response: the two AT   *)
(* commands that take the serial adapter from its transparent mode to its  *)
(* AT mode, each tried up to three times.                                  *)
(*                                                                         *)
(* What arrives is modelled by the responses it is read as: read_serial_   *)
(* response returns what precedes and includes a line end, or, without a   *)
(* line end, the first 101 bytes.  The adapter answers commands in order   *)
(* after any delay; until it has left its transparent mode it forwards the *)
(* bus, which is read as "noise".                                          *)
(***************************************************************************)
EXTENDS Naturals, Sequences

CONSTANTS
  MaxRetries,    \* max_retries, 3 in the source
  MaxNoise,      \* bound: responses read from forwarded bus traffic
  AdapterFaults  \* a subset of {"error", "silent"}: it may refuse a command, or
                 \* stop answering

ASSUME RetriesAssumption == MaxRetries \in Nat \ {0}
ASSUME NoiseAssumption == MaxNoise \in Nat
ASSUME AdapterAssumption == AdapterFaults \subseteq {"error", "silent"}

Commands == <<"AT+CG", "AT+AT">>

VARIABLES
  command,   \* index of the command the parser is at
  retries,   \* the tries it has given up on this command
  state,     \* "write", "read", or how send_at_commands ended: "ok" or "gave_up"
  received,  \* responses waiting in the serial driver
  pending,   \* commands the adapter has not answered yet
  executed,  \* commands the adapter has executed
  noise,     \* history: noise so far, bounded by MaxNoise
  silent     \* the adapter has stopped answering

vars == <<command, retries, state, received, pending, executed, noise, silent>>

CommandNames == {Commands[i] : i \in 1..Len(Commands)}

TypeOK ==
  /\ command \in 1..Len(Commands)
  /\ retries \in 0..MaxRetries
  /\ state \in {"write", "read", "ok", "gave_up"}
  /\ received \in Seq({"OK", "ERROR", "noise"})
  /\ pending \in Seq(CommandNames)
  /\ executed \subseteq CommandNames
  /\ noise \in 0..MaxNoise
  /\ silent \in BOOLEAN

Init ==
  /\ command = 1
  /\ retries = 0
  /\ state = "write"
  /\ received = <<>>
  /\ pending = <<>>
  /\ executed = {}
  /\ noise = 0
  /\ silent = FALSE
-----------------------------------------------------------------------------
WriteCommand ==
  /\ state = "write"
  /\ pending' = Append(pending, Commands[command])
  /\ state' = "read"
  /\ UNCHANGED <<command, retries, received, executed, noise, silent>>

\* Mutant: whatever is not a refusal is an OK.
ResponseNotError ==
  /\ state = "read"
  /\ received # <<>> /\ Head(received) # "ERROR"
  /\ received' = Tail(received)
  /\ retries' = 0
  /\ IF command < Len(Commands)
     THEN command' = command + 1 /\ state' = "write"
     ELSE command' = command /\ state' = "ok"
  /\ UNCHANGED <<pending, executed, noise, silent>>

\* A response with OK in it ends the retries of this command.
ResponseOk ==
  /\ state = "read"
  /\ received # <<>> /\ Head(received) = "OK"
  /\ received' = Tail(received)
  /\ retries' = 0
  /\ IF command < Len(Commands)
     THEN command' = command + 1 /\ state' = "write"
     ELSE command' = command /\ state' = "ok"
  /\ UNCHANGED <<pending, executed, noise, silent>>

\* Mutants: one try too many, or tries that are not counted.
ResponseNotOkOnceMore ==
  /\ state = "read"
  /\ received # <<>> /\ Head(received) # "OK"
  /\ received' = Tail(received)
  /\ retries' = retries + 1
  /\ state' = IF retries' <= MaxRetries THEN "write" ELSE "gave_up"
  /\ UNCHANGED <<command, pending, executed, noise, silent>>

ResponseNotOkUncounted ==
  /\ state = "read"
  /\ received # <<>> /\ Head(received) # "OK"
  /\ received' = Tail(received)
  /\ state' = "write"
  /\ UNCHANGED <<command, retries, pending, executed, noise, silent>>

\* Any other counts as a failed try; the last one ends the whole handshake.
ResponseNotOk ==
  /\ state = "read"
  /\ received # <<>> /\ Head(received) # "OK"
  /\ received' = Tail(received)
  /\ retries' = retries + 1
  /\ state' = IF retries' < MaxRetries THEN "write" ELSE "gave_up"
  /\ UNCHANGED <<command, pending, executed, noise, silent>>

ParserStep == WriteCommand \/ ResponseOk \/ ResponseNotOk
-----------------------------------------------------------------------------
(***************************************************************************)
(* The adapter.                                                            *)
(***************************************************************************)
Answers(response) ==
  /\ ~silent
  /\ pending # <<>>
  /\ pending' = Tail(pending)
  /\ received' = Append(received, response)
  /\ UNCHANGED <<command, retries, state, noise, silent>>

Executes ==
  /\ Answers("OK")
  /\ executed' = executed \union {Head(pending)}

Refuses ==
  /\ "error" \in AdapterFaults
  /\ Answers("ERROR")
  /\ UNCHANGED executed

ForwardsBus ==
  /\ "AT+CG" \notin executed
  /\ noise < MaxNoise
  /\ noise' = noise + 1
  /\ received' = Append(received, "noise")
  /\ UNCHANGED <<command, retries, state, pending, executed, silent>>

FallsSilent ==
  /\ "silent" \in AdapterFaults
  /\ ~silent
  /\ silent' = TRUE
  /\ UNCHANGED <<command, retries, state, received, pending, executed, noise>>

Next == ParserStep \/ Executes \/ Refuses \/ ForwardsBus \/ FallsSilent

Spec == Init /\ [][Next]_vars

\* The session's thread runs, and an adapter that is not silent answers.
FairSpec == Spec /\ WF_vars(ParserStep) /\ WF_vars(Executes \/ Refuses)
-----------------------------------------------------------------------------
(***************************************************************************)
(* Properties.                                                             *)
(***************************************************************************)

\* The second command is sent only to an adapter that executed the first, whatever
\* was read before.  Success means that both were executed if no forwarded traffic
\* has put the tries out of step with the answers; with it the late OK of a
\* repeated AT+CG can be taken for that of AT+AT (send_at_commands looks for OK in
\* whatever response it reads next).
OkMeansExecuted ==
  /\ command = 2 \/ state = "ok" => "AT+CG" \in executed
  /\ state = "ok" /\ noise = 0 => "AT+AT" \in executed

\* The handshake ends with every adapter that answers, refusals and forwarded
\* traffic included (send_at_commands counts its tries).
HandshakeEnds == <>(state \in {"ok", "gave_up"} \/ silent)

\* The handshake ends with every adapter, as read_serial_response's docstring
\* ("until a line end or a timeout") and its comment ("timeout, prevents an
\* endless loop") say.
HandshakeTimesOut == <>(state \in {"ok", "gave_up"})
=============================================================================
