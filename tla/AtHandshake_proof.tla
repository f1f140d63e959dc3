-------------------------- MODULE AtHandshake_proof --------------------------
(***************************************************************************)
(* Proofs about AtHandshake, for any number of retries, any amount of      *)
(* forwarded traffic and any faults of the adapter.                        *)
(***************************************************************************)
EXTENDS AtHandshake, SequenceTheorems, TLAPS

Response == {"OK", "ERROR", "noise"}
Among(x, s) == \E i \in 1..Len(s) : s[i] = x

\* While a command is being tried, a try is left.
TryIsLeft == state \in {"write", "read"} => retries < MaxRetries

TypeInv == TypeOK /\ TryIsLeft

\* An OK on its way, while the first command is tried, is one for that command.
FirstOkIsReal ==
  IF command = 1
  THEN /\ state # "ok"
       /\ \A i \in 1..Len(pending) : pending[i] = "AT+CG"
       /\ Among("OK", received) => "AT+CG" \in executed
  ELSE "AT+CG" \in executed

\* Without forwarded traffic one command or its answer is under way while the
\* parser reads, and none otherwise: answers do not get out of step.
OneUnderWay == Len(received) + Len(pending) = IF state = "read" THEN 1 ELSE 0

SecondOkIsReal ==
  noise = 0 =>
    /\ OneUnderWay
    /\ command = 2 =>
         /\ \A i \in 1..Len(pending) : pending[i] = "AT+AT"
         /\ Among("OK", received) => "AT+AT" \in executed
         /\ state = "ok" => "AT+AT" \in executed

OkInv == FirstOkIsReal /\ SecondOkIsReal
-----------------------------------------------------------------------------
LEMMA TwoCommands ==
  /\ Len(Commands) = 2 /\ Commands[1] = "AT+CG" /\ Commands[2] = "AT+AT"
  /\ CommandNames = {"AT+CG", "AT+AT"}
<1>1. Len(Commands) = 2 /\ Commands[1] = "AT+CG" /\ Commands[2] = "AT+AT"
  BY DEF Commands
<1>2. QED
  BY <1>1 DEF CommandNames

\* What taking the first element and adding a last one do to the elements.
LEMMA TailAmong ==
  ASSUME NEW S, NEW s \in Seq(S), s # <<>>
  PROVE  /\ Head(s) \in S /\ Tail(s) \in Seq(S) /\ Len(s) \in Nat /\ Len(Tail(s)) = Len(s) - 1
         /\ Among(Head(s), s)
         /\ \A x : Among(x, Tail(s)) => Among(x, s)
<1>1. Len(s) \in Nat /\ Len(s) # 0
  BY EmptySeq, LenProperties
<1>2. /\ Head(s) \in S /\ Tail(s) \in Seq(S) /\ Len(Tail(s)) = Len(s) - 1
      /\ \A i \in 1..Len(Tail(s)) : Tail(s)[i] = s[i + 1]
      /\ Head(s) = s[1]
  BY HeadTailProperties
<1>3. Among(Head(s), s)
  BY <1>1, <1>2 DEF Among
<1>4. ASSUME NEW x, Among(x, Tail(s)) PROVE Among(x, s)
  <2>1. PICK i \in 1..Len(Tail(s)) : Tail(s)[i] = x
    BY <1>4 DEF Among
  <2>2. i + 1 \in 1..Len(s) /\ s[i + 1] = x
    BY <1>1, <1>2, <2>1
  <2>3. QED
    BY <2>2 DEF Among
<1>5. QED
  BY <1>1, <1>2, <1>3, <1>4

LEMMA AppendAmong ==
  ASSUME NEW S, NEW s \in Seq(S), NEW e \in S
  PROVE  /\ Append(s, e) \in Seq(S) /\ Len(s) \in Nat /\ Len(Append(s, e)) = Len(s) + 1
         /\ \A x : Among(x, Append(s, e)) => x = e \/ Among(x, s)
<1>1. /\ Append(s, e) \in Seq(S) /\ Len(s) \in Nat /\ Len(Append(s, e)) = Len(s) + 1
      /\ \A i \in 1..Len(s) : Append(s, e)[i] = s[i]
      /\ Append(s, e)[Len(s) + 1] = e
  BY AppendProperties, LenProperties
<1>2. ASSUME NEW x, Among(x, Append(s, e)), x # e PROVE Among(x, s)
  <2>1. PICK i \in 1..(Len(s) + 1) : Append(s, e)[i] = x
    BY <1>1, <1>2 DEF Among
  <2>2. i # Len(s) + 1
    BY <1>1, <1>2, <2>1
  <2>3. i \in 1..Len(s)
    BY <1>1, <2>2
  <2>4. QED
    BY <1>1, <2>1, <2>3 DEF Among
<1>3. QED
  BY <1>1, <1>2

\* "Every element is x" in terms of Among.
LEMMA OnlyAmong ==
  ASSUME NEW s, NEW x
  PROVE  (\A i \in 1..Len(s) : s[i] = x) <=> \A y : Among(y, s) => y = x
BY DEF Among
-----------------------------------------------------------------------------
LEMMA InitTypeInv == Init => TypeInv
<1> SUFFICES ASSUME Init PROVE TypeInv
  OBVIOUS
<1>1. received \in Seq(Response) /\ pending \in Seq(CommandNames)
  BY EmptySeq DEF Init
<1>2. command \in 1..Len(Commands)
  BY TwoCommands DEF Init
<1>3. retries \in 0..MaxRetries /\ retries < MaxRetries /\ noise \in 0..MaxNoise
  BY RetriesAssumption, NoiseAssumption DEF Init
<1>4. QED
  BY <1>1, <1>2, <1>3 DEF Init, TypeInv, TypeOK, TryIsLeft, Response

LEMMA NextTypeInv == TypeInv /\ [Next]_vars => TypeInv'
<1> SUFFICES ASSUME TypeInv, [Next]_vars PROVE TypeInv'
  OBVIOUS
<1>a. /\ command \in {1, 2} /\ retries \in Nat /\ MaxRetries \in Nat /\ noise \in Nat
      /\ received \in Seq(Response) /\ pending \in Seq(CommandNames)
  BY TwoCommands, RetriesAssumption, NoiseAssumption DEF TypeInv, TypeOK, Response
<1>. USE DEF TypeInv, TypeOK, TryIsLeft
<1>1. CASE WriteCommand
  <2>1. Commands[command] \in CommandNames
    BY <1>a, TwoCommands
  <2>2. pending' \in Seq(CommandNames)
    BY <1>1, <1>a, <2>1, AppendAmong DEF WriteCommand
  <2>3. QED
    BY <1>1, <2>2 DEF WriteCommand
<1>2. CASE ResponseOk
  <2>1. received' \in Seq(Response)
    BY <1>2, <1>a, TailAmong DEF ResponseOk
  <2>2. command' \in 1..Len(Commands)
    BY <1>2, <1>a, TwoCommands DEF ResponseOk
  <2>3. retries' \in 0..MaxRetries /\ retries' < MaxRetries
    BY <1>2, RetriesAssumption DEF ResponseOk
  <2>4. QED
    BY <1>2, <2>1, <2>2, <2>3 DEF ResponseOk, Response
<1>3. CASE ResponseNotOk
  <2>1. received' \in Seq(Response)
    BY <1>3, <1>a, TailAmong DEF ResponseNotOk
  <2>2. retries' \in 0..MaxRetries /\ (state' # "gave_up" => retries' < MaxRetries)
    BY <1>3, <1>a DEF ResponseNotOk
  <2>3. QED
    BY <1>3, <2>1, <2>2 DEF ResponseNotOk, Response
<1>4. ASSUME NEW r \in Response, Answers(r)
      PROVE  received' \in Seq(Response) /\ pending' \in Seq(CommandNames) /\ Head(pending) \in CommandNames
  BY <1>4, <1>a, AppendAmong, TailAmong DEF Answers
<1>5. CASE Executes
  <2>1. Answers("OK") /\ "OK" \in Response
    BY <1>5 DEF Executes, Response
  <2>2. received' \in Seq(Response) /\ pending' \in Seq(CommandNames) /\ Head(pending) \in CommandNames
    BY <1>4, <2>1
  <2>3. QED
    BY <1>5, <2>2 DEF Executes, Answers, Response
<1>6. CASE Refuses
  <2>1. Answers("ERROR") /\ "ERROR" \in Response
    BY <1>6 DEF Refuses, Response
  <2>2. received' \in Seq(Response) /\ pending' \in Seq(CommandNames)
    BY <1>4, <2>1
  <2>3. QED
    BY <1>6, <2>2 DEF Refuses, Answers, Response
<1>7. CASE ForwardsBus
  <2>1. received' \in Seq(Response)
    BY <1>7, <1>a, AppendAmong DEF ForwardsBus, Response
  <2>2. noise' \in 0..MaxNoise
    BY <1>7, <1>a, NoiseAssumption DEF ForwardsBus
  <2>3. QED
    BY <1>7, <2>1, <2>2 DEF ForwardsBus, Response
<1>8. CASE FallsSilent
  BY <1>8 DEF FallsSilent
<1>9. CASE UNCHANGED vars
  BY <1>9 DEF vars
<1>10. QED
  BY <1>1, <1>2, <1>3, <1>5, <1>6, <1>7, <1>8, <1>9 DEF Next, ParserStep

LEMMA TypeInvIsInvariant == Spec => []TypeInv
BY InitTypeInv, NextTypeInv, PTL DEF Spec

\* The parser never tries a command more than max_retries times, and never goes
\* past the last command.
THEOREM TypeCorrect == Spec => []TypeOK
<1>1. TypeInv => TypeOK
  BY DEF TypeInv
<1>2. QED
  BY <1>1, TypeInvIsInvariant, PTL
-----------------------------------------------------------------------------
LEMMA InitOkInv == Init => OkInv
<1> SUFFICES ASSUME Init PROVE OkInv
  OBVIOUS
<1>1. Len(received) = 0 /\ Len(pending) = 0
  BY EmptySeq DEF Init
<1>2. QED
  BY <1>1 DEF Init, OkInv, FirstOkIsReal, SecondOkIsReal, OneUnderWay, Among

LEMMA FirstOkInductive == TypeInv /\ FirstOkIsReal /\ [Next]_vars => FirstOkIsReal'
<1> SUFFICES ASSUME TypeInv, FirstOkIsReal, [Next]_vars PROVE FirstOkIsReal'
  OBVIOUS
<1>a. /\ command \in {1, 2}
      /\ received \in Seq(Response) /\ pending \in Seq(CommandNames)
  BY TwoCommands DEF TypeInv, TypeOK, Response
<1>b. FirstOkIsReal <=>
        IF command = 1
        THEN /\ state # "ok"
             /\ \A x : Among(x, pending) => x = "AT+CG"
             /\ Among("OK", received) => "AT+CG" \in executed
        ELSE "AT+CG" \in executed
  BY OnlyAmong DEF FirstOkIsReal
<1>c. FirstOkIsReal' <=>
        IF command' = 1
        THEN /\ state' # "ok"
             /\ \A x : Among(x, pending') => x = "AT+CG"
             /\ Among("OK", received') => "AT+CG" \in executed'
        ELSE "AT+CG" \in executed'
  BY OnlyAmong DEF FirstOkIsReal
<1>1. CASE WriteCommand
  <2>1. command = 1 => Commands[command] = "AT+CG"
    BY TwoCommands
  <2>2. Commands[command] \in CommandNames
    BY <1>a, TwoCommands
  <2>3. \A x : Among(x, pending') => x = Commands[command] \/ Among(x, pending)
    BY <1>1, <1>a, <2>2, AppendAmong DEF WriteCommand
  <2>4. QED
    BY <1>1, <1>b, <1>c, <2>1, <2>3 DEF WriteCommand
<1>2. CASE ResponseOk
  <2>1. Among("OK", received)
    BY <1>2, <1>a, TailAmong DEF ResponseOk
  <2>2. "AT+CG" \in executed
    BY <1>b, <2>1
  <2>3. command' # 1 /\ executed' = executed
    BY <1>2, <1>a, TwoCommands DEF ResponseOk
  <2>4. QED
    BY <1>c, <2>2, <2>3
<1>3. CASE ResponseNotOk
  <2>1. Among("OK", received') => Among("OK", received)
    BY <1>3, <1>a, TailAmong DEF ResponseNotOk
  <2>2. state' # "ok"
    BY <1>3 DEF ResponseNotOk
  <2>3. QED
    BY <1>3, <1>b, <1>c, <2>1, <2>2 DEF ResponseNotOk
<1>4. ASSUME NEW r \in Response, Answers(r)
      PROVE  /\ Among(Head(pending), pending)
             /\ \A x : Among(x, pending') => Among(x, pending)
             /\ \A x : Among(x, received') => x = r \/ Among(x, received)
  BY <1>4, <1>a, AppendAmong, TailAmong DEF Answers
<1>5. CASE Executes
  <2>1. "OK" \in Response /\ Answers("OK")
    BY <1>5 DEF Executes, Response
  <2>2. Among(Head(pending), pending) /\ \A x : Among(x, pending') => Among(x, pending)
    BY <1>4, <2>1
  <2>3. QED
    BY <1>5, <1>b, <1>c, <2>2 DEF Executes, Answers
<1>6. CASE Refuses
  <2>1. "ERROR" \in Response /\ Answers("ERROR")
    BY <1>6 DEF Refuses, Response
  <2>2. /\ \A x : Among(x, pending') => Among(x, pending)
        /\ Among("OK", received') => Among("OK", received)
    BY <1>4, <2>1
  <2>3. QED
    BY <1>6, <1>b, <1>c, <2>2 DEF Refuses, Answers
<1>7. CASE ForwardsBus
  <2>1. Among("OK", received') => Among("OK", received)
    BY <1>7, <1>a, AppendAmong DEF ForwardsBus, Response
  <2>2. QED
    BY <1>7, <1>b, <1>c, <2>1 DEF ForwardsBus
<1>8. CASE FallsSilent
  BY <1>8, <1>b, <1>c DEF FallsSilent
<1>9. CASE UNCHANGED vars
  BY <1>9, <1>b, <1>c DEF vars
<1>10. QED
  BY <1>1, <1>2, <1>3, <1>5, <1>6, <1>7, <1>8, <1>9 DEF Next, ParserStep

LEMMA SecondOkInductive == TypeInv /\ SecondOkIsReal /\ [Next]_vars => SecondOkIsReal'
<1> SUFFICES ASSUME TypeInv, SecondOkIsReal, [Next]_vars, noise' = 0
             PROVE  SecondOkIsReal'
  BY DEF SecondOkIsReal
<1> DEFINE r == Len(received)
           q == Len(pending)
           r2 == Len(received')
           q2 == Len(pending')
<1>. HIDE DEF r, q, r2, q2
<1>a. /\ command \in {1, 2} /\ noise \in Nat
      /\ received \in Seq(Response) /\ pending \in Seq(CommandNames)
      /\ r \in Nat /\ q \in Nat
  BY TwoCommands, LenProperties, NoiseAssumption DEF TypeInv, TypeOK, Response, r, q
<1>b. noise = 0
  <2>1. noise' = noise \/ noise' = noise + 1
    BY DEF Next, ParserStep, WriteCommand, ResponseOk, ResponseNotOk, Executes, Refuses,
           Answers, ForwardsBus, FallsSilent, vars
  <2>2. QED
    BY <1>a, <2>1
<1>c. /\ r + q = IF state = "read" THEN 1 ELSE 0
      /\ command = 2 =>
           /\ \A x : Among(x, pending) => x = "AT+AT"
           /\ Among("OK", received) => "AT+AT" \in executed
           /\ state = "ok" => "AT+AT" \in executed
  BY <1>b, OnlyAmong DEF SecondOkIsReal, OneUnderWay, r, q
<1>d. SUFFICES
      /\ r2 + q2 = IF state' = "read" THEN 1 ELSE 0
      /\ command' = 2 =>
           /\ \A x : Among(x, pending') => x = "AT+AT"
           /\ Among("OK", received') => "AT+AT" \in executed'
           /\ state' = "ok" => "AT+AT" \in executed'
  BY OnlyAmong DEF SecondOkIsReal, OneUnderWay, r2, q2
<1>1. CASE WriteCommand
  <2>1. /\ command = 2 => Commands[command] = "AT+AT"
        /\ Commands[command] \in CommandNames
    BY <1>a, TwoCommands
  <2>2. /\ \A x : Among(x, pending') => x = Commands[command] \/ Among(x, pending)
        /\ q2 = q + 1
    BY <1>1, <1>a, <2>1, AppendAmong DEF WriteCommand, q, q2
  <2>3. r2 = r /\ state = "write" /\ state' = "read"
    BY <1>1 DEF WriteCommand, r, r2
  <2>4. r2 + q2 = 1
    BY <1>a, <1>c, <2>2, <2>3
  <2>5. QED
    BY <1>1, <1>c, <2>1, <2>2, <2>3, <2>4 DEF WriteCommand
<1>2. ASSUME state = "read", received # <<>>, received' = Tail(received), pending' = pending
      PROVE  /\ Among(Head(received), received) /\ r2 + q2 = 0
             /\ \A x : ~Among(x, pending') /\ ~Among(x, received')
  <2>1. /\ Among(Head(received), received) /\ r2 = r - 1
        /\ r # 0
    BY <1>2, <1>a, TailAmong, EmptySeq DEF r, r2
  <2>2. q2 = q
    BY <1>2 DEF q, q2
  <2>3. r2 = 0 /\ q2 = 0
    BY <1>2, <1>a, <1>c, <2>1, <2>2
  <2>4. Len(pending') = 0 /\ Len(received') = 0
    BY <2>3 DEF r2, q2
  <2>5. QED
    BY <2>1, <2>3, <2>4 DEF Among
<1>3. CASE ResponseOk
  <2>1. /\ Among("OK", received) /\ r2 + q2 = 0
        /\ \A x : ~Among(x, pending') /\ ~Among(x, received')
    BY <1>2, <1>3 DEF ResponseOk
  <2>2. state' # "read" /\ (state' = "ok" => command = 2) /\ executed' = executed
    BY <1>3, <1>a, TwoCommands DEF ResponseOk
  <2>3. QED
    BY <1>c, <2>1, <2>2
<1>4. CASE ResponseNotOk
  <2>1. /\ r2 + q2 = 0
        /\ \A x : ~Among(x, pending') /\ ~Among(x, received')
    BY <1>2, <1>4 DEF ResponseNotOk
  <2>2. state' \notin {"read", "ok"}
    BY <1>4 DEF ResponseNotOk
  <2>3. QED
    BY <2>1, <2>2
<1>5. ASSUME NEW e \in Response, Answers(e)
      PROVE  /\ Among(Head(pending), pending) /\ r2 + q2 = r + q
             /\ UNCHANGED <<command, state>>
             /\ \A x : Among(x, pending') => Among(x, pending)
             /\ \A x : Among(x, received') => x = e \/ Among(x, received)
  <2>1. /\ Among(Head(pending), pending) /\ q2 = q - 1
        /\ \A x : Among(x, pending') => Among(x, pending)
    BY <1>5, <1>a, TailAmong DEF Answers, q, q2
  <2>2. /\ r2 = r + 1
        /\ \A x : Among(x, received') => x = e \/ Among(x, received)
    BY <1>5, <1>a, AppendAmong DEF Answers, r, r2
  <2>3. r2 + q2 = r + q
    BY <1>a, <2>1, <2>2
  <2>4. QED
    BY <1>5, <2>1, <2>2, <2>3 DEF Answers
<1>6. CASE Executes
  <2>1. "OK" \in Response /\ Answers("OK")
    BY <1>6 DEF Executes, Response
  <2>2. /\ Among(Head(pending), pending) /\ r2 + q2 = r + q
        /\ UNCHANGED <<command, state>>
        /\ \A x : Among(x, pending') => Among(x, pending)
    BY <1>5, <2>1
  <2>3. command = 2 => Head(pending) = "AT+AT"
    BY <1>c, <2>2
  <2>4. QED
    BY <1>6, <1>c, <2>2, <2>3 DEF Executes
<1>7. CASE Refuses
  <2>1. "ERROR" \in Response /\ Answers("ERROR")
    BY <1>7 DEF Refuses, Response
  <2>2. /\ r2 + q2 = r + q /\ UNCHANGED <<command, state>>
        /\ \A x : Among(x, pending') => Among(x, pending)
        /\ Among("OK", received') => Among("OK", received)
    BY <1>5, <2>1
  <2>3. QED
    BY <1>7, <1>c, <2>2 DEF Refuses
<1>8. CASE ForwardsBus
  <2>1. noise' = noise + 1
    BY <1>8 DEF ForwardsBus
  <2>2. QED
    BY <1>a, <2>1
<1>9. CASE FallsSilent
  BY <1>9, <1>c DEF FallsSilent, r, q, r2, q2
<1>10. CASE UNCHANGED vars
  BY <1>10, <1>c DEF vars, r, q, r2, q2
<1>11. QED
  BY <1>1, <1>3, <1>4, <1>6, <1>7, <1>8, <1>9, <1>10 DEF Next, ParserStep

\* However many tries are refused or repeated: the parser goes on to AT+AT only
\* after AT+CG was executed, with any forwarded traffic; it ends well only after
\* both were executed if no traffic was forwarded.
THEOREM OkMeansExecutedHolds == Spec => []OkMeansExecuted
<1>1. TypeInv /\ OkInv => OkMeansExecuted
  BY TwoCommands DEF TypeInv, TypeOK, OkInv, FirstOkIsReal, SecondOkIsReal, OkMeansExecuted
<1>2. TypeInv /\ OkInv /\ [Next]_vars => OkInv'
  BY FirstOkInductive, SecondOkInductive DEF OkInv
<1>3. QED
  BY <1>1, <1>2, InitOkInv, TypeInvIsInvariant, PTL DEF Spec
=============================================================================
