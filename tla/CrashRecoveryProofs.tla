------------------------ MODULE CrashRecoveryProofs ------------------------
(***************************************************************************)
(* What holds of a session that is killed and recovered, for every set of    *)
(* calls and every bound on turns, steps and kills.  Whatever prefix of the  *)
(* log survives, the repair's scan and the session's rules see the same in   *)
(* it; so the closers are legal, one after the other, wherever the next kill *)
(* cuts them off, and every call keeps exactly one result.                   *)
(***************************************************************************)
EXTENDS CrashRecovery, SequenceTheorems, FiniteSetTheorems, TLAPS

-----------------------------------------------------------------------------
(* What the rules, the scan and the model's questions of a log become when   *)
(* one more event is appended.                                               *)

Pendings == [call : Calls, step : 0..MaxSteps, state : {"asked", "recorded"}]

Scans == [openTurn : 0..MaxTurns, openStep : 0..MaxSteps, pendingCalls : Seq(Pendings)]

Traces == [openTurn : 0..MaxTurns, openStep : 0..MaxSteps,
           nextTurn : Nat \ {0}, nextStep : Nat \ {0},
           calls : SUBSET Calls, legal : BOOLEAN]

\* The rules' trace and the scan go on by one event.
LEMMA FoldsAppend ==
    ASSUME NEW events \in Seq(Events), NEW e \in Events
    PROVE  /\ Rules(Append(events, e)) = Observe(Rules(events), e)
           /\ Scan(Append(events, e)) = ScanEvent(Scan(events), e)
<1>1. Rules(Append(events, e)) = Observe(Rules(events), e)
  BY Checking!FoldAppend, Zenon DEF Rules
<1>2. Scan(Append(events, e)) = ScanEvent(Scan(events), e)
  BY Scanning!FoldAppend, Zenon DEF Scan
<1> QED BY <1>1, <1>2

\* They start from the empty log.
LEMMA FoldsEmpty == Rules(<<>>) = FreshTrace /\ Scan(<<>>) = FreshScan
<1>1. Rules(<<>>) = FreshTrace
  BY Checking!FoldEmpty, Zenon DEF Rules
<1>2. Scan(<<>>) = FreshScan
  BY Scanning!FoldEmpty, Zenon DEF Scan
<1> QED BY <1>1, <1>2

\* Positions of a log with one more event.
LEMMA AppendPositions ==
    ASSUME NEW events \in Seq(Events), NEW e \in Events
    PROVE  /\ Append(events, e) \in Seq(Events)
           /\ Len(events) \in Nat /\ Len(Append(events, e)) = Len(events) + 1
           /\ DOMAIN events = 1..Len(events)
           /\ DOMAIN Append(events, e) = DOMAIN events \cup {Len(events) + 1}
           /\ Append(events, e)[Len(events) + 1] = e
           /\ \A i \in DOMAIN events : Append(events, e)[i] = events[i]
           /\ Len(events) + 1 \notin DOMAIN events
           /\ \A i \in DOMAIN events : i < Len(events) + 1
OBVIOUS

\* Only an assistant's message asks for calls.
LEMMA AskedAppend ==
    ASSUME NEW events \in Seq(Events), NEW e \in Events
    PROVE  AskedIn(Append(events, e)) =
             AskedIn(events) \cup (IF e.type = "assistant/message" THEN Range(e.calls) ELSE {})
<1>. DEFINE longer == Append(events, e)
<1>1. /\ DOMAIN longer = DOMAIN events \cup {Len(events) + 1}
      /\ longer[Len(events) + 1] = e
      /\ \A i \in DOMAIN events : longer[i] = events[i]
  BY AppendPositions
<1>. HIDE DEF longer
<1>2. AskedIn(longer) =
        AskedIn(events) \cup (IF e.type = "assistant/message" THEN Range(e.calls) ELSE {})
  BY <1>1 DEF AskedIn
<1> QED BY <1>2 DEF longer

\* Only a result answers.
LEMMA ResultsAppend ==
    ASSUME NEW events \in Seq(Events), NEW e \in Events, NEW call
    PROVE  ResultsOf(Append(events, e), call) =
             ResultsOf(events, call) \cup (IF IsResultOf(e, call) THEN {Len(events) + 1} ELSE {})
<1>. DEFINE longer == Append(events, e)
<1>1. /\ DOMAIN longer = DOMAIN events \cup {Len(events) + 1}
      /\ longer[Len(events) + 1] = e
      /\ \A i \in DOMAIN events : longer[i] = events[i]
  BY AppendPositions
<1>. HIDE DEF longer
<1>2. ResultsOf(longer, call) =
        ResultsOf(events, call) \cup (IF IsResultOf(e, call) THEN {Len(events) + 1} ELSE {})
  BY <1>1 DEF ResultsOf
<1> QED BY <1>2 DEF longer

\* Only its own event records a call.
LEMMA RecordedAppend ==
    ASSUME NEW events \in Seq(Events), NEW e \in Events, NEW call
    PROVE  Recorded(Append(events, e), call) <=>
             Recorded(events, call) \/ e = ToolCall(e.turn, e.step, call)
<1>. DEFINE longer == Append(events, e)
<1>1. /\ DOMAIN longer = DOMAIN events \cup {Len(events) + 1}
      /\ longer[Len(events) + 1] = e
      /\ \A i \in DOMAIN events : longer[i] = events[i]
  BY AppendPositions
<1>. HIDE DEF longer
<1>2. Recorded(longer, call) <=>
        Recorded(events, call) \/ e = ToolCall(e.turn, e.step, call)
  BY <1>1 DEF Recorded
<1> QED BY <1>2 DEF longer

\* A bounded set of numbers has a greatest.
LEMMA Greatest ==
    ASSUME NEW len \in Nat, NEW S \in SUBSET (0..len), S # {}
    PROVE  \E i \in S : \A j \in S : j <= i
<1>. DEFINE Back == {n \in Nat : len - n \in S}
<1>1. Back # {}
  <2>1. PICK i \in S : TRUE
    OBVIOUS
  <2>2. len - i \in Nat /\ len - (len - i) = i
    BY <2>1
  <2> QED BY <2>2
<1>2. PICK m \in Back : \A k \in Back : ~(k < m)
  <2>1. Back \in SUBSET Nat
    OBVIOUS
  <2>. HIDE DEF Back
  <2> QED BY <1>1, <2>1, Checking!Least
<1>3. ASSUME NEW j \in S PROVE j <= len - m
  <2>1. j \in Nat /\ j <= len /\ len - j \in Nat /\ len - (len - j) = j
    OBVIOUS
  <2>2. len - j \in Back
    BY <2>1
  <2> QED BY <1>2, <2>1, <2>2
<1> QED BY <1>2, <1>3

\* A log with a turn has a last one.
LEMMA LastTurnExists ==
    ASSUME NEW events \in Seq(Events), TurnStarts(events) # {}
    PROVE  \E i \in TurnStarts(events) : \A j \in TurnStarts(events) : j <= i
<1>1. Len(events) \in Nat /\ TurnStarts(events) \in SUBSET (0..Len(events))
  BY DEF TurnStarts
<1> QED BY <1>1, Greatest

\* A turn that starts is the last one.
LEMMA LastTurnAppend ==
    ASSUME NEW events \in Seq(Events), NEW e \in Events
    PROVE  LastTurn(Append(events, e)) =
             IF e.type = "turn/start" THEN e.turn ELSE LastTurn(events)
<1>. DEFINE longer == Append(events, e)
<1>1. /\ DOMAIN longer = DOMAIN events \cup {Len(events) + 1}
      /\ longer[Len(events) + 1] = e
      /\ \A i \in DOMAIN events : longer[i] = events[i]
      /\ \A i \in DOMAIN events : i < Len(events) + 1
      /\ Len(events) \in Nat /\ DOMAIN events \subseteq Nat
  BY AppendPositions
<1>. HIDE DEF longer
<1>2. CASE e.type = "turn/start"
  <2>1. TurnStarts(longer) = TurnStarts(events) \cup {Len(events) + 1}
    BY <1>1, <1>2 DEF TurnStarts
  <2>2. \A i \in TurnStarts(events) : i < Len(events) + 1 /\ i \in Nat
    BY <1>1 DEF TurnStarts
  <2>. DEFINE IsLast(i) == i \in TurnStarts(longer) /\ \A j \in TurnStarts(longer) : j <= i
  <2>3. ASSUME NEW i, IsLast(i) PROVE i = Len(events) + 1
    <3>1. Len(events) + 1 <= i
      BY <2>1, <2>3
    <3>2. i \in TurnStarts(events) \/ i = Len(events) + 1
      BY <2>1, <2>3
    <3> QED BY <1>1, <2>2, <3>1, <3>2
  <2>5. IsLast(Len(events) + 1)
    BY <1>1, <2>1, <2>2
  <2>4. (CHOOSE i \in TurnStarts(longer) : \A j \in TurnStarts(longer) : j <= i)
          = Len(events) + 1
    BY <2>3, <2>5
  <2>6. TurnStarts(longer) # {}
    BY <2>1
  <2>7. LastTurn(longer) = longer[Len(events) + 1].turn
    BY <2>4, <2>6 DEF LastTurn
  <2> QED BY <1>1, <1>2, <2>7 DEF longer
<1>3. CASE e.type # "turn/start"
  <2>1. TurnStarts(longer) = TurnStarts(events)
    BY <1>1, <1>3 DEF TurnStarts
  <2>2. CASE TurnStarts(events) = {}
    BY <1>3, <2>1, <2>2 DEF LastTurn, longer
  <2>3. CASE TurnStarts(events) # {}
    <3>. DEFINE i == CHOOSE k \in TurnStarts(events) : \A j \in TurnStarts(events) : j <= k
    <3>1. i \in TurnStarts(events)
      BY <2>3, LastTurnExists
    <3>2. longer[i] = events[i]
      BY <1>1, <3>1 DEF TurnStarts
    <3>3. LastTurn(longer) = longer[i].turn /\ LastTurn(events) = events[i].turn
      BY <2>1, <2>3, Zenon DEF LastTurn
    <3> QED BY <1>3, <3>2, <3>3 DEF longer
  <2> QED BY <2>2, <2>3
<1> QED BY <1>2, <1>3

-----------------------------------------------------------------------------
(* What each event does to the trace of a log it may follow. *)

\* turn/start opens the turn and restarts the step numbering.
LEMMA ObserveTurnStart ==
    ASSUME NEW t \in Traces, t.legal, NEW n \in 1..MaxTurns,
           t.openTurn = 0, n = t.nextTurn
    PROVE  LET r == Observe(t, TurnStart(n)) IN
           /\ r \in Traces /\ r.legal
           /\ r.openTurn = n /\ r.openStep = t.openStep
           /\ r.nextTurn = t.nextTurn /\ r.nextStep = 1
           /\ r.calls = t.calls
<1>. DEFINE e == TurnStart(n)
<1>1. e.type = "turn/start" /\ e.turn = n
  BY DEF TurnStart, Event
<1>. HIDE DEF e
<1>2. Advance(t, e) =
        [openTurn |-> n, openStep |-> t.openStep,
         nextTurn |-> t.nextTurn, nextStep |-> 1,
         calls |-> t.calls, legal |-> t.legal]
  <2>1. Advance(t, e) = [t EXCEPT !.openTurn = n, !.nextStep = 1]
    BY <1>1 DEF Advance
  <2> QED BY <2>1 DEF Traces
<1>3. t.legal /\ Legal(t, e)
  BY <1>1 DEF Legal, InOpenStep
<1>4. Observe(t, e) =
        [openTurn |-> n, openStep |-> t.openStep,
         nextTurn |-> t.nextTurn, nextStep |-> 1,
         calls |-> t.calls, legal |-> t.legal /\ Legal(t, e)]
  BY <1>2 DEF Observe
<1>. DEFINE r == Observe(t, e)
<1>5. r.legal
  <2>1. r.legal = (t.legal /\ Legal(t, e))
    BY <1>4
  <2> QED BY <1>3, <2>1, Zenon
<1>6. /\ r.openTurn = n /\ r.openStep = t.openStep
      /\ r.nextTurn = t.nextTurn /\ r.nextStep = 1
      /\ r.calls = t.calls
  BY <1>4
<1>7. r \in Traces
  BY <1>3, <1>4, BoundsArePositive DEF Traces
<1> QED BY <1>5, <1>6, <1>7 DEF e

\* turn/end closes the turn and counts it.
LEMMA ObserveTurnEnd ==
    ASSUME NEW t \in Traces, t.legal, NEW n,
           t.openTurn = n, t.openStep = 0
    PROVE  LET r == Observe(t, TurnEnd(n)) IN
           /\ r \in Traces /\ r.legal
           /\ r.openTurn = 0 /\ r.openStep = t.openStep
           /\ r.nextTurn = t.nextTurn + 1 /\ r.nextStep = t.nextStep
           /\ r.calls = t.calls
<1>. DEFINE e == TurnEnd(n)
<1>1. e.type = "turn/end" /\ e.turn = n
  BY DEF TurnEnd, Event
<1>. HIDE DEF e
<1>2. Advance(t, e) =
        [openTurn |-> 0, openStep |-> t.openStep,
         nextTurn |-> t.nextTurn + 1, nextStep |-> t.nextStep,
         calls |-> t.calls, legal |-> t.legal]
  <2>1. Advance(t, e) = [t EXCEPT !.openTurn = 0, !.nextTurn = @ + 1]
    BY <1>1 DEF Advance
  <2> QED BY <2>1 DEF Traces
<1>3. t.legal /\ Legal(t, e)
  BY <1>1 DEF Legal, InOpenStep
<1>4. Observe(t, e) =
        [openTurn |-> 0, openStep |-> t.openStep,
         nextTurn |-> t.nextTurn + 1, nextStep |-> t.nextStep,
         calls |-> t.calls, legal |-> t.legal /\ Legal(t, e)]
  BY <1>2 DEF Observe
<1>. DEFINE r == Observe(t, e)
<1>5. r.legal
  <2>1. r.legal = (t.legal /\ Legal(t, e))
    BY <1>4
  <2> QED BY <1>3, <2>1, Zenon
<1>6. /\ r.openTurn = 0 /\ r.openStep = t.openStep
      /\ r.nextTurn = t.nextTurn + 1 /\ r.nextStep = t.nextStep
      /\ r.calls = t.calls
  BY <1>4
<1>7. r \in Traces
  BY <1>3, <1>4, BoundsArePositive DEF Traces
<1> QED BY <1>5, <1>6, <1>7 DEF e

\* step/start opens the step.
LEMMA ObserveStepStart ==
    ASSUME NEW t \in Traces, t.legal, NEW n, NEW k \in 1..MaxSteps,
           t.openTurn = n, t.openStep = 0, k = t.nextStep
    PROVE  LET r == Observe(t, StepStart(n, k)) IN
           /\ r \in Traces /\ r.legal
           /\ r.openTurn = t.openTurn /\ r.openStep = k
           /\ r.nextTurn = t.nextTurn /\ r.nextStep = t.nextStep
           /\ r.calls = t.calls
<1>. DEFINE e == StepStart(n, k)
<1>1. e.type = "step/start" /\ e.turn = n /\ e.step = k
  BY DEF StepStart, Event
<1>. HIDE DEF e
<1>2. Advance(t, e) =
        [openTurn |-> t.openTurn, openStep |-> k,
         nextTurn |-> t.nextTurn, nextStep |-> t.nextStep,
         calls |-> t.calls, legal |-> t.legal]
  <2>1. Advance(t, e) = [t EXCEPT !.openStep = k]
    BY <1>1 DEF Advance
  <2> QED BY <2>1 DEF Traces
<1>3. t.legal /\ Legal(t, e)
  BY <1>1 DEF Legal, InOpenStep
<1>4. Observe(t, e) =
        [openTurn |-> t.openTurn, openStep |-> k,
         nextTurn |-> t.nextTurn, nextStep |-> t.nextStep,
         calls |-> t.calls, legal |-> t.legal /\ Legal(t, e)]
  BY <1>2 DEF Observe
<1>. DEFINE r == Observe(t, e)
<1>5. r.legal
  <2>1. r.legal = (t.legal /\ Legal(t, e))
    BY <1>4
  <2> QED BY <1>3, <2>1, Zenon
<1>6. /\ r.openTurn = t.openTurn /\ r.openStep = k
      /\ r.nextTurn = t.nextTurn /\ r.nextStep = t.nextStep
      /\ r.calls = t.calls
  BY <1>4
<1>7. r \in Traces
  BY <1>3, <1>4, BoundsArePositive DEF Traces
<1> QED BY <1>5, <1>6, <1>7 DEF e

\* step/end closes the step, counts it and forgets its calls.
LEMMA ObserveStepEnd ==
    ASSUME NEW t \in Traces, t.legal, NEW n, NEW k,
           t.openTurn = n, t.openStep = k
    PROVE  LET r == Observe(t, StepEnd(n, k)) IN
           /\ r \in Traces /\ r.legal
           /\ r.openTurn = t.openTurn /\ r.openStep = 0
           /\ r.nextTurn = t.nextTurn /\ r.nextStep = t.nextStep + 1
           /\ r.calls = {}
<1>. DEFINE e == StepEnd(n, k)
<1>1. e.type = "step/end" /\ e.turn = n /\ e.step = k
  BY DEF StepEnd, Event
<1>. HIDE DEF e
<1>2. Advance(t, e) =
        [openTurn |-> t.openTurn, openStep |-> 0,
         nextTurn |-> t.nextTurn, nextStep |-> t.nextStep + 1,
         calls |-> {}, legal |-> t.legal]
  <2>1. Advance(t, e) = [t EXCEPT !.openStep = 0, !.nextStep = @ + 1, !.calls = {}]
    BY <1>1 DEF Advance
  <2> QED BY <2>1 DEF Traces
<1>3. t.legal /\ Legal(t, e)
  BY <1>1 DEF Legal, InOpenStep
<1>4. Observe(t, e) =
        [openTurn |-> t.openTurn, openStep |-> 0,
         nextTurn |-> t.nextTurn, nextStep |-> t.nextStep + 1,
         calls |-> {}, legal |-> t.legal /\ Legal(t, e)]
  BY <1>2 DEF Observe
<1>. DEFINE r == Observe(t, e)
<1>5. r.legal
  <2>1. r.legal = (t.legal /\ Legal(t, e))
    BY <1>4
  <2> QED BY <1>3, <2>1, Zenon
<1>6. /\ r.openTurn = t.openTurn /\ r.openStep = 0
      /\ r.nextTurn = t.nextTurn /\ r.nextStep = t.nextStep + 1
      /\ r.calls = {}
  BY <1>4
<1>7. r \in Traces
  BY <1>3, <1>4, BoundsArePositive DEF Traces
<1> QED BY <1>5, <1>6, <1>7 DEF e

\* An assistant's message must lie in the open step.
LEMMA ObserveAssistantMessage ==
    ASSUME NEW t \in Traces, t.legal, NEW n, NEW k, NEW calls,
           t.openTurn = n, t.openStep = k
    PROVE  LET r == Observe(t, AssistantMessage(n, k, calls)) IN
           /\ r \in Traces /\ r.legal
           /\ r.openTurn = t.openTurn /\ r.openStep = t.openStep
           /\ r.nextTurn = t.nextTurn /\ r.nextStep = t.nextStep
           /\ r.calls = t.calls
<1>. DEFINE e == AssistantMessage(n, k, calls)
<1>1. e.type = "assistant/message" /\ e.turn = n /\ e.step = k
  BY DEF AssistantMessage, Event
<1>. HIDE DEF e
<1>2. Advance(t, e) =
        [openTurn |-> t.openTurn, openStep |-> t.openStep,
         nextTurn |-> t.nextTurn, nextStep |-> t.nextStep,
         calls |-> t.calls, legal |-> t.legal]
  <2>1. Advance(t, e) = t
    BY <1>1 DEF Advance
  <2> QED BY <2>1 DEF Traces
<1>3. t.legal /\ Legal(t, e)
  BY <1>1 DEF Legal, InOpenStep
<1>4. Observe(t, e) =
        [openTurn |-> t.openTurn, openStep |-> t.openStep,
         nextTurn |-> t.nextTurn, nextStep |-> t.nextStep,
         calls |-> t.calls, legal |-> t.legal /\ Legal(t, e)]
  BY <1>2 DEF Observe
<1>. DEFINE r == Observe(t, e)
<1>5. r.legal
  <2>1. r.legal = (t.legal /\ Legal(t, e))
    BY <1>4
  <2> QED BY <1>3, <2>1, Zenon
<1>6. /\ r.openTurn = t.openTurn /\ r.openStep = t.openStep
      /\ r.nextTurn = t.nextTurn /\ r.nextStep = t.nextStep
      /\ r.calls = t.calls
  BY <1>4
<1>7. r \in Traces
  BY <1>3, <1>4, BoundsArePositive DEF Traces
<1> QED BY <1>5, <1>6, <1>7 DEF e

\* A recorded call is outstanding.
LEMMA ObserveToolCall ==
    ASSUME NEW t \in Traces, t.legal, NEW n, NEW k, NEW c \in Calls,
           t.openTurn = n, t.openStep = k
    PROVE  LET r == Observe(t, ToolCall(n, k, c)) IN
           /\ r \in Traces /\ r.legal
           /\ r.openTurn = t.openTurn /\ r.openStep = t.openStep
           /\ r.nextTurn = t.nextTurn /\ r.nextStep = t.nextStep
           /\ r.calls = t.calls \cup {c}
<1>. DEFINE e == ToolCall(n, k, c)
<1>1. e.type = "tool/call" /\ e.turn = n /\ e.step = k /\ Head(e.calls) = c
  BY DEF ToolCall, Event
<1>. HIDE DEF e
<1>2. Advance(t, e) =
        [openTurn |-> t.openTurn, openStep |-> t.openStep,
         nextTurn |-> t.nextTurn, nextStep |-> t.nextStep,
         calls |-> t.calls \cup {c}, legal |-> t.legal]
  <2>1. Advance(t, e) = [t EXCEPT !.calls = @ \cup {c}]
    BY <1>1 DEF Advance
  <2> QED BY <2>1 DEF Traces
<1>3. t.legal /\ Legal(t, e)
  BY <1>1 DEF Legal, InOpenStep
<1>4. Observe(t, e) =
        [openTurn |-> t.openTurn, openStep |-> t.openStep,
         nextTurn |-> t.nextTurn, nextStep |-> t.nextStep,
         calls |-> t.calls \cup {c}, legal |-> t.legal /\ Legal(t, e)]
  BY <1>2 DEF Observe
<1>. DEFINE r == Observe(t, e)
<1>5. r.legal
  <2>1. r.legal = (t.legal /\ Legal(t, e))
    BY <1>4
  <2> QED BY <1>3, <2>1, Zenon
<1>6. /\ r.openTurn = t.openTurn /\ r.openStep = t.openStep
      /\ r.nextTurn = t.nextTurn /\ r.nextStep = t.nextStep
      /\ r.calls = t.calls \cup {c}
  BY <1>4
<1>7. r \in Traces
  BY <1>3, <1>4, BoundsArePositive DEF Traces
<1> QED BY <1>5, <1>6, <1>7 DEF e

\* Its result answers it.
LEMMA ObserveToolResult ==
    ASSUME NEW t \in Traces, t.legal, NEW n, NEW k, NEW c \in Calls,
           t.openTurn = n, t.openStep = k, c \in t.calls
    PROVE  LET r == Observe(t, ToolResult(n, k, c)) IN
           /\ r \in Traces /\ r.legal
           /\ r.openTurn = t.openTurn /\ r.openStep = t.openStep
           /\ r.nextTurn = t.nextTurn /\ r.nextStep = t.nextStep
           /\ r.calls = t.calls \ {c}
<1>. DEFINE e == ToolResult(n, k, c)
<1>1. e.type = "tool/result" /\ e.turn = n /\ e.step = k /\ Head(e.calls) = c
  BY DEF ToolResult, Event
<1>. HIDE DEF e
<1>2. Advance(t, e) =
        [openTurn |-> t.openTurn, openStep |-> t.openStep,
         nextTurn |-> t.nextTurn, nextStep |-> t.nextStep,
         calls |-> t.calls \ {c}, legal |-> t.legal]
  <2>1. Advance(t, e) = [t EXCEPT !.calls = @ \ {c}]
    BY <1>1 DEF Advance
  <2> QED BY <2>1 DEF Traces
<1>3. t.legal /\ Legal(t, e)
  BY <1>1 DEF Legal, InOpenStep
<1>4. Observe(t, e) =
        [openTurn |-> t.openTurn, openStep |-> t.openStep,
         nextTurn |-> t.nextTurn, nextStep |-> t.nextStep,
         calls |-> t.calls \ {c}, legal |-> t.legal /\ Legal(t, e)]
  BY <1>2 DEF Observe
<1>. DEFINE r == Observe(t, e)
<1>5. r.legal
  <2>1. r.legal = (t.legal /\ Legal(t, e))
    BY <1>4
  <2> QED BY <1>3, <2>1, Zenon
<1>6. /\ r.openTurn = t.openTurn /\ r.openStep = t.openStep
      /\ r.nextTurn = t.nextTurn /\ r.nextStep = t.nextStep
      /\ r.calls = t.calls \ {c}
  BY <1>4
<1>7. r \in Traces
  BY <1>3, <1>4, BoundsArePositive DEF Traces
<1> QED BY <1>5, <1>6, <1>7 DEF e

\* A call that was never recorded can be answered too.
LEMMA ObserveNotStartedResult ==
    ASSUME NEW t \in Traces, t.legal, NEW n, NEW k, NEW c \in Calls,
           t.openTurn = n, t.openStep = k
    PROVE  LET r == Observe(t, NotStartedResult(n, k, c)) IN
           /\ r \in Traces /\ r.legal
           /\ r.openTurn = t.openTurn /\ r.openStep = t.openStep
           /\ r.nextTurn = t.nextTurn /\ r.nextStep = t.nextStep
           /\ r.calls = t.calls \ {c}
<1>. DEFINE e == NotStartedResult(n, k, c)
<1>1. e.type = "tool/not-started" /\ e.turn = n /\ e.step = k /\ Head(e.calls) = c
  BY DEF NotStartedResult, Event
<1>. HIDE DEF e
<1>2. Advance(t, e) =
        [openTurn |-> t.openTurn, openStep |-> t.openStep,
         nextTurn |-> t.nextTurn, nextStep |-> t.nextStep,
         calls |-> t.calls \ {c}, legal |-> t.legal]
  <2>1. Advance(t, e) = [t EXCEPT !.calls = @ \ {c}]
    BY <1>1 DEF Advance
  <2> QED BY <2>1 DEF Traces
<1>3. t.legal /\ Legal(t, e)
  BY <1>1 DEF Legal, InOpenStep
<1>4. Observe(t, e) =
        [openTurn |-> t.openTurn, openStep |-> t.openStep,
         nextTurn |-> t.nextTurn, nextStep |-> t.nextStep,
         calls |-> t.calls \ {c}, legal |-> t.legal /\ Legal(t, e)]
  BY <1>2 DEF Observe
<1>. DEFINE r == Observe(t, e)
<1>5. r.legal
  <2>1. r.legal = (t.legal /\ Legal(t, e))
    BY <1>4
  <2> QED BY <1>3, <2>1, Zenon
<1>6. /\ r.openTurn = t.openTurn /\ r.openStep = t.openStep
      /\ r.nextTurn = t.nextTurn /\ r.nextStep = t.nextStep
      /\ r.calls = t.calls \ {c}
  BY <1>4
<1>7. r \in Traces
  BY <1>3, <1>4, BoundsArePositive DEF Traces
<1> QED BY <1>5, <1>6, <1>7 DEF e

-----------------------------------------------------------------------------
(* Good logs: well-typed ones that recovery and the agent can go on from.    *)
(* Agree is ScanAgrees of what has been folded, with its types.              *)

Agree(t, scan, last) ==
    /\ t \in Traces /\ scan \in Scans /\ t.legal
    /\ scan.openTurn = t.openTurn /\ scan.openStep = t.openStep
    /\ t.openTurn \in {0, t.nextTurn} /\ (t.openTurn = 0 => t.openStep = 0)
    /\ last = IF t.openTurn = 0 THEN t.nextTurn - 1 ELSE t.openTurn
    /\ \A i \in DOMAIN scan.pendingCalls :
          scan.pendingCalls[i].step = t.openStep /\ t.openStep # 0
    /\ t.calls = {scan.pendingCalls[i].call : i \in
                    {j \in DOMAIN scan.pendingCalls : scan.pendingCalls[j].state = "recorded"}}

StepOpened(events) ==
    events # <<>> /\ Last(events).type = "step/start" =>
        Rules(events).openStep # 0 /\ Scan(events).pendingCalls = <<>>

Good(events, lost) ==
    /\ events \in Seq(Events)
    /\ Agree(Rules(events), Scan(events), LastTurn(events))
    /\ StepOpened(events)
    /\ CallsAccounted(events, lost)

\* A good log is one repair and rules agree on.
LEMMA GoodAgrees ==
    ASSUME NEW events, NEW lost, Good(events, lost)
    PROVE  ScanAgrees(events) /\ CallsAccounted(events, lost)
BY DEF Good, Agree, StepOpened, ScanAgrees

\* Events that neither ask for a call, record one nor answer one.
Neutral(e) == e.type \in {"turn/start", "turn/end", "step/start", "step/end"}

\* They change no answer about calls.
LEMMA NeutralAppend ==
    ASSUME NEW events \in Seq(Events), NEW e \in Events, Neutral(e)
    PROVE  LET longer == Append(events, e) IN
           /\ AskedIn(longer) = AskedIn(events)
           /\ \A call : ResultsOf(longer, call) = ResultsOf(events, call)
           /\ \A call : Recorded(longer, call) <=> Recorded(events, call)
<1>1. e.type # "assistant/message"
  BY DEF Neutral
<1>2. ASSUME NEW call PROVE ~IsResultOf(e, call)
  BY DEF Neutral, IsResultOf
<1>3. ASSUME NEW call PROVE e # ToolCall(e.turn, e.step, call)
  BY DEF Neutral, ToolCall, Event
<1>4. ASSUME NEW call PROVE ResultsOf(Append(events, e), call) = ResultsOf(events, call)
  BY <1>2, ResultsAppend
<1>5. ASSUME NEW call PROVE Recorded(Append(events, e), call) <=> Recorded(events, call)
  BY <1>3, RecordedAppend
<1>6. AskedIn(Append(events, e)) = AskedIn(events)
  BY <1>1, AskedAppend
<1> QED BY <1>4, <1>5, <1>6

\* Such an event keeps the calls accounted for, unless it drops pending ones that
\* are not lost.
LEMMA NeutralAccounted ==
    ASSUME NEW events \in Seq(Events), NEW e \in Events, Neutral(e),
           NEW lost, NEW more, lost \subseteq more, CallsAccounted(events, lost),
           \/ Scan(Append(events, e)).pendingCalls = Scan(events).pendingCalls
           \/ /\ Scan(Append(events, e)).pendingCalls = <<>>
              /\ {p.call : p \in Range(Scan(events).pendingCalls)} \subseteq more
    PROVE  CallsAccounted(Append(events, e), more)
<1>. DEFINE longer == Append(events, e)
            pending == Scan(events).pendingCalls
            after == Scan(longer).pendingCalls
<1>1. /\ AskedIn(longer) = AskedIn(events)
      /\ \A call : ResultsOf(longer, call) = ResultsOf(events, call)
      /\ \A call : Recorded(longer, call) <=> Recorded(events, call)
  BY NeutralAppend
<1>2. DOMAIN events \subseteq DOMAIN longer
  BY AppendPositions
<1>3. \A call \in AskedIn(events) \ (more \cup {p.call : p \in Range(pending)}) :
          \E i \in DOMAIN events : ResultsOf(events, call) = {i}
  BY DEF CallsAccounted
<1>4. DOMAIN after = {} \/ after = pending
  <2>1. DOMAIN <<>> = {}
    OBVIOUS
  <2> QED BY <2>1
<1>5. {p.call : p \in Range(pending)} \subseteq more \cup {p.call : p \in Range(after)}
  OBVIOUS
<1>6. \A i, j \in DOMAIN after : after[i].call = after[j].call => i = j
  BY <1>4 DEF CallsAccounted
<1>7. \A i \in DOMAIN after :
         /\ after[i].call \in AskedIn(events)
         /\ ResultsOf(events, after[i].call) = {}
         /\ Recorded(events, after[i].call) => after[i].state = "recorded"
  BY <1>4 DEF CallsAccounted
<1>8. \A call \in Calls \ AskedIn(events) :
         ResultsOf(events, call) = {} /\ ~Recorded(events, call)
  BY DEF CallsAccounted
<1>. HIDE DEF longer, pending, after
<1>9. \A call \in AskedIn(longer) \ (more \cup {p.call : p \in Range(after)}) :
          \E i \in DOMAIN longer : ResultsOf(longer, call) = {i}
  BY <1>1, <1>2, <1>3, <1>5
<1> QED BY <1>1, <1>6, <1>7, <1>8, <1>9 DEF CallsAccounted, longer, after

\* Where no step is open nothing is pending.
LEMMA NothingPending ==
    ASSUME NEW t, NEW scan, NEW last, Agree(t, scan, last), t.openStep = 0
    PROVE  scan.pendingCalls = <<>> /\ t.calls = {}
<1>1. scan.pendingCalls \in Seq(Pendings)
  BY DEF Agree, Scans
<1>2. DOMAIN scan.pendingCalls = {}
  BY DEF Agree
<1>3. scan.pendingCalls = <<>>
  <2>. DEFINE pending == scan.pendingCalls
  <2>. HIDE DEF pending
  <2>1. Len(pending) \in Nat /\ DOMAIN pending = 1..Len(pending)
    BY <1>1, LenProperties DEF pending
  <2>2. SUFFICES ASSUME pending # <<>> PROVE FALSE
    BY DEF pending
  <2>3. Len(pending) \in Nat \ {0}
    BY <1>1, <2>2, EmptySeq DEF pending
  <2> QED BY <1>2, <2>1, <2>3 DEF pending
<1> QED BY <1>2, <1>3 DEF Agree

-----------------------------------------------------------------------------
(* Turns and steps keep a log good. *)

\* A turn may open where none is open, with the next number.
LEMMA TurnOpens ==
    ASSUME NEW events, NEW lost, Good(events, lost), NEW n \in 1..MaxTurns,
           Rules(events).openTurn = 0, n = Rules(events).nextTurn
    PROVE  LET longer == Append(events, TurnStart(n)) IN
           /\ Good(longer, lost)
           /\ Scan(longer).pendingCalls = <<>>
           /\ Scan(longer).openTurn = n /\ Scan(longer).openStep = 0
           /\ LastTurn(longer) = n
<1>. DEFINE t == Rules(events)
            scan == Scan(events)
            e == TurnStart(n)
            longer == Append(events, e)
<1>1. events \in Seq(Events) /\ Agree(t, scan, LastTurn(events)) /\ CallsAccounted(events, lost)
  BY DEF Good
<1>2. t \in Traces /\ t.legal /\ scan \in Scans
  BY <1>1 DEF Agree
<1>3. /\ e \in Events /\ Neutral(e) /\ e.type = "turn/start" /\ e.turn = n
  BY <1>1, <1>2, BoundsArePositive DEF Agree, Traces, Events, TurnStart, Event, Neutral
<1>4. Rules(longer) = Observe(t, e) /\ Scan(longer) = ScanEvent(scan, e)
  BY <1>1, <1>3, FoldsAppend
<1>5. /\ Rules(longer) \in Traces /\ Rules(longer).legal
      /\ Rules(longer).openTurn = n /\ Rules(longer).openStep = t.openStep
      /\ Rules(longer).nextTurn = t.nextTurn /\ Rules(longer).calls = t.calls
  BY <1>1, <1>2, <1>4, ObserveTurnStart DEF Agree, Traces
<1>6. Scan(longer) = [openTurn |-> e.turn, openStep |-> 0, pendingCalls |-> <<>>]
  <2>. HIDE DEF e
  <2> QED BY <1>3, <1>4 DEF ScanEvent
<1>7. scan.pendingCalls = <<>> /\ t.calls = {}
  BY <1>1, NothingPending DEF Agree
<1>8. /\ Scan(longer) \in Scans /\ Scan(longer).pendingCalls = <<>>
      /\ Scan(longer).openTurn = n /\ Scan(longer).openStep = 0
  BY <1>1, <1>2, <1>3, <1>6, <1>7, BoundsArePositive DEF Scans, FreshScan, Agree, Traces
<1>9. LastTurn(longer) = n
  BY <1>1, <1>3, LastTurnAppend
<1>10. Rules(longer).calls = {}
  BY <1>5, <1>7
<1>11. DOMAIN Scan(longer).pendingCalls = {}
  BY <1>8
<1>12. Agree(Rules(longer), Scan(longer), LastTurn(longer))
  BY <1>1, <1>2, <1>5, <1>8, <1>9, <1>10, <1>11 DEF Agree, Traces
<1>13. longer \in Seq(Events) /\ Last(longer) = e
  BY <1>1, <1>3, AppendPositions DEF Last
<1>14. StepOpened(longer)
  <2>. HIDE DEF longer, e
  <2> QED BY <1>3, <1>5, <1>8, <1>13 DEF StepOpened
<1>15. CallsAccounted(longer, lost)
  BY <1>1, <1>3, <1>7, <1>8, NeutralAccounted
<1> QED BY <1>8, <1>9, <1>12, <1>13, <1>14, <1>15 DEF Good

\* The open turn may close once its step has.
LEMMA TurnCloses ==
    ASSUME NEW events, NEW lost, Good(events, lost), NEW n \in 1..MaxTurns,
           Rules(events).openTurn = n, Rules(events).openStep = 0
    PROVE  LET longer == Append(events, TurnEnd(n)) IN
           /\ Good(longer, lost)
           /\ Scan(longer).pendingCalls = <<>>
           /\ Scan(longer).openTurn = 0 /\ Scan(longer).openStep = 0
           /\ LastTurn(longer) = LastTurn(events)
<1>. DEFINE t == Rules(events)
            scan == Scan(events)
            e == TurnEnd(n)
            longer == Append(events, e)
<1>1. events \in Seq(Events) /\ Agree(t, scan, LastTurn(events)) /\ CallsAccounted(events, lost)
  BY DEF Good
<1>2. t \in Traces /\ t.legal /\ scan \in Scans
  BY <1>1 DEF Agree
<1>3. /\ e \in Events /\ Neutral(e) /\ e.type = "turn/end" /\ e.turn = n
  BY <1>1, <1>2, BoundsArePositive DEF Agree, Traces, Events, TurnEnd, Event, Neutral
<1>4. Rules(longer) = Observe(t, e) /\ Scan(longer) = ScanEvent(scan, e)
  BY <1>1, <1>3, FoldsAppend
<1>5. /\ Rules(longer) \in Traces /\ Rules(longer).legal
      /\ Rules(longer).openTurn = 0 /\ Rules(longer).openStep = t.openStep
      /\ Rules(longer).nextTurn = t.nextTurn + 1 /\ Rules(longer).calls = t.calls
  BY <1>1, <1>2, <1>4, ObserveTurnEnd DEF Agree, Traces
<1>6. Scan(longer) = FreshScan
  <2>. HIDE DEF e
  <2> QED BY <1>3, <1>4 DEF ScanEvent
<1>7. scan.pendingCalls = <<>> /\ t.calls = {}
  BY <1>1, NothingPending DEF Agree
<1>8. /\ Scan(longer) \in Scans /\ Scan(longer).pendingCalls = <<>>
      /\ Scan(longer).openTurn = 0 /\ Scan(longer).openStep = 0
  BY <1>1, <1>2, <1>3, <1>6, <1>7, BoundsArePositive DEF Scans, FreshScan, Agree, Traces
<1>9. LastTurn(longer) = LastTurn(events)
  BY <1>1, <1>3, LastTurnAppend
<1>10. Rules(longer).calls = {}
  BY <1>5, <1>7
<1>11. DOMAIN Scan(longer).pendingCalls = {}
  BY <1>8
<1>12. Agree(Rules(longer), Scan(longer), LastTurn(longer))
  BY <1>1, <1>2, <1>5, <1>8, <1>9, <1>10, <1>11 DEF Agree, Traces
<1>13. longer \in Seq(Events) /\ Last(longer) = e
  BY <1>1, <1>3, AppendPositions DEF Last
<1>14. StepOpened(longer)
  <2>. HIDE DEF longer, e
  <2> QED BY <1>3, <1>5, <1>8, <1>13 DEF StepOpened
<1>15. CallsAccounted(longer, lost)
  BY <1>1, <1>3, <1>7, <1>8, NeutralAccounted
<1> QED BY <1>8, <1>9, <1>12, <1>13, <1>14, <1>15 DEF Good

\* The next step may open in the open turn.
LEMMA StepOpens ==
    ASSUME NEW events, NEW lost, Good(events, lost), NEW n \in 1..MaxTurns, NEW k \in 1..MaxSteps,
           Rules(events).openTurn = n, Rules(events).openStep = 0, k = Rules(events).nextStep
    PROVE  LET longer == Append(events, StepStart(n, k)) IN
           /\ Good(longer, lost)
           /\ Scan(longer).pendingCalls = <<>>
           /\ Scan(longer).openTurn = Scan(events).openTurn /\ Scan(longer).openStep = k
           /\ LastTurn(longer) = LastTurn(events)
<1>. DEFINE t == Rules(events)
            scan == Scan(events)
            e == StepStart(n, k)
            longer == Append(events, e)
<1>1. events \in Seq(Events) /\ Agree(t, scan, LastTurn(events)) /\ CallsAccounted(events, lost)
  BY DEF Good
<1>2. t \in Traces /\ t.legal /\ scan \in Scans
  BY <1>1 DEF Agree
<1>3. /\ e \in Events /\ Neutral(e) /\ e.type = "step/start" /\ e.turn = n /\ e.step = k
  BY <1>1, <1>2, BoundsArePositive DEF Agree, Traces, Events, StepStart, Event, Neutral
<1>4. Rules(longer) = Observe(t, e) /\ Scan(longer) = ScanEvent(scan, e)
  BY <1>1, <1>3, FoldsAppend
<1>5. /\ Rules(longer) \in Traces /\ Rules(longer).legal
      /\ Rules(longer).openTurn = t.openTurn /\ Rules(longer).openStep = k
      /\ Rules(longer).nextTurn = t.nextTurn /\ Rules(longer).calls = t.calls
  BY <1>1, <1>2, <1>4, ObserveStepStart DEF Agree, Traces
<1>6. Scan(longer) = [scan EXCEPT !.openStep = e.step]
  <2>. HIDE DEF e
  <2> QED BY <1>3, <1>4 DEF ScanEvent
<1>7. scan.pendingCalls = <<>> /\ t.calls = {}
  BY <1>1, NothingPending DEF Agree
<1>8. /\ Scan(longer) \in Scans /\ Scan(longer).pendingCalls = <<>>
      /\ Scan(longer).openTurn = scan.openTurn /\ Scan(longer).openStep = k
  BY <1>1, <1>2, <1>3, <1>6, <1>7, BoundsArePositive DEF Scans, FreshScan, Agree, Traces
<1>9. LastTurn(longer) = LastTurn(events)
  BY <1>1, <1>3, LastTurnAppend
<1>10. Rules(longer).calls = {}
  BY <1>5, <1>7
<1>11. DOMAIN Scan(longer).pendingCalls = {}
  BY <1>8
<1>12. Agree(Rules(longer), Scan(longer), LastTurn(longer))
  BY <1>1, <1>2, <1>5, <1>8, <1>9, <1>10, <1>11 DEF Agree, Traces
<1>13. longer \in Seq(Events) /\ Last(longer) = e
  BY <1>1, <1>3, AppendPositions DEF Last
<1>14. StepOpened(longer)
  <2>. HIDE DEF longer, e
  <2> QED BY <1>3, <1>5, <1>8, <1>13 DEF StepOpened
<1>15. CallsAccounted(longer, lost)
  BY <1>1, <1>3, <1>7, <1>8, NeutralAccounted
<1> QED BY <1>8, <1>9, <1>12, <1>13, <1>14, <1>15 DEF Good

\* The open step may close; the calls it still owes a result are lost.
LEMMA StepCloses ==
    ASSUME NEW events, NEW lost, Good(events, lost), NEW n \in 1..MaxTurns, NEW k \in 1..MaxSteps,
           Rules(events).openTurn = n, Rules(events).openStep = k,
           NEW more, lost \subseteq more,
           {p.call : p \in Range(Scan(events).pendingCalls)} \subseteq more
    PROVE  LET longer == Append(events, StepEnd(n, k)) IN
           /\ Good(longer, more)
           /\ Scan(longer).pendingCalls = <<>>
           /\ Scan(longer).openTurn = Scan(events).openTurn /\ Scan(longer).openStep = 0
           /\ LastTurn(longer) = LastTurn(events)
<1>. DEFINE t == Rules(events)
            scan == Scan(events)
            e == StepEnd(n, k)
            longer == Append(events, e)
<1>1. events \in Seq(Events) /\ Agree(t, scan, LastTurn(events)) /\ CallsAccounted(events, lost)
  BY DEF Good
<1>2. t \in Traces /\ t.legal /\ scan \in Scans
  BY <1>1 DEF Agree
<1>3. /\ e \in Events /\ Neutral(e) /\ e.type = "step/end" /\ e.turn = n /\ e.step = k
  BY <1>1, <1>2, BoundsArePositive DEF Agree, Traces, Events, StepEnd, Event, Neutral
<1>4. Rules(longer) = Observe(t, e) /\ Scan(longer) = ScanEvent(scan, e)
  BY <1>1, <1>3, FoldsAppend
<1>5. /\ Rules(longer) \in Traces /\ Rules(longer).legal
      /\ Rules(longer).openTurn = t.openTurn /\ Rules(longer).openStep = 0
      /\ Rules(longer).nextTurn = t.nextTurn /\ Rules(longer).calls = {}
  BY <1>2, <1>4, ObserveStepEnd
<1>6. Scan(longer) = [scan EXCEPT !.openStep = 0, !.pendingCalls = <<>>]
  <2>. HIDE DEF e
  <2> QED BY <1>3, <1>4 DEF ScanEvent
<1>7. <<>> \in Seq(Pendings)
  OBVIOUS
<1>8. /\ Scan(longer) \in Scans /\ Scan(longer).pendingCalls = <<>>
      /\ Scan(longer).openTurn = scan.openTurn /\ Scan(longer).openStep = 0
  <2>1. Scan(longer) = [openTurn |-> scan.openTurn, openStep |-> 0, pendingCalls |-> <<>>]
    BY <1>2, <1>6 DEF Scans
  <2>2. scan.openTurn \in 0..MaxTurns /\ 0 \in 0..MaxSteps
    BY <1>2, BoundsArePositive DEF Scans
  <2> QED BY <1>7, <2>1, <2>2 DEF Scans
<1>9. LastTurn(longer) = LastTurn(events)
  BY <1>1, <1>3, LastTurnAppend
<1>10. Rules(longer).calls = {}
  BY <1>5, <1>7
<1>11. DOMAIN Scan(longer).pendingCalls = {}
  BY <1>8
<1>12. Agree(Rules(longer), Scan(longer), LastTurn(longer))
  BY <1>1, <1>2, <1>5, <1>8, <1>9, <1>10, <1>11 DEF Agree, Traces
<1>13. longer \in Seq(Events) /\ Last(longer) = e
  BY <1>1, <1>3, AppendPositions DEF Last
<1>14. StepOpened(longer)
  <2>. HIDE DEF longer, e
  <2> QED BY <1>3, <1>5, <1>8, <1>13 DEF StepOpened
<1>15. CallsAccounted(longer, more)
  BY <1>1, <1>3, <1>7, <1>8, NeutralAccounted
<1> QED BY <1>8, <1>9, <1>12, <1>13, <1>14, <1>15 DEF Good

-----------------------------------------------------------------------------
(* Questions, records and answers keep a log good. *)

\* The model may ask, once, for distinct calls nobody has asked for.
LEMMA CallsAsked ==
    ASSUME NEW events, NEW lost, Good(events, lost),
           NEW n \in 1..MaxTurns, NEW k \in 1..MaxSteps,
           Rules(events).openTurn = n, Rules(events).openStep = k,
           Scan(events).pendingCalls = <<>>,
           NEW calls \in Seq(Calls),
           \A i \in DOMAIN calls : calls[i] \notin AskedIn(events),
           \A i, j \in DOMAIN calls : calls[i] = calls[j] => i = j
    PROVE  LET longer == Append(events, AssistantMessage(n, k, calls)) IN
           /\ Good(longer, lost)
           /\ Scan(longer).pendingCalls = Unanswered(k, calls)
           /\ LastTurn(longer) = LastTurn(events)
<1>. DEFINE t == Rules(events)
            scan == Scan(events)
            e == AssistantMessage(n, k, calls)
            longer == Append(events, e)
            after == Unanswered(k, calls)
<1>1. events \in Seq(Events) /\ Agree(t, scan, LastTurn(events)) /\ CallsAccounted(events, lost)
  BY DEF Good
<1>2. t \in Traces /\ t.legal /\ scan \in Scans
  BY <1>1 DEF Agree
<1>3. /\ e \in Events /\ e.type = "assistant/message"
      /\ e.turn = n /\ e.step = k /\ e.calls = calls
  BY <1>1, <1>2, BoundsArePositive DEF Events, AssistantMessage, Event
<1>4. Rules(longer) = Observe(t, e) /\ Scan(longer) = ScanEvent(scan, e)
  BY <1>1, <1>3, FoldsAppend
<1>5. /\ Rules(longer) \in Traces /\ Rules(longer).legal
      /\ Rules(longer).openTurn = t.openTurn /\ Rules(longer).openStep = t.openStep
      /\ Rules(longer).nextTurn = t.nextTurn /\ Rules(longer).calls = t.calls
  BY <1>2, <1>4, ObserveAssistantMessage
<1>6. after \in Seq(Pendings) /\ <<>> \o after = after
  <2>1. Len(calls) \in Nat /\ \A i \in 1..Len(calls) : calls[i] \in Calls
    OBVIOUS
  <2>2. after \in Seq(Pendings)
    BY <2>1, BoundsArePositive DEF Unanswered, Pendings
  <2> QED BY <2>2, ConcatEmptySeq
<1>7. DOMAIN after = DOMAIN calls /\ \A i \in DOMAIN after :
         after[i].call = calls[i] /\ after[i].step = k /\ after[i].state = "asked"
  BY DEF Unanswered
<1>8. Scan(longer) = [scan EXCEPT !.pendingCalls = after]
  <2>1. Scan(longer) = [scan EXCEPT !.pendingCalls = @ \o Unanswered(e.step, e.calls)]
    <3>. HIDE DEF e
    <3> QED BY <1>3, <1>4 DEF ScanEvent
  <2>2. scan.pendingCalls \o Unanswered(e.step, e.calls) = after
    BY <1>3, <1>6
  <2> QED BY <1>2, <2>1, <2>2 DEF Scans
<1>9. /\ Scan(longer) \in Scans /\ Scan(longer).pendingCalls = after
      /\ Scan(longer).openTurn = scan.openTurn /\ Scan(longer).openStep = scan.openStep
  <2>. HIDE DEF after
  <2> QED BY <1>2, <1>6, <1>8 DEF Scans
<1>10. LastTurn(longer) = LastTurn(events)
  BY <1>1, <1>3, LastTurnAppend
<1>11. Agree(Rules(longer), Scan(longer), LastTurn(longer))
  <2>1. t.calls = {}
    BY <1>1 DEF Agree
  <2>2. k # 0
    OBVIOUS
  <2>. HIDE DEF longer, after
  <2> QED BY <1>1, <1>5, <1>7, <1>9, <1>10, <2>1, <2>2 DEF Agree
<1>12. longer \in Seq(Events) /\ Last(longer) = e
  BY <1>1, <1>3, AppendPositions DEF Last
<1>13. StepOpened(longer)
  <2>. HIDE DEF longer, e
  <2> QED BY <1>3, <1>12 DEF StepOpened
<1>14. CallsAccounted(longer, lost)
  <2>1. AskedIn(longer) = AskedIn(events) \cup Range(calls)
    BY <1>1, <1>3, AskedAppend
  <2>2. \A call : ResultsOf(longer, call) = ResultsOf(events, call)
    <3>1. ASSUME NEW call PROVE ~IsResultOf(e, call)
      BY <1>3 DEF IsResultOf
    <3>2. ASSUME NEW call PROVE ResultsOf(longer, call) = ResultsOf(events, call)
      <4>1. ResultsOf(longer, call) =
              ResultsOf(events, call) \cup (IF IsResultOf(e, call) THEN {Len(events) + 1} ELSE {})
        BY <1>1, <1>3, ResultsAppend
      <4>. HIDE DEF longer, e
      <4> QED BY <3>1, <4>1
    <3> QED BY <3>2
  <2>3. \A call : Recorded(longer, call) <=> Recorded(events, call)
    <3>1. ASSUME NEW call PROVE e # ToolCall(e.turn, e.step, call)
      BY <1>3 DEF ToolCall, Event
    <3> QED BY <1>1, <1>3, <3>1, RecordedAppend
  <2>4. Range(calls) = {p.call : p \in Range(after)}
    BY <1>7 DEF Range
  <2>5. \A i \in DOMAIN calls : calls[i] \in Calls /\ calls[i] \in Range(calls)
    BY DEF Range
  <2>6. DOMAIN events \subseteq DOMAIN longer
    BY <1>1, <1>3, AppendPositions
  <2>7. {p.call : p \in Range(scan.pendingCalls)} = {}
    BY DEF Range
  <2>. HIDE DEF longer, after, e
  <2>8. \A call \in AskedIn(events) \ lost : \E i \in DOMAIN events : ResultsOf(events, call) = {i}
    BY <1>1, <2>7 DEF CallsAccounted
  <2>9. \A call \in Calls \ AskedIn(events) :
          ResultsOf(events, call) = {} /\ ~Recorded(events, call)
    BY <1>1 DEF CallsAccounted
  <2>10. \A i \in DOMAIN after :
            /\ after[i].call \in AskedIn(longer)
            /\ ResultsOf(longer, after[i].call) = {}
            /\ ~Recorded(longer, after[i].call)
    BY <1>7, <2>1, <2>2, <2>3, <2>5, <2>9
  <2>11. \A call \in AskedIn(longer) \ (lost \cup {p.call : p \in Range(after)}) :
            \E i \in DOMAIN longer : ResultsOf(longer, call) = {i}
    BY <2>1, <2>2, <2>4, <2>6, <2>8
  <2>12. \A call \in Calls \ AskedIn(longer) :
          ResultsOf(longer, call) = {} /\ ~Recorded(longer, call)
    BY <2>1, <2>2, <2>3, <2>9
  <2>13. \A i, j \in DOMAIN after : after[i].call = after[j].call => i = j
    BY <1>7
  <2> QED BY <1>9, <2>10, <2>11, <2>12, <2>13 DEF CallsAccounted
<1> QED BY <1>9, <1>10, <1>11, <1>12, <1>13, <1>14 DEF Good

\* A pending call may be recorded.
LEMMA CallRecorded ==
    ASSUME NEW events, NEW lost, Good(events, lost),
           NEW n \in 1..MaxTurns, NEW k \in 1..MaxSteps,
           Rules(events).openTurn = n, Rules(events).openStep = k,
           NEW m \in DOMAIN Scan(events).pendingCalls,
           NEW c, c = Scan(events).pendingCalls[m].call
    PROVE  LET longer == Append(events, ToolCall(n, k, c))
               before == Scan(events).pendingCalls
               after == Scan(longer).pendingCalls
           IN  /\ Good(longer, lost)
               /\ Len(after) = Len(before) /\ DOMAIN after = DOMAIN before
               /\ \A i \in DOMAIN after :
                     /\ after[i].call = before[i].call
                     /\ after[i].state = IF i = m THEN "recorded" ELSE before[i].state
               /\ LastTurn(longer) = LastTurn(events)
<1>. DEFINE t == Rules(events)
            scan == Scan(events)
            e == ToolCall(n, k, c)
            longer == Append(events, e)
            before == scan.pendingCalls
            after == Scan(longer).pendingCalls
<1>1. events \in Seq(Events) /\ Agree(t, scan, LastTurn(events)) /\ CallsAccounted(events, lost)
  BY DEF Good
<1>2. t \in Traces /\ t.legal /\ scan \in Scans
  BY <1>1 DEF Agree
<1>3. /\ before \in Seq(Pendings) /\ Len(before) \in Nat /\ DOMAIN before = 1..Len(before)
      /\ \A i \in DOMAIN before : before[i] \in Pendings
      /\ c \in Calls
  <2>1. before \in Seq(Pendings)
    BY <1>2 DEF Scans
  <2>2. Len(before) \in Nat /\ DOMAIN before = 1..Len(before)
    BY <2>1, LenProperties
  <2>3. ASSUME NEW i \in DOMAIN before PROVE before[i] \in Pendings
    BY <2>1, <2>2, ElementOfSeq
  <2>4. c \in Calls
    BY <2>3 DEF Pendings
  <2> QED BY <2>1, <2>2, <2>3, <2>4
<1>4. /\ e \in Events /\ e.type = "tool/call"
      /\ e.turn = n /\ e.step = k /\ Head(e.calls) = c
  BY <1>3, BoundsArePositive DEF Events, ToolCall, Event
<1>5. Rules(longer) = Observe(t, e) /\ Scan(longer) = ScanEvent(scan, e)
  BY <1>1, <1>4, FoldsAppend
<1>6. /\ Rules(longer) \in Traces /\ Rules(longer).legal
      /\ Rules(longer).openTurn = t.openTurn /\ Rules(longer).openStep = t.openStep
      /\ Rules(longer).nextTurn = t.nextTurn /\ Rules(longer).calls = t.calls \cup {c}
  BY <1>2, <1>3, <1>5, ObserveToolCall
<1>. DEFINE marked == [i \in 1..Len(before) |->
                         IF before[i].call = c THEN [before[i] EXCEPT !.state = "recorded"]
                                               ELSE before[i]]
<1>7. Scan(longer) = [scan EXCEPT !.pendingCalls = marked]
  <2>1. Scan(longer) = [scan EXCEPT !.pendingCalls = [i \in 1..Len(@) |->
                 IF @[i].call = Head(e.calls) THEN [@[i] EXCEPT !.state = "recorded"]
                                              ELSE @[i]]]
    <3>. HIDE DEF e
    <3> QED BY <1>4, <1>5 DEF ScanEvent
  <2>2. [i \in 1..Len(before) |->
           IF before[i].call = Head(e.calls) THEN [before[i] EXCEPT !.state = "recorded"]
                                             ELSE before[i]] = marked
    BY <1>4
  <2>. HIDE DEF marked, e
  <2> QED BY <2>1, <2>2
<1>8. \A i \in 1..Len(before) :
         /\ marked[i] \in Pendings
         /\ marked[i].call = before[i].call /\ marked[i].step = before[i].step
         /\ marked[i].state = IF before[i].call = c THEN "recorded" ELSE before[i].state
  BY <1>3 DEF Pendings
<1>9. marked \in Seq(Pendings) /\ Len(marked) = Len(before) /\ DOMAIN marked = 1..Len(before)
  <2>1. \A i \in 1..Len(before) : marked[i] \in Pendings
    BY <1>8
  <2>2. marked = [i \in 1..Len(before) |-> marked[i]]
    OBVIOUS
  <2>. HIDE DEF marked
  <2>3. marked \in [1..Len(before) -> Pendings]
    BY <2>1, <2>2
  <2>. HIDE DEF before
  <2> QED BY <1>3, <2>3
<1>10. /\ Scan(longer) \in Scans /\ after = marked
       /\ Scan(longer).openTurn = scan.openTurn /\ Scan(longer).openStep = scan.openStep
  <2>. HIDE DEF marked
  <2> QED BY <1>2, <1>7, <1>9 DEF Scans
<1>11. LastTurn(longer) = LastTurn(events)
  BY <1>1, <1>4, LastTurnAppend
<1>. HIDE DEF marked, longer, e
<1>12. \A i, j \in DOMAIN before : before[i].call = before[j].call => i = j
  BY <1>1 DEF CallsAccounted
<1>13. /\ Len(after) = Len(before) /\ DOMAIN after = DOMAIN before
       /\ \A i \in DOMAIN after :
             /\ after[i].call = before[i].call /\ after[i].step = before[i].step
             /\ after[i].state = IF i = m THEN "recorded" ELSE before[i].state
  BY <1>3, <1>8, <1>9, <1>10, <1>12
<1>. HIDE DEF after
<1>14. Agree(Rules(longer), Scan(longer), LastTurn(longer))
  <2>1. t.calls = {before[i].call : i \in {j \in DOMAIN before : before[j].state = "recorded"}}
    BY <1>1 DEF Agree
  <2>2. Rules(longer).calls =
          {after[i].call : i \in {j \in DOMAIN after : after[j].state = "recorded"}}
    BY <1>6, <1>13, <2>1
  <2> QED BY <1>1, <1>6, <1>10, <1>11, <1>13, <2>2 DEF Agree, after
<1>15. longer \in Seq(Events) /\ Last(longer) = e
  BY <1>1, <1>4, AppendPositions DEF Last, longer
<1>16. StepOpened(longer)
  BY <1>4, <1>15 DEF StepOpened
<1>17. CallsAccounted(longer, lost)
  <2>1. AskedIn(longer) = AskedIn(events)
    BY <1>1, <1>4, AskedAppend DEF longer
  <2>2. \A call : ResultsOf(longer, call) = ResultsOf(events, call)
    <3>1. ASSUME NEW call PROVE ~IsResultOf(e, call)
      BY <1>4 DEF IsResultOf
    <3>2. ASSUME NEW call PROVE ResultsOf(longer, call) = ResultsOf(events, call)
      <4>1. ResultsOf(longer, call) =
              ResultsOf(events, call) \cup (IF IsResultOf(e, call) THEN {Len(events) + 1} ELSE {})
        BY <1>1, <1>4, ResultsAppend DEF longer
      <4> QED BY <3>1, <4>1
    <3> QED BY <3>2
  <2>3. \A call : Recorded(longer, call) <=> Recorded(events, call) \/ call = c
    <3>1. ASSUME NEW call PROVE Recorded(longer, call) <=> Recorded(events, call) \/ call = c
      <4>1. Recorded(longer, call) <=>
              Recorded(events, call) \/ e = ToolCall(e.turn, e.step, call)
        BY <1>1, <1>4, RecordedAppend DEF longer
      <4>2. e = ToolCall(e.turn, e.step, call) <=> call = c
        BY DEF e, ToolCall, Event
      <4> QED BY <4>1, <4>2
    <3> QED BY <3>1
  <2>4. c \in AskedIn(events)
    BY <1>1 DEF CallsAccounted
  <2>5. {p.call : p \in Range(after)} = {p.call : p \in Range(before)}
    BY <1>13 DEF Range
  <2>6. DOMAIN events \subseteq DOMAIN longer
    BY <1>1, <1>4, AppendPositions DEF longer
  <2>7. \A call \in AskedIn(events) \ (lost \cup {p.call : p \in Range(before)}) :
           \E i \in DOMAIN events : ResultsOf(events, call) = {i}
    BY <1>1 DEF CallsAccounted
  <2>8. \A call \in Calls \ AskedIn(events) :
          ResultsOf(events, call) = {} /\ ~Recorded(events, call)
    BY <1>1 DEF CallsAccounted
  <2>9. \A i \in DOMAIN before :
           /\ before[i].call \in AskedIn(events)
           /\ ResultsOf(events, before[i].call) = {}
           /\ Recorded(events, before[i].call) => before[i].state = "recorded"
    BY <1>1 DEF CallsAccounted
  <2>. HIDE DEF before
  <2>10. \A i, j \in DOMAIN after : after[i].call = after[j].call => i = j
    BY <1>12, <1>13
  <2>11. \A i \in DOMAIN after :
            /\ after[i].call \in AskedIn(longer)
            /\ ResultsOf(longer, after[i].call) = {}
            /\ Recorded(longer, after[i].call) => after[i].state = "recorded"
    <3>1. before[m].call = c /\ m \in DOMAIN before
      BY DEF before
    <3>2. ASSUME NEW i \in DOMAIN after, i # m
          PROVE  after[i].call # c /\ after[i].state = before[i].state
      BY <1>12, <1>13, <3>1, <3>2
    <3>3. after[m].state = "recorded"
      BY <1>13 DEF before
    <3> QED BY <1>13, <2>1, <2>2, <2>3, <2>9, <3>2, <3>3
  <2>12. \A call \in AskedIn(longer) \ (lost \cup {p.call : p \in Range(after)}) :
            \E i \in DOMAIN longer : ResultsOf(longer, call) = {i}
    BY <2>1, <2>2, <2>5, <2>6, <2>7
  <2>13. \A call \in Calls \ AskedIn(longer) :
          ResultsOf(longer, call) = {} /\ ~Recorded(longer, call)
    BY <2>1, <2>2, <2>3, <2>4, <2>8
  <2> QED BY <2>10, <2>11, <2>12, <2>13 DEF CallsAccounted, after
<1> QED BY <1>11, <1>13, <1>14, <1>15, <1>16, <1>17 DEF Good, after, longer, e

\* Forgetting the first of distinct pending calls leaves the others.
LEMMA WithoutFirst ==
    ASSUME NEW pending \in Seq(Pendings), pending # <<>>,
           \A i, j \in DOMAIN pending : pending[i].call = pending[j].call => i = j
    PROVE  Without(pending, pending[1].call) = Tail(pending)
<1>. DEFINE at == {i \in DOMAIN pending : pending[i].call = pending[1].call}
<1>1. Len(pending) \in Nat \ {0} /\ DOMAIN pending = 1..Len(pending)
  BY EmptySeq, LenProperties
<1>2. at = {1}
  BY <1>1
<1>3. (CHOOSE i \in at : TRUE) = 1
  BY <1>2
<1>4. Without(pending, pending[1].call) = RemoveAt(pending, 1)
  <2>. HIDE DEF at
  <2>1. Without(pending, pending[1].call) =
          IF at = {} THEN pending ELSE RemoveAt(pending, CHOOSE i \in at : TRUE)
    BY Zenon DEF Without, at
  <2> QED BY <1>2, <1>3, <2>1
<1>5. SubSeq(pending, 1, 0) = <<>>
  BY SubSeqEmpty
<1>6. SubSeq(pending, 2, Len(pending)) = Tail(pending) /\ Tail(pending) \in Seq(Pendings)
  BY TailIsSubSeq, HeadTailProperties
<1>7. RemoveAt(pending, 1) = <<>> \o Tail(pending)
  <2>1. 1 - 1 = 0 /\ 1 + 1 = 2
    OBVIOUS
  <2>2. RemoveAt(pending, 1) = SubSeq(pending, 1, 1 - 1) \o SubSeq(pending, 1 + 1, Len(pending))
    BY Zenon DEF RemoveAt
  <2> QED BY <1>5, <1>6, <2>1, <2>2
<1>8. <<>> \o Tail(pending) = Tail(pending)
  BY <1>6, ConcatEmptySeq, Zenon
<1> QED BY <1>4, <1>7, <1>8

\* The first pending call may be answered: a recorded one with a result, any one
\* with the word that it was never started.
LEMMA FirstAnswered ==
    ASSUME NEW events, NEW lost, Good(events, lost),
           NEW n \in 1..MaxTurns, NEW k \in 1..MaxSteps,
           Rules(events).openTurn = n, Rules(events).openStep = k,
           Scan(events).pendingCalls # <<>>,
           NEW c, c = Scan(events).pendingCalls[1].call,
           NEW e, \/ /\ e = ToolResult(n, k, c)
                     /\ Scan(events).pendingCalls[1].state = "recorded"
                  \/ e = NotStartedResult(n, k, c)
    PROVE  LET longer == Append(events, e) IN
           /\ Good(longer, lost)
           /\ Scan(longer).pendingCalls = Tail(Scan(events).pendingCalls)
           /\ Scan(longer).openTurn = Scan(events).openTurn
           /\ Scan(longer).openStep = Scan(events).openStep
           /\ LastTurn(longer) = LastTurn(events)
<1>. DEFINE t == Rules(events)
            scan == Scan(events)
            longer == Append(events, e)
            before == scan.pendingCalls
            after == Scan(longer).pendingCalls
<1>1. events \in Seq(Events) /\ Agree(t, scan, LastTurn(events)) /\ CallsAccounted(events, lost)
  BY DEF Good
<1>2. t \in Traces /\ t.legal /\ scan \in Scans
  BY <1>1 DEF Agree
<1>3. /\ before \in Seq(Pendings) /\ Len(before) \in Nat \ {0} /\ DOMAIN before = 1..Len(before)
      /\ 1 \in DOMAIN before /\ c \in Calls
  <2>1. before \in Seq(Pendings)
    BY <1>2 DEF Scans
  <2>2. Len(before) \in Nat \ {0} /\ DOMAIN before = 1..Len(before)
    BY <2>1, LenProperties, EmptySeq
  <2>3. before[1] \in Pendings
    BY <2>1, <2>2, ElementOfSeq
  <2> QED BY <2>1, <2>2, <2>3 DEF Pendings
<1>4. /\ Tail(before) \in Seq(Pendings) /\ Len(Tail(before)) = Len(before) - 1
      /\ DOMAIN Tail(before) = 1..(Len(before) - 1)
      /\ \A i \in 1..(Len(before) - 1) : Tail(before)[i] = before[i + 1] /\ i + 1 \in DOMAIN before
  <2>1. /\ Tail(before) \in Seq(Pendings) /\ Len(Tail(before)) = Len(before) - 1
        /\ \A i \in 1..Len(Tail(before)) : Tail(before)[i] = before[i + 1]
    BY <1>3, HeadTailProperties
  <2>2. DOMAIN Tail(before) = 1..Len(Tail(before))
    BY <2>1, LenProperties
  <2>. HIDE DEF before
  <2> QED BY <1>3, <2>1, <2>2
<1>5. /\ e \in Events /\ e.type \in {"tool/result", "tool/not-started"}
      /\ e.turn = n /\ e.step = k /\ Head(e.calls) = c
  <2>1. CASE e = ToolResult(n, k, c)
    BY <1>3, <2>1, BoundsArePositive DEF Events, ToolResult, Event
  <2>2. CASE e = NotStartedResult(n, k, c)
    BY <1>3, <2>2, BoundsArePositive DEF Events, NotStartedResult, Event
  <2> QED BY <2>1, <2>2
<1>6. Rules(longer) = Observe(t, e) /\ Scan(longer) = ScanEvent(scan, e)
  BY <1>1, <1>5, FoldsAppend
<1>7. /\ Rules(longer) \in Traces /\ Rules(longer).legal
      /\ Rules(longer).openTurn = t.openTurn /\ Rules(longer).openStep = t.openStep
      /\ Rules(longer).nextTurn = t.nextTurn /\ Rules(longer).calls = t.calls \ {c}
  <2>1. CASE e = ToolResult(n, k, c) /\ before[1].state = "recorded"
    <3>1. c \in t.calls
      BY <1>1, <1>3, <2>1 DEF Agree
    <3> QED BY <1>2, <1>3, <1>6, <2>1, <3>1, ObserveToolResult
  <2>2. CASE e = NotStartedResult(n, k, c)
    BY <1>2, <1>3, <1>6, <2>2, ObserveNotStartedResult
  <2> QED BY <2>1, <2>2
<1>8. \A i, j \in DOMAIN before : before[i].call = before[j].call => i = j
  BY <1>1 DEF CallsAccounted
<1>9. Scan(longer) = [scan EXCEPT !.pendingCalls = Tail(before)]
  <2>1. Scan(longer) = [scan EXCEPT !.pendingCalls = Without(@, Head(e.calls))]
    BY <1>5, <1>6 DEF ScanEvent
  <2>2. Without(before, Head(e.calls)) = Tail(before)
    BY <1>3, <1>5, <1>8, WithoutFirst
  <2> QED BY <2>1, <2>2
<1>10. /\ Scan(longer) \in Scans /\ after = Tail(before)
       /\ Scan(longer).openTurn = scan.openTurn /\ Scan(longer).openStep = scan.openStep
  BY <1>2, <1>4, <1>9 DEF Scans
<1>11. LastTurn(longer) = LastTurn(events)
  BY <1>1, <1>5, LastTurnAppend
<1>. HIDE DEF longer
<1>12. /\ DOMAIN after = 1..(Len(before) - 1)
       /\ \A i \in DOMAIN after : after[i] = before[i + 1] /\ i + 1 \in DOMAIN before
       /\ \A i \in DOMAIN after : after[i].call # c
  <2>1. /\ DOMAIN after = 1..(Len(before) - 1)
        /\ \A i \in DOMAIN after : after[i] = before[i + 1] /\ i + 1 \in DOMAIN before /\ i + 1 # 1
    BY <1>3, <1>4, <1>10
  <2> QED BY <1>3, <1>8, <2>1, SMTT(60)
<1>13. \A i \in DOMAIN before : before[i].call # c => i - 1 \in DOMAIN after /\ after[i - 1] = before[i]
  <2>1. ASSUME NEW i \in DOMAIN before, i # 1
        PROVE  i - 1 \in DOMAIN after /\ after[i - 1] = before[i]
    <3>1. i - 1 \in 1..(Len(before) - 1) /\ (i - 1) + 1 = i
      BY <1>3, <2>1
    <3> QED BY <1>12, <3>1
  <2> QED BY <2>1
<1>. HIDE DEF after
<1>14. Agree(Rules(longer), Scan(longer), LastTurn(longer))
  <2>1. t.calls = {before[i].call : i \in {j \in DOMAIN before : before[j].state = "recorded"}}
    BY <1>1 DEF Agree
  <2>2. Rules(longer).calls =
          {after[i].call : i \in {j \in DOMAIN after : after[j].state = "recorded"}}
    <3>. HIDE DEF before
    <3> QED BY <1>7, <1>12, <1>13, <2>1
  <2>3. \A i \in DOMAIN after : after[i].step = t.openStep /\ t.openStep # 0
    BY <1>1, <1>12 DEF Agree
  <2> QED BY <1>1, <1>7, <1>10, <1>11, <2>2, <2>3 DEF Agree, after
<1>15. longer \in Seq(Events) /\ Last(longer) = e
  BY <1>1, <1>5, AppendPositions DEF Last, longer
<1>16. StepOpened(longer)
  BY <1>5, <1>15 DEF StepOpened
<1>17. CallsAccounted(longer, lost)
  <2>1. AskedIn(longer) = AskedIn(events)
    BY <1>1, <1>5, AskedAppend DEF longer
  <2>2. \A call : ResultsOf(longer, call) =
                    ResultsOf(events, call) \cup (IF call = c THEN {Len(events) + 1} ELSE {})
    <3>1. ASSUME NEW call PROVE IsResultOf(e, call) <=> call = c
      BY <1>5 DEF IsResultOf
    <3>2. ASSUME NEW call
          PROVE  ResultsOf(longer, call) =
                    ResultsOf(events, call) \cup (IF call = c THEN {Len(events) + 1} ELSE {})
      <4>1. ResultsOf(longer, call) =
              ResultsOf(events, call) \cup (IF IsResultOf(e, call) THEN {Len(events) + 1} ELSE {})
        BY <1>1, <1>5, ResultsAppend DEF longer
      <4> QED BY <3>1, <4>1
    <3> QED BY <3>2
  <2>3. \A call : Recorded(longer, call) <=> Recorded(events, call)
    <3>1. ASSUME NEW call PROVE e # ToolCall(e.turn, e.step, call)
      BY <1>5 DEF ToolCall, Event
    <3>2. ASSUME NEW call PROVE Recorded(longer, call) <=> Recorded(events, call)
      BY <1>1, <1>5, <3>1, RecordedAppend DEF longer
    <3> QED BY <3>2
  <2>4. /\ DOMAIN events \subseteq DOMAIN longer
        /\ Len(events) + 1 \in DOMAIN longer
    BY <1>1, <1>5, AppendPositions DEF longer
  <2>5. \A call \in AskedIn(events) \ (lost \cup {p.call : p \in Range(before)}) :
           \E i \in DOMAIN events : ResultsOf(events, call) = {i}
    BY <1>1 DEF CallsAccounted
  <2>6. \A call \in Calls \ AskedIn(events) :
          ResultsOf(events, call) = {} /\ ~Recorded(events, call)
    BY <1>1 DEF CallsAccounted
  <2>7. \A i \in DOMAIN before :
           /\ before[i].call \in AskedIn(events)
           /\ ResultsOf(events, before[i].call) = {}
           /\ Recorded(events, before[i].call) => before[i].state = "recorded"
    BY <1>1 DEF CallsAccounted
  <2>8. before[1].call = c /\ 1 \in DOMAIN before
    BY <1>3
  <2>. HIDE DEF before
  <2>9. {p.call : p \in Range(before)} = {c} \cup {p.call : p \in Range(after)}
    <3>1. {before[i].call : i \in DOMAIN before} = {c} \cup {after[i].call : i \in DOMAIN after}
      BY <1>12, <1>13, <2>8
    <3>2. {p.call : p \in Range(before)} = {before[i].call : i \in DOMAIN before}
      BY DEF Range
    <3>3. {p.call : p \in Range(after)} = {after[i].call : i \in DOMAIN after}
      BY DEF Range
    <3> QED BY <3>1, <3>2, <3>3
  <2>10. \A i, j \in DOMAIN after : after[i].call = after[j].call => i = j
    <3>1. ASSUME NEW i \in DOMAIN after, NEW j \in DOMAIN after, after[i].call = after[j].call
          PROVE  i = j
      <4>1. i + 1 = j + 1
        BY <1>8, <1>12, <3>1
      <4> QED BY <1>3, <1>12, <4>1
    <3> QED BY <3>1
  <2>11. \A i \in DOMAIN after :
            /\ after[i].call \in AskedIn(longer)
            /\ ResultsOf(longer, after[i].call) = {}
            /\ Recorded(longer, after[i].call) => after[i].state = "recorded"
    <3>1. ASSUME NEW i \in DOMAIN after
          PROVE  /\ after[i].call \in AskedIn(events)
                 /\ ResultsOf(events, after[i].call) = {}
                 /\ Recorded(events, after[i].call) => after[i].state = "recorded"
                 /\ after[i].call # c
      <4>1. after[i] = before[i + 1] /\ i + 1 \in DOMAIN before /\ after[i].call # c
        BY <1>12
      <4> QED BY <2>7, <4>1
    <3> QED BY <2>1, <2>2, <2>3, <3>1
  <2>12. \A call \in AskedIn(longer) \ (lost \cup {p.call : p \in Range(after)}) :
            \E i \in DOMAIN longer : ResultsOf(longer, call) = {i}
    <3>1. ResultsOf(longer, c) = {Len(events) + 1}
      BY <2>2, <2>7, <2>8
    <3>2. ASSUME NEW call \in AskedIn(longer) \ (lost \cup {p.call : p \in Range(after)}), call # c
          PROVE  \E i \in DOMAIN longer : ResultsOf(longer, call) = {i}
      <4>1. call \in AskedIn(events) \ (lost \cup {p.call : p \in Range(before)})
        BY <2>1, <2>9, <3>2
      <4>2. ResultsOf(longer, call) = ResultsOf(events, call)
        BY <2>2, <3>2
      <4> QED BY <2>4, <2>5, <4>1, <4>2
    <3> QED BY <2>4, <3>1, <3>2
  <2>13. \A call \in Calls \ AskedIn(longer) :
          ResultsOf(longer, call) = {} /\ ~Recorded(longer, call)
    BY <2>1, <2>2, <2>3, <2>6, <2>7, <2>8
  <2> QED BY <2>10, <2>11, <2>12, <2>13 DEF CallsAccounted, after
<1> QED BY <1>10, <1>11, <1>14, <1>15, <1>16, <1>17 DEF Good, after, longer

-----------------------------------------------------------------------------
(* Repair: its events, one after the other, keep a log good.                 *)

\* The closers of a scan, by position.
CloserAt(scan, i) ==
    IF i <= Len(scan.pendingCalls) THEN Closer(scan.openTurn, scan.pendingCalls[i])
    ELSE IF i = Len(scan.pendingCalls) + 1 /\ scan.openStep # 0
         THEN StepEnd(scan.openTurn, scan.openStep)
         ELSE TurnEnd(scan.openTurn)

CloserCount(scan) ==
    IF scan.openTurn = 0 THEN 0
    ELSE Len(scan.pendingCalls) + (IF scan.openStep = 0 THEN 1 ELSE 2)

\* The closers are what CloserAt says, position by position.
LEMMA ClosersByPosition ==
    ASSUME NEW events, Scan(events) \in Scans
    PROVE  LET scan == Scan(events) IN
           /\ Closers(events) \in Seq(Events)
           /\ Len(Closers(events)) = CloserCount(scan)
           /\ \A i \in 1..CloserCount(scan) : Closers(events)[i] = CloserAt(scan, i)
<1>. DEFINE scan == Scan(events)
            pending == scan.pendingCalls
            results == [i \in 1..Len(pending) |-> Closer(scan.openTurn, pending[i])]
            step == IF scan.openStep = 0 THEN <<>>
                    ELSE <<StepEnd(scan.openTurn, scan.openStep)>>
            turn == <<TurnEnd(scan.openTurn)>>
<1>1. Closers(events) = IF scan.openTurn = 0 THEN <<>> ELSE (results \o step) \o turn
  BY Zenon DEF Closers
<1>2. /\ pending \in Seq(Pendings) /\ Len(pending) \in Nat
      /\ scan.openTurn \in 0..MaxTurns /\ scan.openStep \in 0..MaxSteps
      /\ \A i \in 1..Len(pending) : pending[i] \in Pendings
  <2>1. pending \in Seq(Pendings) /\ scan.openTurn \in 0..MaxTurns /\ scan.openStep \in 0..MaxSteps
    BY DEF Scans
  <2>. HIDE DEF pending
  <2> QED BY <2>1, LenProperties, ElementOfSeq
<1>3. CASE scan.openTurn = 0
  <2>1. Closers(events) = <<>> /\ CloserCount(scan) = 0
    BY <1>1, <1>3 DEF CloserCount
  <2> QED BY <2>1
<1>4. CASE scan.openTurn # 0
  <2>0. scan.openTurn \in 1..MaxTurns
    BY <1>2, <1>4
  <2>1. \A i \in 1..Len(pending) : Closer(scan.openTurn, pending[i]) \in Events
    BY <1>2, <2>0 DEF Pendings, Closer, ToolResult, NotStartedResult, Event, Events
  <2>2. /\ results \in Seq(Events) /\ Len(results) = Len(pending)
        /\ \A i \in 1..Len(pending) : results[i] = Closer(scan.openTurn, pending[i])
    BY <1>2, <2>1
  <2>3. /\ step \in Seq(Events) /\ Len(step) = (IF scan.openStep = 0 THEN 0 ELSE 1)
        /\ scan.openStep # 0 => step[1] = StepEnd(scan.openTurn, scan.openStep)
    <3>1. CASE scan.openStep = 0
      BY <3>1
    <3>2. CASE scan.openStep # 0
      <4>1. StepEnd(scan.openTurn, scan.openStep) \in Events
        BY <1>2, <2>0 DEF StepEnd, Event, Events
      <4>2. step = <<StepEnd(scan.openTurn, scan.openStep)>>
        BY <3>2
      <4>. HIDE DEF step
      <4> QED BY <3>2, <4>1, <4>2
    <3> QED BY <3>1, <3>2
  <2>4. turn \in Seq(Events) /\ Len(turn) = 1 /\ turn[1] = TurnEnd(scan.openTurn)
    BY <1>2, <2>0, BoundsArePositive DEF TurnEnd, Event, Events
  <2>. HIDE DEF results, step, turn, pending
  <2>5. /\ results \o step \in Seq(Events)
        /\ Len(results \o step) = Len(results) + Len(step)
        /\ \A i \in 1..(Len(results) + Len(step)) :
              (results \o step)[i] = IF i <= Len(results) THEN results[i] ELSE step[i - Len(results)]
    BY <2>2, <2>3, ConcatProperties, SMTT(60)
  <2>. DEFINE both == results \o step
              all == both \o turn
  <2>11. both \in Seq(Events)
    BY <2>5
  <2>. HIDE DEF both
  <2>6. /\ all \in Seq(Events)
        /\ Len(all) = Len(both) + Len(turn)
        /\ \A i \in 1..(Len(both) + Len(turn)) :
              all[i] = IF i <= Len(both) THEN both[i] ELSE turn[i - Len(both)]
    BY <2>4, <2>11, ConcatProperties, Zenon
  <2>. HIDE DEF all
  <2>7. Closers(events) = all
    BY <1>1, <1>4 DEF all, both
  <2>8. CloserCount(scan) = Len(pending) + (IF scan.openStep = 0 THEN 1 ELSE 2)
    BY <1>4 DEF CloserCount, pending
  <2>9. Len(all) = CloserCount(scan)
    BY <1>2, <2>2, <2>3, <2>4, <2>5, <2>6, <2>8 DEF both
  <2>10. ASSUME NEW i \in 1..CloserCount(scan) PROVE all[i] = CloserAt(scan, i)
    <3>1. all[i] = IF i <= Len(both) THEN both[i] ELSE turn[i - Len(both)]
      BY <2>6, <2>9
    <3>2. i <= Len(both) => both[i] =
             IF i <= Len(results) THEN results[i] ELSE step[i - Len(results)]
      BY <1>2, <2>2, <2>3, <2>5 DEF both
    <3>3. CASE i <= Len(pending)
      <4>1. i <= Len(both) /\ i \in 1..Len(pending)
        BY <1>2, <2>2, <2>3, <2>5, <3>3 DEF both
      <4>2. all[i] = Closer(scan.openTurn, pending[i])
        BY <2>2, <3>1, <3>2, <3>3, <4>1
      <4> QED BY <3>3, <4>2 DEF CloserAt, pending
    <3>4. CASE i = Len(pending) + 1 /\ scan.openStep # 0
      <4>1. i <= Len(both) /\ ~(i <= Len(results)) /\ i - Len(results) = 1
        BY <1>2, <2>2, <2>3, <2>5, <3>4 DEF both
      <4>2. all[i] = StepEnd(scan.openTurn, scan.openStep)
        BY <2>3, <3>1, <3>2, <3>4, <4>1
      <4>3. ~(i <= Len(pending))
        BY <1>2, <3>4
      <4> QED BY <3>4, <4>2, <4>3 DEF CloserAt, pending
    <3>5. CASE ~(i <= Len(pending)) /\ ~(i = Len(pending) + 1 /\ scan.openStep # 0)
      <4>1. ~(i <= Len(both)) /\ i - Len(both) = 1
        BY <1>2, <2>2, <2>3, <2>5, <2>8, <3>5 DEF both
      <4>2. all[i] = TurnEnd(scan.openTurn)
        BY <2>4, <3>1, <4>1
      <4> QED BY <3>5, <4>2 DEF CloserAt, pending
    <3> QED BY <3>3, <3>4, <3>5
  <2> QED BY <2>6, <2>7, <2>9, <2>10
<1> QED BY <1>3, <1>4

\* The first closer may be appended to a good log, and the others close what is
\* left.  A call it reports as never started was never recorded.
LEMMA FirstCloser ==
    ASSUME NEW events, NEW lost, Good(events, lost), Closers(events) # <<>>
    PROVE  LET e == Closers(events)[1]
               longer == Append(events, e)
           IN  /\ e \in Events
               /\ Good(longer, lost)
               /\ Closers(longer) = Tail(Closers(events))
               /\ e.type = "tool/not-started" => ~Recorded(events, Head(e.calls))
<1>. DEFINE t == Rules(events)
            scan == Scan(events)
            pending == scan.pendingCalls
            n == scan.openTurn
            k == scan.openStep
            e == Closers(events)[1]
            longer == Append(events, e)
<1>1. /\ Agree(t, scan, LastTurn(events)) /\ scan \in Scans /\ CallsAccounted(events, lost)
      /\ t.openTurn = n /\ t.openStep = k
  BY DEF Good, Agree
<1>2. /\ Closers(events) \in Seq(Events) /\ Len(Closers(events)) = CloserCount(scan)
      /\ Len(Closers(events)) \in Nat \ {0}
      /\ \A i \in 1..CloserCount(scan) : Closers(events)[i] = CloserAt(scan, i)
  BY <1>1, ClosersByPosition, EmptySeq
<1>3. /\ n \in 1..MaxTurns /\ k \in 0..MaxSteps
      /\ pending \in Seq(Pendings) /\ Len(pending) \in Nat
      /\ CloserCount(scan) = Len(pending) + (IF k = 0 THEN 1 ELSE 2)
  <2>1. n # 0
    BY <1>2 DEF CloserCount
  <2>2. pending \in Seq(Pendings) /\ n \in 0..MaxTurns /\ k \in 0..MaxSteps
    BY <1>1 DEF Scans
  <2>3. Len(pending) \in Nat
    BY <2>2, LenProperties
  <2> QED BY <2>1, <2>2, <2>3 DEF CloserCount
<1>4. e = CloserAt(scan, 1) /\ e \in Events
  BY <1>2, ElementOfSeq
\* Only the tail is left to compare, position by position.
<1>5. ASSUME Good(longer, lost), CloserCount(Scan(longer)) = CloserCount(scan) - 1,
             \A i \in 1..(CloserCount(scan) - 1) : CloserAt(Scan(longer), i) = CloserAt(scan, i + 1)
      PROVE  Closers(longer) = Tail(Closers(events))
  <2>1. Scan(longer) \in Scans
    BY <1>5 DEF Good, Agree
  <2>2. /\ Closers(longer) \in Seq(Events) /\ Len(Closers(longer)) = CloserCount(scan) - 1
        /\ \A i \in 1..(CloserCount(scan) - 1) : Closers(longer)[i] = CloserAt(scan, i + 1)
    BY <1>5, <2>1, ClosersByPosition
  <2>3. /\ Tail(Closers(events)) \in Seq(Events)
        /\ Len(Tail(Closers(events))) = CloserCount(scan) - 1
        /\ \A i \in 1..(CloserCount(scan) - 1) : Tail(Closers(events))[i] = Closers(events)[i + 1]
    BY <1>2, HeadTailProperties
  <2>4. \A i \in 1..(CloserCount(scan) - 1) : i + 1 \in 1..CloserCount(scan)
    BY <1>2
  <2> QED BY <1>2, <2>2, <2>3, <2>4, SeqEqual
<1>6. CASE pending # <<>>
  <2>1. Len(pending) \in Nat \ {0} /\ DOMAIN pending = 1..Len(pending) /\ 1 \in DOMAIN pending
    BY <1>3, <1>6, EmptySeq, LenProperties
  <2>2. pending[1] \in Pendings /\ pending[1].step = k /\ k # 0 /\ k \in 1..MaxSteps
    BY <1>1, <1>3, <2>1, ElementOfSeq DEF Agree
  <2>. DEFINE c == pending[1].call
  <2>3. e = Closer(n, pending[1])
    BY <1>4, <2>1 DEF CloserAt
  <2>4. \/ e = ToolResult(n, k, c) /\ pending[1].state = "recorded"
        \/ e = NotStartedResult(n, k, c) /\ pending[1].state # "recorded"
    BY <2>2, <2>3 DEF Closer
  <2>5. /\ Good(longer, lost)
        /\ Scan(longer).pendingCalls = Tail(pending)
        /\ Scan(longer).openTurn = n /\ Scan(longer).openStep = k
    BY <1>1, <1>3, <1>6, <2>2, <2>4, FirstAnswered
  <2>6. /\ Len(Tail(pending)) = Len(pending) - 1
        /\ \A i \in 1..(Len(pending) - 1) : Tail(pending)[i] = pending[i + 1]
    BY <1>3, <1>6, HeadTailProperties
  <2>7. e.type = "tool/not-started" => ~Recorded(events, Head(e.calls))
    <3>1. CASE e = ToolResult(n, k, c)
      BY <3>1 DEF ToolResult, Event
    <3>2. CASE e = NotStartedResult(n, k, c) /\ pending[1].state # "recorded"
      <4>1. Head(e.calls) = c
        BY <3>2 DEF NotStartedResult, Event
      <4>2. ~Recorded(events, c)
        BY <1>1, <2>1, <3>2 DEF CallsAccounted
      <4> QED BY <4>1, <4>2
    <3> QED BY <2>4, <3>1, <3>2
  <2>. HIDE DEF longer, e
  <2>8. CloserCount(Scan(longer)) = CloserCount(scan) - 1
    BY <1>3, <2>1, <2>2, <2>5, <2>6 DEF CloserCount
  <2>9. ASSUME NEW i \in 1..(CloserCount(scan) - 1)
        PROVE  CloserAt(Scan(longer), i) = CloserAt(scan, i + 1)
    <3>1. i \in Nat /\ (i <= Len(pending) - 1 <=> i + 1 <= Len(pending))
          /\ (i = (Len(pending) - 1) + 1 <=> i + 1 = Len(pending) + 1)
          /\ (i <= Len(pending) - 1 => i \in 1..(Len(pending) - 1))
      BY <1>3, <2>1
    <3>. HIDE DEF pending
    <3> QED BY <2>2, <2>5, <2>6, <3>1 DEF CloserAt, pending
  <2> QED BY <1>4, <1>5, <2>5, <2>7, <2>8, <2>9 DEF longer, e
<1>7. CASE pending = <<>> /\ k # 0
  <2>1. Len(pending) = 0 /\ k \in 1..MaxSteps
    BY <1>3, <1>7
  <2>2. e = StepEnd(n, k)
    BY <1>4, <1>7, <2>1 DEF CloserAt
  <2>3. {p.call : p \in Range(pending)} \subseteq lost
    BY <1>7 DEF Range
  <2>4. /\ Good(longer, lost)
        /\ Scan(longer).pendingCalls = <<>>
        /\ Scan(longer).openTurn = n /\ Scan(longer).openStep = 0
    <3>1. /\ Rules(events).openTurn = n /\ Rules(events).openStep = k
          /\ n \in 1..MaxTurns /\ k \in 1..MaxSteps /\ lost \subseteq lost
      BY <1>1, <1>3, <2>1
    <3>. HIDE DEF n, k
    <3>2. LET more == Append(events, StepEnd(n, k)) IN
          /\ Good(more, lost)
          /\ Scan(more).pendingCalls = <<>>
          /\ Scan(more).openTurn = scan.openTurn /\ Scan(more).openStep = 0
      BY <2>3, <3>1, StepCloses
    <3> QED BY <2>2, <3>2 DEF n
  <2>5. e.type # "tool/not-started"
    BY <2>2 DEF StepEnd, Event
  <2>. HIDE DEF longer, e
  <2>6. Len(<<>>) = 0
    OBVIOUS
  <2>7. CloserCount(Scan(longer)) = 1 /\ CloserCount(scan) = 2
    BY <1>3, <1>7, <2>1, <2>4, <2>6 DEF CloserCount
  <2>8. CloserAt(Scan(longer), 1) = TurnEnd(n) /\ CloserAt(scan, 2) = TurnEnd(n)
    BY <2>1, <2>4, <2>6, <1>7 DEF CloserAt
  <2> QED BY <1>4, <1>5, <2>4, <2>5, <2>7, <2>8 DEF longer, e
<1>8. CASE pending = <<>> /\ k = 0
  <2>1. Len(pending) = 0
    BY <1>8
  <2>2. e = TurnEnd(n)
    BY <1>4, <1>8, <2>1 DEF CloserAt
  <2>3. Good(longer, lost) /\ Scan(longer).openTurn = 0
    BY <1>1, <1>3, <1>8, <2>2, TurnCloses
  <2>4. e.type # "tool/not-started"
    BY <2>2 DEF TurnEnd, Event
  <2>. HIDE DEF longer, e
  <2>5. CloserCount(Scan(longer)) = 0 /\ CloserCount(scan) = 1
    BY <1>3, <1>8, <2>1, <2>3 DEF CloserCount
  <2> QED BY <1>4, <1>5, <2>3, <2>4, <2>5 DEF longer, e
<1> QED BY <1>6, <1>7, <1>8

\* What a log keeps of its beginning.
LEMMA PrefixOfConcat ==
    ASSUME NEW a \in Seq(Events), NEW b \in Seq(Events)
    PROVE  /\ a \o b \in Seq(Events)
           /\ Len(a \o b) = Len(a) + Len(b)
           /\ \A i \in 1..Len(a) : (a \o b)[i] = a[i]
           /\ \A i \in 1..Len(b) : (a \o b)[Len(a) + i] = b[i]
           /\ \A n \in 0..Len(a) : SubSeq(a \o b, 1, n) = SubSeq(a, 1, n)
<1>. DEFINE whole == a \o b
<1>0. Len(a) \in Nat /\ Len(b) \in Nat
  BY LenProperties
<1>1. /\ whole \in Seq(Events)
      /\ Len(whole) = Len(a) + Len(b)
      /\ \A i \in 1..(Len(a) + Len(b)) : whole[i] = IF i <= Len(a) THEN a[i] ELSE b[i - Len(a)]
  BY ConcatProperties, Zenon
<1>. HIDE DEF whole
<1>2. \A i \in 1..Len(a) : whole[i] = a[i]
  BY <1>0, <1>1
<1>3. ASSUME NEW i \in 1..Len(b) PROVE whole[Len(a) + i] = b[i]
  <2>1. /\ Len(a) + i \in 1..(Len(a) + Len(b)) /\ ~(Len(a) + i <= Len(a))
        /\ (Len(a) + i) - Len(a) = i
    BY <1>0
  <2> QED BY <1>1, <2>1
<1>4. ASSUME NEW n \in 0..Len(a) PROVE SubSeq(whole, 1, n) = SubSeq(a, 1, n)
  <2>1. \A i \in 1..n : i \in 1..Len(a) /\ whole[i] = a[i]
    BY <1>0, <1>2
  <2> QED BY <1>0, <1>1, <2>1
<1> QED BY <1>1, <1>2, <1>3, <1>4 DEF whole

\* A call recorded in a prefix is recorded.
LEMMA RecordedPrefix ==
    ASSUME NEW events \in Seq(Events), NEW n \in 0..Len(events), NEW call,
           Recorded(SubSeq(events, 1, n), call)
    PROVE  Recorded(events, call)
<1>1. /\ Len(events) \in Nat /\ DOMAIN SubSeq(events, 1, n) = 1..n
      /\ \A i \in 1..n : SubSeq(events, 1, n)[i] = events[i] /\ i \in DOMAIN events
  OBVIOUS
<1> QED BY <1>1 DEF Recorded

\* Wherever a repair is cut off, what it leaves is good; and what it reports as
\* never started the log had no record of.
LEMMA RepairIsGood ==
    ASSUME NEW events, NEW lost, Good(events, lost)
    PROVE  LET closers == Closers(events)
               whole == events \o closers
           IN  /\ closers \in Seq(Events)
               /\ \A k \in 0..Len(closers) : Good(SubSeq(whole, 1, Len(events) + k), lost)
               /\ \A i \in 1..Len(closers) :
                     closers[i].type = "tool/not-started" =>
                         ~Recorded(events, Head(closers[i].calls))
<1>. DEFINE closers == Closers(events)
            whole == events \o closers
            Q(k) == SubSeq(whole, 1, Len(events) + k)
<1>1. events \in Seq(Events) /\ closers \in Seq(Events)
  BY ClosersByPosition DEF Good, Agree
<1>. HIDE DEF closers
<1>2. /\ whole \in Seq(Events) /\ Len(events) \in Nat /\ Len(closers) \in Nat
      /\ Len(whole) = Len(events) + Len(closers)
      /\ \A i \in 1..Len(closers) : whole[Len(events) + i] = closers[i]
      /\ \A n \in 0..Len(events) : SubSeq(whole, 1, n) = SubSeq(events, 1, n)
  BY <1>1, PrefixOfConcat, LenProperties
<1>. HIDE DEF whole
<1>3. Q(0) = events
  BY <1>1, <1>2, SubSeqFull
<1>4. ASSUME NEW k \in 0..(Len(closers) - 1)
      PROVE  Q(k + 1) = Append(Q(k), closers[k + 1])
  <2>1. /\ Len(events) + k \in 0..(Len(whole) - 1) /\ k + 1 \in 1..Len(closers)
        /\ Len(events) + (k + 1) = (Len(events) + k) + 1
    BY <1>2
  <2>2. SubSeq(whole, 1, (Len(events) + k) + 1)
          = Append(SubSeq(whole, 1, Len(events) + k), whole[(Len(events) + k) + 1])
    <3>. DEFINE m == Len(events) + k
    <3>1. m \in 0..(Len(whole) - 1)
      BY <2>1
    <3>. HIDE DEF m
    <3>2. SubSeq(whole, 1, m + 1) = Append(SubSeq(whole, 1, m), whole[m + 1])
      BY <1>2, <3>1
    <3> QED BY <3>2 DEF m
  <2> QED BY <1>2, <2>1, <2>2
<1>. DEFINE Fine == {k \in 0..Len(closers) :
                        Good(Q(k), lost) /\ Closers(Q(k)) = SubSeq(closers, k + 1, Len(closers))}
<1>. HIDE DEF Q
<1>5. 0 \in Fine
  <2>1. Closers(Q(0)) = SubSeq(closers, 1, Len(closers))
    BY <1>1, <1>3, SubSeqFull DEF closers
  <2> QED BY <1>2, <1>3, <2>1
<1>6. ASSUME NEW k \in 0..(Len(closers) - 1), k \in Fine
      PROVE  /\ k + 1 \in Fine
             /\ closers[k + 1].type = "tool/not-started" =>
                    ~Recorded(Q(k), Head(closers[k + 1].calls))
  <2>1. k + 1 \in 1..Len(closers) /\ Len(closers) \in (k + 1)..Len(closers)
    BY <1>2
  <2>2. /\ Len(SubSeq(closers, k + 1, Len(closers))) = Len(closers) - k
        /\ SubSeq(closers, k + 1, Len(closers))[1] = closers[k + 1]
    BY <1>1, <2>1
  <2>3. Closers(Q(k)) # <<>> /\ Closers(Q(k))[1] = closers[k + 1]
    <3>1. Closers(Q(k)) = SubSeq(closers, k + 1, Len(closers))
      BY <1>6
    <3>2. Len(closers) - k # 0 /\ Len(<<>>) = 0
      BY <1>2
    <3>3. Len(Closers(Q(k))) = Len(closers) - k /\ Closers(Q(k))[1] = closers[k + 1]
      BY <2>2, <3>1, Zenon
    <3> QED BY <3>2, <3>3
  <2>4. /\ Good(Append(Q(k), closers[k + 1]), lost)
        /\ Closers(Append(Q(k), closers[k + 1])) = Tail(Closers(Q(k)))
        /\ closers[k + 1].type = "tool/not-started" =>
              ~Recorded(Q(k), Head(closers[k + 1].calls))
    BY <1>6, <2>3, FirstCloser
  <2>5. Tail(SubSeq(closers, k + 1, Len(closers))) = SubSeq(closers, (k + 1) + 1, Len(closers))
    BY <1>1, <2>1, HeadTailOfSubSeq
  <2>6. k + 1 \in 0..Len(closers)
    BY <2>1
  <2> QED BY <1>4, <1>6, <2>4, <2>5, <2>6
<1>7. 0..Len(closers) \subseteq Fine
  <2>1. Len(closers) \in Nat /\ \A k \in 0..(Len(closers) - 1) : k \in Fine => k + 1 \in Fine
    BY <1>2, <1>6
  <2>. HIDE DEF Fine
  <2> QED BY <1>5, <2>1, Checking!Induction
<1>8. ASSUME NEW i \in 1..Len(closers), closers[i].type = "tool/not-started",
             Recorded(events, Head(closers[i].calls))
      PROVE  FALSE
  <2>1. i - 1 \in 0..(Len(closers) - 1) /\ i - 1 \in Fine /\ (i - 1) + 1 = i
    <3>1. i - 1 \in 0..(Len(closers) - 1) /\ i - 1 \in 0..Len(closers) /\ (i - 1) + 1 = i
      BY <1>2
    <3>. HIDE DEF Fine
    <3> QED BY <3>1, <1>7
  <2>2. ~Recorded(Q(i - 1), Head(closers[i].calls))
    BY <1>6, <1>8, <2>1
  <2>3. Q(i - 1) \in Seq(Events) /\ Len(events) \in 0..Len(Q(i - 1))
        /\ SubSeq(Q(i - 1), 1, Len(events)) = events
    <3>. DEFINE m == Len(events) + (i - 1)
    <3>1. m \in 0..Len(whole) /\ Len(events) \in 0..m
      BY <1>2, <2>1
    <3>. HIDE DEF m
    <3>2. /\ SubSeq(whole, 1, m) \in Seq(Events) /\ Len(SubSeq(whole, 1, m)) = m
          /\ SubSeq(SubSeq(whole, 1, m), 1, Len(events)) = SubSeq(whole, 1, Len(events))
      BY <1>2, <3>1
    <3>3. SubSeq(whole, 1, Len(events)) = events
      BY <1>1, <1>2, SubSeqFull
    <3>4. Q(i - 1) = SubSeq(whole, 1, m)
      BY DEF Q, m
    <3> QED BY <3>1, <3>2, <3>3, <3>4
  <2> QED BY <1>8, <2>2, <2>3, RecordedPrefix
<1>9. \A k \in 0..Len(closers) : Good(Q(k), lost)
  BY <1>7
<1> QED BY <1>1, <1>8, <1>9 DEF closers, whole, Q

-----------------------------------------------------------------------------
(* Logs whose every prefix is good, and what they say of effects.            *)

PrefixesGood(events, lost) ==
    /\ events \in Seq(Events)
    /\ \A n \in 0..Len(events) : Good(SubSeq(events, 1, n), lost)

\* NotStartedNeverRan and EffectIsRecorded, of a log confirmed up to its nth event.
Told(events, n, ran) ==
    /\ \A i \in DOMAIN events : events[i].type = "tool/not-started" => Head(events[i].calls) \notin ran
    /\ \A call \in ran : Recorded(SubSeq(events, 1, n), call)

\* The empty log is good.
LEMMA GoodEmpty ==
    ASSUME NEW lost
    PROVE  Good(<<>>, lost)
<1>1. <<>> \in Seq(Events) /\ DOMAIN <<>> = {}
  BY EmptySeq
<1>2. Rules(<<>>) = FreshTrace /\ Scan(<<>>) = FreshScan
  BY FoldsEmpty
<1>3. TurnStarts(<<>>) = {} /\ LastTurn(<<>>) = 0
  BY <1>1 DEF TurnStarts, LastTurn
<1>4. FreshTrace \in Traces /\ FreshScan \in Scans
  <2>1. <<>> \in Seq(Pendings)
    OBVIOUS
  <2> QED BY <2>1, BoundsArePositive DEF FreshTrace, FreshScan, Traces, Scans
<1>5. /\ FreshTrace.legal
      /\ FreshTrace.openTurn = 0 /\ FreshTrace.openStep = 0 /\ FreshTrace.nextTurn = 1
      /\ FreshTrace.calls = {}
      /\ FreshScan.openTurn = 0 /\ FreshScan.openStep = 0 /\ FreshScan.pendingCalls = <<>>
  BY DEF FreshTrace, FreshScan
<1>6. Agree(FreshTrace, FreshScan, 0)
  BY <1>1, <1>4, <1>5 DEF Agree
<1>7. StepOpened(<<>>)
  BY DEF StepOpened
<1>8. CallsAccounted(<<>>, lost)
  <2>1. AskedIn(<<>>) = {}
    BY <1>1 DEF AskedIn
  <2>2. ASSUME NEW call PROVE ResultsOf(<<>>, call) = {} /\ ~Recorded(<<>>, call)
    BY <1>1 DEF ResultsOf, Recorded
  <2> QED BY <1>1, <1>2, <1>5, <2>1, <2>2 DEF CallsAccounted
<1> QED BY <1>1, <1>2, <1>3, <1>6, <1>7, <1>8 DEF Good

\* A log stays good when more calls count as lost.
LEMMA GoodForMore ==
    ASSUME NEW events, NEW lost, Good(events, lost), NEW more, lost \subseteq more
    PROVE  Good(events, more)
<1>1. CallsAccounted(events, more)
  BY DEF Good, CallsAccounted
<1> QED BY <1>1 DEF Good

\* The prefixes of a log with one more event.
LEMMA PrefixesOfAppend ==
    ASSUME NEW events \in Seq(Events), NEW e \in Events
    PROVE  LET longer == Append(events, e) IN
           /\ longer \in Seq(Events) /\ Len(longer) = Len(events) + 1 /\ Len(events) \in Nat
           /\ \A n \in 0..Len(events) : SubSeq(longer, 1, n) = SubSeq(events, 1, n)
           /\ SubSeq(longer, 1, Len(longer)) = longer
<1>1. /\ Append(events, e) \in Seq(Events)
      /\ Len(Append(events, e)) = Len(events) + 1 /\ Len(events) \in Nat
  BY AppendPositions
<1>2. ASSUME NEW n \in 0..Len(events)
      PROVE  SubSeq(Append(events, e), 1, n) = SubSeq(events, 1, n)
  OBVIOUS
<1> QED BY <1>1, <1>2, SubSeqFull

\* A log grows by an event that keeps it good.
LEMMA PrefixesGrow ==
    ASSUME NEW events, NEW lost, PrefixesGood(events, lost), NEW e \in Events,
           NEW more, lost \subseteq more, Good(Append(events, e), more)
    PROVE  PrefixesGood(Append(events, e), more)
<1>. DEFINE longer == Append(events, e)
<1>1. /\ longer \in Seq(Events) /\ Len(longer) = Len(events) + 1 /\ Len(events) \in Nat
      /\ \A n \in 0..Len(events) : SubSeq(longer, 1, n) = SubSeq(events, 1, n)
      /\ SubSeq(longer, 1, Len(longer)) = longer
  BY PrefixesOfAppend DEF PrefixesGood
<1>2. Good(longer, more)
  OBVIOUS
<1>. HIDE DEF longer
<1>3. ASSUME NEW n \in 0..Len(longer) PROVE Good(SubSeq(longer, 1, n), more)
  <2>1. CASE n \in 0..Len(events)
    BY <1>1, <2>1, GoodForMore DEF PrefixesGood
  <2>2. CASE n = Len(longer)
    BY <1>1, <1>2, <2>2
  <2> QED BY <1>1, <2>1, <2>2
<1> QED BY <1>1, <1>3 DEF PrefixesGood, longer

\* What a kill leaves of it.
LEMMA PrefixesShrink ==
    ASSUME NEW events, NEW lost, PrefixesGood(events, lost), NEW m \in 0..Len(events)
    PROVE  /\ PrefixesGood(SubSeq(events, 1, m), lost)
           /\ Len(SubSeq(events, 1, m)) = m
           /\ \A n \in 0..m : SubSeq(SubSeq(events, 1, m), 1, n) = SubSeq(events, 1, n)
<1>1. events \in Seq(Events) /\ Len(events) \in Nat
  BY DEF PrefixesGood
<1>2. SubSeq(events, 1, m) \in Seq(Events) /\ Len(SubSeq(events, 1, m)) = m
  BY <1>1
<1>3. ASSUME NEW n \in 0..m
      PROVE  SubSeq(SubSeq(events, 1, m), 1, n) = SubSeq(events, 1, n) /\ n \in 0..Len(events)
  BY <1>1
<1> QED BY <1>2, <1>3 DEF PrefixesGood

\* What an append of the closers leaves, wherever it is cut off.
LEMMA PrefixesRepaired ==
    ASSUME NEW events, NEW lost, PrefixesGood(events, lost)
    PROVE  LET whole == events \o Closers(events) IN
           /\ PrefixesGood(whole, lost)
           /\ Len(whole) = Len(events) + Len(Closers(events))
           /\ \A n \in 0..Len(events) : SubSeq(whole, 1, n) = SubSeq(events, 1, n)
<1>. DEFINE closers == Closers(events)
            whole == events \o closers
<1>1. events \in Seq(Events) /\ Len(events) \in Nat /\ SubSeq(events, 1, Len(events)) = events
  BY SubSeqFull DEF PrefixesGood
<1>2. Good(events, lost)
  <2>1. Good(SubSeq(events, 1, Len(events)), lost)
    BY <1>1 DEF PrefixesGood
  <2> QED BY <1>1, <2>1
<1>3. /\ closers \in Seq(Events)
      /\ \A k \in 0..Len(closers) : Good(SubSeq(whole, 1, Len(events) + k), lost)
  BY <1>2, RepairIsGood
<1>. HIDE DEF closers
<1>4. /\ whole \in Seq(Events) /\ Len(whole) = Len(events) + Len(closers)
      /\ \A n \in 0..Len(events) : SubSeq(whole, 1, n) = SubSeq(events, 1, n)
      /\ Len(closers) \in Nat
  BY <1>1, <1>3, PrefixOfConcat, LenProperties
<1>. HIDE DEF whole
<1>5. ASSUME NEW n \in 0..Len(whole) PROVE Good(SubSeq(whole, 1, n), lost)
  <2>1. CASE n \in 0..Len(events)
    BY <1>4, <2>1 DEF PrefixesGood
  <2>2. CASE n \notin 0..Len(events)
    <3>1. n - Len(events) \in 0..Len(closers) /\ Len(events) + (n - Len(events)) = n
      BY <1>1, <1>4, <2>2
    <3> QED BY <1>3, <3>1
  <2> QED BY <2>1, <2>2
<1> QED BY <1>4, <1>5 DEF PrefixesGood, whole, closers

-----------------------------------------------------------------------------
(* What the log says of effects stays true. *)

\* Any event but the word that a call was never started.
LEMMA ToldAppend ==
    ASSUME NEW events \in Seq(Events), NEW n \in 0..Len(events), NEW ran, Told(events, n, ran),
           NEW e \in Events, e.type # "tool/not-started"
    PROVE  Told(Append(events, e), n, ran)
<1>. DEFINE longer == Append(events, e)
<1>1. /\ DOMAIN longer = DOMAIN events \cup {Len(events) + 1}
      /\ longer[Len(events) + 1] = e
      /\ \A i \in DOMAIN events : longer[i] = events[i]
  BY AppendPositions
<1>2. SubSeq(longer, 1, n) = SubSeq(events, 1, n)
  BY PrefixesOfAppend
<1>. HIDE DEF longer
<1>3. Told(longer, n, ran)
  BY <1>1, <1>2 DEF Told
<1> QED BY <1>3 DEF longer

\* A kill that keeps what is confirmed.
LEMMA ToldShrinks ==
    ASSUME NEW events \in Seq(Events), NEW m \in 0..Len(events), NEW n \in 0..m,
           NEW ran, Told(events, n, ran)
    PROVE  Told(SubSeq(events, 1, m), n, ran)
<1>. DEFINE prefix == SubSeq(events, 1, m)
<1>1. /\ DOMAIN prefix = 1..m
      /\ \A i \in 1..m : prefix[i] = events[i] /\ i \in DOMAIN events
      /\ SubSeq(prefix, 1, n) = SubSeq(events, 1, n)
  OBVIOUS
<1>. HIDE DEF prefix
<1>2. Told(prefix, n, ran)
  BY <1>1 DEF Told
<1> QED BY <1>2 DEF prefix

\* More is confirmed.
LEMMA ToldConfirmed ==
    ASSUME NEW events \in Seq(Events), NEW n \in 0..Len(events), NEW ran, Told(events, n, ran)
    PROVE  Told(events, Len(events), ran)
<1>1. SubSeq(events, 1, Len(events)) = events
  BY SubSeqFull
<1>2. ASSUME NEW call \in ran PROVE Recorded(events, call)
  BY RecordedPrefix DEF Told
<1> QED BY <1>1, <1>2 DEF Told

\* A repair.
LEMMA ToldRepaired ==
    ASSUME NEW events, NEW lost, PrefixesGood(events, lost), NEW n \in 0..Len(events),
           NEW ran, Told(events, n, ran)
    PROVE  Told(events \o Closers(events), n, ran)
<1>. DEFINE closers == Closers(events)
            whole == events \o closers
<1>1. events \in Seq(Events) /\ Len(events) \in Nat /\ SubSeq(events, 1, Len(events)) = events
  BY SubSeqFull DEF PrefixesGood
<1>2. Good(events, lost)
  <2>1. Good(SubSeq(events, 1, Len(events)), lost)
    BY <1>1 DEF PrefixesGood
  <2> QED BY <1>1, <2>1
<1>3. /\ closers \in Seq(Events)
      /\ \A i \in 1..Len(closers) :
            closers[i].type = "tool/not-started" => ~Recorded(events, Head(closers[i].calls))
  BY <1>2, RepairIsGood
<1>. HIDE DEF closers
<1>4. /\ whole \in Seq(Events) /\ Len(whole) = Len(events) + Len(closers)
      /\ \A i \in 1..Len(events) : whole[i] = events[i]
      /\ \A i \in 1..Len(closers) : whole[Len(events) + i] = closers[i]
      /\ SubSeq(whole, 1, n) = SubSeq(events, 1, n)
      /\ Len(closers) \in Nat
  BY <1>1, <1>3, PrefixOfConcat, LenProperties
<1>. HIDE DEF whole
<1>5. ASSUME NEW i \in DOMAIN whole, whole[i].type = "tool/not-started"
      PROVE  Head(whole[i].calls) \notin ran
  <2>1. CASE i \in DOMAIN events
    <3>1. i \in 1..Len(events)
      BY <1>1, <2>1
    <3> QED BY <1>4, <1>5, <2>1, <3>1 DEF Told
  <2>2. CASE i \notin DOMAIN events
    <3>1. i - Len(events) \in 1..Len(closers) /\ Len(events) + (i - Len(events)) = i
      BY <1>1, <1>4, <2>2
    <3>2. ~Recorded(events, Head(whole[i].calls))
      BY <1>3, <1>4, <1>5, <3>1
    <3>3. \A call \in ran : Recorded(events, call)
      BY <1>1, RecordedPrefix DEF Told
    <3> QED BY <3>2, <3>3
  <2> QED BY <2>1, <2>2
<1> QED BY <1>4, <1>5 DEF Told, whole, closers

-----------------------------------------------------------------------------
(* The file. *)

\* An empty sequence is one of length 0.
LEMMA EmptyLength ==
    ASSUME NEW S, NEW s \in Seq(S)
    PROVE  Len(s) \in Nat /\ (s = <<>> <=> Len(s) = 0) /\ DOMAIN s = 1..Len(s)
<1>1. Len(s) \in Nat /\ DOMAIN s = 1..Len(s)
  BY LenProperties
<1>2. s = <<>> => Len(s) = 0
  BY EmptySeq
<1>3. Len(s) = 0 => s = <<>>
  BY EmptySeq
<1> QED BY <1>1, <1>2, <1>3

\* Line by line it is the beginning of a log; only a torn one ends in a fragment.
Copies(f, events) ==
    /\ f \in Seq(FileLines)
    /\ \A i \in 1..Len(f) :
          IF IsFragment(f[i]) THEN i = Len(f) /\ ~f[i].whole
          ELSE i <= Len(events) /\ f[i].event = events[i]
    /\ IF Torn(f) THEN IsFragment(f[Len(f)]) ELSE \A i \in 1..Len(f) : f[i].whole

\* How many events are read from it.
ReadLen(f) == IF Torn(f) THEN Len(f) - 1 ELSE Len(f)

\* A line with an event is no fragment.
LEMMA LinesTyped ==
    ASSUME NEW e \in Events, NEW w \in BOOLEAN
    PROVE  /\ Line(e, w) \in FileLines /\ ~IsFragment(Line(e, w))
           /\ Line(e, w).event = e /\ (Line(e, w).whole <=> w)
<1>1. /\ Line(e, w).event = e /\ (Line(e, w).whole <=> w)
  BY DEF Line
<1>2. e.type # "fragment"
  BY DEF Events
<1>3. Line(e, w) \in FileLines
  BY Zenon DEF Line, FileLines
<1> QED BY <1>1, <1>2, <1>3 DEF IsFragment

LEMMA FragmentTyped == Fragment \in FileLines /\ IsFragment(Fragment) /\ ~Fragment.whole
<1>1. ASSUME NEW L, NEW e \in L, NEW line, line = [event |-> e, whole |-> FALSE]
      PROVE  line \in [event : L, whole : BOOLEAN]
  BY <1>1
<1>2. PICK e : e = Fragment.event
  OBVIOUS
<1>3. Fragment \in FileLines
  <2>1. Fragment = [event |-> e, whole |-> FALSE]
    BY <1>2 DEF Fragment, Line
  <2>2. FileLines = [event : Events \cup {e}, whole : BOOLEAN]
    BY <1>2 DEF FileLines
  <2>3. e \in Events \cup {e}
    OBVIOUS
  <2> QED BY <1>1, <2>1, <2>2, <2>3
<1>4. Fragment.event.type = "fragment" /\ ~Fragment.whole
  BY DEF Fragment, Line, Event
<1> QED BY <1>3, <1>4 DEF IsFragment

\* An append that arrives in full.
LEMMA WrittenCopies ==
    ASSUME NEW batch \in Seq(Events)
    PROVE  /\ Copies(Written(batch), batch) /\ Len(Written(batch)) = Len(batch)
           /\ ~Torn(Written(batch))
<1>. DEFINE f == Written(batch)
<1>1. Len(batch) \in Nat /\ \A i \in 1..Len(batch) : batch[i] \in Events
  BY LenProperties
<1>2. \A i \in 1..Len(batch) : /\ Line(batch[i], TRUE) \in FileLines
                               /\ ~IsFragment(Line(batch[i], TRUE))
                               /\ Line(batch[i], TRUE).event = batch[i]
                               /\ Line(batch[i], TRUE).whole
  BY <1>1, LinesTyped
<1>3. f = [i \in 1..Len(batch) |-> Line(batch[i], TRUE)]
  BY DEF Written
<1>. HIDE DEF f
<1>4. /\ f \in Seq(FileLines) /\ Len(f) = Len(batch)
      /\ \A i \in 1..Len(batch) : ~IsFragment(f[i]) /\ f[i].event = batch[i] /\ f[i].whole
  <2>1. f \in [1..Len(batch) -> FileLines]
    BY <1>2, <1>3, Zenon
  <2>2. f \in Seq(FileLines) /\ Len(f) = Len(batch)
    BY <1>1, <2>1
  <2>3. \A i \in 1..Len(batch) : f[i] = Line(batch[i], TRUE)
    BY <1>3, Zenon
  <2> QED BY <1>2, <2>2, <2>3, Zenon
<1>5. ~Torn(f)
  <2>1. f # <<>> => Len(f) \in 1..Len(batch)
    BY <1>1, <1>4, EmptyLength
  <2> QED BY <1>4, <2>1 DEF Torn
<1>6. Copies(f, batch)
  BY <1>1, <1>4, <1>5 DEF Copies
<1> QED BY <1>4, <1>5, <1>6 DEF f

\* Its first lines, with or without what is left of the next.
LEMMA PartlyCopies ==
    ASSUME NEW batch \in Seq(Events), NEW n \in 0..Len(batch)
    PROVE  /\ Copies(Append(Partly(batch, n), Fragment), batch)
           /\ ~Framed => Copies(Partly(batch, n), batch)
<1>. DEFINE f == Partly(batch, n)
            torn == Append(f, Fragment)
<1>1. Len(batch) \in Nat /\ n \in Nat /\ \A i \in 1..n : batch[i] \in Events /\ i <= Len(batch)
  BY LenProperties
<1>2. (~Framed) \in BOOLEAN
  BY FramedIsBoolean, Zenon
<1>3. \A i \in 1..n : /\ Line(batch[i], ~Framed) \in FileLines
                      /\ ~IsFragment(Line(batch[i], ~Framed))
                      /\ Line(batch[i], ~Framed).event = batch[i]
                      /\ (Line(batch[i], ~Framed).whole <=> ~Framed)
  BY <1>1, <1>2, LinesTyped
<1>4. f = [i \in 1..n |-> Line(batch[i], ~Framed)]
  BY DEF Partly
<1>. HIDE DEF f
<1>5. /\ f \in Seq(FileLines) /\ Len(f) = n
      /\ \A i \in 1..n : ~IsFragment(f[i]) /\ f[i].event = batch[i] /\ (f[i].whole <=> ~Framed)
  BY <1>1, <1>3, <1>4
<1>6. /\ torn \in Seq(FileLines) /\ Len(torn) = n + 1
      /\ torn[n + 1] = Fragment /\ \A i \in 1..n : torn[i] = f[i]
  BY <1>1, <1>5, FragmentTyped
<1>. HIDE DEF torn
<1>7. Torn(torn)
  BY <1>1, <1>6, FragmentTyped, EmptyLength DEF Torn
<1>8. ASSUME NEW i \in 1..Len(torn)
      PROVE  IF IsFragment(torn[i]) THEN i = Len(torn) /\ ~torn[i].whole
             ELSE i <= Len(batch) /\ torn[i].event = batch[i]
  <2>1. CASE i = n + 1
    BY <1>6, <2>1, FragmentTyped
  <2>2. CASE i \in 1..n
    BY <1>1, <1>5, <1>6, <2>2
  <2> QED BY <1>1, <1>6, <2>1, <2>2
<1>9. Copies(torn, batch)
  BY <1>6, <1>7, <1>8, FragmentTyped DEF Copies
<1>10. ASSUME ~Framed PROVE Copies(f, batch)
  <2>1. ~Torn(f)
    <3>1. f # <<>> => Len(f) \in 1..n
      BY <1>1, <1>5, EmptyLength
    <3> QED BY <1>5, <1>10, <3>1 DEF Torn
  <2> QED BY <1>1, <1>5, <1>10, <2>1 DEF Copies
<1> QED BY <1>9, <1>10 DEF f, torn

\* Whatever arrives of an append.
LEMMA LandedCopies ==
    ASSUME NEW batch \in Seq(Events), NEW landed \in Landed(batch)
    PROVE  Copies(landed, batch)
<1>1. CASE landed = Written(batch)
  BY <1>1, WrittenCopies
<1>2. CASE landed \in {Append(Partly(batch, n), Fragment) :
                          n \in {k \in 0..Len(batch) : Framed \/ k < Len(batch)}}
  BY <1>2, PartlyCopies
<1>3. CASE landed \in {Partly(batch, n) : n \in {k \in 1..Len(batch) : ~Framed}}
  <2>1. PICK n \in {k \in 1..Len(batch) : ~Framed} : landed = Partly(batch, n)
    BY <1>3
  <2>2. ~Framed /\ n \in 0..Len(batch)
    BY LenProperties
  <2> QED BY <2>1, <2>2, PartlyCopies
<1> QED BY <1>1, <1>2, <1>3 DEF Landed

\* An append behind a whole file.
LEMMA CopiesConcat ==
    ASSUME NEW events \in Seq(Events), NEW f, Copies(f, events), ~Torn(f),
           NEW m \in Len(f)..Len(events), NEW g, Copies(g, SubSeq(events, Len(f) + 1, m))
    PROVE  /\ Copies(f \o g, events) /\ Len(f \o g) = Len(f) + Len(g)
           /\ Len(f) \in Nat /\ Len(g) \in Nat
           /\ \A i \in 1..Len(f) : (f \o g)[i] = f[i]
           /\ Torn(f \o g) <=> Torn(g)
<1>. DEFINE whole == f \o g
            batch == SubSeq(events, Len(f) + 1, m)
<1>1. /\ f \in Seq(FileLines) /\ g \in Seq(FileLines) /\ Len(events) \in Nat
      /\ Len(f) \in Nat /\ Len(g) \in Nat
  BY LenProperties DEF Copies
<1>2. /\ whole \in Seq(FileLines) /\ Len(whole) = Len(f) + Len(g)
      /\ \A i \in 1..(Len(f) + Len(g)) : whole[i] = IF i <= Len(f) THEN f[i] ELSE g[i - Len(f)]
  BY <1>1, ConcatProperties, Zenon
<1>3. /\ m \in Nat /\ Len(batch) = m - Len(f)
      /\ \A i \in 1..(m - Len(f)) : batch[i] = events[i + Len(f)]
  BY <1>1
<1>. HIDE DEF whole, batch
<1>4. \A i \in 1..Len(f) : whole[i] = f[i] /\ f[i].whole /\ ~IsFragment(f[i])
                           /\ i <= Len(events) /\ f[i].event = events[i]
  BY <1>1, <1>2 DEF Copies
<1>5. \A i \in 1..Len(g) : whole[Len(f) + i] = g[i]
  <2>. TAKE i \in 1..Len(g)
  <2>1. /\ Len(f) + i \in 1..(Len(f) + Len(g)) /\ ~(Len(f) + i <= Len(f))
        /\ (Len(f) + i) - Len(f) = i
    BY <1>1
  <2> QED BY <1>2, <2>1
<1>6. Copies(g, batch)
  BY DEF batch
<1>7. Torn(whole) <=> Torn(g)
  <2>1. CASE Len(g) = 0
    <3>1. g = <<>> /\ Len(whole) = Len(f)
      BY <1>1, <1>2, <2>1, EmptyLength
    <3>2. ~Torn(whole)
      <4>1. whole # <<>> => Len(whole) \in 1..Len(f)
        BY <1>1, <1>2, <3>1, EmptyLength
      <4> QED BY <1>4, <4>1 DEF Torn
    <3> QED BY <3>1, <3>2 DEF Torn
  <2>2. CASE Len(g) # 0
    <3>1. /\ g # <<>> /\ whole # <<>> /\ Len(g) \in 1..Len(g) /\ Len(whole) = Len(f) + Len(g)
      BY <1>1, <1>2, <2>2, EmptyLength
    <3>2. whole[Len(whole)] = g[Len(g)]
      BY <1>5, <3>1
    <3> QED BY <3>1, <3>2 DEF Torn
  <2> QED BY <2>1, <2>2
<1>8. ASSUME NEW i \in 1..Len(whole)
      PROVE  /\ IF IsFragment(whole[i]) THEN i = Len(whole) /\ ~whole[i].whole
                ELSE i <= Len(events) /\ whole[i].event = events[i]
             /\ ~Torn(g) => whole[i].whole
  <2>1. CASE i <= Len(f)
    <3>1. i \in 1..Len(f)
      BY <1>1, <1>2, <2>1
    <3> QED BY <1>4, <3>1
  <2>2. CASE ~(i <= Len(f))
    <3>. DEFINE j == i - Len(f)
    <3>1. j \in 1..Len(g) /\ Len(f) + j = i
      BY <1>1, <1>2, <2>2
    <3>2. whole[i] = g[j]
      BY <1>5, <3>1
    <3>3. /\ IF IsFragment(g[j]) THEN j = Len(g) /\ ~g[j].whole
             ELSE j <= Len(batch) /\ g[j].event = batch[j]
          /\ ~Torn(g) => g[j].whole
      BY <1>6, <3>1 DEF Copies
    <3>. HIDE DEF j
    <3>4. CASE IsFragment(g[j])
      BY <1>2, <3>1, <3>2, <3>3, <3>4
    <3>5. CASE ~IsFragment(g[j])
      <4>1. j \in 1..(m - Len(f)) /\ g[j].event = batch[j]
        BY <1>1, <1>3, <3>1, <3>3, <3>5
      <4>2. batch[j] = events[i] /\ i <= Len(events)
        BY <1>1, <1>3, <3>1, <4>1
      <4> QED BY <3>2, <3>3, <3>5, <4>1, <4>2
    <3> QED BY <3>4, <3>5
  <2> QED BY <2>1, <2>2
<1>9. Torn(whole) => IsFragment(whole[Len(whole)])
  <2>1. SUFFICES ASSUME Torn(whole) PROVE IsFragment(whole[Len(whole)])
    OBVIOUS
  <2>2. Torn(g) /\ g # <<>>
    BY <1>7, <2>1 DEF Torn
  <2>3. Len(g) \in 1..Len(g) /\ IsFragment(g[Len(g)])
    BY <1>1, <1>6, <2>2, EmptyLength DEF Copies
  <2> QED BY <1>2, <1>5, <2>3
<1>10. Copies(whole, events)
  BY <1>2, <1>7, <1>8, <1>9 DEF Copies
<1>11. /\ Copies(whole, events) /\ Len(whole) = Len(f) + Len(g)
       /\ \A i \in 1..Len(f) : whole[i] = f[i]
       /\ Torn(whole) <=> Torn(g)
  BY <1>2, <1>4, <1>7, <1>10
<1> QED BY <1>1, <1>11 DEF whole

\* A copy of a log is one of every longer log.
LEMMA CopiesMore ==
    ASSUME NEW f, NEW events \in Seq(Events), Copies(f, events), NEW more \in Seq(Events),
           Len(events) <= Len(more), \A i \in 1..Len(events) : more[i] = events[i]
    PROVE  Copies(f, more)
<1>1. Len(events) \in Nat /\ Len(more) \in Nat /\ Len(f) \in Nat
  BY LenProperties DEF Copies
<1>2. ASSUME NEW i \in 1..Len(f), ~IsFragment(f[i])
      PROVE  i <= Len(more) /\ f[i].event = more[i]
  <2>1. i \in 1..Len(events) /\ f[i].event = events[i]
    BY <1>1, <1>2 DEF Copies
  <2> QED BY <1>1, <2>1
<1> QED BY <1>2 DEF Copies

\* Its beginning, as far as it is whole.
LEMMA CopiesCut ==
    ASSUME NEW f, NEW events \in Seq(Events), Copies(f, events),
           NEW n \in 0..Len(f), \A i \in 1..n : f[i].whole
    PROVE  /\ Copies(Truncated(f, n), events) /\ ~Torn(Truncated(f, n))
           /\ Len(Truncated(f, n)) = n
           /\ \A i \in 1..n : Truncated(f, n)[i] = f[i]
           /\ n <= Len(events)
<1>. DEFINE cut == Truncated(f, n)
<1>1. f \in Seq(FileLines) /\ Len(f) \in Nat /\ n \in Nat /\ Len(events) \in Nat
  BY LenProperties DEF Copies
<1>2. cut \in Seq(FileLines) /\ Len(cut) = n /\ \A i \in 1..n : cut[i] = f[i]
  BY <1>1 DEF Truncated
<1>. HIDE DEF cut
<1>3. \A i \in 1..n : ~IsFragment(f[i]) /\ i <= Len(events) /\ f[i].event = events[i]
  BY <1>1 DEF Copies
<1>4. ~Torn(cut)
  <2>1. cut # <<>> => n \in 1..n
    BY <1>1, <1>2, EmptyLength
  <2> QED BY <1>2, <2>1 DEF Torn
<1>5. Copies(cut, events)
  BY <1>2, <1>3, <1>4 DEF Copies
<1>6. n <= Len(events)
  <2>1. CASE n = 0
    BY <1>1, <2>1
  <2>2. CASE n # 0
    <3>1. n \in 1..n
      BY <1>1, <2>2
    <3> QED BY <1>3, <3>1
  <2> QED BY <2>1, <2>2
<1>7. /\ Copies(cut, events) /\ ~Torn(cut) /\ Len(cut) = n /\ \A i \in 1..n : cut[i] = f[i]
  BY <1>2, <1>4, <1>5
<1> QED BY <1>6, <1>7 DEF cut

\* What is read from it.
LEMMA ReadCopies ==
    ASSUME NEW f, NEW events \in Seq(Events), Copies(f, events)
    PROVE  /\ Len(f) \in Nat /\ ReadLen(f) \in 0..Len(f) /\ ReadLen(f) <= Len(events)
           /\ Read(f) = SubSeq(events, 1, ReadLen(f))
           /\ Len(Read(f)) = ReadLen(f) /\ Read(f) \in Seq(Events)
           /\ Copies(f, Read(f))
<1>. DEFINE n == ReadLen(f)
            prefix == SubSeq(events, 1, n)
<1>1. f \in Seq(FileLines) /\ Len(f) \in Nat /\ Len(events) \in Nat
  BY LenProperties DEF Copies
<1>2. Torn(f) => Len(f) \in 1..Len(f) /\ IsFragment(f[Len(f)])
  BY <1>1, EmptyLength DEF Torn, Copies
<1>3. n \in 0..Len(f) /\ n = (IF Torn(f) THEN Len(f) - 1 ELSE Len(f))
  BY <1>1, <1>2 DEF ReadLen
<1>. HIDE DEF n
<1>3a. n \in Nat
  <2>1. n \in 0..Len(f)
    BY <1>3, Zenon
  <2> QED BY <1>1, <2>1
<1>4. ASSUME NEW i \in 1..n
      PROVE  i \in 1..Len(f) /\ ~IsFragment(f[i]) /\ i <= Len(events) /\ f[i].event = events[i]
  <2>1. i \in 1..Len(f) /\ (Torn(f) => i # Len(f))
    <3>1. CASE Torn(f)
      BY <1>1, <1>3, <3>1
    <3>2. CASE ~Torn(f)
      <4>1. n = Len(f)
        BY <1>3, <3>2, Zenon
      <4> QED BY <3>2, <4>1
    <3> QED BY <3>1, <3>2
  <2>2. ~IsFragment(f[i])
    BY <2>1 DEF Copies
  <2> QED BY <2>1, <2>2 DEF Copies
<1>5. n <= Len(events)
  <2>1. CASE n = 0
    BY <1>1, <2>1
  <2>2. CASE n # 0
    <3>1. n \in 1..n
      BY <1>3a, <2>2
    <3> QED BY <1>4, <3>1
  <2> QED BY <2>1, <2>2
<1>6. Readable(f) = 0..n
  <2>1. ASSUME NEW k \in 0..n PROVE k \in Readable(f)
    <3>1. k \in 0..Len(f) /\ \A i \in 1..k : i \in 1..n
      BY <1>1, <1>3
    <3> QED BY <1>4, <3>1 DEF Readable
  <2>2. ASSUME NEW k \in Readable(f) PROVE k \in 0..n
    <3>1. k \in 0..Len(f) /\ \A i \in 1..k : ~IsFragment(f[i])
      BY DEF Readable
    <3>2. Torn(f) => k # Len(f)
      BY <1>1, <1>2, <3>1
    <3> QED BY <1>1, <1>3, <3>1, <3>2
  <2> QED BY <2>1, <2>2
<1>7. Max(Readable(f)) = n
  <2>1. n \in 0..n /\ \A k \in 0..n : n >= k
    BY <1>3
  <2>2. \A k \in 0..n : (\A j \in 0..n : k >= j) => k = n
    BY <1>3
  <2> QED BY <1>6, <2>1, <2>2 DEF Max
<1>8. Read(f) = [i \in 1..n |-> f[i].event]
  BY <1>7 DEF Read
<1>9. prefix \in Seq(Events) /\ Len(prefix) = n /\ \A i \in 1..n : prefix[i] = events[i]
  BY <1>1, <1>3, <1>5
<1>10. prefix = [i \in 1..n |-> events[i]]
  BY <1>1, <1>3, <1>5
<1>. HIDE DEF prefix
<1>11. Read(f) = prefix
  <2>1. [i \in 1..n |-> f[i].event] = [i \in 1..n |-> events[i]]
    BY <1>4
  <2> QED BY <1>8, <1>10, <2>1
<1>12. Copies(f, prefix)
  <2>1. ASSUME NEW i \in 1..Len(f), ~IsFragment(f[i])
        PROVE  i <= Len(prefix) /\ f[i].event = prefix[i]
    <3>1. i \in 1..n
      BY <1>1, <1>2, <1>3, <2>1
    <3> QED BY <1>4, <1>9, <3>1
  <2> QED BY <2>1 DEF Copies
<1> QED BY <1>1, <1>3, <1>5, <1>9, <1>11, <1>12 DEF n, prefix

\* It is whole at least as far as its confirmed lines are, and cut no earlier.
LEMMA TornStartFacts ==
    ASSUME NEW f, NEW events, Copies(f, events), NEW n \in 0..Len(f), \A i \in 1..n : f[i].whole
    PROVE  /\ TornStart(f) \in 0..Len(f) /\ TornStart(f) >= n
           /\ \A i \in 1..TornStart(f) : f[i].whole
<1>. DEFINE S == WholeUpTo(f)
<1>1. Len(f) \in Nat
  BY LenProperties DEF Copies
<1>2. n \in S /\ \A k \in S : k \in 0..Len(f) /\ \A i \in 1..k : f[i].whole
  BY DEF WholeUpTo
<1>. HIDE DEF S
<1>3. \E k \in S : \A j \in S : j <= k
  <2>1. S \in SUBSET (0..Len(f)) /\ S # {}
    BY <1>2
  <2> QED BY <1>1, <2>1, Greatest
<1>4. \E k \in S : \A j \in S : k >= j
  BY <1>1, <1>2, <1>3
<1>5. TornStart(f) \in S /\ \A j \in S : TornStart(f) >= j
  BY <1>4 DEF TornStart, Max, S
<1> QED BY <1>2, <1>5

-----------------------------------------------------------------------------
(* The inductive invariant: every log a kill can leave is good, the live     *)
(* agent goes on where the log ends, and no effect is without its record.    *)

\* LiveAgrees, of a log, the calls still to be recorded and the agent's turn.
Follows(events, asked, last) ==
    LET pending == Scan(events).pendingCalls
    IN  /\ last = LastTurn(events)
        /\ Len(asked) <= Len(pending)
        /\ \A i \in DOMAIN pending :
              IF i <= Len(pending) - Len(asked) THEN pending[i].state = "recorded"
              ELSE /\ pending[i].state = "asked"
                   /\ pending[i].call = asked[i - (Len(pending) - Len(asked))]

\* The file holds the beginning of the log, whole as far as it is confirmed: all of
\* it where no append is under way, and what a loader has read beyond it otherwise.
FileInv ==
    /\ Copies(disk, log)
    /\ synced <= Len(disk) /\ \A i \in 1..synced : disk[i].whole
    /\ IF up THEN recovered = <<>> /\ (rollback = {} => Len(disk) = synced)
       ELSE /\ rollback = {}
            /\ IF Torn(disk) THEN recovered = <<>> /\ Len(log) = ReadLen(disk)
               ELSE recovered = SubSeq(log, Len(disk) + 1, Len(log))

RecoveryInv ==
    /\ TypeOK
    /\ FileInv
    /\ PrefixesGood(log, abandoned)
    /\ Told(log, synced, executed)
    /\ IF up THEN Follows(log, todo, lastTurn) ELSE todo = <<>>

\* The events an agent writes are events.
LEMMA EventsTyped ==
    ASSUME NEW n \in 1..MaxTurns, NEW k \in 0..MaxSteps, NEW calls \in Seq(Calls), NEW c \in Calls
    PROVE  /\ TurnStart(n) \in Events /\ TurnEnd(n) \in Events
           /\ StepStart(n, k) \in Events /\ StepEnd(n, k) \in Events
           /\ AssistantMessage(n, k, calls) \in Events
           /\ ToolCall(n, k, c) \in Events /\ ToolResult(n, k, c) \in Events
<1>1. <<>> \in Seq(Calls) /\ <<c>> \in Seq(Calls) /\ 0 \in 0..MaxSteps
  BY BoundsArePositive
<1> QED BY <1>1 DEF TurnStart, TurnEnd, StepStart, StepEnd, AssistantMessage, ToolCall,
                    ToolResult, Event, Events

\* The turn and the step a live agent is in.
LEMMA LiveFacts ==
    ASSUME RecoveryInv, up
    PROVE  /\ log \in Seq(Events) /\ synced \in 0..Len(log)
           /\ Good(log, abandoned) /\ Follows(log, todo, lastTurn)
           /\ Pending \in Seq(Pendings) /\ todo \in Seq(Calls)
           /\ Trace.openTurn = 0 => lastTurn + 1 = Trace.nextTurn /\ Trace.openStep = 0
           /\ Trace.openTurn # 0 => lastTurn = Trace.openTurn /\ lastTurn \in 1..MaxTurns
           /\ Trace.openStep # 0 => Trace.openTurn # 0 /\ Trace.openStep \in 1..MaxSteps
           /\ Trace.openStep = 0 => Pending = <<>> /\ todo = <<>>
<1>1. log \in Seq(Events) /\ synced \in 0..Len(log) /\ todo \in Seq(Calls) /\ lastTurn \in 0..MaxTurns
  BY DEF RecoveryInv, TypeOK
<1>2. Good(log, abandoned)
  <2>1. Good(SubSeq(log, 1, Len(log)), abandoned)
    BY <1>1 DEF RecoveryInv, PrefixesGood
  <2> QED BY <1>1, <2>1, SubSeqFull
<1>3. Follows(log, todo, lastTurn)
  BY DEF RecoveryInv
<1>. DEFINE t == Trace
            scan == Scan(log)
<1>4. Agree(t, scan, LastTurn(log)) /\ Pending = scan.pendingCalls
  BY <1>2 DEF Good, Trace, Pending
<1>5. lastTurn = LastTurn(log) /\ Len(todo) <= Len(Pending)
  BY <1>3 DEF Follows, Pending
<1>. HIDE DEF t, scan
<1>6. /\ t.openTurn \in 0..MaxTurns /\ t.openStep \in 0..MaxSteps /\ t.nextTurn \in Nat \ {0}
      /\ scan.pendingCalls \in Seq(Pendings)
  BY <1>4 DEF Agree, Traces, Scans
<1>7. /\ t.openTurn = 0 => lastTurn + 1 = t.nextTurn /\ t.openStep = 0
      /\ t.openTurn # 0 => lastTurn = t.openTurn /\ lastTurn \in 1..MaxTurns
      /\ t.openStep # 0 => t.openTurn # 0 /\ t.openStep \in 1..MaxSteps
  BY <1>1, <1>4, <1>5, <1>6, BoundsArePositive DEF Agree
<1>8. ASSUME t.openStep = 0 PROVE Pending = <<>> /\ todo = <<>>
  <2>1. Pending = <<>>
    BY <1>4, <1>8, NothingPending
  <2>2. Len(Pending) = 0
    BY <2>1
  <2> QED BY <1>1, <1>5, <2>1, <2>2, EmptyLength
<1> QED BY <1>1, <1>2, <1>3, <1>4, <1>6, <1>7, <1>8 DEF t

\* One more event of a live agent.
LEMMA Appended ==
    ASSUME RecoveryInv, up, up' = up, file' = file, synced' = synced, executed' = executed, crashes' = crashes,
           NEW e \in Events, e.type # "tool/not-started", log' = Append(log, e),
           abandoned \subseteq abandoned', abandoned' \subseteq Calls,
           Good(Append(log, e), abandoned'),
           todo' \in Seq(Calls), lastTurn' \in 0..MaxTurns,
           Follows(Append(log, e), todo', lastTurn')
    PROVE  RecoveryInv'
<1>1. log \in Seq(Events) /\ synced \in 0..Len(log) /\ PrefixesGood(log, abandoned)
      /\ Told(log, synced, executed)
  BY DEF RecoveryInv, TypeOK
<1>2. PrefixesGood(Append(log, e), abandoned')
  BY <1>1, PrefixesGrow
<1>3. Told(Append(log, e), synced, executed)
  BY <1>1, ToldAppend
<1>4. TypeOK'
  <2>1. Append(log, e) \in Seq(Events) /\ synced \in 0..Len(Append(log, e))
    BY <1>1, AppendPositions
  <2> QED BY <2>1 DEF RecoveryInv, TypeOK, file
<1>5. FileInv'
  <2>1. Copies(disk, Append(log, e))
    <3>1. /\ Append(log, e) \in Seq(Events) /\ Len(log) <= Len(Append(log, e))
          /\ \A i \in 1..Len(log) : Append(log, e)[i] = log[i]
      BY <1>1, AppendPositions
    <3> QED BY <1>1, <3>1, CopiesMore DEF RecoveryInv, FileInv
  <2> QED BY <2>1 DEF RecoveryInv, FileInv, file
<1> QED BY <1>2, <1>3, <1>4, <1>5 DEF RecoveryInv

-----------------------------------------------------------------------------
(* The live agent's steps. *)

\* Where nothing is pending there is nothing left to ask for.
LEMMA FollowsIdle ==
    ASSUME NEW events, Scan(events).pendingCalls = <<>>, NEW last, last = LastTurn(events)
    PROVE  Follows(events, <<>>, last)
<1>1. Len(<<>>) = 0 /\ DOMAIN <<>> = {}
  OBVIOUS
<1> QED BY <1>1 DEF Follows

\* A turn opens.
LEMMA OpenTurnStep == RecoveryInv /\ OpenTurn => RecoveryInv'
<1> SUFFICES ASSUME RecoveryInv, OpenTurn PROVE RecoveryInv'
  OBVIOUS
<1>. DEFINE n == lastTurn + 1
            e == TurnStart(n)
<1>1. /\ Good(log, abandoned) /\ Trace.openTurn = 0
      /\ n = Trace.nextTurn /\ todo = <<>> /\ lastTurn \in 0..MaxTurns
  BY LiveFacts DEF OpenTurn, RecoveryInv, TypeOK
<1>2. n \in 1..MaxTurns
  BY <1>1, BoundsArePositive DEF OpenTurn
<1>3. e \in Events /\ e.type # "tool/not-started"
  <2>1. 0 \in 0..MaxSteps
    BY BoundsArePositive
  <2>2. <<>> \in Seq(Calls)
    OBVIOUS
  <2> QED BY <1>2, <2>1, <2>2 DEF TurnStart, Event, Events
<1>4. /\ Good(Append(log, e), abandoned)
      /\ Scan(Append(log, e)).pendingCalls = <<>> /\ LastTurn(Append(log, e)) = n
  BY <1>1, <1>2, TurnOpens DEF Trace
<1>5. Follows(Append(log, e), <<>>, n)
  BY <1>4, FollowsIdle
<1>6. /\ up /\ up' = up /\ file' = file /\ synced' = synced /\ executed' = executed /\ crashes' = crashes
      /\ log' = Append(log, e) /\ lastTurn' = n /\ todo' = todo /\ abandoned' = abandoned
  BY DEF OpenTurn, Append1
<1>7. abandoned \subseteq Calls /\ todo \in Seq(Calls) /\ n \in 0..MaxTurns
  BY <1>2 DEF RecoveryInv, TypeOK
<1>. HIDE DEF e, n
<1> QED BY <1>1, <1>3, <1>4, <1>5, <1>6, <1>7, Appended

\* A turn closes.
LEMMA CloseTurnStep == RecoveryInv /\ CloseTurn => RecoveryInv'
<1> SUFFICES ASSUME RecoveryInv, CloseTurn PROVE RecoveryInv'
  OBVIOUS
<1>. DEFINE e == TurnEnd(lastTurn)
<1>1. /\ Good(log, abandoned) /\ Trace.openTurn = lastTurn /\ Trace.openStep = 0
      /\ todo = <<>> /\ lastTurn \in 1..MaxTurns /\ lastTurn = LastTurn(log)
  BY LiveFacts DEF CloseTurn, Follows
<1>2. e \in Events /\ e.type # "tool/not-started"
  <2>1. 0 \in 0..MaxSteps
    BY BoundsArePositive
  <2>2. <<>> \in Seq(Calls)
    OBVIOUS
  <2> QED BY <1>1, <2>1, <2>2 DEF TurnEnd, Event, Events
<1>3. /\ Good(Append(log, e), abandoned)
      /\ Scan(Append(log, e)).pendingCalls = <<>> /\ LastTurn(Append(log, e)) = LastTurn(log)
  BY <1>1, TurnCloses DEF Trace
<1>4. Follows(Append(log, e), <<>>, lastTurn)
  BY <1>1, <1>3, FollowsIdle
<1>5. /\ up /\ up' = up /\ file' = file /\ synced' = synced /\ executed' = executed /\ crashes' = crashes
      /\ log' = Append(log, e) /\ lastTurn' = lastTurn /\ todo' = todo /\ abandoned' = abandoned
  BY DEF CloseTurn, Append1
<1>6. abandoned \subseteq Calls /\ todo \in Seq(Calls) /\ lastTurn \in 0..MaxTurns
  BY DEF RecoveryInv, TypeOK
<1>. HIDE DEF e
<1> QED BY <1>1, <1>2, <1>3, <1>4, <1>5, <1>6, Appended

\* A step opens.
LEMMA OpenStepStep == RecoveryInv /\ OpenStep => RecoveryInv'
<1> SUFFICES ASSUME RecoveryInv, OpenStep PROVE RecoveryInv'
  OBVIOUS
<1>. DEFINE k == Trace.nextStep
            e == StepStart(lastTurn, k)
<1>1. /\ Good(log, abandoned) /\ Trace.openTurn = lastTurn /\ Trace.openStep = 0
      /\ todo = <<>> /\ lastTurn \in 1..MaxTurns /\ lastTurn = LastTurn(log)
  BY LiveFacts DEF OpenStep, Follows
<1>2. k \in 1..MaxSteps
  <2>1. Rules(log) \in Traces
    BY <1>1 DEF Good, Agree
  <2>2. k \in Nat \ {0}
    BY <2>1 DEF Trace, Traces
  <2>. HIDE DEF k
  <2>3. k <= MaxSteps
    BY DEF OpenStep, k
  <2> QED BY <2>2, <2>3, BoundsArePositive
<1>3. e \in Events /\ e.type # "tool/not-started"
  <2>1. k \in 0..MaxSteps
    BY <1>2
  <2>2. <<>> \in Seq(Calls)
    OBVIOUS
  <2>. HIDE DEF k
  <2> QED BY <1>1, <2>1, <2>2 DEF StepStart, Event, Events
<1>4. /\ Good(Append(log, e), abandoned)
      /\ Scan(Append(log, e)).pendingCalls = <<>> /\ LastTurn(Append(log, e)) = LastTurn(log)
  BY <1>1, <1>2, StepOpens DEF Trace
<1>5. Follows(Append(log, e), <<>>, lastTurn)
  BY <1>1, <1>4, FollowsIdle
<1>6. /\ up /\ up' = up /\ file' = file /\ synced' = synced /\ executed' = executed /\ crashes' = crashes
      /\ log' = Append(log, e) /\ lastTurn' = lastTurn /\ todo' = todo /\ abandoned' = abandoned
  BY DEF OpenStep, Append1
<1>7. abandoned \subseteq Calls /\ todo \in Seq(Calls) /\ lastTurn \in 0..MaxTurns
  BY DEF RecoveryInv, TypeOK
<1>. HIDE DEF e, k
<1> QED BY <1>1, <1>3, <1>4, <1>5, <1>6, <1>7, Appended

\* A step closes; what it leaves unanswered is abandoned.
LEMMA CloseStepStep == RecoveryInv /\ CloseStep => RecoveryInv'
<1> SUFFICES ASSUME RecoveryInv, CloseStep PROVE RecoveryInv'
  OBVIOUS
<1>. DEFINE k == Trace.openStep
            e == StepEnd(lastTurn, k)
            more == abandoned \cup {p.call : p \in Range(Pending)}
<1>1. /\ Good(log, abandoned) /\ Trace.openTurn = lastTurn /\ k \in 1..MaxSteps
      /\ lastTurn \in 1..MaxTurns /\ lastTurn = LastTurn(log) /\ Pending \in Seq(Pendings)
  BY LiveFacts DEF CloseStep, Follows
<1>2. e \in Events /\ e.type # "tool/not-started"
  <2>1. k \in 0..MaxSteps
    BY <1>1
  <2>2. <<>> \in Seq(Calls)
    OBVIOUS
  <2>. HIDE DEF k
  <2> QED BY <1>1, <2>1, <2>2 DEF StepEnd, Event, Events
<1>3. abandoned \subseteq Calls
  BY DEF RecoveryInv, TypeOK
<1>4. more \subseteq Calls
  <2>1. ASSUME NEW p \in Range(Pending) PROVE p.call \in Calls
    <3>1. Range(Pending) \subseteq Pendings
      BY <1>1 DEF Range
    <3> QED BY <3>1 DEF Pendings
  <2> QED BY <1>3, <2>1
<1>5. abandoned \subseteq more /\ {p.call : p \in Range(Scan(log).pendingCalls)} \subseteq more
  BY DEF Pending
<1>. HIDE DEF more
<1>6. /\ Good(Append(log, e), more)
      /\ Scan(Append(log, e)).pendingCalls = <<>> /\ LastTurn(Append(log, e)) = LastTurn(log)
  BY <1>1, <1>5, StepCloses, ZenonT(60) DEF Trace
<1>7. Follows(Append(log, e), <<>>, lastTurn)
  BY <1>1, <1>6, FollowsIdle
<1>8. /\ up /\ up' = up /\ file' = file /\ synced' = synced /\ executed' = executed /\ crashes' = crashes
      /\ log' = Append(log, e) /\ lastTurn' = lastTurn /\ todo' = <<>> /\ abandoned' = more
  BY DEF CloseStep, Append1, more
<1>9. <<>> \in Seq(Calls) /\ lastTurn \in 0..MaxTurns
  BY DEF RecoveryInv, TypeOK
<1>. HIDE DEF e, k
<1> QED BY <1>2, <1>4, <1>5, <1>6, <1>7, <1>8, <1>9, Appended

\* The model answers the open step.
LEMMA AnswerStep ==
    ASSUME RecoveryInv, NEW calls \in Batches, Answer(calls)
    PROVE  RecoveryInv'
<1>. DEFINE k == Trace.openStep
            e == AssistantMessage(lastTurn, k, calls)
            pending == Unanswered(k, calls)
<1>1. log # <<>> /\ Last(log).type = "step/start" /\ up
  BY DEF Answer
<1>2. Good(log, abandoned) /\ lastTurn = LastTurn(log)
  BY <1>1, LiveFacts DEF Follows
<1>3. k # 0 /\ Scan(log).pendingCalls = <<>>
  BY <1>1, <1>2 DEF Good, StepOpened, Trace
<1>4. Trace.openTurn = lastTurn /\ k \in 1..MaxSteps /\ lastTurn \in 1..MaxTurns
  BY <1>1, <1>3, LiveFacts
<1>5. /\ calls \in Seq(Calls) /\ DOMAIN calls = 1..Len(calls) /\ Len(calls) \in Nat
      /\ \A i \in DOMAIN calls : calls[i] \notin AskedIn(log)
      /\ \A i, j \in DOMAIN calls : calls[i] = calls[j] => i = j
  <2>1. Cardinality(Calls) \in Nat
    BY BoundsArePositive, FS_CardinalityType
  <2>2. PICK m \in 0..Cardinality(Calls) : calls \in [1..m -> Calls \ AskedIn(log)]
    BY DEF Batches
  <2>3. m \in Nat
    BY <2>1
  <2>4. calls \in Seq(Calls \ AskedIn(log))
    BY <2>2, <2>3
  <2>5. calls \in Seq(Calls) /\ DOMAIN calls = 1..Len(calls) /\ Len(calls) \in Nat
    BY <2>4
  <2>6. \A i \in DOMAIN calls : calls[i] \notin AskedIn(log)
    BY <2>2
  <2>7. \A i, j \in DOMAIN calls : calls[i] = calls[j] => i = j
    BY DEF Batches
  <2> QED BY <2>5, <2>6, <2>7
<1>6. e \in Events /\ e.type # "tool/not-started"
  <2>1. k \in 0..MaxSteps
    BY <1>4
  <2>. HIDE DEF k
  <2> QED BY <1>4, <1>5, <2>1 DEF AssistantMessage, Event, Events
<1>7. /\ Good(Append(log, e), abandoned)
      /\ Scan(Append(log, e)).pendingCalls = pending
      /\ LastTurn(Append(log, e)) = LastTurn(log)
  <2>1. Rules(log).openTurn = lastTurn /\ Rules(log).openStep = k
    BY <1>4 DEF Trace
  <2>. HIDE DEF k
  <2> QED BY <1>2, <1>3, <1>4, <1>5, <2>1, CallsAsked
<1>8. Follows(Append(log, e), calls, lastTurn)
  <2>1. /\ Len(pending) = Len(calls) /\ DOMAIN pending = 1..Len(calls)
        /\ \A i \in 1..Len(calls) : pending[i].state = "asked" /\ pending[i].call = calls[i]
    BY <1>5 DEF Unanswered
  <2>. HIDE DEF pending
  <2>2. ASSUME NEW i \in DOMAIN pending
        PROVE  /\ ~(i <= Len(pending) - Len(calls))
               /\ pending[i].state = "asked"
               /\ pending[i].call = calls[i - (Len(pending) - Len(calls))]
    <3>1. i \in 1..Len(calls) /\ i - (Len(pending) - Len(calls)) = i
      BY <1>5, <2>1
    <3> QED BY <1>5, <2>1, <3>1
  <2> QED BY <1>2, <1>5, <1>7, <2>1, <2>2 DEF Follows
<1>9. /\ up /\ up' = up /\ file' = file /\ synced' = synced /\ executed' = executed /\ crashes' = crashes
      /\ log' = Append(log, e) /\ lastTurn' = lastTurn /\ todo' = calls /\ abandoned' = abandoned
  BY DEF Answer, Append1
<1>10. abandoned \subseteq Calls /\ lastTurn \in 0..MaxTurns
  BY DEF RecoveryInv, TypeOK
<1>. HIDE DEF e, k, pending
<1> QED BY <1>5, <1>6, <1>7, <1>8, <1>9, <1>10, Appended

\* The next call starts.
LEMMA RecordCallStep == RecoveryInv /\ RecordCall => RecoveryInv'
<1> SUFFICES ASSUME RecoveryInv, RecordCall PROVE RecoveryInv'
  OBVIOUS
<1>. DEFINE k == Trace.openStep
            before == Scan(log).pendingCalls
            m == Len(before) - Len(todo) + 1
            c == Head(todo)
            e == ToolCall(lastTurn, k, c)
            after == Scan(Append(log, e)).pendingCalls
            rest == Tail(todo)
<1>1. up /\ todo # <<>>
  BY DEF RecordCall
<1>2. /\ Good(log, abandoned) /\ Follows(log, todo, lastTurn)
      /\ before \in Seq(Pendings) /\ todo \in Seq(Calls)
      /\ k \in 1..MaxSteps /\ lastTurn \in 1..MaxTurns
      /\ Rules(log).openTurn = lastTurn /\ Rules(log).openStep = k
  BY <1>1, LiveFacts DEF Pending, Trace
<1>. HIDE DEF k, before
<1>3. /\ Len(todo) \in Nat \ {0} /\ Len(before) \in Nat /\ DOMAIN before = 1..Len(before)
      /\ c = todo[1] /\ c \in Calls /\ rest \in Seq(Calls) /\ Len(rest) = Len(todo) - 1
      /\ \A i \in 1..Len(rest) : rest[i] = todo[i + 1]
  BY <1>1, <1>2
<1>. HIDE DEF c, rest
<1>4. /\ lastTurn = LastTurn(log) /\ Len(todo) <= Len(before)
      /\ \A i \in DOMAIN before :
            IF i <= Len(before) - Len(todo) THEN before[i].state = "recorded"
            ELSE before[i].state = "asked" /\ before[i].call = todo[i - (Len(before) - Len(todo))]
  BY <1>2 DEF Follows, before
<1>5. m \in DOMAIN before /\ before[m].call = c
  <2>1. m \in 1..Len(before) /\ ~(m <= Len(before) - Len(todo)) /\ m - (Len(before) - Len(todo)) = 1
    BY <1>3, <1>4
  <2>. HIDE DEF m
  <2> QED BY <1>3, <1>4, <2>1
<1>6. k \in 0..MaxSteps /\ <<c>> \in Seq(Calls)
  BY <1>2, <1>3
<1>7. e \in Events /\ e.type # "tool/not-started"
  BY <1>2, <1>6 DEF ToolCall, Event, Events
<1>. HIDE DEF m
<1>8. /\ Good(Append(log, e), abandoned)
      /\ Len(after) = Len(before) /\ DOMAIN after = DOMAIN before
      /\ \A i \in DOMAIN after :
            /\ after[i].call = before[i].call
            /\ after[i].state = IF i = m THEN "recorded" ELSE before[i].state
      /\ LastTurn(Append(log, e)) = LastTurn(log)
  BY <1>2, <1>5, CallRecorded DEF before
<1>. HIDE DEF e
<1>9. Follows(Append(log, e), rest, lastTurn)
  <2>. HIDE DEF after
  <2>1. Len(rest) <= Len(after) /\ Len(after) - Len(rest) = m
    BY <1>3, <1>4, <1>8 DEF m
  <2>2. ASSUME NEW i \in DOMAIN after
        PROVE  IF i <= m THEN after[i].state = "recorded"
               ELSE after[i].state = "asked" /\ after[i].call = rest[i - m]
    <3>1. CASE i < m
      <4>1. i <= Len(before) - Len(todo) /\ i # m /\ i <= m
        BY <1>3, <1>5, <1>8, <3>1 DEF m
      <4> QED BY <1>4, <1>8, <4>1
    <3>2. CASE i = m
      <4>1. i <= m
        BY <1>3, <3>2 DEF m
      <4> QED BY <1>8, <3>2, <4>1
    <3>3. CASE m < i
      <4>1. /\ ~(i <= Len(before) - Len(todo)) /\ i # m /\ ~(i <= m)
            /\ i - m \in 1..Len(rest)
            /\ i - (Len(before) - Len(todo)) = (i - m) + 1
        BY <1>3, <1>4, <1>8, <3>3 DEF m
      <4>2. before[i].state = "asked" /\ before[i].call = todo[(i - m) + 1]
        BY <1>4, <1>8, <4>1
      <4>3. rest[i - m] = todo[(i - m) + 1]
        BY <1>3, <4>1
      <4> QED BY <1>8, <4>1, <4>2, <4>3
    <3> QED BY <1>3, <1>5, <1>8, <3>1, <3>2, <3>3
  <2> QED BY <1>4, <1>8, <2>1, <2>2, Zenon DEF Follows, after
<1>10. /\ up /\ up' = up /\ file' = file /\ synced' = synced /\ executed' = executed /\ crashes' = crashes
       /\ log' = Append(log, e) /\ lastTurn' = lastTurn /\ todo' = rest /\ abandoned' = abandoned
  BY DEF RecordCall, Append1, e, k, c, rest
<1>11. abandoned \subseteq Calls /\ lastTurn \in 0..MaxTurns
  BY DEF RecoveryInv, TypeOK
<1> QED BY <1>3, <1>7, <1>8, <1>9, <1>10, <1>11, Appended

\* The first running call gets its result.
LEMMA CommitResultStep == RecoveryInv /\ CommitResult => RecoveryInv'
<1> SUFFICES ASSUME RecoveryInv, CommitResult PROVE RecoveryInv'
  OBVIOUS
<1>. DEFINE k == Trace.openStep
            before == Scan(log).pendingCalls
            after == Tail(before)
<1>1. up
  BY DEF CommitResult
<1>2. /\ Good(log, abandoned) /\ Follows(log, todo, lastTurn)
      /\ before \in Seq(Pendings) /\ todo \in Seq(Calls)
      /\ k # 0 => k \in 1..MaxSteps /\ lastTurn \in 1..MaxTurns /\ Rules(log).openTurn = lastTurn
      /\ k = 0 => before = <<>>
      /\ Rules(log).openStep = k
  BY <1>1, LiveFacts DEF Pending, Trace
<1>. HIDE DEF k
<1>3. PICK i \in DOMAIN before :
        /\ before[i].state = "recorded"
        /\ \A j \in 1..(i - 1) : ~(j \in DOMAIN before /\ before[j].state = "recorded")
        /\ log' = Append(log, ToolResult(lastTurn, k, before[i].call))
  BY DEF CommitResult, Running, Pending, Append1, k
<1>. HIDE DEF before
<1>4. /\ Len(todo) \in Nat /\ Len(before) \in Nat /\ DOMAIN before = 1..Len(before)
      /\ i \in 1..Len(before) /\ 1 \in DOMAIN before
  BY <1>2, <1>3
<1>5. /\ lastTurn = LastTurn(log) /\ Len(todo) <= Len(before)
      /\ \A j \in DOMAIN before :
            IF j <= Len(before) - Len(todo) THEN before[j].state = "recorded"
            ELSE before[j].state = "asked" /\ before[j].call = todo[j - (Len(before) - Len(todo))]
  BY <1>2 DEF Follows, before
<1>6. i <= Len(before) - Len(todo)
  BY <1>3, <1>4, <1>5
<1>7. i = 1
  <2>1. SUFFICES ASSUME i # 1 PROVE FALSE
    OBVIOUS
  <2>2. 1 \in 1..(i - 1) /\ 1 <= Len(before) - Len(todo)
    BY <1>4, <1>6, <2>1
  <2> QED BY <1>3, <1>4, <1>5, <2>2
<1>8. before # <<>> /\ k \in 1..MaxSteps /\ lastTurn \in 1..MaxTurns /\ Rules(log).openTurn = lastTurn
  <2>1. before # <<>>
    <3>1. Len(before) # 0 /\ Len(<<>>) = 0
      BY <1>4
    <3> QED BY <3>1
  <2> QED BY <1>2, <2>1
<1>. DEFINE c == before[1].call
            e == ToolResult(lastTurn, k, c)
<1>9. e \in Events /\ e.type # "tool/not-started"
  <2>1. before[1] \in Pendings
    BY <1>2, <1>4
  <2>2. c \in Calls /\ k \in 0..MaxSteps
    BY <1>8, <2>1 DEF Pendings
  <2>3. <<c>> \in Seq(Calls)
    BY <2>2
  <2>. HIDE DEF c
  <2> QED BY <1>8, <2>2, <2>3 DEF ToolResult, Event, Events
<1>10. /\ Good(Append(log, e), abandoned)
       /\ Scan(Append(log, e)).pendingCalls = after
       /\ LastTurn(Append(log, e)) = LastTurn(log)
  <2>1. c = Scan(log).pendingCalls[1].call /\ Scan(log).pendingCalls # <<>>
        /\ Scan(log).pendingCalls[1].state = "recorded"
    BY <1>3, <1>7, <1>8 DEF before
  <2> QED BY <1>2, <1>8, <2>1, FirstAnswered DEF before
<1>11. Follows(Append(log, e), todo, lastTurn)
  <2>1. /\ Len(after) = Len(before) - 1 /\ DOMAIN after = 1..(Len(before) - 1)
        /\ \A j \in 1..(Len(before) - 1) : after[j] = before[j + 1]
    BY <1>2, <1>8
  <2>. HIDE DEF after
  <2>2. ASSUME NEW j \in DOMAIN after
        PROVE  IF j <= Len(after) - Len(todo) THEN after[j].state = "recorded"
               ELSE after[j].state = "asked" /\ after[j].call = todo[j - (Len(after) - Len(todo))]
    <3>1. /\ j + 1 \in DOMAIN before /\ after[j] = before[j + 1]
          /\ j <= Len(after) - Len(todo) <=> j + 1 <= Len(before) - Len(todo)
          /\ j - (Len(after) - Len(todo)) = (j + 1) - (Len(before) - Len(todo))
      BY <1>4, <2>1
    <3> QED BY <1>5, <3>1
  <2>3. Len(todo) <= Len(after)
    BY <1>4, <1>6, <1>7, <2>1
  <2>. HIDE DEF e
  <2> QED BY <1>5, <1>10, <2>2, <2>3 DEF Follows
<1>12. /\ up /\ up' = up /\ file' = file /\ synced' = synced /\ executed' = executed /\ crashes' = crashes
       /\ log' = Append(log, e) /\ lastTurn' = lastTurn /\ todo' = todo /\ abandoned' = abandoned
  BY <1>3, <1>7 DEF CommitResult
<1>13. abandoned \subseteq Calls /\ lastTurn \in 0..MaxTurns
  BY DEF RecoveryInv, TypeOK
<1>. HIDE DEF e
<1> QED BY <1>2, <1>9, <1>10, <1>11, <1>12, <1>13, Appended

\* A tool body runs: its record is confirmed, and recovery has said nothing of it.
LEMMA ExecuteStep ==
    ASSUME RecoveryInv, NEW call \in Calls, Execute(call)
    PROVE  RecoveryInv'
<1>1. up /\ log' = log /\ synced' = synced /\ executed' = executed \cup {call}
      /\ UNCHANGED <<up, disk, rollback, recovered, lastTurn, todo, abandoned, crashes>>
  BY DEF Execute, file
<1>2. PICK i \in DOMAIN Pending : Pending[i].call = call
  BY DEF Execute
<1>3. Good(log, abandoned)
  BY <1>1, LiveFacts
<1>4. ResultsOf(log, call) = {}
  BY <1>2, <1>3 DEF Good, CallsAccounted, Pending
<1>5. ASSUME NEW j \in DOMAIN log, log[j].type = "tool/not-started"
      PROVE  Head(log[j].calls) # call
  BY <1>4, <1>5 DEF ResultsOf, IsResultOf
<1>6. Recorded(SubSeq(log, 1, synced), call)
  BY DEF Execute
<1>7. Told(log, synced, executed')
  BY <1>1, <1>5, <1>6 DEF RecoveryInv, Told
<1>8. TypeOK'
  BY <1>1 DEF RecoveryInv, TypeOK
<1>9. FileInv'
  BY <1>1 DEF RecoveryInv, FileInv
<1> QED BY <1>1, <1>7, <1>8, <1>9 DEF RecoveryInv

-----------------------------------------------------------------------------
(* Durability, kills and recovery. *)

\* What the invariant says of the log and the file.
LEMMA FileFacts ==
    ASSUME RecoveryInv
    PROVE  /\ log \in Seq(Events) /\ Len(log) \in Nat /\ synced \in 0..Len(log)
           /\ PrefixesGood(log, abandoned) /\ Told(log, synced, executed)
           /\ disk \in Seq(FileLines) /\ Len(disk) \in Nat /\ Copies(disk, log)
           /\ synced \in 0..Len(disk) /\ \A i \in 1..synced : disk[i].whole
           /\ recovered \in Seq(Events) /\ rollback \subseteq {synced}
           /\ disk = <<>> => synced = 0
<1>1. log \in Seq(Events) /\ synced \in 0..Len(log) /\ recovered \in Seq(Events)
      /\ disk \in Seq(FileLines) /\ rollback \subseteq {synced}
  BY DEF RecoveryInv, TypeOK
<1>2. Len(log) \in Nat /\ Len(disk) \in Nat /\ (disk = <<>> => Len(disk) = 0)
  BY <1>1, EmptyLength
<1>3. synced <= Len(disk) /\ Copies(disk, log) /\ \A i \in 1..synced : disk[i].whole
  BY DEF RecoveryInv, FileInv
<1> QED BY <1>1, <1>2, <1>3 DEF RecoveryInv

\* A log read from a file that copies another.
LEMMA WasRead ==
    ASSUME NEW f, NEW source \in Seq(Events), Copies(f, source),
           NEW n \in 0..Len(f), \A i \in 1..n : f[i].whole
    PROVE  /\ Read(f) \in Seq(Events) /\ Copies(f, Read(f))
           /\ ReadLen(f) \in n..Len(source) /\ ReadLen(f) \in 0..Len(source)
           /\ n \in 0..ReadLen(f)
           /\ Read(f) = SubSeq(source, 1, ReadLen(f)) /\ Len(Read(f)) = ReadLen(f)
           /\ ~Torn(f) => ReadLen(f) = Len(f) /\ <<>> = SubSeq(Read(f), Len(f) + 1, Len(Read(f)))
<1>1. /\ Len(f) \in Nat /\ ReadLen(f) \in 0..Len(f) /\ ReadLen(f) <= Len(source)
      /\ Read(f) = SubSeq(source, 1, ReadLen(f))
      /\ Len(Read(f)) = ReadLen(f) /\ Read(f) \in Seq(Events)
      /\ Copies(f, Read(f)) /\ Len(source) \in Nat
  BY ReadCopies, LenProperties
<1>2. n <= ReadLen(f)
  <2>1. CASE Torn(f)
    <3>1. n # Len(f)
      <4>1. SUFFICES ASSUME n = Len(f) PROVE FALSE
        OBVIOUS
      <4>2. f # <<>> /\ ~f[Len(f)].whole /\ f \in Seq(FileLines)
        BY <2>1 DEF Torn, Copies
      <4>3. Len(f) \in 1..n
        BY <1>1, <4>1, <4>2, EmptyLength
      <4> QED BY <4>2, <4>3
    <3> QED BY <1>1, <2>1, <3>1 DEF ReadLen
  <2>2. CASE ~Torn(f)
    BY <1>1, <2>2 DEF ReadLen
  <2> QED BY <2>1, <2>2
<1>3. ASSUME ~Torn(f)
      PROVE  ReadLen(f) = Len(f) /\ <<>> = SubSeq(Read(f), Len(f) + 1, Len(Read(f)))
  <2>1. ReadLen(f) = Len(f)
    BY <1>3 DEF ReadLen
  <2>. DEFINE l == Read(f)
              rest == SubSeq(l, Len(f) + 1, Len(l))
  <2>2. l \in Seq(Events) /\ Len(l) = Len(f) /\ Len(f) \in Nat
    BY <1>1, <2>1
  <2>. HIDE DEF l
  <2>3. rest \in Seq(Events) /\ Len(rest) = 0
    BY <2>2
  <2>. HIDE DEF rest
  <2>4. <<>> = rest
    BY <2>3, EmptyLength
  <2> QED BY <2>1, <2>4 DEF rest, l
<1> QED BY <1>1, <1>2, <1>3

\* Where no append is under way the file ends with what is confirmed.
LEMMA FileSettled ==
    ASSUME RecoveryInv, up, rollback = {}
    PROVE  /\ Len(disk) = synced /\ ~Torn(disk) /\ recovered = <<>>
           /\ Unconfirmed = SubSeq(log, Len(disk) + 1, Len(log)) /\ Unconfirmed \in Seq(Events)
           /\ Len(Unconfirmed) = Len(log) - Len(disk)
<1>1. Len(disk) = synced /\ recovered = <<>>
  BY DEF RecoveryInv, FileInv
<1>2. ~Torn(disk)
  <2>1. disk # <<>> => Len(disk) \in 1..synced
    BY <1>1, FileFacts, EmptyLength
  <2> QED BY <2>1, FileFacts DEF Torn
<1>3. Unconfirmed \in Seq(Events) /\ Len(Unconfirmed) = Len(log) - Len(disk)
  BY <1>1, FileFacts DEF Unconfirmed
<1> QED BY <1>1, <1>2, <1>3 DEF Unconfirmed

\* What arrives of an append copies the log.
LEMMA Arrives ==
    ASSUME RecoveryInv, up, rollback = {}, NEW landed \in Landed(Unconfirmed)
    PROVE  /\ Copies(disk \o landed, log) /\ disk \o landed \in Seq(FileLines)
           /\ Len(disk \o landed) = synced + Len(landed) /\ Len(landed) \in Nat
           /\ \A i \in 1..synced : (disk \o landed)[i] = disk[i]
           /\ Torn(disk \o landed) <=> Torn(landed)
<1>1. Copies(landed, SubSeq(log, Len(disk) + 1, Len(log)))
  <2>1. Copies(landed, Unconfirmed)
    BY FileSettled, LandedCopies
  <2> QED BY <2>1, FileSettled
<1>2. /\ Len(log) \in Len(disk)..Len(log) /\ log \in Seq(Events)
      /\ Copies(disk, log) /\ ~Torn(disk)
  BY FileSettled, FileFacts
<1>3. /\ Copies(disk \o landed, log) /\ Len(disk \o landed) = Len(disk) + Len(landed)
      /\ Len(landed) \in Nat
      /\ \A i \in 1..Len(disk) : (disk \o landed)[i] = disk[i]
      /\ Torn(disk \o landed) <=> Torn(landed)
  BY <1>1, <1>2, CopiesConcat
<1> QED BY <1>3, FileSettled DEF Copies

\* More of the log is confirmed.
LEMMA PersistStep == RecoveryInv /\ Persist => RecoveryInv'
<1> SUFFICES ASSUME RecoveryInv, Persist PROVE RecoveryInv'
  OBVIOUS
<1>1. log \in Seq(Events) /\ synced \in 0..Len(log) /\ Len(log) \in 0..Len(log)
      /\ Told(log, synced, executed)
  BY FileFacts
<1>2. Told(log, Len(log), executed)
  BY <1>1, ToldConfirmed
<1>3. /\ up /\ rollback = {} /\ synced' = Len(log) /\ disk' = disk \o Written(Unconfirmed)
      /\ UNCHANGED <<up, log, rollback, recovered, lastTurn, todo, executed, abandoned, crashes>>
  BY DEF Persist
<1>4. /\ Copies(disk', log') /\ disk' \in Seq(FileLines) /\ Len(disk') = synced' /\ ~Torn(disk')
  <2>1. Written(Unconfirmed) \in Landed(Unconfirmed)
    BY DEF Landed
  <2>2. Len(Written(Unconfirmed)) = Len(log) - synced /\ ~Torn(Written(Unconfirmed))
    BY <1>3, FileSettled, WrittenCopies
  <2> QED BY <1>1, <1>3, <2>1, <2>2, Arrives, FileFacts
<1>5. TypeOK'
  BY <1>1, <1>3, <1>4 DEF RecoveryInv, TypeOK
<1>6. FileInv'
  <2>1. recovered' = <<>> /\ up' /\ synced' <= Len(disk')
    BY <1>1, <1>3, <1>4, FileSettled
  <2>2. \A i \in 1..synced' : disk'[i].whole
    BY <1>4 DEF Copies
  <2> QED BY <1>3, <1>4, <2>1, <2>2 DEF FileInv
<1> QED BY <1>2, <1>3, <1>5, <1>6 DEF RecoveryInv

\* Something of an append arrives.
LEMMA AppendLandsStep == RecoveryInv /\ AppendLands => RecoveryInv'
<1> SUFFICES ASSUME RecoveryInv, AppendLands PROVE RecoveryInv'
  OBVIOUS
<1>1. /\ up /\ rollback = {} /\ rollback' = {Len(disk)}
      /\ UNCHANGED <<up, log, recovered, synced, lastTurn, todo, executed, abandoned, crashes>>
  BY DEF AppendLands
<1>2. PICK landed \in Landed(Unconfirmed) : disk' = disk \o landed
  BY DEF AppendLands
<1>3. /\ Copies(disk', log') /\ disk' \in Seq(FileLines) /\ rollback' = {synced}
      /\ synced' \in 0..Len(disk') /\ \A i \in 1..synced' : disk'[i].whole
  BY <1>1, <1>2, Arrives, FileSettled, FileFacts
<1>4. TypeOK'
  BY <1>1, <1>3 DEF RecoveryInv, TypeOK
<1>5. FileInv'
  BY <1>1, <1>3, FileSettled DEF FileInv
<1> QED BY <1>1, <1>4, <1>5 DEF RecoveryInv

\* A failed append is undone.
LEMMA RollBackStep == RecoveryInv /\ RollBack => RecoveryInv'
<1> SUFFICES ASSUME RecoveryInv, RollBack PROVE RecoveryInv'
  OBVIOUS
<1>1. /\ up /\ rollback' = {} /\ disk' = Truncated(disk, synced)
      /\ UNCHANGED <<up, log, recovered, synced, lastTurn, todo, executed, abandoned, crashes>>
  BY FileFacts DEF RollBack
<1>2. /\ Copies(disk', log) /\ Len(disk') = synced /\ \A i \in 1..synced : disk'[i].whole
  BY <1>1, FileFacts, CopiesCut
<1>3. TypeOK'
  BY <1>1, <1>2 DEF RecoveryInv, TypeOK, Copies
<1>4. FileInv'
  BY <1>1, <1>2, FileFacts DEF RecoveryInv, FileInv
<1> QED BY <1>1, <1>3, <1>4 DEF RecoveryInv

\* What a kill leaves is a prefix of the log, with all that is confirmed.
LEMMA CrashReads ==
    ASSUME RecoveryInv, Crash
    PROVE  /\ \E n \in 0..Len(log) : synced \in 0..n /\ log' = SubSeq(log, 1, n)
           /\ disk' \in Seq(FileLines) /\ FileInv'
<1>1. /\ up /\ up' = FALSE /\ rollback' = {} /\ recovered' = recovered /\ synced' = synced
      /\ log' = Read(disk') /\ disk' \in Survivors
  BY DEF Crash
<1>2. recovered' = <<>>
  BY <1>1 DEF RecoveryInv, FileInv
<1>3. /\ Copies(disk', log) /\ synced \in 0..Len(disk') /\ \A i \in 1..synced : disk'[i].whole
  <2>1. CASE disk # <<>>
    BY <1>1, <2>1, FileFacts DEF Survivors
  <2>2. CASE disk = <<>>
    <3>1. PICK n \in 0..Len(log) : disk' = Written(SubSeq(log, 1, n))
      BY <1>1, <2>2 DEF Survivors
    <3>. DEFINE prefix == SubSeq(log, 1, n)
    <3>2. /\ prefix \in Seq(Events) /\ Len(prefix) = n /\ n <= Len(log)
          /\ \A i \in 1..Len(prefix) : log[i] = prefix[i]
      BY FileFacts
    <3>3. Copies(disk', prefix) /\ Len(disk') = n
      BY <3>1, <3>2, WrittenCopies
    <3>. HIDE DEF prefix
    <3>4. Copies(disk', log)
      BY <3>2, <3>3, FileFacts, CopiesMore
    <3>5. synced = 0 /\ n \in Nat
      BY <2>2, FileFacts
    <3> QED BY <3>3, <3>4, <3>5
  <2> QED BY <2>1, <2>2
<1>. DEFINE f == disk'
<1>4. Copies(f, log) /\ synced \in 0..Len(f) /\ (\A i \in 1..synced : f[i].whole)
  BY <1>3
<1>5. log' = Read(f)
  BY <1>1
<1>. HIDE DEF f
<1>6. /\ Copies(f, log') /\ ReadLen(f) \in 0..Len(log) /\ synced \in 0..ReadLen(f)
      /\ log' = SubSeq(log, 1, ReadLen(f)) /\ Len(log') = ReadLen(f)
      /\ ~Torn(f) => <<>> = SubSeq(log', Len(f) + 1, Len(log'))
  BY <1>4, <1>5, FileFacts, WasRead
<1>7. FileInv'
  BY <1>1, <1>2, <1>3, <1>6 DEF FileInv, f
<1> QED BY <1>3, <1>6, <1>7 DEF Copies

\* A kill.
LEMMA CrashStep == RecoveryInv /\ Crash => RecoveryInv'
<1> SUFFICES ASSUME RecoveryInv, Crash PROVE RecoveryInv'
  OBVIOUS
<1>1. log \in Seq(Events) /\ synced \in 0..Len(log) /\ Len(log) \in Nat
      /\ PrefixesGood(log, abandoned) /\ Told(log, synced, executed)
  BY FileFacts
<1>2. PICK n \in 0..Len(log) : synced \in 0..n /\ log' = SubSeq(log, 1, n)
  BY CrashReads
<1>4. PrefixesGood(log', abandoned) /\ Len(log') = n
  BY <1>1, <1>2, PrefixesShrink
<1>5. Told(log', synced, executed)
  BY <1>1, <1>2, ToldShrinks
<1>6. up' = FALSE /\ todo' = <<>> /\ crashes' = crashes + 1 /\ crashes < MaxCrashes
      /\ rollback' = {} /\ UNCHANGED <<recovered, synced, lastTurn, executed, abandoned>>
  BY DEF Crash
<1>7. TypeOK'
  <2>1. crashes' \in 0..MaxCrashes
    BY <1>6, BoundsArePositive DEF RecoveryInv, TypeOK
  <2>2. log' \in Seq(Events) /\ synced' \in 0..Len(log')
    BY <1>2, <1>4, <1>6 DEF PrefixesGood
  <2>3. todo' \in Seq(Calls)
    BY <1>6
  <2>4. disk' \in Seq(FileLines) /\ rollback' \subseteq {synced'}
    BY <1>6, CrashReads
  <2> QED BY <1>6, <2>1, <2>2, <2>3, <2>4 DEF RecoveryInv, TypeOK
<1> QED BY <1>4, <1>5, <1>6, <1>7, CrashReads DEF RecoveryInv

\* The cut keeps what is confirmed, and what was read beyond it.
LEMMA CutTornTailStep == RecoveryInv /\ CutTornTail => RecoveryInv'
<1> SUFFICES ASSUME RecoveryInv, CutTornTail PROVE RecoveryInv'
  OBVIOUS
<1>. DEFINE size == TornStart(disk)
<1>1. /\ ~up /\ Torn(disk) /\ disk' = Truncated(disk, size)
      /\ recovered' = SubSeq(log, size + 1, Len(log))
      /\ UNCHANGED <<up, log, rollback, synced, lastTurn, todo, executed, abandoned, crashes>>
  BY DEF CutTornTail
<1>2. size \in 0..Len(disk) /\ size >= synced /\ \A i \in 1..size : disk[i].whole
  BY FileFacts, TornStartFacts
<1>. HIDE DEF size
<1>3. /\ Copies(disk', log) /\ ~Torn(disk') /\ Len(disk') = size /\ size <= Len(log)
      /\ \A i \in 1..size : disk'[i] = disk[i]
  BY <1>1, <1>2, FileFacts, CopiesCut
<1>4. recovered' \in Seq(Events) /\ disk' \in Seq(FileLines)
  BY <1>1, <1>2, <1>3, FileFacts DEF Copies
<1>5. TypeOK'
  BY <1>1, <1>4 DEF RecoveryInv, TypeOK
<1>6. FileInv'
  <2>1. synced' <= Len(disk') /\ \A i \in 1..synced' : disk'[i].whole
    BY <1>1, <1>2, <1>3, FileFacts
  <2>2. rollback' = {} /\ ~up'
    BY <1>1 DEF RecoveryInv, FileInv
  <2> QED BY <1>1, <1>3, <2>1, <2>2 DEF FileInv
<1> QED BY <1>1, <1>5, <1>6 DEF RecoveryInv

\* The log with its closers.
Repaired == log \o Closers(log)

LEMMA RepairedFacts ==
    ASSUME RecoveryInv
    PROVE  /\ Repaired \in Seq(Events) /\ Len(Repaired) \in Nat /\ Closers(log) \in Seq(Events)
           /\ Len(Repaired) = Len(log) + Len(Closers(log)) /\ Len(log) <= Len(Repaired)
           /\ PrefixesGood(Repaired, abandoned) /\ Told(Repaired, synced, executed)
           /\ \A i \in 1..Len(log) : Repaired[i] = log[i]
           /\ \A n \in 0..Len(log) : SubSeq(Repaired, 1, n) = SubSeq(log, 1, n)
           /\ Copies(disk, Repaired)
<1>1. /\ log \in Seq(Events) /\ Len(log) \in Nat /\ synced \in 0..Len(log)
      /\ PrefixesGood(log, abandoned) /\ Told(log, synced, executed)
  BY FileFacts
<1>2. Good(log, abandoned)
  <2>1. Good(SubSeq(log, 1, Len(log)), abandoned)
    BY <1>1 DEF PrefixesGood
  <2> QED BY <1>1, <2>1, SubSeqFull
<1>3. Closers(log) \in Seq(Events) /\ Len(Closers(log)) \in Nat
  BY <1>2, RepairIsGood, LenProperties
<1>4. /\ Repaired \in Seq(Events) /\ Len(Repaired) = Len(log) + Len(Closers(log))
      /\ \A i \in 1..Len(log) : Repaired[i] = log[i]
      /\ \A n \in 0..Len(log) : SubSeq(Repaired, 1, n) = SubSeq(log, 1, n)
  BY <1>1, <1>3, PrefixOfConcat DEF Repaired
<1>5. PrefixesGood(Repaired, abandoned)
  BY <1>1, PrefixesRepaired DEF Repaired
<1>6. Told(Repaired, synced, executed)
  BY <1>1, ToldRepaired DEF Repaired
<1>7. Len(Repaired) \in Nat /\ Len(log) <= Len(Repaired)
  BY <1>1, <1>3, <1>4
<1>8. Copies(disk, Repaired)
  BY <1>1, <1>4, <1>7, FileFacts, CopiesMore
<1> QED BY <1>3, <1>4, <1>5, <1>6, <1>7, <1>8

\* The end of a sequence, and what follows it.
LEMMA EndOfConcat ==
    ASSUME NEW a \in Seq(Events), NEW b \in Seq(Events), NEW k \in 0..Len(a)
    PROVE  SubSeq(a, k + 1, Len(a)) \o b = SubSeq(a \o b, k + 1, Len(a \o b))
<1>. DEFINE end == SubSeq(a, k + 1, Len(a))
            whole == a \o b
            left == end \o b
            right == SubSeq(whole, k + 1, Len(whole))
<1>0. Len(a) \in Nat /\ Len(b) \in Nat /\ k \in Nat
  BY LenProperties
<1>1. /\ whole \in Seq(Events) /\ Len(whole) = Len(a) + Len(b)
      /\ \A i \in 1..(Len(a) + Len(b)) : whole[i] = IF i <= Len(a) THEN a[i] ELSE b[i - Len(a)]
  BY ConcatProperties, Zenon
<1>2. /\ end \in Seq(Events) /\ Len(end) = Len(a) - k
      /\ \A i \in 1..(Len(a) - k) : end[i] = a[i + k]
  BY <1>0
<1>. HIDE DEF end, whole
<1>3. /\ left \in Seq(Events) /\ Len(left) = Len(end) + Len(b)
      /\ \A i \in 1..(Len(end) + Len(b)) : left[i] = IF i <= Len(end) THEN end[i] ELSE b[i - Len(end)]
  BY <1>2, ConcatProperties, Zenon
<1>4. /\ right \in Seq(Events) /\ Len(right) = Len(whole) - k
      /\ \A i \in 1..(Len(whole) - k) : right[i] = whole[i + k]
  BY <1>0, <1>1
<1>. HIDE DEF left, right
<1>5. Len(left) = Len(right)
  BY <1>0, <1>1, <1>2, <1>3, <1>4
<1>6. ASSUME NEW i \in 1..Len(left) PROVE left[i] = right[i]
  <2>1. /\ i \in 1..(Len(end) + Len(b)) /\ i \in 1..(Len(whole) - k)
        /\ i + k \in 1..(Len(a) + Len(b))
    BY <1>0, <1>1, <1>2, <1>3
  <2>2. right[i] = whole[i + k] /\ whole[i + k] = IF i + k <= Len(a) THEN a[i + k] ELSE b[(i + k) - Len(a)]
    BY <1>1, <1>4, <2>1
  <2>3. CASE i <= Len(end)
    <3>1. left[i] = end[i] /\ i \in 1..(Len(a) - k) /\ i + k <= Len(a)
      BY <1>0, <1>2, <1>3, <2>1, <2>3
    <3> QED BY <1>2, <2>2, <3>1
  <2>4. CASE ~(i <= Len(end))
    <3>1. left[i] = b[i - Len(end)]
      BY <1>3, <2>1, <2>4
    <3>2. ~(i + k <= Len(a)) /\ i - Len(end) = (i + k) - Len(a)
      <4>1. i \in Nat /\ Len(end) = Len(a) - k
        BY <1>2
      <4> QED BY <1>0, <2>4, <4>1
    <3> QED BY <2>2, <3>1, <3>2
  <2> QED BY <2>3, <2>4
<1>7. left = right
  BY <1>3, <1>4, <1>5, <1>6, SeqEqual
<1> QED BY <1>7 DEF left, right, end, whole

\* Behind a whole file a repair writes the rest of the repaired log.
LEMMA RewriteIsTheRest ==
    ASSUME RecoveryInv, ~up, ~Torn(disk)
    PROVE  /\ Rewrite = SubSeq(Repaired, Len(disk) + 1, Len(Repaired)) /\ Rewrite \in Seq(Events)
           /\ Len(disk) <= Len(log) /\ Len(Rewrite) = Len(Repaired) - Len(disk)
<1>1. recovered = SubSeq(log, Len(disk) + 1, Len(log))
  BY DEF RecoveryInv, FileInv
<1>2. Len(disk) <= Len(log) /\ Len(disk) \in Nat /\ Len(log) \in Nat
  <2>1. ReadLen(disk) = Len(disk)
    BY DEF ReadLen
  <2> QED BY <2>1, FileFacts, ReadCopies
<1>3. Rewrite = SubSeq(Repaired, Len(disk) + 1, Len(Repaired))
  <2>1. Len(disk) \in 0..Len(log) /\ log \in Seq(Events) /\ Closers(log) \in Seq(Events)
    BY <1>2, FileFacts, RepairedFacts
  <2>2. SubSeq(log, Len(disk) + 1, Len(log)) \o Closers(log)
           = SubSeq(log \o Closers(log), Len(disk) + 1, Len(log \o Closers(log)))
    BY <2>1, EndOfConcat
  <2> QED BY <1>1, <2>2 DEF Rewrite, Repaired
<1>4. /\ SubSeq(Repaired, Len(disk) + 1, Len(Repaired)) \in Seq(Events)
      /\ Len(SubSeq(Repaired, Len(disk) + 1, Len(Repaired))) = Len(Repaired) - Len(disk)
  BY <1>2, RepairedFacts
<1> QED BY <1>2, <1>3, <1>4

\* What arrives of it copies the repaired log.
LEMMA RewriteArrives ==
    ASSUME RecoveryInv, ~up, ~Torn(disk), NEW landed \in Landed(Rewrite)
    PROVE  /\ Copies(disk \o landed, Repaired)
           /\ Len(disk \o landed) = Len(disk) + Len(landed) /\ Len(landed) \in Nat
           /\ \A i \in 1..Len(disk) : (disk \o landed)[i] = disk[i]
           /\ Torn(disk \o landed) <=> Torn(landed)
<1>1. Copies(landed, SubSeq(Repaired, Len(disk) + 1, Len(Repaired)))
  <2>1. Copies(landed, Rewrite)
    BY RewriteIsTheRest, LandedCopies
  <2> QED BY <2>1, RewriteIsTheRest
<1>2. /\ Len(Repaired) \in Len(disk)..Len(Repaired) /\ Repaired \in Seq(Events)
      /\ Copies(disk, Repaired)
  BY RewriteIsTheRest, RepairedFacts, FileFacts
<1> QED BY <1>1, <1>2, CopiesConcat

\* A repair reads the repaired log back, and confirms it.
LEMMA CommitReads ==
    ASSUME RecoveryInv, CommitRepair
    PROVE  log' = Repaired /\ synced' = Len(Repaired) /\ disk' \in Seq(FileLines) /\ FileInv'
<1>1. /\ ~up /\ ~Torn(disk) /\ log' = Read(disk') /\ synced' = Len(log') /\ recovered' = <<>>
      /\ disk' = disk \o Written(Rewrite) /\ up' = up /\ rollback' = rollback
  BY DEF CommitRepair
<1>. DEFINE f == disk'
<1>2. Written(Rewrite) \in Landed(Rewrite)
  BY DEF Landed
<1>3. Len(Written(Rewrite)) = Len(Repaired) - Len(disk) /\ ~Torn(Written(Rewrite))
  BY <1>1, RewriteIsTheRest, WrittenCopies
<1>4. Copies(f, Repaired) /\ Len(f) = Len(Repaired) /\ ~Torn(f)
  BY <1>1, <1>2, <1>3, RewriteArrives, RepairedFacts, FileFacts
<1>5. log' = Read(f)
  BY <1>1
<1>. HIDE DEF f
<1>6. Len(f) \in 0..Len(f) /\ \A i \in 1..Len(f) : f[i].whole
  BY <1>4, RepairedFacts DEF Copies
<1>7. /\ Copies(f, log') /\ log' = SubSeq(Repaired, 1, Len(Repaired)) /\ Len(log') = Len(f)
      /\ <<>> = SubSeq(log', Len(f) + 1, Len(log'))
  BY <1>4, <1>5, <1>6, RepairedFacts, WasRead
<1>8. log' = Repaired
  BY <1>7, RepairedFacts, SubSeqFull
<1>9. FileInv'
  <2>1. /\ ~up' /\ rollback' = {} /\ synced' = Len(f)
    BY <1>1, <1>7 DEF RecoveryInv, FileInv
  <2>2. synced' <= Len(f)
    BY <1>4, <2>1, RepairedFacts
  <2> QED BY <1>1, <1>4, <1>6, <1>7, <2>1, <2>2 DEF FileInv, f
<1> QED BY <1>1, <1>4, <1>7, <1>8, <1>9 DEF Copies, f

\* The closers are appended.
LEMMA CommitRepairStep == RecoveryInv /\ CommitRepair => RecoveryInv'
<1> SUFFICES ASSUME RecoveryInv, CommitRepair PROVE RecoveryInv'
  OBVIOUS
<1>1. /\ ~up /\ UNCHANGED <<up, rollback, lastTurn, todo, executed, abandoned, crashes>>
      /\ recovered' = <<>>
  BY DEF CommitRepair
<1>2. /\ log' = Repaired /\ synced' = Len(Repaired) /\ disk' \in Seq(FileLines) /\ FileInv'
  BY CommitReads
<1>3. synced \in 0..Len(Repaired) /\ Len(Repaired) \in 0..Len(Repaired)
  BY RepairedFacts, FileFacts
<1>4. Told(Repaired, Len(Repaired), executed)
  BY <1>3, RepairedFacts, ToldConfirmed
<1>5. rollback' \subseteq {synced'}
  BY <1>1 DEF RecoveryInv, FileInv
<1>6. TypeOK'
  BY <1>1, <1>2, <1>3, <1>5, RepairedFacts DEF RecoveryInv, TypeOK
<1> QED BY <1>1, <1>2, <1>4, <1>6, RepairedFacts DEF RecoveryInv

\* Wherever a repair is killed, a prefix of the repaired log is read next.
LEMMA InterruptedReads ==
    ASSUME RecoveryInv, RepairInterrupted
    PROVE  /\ \E n \in 0..Len(Repaired) : synced \in 0..n /\ log' = SubSeq(Repaired, 1, n)
           /\ disk' \in Seq(FileLines) /\ FileInv'
<1>1. /\ ~up /\ log' = Read(disk') /\ recovered' = <<>>
      /\ up' = up /\ rollback' = rollback /\ synced' = synced
  BY DEF RepairInterrupted
<1>. DEFINE f == disk'
<1>2. Copies(f, Repaired) /\ synced \in 0..Len(f) /\ (\A i \in 1..synced : f[i].whole)
  <2>1. CASE UNCHANGED disk
    BY <2>1, RepairedFacts, FileFacts
  <2>2. CASE ~Torn(disk) /\ \E landed \in Landed(Rewrite) : disk' = disk \o landed
    <3>1. PICK landed \in Landed(Rewrite) : f = disk \o landed
      BY <2>2
    <3>2. /\ Copies(f, Repaired) /\ Len(f) = Len(disk) + Len(landed) /\ Len(landed) \in Nat
          /\ \A i \in 1..Len(disk) : f[i] = disk[i]
      BY <1>1, <2>2, <3>1, RewriteArrives
    <3>. HIDE DEF f
    <3> QED BY <3>2, FileFacts
  <2> QED BY <2>1, <2>2 DEF RepairInterrupted
<1>3. log' = Read(f)
  BY <1>1
<1>. HIDE DEF f
<1>4. /\ Copies(f, log') /\ ReadLen(f) \in 0..Len(Repaired) /\ synced \in 0..ReadLen(f)
      /\ log' = SubSeq(Repaired, 1, ReadLen(f)) /\ Len(log') = ReadLen(f)
      /\ ~Torn(f) => <<>> = SubSeq(log', Len(f) + 1, Len(log'))
  BY <1>2, <1>3, RepairedFacts, WasRead
<1>5. FileInv'
  <2>1. ~up' /\ rollback' = {}
    BY <1>1 DEF RecoveryInv, FileInv
  <2> QED BY <1>1, <1>2, <1>4, <2>1 DEF FileInv, f
<1> QED BY <1>2, <1>4, <1>5 DEF Copies, f

\* A repair is killed.
LEMMA RepairInterruptedStep == RecoveryInv /\ RepairInterrupted => RecoveryInv'
<1> SUFFICES ASSUME RecoveryInv, RepairInterrupted PROVE RecoveryInv'
  OBVIOUS
<1>1. /\ ~up /\ crashes < MaxCrashes /\ crashes' = crashes + 1 /\ recovered' = <<>>
      /\ UNCHANGED <<up, rollback, synced, lastTurn, todo, executed, abandoned>>
  BY DEF RepairInterrupted
<1>2. PICK n \in 0..Len(Repaired) : synced \in 0..n /\ log' = SubSeq(Repaired, 1, n)
  BY InterruptedReads
<1>3. PrefixesGood(log', abandoned) /\ Len(log') = n
  BY <1>2, RepairedFacts, PrefixesShrink
<1>4. Told(log', synced, executed)
  BY <1>2, RepairedFacts, ToldShrinks
<1>5. TypeOK'
  <2>1. crashes' \in 0..MaxCrashes
    BY <1>1, BoundsArePositive DEF RecoveryInv, TypeOK
  <2>2. log' \in Seq(Events) /\ synced' \in 0..Len(log')
    BY <1>1, <1>2, <1>3 DEF PrefixesGood
  <2>3. disk' \in Seq(FileLines) /\ recovered' \in Seq(Events)
    BY <1>1, InterruptedReads
  <2> QED BY <1>1, <2>1, <2>2, <2>3 DEF RecoveryInv, TypeOK
<1> QED BY <1>1, <1>3, <1>4, <1>5, InterruptedReads DEF RecoveryInv

\* A log is handed over whole.
LEMMA NothingToRewrite ==
    ASSUME RecoveryInv, Load
    PROVE  /\ Closers(log) = <<>> /\ recovered = <<>>
           /\ Len(disk) = Len(log) /\ \A i \in 1..Len(log) : disk[i].whole
<1>1. ~up /\ ~Torn(disk) /\ Rewrite = <<>>
  BY DEF Load
<1>2. Len(Rewrite) = 0
  BY <1>1
<1>3. Len(disk) = Len(log) /\ Len(Closers(log)) = 0
  <2>1. /\ Len(disk) \in Nat /\ Len(log) \in Nat /\ Len(disk) <= Len(log)
        /\ 0 = Len(Repaired) - Len(disk) /\ Len(Repaired) = Len(log) + Len(Closers(log))
        /\ Len(Closers(log)) \in Nat
    BY <1>1, <1>2, RewriteIsTheRest, RepairedFacts, FileFacts, LenProperties
  <2> QED BY <2>1
<1>4. Closers(log) = <<>>
  BY <1>3, RepairedFacts, EmptyLength
<1>5. recovered = <<>>
  <2>1. recovered = SubSeq(log, Len(disk) + 1, Len(log))
    BY <1>1 DEF RecoveryInv, FileInv
  <2>2. Len(SubSeq(log, Len(log) + 1, Len(log))) = 0
    BY FileFacts
  <2> QED BY <1>3, <2>1, <2>2, FileFacts, EmptyLength
<1>6. \A i \in 1..Len(log) : disk[i].whole
  BY <1>1, <1>3, FileFacts DEF Copies
<1> QED BY <1>3, <1>4, <1>5, <1>6

\* The number of the last turn is one of a turn.
LEMMA LastTurnTyped ==
    ASSUME NEW events \in Seq(Events)
    PROVE  LastTurn(events) \in 0..MaxTurns
<1>1. CASE TurnStarts(events) = {}
  BY <1>1, BoundsArePositive DEF LastTurn
<1>2. CASE TurnStarts(events) # {}
  <2>. DEFINE i == CHOOSE i \in TurnStarts(events) : \A j \in TurnStarts(events) : j <= i
  <2>1. i \in TurnStarts(events)
    BY <1>2, LastTurnExists
  <2>. HIDE DEF i
  <2>2. events[i] \in Events
    BY <2>1 DEF TurnStarts
  <2>3. events[i].turn \in 1..MaxTurns
    BY <2>2 DEF Events
  <2>4. LastTurn(events) = events[i].turn
    BY <1>2 DEF LastTurn, i
  <2> QED BY <2>3, <2>4
<1> QED BY <1>1, <1>2

\* Nothing is open where there is nothing to close.
LEMMA NothingToClose ==
    ASSUME NEW events, NEW lost, Good(events, lost), Closers(events) = <<>>
    PROVE  /\ Rules(events).openTurn = 0 /\ Rules(events).openStep = 0
           /\ Scan(events).pendingCalls = <<>>
           /\ Rules(events).nextTurn = LastTurn(events) + 1
<1>. DEFINE t == Rules(events)
            scan == Scan(events)
<1>1. Agree(t, scan, LastTurn(events))
  BY DEF Good
<1>2. scan \in Scans /\ t \in Traces
  BY <1>1 DEF Agree
<1>3. CloserCount(scan) = 0
  <2>1. Len(Closers(events)) = CloserCount(scan)
    BY <1>2, ClosersByPosition
  <2> QED BY <2>1
<1>. HIDE DEF t, scan
<1>4. Len(scan.pendingCalls) \in Nat /\ t.nextTurn \in Nat
  BY <1>2, LenProperties DEF Scans, Traces
<1>5. scan.openTurn = 0
  <2>. DEFINE count == IF scan.openStep = 0 THEN 1 ELSE 2
  <2>1. SUFFICES ASSUME scan.openTurn # 0 PROVE FALSE
    OBVIOUS
  <2>2. count \in {1, 2}
    OBVIOUS
  <2>3. CloserCount(scan) = Len(scan.pendingCalls) + count
    BY <2>1 DEF CloserCount
  <2>. HIDE DEF count
  <2> QED BY <1>3, <1>4, <2>2, <2>3
<1>6. t.openTurn = 0 /\ t.openStep = 0 /\ LastTurn(events) = t.nextTurn - 1
  BY <1>1, <1>5 DEF Agree
<1>7. scan.pendingCalls = <<>>
  BY <1>1, <1>6, NothingPending
<1> QED BY <1>4, <1>6, <1>7 DEF t, scan

\* What a stored log tells the agent that loads it.
LEMMA LoadFacts ==
    ASSUME RecoveryInv, Load
    PROVE  /\ Scan(log).pendingCalls = <<>> /\ Trace.openTurn = 0 /\ Trace.openStep = 0
           /\ LastTurn(log) \in 0..MaxTurns /\ Trace.nextTurn = LastTurn(log) + 1
<1>1. log \in Seq(Events) /\ PrefixesGood(log, abandoned)
  BY DEF RecoveryInv, TypeOK
<1>2. Good(log, abandoned)
  <2>1. Good(SubSeq(log, 1, Len(log)), abandoned)
    BY <1>1 DEF PrefixesGood
  <2> QED BY <1>1, <2>1, SubSeqFull
<1>3. Closers(log) = <<>>
  BY NothingToRewrite
<1> QED BY <1>1, <1>2, <1>3, NothingToClose, LastTurnTyped DEF Trace

\* A balanced log is loaded.
LEMMA LoadStep == RecoveryInv /\ Load => RecoveryInv'
<1> SUFFICES ASSUME RecoveryInv, Load PROVE RecoveryInv'
  OBVIOUS
<1>1. /\ log \in Seq(Events) /\ synced \in 0..Len(log) /\ Len(log) \in 0..Len(log)
      /\ Told(log, synced, executed) /\ PrefixesGood(log, abandoned)
  BY FileFacts
<1>2. /\ ~up /\ up' = TRUE /\ synced' = Len(log) /\ lastTurn' = LastTurn(log)
      /\ UNCHANGED <<log, disk, rollback, recovered, todo, executed, abandoned, crashes>>
  BY DEF Load, file
<1>3. todo = <<>> /\ rollback = {}
  BY <1>2 DEF RecoveryInv, FileInv
<1>4. Follows(log, <<>>, LastTurn(log)) /\ LastTurn(log) \in 0..MaxTurns
  BY LoadFacts, FollowsIdle
<1>5. Told(log, Len(log), executed)
  BY <1>1, ToldConfirmed
<1>6. TypeOK'
  BY <1>1, <1>2, <1>3, <1>4 DEF RecoveryInv, TypeOK
<1>7. FileInv'
  <2>1. /\ Copies(disk, log) /\ recovered = <<>> /\ Len(disk) = Len(log) /\ Len(log) <= Len(disk)
        /\ \A i \in 1..Len(log) : disk[i].whole
    BY NothingToRewrite, FileFacts
  <2> QED BY <1>2, <2>1 DEF FileInv
<1> QED BY <1>1, <1>2, <1>3, <1>4, <1>5, <1>6, <1>7 DEF RecoveryInv

-----------------------------------------------------------------------------
(* The invariant and what follows from it. *)

\* A new session.
LEMMA RecoveryInit == Init => RecoveryInv
<1> SUFFICES ASSUME Init PROVE RecoveryInv
  OBVIOUS
<1>1. /\ up = TRUE /\ log = <<>> /\ synced = 0 /\ lastTurn = 0 /\ todo = <<>>
      /\ executed = {} /\ abandoned = {} /\ crashes = 0
      /\ disk = <<>> /\ rollback = {} /\ recovered = <<>>
  BY DEF Init
<1>2. Good(<<>>, {}) /\ <<>> \in Seq(Events) /\ <<>> \in Seq(Calls) /\ Len(<<>>) = 0
  BY GoodEmpty
<1>3. PrefixesGood(<<>>, {})
  <2>1. ASSUME NEW n \in 0..Len(<<>>) PROVE Good(SubSeq(<<>>, 1, n), {})
    <3>1. SubSeq(<<>>, 1, n) = <<>>
      BY <1>2, <2>1
    <3> QED BY <1>2, <3>1
  <2> QED BY <1>2, <2>1 DEF PrefixesGood
<1>4. Told(<<>>, 0, {})
  <2>1. DOMAIN <<>> = {}
    BY EmptySeq
  <2> QED BY <2>1 DEF Told
<1>5. Follows(<<>>, <<>>, 0)
  <2>1. Scan(<<>>).pendingCalls = <<>>
    BY FoldsEmpty DEF FreshScan
  <2>2. LastTurn(<<>>) = 0
    <3>1. DOMAIN <<>> = {}
      BY EmptySeq
    <3> QED BY <3>1 DEF LastTurn, TurnStarts
  <2> QED BY <2>1, <2>2, FollowsIdle
<1>6. TypeOK
  <2>1. <<>> \in Seq(FileLines)
    OBVIOUS
  <2> QED BY <1>1, <1>2, <2>1, BoundsArePositive DEF TypeOK
<1>7. FileInv
  <2>1. <<>> \in Seq(FileLines) /\ Len(<<>>) = 0
    OBVIOUS
  <2>2. ~Torn(<<>>)
    BY DEF Torn
  <2> QED BY <1>1, <2>1, <2>2 DEF FileInv, Copies
<1> QED BY <1>1, <1>3, <1>4, <1>5, <1>6, <1>7 DEF RecoveryInv

\* Every step keeps it.
LEMMA RecoveryNext == RecoveryInv /\ [Next]_vars => RecoveryInv'
<1> SUFFICES ASSUME RecoveryInv, [Next]_vars PROVE RecoveryInv'
  OBVIOUS
<1>1. CASE Live
  <2>1. CASE OpenTurn BY <2>1, OpenTurnStep
  <2>2. CASE OpenStep BY <2>2, OpenStepStep
  <2>3. CASE \E calls \in Batches : Answer(calls) BY <2>3, AnswerStep
  <2>4. CASE RecordCall BY <2>4, RecordCallStep
  <2>5. CASE \E call \in Calls : Execute(call) BY <2>5, ExecuteStep
  <2>6. CASE CommitResult BY <2>6, CommitResultStep
  <2>7. CASE CloseStep BY <2>7, CloseStepStep
  <2>8. CASE CloseTurn BY <2>8, CloseTurnStep
  <2>9. CASE Persist BY <2>9, PersistStep
  <2>10. CASE AppendLands BY <2>10, AppendLandsStep
  <2>11. CASE RollBack BY <2>11, RollBackStep
  <2> QED BY <1>1, <2>1, <2>2, <2>3, <2>4, <2>5, <2>6, <2>7, <2>8, <2>9, <2>10, <2>11 DEF Live
<1>2. CASE Crash
  BY <1>2, CrashStep
<1>3. CASE RepairInterrupted
  BY <1>3, RepairInterruptedStep
<1>4. CASE Recovery
  BY <1>4, CutTornTailStep, CommitRepairStep, LoadStep DEF Recovery
<1>5. CASE UNCHANGED vars
  BY <1>5 DEF vars, RecoveryInv, TypeOK, FileInv
<1> QED BY <1>1, <1>2, <1>3, <1>4, <1>5 DEF Next

\* A session's log, its durability and its effects stay as RecoveryInv says, however
\* often the process is killed and wherever a repair is cut off.
THEOREM RecoveryCorrect == Spec => []RecoveryInv
<1>1. Init => RecoveryInv
  BY RecoveryInit
<1>2. RecoveryInv /\ [Next]_vars => RecoveryInv'
  BY RecoveryNext
<1> QED BY <1>1, <1>2, PTL DEF Spec

\* Every log a kill can leave obeys the session's rules, and repair finds in it what
\* the rules do.
THEOREM EveryLogIsLegal == Spec => []LogLegal
<1>1. RecoveryInv => LogLegal
  <2> SUFFICES ASSUME RecoveryInv PROVE LogLegal
    OBVIOUS
  <2>1. ASSUME NEW n \in 0..Len(log)
        PROVE  ScanAgrees(SubSeq(log, 1, n)) /\ CallsAccounted(SubSeq(log, 1, n), abandoned)
    BY <2>1, GoodAgrees DEF RecoveryInv, PrefixesGood
  <2>2. LiveAgrees
    BY DEF RecoveryInv, LiveAgrees, Follows, Pending
  <2> QED BY <2>1, <2>2 DEF LogLegal
<1> QED BY <1>1, RecoveryCorrect, PTL

\* However often the process is killed, a call whose step is over has exactly one
\* result, unless a live step failed with it.
THEOREM CallsAreAnsweredOnce == Spec => []EveryCallAnswered
<1>1. RecoveryInv => EveryCallAnswered
  <2> SUFFICES ASSUME RecoveryInv, up, Trace.openStep = 0, NEW call \in AskedIn(log) \ abandoned
               PROVE  Cardinality({i \in DOMAIN log : IsResultOf(log[i], call)}) = 1
    BY DEF EveryCallAnswered
  <2>1. CallsAccounted(log, abandoned) /\ Scan(log).pendingCalls = <<>>
    BY LiveFacts DEF Good, Pending
  <2>2. {p.call : p \in Range(<<>>)} = {}
    <3>1. Range(<<>>) = {}
      BY EmptySeq DEF Range
    <3> QED BY <3>1
  <2>3. PICK i \in DOMAIN log : ResultsOf(log, call) = {i}
    BY <2>1, <2>2 DEF CallsAccounted
  <2>4. {j \in DOMAIN log : IsResultOf(log[j], call)} = {i}
    BY <2>3 DEF ResultsOf
  <2> QED BY <2>4, FS_Singleton
<1> QED BY <1>1, RecoveryCorrect, PTL

\* No tool body has run without a durable call, and none that recovery reports as
\* never started has run.
THEOREM EffectsAreRecorded == Spec => []EffectsAreTold
<1>1. RecoveryInv => EffectsAreTold
  BY DEF RecoveryInv, Told, EffectsAreTold, NotStartedNeverRan, EffectIsRecorded
<1> QED BY <1>1, RecoveryCorrect, PTL

\* A loaded log is balanced, and the agent's next turn is the one the log expects.
THEOREM LoadsBalanced == Spec => ResumesBalanced
<1>1. RecoveryInv /\ [Next]_vars =>
        [~up /\ up' => /\ log' = log
                       /\ Trace.openTurn = 0 /\ Trace.openStep = 0
                       /\ Trace.nextTurn = lastTurn' + 1]_vars
  <2> SUFFICES ASSUME RecoveryInv, Next, ~up, up'
               PROVE  /\ log' = log
                      /\ Trace.openTurn = 0 /\ Trace.openStep = 0
                      /\ Trace.nextTurn = lastTurn' + 1
    BY DEF vars
  <2>1. Load
    BY DEF Next, Live, OpenTurn, OpenStep, Answer, RecordCall, Execute, CommitResult, CloseStep,
           CloseTurn, Persist, AppendLands, RollBack, Crash, RepairInterrupted, Recovery,
           CutTornTail, CommitRepair
  <2>2. log' = log /\ lastTurn' = LastTurn(log)
    BY <2>1 DEF Load
  <2> QED BY <2>1, <2>2, LoadFacts
<1> QED BY <1>1, RecoveryCorrect, PTL DEF Spec, ResumesBalanced

\* A log that keeps what is confirmed has it as a prefix.
LEMMA Keeps ==
    ASSUME NEW events \in Seq(Events), NEW n \in 0..Len(events),
           NEW after \in Seq(Events), n <= Len(after), SubSeq(after, 1, n) = SubSeq(events, 1, n)
    PROVE  IsPrefix(SubSeq(events, 1, n), after)
<1>1. Len(SubSeq(events, 1, n)) = n /\ SubSeq(SubSeq(events, 1, n), 1, n) = SubSeq(events, 1, n)
  OBVIOUS
<1>. DEFINE prefix == SubSeq(events, 1, n)
<1>2. Len(prefix) <= Len(after) /\ SubSeq(prefix, 1, Len(prefix)) = SubSeq(after, 1, Len(prefix))
  BY <1>1
<1>. HIDE DEF prefix
<1>3. IsPrefix(prefix, after)
  BY <1>2 DEF IsPrefix
<1> QED BY <1>3 DEF prefix

\* A log that keeps what is confirmed has it in its file too.
LEMMA FileKeeps ==
    ASSUME RecoveryInv, RecoveryInv', synced' >= synced,
           SubSeq(log', 1, synced) = SubSeq(log, 1, synced)
    PROVE  /\ IsPrefix(SubSeq(log, 1, synced), Read(disk'))
           /\ IsPrefix(SubSeq(log, 1, synced), log')
<1>1. log \in Seq(Events) /\ synced \in 0..Len(log) /\ Len(log) \in Nat
  BY FileFacts
<1>2. /\ log' \in Seq(Events) /\ synced' \in 0..Len(log') /\ Copies(disk', log')
      /\ synced' <= Len(disk') /\ \A i \in 1..synced' : disk'[i].whole
  BY DEF RecoveryInv, TypeOK, FileInv
<1>. DEFINE after == log'
            f == disk'
            n == synced'
<1>3. /\ after \in Seq(Events) /\ n \in 0..Len(after) /\ Copies(f, after) /\ n <= Len(f)
      /\ (\A i \in 1..n : f[i].whole) /\ n >= synced
      /\ SubSeq(after, 1, synced) = SubSeq(log, 1, synced)
  BY <1>2
<1>. HIDE DEF after, f, n
<1>4. n \in 0..Len(f) /\ synced \in 0..Len(after) /\ Len(after) \in Nat /\ synced \in 0..n
  BY <1>1, <1>3
<1>5. /\ Read(f) \in Seq(Events) /\ ReadLen(f) \in 0..Len(after) /\ n \in 0..ReadLen(f)
      /\ Read(f) = SubSeq(after, 1, ReadLen(f)) /\ Len(Read(f)) = ReadLen(f)
  BY <1>3, <1>4, WasRead
<1>6. SubSeq(Read(f), 1, synced) = SubSeq(after, 1, synced)
  <2>1. synced \in 0..ReadLen(f)
    BY <1>4, <1>5
  <2>2. SubSeq(SubSeq(after, 1, ReadLen(f)), 1, synced) = SubSeq(after, 1, synced)
    BY <1>3, <1>4, <1>5, <2>1
  <2> QED BY <1>5, <2>2
<1>7. synced <= Len(Read(f)) /\ synced <= Len(after)
  BY <1>4, <1>5
<1>8. IsPrefix(SubSeq(log, 1, synced), Read(f))
  BY <1>1, <1>3, <1>5, <1>6, <1>7, Keeps
<1>9. IsPrefix(SubSeq(log, 1, synced), after)
  BY <1>1, <1>3, <1>7, Keeps
<1> QED BY <1>8, <1>9 DEF after, f

\* A step that only appends to the log keeps what is confirmed.
LEMMA AppendKeeps ==
    ASSUME RecoveryInv, RecoveryInv', NEW e, log' = Append(log, e), synced' = synced
    PROVE  SubSeq(log', 1, synced) = SubSeq(log, 1, synced) /\ synced' >= synced
<1>1. log \in Seq(Events) /\ log' \in Seq(Events) /\ synced \in 0..Len(log)
  BY DEF RecoveryInv, TypeOK
<1>2. Len(log) \in Nat /\ Len(log') = Len(log) + 1 /\ log'[Len(log) + 1] = e
  BY <1>1
<1>3. e \in Events
  BY <1>1, <1>2
<1>4. synced >= synced
  BY <1>1
<1> QED BY <1>1, <1>3, <1>4, PrefixesOfAppend

\* A kill keeps what is confirmed, and so does a repair, cut off or not.
LEMMA RecoveryKeeps ==
    ASSUME RecoveryInv, Crash \/ RepairInterrupted \/ CommitRepair
    PROVE  SubSeq(log', 1, synced) = SubSeq(log, 1, synced) /\ synced' >= synced
<1>1. log \in Seq(Events) /\ synced \in 0..Len(log) /\ PrefixesGood(log, abandoned)
  BY FileFacts
<1>2. /\ PrefixesGood(Repaired, abandoned) /\ Len(Repaired) \in Nat /\ Len(Repaired) >= Len(log)
      /\ SubSeq(Repaired, 1, synced) = SubSeq(log, 1, synced)
  BY <1>1, RepairedFacts
<1>3. CASE Crash
  <2>1. PICK n \in 0..Len(log) : synced \in 0..n /\ log' = SubSeq(log, 1, n)
    BY <1>3, CrashReads
  <2>2. synced' = synced /\ synced >= synced
    BY <1>1, <1>3 DEF Crash
  <2> QED BY <1>1, <2>1, <2>2, PrefixesShrink
<1>4. CASE RepairInterrupted
  <2>1. PICK n \in 0..Len(Repaired) : synced \in 0..n /\ log' = SubSeq(Repaired, 1, n)
    BY <1>4, InterruptedReads
  <2>2. synced' = synced /\ synced >= synced
    BY <1>1, <1>4 DEF RepairInterrupted
  <2> QED BY <1>2, <2>1, <2>2, PrefixesShrink
<1>5. CASE CommitRepair
  <2>1. log' = Repaired /\ synced' = Len(Repaired)
    BY <1>5, CommitReads
  <2> QED BY <1>1, <1>2, <2>1
<1> QED BY <1>3, <1>4, <1>5

\* Confirmed events can be read back from the file for ever, at their place, and
\* whoever goes on with the session has them in its log: through failed appends and
\* their retries, kills, cuts and repairs that are killed too.
THEOREM ConfirmedEventsStay == Spec => ConfirmedIsForever
<1>1. RecoveryInv /\ RecoveryInv' /\ [Next]_vars =>
        [/\ IsPrefix(SubSeq(log, 1, synced), Read(disk'))
         /\ IsPrefix(SubSeq(log, 1, synced), log')
         /\ synced' >= synced]_vars
  <2> SUFFICES ASSUME RecoveryInv, RecoveryInv', Next
               PROVE  /\ IsPrefix(SubSeq(log, 1, synced), Read(disk'))
                      /\ IsPrefix(SubSeq(log, 1, synced), log')
                      /\ synced' >= synced
    BY DEF vars
  <2>1. log \in Seq(Events) /\ synced \in 0..Len(log) /\ Len(log) \in Nat
    BY FileFacts
  <2>2. ASSUME log' = log, synced' \in {synced, Len(log)}
        PROVE  SubSeq(log', 1, synced) = SubSeq(log, 1, synced) /\ synced' >= synced
    BY <2>1, <2>2
  <2>3. CASE Live
    <3>1. CASE OpenTurn BY <3>1, AppendKeeps, FileKeeps DEF OpenTurn, Append1
    <3>2. CASE OpenStep BY <3>2, AppendKeeps, FileKeeps DEF OpenStep, Append1
    <3>3. CASE \E calls \in Batches : Answer(calls)
      BY <3>3, AppendKeeps, FileKeeps DEF Answer, Append1
    <3>4. CASE RecordCall BY <3>4, AppendKeeps, FileKeeps DEF RecordCall, Append1
    <3>5. CASE \E call \in Calls : Execute(call) BY <2>2, <3>5, FileKeeps DEF Execute
    <3>6. CASE CommitResult BY <3>6, AppendKeeps, FileKeeps DEF CommitResult, Append1
    <3>7. CASE CloseStep BY <3>7, AppendKeeps, FileKeeps DEF CloseStep, Append1
    <3>8. CASE CloseTurn BY <3>8, AppendKeeps, FileKeeps DEF CloseTurn, Append1
    <3>9. CASE Persist BY <2>2, <3>9, FileKeeps DEF Persist
    <3>10. CASE AppendLands BY <2>2, <3>10, FileKeeps DEF AppendLands
    <3>11. CASE RollBack BY <2>2, <3>11, FileKeeps DEF RollBack
    <3> QED BY <2>3, <3>1, <3>2, <3>3, <3>4, <3>5, <3>6, <3>7, <3>8, <3>9, <3>10, <3>11 DEF Live
  <2>4. CASE Crash \/ RepairInterrupted \/ CommitRepair
    BY <2>4, RecoveryKeeps, FileKeeps
  <2>5. CASE CutTornTail
    BY <2>2, <2>5, FileKeeps DEF CutTornTail
  <2>6. CASE Load
    BY <2>2, <2>6, FileKeeps DEF Load
  <2> QED BY <2>3, <2>4, <2>5, <2>6 DEF Next, Recovery
<1> QED BY <1>1, RecoveryCorrect, PTL DEF Spec, ConfirmedIsForever
=============================================================================
