----------------------------- MODULE TurnRepair -----------------------------
(***************************************************************************)
(* interruptedTurnClosers (core/session/src/repair.ts): the events that      *)
(* close the turn a crash left open at the end of a stored log.              *)
(***************************************************************************)
EXTENDS Naturals, Sequences, SequencesExt, SessionTrace

\* What the scan remembers: the open turn and step (0: none) and the calls the
\* assistant asked for that have no result, in order, with their own step and
\* whether their start was recorded.
FreshScan == [openTurn |-> 0, openStep |-> 0, pendingCalls |-> <<>>]

Unanswered(step, calls) ==
    [i \in 1..Len(calls) |-> [call |-> calls[i], step |-> step, state |-> "asked"]]

\* A call is pending once.
Without(pending, call) ==
    LET at == {i \in DOMAIN pending : pending[i].call = call}
    IN  IF at = {} THEN pending ELSE RemoveAt(pending, CHOOSE i \in at : TRUE)

ScanEvent(scan, e) ==
    CASE e.type = "turn/start" ->
             [openTurn |-> e.turn, openStep |-> 0, pendingCalls |-> <<>>]
      [] e.type = "turn/end"   -> FreshScan
      [] e.type = "step/start" -> [scan EXCEPT !.openStep = e.step]
      [] e.type = "step/end"   -> [scan EXCEPT !.openStep = 0, !.pendingCalls = <<>>]
      [] e.type = "assistant/message" ->
             [scan EXCEPT !.pendingCalls = @ \o Unanswered(e.step, e.calls)]
      [] e.type = "tool/call"  ->
             [scan EXCEPT !.pendingCalls = [i \in 1..Len(@) |->
                 IF @[i].call = Head(e.calls) THEN [@[i] EXCEPT !.state = "recorded"]
                                              ELSE @[i]]]
      [] e.type \in {"tool/result", "tool/not-started"} ->
             [scan EXCEPT !.pendingCalls = Without(@, Head(e.calls))]

\* The loop over the stored events.
Scanning == INSTANCE LogFold WITH Fresh <- FreshScan, Step <- ScanEvent

Scan(events) == Scanning!Fold(events)

\* A recorded call gets an unknown outcome, an unrecorded one was not started.
Closer(turn, pending) ==
    IF pending.state = "recorded"
    THEN ToolResult(turn, pending.step, pending.call)
    ELSE NotStartedResult(turn, pending.step, pending.call)

\* Faults: the open step is not closed; the calls are not answered.
ClosersLeaveStepOpen(events) ==
    LET scan == Scan(events)
        results == [i \in 1..Len(scan.pendingCalls) |->
                       Closer(scan.openTurn, scan.pendingCalls[i])]
    IN  IF scan.openTurn = 0 THEN <<>> ELSE results \o <<TurnEnd(scan.openTurn)>>

ClosersForgetCalls(events) ==
    LET scan == Scan(events)
        step == IF scan.openStep = 0 THEN <<>>
                ELSE <<StepEnd(scan.openTurn, scan.openStep)>>
    IN  IF scan.openTurn = 0 THEN <<>> ELSE step \o <<TurnEnd(scan.openTurn)>>

\* Results first, then the step, then the turn; nothing for a balanced log.
Closers(events) ==
    LET scan == Scan(events)
        results == [i \in 1..Len(scan.pendingCalls) |->
                       Closer(scan.openTurn, scan.pendingCalls[i])]
        step == IF scan.openStep = 0 THEN <<>>
                ELSE <<StepEnd(scan.openTurn, scan.openStep)>>
    IN  IF scan.openTurn = 0 THEN <<>>
        ELSE results \o step \o <<TurnEnd(scan.openTurn)>>
=============================================================================
