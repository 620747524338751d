---------------------------- MODULE SessionTrace ----------------------------
(***************************************************************************)
(* The relational rules of the session event log, as the session package's  *)
(* own runtime companion checks them (core/session/src/invariant.ts): a     *)
(* trace is the little state that decides whether one more event is legal.  *)
(*                                                                          *)
(* Turn and step numbers start at 1, so 0 stands for "none is open".  The   *)
(* strictly increasing sequence number is the event's position and is not   *)
(* represented.                                                             *)
(***************************************************************************)
EXTENDS Naturals, Sequences

\* calls: the tool calls the event names, in the assistant's order.
Event(type, turn, step, calls) ==
    [type |-> type, turn |-> turn, step |-> step, calls |-> calls]

TurnStart(turn)       == Event("turn/start", turn, 0, <<>>)
TurnEnd(turn)         == Event("turn/end", turn, 0, <<>>)
StepStart(turn, step) == Event("step/start", turn, step, <<>>)
StepEnd(turn, step)   == Event("step/end", turn, step, <<>>)
AssistantMessage(turn, step, calls) == Event("assistant/message", turn, step, calls)
ToolCall(turn, step, call)   == Event("tool/call", turn, step, <<call>>)
ToolResult(turn, step, call) == Event("tool/result", turn, step, <<call>>)
\* A result recovery writes for a call whose start was never recorded.
NotStartedResult(turn, step, call) == Event("tool/not-started", turn, step, <<call>>)

FreshTrace ==
    [openTurn |-> 0, openStep |-> 0, nextTurn |-> 1, nextStep |-> 1,
     calls |-> {}, legal |-> TRUE]

InOpenStep(t, e) == t.openTurn = e.turn /\ t.openStep = e.step

\* validateEvent: may this event follow what the trace has seen?
Legal(t, e) ==
    CASE e.type = "turn/start" -> t.openTurn = 0 /\ e.turn = t.nextTurn
      [] e.type = "turn/end"   -> t.openTurn = e.turn /\ t.openStep = 0
      [] e.type = "step/start" -> /\ t.openTurn = e.turn
                                  /\ t.openStep = 0
                                  /\ e.step = t.nextStep
      [] e.type = "tool/result" -> InOpenStep(t, e) /\ Head(e.calls) \in t.calls
      [] OTHER -> InOpenStep(t, e)

\* validateEvent's transition, applied once the event commits.
Advance(t, e) ==
    CASE e.type = "turn/start" ->
             [t EXCEPT !.openTurn = e.turn, !.nextStep = 1]
      [] e.type = "turn/end"   ->
             [t EXCEPT !.openTurn = 0, !.nextTurn = @ + 1]
      [] e.type = "step/start" ->
             [t EXCEPT !.openStep = e.step]
      [] e.type = "step/end"   ->
             [t EXCEPT !.openStep = 0, !.nextStep = @ + 1, !.calls = {}]
      [] e.type = "tool/call"  ->
             [t EXCEPT !.calls = @ \cup {Head(e.calls)}]
      [] e.type \in {"tool/result", "tool/not-started"} ->
             [t EXCEPT !.calls = @ \ {Head(e.calls)}]
      [] OTHER -> t

\* One committed event: an illegal one is remembered for ever.
Observe(t, e) == [Advance(t, e) EXCEPT !.legal = t.legal /\ Legal(t, e)]
=============================================================================
