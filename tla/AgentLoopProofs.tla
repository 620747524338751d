-------------------------- MODULE AgentLoopProofs --------------------------
(***************************************************************************)
(* What holds of AgentLoop for every set of messages and causes and every    *)
(* bound on steps: its type invariant, that the driver's events always obey  *)
(* the session log's rules, and what becomes of the messages it accepts:     *)
(* where each one is, which turn may hold it, which wakes are owed, and what *)
(* a turn says of its ceiling.                                               *)
(***************************************************************************)
EXTENDS AgentLoop, SequenceTheorems, FiniteSetTheorems, TLAPS

-----------------------------------------------------------------------------
(* The effect of each of the driver's events on a trace. *)

\* turn/start opens the turn and restarts the step numbering.
LEMMA ObserveTurnStart ==
    ASSUME NEW t \in Traces, NEW n \in Nat
    PROVE  LET r == Observe(t, TurnStart(n)) IN
           /\ r \in Traces
           /\ r.openTurn = n /\ r.openStep = t.openStep
           /\ r.nextTurn = t.nextTurn /\ r.nextStep = 1
           /\ r.legal = (t.legal /\ t.openTurn = 0 /\ n = t.nextTurn)
BY DEF Traces, Observe, Advance, Legal, TurnStart, Event

\* turn/end closes the turn and counts it.
LEMMA ObserveTurnEnd ==
    ASSUME NEW t \in Traces, NEW n \in Nat
    PROVE  LET r == Observe(t, TurnEnd(n)) IN
           /\ r \in Traces
           /\ r.openTurn = 0 /\ r.openStep = t.openStep
           /\ r.nextTurn = t.nextTurn + 1 /\ r.nextStep = t.nextStep
           /\ r.legal = (t.legal /\ t.openTurn = n /\ t.openStep = 0)
<1>1. Advance(t, TurnEnd(n)) =
          [openTurn |-> 0, openStep |-> t.openStep,
           nextTurn |-> t.nextTurn + 1, nextStep |-> t.nextStep, calls |-> t.calls,
           legal |-> t.legal]
  BY DEF Traces, Advance, TurnEnd, Event
<1>2. Observe(t, TurnEnd(n)) =
          [Advance(t, TurnEnd(n)) EXCEPT
              !.legal = (t.legal /\ t.openTurn = n /\ t.openStep = 0)]
  BY DEF Observe, Legal, TurnEnd, Event
<1>3. Observe(t, TurnEnd(n)) =
          [openTurn |-> 0, openStep |-> t.openStep,
           nextTurn |-> t.nextTurn + 1, nextStep |-> t.nextStep, calls |-> t.calls,
           legal |-> (t.legal /\ t.openTurn = n /\ t.openStep = 0)]
  BY <1>1, <1>2
<1> QED BY <1>3 DEF Traces

\* step/start opens the step.
LEMMA ObserveStepStart ==
    ASSUME NEW t \in Traces, NEW n \in Nat, NEW k \in Nat
    PROVE  LET r == Observe(t, StepStart(n, k)) IN
           /\ r \in Traces
           /\ r.openTurn = t.openTurn /\ r.openStep = k
           /\ r.nextTurn = t.nextTurn /\ r.nextStep = t.nextStep
           /\ r.legal = (t.legal /\ t.openTurn = n /\ t.openStep = 0 /\ k = t.nextStep)
BY DEF Traces, Observe, Advance, Legal, StepStart, Event

\* step/end closes the step and counts it.
LEMMA ObserveStepEnd ==
    ASSUME NEW t \in Traces, NEW n \in Nat, NEW k \in Nat
    PROVE  LET r == Observe(t, StepEnd(n, k)) IN
           /\ r \in Traces
           /\ r.openTurn = t.openTurn /\ r.openStep = 0
           /\ r.nextTurn = t.nextTurn /\ r.nextStep = t.nextStep + 1
           /\ r.legal = (t.legal /\ t.openTurn = n /\ t.openStep = k)
<1>1. Advance(t, StepEnd(n, k)) =
          [openTurn |-> t.openTurn, openStep |-> 0,
           nextTurn |-> t.nextTurn, nextStep |-> t.nextStep + 1, calls |-> {},
           legal |-> t.legal]
  BY DEF Traces, Advance, StepEnd, Event
<1>2. Observe(t, StepEnd(n, k)) =
          [Advance(t, StepEnd(n, k)) EXCEPT
              !.legal = (t.legal /\ t.openTurn = n /\ t.openStep = k)]
  BY DEF Observe, Legal, StepEnd, Event, InOpenStep
<1>3. Observe(t, StepEnd(n, k)) =
          [openTurn |-> t.openTurn, openStep |-> 0,
           nextTurn |-> t.nextTurn, nextStep |-> t.nextStep + 1, calls |-> {},
           legal |-> (t.legal /\ t.openTurn = n /\ t.openStep = k)]
  BY <1>1, <1>2
<1> QED BY <1>3 DEF Traces

\* An assistant message changes nothing; it must lie in the open step.
LEMMA ObserveAssistantMessage ==
    ASSUME NEW t \in Traces, NEW n \in Nat, NEW k \in Nat
    PROVE  LET r == Observe(t, AssistantMessage(n, k, <<>>)) IN
           /\ r \in Traces
           /\ r.openTurn = t.openTurn /\ r.openStep = t.openStep
           /\ r.nextTurn = t.nextTurn /\ r.nextStep = t.nextStep
           /\ r.legal = (t.legal /\ t.openTurn = n /\ t.openStep = k)
BY DEF Traces, Observe, Advance, Legal, AssistantMessage, Event, InOpenStep
-----------------------------------------------------------------------------
(* Type correctness. *)

\* Insertion keeps the inbox a pair of message lists.
LEMMA InsertType ==
    ASSUME InboxType, NEW m \in Msgs, NEW list, Insert(m, list)
    PROVE  InboxType'
<1>1. nextTurn' \in Seq(Msgs) /\ nextStep' \in Seq(Msgs)
  <2>1. \A s \in Seq(Msgs) : Append(s, m) \in Seq(Msgs)
    OBVIOUS
  <2>2. \/ nextTurn' = Append(nextTurn, m) /\ nextStep' = nextStep
        \/ nextStep' = Append(nextStep, m) /\ nextTurn' = nextTurn
    BY DEF Insert
  <2> QED BY <2>1, <2>2 DEF InboxType
<1>2. fate' \in [Msgs -> {"unsent", "pending", "claimed", "delivered",
                          "dropped", "canceled"}]
  BY DEF InboxType, Insert
<1> QED BY <1>1, <1>2 DEF InboxType, Insert

\* A fresh phase is a phase.
LEMMA PhaseType ==
    ASSUME phase \in Phases, NEW kind \in {"idle", "maintenance", "running"}
    PROVE  Phase(kind, phase.turn) \in Phases
BY DEF Phase, Phases

\* Latching a wake yields a phase.
LEMMA LatchWakeType ==
    ASSUME phase \in Phases, NEW afterAbort, LatchWake(afterAbort)
    PROVE  phase' \in Phases
<1>1. \A b \in BOOLEAN : [phase EXCEPT !.wake = b] \in Phases
  BY DEF Phases
<1>2. (phase.wake \/ Defers(afterAbort)) \in BOOLEAN
  OBVIOUS
<1>3. phase' = [phase EXCEPT !.wake = (phase.wake \/ Defers(afterAbort))]
  BY DEF LatchWake, Phases
<1> QED BY <1>1, <1>2, <1>3

\* Firing the abort signal yields a phase.
LEMMA AbortPhaseType ==
    ASSUME phase \in Phases, NEW cause \in Causes \cup {"disposed"},
           NEW keepInbox \in BOOLEAN, AbortPhase(cause, keepInbox)
    PROVE  phase' \in Phases
BY DEF AbortPhase, Phases, IsIdle, Aborted

\* Suspending a client call keeps the stack a sequence of frames.
LEMMA PushType ==
    ASSUME stack \in Seq(Frames), NEW frame \in Frames, Push(frame)
    PROVE  stack' \in Seq(Frames)
<1>1. <<frame>> \in Seq(Frames)
  OBVIOUS
<1> QED BY <1>1 DEF Push

\* So does resuming the innermost one, which is a frame of the awaited kind.
LEMMA ReturnType ==
    ASSUME stack \in Seq(Frames), NEW op, Innermost(op)
    PROVE  /\ Tail(stack) \in Seq(Frames) /\ stack # <<>>
           /\ Head(stack) \in Frames /\ Head(stack).op = op
BY DEF Innermost

\* A driver at its first await leaves its starter's callers.
LEMMA YieldsType ==
    ASSUME stack \in Seq(Frames), Yields
    PROVE  stack' \in Seq(Frames)
<1>1. CASE Starting
  BY <1>1, ReturnType DEF Yields, Starting
<1>2. CASE ~Starting
  BY <1>2 DEF Yields
<1> QED BY <1>1, <1>2

\* A new driver runs on top of them.
LEMMA StartType ==
    ASSUME phase \in Phases, NEW callers \in Seq(Frames), StartDriver(callers)
    PROVE  phase' \in Phases /\ pc' = "boundary" /\ stack' \in Seq(Frames) /\ owed' = {}
<1>1. StartFrame \in Frames
  BY DEF Frames
<1>2. stack' \in Seq(Frames)
  BY <1>1 DEF StartDriver
<1> QED BY <1>2, PhaseType DEF StartDriver

\* A throw leaves the turn over or about to be.
LEMMA FailsType ==
    ASSUME phase \in Phases, trace \in Traces, Fails
    PROVE  /\ pc' \in {"ended", "failing"} /\ trace' \in Traces
           /\ turnEnds' \in {"aborted", "error"} /\ exit' = "throw"
<1>1. phase.turn \in Nat
  BY DEF Phases
<1>2. Failure \in {"aborted", "error"}
  BY DEF Failure
<1>3. CASE Aborted /\ CloseTurn(Failure, "throw")
  BY <1>1, <1>2, <1>3, ObserveTurnEnd DEF CloseTurn
<1>4. CASE ~Aborted /\ turnEnds' = Failure /\ exit' = "throw" /\ pc' = "failing" /\ UNCHANGED trace
  BY <1>2, <1>4
<1> QED BY <1>3, <1>4 DEF Fails

\* Emptying one list keeps the inbox and the obligations well typed.
LEMMA DiscardType ==
    ASSUME InboxType, owed \subseteq Msgs, NEW list, Discard(list)
    PROVE  InboxType' /\ owed' \in SUBSET Msgs
<1>1. nextTurn' \in Seq(Msgs) /\ nextStep' \in Seq(Msgs)
  BY DEF Discard, InboxType
<1>2. fate' \in [Msgs -> {"unsent", "pending", "claimed", "delivered",
                          "dropped", "canceled"}]
  BY DEF Discard, InboxType
<1> QED BY <1>1, <1>2 DEF Discard, InboxType

\* So does taking the wake back and firing the signal, which also keeps the phase.
LEMMA FiresType ==
    ASSUME phase \in Phases, InboxType, NEW cause \in Causes \cup {"disposed"}, Fires(cause)
    PROVE  phase' \in Phases /\ InboxType' /\ owed' \in SUBSET Msgs
<1>1. phase' \in Phases
  BY AbortPhaseType DEF Fires
<1>2. InboxType'
  BY DEF Fires, InboxType, inbox
<1> QED BY <1>1, <1>2 DEF Fires

\* A cancel keeps phase, inbox, stack and obligations well typed.
LEMMA CancelCallType ==
    ASSUME phase \in Phases, InboxType, ClientType,
           NEW cause \in Causes \cup {"disposed"}, CancelCall(cause)
    PROVE  /\ phase' \in Phases /\ InboxType'
           /\ stack' \in Seq(Frames) /\ owed' \in SUBSET Msgs
<1>0. stack \in Seq(Frames) /\ owed \subseteq Msgs
  BY DEF ClientType
<1>1. CASE Discard("next-step") /\ Push(ClearFrame(cause)) /\ UNCHANGED phase
  <2>1. ClearFrame(cause) \in Frames
    BY DEF ClearFrame, Frames
  <2> QED BY <1>0, <1>1, <2>1, PushType, DiscardType
<1>2. CASE Discard("next-turn") /\ Push(CancelFrame(cause)) /\ UNCHANGED phase
  <2>1. CancelFrame(cause) \in Frames
    BY DEF CancelFrame, Frames
  <2> QED BY <1>0, <1>2, <2>1, PushType, DiscardType
<1>3. CASE Fires(cause) /\ UNCHANGED stack
  BY <1>0, <1>3, FiresType
<1> QED BY <1>1, <1>2, <1>3 DEF CancelCall

\* Every step keeps the type invariant: one case per action.
LEMMA TypeStep == TypeOK /\ [Next]_vars => TypeOK'
<1> SUFFICES ASSUME TypeOK, [Next]_vars PROVE TypeOK'
  OBVIOUS
<1>0. /\ phase \in Phases /\ pc \in Places /\ trace \in Traces
      /\ LocalsType /\ InboxType /\ ClientType
  BY DEF TypeOK
<1>1. ASSUME NEW m \in Msgs, NEW list \in {"next-turn", "next-step"},
            SendWaking(m, list) PROVE TypeOK'
  <2>1. InboxType'
    BY <1>0, <1>1, InsertType DEF SendWaking
  <2>2. ClientType'
    <3>1. SendFrame(m, Aborted) \in Frames
      BY DEF SendFrame, Frames, Aborted
    <3>2. stack' \in Seq(Frames)
      BY <1>0, <1>1, <3>1, PushType DEF SendWaking, ClientType
    <3> QED BY <1>0, <1>1, <3>2 DEF SendWaking, ClientType
  <2> QED BY <1>0, <1>1, <2>1, <2>2 DEF SendWaking, LocalsType, locals, TypeOK
<1>2. ASSUME NEW m \in Msgs, Inject(m) PROVE TypeOK'
  <2>1. InboxType'
    BY <1>0, <1>2, InsertType DEF Inject
  <2> QED BY <1>0, <1>2, <2>1 DEF Inject, LocalsType, locals, ClientType, client, TypeOK
<1>3. ASSUME NEW m \in Msgs, Withdraw(m) PROVE TypeOK'
  <2>1. InboxType'
    <3>1. \A s \in Seq(Msgs), i \in Nat : i \in 1..Len(s) => RemoveAt(s, i) \in Seq(Msgs)
      BY DEF RemoveAt
    <3>2. nextTurn' \in Seq(Msgs) /\ nextStep' \in Seq(Msgs)
      BY <1>0, <1>3, <3>1 DEF Withdraw, InboxType
    <3>3. fate' \in [Msgs -> {"unsent", "pending", "claimed", "delivered",
                              "dropped", "canceled"}]
      BY <1>0, <1>3 DEF Withdraw, InboxType
    <3> QED BY <1>0, <1>3, <3>2, <3>3 DEF Withdraw, InboxType
  <2>2. ClientType'
    BY <1>0, <1>3 DEF Withdraw, ClientType
  <2> QED BY <1>0, <1>3, <2>1, <2>2 DEF Withdraw, LocalsType, locals, TypeOK
<1>4. ASSUME NEW cause \in Causes, Cancel(cause) PROVE TypeOK'
  <2>1. phase' \in Phases /\ InboxType' /\ stack' \in Seq(Frames) /\ owed' \in SUBSET Msgs
    BY <1>0, <1>4, CancelCallType DEF Cancel
  <2>2. ClientType'
    BY <1>0, <1>4, <2>1 DEF Cancel, CancelCall, ClientType
  <2> QED BY <1>0, <1>4, <2>1, <2>2 DEF Cancel, CancelCall, LocalsType, locals, TypeOK
<1>5. ASSUME NEW cause \in Causes, CancelKeepInbox(cause) PROVE TypeOK'
  <2>1. phase' \in Phases
    BY <1>0, <1>5, AbortPhaseType DEF CancelKeepInbox
  <2> QED BY <1>0, <1>5, <2>1 DEF CancelKeepInbox, LocalsType, locals, InboxType, inbox, ClientType, client, TypeOK
<1>6. CASE Dispose
  <2>1. phase' \in Phases /\ InboxType' /\ stack' \in Seq(Frames) /\ owed' \in SUBSET Msgs
    BY <1>0, <1>6, CancelCallType DEF Dispose
  <2>2. ClientType'
    BY <1>0, <1>6, <2>1 DEF Dispose, CancelCall, ClientType
  <2> QED BY <1>0, <1>6, <2>1, <2>2 DEF Dispose, CancelCall, LocalsType, locals, TypeOK
<1>7. CASE StartMaintenance
  <2>1. phase' \in Phases
    BY <1>0, <1>7 DEF StartMaintenance, Phase, Phases
  <2> QED BY <1>0, <1>7, <2>1 DEF StartMaintenance, LocalsType, locals, InboxType, inbox, ClientType, client, TypeOK
<1>8. CASE OpenTurn
  <2>1. phase' \in Phases
    BY <1>0, <1>8 DEF OpenTurn, Phases
  <2>2. pc' \in Places
    BY <1>0, <1>8 DEF OpenTurn, Places
  <2>3. trace' \in Traces
    BY <1>0, <1>8, ObserveTurnStart DEF OpenTurn, Phases
  <2>4. LocalsType'
    BY <1>0, <1>8 DEF OpenTurn, LocalsType, Reasons, locals
  <2>5. ClientType'
    BY <1>0, <1>8, YieldsType DEF OpenTurn, ClientType
  <2> QED BY <1>0, <1>8, <2>1, <2>2, <2>3, <2>4, <2>5 DEF OpenTurn, InboxType, inbox, TypeOK
<1>9. CASE Propose
  <2>1. pc' \in Places
    BY <1>0, <1>9 DEF Propose, Places
  <2>2. InboxType'
    BY <1>0, <1>9 DEF Propose, Claimed, InboxType, Phases, Range
  <2>3. LocalsType'
    BY <1>0, <1>9 DEF Propose, Claimed, LocalsType, InboxType
  <2>4. ClientType'
    BY <1>0, <1>9, YieldsType DEF Propose, ClientType
  <2> QED BY <1>0, <1>9, <2>1, <2>2, <2>3, <2>4 DEF Propose, TypeOK
<1>10. CASE ProposalFails
  <2>1. /\ pc' \in {"ended", "failing"} /\ trace' \in Traces
        /\ turnEnds' \in {"aborted", "error"} /\ exit' = "throw"
    BY <1>0, <1>10, FailsType DEF ProposalFails
  <2>2. pc' \in Places
    BY <2>1 DEF Places
  <2>3. InboxType'
    BY <1>0, <1>10 DEF ProposalFails, Decided, InboxType
  <2>4. LocalsType'
    BY <1>0, <1>10, <2>1 DEF ProposalFails, Decided, LocalsType, Reasons
  <2>5. ClientType'
    BY <1>0, <1>10, YieldsType DEF ProposalFails, ClientType
  <2> QED BY <1>0, <1>10, <2>1, <2>2, <2>3, <2>4, <2>5 DEF ProposalFails, TypeOK
<1>30. ASSUME NEW decision \in {"rejecting", "emptied", "entering"}, ProposalDecided(decision)
       PROVE TypeOK'
  <2>1. pc' \in Places
    BY <1>30 DEF ProposalDecided, Places
  <2> QED BY <1>0, <1>30, <2>1 DEF ProposalDecided, LocalsType, locals, InboxType, inbox, ClientType, client, TypeOK
<1>11. CASE ProposalRejected
  <2>1. pc' \in Places
    BY <1>0, <1>11 DEF ProposalRejected, CloseTurn, Places
  <2>2. trace' \in Traces
    BY <1>0, <1>11, ObserveTurnEnd DEF ProposalRejected, CloseTurn, Phases
  <2>3. InboxType'
    BY <1>0, <1>11 DEF ProposalRejected, Decided, InboxType
  <2>4. LocalsType'
    BY <1>0, <1>11 DEF ProposalRejected, Decided, CloseTurn, LocalsType, Reasons
  <2> QED BY <1>0, <1>11, <2>1, <2>2, <2>3, <2>4 DEF ProposalRejected, ClientType, client, TypeOK
<1>12. CASE ProposalEmpty
  <2>1. pc' \in Places
    BY <1>0, <1>12 DEF ProposalEmpty, CloseTurn, Places
  <2>2. trace' \in Traces
    BY <1>0, <1>12, ObserveTurnEnd DEF ProposalEmpty, CloseTurn, Phases
  <2>3. InboxType'
    BY <1>0, <1>12 DEF ProposalEmpty, Decided, InboxType
  <2>4. LocalsType'
    BY <1>0, <1>12 DEF ProposalEmpty, Decided, CloseTurn, LocalsType, Reasons
  <2> QED BY <1>0, <1>12, <2>1, <2>2, <2>3, <2>4 DEF ProposalEmpty, ClientType, client, TypeOK
<1>13. ASSUME NEW kept \in {Range(batch), {}}, EnterStep(kept) PROVE TypeOK'
  <2>1. phase' \in Phases
    BY <1>0, <1>13 DEF EnterStep, Phases
  <2>2. pc' \in Places
    BY <1>0, <1>13 DEF EnterStep, Places
  <2>3. trace' \in Traces
    BY <1>0, <1>13, ObserveStepStart DEF EnterStep, Phases
  <2>4. InboxType'
    BY <1>0, <1>13 DEF EnterStep, Decided, InboxType
  <2>5. LocalsType'
    BY <1>0, <1>13 DEF EnterStep, Decided, LocalsType
  <2> QED BY <1>0, <1>13, <2>1, <2>2, <2>3, <2>4, <2>5 DEF EnterStep, ClientType, client, TypeOK
<1>14. ASSUME NEW end \in {"completed", "max-tokens"}, ModelFinishes(end) PROVE TypeOK'
  <2>1. pc' \in Places
    BY <1>0, <1>14 DEF ModelFinishes, Places
  <2>2. trace' \in Traces
    BY <1>0, <1>14, ObserveAssistantMessage, ObserveStepEnd DEF ModelFinishes, Phases
  <2>3. LocalsType'
    BY <1>0, <1>14 DEF ModelFinishes, StepResult, LocalsType, Reasons
  <2> QED BY <1>0, <1>14, <2>1, <2>2, <2>3 DEF ModelFinishes, InboxType, inbox, ClientType, client, TypeOK
<1>15. CASE StepFails
  <2>1. pc' \in Places
    BY <1>0, <1>15 DEF StepFails, EndStep, Places
  <2>2. trace' \in Traces
    BY <1>0, <1>15, ObserveStepEnd DEF StepFails, EndStep, Phases
  <2> QED BY <1>0, <1>15, <2>1, <2>2 DEF StepFails, LocalsType, locals, InboxType, inbox, ClientType, client, TypeOK
<1>16. CASE ModelCallsTools
  <2>1. pc' \in Places
    BY <1>0, <1>16 DEF ModelCallsTools, Places
  <2>2. trace' \in Traces
    BY <1>0, <1>16, ObserveAssistantMessage DEF ModelCallsTools, Phases
  <2> QED BY <1>0, <1>16, <2>1, <2>2 DEF ModelCallsTools, LocalsType, locals, InboxType, inbox, ClientType, client, TypeOK
<1>17. ASSUME NEW m \in Msgs, ToolContext(m) PROVE TypeOK'
  <2>1. InboxType'
    BY <1>0, <1>17, InsertType DEF ToolContext
  <2> QED BY <1>0, <1>17, <2>1 DEF ToolContext, LocalsType, locals, ClientType, client, TypeOK
<1>18. ASSUME NEW end \in {"completed", "null"}, ToolsFinish(end) PROVE TypeOK'
  <2>1. pc' \in Places
    BY <1>0, <1>18 DEF ToolsFinish, EndStep, Places
  <2>2. trace' \in Traces
    BY <1>0, <1>18, ObserveStepEnd DEF ToolsFinish, EndStep, Phases
  <2>3. LocalsType'
    BY <1>0, <1>18 DEF ToolsFinish, StepResult, LocalsType, Reasons
  <2> QED BY <1>0, <1>18, <2>1, <2>2, <2>3 DEF ToolsFinish, InboxType, inbox, ClientType, client, TypeOK
<1>19. CASE StepFailureEndsTurn
  <2>1. /\ pc' \in {"ended", "failing"} /\ trace' \in Traces
        /\ turnEnds' \in {"aborted", "error"} /\ exit' = "throw"
    BY <1>0, <1>19, FailsType DEF StepFailureEndsTurn
  <2>2. pc' \in Places
    BY <2>1 DEF Places
  <2>3. LocalsType'
    BY <1>0, <1>19, <2>1 DEF StepFailureEndsTurn, LocalsType, Reasons
  <2> QED BY <1>0, <1>19, <2>1, <2>2, <2>3 DEF StepFailureEndsTurn, InboxType, inbox, ClientType, client, TypeOK
<1>31. CASE FailureReported
  <2>1. pc' \in Places
    BY <1>0, <1>31 DEF FailureReported, CloseTurn, Places
  <2>2. trace' \in Traces
    BY <1>0, <1>31, ObserveTurnEnd DEF FailureReported, CloseTurn, Phases
  <2>3. LocalsType'
    BY <1>0, <1>31 DEF FailureReported, CloseTurn, LocalsType
  <2> QED BY <1>0, <1>31, <2>1, <2>2, <2>3 DEF FailureReported, InboxType, inbox, ClientType, client, TypeOK
<1>20. CASE AfterStep
  <2>1. pc' \in Places
    BY <1>0, <1>20 DEF AfterStep, CloseTurn, Places
  <2>2. trace' \in Traces
    BY <1>0, <1>20, ObserveTurnEnd DEF AfterStep, CloseTurn, Phases
  <2>3. LocalsType'
    BY <1>0, <1>20 DEF AfterStep, CloseTurn, LocalsType, Reasons
  <2> QED BY <1>0, <1>20, <2>1, <2>2, <2>3 DEF AfterStep, InboxType, inbox, ClientType, client, TypeOK
<1>21. CASE Stop
  <2>1. CASE Fails /\ UNCHANGED target
    <3>1. /\ pc' \in {"ended", "failing"} /\ trace' \in Traces
          /\ turnEnds' \in {"aborted", "error"} /\ exit' = "throw"
      BY <1>0, <2>1, FailsType
    <3>2. pc' \in Places
      BY <3>1 DEF Places
    <3>3. LocalsType'
      BY <1>0, <1>21, <2>1, <3>1 DEF Stop, LocalsType, Reasons
    <3> QED BY <1>0, <1>21, <3>1, <3>2, <3>3 DEF Stop, InboxType, inbox, ClientType, client, TypeOK
  <2>2. CASE \/ /\ nextStep = <<>>
                /\ CloseTurn(turnEnds, "break")
                /\ UNCHANGED target
             \/ /\ pc' = "loop"
                /\ target' = "next-step"
                /\ UNCHANGED <<exit, turnEnds, trace>>
    <3>1. pc' \in Places
      BY <1>0, <1>21, <2>2 DEF Stop, CloseTurn, Places
    <3>2. trace' \in Traces
      BY <1>0, <1>21, <2>2, ObserveTurnEnd DEF Stop, CloseTurn, Phases
    <3>3. LocalsType'
      BY <1>0, <1>21, <2>2 DEF Stop, CloseTurn, LocalsType, Reasons
    <3> QED BY <1>0, <1>21, <3>1, <3>2, <3>3 DEF Stop, InboxType, inbox, ClientType, client, TypeOK
  <2> QED BY <1>21, <2>1, <2>2, Zenon DEF Stop
<1>22. CASE AfterTurn
  <2>1. phase' \in Phases
    BY <1>0, <1>22, PhaseType DEF AfterTurn, NextTurnPhase
  <2>2. pc' \in Places
    BY <1>0, <1>22 DEF AfterTurn, Places
  <2>3. ClientType'
    BY <1>0, <1>22 DEF AfterTurn, ClientType
  <2> QED BY <1>0, <1>22, <2>1, <2>2, <2>3 DEF AfterTurn, LocalsType, locals, InboxType, inbox, TypeOK
<1>23. CASE Retire
  <2>1. phase' \in Phases
    BY <1>0, <1>23 DEF Retire, BecomeIdle, Phase, Phases
  <2>2. pc' \in Places
    BY <1>0, <1>23 DEF Retire, Places
  <2>3. ClientType'
    BY <1>0, <1>23 DEF Retire, BecomeIdle, ClientType, Phases
  <2> QED BY <1>0, <1>23, <2>1, <2>2, <2>3 DEF Retire, LocalsType, locals, InboxType, inbox, TypeOK
<1>24. CASE FinishSend
  <2>1. /\ Tail(stack) \in Seq(Frames)
        /\ Head(stack) \in Frames /\ Head(stack).op = "send"
    BY <1>0, <1>24, ReturnType DEF FinishSend, ClientType
  <2>2. Head(stack).msg \in Msgs
    BY <2>1 DEF Frames, StartFrame
  <2>3. CASE StartDriver(Tail(stack))
    <3>1. phase' \in Phases /\ pc' = "boundary" /\ stack' \in Seq(Frames) /\ owed' = {}
      BY <1>0, <2>1, <2>3, StartType
    <3>2. pc' \in Places /\ ClientType'
      BY <1>0, <1>24, <3>1 DEF FinishSend, ClientType, Places
    <3> QED BY <1>0, <1>24, <3>1, <3>2 DEF FinishSend, LocalsType, locals, InboxType, inbox, TypeOK
  <2>4. CASE /\ LatchWake(Head(stack).afterAbort)
             /\ stack' = Tail(stack)
             /\ owed' = IF Defers(Head(stack).afterAbort)
                        THEN owed \cup ({Head(stack).msg} \cap Pending) ELSE owed
    <3>1. phase' \in Phases /\ pc' = pc
      BY <1>0, <2>4, LatchWakeType DEF LatchWake
    <3>2. ClientType'
      BY <1>0, <1>24, <2>1, <2>2, <2>4 DEF FinishSend, ClientType
    <3> QED BY <1>0, <1>24, <3>1, <3>2 DEF FinishSend, LocalsType, locals, InboxType, inbox, TypeOK
  <2> QED BY <1>24, <2>3, <2>4 DEF FinishSend
<1>25. CASE Replay
  <2>1. /\ phase' \in Phases /\ pc' \in Places
        /\ stack' \in Seq(Frames) /\ owed' \in SUBSET Msgs
    <3>1. CASE StartDriver(<<>>)
      <4>0. <<>> \in Seq(Frames)
        OBVIOUS
      <4>1. phase' \in Phases /\ pc' = "boundary" /\ stack' \in Seq(Frames) /\ owed' = {}
        BY <1>0, <3>1, <4>0, StartType
      <4> QED BY <4>1 DEF Places
    <3>2. CASE LatchWake(FALSE) /\ UNCHANGED <<owed, stack>>
      BY <1>0, <3>2, LatchWakeType DEF LatchWake, ClientType
    <3>3. CASE UNCHANGED <<phase, pc, owed, stack>>
      BY <1>0, <3>3 DEF ClientType
    <3> QED BY <1>25, <3>1, <3>2, <3>3 DEF Replay
  <2>2. ClientType'
    BY <1>0, <1>25, <2>1 DEF Replay, ClientType
  <2> QED BY <1>0, <1>25, <2>1, <2>2 DEF Replay, LocalsType, locals, InboxType, inbox, TypeOK
<1>26. CASE FinishMaintenance
  <2>1. phase' \in Phases
    BY <1>0, <1>26 DEF FinishMaintenance, BecomeIdle, Phase, Phases
  <2>2. ClientType'
    BY <1>0, <1>26 DEF FinishMaintenance, BecomeIdle, ClientType, Phases
  <2> QED BY <1>0, <1>26, <2>1, <2>2 DEF FinishMaintenance, LocalsType, locals, InboxType, inbox, TypeOK
<1>27. CASE FinishCancel
  <2>1. /\ Tail(stack) \in Seq(Frames)
        /\ Head(stack) \in Frames /\ Head(stack).op = "cancel"
    BY <1>0, <1>27, ReturnType DEF FinishCancel, Returns, ClientType
  <2>2. Head(stack).cause \in Causes \cup {"disposed"}
    BY <2>1 DEF Frames, StartFrame
  <2>3. phase' \in Phases /\ InboxType' /\ owed' \in SUBSET Msgs
    BY <1>0, <1>27, <2>2, FiresType DEF FinishCancel
  <2>4. ClientType'
    BY <1>0, <1>27, <2>1, <2>3 DEF FinishCancel, Returns, Reached, ClientType
  <2> QED BY <1>0, <1>27, <2>3, <2>4 DEF FinishCancel, LocalsType, locals, TypeOK
<1>32. CASE FinishClear
  <2>1. /\ Tail(stack) \in Seq(Frames)
        /\ Head(stack) \in Frames /\ Head(stack).op = "clear"
    BY <1>0, <1>32, ReturnType DEF FinishClear, ClientType
  <2>2. Head(stack).cause \in Causes \cup {"disposed"}
    BY <2>1 DEF Frames, StartFrame
  <2>3. CASE /\ Discard("next-turn")
             /\ stack' = <<CancelFrame(Head(stack).cause)>> \o Tail(stack)
             /\ UNCHANGED <<phase, life>>
    <3>1. InboxType' /\ owed' \in SUBSET Msgs
      BY <1>0, <2>3, DiscardType DEF ClientType
    <3>2. <<CancelFrame(Head(stack).cause)>> \in Seq(Frames)
      BY <2>2 DEF CancelFrame, Frames
    <3>3. ClientType'
      BY <1>0, <1>32, <2>1, <2>3, <3>1, <3>2 DEF FinishClear, ClientType
    <3> QED BY <1>0, <1>32, <2>3, <3>1, <3>3 DEF FinishClear, LocalsType, locals, TypeOK
  <2>4. CASE /\ Fires(Head(stack).cause)
             /\ stack' = Tail(stack)
             /\ life' = Reached(Head(stack).cause)
    <3>1. phase' \in Phases /\ InboxType' /\ owed' \in SUBSET Msgs
      BY <1>0, <2>2, <2>4, FiresType
    <3>2. ClientType'
      BY <1>0, <1>32, <2>1, <2>4, <3>1 DEF FinishClear, Reached, ClientType
    <3> QED BY <1>0, <1>32, <3>1, <3>2 DEF FinishClear, LocalsType, locals, TypeOK
  <2> QED BY <1>32, <2>3, <2>4 DEF FinishClear
<1>28. CASE Disposed
  <2>1. ClientType'
    BY <1>0, <1>28 DEF Disposed, ClientType
  <2> QED BY <1>0, <1>28, <2>1 DEF Disposed, LocalsType, locals, InboxType, inbox, TypeOK
<1>29. CASE UNCHANGED vars
  BY <1>0, <1>29 DEF vars, TypeOK, LocalsType, locals, InboxType, inbox, ClientType
<1> QED
  BY <1>1, <1>2, <1>3, <1>4, <1>5, <1>6, <1>7, <1>8, <1>9, <1>10, <1>11, <1>12, <1>13, <1>14, <1>15, <1>16, <1>17, <1>18, <1>19, <1>20, <1>21, <1>22, <1>23, <1>24, <1>25, <1>26, <1>27, <1>28, <1>29, <1>30, <1>31, <1>32
  DEF Next, Client, Driver, Synchronous

-----------------------------------------------------------------------------
(* How the log and the phase move together. *)

\* With nothing open, turn/start of the phase's next turn is legal and opens it.
LEMMA TurnStartOpens ==
    ASSUME phase \in Phases, trace \in Traces, NothingOpen, phase.step = 0,
           phase' = [phase EXCEPT !.turn = @ + 1],
           trace' = Observe(trace, TurnStart(phase.turn + 1))
    PROVE  TurnOpen' /\ (trace.legal => trace'.legal)
<1>1. /\ phase.turn + 1 \in Nat
      /\ phase'.turn = phase.turn + 1 /\ phase'.step = phase.step
  BY DEF Phases
<1>2. /\ trace'.openTurn = phase'.turn /\ trace'.openStep = trace.openStep
      /\ trace'.nextTurn = trace.nextTurn /\ trace'.nextStep = 1
      /\ trace'.legal = (trace.legal /\ trace.openTurn = 0
                                    /\ phase'.turn = trace.nextTurn)
  BY <1>1, ObserveTurnStart
<1>3. TurnOpen'
  BY <1>1, <1>2 DEF NothingOpen, TurnOpen
<1> QED BY <1>1, <1>2, <1>3 DEF NothingOpen

\* With only the turn open, its turn/end is legal and leaves nothing open.
LEMMA TurnEndCloses ==
    ASSUME phase \in Phases, trace \in Traces, TurnOpen, phase' = phase,
           trace' = Observe(trace, TurnEnd(phase.turn))
    PROVE  NothingOpen' /\ (trace.legal => trace'.legal)
<1>1. phase.turn \in Nat
  BY DEF Phases
<1>2. /\ trace'.openTurn = 0 /\ trace'.openStep = trace.openStep
      /\ trace'.nextTurn = trace.nextTurn + 1
      /\ trace'.legal = (trace.legal /\ trace.openTurn = phase.turn
                                    /\ trace.openStep = 0)
  BY <1>1, ObserveTurnEnd
<1>3. NothingOpen'
  BY <1>2 DEF NothingOpen, TurnOpen
<1> QED BY <1>2, <1>3 DEF TurnOpen

\* Inside a turn, step/start of the phase's next step is legal and opens it.
LEMMA StepStartOpens ==
    ASSUME phase \in Phases, trace \in Traces, TurnOpen,
           phase' = [phase EXCEPT !.step = @ + 1],
           trace' = Observe(trace, StepStart(phase.turn, phase.step + 1))
    PROVE  StepOpen' /\ (trace.legal => trace'.legal)
<1>1. /\ phase.turn \in Nat /\ phase.step + 1 \in Nat
      /\ phase'.turn = phase.turn /\ phase'.step = phase.step + 1
  BY DEF Phases
<1> QED BY <1>1, ObserveStepStart, ZenonT(60) DEF TurnOpen, StepOpen

\* With a step open, its step/end is legal and leaves only the turn open.
LEMMA StepEndCloses ==
    ASSUME phase \in Phases, trace \in Traces, StepOpen, phase' = phase,
           trace' = Observe(trace, StepEnd(phase.turn, phase.step))
    PROVE  TurnOpen' /\ (trace.legal => trace'.legal)
<1>1. phase.turn \in Nat /\ phase.step \in Nat
  BY DEF Phases
<1>2. /\ trace'.openTurn = trace.openTurn /\ trace'.openStep = 0
      /\ trace'.nextTurn = trace.nextTurn /\ trace'.nextStep = trace.nextStep + 1
      /\ trace'.legal = (trace.legal /\ trace.openTurn = phase.turn
                                    /\ trace.openStep = phase.step)
  BY <1>1, ObserveStepEnd
<1>3. TurnOpen'
  BY <1>2 DEF TurnOpen, StepOpen
<1> QED BY <1>2, <1>3 DEF StepOpen

\* With a step open, an answer is legal and the step stays open.
LEMMA AssistantMessageStays ==
    ASSUME phase \in Phases, trace \in Traces, StepOpen, phase' = phase,
           trace' = Observe(trace, AssistantMessage(phase.turn, phase.step, <<>>))
    PROVE  StepOpen' /\ (trace.legal => trace'.legal)
<1>1. phase.turn \in Nat /\ phase.step \in Nat
  BY DEF Phases
<1> QED BY <1>1, ObserveAssistantMessage DEF StepOpen

\* The model's answer and the end of its step, appended together.
LEMMA FinalMessageCloses ==
    ASSUME phase \in Phases, trace \in Traces, StepOpen, phase' = phase,
           trace' = Observe(Observe(trace, AssistantMessage(phase.turn, phase.step, <<>>)),
                            StepEnd(phase.turn, phase.step))
    PROVE  TurnOpen' /\ (trace.legal => trace'.legal)
<1>1. phase.turn \in Nat /\ phase.step \in Nat
  BY DEF Phases
<1> DEFINE u == Observe(trace, AssistantMessage(phase.turn, phase.step, <<>>))
<1>2. /\ u \in Traces
      /\ u.openTurn = trace.openTurn /\ u.openStep = trace.openStep
      /\ u.nextTurn = trace.nextTurn /\ u.nextStep = trace.nextStep
      /\ u.legal = (trace.legal /\ trace.openTurn = phase.turn
                                /\ trace.openStep = phase.step)
  BY <1>1, ObserveAssistantMessage
<1>3. trace' = Observe(u, StepEnd(phase.turn, phase.step))
  OBVIOUS
<1> HIDE DEF u
<1>4. /\ trace'.openTurn = u.openTurn /\ trace'.openStep = 0
      /\ trace'.nextTurn = u.nextTurn /\ trace'.nextStep = u.nextStep + 1
      /\ trace'.legal = (u.legal /\ u.openTurn = phase.turn /\ u.openStep = phase.step)
  <2>1. \A v \in Traces :
           LET r == Observe(v, StepEnd(phase.turn, phase.step)) IN
           /\ r.openTurn = v.openTurn /\ r.openStep = 0
           /\ r.nextTurn = v.nextTurn /\ r.nextStep = v.nextStep + 1
           /\ r.legal = (v.legal /\ v.openTurn = phase.turn /\ v.openStep = phase.step)
    BY <1>1, ObserveStepEnd, ZenonT(60)
  <2>2. u \in Traces
    BY <1>2
  <2> QED BY <1>3, <2>1, <2>2
<1>5. TurnOpen'
  BY <1>2, <1>4 DEF TurnOpen, StepOpen
<1> QED BY <1>2, <1>4, <1>5 DEF StepOpen

-----------------------------------------------------------------------------
(***************************************************************************)
(* The driver's invariant.  That every event is legal is not inductive by    *)
(* itself: whether turn/end or step/start may be appended depends on what    *)
(* is open in the log, hence LogFollowsDriver, and that nothing is open      *)
(* when an idle agent starts a driver, hence OneDriver: DriverInv, which     *)
(* AgentLoop defines, is their conjunction.                                  *)
(***************************************************************************)

\* A new agent satisfies the driver's invariant.
LEMMA DriverInit == Init => DriverInv
<1> SUFFICES ASSUME Init PROVE DriverInv
  OBVIOUS
<1>1. phase \in Phases /\ pc \in Places /\ trace \in Traces
  BY DEF Init, Phase, Phases, Places, Traces, FreshTrace
<1>2. LocalsType
  <2>1. /\ batch = <<>> /\ exit = "break" /\ turnEnds = "null"
        /\ target = "next-turn" /\ ceiling = FALSE
    BY DEF Init
  <2>2. batch \in Seq(Msgs)
    BY <2>1
  <2> QED BY <2>1, <2>2, Zenon DEF LocalsType, Reasons
<1>3. ClientType
  <2>1. /\ stack = <<>> /\ replay = FALSE /\ life = "live" /\ owed = {}
    BY DEF Init
  <2>2. stack \in Seq(Frames)
    BY <2>1
  <2> QED BY <2>1, <2>2 DEF ClientType
<1>4. InboxType
  BY DEF Init, InboxType
<1>5. LogLegal /\ LogFollowsDriver /\ OneDriver
  BY DEF Init, Phase, FreshTrace, LogLegal, LogFollowsDriver, NothingOpen, OneDriver
<1> QED BY <1>1, <1>2, <1>3, <1>4, <1>5 DEF DriverInv, TypeOK

\* A step that leaves the driver, the phase and the log alone.
LEMMA Unmoved ==
    ASSUME LogLegal, LogFollowsDriver, OneDriver,
           pc' = pc, phase' = phase, trace' = trace
    PROVE  LogLegal' /\ LogFollowsDriver' /\ OneDriver'
BY DEF LogLegal, LogFollowsDriver, OneDriver, NothingOpen, TurnOpen, StepOpen

\* A step that changes only the abort flag or the latch.
LEMMA FlagsMove ==
    ASSUME LogLegal, LogFollowsDriver, OneDriver, pc' = pc, trace' = trace,
           phase'.kind = phase.kind, phase'.turn = phase.turn, phase'.step = phase.step
    PROVE  LogLegal' /\ LogFollowsDriver' /\ OneDriver'
BY DEF LogLegal, LogFollowsDriver, OneDriver, NothingOpen, TurnOpen, StepOpen

\* Firing the abort signal disturbs neither the driver nor the log.
LEMMA AbortMoves ==
    ASSUME phase \in Phases, LogLegal, LogFollowsDriver, OneDriver,
           pc' = pc, trace' = trace,
           NEW cause, NEW keepInbox, AbortPhase(cause, keepInbox)
    PROVE  LogLegal' /\ LogFollowsDriver' /\ OneDriver'
<1>1. phase'.kind = phase.kind /\ phase'.turn = phase.turn /\ phase'.step = phase.step
  BY DEF AbortPhase, Phases
<1> QED BY <1>1, FlagsMove

\* Nor does a cancel, whether it fires at once or after its listeners.
LEMMA CancelMoves ==
    ASSUME phase \in Phases, LogLegal, LogFollowsDriver, OneDriver,
           NEW cause, CancelCall(cause)
    PROVE  LogLegal' /\ LogFollowsDriver' /\ OneDriver'
<1>1. CASE pc' = pc /\ trace' = trace /\ phase' = phase
  BY <1>1, Unmoved
<1>2. CASE pc' = pc /\ trace' = trace /\ AbortPhase(cause, FALSE)
  BY <1>2, AbortMoves
<1> QED BY <1>1, <1>2 DEF CancelCall, Fires

\* Latching a wake disturbs neither the driver nor the log.
LEMMA LatchMoves ==
    ASSUME phase \in Phases, LogLegal, LogFollowsDriver, OneDriver,
           trace' = trace, NEW afterAbort, LatchWake(afterAbort)
    PROVE  LogLegal' /\ LogFollowsDriver' /\ OneDriver'
<1>1. pc' = pc /\ phase'.kind = phase.kind
      /\ phase'.turn = phase.turn /\ phase'.step = phase.step
  BY DEF LatchWake, Phases
<1> QED BY <1>1, FlagsMove

\* An idle agent starts its driver at the turn boundary.
LEMMA DriverStarts ==
    ASSUME phase \in Phases, pc \in Places, LogLegal, LogFollowsDriver, OneDriver,
           trace' = trace, NEW callers, StartDriver(callers)
    PROVE  LogLegal' /\ LogFollowsDriver' /\ OneDriver'
<1>1. /\ pc = "off" /\ pc' = "boundary"
      /\ phase'.kind = "running" /\ phase'.turn = phase.turn /\ phase'.step = 0
  BY DEF StartDriver, IsIdle, OneDriver, Phase
<1>2. NothingOpen /\ NothingOpen'
  BY <1>1 DEF LogFollowsDriver, NothingOpen
<1> QED BY <1>1, <1>2 DEF LogLegal, LogFollowsDriver, OneDriver

\* A throw closes the turn at once, or leaves it open while it is reported.
LEMMA FailsMoves ==
    ASSUME phase \in Phases, trace \in Traces, TurnOpen, LogLegal, OneDriver,
           phase' = phase, pc \in {"loop", "proposing", "entering", "failed", "stopping"},
           Fails
    PROVE  LogLegal' /\ LogFollowsDriver' /\ OneDriver'
<1>1. CASE CloseTurn(Failure, "throw")
  <2>1. trace' = Observe(trace, TurnEnd(phase.turn)) /\ pc' = "ended"
    BY <1>1 DEF CloseTurn
  <2>2. NothingOpen' /\ (trace.legal => trace'.legal)
    BY <2>1, TurnEndCloses
  <2> QED BY <2>1, <2>2 DEF LogLegal, LogFollowsDriver, OneDriver
<1>2. CASE pc' = "failing" /\ trace' = trace
  BY <1>2 DEF LogLegal, LogFollowsDriver, OneDriver, TurnOpen
<1> QED BY <1>1, <1>2 DEF Fails

\* Every step of clients and driver keeps the driver's invariant.
LEMMA DriverStep == DriverInv /\ [Next]_vars => DriverInv'
<1> SUFFICES ASSUME DriverInv, [Next]_vars PROVE DriverInv'
  OBVIOUS
<1> DEFINE Driven == LogLegal /\ LogFollowsDriver /\ OneDriver
<1>0. phase \in Phases /\ pc \in Places /\ trace \in Traces /\ Driven
  BY DEF DriverInv, TypeOK
<1>t. TypeOK'
  BY TypeStep DEF DriverInv
<1> SUFFICES Driven'
  BY <1>t DEF DriverInv
<1>1. ASSUME NEW m \in Msgs, NEW list \in {"next-turn", "next-step"},
            SendWaking(m, list) PROVE Driven'
  BY <1>0, <1>1, Unmoved DEF SendWaking
<1>2. ASSUME NEW m \in Msgs, Inject(m) PROVE Driven'
  BY <1>0, <1>2, Unmoved DEF Inject
<1>3. ASSUME NEW m \in Msgs, Withdraw(m) PROVE Driven'
  BY <1>0, <1>3, Unmoved DEF Withdraw
<1>4. ASSUME NEW cause \in Causes, Cancel(cause) PROVE Driven'
  BY <1>0, <1>4, CancelMoves DEF Cancel
<1>5. ASSUME NEW cause \in Causes, CancelKeepInbox(cause) PROVE Driven'
  BY <1>0, <1>5, AbortMoves DEF CancelKeepInbox
<1>6. CASE Dispose
  BY <1>0, <1>6, CancelMoves DEF Dispose
<1>7. CASE StartMaintenance
  <2>1. /\ phase'.turn = phase.turn /\ trace' = trace
        /\ pc' = pc /\ phase.kind = "idle" /\ phase'.kind = "maintenance"
    BY <1>0, <1>7 DEF StartMaintenance, Phase, IsIdle, Phases, OneDriver
  <2>2. NothingOpen /\ NothingOpen'
    BY <1>0, <2>1 DEF LogLegal, LogFollowsDriver, OneDriver, NothingOpen
  <2> QED BY <1>0, <2>1, <2>2 DEF LogLegal, LogFollowsDriver, OneDriver
<1>8. CASE OpenTurn
  <2>1. CASE Aborted
    <3>1. phase' = phase /\ trace' = trace /\ pc = "boundary" /\ pc' = "retire"
      BY <1>8, <2>1 DEF OpenTurn, AtStart
    <3> QED BY <1>0, <3>1 DEF LogLegal, LogFollowsDriver, OneDriver, NothingOpen
  <2>2. CASE ~Aborted
    <3>1. /\ pc = "boundary" /\ pc' = "loop"
          /\ phase' = [phase EXCEPT !.turn = @ + 1]
          /\ trace' = Observe(trace, TurnStart(phase.turn + 1))
      BY <1>8, <2>2 DEF OpenTurn, AtStart
    <3>2. NothingOpen /\ phase.step = 0
      BY <1>0, <3>1 DEF LogFollowsDriver
    <3>3. TurnOpen' /\ (trace.legal => trace'.legal)
      BY <1>0, <3>1, <3>2, TurnStartOpens
    <3>4. phase'.kind = phase.kind
      BY <1>0, <3>1 DEF Phases
    <3> QED BY <1>0, <3>1, <3>3, <3>4 DEF LogLegal, LogFollowsDriver, OneDriver
  <2> QED BY <2>1, <2>2
<1>9. CASE Propose
  <2>1. phase' = phase /\ trace' = trace /\ pc = "loop" /\ pc' = "proposing"
    BY <1>9 DEF Propose, AtStart
  <2> QED BY <1>0, <2>1 DEF LogLegal, LogFollowsDriver, OneDriver, TurnOpen
<1>10. CASE ProposalFails
  <2>1. phase' = phase /\ pc \in {"loop", "proposing", "entering"} /\ Fails
    BY <1>10 DEF ProposalFails, At, AtStart
  <2>2. TurnOpen
    BY <1>0, <2>1 DEF LogFollowsDriver
  <2> QED BY <1>0, <2>1, <2>2, FailsMoves
<1>30. ASSUME NEW decision \in {"rejecting", "emptied", "entering"}, ProposalDecided(decision)
       PROVE Driven'
  <2>1. phase' = phase /\ trace' = trace /\ pc = "proposing" /\ pc' = decision
    BY <1>30 DEF ProposalDecided, At
  <2> QED BY <1>0, <2>1 DEF LogLegal, LogFollowsDriver, OneDriver, TurnOpen
<1>11. CASE ProposalRejected
  <2>1. phase' = phase /\ pc = "rejecting" /\ pc' = "ended"
    BY <1>11 DEF ProposalRejected, At, CloseTurn
  <2>2. trace' = Observe(trace, TurnEnd(phase.turn))
    BY <1>11 DEF ProposalRejected, At, CloseTurn
  <2>3. TurnOpen
    BY <1>0, <2>1 DEF LogFollowsDriver
  <2>4. NothingOpen' /\ (trace.legal => trace'.legal)
    BY <1>0, <2>1, <2>2, <2>3, TurnEndCloses
  <2> QED BY <1>0, <2>1, <2>4 DEF LogLegal, LogFollowsDriver, OneDriver
<1>12. CASE ProposalEmpty
  <2>1. phase' = phase /\ pc = "emptied" /\ pc' = "ended"
    BY <1>12 DEF ProposalEmpty, At, CloseTurn
  <2>2. trace' = Observe(trace, TurnEnd(phase.turn))
    BY <1>12 DEF ProposalEmpty, At, CloseTurn
  <2>3. TurnOpen
    BY <1>0, <2>1 DEF LogFollowsDriver
  <2>4. NothingOpen' /\ (trace.legal => trace'.legal)
    BY <1>0, <2>1, <2>2, <2>3, TurnEndCloses
  <2> QED BY <1>0, <2>1, <2>4 DEF LogLegal, LogFollowsDriver, OneDriver
<1>13. ASSUME NEW kept \in {Range(batch), {}}, EnterStep(kept) PROVE Driven'
  <2>1. /\ pc = "entering" /\ pc' = "model"
        /\ phase' = [phase EXCEPT !.step = @ + 1]
        /\ trace' = Observe(trace, StepStart(phase.turn, phase.step + 1))
    BY <1>13 DEF EnterStep, At
  <2>2. TurnOpen
    BY <1>0, <2>1 DEF LogFollowsDriver
  <2>3. StepOpen' /\ (trace.legal => trace'.legal)
    BY <1>0, <2>1, <2>2, StepStartOpens
  <2>4. phase'.kind = phase.kind
    BY <1>0, <2>1 DEF Phases
  <2> QED BY <1>0, <2>1, <2>3, <2>4 DEF LogLegal, LogFollowsDriver, OneDriver
<1>14. ASSUME NEW end \in {"completed", "max-tokens"}, ModelFinishes(end) PROVE Driven'
  <2>1. phase' = phase /\ pc = "model" /\ pc' = "stepped"
    BY <1>14 DEF ModelFinishes, At
  <2>2. trace' = Observe(Observe(trace, AssistantMessage(phase.turn, phase.step, <<>>)),
                          StepEnd(phase.turn, phase.step))
    BY <1>14 DEF ModelFinishes, At
  <2>3. StepOpen
    BY <1>0, <2>1 DEF LogFollowsDriver
  <2>4. TurnOpen' /\ (trace.legal => trace'.legal)
    BY <1>0, <2>1, <2>2, <2>3, FinalMessageCloses
  <2> QED BY <1>0, <2>1, <2>4 DEF LogLegal, LogFollowsDriver, OneDriver
<1>15. CASE StepFails
  <2>1. phase' = phase /\ pc \in {"model", "tools"} /\ pc' = "failed"
    BY <1>15 DEF StepFails, At, EndStep
  <2>2. trace' = Observe(trace, StepEnd(phase.turn, phase.step))
    BY <1>15 DEF StepFails, At, EndStep
  <2>3. StepOpen
    BY <1>0, <2>1 DEF LogFollowsDriver
  <2>4. TurnOpen' /\ (trace.legal => trace'.legal)
    BY <1>0, <2>1, <2>2, <2>3, StepEndCloses
  <2> QED BY <1>0, <2>1, <2>4 DEF LogLegal, LogFollowsDriver, OneDriver
<1>16. CASE ModelCallsTools
  <2>1. phase' = phase /\ pc = "model" /\ pc' = "tools"
    BY <1>16 DEF ModelCallsTools, At
  <2>2. trace' = Observe(trace, AssistantMessage(phase.turn, phase.step, <<>>))
    BY <1>16 DEF ModelCallsTools, At
  <2>3. StepOpen
    BY <1>0, <2>1 DEF LogFollowsDriver
  <2>4. StepOpen' /\ (trace.legal => trace'.legal)
    BY <1>0, <2>1, <2>2, <2>3, AssistantMessageStays
  <2> QED BY <1>0, <2>1, <2>4 DEF LogLegal, LogFollowsDriver, OneDriver
<1>17. ASSUME NEW m \in Msgs, ToolContext(m) PROVE Driven'
  BY <1>0, <1>17, Unmoved DEF ToolContext
<1>18. ASSUME NEW end \in {"completed", "null"}, ToolsFinish(end) PROVE Driven'
  <2>1. phase' = phase /\ pc = "tools" /\ pc' = "stepped"
    BY <1>18 DEF ToolsFinish, At, EndStep
  <2>2. trace' = Observe(trace, StepEnd(phase.turn, phase.step))
    BY <1>18 DEF ToolsFinish, At, EndStep
  <2>3. StepOpen
    BY <1>0, <2>1 DEF LogFollowsDriver
  <2>4. TurnOpen' /\ (trace.legal => trace'.legal)
    BY <1>0, <2>1, <2>2, <2>3, StepEndCloses
  <2> QED BY <1>0, <2>1, <2>4 DEF LogLegal, LogFollowsDriver, OneDriver
<1>19. CASE StepFailureEndsTurn
  <2>1. phase' = phase /\ pc = "failed" /\ Fails
    BY <1>19 DEF StepFailureEndsTurn, At
  <2>2. TurnOpen
    BY <1>0, <2>1 DEF LogFollowsDriver
  <2> QED BY <1>0, <2>1, <2>2, FailsMoves
<1>31. CASE FailureReported
  <2>1. phase' = phase /\ pc = "failing" /\ pc' = "ended"
    BY <1>31 DEF FailureReported, At, CloseTurn
  <2>2. trace' = Observe(trace, TurnEnd(phase.turn))
    BY <1>31 DEF FailureReported, CloseTurn
  <2>3. TurnOpen
    BY <1>0, <2>1 DEF LogFollowsDriver
  <2>4. NothingOpen' /\ (trace.legal => trace'.legal)
    BY <1>0, <2>1, <2>2, <2>3, TurnEndCloses
  <2> QED BY <1>0, <2>1, <2>4 DEF LogLegal, LogFollowsDriver, OneDriver
<1>20. CASE AfterStep
  <2>1. pc = "stepped" /\ phase' = phase
    BY <1>20 DEF AfterStep, At, CloseTurn
  <2>2. TurnOpen
    BY <1>0, <2>1 DEF LogFollowsDriver
  <2>3. CASE pc' = "ended"
    <3>1. trace' = Observe(trace, TurnEnd(phase.turn))
      BY <1>20, <2>3 DEF AfterStep, At, CloseTurn
    <3>2. NothingOpen' /\ (trace.legal => trace'.legal)
      BY <1>0, <2>1, <2>2, <3>1, TurnEndCloses
    <3> QED BY <1>0, <2>1, <2>3, <3>2 DEF LogLegal, LogFollowsDriver, OneDriver
  <2>4. CASE pc' # "ended"
    <3>1. trace' = trace /\ pc' \in {"loop", "stopping"}
      BY <1>20, <2>4 DEF AfterStep, At, CloseTurn
    <3> QED BY <1>0, <2>1, <2>2, <3>1 DEF LogLegal, LogFollowsDriver, OneDriver, TurnOpen
  <2> QED BY <2>3, <2>4
<1>21. CASE Stop
  <2>1. pc = "stopping" /\ phase' = phase
    BY <1>21 DEF Stop, At
  <2>2. TurnOpen
    BY <1>0, <2>1 DEF LogFollowsDriver
  <2>3. CASE Fails
    BY <1>0, <2>1, <2>2, <2>3, FailsMoves
  <2>4. CASE CloseTurn(turnEnds, "break")
    <3>1. trace' = Observe(trace, TurnEnd(phase.turn)) /\ pc' = "ended"
      BY <2>4 DEF CloseTurn
    <3>2. NothingOpen' /\ (trace.legal => trace'.legal)
      BY <1>0, <2>1, <2>2, <3>1, TurnEndCloses
    <3> QED BY <1>0, <2>1, <3>1, <3>2 DEF LogLegal, LogFollowsDriver, OneDriver
  <2>5. CASE trace' = trace /\ pc' = "loop"
    BY <1>0, <2>1, <2>2, <2>5 DEF LogLegal, LogFollowsDriver, OneDriver, TurnOpen
  <2> QED BY <1>21, <2>3, <2>4, <2>5 DEF Stop
<1>22. CASE AfterTurn
  <2>1. /\ phase'.turn = phase.turn /\ trace' = trace
        /\ pc = "ended" /\ phase'.kind = "running"
        /\ ((pc' = "boundary" /\ phase'.step = 0) \/ pc' = "retire")
    BY <1>0, <1>22 DEF AfterTurn, NextTurnPhase, At, Phase, Phases, OneDriver
  <2>2. NothingOpen /\ NothingOpen'
    BY <1>0, <2>1 DEF LogLegal, LogFollowsDriver, OneDriver, NothingOpen
  <2> QED BY <1>0, <2>1, <2>2 DEF LogLegal, LogFollowsDriver, OneDriver
<1>23. CASE Retire
  <2>1. /\ phase'.turn = phase.turn /\ trace' = trace
        /\ pc = "retire" /\ pc' = "off" /\ phase'.kind = "idle"
    BY <1>0, <1>23 DEF Retire, At, BecomeIdle, Phase, Phases, OneDriver
  <2>2. NothingOpen /\ NothingOpen'
    BY <1>0, <2>1 DEF LogLegal, LogFollowsDriver, OneDriver, NothingOpen
  <2> QED BY <1>0, <2>1, <2>2 DEF LogLegal, LogFollowsDriver, OneDriver
<1>24. CASE FinishSend
  BY <1>0, <1>24, DriverStarts, LatchMoves DEF FinishSend
<1>25. CASE Replay
  <2>1. CASE StartDriver(<<>>)
    BY <1>0, <1>25, <2>1, DriverStarts DEF Replay
  <2>2. CASE LatchWake(FALSE)
    BY <1>0, <1>25, <2>2, LatchMoves DEF Replay
  <2>3. CASE UNCHANGED <<phase, pc>>
    BY <1>0, <1>25, <2>3, Unmoved DEF Replay
  <2> QED BY <1>25, <2>1, <2>2, <2>3 DEF Replay
<1>26. CASE FinishMaintenance
  <2>1. /\ phase'.turn = phase.turn /\ trace' = trace
        /\ pc' = pc /\ phase.kind = "maintenance" /\ phase'.kind = "idle"
    BY <1>0, <1>26 DEF FinishMaintenance, BecomeIdle, Phase, Phases, OneDriver
  <2>2. NothingOpen /\ NothingOpen'
    BY <1>0, <2>1 DEF LogLegal, LogFollowsDriver, OneDriver, NothingOpen
  <2> QED BY <1>0, <2>1, <2>2 DEF LogLegal, LogFollowsDriver, OneDriver
<1>27. CASE FinishCancel
  BY <1>0, <1>27, AbortMoves DEF FinishCancel, Fires
<1>32. CASE FinishClear
  <2>1. CASE Fires(Head(stack).cause)
    BY <1>0, <1>32, <2>1, AbortMoves DEF FinishClear, Fires
  <2>2. CASE UNCHANGED phase
    BY <1>0, <1>32, <2>2, Unmoved DEF FinishClear
  <2> QED BY <1>32, <2>1, <2>2 DEF FinishClear
<1>28. CASE Disposed
  BY <1>0, <1>28, Unmoved DEF Disposed
<1>29. CASE UNCHANGED vars
  BY <1>0, <1>29, Unmoved DEF vars
<1> QED
  BY <1>1, <1>2, <1>3, <1>4, <1>5, <1>6, <1>7, <1>8, <1>9, <1>10, <1>11, <1>12, <1>13, <1>14,
     <1>15, <1>16, <1>17, <1>18, <1>19, <1>20, <1>21, <1>22, <1>23, <1>24, <1>25, <1>26, <1>27, <1>28, <1>29, <1>30, <1>31, <1>32
  DEF Next, Client, Driver, Synchronous

\* The driver's invariant holds in every reachable state.
THEOREM DriverInvariant == Spec => []DriverInv
<1>1. Init => DriverInv
  BY DriverInit
<1>2. DriverInv /\ [Next]_vars => DriverInv'
  BY DriverStep
<1> QED BY <1>1, <1>2, PTL DEF Spec

\* Every variable keeps its type.
THEOREM TypeCorrect == Spec => []TypeOK
BY DriverInvariant, PTL DEF DriverInv

\* Every event the driver appends obeys the rules of the session log.
THEOREM LogAlwaysLegal == Spec => []LogLegal
BY DriverInvariant, PTL DEF DriverInv

\* An agent that rests, idle or in maintenance, has closed its turn and step,
\* and the log's next turn is the one the agent will open.
THEOREM RestingBalanced == Spec => []RestingLogBalanced
<1>1. DriverInv => RestingLogBalanced
  BY DEF DriverInv, TypeOK, Places, OneDriver, LogFollowsDriver, NothingOpen, RestingLogBalanced
<1> QED BY <1>1, DriverInvariant, PTL

\* Where the driver is suspended always decides what is open in the log.
THEOREM LogAlwaysFollowsDriver == Spec => []LogFollowsDriver
BY DriverInvariant, PTL DEF DriverInv

\* There never is a driver outside the running phase, nor a running phase
\* without its driver.
THEOREM AlwaysOneDriver == Spec => []OneDriver
BY DriverInvariant, PTL DEF DriverInv

-----------------------------------------------------------------------------
(* An aborted turn winds down. *)

NoNewClaim == \A m \in Msgs : fate'[m] = "claimed" => fate[m] = "claimed"

WindsDown ==
    /\ trace'.openStep \in {0, trace.openStep}
    /\ NoNewClaim
    /\ EndingSettled' => EndingSettled
    /\ trace'.openTurn = 0 => (turnEnds' = "aborted") = ~EndingSettled

\* Only a turn/end says aborted: while the turn is open its ending is another one.
EndingUnsaid == pc \in {"off", "boundary", "ended", "retire"} \/ turnEnds # "aborted"

\* The choice of an ending says aborted only when it goes on to turn/end at once.
LEMMA FailsUnsaid == Fails => EndingUnsaid'
BY DEF Fails, Failure, CloseTurn, EndingUnsaid

\* Every step keeps the ending of an open turn from saying aborted.
LEMMA EndingStep == EndingUnsaid /\ [Next]_vars => EndingUnsaid'
<1> SUFFICES ASSUME EndingUnsaid, [Next]_vars PROVE EndingUnsaid'
  OBVIOUS
<1>1. CASE pc' = pc /\ turnEnds' = turnEnds
  BY <1>1 DEF EndingUnsaid
<1>2. CASE pc' \in {"off", "boundary", "ended", "retire"}
  BY <1>2 DEF EndingUnsaid
<1>3. CASE Client \/ FinishClear \/ FinishCancel \/ FinishMaintenance \/ Disposed
           \/ UNCHANGED vars
  <2>1. pc' = pc /\ turnEnds' = turnEnds
    BY <1>3 DEF Client, SendWaking, Inject, Withdraw, Cancel, CancelCall, CancelKeepInbox,
                Dispose, StartMaintenance, FinishClear, FinishCancel, FinishMaintenance,
                Disposed, vars, locals
  <2> QED BY <1>1, <2>1
<1>4. CASE FinishSend \/ Replay
  <2>1. turnEnds' = turnEnds /\ (pc' = pc \/ pc' = "boundary")
    BY <1>4 DEF FinishSend, Replay, StartDriver, LatchWake, locals
  <2> QED BY <1>1, <1>2, <2>1
<1>5. CASE OpenTurn
  BY <1>5 DEF OpenTurn, EndingUnsaid
<1>6. CASE Propose
  BY <1>6 DEF Propose, AtStart, EndingUnsaid
<1>7. ASSUME NEW decision \in {"rejecting", "emptied", "entering"}, ProposalDecided(decision)
      PROVE EndingUnsaid'
  BY <1>7 DEF ProposalDecided, At, locals, EndingUnsaid
<1>8. CASE ProposalFails \/ StepFailureEndsTurn
  BY <1>8, FailsUnsaid DEF ProposalFails, StepFailureEndsTurn
<1>9. CASE ProposalRejected \/ ProposalEmpty \/ FailureReported
  BY <1>2, <1>9 DEF ProposalRejected, ProposalEmpty, FailureReported, CloseTurn
<1>10. ASSUME NEW kept, EnterStep(kept) PROVE EndingUnsaid'
  BY <1>10 DEF EnterStep, At, EndingUnsaid
<1>11. ASSUME NEW end \in {"completed", "max-tokens"}, ModelFinishes(end) PROVE EndingUnsaid'
  BY <1>11 DEF ModelFinishes, StepResult, At, EndingUnsaid
<1>12. CASE StepFails \/ ModelCallsTools
  BY <1>12 DEF StepFails, EndStep, ModelCallsTools, At, locals, EndingUnsaid
<1>13. ASSUME NEW m \in Msgs, ToolContext(m) PROVE EndingUnsaid'
  BY <1>1, <1>13 DEF ToolContext, locals
<1>14. ASSUME NEW end \in {"completed", "null"}, ToolsFinish(end) PROVE EndingUnsaid'
  BY <1>14 DEF ToolsFinish, StepResult, EndStep, At, EndingUnsaid
<1>15. CASE AfterStep
  BY <1>15 DEF AfterStep, CloseTurn, At, EndingUnsaid
<1>16. CASE Stop
  <2>1. CASE Fails
    BY <2>1, FailsUnsaid
  <2>2. CASE ~Fails
    BY <1>16, <2>2 DEF Stop, CloseTurn, At, EndingUnsaid
  <2> QED BY <2>1, <2>2
<1>17. CASE AfterTurn \/ Retire
  BY <1>2, <1>17 DEF AfterTurn, Retire
<1> QED
  BY <1>3, <1>4, <1>5, <1>6, <1>7, <1>8, <1>9, <1>10, <1>11, <1>12, <1>13, <1>14, <1>15,
     <1>16, <1>17
  DEF Next, Client, Driver, Synchronous

\* No open turn's ending says aborted.
LEMMA EndingsUnsaid == Spec => []EndingUnsaid
<1>1. Init => EndingUnsaid
  BY DEF Init, EndingUnsaid
<1> QED BY <1>1, EndingStep, PTL DEF Spec

\* Accepting a message claims none.
LEMMA InsertClaimsNothing ==
    ASSUME InboxType, NEW m \in Msgs, NEW list, Insert(m, list)
    PROVE  NoNewClaim
BY DEF Insert, InboxType, NoNewClaim

\* Discarding pending messages claims none.
LEMMA DiscardClaimsNothing ==
    ASSUME NEW list, Discard(list)
    PROVE  NoNewClaim
BY DEF Discard, NoNewClaim

\* Nor does the rest of a cancel.
LEMMA CancelClaimsNothing ==
    ASSUME NEW cause, CancelCall(cause) \/ Fires(cause)
    PROVE  NoNewClaim
<1>1. CASE Fires(cause)
  BY <1>1 DEF Fires, inbox, NoNewClaim
<1> QED BY <1>1, DiscardClaimsNothing DEF CancelCall

\* Deciding a proposal claims nothing further.
LEMMA DecidedClaimsNothing ==
    ASSUME NEW kept, Decided(kept)
    PROVE  NoNewClaim
BY DEF Decided, NoNewClaim

\* While the driver and the log stay and nothing is claimed, the turn winds down.
LEMMA QuietWindsDown ==
    ASSUME trace.openTurn # 0, trace' = trace, pc' = pc, NoNewClaim
    PROVE  WindsDown
BY DEF WindsDown, EndingSettled

\* The turn's end winds it down when it says aborted, or what had been settled.
LEMMA TurnEndWindsDown ==
    ASSUME phase \in Phases, trace \in Traces, NoNewClaim,
           NEW reason, NEW how, CloseTurn(reason, how),
           (reason = "aborted") = ~EndingSettled
    PROVE  WindsDown
<1>1. phase.turn \in Nat
  BY DEF Phases
<1>2. /\ trace' = Observe(trace, TurnEnd(phase.turn))
      /\ turnEnds' = reason /\ pc' = "ended"
  BY DEF CloseTurn
<1>3. trace'.openStep = trace.openStep
  BY <1>1, <1>2, ObserveTurnEnd
<1>4. ~EndingSettled'
  BY <1>2 DEF EndingSettled
<1> QED BY <1>2, <1>3, <1>4 DEF WindsDown

\* A throw of an aborted turn whose ending was open ends it as aborted.
LEMMA FailureWindsDown ==
    ASSUME phase \in Phases, trace \in Traces, Aborted, NoNewClaim, Fails, ~EndingSettled
    PROVE  WindsDown
<1>1. CloseTurn("aborted", "throw")
  BY DEF Fails, Failure
<1> QED BY <1>1, TurnEndWindsDown

\* The end of a step keeps the turn open.
LEMMA StepEndWindsDown ==
    ASSUME phase \in Phases, trace \in Traces, trace.openTurn # 0,
           fate' = fate, NEW place \in {"failed", "stepped"}, EndStep(place)
    PROVE  WindsDown
<1>1. phase.turn \in Nat /\ phase.step \in Nat
  BY DEF Phases
<1>2. trace' = Observe(trace, StepEnd(phase.turn, phase.step)) /\ pc' = place
  BY DEF EndStep
<1>3. trace'.openStep = 0 /\ trace'.openTurn = trace.openTurn
  BY <1>1, <1>2, ObserveStepEnd
<1>4. ~EndingSettled'
  BY <1>2 DEF EndingSettled
<1> QED BY <1>3, <1>4 DEF WindsDown, NoNewClaim

\* From a state of the driver's invariant, every step of an aborted open turn
\* winds it down.
LEMMA WindDownStep ==
    DriverInv /\ EndingUnsaid /\ Next /\ trace.openTurn # 0 /\ Aborted => WindsDown
<1> SUFFICES ASSUME DriverInv, EndingUnsaid, Next, trace.openTurn # 0, Aborted
             PROVE  WindsDown
  OBVIOUS
<1>0. phase \in Phases /\ trace \in Traces /\ InboxType
  BY DEF DriverInv, TypeOK
<1>1. ASSUME NEW m \in Msgs, NEW list, SendWaking(m, list) PROVE WindsDown
  BY <1>0, <1>1, InsertClaimsNothing, QuietWindsDown DEF SendWaking
<1>2. ASSUME NEW m \in Msgs, Inject(m) PROVE WindsDown
  BY <1>0, <1>2, InsertClaimsNothing, QuietWindsDown DEF Inject
<1>3. ASSUME NEW m \in Msgs, Withdraw(m) PROVE WindsDown
  <2>1. NoNewClaim /\ trace' = trace /\ pc' = pc
    BY <1>0, <1>3 DEF Withdraw, NoNewClaim, InboxType
  <2> QED BY <2>1, QuietWindsDown
<1>4. ASSUME NEW cause \in Causes, Cancel(cause) \/ CancelKeepInbox(cause)
      PROVE WindsDown
  <2>1. trace' = trace /\ pc' = pc
    BY <1>4 DEF Cancel, CancelCall, CancelKeepInbox
  <2>2. NoNewClaim
    BY <1>4, CancelClaimsNothing DEF Cancel, CancelKeepInbox, NoNewClaim, inbox
  <2> QED BY <2>1, <2>2, QuietWindsDown
<1>5. CASE Dispose
  <2>1. trace' = trace /\ pc' = pc
    BY <1>5 DEF Dispose, CancelCall
  <2>2. NoNewClaim
    BY <1>5, CancelClaimsNothing DEF Dispose
  <2> QED BY <2>1, <2>2, QuietWindsDown
<1>6. CASE FinishClear \/ FinishCancel
  <2>1. trace' = trace /\ pc' = pc
    BY <1>6 DEF FinishClear, FinishCancel
  <2>2. NoNewClaim
    BY <1>6, DiscardClaimsNothing, CancelClaimsNothing DEF FinishClear, FinishCancel
  <2> QED BY <2>1, <2>2, QuietWindsDown
<1>7. CASE \/ StartMaintenance \/ FinishMaintenance \/ Retire \/ Disposed
           \/ FinishSend \/ Replay \/ OpenTurn \/ AfterTurn
  <2>1. fate' = fate /\ trace' = trace
    BY <1>7 DEF StartMaintenance, FinishMaintenance, Retire, Disposed, FinishSend,
                Replay, OpenTurn, AfterTurn, inbox
  <2>2. pc' = pc \/ pc' \in {"boundary", "retire", "off"}
    BY <1>7 DEF StartMaintenance, FinishMaintenance, Retire, Disposed, FinishSend,
                Replay, OpenTurn, AfterTurn, StartDriver, LatchWake
  <2>3. EndingSettled' => EndingSettled
    BY <2>2 DEF EndingSettled
  <2> QED BY <2>1, <2>3 DEF WindsDown, NoNewClaim
<1>8. CASE Propose \/ ModelCallsTools
           \/ \E decision \in {"rejecting", "emptied", "entering"} : ProposalDecided(decision)
  BY <1>8 DEF Propose, ProposalDecided, ModelCallsTools
<1>9. CASE \E kept \in {Range(batch), {}} : EnterStep(kept)
  BY <1>9 DEF EnterStep
<1>10. CASE \E end \in {"completed", "max-tokens"} : ModelFinishes(end)
  BY <1>10 DEF ModelFinishes
<1>11. CASE ProposalFails
  <2>1. ~EndingSettled
    BY <1>11 DEF ProposalFails, At, AtStart, EndingSettled
  <2>2. NoNewClaim /\ Fails
    BY <1>11, DecidedClaimsNothing DEF ProposalFails
  <2> QED BY <1>0, <2>1, <2>2, FailureWindsDown
<1>12. CASE StepFails
  BY <1>0, <1>12, StepEndWindsDown DEF StepFails, inbox
<1>13. ASSUME NEW m \in Msgs, ToolContext(m) PROVE WindsDown
  BY <1>0, <1>13, InsertClaimsNothing, QuietWindsDown DEF ToolContext
<1>14. ASSUME NEW end, ToolsFinish(end) PROVE WindsDown
  BY <1>0, <1>14, StepEndWindsDown DEF ToolsFinish, inbox
<1>15. CASE StepFailureEndsTurn \/ AfterStep \/ Stop
  <2>1. NoNewClaim /\ ~EndingSettled
    BY <1>15 DEF StepFailureEndsTurn, AfterStep, Stop, inbox, NoNewClaim, At, EndingSettled
  <2>2. Fails \/ CloseTurn("aborted", "throw")
    BY <1>15 DEF StepFailureEndsTurn, AfterStep, Stop
  <2> QED BY <1>0, <2>1, <2>2, FailureWindsDown, TurnEndWindsDown
<1>16. CASE ProposalRejected \/ ProposalEmpty \/ FailureReported
  <2>1. EndingSettled /\ turnEnds # "aborted"
    BY <1>16 DEF ProposalRejected, ProposalEmpty, FailureReported, At, EndingSettled, EndingUnsaid
  <2>2. NoNewClaim
    BY <1>16, DecidedClaimsNothing
    DEF ProposalRejected, ProposalEmpty, FailureReported, inbox, NoNewClaim
  <2>3. \E reason, how : CloseTurn(reason, how) /\ reason # "aborted"
    BY <1>16, <2>1 DEF ProposalRejected, ProposalEmpty, FailureReported
  <2> QED BY <1>0, <2>1, <2>2, <2>3, TurnEndWindsDown
<1> QED
  BY <1>1, <1>2, <1>3, <1>4, <1>5, <1>6, <1>7, <1>8, <1>9, <1>10, <1>11, <1>12, <1>13,
     <1>14, <1>15, <1>16
  DEF Next, Client, Driver, Synchronous

\* Once its signal has fired a turn opens no step, claims no input and settles on no
\* ending but aborted: a turn/end that says otherwise says what turn() had settled
\* before, while nothing but a reaction or the listeners of agent/error were left.
THEOREM AbortedTurnsWindDown == Spec => AbortedTurnWindsDown
<1>1. DriverInv /\ EndingUnsaid /\ [Next]_vars =>
          [trace.openTurn # 0 /\ Aborted =>
              /\ trace'.openStep \in {0, trace.openStep}
              /\ \A m \in Msgs : fate'[m] = "claimed" => fate[m] = "claimed"
              /\ EndingSettled' => EndingSettled
              /\ trace'.openTurn = 0 => (turnEnds' = "aborted") = ~EndingSettled]_vars
  BY WindDownStep DEF WindsDown, NoNewClaim
<1> QED BY <1>1, DriverInvariant, EndingsUnsaid, PTL DEF Spec, AbortedTurnWindsDown

-----------------------------------------------------------------------------
(* Lists without repetition. *)

Distinct(s) == \A i, j \in 1..Len(s) : s[i] = s[j] => i = j

\* Appending what a list lacks keeps it distinct and adds one element.
LEMMA AppendDistinct ==
    ASSUME NEW S, NEW s \in Seq(S), NEW x \in S
    PROVE  /\ Append(s, x) \in Seq(S)
           /\ Range(Append(s, x)) = Range(s) \cup {x}
           /\ Distinct(s) /\ x \notin Range(s) => Distinct(Append(s, x))
<1>1. /\ Append(s, x) \in Seq(S) /\ Len(Append(s, x)) = Len(s) + 1
      /\ \A i \in 1..Len(s) : Append(s, x)[i] = s[i]
      /\ Append(s, x)[Len(s) + 1] = x
      /\ Len(s) \in Nat
  OBVIOUS
<1>2. /\ DOMAIN s = 1..Len(s) /\ DOMAIN Append(s, x) = 1..(Len(s) + 1)
  BY <1>1
<1>3. Range(Append(s, x)) = Range(s) \cup {x}
  BY <1>1, <1>2 DEF Range
<1>4. ASSUME Distinct(s), x \notin Range(s) PROVE Distinct(Append(s, x))
  BY <1>1, <1>2, <1>4 DEF Distinct, Range
<1> QED BY <1>1, <1>3, <1>4

\* Taking the head off a distinct list takes that element and nothing else.
LEMMA TailDistinct ==
    ASSUME NEW S, NEW s \in Seq(S), s # <<>>, Distinct(s)
    PROVE  /\ Tail(s) \in Seq(S) /\ Head(s) \in S
           /\ Head(s) \in Range(s)
           /\ Range(Tail(s)) = Range(s) \ {Head(s)}
           /\ Distinct(Tail(s))
<1>1. /\ Len(s) \in Nat \ {0} /\ Head(s) = s[1] /\ Head(s) \in S
      /\ Tail(s) \in Seq(S) /\ Len(Tail(s)) = Len(s) - 1
      /\ \A i \in 1..(Len(s) - 1) : Tail(s)[i] = s[i + 1]
  OBVIOUS
<1>2. DOMAIN s = 1..Len(s) /\ DOMAIN Tail(s) = 1..(Len(s) - 1)
  BY <1>1
<1>3. Distinct(Tail(s))
  BY <1>1 DEF Distinct
<1>4. Range(Tail(s)) \subseteq Range(s) \ {Head(s)}
  BY <1>1, <1>2 DEF Distinct, Range
<1>5. ASSUME NEW x \in Range(s) \ {Head(s)} PROVE x \in Range(Tail(s))
  <2>1. PICK i \in 1..Len(s) : s[i] = x
    BY <1>2 DEF Range
  <2>2. i # 1 /\ i - 1 \in 1..(Len(s) - 1) /\ Tail(s)[i - 1] = x
    BY <1>1, <1>5, <2>1
  <2> QED BY <1>2, <2>2 DEF Range
<1>6. Head(s) \in Range(s)
  BY <1>1, <1>2 DEF Range
<1> QED BY <1>1, <1>3, <1>4, <1>5, <1>6

\* Removing one position shifts the elements behind it.
LEMMA RemoveShifts ==
    ASSUME NEW S, NEW s \in Seq(S), NEW k \in 1..Len(s)
    PROVE  /\ Len(s) \in Nat /\ k \in Nat
           /\ RemoveAt(s, k) \in Seq(S) /\ Len(RemoveAt(s, k)) = Len(s) - 1
           /\ \A i \in 1..(Len(s) - 1) :
                 RemoveAt(s, k)[i] = IF i < k THEN s[i] ELSE s[i + 1]
<1> DEFINE a == SubSeq(s, 1, k - 1)
           b == SubSeq(s, k + 1, Len(s))
<1>1. /\ a \in Seq(S) /\ Len(a) = k - 1
      /\ \A i \in 1..(k - 1) : a[i] = s[i]
  BY SubSeqProperties
<1>2. /\ b \in Seq(S) /\ Len(b) = Len(s) - k
      /\ \A i \in 1..(Len(s) - k) : b[i] = s[k + i]
  BY SubSeqProperties
<1>3. RemoveAt(s, k) = a \o b
  BY DEF RemoveAt
<1> HIDE DEF a, b
<1>4. /\ a \o b \in Seq(S) /\ Len(a \o b) = Len(a) + Len(b)
      /\ \A i \in 1..(Len(a) + Len(b)) :
            (a \o b)[i] = IF i <= Len(a) THEN a[i] ELSE b[i - Len(a)]
  BY <1>1, <1>2, ConcatProperties
<1> QED BY <1>1, <1>2, <1>3, <1>4

\* Removing a position takes no other element away, repeated or not.
LEMMA RemoveKeepsOthers ==
    ASSUME NEW S, NEW s \in Seq(S), NEW k \in 1..Len(s)
    PROVE  Range(s) \ {s[k]} \subseteq Range(RemoveAt(s, k))
<1> SUFFICES ASSUME NEW x \in Range(s), x # s[k] PROVE x \in Range(RemoveAt(s, k))
  OBVIOUS
<1> DEFINE r == RemoveAt(s, k)
<1>1. /\ Len(s) \in Nat /\ k \in Nat
      /\ r \in Seq(S) /\ Len(r) = Len(s) - 1
      /\ \A i \in 1..(Len(s) - 1) : r[i] = IF i < k THEN s[i] ELSE s[i + 1]
  BY RemoveShifts
<1>2. DOMAIN s = 1..Len(s) /\ DOMAIN r = 1..(Len(s) - 1)
  BY <1>1
<1> HIDE DEF r
<1>3. PICK i \in 1..Len(s) : s[i] = x
  BY <1>2 DEF Range
<1>4. CASE i < k
  <2>1. i \in 1..(Len(s) - 1) /\ r[i] = x
    BY <1>1, <1>3, <1>4
  <2> QED BY <1>2, <2>1 DEF Range, r
<1>5. CASE i > k
  <2>1. i - 1 \in 1..(Len(s) - 1) /\ r[i - 1] = x
    BY <1>1, <1>3, <1>5
  <2> QED BY <1>2, <2>1 DEF Range, r
<1> QED BY <1>1, <1>3, <1>4, <1>5

\* Removing one position of a distinct list removes that element and nothing else.
LEMMA RemoveDistinct ==
    ASSUME NEW S, NEW s \in Seq(S), NEW k \in 1..Len(s), Distinct(s)
    PROVE  /\ RemoveAt(s, k) \in Seq(S)
           /\ Range(RemoveAt(s, k)) = Range(s) \ {s[k]}
           /\ Distinct(RemoveAt(s, k))
<1> DEFINE r == RemoveAt(s, k)
<1>1. /\ Len(s) \in Nat /\ k \in Nat
      /\ r \in Seq(S) /\ Len(r) = Len(s) - 1
      /\ \A i \in 1..(Len(s) - 1) : r[i] = IF i < k THEN s[i] ELSE s[i + 1]
  BY RemoveShifts
<1>2. DOMAIN s = 1..Len(s) /\ DOMAIN r = 1..(Len(s) - 1)
  BY <1>1
<1> HIDE DEF r
<1>3. Distinct(r)
  BY <1>1 DEF Distinct
<1>4. Range(r) \subseteq Range(s) \ {s[k]}
  BY <1>1, <1>2 DEF Distinct, Range
<1>5. Range(s) \ {s[k]} \subseteq Range(r)
  BY RemoveKeepsOthers DEF r
<1> QED BY <1>1, <1>3, <1>4, <1>5 DEF r

\* A distinct list has as many elements as places.
LEMMA DistinctCardinality ==
    ASSUME NEW S, NEW s \in Seq(S), Distinct(s)
    PROVE  IsFiniteSet(Range(s)) /\ Cardinality(Range(s)) = Len(s)
<1>1. Len(s) \in Nat /\ DOMAIN s = 1..Len(s)
  OBVIOUS
<1>2. s \in Bijection(1..Len(s), Range(s))
  BY <1>1 DEF Distinct, Range, Bijection, Injection, Surjection, IsInjective
<1>3. ExistsBijection(1..Len(s), Range(s))
  BY <1>2 DEF ExistsBijection
<1> QED BY <1>1, <1>3, FS_NatBijection, FS_CountingElements

-----------------------------------------------------------------------------
(* The inductive invariants. *)

\* The lists repeat nothing and share nothing.
Apart == Distinct(nextTurn) /\ Distinct(nextStep) /\ Range(nextTurn) \cap Range(nextStep) = {}

\* fate says where a message is.
Located ==
    \A m \in Msgs : /\ fate[m] = "pending" <=> m \in Pending
                    /\ fate[m] = "claimed" <=> m \in Range(batch)

\* preStep has claimed its input and turn() has not yet acted on the decision.
Deciding == pc \in {"proposing", "rejecting", "emptied", "entering"}

\* A batch is held during its proposal only, by the turn that claimed it.
Held ==
    /\ ~Deciding => batch = <<>>
    /\ \A m \in Range(batch) : claimedIn[m] = phase.turn

\* Queued prompts belong to this turn or to earlier ones; to earlier ones while
\* this turn is yet to claim its own.
Prompts ==
    \A m \in fromQueue :
        /\ fate[m] \notin {"unsent", "pending"}
        /\ claimedIn[m] <= phase.turn
        /\ pc = "loop" /\ target = "next-turn" => claimedIn[m] < phase.turn

MessageInv == Apart /\ Located /\ Held /\ Prompts /\ OnePromptPerTurn

\* An idle phase is a fresh one.
IdleIsFresh == IsIdle => ~phase.wake /\ ~Aborted

\* What is owed is pending, and a latch or a replay stands for it; a driver owes
\* only what came after its abort, and nothing is owed after a disposal.
OwedIsLatched ==
    /\ owed \subseteq Pending
    /\ owed # {} => phase.wake \/ replay
    /\ owed # {} /\ phase.kind = "running" => phase.wake /\ Aborted
    /\ owed # {} => phase.abort # "disposed"

\* A suspended send that was classified as coming after an abort still does.
StillAborted ==
    \A i \in 1..Len(stack) : stack[i].op = "send" /\ stack[i].afterAbort => Aborted

WakeInv == IdleIsFresh /\ OwedIsLatched /\ StillAborted

\* Within a turn the ceiling is in the ending so far, unless a failure has replaced
\* it; the turn's close keeps it.
CeilingInv ==
    /\ ceiling /\ pc \notin {"off", "boundary", "failing", "ended", "retire"}
         => turnEnds = "max-tokens"
    /\ pc = "failing" => turnEnds = "error"
    /\ CeilingIsReported

-----------------------------------------------------------------------------
(* Messages: what each kind of step does to them. *)

\* A step that leaves inbox and batch alone keeps the messages where they are.
LEMMA MessagesStay ==
    ASSUME MessageInv, UNCHANGED <<inbox, batch>>, phase'.turn = phase.turn,
           Deciding => Deciding',
           pc' = "loop" /\ target' = "next-turn" => pc = "loop" /\ target = "next-turn"
    PROVE  MessageInv'
BY DEF MessageInv, Apart, Located, Held, Prompts, OnePromptPerTurn, inbox, Pending

\* Queueing a message that was never sent.
LEMMA MessageQueued ==
    ASSUME InboxType, MessageInv, NEW m \in Msgs, NEW list, Insert(m, list),
           UNCHANGED <<batch, pc, target>>, phase'.turn = phase.turn
    PROVE  MessageInv' /\ Pending' = Pending \cup {m}
<1>1. /\ nextTurn \in Seq(Msgs) /\ nextStep \in Seq(Msgs) /\ fate[m] = "unsent"
      /\ m \notin Pending /\ m \notin Range(batch) /\ m \notin fromQueue
  BY DEF InboxType, Insert, MessageInv, Located, Prompts
<1>2. \A n \in Msgs : fate'[n] = IF n = m THEN "pending" ELSE fate[n]
  BY DEF Insert, InboxType
<1>3. Apart' /\ Pending' = Pending \cup {m}
  <2>1. CASE nextTurn' = Append(nextTurn, m) /\ nextStep' = nextStep
    BY <1>1, <2>1, AppendDistinct DEF MessageInv, Apart, Pending
  <2>2. CASE nextStep' = Append(nextStep, m) /\ nextTurn' = nextTurn
    BY <1>1, <2>2, AppendDistinct DEF MessageInv, Apart, Pending
  <2> QED BY <2>1, <2>2 DEF Insert
<1>4. Located'
  BY <1>1, <1>2, <1>3 DEF MessageInv, Located
<1>5. Held'
  BY DEF MessageInv, Held, Deciding, Insert
<1>6. Prompts'
  BY <1>1, <1>2 DEF MessageInv, Prompts, Insert, InboxType
<1>7. OnePromptPerTurn'
  BY DEF MessageInv, OnePromptPerTurn, Insert
<1> QED BY <1>3, <1>4, <1>5, <1>6, <1>7 DEF MessageInv

\* Emptying one list cancels what it holds and nothing else.
LEMMA MessagesDiscarded ==
    ASSUME InboxType, MessageInv, NEW list \in {"next-turn", "next-step"}, Discard(list),
           UNCHANGED <<batch, pc, target>>, phase'.turn = phase.turn
    PROVE  MessageInv' /\ Pending' = Pending \ Range(Queued(list))
<1>1. Range(<<>>) = {} /\ Distinct(<<>>)
  BY DEF Range, Distinct
<1>2. Apart' /\ Pending' = Pending \ Range(Queued(list)) /\ Range(Queued(list)) \subseteq Pending
  <2>1. CASE list = "next-turn"
    BY <1>1, <2>1 DEF Discard, MessageInv, Apart, Pending, Queued
  <2>2. CASE list = "next-step"
    BY <1>1, <2>2 DEF Discard, MessageInv, Apart, Pending, Queued
  <2> QED BY <2>1, <2>2
<1>3. \A n \in Msgs : fate'[n] = IF n \in Range(Queued(list)) THEN "canceled" ELSE fate[n]
  BY DEF Discard
<1>4. batch' = batch /\ claimedIn' = claimedIn /\ fromQueue' = fromQueue
  BY DEF Discard
<1> HIDE DEF Queued
<1>5. Located'
  BY <1>2, <1>3, <1>4 DEF MessageInv, Located
<1>6. Held'
  BY <1>4 DEF MessageInv, Held, Deciding
<1>7. Prompts'
  BY <1>3, <1>4 DEF MessageInv, Prompts, InboxType
<1>8. OnePromptPerTurn'
  BY <1>4 DEF MessageInv, OnePromptPerTurn
<1> QED BY <1>2, <1>5, <1>6, <1>7, <1>8 DEF MessageInv

\* Withdrawing a pending message.
LEMMA MessageWithdrawn ==
    ASSUME InboxType, MessageInv, NEW m \in Msgs, Withdraw(m)
    PROVE  MessageInv' /\ Pending' = Pending \ {m}
<1>1. nextTurn \in Seq(Msgs) /\ nextStep \in Seq(Msgs)
  BY DEF InboxType
<1>2. Apart' /\ Pending' = Pending \ {m} /\ m \in Pending
  <2>1. ASSUME NEW i \in 1..Len(nextTurn), nextTurn[i] = m,
               nextTurn' = RemoveAt(nextTurn, i), nextStep' = nextStep
        PROVE  Apart' /\ Pending' = Pending \ {m} /\ m \in Pending
    <3>1. m \in Range(nextTurn)
      BY <1>1, <2>1 DEF Range
    <3> QED BY <1>1, <2>1, <3>1, RemoveDistinct DEF MessageInv, Apart, Pending
  <2>2. ASSUME NEW i \in 1..Len(nextStep), nextStep[i] = m,
               nextStep' = RemoveAt(nextStep, i), nextTurn' = nextTurn
        PROVE  Apart' /\ Pending' = Pending \ {m} /\ m \in Pending
    <3>1. m \in Range(nextStep)
      BY <1>1, <2>2 DEF Range
    <3> QED BY <1>1, <2>2, <3>1, RemoveDistinct DEF MessageInv, Apart, Pending
  <2> QED BY <2>1, <2>2 DEF Withdraw
<1>3. \A n \in Msgs : fate'[n] = IF n = m THEN "canceled" ELSE fate[n]
  BY DEF Withdraw, InboxType
<1>4. Located'
  BY <1>2, <1>3 DEF MessageInv, Located, Withdraw, locals
<1>5. Held'
  BY DEF MessageInv, Held, Deciding, Withdraw, locals
<1>6. Prompts'
  BY <1>3 DEF MessageInv, Prompts, Withdraw, locals, InboxType
<1>7. OnePromptPerTurn'
  BY DEF MessageInv, OnePromptPerTurn, Withdraw
<1> QED BY <1>2, <1>4, <1>5, <1>6, <1>7 DEF MessageInv

\* A proposal claims all step input and, at the turn's boundary, one prompt.
LEMMA MessagesClaimed ==
    ASSUME phase \in Phases, InboxType, MessageInv, Propose
    PROVE  MessageInv'
<1>1. /\ nextTurn \in Seq(Msgs) /\ nextStep \in Seq(Msgs) /\ pc = "loop" /\ pc' = "proposing"
      /\ batch = <<>> /\ phase.turn \in Nat
  BY DEF InboxType, Propose, AtStart, MessageInv, Held, Deciding, Phases
<1>2. /\ Range(batch') \subseteq Pending /\ Apart'
      /\ Pending' = Pending \ Range(batch')
      /\ \A m, n \in Range(batch') \ Range(nextStep) : m = n
      /\ target # "next-turn" => Range(batch') \ Range(nextStep) = {}
  <2>0. Range(<<>>) = {} /\ Distinct(<<>>)
    BY DEF Range, Distinct
  <2>1. CASE target = "next-turn" /\ nextTurn # <<>>
    <3>1. /\ batch' = Append(nextStep, Head(nextTurn)) /\ nextTurn' = Tail(nextTurn)
          /\ nextStep' = <<>>
      BY <2>1 DEF Propose, Claimed
    <3>2. /\ Head(nextTurn) \in Range(nextTurn) /\ Head(nextTurn) \in Msgs
          /\ Range(Tail(nextTurn)) = Range(nextTurn) \ {Head(nextTurn)}
          /\ Distinct(Tail(nextTurn))
      BY <1>1, <2>1, TailDistinct DEF MessageInv, Apart
    <3>3. Range(batch') = Range(nextStep) \cup {Head(nextTurn)}
      BY <1>1, <3>1, <3>2, AppendDistinct
    <3> QED BY <2>0, <2>1, <3>1, <3>2, <3>3 DEF MessageInv, Apart, Pending
  <2>2. CASE ~(target = "next-turn" /\ nextTurn # <<>>)
    <3>1. batch' = nextStep /\ nextTurn' = nextTurn /\ nextStep' = <<>>
      BY <2>2 DEF Propose, Claimed
    <3> QED BY <2>0, <3>1 DEF MessageInv, Apart, Pending
  <2> QED BY <2>1, <2>2
<1>3. /\ \A n \in Msgs : fate'[n] = IF n \in Range(batch') THEN "claimed" ELSE fate[n]
      /\ \A n \in Msgs : claimedIn'[n] = IF n \in Range(batch') THEN phase.turn ELSE claimedIn[n]
      /\ fromQueue' = fromQueue \cup (Range(batch') \ Range(nextStep))
      /\ UNCHANGED <<phase, target>>
  BY DEF Propose
<1>4. Range(batch) = {} /\ Pending \subseteq Msgs /\ fromQueue \subseteq Msgs
  BY <1>1 DEF Range, Pending, InboxType
<1>5. Located'
  BY <1>2, <1>3, <1>4 DEF MessageInv, Located
<1>6. Held'
  BY <1>1, <1>2, <1>3, <1>4 DEF Held, Deciding
<1>7. \A m \in Range(batch') : m \notin fromQueue
  BY <1>2, <1>4 DEF MessageInv, Located, Prompts
<1>8. Prompts'
  BY <1>1, <1>2, <1>3, <1>4, <1>7 DEF MessageInv, Prompts, InboxType
<1>9. OnePromptPerTurn'
  <2> SUFFICES ASSUME NEW m \in fromQueue', NEW n \in fromQueue', claimedIn'[m] = claimedIn'[n]
               PROVE  m = n
    BY DEF OnePromptPerTurn
  <2>1. CASE m \in fromQueue /\ n \in fromQueue
    BY <1>3, <1>4, <1>7, <2>1 DEF MessageInv, OnePromptPerTurn
  <2>2. CASE m \notin fromQueue /\ n \notin fromQueue
    BY <1>2, <1>3, <2>2
  <2>3. ASSUME NEW a \in fromQueue, NEW b \in fromQueue', b \notin fromQueue
        PROVE  claimedIn'[a] # claimedIn'[b]
    <3>1. b \in Range(batch') /\ target = "next-turn" /\ b \in Msgs /\ a \in Msgs
      BY <1>2, <1>3, <1>4, <2>3
    <3>2. claimedIn'[b] = phase.turn /\ claimedIn'[a] = claimedIn[a]
      BY <1>3, <1>7, <2>3, <3>1
    <3>3. claimedIn[a] < phase.turn
      BY <1>1, <2>3, <3>1 DEF MessageInv, Prompts
    <3>4. claimedIn[a] \in Nat
      BY <3>1 DEF InboxType
    <3> QED BY <1>1, <3>2, <3>3, <3>4
  <2> QED BY <2>1, <2>2, <2>3
<1> QED BY <1>2, <1>5, <1>6, <1>8, <1>9 DEF MessageInv

\* The end of a proposal leaves no message claimed.
LEMMA MessagesDecided ==
    ASSUME InboxType, MessageInv, NEW kept, Decided(kept), phase'.turn = phase.turn,
           pc' # "loop"
    PROVE  MessageInv'
<1>1. Range(<<>>) = {}
  BY DEF Range
<1>2. /\ \A n \in Msgs : fate'[n] = IF n \notin Range(batch) THEN fate[n]
                                      ELSE IF n \in kept THEN "delivered" ELSE "dropped"
      /\ batch' = <<>> /\ UNCHANGED <<nextTurn, nextStep, claimedIn, fromQueue>>
  BY DEF Decided
<1>3. Apart' /\ Pending' = Pending
  BY <1>2 DEF MessageInv, Apart, Pending
<1>4. Located'
  BY <1>1, <1>2, <1>3 DEF MessageInv, Located
<1>5. Held'
  BY <1>1, <1>2 DEF Held
<1>6. Prompts'
  BY <1>2 DEF MessageInv, Prompts, InboxType
<1>7. OnePromptPerTurn'
  BY <1>2 DEF MessageInv, OnePromptPerTurn
<1> QED BY <1>3, <1>4, <1>5, <1>6, <1>7 DEF MessageInv

\* Initially no message is anywhere.
LEMMA MessageInit == Init => MessageInv
BY DEF Init, MessageInv, Apart, Located, Held, Prompts, OnePromptPerTurn, Distinct, Range, Pending

\* Firing the signal, latching a wake and starting a driver keep the turn.
LEMMA TurnStays ==
    ASSUME phase \in Phases,
           \/ \E cause, keepInbox : AbortPhase(cause, keepInbox)
           \/ \E afterAbort : LatchWake(afterAbort)
           \/ \E callers : StartDriver(callers)
    PROVE  phase'.turn = phase.turn
<1>1. ASSUME NEW cause, NEW keepInbox, AbortPhase(cause, keepInbox)
      PROVE  phase'.turn = phase.turn
  <2>1. CASE IsIdle
    BY <1>1, <2>1 DEF AbortPhase
  <2>2. CASE ~IsIdle
    <3> DEFINE a == IF Aborted THEN phase.abort ELSE cause
               w == phase.wake /\ keepInbox
    <3>1. phase' = [phase EXCEPT !.abort = a, !.wake = w]
      BY <1>1, <2>2 DEF AbortPhase
    <3> HIDE DEF a, w
    <3> QED BY <3>1 DEF Phases
  <2> QED BY <2>1, <2>2
<1>2. ASSUME NEW afterAbort, LatchWake(afterAbort) PROVE phase'.turn = phase.turn
  BY <1>2 DEF LatchWake, Phases
<1>3. ASSUME NEW callers, StartDriver(callers) PROVE phase'.turn = phase.turn
  BY <1>3 DEF StartDriver, Phase
<1> QED BY <1>1, <1>2, <1>3

\* Taking the wake back and firing the signal.
LEMMA MessagesFired ==
    ASSUME phase \in Phases, MessageInv, NEW cause, Fires(cause), UNCHANGED <<batch, pc, target>>
    PROVE  MessageInv'
<1>1. phase'.turn = phase.turn
  BY TurnStays DEF Fires
<1> QED BY <1>1, MessagesStay DEF Fires, Deciding

\* A client's cancel.
LEMMA MessagesCancelled ==
    ASSUME phase \in Phases, InboxType, MessageInv, NEW cause, CancelCall(cause)
    PROVE  MessageInv'
<1>0. UNCHANGED <<batch, pc, target>>
  BY DEF CancelCall, locals
<1>1. ASSUME NEW list \in {"next-turn", "next-step"}, Discard(list), UNCHANGED phase
      PROVE  MessageInv'
  BY <1>0, <1>1, MessagesDiscarded
<1>2. CASE Fires(cause)
  BY <1>0, <1>2, MessagesFired
<1> QED BY <1>1, <1>2 DEF CancelCall

\* A driver that starts holds no batch.
LEMMA MessagesStart ==
    ASSUME phase \in Phases, OneDriver, MessageInv, UNCHANGED <<inbox, batch, target>>,
           NEW callers, StartDriver(callers)
    PROVE  MessageInv'
<1>1. pc = "off" /\ pc' = "boundary"
  BY DEF StartDriver, IsIdle, OneDriver
<1>2. phase'.turn = phase.turn
  BY TurnStays
<1> QED BY <1>1, <1>2, MessagesStay DEF Deciding

\* Every step keeps the messages accounted for: one case per action.
LEMMA MessageStep == TypeOK /\ OneDriver /\ MessageInv /\ [Next]_vars => MessageInv'
<1> SUFFICES ASSUME TypeOK, OneDriver, MessageInv, [Next]_vars PROVE MessageInv'
  OBVIOUS
<1>0. /\ phase \in Phases /\ phase.turn \in Nat /\ InboxType
      /\ ~Deciding => batch = <<>>
  BY DEF TypeOK, Phases, MessageInv, Held
<1>1. ASSUME NEW m \in Msgs, NEW list \in {"next-turn", "next-step"},
            SendWaking(m, list) PROVE MessageInv'
  BY <1>0, <1>1, MessageQueued DEF SendWaking, locals
<1>2. ASSUME NEW m \in Msgs, Inject(m) PROVE MessageInv'
  BY <1>0, <1>2, MessageQueued DEF Inject, locals
<1>3. ASSUME NEW m \in Msgs, Withdraw(m) PROVE MessageInv'
  BY <1>0, <1>3, MessageWithdrawn
<1>4. ASSUME NEW cause \in Causes, Cancel(cause) PROVE MessageInv'
  BY <1>0, <1>4, MessagesCancelled DEF Cancel
<1>5. ASSUME NEW cause \in Causes, CancelKeepInbox(cause) PROVE MessageInv'
  BY <1>0, <1>5, TurnStays, MessagesStay DEF CancelKeepInbox, locals, Deciding
<1>6. CASE Dispose
  BY <1>0, <1>6, MessagesCancelled DEF Dispose
<1>7. CASE StartMaintenance
  BY <1>0, <1>7, MessagesStay DEF StartMaintenance, Phase, locals, Deciding
<1>8. CASE OpenTurn
  <2>1. CASE pc' = "retire" /\ UNCHANGED <<phase, locals, inbox>>
    BY <1>0, <2>1, <1>8, MessagesStay DEF OpenTurn, AtStart, locals, Deciding
  <2>2. CASE phase' = [phase EXCEPT !.turn = @ + 1] /\ UNCHANGED <<batch, inbox>>
    <3>1. phase'.turn = phase.turn + 1 /\ batch = <<>> /\ Range(batch) = {}
      BY <1>0, <1>8, <2>2 DEF OpenTurn, AtStart, Phases, Range, Deciding
    <3>2. Apart' /\ Located' /\ Held' /\ OnePromptPerTurn'
      BY <2>2, <3>1 DEF MessageInv, Apart, Located, Held, OnePromptPerTurn, inbox, Pending
    <3>3. \A m \in fromQueue : claimedIn[m] \in Nat /\ claimedIn[m] < phase'.turn
      BY <1>0, <3>1 DEF MessageInv, Prompts, InboxType
    <3>4. Prompts'
      BY <1>0, <2>2, <3>1, <3>3 DEF MessageInv, Prompts, inbox
    <3> QED BY <3>2, <3>4 DEF MessageInv
  <2> QED BY <1>8, <2>1, <2>2 DEF OpenTurn, locals
<1>9. CASE Propose
  BY <1>0, <1>9, MessagesClaimed
<1>10. CASE ProposalFails
  BY <1>0, <1>10, MessagesDecided DEF ProposalFails, Fails, CloseTurn
<1>30. ASSUME NEW decision \in {"rejecting", "emptied", "entering"}, ProposalDecided(decision)
       PROVE MessageInv'
  BY <1>0, <1>30, MessagesStay DEF ProposalDecided, At, locals, client, Deciding
<1>11. CASE ProposalRejected
  BY <1>0, <1>11, MessagesDecided DEF ProposalRejected, CloseTurn
<1>12. CASE ProposalEmpty
  BY <1>0, <1>12, MessagesDecided DEF ProposalEmpty, CloseTurn
<1>13. ASSUME NEW kept \in {Range(batch), {}}, EnterStep(kept) PROVE MessageInv'
  <2>1. phase'.turn = phase.turn /\ pc' # "loop"
    BY <1>0, <1>13 DEF EnterStep, Phases
  <2> QED BY <1>0, <1>13, <2>1, MessagesDecided DEF EnterStep
<1>14. ASSUME NEW end \in {"completed", "max-tokens"}, ModelFinishes(end) PROVE MessageInv'
  BY <1>0, <1>14, MessagesStay DEF ModelFinishes, At, locals, client, Deciding
<1>15. CASE StepFails
  BY <1>0, <1>15, MessagesStay DEF StepFails, At, locals, client, EndStep, Deciding
<1>16. CASE ModelCallsTools
  BY <1>0, <1>16, MessagesStay DEF ModelCallsTools, At, locals, client, Deciding
<1>17. ASSUME NEW m \in Msgs, ToolContext(m) PROVE MessageInv'
  BY <1>0, <1>17, MessageQueued DEF ToolContext, locals
<1>18. ASSUME NEW end \in {"completed", "null"}, ToolsFinish(end) PROVE MessageInv'
  BY <1>0, <1>18, MessagesStay DEF ToolsFinish, At, locals, client, EndStep, Deciding
<1>19. CASE StepFailureEndsTurn
  <2>1. pc = "failed" /\ pc' # "loop" /\ UNCHANGED <<inbox, batch, phase>>
    BY <1>19 DEF StepFailureEndsTurn, At, Fails, CloseTurn
  <2> QED BY <2>1, MessagesStay DEF Deciding
<1>31. CASE FailureReported
  BY <1>0, <1>31, MessagesStay DEF FailureReported, At, locals, client, CloseTurn, Deciding
<1>20. CASE AfterStep
  BY <1>0, <1>20, MessagesStay DEF AfterStep, At, locals, client, CloseTurn, Deciding
<1>21. CASE Stop
  <2>1. pc = "stopping" /\ UNCHANGED <<inbox, batch, phase>>
    BY <1>21 DEF Stop, At
  <2>2. pc' = "loop" => target' = "next-step"
    BY <1>21 DEF Stop, Fails, CloseTurn
  <2> QED BY <2>1, <2>2, MessagesStay DEF Deciding
<1>22. CASE AfterTurn
  BY <1>0, <1>22, MessagesStay DEF AfterTurn, At, locals, client, NextTurnPhase, Phase, Deciding
<1>23. CASE Retire
  BY <1>0, <1>23, MessagesStay DEF Retire, At, locals, client, BecomeIdle, Phase, Deciding
<1>24. CASE FinishSend
  <2>0. UNCHANGED <<inbox, batch, target>>
    BY <1>24 DEF FinishSend, locals
  <2>1. ASSUME NEW callers, StartDriver(callers) PROVE MessageInv'
    BY <1>0, <2>0, <2>1, MessagesStart
  <2>2. ASSUME NEW afterAbort, LatchWake(afterAbort) PROVE MessageInv'
    <3>1. phase'.turn = phase.turn /\ pc' = pc
      BY <1>0, <2>2, TurnStays DEF LatchWake
    <3> QED BY <2>0, <3>1, MessagesStay DEF Deciding
  <2> QED BY <1>24, <2>1, <2>2 DEF FinishSend
<1>25. CASE FinishCancel
  BY <1>0, <1>25, MessagesFired DEF FinishCancel, locals
<1>32. CASE FinishClear
  <2>0. UNCHANGED <<batch, pc, target>>
    BY <1>32 DEF FinishClear, locals
  <2>1. CASE Discard("next-turn") /\ UNCHANGED phase
    BY <1>0, <2>0, <2>1, MessagesDiscarded
  <2>2. CASE Fires(Head(stack).cause)
    BY <1>0, <2>0, <2>2, MessagesFired
  <2> QED BY <1>32, <2>1, <2>2 DEF FinishClear
<1>26. CASE Replay
  <2>0. UNCHANGED <<inbox, batch, target>>
    BY <1>26 DEF Replay, locals
  <2>1. CASE StartDriver(<<>>)
    BY <1>0, <2>0, <2>1, MessagesStart
  <2>2. CASE LatchWake(FALSE)
    <3>1. phase'.turn = phase.turn /\ pc' = pc
      BY <1>0, <2>2, TurnStays DEF LatchWake
    <3> QED BY <2>0, <3>1, MessagesStay DEF Deciding
  <2>3. CASE UNCHANGED <<phase, pc>>
    BY <2>0, <2>3, MessagesStay DEF Deciding
  <2> QED BY <1>26, <2>1, <2>2, <2>3 DEF Replay
<1>27. CASE FinishMaintenance
  BY <1>0, <1>27, MessagesStay DEF FinishMaintenance, BecomeIdle, Phase, locals, Deciding
<1>28. CASE Disposed
  BY <1>28, MessagesStay DEF Disposed, locals, Deciding
<1>29. CASE UNCHANGED vars
  BY <1>29, MessagesStay DEF vars, locals, Deciding
<1> QED
  BY <1>1, <1>2, <1>3, <1>4, <1>5, <1>6, <1>7, <1>8, <1>9, <1>10, <1>11, <1>12, <1>13, <1>14,
     <1>15, <1>16, <1>17, <1>18, <1>19, <1>20, <1>21, <1>22, <1>23, <1>24, <1>25, <1>26,
     <1>27, <1>28, <1>29, <1>30, <1>31, <1>32
  DEF Next, Client, Driver, Synchronous

\* The messages' invariant holds in every reachable state.
THEOREM MessagesInvariant == Spec => []MessageInv
<1>1. DriverInv => TypeOK /\ OneDriver
  BY DEF DriverInv
<1> QED BY <1>1, MessageInit, MessageStep, DriverInvariant, PTL DEF Spec

\* Every message the agent accepted is in the one place its last notification
\* says, and the lists repeat none.
THEOREM AllAccounted == Spec => []Accounted
<1>1. TypeOK /\ MessageInv => Accounted
  <2> SUFFICES ASSUME TypeOK, MessageInv PROVE Accounted
    OBVIOUS
  <2>1. /\ nextTurn \in Seq(Msgs) /\ nextStep \in Seq(Msgs)
        /\ Distinct(nextTurn) /\ Distinct(nextStep)
        /\ Range(nextTurn) \cap Range(nextStep) = {}
    BY DEF TypeOK, InboxType, MessageInv, Apart
  <2>2. /\ IsFiniteSet(Range(nextTurn)) /\ Cardinality(Range(nextTurn)) = Len(nextTurn)
        /\ IsFiniteSet(Range(nextStep)) /\ Cardinality(Range(nextStep)) = Len(nextStep)
    BY <2>1, DistinctCardinality
  <2>3. Cardinality(Pending) = Len(nextTurn) + Len(nextStep) - Cardinality({})
    BY <2>1, <2>2, FS_Union DEF Pending
  <2>4. Len(nextTurn) + Len(nextStep) = Cardinality(Pending)
    BY <2>1, <2>3, FS_EmptySet
  <2>5. ASSUME NEW m \in Msgs
        PROVE  /\ (fate[m] = "pending") = (m \in Pending)
               /\ (fate[m] = "claimed") = (m \in Range(batch))
    BY DEF MessageInv, Located
  <2> QED BY <2>4, <2>5 DEF Accounted
<1> QED BY <1>1, TypeCorrect, MessagesInvariant, PTL

\* Whatever a turn has claimed and not yet decided is its own, and the log shows
\* that turn open and between two steps.
THEOREM ClaimsBelong == Spec => []ClaimBelongsToOpenTurn
<1>1. DriverInv /\ MessageInv => ClaimBelongsToOpenTurn
  <2> SUFFICES ASSUME DriverInv, MessageInv, NEW m \in Msgs, fate[m] = "claimed"
               PROVE  claimedIn[m] = phase.turn /\ trace.openTurn = phase.turn
                      /\ trace.openStep = 0
    BY DEF ClaimBelongsToOpenTurn
  <2>1. m \in Range(batch) /\ pc \in {"proposing", "rejecting", "emptied", "entering"}
    BY DEF MessageInv, Located, Held, Deciding, Range
  <2> QED BY <2>1 DEF DriverInv, LogFollowsDriver, TurnOpen, MessageInv, Held
<1> QED BY <1>1, DriverInvariant, MessagesInvariant, PTL

\* No turn ever takes two queued prompts.
THEOREM OnePrompt == Spec => []OnePromptPerTurn
BY MessagesInvariant, PTL DEF MessageInv

\* The three together: whatever clients, listeners, cancels and failures do, a message
\* has one place, one claim at a time and, if it was queued, a turn of its own.
THEOREM MessagesAreKept == Spec => []MessagesKept
BY AllAccounted, ClaimsBelong, OnePrompt, PTL DEF MessagesKept

-----------------------------------------------------------------------------
(* The ceiling. *)

\* A step that leaves the turn's locals alone, and stays inside the turn or out
\* of it, keeps what is known of the ceiling.
LEMMA CeilingStays ==
    ASSUME CeilingInv, UNCHANGED locals, pc' = pc \/ pc' \in {"off", "boundary", "retire", "model", "tools", "failed"},
           pc' \in {"model", "tools", "failed"}
             => pc \notin {"off", "boundary", "failing", "ended", "retire"}
    PROVE  CeilingInv'
BY DEF CeilingInv, CeilingIsReported, locals

\* Closing the turn reports the ceiling, or a failure.
LEMMA CeilingClosed ==
    ASSUME CeilingInv, NEW reason, NEW how, CloseTurn(reason, how), UNCHANGED ceiling,
           ceiling => reason # "completed"
    PROVE  CeilingInv'
BY DEF CeilingInv, CeilingIsReported, CloseTurn

\* A throw replaces it.
LEMMA CeilingFails ==
    ASSUME CeilingInv, Fails, UNCHANGED ceiling
    PROVE  CeilingInv'
<1>1. CASE CloseTurn(Failure, "throw")
  BY <1>1, CeilingClosed DEF Failure
<1>2. CASE ~Aborted /\ turnEnds' = Failure /\ pc' = "failing"
  BY <1>2 DEF Failure, CeilingInv, CeilingIsReported
<1> QED BY <1>1, <1>2 DEF Fails

\* Every step keeps what is known of the ceiling: one case per action.
LEMMA CeilingStep == TypeOK /\ OneDriver /\ CeilingInv /\ [Next]_vars => CeilingInv'
<1> SUFFICES ASSUME TypeOK, OneDriver, CeilingInv, [Next]_vars PROVE CeilingInv'
  OBVIOUS
<1>1. CASE Client
  <2>1. UNCHANGED locals /\ pc' = pc
    BY <1>1 DEF Client, SendWaking, Inject, Withdraw, Cancel, CancelKeepInbox, Dispose,
                CancelCall, StartMaintenance
  <2> QED BY <2>1, CeilingStays
<1>2. CASE OpenTurn
  BY <1>2, CeilingStays DEF OpenTurn, CeilingInv, CeilingIsReported
<1>3. CASE Propose
  BY <1>3 DEF Propose, AtStart, CeilingInv, CeilingIsReported
<1>4. CASE ProposalFails
  BY <1>4, CeilingFails DEF ProposalFails
<1>18. CASE \E decision \in {"rejecting", "emptied", "entering"} : ProposalDecided(decision)
  BY <1>18 DEF ProposalDecided, At, locals, CeilingInv, CeilingIsReported
<1>5. CASE ProposalRejected
  BY <1>5, CeilingClosed DEF ProposalRejected
<1>6. CASE ProposalEmpty
  BY <1>6, CeilingClosed DEF ProposalEmpty, At, CeilingInv
<1>7. CASE \E kept \in {Range(batch), {}} : EnterStep(kept)
  BY <1>7 DEF EnterStep, At, CeilingInv, CeilingIsReported
<1>8. CASE \E end \in {"completed", "max-tokens"} : ModelFinishes(end)
  BY <1>8 DEF ModelFinishes, StepResult, At, CeilingInv, CeilingIsReported
<1>9. CASE StepFails \/ ModelCallsTools
  <2>1. UNCHANGED locals /\ pc \in {"model", "tools"} /\ pc' \in {"failed", "tools"}
    BY <1>9 DEF StepFails, ModelCallsTools, EndStep, At
  <2> QED BY <2>1, CeilingStays
<1>10. CASE \E m \in Msgs : ToolContext(m)
  BY <1>10, CeilingStays DEF ToolContext
<1>11. CASE \E end \in {"completed", "null"} : ToolsFinish(end)
  BY <1>11 DEF ToolsFinish, EndStep, StepResult, At, CeilingInv, CeilingIsReported
<1>12. CASE StepFailureEndsTurn
  BY <1>12, CeilingFails DEF StepFailureEndsTurn
<1>19. CASE FailureReported
  BY <1>19, CeilingClosed DEF FailureReported, At, CeilingInv
<1>13. CASE AfterStep
  <2>1. CASE CloseTurn("aborted", "throw")
    BY <1>13, <2>1, CeilingClosed DEF AfterStep
  <2>2. CASE pc' \in {"stopping", "loop"} /\ UNCHANGED turnEnds
    BY <1>13, <2>2 DEF AfterStep, At, CeilingInv, CeilingIsReported
  <2> QED BY <1>13, <2>1, <2>2 DEF AfterStep
<1>14. CASE Stop
  <2>1. pc = "stopping" /\ UNCHANGED ceiling
    BY <1>14 DEF Stop, At
  <2>2. CASE Fails
    BY <2>1, <2>2, CeilingFails
  <2>3. CASE CloseTurn(turnEnds, "break")
    BY <2>1, <2>3, CeilingClosed DEF CeilingInv
  <2>4. CASE pc' = "loop" /\ UNCHANGED turnEnds
    BY <2>1, <2>4 DEF CeilingInv, CeilingIsReported
  <2> QED BY <1>14, <2>2, <2>3, <2>4 DEF Stop
<1>15. CASE AfterTurn \/ Retire
  <2>1. UNCHANGED locals /\ pc' \in {"boundary", "retire", "off"}
    BY <1>15 DEF AfterTurn, Retire
  <2> QED BY <2>1, CeilingStays
<1>16. CASE Synchronous
  <2>1. UNCHANGED locals /\ (pc' = pc \/ pc' = "boundary")
    BY <1>16 DEF Synchronous, FinishSend, FinishClear, FinishCancel, Replay, StartDriver,
                 LatchWake
  <2> QED BY <2>1, CeilingStays
<1>17. CASE FinishMaintenance \/ Disposed \/ UNCHANGED vars
  <2>1. UNCHANGED locals /\ pc' = pc
    BY <1>17 DEF FinishMaintenance, Disposed, vars
  <2> QED BY <2>1, CeilingStays
<1> QED
  BY <1>1, <1>2, <1>3, <1>4, <1>5, <1>6, <1>7, <1>8, <1>9, <1>10, <1>11, <1>12, <1>13,
     <1>14, <1>15, <1>16, <1>17, <1>18, <1>19
  DEF Next, Driver

\* A turn in which a step hit the ceiling never ends as completed.
THEOREM CeilingReported == Spec => []CeilingIsReported
<1>1. Init => CeilingInv
  BY DEF Init, CeilingInv, CeilingIsReported
<1>2. DriverInv => TypeOK /\ OneDriver
  BY DEF DriverInv
<1>3. CeilingInv => CeilingIsReported
  BY DEF CeilingInv
<1> QED BY <1>1, <1>2, <1>3, CeilingStep, DriverInvariant, PTL DEF Spec

-----------------------------------------------------------------------------
(* The wakes an activity defers. *)

\* Firing the signal: an idle agent has none, the first cause wins, and the latch
\* survives only where the inbox does.
LEMMA AbortEffect ==
    ASSUME phase \in Phases, NEW cause \in Causes \cup {"disposed"},
           NEW keepInbox \in BOOLEAN, AbortPhase(cause, keepInbox)
    PROVE  /\ phase'.kind = phase.kind
           /\ IsIdle => phase' = phase
           /\ Aborted => phase'.abort = phase.abort
           /\ phase'.abort \in {phase.abort, cause}
           /\ keepInbox => phase'.wake = phase.wake
<1>1. CASE IsIdle
  BY <1>1 DEF AbortPhase, IsIdle
<1>2. CASE ~IsIdle
  <2> DEFINE a == IF Aborted THEN phase.abort ELSE cause
             w == phase.wake /\ keepInbox
  <2>1. phase' = [phase EXCEPT !.abort = a, !.wake = w]
    BY <1>2 DEF AbortPhase
  <2>2. keepInbox => w = phase.wake
    BY DEF Phases
  <2> HIDE DEF w
  <2>3. /\ phase'.kind = phase.kind /\ phase'.abort = a /\ phase'.wake = w
    BY <2>1 DEF Phases
  <2> QED BY <1>2, <2>2, <2>3
<1> QED BY <1>1, <1>2

\* Latching a wake touches nothing but the latch, and only sets it.
LEMMA LatchEffect ==
    ASSUME phase \in Phases, NEW afterAbort, LatchWake(afterAbort)
    PROVE  /\ phase'.kind = phase.kind /\ phase'.abort = phase.abort
           /\ phase.wake => phase'.wake
           /\ Defers(afterAbort) => phase'.wake
<1> DEFINE w == phase.wake \/ Defers(afterAbort)
<1>1. phase' = [phase EXCEPT !.wake = w]
  BY DEF LatchWake
<1>2. (phase.wake => w) /\ (Defers(afterAbort) => w)
  OBVIOUS
<1> HIDE DEF w
<1>3. phase'.kind = phase.kind /\ phase'.abort = phase.abort /\ phase'.wake = w
  BY <1>1 DEF Phases
<1> QED BY <1>2, <1>3

\* HasPending asks whether anything is pending.
LEMMA PendingIsQueued ==
    ASSUME InboxType PROVE ~HasPending => Pending = {}
BY DEF HasPending, Pending, Range, InboxType

\* A step that takes no message away and no frame or latch keeps the wakes.
LEMMA WakesStay ==
    ASSUME WakeInv, UNCHANGED <<replay, owed, stack>>, Pending \subseteq Pending',
           phase'.kind = phase.kind, phase'.abort = phase.abort, phase'.wake = phase.wake
    PROVE  WakeInv'
BY DEF WakeInv, IdleIsFresh, OwedIsLatched, StillAborted, IsIdle, Aborted

\* Queueing a message takes none away.
LEMMA InsertKeepsPending ==
    ASSUME InboxType, NEW m \in Msgs, NEW list, Insert(m, list)
    PROVE  Pending \subseteq Pending'
<1>1. \A s \in Seq(Msgs) : Range(Append(s, m)) = Range(s) \cup {m}
  BY AppendDistinct
<1> QED BY <1>1 DEF Insert, InboxType, Pending

\* A frame put on the stack, or in the innermost one's place: a suspended send still
\* follows the abort it saw.
LEMMA FrameKeeps ==
    ASSUME stack \in Seq(Frames), StillAborted, Aborted => Aborted', NEW frame \in Frames,
           frame.op = "send" => (frame.afterAbort => Aborted'),
           NEW callers, callers = stack \/ (stack # <<>> /\ callers = Tail(stack)),
           stack' = <<frame>> \o callers
    PROVE  StillAborted'
<1>1. /\ callers \in Seq(Frames) /\ Len(callers) \in Nat
      /\ \A i \in 1..Len(callers) : \E j \in 1..Len(stack) : callers[i] = stack[j]
  <2>1. CASE callers = stack
    BY <2>1
  <2>2. CASE stack # <<>> /\ callers = Tail(stack)
    <3>1. /\ callers \in Seq(Frames) /\ Len(callers) = Len(stack) - 1 /\ Len(stack) \in Nat
          /\ \A i \in 1..Len(callers) : i + 1 \in 1..Len(stack) /\ callers[i] = stack[i + 1]
      BY <2>2
    <3> QED BY <3>1
  <2> QED BY <2>1, <2>2
<1>2. /\ Len(stack') = Len(callers) + 1 /\ stack'[1] = frame
      /\ \A i \in 1..Len(callers) : stack'[i + 1] = callers[i]
  BY <1>1
<1> SUFFICES ASSUME NEW i \in 1..Len(stack'), stack'[i].op = "send", stack'[i].afterAbort
             PROVE  Aborted'
  BY DEF StillAborted
<1>3. CASE i = 1
  BY <1>2, <1>3
<1>4. CASE i > 1
  <2>1. i - 1 \in 1..Len(callers) /\ stack'[i] = callers[i - 1]
    BY <1>1, <1>2, <1>4
  <2>2. PICK j \in 1..Len(stack) : stack'[i] = stack[j]
    BY <1>1, <2>1
  <2> QED BY <2>2 DEF StillAborted
<1> QED BY <1>1, <1>2, <1>3, <1>4

\* Pushing a frame does.
LEMMA PushKeeps ==
    ASSUME stack \in Seq(Frames), StillAborted, NEW frame \in Frames, Push(frame),
           Aborted => Aborted',
           frame.op = "send" => (frame.afterAbort => Aborted')
    PROVE  StillAborted'
BY FrameKeeps DEF Push

\* Resuming the innermost frame leaves the others as they were.
LEMMA ReturnKeeps ==
    ASSUME stack \in Seq(Frames), StillAborted, NEW op, Innermost(op)
    PROVE  /\ stack' = Tail(stack) /\ (Aborted => Aborted') => StillAborted'
           /\ Head(stack).op = "send" /\ Head(stack).afterAbort => Aborted
<1>1. stack # <<>> /\ Len(stack) \in Nat \ {0} /\ Head(stack) = stack[1]
  BY DEF Innermost
<1>2. ASSUME stack' = Tail(stack), Aborted => Aborted' PROVE StillAborted'
  <2>1. /\ Len(stack') = Len(stack) - 1
        /\ \A i \in 1..Len(stack') : i + 1 \in 1..Len(stack) /\ stack'[i] = stack[i + 1]
    BY <1>1, <1>2
  <2> QED BY <1>2, <2>1 DEF StillAborted
<1> QED BY <1>1, <1>2 DEF StillAborted

\* So does a driver's first await.
LEMMA YieldKeeps ==
    ASSUME stack \in Seq(Frames), StillAborted, Yields, Aborted => Aborted'
    PROVE  StillAborted'
<1>1. CASE Starting
  BY <1>1, ReturnKeeps DEF Starting, Yields
<1>2. CASE ~Starting
  BY <1>2 DEF Yields, StillAborted
<1> QED BY <1>1, <1>2

\* Discarding a list discards what is owed of it.
LEMMA DiscardOwes ==
    ASSUME OwedIsLatched, NEW list \in {"next-turn", "next-step"}, Discard(list),
           UNCHANGED <<phase, replay>>
    PROVE  OwedIsLatched'
<1>1. Pending \ Range(Queued(list)) \subseteq Pending'
  BY DEF Discard, Queued, Pending
<1>2. owed' = owed \ Range(Queued(list))
  BY DEF Discard
<1> HIDE DEF Queued
<1> QED BY <1>1, <1>2 DEF OwedIsLatched, Aborted

\* The wake is taken back and the signal fires.
LEMMA WakesFired ==
    ASSUME phase \in Phases, WakeInv, NEW cause \in Causes \cup {"disposed"}, Fires(cause),
           (Aborted => Aborted') => StillAborted'
    PROVE  WakeInv'
<1>1. /\ phase'.kind = phase.kind /\ (IsIdle => phase' = phase)
      /\ (Aborted => phase'.abort = phase.abort)
  BY AbortEffect DEF Fires
<1>2. StillAborted'
  BY <1>1 DEF Aborted
<1> QED BY <1>1, <1>2 DEF Fires, WakeInv, IdleIsFresh, OwedIsLatched, IsIdle, Aborted

\* A client's cancel.
LEMMA WakesCancelled ==
    ASSUME phase \in Phases, stack \in Seq(Frames), WakeInv,
           NEW cause \in Causes \cup {"disposed"}, CancelCall(cause)
    PROVE  WakeInv'
<1>1. ASSUME NEW list \in {"next-turn", "next-step"}, Discard(list), UNCHANGED phase,
             NEW frame \in {ClearFrame(cause), CancelFrame(cause)}, Push(frame)
      PROVE  WakeInv'
  <2>1. frame \in Frames /\ frame.op # "send"
    BY DEF ClearFrame, CancelFrame, Frames
  <2>2. StillAborted'
    BY <1>1, <2>1, PushKeeps DEF WakeInv, Aborted
  <2>3. OwedIsLatched'
    BY <1>1, DiscardOwes DEF WakeInv, CancelCall
  <2>4. IdleIsFresh'
    BY <1>1 DEF WakeInv, IdleIsFresh, IsIdle, Aborted
  <2> QED BY <2>2, <2>3, <2>4 DEF WakeInv
<1>2. CASE Fires(cause) /\ UNCHANGED stack
  <2>1. (Aborted => Aborted') => StillAborted'
    BY <1>2 DEF WakeInv, StillAborted
  <2> QED BY <1>2, <2>1, WakesFired
<1> QED BY <1>1, <1>2 DEF CancelCall

\* An activity ends: the wake it latched becomes the replay.
LEMMA WakesReplayed ==
    ASSUME phase \in Phases, WakeInv, StackEmpty, BecomeIdle, UNCHANGED <<inbox, stack, owed>>
    PROVE  WakeInv'
<1>1. /\ stack' = <<>> /\ ~replay /\ Pending' = Pending
      /\ phase'.kind = "idle" /\ phase'.abort = "live" /\ ~phase'.wake
  BY DEF StackEmpty, BecomeIdle, Phase, inbox, Pending
<1>2. IdleIsFresh' /\ StillAborted'
  BY <1>1 DEF IdleIsFresh, StillAborted, IsIdle, Aborted
<1>3. OwedIsLatched'
  BY <1>1 DEF WakeInv, OwedIsLatched, BecomeIdle
<1> QED BY <1>2, <1>3 DEF WakeInv

\* A driver starts: it serves whatever was owed.
LEMMA WakesServed ==
    ASSUME stack \in Seq(Frames), WakeInv,
           NEW callers, callers = stack \/ (stack # <<>> /\ callers = Tail(stack)),
           StartDriver(callers)
    PROVE  WakeInv'
<1>1. /\ IsIdle /\ ~Aborted /\ owed' = {} /\ phase'.kind = "running"
      /\ phase'.abort = "live"
  BY DEF WakeInv, StartDriver, IdleIsFresh, Phase
<1>2. StartFrame \in Frames /\ StartFrame.op # "send"
  BY DEF StartFrame, Frames
<1>3. stack' = <<StartFrame>> \o callers
  BY DEF StartDriver
<1>4. StillAborted'
  BY <1>1, <1>2, <1>3, FrameKeeps DEF WakeInv
<1> QED BY <1>1, <1>4 DEF WakeInv, IdleIsFresh, OwedIsLatched, IsIdle

\* A step of the driver that leaves the inbox lists and the latch alone.
LEMMA WakesYield ==
    ASSUME stack \in Seq(Frames), WakeInv, Yields, UNCHANGED <<replay, owed, nextTurn, nextStep>>,
           phase'.kind = phase.kind, phase'.abort = phase.abort, phase'.wake = phase.wake
    PROVE  WakeInv'
<1>1. StillAborted'
  BY YieldKeeps DEF WakeInv, Aborted
<1> QED BY <1>1 DEF WakeInv, IdleIsFresh, OwedIsLatched, IsIdle, Aborted, Pending

\* Every step keeps the wakes accounted for: one case per action.
LEMMA WakeStep == TypeOK /\ OneDriver /\ WakeInv /\ [Next]_vars => WakeInv'
<1> SUFFICES ASSUME TypeOK, OneDriver, WakeInv, [Next]_vars PROVE WakeInv'
  OBVIOUS
<1>0. /\ phase \in Phases /\ InboxType /\ stack \in Seq(Frames)
      /\ IdleIsFresh /\ OwedIsLatched /\ StillAborted
  BY DEF TypeOK, ClientType, WakeInv
<1>1. ASSUME NEW m \in Msgs, NEW list, SendWaking(m, list) PROVE WakeInv'
  <2>1. Pending \subseteq Pending' /\ UNCHANGED <<phase, replay, owed>>
    BY <1>0, <1>1, InsertKeepsPending DEF SendWaking
  <2>2. /\ Push(SendFrame(m, Aborted)) /\ SendFrame(m, Aborted) \in Frames
        /\ SendFrame(m, Aborted).afterAbort => Aborted
    BY <1>1 DEF SendWaking, SendFrame, Frames, Aborted
  <2>3. StillAborted'
    BY <1>0, <2>1, <2>2, PushKeeps DEF Aborted
  <2> QED BY <1>0, <2>1, <2>3 DEF WakeInv, IdleIsFresh, OwedIsLatched, IsIdle, Aborted
<1>2. ASSUME NEW m \in Msgs, Inject(m) \/ ToolContext(m) PROVE WakeInv'
  BY <1>0, <1>2, InsertKeepsPending, WakesStay DEF Inject, ToolContext, client
<1>3. ASSUME NEW m \in Msgs, Withdraw(m) PROVE WakeInv'
  <2>1. owed' = owed \ {m} /\ UNCHANGED <<phase, replay, stack>>
    BY <1>3 DEF Withdraw
  <2>2. Pending \ {m} \subseteq Pending'
    <3>1. ASSUME NEW q \in Seq(Msgs), NEW i \in 1..Len(q), q[i] = m
          PROVE  Range(q) \ {m} \subseteq Range(RemoveAt(q, i))
      BY <3>1, RemoveKeepsOthers
    <3> QED BY <1>0, <1>3, <3>1 DEF Withdraw, InboxType, Pending
  <2> QED BY <1>0, <2>1, <2>2
          DEF WakeInv, IdleIsFresh, OwedIsLatched, StillAborted, IsIdle, Aborted
<1>4. ASSUME NEW cause \in Causes, Cancel(cause) PROVE WakeInv'
  BY <1>0, <1>4, WakesCancelled DEF Cancel
<1>5. ASSUME NEW cause \in Causes, CancelKeepInbox(cause) PROVE WakeInv'
  <2>1. /\ AbortPhase(cause, TRUE) /\ UNCHANGED <<inbox, stack, replay, owed>>
        /\ Pending' = Pending /\ cause # "disposed" /\ cause # "live"
    BY <1>5, CausesAreCauses DEF CancelKeepInbox, inbox, Pending
  <2>2. /\ phase'.kind = phase.kind /\ (IsIdle => phase' = phase)
        /\ phase'.wake = phase.wake /\ (Aborted => phase'.abort = phase.abort)
        /\ phase'.abort \in {phase.abort, cause}
    BY <1>0, <2>1, AbortEffect
  <2> QED BY <1>0, <2>1, <2>2
          DEF WakeInv, IdleIsFresh, OwedIsLatched, StillAborted, IsIdle, Aborted
<1>6. CASE Dispose
  BY <1>0, <1>6, WakesCancelled DEF Dispose
<1>7. CASE StartMaintenance
  <2>1. /\ IsIdle /\ UNCHANGED <<inbox, stack, replay, owed>> /\ Pending' = Pending
        /\ phase'.kind = "maintenance" /\ phase'.abort = "live" /\ ~phase'.wake
    BY <1>7 DEF StartMaintenance, Phase, inbox, Pending
  <2> QED BY <1>0, <2>1
          DEF WakeInv, IdleIsFresh, OwedIsLatched, StillAborted, IsIdle, Aborted
<1>8. CASE Propose
  <2>1. phase.kind = "running" /\ ~Aborted /\ owed = {} /\ UNCHANGED <<phase, owed, replay>>
    BY <1>0, <1>8 DEF Propose, AtStart, OneDriver, OwedIsLatched
  <2>2. StillAborted'
    BY <1>0, <1>8, <2>1, YieldKeeps DEF Propose, Aborted
  <2> QED BY <1>0, <2>1, <2>2
          DEF WakeInv, IdleIsFresh, OwedIsLatched, IsIdle, Aborted
<1>9. CASE OpenTurn
  <2>1. CASE Yields /\ UNCHANGED phase
    BY <1>0, <1>9, <2>1, WakesYield DEF OpenTurn, inbox
  <2>2. CASE phase' = [phase EXCEPT !.turn = @ + 1] /\ UNCHANGED stack
    <3>1. phase'.kind = phase.kind /\ phase'.abort = phase.abort /\ phase'.wake = phase.wake
      BY <1>0, <2>2 DEF Phases
    <3> QED BY <1>0, <1>9, <2>2, <3>1, WakesStay DEF OpenTurn, inbox, Pending
  <2> QED BY <1>9, <2>1, <2>2 DEF OpenTurn
<1>18. CASE \E kept \in {Range(batch), {}} : EnterStep(kept)
  <2>1. UNCHANGED <<client, nextTurn, nextStep>>
    BY <1>18 DEF EnterStep, Decided
  <2>2. phase'.kind = phase.kind /\ phase'.abort = phase.abort /\ phase'.wake = phase.wake
    BY <1>0, <1>18 DEF EnterStep, Phases
  <2> QED BY <1>0, <2>1, <2>2, WakesStay DEF client, Pending
<1>19. CASE ProposalFails
  BY <1>0, <1>19, WakesYield DEF ProposalFails, Decided
<1>10. CASE \/ ProposalRejected \/ ProposalEmpty
            \/ \E decision \in {"rejecting", "emptied", "entering"} : ProposalDecided(decision)
            \/ \E end \in {"completed", "max-tokens"} : ModelFinishes(end)
            \/ StepFails \/ ModelCallsTools
            \/ \E end \in {"completed", "null"} : ToolsFinish(end)
            \/ StepFailureEndsTurn \/ FailureReported \/ AfterStep \/ Stop
  <2>1. UNCHANGED <<phase, client, nextTurn, nextStep>>
    BY <1>10 DEF ProposalRejected, ProposalEmpty, ProposalDecided, ModelFinishes, StepFails,
                 ModelCallsTools, ToolsFinish, StepFailureEndsTurn, FailureReported,
                 AfterStep, Stop, Decided, inbox
  <2> QED BY <1>0, <2>1, WakesStay DEF client, Pending
<1>11. CASE AfterTurn
  <2>1. CASE phase' = NextTurnPhase /\ owed' = {}
    <3>1. /\ phase'.kind = "running" /\ phase'.abort = "live" /\ ~phase'.wake
      BY <2>1 DEF NextTurnPhase, Phase
    <3>2. stack = <<>> /\ stack' = stack
      BY <1>11 DEF AfterTurn, At, StackEmpty
    <3> QED BY <2>1, <3>1, <3>2
            DEF WakeInv, IdleIsFresh, OwedIsLatched, StillAborted, IsIdle
  <2>2. CASE UNCHANGED <<phase, owed>>
    BY <1>0, <1>11, <2>2, WakesStay DEF AfterTurn, inbox, Pending
  <2> QED BY <1>11, <2>1, <2>2 DEF AfterTurn
<1>12. CASE Retire
  BY <1>0, <1>12, WakesReplayed DEF Retire, At
<1>13. CASE FinishMaintenance
  BY <1>0, <1>13, WakesReplayed DEF FinishMaintenance
<1>14. CASE FinishSend
  <2>1. Innermost("send") /\ UNCHANGED <<replay, inbox>> /\ Pending' = Pending
    BY <1>14 DEF FinishSend, inbox, Pending
  <2>2. /\ stack' = Tail(stack) /\ (Aborted => Aborted') => StillAborted'
        /\ Head(stack).op = "send" /\ Head(stack).afterAbort => Aborted
    BY <1>0, <2>1, ReturnKeeps
  <2>3. CASE StartDriver(Tail(stack))
    <3>1. stack # <<>>
      BY <2>1 DEF Innermost
    <3> QED BY <1>0, <2>3, <3>1, WakesServed DEF WakeInv
  <2>4. CASE /\ LatchWake(Head(stack).afterAbort)
             /\ stack' = Tail(stack)
             /\ owed' = IF Defers(Head(stack).afterAbort)
                        THEN owed \cup ({Head(stack).msg} \cap Pending) ELSE owed
    <3>1. /\ ~IsIdle
          /\ phase'.kind = phase.kind /\ phase'.abort = phase.abort
          /\ phase.wake => phase'.wake
          /\ Defers(Head(stack).afterAbort) => phase'.wake
      BY <1>0, <2>4, LatchEffect DEF LatchWake
    <3>2. StillAborted' /\ IdleIsFresh'
      BY <2>2, <2>4, <3>1 DEF Aborted, IdleIsFresh, IsIdle
    <3>3. OwedIsLatched'
      <4>1. CASE Defers(Head(stack).afterAbort)
        <5>1. /\ phase.abort # "disposed"
              /\ phase.kind = "running" => Aborted
          BY <2>1, <2>2, <4>1 DEF Defers, Innermost
        <5>2. owed' \subseteq Pending'
          BY <1>0, <2>1, <2>4, <4>1 DEF OwedIsLatched
        <5> QED BY <3>1, <4>1, <5>1, <5>2 DEF OwedIsLatched, Aborted
      <4>2. CASE ~Defers(Head(stack).afterAbort)
        BY <1>0, <2>1, <2>4, <3>1, <4>2 DEF OwedIsLatched, Aborted
      <4> QED BY <4>1, <4>2
    <3> QED BY <3>2, <3>3 DEF WakeInv
  <2> QED BY <1>14, <2>3, <2>4 DEF FinishSend
<1>15. CASE FinishCancel
  <2>1. Innermost("cancel") /\ stack' = Tail(stack) /\ Fires(Head(stack).cause)
    BY <1>15 DEF FinishCancel, Returns
  <2>2. Head(stack) \in Frames /\ Head(stack).op = "cancel"
    BY <1>0, <2>1, ReturnType
  <2>3. Head(stack).cause \in Causes \cup {"disposed"}
    BY <2>2 DEF Frames, StartFrame
  <2>4. (Aborted => Aborted') => StillAborted'
    BY <1>0, <2>1, ReturnKeeps
  <2> QED BY <1>0, <2>1, <2>3, <2>4, WakesFired DEF WakeInv
<1>20. CASE FinishClear
  <2>1. Innermost("clear") /\ UNCHANGED replay
    BY <1>20 DEF FinishClear
  <2>2. Head(stack) \in Frames /\ Head(stack).op = "clear" /\ stack # <<>>
    BY <1>0, <2>1, ReturnType
  <2>3. Head(stack).cause \in Causes \cup {"disposed"}
    BY <2>2 DEF Frames, StartFrame
  <2>4. CASE /\ Discard("next-turn") /\ UNCHANGED phase
             /\ stack' = <<CancelFrame(Head(stack).cause)>> \o Tail(stack)
    <3> DEFINE frame == CancelFrame(Head(stack).cause)
    <3>1. frame \in Frames /\ frame.op # "send"
      BY <2>3 DEF CancelFrame, Frames
    <3>2. (Aborted => Aborted') /\ stack' = <<frame>> \o Tail(stack)
      BY <2>4 DEF Aborted
    <3> HIDE DEF frame
    <3>3. StillAborted'
      BY <1>0, <2>2, <3>1, <3>2, FrameKeeps
    <3>4. OwedIsLatched'
      BY <1>0, <2>1, <2>4, DiscardOwes
    <3> QED BY <1>0, <2>4, <3>3, <3>4 DEF WakeInv, IdleIsFresh, IsIdle, Aborted
  <2>5. CASE Fires(Head(stack).cause) /\ stack' = Tail(stack)
    <3>1. (Aborted => Aborted') => StillAborted'
      BY <1>0, <2>1, <2>5, ReturnKeeps
    <3> QED BY <1>0, <2>3, <2>5, <3>1, WakesFired DEF WakeInv
  <2> QED BY <1>20, <2>4, <2>5 DEF FinishClear
<1>16. CASE Replay
  <2>1. stack = <<>> /\ ~replay' /\ UNCHANGED inbox /\ Pending' = Pending
    BY <1>16 DEF Replay, inbox, Pending
  <2>2. CASE StartDriver(<<>>)
    BY <1>0, <2>1, <2>2, WakesServed DEF WakeInv
  <2>3. CASE LatchWake(FALSE) /\ UNCHANGED <<owed, stack>>
    <3>1. /\ ~IsIdle
          /\ phase'.kind = phase.kind /\ phase'.abort = phase.abort
          /\ phase.wake => phase'.wake
          /\ Defers(FALSE) => phase'.wake
      BY <1>0, <2>3, LatchEffect DEF LatchWake
    <3>2. phase.kind \in {"maintenance", "running"}
      BY <1>0, <3>1 DEF Phases, IsIdle
    <3>3. OwedIsLatched'
      BY <1>0, <2>1, <2>3, <3>1, <3>2 DEF OwedIsLatched, Defers, Aborted
    <3> QED BY <2>1, <2>3, <3>1, <3>3 DEF WakeInv, IdleIsFresh, StillAborted, IsIdle
  <2>4. CASE ~HasPending /\ UNCHANGED <<phase, pc, owed, stack>>
    <3>1. owed = {}
      BY <1>0, <2>4, PendingIsQueued DEF OwedIsLatched
    <3> QED BY <1>0, <2>1, <2>4, <3>1
            DEF WakeInv, IdleIsFresh, OwedIsLatched, StillAborted, IsIdle, Aborted
  <2> QED BY <1>16, <2>2, <2>3, <2>4 DEF Replay
<1>17. CASE Disposed \/ UNCHANGED vars
  BY <1>0, <1>17, WakesStay DEF Disposed, vars, inbox, Pending
<1> QED
  BY <1>1, <1>2, <1>3, <1>4, <1>5, <1>6, <1>7, <1>8, <1>9, <1>10, <1>11, <1>12, <1>13,
     <1>14, <1>15, <1>16, <1>17, <1>18, <1>19, <1>20
  DEF Next, Client, Driver, Synchronous

\* What maintenance or an abort defers is never forgotten: a resting agent owes
\* no pending message a driver.
THEOREM RestingOwes == Spec => []RestingOwesNothing
<1>1. Init => WakeInv
  BY DEF Init, Phase, WakeInv, IdleIsFresh, OwedIsLatched, StillAborted, IsIdle, Aborted
<1>2. DriverInv => TypeOK /\ OneDriver
  BY DEF DriverInv
<1>3. WakeInv => RestingOwesNothing
  BY DEF WakeInv, IdleIsFresh, OwedIsLatched, RestingOwesNothing, StackEmpty
<1> QED BY <1>1, <1>2, <1>3, WakeStep, DriverInvariant, PTL DEF Spec
=============================================================================
