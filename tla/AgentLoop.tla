----------------------------- MODULE AgentLoop -----------------------------
(***************************************************************************)
(* The driver of one agent: ReactLoopAgent (core/agent-loop/src/agent.ts)   *)
(* with the inbox it drains (core/agent/src/inbox.ts).  Clients send,        *)
(* remove and cancel at any moment; the driver opens a turn, proposes a step *)
(* from the claimed inbox, calls the model and the tools, and closes step    *)
(* and turn whatever happens.                                                *)
(*                                                                          *)
(* Grain.  JavaScript runs jobs to completion, but every status, inbox        *)
(* notification and awaited hook runs foreign code, which may call send,     *)
(* cancel or runMaintenance before the driver's next statement.  A step is   *)
(* the code between two such points: an await, an append or a notification.  *)
(* Listeners of an append itself may only cancel or start maintenance, since *)
(* Session.append refuses to be re-entered; a send is allowed there too,     *)
(* which stands for the same send made just before that append.  A client    *)
(* call that foreign code suspends is a frame of the stack; calls nest, and  *)
(* no continuation of the driver runs before the stack is empty: only a       *)
(* driver that is just started runs inside its caller, to its first await.    *)
(* The splices of one claim are taken together.                               *)
(*                                                                          *)
(* A turn's model exchange is one step with all its outcomes; the tool       *)
(* scheduler inside it has a module of its own (ToolCalls).  A session       *)
(* append that a validator vetoes is not modelled.                           *)
(***************************************************************************)
EXTENDS Naturals, Sequences, FiniteSets, SequencesExt, SessionTrace

CONSTANTS
    Msgs,                 \* messages clients may send, each once
    Causes,               \* cancel causes other than disposal: user, parent
    MaxSteps,             \* bound: steps a turn takes on the model's own account
    MaxDepth              \* bound: client calls suspended inside each other

ASSUME CausesAreCauses == Causes \cap {"live", "disposed"} = {}
ASSUME BoundsArePositive == MaxSteps \in Nat \ {0} /\ MaxDepth \in Nat \ {0}

VARIABLES
    phase,                \* this.phase
    pc,                   \* where the driver (kick and turn) is suspended
    exit,                 \* how turn() is leaving: "break", "return" or "throw"
    turnEnds,             \* the local turnEnds of turn()
    target,               \* the local target of turn()
    batch,                \* the messages claimed for the proposed step
    nextTurn, nextStep,   \* the inbox lists
    stack,                \* client calls suspended in a listener, innermost first
    replay,               \* an exiting activity is about to look at its latch
    life,                 \* "live", "closing" (teardown has begun), "draining" (its
                          \* cancel has reached an activity), "disposed"
    fate,                 \* per message: what the live notifications have said
    claimedIn,            \* per message: the turn that claimed it, 0 before
    fromQueue,            \* messages claimed from the next-turn list
    owed,                 \* waking messages an activity has deferred to its end
    ceiling,              \* a step of the open turn hit max-tokens
    trace                 \* what the session-log rules have seen

inbox == <<nextTurn, nextStep, fate, claimedIn, fromQueue>>
locals == <<exit, turnEnds, target, batch, ceiling>>
vars == <<phase, pc, locals, inbox, stack, replay, life, owed, trace>>

(***************************************************************************)
(* phase.abort is "live" while the phase's AbortController has not fired     *)
(* (and in the idle phase, which has none), else the first cancel cause.     *)
(* phase.turn is lastTurn in the idle and maintenance phases.                *)
(***************************************************************************)
Phase(kind, turn) ==
    [kind |-> kind, abort |-> "live", wake |-> FALSE, turn |-> turn, step |-> 0]

IsIdle == phase.kind = "idle"
Aborted == phase.abort # "live"

HasPending == nextTurn # <<>> \/ nextStep # <<>>
Pending == Range(nextTurn) \cup Range(nextStep)

\* A send that has inserted and not yet called wakeDriver, a cancel that has
\* discarded the next-step list, one that has discarded both lists and not yet
\* fired the signal, and a wakeDriver whose new driver has not come to its first
\* await.
SendFrame(m, afterAbort) == [op |-> "send", msg |-> m, afterAbort |-> afterAbort]
ClearFrame(cause) == [op |-> "clear", cause |-> cause]
CancelFrame(cause) == [op |-> "cancel", cause |-> cause]
StartFrame == [op |-> "start"]

Push(frame) == Len(stack) < MaxDepth /\ stack' = <<frame>> \o stack
Innermost(op) == stack # <<>> /\ Head(stack).op = op
Returns(op) == Innermost(op) /\ stack' = Tail(stack)

\* No synchronous caller is on the stack, so a continuation may run.
StackEmpty == stack = <<>> /\ ~replay

\* kick runs inside wakeDriver.
Starting == Innermost("start")

\* The driver's first await: a wakeDriver that started it returns.
Yields == stack' = IF Starting THEN Tail(stack) ELSE stack

Init ==
    /\ phase = Phase("idle", 0)
    /\ pc = "off" /\ exit = "break" /\ turnEnds = "null"
    /\ target = "next-turn" /\ batch = <<>> /\ ceiling = FALSE
    /\ nextTurn = <<>> /\ nextStep = <<>>
    /\ stack = <<>> /\ replay = FALSE
    /\ life = "live"
    /\ fate = [m \in Msgs |-> "unsent"]
    /\ claimedIn = [m \in Msgs |-> 0]
    /\ fromQueue = {} /\ owed = {}
    /\ trace = FreshTrace

-----------------------------------------------------------------------------
(* Client calls. *)

Insert(m, list) ==
    /\ fate[m] = "unsent"
    /\ fate' = [fate EXCEPT ![m] = "pending"]
    /\ IF list = "next-turn"
       THEN nextTurn' = Append(nextTurn, m) /\ UNCHANGED nextStep
       ELSE nextStep' = Append(nextStep, m) /\ UNCHANGED nextTurn
    /\ UNCHANGED <<claimedIn, fromQueue>>

\* send with wakeup: classify before inserting, insert, and call wakeDriver
\* once the splice's observers have run.
SendWaking(m, list) ==
    /\ life # "disposed"
    /\ Insert(m, IF Aborted THEN "next-turn" ELSE list)
    /\ Push(SendFrame(m, Aborted))
    /\ UNCHANGED <<phase, pc, locals, replay, life, owed, trace>>

\* inject: next-step input that wakes nobody.
Inject(m) ==
    /\ life # "disposed"
    /\ Insert(m, "next-step")
    /\ UNCHANGED <<phase, pc, locals, stack, replay, life, owed, trace>>

\* wakeDriver on an idle agent: the running phase is published, then kick runs.
StartDriver(callers) ==
    /\ IsIdle
    /\ phase' = Phase("running", phase.turn)
    /\ pc' = "boundary"
    /\ owed' = {}
    /\ stack' = <<StartFrame>> \o callers

\* wakeDriver on a busy agent: latch what this activity cannot serve itself.
Defers(afterAbort) ==
    phase.abort # "disposed" /\ (phase.kind = "maintenance" \/ afterAbort)

LatchWake(afterAbort) ==
    /\ ~IsIdle
    /\ phase' = [phase EXCEPT !.wake = @ \/ Defers(afterAbort)]
    /\ UNCHANGED pc

FinishSend ==
    /\ Innermost("send")
    /\ \/ StartDriver(Tail(stack))
       \/ /\ LatchWake(Head(stack).afterAbort)
          /\ stack' = Tail(stack)
          /\ owed' = IF Defers(Head(stack).afterAbort)
                     THEN owed \cup ({Head(stack).msg} \cap Pending) ELSE owed
    /\ UNCHANGED <<locals, inbox, replay, life, trace>>

Queued(list) == IF list = "next-turn" THEN nextTurn ELSE nextStep

\* Fault: follow-ups are announced as discarded and stay in their queue.
DiscardSteeringOnly(list) ==
    /\ nextStep' = IF list = "next-step" THEN <<>> ELSE nextStep
    /\ fate' = [m \in Msgs |-> IF m \in Range(Queued(list)) THEN "canceled" ELSE fate[m]]
    /\ owed' = owed \ Range(Queued(list))
    /\ UNCHANGED <<nextTurn, claimedIn, fromQueue>>

\* One of the two splices of inbox.clear.
Discard(list) ==
    /\ nextStep' = IF list = "next-step" THEN <<>> ELSE nextStep
    /\ nextTurn' = IF list = "next-turn" THEN <<>> ELSE nextTurn
    /\ fate' = [m \in Msgs |-> IF m \in Range(Queued(list)) THEN "canceled" ELSE fate[m]]
    /\ owed' = owed \ Range(Queued(list))
    /\ UNCHANGED <<claimedIn, fromQueue>>

\* Fault: a cancel that keeps the inbox takes the latched wake all the same.
AbortPhaseDropsWake(cause, keepInbox) ==
    phase' = IF IsIdle THEN phase
             ELSE [phase EXCEPT !.abort = IF Aborted THEN @ ELSE cause,
                                !.wake = FALSE]

\* The activity's controller fires once: the first cause wins.
AbortPhase(cause, keepInbox) ==
    phase' = IF IsIdle THEN phase
             ELSE [phase EXCEPT !.abort = IF Aborted THEN @ ELSE cause,
                                !.wake = @ /\ keepInbox]

\* The wake is taken back and the signal fires.
Fires(cause) ==
    /\ AbortPhase(cause, FALSE)
    /\ owed' = {}
    /\ UNCHANGED inbox

\* cancel: the listeners of discarded messages run after each splice and before the
\* signal fires.
CancelCall(cause) ==
    /\ \/ /\ nextStep # <<>>
          /\ Discard("next-step")
          /\ Push(ClearFrame(cause))
          /\ UNCHANGED phase
       \/ /\ nextStep = <<>> /\ nextTurn # <<>>
          /\ Discard("next-turn")
          /\ Push(CancelFrame(cause))
          /\ UNCHANGED phase
       \/ /\ ~HasPending
          /\ Fires(cause)
          /\ UNCHANGED stack
    /\ UNCHANGED <<pc, locals, replay, trace>>

Cancel(cause) == life # "disposed" /\ CancelCall(cause) /\ UNCHANGED life

\* Teardown's cancel has reached an activity.
Reached(cause) == IF cause = "disposed" /\ ~IsIdle THEN "draining" ELSE life

\* The second splice finds what the listeners of the first have queued.
FinishClear ==
    /\ Innermost("clear")
    /\ \/ /\ nextTurn # <<>>
          /\ Discard("next-turn")
          /\ stack' = <<CancelFrame(Head(stack).cause)>> \o Tail(stack)
          /\ UNCHANGED <<phase, life>>
       \/ /\ nextTurn = <<>>
          /\ Fires(Head(stack).cause)
          /\ stack' = Tail(stack)
          /\ life' = Reached(Head(stack).cause)
    /\ UNCHANGED <<pc, locals, replay, trace>>

FinishCancel ==
    /\ Returns("cancel")
    /\ Fires(Head(stack).cause)
    /\ life' = Reached(Head(stack).cause)
    /\ UNCHANGED <<pc, locals, replay, trace>>

CancelKeepInbox(cause) ==
    /\ life # "disposed"
    /\ AbortPhase(cause, TRUE)
    /\ UNCHANGED <<pc, locals, inbox, stack, replay, life, owed, trace>>

\* Teardown: a cancel with the disposed cause, then whenIdle.
Dispose ==
    /\ life = "live"
    /\ CancelCall("disposed")
    /\ life' = IF ~HasPending /\ ~IsIdle THEN "draining" ELSE "closing"

\* whenIdle has seen every activity end: the agent leaves the registries.
Disposed ==
    /\ life \in {"closing", "draining"}
    /\ IsIdle /\ StackEmpty
    /\ life' = "disposed"
    /\ UNCHANGED <<phase, pc, locals, inbox, stack, replay, owed, trace>>

\* inbox.remove: a client withdraws one pending message where it is queued.
Withdraw(m) ==
    /\ \/ /\ \E i \in 1..Len(nextTurn) :
                nextTurn[i] = m /\ nextTurn' = RemoveAt(nextTurn, i)
          /\ UNCHANGED nextStep
       \/ /\ \E i \in 1..Len(nextStep) :
                nextStep[i] = m /\ nextStep' = RemoveAt(nextStep, i)
          /\ UNCHANGED nextTurn
    /\ fate' = [fate EXCEPT ![m] = "canceled"]
    /\ owed' = owed \ {m}
    /\ UNCHANGED <<claimedIn, fromQueue, phase, pc, locals, stack, replay, life, trace>>

\* runMaintenance claims the idle phase (it throws in any other).
StartMaintenance ==
    /\ life # "disposed"
    /\ IsIdle
    /\ phase' = Phase("maintenance", phase.turn)
    /\ UNCHANGED <<pc, locals, inbox, stack, replay, life, owed, trace>>

-----------------------------------------------------------------------------
(* Convergence to idle, shared by maintenance and the driver. *)

\* Fault: the turn number is lost between two drivers.
BecomeIdleForgetsTurn ==
    /\ phase' = Phase("idle", 0)
    /\ replay' = phase.wake

\* Fault: an activity waits for its queue to empty before it ends.
BecomeIdleWhenDrained ==
    /\ ~HasPending
    /\ phase' = Phase("idle", phase.turn)
    /\ replay' = phase.wake

\* The idle phase is published; its listeners run before the latch is read.
BecomeIdle ==
    /\ phase' = Phase("idle", phase.turn)
    /\ replay' = phase.wake

FinishMaintenance ==
    /\ StackEmpty
    /\ phase.kind = "maintenance"
    /\ BecomeIdle
    /\ UNCHANGED <<pc, locals, inbox, stack, life, owed, trace>>

\* kick's finally.
Retire ==
    /\ StackEmpty
    /\ pc = "retire"
    /\ BecomeIdle
    /\ pc' = "off"
    /\ UNCHANGED <<locals, inbox, stack, life, owed, trace>>

\* The latched wake runs only while the queue still holds work.
Replay ==
    /\ replay /\ stack = <<>>
    /\ replay' = FALSE
    /\ \/ /\ HasPending
          /\ StartDriver(<<>>) \/ (LatchWake(FALSE) /\ UNCHANGED <<owed, stack>>)
       \/ /\ ~HasPending
          /\ UNCHANGED <<phase, pc, owed, stack>>
    /\ UNCHANGED <<locals, inbox, life, trace>>

-----------------------------------------------------------------------------
(* One turn. *)

At(place) == StackEmpty /\ pc = place
AtStart(place) == (StackEmpty \/ Starting) /\ pc = place

client == <<stack, replay, life, owed>>

\* turn() up to the append of turn/start; an abort leaves no trace of it.
OpenTurn ==
    /\ AtStart("boundary")
    /\ \/ /\ Aborted
          /\ pc' = "retire"
          /\ Yields
          /\ UNCHANGED <<phase, locals, trace>>
       \/ /\ ~Aborted
          /\ trace' = Observe(trace, TurnStart(phase.turn + 1))
          /\ phase' = [phase EXCEPT !.turn = @ + 1]
          /\ turnEnds' = "null" /\ target' = "next-turn" /\ ceiling' = FALSE
          /\ pc' = "loop"
          /\ UNCHANGED <<exit, batch, stack>>
    /\ UNCHANGED <<inbox, replay, life, owed>>

\* turn() leaves its try: turn/end is appended on every path.
CloseTurn(reason, how) ==
    /\ trace' = Observe(trace, TurnEnd(phase.turn))
    /\ turnEnds' = reason
    /\ exit' = how
    /\ pc' = "ended"

\* Fault: an abort is reported as an error.
FailureIsAlwaysError == "error"

\* What the catch block records for a throw.
Failure == IF Aborted THEN "aborted" ELSE "error"

\* The catch block: an abort goes on to turn/end, a failure is reported first.
Fails ==
    \/ Aborted /\ CloseTurn(Failure, "throw")
    \/ /\ ~Aborted
       /\ turnEnds' = Failure
       /\ exit' = "throw"
       /\ pc' = "failing"
       /\ UNCHANGED trace

\* Fault: a turn takes every queued prompt.
ClaimedEverything == IF target = "next-turn" THEN nextStep \o nextTurn ELSE nextStep

Claimed == IF target = "next-turn" /\ nextTurn # <<>>
           THEN Append(nextStep, Head(nextTurn)) ELSE nextStep

\* preStep claims all next-step input and, at the turn boundary, one prompt.
Propose ==
    /\ AtStart("loop")
    /\ ~Aborted
    /\ Yields
    /\ batch' = Claimed
    /\ nextStep' = <<>>
    /\ nextTurn' = IF target = "next-turn" /\ nextTurn # <<>>
                   THEN Tail(nextTurn) ELSE nextTurn
    /\ fromQueue' = fromQueue \cup (Range(Claimed) \ Range(nextStep))
    /\ fate' = [m \in Msgs |-> IF m \in Range(Claimed) THEN "claimed" ELSE fate[m]]
    /\ claimedIn' = [m \in Msgs |-> IF m \in Range(Claimed) THEN phase.turn
                                     ELSE claimedIn[m]]
    /\ pc' = "proposing"
    /\ UNCHANGED <<phase, exit, turnEnds, target, ceiling, replay, life, owed, trace>>

\* A decision without messages ends a turn, but not one whose tools have answered.
MayEndEmpty == turnEnds # "null" \/ phase.step = 0

\* preStep returns past its last look at the signal; turn() goes on with the decision
\* in a reaction of its own.
ProposalDecided(decision) ==
    /\ At("proposing")
    /\ ~Aborted
    /\ decision = "emptied" => MayEndEmpty
    /\ pc' = decision
    /\ UNCHANGED <<phase, locals, inbox, client, trace>>

\* Fault: a refused proposal keeps its messages for later.
DecidedKeepsRefused(kept) ==
    /\ batch' = IF kept = {} THEN batch ELSE <<>>
    /\ fate' = [m \in Msgs |-> IF m \in kept THEN "delivered" ELSE fate[m]]
    /\ UNCHANGED <<nextTurn, nextStep, claimedIn, fromQueue>>

\* The proposal is over: kept messages enter the step, the others are gone.
Decided(kept) ==
    /\ batch' = <<>>
    /\ fate' = [m \in Msgs |->
                   IF m \notin Range(batch) THEN fate[m]
                   ELSE IF m \in kept THEN "delivered" ELSE "dropped"]
    /\ UNCHANGED <<nextTurn, nextStep, claimedIn, fromQueue>>

\* signal.throwIfAborted at the loop's head, or before the step opens, or a listener
\* of the proposal throws, or an abort is seen there.
ProposalFails ==
    /\ \/ AtStart("loop") /\ Aborted
       \/ At("proposing")
       \/ At("entering") /\ Aborted
    /\ Yields
    /\ Decided({})
    /\ Fails
    /\ UNCHANGED <<phase, target, ceiling, replay, life, owed>>

\* Neither a refusal nor an empty decision looks at the signal again.
ProposalRejected ==
    /\ At("rejecting")
    /\ Decided({})
    /\ CloseTurn("blocked", "return")
    /\ UNCHANGED <<phase, target, ceiling, client>>

\* The decision enters no message: the turn ends, at its first step early.
ProposalEmpty ==
    /\ At("emptied")
    /\ Decided({})
    /\ IF turnEnds # "null" THEN CloseTurn(turnEnds, "break")
                            ELSE CloseTurn("completed", "return")
    /\ UNCHANGED <<phase, target, ceiling, client>>

\* The decision enters the step; kept is what listeners left of the batch, and
\* they may have added messages of their own.  A tool continuation may be empty.
EnterStep(kept) ==
    /\ At("entering")
    /\ ~Aborted
    /\ Decided(kept)
    /\ trace' = Observe(trace, StepStart(phase.turn, phase.step + 1))
    /\ phase' = [phase EXCEPT !.step = @ + 1]
    /\ pc' = "model"
    /\ UNCHANGED <<exit, turnEnds, target, ceiling, client>>

\* Fault: a later completed step hides the ceiling.
StepResultForgets(end) == end

\* max-tokens is sticky.
StepResult(end) == IF turnEnds = "max-tokens" THEN turnEnds ELSE end

\* Fault: a failing step is not closed.
EndStepUnlessFailed(place) ==
    /\ trace' = IF place = "failed" THEN trace
                ELSE Observe(trace, StepEnd(phase.turn, phase.step))
    /\ pc' = place

EndStep(place) ==
    /\ trace' = Observe(trace, StepEnd(phase.turn, phase.step))
    /\ pc' = place

\* The model exchange ends the step without tools.  A throw (an abort, a
\* failed request no listener retries, a listener's own failure) ends it too.
ModelFinishes(end) ==
    /\ At("model")
    /\ ~Aborted
    /\ turnEnds' = StepResult(end)
    /\ ceiling' = (ceiling \/ end = "max-tokens")
    /\ trace' = Observe(Observe(trace, AssistantMessage(phase.turn, phase.step, <<>>)),
                        StepEnd(phase.turn, phase.step))
    /\ pc' = "stepped"
    /\ UNCHANGED <<phase, exit, target, batch, inbox, client>>

StepFails ==
    /\ At("model") \/ At("tools")
    /\ EndStep("failed")
    /\ UNCHANGED <<phase, locals, inbox, client>>

ModelCallsTools ==
    /\ At("model")
    /\ ~Aborted
    /\ trace' = Observe(trace, AssistantMessage(phase.turn, phase.step, <<>>))
    /\ pc' = "tools"
    /\ UNCHANGED <<phase, locals, inbox, client>>

\* A committed tool result hands its context to the next step.
ToolContext(m) ==
    /\ At("tools")
    /\ Insert(m, "next-step")
    /\ UNCHANGED <<phase, pc, locals, client, trace>>

\* All calls have results (an abort only skips the unstarted ones): the step
\* ends, concluding the turn or asking for another request.
ToolsFinish(end) ==
    /\ At("tools")
    /\ end = "null" => phase.step < MaxSteps
    /\ turnEnds' = StepResult(end)
    /\ EndStep("stepped")
    /\ UNCHANGED <<phase, exit, target, batch, ceiling, inbox, client>>

\* The throw reaches turn()'s catch.
StepFailureEndsTurn ==
    /\ At("failed")
    /\ Fails
    /\ UNCHANGED <<phase, target, batch, ceiling, inbox, client>>

\* agent/error has been emitted, whatever its listeners did: the reason stays.
FailureReported ==
    /\ At("failing")
    /\ CloseTurn(turnEnds, "throw")
    /\ UNCHANGED <<phase, target, batch, ceiling, inbox, client>>

\* After step/end: stop, ask the turn-stopping listeners, or take another step.
AfterStep ==
    /\ At("stepped")
    /\ \/ /\ Aborted
          /\ CloseTurn("aborted", "throw")
          /\ UNCHANGED target
       \/ /\ ~Aborted
          /\ turnEnds # "null" /\ nextStep = <<>>
          /\ pc' = "stopping"
          /\ UNCHANGED <<exit, turnEnds, target, trace>>
       \/ /\ ~Aborted
          /\ turnEnds = "null" \/ nextStep # <<>>
          /\ pc' = "loop"
          /\ target' = "next-step"
          /\ UNCHANGED <<exit, turnEnds, trace>>
    /\ UNCHANGED <<phase, batch, ceiling, inbox, client>>

\* The turn-stopping listeners are done (or one threw): input they staged keeps
\* the turn open.
Stop ==
    /\ At("stopping")
    /\ \/ /\ Fails
          /\ UNCHANGED target
       \/ /\ ~Aborted /\ nextStep = <<>>
          /\ CloseTurn(turnEnds, "break")
          /\ UNCHANGED target
       \/ /\ ~Aborted /\ nextStep # <<>>
          /\ pc' = "loop"
          /\ target' = "next-step"
          /\ UNCHANGED <<exit, turnEnds, trace>>
    /\ UNCHANGED <<phase, batch, ceiling, inbox, client>>

\* Fault: the next turn of a live driver does not restart its steps.
NextTurnKeepsStep == [Phase("running", phase.turn) EXCEPT !.step = phase.step]

\* A further turn of the same driver: fresh controller, no latch, step 0.
NextTurnPhase == Phase("running", phase.turn)

\* turn() after its finally: another turn on a fresh controller, or kick exits.
AfterTurn ==
    /\ At("ended")
    /\ \/ /\ exit = "break" /\ HasPending
          /\ phase' = NextTurnPhase
          /\ pc' = "boundary"
          /\ owed' = {}
       \/ /\ exit # "break" \/ ~HasPending
          /\ pc' = "retire"
          /\ UNCHANGED <<phase, owed>>
    /\ UNCHANGED <<locals, inbox, stack, replay, life, trace>>

-----------------------------------------------------------------------------
Client ==
    \/ \E m \in Msgs :
          \/ \E list \in {"next-turn", "next-step"} : SendWaking(m, list)
          \/ Inject(m)
          \/ Withdraw(m)
    \/ \E cause \in Causes : Cancel(cause) \/ CancelKeepInbox(cause)
    \/ Dispose
    \/ StartMaintenance

Driver ==
    \/ OpenTurn \/ Propose
    \/ \E decision \in {"rejecting", "emptied", "entering"} : ProposalDecided(decision)
    \/ ProposalFails \/ ProposalRejected \/ ProposalEmpty
    \/ \E kept \in {Range(batch), {}} : EnterStep(kept)
    \/ \E end \in {"completed", "max-tokens"} : ModelFinishes(end)
    \/ StepFails
    \/ ModelCallsTools
    \/ \E m \in Msgs : ToolContext(m)
    \/ \E end \in {"completed", "null"} : ToolsFinish(end)
    \/ StepFailureEndsTurn \/ FailureReported
    \/ AfterStep \/ Stop \/ AfterTurn
    \/ Retire

\* The rest of a synchronous call, or of an activity's last job.
Synchronous == FinishSend \/ FinishClear \/ FinishCancel \/ Replay

Next == Client \/ Driver \/ Synchronous \/ FinishMaintenance \/ Disposed

Spec == Init /\ [][Next]_vars

(***************************************************************************)
(* Code on the stack finishes, awaited work settles (an aborted signal makes *)
(* model, tools and listeners settle too), and a maintenance task ends.      *)
(* Clients owe nothing.                                                      *)
(***************************************************************************)
FairSpec == /\ Spec
            /\ WF_vars(Driver) /\ WF_vars(Synchronous) /\ WF_vars(FinishMaintenance)

-----------------------------------------------------------------------------
Places == {"off", "boundary", "loop", "proposing", "rejecting", "emptied", "entering",
           "model", "tools", "stepped", "failed", "failing", "stopping", "ended", "retire"}
Reasons == {"null", "completed", "max-tokens", "blocked", "aborted", "error"}

Phases == [kind : {"idle", "maintenance", "running"},
           abort : {"live", "disposed"} \cup Causes,
           wake : BOOLEAN, turn : Nat, step : Nat]

Traces == [openTurn : Nat, openStep : Nat, nextTurn : Nat, nextStep : Nat,
           calls : {{}}, legal : BOOLEAN]

InboxType ==
    /\ nextTurn \in Seq(Msgs) /\ nextStep \in Seq(Msgs)
    /\ fate \in [Msgs -> {"unsent", "pending", "claimed", "delivered",
                          "dropped", "canceled"}]
    /\ claimedIn \in [Msgs -> Nat]
    /\ fromQueue \subseteq Msgs

LocalsType ==
    /\ exit \in {"break", "return", "throw"}
    /\ turnEnds \in Reasons
    /\ target \in {"next-turn", "next-step"}
    /\ batch \in Seq(Msgs)
    /\ ceiling \in BOOLEAN

Frames == [op : {"send"}, msg : Msgs, afterAbort : BOOLEAN]
          \cup [op : {"clear", "cancel"}, cause : Causes \cup {"disposed"}]
          \cup {StartFrame}

ClientType ==
    /\ stack \in Seq(Frames)
    /\ replay \in BOOLEAN
    /\ life \in {"live", "closing", "draining", "disposed"}
    /\ owed \subseteq Msgs

TypeOK == /\ phase \in Phases /\ pc \in Places /\ trace \in Traces
          /\ LocalsType /\ InboxType /\ ClientType

\* Whatever clients, listeners and failures do, the driver's events obey the
\* log's rules: turns and steps are numbered consecutively, opened one at a time
\* and always closed, and nothing is recorded outside an open step that needs one.
LogLegal == trace.legal

\* When the agent rests, its log is balanced and knows the turn it stopped at.
RestingLogBalanced ==
    phase.kind # "running" =>
        trace.openTurn = 0 /\ trace.openStep = 0 /\ trace.nextTurn = phase.turn + 1

\* What the log has open between turns, inside a turn and inside a step.
NothingOpen ==
    trace.openTurn = 0 /\ trace.openStep = 0 /\ trace.nextTurn = phase.turn + 1
TurnOpen ==
    /\ trace.openTurn = phase.turn /\ trace.nextTurn = phase.turn
    /\ trace.openStep = 0 /\ trace.nextStep = phase.step + 1
StepOpen ==
    /\ trace.openTurn = phase.turn /\ trace.nextTurn = phase.turn
    /\ trace.openStep = phase.step /\ trace.nextStep = phase.step

\* Where the driver is suspended decides what is open in the log, so the log
\* alone tells recovery what a killed driver was doing.
LogFollowsDriver ==
    /\ pc \in {"off", "boundary", "ended", "retire"} => NothingOpen
    /\ pc \in {"loop", "proposing", "rejecting", "emptied", "entering",
               "stepped", "failed", "failing", "stopping"} => TurnOpen
    /\ pc \in {"model", "tools"} => StepOpen
    /\ pc = "boundary" => phase.step = 0

\* There is one driver: it exists exactly while the phase is running, so two
\* turns never interleave, even when listeners restart a retiring agent.
OneDriver == (pc # "off") = (phase.kind = "running")

\* The driver's invariant: the place of the one driver, its phase and its locals
\* are always consistent with each other and with what the log has open.
DriverInv == TypeOK /\ LogLegal /\ LogFollowsDriver /\ OneDriver

\* Every message that was ever accepted is in exactly the one place its last
\* notification says: pending in one list, claimed in the open proposal, or gone.
Accounted ==
    /\ \A m \in Msgs : (fate[m] = "pending") = (m \in Pending)
    /\ \A m \in Msgs : (fate[m] = "claimed") = (m \in Range(batch))
    /\ Len(nextTurn) + Len(nextStep) = Cardinality(Pending)

\* A message is claimed inside an open turn and its own only: what a turn
\* proposed never outlives it.
ClaimBelongsToOpenTurn ==
    \A m \in Msgs : fate[m] = "claimed" =>
        claimedIn[m] = phase.turn /\ trace.openTurn = phase.turn /\ trace.openStep = 0

\* A queued prompt is the only prompt of its turn.
OnePromptPerTurn ==
    \A m, n \in fromQueue : claimedIn[m] = claimedIn[n] => m = n

\* What messages can rely on: a place that their last notification names, a claim
\* that ends with its turn, and a turn that is not shared with another prompt.
MessagesKept == Accounted /\ ClaimBelongsToOpenTurn /\ OnePromptPerTurn

\* Waking input deferred by maintenance or an abort is not forgotten: an agent
\* that rests has since opened its queue, or the input was withdrawn or canceled,
\* or a cancel of everything took the wake back.
RestingOwesNothing == IsIdle /\ StackEmpty => owed = {}

\* max-tokens is sticky: a turn that hit the ceiling never ends as completed.
CeilingIsReported ==
    pc = "ended" /\ ceiling => turnEnds # "completed"

\* How the turn ends is settled: turn() looks at its signal no more.
EndingSettled == pc \in {"rejecting", "emptied", "failing"}

\* Once its signal fires a turn only winds down: it opens no further step, claims no
\* input, settles on no ending of its own, and its turn/end says aborted.  The only
\* turns that end otherwise had settled before the signal fired, and say so.
AbortedTurnWindsDown ==
    [][trace.openTurn # 0 /\ Aborted =>
          /\ trace'.openStep \in {0, trace.openStep}
          /\ \A m \in Msgs : fate'[m] = "claimed" => fate[m] = "claimed"
          /\ EndingSettled' => EndingSettled
          /\ trace'.openTurn = 0 => (turnEnds' = "aborted") = ~EndingSettled]_vars

\* Disposal never latches: while the activity that teardown's cancel has reached
\* winds down, no wake is latched.  (A comment says so; the code looks at the
\* first cause of the abort only.)
DisposalNeverLatches ==
    [][life = "draining" /\ Aborted /\ phase'.wake => phase.wake]_vars

\* A live driver claims queued work itself: it retires from a completed turn only
\* when no follow-up is queued.  (Comments say so; an empty first step breaks it.)
CompletedTurnServesQueue ==
    [][pc = "ended" /\ pc' = "retire" /\ turnEnds = "completed" /\ ~Aborted
         => nextTurn = <<>>]_vars

\* The driver always converges: no abort, failure or latch keeps it busy for ever.
Converges == []<>(phase.kind = "idle")
=============================================================================
