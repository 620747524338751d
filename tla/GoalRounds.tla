----------------------------- MODULE GoalRounds -----------------------------
(***************************************************************************)
(* The driver that turns an active, armed goal into rounds                   *)
(* (goal/goal-round-driver/src/index.ts), on the goal service                *)
(* (goal/goal/src/index.ts, fold.ts) and one agent (core/agent-loop).        *)
(*                                                                          *)
(* A step is a synchronous span.  A request of the driver starts a run at    *)
(* once when none is known: "starting" runs, and what an interrupted span    *)
(* still has to do ("due"), come before everything else.  A pre-step hook     *)
(* chain is cut where it awaits: before the driver's listener, within the     *)
(* listeners it calls next, and in those that called it.                     *)
(***************************************************************************)
EXTENDS Naturals, Sequences, FiniteSets

CONSTANTS
    Humans,               \* messages of people and other producers
    Ids,                  \* identities of round messages
    NoAttempt,
    MaxRounds,            \* bound: values of maxGoalRounds
    MaxRev,               \* bound: goal mutations of people and tools
    MaxTrouble            \* bound: cancels and failures

\* A round that was reserved, and the message that carries it.
Attempts == [id : Ids, rev : Nat, round : Nat, phase : {"queued", "claimed", "admitted"},
             cancelled : BOOLEAN, stale : BOOLEAN]
Messages == [id : Ids, rev : Nat, round : Nat]

ASSUME GoalRoundsAssumption ==
    /\ MaxRounds \in Nat \ {0} /\ MaxRev \in Nat /\ MaxTrouble \in Nat
    /\ Humans \cap Messages = {} /\ NoAttempt \notin Attempts

VARIABLES
    goal,                 \* the folded goal and its activation
    corrupt,              \* the log holds a round the fold refuses
    attempt,              \* the reserved round, or NoAttempt
    driver,               \* the rest of DriverState, and its runs
    agent,                \* where the agent's driver is, and its proposal
    turnQ, stepQ,         \* the inbox: prompts in order, step input
    fate,                 \* per human message: where it is
    halted,               \* history: a running round was cancelled since the last grant
    overtaken,            \* history: changed or disarmed after the driver's last check
    trouble               \* budget of cancels and failures

vars == <<goal, corrupt, attempt, driver, agent, turnQ, stepQ, fate, halted, overtaken, trouble>>
inbox == <<turnQ, stepQ>>
history == <<halted, overtaken>>

Round(m) == m \notin Humans
Rounds(messages) == {m \in messages : Round(m)}

Running == agent.pc \notin {"idle", "maintenance"}
Pending == turnQ # <<>> \/ stepQ # {}
Armed == goal.phase = "active" /\ goal.armed

Init ==
    /\ goal \in [rev : {1}, phase : {"none", "active"}, rounds : {0},
                 max : 1..MaxRounds, armed : {FALSE}]
    /\ corrupt = FALSE
    /\ attempt = NoAttempt
    /\ driver = [competing |-> FALSE, checkpoint |-> FALSE, requested |-> FALSE, busy |-> FALSE,
                 stopping |-> FALSE, starting |-> 0, heads |-> 0, flushing |-> 0]
    /\ agent = [pc |-> "idle", batch |-> {}, aborted |-> FALSE, latch |-> FALSE, due |-> "none"]
    /\ turnQ = <<>> /\ stepQ = {}
    /\ fate = [h \in Humans |-> "unsent"]
    /\ halted = FALSE /\ overtaken = FALSE
    /\ trouble = MaxTrouble

\* No synchronous span is unfinished; within one only listeners act.
Quiet == driver.starting = 0 /\ agent.due = "none"
Reentrant == driver.starting = 0

Fails == trouble > 0 /\ trouble' = trouble - 1

-----------------------------------------------------------------------------
(* The goal service. *)

\* requestDrive: the first of the requests that find no run starts one.
Requested(d) ==
    IF d.stopping THEN d
    ELSE [d EXCEPT !.requested = TRUE,
                   !.starting = IF d.busy THEN @ ELSE 1]

\* What a listener of goal/changed does.
Changed(d) == Requested([d EXCEPT !.checkpoint = TRUE])

\* A committed mutation: the next revision, with the activation it leaves.
Revised(phase, armed) == [goal EXCEPT !.rev = @ + 1, !.phase = phase, !.armed = armed]

Disarmed(g) == IF corrupt THEN g ELSE [g EXCEPT !.armed = FALSE]

\* The operations people and tools have.
Operations ==
    LET phase == goal.phase IN
    IF corrupt THEN {}
    ELSE UNION {
        IF phase \in {"none", "complete"}
        THEN {[Revised("active", TRUE) EXCEPT !.rounds = 0, !.max = n] : n \in 1..MaxRounds} ELSE {},
        IF phase # "none"
        THEN {[Revised(phase, goal.armed) EXCEPT !.max = n] : n \in 1..MaxRounds} ELSE {},
        IF phase = "active" THEN {Revised("paused", FALSE), Revised("blocked", FALSE)} ELSE {},
        IF phase \in {"active", "paused", "blocked"} THEN {Revised("complete", FALSE)} ELSE {},
        IF phase \in {"active", "paused", "blocked"} /\ ~Armed /\ goal.rounds < goal.max
        THEN {Revised("active", TRUE)} ELSE {},
        IF phase # "none" THEN {Revised("none", FALSE)} ELSE {}}

\* Creation and resumption give the driver authority again.
Mutate ==
    /\ Reentrant
    /\ goal.rev <= MaxRev
    /\ goal' \in Operations
    /\ driver' = Changed(driver)
    /\ halted' = (halted /\ ~(goal'.armed /\ ~goal.armed))
    /\ overtaken' = TRUE
    /\ UNCHANGED <<corrupt, attempt, agent, inbox, fate, trouble>>

\* The strict fold's condition on an admitted round.
Legal(m) ==
    goal.phase = "active" /\ m.rev = goal.rev /\ m.round = goal.rounds + 1 /\ m.round <= goal.max

-----------------------------------------------------------------------------
(* The agent: claims, wakes and the ends of turns. *)

\* sameQueued: content and source, not the identity of the message.
SameQueued(m, a) == a # NoAttempt /\ Round(m) /\ m.rev = a.rev /\ m.round = a.round

Claimed(a, batch) ==
    IF \E m \in batch : SameQueued(m, a) THEN [a EXCEPT !.phase = "claimed"] ELSE a

\* A boundary claims all step input, and the first prompt when a turn opens.
Proposes(ag, queue, steps, a, f) ==
    LET opens == ag.pc # "stepping"
        batch == steps \cup (IF opens /\ queue # <<>> THEN {Head(queue)} ELSE {})
    IN
    /\ agent' = [ag EXCEPT !.pc = "proposed", !.batch = batch, !.aborted = FALSE, !.latch = FALSE]
    /\ turnQ' = IF opens /\ queue # <<>> THEN Tail(queue) ELSE queue
    /\ stepQ' = {}
    /\ attempt' = Claimed(a, batch)
    /\ fate' = [h \in Humans |-> IF h \in batch THEN "claimed" ELSE f[h]]

\* An insertion into the queue of prompts: competing, and the queued round is stale.
Competes(d) == [d EXCEPT !.competing = TRUE]
Staled(a) == IF a # NoAttempt /\ a.phase = "queued" THEN [a EXCEPT !.stale = TRUE] ELSE a

Followup(h) ==
    LET queued == [fate EXCEPT ![h] = "queued"] IN
    /\ Reentrant /\ fate[h] = "unsent" /\ ~driver.stopping
    /\ driver' = Competes(driver)
    /\ IF agent.pc = "idle"
       THEN Proposes(agent, Append(turnQ, h), stepQ, Staled(attempt), queued)
       ELSE /\ turnQ' = Append(turnQ, h)
            /\ attempt' = Staled(attempt)
            /\ agent' = [agent EXCEPT !.latch = @ \/ agent.aborted \/ agent.pc = "maintenance"]
            /\ fate' = queued
            /\ UNCHANGED stepQ
    /\ UNCHANGED <<goal, corrupt, history, trouble>>

\* Step input wakes nobody (inject), or like a prompt (steer, unless it comes after
\* an abort: then it is a prompt).
Inject(h) ==
    LET queued == [fate EXCEPT ![h] = "queued"] IN
    /\ Reentrant /\ fate[h] = "unsent" /\ ~driver.stopping
    /\ \/ /\ stepQ' = stepQ \cup {h}
          /\ fate' = queued
          /\ \/ UNCHANGED agent
             \/ /\ ~agent.aborted /\ agent.pc = "maintenance"
                /\ agent' = [agent EXCEPT !.latch = TRUE]
          /\ UNCHANGED <<attempt, turnQ>>
       \/ agent.pc = "idle" /\ Proposes(agent, turnQ, stepQ \cup {h}, attempt, queued)
    /\ UNCHANGED <<goal, corrupt, driver, history, trouble>>

\* cancel clears the inbox, telling the driver of its own message, and aborts.
Cleared(a) ==
    IF \E i \in 1..Len(turnQ) : SameQueued(turnQ[i], a) THEN [a EXCEPT !.cancelled = TRUE] ELSE a

Cancels ==
    /\ turnQ' = <<>> /\ stepQ' = {}
    /\ fate' = [h \in Humans |-> IF fate[h] = "queued" THEN "gone" ELSE fate[h]]
    /\ agent' = [agent EXCEPT !.latch = FALSE, !.aborted = agent.pc # "idle"]

\* Unless it is to keep the inbox.  A round of the turn in progress is not to be
\* followed by another.
Cancel ==
    /\ Reentrant /\ Fails
    /\ \/ Cancels /\ attempt' = Cleared(attempt)
       \/ /\ agent.pc # "idle"
          /\ agent' = [agent EXCEPT !.aborted = TRUE]
          /\ UNCHANGED <<attempt, inbox, fate>>
    /\ halted' = (halted \/ /\ attempt # NoAttempt
                            /\ agent.pc \in {"proposed", "checked", "accepted", "stepping"}
                            /\ attempt.phase \in {"claimed", "admitted"})
    /\ UNCHANGED <<goal, corrupt, driver, overtaken>>

MaintenanceBegins ==
    /\ Quiet /\ agent.pc = "idle" /\ ~driver.stopping
    /\ agent' = [agent EXCEPT !.pc = "maintenance", !.aborted = FALSE, !.latch = FALSE]
    /\ UNCHANGED <<goal, corrupt, attempt, driver, inbox, fate, history, trouble>>

\* The status was idle all along: only a latched wake is heard of.
MaintenanceEnds ==
    /\ Quiet /\ agent.pc = "maintenance"
    /\ IF agent.latch /\ Pending
       THEN Proposes(agent, turnQ, stepQ, attempt, fate)
       ELSE agent' = [agent EXCEPT !.pc = "idle"] /\ UNCHANGED <<attempt, inbox, fate>>
    /\ UNCHANGED <<goal, corrupt, driver, history, trouble>>

-----------------------------------------------------------------------------
(* The pre-step hooks, the driver's own among them. *)

\* What a turn that ends leaves of its proposal: claimed messages that neither
\* entered nor went back to the inbox.
Unentered(by) == [h \in Humans |-> IF fate[h] = "claimed" THEN by ELSE fate[h]]

\* turn/end as the driver's listeners see it, and agent/error before it.
TurnEnds(reason, a, g) ==
    LET ours == a # NoAttempt /\ a.phase \in {"claimed", "admitted"} IN
    CASE reason = "aborted" ->
            /\ attempt' = IF ours THEN [a EXCEPT !.cancelled = TRUE] ELSE a
            /\ goal' = IF ours THEN g ELSE Disarmed(g)
      [] reason \in {"error", "max-tokens"} -> attempt' = a /\ goal' = Disarmed(g)
      [] OTHER -> attempt' = a /\ goal' = g

\* The proposal is over without a step; the driver of the agent retires.
Leaves(reason, a, g, by) ==
    /\ TurnEnds(IF agent.aborted THEN "aborted" ELSE reason, a, g)
    /\ agent' = [agent EXCEPT !.pc = "retiring", !.batch = {}]
    /\ fate' = Unentered(by)

ValidReservation(m) ==
    /\ ~driver.stopping
    /\ attempt # NoAttempt /\ attempt.phase = "claimed" /\ ~attempt.stale
    /\ SameQueued(m, attempt)
    /\ ~corrupt /\ Armed
    /\ m.rev = goal.rev /\ m.round = goal.rounds + 1

\* Fault: the driver rejects the proposal with everything in it.
DriverRejectsAll(a) ==
    /\ attempt' = a
    /\ driver' = Requested(driver)
    /\ agent' = [agent EXCEPT !.pc = "rejected"]
    /\ UNCHANGED <<stepQ, fate>>

\* restoreOtherClaimed, and the rejection the driver returns.
DriverRejects(a) ==
    /\ attempt' = a
    /\ stepQ' = stepQ \cup (agent.batch \cap Humans)
    /\ fate' = [h \in Humans |-> IF h \in agent.batch THEN "queued" ELSE fate[h]]
    /\ driver' = Requested(driver)
    /\ agent' = [agent EXCEPT !.pc = "rejected"]

\* The driver's listener is reached: it looks at a round before it goes on.
DriverChecks ==
    LET rounds == Rounds(agent.batch) IN
    /\ Quiet /\ agent.pc = "proposed"
    /\ UNCHANGED <<goal, corrupt, turnQ, halted, trouble>>
    /\ \/ /\ rounds = {}
          /\ agent' = [agent EXCEPT !.pc = "accepted"]
          /\ UNCHANGED <<attempt, driver, stepQ, fate, overtaken>>
       \/ \E m \in rounds :
          /\ UNCHANGED overtaken
          /\ IF ValidReservation(m)
             THEN /\ agent' = [agent EXCEPT !.pc = "checked"]
                  /\ UNCHANGED <<attempt, driver, stepQ, fate>>
             ELSE DriverRejects(IF SameQueued(m, attempt) THEN NoAttempt ELSE attempt)

\* Fault: only the reservation is looked at after the hooks, not the goal.
DriverRechecksReservation ==
    /\ Quiet /\ agent.pc = "checked" /\ ~agent.aborted
    /\ UNCHANGED <<goal, corrupt, turnQ, halted, trouble>>
    /\ IF attempt # NoAttempt /\ ~attempt.stale
       THEN /\ agent' = [agent EXCEPT !.pc = "accepted"]
            /\ overtaken' = FALSE
            /\ UNCHANGED <<attempt, driver, stepQ, fate>>
       ELSE DriverRejects(NoAttempt) /\ UNCHANGED overtaken

\* The hooks it called let the proposal in: it looks again.
DriverRechecks ==
    /\ Quiet /\ agent.pc = "checked" /\ ~agent.aborted
    /\ UNCHANGED <<goal, corrupt, turnQ, halted, trouble>>
    /\ \E m \in Rounds(agent.batch) :
          IF ValidReservation(m)
          THEN /\ agent' = [agent EXCEPT !.pc = "accepted"]
               /\ overtaken' = FALSE
               /\ UNCHANGED <<attempt, driver, stepQ, fate>>
          ELSE DriverRejects(NoAttempt) /\ UNCHANGED overtaken

\* They throw, reject or are overtaken by an abort; what they throw at or reject
\* goes down whole.
HooksRefuse ==
    /\ Quiet /\ agent.pc = "checked"
    /\ UNCHANGED <<corrupt, turnQ, halted, overtaken>>
    /\ \/ /\ ~agent.aborted /\ Fails
          /\ driver' = Requested(driver)
          /\ Leaves("error", NoAttempt, goal, "dropped")
          /\ UNCHANGED stepQ
       \/ /\ ~agent.aborted /\ Fails
          /\ \E m \in Rounds(agent.batch) :
                LET blocks == Armed /\ m.rev = goal.rev IN
                \/ /\ attempt' = NoAttempt
                   /\ agent' = [agent EXCEPT !.pc = "rejected"]
                   /\ fate' = Unentered("dropped")
                   /\ IF blocks
                      THEN goal' = Revised("blocked", FALSE) /\ driver' = Changed(driver)
                      ELSE UNCHANGED <<goal, driver>>
                \/ blocks /\ Leaves("error", NoAttempt, goal, "dropped") /\ UNCHANGED driver
          /\ UNCHANGED stepQ
       \/ /\ agent.aborted
          /\ \/ /\ stepQ' = stepQ \cup (agent.batch \cap Humans)
                /\ fate' = [h \in Humans |-> IF h \in agent.batch THEN "queued" ELSE fate[h]]
             \/ UNCHANGED <<stepQ, fate>>
          /\ agent' = [agent EXCEPT !.pc = "accepted"]
          /\ UNCHANGED <<goal, attempt, driver, trouble>>

\* A listener outside the driver's throws or rejects; or the chain returns a
\* rejection, or returns to a turn that was aborted.  A rejection of the driver's
\* has put everything but its round back.
TurnLeaves ==
    LET by == IF agent.pc = "rejected" THEN "lost" ELSE "dropped" IN
    /\ Quiet
    /\ UNCHANGED <<corrupt, driver, inbox, history>>
    /\ \/ /\ agent.pc \in {"proposed", "accepted", "rejected"} /\ ~agent.aborted /\ Fails
          /\ \E reason \in {"error", "blocked"} : Leaves(reason, attempt, goal, by)
       \/ /\ agent.pc \in {"proposed", "accepted"} /\ agent.aborted
          /\ Leaves("aborted", attempt, goal, by) /\ UNCHANGED trouble
       \/ /\ agent.pc = "rejected"
          /\ Leaves("blocked", attempt, goal, by) /\ UNCHANGED trouble
       \/ /\ agent.pc = "accepted" /\ agent.batch = {} /\ ~agent.aborted
          /\ Leaves("completed", attempt, goal, by) /\ UNCHANGED trouble

-----------------------------------------------------------------------------
(* The step, the end of its turn and the return to idle. *)

\* user/message: the fold counts the round, or refuses it from then on.
Enters ==
    /\ Quiet /\ agent.pc = "accepted" /\ ~agent.aborted /\ agent.batch # {}
    /\ agent' = [agent EXCEPT !.pc = "stepping"]
    /\ fate' = [h \in Humans |-> IF h \in agent.batch THEN "entered" ELSE fate[h]]
    /\ LET rounds == Rounds(agent.batch) IN
       /\ goal' = IF ~corrupt /\ \E m \in rounds : Legal(m)
                  THEN [goal EXCEPT !.rounds = @ + 1] ELSE goal
       /\ corrupt' = (corrupt \/ \E m \in rounds : ~Legal(m))
       /\ attempt' = IF attempt # NoAttempt /\ \E m \in rounds : m.id = attempt.id
                     THEN [attempt EXCEPT !.phase = "admitted"] ELSE attempt
    /\ UNCHANGED <<driver, inbox, history, trouble>>

\* The step is over: it goes on with step input, or the turn ends.
StepEnds ==
    /\ Quiet /\ agent.pc = "stepping"
    /\ UNCHANGED <<corrupt, driver, history>>
    /\ \/ /\ ~agent.aborted /\ stepQ # {}
          /\ Proposes(agent, turnQ, stepQ, attempt, fate) /\ UNCHANGED <<goal, trouble>>
       \/ /\ UNCHANGED <<inbox, fate>>
          /\ \E reason \in {"completed", "max-tokens", "error", "aborted"} :
                LET ends == reason \in {"completed", "max-tokens"} IN
                /\ reason = "aborted" <=> agent.aborted
                /\ ends => stepQ = {}
                /\ IF reason \in {"max-tokens", "error"} THEN Fails ELSE UNCHANGED trouble
                /\ TurnEnds(reason, attempt, goal)
                /\ agent' = [agent EXCEPT !.batch = {},
                               !.pc = IF ends /\ Pending THEN "between" ELSE "retiring"]

\* The next prompt, unless the fresh signal has been aborted before its turn.
NextTurn ==
    /\ Quiet /\ agent.pc = "between"
    /\ IF agent.aborted
       THEN agent' = [agent EXCEPT !.pc = "retiring"] /\ UNCHANGED <<attempt, inbox, fate>>
       ELSE Proposes(agent, turnQ, stepQ, attempt, fate)
    /\ UNCHANGED <<goal, corrupt, driver, history, trouble>>

\* The agent is idle, and its listeners hear of it: a round that was reserved but
\* never ran, or was cancelled, pauses its goal.
Retire ==
    LET unused == attempt # NoAttempt /\ (attempt.phase \in {"queued", "claimed"} \/ attempt.cancelled)
        idle(due) == agent' = [agent EXCEPT !.pc = "idle", !.latch = FALSE, !.aborted = FALSE, !.due = due]
        calm == [driver EXCEPT !.competing = FALSE]
    IN
    /\ Quiet /\ agent.pc = "retiring"
    /\ IF corrupt THEN idle(IF agent.latch THEN "wake" ELSE "none")
                  ELSE idle(IF agent.latch THEN "requestThenWake" ELSE "request")
    /\ UNCHANGED <<corrupt, inbox, fate, history>>
    /\ \/ /\ unused /\ Armed /\ ~corrupt
          /\ attempt' = NoAttempt
          /\ \/ goal' = Revised("paused", FALSE) /\ driver' = Changed(calm) /\ UNCHANGED trouble
             \/ Fails /\ goal' = Disarmed(goal) /\ driver' = calm
       \/ /\ ~(unused /\ Armed /\ ~corrupt)
          /\ driver' = calm
          /\ UNCHANGED <<goal, attempt, trouble>>

\* The rest of that span: the driver is requested, then a latched wake replayed.
Idles ==
    /\ driver.starting = 0
    /\ UNCHANGED <<goal, corrupt, history, trouble>>
    /\ \/ /\ agent.due \in {"request", "requestThenWake"}
          /\ driver' = Requested(driver)
          /\ agent' = [agent EXCEPT !.due = IF @ = "request" THEN "none" ELSE "wake"]
          /\ UNCHANGED <<attempt, inbox, fate>>
       \/ /\ agent.due = "wake"
          /\ LET ag == [agent EXCEPT !.due = "none"] IN
             IF Pending /\ agent.pc = "idle" THEN Proposes(ag, turnQ, stepQ, attempt, fate)
             ELSE agent' = ag /\ UNCHANGED <<attempt, inbox, fate>>
          /\ UNCHANGED driver

-----------------------------------------------------------------------------
(* The runs of the driver. *)

ReadyToDrive == ~driver.stopping /\ ~Running /\ ~driver.competing

\* Rounds on their way to the log, of a proposal and of those it leaves queued.
OnTheWay(batch, queue) == Rounds(batch \cup {queue[j] : j \in 1..Len(queue)})
Outstanding == OnTheWay(agent.batch, turnQ)

\* A new message has an identity of its own.
FreshIds == Ids \ {m.id : m \in Outstanding}

\* A run that was started by a request is known as soon as it first awaits.
Looping(d, first) == [d EXCEPT !.heads = @ + 1, !.busy = @ \/ first]

\* Fault: an attempt is worked off without asking for another pass.
WorksOffQuietly(d, first) ==
    /\ attempt' = NoAttempt
    /\ driver' = [Looping(d, first) EXCEPT !.checkpoint = TRUE]

\* An attempt is worked off, and needs a checkpoint of its own.
WorksOff(d, first) ==
    /\ attempt' = NoAttempt
    /\ driver' = [Looping(d, first) EXCEPT !.checkpoint = TRUE, !.requested = TRUE]

\* The goal is blocked, which requests the driver again.
Blocks(d, first) ==
    /\ goal' = Revised("blocked", FALSE)
    /\ driver' = Looping(Changed(d), first)

\* The next round is queued; its wake follows what listeners of the insertion do.
Reserve(d, first) ==
    LET m == [id |-> CHOOSE i \in FreshIds : TRUE, rev |-> goal.rev, round |-> goal.rounds + 1] IN
    /\ FreshIds # {}
    /\ attempt' = [id |-> m.id, rev |-> m.rev, round |-> m.round,
                   phase |-> "queued", cancelled |-> FALSE, stale |-> FALSE]
    /\ turnQ' = Append(turnQ, m)
    /\ agent' = [agent EXCEPT !.due = IF first THEN "sendingFirst" ELSE "sending"]
    /\ driver' = d

\* drive, past its checkpoint.  A block that fails leaves the goal to disarm.
Drives(d, first) ==
    LET gives == (goal' = Disarmed(goal)) /\ (driver' = Looping(d, first)) IN
    /\ UNCHANGED <<corrupt, stepQ, fate, history>>
    /\ \/ /\ attempt # NoAttempt
          /\ WorksOff(d, first)
          /\ UNCHANGED <<goal, agent, turnQ, trouble>>
       \/ /\ attempt = NoAttempt /\ (corrupt \/ ~Armed)
          /\ driver' = Looping(d, first)
          /\ UNCHANGED <<goal, attempt, agent, turnQ, trouble>>
       \/ /\ attempt = NoAttempt /\ ~corrupt /\ Armed /\ goal.rounds >= goal.max
          /\ (Blocks(d, first) /\ UNCHANGED trouble) \/ (gives /\ Fails)
          /\ UNCHANGED <<attempt, agent, turnQ>>
       \/ /\ attempt = NoAttempt /\ ~corrupt /\ Armed /\ goal.rounds < goal.max
          /\ \/ Reserve(d, first) /\ UNCHANGED <<goal, trouble>>
             \/ Fails /\ (Blocks(d, first) \/ gives) /\ UNCHANGED <<attempt, agent, turnQ>>

\* The head of a run's loop; a first run is still inside the request.
RunsOn ==
    LET first == driver.starting = 1
        d == IF first THEN [driver EXCEPT !.starting = 0] ELSE [driver EXCEPT !.heads = @ - 1]
        taken == [d EXCEPT !.requested = FALSE]
        rests == UNCHANGED <<goal, corrupt, attempt, agent, inbox, fate, history, trouble>>
    IN
    /\ first \/ (Quiet /\ driver.heads > 0)
    /\ \/ /\ ~driver.requested \/ driver.stopping
          /\ driver' = IF first THEN Looping(d, TRUE) ELSE [d EXCEPT !.busy = FALSE]
          /\ rests
       \/ /\ driver.requested /\ ~driver.stopping /\ ~ReadyToDrive
          /\ driver' = Looping(taken, first)
          /\ rests
       \/ /\ driver.requested /\ ReadyToDrive /\ driver.checkpoint
          /\ driver' = [taken EXCEPT !.checkpoint = FALSE, !.flushing = @ + 1, !.busy = @ \/ first]
          /\ rests
       \/ driver.requested /\ ReadyToDrive /\ ~driver.checkpoint /\ Drives(taken, first)

\* The checkpoint settles: everything it may have changed is looked at again.
FlushReturns ==
    LET d == [driver EXCEPT !.flushing = @ - 1] IN
    /\ Quiet /\ driver.flushing > 0
    /\ \/ /\ Fails
          /\ goal' = Disarmed(goal) /\ driver' = Looping(d, FALSE)
          /\ overtaken' = TRUE
          /\ UNCHANGED <<corrupt, attempt, agent, inbox, fate, halted>>
       \/ /\ ~ReadyToDrive \/ driver.checkpoint
          /\ driver' = Looping(d, FALSE)
          /\ UNCHANGED <<goal, corrupt, attempt, agent, inbox, fate, history, trouble>>
       \/ ReadyToDrive /\ ~driver.checkpoint /\ Drives(d, FALSE)

\* followup's wake: a turn for an idle agent, a latch in maintenance.
Sends ==
    /\ driver.starting = 0 /\ agent.due \in {"sending", "sendingFirst"}
    /\ driver' = Looping(driver, agent.due = "sendingFirst")
    /\ LET ag == [agent EXCEPT !.due = "none"] IN
       IF agent.pc = "idle" THEN Proposes(ag, turnQ, stepQ, attempt, fate)
       ELSE /\ agent' = [ag EXCEPT !.latch = @ \/ agent.pc = "maintenance"]
            /\ UNCHANGED <<attempt, inbox, fate>>
    /\ UNCHANGED <<goal, corrupt, history, trouble>>

\* The plugin is unloaded: no new work, and a reserved round is cancelled.
Unload ==
    /\ Quiet /\ ~driver.stopping
    /\ driver' = [driver EXCEPT !.stopping = TRUE]
    /\ goal' = Disarmed(goal)
    /\ overtaken' = TRUE
    /\ IF attempt # NoAttempt /\ Running
       THEN Cancels /\ attempt' = [Cleared(attempt) EXCEPT !.stale = TRUE]
       ELSE /\ attempt' = IF attempt = NoAttempt THEN attempt ELSE [attempt EXCEPT !.stale = TRUE]
            /\ UNCHANGED <<agent, inbox, fate>>
    /\ UNCHANGED <<corrupt, halted, trouble>>

-----------------------------------------------------------------------------
Runs == RunsOn \/ FlushReturns

Agent == \/ DriverChecks \/ DriverRechecks \/ HooksRefuse \/ TurnLeaves
         \/ Enters \/ StepEnds \/ NextTurn \/ Retire \/ Idles \/ Sends
         \/ MaintenanceEnds

Next == \/ Runs \/ Agent
        \/ Mutate \/ Cancel \/ MaintenanceBegins \/ Unload
        \/ \E h \in Humans : Followup(h) \/ Inject(h)

Spec == Init /\ [][Next]_vars

\* Checkpoints, hooks, steps and maintenance settle, and continuations run.
FairSpec == Spec /\ WF_vars(Runs) /\ WF_vars(Agent)

-----------------------------------------------------------------------------
Goals == [rev : Nat, phase : {"none", "active", "paused", "blocked", "complete"},
          rounds : Nat, max : 1..MaxRounds, armed : BOOLEAN]
Drivers == [competing : BOOLEAN, checkpoint : BOOLEAN, requested : BOOLEAN, busy : BOOLEAN,
            stopping : BOOLEAN, starting : 0..1, heads : Nat, flushing : Nat]
Agents == [pc : {"idle", "maintenance", "proposed", "checked", "accepted", "rejected",
                 "stepping", "between", "retiring"},
           batch : SUBSET (Humans \cup Messages), aborted : BOOLEAN, latch : BOOLEAN,
           due : {"none", "request", "requestThenWake", "wake", "sending", "sendingFirst"}]
\* "gone": taken from the inbox by a cancel; "dropped": with a proposal that a hook
\* or a listener threw at or rejected, or an abort ended; "lost": with a round that
\* the driver itself rejected.
Fates == {"unsent", "queued", "claimed", "entered", "gone", "dropped", "lost"}

TypeOK ==
    /\ goal \in Goals /\ driver \in Drivers /\ agent \in Agents
    /\ attempt \in {NoAttempt} \cup Attempts
    /\ turnQ \in Seq(Humans \cup Messages) /\ stepQ \subseteq Humans
    /\ fate \in [Humans -> Fates]
    /\ corrupt \in BOOLEAN /\ halted \in BOOLEAN /\ overtaken \in BOOLEAN
    /\ trouble \in 0..MaxTrouble

\* A request is never dropped between the runs that coalesce it.
NoRequestLost ==
    driver.requested /\ ~driver.stopping =>
        driver.starting + driver.heads + driver.flushing > 0 \/ agent.due \in {"sending", "sendingFirst"}

\* A round that the driver rejects takes no person's message down with it: those
\* claimed together with it are back in the inbox before the rejection returns.
OthersKept == \A h \in Humans : fate[h] # "lost"

\* An armed goal is active, and a round the driver believes admitted is counted.
RoundsCounted ==
    /\ goal.armed => goal.phase = "active"
    /\ attempt # NoAttempt /\ attempt.phase = "admitted" /\ attempt.rev = goal.rev /\ ~corrupt
          => goal.rounds = attempt.round

RoundsInv == TypeOK /\ NoRequestLost /\ OthersKept /\ RoundsCounted

Reserving == attempt = NoAttempt /\ attempt' # NoAttempt
Entering == agent.pc = "accepted" /\ agent'.pc = "stepping" /\ Rounds(agent.batch) # {}

(***************************************************************************)
(* Rounds start under a person's authority only.  None is reserved after a   *)
(* running one was cancelled, until the goal is created or resumed.  One that  *)
(* enters the log is the next round of the active, armed goal at its current   *)
(* revision, whatever queued, cancelled, mutated or threw around the awaits;   *)
(* the one way past is a mutation while listeners that called the driver's     *)
(* still await, after its last check.                                       *)
(***************************************************************************)
RoundsUnderAuthority ==
    [][/\ Reserving => ~halted /\ Armed
       /\ Entering => overtaken \/ (Armed /\ \A m \in Rounds(agent.batch) : Legal(m))]_vars

\* An armed goal of an idle agent does not stand still unless the driver believes
\* in competing work: its next round starts, or it is blocked at its limit.  That
\* belief is the code's flag, which the next idle status resets and nothing else.
Waiting ==
    /\ Armed /\ ~corrupt /\ agent.pc = "idle"
    /\ ~driver.competing /\ ~driver.stopping
    /\ attempt # NoAttempt => ~attempt.cancelled

GoalAdvances == Waiting ~> ~Waiting
=============================================================================
