# A TLA+ model of the agent harness

The repository is a TypeScript agent harness: agents hold a session (an
append-only event log), take turns with a language model, run tools, and
persist the log so that a killed process can resume. This directory
specifies its core, checks it with TLC and proves the central invariants with
TLAPS.

Contents: [the system](#the-system), [modules](#modules-and-the-code),
[runs](#runs), [fairness](#fairness), [proofs](#proofs),
[divergences](#where-code-and-comments-disagree),
[limits](#what-is-not-modelled), [plan](#plan).

## The system

One Node process, one event loop. Concurrency is the interleaving of promise
reactions, timers and *listeners*: almost every operation publishes an event
whose listeners run synchronously and may call back into the operation's owner.
The table lists the parts that carry the program's own logic; `PROJECT.json`
lists all of them, with the sources of each and the reason when one is left out.

| Part | State it keeps | Operations | Correct when |
|---|---|---|---|
| agent driver (`core/agent-loop/src/agent.ts`) | phase (idle, maintenance, running with turn, step, abort controller, latched wake) | send (followup, steer, inject), cancel, runMaintenance; driver: kick, turn, preStep, step | one driver at a time; turns and steps bracketed in the log whatever fails; aborted turns wind down; deferred wakes replayed; converges to idle |
| agent inbox (`core/agent/src/inbox.ts`) | next-turn and next-step lists, mirrored in the log | append, prepend, replace, remove, clear, claim | each message is in one place and its notifications say which; one prompt per turn |
| tool scheduler (`core/agent-loop/src/tool-calls.ts`) | slots, in-flight map, abort and failure flags | group, start, race, commit, drain, skip | bounded pool, exclusive calls alone, results in the model's order, every call answered, quiescent before a throw |
| session log (`core/session`) | event list, append-publication flag | append, prepare, fork, dispose; rules in `invariant.ts`; `repair.ts` | numbered, balanced turns and steps; results paired with calls |
| persistence (`session/session-persistence`) | per session: write-behind queue, cursor, initialization promise | created, event, flush, dispose; load, inspect, repair | stored log is a prefix of the live one; a successful flush means durable; nothing stranded |
| session preparations (`preparations.ts`, the coordinator around it) | per session: pool entry with phase and source, operation chain, tracked cursor and owner, retirement | inspect, load, prepare, append, attach, release, retire | one holder at a time; a held Session is the durable log; the log has one owner; every call returns |
| backends (JSONL, SQLite) | files or tables | appendBatch, loadStored, commitRepair | an append is all or nothing unless the process dies |
| checkpoints (`session-checkpoint-policy`) | none | flush before a model request, a tool body, a step | no effect without a durable record |
| background jobs (`jobs/jobs-local`, reporter in `jobs/tool-jobs`) | records with status and reported mark, owners' cleanups, waits | start, settle, kill, read, wait, owner and service teardown, notice | a completion reaches its owner in exactly one way; limits hold; teardown leaves nothing and ends |
| goals (`goal/goal-round-driver` on `goal/goal`) | the folded goal and its activation; reserved attempt, coalesced requests | create, edit, pause, resume, block, complete, clear; drive, reserve, check, admit, retire | rounds run under a person's authority only; nobody's message goes down with a round; an armed goal advances |
| scheduled reminders (`schedule/schedule`) | changes in the session log; run, timer and idle wait of the live owner; a queue of transactions | create, list, delete; drive, dispatch, retire, dispose | a kill repeats a reminder but never loses one; answers survive; what is due is presented, on its grid and not early |
| subagents | a registry | spawn, continue | planned, see below |
| tools, LLM, prompts, hooks, shells, files, transports, clients | their own | environment of the above | outside this model |

How they interact: a client calls `send`, which splices the inbox (an append to
the session log, then notifications) and starts or latches the driver. The driver
appends `turn/start`, claims input, awaits the `agent/pre-step` hooks, appends
`step/start`, calls the model, hands the calls to the tool scheduler, and closes
step and turn in `finally` blocks. Every append reaches the persistence
coordinator's listener, which queues it in the session's write-behind; the
checkpoint policy calls `flush` at the boundaries where an effect must not precede
its record. After a kill the coordinator loads the stored prefix, closes the
interrupted turn and hands the log to a new agent.

What is hard here: listeners that re-enter between two statements, state
captured before a notification or an await and used after it, aborts racing
failures, ordered commits of unordered results, timers racing promise reactions,
failed batches merged back into a growing queue, kills during a repair. The list
with lines is under `hazards` in `PROJECT.json`.

## Modules and the code

| Module | Models | Kind |
|---|---|---|
| `SessionTrace` | `invariant.ts`: which event may follow which | operators on a small state, shared by the modules that keep a log |
| `AgentLoop` | `agent.ts`, the inbox, teardown in `index.ts` | state machine |
| `AgentLoopProofs` | theorems about `AgentLoop`: the driver and the log, messages, wakes, the ceiling | proofs |
| `ToolCalls` | `tool-calls.ts` | state machine |
| `ToolCallsProofs` | theorems about `ToolCalls` | proofs |
| `TurnRepair` | `repair.ts` | pure algorithm |
| `LogFold` | the loop of a fold over a log, and induction along a log | operators and lemmas, shared by the modules that fold a log |
| `SessionArtifact` | the file of a session as the JSONL backend writes, reads and cuts it (`session-persistence-jsonl`) | operators on a file |
| `CrashRecovery` | events of a turn, checkpoints, appends and their rollback, kills, `prepareCore`/`commitPrepared`, resume; composes `SessionArtifact`, `TurnRepair` and `SessionTrace` | state machine |
| `CrashRecoveryProofs` | theorems about `CrashRecovery` and the scan of `TurnRepair` | proofs |
| `DurableLog` | what persistence promises | abstract specification |
| `WriteBehind` | `write-behind.ts` and the coordinator around it; implements `DurableLog` | state machine with refinement mapping |
| `WriteBehindProofs` | theorems about `WriteBehind`, the refinement among them | proofs |
| `CompletionDelivery` | what the job registry and its reporter promise an owner | abstract specification |
| `Jobs` | `jobs-local`, the reporter of `tool-jobs`; implements `CompletionDelivery` | state machine with refinement mapping |
| `ExclusiveSession` | what the coordinator promises of one persisted log | abstract specification |
| `Preparations` | `preparations.ts` and the coordinator's calls on it; implements `ExclusiveSession` | state machine with refinement mapping |
| `PreparationsProofs` | theorems about `Preparations`, the refinement among them | proofs |
| `GoalRounds` | the round driver, on the goal service and one agent | state machine |
| `BackgroundProofs` | theorems about `Jobs`, the refinement among them, and about `GoalRounds` | proofs |
| `ScheduleLog` | the fold, id allocation and due decision of `schedule/src` | pure operators, no recursion operator |
| `Schedules` | `runtime.ts`, `tools.ts`, `transaction.ts`, `index.ts` of schedules, on one agent's log and clock | state machine |
| `SchedulesProofs` | theorems about `Schedules`: its queue, its log, what callers were told, wakes | proofs |
| `MCJobs`, `MCPreparations` | values of the constants for TLC | model checking |

Operators whose comment begins with *Fault:* are deliberate mistakes (a dropped
guard, a missing reset). No specification uses them; substituting one for the
definition that follows it must break a property, which shows that
the property can fail. `PROJECT.json` says which breaks which.

### AgentLoop

`phase` is `this.phase`; `phase.abort` is `"live"` or the first cancel cause,
because an `AbortController` keeps its first reason. `pc` is the place at which the
driver is suspended; the locals of `turn()` are `exit`, `turnEnds`, `target`
and `batch`. A step of the model is the code between two points where foreign
code may run. A client call suspended by a listener of its own notification is a
frame on `stack`: `SendFrame` between the splice and `wakeDriver`, `ClearFrame`
between the two splices of `inbox.clear`, `CancelFrame` between the second one and the
abort. `StartFrame` is a `wakeDriver` whose new driver has not come to its first
await: `kick` runs inside its caller up to there, past the listeners of the running
status, of `turn/start` and of the claim (`AtStart`, `Yields`); every other
continuation waits for an empty stack. Client calls nest up to `MaxDepth`. `replay` is
the window between publishing the idle phase and looking at the latch, in `kick` and
in `runMaintenance`.

The signal may fire after the code's last look at it, and there the model cuts too.
`ProposalDecided` is `preStep`'s last check; `"rejecting"`, `"emptied"` and
`"entering"` are the reaction in which `turn()` then acts on the decision, of which
only the last looks at the signal again. `"failing"` is the time in which `throwError`
emits `agent/error`: the catch has chosen the reason, and `turn/end` is appended
after the listeners, which may cancel. `EndingSettled` names these places, and
*AbortedTurnWindsDown* says that they are the only ones from which a turn whose signal
has fired ends with another reason than `aborted`: blocked, completed or error,
decided before the signal.

`Session.append` refuses to be re-entered, so listeners of an append itself cannot
send; those of the notifications after it (`agent/inbox/*`, `agent/status`) and
awaited hooks can. The model allows a send at the former place too, where it
coincides with the same send made just before the append. The splices of one claim
are taken together.

What a send is classified as before its insertion, and what a cancel does to a wake
latched while it cleared the inbox, are in the model as the code has them; no property
says which outcome is right, as nothing in the repository does (`PROJECT.json`,
hazards at `agent.ts:116` and `:137`).

`fate`, `claimedIn`, `fromQueue`, `owed`, `ceiling` and `trace` are history
variables: what notifications have said, who claimed a message, which
waking messages an activity put off, and what the log's rules have seen. `life`
is the progress of teardown.

The model exchange is one step with its outcomes: an answer, a max-tokens answer,
calls, or a throw (retries of a failed request are inside it). A
validator's veto of an append is not modelled.

### ToolCalls

One batch of `N` calls. `mode` is the current group's mode; every read of the
registry is a fresh choice, since tools may be registered or removed between two
reads. `stage` follows a call from `planned` through `preparing` (in `prepare`),
`running` (dispatched), `raw`/`final` (slot filled, with or without a pending
`finalize`) to `committed`, `failed` or `skipped`. The scheduler's awaits are
`prepare`, `commit` (finalize), `race` and `draining`.

### CrashRecovery and TurnRepair

`log` is the live session's list while `up`, else what the last load read; `synced`
counts the events an append has confirmed, `disk` is the session's file.
`SessionArtifact` has a file as lines that are whole or torn. `Landed` is what may have
arrived of an append that a kill or an error ends: a compressed append is one frame,
from whose torn end the reader still decodes complete lines, while a plain one tears
at a line. `Read` is `readPrefix`, `TornStart` the offset from which the file is torn
(`tornStart`, `committedBytes`), `Truncated` the cut.

`AppendLands` is an append that has not returned, and `RollBack` is `rollbackAppend`
after it failed: the file gets its former size back and the batch is retried. `Persist`
is one that succeeds, fsync included. A first batch is linked into place with its file,
so it is there whole or not at all (`Survivors`). After a kill the file is read as it
is; `CutTornTail` and `CommitRepair` are `commitRepair`, which cuts the torn tail and
appends what was read beyond the cut together with the closers; `RepairInterrupted` is
a kill before the cut, after it, or within that append. Nothing in these steps refers
to what is confirmed: that confirmed events stay (*ConfirmedIsForever*) follows from
where the code cuts. The checkpoint policy appears as the guards of `OpenStep`,
`Answer` and `Execute`. `executed` and `abandoned` are history: bodies that have begun,
and calls that a failing live step left without a result (a limitation the repository
documents). Calls are numbered in the order in which the model asks for them.

### WriteBehind and DurableLog

Fields keep their names. `active.stage` and `drain` follow the promise chains of
`startWrite` and `drainBarrier` reaction by reaction; timers wait for queued
reactions. The coordinator's part is `init`, `Fresh`, `Contiguous` and the callers'
progress in `flushes`. Initialization with a seed may happen inside the delivery
of an event (hot reload), so the newest seed event may be queued too.

`DurableLog` knows only emitted events, the stored prefix and pending flushes.
The refinement maps a caller that waits for initialization or the barrier to
`"waiting"` and leaves the rest as it is.

### Jobs and CompletionDelivery

`status`, `listed`, `reported`, `cleanups` and `awaited` are the fields of the
records and of the service; `work` is the producer behind a record (`"settled"`
is the time between its `done` promise and the registry's reaction, in which a
waiter may expire or abort). `wait` follows each call of `wait()`: `"expired"` and
`"released"` are the microtasks between the settling of its race and the return
of the call, in which the job may settle. The reporter's decision to announce is
part of `Settle`, as its listener runs inside it. `view` is what an observer of
`onJobsChanged` has last read; `notices`, `told`, `torn` and `orphans` are history.
A cancel that throws is a choice of `Kill`, `AgentDisposes` and `ServiceDisposes`.
`Start` is one step, so a producer's `run()`, which `start` calls between its look at
the limit (`jobs-local/src/index.ts:143`) and the store (`:176`), is taken to start no
job itself: one that did would have both admitted by the same count, and the limit in
*RegistryInv* is claimed without it.

`CompletionDelivery` has one stage per job: live, announced, owed to a waiting
caller, known, dropped by a teardown. `StageOf` maps the registry to it, with two
further values, `"lost"` and `"repeated"`, which the abstract specification lacks:
reaching one refutes the refinement. Its fairness (who is owed an end gets it) is
checked too.

### Preparations and ExclusiveSession

One session id. `pool` is the entry of that id; `chain` the per-id serialization
chain with the running operation in front and the await it is suspended at;
`call[c]` is where a call of the service stands, `tracked` the coordinator's
`SessionState`, `live` and `retiring` the Session that is published or retiring.
The log is counted: events of this process, of others, and whether a repair is
due. Evicting a ready entry, which the code does for the sake of other sessions,
may happen at any moment. The final drain is queued in the step of the disposal.
The revision check of a commit and its repair are one step: another process that
writes between them is outside what the package promises (it "does not add
cross-process writer exclusion").

`ExclusiveSession` says that a log is free, reserved, live or retiring, that it
passes from owner to owner through these in order, and that this process does not
write it while it is reserved. The refinement takes mode and owner from the pool's
phase, the tracked owner and the published Session; `stored.own` is the length.

### GoalRounds

`goal` is the folded goal with its activation, `attempt` and `driver` the driver's
state per agent (`heads`, `flushing` and `starting` count its runs at the head of
their loop, in a checkpoint, and started by a request but not yet entered). `agent`
abstracts `AgentLoop` to what the driver can see: where its turn is (`proposed`,
`checked` and `accepted` are the three stretches of the pre-step hook chain:
before the driver's listener, within the listeners it calls, and after it), the
claimed batch, abort and latch, and `due`, the rest of an interrupted synchronous
span. Human messages arrive by follow-up or as step input; round messages carry
identity, revision and number.

`fate` tells apart how a person's message may go: `"gone"` from the inbox, cleared by
a cancel; `"dropped"` with a proposal that a hook or a listener threw at or rejected,
or an abort ended; `"lost"` with a round which the driver itself rejected. The code
drops the former proposals whole, a person's step input claimed with the round
included (`index.ts:375-399`: "a throwing downstream hook drops the whole step
proposal"); what *RoundsInv* forbids is the last, for which `restoreOtherClaimed` is
there ("preserve claimed step context when this driver drops only its own round").

Choices: one agent's life, so no session start and no disposal of the agent; a
`followup` that throws is the failure that blocks the goal, a `goals.block` that throws
leaves it to be disarmed (in a run) or fails the turn (in the pre-step listener);
listeners that rewrite a proposal to nothing are not modelled. A rejection which a
cancel overtakes after `preStep`'s last look at the signal ends its turn as blocked,
which the driver ignores: it is the model's cancel between the end of the turn and the
agent's retirement.

While modelling it we met behaviour that the properties allow for, and that a
reader of the driver should know: (a) listeners outside the driver's may await
after it has decided, and a goal edited, paused or cleared there is overtaken: the
round enters the log, the strict fold refuses it, and the goal is unusable from
then on (`overtaken`, `corrupt`); (b) the agent's status is idle in maintenance
too, so a round may be queued there; cancelled there, its attempt waits for the
next idle event, and the goal neither pauses nor advances until then (excluded
from `Waiting`); (c) a request made inside the synchronous part of a run starts a
second run, because the first is not known yet; (d) `competingQueued` is set when
somebody's prompt enters the queue and reset by the next idle status only
(`index.ts:259-262`), not when the prompt is cancelled or withdrawn; one cancelled
during maintenance, which ends without a status event, leaves it set with nothing
queued, and an armed goal stands still until the agent has been busy once more.
`Waiting` excludes what the driver believes (the flag), not actual competing work, so
*GoalAdvances* does not speak of that standstill. All four are modelled.

### Schedules and ScheduleLog

`log` holds the schedule changes and the insertions of follow-ups (with the
occurrences their text presents), `stored` how much of it a flush has confirmed.
`rt` is `ScheduleRuntime`: `requested`, `timer`, `faulted` are its fields, `run`
where its run is, `idle` its idle wait; `rt.fifo` is the chain of
`runScheduleTransaction`, which calls and drives share. The maintenance task runs
in one span inside `Maintains`, but the clock is read anew there (`Task`);
`Releases` is `runMaintenance`'s `finally`. A call is made within a turn, which
then waits for it. A rejected flush, a cancelled call, an append that throws, a
clock set back, a cancel of the queue, the departure of the agent and a kill each
use up `MaxTrouble`. `Leaves` keeps the confirmed events and any prefix of the rest;
`Resumes` starts a new owner on it.

`ScheduleLog` computes the strict fold by the loop of `LogFold`. Instants are numbers
up to `Horizon`, the last representable one, and ids are numbers in the order of
their allocation. Parsing and time zones (which end in one instant), the decoding of
changes and the texts are left out.

`told` and `repeatable` are history: what callers know, and the occurrences whose
message a kill kept and whose dispatch it lost. `rt.aside` says that the last drive
met a failure, which the package answers with nothing until the next activity.
Not modelled: a `withoutInitiator` that throws, and an idle wait that is rejected
(`activityDone` rejects only if a listener's failure escapes the driver). The branch
for a corrupt log is unreachable as long as `LogFolds` holds of this process's
appends, which is what the run shows.

## Runs

| Run | Question | Bounds | Distinct states |
|---|---|---|---|
| `agent_loop` | do clients, listeners, aborts and failures keep the log legal, the messages in their places and the driver unique; does the agent converge to idle? | 2 messages, 2 causes besides disposal, 2 continuation steps, depth 3 | 351 099 |
| `disposal_latches`, `completed_parks_followup` | comments the code contradicts, see below | 2 messages | violated |
| `tool_calls` | scheduling, ordering, abort and failure of a batch; does it end? | 4 calls, pool of 2 | 12 879 |
| `write_behind` | prefix, loss, durability, stranding, overlap; is each flush answered, everything written; does it implement `DurableLog`? | 3 events (1 seed), 2 callers, 2 failures | 13 127 |
| `crash_recovery` | legality, answers, effects, confirmed events and numbering across torn appends, rollbacks and kills; does a killed session come back? | compressed file, 2 turns of 1 step, 2 calls, 2 kills | 85 859 |
| `jobs` | does each completion reach its owner in one way, the registry stay consistent, each teardown end? | 2 jobs of one owner and 1 unowned, 1 wait, limit 1 | 60 561 |
| `preparations` | one holder, held Session durable, one owner of the log, every call answered; does it implement `ExclusiveSession`? | a resume, a reader of any kind, an appender; 5 entries, 3 own events, 1 foreign write, eviction or failure | 273 419 |
| `repair_leaves_cursor` | a comment the code contradicts, see below | two appenders and a load | violated |
| `goal_rounds` | do rounds start under authority only, spare other messages when the driver rejects one, and go on? | 1 human message, 2 rounds, 2 mutations, 2 cancels or failures, 4 identities | 866 622 |
| `schedules` | do drives and calls exclude one another, do answers survive, does the log always fold, and is no reminder lost, repeated, early, off its grid or without a wake? | 1 caller, 2 reminders, 4 instants, one-shot at 2, interval 2, 1 turn, 1 trouble | 882 223 |
| `schedules_liveness` | are reminders presented, do calls return and disposals end? | 1 caller, 1 reminder, delay 1 or interval 1, 3 instants, 2 turns, 1 trouble | 91 928 |

Why the bounds are enough for the cases that matter: two messages give a claimed or
queued one and one arriving meanwhile; depth 3 gives a call made by a listener of a
listener's call; a cause besides disposal is enough to have a first reason that is not
the later one. Four calls with a pool of two give an exclusive call between parallel
ones and a full pool with a call waiting. Three events with two failures give a
retained batch, a newer event behind it and a second failure. Two kills are a kill of
a run and a kill of its repair; `crash_recovery` was also run clean with a plain file
(63 081 states), and with two steps to a turn under one kill (483 530 states), which
adds a step behind a failed one. Continuation steps are bounded by `MaxSteps` only
when no client adds input. `agent_loop` was also run clean with three messages, one
cause, one continuation step and depth 2 (4.1 million states), which adds a queued
message behind a claimed one and a third; its safety is proved for any number. Two
jobs of an owner under a limit of one give a job refused beside a killed one that
still runs; one wait gives an end that a caller takes or lets go, and `jobs` was also
run clean with two, one of which expires beside one that is released (360 639 states).
Three calls give a holder, a waiter and somebody who invalidates the entry of both,
and a wait or commit begun before a reservation outlives it; five entry identities are
never used up (`CallsReturn` would fail). Two rounds and two mutations give an attempt
that is stale when checked and a goal at its limit; four identities are never used up
(no reachable state has all of them on their way). `goal_rounds` was also run clean
with two human messages and with three mutations, each with one cancel or failure (3.8
and 2.0 million states). Two reminders give a one-shot and a repeated one due
together, and a batch. Instants are 1 to `Horizon`: in `schedules` a repeated reminder
has one occurrence within the horizon, decided at its instant or late and off the
grid, and ends there; in `schedules_liveness`, with interval 1, it is re-targeted, or
misses an occurrence. The run whose repeated reminders are re-targeted after a missed
occurrence as well has `Horizon` 5 (2.7 million states, clean; it takes too long to be
repeated each time), and `RemindersAreKept` and `NothingIsEarly` hold for every
horizon. A trouble is a barrier that fails, a torn append, a clock set back, a
departure, a cancelled call or a kill. `schedules` was also run clean with two
troubles, so that a kill undoes the change whose barrier failed, at these bounds (4.3
million states), with one reminder and both delays and intervals (1.2 million), and
with two callers and one reminder (1.3 million). Two turns give a turn the owner waits
for and one that begins while it does.

Deadlock checking is off everywhere: each of these systems may come to rest (an
idle or disposed agent with no message left, a finished batch, a drained queue, a
session whose bounded turns are used up).

The properties, by hazard. Agent: *DriverInv* (one driver, and log and driver
agree), *MessagesKept* (places, claims, one prompt per turn), *RestingOwesNothing*,
*Converges* (wakes), *AbortedTurnWindsDown*, *CeilingIsReported* (endings). Tools:
*SchedulerInv* (bounded pool, nothing in flight forgotten, exclusive calls alone),
*ResultsInOrder*, *ReturnsAllAnswered*, *ThrowsQuiescent*, *NothingStartsLate*,
*Settles*, *LogLegal*. Durability: *ControllerInv* (the stored log is a prefix,
nothing lost, nothing stranded), *WritesNeverOverlap*, *FlushSettles*,
*EventuallyDurable*, *ImplementsDurableLog*. Kills: *LogLegal*, *EveryCallAnswered*, *EffectsAreTold*,
*ResumesBalanced*, *ConfirmedIsForever*, *Recovers*. Jobs: *RegistryInv*,
*ImplementsCompletionDelivery*, *TeardownEnds*. Preparations: *PreparationInv*
(one holder, nobody stranded, held is durable, live owns),
*ImplementsExclusiveSession*, *CallsReturn*. Goals: *RoundsInv* (no request lost,
others put back when the driver rejects its round, rounds counted), *RoundsUnderAuthority*, *GoalAdvances*. Reminders:
*QueueInv*, *ActsOnDurable*, *AnswersSurvive* (calls and drives), *ReminderInv* (the
log folds, kills and torn appends repeat no more than they must, occurrences stay on
their grid, nothing is left without a wake), *NeverEarly* (time),
*RemindersAreDelivered*, *WaitsEnd* (progress). Each is stated
in words where it is defined; the conjunctions are of named parts with comments
of their own, and several faults are substituted to break different parts of one
(`PROJECT.json`, "mutants").

## Fairness

Weak fairness of the program's own code, and strong fairness once:

- `AgentLoop`: the driver, suspended calls and maintenance go on. Code on the
  JavaScript stack finishes, awaited promises settle (an aborted signal settles
  model, tools and hooks too). Clients owe nothing, not even another wake.
- `ToolCalls`: hooks settle, and each dispatched call settles, by itself or on the
  signal.
- `WriteBehind`: promise reactions run, an armed timer fires, initialization and
  backend calls settle. No event and no flush need ever come.
- `Jobs`: a cancelled producer settles in the end, reactions run, deadlines fire,
  expired and released waits return, a teardown whose jobs are over goes on. A
  producer nobody cancels may run for ever.
- `Preparations`: the backend answers, continuations run, and whoever holds a
  preparation publishes or releases it. Nobody has to call, abort or dispose.
- `GoalRounds`: checkpoints, hooks, steps and maintenance settle, and continuations
  run. People and tools owe nothing.
- `Schedules`: flushes settle, reactions and timers run, the clock goes on, and turns
  and other maintenance end while the owner is live; not once it is stopping, since
  its disposal may not count on them. The end of turns needs strong fairness: a turn
  is kept from ending by a call, and calls come and go in it. Nobody has to call,
  prompt or resume.
- `CrashRecovery`: somebody loads the session again. That kills end is the bound
  `MaxCrashes`.

## Proofs

`AgentLoopProofs` proves, for every set of messages and causes and every value of
the bounds:

| Theorem | States |
|---|---|
| `TypeCorrect` | `Spec => []TypeOK` |
| `LogAlwaysLegal` | `Spec => []LogLegal` |
| `RestingBalanced` | `Spec => []RestingLogBalanced` |
| `LogAlwaysFollowsDriver` | `Spec => []LogFollowsDriver` |
| `AlwaysOneDriver` | `Spec => []OneDriver` |
| `DriverInvariant` | `Spec => []DriverInv` |
| `AbortedTurnsWindDown` | `Spec => AbortedTurnWindsDown` |

Assumptions: `CausesAreCauses` (neither "live" nor "disposed" is a client's cancel
cause) and `BoundsArePositive`. TLC evaluates both in each run.

The inductive invariant is

    DriverInv == TypeOK /\ LogLegal /\ LogFollowsDriver /\ OneDriver

`LogLegal` alone is not inductive: whether `turn/start` is legal depends on
what is open, which depends on where the driver is. `LogFollowsDriver`
ties each suspension point to what the log has open (`NothingOpen`, `TurnOpen`,
`StepOpen`), and it survives client steps only because they cannot touch a driver
(`OneDriver`: with a driver suspended the phase is running, so neither
`StartDriver` nor maintenance applies). It is an invariant of run `agent_loop`, so
TLC checks the inductive invariant as well.

The argument has three layers. Lemmas `Observe...` compute what each event does to
a trace; lemmas `TurnStartOpens`, `TurnEndCloses` and so on lift them to the three
states of the log. `TypeStep` and `DriverStep` then go through `Next` action by
action; client actions share `FlagsMove`, `AbortMoves` and `LatchMoves`, which say
that changing abort, latch or inbox leaves the log's relation to the driver alone.
The remaining theorems follow from the invariant, the action property from it
together with `WindDownStep`, which goes through the places at which the code looks at
its signal and the three (`EndingSettled`) at which it has looked for the last time.

`ToolCallsProofs` proves, for every number of calls and every positive pool size:

| Theorem | States |
|---|---|
| `SchedulerTypes` | `Spec => []TypeOK` |
| `PoolIsBounded` | `Spec => []PoolBounded` |
| `ExclusiveRunsAlone` | `Spec => []ExclusiveIsBarrier` |
| `ResultsAreOrdered` | `Spec => []ResultsInOrder` |
| `ThrowsAreQuiescent` | `Spec => []ThrowsQuiescent` |
| `NoLateStart` | `Spec => NothingStartsLate` |
| `SchedulerInvariant` | `Spec => []SchedulerInv` |
| `BatchLogIsLegal` | `Spec => []LogLegal` |
| `AllAnswered` | `Spec => []ReturnsAllAnswered` |

Assumptions: `CallsAreCounted` (a natural number of calls) and `PoolIsPositive`.
Its inductive invariant is

    SchedulerInv == TypeOK /\ Window /\ Flight /\ GroupDone /\ FailureKnown /\ Barrier

`PoolBounded` speaks of calls being prepared or running, the code's guard of the
size of `inFlight`; `Flight` connects them. That a group which ends has committed
all it started (`GroupDone`) needs the four blocks into which `committed` and
`nextToStart` divide the calls (`Window`) and that a call which failed is a
failure of the scheduler (`FailureKnown`): otherwise a failed call would leave a
gap. `Barrier` holds because an exclusive call is started only by `Classify`,
where nothing is in flight, and because `MayFill` adds to parallel groups only.
TLC checked the same conjuncts over the states of run `tool_calls`. `LogLegal` is
inductive beside it: what the log's rules hold outstanding are exactly the calls the
scheduler has yet to answer, and a batch that returns has none.

About messages it proves, for the same constants:

| Theorem | States |
|---|---|
| `AllAccounted` | `Spec => []Accounted` |
| `ClaimsBelong` | `Spec => []ClaimBelongsToOpenTurn` |
| `OnePrompt` | `Spec => []OnePromptPerTurn` |
| `MessagesAreKept` | `Spec => []MessagesKept` |
| `CeilingReported` | `Spec => []CeilingIsReported` |
| `RestingOwes` | `Spec => []RestingOwesNothing` |
| `MessagesInvariant` | `Spec => []MessageInv` |

Three inductive invariants, each with its own walk through `Next`. `MessageInv`
ties a message's fate to the list it is in, which needs that the lists repeat and
share nothing (`Apart`) and that a batch exists during a proposal only (`Held`); one
prompt per turn needs `Prompts`: until a turn has claimed its own, every queued
prompt so far belongs to an earlier turn. Lemmas say once what queueing, clearing,
withdrawing, claiming and deciding do to it, on lemmas about sequences without
repetition. `WakeInv` says that whatever is owed is pending and has a latch or a
replay standing for it, that a running driver owes only what came after its abort
(so that a proposal never takes an owed message), and that a send suspended by its
listeners, if it was classified as coming after an abort, still does. `CeilingInv`
keeps the ceiling in `turnEnds` from the step that hit it to the turn's end.

`WriteBehindProofs` proves, for any callers, seed, number of events and failures:

| Theorem | States |
|---|---|
| `ControllerCorrect` | `Spec => []ControllerInv` |
| `WritesAreSerial` | `Spec => WritesNeverOverlap` |
| `DurableLogImplemented` | `Spec => ImplementsDurableLog` |

Assumption: `BoundsAreNaturals`. The inductive invariant is

    Core == TypeOK /\ QueuesAreRuns /\ OneWriter /\ Continued /\ BarriersHold /\ StoredIsPrefix

and `NothingLost` and `NothingStranded` follow from it. `QueuesAreRuns` says that the batch
and the queue are consecutive runs of the log which end where it ends; with it a write
continues the stored log exactly whatever the batch and the log share (lemma
`FreshContinues`), which is what `StoredIsPrefix` rests on. `Continued` gives each
continuation of a settled write its state, `BarriersHold` each waiting flush an active
controller. The refinement reads `DurableLog`'s variables off the fields; every action
but an emission, a flush, a write that grows the stored log and a settled flush is a
stutter.

`CrashRecoveryProofs` proves, for any finite set of calls and any number of turns,
steps and kills:

| Theorem | States |
|---|---|
| `RecoveryCorrect` | `Spec => []RecoveryInv` |
| `EveryLogIsLegal` | `Spec => []LogLegal` |
| `CallsAreAnsweredOnce` | `Spec => []EveryCallAnswered` |
| `EffectsAreRecorded` | `Spec => []EffectsAreTold` |
| `LoadsBalanced` | `Spec => ResumesBalanced` |
| `ConfirmedEventsStay` | `Spec => ConfirmedIsForever` |

Assumption: `BoundsArePositive`. The inductive invariant is

    RecoveryInv == /\ TypeOK
                   /\ FileInv
                   /\ PrefixesGood(log, abandoned)
                   /\ Told(log, synced, executed)
                   /\ IF up THEN Follows(log, todo, lastTurn) ELSE todo = <<>>

`FileInv` ties the file to the log: its lines are the beginning of the log, with perhaps
a fragment at the end, and whole as far as events are confirmed; with no append under
way in a live process they are the confirmed ones; after a kill the log is what a torn
file reads as, or what is left of the file with what was `recovered` from beyond the cut.
`ConfirmedEventsStay` follows from it and from lemmas about `SessionArtifact`: what has
arrived of an append reads as a beginning of the batch, and a cut at `TornStart` takes
no line before the first torn one. The proof
covers compressed and plain files (`Framed`).

A kill may leave any prefix of the log, and a repair that is cut short any prefix of a
repaired one, so the property must hold of every prefix: `PrefixesGood` says of each
that it is legal, that the rules of `SessionTrace` and the scan of `TurnRepair` find
the same open turn, step and calls in it, and that its closers would complete it. `Told`
is what the log says of effects; `Follows` ties what the live agent still owes to the
calls the scan reports as open. Legality of the closers is not assumed: lemmas follow
them event by event (each pending call gets its result, then the step and the turn
end) from any log on which rules and scan agree.

Rules and scan are loops over the log. `LogFold` states such a loop once, over any
initial value and step, and proves that the loop of a log with one more event is one
more step (`FoldAppend`) and that what holds of the empty log and of each log with one
more event holds of all (`PrefixInduction`). It derives these from the least element
of a non-empty set of natural numbers, since the library's induction theorems take an
operator as a parameter.

`BackgroundProofs` holds the theorems about the two components that set an agent to work
with no person asking; they share no state. (The specification of `Jobs` is named
`JobsSpec`, its type invariant `JobsTypeOK`, so that one module can extend both.) It
proves, for any number of jobs, owners and concurrent waits:

| Theorem | States |
|---|---|
| `RegistryInvariant` | `JobsSpec => []RegistryInv` |
| `DeliversCompletions` | `JobsSpec => CD!Safety` |

`RegistryInv` is inductive as it stands: `Bookkeeping` and `Reporting` are the
strengthenings, the first for what teardowns leave, the second for who still owes
a report. `DeliversCompletions` is the step simulation: every step of the registry
moves one job's stage, drops the live jobs of a teardown, or stutters. Assumption:
`JobsAssumption`.

For any messages, identities, limits, mutations, cancels and failures it proves of the
goal rounds:

| Theorem | States |
|---|---|
| `RoundsKept` | `Spec => []RoundsInv` |
| `AuthorityIsKept` | `Spec => RoundsUnderAuthority` |

by the inductive invariant

    RoundsIInv == /\ TypeOK /\ RequestsServed /\ ClaimsHeld /\ NumberInv
                  /\ HaltHolds /\ AcceptedIsNext

`RoundsInv` says what a request, a message and the count of rounds must not lose; none
of it is inductive alone. A request is safe while some run of the driver has yet to look
at it, and holds further requests off only as long (`RequestsServed`). A person's message
is safe while whoever claimed it is still proposing it, and a proposal carries at most
one round, so what the driver puts back on a refusal is all but that one
(`ClaimsHeld`). Numbers need every round on its way, in the proposal and in the queue
behind it: none is ahead of the log or past the limit, the attempt is the latest of its
revision and its identity is its own, so an admitted attempt is what the fold
counted (`NumberInv`). Authority needs the two ways in which a round that was cancelled
is still on its way out (`HaltHolds`): its turn is aborted and has not ended, or has
ended and the idle event that pauses the goal is due. What the driver's last check
establishes outlasts the listeners that called it unless a mutation overtakes it
or an abort ends the proposal (`AcceptedIsNext`). One lemma per action keeps each part;
`OnlyRunsReserve` shows that no other step reserves, `AbortedEntersNothing` that an
aborted proposal enters no step. Assumption: `GoalRoundsAssumption` (people's messages are no
rounds, `NoAttempt` is no attempt); a reservation takes an identity that no round on
its way has, as `createUserMessage` makes a new one.

`PreparationsProofs` proves, for any number of calls of any kinds and any bounds:

| Theorem | States |
|---|---|
| `PreparationsSafe` | `Spec => []PreparationInv` |
| `OwnershipExclusive` | `Spec => ImplementsExclusiveSession` |

Assumption: `PreparationsAssumption` (distinct identities; `Unheld` lets an entry be
made only under an identity nobody holds, as the code makes a new object).
`PreparationInv` speaks of the pool and of calls; what keeps it is mostly in the chain.
The inductive invariant is

    PoolInv == /\ Typed /\ Serial /\ Once /\ PoolFollowsChain /\ CommitsFollowPool
               /\ Held /\ Joined /\ Committed /\ UnderWay /\ LiveOwns

`Serial` and `Once`: only the operation in front is under way, an entry is loaded
once, a call commits once, a retirement is queued once. `PoolFollowsChain`: an entry
that loads has its read in the chain, one that is ready has not. `CommitsFollowPool`:
a queued commit belongs to a call that waits for it, or was abandoned; when it runs
after the load of the pool's entry, it is a commit of that very entry (a commit left
over from an invalidated entry runs before that load). `Held`, `Joined` and
`Committed` say who has an entry, who awaits it, and that what a call has committed is
the log; `UnderWay` that an append which has passed `assertWritable` excludes a
committed holder, and a commit that has started excludes a live owner.

Two lemmas carry most actions: `GivesUp` (calls end, wait or start again, and the
entry stays with its holder, is returned, or goes) and `Advances` (the one call that
commits an entry moves on). `NewEntry`, `TakesEntry`, `LoadRuns`, `Publish` and
`Dispose` have proofs of their own. The refinement reads the abstract state off who
holds, who is live and who owns the tracked state (`View`); steps that change none of
these and do not write are stutters (`Unseen`).

`SchedulesProofs` proves, for any callers, reminders, instants and bounds:

| Theorem | States |
|---|---|
| `TransactionsExclude` | `Spec => []QueueInv` |
| `OwnerActsOnDurable` | `Spec => ActsOnDurable` |
| `RemindersAreKept` | `Spec => []ReminderInv` |
| `AnswersAreKept` | `Spec => []AnswersSurvive` |
| `NothingIsEarly` | `Spec => NeverEarly` |

Assumptions: `SchedulesAssumption` and `ScheduleLogAssumption`. The inductive
invariant of the first two is

    QueueIInv == QueueInv /\ IsSequence(log) /\ DownIsEmpty

where `QueueInv` says that a transaction under way is in the queue once, that the one
which runs is its head, and that a flush under way covers the whole log.
`DownIsEmpty` is needed for `Resumes`, which lets a new owner join. Lemmas `Joined` and
`Departed` say what the ends of a queue without repetition do; on them `OwnerJoins`,
`RequestKeeps`, `OwnerLeaves`, `CallJoins`, `CallMoves` and `CallLeaves` carry the
relation `InPlace` of runtime and calls through each action. Since whoever appends is
the head, the length a flush was asked for is still the log's when it settles, and
`stored` reaches it in every step that presents a reminder or tells a caller.

The contents of the log are the subject of `RemindersAreKept`, `AnswersAreKept` and
`NothingIsEarly`. Their inductive invariant is

    ReminderIInv == LogIInv /\ AwakeInv
    LogIInv == /\ QueueIInv
               /\ GoodLog(log, repeatable) /\ Owing(rt, log, repeatable) /\ FaultStops(rt)
               /\ AllInOrder(calls, Fold(log)) /\ Answers(log, stored, told)
    AwakeInv == life = "live" => Awake(rt, Active(log))

`GoodLog` says of every event of the log that it may follow what precedes it: a change
is acceptable to the fold, a dispatch follows the message that presented its
occurrence, a message presents occurrences of the grid, each later than its reminder's
earlier ones unless a kill lost the dispatch. It is about prefixes because a kill leaves one, which is therefore
good as well. A drive appends its messages before the dispatch, so between them
something is owed; `Owing` says that this outlasts a drive only when an append failed,
and `FaultStops` that such an owner drives no more. `CallInOrder` ties a call's pc to
the log: before its append it asks for what its tool allows, after it the change shows.
`Answers` reads what callers were told off the stored prefix, which a kill leaves and
later appends only extend. `Awake` says for every pc of the runtime who sets the next
timer or has noted a trigger. What the fold does is taken from `LogFold`; that a sequence
of changes stays foldable (`WellFolded`, `Rooted`) is a consequence of `GoodLog`, by
`PrefixInduction`.

Every safety invariant and action property of the passing runs is a theorem. Out of the
prover's reach and left to TLC: all liveness (it needs ENABLED): `Converges`, `Settles`, `FlushSettles`, `EventuallyDurable`, `Recovers`,
`TeardownEnds` and the fairness of `CompletionDelivery`, `CallsReturn`, `GoalAdvances`,
`RemindersAreDelivered`, `WaitsEnd`.

## Where code and comments disagree

1. `agent.ts:174-176` says that disposal never latches. The code looks at the abort
   *reason*, and a cancel that came first keeps its own. Run `disposal_latches`:
   maintenance, a user cancel, disposal, a waking send: the send latches, and
   teardown's `whenIdle` waits for the replayed turn.
2. `agent.ts:175` says that live drivers claim queued work themselves. Run
   `completed_parks_followup`: a completed turn whose first proposal is empty
   returns before `hasPending` is consulted; a second follow-up stays parked.
3. `coordinator.ts:220` says of a tracked cursor that it is the stored log length,
   and the package's README that an append's first sequence number must equal the
   stored next one. Run `repair_leaves_cursor`: an append leaves an open turn and a
   tracked state; a load repairs the turn, which makes closers durable, and does
   not tell the state; the next append is checked against the length before the
   repair and accepted at a sequence number that is taken.

Neither of the first two loses a message: it stays queued until the next wake.

## What is not modelled

- Inbox `prepend` and `replace`, and the rebuild of the lists from the log.
- The gap named in the hazards between `turn()`'s last look at the queue
  and `kick`'s `finally` is in the model but no property forbids what it allows.
- Vetoed appends, the surface and compaction rules of the log, and the
  contents of events.
- Creation, forks, listing, `readFrom`, deletion and hot-reload adoption of a
  persisted session; several sessions at once (they share only the pool's size and
  the backend).
- Time zones and calendar parsing of reminders, the decoding of their changes, and the
  seed boundary of a fork.
- The reporter's wake budget, job controllers and the tools' presentation; the
  strict fold's decoding, the goal's command and tool with its authority checks.
- Encoding and compression, so a corrupt (rather than torn) artifact; that one append of
  many events is packed into several chunks.
- Power loss: a kill is the death of the process, and blocks reach the disk in the order
  in which they were written. A rollback that fails itself, a directory whose fsync
  fails after the file of a first batch is linked, and the repair of a hot reload that
  only cuts.
- Everything `PROJECT.json` lists as `not_modelled`, with its reason.

## Plan

Done: the driver with its inbox, the tool scheduler, the write-behind with its
abstract specification, crash recovery, the job registry with its abstract
specification, the preparations with theirs, goal rounds, scheduled reminders;
theorems about all of these.

Next, in order of importance:

1. `Inbox`: splices with positions, replace, prepend, the durable event before the
   list changes, replay of the log to the same lists; `ConsumedWork` as a fold over
   that log, compared with the fate of the messages.
2. `MessageDelivery`: an abstract specification of what a client of an agent is
   promised (queued, then delivered, dropped or canceled, once), implemented by
   `AgentLoop`.
3. Agent creation, resume and ownership hand-over in `agent-loop/src/index.ts`.
4. Subagents: settlement and continuation of a child's run.

Theorems to add: those of the modules above.
