--------------------------- MODULE CrashRecovery ---------------------------
(***************************************************************************)
(* A persisted session that may be killed at any moment: the events the      *)
(* agent appends (core/agent-loop/src/agent.ts and tool-calls.ts), the       *)
(* checkpoints that make them durable before a tool runs                     *)
(* (session-checkpoint-policy), and the repair that closes the interrupted   *)
(* turn when the log is loaded again (session-persistence's coordinator and  *)
(* TurnRepair), over the file the JSONL backend keeps (SessionArtifact).     *)
(*                                                                          *)
(* An append that a kill or an error ends may leave a torn file: a live      *)
(* backend restores the size it had, a later load cuts it and writes what it *)
(* read beyond the cut again, with the closers.                              *)
(***************************************************************************)
EXTENDS Naturals, Sequences, FiniteSets, SequencesExt, SessionTrace, TurnRepair,
        SessionArtifact

CONSTANTS
    Calls,                \* tool calls the model may ask for, 1..n, each once
    MaxTurns, MaxSteps,   \* bounds: turns in all, steps of a turn
    MaxCrashes            \* bound: kills, during a run or during a repair

ASSUME BoundsArePositive ==
    /\ MaxTurns \in Nat \ {0}
    /\ MaxSteps \in Nat \ {0}
    /\ MaxCrashes \in Nat
    /\ Calls \subseteq Nat /\ IsFiniteSet(Calls)

VARIABLES
    up,                   \* a process holds the session
    log,                  \* the live session's events; while down, what was read
    disk,                 \* the session's file
    rollback,             \* the size a failed append restores, or none
    recovered,            \* read beyond the cut, to be written again
    synced,               \* how many events an append has confirmed
    lastTurn,             \* the live agent's phase.turn
    todo,                 \* asked for, not yet started, in the model's order
    executed,             \* calls whose tool body has begun, ever
    abandoned,            \* calls a failed live step left without a result
    crashes

file == <<disk, rollback, recovered>>
vars == <<up, log, disk, rollback, recovered, synced, lastTurn, todo, executed, abandoned,
          crashes>>

\* What the session's rules say of the log: replay from the seed.
Checking == INSTANCE LogFold WITH Fresh <- FreshTrace, Step <- Observe

Rules(events) == Checking!Fold(events)
Trace == Rules(log)

AskedIn(events)    == UNION {Range(events[i].calls) : i \in
                         {j \in DOMAIN events : events[j].type = "assistant/message"}}
Recorded(events, call) ==
    \E i \in DOMAIN events : events[i] = ToolCall(events[i].turn, events[i].step, call)
IsResultOf(e, call) ==
    e.type \in {"tool/result", "tool/not-started"} /\ Head(e.calls) = call

\* Calls of the open step without a result, in the model's order; the recorded
\* ones may run.
Pending == Scan(log).pendingCalls
Running(i) == i \in DOMAIN Pending /\ Pending[i].state = "recorded"

Init ==
    /\ up = TRUE
    /\ log = <<>> /\ synced = 0
    /\ disk = <<>> /\ rollback = {} /\ recovered = <<>>
    /\ lastTurn = 0
    /\ todo = <<>>
    /\ executed = {} /\ abandoned = {}
    /\ crashes = 0

Append1(e) == log' = Append(log, e)

-----------------------------------------------------------------------------
(* The live agent. *)

OpenTurn ==
    /\ up
    /\ Trace.openTurn = 0
    /\ lastTurn < MaxTurns
    /\ Append1(TurnStart(lastTurn + 1))
    /\ lastTurn' = lastTurn + 1
    /\ UNCHANGED <<up, file, synced, todo, executed, abandoned, crashes>>

\* The pre-step checkpoint confirms the previous step before the next opens.
OpenStep ==
    /\ up
    /\ Trace.openTurn # 0 /\ Trace.openStep = 0
    /\ synced = Len(log)
    /\ Trace.nextStep <= MaxSteps
    /\ Append1(StepStart(lastTurn, Trace.nextStep))
    /\ UNCHANGED <<up, file, synced, lastTurn, todo, executed, abandoned, crashes>>

\* The answer of the open step: one message, asking for some calls.  The model
\* is asked once the checkpoint has confirmed the request.
Answer(calls) ==
    /\ up
    /\ log # <<>> /\ Last(log).type = "step/start"
    /\ synced = Len(log)
    /\ Append1(AssistantMessage(lastTurn, Trace.openStep, calls))
    /\ todo' = calls
    /\ UNCHANGED <<up, file, synced, lastTurn, executed, abandoned, crashes>>

\* appendToolCall: calls start in the model's order.
RecordCall ==
    /\ up
    /\ todo # <<>>
    /\ Append1(ToolCall(lastTurn, Trace.openStep, Head(todo)))
    /\ todo' = Tail(todo)
    /\ UNCHANGED <<up, file, synced, lastTurn, executed, abandoned, crashes>>

\* Fault: the tool body runs before its checkpoint.
ExecuteUnconfirmed(call) ==
    /\ up
    /\ \E i \in DOMAIN Pending : Running(i) /\ Pending[i].call = call
    /\ call \notin executed
    /\ executed' = executed \cup {call}
    /\ UNCHANGED <<up, file, log, synced, lastTurn, todo, abandoned, crashes>>

\* The tool body runs once the checkpoint has confirmed everything appended
\* when the call was dispatched, its own tool/call with it.
Execute(call) ==
    /\ up
    /\ \E i \in DOMAIN Pending : Running(i) /\ Pending[i].call = call
    /\ call \notin executed
    /\ Recorded(SubSeq(log, 1, synced), call)
    /\ executed' = executed \cup {call}
    /\ UNCHANGED <<up, file, log, synced, lastTurn, todo, abandoned, crashes>>

\* Results are committed in the model's order.  The call may have run, been
\* refused, failed its checkpoint or been skipped by an abort.
CommitResult ==
    /\ up
    /\ \E i \in DOMAIN Pending :
          /\ Running(i) /\ \A j \in 1..(i - 1) : ~Running(j)
          /\ Append1(ToolResult(lastTurn, Trace.openStep, Pending[i].call))
    /\ UNCHANGED <<up, file, synced, lastTurn, todo, executed, abandoned, crashes>>

\* The step ends with every call answered, or fails and leaves some unanswered.
CloseStep ==
    /\ up
    /\ Trace.openStep # 0
    /\ Append1(StepEnd(lastTurn, Trace.openStep))
    /\ abandoned' = abandoned \cup {p.call : p \in Range(Pending)}
    /\ todo' = <<>>
    /\ UNCHANGED <<up, file, synced, lastTurn, executed, crashes>>

CloseTurn ==
    /\ up
    /\ Trace.openTurn # 0 /\ Trace.openStep = 0
    /\ Append1(TurnEnd(lastTurn))
    /\ UNCHANGED <<up, file, synced, lastTurn, todo, executed, abandoned, crashes>>

-----------------------------------------------------------------------------
(* Durability, kills and recovery. *)

Unconfirmed == SubSeq(log, synced + 1, Len(log))

\* A checkpoint or a write-behind window: one append and its fsync confirm what the
\* log holds.
Persist ==
    /\ up
    /\ rollback = {} /\ synced < Len(log)
    /\ disk' = disk \o Written(Unconfirmed)
    /\ synced' = Len(log)
    /\ UNCHANGED <<up, log, rollback, recovered, lastTurn, todo, executed, abandoned, crashes>>

\* Something of an append to an existing file has arrived, not all of it for certain.
\* (A first batch comes with its file or not at all.)
AppendLands ==
    /\ up
    /\ rollback = {} /\ synced < Len(log) /\ disk # <<>>
    /\ \E landed \in Landed(Unconfirmed) : disk' = disk \o landed
    /\ rollback' = {Len(disk)}
    /\ UNCHANGED <<up, log, recovered, synced, lastTurn, todo, executed, abandoned, crashes>>

\* Fault: what arrived of the failed append stays in the file.
RollBackNothing ==
    /\ up
    /\ rollback # {}
    /\ rollback' = {}
    /\ UNCHANGED <<up, log, disk, recovered, synced, lastTurn, todo, executed, abandoned, crashes>>

\* rollbackAppend, after the write or its fsync failed: the file has its old size
\* again, and the batch can be retried.
RollBack ==
    /\ up
    /\ rollback # {}
    /\ \E size \in rollback : disk' = Truncated(disk, size)
    /\ rollback' = {}
    /\ UNCHANGED <<up, log, recovered, synced, lastTurn, todo, executed, abandoned, crashes>>

\* What a kill leaves: the file as it is, or the new one of a first batch, which may
\* have been collected before the last events were logged.
Survivors ==
    IF disk # <<>> THEN {disk}
    ELSE {Written(SubSeq(log, 1, n)) : n \in 0..Len(log)}

\* The process is killed, and the next one reads the file.
Crash ==
    /\ up
    /\ crashes < MaxCrashes
    /\ crashes' = crashes + 1
    /\ up' = FALSE
    /\ disk' \in Survivors
    /\ log' = Read(disk')
    /\ rollback' = {}
    /\ todo' = <<>>
    /\ UNCHANGED <<recovered, synced, lastTurn, executed, abandoned>>

\* commitRepair cuts a torn file, keeping what was read beyond the cut.
CutTornTail ==
    /\ ~up
    /\ Torn(disk)
    /\ disk' = Truncated(disk, TornStart(disk))
    /\ recovered' = SubSeq(log, TornStart(disk) + 1, Len(log))
    /\ UNCHANGED <<up, log, rollback, synced, lastTurn, todo, executed, abandoned, crashes>>

\* What it then appends.
Rewrite == recovered \o Closers(log)

\* Fault: a log with unanswered calls is refused.
CommitRepairWithoutCalls ==
    /\ ~up
    /\ ~Torn(disk) /\ Rewrite # <<>> /\ Pending = <<>>
    /\ disk' = disk \o Written(Rewrite)
    /\ log' = Read(disk')
    /\ synced' = Len(log')
    /\ recovered' = <<>>
    /\ UNCHANGED <<up, rollback, lastTurn, todo, executed, abandoned, crashes>>

\* The one append of a repair; the log is read anew.
CommitRepair ==
    /\ ~up
    /\ ~Torn(disk) /\ Rewrite # <<>>
    /\ disk' = disk \o Written(Rewrite)
    /\ log' = Read(disk')
    /\ synced' = Len(log')
    /\ recovered' = <<>>
    /\ UNCHANGED <<up, rollback, lastTurn, todo, executed, abandoned, crashes>>

\* Killed before the cut, after it or within the append.
RepairInterrupted ==
    /\ ~up
    /\ crashes < MaxCrashes
    /\ crashes' = crashes + 1
    /\ \/ UNCHANGED disk
       \/ /\ ~Torn(disk) /\ Rewrite # <<>>
          /\ \E landed \in Landed(Rewrite) : disk' = disk \o landed
    /\ log' = Read(disk')
    /\ recovered' = <<>>
    /\ UNCHANGED <<up, rollback, synced, lastTurn, todo, executed, abandoned>>

\* The turn/start events of a log; a new agent takes its turn number from the last.
TurnStarts(events) == {i \in DOMAIN events : events[i].type = "turn/start"}

\* Fault: the first turn is taken for the last.
FirstTurn(events) ==
    IF TurnStarts(events) = {} THEN 0
    ELSE events[CHOOSE i \in TurnStarts(events) : \A j \in TurnStarts(events) : i <= j].turn

LastTurn(events) ==
    IF TurnStarts(events) = {} THEN 0
    ELSE events[CHOOSE i \in TurnStarts(events) : \A j \in TurnStarts(events) : j <= i].turn

\* A whole file with a balanced log is handed to a new agent, which takes up its turn
\* numbers.  (A session nothing was stored of is created anew.)
Load ==
    /\ ~up
    /\ ~Torn(disk) /\ Rewrite = <<>>
    /\ up' = TRUE
    /\ synced' = Len(log)
    /\ lastTurn' = LastTurn(log)
    /\ UNCHANGED <<log, file, todo, executed, abandoned, crashes>>

-----------------------------------------------------------------------------
\* Distinct calls nobody has asked for yet.  Their names are unique and say nothing:
\* calls are numbered as they are asked for.
Batches == {calls \in UNION {[1..n -> Calls \ AskedIn(log)] : n \in 0..Cardinality(Calls)} :
               /\ \A i, j \in DOMAIN calls : calls[i] = calls[j] => i = j
               /\ \A i \in DOMAIN calls : calls[i] = Cardinality(AskedIn(log)) + i}

Live == \/ OpenTurn \/ OpenStep
        \/ \E calls \in Batches : Answer(calls)
        \/ RecordCall
        \/ \E call \in Calls : Execute(call)
        \/ CommitResult \/ CloseStep \/ CloseTurn
        \/ Persist \/ AppendLands \/ RollBack

Recovery == CutTornTail \/ CommitRepair \/ Load

Next == Live \/ Crash \/ RepairInterrupted \/ Recovery

Spec == Init /\ [][Next]_vars

\* Somebody loads the session again, and each attempt either ends or is killed.
FairSpec == Spec /\ WF_vars(Recovery)

-----------------------------------------------------------------------------
Events ==
    [type : {"turn/start", "turn/end", "step/start", "step/end", "assistant/message",
             "tool/call", "tool/result", "tool/not-started"},
     turn : 1..MaxTurns, step : 0..MaxSteps, calls : Seq(Calls)]

FileLines == [event : Events \cup {Fragment.event}, whole : BOOLEAN]

TypeOK ==
    /\ up \in BOOLEAN
    /\ log \in Seq(Events) /\ recovered \in Seq(Events)
    /\ disk \in Seq(FileLines)
    /\ rollback \subseteq {synced}
    /\ synced \in 0..Len(log)
    /\ lastTurn \in 0..MaxTurns
    /\ todo \in Seq(Calls)
    /\ executed \subseteq Calls /\ abandoned \subseteq Calls
    /\ crashes \in 0..MaxCrashes

\* Repair and rules agree on what is open and which calls are recorded: the
\* repair's closers are events the rules allow.
ScanAgrees(events) ==
    LET t == Rules(events)
        scan == Scan(events)
        pending == scan.pendingCalls
    IN  /\ t.legal
        /\ scan.openTurn = t.openTurn /\ scan.openStep = t.openStep
        /\ t.openTurn \in {0, t.nextTurn} /\ (t.openTurn = 0 => t.openStep = 0)
        /\ LastTurn(events) = IF t.openTurn = 0 THEN t.nextTurn - 1 ELSE t.openTurn
        /\ \A i \in DOMAIN pending : pending[i].step = t.openStep /\ t.openStep # 0
        /\ t.calls = {pending[i].call : i \in
                        {j \in DOMAIN pending : pending[j].state = "recorded"}}
        /\ events # <<>> /\ Last(events).type = "step/start" =>
              t.openStep # 0 /\ pending = <<>>

ResultsOf(events, call) == {i \in DOMAIN events : IsResultOf(events[i], call)}

\* Every call the model asked for is pending without a result, has one, or was
\* lost in a live step that failed; what repair takes for asked only was never
\* recorded.
CallsAccounted(events, lost) ==
    LET pending == Scan(events).pendingCalls
        calls == {p.call : p \in Range(pending)}
    IN  /\ \A i, j \in DOMAIN pending : pending[i].call = pending[j].call => i = j
        /\ \A i \in DOMAIN pending :
              /\ pending[i].call \in AskedIn(events)
              /\ ResultsOf(events, pending[i].call) = {}
              /\ Recorded(events, pending[i].call) => pending[i].state = "recorded"
        /\ \A call \in AskedIn(events) \ (lost \cup calls) :
              \E i \in DOMAIN events : ResultsOf(events, call) = {i}
        /\ \A call \in Calls \ AskedIn(events) :
              ResultsOf(events, call) = {} /\ ~Recorded(events, call)

\* The live agent goes on where the log ends: it asks for the calls that are
\* still to be recorded, in their order, after those that are.
LiveAgrees ==
    up => /\ lastTurn = LastTurn(log)
          /\ Len(todo) <= Len(Pending)
          /\ \A i \in DOMAIN Pending :
                IF i <= Len(Pending) - Len(todo) THEN Pending[i].state = "recorded"
                ELSE /\ Pending[i].state = "asked"
                     /\ Pending[i].call = todo[i - (Len(Pending) - Len(todo))]

\* Whatever prefix of the log a kill leaves obeys the session's rules, and repair
\* finds in it exactly the open turn, step and calls that the rules do; and so
\* does every log there ever is, live, cut short, half repaired or repaired.
LogLegal ==
    /\ \A n \in 0..Len(log) :
          ScanAgrees(SubSeq(log, 1, n)) /\ CallsAccounted(SubSeq(log, 1, n), abandoned)
    /\ LiveAgrees

\* A loaded log is balanced, and the agent's next turn is the one the log expects.
ResumesBalanced ==
    [][~up /\ up' => /\ log' = log
                     /\ Trace.openTurn = 0 /\ Trace.openStep = 0
                     /\ Trace.nextTurn = lastTurn' + 1]_vars

\* However often the process was killed, every call the model asked for has
\* exactly one result once its step is over, unless a live step itself failed.
EveryCallAnswered ==
    \A call \in AskedIn(log) \ abandoned :
        up /\ Trace.openStep = 0 =>
            Cardinality({i \in DOMAIN log : IsResultOf(log[i], call)}) = 1

\* What recovery tells the model was never started never ran.
NotStartedNeverRan ==
    \A i \in DOMAIN log :
        log[i].type = "tool/not-started" => Head(log[i].calls) \notin executed

\* No effect without a record: the call of a tool body that has run is durable.
EffectIsRecorded ==
    \A call \in executed : Recorded(SubSeq(log, 1, synced), call)

\* What the log says of effects is true after any kills: no tool body has run
\* without a durable call, and none that recovery reports as not started has run.
EffectsAreTold == TypeOK /\ NotStartedNeverRan /\ EffectIsRecorded

\* Confirmed events can be read back from the file for ever, at their place, through
\* failed appends and their retries, kills, cuts and repairs that are killed too; and
\* whoever goes on with the session has them in its log.
ConfirmedIsForever ==
    [][/\ IsPrefix(SubSeq(log, 1, synced), Read(disk'))
       /\ IsPrefix(SubSeq(log, 1, synced), log')
       /\ synced' >= synced]_vars

\* A killed session comes back.
Recovers == ~up ~> up
=============================================================================
