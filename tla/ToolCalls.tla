----------------------------- MODULE ToolCalls -----------------------------
(***************************************************************************)
(* The tool scheduler of one step: executeToolCalls and runGroup             *)
(* (core/agent-loop/src/tool-calls.ts).  The assistant's calls 1..N form     *)
(* groups: one exclusive call, or a pool that starts parallel calls while    *)
(* fewer than MaxParallel are in flight.  Calls start in the model's order,  *)
(* settle in any order, and commit their results in the model's order.       *)
(*                                                                          *)
(* Grain.  A step is the code between two awaits of the scheduler (prepare,  *)
(* finalize, Promise.race), or one settlement of a dispatched call.  A       *)
(* call's mode is read again whenever it is about to start and the registry  *)
(* may have changed meanwhile: every read is a fresh choice.                 *)
(***************************************************************************)
EXTENDS Naturals, Sequences, FiniteSets, SessionTrace

CONSTANTS
    N,                    \* how many calls the assistant asked for
    MaxParallel           \* config.maxParallelToolCalls

ASSUME CallsAreCounted == N \in Nat
ASSUME PoolIsPositive == MaxParallel \in Nat \ {0}

VARIABLES
    pc,                   \* what the scheduler is about to do or awaits
    mode,                 \* the current group's mode
    nextToStart,          \* calls before it have been started
    committed,            \* calls 1..committed have their results in the log
    stage,                \* per call: how far it is
    ranAs,                \* per call: the mode it was started under
    inFlight,             \* dispatched calls whose settlement is not yet raced
    signal,               \* the step's abort signal has fired
    aborted,              \* ... and the scheduler has noticed
    schedulerFailure,     \* a dispatch or a hook has thrown
    concluded,            \* a committed result concludes the turn
    trace                 \* what the session-log rules have seen

vars == <<pc, mode, nextToStart, committed, stage, ranAs, inFlight, signal,
          aborted, schedulerFailure, concluded, trace>>

Calls == 1..N

Running == {i \in Calls : stage[i] \in {"preparing", "running"}}

\* A slot is filled: the result awaits finalize ("raw") or only finish ("final").
Settled(i) == i \in Calls /\ stage[i] \in {"raw", "final"}

Init ==
    /\ pc = "classify" /\ mode = "parallel"
    /\ nextToStart = 1 /\ committed = 0
    /\ stage = [i \in Calls |-> "planned"]
    /\ ranAs = [i \in Calls |-> "none"]
    /\ inFlight = {}
    /\ signal \in BOOLEAN
    /\ aborted = FALSE /\ schedulerFailure = FALSE /\ concluded = FALSE
    \* the calls' step is open
    /\ trace = Observe(Observe(FreshTrace, TurnStart(1)), StepStart(1, 1))

-----------------------------------------------------------------------------
\* Fault: a started call is not recorded.
StartUnrecorded(i, asMode) ==
    /\ stage' = [stage EXCEPT ![i] = "preparing"]
    /\ ranAs' = [ranAs EXCEPT ![i] = asMode]
    /\ pc' = "prepare"
    /\ UNCHANGED trace

\* startCall up to its await: the call is recorded and prepared.
Start(i, asMode) ==
    /\ trace' = Observe(trace, ToolCall(1, 1, i))
    /\ stage' = [stage EXCEPT ![i] = "preparing"]
    /\ ranAs' = [ranAs EXCEPT ![i] = asMode]
    /\ pc' = "prepare"

\* Cancellation gives every call that never started a call and a result.
Skipped(t, from) ==
    LET after[i \in (from - 1)..N] ==
            IF i = from - 1 THEN t
            ELSE Observe(Observe(after[i - 1], ToolCall(1, 1, i)), ToolResult(1, 1, i))
    IN  after[N]

\* Fault: unstarted calls are dropped without a result.
SkipSilently == pc' = "returned" /\ UNCHANGED <<stage, ranAs, trace>>

SkipRest ==
    /\ trace' = Skipped(trace, nextToStart)
    /\ stage' = [i \in Calls |-> IF i >= nextToStart THEN "skipped" ELSE stage[i]]
    /\ pc' = "returned"
    /\ UNCHANGED ranAs

\* executeToolCalls at the head of its loop: classify the next call and start
\* it in the same job, skip everything after an abort, or return.
Classify ==
    /\ pc = "classify"
    /\ \/ /\ nextToStart <= N /\ ~signal
          /\ \E m \in {"parallel", "exclusive"} : mode' = m /\ Start(nextToStart, m)
       \/ /\ nextToStart <= N /\ signal
          /\ SkipRest
          /\ UNCHANGED mode
       \/ /\ nextToStart > N
          /\ pc' = "returned"
          /\ UNCHANGED <<mode, stage, ranAs, trace>>
    /\ UNCHANGED <<nextToStart, committed, inFlight, signal, aborted,
                   schedulerFailure, concluded>>

\* prepare settled: the call is dispatched, or already has its result.
Prepared(outcome) ==
    /\ pc = "prepare"
    /\ ~schedulerFailure
    /\ stage' = [stage EXCEPT ![nextToStart] = outcome]
    /\ inFlight' = IF outcome = "running" THEN inFlight \cup {nextToStart} ELSE inFlight
    /\ nextToStart' = nextToStart + 1
    /\ pc' = "commit"
    /\ UNCHANGED <<mode, committed, ranAs, signal, aborted, schedulerFailure,
                   concluded, trace>>

\* prepare threw, or a dispatch failed while it ran: nothing more starts.
PrepareFails ==
    /\ pc = "prepare"
    /\ schedulerFailure' = TRUE
    /\ stage' = [stage EXCEPT ![nextToStart] = "failed"]
    /\ pc' = "draining"
    /\ UNCHANGED <<mode, nextToStart, committed, ranAs, inFlight, signal, aborted,
                   concluded, trace>>

\* A dispatched call settles, at any moment.
Settle(i, outcome) ==
    /\ stage[i] = "running"
    /\ stage' = [stage EXCEPT ![i] = outcome]
    /\ schedulerFailure' = (schedulerFailure \/ outcome = "failed")
    /\ UNCHANGED <<pc, mode, nextToStart, committed, ranAs, inFlight, signal,
                   aborted, concluded, trace>>

\* Fault: results are committed in the order calls settle.
CommitAny(concludes) ==
    /\ pc = "commit"
    /\ \E i \in Calls :
          /\ Settled(i)
          /\ trace' = Observe(trace, ToolResult(1, 1, i))
          /\ stage' = [stage EXCEPT ![i] = "committed"]
    /\ committed' = committed + 1
    /\ concluded' = (concluded \/ concludes)
    /\ UNCHANGED <<pc, mode, nextToStart, ranAs, inFlight, signal, aborted,
                   schedulerFailure>>

\* commitReady: the next call in the model's order has settled.
CommitNext(concludes) ==
    /\ pc = "commit"
    /\ Settled(committed + 1)
    /\ trace' = Observe(trace, ToolResult(1, 1, committed + 1))
    /\ stage' = [stage EXCEPT ![committed + 1] = "committed"]
    /\ committed' = committed + 1
    /\ concluded' = (concluded \/ concludes)
    /\ UNCHANGED <<pc, mode, nextToStart, ranAs, inFlight, signal, aborted,
                   schedulerFailure>>

FinalizeFails ==
    /\ pc = "commit"
    /\ Settled(committed + 1) /\ stage[committed + 1] = "raw"
    /\ schedulerFailure' = TRUE
    /\ stage' = [stage EXCEPT ![committed + 1] = "failed"]
    /\ pc' = "draining"
    /\ UNCHANGED <<mode, nextToStart, committed, ranAs, inFlight, signal, aborted,
                   concluded, trace>>

\* Fault: the signal is read only when the group starts.
NoticedOnce == aborted

\* The abort is noticed between awaits.
Noticed == aborted \/ signal

\* Faults: the pool's size or the barrier is overrun.
MayOverfill == /\ ~Noticed /\ mode = "parallel" /\ nextToStart <= N
               /\ Cardinality(inFlight) <= MaxParallel
MayFillBarrier == ~Noticed /\ nextToStart <= N /\ Cardinality(inFlight) < MaxParallel

\* The pool has room and nobody asked it to stop.
MayFill ==
    /\ ~Noticed
    /\ mode = "parallel" /\ nextToStart <= N
    /\ Cardinality(inFlight) < MaxParallel

\* Nothing more to commit: notice failure or abort, then refill the pool, wait
\* for a settlement, or leave the group.
AfterCommit ==
    /\ pc = "commit"
    /\ ~Settled(committed + 1)
    /\ \/ /\ schedulerFailure
          /\ pc' = "draining"
          /\ UNCHANGED <<aborted, stage, ranAs, trace>>
       \/ /\ ~schedulerFailure
          /\ aborted' = Noticed
          /\ \/ MayFill /\ Start(nextToStart, "parallel")
             \* full, empty, aborted, or the next call now reads as exclusive
             \/ /\ inFlight # {}
                /\ pc' = "race"
                /\ UNCHANGED <<stage, ranAs, trace>>
             \/ inFlight = {} /\ Noticed /\ SkipRest
             \/ /\ inFlight = {} /\ ~Noticed
                /\ pc' = "classify"
                /\ UNCHANGED <<stage, ranAs, trace>>
    /\ UNCHANGED <<mode, nextToStart, committed, inFlight, signal,
                   schedulerFailure, concluded>>

\* Fault: a raced call stays in the race.
RacedAgain(i) ==
    /\ pc = "race"
    /\ i \in inFlight /\ stage[i] # "running"
    /\ pc' = IF schedulerFailure THEN "draining" ELSE "commit"
    /\ UNCHANGED <<mode, nextToStart, committed, stage, ranAs, inFlight, signal,
                   aborted, schedulerFailure, concluded, trace>>

\* Promise.race returned one settled dispatch.
Raced(i) ==
    /\ pc = "race"
    /\ i \in inFlight /\ stage[i] # "running"
    /\ inFlight' = inFlight \ {i}
    /\ pc' = IF schedulerFailure THEN "draining" ELSE "commit"
    /\ UNCHANGED <<mode, nextToStart, committed, stage, ranAs, signal, aborted,
                   schedulerFailure, concluded, trace>>

\* Fault: a failure does not wait for dispatched calls.
DrainedAtOnce ==
    /\ pc = "draining"
    /\ pc' = "threw"
    /\ UNCHANGED <<mode, nextToStart, committed, stage, ranAs, inFlight, signal,
                   aborted, schedulerFailure, concluded, trace>>

\* A failure waits for every dispatched call, then reaches the turn.
Drained ==
    /\ pc = "draining"
    /\ \A i \in inFlight : stage[i] # "running"
    /\ pc' = "threw"
    /\ UNCHANGED <<mode, nextToStart, committed, stage, ranAs, inFlight, signal,
                   aborted, schedulerFailure, concluded, trace>>

Abort ==
    /\ ~signal
    /\ pc \notin {"returned", "threw"}
    /\ signal' = TRUE
    /\ UNCHANGED <<pc, mode, nextToStart, committed, stage, ranAs, inFlight,
                   aborted, schedulerFailure, concluded, trace>>

-----------------------------------------------------------------------------
Scheduler ==
    \/ Classify
    \/ \E outcome \in {"running", "raw", "final"} : Prepared(outcome)
    \/ PrepareFails
    \/ \E concludes \in BOOLEAN : CommitNext(concludes)
    \/ FinalizeFails
    \/ AfterCommit
    \/ \E i \in Calls : Raced(i)
    \/ Drained

Tools == \E i \in Calls, outcome \in {"raw", "final", "failed"} : Settle(i, outcome)

Next == Scheduler \/ Tools \/ Abort

Spec == Init /\ [][Next]_vars

\* Hooks settle and dispatched tools settle, on their own or on the signal.
FairSpec ==
    /\ Spec
    /\ WF_vars(Scheduler)
    /\ \A i \in Calls :
          WF_vars(\E outcome \in {"raw", "final", "failed"} : Settle(i, outcome))

-----------------------------------------------------------------------------
TypeOK ==
    /\ pc \in {"classify", "prepare", "commit", "race", "draining", "returned", "threw"}
    /\ mode \in {"parallel", "exclusive"}
    /\ nextToStart \in 1..(N + 1)
    /\ committed \in 0..N
    /\ stage \in [Calls -> {"planned", "preparing", "running", "raw", "final",
                            "committed", "failed", "skipped"}]
    /\ ranAs \in [Calls -> {"none", "parallel", "exclusive"}]
    /\ inFlight \subseteq Calls
    /\ signal \in BOOLEAN /\ aborted \in BOOLEAN
    /\ schedulerFailure \in BOOLEAN /\ concluded \in BOOLEAN

\* Recorded calls without a recorded result.
Unanswered ==
    {i \in Calls : stage[i] \in {"preparing", "running", "raw", "final", "failed"}}

\* What the log's rules have seen inside the step, with these calls outstanding.
OpenTraces(calls) ==
    {t \in [openTurn : {1}, openStep : {1}, nextTurn : {1}, nextStep : {1},
            calls : SUBSET Calls, legal : BOOLEAN] : t.calls = calls /\ t.legal}

\* No result is recorded without its call, and all of it inside the open step:
\* what the rules hold outstanding is what the scheduler has yet to answer.
LogLegal == trace \in OpenTraces(Unanswered)

\* Where the call at nextToStart is: it moves only while it is prepared, when
\* preparing it threw, or when an abort skips it.
NextStages ==
    CASE pc = "prepare"                -> {"preparing"}
      [] pc \in {"draining", "threw"}  -> {"planned", "failed"}
      [] pc = "returned"               -> {"skipped"}
      [] OTHER                         -> {"planned"}

\* Calls come in four blocks: committed, started, the next one, untouched.
Window ==
    /\ committed < nextToStart
    /\ pc = "prepare" => nextToStart <= N
    /\ \A i \in Calls :
          /\ i <= committed => stage[i] = "committed"
          /\ committed < i /\ i < nextToStart =>
                stage[i] \in {"running", "raw", "final", "failed"}
          /\ i = nextToStart => stage[i] \in NextStages
          /\ i > nextToStart =>
                stage[i] = IF pc = "returned" THEN "skipped" ELSE "planned"

\* Every running call is in flight, only started calls are, and a call is
\* prepared only when there is room for it.
Flight ==
    /\ \A i \in inFlight : i < nextToStart
    /\ \A i \in Calls : stage[i] = "running" => i \in inFlight
    /\ Cardinality(inFlight) <= MaxParallel
    /\ pc = "prepare" => Cardinality(inFlight) < MaxParallel

\* A group is left only when everything it started has committed.
GroupDone ==
    pc \in {"classify", "returned"} =>
        inFlight = {} /\ committed + 1 = nextToStart /\ ~schedulerFailure

\* A failed call is a failed scheduler.
FailureKnown == \A i \in Calls : stage[i] = "failed" => schedulerFailure

\* The newest started call; an exclusive one is all that is under way.
Newest == IF pc = "prepare" THEN nextToStart ELSE nextToStart - 1

Barrier ==
    /\ pc = "prepare" => ranAs[nextToStart] = mode
    /\ pc = "prepare" /\ mode = "exclusive" => committed + 1 = nextToStart
    /\ \A i \in Running : ranAs[i] = "exclusive" =>
          /\ mode = "exclusive" /\ committed + 1 = i /\ i = Newest
          /\ \A j \in Calls : j > i => stage[j] = "planned"

\* The scheduler's invariant: the window of started calls, the in-flight set and
\* the recorded failure agree wherever the scheduler is suspended, and an
\* exclusive call is all there is under way.
SchedulerInv ==
    TypeOK /\ Window /\ Flight /\ GroupDone /\ FailureKnown /\ Barrier

\* A batch that returns has answered every call, aborted or not: the log holds
\* no call without a result, and the committed loop never leaves one behind.
ReturnsAllAnswered ==
    pc = "returned" =>
        /\ trace.calls = {}
        /\ \A i \in Calls : stage[i] \in {"committed", "skipped"}

\* An exclusive call runs alone: all earlier calls have committed and no later
\* one has started, whatever the registry says when modes are read again.
ExclusiveIsBarrier ==
    \A i \in Running : ranAs[i] = "exclusive" =>
        /\ \A j \in 1..(i - 1) : stage[j] = "committed"
        /\ \A j \in (i + 1)..N : stage[j] = "planned"

\* No more than maxParallelToolCalls calls are between start and settlement.
PoolBounded == Cardinality(Running) <= MaxParallel

\* Results enter the log in the model's order however calls settle.
ResultsInOrder ==
    \A j \in Calls : stage[j] \in {"committed", "skipped"} =>
        \A i \in 1..(j - 1) : stage[i] \in {"committed", "skipped"}

\* A failure reaches the turn only when nothing it started still runs.
ThrowsQuiescent == pc = "threw" => Running = {}

\* Once the signal has fired or a hook has thrown, no further call starts.
NothingStartsLate ==
    [][signal \/ schedulerFailure =>
          \A i \in Calls : stage[i] = "planned" => stage'[i] # "preparing"]_vars

\* The batch always ends.
Settles == <>(pc \in {"returned", "threw"})
=============================================================================
