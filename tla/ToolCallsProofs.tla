-------------------------- MODULE ToolCallsProofs --------------------------
(***************************************************************************)
(* What holds of the tool scheduler for every batch size and every pool      *)
(* size: started calls form a window between committed and nextToStart, the  *)
(* pool never overfills, and an exclusive call has the scheduler to itself.  *)
(***************************************************************************)
EXTENDS ToolCalls, FiniteSetTheorems, TLAPS

\* A loop over numbers alone, for its induction principle.
Counted(s, n) == n
Counting == INSTANCE LogFold WITH Fresh <- 0, Step <- Counted

-----------------------------------------------------------------------------
(* Facts about single definitions. *)

\* In-flight calls are a finite set of calls, so they can be counted.
LEMMA FlightIsFinite ==
    ASSUME TypeOK
    PROVE  IsFiniteSet(inFlight) /\ Cardinality(inFlight) \in Nat
<1>1. IsFiniteSet(Calls)
  BY CallsAreCounted, FS_Interval DEF Calls
<1>2. IsFiniteSet(inFlight)
  BY <1>1, FS_Subset DEF TypeOK
<1> QED BY <1>2, FS_CardinalityType

\* When nothing is in flight, nothing is left to commit and nothing has failed,
\* then everything started has committed.
LEMMA EmptyPoolIsDone ==
    ASSUME SchedulerInv, pc = "commit", ~Settled(committed + 1), inFlight = {},
           ~schedulerFailure
    PROVE  committed + 1 = nextToStart
<1>1. SUFFICES ASSUME committed + 1 # nextToStart PROVE FALSE
  OBVIOUS
<1>2. /\ committed \in Nat /\ nextToStart \in Nat /\ nextToStart <= N + 1
      /\ committed < nextToStart
  BY CallsAreCounted DEF SchedulerInv, TypeOK, Window
<1>3. committed + 1 \in Calls /\ committed + 1 < nextToStart
  BY <1>1, <1>2, CallsAreCounted DEF Calls
<1>4. stage[committed + 1] \in {"running", "raw", "final", "failed"}
  BY <1>2, <1>3 DEF SchedulerInv, Window
<1> QED BY <1>3, <1>4 DEF SchedulerInv, Flight, FailureKnown, Settled

-----------------------------------------------------------------------------
(* The invariant holds initially. *)

\* A batch that has not begun has the invariant.
LEMMA SchedulerInit == Init => SchedulerInv
<1> SUFFICES ASSUME Init PROVE SchedulerInv
  OBVIOUS
<1>1. TypeOK
  <2>1. /\ signal \in BOOLEAN /\ aborted \in BOOLEAN
        /\ schedulerFailure \in BOOLEAN /\ concluded \in BOOLEAN
    BY Zenon DEF Init
  <2> QED BY <2>1, CallsAreCounted DEF Init, TypeOK, Calls
<1>2. Window
  BY CallsAreCounted DEF Init, Window, Calls, NextStages
<1>3. Flight
  BY PoolIsPositive, FS_EmptySet DEF Init, Flight
<1>4. GroupDone /\ FailureKnown /\ Barrier
  BY DEF Init, GroupDone, FailureKnown, Barrier, Running, Calls
<1> QED BY <1>1, <1>2, <1>3, <1>4 DEF SchedulerInv

-----------------------------------------------------------------------------
(* Every step keeps it, one part at a time. *)

\* Flags of the scheduler stay flags.
LEMMA FlagsStep ==
    ASSUME TypeOK, Next
    PROVE  /\ signal' \in BOOLEAN /\ aborted' \in BOOLEAN
           /\ schedulerFailure' \in BOOLEAN /\ concluded' \in BOOLEAN
BY Zenon DEF TypeOK, Next, Scheduler, Tools, Classify, Prepared, PrepareFails, CommitNext,
             FinalizeFails, AfterCommit, Raced, Drained, Settle, Abort, Noticed

\* Every step of the scheduler keeps it.
LEMMA SchedulerStep == SchedulerInv /\ [Next]_vars => SchedulerInv'
<1> SUFFICES ASSUME SchedulerInv, [Next]_vars PROVE SchedulerInv'
  OBVIOUS
<1>0. /\ committed \in Nat /\ nextToStart \in Nat /\ nextToStart <= N + 1
      /\ committed < nextToStart /\ N \in Nat
  BY CallsAreCounted DEF SchedulerInv, TypeOK, Window
<1>1. CASE UNCHANGED vars
  BY <1>1 DEF vars, SchedulerInv, TypeOK, Window, NextStages, Flight, GroupDone,
              FailureKnown, Barrier, Running, Newest
<1>2. ASSUME Next, NEW asMode \in {"parallel", "exclusive"}, Start(nextToStart, asMode),
             pc \in {"classify", "commit"}, nextToStart <= N, mode' = asMode,
             ~schedulerFailure,
             asMode = "exclusive" => committed + 1 = nextToStart,
             Cardinality(inFlight) < MaxParallel,
             \A i \in Running : ranAs[i] # "exclusive",
             UNCHANGED <<nextToStart, committed, inFlight, schedulerFailure>>
      PROVE  SchedulerInv'
  <2>1. TypeOK'
    BY <1>0, <1>2, FlagsStep DEF Start, SchedulerInv, TypeOK, Calls
  <2>2. Window'
    BY <1>0, <1>2 DEF Start, SchedulerInv, TypeOK, Window, NextStages, Calls
  <2>3. Flight'
    BY <1>0, <1>2 DEF Start, SchedulerInv, TypeOK, Flight, Calls
  <2>4. GroupDone' /\ FailureKnown'
    BY <1>2 DEF Start, SchedulerInv, TypeOK, GroupDone, FailureKnown
  <2>5. Barrier'
    BY <1>0, <1>2, <2>2 DEF Start, SchedulerInv, TypeOK, Window, Calls, Barrier, Running,
                            Newest
  <2> QED BY <2>1, <2>2, <2>3, <2>4, <2>5 DEF SchedulerInv
<1>3. ASSUME Next, SkipRest, inFlight = {}, committed + 1 = nextToStart, ~schedulerFailure,
             mode' = mode,
             UNCHANGED <<nextToStart, committed, inFlight, schedulerFailure>>
      PROVE  SchedulerInv'
  <2>1. TypeOK'
    BY <1>0, <1>3, FlagsStep DEF SkipRest, SchedulerInv, TypeOK, Calls
  <2>2. Window'
    BY <1>0, <1>3 DEF SkipRest, SchedulerInv, TypeOK, Window, NextStages, Calls
  <2>3. Flight'
    BY <1>0, <1>3 DEF SkipRest, SchedulerInv, TypeOK, Flight, Calls
  <2>4. GroupDone' /\ FailureKnown'
    BY <1>3 DEF SkipRest, SchedulerInv, TypeOK, GroupDone, FailureKnown
  <2>5. Barrier'
    BY <1>0, <1>3, <2>2 DEF SkipRest, SchedulerInv, Flight, TypeOK, Calls, Barrier, Running, Newest
  <2> QED BY <2>1, <2>2, <2>3, <2>4, <2>5 DEF SchedulerInv
<1>4. CASE Classify
  <2>1. /\ inFlight = {} /\ committed + 1 = nextToStart /\ ~schedulerFailure
        /\ pc = "classify" /\ Running = {}
    <3>1. inFlight = {} /\ committed + 1 = nextToStart /\ ~schedulerFailure /\ pc = "classify"
      BY <1>4 DEF Classify, SchedulerInv, GroupDone
    <3>2. \A i \in Calls : stage[i] \in {"committed", "planned"}
      BY <1>0, <3>1 DEF SchedulerInv, Window, NextStages, Calls
    <3> QED BY <3>1, <3>2 DEF Running
  <2>2. Cardinality(inFlight) < MaxParallel
    BY <2>1, FS_EmptySet, PoolIsPositive
  <2>3. ASSUME NEW m \in {"parallel", "exclusive"}, nextToStart <= N,
               mode' = m, Start(nextToStart, m)
        PROVE  SchedulerInv'
    BY <1>2, <1>4, <2>1, <2>2, <2>3 DEF Classify, Next, Scheduler
  <2>4. CASE SkipRest /\ mode' = mode
    BY <1>3, <1>4, <2>1, <2>4 DEF Classify, Next, Scheduler
  <2>5. CASE nextToStart > N /\ pc' = "returned" /\ UNCHANGED <<mode, stage, ranAs, trace>>
    BY <1>0, <1>4, <2>1, <2>5 DEF Classify, SchedulerInv, TypeOK, Window, NextStages, Flight,
       GroupDone, FailureKnown, Barrier, Running, Newest, Calls
  <2> QED BY <1>4, <2>3, <2>4, <2>5 DEF Classify
<1>5. ASSUME NEW outcome \in {"running", "raw", "final"}, Prepared(outcome)
      PROVE  SchedulerInv'
  <2>1. TypeOK'
    BY <1>0, <1>5 DEF Prepared, SchedulerInv, TypeOK, Window, Calls
  <2>2. Window'
    BY <1>0, <1>5 DEF Prepared, SchedulerInv, TypeOK, Window, NextStages, Calls
  <2>3. Flight'
    <3>1. /\ IsFiniteSet(inFlight) /\ Cardinality(inFlight) \in Nat
          /\ nextToStart \notin inFlight /\ Cardinality(inFlight) < MaxParallel
      BY <1>0, <1>5, FlightIsFinite DEF Prepared, SchedulerInv, Flight
    <3>2. Cardinality(inFlight \cup {nextToStart}) = Cardinality(inFlight) + 1
      BY <3>1, FS_AddElement
    <3>3. Cardinality(inFlight') <= MaxParallel
      BY <1>5, <3>1, <3>2, PoolIsPositive DEF Prepared
    <3> QED BY <1>0, <1>5, <3>3 DEF Prepared, SchedulerInv, TypeOK, Flight, Calls
  <2>4. GroupDone' /\ FailureKnown'
    BY <1>5 DEF Prepared, SchedulerInv, TypeOK, GroupDone, FailureKnown
  <2>5. Barrier'
    BY <1>0, <1>5 DEF Prepared, SchedulerInv, TypeOK, Window, NextStages, Calls, Barrier,
                      Running, Newest
  <2> QED BY <2>1, <2>2, <2>3, <2>4, <2>5 DEF SchedulerInv
<1>6. CASE PrepareFails
  <2>1. TypeOK'
    BY <1>0, <1>6 DEF PrepareFails, SchedulerInv, TypeOK, Window, Calls
  <2>2. Window'
    BY <1>0, <1>6 DEF PrepareFails, SchedulerInv, TypeOK, Window, NextStages, Calls
  <2>3. Flight'
    BY <1>6 DEF PrepareFails, SchedulerInv, TypeOK, Flight
  <2>4. GroupDone' /\ FailureKnown'
    BY <1>6 DEF PrepareFails, SchedulerInv, TypeOK, GroupDone, FailureKnown
  <2>5. Barrier'
    BY <1>0, <1>6 DEF PrepareFails, SchedulerInv, TypeOK, Window, NextStages, Calls, Barrier,
                      Running, Newest
  <2> QED BY <2>1, <2>2, <2>3, <2>4, <2>5 DEF SchedulerInv
<1>7. ASSUME NEW i \in Calls, NEW outcome \in {"raw", "final", "failed"}, Settle(i, outcome)
      PROVE  SchedulerInv'
  <2>1. TypeOK'
    BY <1>0, <1>7, FlagsStep DEF Settle, Next, Tools, SchedulerInv, TypeOK
  <2>2. i \in inFlight /\ committed < i /\ i < nextToStart
    BY <1>0, <1>7 DEF Settle, SchedulerInv, Window, Flight, Calls
  <2>3. Window'
    BY <1>0, <1>7, <2>2 DEF Settle, SchedulerInv, TypeOK, Window, NextStages, Calls
  <2>4. Flight'
    BY <1>7 DEF Settle, SchedulerInv, TypeOK, Flight
  <2>5. GroupDone' /\ FailureKnown'
    BY <1>7, <2>2 DEF Settle, SchedulerInv, TypeOK, GroupDone, FailureKnown
  <2>6. Barrier'
    BY <1>0, <1>7 DEF Settle, SchedulerInv, TypeOK, Calls, Barrier, Running, Newest
  <2> QED BY <2>1, <2>3, <2>4, <2>5, <2>6 DEF SchedulerInv
<1>8. ASSUME NEW concludes \in BOOLEAN, CommitNext(concludes)
      PROVE  SchedulerInv'
  <2>1. committed + 1 \in Calls /\ committed + 1 < nextToStart
    BY <1>0, <1>8 DEF CommitNext, Settled, SchedulerInv, Window, NextStages, Calls
  <2>2. TypeOK'
    BY <1>0, <1>8, <2>1, FlagsStep DEF CommitNext, Next, Scheduler, SchedulerInv, TypeOK, Calls
  <2>3. Window'
    BY <1>0, <1>8, <2>1 DEF CommitNext, SchedulerInv, TypeOK, Window, NextStages, Calls
  <2>4. Flight'
    BY <1>8 DEF CommitNext, SchedulerInv, TypeOK, Flight
  <2>5. GroupDone' /\ FailureKnown'
    BY <1>8 DEF CommitNext, SchedulerInv, TypeOK, GroupDone, FailureKnown
  <2>6. Barrier'
    BY <1>0, <1>8, <2>1 DEF CommitNext, Settled, SchedulerInv, TypeOK, Calls, Barrier,
                            Running, Newest
  <2> QED BY <2>2, <2>3, <2>4, <2>5, <2>6 DEF SchedulerInv
<1>9. CASE FinalizeFails
  <2>1. committed + 1 \in Calls /\ committed + 1 < nextToStart
    BY <1>0, <1>9 DEF FinalizeFails, Settled, SchedulerInv, Window, NextStages, Calls
  <2>2. TypeOK'
    BY <1>0, <1>9, <2>1 DEF FinalizeFails, SchedulerInv, TypeOK, Calls
  <2>3. Window'
    BY <1>0, <1>9, <2>1 DEF FinalizeFails, SchedulerInv, TypeOK, Window, NextStages, Calls
  <2>4. Flight'
    BY <1>9 DEF FinalizeFails, SchedulerInv, TypeOK, Flight
  <2>5. GroupDone' /\ FailureKnown'
    BY <1>9 DEF FinalizeFails, SchedulerInv, TypeOK, GroupDone, FailureKnown
  <2>6. Barrier'
    BY <1>0, <1>9, <2>1 DEF FinalizeFails, SchedulerInv, TypeOK, Calls, Barrier, Running,
                            Newest
  <2> QED BY <2>2, <2>3, <2>4, <2>5, <2>6 DEF SchedulerInv
<1>10. CASE AfterCommit
  <2>1. CASE MayFill /\ Start(nextToStart, "parallel") /\ ~schedulerFailure
    <3>1. \A i \in Running : ranAs[i] # "exclusive"
      BY <2>1 DEF MayFill, SchedulerInv, Barrier
    <3> QED BY <1>2, <1>10, <2>1, <3>1 DEF AfterCommit, MayFill, Next, Scheduler
  <2>2. CASE SkipRest /\ inFlight = {} /\ ~schedulerFailure
    BY <1>3, <1>10, <2>2, EmptyPoolIsDone DEF AfterCommit, Next, Scheduler
  <2>3. CASE /\ UNCHANGED <<stage, ranAs, trace>>
             /\ \/ pc' \in {"draining", "race"}
                \/ pc' = "classify" /\ inFlight = {} /\ ~schedulerFailure
    <3>1. TypeOK'
      BY <1>0, <1>10, <2>3, FlagsStep DEF AfterCommit, Next, Scheduler, SchedulerInv, TypeOK
    <3>2. pc' = "classify" => committed + 1 = nextToStart
      BY <1>10, <2>3, EmptyPoolIsDone DEF AfterCommit
    <3>3. Window' /\ Flight' /\ FailureKnown'
      BY <1>10, <2>3 DEF AfterCommit, SchedulerInv, Window, NextStages, Flight, FailureKnown
    <3>4. GroupDone' /\ Barrier'
      BY <1>0, <1>10, <2>3, <3>2 DEF AfterCommit, SchedulerInv, GroupDone, Barrier, Running, Newest
    <3> QED BY <3>1, <3>3, <3>4 DEF SchedulerInv
  <2> QED BY <1>10, <2>1, <2>2, <2>3 DEF AfterCommit
<1>11. ASSUME NEW i \in Calls, Raced(i)
       PROVE  SchedulerInv'
  <2>1. TypeOK'
    BY <1>11 DEF Raced, SchedulerInv, TypeOK
  <2>2. Flight'
    <3>1. Cardinality(inFlight') = Cardinality(inFlight) - 1 /\ Cardinality(inFlight) \in Nat
      BY <1>11, FlightIsFinite, FS_RemoveElement DEF Raced, SchedulerInv
    <3> QED BY <1>11, <3>1, PoolIsPositive DEF Raced, SchedulerInv, Flight
  <2>3. Window' /\ GroupDone' /\ FailureKnown' /\ Barrier'
    BY <1>11 DEF Raced, SchedulerInv, Window, NextStages, GroupDone, FailureKnown, Barrier,
                 Running, Newest
  <2> QED BY <2>1, <2>2, <2>3 DEF SchedulerInv
<1>12. CASE Drained
  BY <1>12 DEF Drained, SchedulerInv, TypeOK, Window, NextStages, Flight, GroupDone,
               FailureKnown, Barrier, Running, Newest
<1>13. CASE Abort
  BY <1>13 DEF Abort, SchedulerInv, TypeOK, Window, NextStages, Flight, GroupDone,
               FailureKnown, Barrier, Running, Newest
<1> QED
  BY <1>1, <1>4, <1>5, <1>6, <1>7, <1>8, <1>9, <1>10, <1>11, <1>12, <1>13
     DEF Next, Scheduler, Tools

-----------------------------------------------------------------------------
(* The log: what a recorded call, its result and a skipped call do to the    *)
(* traces of the open step.                                                  *)

\* They differ in nothing but the outstanding calls.
LEMMA OneTrace ==
    ASSUME NEW calls, NEW t \in OpenTraces(calls), NEW u \in OpenTraces(calls)
    PROVE  t = u
BY DEF OpenTraces

\* A recorded call is outstanding.
LEMMA CallObserved ==
    ASSUME NEW calls \in SUBSET Calls, NEW i \in Calls, NEW t \in OpenTraces(calls)
    PROVE  Observe(t, ToolCall(1, 1, i)) \in OpenTraces(calls \cup {i})
<1>. DEFINE e == ToolCall(1, 1, i)
<1>1. e.type = "tool/call" /\ e.turn = 1 /\ e.step = 1 /\ Head(e.calls) = i
  BY DEF ToolCall, Event
<1>. HIDE DEF e
<1>2. Advance(t, e) =
        [openTurn |-> 1, openStep |-> 1, nextTurn |-> 1, nextStep |-> 1,
         calls |-> calls \cup {i}, legal |-> t.legal]
  <2>1. Advance(t, e) = [t EXCEPT !.calls = @ \cup {i}]
    BY <1>1 DEF Advance
  <2> QED BY <2>1 DEF OpenTraces
<1>3. t.legal /\ Legal(t, e)
  BY <1>1 DEF OpenTraces, Legal, InOpenStep
<1>4. Observe(t, e) =
        [openTurn |-> 1, openStep |-> 1, nextTurn |-> 1, nextStep |-> 1,
         calls |-> calls \cup {i}, legal |-> t.legal /\ Legal(t, e)]
  BY <1>2 DEF Observe
<1> QED BY <1>3, <1>4 DEF OpenTraces, e

\* Its result answers it.
LEMMA ResultObserved ==
    ASSUME NEW calls \in SUBSET Calls, NEW i \in calls, NEW t \in OpenTraces(calls)
    PROVE  Observe(t, ToolResult(1, 1, i)) \in OpenTraces(calls \ {i})
<1>. DEFINE e == ToolResult(1, 1, i)
<1>1. e.type = "tool/result" /\ e.turn = 1 /\ e.step = 1 /\ Head(e.calls) = i
  BY DEF ToolResult, Event
<1>. HIDE DEF e
<1>2. Advance(t, e) =
        [openTurn |-> 1, openStep |-> 1, nextTurn |-> 1, nextStep |-> 1,
         calls |-> calls \ {i}, legal |-> t.legal]
  <2>1. Advance(t, e) = [t EXCEPT !.calls = @ \ {i}]
    BY <1>1 DEF Advance
  <2> QED BY <2>1 DEF OpenTraces
<1>3. t.legal /\ Legal(t, e)
  BY <1>1 DEF OpenTraces, Legal, InOpenStep
<1>4. Observe(t, e) =
        [openTurn |-> 1, openStep |-> 1, nextTurn |-> 1, nextStep |-> 1,
         calls |-> calls \ {i}, legal |-> t.legal /\ Legal(t, e)]
  BY <1>2 DEF Observe
<1> QED BY <1>3, <1>4 DEF OpenTraces, e

\* A skipped call is recorded and answered at once: the trace is what it was.
LEMMA SkippingKeeps ==
    ASSUME NEW calls \in SUBSET Calls, NEW from \in 1..(N + 1),
           \A i \in from..N : i \notin calls,
           NEW t \in OpenTraces(calls)
    PROVE  Skipped(t, from) = t
<1>. DEFINE Answered(s, i) == Observe(Observe(s, ToolCall(1, 1, i)), ToolResult(1, 1, i))
            IsLoop(f) == f = [i \in (from - 1)..N |->
                                IF i = from - 1 THEN t ELSE Answered(f[i - 1], i)]
            after == CHOOSE f : IsLoop(f)
<1>1. ASSUME NEW i \in from..N PROVE Answered(t, i) = t
  <2>1. i \in Calls
    BY CallsAreCounted DEF Calls
  <2>2. Observe(t, ToolCall(1, 1, i)) \in OpenTraces(calls \cup {i})
    BY <2>1, CallObserved
  <2>3. Answered(t, i) \in OpenTraces((calls \cup {i}) \ {i})
    BY <2>1, <2>2, ResultObserved
  <2>4. (calls \cup {i}) \ {i} = calls
    BY <1>1
  <2>. HIDE DEF Answered
  <2> QED BY <2>3, <2>4, OneTrace
<1>2. from - 1 \in Nat /\ from \in Nat /\ N \in Nat /\ N - (from - 1) \in Nat
  BY CallsAreCounted
<1>3. \E f : IsLoop(f)
  <2>. DEFINE g == [i \in (from - 1)..N |-> t]
  <2>1. ASSUME NEW i \in (from - 1)..N, i # from - 1
        PROVE  Answered(g[i - 1], i) = t
    <3>1. i \in from..N /\ i - 1 \in (from - 1)..N
      BY <1>2, <2>1
    <3>2. g[i - 1] = t
      BY <3>1
    <3>3. Answered(t, i) = t
      BY <1>1, <3>1
    <3>. HIDE DEF g
    <3> QED BY <3>2, <3>3
  <2>2. g = [i \in (from - 1)..N |-> IF i = from - 1 THEN t ELSE Answered(g[i - 1], i)]
    <3>. HIDE DEF Answered
    <3> QED BY <2>1
  <2> QED BY <2>2, Zenon
<1>4. IsLoop(after)
  BY <1>3, Zenon
<1>5. Skipped(t, from) = after[N]
  BY Zenon DEF Skipped
<1>. DEFINE Kept == {k \in 0..(N - (from - 1)) : after[(from - 1) + k] = t}
<1>6. after = [i \in (from - 1)..N |-> IF i = from - 1 THEN t ELSE Answered(after[i - 1], i)]
  BY <1>4, Zenon
<1>. HIDE DEF after, Answered
<1>7. 0 \in Kept
  BY <1>2, <1>6
<1>8. ASSUME NEW k \in 0..((N - (from - 1)) - 1), k \in Kept
      PROVE  k + 1 \in Kept
  <2>1. /\ (from - 1) + (k + 1) \in from..N /\ (from - 1) + (k + 1) \in (from - 1)..N
        /\ ((from - 1) + (k + 1)) - 1 = (from - 1) + k /\ (from - 1) + (k + 1) # from - 1
        /\ k + 1 \in 0..(N - (from - 1))
    BY <1>2
  <2>2. after[(from - 1) + (k + 1)] = Answered(t, (from - 1) + (k + 1))
    BY <1>6, <1>8, <2>1
  <2> QED BY <1>1, <2>1, <2>2
<1>9. 0..(N - (from - 1)) \subseteq Kept
  <2>. HIDE DEF Kept
  <2> QED BY <1>2, <1>7, <1>8, Counting!Induction
<1>10. N - (from - 1) \in Kept
  BY <1>2, <1>9
<1>11. after[N] = t
  BY <1>2, <1>10
<1> QED BY <1>5, <1>11

\* The log of a batch that has not begun is one the session allows.
LEMMA TraceInit == Init => LogLegal
<1> SUFFICES ASSUME Init PROVE trace \in OpenTraces(Unanswered)
  BY DEF LogLegal
<1>1. Unanswered = {}
  BY DEF Init, Unanswered
<1>2. Observe(FreshTrace, TurnStart(1)) =
        [openTurn |-> 1, openStep |-> 0, nextTurn |-> 1, nextStep |-> 1,
         calls |-> {}, legal |-> TRUE]
  <2>. DEFINE e == TurnStart(1)
  <2>1. e.type = "turn/start" /\ e.turn = 1
    BY DEF TurnStart, Event
  <2>. HIDE DEF e
  <2>2. Advance(FreshTrace, e) =
          [openTurn |-> 1, openStep |-> 0, nextTurn |-> 1, nextStep |-> 1,
           calls |-> {}, legal |-> TRUE]
    BY <2>1 DEF Advance, FreshTrace
  <2>3. FreshTrace.legal /\ Legal(FreshTrace, e)
    BY <2>1 DEF FreshTrace, Legal
  <2>4. (FreshTrace.legal /\ Legal(FreshTrace, e)) = TRUE
    BY <2>3, Zenon
  <2>5. Observe(FreshTrace, e) = [Advance(FreshTrace, e) EXCEPT !.legal = TRUE]
    BY <2>4, Zenon DEF Observe
  <2> QED BY <2>2, <2>5 DEF e
<1>3. Observe([openTurn |-> 1, openStep |-> 0, nextTurn |-> 1, nextStep |-> 1,
               calls |-> {}, legal |-> TRUE], StepStart(1, 1)) \in OpenTraces({})
  BY DEF Observe, StepStart, Event, Advance, Legal, OpenTraces
<1> QED BY <1>1, <1>2, <1>3 DEF Init

\* Every call and result the scheduler commits is one the session allows next.
LEMMA TraceStep == SchedulerInv /\ LogLegal /\ [Next]_vars => LogLegal'
<1> SUFFICES ASSUME SchedulerInv, trace \in OpenTraces(Unanswered), [Next]_vars
             PROVE  trace' \in OpenTraces(Unanswered')
  BY DEF LogLegal
<1>0. /\ committed \in Nat /\ nextToStart \in Nat /\ nextToStart <= N + 1
      /\ nextToStart >= 1 /\ committed < nextToStart /\ N \in Nat
  BY CallsAreCounted DEF SchedulerInv, TypeOK, Window
<1>1. ASSUME trace' = trace, Unanswered' = Unanswered
      PROVE  trace' \in OpenTraces(Unanswered')
  BY <1>1
<1>2. ASSUME NEW m, Start(nextToStart, m), nextToStart <= N
      PROVE  trace' \in OpenTraces(Unanswered')
  <2>1. Unanswered' = Unanswered \cup {nextToStart}
    BY <1>0, <1>2 DEF Start, Unanswered, SchedulerInv, TypeOK, Calls
  <2>2. Unanswered \in SUBSET Calls /\ nextToStart \in Calls
    BY <1>0, <1>2 DEF Unanswered, Calls
  <2>3. trace' \in OpenTraces(Unanswered \cup {nextToStart})
    BY <1>2, <2>2, CallObserved DEF Start
  <2> QED BY <2>1, <2>3
<1>3. ASSUME SkipRest, committed + 1 = nextToStart, pc \in {"classify", "commit"}
      PROVE  trace' \in OpenTraces(Unanswered')
  <2>1. Unanswered = {}
    BY <1>0, <1>3 DEF SchedulerInv, Window, NextStages, Calls, Unanswered
  <2>2. Unanswered' = {}
    BY <1>0, <1>3, <2>1 DEF SkipRest, Unanswered, Calls
  <2>3. nextToStart \in 1..(N + 1)
    BY <1>0
  <2>4. Skipped(trace, nextToStart) = trace
    BY <2>1, <2>3, SkippingKeeps
  <2> QED BY <1>3, <2>1, <2>2, <2>4 DEF SkipRest
<1>4. CASE UNCHANGED vars
  BY <1>4 DEF vars, Unanswered
<1>5. CASE Classify
  <2>1. committed + 1 = nextToStart
    BY <1>5 DEF Classify, SchedulerInv, GroupDone
  <2>2. CASE UNCHANGED <<stage, trace>>
    BY <2>2 DEF Unanswered
  <2> QED BY <1>2, <1>3, <1>5, <2>1, <2>2 DEF Classify
<1>6. ASSUME NEW outcome \in {"running", "raw", "final"}, Prepared(outcome)
      PROVE  trace' \in OpenTraces(Unanswered')
  <2>1. Unanswered' = Unanswered
    BY <1>0, <1>6 DEF Prepared, Unanswered, SchedulerInv, TypeOK, Window, NextStages, Calls
  <2> QED BY <1>6, <2>1 DEF Prepared
<1>7. CASE PrepareFails
  <2>1. Unanswered' = Unanswered
    BY <1>0, <1>7 DEF PrepareFails, Unanswered, SchedulerInv, TypeOK, Window, NextStages, Calls
  <2> QED BY <1>7, <2>1 DEF PrepareFails
<1>8. ASSUME NEW concludes \in BOOLEAN, CommitNext(concludes)
      PROVE  trace' \in OpenTraces(Unanswered')
  <2>1. Unanswered' = Unanswered \ {committed + 1} /\ committed + 1 \in Unanswered
    BY <1>8 DEF CommitNext, Settled, Unanswered, SchedulerInv, TypeOK
  <2>2. Unanswered \in SUBSET Calls
    BY DEF Unanswered
  <2>3. trace' \in OpenTraces(Unanswered \ {committed + 1})
    BY <1>8, <2>1, <2>2, ResultObserved DEF CommitNext
  <2> QED BY <2>1, <2>3
<1>9. CASE FinalizeFails
  <2>1. Unanswered' = Unanswered
    BY <1>9 DEF FinalizeFails, Settled, Unanswered, SchedulerInv, TypeOK
  <2> QED BY <1>9, <2>1 DEF FinalizeFails
<1>10. CASE AfterCommit
  <2>1. CASE MayFill /\ Start(nextToStart, "parallel")
    BY <1>2, <2>1 DEF MayFill
  <2>2. CASE SkipRest /\ inFlight = {} /\ ~schedulerFailure
    BY <1>3, <1>10, <2>2, EmptyPoolIsDone DEF AfterCommit
  <2>3. CASE UNCHANGED <<stage, trace>>
    BY <2>3 DEF Unanswered
  <2> QED BY <1>10, <2>1, <2>2, <2>3 DEF AfterCommit
<1>11. ASSUME NEW i \in Calls, NEW outcome \in {"raw", "final", "failed"}, Settle(i, outcome)
       PROVE  trace' \in OpenTraces(Unanswered')
  <2>1. Unanswered' = Unanswered
    BY <1>11 DEF Settle, Unanswered, SchedulerInv, TypeOK
  <2> QED BY <1>11, <2>1 DEF Settle
<1>12. CASE Drained \/ Abort \/ \E i \in Calls : Raced(i)
  BY <1>12 DEF Drained, Abort, Raced, Unanswered
<1> QED
  BY <1>4, <1>5, <1>6, <1>7, <1>8, <1>9, <1>10, <1>11, <1>12 DEF Next, Scheduler, Tools

-----------------------------------------------------------------------------
(* The theorems. *)

\* The scheduler's invariant holds throughout every batch.
THEOREM SchedulerInvariant == Spec => []SchedulerInv
<1>1. Init => SchedulerInv
  BY SchedulerInit
<1>2. SchedulerInv /\ [Next]_vars => SchedulerInv'
  BY SchedulerStep
<1> QED BY <1>1, <1>2, PTL DEF Spec

\* The scheduler's variables keep their types for every batch and pool size.
THEOREM SchedulerTypes == Spec => []TypeOK
<1>1. SchedulerInv => TypeOK
  BY DEF SchedulerInv
<1> QED BY <1>1, SchedulerInvariant, PTL

\* At most maxParallelToolCalls calls are prepared or run at a time: the
\* running ones are in flight, and one is prepared only when there is room.
THEOREM PoolIsBounded == Spec => []PoolBounded
<1>1. SchedulerInv => PoolBounded
  <2> SUFFICES ASSUME SchedulerInv PROVE Cardinality(Running) <= MaxParallel
    BY DEF PoolBounded
  <2>1. /\ IsFiniteSet(inFlight) /\ Cardinality(inFlight) \in Nat
        /\ nextToStart \notin inFlight /\ nextToStart \in Nat /\ MaxParallel \in Nat
    BY FlightIsFinite, CallsAreCounted, PoolIsPositive DEF SchedulerInv, TypeOK, Flight
  <2>2. CASE pc = "prepare"
    <3>1. Running \subseteq inFlight \cup {nextToStart}
      BY <2>2, CallsAreCounted DEF SchedulerInv, TypeOK, Window, Flight, Running, NextStages, Calls
    <3>2. /\ IsFiniteSet(inFlight \cup {nextToStart})
          /\ Cardinality(inFlight \cup {nextToStart}) = Cardinality(inFlight) + 1
      BY <2>1, FS_AddElement
    <3>3. /\ Cardinality(Running) <= Cardinality(inFlight) + 1
          /\ Cardinality(Running) \in Nat
      BY <3>1, <3>2, FS_Subset, FS_CardinalityType
    <3> QED BY <2>1, <2>2, <3>3 DEF SchedulerInv, Flight
  <2>3. CASE pc # "prepare"
    <3>1. Running \subseteq inFlight
      BY <2>3, CallsAreCounted DEF SchedulerInv, TypeOK, Window, Flight, Running, NextStages, Calls
    <3>2. /\ Cardinality(Running) <= Cardinality(inFlight)
          /\ Cardinality(Running) \in Nat
      BY <2>1, <3>1, FS_Subset, FS_CardinalityType
    <3> QED BY <2>1, <3>2 DEF SchedulerInv, Flight
  <2> QED BY <2>2, <2>3
<1> QED BY <1>1, SchedulerInvariant, PTL

\* An exclusive call has no companion, before it or after it.
THEOREM ExclusiveRunsAlone == Spec => []ExclusiveIsBarrier
<1>1. SchedulerInv => ExclusiveIsBarrier
  <2> SUFFICES ASSUME SchedulerInv, NEW i \in Running, ranAs[i] = "exclusive"
               PROVE  /\ \A j \in 1..(i - 1) : stage[j] = "committed"
                      /\ \A j \in (i + 1)..N : stage[j] = "planned"
    BY DEF ExclusiveIsBarrier
  <2>1. committed + 1 = i /\ i = Newest /\ i \in Calls
    BY DEF SchedulerInv, Barrier, Running
  <2>2. \A j \in 1..(i - 1) : stage[j] = "committed"
    BY <2>1, CallsAreCounted DEF SchedulerInv, TypeOK, Window, Calls
  <2>3. \A j \in (i + 1)..N : stage[j] = "planned"
    BY <2>1, CallsAreCounted DEF SchedulerInv, Barrier, Calls
  <2> QED BY <2>2, <2>3
<1> QED BY <1>1, SchedulerInvariant, PTL

\* Results enter the log in the model's order: what has a result is a prefix
\* of the calls, and the skipped ones follow it.
THEOREM ResultsAreOrdered == Spec => []ResultsInOrder
<1>1. SchedulerInv => ResultsInOrder
  <2> SUFFICES ASSUME SchedulerInv,
                      NEW j \in Calls, stage[j] \in {"committed", "skipped"},
                      NEW i \in 1..(j - 1)
               PROVE  stage[i] \in {"committed", "skipped"}
    BY DEF ResultsInOrder
  <2>1. /\ i \in Calls /\ i < j /\ committed \in Nat /\ nextToStart \in Nat
        /\ committed < nextToStart
    BY CallsAreCounted DEF SchedulerInv, TypeOK, Window, Calls
  <2>2. CASE pc = "returned"
    BY <2>1, <2>2 DEF SchedulerInv, Window, GroupDone, NextStages, Calls
  <2>3. CASE pc # "returned"
    <3>1. j <= committed
      BY <2>1, <2>3 DEF SchedulerInv, Window, NextStages, Calls
    <3> QED BY <2>1, <3>1 DEF SchedulerInv, Window, Calls
  <2> QED BY <2>2, <2>3
<1> QED BY <1>1, SchedulerInvariant, PTL

\* The log of a batch is legal: every result follows its call, inside the open
\* step, and what the rules hold outstanding is what the scheduler still owes.
THEOREM BatchLogIsLegal == Spec => []LogLegal
<1>1. Init => LogLegal
  BY TraceInit
<1>2. SchedulerInv /\ LogLegal /\ [Next]_vars => LogLegal'
  BY TraceStep
<1> QED BY <1>1, <1>2, SchedulerInvariant, PTL DEF Spec

\* A batch that returns, aborted or not, leaves no call without its result.
THEOREM AllAnswered == Spec => []ReturnsAllAnswered
<1>1. SchedulerInv /\ LogLegal => ReturnsAllAnswered
  <2> SUFFICES ASSUME SchedulerInv, LogLegal, pc = "returned"
               PROVE  /\ trace.calls = {}
                      /\ \A i \in Calls : stage[i] \in {"committed", "skipped"}
    BY DEF ReturnsAllAnswered
  <2>1. \A i \in Calls : stage[i] \in {"committed", "skipped"}
    BY CallsAreCounted DEF SchedulerInv, TypeOK, Window, NextStages, GroupDone, Calls
  <2>2. Unanswered = {}
    BY <2>1 DEF Unanswered
  <2> QED BY <2>1, <2>2 DEF LogLegal, OpenTraces
<1> QED BY <1>1, SchedulerInvariant, BatchLogIsLegal, PTL

\* A failure reaches the turn only after every dispatched call has settled.
THEOREM ThrowsAreQuiescent == Spec => []ThrowsQuiescent
<1>1. Init => ThrowsQuiescent
  BY DEF Init, ThrowsQuiescent
<1>2. SchedulerInv /\ ThrowsQuiescent /\ [Next]_vars => ThrowsQuiescent'
  <2> SUFFICES ASSUME SchedulerInv, ThrowsQuiescent, [Next]_vars, pc' = "threw"
               PROVE  Running' = {}
    BY DEF ThrowsQuiescent
  <2>1. CASE Drained
    <3>1. \A i \in Calls : stage[i] # "running"
      BY <2>1 DEF Drained, SchedulerInv, Flight
    <3>2. \A i \in Calls : stage[i] # "preparing"
      BY <2>1, CallsAreCounted DEF Drained, SchedulerInv, TypeOK, Window, NextStages, Calls
    <3> QED BY <2>1, <3>1, <3>2 DEF Drained, Running
  <2>2. CASE UNCHANGED <<pc, stage>>
    BY <2>2 DEF ThrowsQuiescent, Running
  <2>3. ASSUME NEW i \in Calls, NEW outcome \in {"raw", "final", "failed"}, Settle(i, outcome)
        PROVE  Running' = {}
    BY <2>3 DEF Settle, ThrowsQuiescent, Running
  <2>4. Drained \/ UNCHANGED <<pc, stage>> \/ Tools
    BY DEF vars, Next, Scheduler, Classify, SkipRest, Start, Prepared, PrepareFails, CommitNext,
           FinalizeFails, AfterCommit, Raced, Abort
  <2> QED BY <2>1, <2>2, <2>3, <2>4 DEF Tools
<1> QED BY <1>1, <1>2, SchedulerInvariant, PTL DEF Spec

\* After the signal has fired or a hook has thrown, no call starts.
THEOREM NoLateStart == Spec => NothingStartsLate
<1>1. SchedulerInv /\ [Next]_vars =>
          [signal \/ schedulerFailure =>
              \A i \in Calls : stage[i] = "planned" => stage'[i] # "preparing"]_vars
  <2> SUFFICES ASSUME SchedulerInv, [Next]_vars, signal \/ schedulerFailure,
                      NEW i \in Calls, stage[i] = "planned", stage'[i] = "preparing"
               PROVE  FALSE
    OBVIOUS
  <2>1. CASE UNCHANGED stage
    BY <2>1
  <2>2. CASE Classify
    BY <2>2 DEF Classify, SkipRest, SchedulerInv, TypeOK, GroupDone
  <2>3. CASE AfterCommit
    BY <2>3 DEF AfterCommit, MayFill, Noticed, SkipRest, SchedulerInv, TypeOK
  <2>4. ASSUME NEW outcome \in {"running", "raw", "final"}, Prepared(outcome)
        PROVE  FALSE
    BY <2>4 DEF Prepared, SchedulerInv, TypeOK
  <2>5. CASE PrepareFails
    BY <2>5 DEF PrepareFails, SchedulerInv, TypeOK
  <2>6. ASSUME NEW c \in BOOLEAN, CommitNext(c) PROVE FALSE
    BY <2>6 DEF CommitNext, SchedulerInv, TypeOK
  <2>7. CASE FinalizeFails
    BY <2>7 DEF FinalizeFails, SchedulerInv, TypeOK
  <2>8. ASSUME NEW k \in Calls, NEW outcome \in {"raw", "final", "failed"}, Settle(k, outcome)
        PROVE  FALSE
    BY <2>8 DEF Settle, SchedulerInv, TypeOK
  <2>9. CASE Drained \/ Abort \/ \E k \in Calls : Raced(k)
    BY <2>1, <2>9 DEF Drained, Abort, Raced
  <2> QED BY <2>1, <2>2, <2>3, <2>4, <2>5, <2>6, <2>7, <2>8, <2>9
          DEF vars, Next, Scheduler, Tools
<1> QED BY <1>1, SchedulerInvariant, PTL DEF Spec, NothingStartsLate
=============================================================================
