-------------------------- MODULE WriteBehindProofs --------------------------
(***************************************************************************)
(* The write-behind controller keeps its invariant for any number of events, *)
(* flushing clients and backend failures, never runs two writes at a time,   *)
(* and implements the durable log it promises.                               *)
(*                                                                          *)
(* ControllerInv is inductive.  The queue, the batch and the log are runs of *)
(* consecutive events, so each action moves the borders between them: the    *)
(* lemmas on Run say what appending, joining and cutting do to those.        *)
(***************************************************************************)
EXTENDS WriteBehind, FiniteSetTheorems, SequenceTheorems, TLAPS

-----------------------------------------------------------------------------
(* Runs of consecutive events. *)

\* A run is a sequence of the numbers from lo up to hi.
LEMMA RunIsSeq ==
    ASSUME NEW lo \in Nat, NEW hi \in Nat, lo <= hi
    PROVE  /\ Run(lo, hi) \in Seq(Nat)
           /\ Len(Run(lo, hi)) = hi - lo
           /\ \A i \in 1..(hi - lo) : Run(lo, hi)[i] = lo + i - 1
           /\ \A top \in Nat : hi <= top => Run(lo, hi) \in Seq(0..(top - 1))
<1>1. hi - lo \in Nat
    OBVIOUS
<1>2. \A i \in 1..(hi - lo) : lo + i - 1 \in Nat /\ lo + i - 1 < hi
    OBVIOUS
<1>3. ASSUME NEW top \in Nat, hi <= top PROVE Run(lo, hi) \in Seq(0..(top - 1))
  <2>1. \A i \in 1..(hi - lo) : lo + i - 1 \in 0..(top - 1)
    BY <1>3, <1>2
  <2>. QED
    BY <2>1, <1>1 DEF Run
<1>. QED
    BY <1>1, <1>2, <1>3 DEF Run

\* A run of no length is empty.
LEMMA RunEmpty ==
    ASSUME NEW n \in Nat
    PROVE  Run(n, n) = <<>>
BY RunIsSeq DEF Run

\* The next event prolongs a run (emit).
LEMMA RunAppend ==
    ASSUME NEW lo \in Nat, NEW hi \in Nat, lo <= hi
    PROVE  Append(Run(lo, hi), hi) = Run(lo, hi + 1)
<1>1. /\ Run(lo, hi) \in Seq(Nat) /\ Len(Run(lo, hi)) = hi - lo
      /\ \A i \in 1..(hi - lo) : Run(lo, hi)[i] = lo + i - 1
    BY RunIsSeq
<1>2. /\ Run(lo, hi + 1) \in Seq(Nat) /\ Len(Run(lo, hi + 1)) = hi + 1 - lo
      /\ \A i \in 1..(hi + 1 - lo) : Run(lo, hi + 1)[i] = lo + i - 1
    BY RunIsSeq
<1>3. Append(Run(lo, hi), hi) \in Seq(Nat) /\ Len(Append(Run(lo, hi), hi)) = hi + 1 - lo
    BY <1>1
<1>4. ASSUME NEW i \in 1..(hi + 1 - lo)
      PROVE  Append(Run(lo, hi), hi)[i] = Run(lo, hi + 1)[i]
    BY <1>1, <1>2
<1>. DEFINE longer == Append(Run(lo, hi), hi)
            run == Run(lo, hi + 1)
<1>5. longer \in Seq(Nat) /\ run \in Seq(Nat) /\ Len(longer) = hi + 1 - lo /\ Len(run) = hi + 1 - lo
      /\ \A i \in 1..(hi + 1 - lo) : longer[i] = run[i]
    BY <1>2, <1>3, <1>4
<1>. HIDE DEF longer, run
<1>6. longer = run
    BY <1>5, SeqEqual
<1>. QED
    BY <1>6 DEF longer, run

\* Two adjacent runs are one (a batch after the log, a batch put back before the
\* queue).
LEMMA RunJoin ==
    ASSUME NEW lo \in Nat, NEW mid \in Nat, NEW hi \in Nat, lo <= mid, mid <= hi
    PROVE  Run(lo, mid) \o Run(mid, hi) = Run(lo, hi)
<1>1. /\ Run(lo, mid) \in Seq(Nat) /\ Len(Run(lo, mid)) = mid - lo
      /\ \A i \in 1..(mid - lo) : Run(lo, mid)[i] = lo + i - 1
    BY RunIsSeq
<1>2. /\ Run(mid, hi) \in Seq(Nat) /\ Len(Run(mid, hi)) = hi - mid
      /\ \A i \in 1..(hi - mid) : Run(mid, hi)[i] = mid + i - 1
    BY RunIsSeq
<1>3. /\ Run(lo, hi) \in Seq(Nat) /\ Len(Run(lo, hi)) = hi - lo
      /\ \A i \in 1..(hi - lo) : Run(lo, hi)[i] = lo + i - 1
    BY RunIsSeq
<1>. DEFINE left == Run(lo, mid)
            right == Run(mid, hi)
<1>4. left \in Seq(Nat) /\ right \in Seq(Nat) /\ Len(left) = mid - lo /\ Len(right) = hi - mid
    BY <1>1, <1>2
<1>. HIDE DEF left, right
<1>. DEFINE joined == left \o right
<1>5. /\ joined \in Seq(Nat) /\ Len(joined) = (mid - lo) + (hi - mid)
      /\ \A i \in 1..(mid - lo) + (hi - mid) : joined[i] =
            IF i <= mid - lo THEN left[i] ELSE right[i - (mid - lo)]
  <2>1. /\ joined \in Seq(Nat) /\ Len(joined) = Len(left) + Len(right)
        /\ \A i \in 1..Len(left) + Len(right) : joined[i] =
              IF i <= Len(left) THEN left[i] ELSE right[i - Len(left)]
    BY <1>4, ConcatProperties, Zenon DEF joined
  <2>. HIDE DEF joined
  <2>. QED
    BY <2>1, <1>4
<1>. HIDE DEF joined
<1>6. ASSUME NEW i \in 1..(hi - lo)
      PROVE  joined[i] = Run(lo, hi)[i]
  <2>1. CASE i <= mid - lo
    BY <2>1, <1>1, <1>3, <1>5 DEF left
  <2>2. CASE i > mid - lo
    <3>1. i - (mid - lo) \in 1..(hi - mid)
      BY <2>2
    <3>2. joined[i] = mid + (i - (mid - lo)) - 1
      BY <3>1, <2>2, <1>2, <1>5 DEF right
    <3>. QED
      BY <3>1, <3>2, <1>3
  <2>. QED
    BY <2>1, <2>2
<1>7. joined = Run(lo, hi)
  <2>. DEFINE run == Run(lo, hi)
  <2>1. run \in Seq(Nat) /\ Len(run) = Len(joined) /\ \A i \in 1..Len(joined) : joined[i] = run[i]
    BY <1>3, <1>5, <1>6
  <2>. HIDE DEF run
  <2>2. joined = run
    BY <1>5, <2>1, SeqEqual
  <2>. QED
    BY <2>2 DEF run
<1>. QED
    BY <1>7 DEF joined, left, right

\* What is left of a run when its beginning is cut off.
LEMMA RunCut ==
    ASSUME NEW lo \in Nat, NEW mid \in Nat, NEW hi \in Nat, lo <= mid, mid <= hi
    PROVE  SubSeq(Run(lo, hi), mid - lo + 1, Len(Run(lo, hi))) = Run(mid, hi)
<1>1. /\ Run(lo, hi) \in Seq(Nat) /\ Len(Run(lo, hi)) = hi - lo
      /\ \A i \in 1..(hi - lo) : Run(lo, hi)[i] = lo + i - 1
    BY RunIsSeq
<1>2. /\ Run(mid, hi) \in Seq(Nat) /\ Len(Run(mid, hi)) = hi - mid
      /\ \A i \in 1..(hi - mid) : Run(mid, hi)[i] = mid + i - 1
    BY RunIsSeq
<1>. DEFINE cut == SubSeq(Run(lo, hi), mid - lo + 1, hi - lo)
<1>3. cut \in Seq(Nat) /\ Len(cut) = hi - mid
    BY <1>1
<1>4. ASSUME NEW i \in 1..(hi - mid) PROVE cut[i] = Run(mid, hi)[i]
    BY <1>1, <1>2
<1>5. cut = Run(mid, hi)
  <2>. HIDE DEF cut
  <2>. QED
    BY <1>2, <1>3, <1>4
<1>. QED
    BY <1>1, <1>5

\* How many events of a run precede the cursor.
LEMMA RunPassed ==
    ASSUME NEW lo \in Nat, NEW hi \in Nat, NEW c \in Nat, lo <= hi, lo <= c
    PROVE  Cardinality({i \in 1..Len(Run(lo, hi)) : Run(lo, hi)[i] < c}) =
           IF c <= hi THEN c - lo ELSE hi - lo
<1>. DEFINE last == IF c <= hi THEN c - lo ELSE hi - lo
<1>1. /\ Len(Run(lo, hi)) = hi - lo
      /\ \A i \in 1..(hi - lo) : Run(lo, hi)[i] = lo + i - 1
    BY RunIsSeq
<1>2. {i \in 1..Len(Run(lo, hi)) : Run(lo, hi)[i] < c} = 1..last
    BY <1>1
<1>3. last \in Nat
    OBVIOUS
<1>4. Cardinality(1..last) = last
  <2>. HIDE DEF last
  <2>. QED
    BY <1>3, FS_Interval
<1>. QED
    BY <1>2, <1>4

-----------------------------------------------------------------------------
(* The parts of the invariant that carry the others through a step. *)

Core == TypeOK /\ QueuesAreRuns /\ OneWriter /\ Continued /\ BarriersHold /\ StoredIsPrefix

\* What a write makes durable continues the log exactly: the events a batch and the
\* log share lead the batch.
LEMMA FreshContinues ==
    ASSUME Core, active.stage = "writing", init = "ready"
    PROVE  /\ Contiguous
           /\ stored \o Fresh = Run(0, IF Cursor <= FirstQueued THEN FirstQueued ELSE Cursor)
           /\ FirstQueued \in Nat /\ FirstQueued <= emitted
           /\ Cursor \in Nat /\ Cursor <= emitted
<1>. DEFINE lo == FirstOwed
            hi == FirstQueued
            start == IF Cursor <= hi THEN Cursor ELSE hi
<1>1. emitted \in Nat /\ Len(pending) \in Nat /\ Len(batch) \in Nat /\ Cursor \in Nat
    BY BoundsAreNaturals DEF Core, TypeOK, Cursor
<1>2. hi \in Nat /\ hi <= emitted /\ Len(batch) <= hi /\ lo = hi - Len(batch)
    BY <1>1 DEF Core, QueuesAreRuns, FirstQueued, FirstOwed
<1>3. /\ lo \in Nat /\ lo <= hi /\ batch = Run(lo, hi) /\ lo <= Cursor
      /\ stored = Run(0, Cursor) /\ Cursor <= emitted
    BY <1>1, <1>2 DEF Core, QueuesAreRuns, StoredIsPrefix
<1>. HIDE DEF lo, hi
<1>4. start \in Nat /\ lo <= start /\ start <= hi
    BY <1>1, <1>2, <1>3
<1>5. Cardinality({i \in 1..Len(batch) : batch[i] < Cursor}) = start - lo
  <2>1. Cardinality({i \in 1..Len(Run(lo, hi)) : Run(lo, hi)[i] < Cursor}) = start - lo
    BY <1>1, <1>2, <1>3, RunPassed
  <2>. QED
    BY <2>1, <1>3
<1>6. Fresh = SubSeq(batch, start - lo + 1, Len(batch))
    BY <1>5 DEF Fresh
<1>7. Fresh = Run(start, hi)
  <2>1. SubSeq(Run(lo, hi), start - lo + 1, Len(Run(lo, hi))) = Run(start, hi)
    BY <1>2, <1>3, <1>4, RunCut
  <2>. QED
    BY <2>1, <1>3, <1>6
<1>8. Len(Fresh) = hi - start /\ \A i \in 1..(hi - start) : Fresh[i] = start + i - 1
    BY <1>2, <1>4, <1>7, RunIsSeq
<1>9. Contiguous
    BY <1>1, <1>2, <1>8 DEF Contiguous
<1>10. stored \o Fresh = Run(0, IF Cursor <= hi THEN hi ELSE Cursor)
  <2>1. CASE Cursor <= hi
    <3>1. Fresh = Run(Cursor, hi)
      BY <2>1, <1>7
    <3>2. Run(0, Cursor) \o Run(Cursor, hi) = Run(0, hi)
      <4>1. 0 \in Nat /\ 0 <= Cursor /\ Cursor \in Nat /\ hi \in Nat /\ Cursor <= hi
        BY <2>1, <1>1, <1>2
      <4>. QED
        BY <4>1, RunJoin, Zenon
    <3>. QED
      BY <2>1, <3>1, <3>2, <1>3
  <2>2. CASE ~(Cursor <= hi)
    <3>1. Fresh = <<>>
      BY <2>2, <1>2, <1>7, RunEmpty
    <3>2. stored \in Seq(Nat)
      BY <1>1, <1>3, RunIsSeq
    <3>. QED
      BY <2>2, <3>1, <3>2, <1>3
  <2>. QED
    BY <2>1, <2>2
<1>. QED
    BY <1>1, <1>2, <1>3, <1>9, <1>10 DEF hi

\* A write that takes the whole queue moves the border, not what is owed.
LEMMA StartWriteKeeps ==
    ASSUME Core, ~ActiveWrite, NEW isBackground \in BOOLEAN, StartWrite(isBackground),
           UNCHANGED <<emitted, init, stored>>
    PROVE  QueuesAreRuns'
<1>1. emitted \in Nat /\ Len(pending) \in Nat /\ pending \in Seq(0..(MaxEvents - 1))
    BY BoundsAreNaturals DEF Core, TypeOK
<1>2. FirstQueued' = emitted /\ FirstOwed' = FirstQueued /\ FirstOwed = FirstQueued
    BY <1>1 DEF StartWrite, ActiveWrite, FirstQueued, FirstOwed
<1>3. pending' = Run(emitted, emitted) /\ Len(pending') = 0
    BY <1>1, RunEmpty DEF StartWrite
<1>4. batch' = Run(FirstQueued, emitted) /\ Len(batch') <= emitted
    BY DEF Core, QueuesAreRuns, StartWrite
<1>. QED
    BY <1>1, <1>2, <1>3, <1>4 DEF Core, QueuesAreRuns, Cursor

\* A failed batch is joined to the front of the queue again.
LEMMA RetainKeeps ==
    ASSUME Core, active.stage = "writing", RetainBatch, UNCHANGED <<emitted, init, stored, batch>>
    PROVE  QueuesAreRuns' /\ pending' \in Seq(0..(MaxEvents - 1))
<1>1. emitted \in Nat /\ Len(pending) \in Nat /\ Len(batch) \in Nat /\ emitted <= MaxEvents
      /\ MaxEvents \in Nat
    BY BoundsAreNaturals DEF Core, TypeOK
<1>2. FirstQueued \in Nat /\ FirstOwed \in Nat /\ FirstOwed <= FirstQueued /\ FirstQueued <= emitted
    BY <1>1 DEF Core, QueuesAreRuns, FirstQueued, FirstOwed
<1>3. pending' = Run(FirstOwed, emitted)
  <2>1. Run(FirstOwed, FirstQueued) \o Run(FirstQueued, emitted) = Run(FirstOwed, emitted)
    BY <1>1, <1>2, RunJoin
  <2>. QED
    BY <2>1 DEF Core, QueuesAreRuns, RetainBatch
<1>4. Len(pending') = emitted - FirstOwed /\ pending' \in Seq(0..(MaxEvents - 1))
  <2>1. FirstOwed <= emitted
    BY <1>1, <1>2
  <2>2. /\ Len(Run(FirstOwed, emitted)) = emitted - FirstOwed
        /\ Run(FirstOwed, emitted) \in Seq(0..(MaxEvents - 1))
    BY <1>1, <1>2, <2>1, RunIsSeq
  <2>. QED
    BY <2>2, <1>3
<1>5. FirstQueued' = FirstOwed
    BY <1>1, <1>2, <1>4 DEF FirstQueued
<1>6. active'.stage = "caught"
    BY DEF RetainBatch, Core, TypeOK
<1>7. FirstOwed' = FirstOwed
    BY <1>5, <1>6 DEF FirstOwed
<1>8. QueuesAreRuns'
  <2>1. Len(pending') <= emitted' /\ pending' = Run(FirstQueued', emitted')
    BY <1>1, <1>2, <1>3, <1>4, <1>5
  <2>2. /\ SeedLength <= emitted' /\ (init' # "ready" => stored' = <<>>)
        /\ (init' = "pending" => FirstOwed' <= SeedLength)
        /\ (init' = "ready" => FirstOwed' <= Cursor')
    BY <1>7 DEF Core, QueuesAreRuns, Cursor
  <2>. QED
    BY <2>1, <2>2, <1>6 DEF QueuesAreRuns
<1>. QED
    BY <1>4, <1>8

-----------------------------------------------------------------------------
(* Every step keeps every part. *)

Flushes == [Callers -> [state : {"idle", "init", "barrier", "durable", "failed"}, upTo : Nat]]

\* What settling a barrier does to its callers and to the others.
LEMMA ReleasedType ==
    ASSUME flushes \in Flushes, NEW joined \in SUBSET Callers,
           NEW outcome \in {"barrier", "durable", "failed"}
    PROVE  /\ Released(joined, outcome) \in Flushes
           /\ \A c \in Callers :
                 Released(joined, outcome)[c] =
                     [state |-> IF flushes[c].state = "barrier" \/ c \in joined
                                THEN outcome ELSE flushes[c].state,
                      upTo  |-> flushes[c].upTo]
BY DEF Released, Flushes

\* A write that starts leaves well-typed variables.
LEMMA StartWriteType ==
    ASSUME TypeOK, NEW isBackground \in BOOLEAN, StartWrite(isBackground)
    PROVE  /\ pending' \in Seq(0..(MaxEvents - 1))
           /\ batch' \in Seq(0..(MaxEvents - 1))
           /\ active' \in [stage : {"none", "writing", "wrote", "caught"}, background : BOOLEAN]
           /\ timer' \in BOOLEAN /\ deadlineExpired' \in BOOLEAN
<1>1. timer' \in BOOLEAN /\ deadlineExpired' \in BOOLEAN
    BY Zenon DEF StartWrite
<1>2. pending' \in Seq(0..(MaxEvents - 1)) /\ batch' \in Seq(0..(MaxEvents - 1))
    BY DEF TypeOK, StartWrite
<1>3. active' \in [stage : {"none", "writing", "wrote", "caught"}, background : BOOLEAN]
    BY DEF StartWrite
<1>. QED
    BY <1>1, <1>2, <1>3

\* Every step keeps the types.
LEMMA TypeStep ==
    ASSUME Core, [Next]_vars
    PROVE  TypeOK'
<1>. USE DEF Core
<1>0. CASE UNCHANGED vars
    BY <1>0 DEF TypeOK, vars
<1>1. CASE InitSucceeds
  <2>1. Run(0, SeedLength) \in Seq(0..(MaxEvents - 1))
    BY BoundsAreNaturals, RunIsSeq
  <2>. QED
    BY <2>1, <1>1 DEF InitSucceeds, TypeOK, controller
<1>2. CASE InitFails
    BY <1>2, BoundsAreNaturals DEF InitFails, TypeOK, controller
<1>3. CASE Enqueue
  <2>1. emitted \in 0..(MaxEvents - 1) /\ emitted + 1 \in 0..MaxEvents
    BY <1>3, BoundsAreNaturals DEF Enqueue, TypeOK
  <2>2. pending' \in Seq(0..(MaxEvents - 1))
    BY <2>1, <1>3 DEF Enqueue, TypeOK
  <2>3. timer' \in BOOLEAN /\ deadlineExpired' \in BOOLEAN /\ automaticPaused' \in BOOLEAN
    BY <1>3, Zenon DEF Enqueue, TypeOK
  <2>. QED
    BY <2>1, <2>2, <2>3, <1>3 DEF Enqueue, TypeOK
<1>4. CASE Deadline
  <2>1. CASE ActiveWrite
    BY <1>4, <2>1 DEF Deadline, TypeOK
  <2>2. CASE ~ActiveWrite
    BY <1>4, <2>2, StartWriteType DEF Deadline, TypeOK
  <2>. QED
    BY <2>1, <2>2
<1>5. CASE WriteSucceeds
  <2>1. FirstQueued <= MaxEvents /\ Cursor <= MaxEvents
    BY <1>5, FreshContinues, BoundsAreNaturals DEF WriteSucceeds, TypeOK
  <2>2. stored' \in Seq(0..(MaxEvents - 1))
    <3>. DEFINE end == IF Cursor <= FirstQueued THEN FirstQueued ELSE Cursor
    <3>1. end \in Nat /\ end <= MaxEvents /\ stored' = Run(0, end) /\ 0 <= end
      BY <1>5, <2>1, FreshContinues DEF WriteSucceeds
    <3>. HIDE DEF end
    <3>. QED
      BY <3>1, RunIsSeq, BoundsAreNaturals
  <2>3. active' \in [stage : {"none", "writing", "wrote", "caught"}, background : BOOLEAN]
    BY <1>5 DEF WriteSucceeds, TypeOK
  <2>. QED
    BY <2>2, <2>3, <1>5 DEF WriteSucceeds, TypeOK
<1>6. CASE WriteFails
  <2>1. pending' \in Seq(0..(MaxEvents - 1))
    BY <1>6, RetainKeeps DEF WriteFails
  <2>2. failures' \in 0..MaxFailures
    BY <1>6, BoundsAreNaturals DEF WriteFails, TypeOK
  <2>3. /\ timer' \in BOOLEAN /\ deadlineExpired' \in BOOLEAN /\ automaticPaused' \in BOOLEAN
        /\ active' \in [stage : {"none", "writing", "wrote", "caught"}, background : BOOLEAN]
    BY <1>6 DEF WriteFails, RetainBatch, TypeOK
  <2>. QED
    BY <2>1, <2>2, <2>3, <1>6 DEF WriteFails, TypeOK
<1>7. CASE WriteFinally
  <2>1. Continues \in BOOLEAN
    BY DEF Continues, TypeOK
  <2>. QED
    BY <2>1, <1>7 DEF WriteFinally, NoWrite, TypeOK
<1>8. CASE ContinueAutomatic
    BY <1>8, StartWriteType DEF ContinueAutomatic, TypeOK
<1>9. ASSUME DrainLoop PROVE
        /\ pending' \in Seq(0..(MaxEvents - 1)) /\ batch' \in Seq(0..(MaxEvents - 1))
        /\ active' \in [stage : {"none", "writing", "wrote", "caught"}, background : BOOLEAN]
        /\ timer' \in BOOLEAN /\ deadlineExpired' \in BOOLEAN
        /\ drain' \in {"none", "write"} /\ flushes' \in Flushes
  <2>1. flushes \in Flushes
    BY DEF TypeOK, Flushes
  <2>2. CASE DrainWrites({})
    BY <2>1, <2>2, ReleasedType, StartWriteType DEF DrainWrites
  <2>3. CASE DrainCloses({}) /\ UNCHANGED <<timer, deadlineExpired>>
    BY <2>1, <2>3, ReleasedType DEF DrainCloses, TypeOK
  <2>. QED
    BY <2>2, <2>3, <1>9 DEF DrainLoop
<1>10. CASE DrainAfterOverlap
    BY <1>9, <1>10 DEF DrainAfterOverlap, TypeOK, Flushes
<1>11. CASE DrainAfterWrite
    BY <1>9, <1>11 DEF DrainAfterWrite, TypeOK, Flushes
<1>12. CASE DrainRejects
  <2>1. flushes' \in Flushes
    BY <1>12, ReleasedType DEF DrainRejects, TypeOK, Flushes
  <2>. QED
    BY <2>1, <1>12 DEF DrainRejects, TypeOK, Flushes
<1>13. ASSUME NEW c \in Callers, FlushCall(c) PROVE TypeOK'
  <2>1. flushes' \in Flushes
    BY <1>13, BoundsAreNaturals DEF FlushCall, TypeOK, Flushes
  <2>. QED
    BY <2>1, <1>13 DEF FlushCall, TypeOK, Flushes
<1>14. ASSUME NEW c \in Callers, FlushInitFailed(c) PROVE TypeOK'
  <2>1. flushes' \in Flushes
    BY <1>14 DEF FlushInitFailed, TypeOK, Flushes
  <2>. QED
    BY <2>1, <1>14 DEF FlushInitFailed, TypeOK, Flushes
<1>15. ASSUME NEW c \in Callers, FlushProceeds(c) PROVE TypeOK'
  <2>1. flushes \in Flushes /\ {c} \in SUBSET Callers
    BY DEF TypeOK, Flushes
  <2>2. CASE drain # "none" \/ ActiveWrite
    <3>1. flushes' = [flushes EXCEPT ![c].state = "barrier"]
      BY <1>15, <2>2 DEF FlushProceeds
    <3>2. flushes' \in Flushes
      BY <3>1, <2>1 DEF Flushes
    <3>3. /\ drain' \in {"none", "overlap", "write", "done", "broken"}
          /\ timer' \in BOOLEAN /\ deadlineExpired' \in BOOLEAN /\ automaticPaused' \in BOOLEAN
          /\ UNCHANGED <<pending, batch, active>>
      BY <1>15, <2>2 DEF FlushProceeds, TypeOK
    <3>. QED
      BY <3>2, <3>3, <1>15 DEF FlushProceeds, TypeOK, Flushes
  <2>3. CASE drain = "none" /\ ~ActiveWrite /\ DrainWrites({c})
    <3>1. flushes' \in Flushes
      BY <2>1, <2>3, ReleasedType DEF DrainWrites
    <3>2. automaticPaused' = FALSE
      BY <1>15, <2>3 DEF FlushProceeds
    <3>. QED
      BY <3>1, <3>2, <2>3, <1>15, StartWriteType DEF FlushProceeds, DrainWrites, TypeOK, Flushes
  <2>4. CASE drain = "none" /\ ~ActiveWrite /\ DrainCloses({c}) /\ timer' = FALSE /\ deadlineExpired' = FALSE
    <3>1. flushes' \in Flushes
      BY <2>1, <2>4, ReleasedType DEF DrainCloses
    <3>2. automaticPaused' = FALSE
      BY <1>15, <2>4 DEF FlushProceeds
    <3>. QED
      BY <3>1, <3>2, <2>4, <1>15 DEF FlushProceeds, DrainCloses, TypeOK, Flushes
  <2>. QED
    BY <1>15, <2>2, <2>3, <2>4 DEF FlushProceeds
<1>. QED
    BY <1>0, <1>1, <1>2, <1>3, <1>4, <1>5, <1>6, <1>7, <1>8, <1>10, <1>11, <1>12,
       <1>13, <1>14, <1>15, Zenon DEF Next, Write, Reaction

\* The steps that leave events, batch and queue alone keep what they are.
LEMMA RunsUntouched ==
    ASSUME Core, UNCHANGED <<emitted, init, stored, pending>>,
           \/ UNCHANGED <<batch, active>>
           \/ active.stage # "writing" /\ active'.stage # "writing"
    PROVE  QueuesAreRuns' /\ StoredIsPrefix'
<1>1. FirstQueued' = FirstQueued /\ FirstOwed' = FirstOwed /\ Cursor' = Cursor
    BY DEF FirstQueued, FirstOwed, Cursor
<1>. QED
    BY <1>1 DEF Core, QueuesAreRuns, StoredIsPrefix

\* A write is only started when none is active.
LEMMA OnlyWriter ==
    ASSUME Core
    PROVE  /\ ContinueAutomatic /\ active' # active => ~ActiveWrite
           /\ DrainAfterOverlap \/ DrainAfterWrite => ~ActiveWrite
BY DEF Core, OneWriter, ContinueAutomatic, DrainAfterOverlap, DrainAfterWrite

\* Every step keeps the log, the batch and the queue adjacent runs.
LEMMA RunsStep ==
    ASSUME Core, [Next]_vars
    PROVE  QueuesAreRuns' /\ StoredIsPrefix'
<1>0. CASE UNCHANGED vars
    BY <1>0, RunsUntouched DEF vars
<1>1. CASE InitSucceeds
  <2>1. stored = <<>> /\ stored' = Run(0, SeedLength) /\ SeedLength \in Nat
    BY <1>1, BoundsAreNaturals DEF InitSucceeds, Core, QueuesAreRuns
  <2>2. Cursor' = SeedLength /\ SeedLength <= emitted /\ FirstOwed <= SeedLength
    BY <2>1, <1>1, RunIsSeq DEF InitSucceeds, Cursor, Core, QueuesAreRuns
  <2>3. FirstQueued' = FirstQueued /\ FirstOwed' = FirstOwed
    BY <1>1 DEF InitSucceeds, controller, FirstQueued, FirstOwed
  <2>. QED
    BY <2>1, <2>2, <2>3, <1>1
       DEF InitSucceeds, controller, Core, QueuesAreRuns, StoredIsPrefix
<1>2. CASE InitFails
  <2>1. FirstQueued' = FirstQueued /\ FirstOwed' = FirstOwed /\ Cursor' = Cursor
    BY <1>2 DEF InitFails, controller, FirstQueued, FirstOwed, Cursor
  <2>. QED
    BY <2>1, <1>2 DEF InitFails, controller, Core, QueuesAreRuns, StoredIsPrefix
<1>3. CASE Enqueue
  <2>1. /\ emitted \in Nat /\ Len(pending) \in Nat /\ SeedLength <= emitted
        /\ Len(pending) <= emitted /\ pending = Run(FirstQueued, emitted)
        /\ pending \in Seq(0..(MaxEvents - 1))
    BY BoundsAreNaturals DEF Core, TypeOK, QueuesAreRuns
  <2>2. FirstQueued \in Nat /\ FirstQueued <= emitted
    BY <2>1 DEF FirstQueued
  <2>3. /\ pending' = Run(FirstQueued, emitted + 1)
        /\ Len(pending') = Len(pending) + 1 /\ emitted' = emitted + 1
    <3>1. Append(Run(FirstQueued, emitted), emitted) = Run(FirstQueued, emitted + 1)
      BY <2>1, <2>2, RunAppend
    <3>2. pending' = Append(pending, emitted) /\ emitted' = emitted + 1
      BY <1>3 DEF Enqueue
    <3>. QED
      BY <3>1, <3>2, <2>1
  <2>4. FirstQueued' = FirstQueued
    BY <2>1, <2>3 DEF FirstQueued
  <2>5. FirstOwed' = FirstOwed /\ Cursor' = Cursor
    BY <2>4, <1>3 DEF Enqueue, FirstOwed, Cursor
  <2>6. StoredIsPrefix'
    BY <2>1, <2>3, <2>5, <1>3 DEF Enqueue, Core, TypeOK, StoredIsPrefix, Cursor
  <2>7. /\ SeedLength <= emitted' /\ Len(pending') <= emitted'
        /\ pending' = Run(FirstQueued', emitted')
    BY <2>1, <2>3, <2>4, BoundsAreNaturals
  <2>. QED
    BY <2>4, <2>5, <2>6, <2>7, <1>3 DEF Enqueue, Core, QueuesAreRuns
<1>4. CASE Deadline
  <2>1. CASE ActiveWrite
    BY <2>1, <1>4, RunsUntouched DEF Deadline
  <2>2. CASE ~ActiveWrite
    <3>1. QueuesAreRuns'
      BY <2>2, <1>4, StartWriteKeeps DEF Deadline
    <3>. QED
      BY <3>1, <1>4 DEF Deadline, Core, StoredIsPrefix, Cursor
  <2>. QED
    BY <2>1, <2>2
<1>5. CASE WriteSucceeds
  <2>. DEFINE end == IF Cursor <= FirstQueued THEN FirstQueued ELSE Cursor
  <2>1. /\ end \in Nat /\ end <= emitted /\ FirstQueued <= end /\ stored' = Run(0, end)
    BY <1>5, FreshContinues DEF WriteSucceeds
  <2>. HIDE DEF end
  <2>2. Cursor' = end
    BY <2>1, RunIsSeq DEF Cursor
  <2>3. active'.stage = "wrote"
    BY <1>5 DEF WriteSucceeds, Core, TypeOK
  <2>4. FirstQueued' = FirstQueued /\ FirstOwed' = FirstQueued
    BY <1>5, <2>3 DEF WriteSucceeds, FirstQueued, FirstOwed
  <2>. QED
    BY <2>1, <2>2, <2>3, <2>4, <1>5 DEF WriteSucceeds, Core, QueuesAreRuns, StoredIsPrefix
<1>6. CASE WriteFails
  <2>1. QueuesAreRuns'
    BY <1>6, RetainKeeps DEF WriteFails
  <2>. QED
    BY <2>1, <1>6 DEF WriteFails, Core, StoredIsPrefix, Cursor
<1>7. CASE WriteFinally
    BY <1>7, RunsUntouched DEF WriteFinally, NoWrite
<1>8. CASE ContinueAutomatic
  <2>1. CASE drain = "none" /\ StartWrite(TRUE)
    <3>1. ~ActiveWrite
      BY <2>1, <1>8 DEF ContinueAutomatic, Core, OneWriter
    <3>2. QueuesAreRuns'
      BY <3>1, <2>1, <1>8, StartWriteKeeps DEF ContinueAutomatic
    <3>. QED
      BY <3>2, <1>8 DEF ContinueAutomatic, Core, StoredIsPrefix, Cursor
  <2>2. CASE UNCHANGED <<pending, batch, active>>
    BY <2>2, <1>8, RunsUntouched DEF ContinueAutomatic
  <2>. QED
    BY <2>1, <2>2, <1>8 DEF ContinueAutomatic
<1>9. ASSUME NEW joined \in SUBSET Callers, DrainWrites(joined) \/ DrainCloses(joined),
             ~ActiveWrite, UNCHANGED <<emitted, init, stored>>
      PROVE  QueuesAreRuns' /\ StoredIsPrefix'
  <2>1. CASE DrainWrites(joined)
    <3>1. QueuesAreRuns'
      BY <2>1, <1>9, StartWriteKeeps DEF DrainWrites
    <3>. QED
      BY <3>1, <1>9 DEF Core, StoredIsPrefix, Cursor
  <2>2. CASE DrainCloses(joined)
    BY <2>2, <1>9, RunsUntouched DEF DrainCloses
  <2>. QED
    BY <2>1, <2>2, <1>9
<1>10. CASE DrainAfterOverlap
    BY <1>9, <1>10 DEF DrainAfterOverlap, DrainLoop
<1>11. CASE DrainAfterWrite
    BY <1>9, <1>11, OnlyWriter DEF DrainAfterWrite, DrainLoop
<1>12. CASE DrainRejects
    BY <1>12, RunsUntouched DEF DrainRejects
<1>13. ASSUME NEW c \in Callers, FlushCall(c) \/ FlushInitFailed(c)
       PROVE QueuesAreRuns' /\ StoredIsPrefix'
    BY <1>13, RunsUntouched DEF FlushCall, FlushInitFailed
<1>14. ASSUME NEW c \in Callers, FlushProceeds(c)
       PROVE QueuesAreRuns' /\ StoredIsPrefix'
  <2>1. CASE UNCHANGED <<pending, batch, active>>
    BY <2>1, <1>14, RunsUntouched DEF FlushProceeds
  <2>2. CASE ~ActiveWrite /\ (DrainWrites({c}) \/ DrainCloses({c}))
    BY <2>2, <1>9, <1>14 DEF FlushProceeds
  <2>. QED
    BY <2>1, <2>2, <1>14 DEF FlushProceeds
<1>. QED
    BY <1>0, <1>1, <1>2, <1>3, <1>4, <1>5, <1>6, <1>7, <1>8, <1>10, <1>11, <1>12,
       <1>13, <1>14, Zenon DEF Next, Write, Reaction

\* Every step keeps one writer.
LEMMA WriterStep ==
    ASSUME Core, [Next]_vars
    PROVE  OneWriter'
<1>. USE DEF ActiveWrite
<1>0. CASE UNCHANGED vars
    BY <1>0 DEF Core, OneWriter, vars
<1>1. CASE InitSucceeds \/ InitFails
    BY <1>1 DEF InitSucceeds, InitFails, controller, Core, OneWriter
<1>2. CASE Enqueue
    BY <1>2 DEF Enqueue, Core, OneWriter
<1>3. CASE Deadline
    BY <1>3 DEF Deadline, StartWrite, ReactionQueued, Core, OneWriter, TypeOK
<1>4. CASE WriteSucceeds
    BY <1>4 DEF WriteSucceeds, Core, OneWriter, TypeOK
<1>5. CASE WriteFails
    BY <1>5 DEF WriteFails, RetainBatch, Core, OneWriter, TypeOK
<1>6. CASE WriteFinally
    BY <1>6 DEF WriteFinally, NoWrite, Core, OneWriter, TypeOK
<1>7. CASE ContinueAutomatic
    BY <1>7 DEF ContinueAutomatic, StartWrite, Core, OneWriter
<1>8. CASE DrainAfterOverlap
    BY <1>8 DEF DrainAfterOverlap, DrainLoop, DrainWrites, DrainCloses, StartWrite, Core, OneWriter
<1>9. CASE DrainAfterWrite
    BY <1>9 DEF DrainAfterWrite, DrainLoop, DrainWrites, DrainCloses, StartWrite, Core, OneWriter
<1>10. CASE DrainRejects
    BY <1>10 DEF DrainRejects, Core, OneWriter
<1>11. ASSUME NEW c \in Callers, FlushCall(c) \/ FlushInitFailed(c) PROVE OneWriter'
    BY <1>11 DEF FlushCall, FlushInitFailed, Core, OneWriter
<1>12. ASSUME NEW c \in Callers, FlushProceeds(c) PROVE OneWriter'
    BY <1>12 DEF FlushProceeds, DrainWrites, DrainCloses, StartWrite, Core, OneWriter
<1>. QED
    BY <1>0, <1>1, <1>2, <1>3, <1>4, <1>5, <1>6, <1>7, <1>8, <1>9, <1>10, <1>11, <1>12,
       Zenon DEF Next, Write, Reaction

\* Every step keeps what the flushing callers wait for.
LEMMA BarriersStep ==
    ASSUME Core, [Next]_vars
    PROVE  BarriersHold'
<1>0. /\ flushes \in Flushes /\ emitted \in Nat
      /\ \A c \in Callers : flushes[c].upTo <= emitted /\ flushes[c].upTo \in Nat
      /\ \A c \in Callers : flushes[c].state = "barrier" => drain # "none"
      /\ drain # "none" => init = "ready"
    BY DEF Core, TypeOK, BarriersHold, Flushes
<1>1. CASE UNCHANGED <<init, flushes, drain, emitted>>
    BY <1>1 DEF Core, BarriersHold
<1>2. CASE InitSucceeds \/ InitFails
    BY <1>2 DEF InitSucceeds, InitFails, controller, Core, BarriersHold
<1>3. CASE Enqueue
    BY <1>0, <1>3 DEF Enqueue, BarriersHold
<1>4. CASE WriteFinally
    BY <1>0, <1>4 DEF WriteFinally, BarriersHold
<1>5. ASSUME NEW joined \in SUBSET Callers, DrainWrites(joined) \/ DrainCloses(joined),
             init = "ready", UNCHANGED <<emitted, init>>
      PROVE  BarriersHold'
  <2>1. ASSUME NEW outcome \in {"barrier", "durable"}, NEW c \in Callers
        PROVE  /\ Released(joined, outcome)[c].upTo = flushes[c].upTo
               /\ Released(joined, outcome)[c].state = "barrier" => outcome = "barrier"
    BY <1>0, <1>5, <2>1 DEF Released, Flushes
  <2>2. \/ flushes' = Released(joined, "barrier") /\ drain' = "write"
        \/ flushes' = Released(joined, "durable") /\ drain' = "none"
    BY <1>5 DEF DrainWrites, DrainCloses
  <2>3. \A c \in Callers : /\ flushes'[c].upTo = flushes[c].upTo
                           /\ flushes'[c].state = "barrier" => drain' # "none"
    BY <2>1, <2>2
  <2>. QED
    BY <2>2, <2>3, <1>0, <1>5 DEF BarriersHold
<1>6. CASE DrainAfterOverlap \/ DrainAfterWrite
    BY <1>0, <1>5, <1>6 DEF DrainAfterOverlap, DrainAfterWrite, DrainLoop
<1>7. CASE DrainRejects
  <2>1. \A c \in Callers : /\ Released({}, "failed")[c].upTo = flushes[c].upTo
                           /\ Released({}, "failed")[c].state # "barrier"
    BY <1>0 DEF Released, Flushes
  <2>. QED
    BY <2>1, <1>0, <1>7 DEF DrainRejects, BarriersHold
<1>8. ASSUME NEW c \in Callers, FlushCall(c) \/ FlushInitFailed(c) PROVE BarriersHold'
  <2>1. \A d \in Callers : flushes'[d].upTo <= emitted
                           /\ (flushes'[d].state = "barrier" => drain # "none")
    BY <1>0, <1>8 DEF FlushCall, FlushInitFailed, Flushes
  <2>. QED
    BY <2>1, <1>0, <1>8 DEF FlushCall, FlushInitFailed, BarriersHold
<1>9. ASSUME NEW c \in Callers, FlushProceeds(c) PROVE BarriersHold'
  <2>1. CASE drain # "none" \/ ActiveWrite
    <3>1. flushes' = [flushes EXCEPT ![c].state = "barrier"] /\ drain' # "none"
      BY <1>9, <2>1 DEF FlushProceeds
    <3>2. \A d \in Callers : flushes'[d].upTo <= emitted
      BY <3>1, <1>0 DEF Flushes
    <3>. QED
      BY <3>1, <3>2, <1>9 DEF FlushProceeds, BarriersHold
  <2>2. CASE drain = "none" /\ ~ActiveWrite
    BY <1>5, <1>9, <2>2 DEF FlushProceeds
  <2>. QED
    BY <2>1, <2>2
<1>10. CASE Deadline \/ Write \/ ContinueAutomatic
    BY <1>1, <1>10 DEF Deadline, Write, WriteSucceeds, WriteFails, ContinueAutomatic
<1>. QED
    BY <1>1, <1>2, <1>3, <1>4, <1>6, <1>7, <1>8, <1>9, <1>10, Zenon
       DEF Next, Reaction, vars

\* Every step keeps an unfinished loop going.
LEMMA ContinuedStep ==
    ASSUME Core, [Next]_vars
    PROVE  Continued'
<1>0. flushes \in Flushes /\ Continued /\ pending \in Seq(0..(MaxEvents - 1))
    BY DEF Core, TypeOK, Flushes
<1>1. CASE UNCHANGED vars
    BY <1>0, <1>1 DEF Continued, vars
<1>2. CASE InitSucceeds \/ InitFails
    BY <1>0, <1>2 DEF InitSucceeds, InitFails, controller, Continued
<1>3. CASE Enqueue
  <2>1. timer \/ pending = <<>> \/ automaticPaused => timer' \/ drain # "none"
    BY <1>3, Zenon DEF Enqueue
  <2>. QED
    BY <2>1, <1>0, <1>3 DEF Enqueue, Continued
<1>4. CASE Deadline
  <2>1. drain # "none" \/ (ActiveWrite => active.background /\ active.stage = "writing")
    BY <1>4 DEF Deadline, ReactionQueued, ActiveWrite, Core, OneWriter, TypeOK
  <2>. QED
    BY <2>1, <1>0, <1>4 DEF Deadline, StartWrite, Continued
<1>5. CASE WriteSucceeds
    BY <1>0, <1>5 DEF WriteSucceeds, Continued, Core, TypeOK
<1>6. CASE WriteFails
    BY <1>6 DEF WriteFails, RetainBatch, Continued
<1>7. CASE WriteFinally
    BY <1>0, <1>7 DEF WriteFinally, Continues, NoWrite, ActiveWrite, Continued, Core, OneWriter, TypeOK
<1>8. CASE ContinueAutomatic
    BY <1>0, <1>8 DEF ContinueAutomatic, StartWrite, ActiveWrite, Continued, Core, OneWriter
<1>9. CASE DrainAfterOverlap \/ DrainAfterWrite
    BY <1>9 DEF DrainAfterOverlap, DrainAfterWrite, DrainLoop, DrainWrites, DrainCloses,
                StartWrite, Continued
<1>10. CASE DrainRejects
    BY <1>10 DEF DrainRejects, Continued, Core, OneWriter
<1>11. ASSUME NEW c \in Callers, FlushCall(c) PROVE Continued'
  <2>1. flushes'[c].state = "init"
    BY <1>0, <1>11 DEF FlushCall, Flushes
  <2>. QED
    BY <2>1 DEF Continued
<1>12. ASSUME NEW c \in Callers, FlushInitFailed(c) PROVE Continued'
    BY <1>12 DEF FlushInitFailed, Continued
<1>13. ASSUME NEW c \in Callers, FlushProceeds(c) PROVE Continued'
    BY <1>13 DEF FlushProceeds, DrainWrites, DrainCloses, StartWrite, Continued
<1>. QED
    BY <1>1, <1>2, <1>3, <1>4, <1>5, <1>6, <1>7, <1>8, <1>9, <1>10, <1>11, <1>12, <1>13,
       Zenon DEF Next, Write, Reaction

-----------------------------------------------------------------------------
(* What the parts say together. *)

\* The log, the batch in flight and the queue cover everything emitted.
LEMMA CoversAll ==
    ASSUME Core
    PROVE  NothingLost /\ NothingStranded
<1>1. NothingStranded
    BY DEF Core, Continued, NothingStranded, ActiveWrite
<1>2. ASSUME init = "ready" PROVE NothingLost
  <2>. DEFINE queue == (IF active.stage = "writing" THEN batch ELSE <<>>) \o pending
  <2>1. /\ emitted \in Nat /\ Len(pending) \in Nat /\ Len(batch) \in Nat /\ Cursor \in Nat
        /\ FirstOwed <= Cursor /\ Cursor <= emitted /\ stored = Run(0, Cursor)
    BY <1>2, BoundsAreNaturals DEF Core, TypeOK, QueuesAreRuns, StoredIsPrefix, Cursor
  <2>2. FirstQueued \in Nat /\ FirstOwed \in Nat /\ FirstOwed <= FirstQueued /\ FirstQueued <= emitted
    BY <2>1 DEF Core, QueuesAreRuns, FirstQueued, FirstOwed
  <2>3. queue = Run(FirstOwed, emitted)
    <3>1. CASE active.stage = "writing"
      <4>1. Run(FirstOwed, FirstQueued) \o Run(FirstQueued, emitted) = Run(FirstOwed, emitted)
        BY <2>1, <2>2, RunJoin
      <4>. QED
        BY <4>1, <3>1 DEF Core, QueuesAreRuns
    <3>2. CASE active.stage # "writing"
      <4>1. queue = pending
        BY <3>2 DEF Core, TypeOK
      <4>. QED
        BY <4>1, <3>2 DEF Core, QueuesAreRuns, FirstOwed
    <3>. QED
      BY <3>1, <3>2
  <2>. HIDE DEF queue
  <2>. DEFINE passed == Cursor - FirstOwed
  <2>4. /\ Len(queue) = emitted - FirstOwed
        /\ \A i \in 1..(emitted - FirstOwed) : queue[i] = FirstOwed + i - 1
    <3>1. FirstOwed <= emitted
      BY <2>1, <2>2
    <3>. QED
      BY <3>1, <2>1, <2>2, <2>3, RunIsSeq
  <2>5. passed \in 0..Len(queue) /\ \A i \in 1..passed : queue[i] < Cursor
    BY <2>1, <2>2, <2>4
  <2>6. SubSeq(queue, passed + 1, Len(queue)) = Run(Cursor, emitted)
    BY <2>1, <2>2, <2>3, RunCut
  <2>7. stored \o SubSeq(queue, passed + 1, Len(queue)) = Run(0, emitted)
    <3>1. Run(0, Cursor) \o Run(Cursor, emitted) = Run(0, emitted)
      <4>1. 0 \in Nat /\ 0 <= Cursor /\ Cursor \in Nat /\ emitted \in Nat /\ Cursor <= emitted
        BY <2>1
      <4>. QED
        BY <4>1, RunJoin, Zenon
    <3>. QED
      BY <3>1, <2>6, <2>1
  <2>. QED
    BY <2>5, <2>7 DEF NothingLost, queue
<1>3. NothingLost
    BY <1>2 DEF NothingLost
<1>. QED
    BY <1>1, <1>3

\* A new controller has the invariant.
LEMMA CoreInit == Init => Core
<1>. SUFFICES ASSUME Init PROVE Core
    OBVIOUS
<1>1. /\ emitted = SeedLength /\ SeedLength \in Nat /\ SeedLength <= MaxEvents /\ MaxEvents \in Nat
      /\ MaxFailures \in Nat
      /\ stored = <<>> /\ batch = <<>> /\ init = "pending" /\ active = NoWrite /\ drain = "none"
    BY BoundsAreNaturals DEF Init
<1>2. /\ Len(pending) <= emitted /\ pending = Run(FirstQueued, emitted) /\ FirstQueued \in Nat
      /\ FirstQueued <= SeedLength
  <2>1. CASE pending = <<>>
    BY <2>1, <1>1, RunEmpty DEF FirstQueued
  <2>2. CASE SeedLength > 0 /\ pending = <<SeedLength - 1>>
    <3>1. FirstQueued = SeedLength - 1 /\ Len(pending) = 1
      BY <2>2, <1>1 DEF FirstQueued
    <3>2. Run(SeedLength - 1, SeedLength) = <<SeedLength - 1>>
      BY <2>2, <1>1 DEF Run
    <3>. QED
      BY <3>1, <3>2, <2>2, <1>1
  <2>. QED
    BY <2>1, <2>2, <1>1 DEF Init
<1>3. TypeOK
  <2>1. pending \in Seq(0..(MaxEvents - 1))
    BY <1>1, <1>2, RunIsSeq
  <2>2. timer \in BOOLEAN /\ deadlineExpired \in BOOLEAN /\ automaticPaused \in BOOLEAN
        /\ continuation \in BOOLEAN
    BY Zenon DEF Init
  <2>3. flushes \in Flushes
    BY DEF Init, Flushes
  <2>4. active \in [stage : {"none", "writing", "wrote", "caught"}, background : BOOLEAN]
    BY <1>1 DEF NoWrite
  <2>5. failures \in 0..MaxFailures
    BY <1>1 DEF Init
  <2>. QED
    BY <2>1, <2>2, <2>3, <2>4, <2>5, <1>1 DEF TypeOK, Flushes
<1>4. QueuesAreRuns
    BY <1>1, <1>2 DEF QueuesAreRuns, FirstOwed, NoWrite
<1>5. OneWriter /\ BarriersHold
    BY <1>1 DEF Init, OneWriter, BarriersHold, ActiveWrite, NoWrite
<1>6. Continued
    BY DEF Init, Continued
<1>7. StoredIsPrefix
    BY <1>1, RunEmpty DEF StoredIsPrefix, Cursor
<1>. QED
    BY <1>3, <1>4, <1>5, <1>6, <1>7 DEF Core

-----------------------------------------------------------------------------
\* The controller's invariant, for any events, clients, failures and seed: the queue,
\* the write in flight and the durable log cover every event of the session in order,
\* the log is an initial segment of them, and somebody is left to write what is queued.
THEOREM ControllerCorrect == Spec => []ControllerInv
<1>1. Init => Core
    BY CoreInit
<1>2. Core /\ [Next]_vars => Core'
    BY TypeStep, RunsStep, WriterStep, ContinuedStep, BarriersStep DEF Core
<1>3. Core => ControllerInv
    BY CoversAll DEF Core, ControllerInv
<1>. QED
    BY <1>1, <1>2, <1>3, PTL DEF Spec

-----------------------------------------------------------------------------
(* Steps. *)

\* A write begins only where none is active.
LEMMA NoOverlapStep ==
    ASSUME Core, [Next]_vars,
           active'.stage = "writing", active.stage # "writing" \/ batch' # batch
    PROVE  ~ActiveWrite
<1>. USE DEF Core, OneWriter, ActiveWrite
<1>0. CASE UNCHANGED <<batch, active>>
    BY <1>0
<1>1. CASE InitSucceeds \/ InitFails \/ Enqueue
    BY <1>0, <1>1 DEF InitSucceeds, InitFails, Enqueue, controller
<1>2. CASE Deadline
    BY <1>0, <1>2 DEF Deadline
<1>3. CASE Write
    BY <1>3 DEF Write, WriteSucceeds, WriteFails, RetainBatch, TypeOK
<1>4. CASE WriteFinally \/ DrainRejects
    BY <1>0, <1>4 DEF WriteFinally, NoWrite, DrainRejects
<1>5. CASE ContinueAutomatic
    BY <1>0, <1>5 DEF ContinueAutomatic
<1>6. CASE DrainAfterOverlap \/ DrainAfterWrite
    BY <1>6 DEF DrainAfterOverlap, DrainAfterWrite
<1>7. ASSUME NEW c \in Callers, FlushCall(c) \/ FlushInitFailed(c) \/ FlushProceeds(c)
      PROVE  ~ActiveWrite
    BY <1>0, <1>7 DEF FlushCall, FlushInitFailed, FlushProceeds
<1>. QED
    BY <1>0, <1>1, <1>2, <1>3, <1>4, <1>5, <1>6, <1>7, Zenon DEF Next, Reaction, vars

\* However windows, continuations, flushes and failures interleave, a write of the
\* controller starts only when none is active.
THEOREM WritesAreSerial == Spec => WritesNeverOverlap
<1>1. Init => Core
    BY CoreInit
<1>2. Core /\ [Next]_vars => Core'
    BY TypeStep, RunsStep, WriterStep, ContinuedStep, BarriersStep DEF Core
<1>3. Core /\ [Next]_vars =>
        [active'.stage = "writing" /\ (active.stage # "writing" \/ batch' # batch)
            => ~ActiveWrite]_vars
    BY NoOverlapStep
<1>. QED
    BY <1>1, <1>2, <1>3, PTL DEF Spec, WritesNeverOverlap

-----------------------------------------------------------------------------
(* The durable log. *)

\* What DurableLog sees of the callers.
Asked == [c \in Callers |-> [state |-> IF Flushing(c) THEN "waiting" ELSE flushes[c].state,
                             upTo  |-> flushes[c].upTo]]

\* A longer stored prefix is a Persist of the durable log.
LEMMA PersistStep ==
    ASSUME emitted \in Nat, NEW n \in Nat, Cursor <= n, n <= emitted, Cursor \in Nat,
           stored' = Run(0, n), UNCHANGED <<emitted, flushes>>
    PROVE  DL!Persist
<1>1. n \in Len(stored)..emitted /\ stored' = DL!Run(0, n)
    BY DEF Cursor, Run, DL!Run
<1>2. Asked' = Asked
    BY DEF Asked, Flushing
<1>. QED
    BY <1>1, <1>2 DEF DL!Persist, Asked

\* Callers that wait on as before are not seen to move.
LEMMA StillAsked ==
    ASSUME flushes \in Flushes, flushes' \in Flushes,
           \A c \in Callers : /\ Flushing(c)' = Flushing(c)
                              /\ flushes'[c].upTo = flushes[c].upTo
                              /\ ~Flushing(c) => flushes'[c].state = flushes[c].state
    PROVE  Asked' = Asked
BY DEF Asked

\* A barrier settles: its callers have their answer.
LEMMA SettledStep ==
    ASSUME flushes \in Flushes, NEW joined \in SUBSET Callers,
           \A c \in joined : flushes[c].state = "init",
           NEW outcome \in {"durable", "failed"}, flushes' = Released(joined, outcome)
    PROVE  \E S \in SUBSET DL!Waiting : Asked' = DL!Settled(S, outcome)
<1>. DEFINE S == {c \in Callers : flushes[c].state = "barrier" \/ c \in joined}
<1>1. S \in SUBSET DL!Waiting
    BY DEF DL!Waiting, Flushing
<1>2. \A c \in Callers : Asked'[c] = DL!Settled(S, outcome)[c]
    BY DEF Asked, DL!Settled, Released, Flushing, Flushes
<1>3. Asked' = DL!Settled(S, outcome)
    BY <1>2 DEF Asked, DL!Settled
<1>. QED
    BY <1>1, <1>3

\* The barrier closes over an empty queue: everything its callers asked for is durable.
LEMMA ClosesDurably ==
    ASSUME Core, ~ActiveWrite, init = "ready", NEW joined \in SUBSET Callers,
           \A c \in joined : flushes[c].state = "init",
           DrainCloses(joined), UNCHANGED <<emitted, stored>>
    PROVE  DL!Resolve
<1>1. /\ flushes \in Flushes /\ emitted \in Nat /\ Cursor \in Nat
      /\ \A c \in Callers : flushes[c].upTo <= emitted
    BY DEF Core, TypeOK, BarriersHold, Flushes, Cursor
<1>2. Cursor = emitted
  <2>1. FirstOwed = emitted
    BY <1>1 DEF DrainCloses, FirstOwed, FirstQueued, ActiveWrite
  <2>. QED
    BY <2>1, <1>1 DEF Core, QueuesAreRuns, StoredIsPrefix
<1>3. PICK S \in SUBSET DL!Waiting : Asked' = DL!Settled(S, "durable")
    BY <1>1, SettledStep DEF DrainCloses
<1>4. \A c \in S : Asked[c].upTo <= Len(stored)
    BY <1>1, <1>2 DEF DL!Waiting, Asked, Cursor
<1>. QED
    BY <1>3, <1>4 DEF DL!Resolve, Asked

\* The barrier writes on: its callers wait on.
LEMMA WritesOn ==
    ASSUME Core, NEW joined \in SUBSET Callers,
           \A c \in joined : flushes[c].state = "init", DrainWrites(joined)
    PROVE  Asked' = Asked
<1>1. flushes \in Flushes
    BY DEF Core, TypeOK, Flushes
<1>2. flushes' \in Flushes
    BY <1>1, ReleasedType DEF DrainWrites
<1>3. ASSUME NEW c \in Callers
      PROVE  /\ Flushing(c)' = Flushing(c)
             /\ flushes'[c].upTo = flushes[c].upTo
             /\ ~Flushing(c) => flushes'[c].state = flushes[c].state
    BY <1>1, <1>3 DEF DrainWrites, Released, Flushing, Flushes
<1>. QED
    BY <1>1, <1>2, <1>3, StillAsked

\* Every step of the controller is one of the durable log, or a stutter.
LEMMA RefinesStep ==
    ASSUME Core, [Next]_vars
    PROVE  [DL!Next]_(DL!vars)
<1>0. flushes \in Flushes /\ emitted \in Nat /\ Cursor \in Nat
    BY DEF Core, TypeOK, Flushes, Cursor
<1>1. ASSUME UNCHANGED <<emitted, stored, flushes>> PROVE UNCHANGED DL!vars
  <2>1. Asked' = Asked
    BY <1>1 DEF Asked, Flushing
  <2>. QED
    BY <1>1, <2>1 DEF DL!vars, Asked
<1>2. ASSUME Asked' = Asked, UNCHANGED <<emitted, stored>> PROVE UNCHANGED DL!vars
    BY <1>2 DEF DL!vars, Asked
<1>3. CASE InitSucceeds
  <2>1. SeedLength \in Nat /\ Cursor <= SeedLength /\ SeedLength <= emitted
    BY <1>3, BoundsAreNaturals DEF InitSucceeds, Core, QueuesAreRuns, Cursor
  <2>2. DL!Persist
    BY <2>1, <1>0, <1>3, PersistStep DEF InitSucceeds
  <2>. QED
    BY <2>2 DEF DL!Next
<1>4. CASE Enqueue
  <2>1. Asked' = Asked
    BY <1>4 DEF Enqueue, Asked, Flushing
  <2>2. DL!Emit
    BY <2>1, <1>4 DEF Enqueue, DL!Emit, Asked
  <2>. QED
    BY <2>2 DEF DL!Next
<1>5. CASE WriteSucceeds
  <2>. DEFINE end == IF Cursor <= FirstQueued THEN FirstQueued ELSE Cursor
  <2>1. end \in Nat /\ Cursor <= end /\ end <= emitted /\ stored' = Run(0, end)
    BY <1>5, FreshContinues DEF WriteSucceeds
  <2>. HIDE DEF end
  <2>2. DL!Persist
    BY <2>1, <1>0, <1>5, PersistStep DEF WriteSucceeds
  <2>. QED
    BY <2>2 DEF DL!Next
<1>6. CASE InitFails \/ Deadline \/ WriteFails \/ WriteFinally \/ ContinueAutomatic
    BY <1>1, <1>6 DEF InitFails, Deadline, WriteFails, WriteFinally, ContinueAutomatic
<1>7. CASE DrainAfterOverlap \/ DrainAfterWrite
  <2>1. ~ActiveWrite /\ init = "ready" /\ UNCHANGED <<emitted, stored>> /\ DrainLoop
    BY <1>7, OnlyWriter DEF DrainAfterOverlap, DrainAfterWrite, Core, BarriersHold
  <2>2. CASE DrainWrites({})
    BY <2>1, <2>2, <1>2, WritesOn
  <2>3. CASE DrainCloses({})
    BY <2>1, <2>3, ClosesDurably DEF DL!Next
  <2>. QED
    BY <2>1, <2>2, <2>3 DEF DrainLoop
<1>8. ASSUME NEW S \in SUBSET DL!Waiting, Asked' = DL!Settled(S, "failed"),
             UNCHANGED <<emitted, stored>>
      PROVE  DL!Next
  <2>1. DL!Reject
    BY <1>8 DEF DL!Reject, Asked
  <2>. QED
    BY <2>1 DEF DL!Next
<1>9. CASE DrainRejects
  <2>1. PICK S \in SUBSET DL!Waiting : Asked' = DL!Settled(S, "failed")
    BY <1>0, <1>9, SettledStep DEF DrainRejects
  <2>. QED
    BY <2>1, <1>8, <1>9 DEF DrainRejects
<1>10. ASSUME NEW c \in Callers, FlushCall(c) PROVE DL!Next
  <2>1. c \notin DL!Waiting
    BY <1>0, <1>10 DEF FlushCall, DL!Waiting, Flushing, Flushes
  <2>2. Asked' = [Asked EXCEPT ![c] = [state |-> "waiting", upTo |-> emitted]]
    BY <1>0, <1>10 DEF FlushCall, Asked, Flushing, Flushes
  <2>3. DL!Ask(c)
    BY <2>1, <2>2, <1>10 DEF FlushCall, DL!Ask, Asked
  <2>. QED
    BY <2>3 DEF DL!Next
<1>11. ASSUME NEW c \in Callers, FlushInitFailed(c) PROVE DL!Next
  <2>1. {c} \in SUBSET DL!Waiting
    BY <1>0, <1>11 DEF FlushInitFailed, DL!Waiting, Flushing, Flushes
  <2>2. Asked' = DL!Settled({c}, "failed")
    BY <1>0, <1>11 DEF FlushInitFailed, DL!Settled, Asked, Flushing, Flushes
  <2>. QED
    BY <2>1, <2>2, <1>8, <1>11 DEF FlushInitFailed
<1>12. ASSUME NEW c \in Callers, FlushProceeds(c) PROVE [DL!Next]_(DL!vars)
  <2>1. CASE drain # "none" \/ ActiveWrite
    <3>1. flushes' = [flushes EXCEPT ![c].state = "barrier"] /\ flushes[c].state = "init"
      BY <1>12, <2>1 DEF FlushProceeds
    <3>2. Asked' = Asked
      BY <3>1, <1>0 DEF Asked, Flushing, Flushes
    <3>. QED
      BY <3>2, <1>2, <1>12 DEF FlushProceeds
  <2>2. CASE drain = "none" /\ ~ActiveWrite
    <3>1. CASE DrainWrites({c})
      BY <3>1, <1>2, <1>12, WritesOn DEF FlushProceeds
    <3>2. CASE DrainCloses({c})
      BY <3>2, <2>2, <1>12, ClosesDurably DEF FlushProceeds, DL!Next
    <3>. QED
      BY <3>1, <3>2, <2>2, <1>12 DEF FlushProceeds
  <2>. QED
    BY <2>1, <2>2
<1>13. CASE UNCHANGED vars
    BY <1>1, <1>13 DEF vars
<1>. QED
    BY <1>3, <1>4, <1>5, <1>6, <1>7, <1>9, <1>10, <1>11, <1>12, <1>13, Zenon
       DEF Next, Write, Reaction

\* The controller implements the durable log: whatever it does with its queue, its
\* timers and its failures looks from outside like a store that only ever extends an
\* initial segment of the events, and a flush that reports success has seen every
\* event emitted before it become durable.
THEOREM DurableLogImplemented == Spec => ImplementsDurableLog
<1>1. Init => Core
    BY CoreInit
<1>2. Core /\ [Next]_vars => Core'
    BY TypeStep, RunsStep, WriterStep, ContinuedStep, BarriersStep DEF Core
<1>3. Init => DL!Init
  <2>1. SUFFICES ASSUME Init PROVE DL!Init
    OBVIOUS
  <2>2. Asked = [c \in Callers |-> [state |-> "idle", upTo |-> 0]]
    BY <2>1 DEF Init, Asked, Flushing
  <2>. QED
    BY <2>1, <2>2, BoundsAreNaturals DEF Init, DL!Init, Asked
<1>4. Core /\ [Next]_vars => [DL!Next]_(DL!vars)
    BY RefinesStep
<1>. QED
    BY <1>1, <1>2, <1>3, <1>4, PTL DEF Spec, ImplementsDurableLog, DL!Spec
=============================================================================
