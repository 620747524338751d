---------------------------- MODULE WriteBehind ----------------------------
(***************************************************************************)
(* The write-behind controller of one live session                         *)
(* (session-persistence/src/write-behind.ts) together with the part of the  *)
(* persistence coordinator that feeds it: the session/event listener that   *)
(* enqueues, flush(), and the write callback that waits for the session's   *)
(* initialization and appends only the events the cursor has not passed.    *)
(*                                                                          *)
(* JavaScript runs one job at a time.  A step here is one job: a call from  *)
(* outside, a timer, the settlement of the backend's promise, or one        *)
(* reaction to a settled promise.  Timers wait until no reaction is queued. *)
(*                                                                          *)
(* An event is its sequence number.  The backend's append is atomic: it     *)
(* either makes the whole batch durable or leaves the log as it was (sqlite *)
(* by its transaction, JSONL by truncating a failed append).                *)
(***************************************************************************)
EXTENDS Naturals, Sequences, FiniteSets

CONSTANTS
    Callers,              \* clients of flush()
    SeedLength,           \* events the session already holds when it is attached
    MaxEvents,            \* bound: events the session emits in all
    MaxFailures           \* bound: backend appends that fail

ASSUME BoundsAreNaturals ==
    /\ SeedLength \in Nat
    /\ MaxEvents \in Nat
    /\ MaxFailures \in Nat
    /\ SeedLength <= MaxEvents

VARIABLES
    emitted,              \* events emitted by the live session
    init,                 \* live.init: "pending", "ready" or "failed"
    stored,               \* what the backend holds; Len(stored) is state.cursor
    pending,              \* this.pending
    batch,                \* the prefix owned by the latest startWrite
    active,               \* this.active and its reactions, see below
    timer,                \* this.timer # undefined
    deadlineExpired,      \* this.deadlineExpired
    automaticPaused,      \* this.automaticPaused
    continuation,         \* continueAutomatic is queued behind a finished write
    drain,                \* where drainBarrier is; "none" iff this.barrier is undefined
    flushes,              \* per caller of flush(): its progress and what it covers
    failures              \* backend failures so far

vars == <<emitted, init, stored, pending, batch, active, timer, deadlineExpired,
          automaticPaused, continuation, drain, flushes, failures>>

controller == <<pending, batch, active, timer, deadlineExpired,
                automaticPaused, continuation, drain>>

(***************************************************************************)
(* active.stage follows the promise chain of startWrite:                    *)
(*   "none"    this.active is undefined                                     *)
(*   "writing" options.write(batch) has been called and has not settled     *)
(*   "wrote"   it fulfilled; the finally reaction is queued                 *)
(*   "caught"  it rejected and the catch reaction ran; finally is queued    *)
(* active.background says whether startBackground started it.               *)
(*                                                                          *)
(* drain is the place drainBarrier is suspended at:                         *)
(*   "overlap" awaiting allSettled([overlapping])                           *)
(*   "write"   awaiting its own startWrite(false)                           *)
(*   "done"/"broken": that write fulfilled / rejected, the reaction queued  *)
(***************************************************************************)
NoWrite == [stage |-> "none", background |-> FALSE]

\* The events lo, lo+1, ..., hi-1 in log order.
Run(lo, hi) == [i \in 1..(hi - lo) |-> lo + i - 1]

Cursor == Len(stored)

ActiveWrite == active.stage # "none"

\* A promise reaction is queued: the event loop serves it before any timer.
ReactionQueued ==
    \/ active.stage \in {"wrote", "caught"}
    \/ continuation
    \/ drain \in {"done", "broken"}
    \/ drain = "overlap" /\ ~ActiveWrite

Flushing(c) == flushes[c].state \in {"init", "barrier"}

Init ==
    /\ init = "pending"
    /\ stored = <<>>
    \* HMR may attach a session from inside the delivery of its newest event,
    \* which is then both in the seed and the first event enqueued.
    /\ pending \in {<<>>} \cup (IF SeedLength > 0 THEN {<<SeedLength - 1>>} ELSE {})
    /\ emitted = SeedLength
    /\ timer = (pending # <<>>)
    /\ batch = <<>>
    /\ active = NoWrite
    /\ deadlineExpired = FALSE
    /\ automaticPaused = FALSE
    /\ continuation = FALSE
    /\ drain = "none"
    /\ flushes = [c \in Callers |-> [state |-> "idle", upTo |-> 0]]
    /\ failures = 0

-----------------------------------------------------------------------------
(* Initialization: onCreated / attachPrepared persist the seed, then resolve. *)

InitSucceeds ==
    /\ init = "pending"
    /\ init' = "ready"
    /\ stored' = Run(0, SeedLength)
    /\ UNCHANGED <<emitted, controller, flushes, failures>>

InitFails ==
    /\ init = "pending"
    /\ failures < MaxFailures
    /\ init' = "failed"
    /\ failures' = failures + 1
    /\ UNCHANGED <<emitted, stored, controller, flushes>>

-----------------------------------------------------------------------------
(* enqueue, from the session/event listener. *)

Enqueue ==
    /\ emitted < MaxEvents
    /\ emitted' = emitted + 1
    /\ pending' = Append(pending, emitted)
    /\ \/ /\ drain # "none"
          /\ UNCHANGED <<timer, automaticPaused, deadlineExpired>>
       \/ /\ drain = "none" /\ automaticPaused
          /\ automaticPaused' = FALSE
          /\ deadlineExpired' = FALSE
          /\ timer' = TRUE
       \/ /\ drain = "none" /\ ~automaticPaused
          /\ timer' = (timer \/ pending = <<>>)
          /\ UNCHANGED <<automaticPaused, deadlineExpired>>
    /\ UNCHANGED <<init, stored, batch, active, continuation, drain, flushes, failures>>

-----------------------------------------------------------------------------
(* startWrite: the whole pending list becomes the batch of a new write. *)

StartWrite(isBackground) ==
    /\ batch' = pending
    /\ pending' = <<>>
    /\ active' = [stage |-> "writing", background |-> isBackground]
    /\ timer' = FALSE
    /\ deadlineExpired' = FALSE

\* Fault: an expired window does not look for an active write.
DeadlineWrites ==
    /\ timer
    /\ ~ReactionQueued
    /\ StartWrite(TRUE)
    /\ UNCHANGED <<emitted, init, stored, automaticPaused, continuation, drain,
                   flushes, failures>>

\* onDeadline: write now, or remember that an active write used up the window.
Deadline ==
    /\ timer
    /\ ~ReactionQueued
    /\ \/ /\ ActiveWrite
          /\ timer' = FALSE
          /\ deadlineExpired' = TRUE
          /\ UNCHANGED <<pending, batch, active>>
       \/ /\ ~ActiveWrite
          /\ StartWrite(TRUE)
    /\ UNCHANGED <<emitted, init, stored, automaticPaused, continuation, drain,
                   flushes, failures>>

\* appendLiveBatch drops the events the cursor has already passed.  A batch ascends
\* (QueuesAreRuns), so they lead it.
Fresh ==
    LET passed == {i \in 1..Len(batch) : batch[i] < Cursor}
    IN  SubSeq(batch, Cardinality(passed) + 1, Len(batch))

\* appendCore refuses a batch that does not continue the durable log.
Contiguous == \A i \in 1..Len(Fresh) : Fresh[i] = Cursor + i - 1

\* Fault: events the cursor has passed are written again.
WriteSucceedsUnfiltered ==
    /\ active.stage = "writing"
    /\ init = "ready"
    /\ stored' = stored \o batch
    /\ active' = [active EXCEPT !.stage = "wrote"]
    /\ UNCHANGED <<emitted, init, pending, batch, timer, deadlineExpired,
                   automaticPaused, continuation, drain, flushes, failures>>

\* The backend made the batch durable: the cursor advances with it.
WriteSucceeds ==
    /\ active.stage = "writing"
    /\ init = "ready"
    /\ Contiguous
    /\ stored' = stored \o Fresh
    /\ active' = [active EXCEPT !.stage = "wrote"]
    /\ UNCHANGED <<emitted, init, pending, batch, timer, deadlineExpired,
                   automaticPaused, continuation, drain, flushes, failures>>

\* Fault: the batch is not put back.
RetainNothing ==
    /\ timer' = FALSE /\ deadlineExpired' = FALSE /\ automaticPaused' = TRUE
    /\ active' = [active EXCEPT !.stage = "caught"]
    /\ UNCHANGED pending

\* The write rejected; the catch reaction puts the batch back at the front.
RetainBatch ==
    /\ pending' = batch \o pending
    /\ timer' = FALSE
    /\ deadlineExpired' = FALSE
    /\ automaticPaused' = TRUE
    /\ active' = [active EXCEPT !.stage = "caught"]

WriteFails ==
    /\ active.stage = "writing"
    /\ \/ /\ init = "failed" \/ (init = "ready" /\ ~Contiguous)
          /\ UNCHANGED failures
       \/ /\ init = "ready" /\ failures < MaxFailures
          /\ failures' = failures + 1
    /\ RetainBatch
    /\ UNCHANGED <<emitted, init, stored, batch, continuation, drain, flushes>>

\* Fault: a background write is followed by nothing.
NeverContinues == FALSE

\* startBackground's reaction: only a fulfilled background write continues.
Continues == active.background /\ active.stage = "wrote"

\* The finally reaction clears this.active and wakes whoever awaited it.
WriteFinally ==
    /\ active.stage \in {"wrote", "caught"}
    /\ active' = NoWrite
    /\ batch' = <<>>
    /\ continuation' = Continues
    /\ drain' = IF drain = "write"
                THEN IF active.stage = "wrote" THEN "done" ELSE "broken"
                ELSE drain
    /\ UNCHANGED <<emitted, init, stored, pending, timer, deadlineExpired,
                   automaticPaused, flushes, failures>>

\* continueAutomatic: an over-budget write is followed by another at once.
ContinueAutomatic ==
    /\ continuation
    /\ continuation' = FALSE
    /\ \/ /\ drain = "none" /\ pending # <<>> /\ deadlineExpired
          /\ StartWrite(TRUE)
       \/ /\ drain # "none" \/ pending = <<>> \/ ~deadlineExpired
          /\ UNCHANGED <<pending, batch, active, timer, deadlineExpired>>
    /\ UNCHANGED <<emitted, init, stored, automaticPaused, drain, flushes, failures>>

-----------------------------------------------------------------------------
(* flush: coordinator.flush, SessionWriteBehind.flush and drainBarrier. *)

\* coordinator.flush: cancelAutomaticWait, then await live.init.
FlushCall(c) ==
    /\ ~Flushing(c)
    /\ flushes' = [flushes EXCEPT ![c] = [state |-> "init", upTo |-> emitted]]
    /\ timer' = FALSE
    /\ deadlineExpired' = FALSE
    /\ UNCHANGED <<emitted, init, stored, pending, batch, active,
                   automaticPaused, continuation, drain, failures>>

\* The awaited initialization rejected: cancel the wait again and rethrow.
FlushInitFailed(c) ==
    /\ flushes[c].state = "init"
    /\ init = "failed"
    /\ flushes' = [flushes EXCEPT ![c].state = "failed"]
    /\ timer' = FALSE
    /\ deadlineExpired' = FALSE
    /\ UNCHANGED <<emitted, init, stored, pending, batch, active,
                   automaticPaused, continuation, drain, failures>>

\* Fault: a failed barrier is dropped without settling it.
ReleasedOnSuccess(joined, outcome) ==
    [c \in Callers |-> IF outcome # "failed" /\ (flushes[c].state = "barrier" \/ c \in joined)
                       THEN [flushes[c] EXCEPT !.state = outcome]
                       ELSE flushes[c]]

\* The callers released when the barrier settles.
Released(joined, outcome) ==
    [c \in Callers |-> IF flushes[c].state = "barrier" \/ c \in joined
                       THEN [flushes[c] EXCEPT !.state = outcome]
                       ELSE flushes[c]]

\* The drain loop, while anything is pending: another write.
DrainWrites(joined) ==
    /\ pending # <<>>
    /\ StartWrite(FALSE)
    /\ drain' = "write"
    /\ flushes' = Released(joined, "barrier")

\* Fault: the barrier closes after one write, whatever has arrived meanwhile.
DrainClosesEarly(joined) ==
    /\ drain' = "none"
    /\ flushes' = Released(joined, "durable")
    /\ UNCHANGED <<pending, batch, active>>

\* Nothing is pending: the barrier closes and resolves in the same job.
DrainCloses(joined) ==
    /\ pending = <<>>
    /\ drain' = "none"
    /\ flushes' = Released(joined, "durable")
    /\ UNCHANGED <<pending, batch, active>>

DrainLoop ==
    \/ DrainWrites({})
    \/ DrainCloses({}) /\ UNCHANGED <<timer, deadlineExpired>>

\* SessionWriteBehind.flush joins an open barrier or opens one.
FlushProceeds(c) ==
    /\ flushes[c].state = "init"
    /\ init = "ready"
    /\ \/ /\ drain # "none"
          /\ flushes' = [flushes EXCEPT ![c].state = "barrier"]
          /\ UNCHANGED <<pending, batch, active, timer, deadlineExpired,
                         automaticPaused, drain>>
       \/ /\ drain = "none" /\ ActiveWrite
          /\ drain' = "overlap"
          /\ flushes' = [flushes EXCEPT ![c].state = "barrier"]
          /\ timer' = FALSE
          /\ deadlineExpired' = FALSE
          /\ automaticPaused' = FALSE
          /\ UNCHANGED <<pending, batch, active>>
       \/ /\ drain = "none" /\ ~ActiveWrite
          /\ automaticPaused' = FALSE
          /\ \/ DrainWrites({c})
             \/ DrainCloses({c}) /\ timer' = FALSE /\ deadlineExpired' = FALSE
    /\ UNCHANGED <<emitted, init, stored, continuation, failures>>

\* The overlapping write settled, however it ended: drain what is left.
DrainAfterOverlap ==
    /\ drain = "overlap"
    /\ ~ActiveWrite
    /\ automaticPaused' = FALSE
    /\ DrainLoop
    /\ UNCHANGED <<emitted, init, stored, continuation, failures>>

\* The drain's own write fulfilled: loop.
DrainAfterWrite ==
    /\ drain = "done"
    /\ DrainLoop
    /\ UNCHANGED <<emitted, init, stored, automaticPaused, continuation, failures>>

\* The drain's own write rejected: the barrier closes and rejects.
DrainRejects ==
    /\ drain = "broken"
    /\ drain' = "none"
    /\ flushes' = Released({}, "failed")
    /\ UNCHANGED <<emitted, init, stored, pending, batch, active, timer,
                   deadlineExpired, automaticPaused, continuation, failures>>

-----------------------------------------------------------------------------
Write == WriteSucceeds \/ WriteFails

Reaction == WriteFinally \/ ContinueAutomatic \/ DrainAfterOverlap
            \/ DrainAfterWrite \/ DrainRejects

Next ==
    \/ InitSucceeds \/ InitFails
    \/ Enqueue \/ Deadline
    \/ Write \/ Reaction
    \/ \E c \in Callers : FlushCall(c) \/ FlushInitFailed(c) \/ FlushProceeds(c)

Spec == Init /\ [][Next]_vars

(***************************************************************************)
(* Promise reactions always run, an armed timer fires, initialization and   *)
(* backend calls settle, and an awaiting caller is resumed.  Nothing obliges*)
(* the session to emit or a client to flush.                                *)
(***************************************************************************)
FairSpec ==
    /\ Spec
    /\ WF_vars(Reaction) /\ WF_vars(Deadline)
    /\ WF_vars(InitSucceeds \/ InitFails) /\ WF_vars(Write)
    /\ \A c \in Callers : WF_vars(FlushInitFailed(c) \/ FlushProceeds(c))

-----------------------------------------------------------------------------
TypeOK ==
    /\ emitted \in 0..MaxEvents
    /\ init \in {"pending", "ready", "failed"}
    /\ stored \in Seq(0..(MaxEvents - 1))
    /\ pending \in Seq(0..(MaxEvents - 1))
    /\ batch \in Seq(0..(MaxEvents - 1))
    /\ active \in [stage : {"none", "writing", "wrote", "caught"},
                   background : BOOLEAN]
    /\ timer \in BOOLEAN /\ deadlineExpired \in BOOLEAN
    /\ automaticPaused \in BOOLEAN /\ continuation \in BOOLEAN
    /\ drain \in {"none", "overlap", "write", "done", "broken"}
    /\ flushes \in [Callers -> [state : {"idle", "init", "barrier", "durable", "failed"},
                                upTo : Nat]]
    /\ failures \in 0..MaxFailures

\* The durable log is exactly an initial segment of what the session emitted:
\* nothing skipped, repeated or reordered by overlapping windows, retained
\* failures, seeds already written or barrier drains.
StoredIsPrefix == Cursor <= emitted /\ stored = Run(0, Cursor)

\* No event is lost on its way: what is durable, what a write owns and what is
\* queued together still cover everything emitted, in order (once the seed is
\* in), so a failed or overlapped write can always be retried.
NothingLost ==
    init = "ready" =>
        LET inFlight == IF active.stage = "writing" THEN batch ELSE <<>>
            queue    == inFlight \o pending
        IN  \E passed \in 0..Len(queue) :
               /\ \A i \in 1..passed : queue[i] < Cursor
               /\ stored \o SubSeq(queue, passed + 1, Len(queue)) = Run(0, emitted)

\* An event never sits in the queue with nobody left to write it: a window, a
\* write, a barrier, a caller about to open one, or the documented pause after
\* a failure (the next event or flush lifts it) accounts for it.
NothingStranded ==
    (pending # <<>> /\ init # "failed") =>
        \/ timer \/ ActiveWrite \/ drain # "none" \/ automaticPaused
        \/ continuation /\ deadlineExpired
        \/ \E c \in Callers : flushes[c].state = "init"

\* The first event no write has taken, and the first no write has settled.
FirstQueued == emitted - Len(pending)
FirstOwed == IF active.stage = "writing" THEN FirstQueued - Len(batch) ELSE FirstQueued

\* The queue ends with the newest event, the batch where the queue begins, and what
\* they owe begins no later than what is durable ends, or will once the seed is in.
QueuesAreRuns ==
    /\ SeedLength <= emitted
    /\ Len(pending) <= emitted /\ pending = Run(FirstQueued, emitted)
    /\ active.stage = "writing" =>
          Len(batch) <= FirstQueued /\ batch = Run(FirstOwed, FirstQueued)
    /\ init # "ready" => stored = <<>>
    /\ init = "pending" => FirstOwed <= SeedLength
    /\ init = "ready" => FirstOwed <= Cursor

\* Whoever may start a write next knows of the one under way: the barrier of its own,
\* a queued continuation of any but the barrier's.
OneWriter ==
    /\ drain = "write" <=> ActiveWrite /\ ~active.background
    /\ continuation /\ ActiveWrite => drain = "write"
    /\ drain \in {"done", "broken"} => ~ActiveWrite
    /\ drain = "broken" \/ (drain = "write" /\ active.stage = "caught") => automaticPaused

\* What leaves the queue to somebody when a background write ends well.
Continued ==
    (pending # <<>> /\ init # "failed") =>
        \/ timer \/ drain # "none" \/ automaticPaused
        \/ /\ deadlineExpired
           /\ continuation \/ (active.background /\ active.stage \in {"writing", "wrote"})
        \/ \E c \in Callers : flushes[c].state = "init"

\* Nobody waits at a closed barrier, and a barrier opens only over the seed.
BarriersHold ==
    /\ drain # "none" => init = "ready"
    /\ \A c \in Callers :
          /\ flushes[c].upTo <= emitted
          /\ flushes[c].state = "barrier" => drain # "none"

\* The controller's invariant: wherever its timers and reactions stand, the queue,
\* the write in flight and the durable log cover all events, and somebody is left
\* to write what is queued.
ControllerInv ==
    /\ TypeOK /\ QueuesAreRuns /\ OneWriter /\ Continued /\ BarriersHold
    /\ StoredIsPrefix /\ NothingLost /\ NothingStranded

\* Two writes never overlap: a write starts only when none is active.
WritesNeverOverlap ==
    [][active'.stage = "writing" /\ (active.stage # "writing" \/ batch' # batch)
       => ~ActiveWrite]_vars

\* A barrier cannot hang: whoever asks is answered.
FlushSettles ==
    \A c \in Callers : Flushing(c) ~> ~Flushing(c)

\* Left alone, the controller reaches durability or stops at a reported failure.
EventuallyDurable ==
    <>[](\/ Cursor = emitted
         \/ init = "failed"
         \/ automaticPaused /\ pending # <<>>)

DL == INSTANCE DurableLog WITH
        flushes <- [c \in Callers |->
            [state |-> IF Flushing(c) THEN "waiting" ELSE flushes[c].state,
             upTo  |-> flushes[c].upTo]]

\* The controller implements the durable log it promises.
ImplementsDurableLog == DL!Spec
=============================================================================
