----------------------------- MODULE Schedules -----------------------------
(***************************************************************************)
(* Durable reminders of one root agent (schedule/schedule/src): the live     *)
(* owner that turns due records into follow-ups (runtime.ts), the management *)
(* tools (tools.ts), the queue that serializes both (transaction.ts), and    *)
(* the session log they share, across kills and resumes.                     *)
(*                                                                          *)
(* A step is one synchronous span: a call, a timer, the continuation of a    *)
(* flush, of a transaction or of an idle wait.  What the agent does with its *)
(* turns is outside; a tool is called within one, which then waits for it.   *)
(***************************************************************************)
EXTENDS ScheduleLog

CONSTANTS
    Calls,                \* concurrent tool calls
    Owner,                \* the live owner's place in the queue
    Delays,               \* after_seconds of the calls
    Instants,             \* instants given as at
    Intervals,            \* every_seconds of the calls
    MaxTurns,             \* bound: turns and maintenance of others
    MaxTrouble            \* bound: failures, cancels, rollbacks, departures, kills

NoTimer == 0
Instant == 1..Horizon

ASSUME SchedulesAssumption ==
    /\ Owner \notin Calls /\ IsFiniteSet(Calls)
    /\ Delays \subseteq Nat /\ Intervals \subseteq Nat \ {0} /\ Instants \subseteq Nat
    /\ MaxTurns \in Nat /\ MaxTrouble \in Nat

VARIABLES
    log,                  \* the session's events of interest
    stored,               \* how many of them are known to be durable
    now,                  \* the wall clock
    life,                 \* "live", "leaving" (not a live root), "stopping", "stopped", "down"
    rt,                   \* ScheduleRuntime, and the queue of transactions
    agent,                \* the agent's phase and its latched wake
    calls,                \* per tool call: where it is
    told,                 \* history: ids callers know as created, and as gone
    repeatable,           \* history: occurrences a kill left queued but not dispatched
    turns, trouble        \* budgets

vars == <<log, stored, now, life, rt, agent, calls, told, repeatable, turns, trouble>>
durable == <<log, stored>>
history == <<told, repeatable>>
budgets == <<turns, trouble>>

(***************************************************************************)
(* rt.run follows the stored run: "queued" in the transaction queue, then    *)
(* "preflight", "maintaining" and "barrier" within driveOnce, "looping"       *)
(* between the end of the transaction and the loop's condition, "retiring"    *)
(* between the end of the loop and retire.  rt.idle is the idle wait.         *)
(* rt.sent is what the maintenance task returned; rt.covers is the length of  *)
(* the log a flush under way will have made durable; rt.aside (history) says  *)
(* that the last drive ended with a failure.                                 *)
(***************************************************************************)
Fresh == [requested |-> FALSE, run |-> "none", timer |-> NoTimer, idle |-> "none",
          faulted |-> FALSE, fifo |-> <<>>, covers |-> 0, sent |-> FALSE, aside |-> FALSE]

NoCall == [pc |-> "none", op |-> "none", n |-> 0, covers |-> 0]

Init ==
    /\ log = <<>> /\ stored = 0
    /\ now = 1
    /\ life = "down"
    /\ rt = Fresh
    /\ agent = [phase |-> "idle", wake |-> FALSE]
    /\ calls = [c \in Calls |-> NoCall]
    /\ told = [created |-> {}, gone |-> {}]
    /\ repeatable = {}
    /\ turns = MaxTurns /\ trouble = MaxTrouble

Fails == trouble > 0 /\ trouble' = trouble - 1

Stopping == life \notin {"live", "leaving"}
Runnable == life = "live"

\* Fault: transactions of one agent run side by side.
TurnOfAnyone(x) == \E i \in 1..Len(rt.fifo) : rt.fifo[i] = x

\* runScheduleTransaction: the operation at the head of the queue runs.
TurnOf(x) == rt.fifo # <<>> /\ rt.fifo[1] = x

\* It is over, and the next one's turn.
Left(r) == [r EXCEPT !.fifo = Tail(@)]

\* A successful flush covers the log as it was when the flush was asked for.
FlushedTo(n) == IF n > stored THEN n ELSE stored

-----------------------------------------------------------------------------
(* Triggers and runs. *)

Queued(r) == [r EXCEPT !.run = "queued", !.requested = FALSE, !.fifo = Append(@, Owner)]

\* Fault: a trigger starts another drive although one is under way.
RequestedAnew(r) ==
    IF Stopping \/ r.faulted THEN r ELSE Queued([r EXCEPT !.timer = NoTimer])

\* requestDrive.
Requested(r) ==
    IF Stopping \/ r.faulted THEN r
    ELSE LET q == [r EXCEPT !.timer = NoTimer] IN
         IF r.run = "none" THEN Queued(q) ELSE [q EXCEPT !.requested = TRUE]

\* The end of driveOnce.
Ended(r) == [Left(r) EXCEPT !.run = "looping", !.covers = 0, !.sent = FALSE]
SetAside(r) == [Ended(r) EXCEPT !.aside = TRUE]

Waiting(r, active, t) ==
    [r EXCEPT !.timer = IF Wakes(active, t) = {} THEN NoTimer
                        ELSE CHOOSE w \in Wakes(active, t) : \A v \in Wakes(active, t) : w <= v]

DriveBegins ==
    /\ rt.run = "queued" /\ TurnOf(Owner)
    /\ LET r == [rt EXCEPT !.timer = NoTimer, !.aside = FALSE] IN
       rt' = IF Runnable THEN [r EXCEPT !.run = "preflight", !.covers = Len(log)] ELSE Ended(r)
    /\ UNCHANGED <<durable, now, life, agent, calls, history, budgets>>

\* The preflight is rejected, or succeeds when the agent is not to be served.
PreflightFails ==
    /\ rt.run = "preflight"
    /\ \/ Fails /\ rt' = SetAside(rt) /\ UNCHANGED stored
       \/ ~Runnable /\ stored' = FlushedTo(rt.covers) /\ rt' = Ended(rt) /\ UNCHANGED trouble
    /\ UNCHANGED <<log, now, life, agent, calls, history, turns>>

PreflightWaits ==
    /\ rt.run = "preflight" /\ Runnable
    /\ stored' = FlushedTo(rt.covers)
    /\ Due(Active(log), now) = {}
    /\ rt' = Ended(Waiting(rt, Active(log), now))
    /\ UNCHANGED <<log, now, life, agent, calls, history, budgets>>

\* Fault: the transaction waits for the agent to become idle.
HoldsQueueWhileBusy(r) == r

\* Fault: the busy agent is left alone.
LeavesBusyAgent(r) == Ended(r)

\* runMaintenance is refused: one idle wait, outside the transaction.
WaitsForIdle(r) == [Ended(r) EXCEPT !.idle = IF @ = "none" THEN "watching" ELSE @]

PreflightFindsBusy ==
    /\ rt.run = "preflight" /\ Runnable
    /\ stored' = FlushedTo(rt.covers)
    /\ Due(Active(log), now) # {}
    /\ agent.phase # "idle"
    /\ rt' = WaitsForIdle(rt)
    /\ UNCHANGED <<log, now, life, agent, calls, history, budgets>>

\* Fault: the dispatch is recorded before the message is queued.
DispatchFirst(active, ids, t) == Dispatches(active, ids, t) \o <<Message(active, ids, t)>>

\* What the maintenance task appends in one span.
Delivered(active, ids, t) == <<Message(active, ids, t)>> \o Dispatches(active, ids, t)

\* Fault: a failed append leaves the owner running.
StaysAfterAppend(r) == r

\* The message may already be queued.
FaultsAfterAppend(r) == [r EXCEPT !.faulted = TRUE, !.timer = NoTimer]

\* Fault: the decision of the wake is used again.
DecidesAtWake(t) == now

\* The clock is read again once the agent is claimed.
DecidesAt(t) == t

\* The maintenance task decides again: the records are no longer due, the follow-up
\* throws, an append throws after some, or all is recorded.
Task(t, ids) ==
    LET active == Active(log)
        at == DecidesAt(t)
        all == Delivered(active, ids, at)
        held == [rt EXCEPT !.run = "maintaining", !.covers = 0]
    IN
    \/ /\ t < now /\ Fails /\ Due(active, at) = {}
       /\ rt' = Waiting(held, active, at)
       /\ agent' = [agent EXCEPT !.phase = "maintenance"]
       /\ UNCHANGED log
    \/ /\ t = now /\ Fails /\ Due(active, at) # {}
       /\ rt' = [held EXCEPT !.aside = TRUE]
       /\ agent' = [agent EXCEPT !.phase = "maintenance"]
       /\ UNCHANGED log
    \/ /\ t = now /\ Fails /\ Due(active, at) # {}
       /\ \E n \in 1..Len(all) - 1 : log' = log \o SubSeq(all, 1, n)
       /\ rt' = FaultsAfterAppend(held)
       /\ agent' = [phase |-> "maintenance", wake |-> TRUE]
    \/ /\ IF t < now THEN Fails ELSE UNCHANGED trouble
       /\ Due(active, at) # {}
       /\ log' = log \o all
       /\ rt' = [held EXCEPT !.sent = TRUE]
       /\ agent' = [phase |-> "maintenance", wake |-> TRUE]

\* The idle agent is claimed for the task.
Maintains ==
    /\ rt.run = "preflight" /\ Runnable
    /\ stored' = FlushedTo(rt.covers)
    /\ Due(Active(log), now) # {}
    /\ agent.phase = "idle"
    /\ \E t \in Instant : \E ids \in Orders(Active(log), Batch(Active(log), DecidesAt(t))) :
        now' = t /\ Task(t, ids)
    /\ UNCHANGED <<life, calls, history, turns>>

\* The phase is released before the owner goes on, to the dispatch barrier if it sent.
Releases ==
    /\ rt.run = "maintaining"
    /\ agent' = [phase |-> IF agent.wake THEN "running" ELSE "idle", wake |-> FALSE]
    /\ rt' = IF rt.sent THEN [rt EXCEPT !.run = "barrier", !.covers = Len(log), !.sent = FALSE]
             ELSE Ended(rt)
    /\ UNCHANGED <<durable, now, life, calls, history, budgets>>

\* The barrier asks for another drive; a rejected one leaves it to the next trigger.
BarrierSettles ==
    /\ rt.run = "barrier"
    /\ \/ /\ stored' = FlushedTo(rt.covers)
          /\ rt' = Ended(IF Runnable THEN Requested(rt) ELSE rt)
          /\ UNCHANGED trouble
       \/ Fails /\ rt' = SetAside(rt) /\ UNCHANGED stored
    /\ UNCHANGED <<log, now, life, agent, calls, history, turns>>

\* The loop of runRequested.
Loops ==
    /\ rt.run = "looping"
    /\ rt' = IF rt.requested /\ ~Stopping /\ ~rt.faulted THEN Queued(rt)
             ELSE [rt EXCEPT !.run = "retiring"]
    /\ UNCHANGED <<durable, now, life, agent, calls, history, budgets>>

\* Fault: a trigger that came after the loop's last look is forgotten.
RetiredForGood(r) == [r EXCEPT !.run = "none"]

\* retire honours a trigger that landed after the loop's last look.
Retired(r) ==
    LET q == [r EXCEPT !.run = "none"] IN IF r.requested THEN Requested(q) ELSE q

Retires ==
    /\ rt.run = "retiring"
    /\ rt' = Retired(rt)
    /\ UNCHANGED <<durable, now, life, agent, calls, history, budgets>>

\* A segment of the timer is over; the clock may say anything by then.
TimerFires ==
    /\ rt.timer # NoTimer
    /\ rt' = Requested([rt EXCEPT !.timer = NoTimer])
    /\ UNCHANGED <<durable, now, life, agent, calls, history, budgets>>

\* whenIdle resolves; its reaction runs later.
IdleSeen ==
    /\ rt.idle = "watching" /\ agent.phase = "idle"
    /\ rt' = [rt EXCEPT !.idle = "settled"]
    /\ UNCHANGED <<durable, now, life, agent, calls, history, budgets>>

IdleWaitEnds ==
    /\ rt.idle = "settled"
    /\ rt' = Requested([rt EXCEPT !.idle = "none"])
    /\ UNCHANGED <<durable, now, life, agent, calls, history, budgets>>

-----------------------------------------------------------------------------
(* The tools. *)

Requests ==
    [op : {"list"}, n : {0}] \cup [op : {"delete"}, n : 1..MaxIds]
    \cup [op : {"after"}, n : Delays] \cup [op : {"at"}, n : Instants]
    \cup [op : {"every"}, n : Intervals]

Creates(call) == call.op \in {"after", "at", "every"}
Creating == {c \in Calls : Creates(calls[c]) /\ calls[c].pc \in {"queued", "preflight"}}

Invoke(c) ==
    /\ Runnable /\ agent.phase = "running" /\ calls[c].pc = "none"
    /\ \E q \in Requests :
        /\ Creates(q) => Cardinality(Fold(log).seen) + Cardinality(Creating) < MaxIds
        /\ calls' = [calls EXCEPT ![c] = [pc |-> "queued", op |-> q.op, n |-> q.n, covers |-> 0]]
    /\ rt' = [rt EXCEPT !.fifo = Append(@, c)]
    /\ UNCHANGED <<durable, now, life, agent, history, budgets>>

Returns(c) == calls' = [calls EXCEPT ![c] = NoCall]

\* Its turn comes: the caller has cancelled it, or it flushes.
CallBegins(c) ==
    /\ calls[c].pc = "queued" /\ TurnOf(c)
    /\ \/ Fails /\ Returns(c) /\ rt' = Left(rt)
       \/ /\ calls' = [calls EXCEPT ![c].pc = "preflight", ![c].covers = Len(log)]
          /\ UNCHANGED <<rt, trouble>>
    /\ UNCHANGED <<durable, now, life, agent, history, turns>>

Knows(created, gone) ==
    told' = [created |-> told.created \cup created, gone |-> told.gone \cup gone]

\* Fault: a change is reported although its barrier failed.
CallHidesFailure(c) ==
    /\ calls[c].pc = "barrier" /\ Fails
    /\ IF calls[c].op = "create" THEN Knows({calls[c].n}, {}) ELSE Knows({}, {calls[c].n})
    /\ Returns(c) /\ rt' = Left(rt)
    /\ UNCHANGED <<durable, now, life, agent, repeatable, turns>>

\* persistence_uncertain.
CallFails(c) ==
    /\ calls[c].pc \in {"preflight", "barrier"} /\ Fails
    /\ Returns(c) /\ rt' = Left(rt)
    /\ UNCHANGED <<durable, now, life, agent, history, turns>>

\* The preflight asks the owner to recompute.
Reads(c) ==
    /\ calls[c].pc = "preflight"
    /\ stored' = FlushedTo(calls[c].covers)
    /\ UNCHANGED <<now, life, agent, repeatable, turns>>

\* The list of active reminders; the id is not active; the rule names no future
\* instant; the call was cancelled meanwhile or its append throws.
CallAnswers(c) ==
    LET f == Fold(log)
        active == DOMAIN f.active
        call == calls[c]
        target == IF call.op = "at" THEN call.n ELSE now + call.n
    IN
    /\ Reads(c)
    /\ \/ call.op = "list" /\ Knows(active, f.seen \ active) /\ UNCHANGED trouble
       \/ /\ call.op = "delete" /\ call.n \notin active
          /\ Knows({}, {call.n} \cap f.seen) /\ UNCHANGED trouble
       \/ /\ Creates(call) /\ (target <= now \/ target > Horizon)
          /\ UNCHANGED <<told, trouble>>
       \/ call.op # "list" /\ Fails /\ UNCHANGED told
    /\ Returns(c) /\ rt' = Left(Requested(rt))
    /\ UNCHANGED log

Appends(c, e) ==
    /\ Reads(c)
    /\ log' = Append(log, e)
    /\ rt' = Requested(rt)
    /\ calls' = [calls EXCEPT ![c].pc = "barrier", ![c].covers = Len(log) + 1,
                              ![c].op = e.op, ![c].n = e.id]
    /\ UNCHANGED <<told, trouble>>

CallCreates(c) ==
    LET call == calls[c]
        target == IF call.op = "at" THEN call.n ELSE now + call.n
    IN
    /\ Creates(call) /\ target > now /\ target <= Horizon
    /\ Appends(c, Create(FreshId(Fold(log)), target, IF call.op = "every" THEN call.n ELSE 0))

CallDeletes(c) ==
    /\ calls[c].op = "delete" /\ calls[c].n \in DOMAIN Active(log)
    /\ Appends(c, Delete(calls[c].n))

\* The change is confirmed once it is durable, and the owner recomputes again.
CallConfirms(c) ==
    /\ calls[c].pc = "barrier"
    /\ stored' = FlushedTo(calls[c].covers)
    /\ IF calls[c].op = "create" THEN Knows({calls[c].n}, {}) ELSE Knows({}, {calls[c].n})
    /\ Returns(c) /\ rt' = Left(Requested(rt))
    /\ UNCHANGED <<log, now, life, agent, repeatable, budgets>>

-----------------------------------------------------------------------------
(* The agent, the clock and the process. *)

Spends == turns > 0 /\ turns' = turns - 1

\* A prompt starts a turn, or is latched behind maintenance.
Prompted ==
    /\ life # "down" /\ Spends
    /\ \/ agent.phase = "idle" /\ agent' = [agent EXCEPT !.phase = "running"]
       \/ agent.phase \in {"maintenance", "foreign"} /\ agent' = [agent EXCEPT !.wake = TRUE]
    /\ UNCHANGED <<durable, now, life, rt, calls, history, trouble>>

MaintenanceBegins ==
    /\ life # "down" /\ Spends
    /\ agent.phase = "idle" /\ agent' = [agent EXCEPT !.phase = "foreign"]
    /\ UNCHANGED <<durable, now, life, rt, calls, history, trouble>>

\* The status was idle all along, and nobody hears of it.
MaintenanceEnds ==
    /\ agent.phase = "foreign"
    /\ agent' = [phase |-> IF agent.wake THEN "running" ELSE "idle", wake |-> FALSE]
    /\ UNCHANGED <<durable, now, life, rt, calls, history, budgets>>

\* A cancel takes back what waits behind maintenance.
Cancel ==
    /\ agent.wake /\ Fails
    /\ agent' = [agent EXCEPT !.wake = FALSE]
    /\ UNCHANGED <<durable, now, life, rt, calls, history, turns>>

\* The status listener asks for a drive if the log knows of schedules.
TurnEnds ==
    /\ agent.phase = "running" /\ \A c \in Calls : calls[c].pc = "none"
    /\ agent' = [agent EXCEPT !.phase = "idle"]
    /\ rt' = IF \E i \in 1..Len(log) : log[i].op # "followup" THEN Requested(rt) ELSE rt
    /\ UNCHANGED <<durable, now, life, calls, history, budgets>>

Tick ==
    /\ now < Horizon /\ now' = now + 1
    /\ UNCHANGED <<durable, life, rt, agent, calls, history, budgets>>

Rollback ==
    /\ Fails /\ \E t \in Instant : t < now /\ now' = t
    /\ UNCHANGED <<durable, life, rt, agent, calls, history, turns>>

\* The agent is retired from the registry before its scope is unwound.
Departs ==
    /\ life = "live" /\ Fails /\ life' = "leaving"
    /\ UNCHANGED <<durable, now, rt, agent, calls, history, turns>>

\* Fault: the idle wait is not told.
StoppedBarely(r) == [r EXCEPT !.requested = FALSE, !.timer = NoTimer]

StoppedRuntime(r) ==
    [r EXCEPT !.requested = FALSE, !.timer = NoTimer,
              !.idle = IF @ = "watching" THEN "settled" ELSE @]

\* dispose, by the agent's scope or by the plugin, which may outlive its agents' turns.
Stops ==
    /\ \/ life = "live" /\ Fails
       \/ life = "leaving" /\ UNCHANGED trouble
    /\ life' = "stopping"
    /\ rt' = StoppedRuntime(rt)
    /\ UNCHANGED <<durable, now, agent, calls, history, turns>>

Disposed ==
    /\ life = "stopping" /\ rt.run = "none" /\ rt.idle = "none"
    /\ life' = "stopped"
    /\ UNCHANGED <<durable, now, rt, agent, calls, history, budgets>>

\* Occurrences whose message is in the log and whose record still owes them.
Undone(events) ==
    {o \in UNION {events[i].due : i \in {j \in 1..Len(events) : events[j].op = "followup"}} :
        o[1] \in DOMAIN Active(events) /\ Active(events)[o[1]].at <= o[2]}

\* The process dies, or the session is closed; some prefix was durable by then.
Leaves ==
    /\ life # "down" /\ Fails
    /\ life' = "down"
    /\ \E n \in stored..Len(log) :
        /\ log' = SubSeq(log, 1, n) /\ stored' = n
        /\ repeatable' = repeatable \cup Undone(SubSeq(log, 1, n))
    /\ rt' = Fresh
    /\ agent' = [phase |-> "idle", wake |-> FALSE]
    /\ calls' = [c \in Calls |-> NoCall]
    /\ UNCHANGED <<now, told, turns>>

\* A new agent on the stored log; start() asks for the first drive.
Resumes ==
    /\ life = "down" /\ life' = "live"
    /\ rt' = Queued(Fresh)
    /\ UNCHANGED <<durable, now, agent, calls, history, budgets>>

-----------------------------------------------------------------------------
OwnerStep ==
    \/ DriveBegins \/ PreflightFails \/ PreflightWaits \/ PreflightFindsBusy \/ Maintains
    \/ Releases \/ BarrierSettles \/ Loops \/ Retires
    \/ TimerFires \/ IdleSeen \/ IdleWaitEnds

CallStep(c) ==
    CallBegins(c) \/ CallFails(c) \/ CallAnswers(c) \/ CallCreates(c) \/ CallDeletes(c)
    \/ CallConfirms(c)

Outside ==
    \/ Prompted \/ MaintenanceBegins \/ MaintenanceEnds \/ Cancel \/ TurnEnds
    \/ Tick \/ Rollback \/ Departs \/ Stops \/ Disposed \/ Leaves \/ Resumes

Next == OwnerStep \/ Outside \/ \E c \in Calls : Invoke(c) \/ CallStep(c)

Driving ==
    \/ DriveBegins \/ PreflightFails \/ PreflightWaits \/ PreflightFindsBusy \/ Maintains
    \/ Releases \/ BarrierSettles \/ Loops \/ Retires

Spec == Init /\ [][Next]_vars

(***************************************************************************)
(* Flushes settle, reactions and timers run, the clock goes on.  Turns and   *)
(* the maintenance of others end while the owner lives; once it is stopping   *)
(* they need not, so that its disposal may not count on them.                *)
(***************************************************************************)
Fairness ==
    /\ WF_vars(Driving) /\ WF_vars(TimerFires) /\ WF_vars(IdleSeen) /\ WF_vars(IdleWaitEnds)
    /\ \A c \in Calls : WF_vars(CallStep(c))
    /\ SF_vars(life = "live" /\ TurnEnds) /\ WF_vars(life = "live" /\ MaintenanceEnds)
    /\ WF_vars(Tick) /\ WF_vars(Disposed)

FairSpec == Spec /\ Fairness

-----------------------------------------------------------------------------
(* Properties. *)

RunningPlaces == {"preflight", "maintaining", "barrier"}

\* The shape of the state; the range of timers is the fold's matter.
TypeOK ==
    /\ stored \in 0..Len(log)
    /\ now \in Instant
    /\ life \in {"live", "leaving", "stopping", "stopped", "down"}
    /\ rt \in [requested : BOOLEAN, timer : {rt.timer}, faulted : BOOLEAN, sent : BOOLEAN,
               run : {"none", "queued", "looping", "retiring"} \cup RunningPlaces,
               idle : {"none", "watching", "settled"}, covers : Nat, aside : BOOLEAN,
               fifo : Seq(Calls \cup {Owner})]
    /\ agent \in [phase : {"idle", "running", "maintenance", "foreign"}, wake : BOOLEAN]
    /\ DOMAIN calls = Calls
    /\ \A c \in Calls :
        calls[c] \in [pc : {"none", "queued", "preflight", "barrier"}, op : {calls[c].op},
                     n : {calls[c].n}, covers : Nat]

Waits(x) == \E i \in 1..Len(rt.fifo) : rt.fifo[i] = x
CallRuns(c) == calls[c].pc \in {"preflight", "barrier"}

\* Every transaction under way is in the queue, once, and the one that runs is its head.
Serial ==
    /\ \A i, j \in 1..Len(rt.fifo) : rt.fifo[i] = rt.fifo[j] => i = j
    /\ rt.run \in {"queued"} \cup RunningPlaces <=> Waits(Owner)
    /\ rt.run \in RunningPlaces => rt.fifo[1] = Owner
    /\ \A c \in Calls :
        /\ calls[c].pc # "none" <=> Waits(c)
        /\ CallRuns(c) => rt.fifo[1] = c

\* A flush under way covers the whole log: nobody appends beside it.
Covered ==
    /\ rt.run \in {"preflight", "barrier"} => rt.covers = Len(log)
    /\ \A c \in Calls : CallRuns(c) => calls[c].covers = Len(log)

\* Drives and calls exclude one another, whatever order triggers, calls, cancels and
\* failures come in: each flushes, folds, appends and flushes again on a log only it
\* extends (runScheduleTransaction).
QueueInv == TypeOK /\ Serial /\ Covered

\* The log always folds, and so does every prefix a kill may leave: no id is given
\* out twice, nothing finished is deleted or dispatched, whatever order tool calls,
\* drives and kills come in (foldScheduleEvents would throw, and every tool and the
\* owner stop for good).
LogFolds == Fold(log).legal

\* What a caller was told survives every kill: a reminder it was told of is in the
\* durable log, and one reported gone does not come back (tools.ts: preflights and
\* post-append barriers; README, Composition).
AnswersSurvive ==
    LET f == Fold(SubSeq(log, 1, stored)) IN
    /\ told.created \subseteq f.seen
    /\ told.gone \subseteq f.seen \ DOMAIN f.active

\* In every prefix, a dispatch comes after a follow-up with exactly the occurrence
\* it finishes: a kill between the two repeats a reminder but never loses one.
NoReminderLost ==
    \A j \in 1..Len(log) : log[j].op = "dispatch" =>
        \E i \in 1..j-1 :
            /\ log[i].op = "followup"
            /\ <<log[j].id, Occurrence(Active(SubSeq(log, 1, j-1))[log[j].id], log[j].accepted)>>
                   \in log[i].due
            /\ \A k \in i..j-1 : log[k].op = "dispatch" => log[k].id # log[j].id

\* Successive messages about a reminder present later and later occurrences, even
\* if the clock is set back, an append throws or a barrier is rejected.  Only a kill
\* that kept a message and lost its dispatch lets one be repeated (README, "Narrow
\* crash duplicate window").
RepeatsOnlyAcrossKills ==
    \A j \in 1..Len(log) : \A i \in 1..j-1 :
        log[i].op = "followup" /\ log[j].op = "followup" =>
            \A a \in log[i].due, b \in log[j].due :
                a[1] = b[1] => a[2] < b[2] \/ a \in repeatable

\* A reminder is presented for an instant of the grid its creation laid, however
\* late, batched or set back the decisions were.
OnTheGrid ==
    \A j \in 1..Len(log) : log[j].op = "followup" =>
        \A o \in log[j].due : \E i \in 1..j-1 :
            /\ log[i].op = "create" /\ log[i].id = o[1] /\ o[2] >= log[i].at
            /\ IF log[i].every = 0 THEN o[2] = log[i].at
               ELSE (o[2] - log[i].at) % log[i].every = 0

\* A live owner with reminders always has something that will bring it back: a run,
\* an idle wait, or a timer no later than its earliest target; unless its last drive
\* met a failure, which leaves the reminder to the next activity (README,
\* "Activity-driven retry").
NothingStranded ==
    life = "live" /\ ~rt.faulted /\ ~rt.aside /\ DOMAIN Active(log) # {} =>
        \/ rt.run # "none" \/ rt.idle # "none"
        \/ rt.timer # NoTimer /\ \A i \in DOMAIN Active(log) : rt.timer <= Active(log)[i].at

\* What the log and the live owner's plans hold to, in every order of calls, drives,
\* failures, clock changes and kills: the log folds, no reminder is lost or needlessly
\* repeated, each is presented on its grid, and none is left without a wake.
ReminderInv ==
    LogFolds /\ NoReminderLost /\ RepeatsOnlyAcrossKills /\ OnTheGrid /\ NothingStranded

Presents == Len(log') > Len(log) /\ log'[Len(log) + 1].op = "followup"

\* No occurrence is presented before its time, although the clock may be set back
\* between the decision of the wake and that of the task.
NeverEarly ==
    [][Presents => \A o \in log'[Len(log) + 1].due : o[2] <= now']_vars

\* The owner acts, and callers are answered, on durable changes only: nothing that
\* another transaction appended is still unconfirmed when a reminder is presented or
\* a caller told what there is.
ActsOnDurable == [][Presents \/ told' # told => stored' >= Len(log)]_vars

\* A live owner whose last drive met no failure gets rid of its reminders: each is
\* presented, again and again until its grid ends.
RemindersAreDelivered ==
    \A i \in 1..MaxIds :
        []<>(i \notin DOMAIN Active(log) \/ ~Runnable \/ rt.faulted \/ rt.aside)

\* Calls and drives share one queue, and calls are made within turns the owner waits
\* for: yet every call returns.
CallsReturn == \A c \in Calls : calls[c].pc # "none" ~> calls[c].pc = "none"

\* dispose returns even if the agent never becomes idle.
DisposalEnds == life = "stopping" ~> life # "stopping"

\* Turns, drives, calls and a disposal wait for one another, and none waits for ever
\* (runtime.ts: awaitIdle holds no place in the queue, dispose aborts the wait).
WaitsEnd == CallsReturn /\ DisposalEnds
=============================================================================
