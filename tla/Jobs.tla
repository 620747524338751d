-------------------------------- MODULE Jobs --------------------------------
(***************************************************************************)
(* The process-local registry of background jobs                            *)
(* (jobs/jobs-local/src/index.ts) with the completion reporter of           *)
(* jobs/tool-jobs/src/index.ts: starting under a limit, producers that end   *)
(* on their own or when cancelled, callers that kill, read and wait, owners  *)
(* and the service going away.                                               *)
(*                                                                          *)
(* A step is one synchronous span of the event loop: a call, the reaction to *)
(* a producer's done promise, a timer or an abort listener, the continuation *)
(* of a wait or of an awaiting teardown.  The record of a job outlives its   *)
(* removal from the store, because waits and reactions hold on to it.        *)
(***************************************************************************)
EXTENDS Naturals, FiniteSets

CONSTANTS
    Jobs,                 \* jobs producers may start, each once
    Owners,               \* agents that own jobs
    NoOwner,              \* the shared bucket of unowned jobs
    OwnerOf,              \* the owner given to each job's start()
    Waits,                \* concurrent calls of wait()
    NoJob,                \* the job of a wait that is not under way
    Outcomes,             \* terminal statuses producers report
    Limit                 \* maxConcurrentJobsPerOwner

Terminal == {"completed", "killed", "failed"}

ASSUME JobsAssumption ==
    /\ IsFiniteSet(Jobs)
    /\ NoOwner \notin Owners
    /\ OwnerOf \in [Jobs -> Owners \cup {NoOwner}]
    /\ NoJob \notin Jobs
    /\ Outcomes \subseteq Terminal
    /\ Limit \in Nat

VARIABLES
    listed,               \* this.store: the ids it holds
    status,               \* per job: status, "absent" before its start
    reported,             \* jobs whose record says reported
    work,                 \* per job: the producer behind the record
    wait,                 \* per call of wait(): where it is
    agents,               \* per owner: "live", "draining" or "disposed"
    cleanups,             \* this.ownerCleanups: owners with an attached cleanup
    awaited,              \* per owner: the records its cleanup awaits
    service,              \* "up", "draining" (listenersClosed) or "down"
    view,                 \* what the observers of onJobsChanged last read
    notices,              \* per job: notices the reporter gave its owner
    told,                 \* jobs whose end a caller was given or took on itself
    torn,                 \* jobs a teardown claimed
    orphans               \* jobs whose teardown cancel threw

jobsVars == <<listed, status, reported, work, wait, agents, cleanups, awaited,
              service, view, notices, told, torn, orphans>>

owners == <<agents, cleanups, awaited>>
outside == <<notices, told, torn, orphans>>

(***************************************************************************)
(* work[j]: "none", then "running", "cancelled" once cancel() was accepted,  *)
(* "settled" when done has settled and the registry's reaction is queued,    *)
(* "over" when that reaction has run.                                        *)
(* wait[w].phase: "waiting" on settlement, timer and abort; "expired" when   *)
(* the timer resolved it and "released" when the settlement did, both still  *)
(* counted in job.waiters until the caller's continuation runs.              *)
(***************************************************************************)
Resting == [phase |-> "idle", job |-> NoJob]

Ended(j) == status[j] \in Terminal

\* job.waiters > 0
Counted(j) == \E w \in Waits : wait[w].job = j /\ wait[w].phase # "idle"

Active(o) == {j \in listed : OwnerOf[j] = o /\ status[j] \in {"running", "stopping"}}

Owned(o) == {j \in listed : OwnerOf[j] = o}

\* What list() shows of a job.
Shown(j) == IF j \in listed THEN status[j] ELSE "absent"

\* notifyChanged: the observers of these owners read the list again.
Notify(os) == view' = [j \in Jobs |-> IF OwnerOf[j] \in os THEN Shown(j)' ELSE view[j]]

JobsInit ==
    /\ listed = {} /\ reported = {} /\ cleanups = {}
    /\ status = [j \in Jobs |-> "absent"]
    /\ work = [j \in Jobs |-> "none"]
    /\ wait = [w \in Waits |-> Resting]
    /\ agents = [o \in Owners |-> "live"]
    /\ awaited = [o \in Owners |-> {}]
    /\ service = "up"
    /\ view = [j \in Jobs |-> "absent"]
    /\ notices = [j \in Jobs |-> 0]
    /\ told = {} /\ torn = {} /\ orphans = {}

-----------------------------------------------------------------------------
(* start. *)

\* The owner is the registered agent and its scope takes effects; the service
\* is visible only while its fiber is active.
Admits(o) == service = "up" /\ (o \in Owners => agents[o] = "live")

Start(j) ==
    LET o == OwnerOf[j] IN
    /\ status[j] = "absent"
    /\ Admits(o)
    /\ Cardinality(Active(o)) < Limit
    /\ cleanups' = cleanups \cup ({o} \cap Owners)
    /\ status' = [status EXCEPT ![j] = "running"]
    /\ listed' = listed \cup {j}
    /\ work' = [work EXCEPT ![j] = "running"]
    /\ Notify({o})
    /\ UNCHANGED <<reported, wait, agents, awaited, service, outside>>

\* The limit refuses, or the starter throws: only the owner's cleanup stays.
StartFails(o) ==
    /\ Admits(o)
    /\ cleanups' = cleanups \cup {o}
    /\ UNCHANGED <<listed, status, reported, work, wait, agents, awaited,
                   service, view, outside>>

-----------------------------------------------------------------------------
(* Producers and settle. *)

\* The producer releases its resources and settles done.
ProducerEnds(j) ==
    /\ work[j] \in {"running", "cancelled"}
    /\ work' = [work EXCEPT ![j] = "settled"]
    /\ UNCHANGED <<listed, status, reported, wait, owners, service, view, outside>>

\* settle() of every live job of S: the outcome is recorded, a counted wait makes
\* it reported, and live waits are released before anybody hears of it.
Recorded(S, outcome) ==
    /\ status' = [j \in Jobs |-> IF j \in S THEN outcome ELSE status[j]]
    /\ wait' = [w \in Waits |->
                    IF wait[w].job \in S /\ wait[w].phase = "waiting"
                    THEN [wait[w] EXCEPT !.phase = "released"] ELSE wait[w]]

\* tool-jobs' listener on onJobDone: nothing once listeners are closed, for a
\* reported record or for an unowned job, otherwise followup or inject.
Announced(j) ==
    service = "up" /\ j \notin reported' /\ OwnerOf[j] # NoOwner

\* The reaction to done; the first outcome wins.
Settle(j, outcome) ==
    /\ work[j] = "settled"
    /\ work' = [work EXCEPT ![j] = "over"]
    /\ UNCHANGED <<listed, owners, service, told, torn, orphans>>
    /\ \/ /\ Ended(j)
          /\ UNCHANGED <<status, reported, wait, view, notices>>
       \/ /\ ~Ended(j)
          /\ Recorded({j}, outcome)
          /\ reported' = IF Counted(j) THEN reported \cup {j} ELSE reported
          /\ Notify({OwnerOf[j]})
          /\ notices' = [notices EXCEPT ![j] = IF Announced(j) THEN @ + 1 ELSE @]

-----------------------------------------------------------------------------
(* kill, read and wait, by callers the access fence lets through. *)

Reachable(j) == j \in listed /\ service # "down"

\* The caller is given the terminal snapshot, or commits to the job's end.
Tells(j) == reported' = reported \cup {j} /\ told' = told \cup {j}

\* cancel() returned; when it throws, nothing changes.
Cancelled(S) ==
    work' = [j \in Jobs |-> IF j \in S /\ work[j] = "running" THEN "cancelled" ELSE work[j]]

Kill(j) ==
    /\ Reachable(j)
    /\ ~Ended(j)
    /\ Cancelled({j})
    /\ status' = [status EXCEPT ![j] = "stopping"]
    /\ Tells(j)
    /\ UNCHANGED <<listed, wait, owners, service, notices, torn, orphans>>
    /\ Notify({OwnerOf[j]})

\* read(), kill() and wait() of a job that has ended answer at once.
ReadEnd(j) ==
    /\ Reachable(j)
    /\ Ended(j)
    /\ Tells(j)
    /\ UNCHANGED <<listed, status, work, wait, owners, service, view,
                   notices, torn, orphans>>

WaitBegins(w, j) ==
    /\ wait[w] = Resting
    /\ Reachable(j)
    /\ ~Ended(j)
    /\ wait' = [wait EXCEPT ![w] = [phase |-> "waiting", job |-> j]]
    /\ UNCHANGED <<listed, status, reported, work, owners, service, view, outside>>

\* The deadline resolves the wait; its caller has yet to run.
WaitExpires(w) ==
    /\ wait[w].phase = "waiting"
    /\ wait' = [wait EXCEPT ![w].phase = "expired"]
    /\ UNCHANGED <<listed, status, reported, work, owners, service, view, outside>>

\* The abort listener uncounts in the same span and rejects.
WaitAborts(w) ==
    /\ wait[w].phase = "waiting"
    /\ wait' = [wait EXCEPT ![w] = Resting]
    /\ UNCHANGED <<listed, status, reported, work, owners, service, view, outside>>

\* Fault: a wait that timed out answers with the status it timed out with.
WaitReturnsStale(w) ==
    /\ wait[w].phase \in {"expired", "released"}
    /\ wait' = [wait EXCEPT ![w] = Resting]
    /\ \/ wait[w].phase = "released" /\ Tells(wait[w].job)
       \/ wait[w].phase = "expired" /\ UNCHANGED <<reported, told>>
    /\ UNCHANGED <<listed, status, work, owners, service, view,
                   notices, torn, orphans>>

\* The caller's continuation: uncount, and look at the status as it is now.
WaitReturns(w) ==
    /\ wait[w].phase \in {"expired", "released"}
    /\ wait' = [wait EXCEPT ![w] = Resting]
    /\ \/ Ended(wait[w].job) /\ Tells(wait[w].job)
       \/ ~Ended(wait[w].job) /\ UNCHANGED <<reported, told>>
    /\ UNCHANGED <<listed, status, work, owners, service, view,
                   notices, torn, orphans>>

-----------------------------------------------------------------------------
(* disposeOwned and disposeAll. *)

\* Fault: a throwing cancel is only logged.
TeardownCancelsSoftly(S, thrown) ==
    LET live == {j \in S : ~Ended(j)} IN
    /\ reported' = reported \cup live
    /\ torn' = torn \cup live
    /\ orphans' = orphans \cup (thrown \cap live)
    /\ Cancelled(live \ thrown)
    /\ status' = [j \in Jobs |-> IF j \in live \ thrown THEN "stopping" ELSE status[j]]
    /\ UNCHANGED <<wait, notices, told>>

\* cancelForTeardown: every live job of S is claimed as reported before its
\* producer is asked to stop; those whose cancel throws are forced to fail.
TeardownCancels(S, thrown) ==
    LET live == {j \in S : ~Ended(j)} IN
    /\ reported' = reported \cup live
    /\ torn' = torn \cup live
    /\ orphans' = orphans \cup (thrown \cap live)
    /\ Cancelled(live \ thrown)
    /\ status' = [j \in Jobs |-> CASE j \in live \ thrown -> "stopping"
                                   [] j \in live \cap thrown -> "failed"
                                   [] OTHER -> status[j]]
    /\ wait' = [w \in Waits |->
                    IF wait[w].job \in live \cap thrown /\ wait[w].phase = "waiting"
                    THEN [wait[w] EXCEPT !.phase = "released"] ELSE wait[w]]
    /\ UNCHANGED <<notices, told>>

\* An owner's scope is disposed: its cleanup, if one was attached, cancels what
\* it owns and awaits the records.
AgentDisposes(o, thrown) ==
    /\ agents[o] = "live"
    /\ \/ /\ o \notin cleanups
          /\ agents' = [agents EXCEPT ![o] = "disposed"]
          /\ UNCHANGED <<listed, status, reported, work, wait, cleanups, awaited,
                         service, view, outside>>
       \/ /\ o \in cleanups
          /\ agents' = [agents EXCEPT ![o] = "draining"]
          /\ cleanups' = cleanups \ {o}
          /\ awaited' = [awaited EXCEPT ![o] = Owned(o)]
          /\ UNCHANGED <<listed, service>>
          /\ TeardownCancels(Owned(o), thrown)
          /\ Notify({o})

\* Fault: the dropped records are not announced.
AgentDrainedQuietly(o) ==
    /\ agents[o] = "draining"
    /\ \A j \in awaited[o] : Ended(j)
    /\ listed' = listed \ awaited[o]
    /\ agents' = [agents EXCEPT ![o] = "disposed"]
    /\ awaited' = [awaited EXCEPT ![o] = {}]
    /\ UNCHANGED <<status, reported, work, wait, cleanups, service, view, outside>>

\* All awaited records have ended: they leave the store.
AgentDrained(o) ==
    /\ agents[o] = "draining"
    /\ \A j \in awaited[o] : Ended(j)
    /\ listed' = listed \ awaited[o]
    /\ agents' = [agents EXCEPT ![o] = "disposed"]
    /\ awaited' = [awaited EXCEPT ![o] = {}]
    /\ UNCHANGED <<status, reported, work, wait, cleanups, service, outside>>
    /\ Notify({o})

\* The service's fiber unloads: listeners close before anything is cancelled.
ServiceDisposes(thrown) ==
    /\ service = "up"
    /\ service' = "draining"
    /\ UNCHANGED <<listed, owners>>
    /\ TeardownCancels(listed, thrown)
    /\ Notify(Owners \cup {NoOwner})

\* The store is cleared and the owners' cleanups are detached, which finds
\* nothing left to cancel.
ServiceDrained ==
    /\ service = "draining"
    /\ \A j \in listed : Ended(j)
    /\ service' = "down"
    /\ listed' = {}
    /\ cleanups' = {}
    /\ UNCHANGED <<status, reported, work, wait, agents, awaited, outside>>
    /\ Notify(Owners \cup {NoOwner})

-----------------------------------------------------------------------------
Producers == \E j \in Jobs :
    ProducerEnds(j) \/ \E outcome \in Outcomes : Settle(j, outcome)

Callers == \/ \E j \in Jobs : Start(j) \/ Kill(j) \/ ReadEnd(j)
           \/ \E o \in Owners : StartFails(o)
           \/ \E w \in Waits, j \in Jobs : WaitBegins(w, j)
           \/ \E w \in Waits : WaitExpires(w) \/ WaitAborts(w) \/ WaitReturns(w)

Teardown ==
    \/ \E thrown \in SUBSET Jobs :
          ServiceDisposes(thrown) \/ \E o \in Owners : AgentDisposes(o, thrown)
    \/ ServiceDrained
    \/ \E o \in Owners : AgentDrained(o)

JobsNext == Producers \/ Callers \/ Teardown

JobsSpec == JobsInit /\ [][JobsNext]_jobsVars

(***************************************************************************)
(* A producer whose cancel() returned settles done (the contract of          *)
(* JobHooks.cancel); reactions and continuations run; deadlines fire.        *)
(* Nothing obliges other work to end, a caller to call, or anybody to leave. *)
(***************************************************************************)
JobsFairSpec ==
    /\ JobsSpec
    /\ \A j \in Jobs :
          /\ WF_jobsVars(work[j] = "cancelled" /\ ProducerEnds(j))
          /\ WF_jobsVars(\E outcome \in Outcomes : Settle(j, outcome))
    /\ \A w \in Waits : WF_jobsVars(WaitExpires(w)) /\ WF_jobsVars(WaitReturns(w))
    /\ \A o \in Owners : WF_jobsVars(AgentDrained(o))
    /\ WF_jobsVars(ServiceDrained)

-----------------------------------------------------------------------------
Statuses == {"absent", "running", "stopping"} \cup Terminal

JobsTypeOK ==
    /\ listed \subseteq Jobs /\ reported \subseteq Jobs
    /\ status \in [Jobs -> Statuses]
    /\ work \in [Jobs -> {"none", "running", "cancelled", "settled", "over"}]
    /\ wait \in [Waits -> [phase : {"idle", "waiting", "expired", "released"},
                           job : Jobs \cup {NoJob}]]
    /\ agents \in [Owners -> {"live", "draining", "disposed"}]
    /\ cleanups \subseteq Owners
    /\ awaited \in [Owners -> SUBSET Jobs]
    /\ service \in {"up", "draining", "down"}
    /\ view \in [Jobs -> Statuses]
    /\ notices \in [Jobs -> Nat]
    /\ told \subseteq Jobs /\ torn \subseteq Jobs /\ orphans \subseteq Jobs

\* A record says that a job has ended only when its producer has released its
\* resources, unless teardown had to force it and called it orphaned.
EndMeansReleased ==
    \A j \in Jobs : Ended(j) => work[j] = "over" \/ j \in orphans

\* Whoever watches the visible set never keeps a stale row: every commit that
\* changes it, removal by a teardown too, is announced after it was made.
ObserversCurrent == \A j \in Jobs : view[j] = Shown(j)

\* No owner's bucket, nor the unowned one, ever exceeds the limit: stopping jobs
\* keep their place until their producers have ended.
LimitKept == \A o \in Owners \cup {NoOwner} : Cardinality(Active(o)) <= Limit

\* When an owner is gone none of its jobs is left in the store, and the work
\* behind them is over; when the service is gone this holds of all jobs.
TeardownLeavesNothing ==
    \A j \in Jobs :
        (OwnerOf[j] \in Owners /\ agents[OwnerOf[j]] = "disposed") \/ service = "down"
          => j \notin listed /\ (status[j] = "absent" \/ Ended(j))

\* What the store, the owners' cleanups and the records have to do with one
\* another: only ended jobs leave the store, an owner of listed jobs has its
\* cleanup attached, and a draining owner awaits all that it still lists.
Bookkeeping ==
    /\ \A j \in listed : status[j] # "absent"
    /\ \A j \in Jobs \ listed : status[j] = "absent" \/ Ended(j)
    /\ \A j \in Jobs : status[j] = "absent" => work[j] = "none"
    /\ service = "down" => listed = {}
    /\ \A o \in Owners :
          /\ \A j \in awaited[o] : OwnerOf[j] = o
          /\ agents[o] = "live" /\ Owned(o) # {} => o \in cleanups
          /\ agents[o] = "draining" => Owned(o) \subseteq awaited[o]

\* Who has a claim on the report of a job: before the end only callers that
\* took it on and teardowns mark it reported; after the end of an owned job
\* somebody was told, or is about to return from a wait that is still counted.
Reporting ==
    /\ told \cup torn \subseteq reported
    /\ \A j \in Jobs :
          /\ notices[j] \in {0, 1}
          /\ status[j] = "absent" => j \notin reported
          /\ ~Ended(j) => notices[j] = 0
          /\ ~Ended(j) /\ j \in reported => j \in told \cup torn
          /\ ~Ended(j) /\ service # "up" => status[j] = "absent" \/ j \in torn
          /\ Ended(j) /\ OwnerOf[j] # NoOwner =>
                notices[j] = 1 \/ j \in told \cup torn \/ Counted(j)
    /\ \A w \in Waits : wait[w].phase # "idle" =>
          /\ wait[w].job \in Jobs
          /\ status[wait[w].job] # "absent"
          /\ wait[w].phase = "waiting" => ~Ended(wait[w].job)

\* The registry's invariant, over any interleaving of callers and teardowns.
RegistryInv == /\ JobsTypeOK /\ EndMeansReleased /\ ObserversCurrent /\ LimitKept
               /\ TeardownLeavesNothing /\ Bookkeeping /\ Reporting

(***************************************************************************)
(* A completion is lost when the job has ended without a notice, nobody was  *)
(* told, no teardown claimed it, and no counted wait is about to return it;  *)
(* it is repeated when two notices were given.  CompletionDelivery has       *)
(* neither stage.                                                           *)
(***************************************************************************)
StageOf(j) ==
    CASE status[j] = "absent" -> "none"
      [] notices[j] > 1 -> "repeated"
      [] notices[j] = 1 -> "announced"
      [] notices[j] = 0 /\ j \in told -> "known"
      [] notices[j] = 0 /\ j \notin told /\ j \in torn -> "dropped"
      [] notices[j] = 0 /\ j \notin told /\ j \notin torn /\ Ended(j) ->
            IF Counted(j) THEN "owed" ELSE "lost"
      [] OTHER -> "live"

OwnedJobs == {j \in Jobs : OwnerOf[j] # NoOwner}

CD == INSTANCE CompletionDelivery WITH
        Jobs <- OwnedJobs, stage <- [j \in OwnedJobs |-> StageOf(j)]

\* Every owner hears of the end of its job in exactly one way, although waits
\* time out, abort and are released in the tick in which the job settles.
ImplementsCompletionDelivery == CD!Spec

\* No teardown hangs: not on a producer that settles late, not on one whose
\* cancel throws, not on one that an owner and the service cancel together.
TeardownEnds ==
    /\ \A o \in Owners : agents[o] = "draining" ~> agents[o] = "disposed"
    /\ service = "draining" ~> service = "down"
=============================================================================
