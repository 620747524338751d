---------------------------- MODULE Preparations ----------------------------
(***************************************************************************)
(* One persisted session as the persistence coordinator shares it            *)
(* (session-persistence/src/coordinator.ts) through the pool of unpublished  *)
(* Sessions (preparations.ts): inspections, loads, resumes and appends that   *)
(* run at the same time, the live session a resume becomes, and its           *)
(* retirement.                                                              *)
(*                                                                          *)
(* A step is a synchronous span: the continuation of a call, or an operation *)
(* of the session's chain between two of its awaits.  Operations of a chain   *)
(* run one at a time; an operation at "queued" has not started.  The session  *)
(* log is counted, not spelled out: "own" events written by this process,     *)
(* "foreign" ones by others, and whether its last turn is open (or its tail    *)
(* torn), which is what a repair mends.                                       *)
(***************************************************************************)
EXTENDS Naturals, Sequences

CONSTANTS
    Calls,                \* calls of the service, each made once
    Kinds,                \* per call: "inspect", "load", "prepare" or "append"
    Entries,              \* identities of pool entries
    NoCall, NoEntry, NoSource, Untracked,
    MaxOwn,               \* bound: events this process adds
    MaxTrouble            \* bound: foreign writes, evictions and failures

ASSUME PreparationsAssumption ==
    /\ NoCall \notin Calls
    /\ NoEntry \notin Entries
    /\ NoSource \notin [own : Nat, foreign : Nat, open : BOOLEAN]
    /\ Untracked \notin [cursor : Nat, owner : Calls \cup {NoCall}]
    /\ Kinds \in [Calls -> SUBSET {"inspect", "load", "prepare", "append"}]
    /\ MaxOwn \in Nat /\ MaxTrouble \in Nat

VARIABLES
    stored,               \* the durable log
    tracked,              \* this.states: cursor and owner, or Untracked
    live,                 \* sessions.get(id): the call whose Session is published
    retiring,             \* this.retirements.has(id)
    pool,                 \* the entry of this id: identity, phase, source
    chain,                \* this.chains: the running operation and those behind it
    call,                 \* per call: where it is
    trouble               \* budget of disturbances

vars == <<stored, tracked, live, retiring, pool, chain, call, trouble>>
state == <<stored, tracked, live, retiring>>

Length(log) == log.own + log.foreign

NoPool == [entry |-> NoEntry, phase |-> "none", source |-> NoSource]

\* A call before it began, and one that is over.
Out(pc) == [pc |-> pc, kind |-> "none", entry |-> NoEntry, source |-> NoSource,
            aborted |-> FALSE]

Op(kind, c, e, source) ==
    [kind |-> kind, call |-> c, entry |-> e, source |-> source, at |-> "queued"]

Init ==
    /\ stored \in [own : {1}, foreign : {0}, open : BOOLEAN]
    /\ tracked = Untracked
    /\ live = NoCall
    /\ retiring = FALSE
    /\ pool = NoPool
    /\ chain = <<>>
    /\ call = [c \in Calls |-> Out("idle")]
    /\ trouble = MaxTrouble

Head1(kind) == chain # <<>> /\ Head(chain).kind = kind

At(c, pc) == [call[c] EXCEPT !.pc = pc]

\* Calls with one of them moved.
Put(c, record) == [call EXCEPT ![c] = record]

Fails == trouble > 0 /\ trouble' = trouble - 1

-----------------------------------------------------------------------------
(* The pool: remove, makeReady and the waiters they release. *)

\* Everybody who awaits the reservation of entry e is released.
Released(calls, e) ==
    [c \in Calls |-> IF calls[c].pc = "waiting" /\ calls[c].entry = e
                     THEN [calls[c] EXCEPT !.pc = "loaded"] ELSE calls[c]]

\* Fault: an entry is removed by its session id, whoever has replaced it.
RemoveById(e, calls) == pool' = NoPool /\ call' = Released(calls, pool.entry)

\* remove(e): nothing when another entry has taken its place.
Remove(e, calls) ==
    IF pool.entry = e
    THEN pool' = NoPool /\ call' = Released(calls, e)
    ELSE pool' = pool /\ call' = calls

\* Fault: the waiters of a returned reservation are not released.
MakeReadySilently(e, calls) ==
    /\ pool' = IF pool.entry = e THEN [pool EXCEPT !.phase = "ready"] ELSE pool
    /\ call' = calls

MakeReady(e, calls) ==
    IF pool.entry = e
    THEN pool' = [pool EXCEPT !.phase = "ready"] /\ call' = Released(calls, e)
    ELSE pool' = pool /\ call' = calls

\* An identity nobody holds; Entries bounds how many are held at a time.
Unheld(e) ==
    /\ e \in Entries /\ e # pool.entry
    /\ \A c \in Calls : call[c].entry # e
    /\ \A i \in 1..Len(chain) : chain[i].entry # e

FreshEntry == CHOOSE e \in Entries : Unheld(e)

-----------------------------------------------------------------------------
(* prepare, load and inspect. *)

\* The head of their loops: an aborted signal throws, a retirement is awaited.
LoopTop(c) ==
    IF call[c].aborted THEN Out("done")
    ELSE [call[c] EXCEPT !.pc = IF retiring THEN "parked" ELSE "gap",
                         !.entry = NoEntry, !.source = NoSource]

Begin(c, kind) ==
    /\ call[c].pc = "idle"
    /\ call' = Put(c, [Out(IF retiring THEN "parked" ELSE "gap") EXCEPT !.kind = kind])
    /\ UNCHANGED <<state, pool, chain, trouble>>

\* Past retirement: a live session answers or refuses at once, otherwise the
\* call joins the entry, making and loading it when there is none.  Between
\* looking for a retirement and this step a session may have begun to retire,
\* which only inspect looks for again.
Proceed(c) ==
    /\ call[c].pc = "gap"
    /\ UNCHANGED <<state, trouble>>
    /\ \/ /\ call[c].kind = "inspect" /\ retiring
          /\ call' = Put(c, At(c, "parked"))
          /\ UNCHANGED <<pool, chain>>
       \/ /\ live # NoCall
          /\ call' = Put(c, Out("done"))
          /\ UNCHANGED <<pool, chain>>
       \/ /\ live = NoCall /\ (call[c].kind = "inspect" => ~retiring)
          /\ pool.entry = NoEntry
          /\ LET e == FreshEntry IN
             /\ Unheld(e)
             /\ pool' = [entry |-> e, phase |-> "loading", source |-> NoSource]
             /\ chain' = Append(chain, Op("load", NoCall, e, NoSource))
             /\ call' = Put(c, [At(c, "loading") EXCEPT !.entry = e])
       \/ /\ live = NoCall /\ (call[c].kind = "inspect" => ~retiring)
          /\ pool.entry # NoEntry
          /\ call' = Put(c, [At(c, IF pool.phase = "loading" THEN "loading" ELSE "loaded")
                                EXCEPT !.entry = pool.entry,
                                       !.source = IF call[c].kind = "inspect"
                                                  THEN pool.source ELSE NoSource])
          /\ UNCHANGED <<pool, chain>>

\* The shared read settles: the entry becomes ready unless it was removed, and
\* everybody who joined it goes on.
LoadRuns ==
    LET e == Head(chain).entry
        joined(c) == call[c].pc = "loading" /\ call[c].entry = e
    IN
    /\ Head1("load")
    /\ chain' = Tail(chain)
    /\ UNCHANGED state
    /\ \/ /\ pool' = IF pool.entry = e
                     THEN [entry |-> e, phase |-> "ready", source |-> stored] ELSE pool
          /\ call' = [c \in Calls |->
                        IF joined(c)
                        THEN [At(c, "loaded") EXCEPT
                                !.source = IF call[c].kind = "inspect" THEN stored ELSE NoSource]
                        ELSE call[c]]
          /\ UNCHANGED trouble
       \/ /\ Fails
          /\ Remove(e, [c \in Calls |-> IF joined(c) THEN Out("done") ELSE call[c]])

\* reserve looks at its entry again after every await.
ReserveLooks(c) ==
    LET e == call[c].entry IN
    /\ call[c].pc = "loaded" /\ call[c].kind \in {"prepare", "load"}
    /\ UNCHANGED <<state, trouble>>
    /\ \/ /\ pool.entry # e
          /\ call' = Put(c, LoopTop(c))
          /\ UNCHANGED <<pool, chain>>
       \/ /\ pool.entry = e /\ pool.phase # "ready"
          /\ call' = Put(c, At(c, "waiting"))
          /\ UNCHANGED <<pool, chain>>
       \/ /\ pool.entry = e /\ pool.phase = "ready"
          /\ pool' = [pool EXCEPT !.phase = "committing"]
          /\ IF call[c].aborted
             THEN call' = Put(c, At(c, "threw")) /\ UNCHANGED chain
             ELSE /\ call' = Put(c, At(c, "committing"))
                  /\ chain' = Append(chain, Op("commit", c, e, pool.source))

\* commitPrepared, or the end of a commit abandoned before it started.
CommitStarts ==
    LET c == Head(chain).call IN
    /\ Head1("commit") /\ Head(chain).at = "queued"
    /\ UNCHANGED <<state, pool, trouble>>
    /\ \/ /\ call[c].pc # "committing"
          /\ chain' = Tail(chain)
          /\ UNCHANGED call
       \/ /\ call[c].pc = "committing"
          /\ IF tracked # Untracked /\ tracked.owner # NoCall
             THEN chain' = Tail(chain) /\ call' = Put(c, At(c, "threw"))
             ELSE chain' = [chain EXCEPT ![1].at = "started"] /\ UNCHANGED call

\* A repair ends the open turn.  The state of the session, if there is one, is
\* not told.
Repaired == stored' = [stored EXCEPT !.own = @ + 1, !.open = FALSE]

\* An ownerless cursor at the end of a source that is still the log.
Established(source) == tracked' = [cursor |-> Length(source), owner |-> NoCall]

\* The revision is read and compared; a stale source is refused, an open one is
\* repaired and refused, and only a balanced, current one is committed.
CommitDecides ==
    LET c == Head(chain).call
        source == Head(chain).source
    IN
    /\ Head1("commit") /\ Head(chain).at = "started"
    /\ chain' = Tail(chain)
    /\ UNCHANGED <<live, retiring, pool>>
    /\ \/ /\ Fails
          /\ call' = Put(c, At(c, "threw"))
          /\ UNCHANGED <<stored, tracked>>
       \/ /\ source # stored
          /\ call' = Put(c, At(c, "refused"))
          /\ UNCHANGED <<stored, tracked, trouble>>
       \/ /\ source = stored /\ stored.open /\ Repaired
          /\ call' = Put(c, At(c, "refused"))
          /\ UNCHANGED <<tracked, trouble>>
       \/ /\ source = stored /\ ~stored.open /\ Established(source)
          /\ call' = Put(c, At(c, "committed"))
          /\ UNCHANGED <<stored, trouble>>

\* Back in reserve with what the commit returned, or threw.
ReserveReturns(c) ==
    LET e == call[c].entry IN
    /\ UNCHANGED <<state, chain, trouble>>
    /\ \/ call[c].pc = "threw" /\ Remove(e, Put(c, Out("done")))
       \/ call[c].pc = "refused" /\ Remove(e, Put(c, LoopTop(c)))
       \/ /\ call[c].pc = "committed" /\ call[c].aborted
          /\ MakeReady(e, Put(c, Out("done")))
       \/ /\ call[c].pc = "committed" /\ ~call[c].aborted /\ pool.entry # e
          /\ call' = Put(c, LoopTop(c))
          /\ UNCHANGED pool
       \/ /\ call[c].pc = "committed" /\ ~call[c].aborted /\ pool.entry = e
          /\ pool' = [pool EXCEPT !.phase = "reserved"]
          /\ call' = Put(c, At(c, "holding"))

\* load() discards its reservation and returns the inspection.
LoadReturns(c) ==
    /\ call[c].pc = "holding" /\ call[c].kind = "load"
    /\ Remove(call[c].entry, Put(c, Out("done")))
    /\ UNCHANGED <<state, chain, trouble>>

\* The holder of a preparation gives it up: reusable unless it has appended to
\* the Session before publication.
Release(c) ==
    /\ call[c].pc = "holding" /\ call[c].kind = "prepare"
    /\ \/ MakeReady(call[c].entry, Put(c, Out("done")))
       \/ Remove(call[c].entry, Put(c, Out("done")))
    /\ UNCHANGED <<state, chain, trouble>>

\* inspect has its source: a session published meanwhile answers, otherwise the
\* revision is checked behind whatever runs for this session.
InspectLooks(c) ==
    /\ call[c].pc = "loaded" /\ call[c].kind = "inspect"
    /\ UNCHANGED <<state, pool, trouble>>
    /\ \/ /\ live # NoCall
          /\ call' = Put(c, Out("done"))
          /\ UNCHANGED chain
       \/ /\ live = NoCall
          /\ call' = Put(c, At(c, "checking"))
          /\ chain' = Append(chain, Op("check", c, NoEntry, call[c].source))

CheckRuns ==
    LET c == Head(chain).call IN
    /\ Head1("check")
    /\ chain' = Tail(chain)
    /\ UNCHANGED <<state, pool>>
    /\ \/ /\ call[c].pc # "checking"
          /\ UNCHANGED <<call, trouble>>
       \/ /\ call[c].pc = "checking"
          /\ \/ /\ Fails
                /\ call' = Put(c, Out("done"))
             \/ /\ call' = Put(c, IF live # NoCall \/ Head(chain).source = stored
                                  THEN Out("done") ELSE At(c, "stale"))
                /\ UNCHANGED trouble

\* discardReady: a stale view is dropped and read again, or borrowed from the
\* one who holds it.
StaleDecides(c) ==
    LET mine == pool.entry = call[c].entry IN
    /\ call[c].pc = "stale"
    /\ pool' = IF mine /\ pool.phase = "ready" THEN NoPool ELSE pool
    /\ call' = Put(c, IF live # NoCall \/ (mine /\ pool.phase # "ready")
                      THEN Out("done") ELSE LoopTop(c))
    /\ UNCHANGED <<state, chain, trouble>>

\* The signal of an inspect or prepare fires.  Waiting on shared work ends at
\* once; a commit that has started is seen through.
Abort(c) ==
    /\ call[c].kind \in {"inspect", "prepare"} /\ ~call[c].aborted
    /\ call[c].pc \notin {"threw", "holding", "live", "retiring", "done"}
    /\ LET begun == \E i \in 1..Len(chain) :
                        chain[i].kind = "commit" /\ chain[i].call = c /\ chain[i].at = "started"
       IN call' = Put(c,
            CASE call[c].pc \in {"gap", "parked", "loading", "waiting", "checking"} -> Out("done")
              [] call[c].pc = "committing" /\ ~begun -> At(c, "threw")
              [] OTHER -> [call[c] EXCEPT !.aborted = TRUE])
    /\ UNCHANGED <<state, pool, chain, trouble>>

-----------------------------------------------------------------------------
(* append, by the public service or by the write path of the live session. *)

BeginAppend(c) ==
    /\ call[c].pc = "idle"
    /\ call' = Put(c, [Out("appending") EXCEPT !.kind = "append"])
    /\ chain' = Append(chain, Op("append", c, NoEntry, NoSource))
    /\ UNCHANGED <<state, pool, trouble>>

\* At most one write of a live session is under way.
LiveWrite(c) ==
    /\ live = c
    /\ \A i \in 1..Len(chain) : chain[i].call # c
    /\ stored.own < MaxOwn
    /\ chain' = Append(chain, Op("append", c, NoEntry, NoSource))
    /\ UNCHANGED <<state, pool, call, trouble>>

Appending == Head1("append") \/ Head1("drain")

\* Retirement is over, successful or not: those who await it go on.
Unparked(calls) ==
    [c \in Calls |-> IF calls[c].pc = "parked" THEN [calls[c] EXCEPT !.pc = "gap"] ELSE calls[c]]

\* The running append settles.  A drain that succeeded goes on to release the
\* state of its session; one that failed ends the retirement and releases nothing.
AppendSettles(ok) ==
    LET c == Head(chain).call
        after == IF call[c].kind = "append" THEN Put(c, Out("done")) ELSE call
    IN
    IF Head(chain).kind = "drain"
    THEN IF ok
         THEN /\ chain' = Append(Tail(chain), Op("retire", c, NoEntry, NoSource))
              /\ Remove(pool.entry, call)
              /\ UNCHANGED retiring
         ELSE /\ chain' = Tail(chain)
              /\ call' = Unparked(Put(c, Out("done")))
              /\ retiring' = FALSE
              /\ UNCHANGED pool
    ELSE /\ chain' = Tail(chain)
         /\ UNCHANGED retiring
         /\ IF ok THEN Remove(pool.entry, after) ELSE call' = after /\ UNCHANGED pool

\* assertWritable.
Writable == pool.phase \notin {"committing", "reserved"}

\* Fault: a batch is only checked against a reservation, not against a commit.
AppendStartsUnchecked ==
    /\ Appending /\ Head(chain).at = "queued"
    /\ UNCHANGED <<stored, tracked, live, trouble>>
    /\ chain' = [chain EXCEPT ![1].at = IF tracked = Untracked THEN "adopt" ELSE "write"]
    /\ UNCHANGED <<pool, call, retiring>>

AppendStarts ==
    /\ Appending /\ Head(chain).at = "queued"
    /\ UNCHANGED <<stored, tracked, live, trouble>>
    /\ \/ ~Writable /\ AppendSettles(FALSE)
       \/ /\ Writable
          /\ chain' = [chain EXCEPT ![1].at = IF tracked = Untracked THEN "adopt" ELSE "write"]
          /\ UNCHANGED <<pool, call, retiring>>

\* adopt: a ready source is taken from the pool, or the log is read.
AdoptReads ==
    /\ Appending /\ Head(chain).at = "adopt"
    /\ UNCHANGED <<state, call>>
    /\ LET got(source) == chain' = [chain EXCEPT ![1].at = "adopted", ![1].source = source]
       IN \/ /\ pool.phase = "ready"
             /\ got(pool.source) /\ pool' = NoPool
             /\ UNCHANGED trouble
          \/ /\ pool.phase # "ready"
             /\ got(stored)
             /\ UNCHANGED <<pool, trouble>>

\* commitPrepared on behalf of the append, until a source is committed.
AdoptCommits ==
    LET source == Head(chain).source
        next(at) == chain' = [chain EXCEPT ![1].at = at, ![1].source = NoSource]
    IN
    /\ Appending /\ Head(chain).at = "adopted"
    /\ UNCHANGED <<live, retiring, pool, call, trouble>>
    /\ \/ source # stored /\ next("adopt") /\ UNCHANGED <<stored, tracked>>
       \/ source = stored /\ stored.open /\ Repaired /\ next("adopt") /\ UNCHANGED tracked
       \/ source = stored /\ ~stored.open /\ Established(source) /\ next("write")
          /\ UNCHANGED stored

\* A batch that continues the cursor is made durable and the prepared view of the
\* old log is dropped, or a read or write of the backend fails.
AppendWrites ==
    /\ Appending
    /\ UNCHANGED live
    /\ \/ /\ Head(chain).at = "write"
          /\ \E open \in BOOLEAN : stored' = [stored EXCEPT !.own = @ + 1, !.open = open]
          /\ tracked' = [tracked EXCEPT !.cursor = @ + 1]
          /\ AppendSettles(TRUE)
          /\ UNCHANGED trouble
       \/ /\ Head(chain).at # "queued"
          /\ Fails /\ AppendSettles(FALSE)
          /\ UNCHANGED <<stored, tracked>>

-----------------------------------------------------------------------------
(* Publication and retirement of the live session. *)

\* attachPrepared: the reservation becomes the ownership of the log.
Publish(c) ==
    /\ call[c].pc = "holding" /\ call[c].kind = "prepare"
    /\ live = NoCall
    /\ live' = c
    /\ tracked' = [tracked EXCEPT !.owner = c]
    /\ Remove(call[c].entry, Put(c, [At(c, "live") EXCEPT !.entry = NoEntry]))
    /\ UNCHANGED <<stored, retiring, chain, trouble>>

\* session/disposed: retirement begins with the final drain, if anything is left.
Dispose(c) ==
    /\ live = c
    /\ live' = NoCall
    /\ retiring' = TRUE
    /\ call' = Put(c, At(c, "retiring"))
    /\ \E kind \in {"drain", "retire"} : chain' = Append(chain, Op(kind, c, NoEntry, NoSource))
    /\ UNCHANGED <<stored, tracked, pool, trouble>>

RetireRuns ==
    LET c == Head(chain).call IN
    /\ Head1("retire")
    /\ tracked' = IF tracked # Untracked /\ tracked.owner = c THEN Untracked ELSE tracked
    /\ retiring' = FALSE
    /\ call' = Unparked(Put(c, Out("done")))
    /\ chain' = Tail(chain)
    /\ UNCHANGED <<stored, live, pool, trouble>>

-----------------------------------------------------------------------------
(* Other processes, and other sessions. *)

ForeignWrite ==
    /\ Fails
    /\ \E open \in BOOLEAN : stored' = [stored EXCEPT !.foreign = @ + 1, !.open = open]
    /\ UNCHANGED <<tracked, live, retiring, pool, chain, call>>

\* touch: the entry is the least recently used of too many ready ones.
Evict ==
    /\ Fails
    /\ pool.phase = "ready"
    /\ pool' = NoPool
    /\ UNCHANGED <<state, chain, call>>

-----------------------------------------------------------------------------
Operations == \/ LoadRuns \/ CommitStarts \/ CommitDecides \/ CheckRuns
              \/ AppendStarts \/ AdoptReads \/ AdoptCommits \/ AppendWrites
              \/ RetireRuns

Continues(c) == \/ Proceed(c) \/ ReserveLooks(c) \/ ReserveReturns(c)
                \/ InspectLooks(c) \/ StaleDecides(c) \/ LoadReturns(c)

Ends(c) == Publish(c) \/ Release(c)

Next == \/ Operations
        \/ \E c \in Calls :
              \/ \E kind \in Kinds[c] \ {"append"} : Begin(c, kind)
              \/ "append" \in Kinds[c] /\ BeginAppend(c)
              \/ \/ Continues(c) \/ Ends(c) \/ Abort(c)
              \/ LiveWrite(c) \/ Dispose(c)
        \/ ForeignWrite \/ Evict

Spec == Init /\ [][Next]_vars

(***************************************************************************)
(* The backend answers, promise continuations run, and who holds a           *)
(* preparation publishes or releases it.  Nobody has to call, abort, write    *)
(* or dispose.                                                              *)
(***************************************************************************)
FairSpec == /\ Spec
            /\ WF_vars(Operations)
            /\ \A c \in Calls : WF_vars(Continues(c)) /\ WF_vars(Ends(c))

-----------------------------------------------------------------------------
Logs == [own : Nat, foreign : Nat, open : BOOLEAN]

TypeOK ==
    /\ stored \in Logs
    /\ tracked \in {Untracked} \cup [cursor : Nat, owner : Calls \cup {NoCall}]
    /\ live \in Calls \cup {NoCall}
    /\ retiring \in BOOLEAN
    /\ pool.entry \in Entries \cup {NoEntry}
    /\ pool.phase \in {"none", "loading", "ready", "committing", "reserved"}
    /\ pool.source \in Logs \cup {NoSource}
    /\ \A c \in Calls :
          call[c].pc \in {"idle", "gap", "parked", "loading", "loaded", "waiting",
                          "committing", "committed", "refused", "threw", "checking",
                          "stale", "appending", "holding", "live", "retiring", "done"}
    /\ trouble \in 0..MaxTrouble

\* Calls that have the current entry to themselves.
Holders == {c \in Calls : /\ call[c].pc \in {"committing", "committed", "refused", "threw", "holding"}
                          /\ call[c].entry = pool.entry}

\* An entry is committing or reserved for exactly one call, which still knows it.
OneHolder ==
    /\ pool.phase \in {"committing", "reserved"} <=> Holders # {}
    /\ \A c, d \in Holders : c = d
    /\ \A c \in Calls : call[c].pc = "holding" => c \in Holders /\ pool.phase = "reserved"

\* Whoever waits for an entry waits for one that somebody still has to settle,
\* although entries are invalidated, evicted and replaced under the waiters.
NobodyStranded ==
    \A c \in Calls :
        /\ call[c].pc = "waiting" =>
              pool.entry = call[c].entry /\ pool.phase \in {"committing", "reserved"}
        /\ call[c].pc = "loading" =>
              \E i \in 1..Len(chain) : chain[i].kind = "load" /\ chain[i].entry = call[c].entry

\* The Session somebody holds for publication is the durable log, balanced, with
\* its cursor at the end; only another process can have added to it since.
HeldIsDurable ==
    \A c \in Calls : call[c].pc = "holding" =>
        /\ tracked # Untracked /\ tracked.owner = NoCall
        /\ tracked.cursor = Length(pool.source)
        /\ pool.source.own = stored.own
        /\ ~pool.source.open

\* Session ids have one owner: a live session owns the state of its log, nothing
\* is prepared beside it, and no other call thinks it is published.
LiveOwns ==
    /\ live # NoCall => tracked # Untracked /\ tracked.owner = live /\ pool = NoPool
    /\ \A c \in Calls : call[c].pc = "live" <=> live = c

PreparationInv == TypeOK /\ OneHolder /\ NobodyStranded /\ HeldIsDurable /\ LiveOwns

(***************************************************************************)
(* The pool and the coordinator implement exclusive ownership of the log.    *)
(***************************************************************************)
OwnerOfLog ==
    CASE pool.phase = "reserved" -> CHOOSE c \in Holders : TRUE
      [] pool.phase # "reserved" /\ tracked # Untracked -> tracked.owner
      [] OTHER -> NoCall

ModeOfLog ==
    CASE pool.phase = "reserved" -> "reserved"
      [] live # NoCall -> "live"
      [] pool.phase # "reserved" /\ live = NoCall /\ OwnerOfLog # NoCall -> "retiring"
      [] OTHER -> "free"

ES == INSTANCE ExclusiveSession WITH
        mode <- ModeOfLog, owner <- OwnerOfLog, length <- stored.own

\* Whatever else runs, a log is not written by this process while it is reserved,
\* and it is not reserved again before its retiring session has let go of it.
ImplementsExclusiveSession == ES!Spec

\* Every inspection, load, resume and append ends, however often the entry it
\* waits for is invalidated, evicted or taken by another call.
CallsReturn ==
    \A c \in Calls : call[c].pc # "idle" ~> call[c].pc \in {"live", "done"}

\* What a comment says of SessionState.cursor: it is the length of the stored log
\* (no other process writes), whenever a batch is checked against it.
CursorIsLogLength ==
    Appending /\ Head(chain).at = "write" => tracked.cursor = Length(stored)
=============================================================================
