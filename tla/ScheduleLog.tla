---------------------------- MODULE ScheduleLog ----------------------------
(***************************************************************************)
(* Durable reminders as a fold of the session log                            *)
(* (schedule/schedule/src/domain.ts): which change may follow which, what is *)
(* still active, and how a fixed-rate reminder advances.                     *)
(*                                                                          *)
(* Instants are positive numbers up to Horizon, the last representable one.  *)
(* Ids are numbers in the order of their creation, as allocateScheduleId     *)
(* gives them out; every is 0 in a one-shot record (kinds after and at).     *)
(* Beside the changes the log has the insertion of a follow-up in the inbox, *)
(* with the occurrences its text presents.                                   *)
(***************************************************************************)
EXTENDS Naturals, Sequences, FiniteSets

CONSTANTS
    Horizon,              \* MAX_FOUR_DIGIT_YEAR_MS
    MaxIds                \* bound: reminders in a log

ASSUME ScheduleLogAssumption == Horizon \in Nat \ {0} /\ MaxIds \in Nat

Create(id, at, every) == [op |-> "create", id |-> id, at |-> at, every |-> every]
Delete(id) == [op |-> "delete", id |-> id]
\* A one-shot dispatch carries no acceptedAt (0).
Dispatch(id, accepted) == [op |-> "dispatch", id |-> id, accepted |-> accepted]
FollowUp(due) == [op |-> "followup", due |-> due]

NoSchedules == [legal |-> TRUE, active |-> <<>>, seen |-> {}]

\* Fault: the grid is laid anew at the decision.
DriftingOccurrence(r, accepted) == IF r.every = 0 THEN r.at ELSE accepted

\* The latest occurrence due at a decision, without enumerating missed ones.
Occurrence(r, accepted) ==
    IF r.every = 0 THEN r.at ELSE r.at + ((accepted - r.at) \div r.every) * r.every

\* The record after a dispatch is in the set, which is empty when it is finished.
Dispatched(r, accepted) ==
    LET next == Occurrence(r, accepted) + r.every IN
    IF r.every = 0 \/ next > Horizon THEN {} ELSE {[r EXCEPT !.at = next]}

Without(active, id) == [i \in DOMAIN active \ {id} |-> active[i]]
With(active, id, r) == [i \in DOMAIN active \cup {id} |-> IF i = id THEN r ELSE active[i]]

\* What the strict replay allows.
Follows(f, e) ==
    CASE e.op = "create" -> e.id \notin f.seen
      [] e.op = "delete" -> e.id \in DOMAIN f.active
      [] e.op = "dispatch" ->
            /\ e.id \in DOMAIN f.active
            /\ LET r == f.active[e.id] IN
               IF r.every = 0 THEN e.accepted = 0 ELSE e.accepted >= r.at
      [] OTHER -> TRUE

Change(f, e) ==
    CASE e.op = "create" ->
            [f EXCEPT !.seen = @ \cup {e.id},
                      !.active = With(@, e.id, [at |-> e.at, every |-> e.every])]
      [] e.op = "delete" -> [f EXCEPT !.active = Without(@, e.id)]
      [] e.op = "dispatch" ->
            LET next == Dispatched(f.active[e.id], e.accepted) IN
            IF next = {} THEN [f EXCEPT !.active = Without(@, e.id)]
            ELSE [f EXCEPT !.active = With(@, e.id, CHOOSE r \in next : TRUE)]
      [] OTHER -> f

\* One event of the fold, which throws at the first change that may not follow.
Replay(f, e) ==
    IF f.legal /\ Follows(f, e) THEN Change(f, e) ELSE [f EXCEPT !.legal = FALSE]

\* foldScheduleEvents: each event leads from what its predecessors lead to.
Replaying == INSTANCE LogFold WITH Fresh <- NoSchedules, Step <- Replay

Fold(log) == Replaying!Fold(log)

Active(log) == Fold(log).active

\* Fault: ids of finished reminders are given out again.
NextActiveId(f) == Cardinality(DOMAIN f.active) + 1

\* allocateScheduleId.
FreshId(f) ==
    CHOOSE i \in Cardinality(f.seen) + 1 .. 2 * Cardinality(f.seen) + 1 :
        /\ i \notin f.seen
        /\ \A j \in Cardinality(f.seen) + 1 .. i - 1 : j \in f.seen

-----------------------------------------------------------------------------
(* The decision of the live owner: one one-shot, else every fixed-rate record *)
(* that is due, else the next wake.                                          *)

Due(active, t) == {i \in DOMAIN active : active[i].at <= t}
OneShots(active, t) == {i \in Due(active, t) : active[i].every = 0}

\* By target, then by creation.
Earlier(active, i, j) ==
    active[i].at < active[j].at \/ (active[i].at = active[j].at /\ i < j)

Batch(active, t) ==
    LET shots == OneShots(active, t) IN
    IF shots = {} THEN Due(active, t)
    ELSE {i \in shots : \A j \in shots \ {i} : Earlier(active, i, j)}

\* The batch in order: as many places as it has members.
Orders(active, batch) ==
    {s \in UNION {[1..n -> batch] : n \in 0..MaxIds} :
        /\ \A i \in batch : \E k \in DOMAIN s : s[k] = i
        /\ \A j, k \in DOMAIN s : j < k => Earlier(active, s[j], s[k])}

Message(active, ids, t) == FollowUp({<<ids[k], Occurrence(active[ids[k]], t)>> : k \in DOMAIN ids})

Dispatches(active, ids, t) ==
    [k \in DOMAIN ids |-> Dispatch(ids[k], IF active[ids[k]].every = 0 THEN 0 ELSE t)]

\* The targets a timer may be armed for.
Wakes(active, t) == {active[i].at : i \in DOMAIN active \ Due(active, t)}
=============================================================================
