-------------------------- MODULE BackgroundProofs --------------------------
(***************************************************************************)
(* What holds of the two components that set an agent to work with no person *)
(* asking.  They share no state.                                             *)
(*                                                                          *)
(* The job registry, for any jobs, owners, waits and limit: its invariant,    *)
(* and that its steps are steps of CompletionDelivery.                       *)
(*                                                                          *)
(* The goal rounds, for any messages, identities, limits and failures: no    *)
(* request of the driver is dropped, no person's message goes down with a    *)
(* round, the driver's idea of the rounds and the log's agree, and rounds    *)
(* are reserved and entered under a person's authority.                      *)
(***************************************************************************)
EXTENDS Jobs, GoalRounds, FiniteSetTheorems, TLAPS

Buckets == Owners \cup {NoOwner}

-----------------------------------------------------------------------------
(* Jobs: facts about single definitions. *)

\* A bucket holds finitely many active jobs, whatever the state.
LEMMA BucketIsFinite ==
    ASSUME NEW o \in Buckets, listed \subseteq Jobs
    PROVE  IsFiniteSet(Active(o)) /\ Cardinality(Active(o)) \in Nat
<1>1. Active(o) \subseteq Jobs
  BY DEF Active
<1>2. IsFiniteSet(Active(o))
  BY <1>1, JobsAssumption, FS_Subset
<1> QED BY <1>2, FS_CardinalityType

\* A step that makes no job active keeps every bucket within the limit.
LEMMA NoNewActive ==
    ASSUME LimitKept, listed \subseteq Jobs,
           \A o \in Buckets : Active(o)' \subseteq Active(o)
    PROVE  LimitKept'
<1> SUFFICES ASSUME NEW o \in Buckets PROVE Cardinality(Active(o)') <= Limit
  BY DEF LimitKept, Buckets
<1>1. IsFiniteSet(Active(o)) /\ Cardinality(Active(o)) \in Nat
  BY BucketIsFinite
<1>2. /\ IsFiniteSet(Active(o)')
      /\ Cardinality(Active(o)') <= Cardinality(Active(o))
  BY <1>1, FS_Subset
<1>3. Cardinality(Active(o)') \in Nat
  BY <1>2, FS_CardinalityType
<1>4. Cardinality(Active(o)) <= Limit /\ Limit \in Nat
  BY JobsAssumption DEF LimitKept, Buckets
<1> QED BY <1>1, <1>2, <1>3, <1>4

-----------------------------------------------------------------------------
(* The invariant holds initially. *)

\* An empty registry has the invariant.
LEMMA RegistryInit == JobsInit => RegistryInv
<1> SUFFICES ASSUME JobsInit PROVE RegistryInv
  OBVIOUS
<1>1. JobsTypeOK
  BY DEF JobsInit, JobsTypeOK, Statuses, Resting
<1>2. EndMeansReleased /\ ObserversCurrent /\ TeardownLeavesNothing
  BY DEF JobsInit, EndMeansReleased, ObserversCurrent, TeardownLeavesNothing, Ended,
         Terminal, Shown
<1>3. LimitKept
  <2>1. \A o \in Buckets : Active(o) = {}
    BY DEF JobsInit, Active
  <2> QED BY <2>1, FS_EmptySet, JobsAssumption DEF LimitKept, Buckets
<1>4. Bookkeeping
  BY DEF JobsInit, Bookkeeping, Owned
<1>5. Reporting
  BY DEF JobsInit, Reporting, Ended, Terminal, Resting
<1> QED BY <1>1, <1>2, <1>3, <1>4, <1>5 DEF RegistryInv

-----------------------------------------------------------------------------
(* Every step keeps it, one part at a time. *)

\* A job that starts keeps it.
LEMMA StartKeeps ==
    ASSUME RegistryInv, NEW j \in Jobs, Start(j)
    PROVE  RegistryInv'
<1>1. JobsTypeOK'
  BY JobsAssumption DEF RegistryInv, JobsTypeOK, Statuses, Terminal, Ended,
     Shown, Owned, Start, owners, outside, Notify, Admits
<1>2. EndMeansReleased'
  BY JobsAssumption DEF RegistryInv, EndMeansReleased, JobsTypeOK, Ended,
     Terminal, Start, owners, outside, Notify, Admits
<1>3. ObserversCurrent'
  BY JobsAssumption DEF RegistryInv, ObserversCurrent, JobsTypeOK, Bookkeeping,
     Shown, Owned, Ended, Terminal, Start, owners, outside, Notify, Admits
<1>4. LimitKept'
  <2>1. SUFFICES ASSUME NEW o \in Buckets PROVE Cardinality(Active(o)') <= Limit
    BY DEF LimitKept, Buckets
  <2>2. IsFiniteSet(Active(o)) /\ Cardinality(Active(o)) \in Nat
    BY BucketIsFinite DEF RegistryInv, JobsTypeOK
  <2>3. CASE o = OwnerOf[j]
    <3>1. Active(o)' = Active(o) \cup {j}
      BY <2>3 DEF RegistryInv, JobsTypeOK, Start, Active
    <3>2. j \notin Active(o) /\ Cardinality(Active(o)) < Limit
      BY <2>3 DEF Start, Active
    <3>3. Cardinality(Active(o)') = Cardinality(Active(o)) + 1
      BY <2>2, <3>1, <3>2, FS_AddElement
    <3> QED BY <2>2, <3>2, <3>3, JobsAssumption
  <2>4. CASE o # OwnerOf[j]
    <3>1. Active(o)' = Active(o)
      BY <2>4 DEF RegistryInv, JobsTypeOK, Start, Active
    <3> QED BY <3>1 DEF RegistryInv, LimitKept, Buckets
  <2> QED BY <2>3, <2>4
<1>5. TeardownLeavesNothing'
  BY JobsAssumption DEF RegistryInv, TeardownLeavesNothing, JobsTypeOK,
     Bookkeeping, Ended, Terminal, Owned, Start, owners, outside, Notify,
     Admits
<1>6. Bookkeeping'
  BY JobsAssumption DEF RegistryInv, Bookkeeping, JobsTypeOK, Ended, Terminal,
     Owned, Start, owners, outside, Notify, Admits
<1>7. Reporting'
  BY JobsAssumption DEF RegistryInv, Reporting, JobsTypeOK, Bookkeeping, Ended,
     Terminal, Counted, Owned, Start, owners, outside, Notify, Admits
<1> QED BY <1>1, <1>2, <1>3, <1>4, <1>5, <1>6, <1>7 DEF RegistryInv

\* A start that throws keeps it.
LEMMA StartFailsKeeps ==
    ASSUME RegistryInv, NEW o \in Owners, StartFails(o)
    PROVE  RegistryInv'
<1>1. JobsTypeOK'
  BY JobsAssumption DEF RegistryInv, JobsTypeOK, Statuses, Terminal, Ended,
     Shown, Owned, StartFails, outside, Admits
<1>2. EndMeansReleased'
  BY JobsAssumption DEF RegistryInv, EndMeansReleased, JobsTypeOK, Ended,
     Terminal, StartFails, outside, Admits
<1>3. ObserversCurrent'
  BY JobsAssumption DEF RegistryInv, ObserversCurrent, JobsTypeOK, Bookkeeping,
     Shown, Owned, Ended, Terminal, StartFails, outside, Admits
<1>4. LimitKept'
  <2>1. \A b \in Buckets : Active(b)' \subseteq Active(b)
    BY JobsAssumption DEF RegistryInv, JobsTypeOK, Bookkeeping, StartFails,
       outside, Admits, Active, Ended, Terminal, Owned
  <2> QED BY <2>1, NoNewActive DEF RegistryInv, JobsTypeOK
<1>5. TeardownLeavesNothing'
  BY JobsAssumption DEF RegistryInv, TeardownLeavesNothing, JobsTypeOK,
     Bookkeeping, Ended, Terminal, Owned, StartFails, outside, Admits
<1>6. Bookkeeping'
  BY JobsAssumption DEF RegistryInv, Bookkeeping, JobsTypeOK, Ended, Terminal,
     Owned, StartFails, outside, Admits
<1>7. Reporting'
  BY JobsAssumption DEF RegistryInv, Reporting, JobsTypeOK, Bookkeeping, Ended,
     Terminal, Counted, Owned, StartFails, outside, Admits
<1> QED BY <1>1, <1>2, <1>3, <1>4, <1>5, <1>6, <1>7 DEF RegistryInv

\* A producer that ends, its callback still to run, keeps it.
LEMMA ProducerEndsKeeps ==
    ASSUME RegistryInv, NEW j \in Jobs, ProducerEnds(j)
    PROVE  RegistryInv'
<1>1. JobsTypeOK'
  BY JobsAssumption DEF RegistryInv, JobsTypeOK, Statuses, Terminal, Ended,
     Shown, Owned, ProducerEnds, owners, outside
<1>2. EndMeansReleased'
  BY JobsAssumption DEF RegistryInv, EndMeansReleased, JobsTypeOK, Ended,
     Terminal, ProducerEnds, owners, outside
<1>3. ObserversCurrent'
  BY JobsAssumption DEF RegistryInv, ObserversCurrent, JobsTypeOK, Bookkeeping,
     Shown, Owned, Ended, Terminal, ProducerEnds, owners, outside
<1>4. LimitKept'
  <2>1. \A b \in Buckets : Active(b)' \subseteq Active(b)
    BY JobsAssumption DEF RegistryInv, JobsTypeOK, Bookkeeping, ProducerEnds,
       owners, outside, Active, Ended, Terminal, Owned
  <2> QED BY <2>1, NoNewActive DEF RegistryInv, JobsTypeOK
<1>5. TeardownLeavesNothing'
  BY JobsAssumption DEF RegistryInv, TeardownLeavesNothing, JobsTypeOK,
     Bookkeeping, Ended, Terminal, Owned, ProducerEnds, owners, outside
<1>6. Bookkeeping'
  BY JobsAssumption DEF RegistryInv, Bookkeeping, JobsTypeOK, Ended, Terminal,
     Owned, ProducerEnds, owners, outside
<1>7. Reporting'
  BY JobsAssumption DEF RegistryInv, Reporting, JobsTypeOK, Bookkeeping, Ended,
     Terminal, Counted, Owned, ProducerEnds, owners, outside
<1> QED BY <1>1, <1>2, <1>3, <1>4, <1>5, <1>6, <1>7 DEF RegistryInv

\* A job that ends keeps it.
LEMMA SettleKeeps ==
    ASSUME RegistryInv, NEW j \in Jobs, NEW outcome \in Outcomes, Settle(j, outcome)
    PROVE  RegistryInv'
<1>1. JobsTypeOK'
  BY JobsAssumption DEF RegistryInv, JobsTypeOK, Statuses, Terminal, Ended,
     Shown, Owned, Settle, Recorded, Notify, Announced, owners
<1>2. EndMeansReleased'
  BY JobsAssumption DEF RegistryInv, EndMeansReleased, JobsTypeOK, Ended,
     Terminal, Settle, Recorded, Notify, Announced, owners
<1>3. ObserversCurrent'
  BY JobsAssumption DEF RegistryInv, ObserversCurrent, JobsTypeOK, Bookkeeping,
     Shown, Owned, Ended, Terminal, Settle, Recorded, Notify, Announced,
     owners
<1>4. LimitKept'
  <2>1. \A b \in Buckets : Active(b)' \subseteq Active(b)
    BY JobsAssumption DEF RegistryInv, JobsTypeOK, Bookkeeping, Settle,
       Recorded, Notify, Announced, owners, Active, Ended, Terminal, Owned
  <2> QED BY <2>1, NoNewActive DEF RegistryInv, JobsTypeOK
<1>5. TeardownLeavesNothing'
  BY JobsAssumption DEF RegistryInv, TeardownLeavesNothing, JobsTypeOK,
     Bookkeeping, Ended, Terminal, Owned, Settle, Recorded, Notify,
     Announced, owners
<1>6. Bookkeeping'
  BY JobsAssumption DEF RegistryInv, Bookkeeping, JobsTypeOK, Ended, Terminal,
     Owned, Settle, Recorded, Notify, Announced, owners
<1>7. Reporting'
  <2>1. CASE Ended(j)
    BY <2>1 DEF RegistryInv, Reporting, Settle, Ended, Terminal, Counted, owners
  <2>2. CASE ~Ended(j)
    <3>1. /\ UNCHANGED <<service, told, torn>>
          /\ status' = [status EXCEPT ![j] = outcome]
          /\ outcome \in Terminal
          /\ notices' = [notices EXCEPT ![j] = IF Announced(j) THEN @ + 1 ELSE @]
          /\ reported' = IF Counted(j) THEN reported \cup {j} ELSE reported
      BY <2>2, JobsAssumption DEF RegistryInv, JobsTypeOK, Settle, Recorded, owners
    <3>2. \A w \in Waits :
              /\ wait'[w].job = wait[w].job
              /\ wait'[w].phase = "idle" <=> wait[w].phase = "idle"
              /\ wait'[w].phase = "waiting" =>
                    wait[w].phase = "waiting" /\ wait[w].job # j
      BY <2>2 DEF RegistryInv, JobsTypeOK, Settle, Recorded
    <3>3. \A k \in Jobs : Counted(k)' <=> Counted(k)
      BY <3>2 DEF Counted
    <3>4. \A k \in Jobs : Ended(k)' <=> Ended(k) \/ k = j
      BY <3>1 DEF Ended, RegistryInv, JobsTypeOK
    <3>5. notices'[j] = 1 \/ j \in told \cup torn \/ Counted(j) \/ OwnerOf[j] = NoOwner
      BY <2>2, <3>1 DEF RegistryInv, Reporting, JobsTypeOK, Announced, Bookkeeping, Settle
    <3>6. notices'[j] \in {0, 1} /\ \A k \in Jobs : k # j => notices'[k] = notices[k]
      BY <2>2, <3>1 DEF RegistryInv, Reporting, JobsTypeOK
    <3> QED BY <3>1, <3>2, <3>3, <3>4, <3>5, <3>6, <2>2
            DEF RegistryInv, Reporting, JobsTypeOK, Terminal
  <2> QED BY <2>1, <2>2
<1> QED BY <1>1, <1>2, <1>3, <1>4, <1>5, <1>6, <1>7 DEF RegistryInv

\* A kill keeps it.
LEMMA KillKeeps ==
    ASSUME RegistryInv, NEW j \in Jobs, Kill(j)
    PROVE  RegistryInv'
<1>1. JobsTypeOK'
  BY JobsAssumption DEF RegistryInv, JobsTypeOK, Statuses, Terminal, Ended,
     Shown, Owned, Kill, Reachable, Cancelled, Tells, Notify, owners
<1>2. EndMeansReleased'
  BY JobsAssumption DEF RegistryInv, EndMeansReleased, JobsTypeOK, Ended,
     Terminal, Kill, Reachable, Cancelled, Tells, Notify, owners
<1>3. ObserversCurrent'
  BY JobsAssumption DEF RegistryInv, ObserversCurrent, JobsTypeOK, Bookkeeping,
     Shown, Owned, Ended, Terminal, Kill, Reachable, Cancelled, Tells,
     Notify, owners
<1>4. LimitKept'
  <2>1. listed' = listed /\ status[j] \in {"running", "stopping"}
    BY DEF RegistryInv, JobsTypeOK, Bookkeeping, Kill, Reachable, Ended, Statuses
  <2>2. \A k \in Jobs : k # j => status'[k] = status[k]
    BY DEF RegistryInv, JobsTypeOK, Kill
  <2>3. \A b \in Buckets : Active(b)' \subseteq Active(b)
    BY <2>1, <2>2 DEF Active, RegistryInv, JobsTypeOK
  <2> QED BY <2>3, NoNewActive DEF RegistryInv, JobsTypeOK
<1>5. TeardownLeavesNothing'
  BY JobsAssumption DEF RegistryInv, TeardownLeavesNothing, JobsTypeOK,
     Bookkeeping, Ended, Terminal, Owned, Kill, Reachable, Cancelled, Tells,
     Notify, owners
<1>6. Bookkeeping'
  BY JobsAssumption DEF RegistryInv, Bookkeeping, JobsTypeOK, Ended, Terminal,
     Owned, Kill, Reachable, Cancelled, Tells, Notify, owners
<1>7. Reporting'
  BY JobsAssumption DEF RegistryInv, Reporting, JobsTypeOK, Bookkeeping, Ended,
     Terminal, Counted, Owned, Kill, Reachable, Cancelled, Tells, Notify,
     owners
<1> QED BY <1>1, <1>2, <1>3, <1>4, <1>5, <1>6, <1>7 DEF RegistryInv

\* A read of an ended job keeps it.
LEMMA ReadEndKeeps ==
    ASSUME RegistryInv, NEW j \in Jobs, ReadEnd(j)
    PROVE  RegistryInv'
<1>1. JobsTypeOK'
  BY JobsAssumption DEF RegistryInv, JobsTypeOK, Statuses, Terminal, Ended,
     Shown, Owned, ReadEnd, Reachable, Tells, owners
<1>2. EndMeansReleased'
  BY JobsAssumption DEF RegistryInv, EndMeansReleased, JobsTypeOK, Ended,
     Terminal, ReadEnd, Reachable, Tells, owners
<1>3. ObserversCurrent'
  BY JobsAssumption DEF RegistryInv, ObserversCurrent, JobsTypeOK, Bookkeeping,
     Shown, Owned, Ended, Terminal, ReadEnd, Reachable, Tells, owners
<1>4. LimitKept'
  <2>1. \A b \in Buckets : Active(b)' \subseteq Active(b)
    BY JobsAssumption DEF RegistryInv, JobsTypeOK, Bookkeeping, ReadEnd,
       Reachable, Tells, owners, Active, Ended, Terminal, Owned
  <2> QED BY <2>1, NoNewActive DEF RegistryInv, JobsTypeOK
<1>5. TeardownLeavesNothing'
  BY JobsAssumption DEF RegistryInv, TeardownLeavesNothing, JobsTypeOK,
     Bookkeeping, Ended, Terminal, Owned, ReadEnd, Reachable, Tells, owners
<1>6. Bookkeeping'
  BY JobsAssumption DEF RegistryInv, Bookkeeping, JobsTypeOK, Ended, Terminal,
     Owned, ReadEnd, Reachable, Tells, owners
<1>7. Reporting'
  BY JobsAssumption DEF RegistryInv, Reporting, JobsTypeOK, Bookkeeping, Ended,
     Terminal, Counted, Owned, ReadEnd, Reachable, Tells, owners
<1> QED BY <1>1, <1>2, <1>3, <1>4, <1>5, <1>6, <1>7 DEF RegistryInv

\* A wait that begins keeps it.
LEMMA WaitBeginsKeeps ==
    ASSUME RegistryInv, NEW w \in Waits, NEW j \in Jobs, WaitBegins(w, j)
    PROVE  RegistryInv'
<1>1. JobsTypeOK'
  BY JobsAssumption DEF RegistryInv, JobsTypeOK, Statuses, Terminal, Ended,
     Shown, Owned, WaitBegins, Reachable, Resting, owners, outside
<1>2. EndMeansReleased'
  BY JobsAssumption DEF RegistryInv, EndMeansReleased, JobsTypeOK, Ended,
     Terminal, WaitBegins, Reachable, Resting, owners, outside
<1>3. ObserversCurrent'
  BY JobsAssumption DEF RegistryInv, ObserversCurrent, JobsTypeOK, Bookkeeping,
     Shown, Owned, Ended, Terminal, WaitBegins, Reachable, Resting, owners,
     outside
<1>4. LimitKept'
  <2>1. \A b \in Buckets : Active(b)' \subseteq Active(b)
    BY JobsAssumption DEF RegistryInv, JobsTypeOK, Bookkeeping, WaitBegins,
       Reachable, Resting, owners, outside, Active, Ended, Terminal, Owned
  <2> QED BY <2>1, NoNewActive DEF RegistryInv, JobsTypeOK
<1>5. TeardownLeavesNothing'
  BY JobsAssumption DEF RegistryInv, TeardownLeavesNothing, JobsTypeOK,
     Bookkeeping, Ended, Terminal, Owned, WaitBegins, Reachable, Resting,
     owners, outside
<1>6. Bookkeeping'
  BY JobsAssumption DEF RegistryInv, Bookkeeping, JobsTypeOK, Ended, Terminal,
     Owned, WaitBegins, Reachable, Resting, owners, outside
<1>7. Reporting'
  BY JobsAssumption DEF RegistryInv, Reporting, JobsTypeOK, Bookkeeping, Ended,
     Terminal, Counted, Owned, WaitBegins, Reachable, Resting, owners,
     outside
<1> QED BY <1>1, <1>2, <1>3, <1>4, <1>5, <1>6, <1>7 DEF RegistryInv

\* A wait whose time is over keeps it.
LEMMA WaitExpiresKeeps ==
    ASSUME RegistryInv, NEW w \in Waits, WaitExpires(w)
    PROVE  RegistryInv'
<1>1. JobsTypeOK'
  BY JobsAssumption DEF RegistryInv, JobsTypeOK, Statuses, Terminal, Ended,
     Shown, Owned, WaitExpires, owners, outside
<1>2. EndMeansReleased'
  BY JobsAssumption DEF RegistryInv, EndMeansReleased, JobsTypeOK, Ended,
     Terminal, WaitExpires, owners, outside
<1>3. ObserversCurrent'
  BY JobsAssumption DEF RegistryInv, ObserversCurrent, JobsTypeOK, Bookkeeping,
     Shown, Owned, Ended, Terminal, WaitExpires, owners, outside
<1>4. LimitKept'
  <2>1. \A b \in Buckets : Active(b)' \subseteq Active(b)
    BY JobsAssumption DEF RegistryInv, JobsTypeOK, Bookkeeping, WaitExpires,
       owners, outside, Active, Ended, Terminal, Owned
  <2> QED BY <2>1, NoNewActive DEF RegistryInv, JobsTypeOK
<1>5. TeardownLeavesNothing'
  BY JobsAssumption DEF RegistryInv, TeardownLeavesNothing, JobsTypeOK,
     Bookkeeping, Ended, Terminal, Owned, WaitExpires, owners, outside
<1>6. Bookkeeping'
  BY JobsAssumption DEF RegistryInv, Bookkeeping, JobsTypeOK, Ended, Terminal,
     Owned, WaitExpires, owners, outside
<1>7. Reporting'
  BY JobsAssumption DEF RegistryInv, Reporting, JobsTypeOK, Bookkeeping, Ended,
     Terminal, Counted, Owned, WaitExpires, owners, outside
<1> QED BY <1>1, <1>2, <1>3, <1>4, <1>5, <1>6, <1>7 DEF RegistryInv

\* An aborted wait keeps it.
LEMMA WaitAbortsKeeps ==
    ASSUME RegistryInv, NEW w \in Waits, WaitAborts(w)
    PROVE  RegistryInv'
<1>1. JobsTypeOK'
  BY JobsAssumption DEF RegistryInv, JobsTypeOK, Statuses, Terminal, Ended,
     Shown, Owned, WaitAborts, Resting, owners, outside
<1>2. EndMeansReleased'
  BY JobsAssumption DEF RegistryInv, EndMeansReleased, JobsTypeOK, Ended,
     Terminal, WaitAborts, Resting, owners, outside
<1>3. ObserversCurrent'
  BY JobsAssumption DEF RegistryInv, ObserversCurrent, JobsTypeOK, Bookkeeping,
     Shown, Owned, Ended, Terminal, WaitAborts, Resting, owners, outside
<1>4. LimitKept'
  <2>1. \A b \in Buckets : Active(b)' \subseteq Active(b)
    BY JobsAssumption DEF RegistryInv, JobsTypeOK, Bookkeeping, WaitAborts,
       Resting, owners, outside, Active, Ended, Terminal, Owned
  <2> QED BY <2>1, NoNewActive DEF RegistryInv, JobsTypeOK
<1>5. TeardownLeavesNothing'
  BY JobsAssumption DEF RegistryInv, TeardownLeavesNothing, JobsTypeOK,
     Bookkeeping, Ended, Terminal, Owned, WaitAborts, Resting, owners,
     outside
<1>6. Bookkeeping'
  BY JobsAssumption DEF RegistryInv, Bookkeeping, JobsTypeOK, Ended, Terminal,
     Owned, WaitAborts, Resting, owners, outside
<1>7. Reporting'
  BY JobsAssumption DEF RegistryInv, Reporting, JobsTypeOK, Bookkeeping, Ended,
     Terminal, Counted, Owned, WaitAborts, Resting, owners, outside
<1> QED BY <1>1, <1>2, <1>3, <1>4, <1>5, <1>6, <1>7 DEF RegistryInv

\* A wait that returns keeps it.
LEMMA WaitReturnsKeeps ==
    ASSUME RegistryInv, NEW w \in Waits, WaitReturns(w)
    PROVE  RegistryInv'
<1>1. JobsTypeOK'
  BY JobsAssumption DEF RegistryInv, JobsTypeOK, Reporting, Statuses, Terminal,
     Ended, Shown, Owned, WaitReturns, Tells, Resting, owners
<1>2. EndMeansReleased'
  BY JobsAssumption DEF RegistryInv, EndMeansReleased, JobsTypeOK, Ended,
     Terminal, WaitReturns, Tells, Resting, owners
<1>3. ObserversCurrent'
  BY JobsAssumption DEF RegistryInv, ObserversCurrent, JobsTypeOK, Bookkeeping,
     Shown, Owned, Ended, Terminal, WaitReturns, Tells, Resting, owners
<1>4. LimitKept'
  <2>1. \A b \in Buckets : Active(b)' \subseteq Active(b)
    BY JobsAssumption DEF RegistryInv, JobsTypeOK, Bookkeeping, WaitReturns,
       Tells, Resting, owners, Active, Ended, Terminal, Owned
  <2> QED BY <2>1, NoNewActive DEF RegistryInv, JobsTypeOK
<1>5. TeardownLeavesNothing'
  BY JobsAssumption DEF RegistryInv, TeardownLeavesNothing, JobsTypeOK,
     Bookkeeping, Ended, Terminal, Owned, WaitReturns, Tells, Resting,
     owners
<1>6. Bookkeeping'
  BY JobsAssumption DEF RegistryInv, Bookkeeping, JobsTypeOK, Ended, Terminal,
     Owned, WaitReturns, Tells, Resting, owners
<1>7. Reporting'
  BY JobsAssumption DEF RegistryInv, Reporting, JobsTypeOK, Bookkeeping, Ended,
     Terminal, Counted, Owned, WaitReturns, Tells, Resting, owners
<1> QED BY <1>1, <1>2, <1>3, <1>4, <1>5, <1>6, <1>7 DEF RegistryInv

\* The disposal of an owner keeps it.
LEMMA AgentDisposesKeeps ==
    ASSUME RegistryInv, NEW o \in Owners, NEW thrown \in SUBSET Jobs, AgentDisposes(o, thrown)
    PROVE  RegistryInv'
<1>1. JobsTypeOK'
  BY JobsAssumption, SMTT(60) DEF RegistryInv, JobsTypeOK, Statuses, Terminal, Ended,
     Shown, Owned, AgentDisposes, TeardownCancels, Cancelled, Notify,
     outside
<1>2. EndMeansReleased'
  BY JobsAssumption DEF RegistryInv, EndMeansReleased, JobsTypeOK, Ended,
     Terminal, AgentDisposes, TeardownCancels, Cancelled, Notify, outside
<1>3. ObserversCurrent'
  BY JobsAssumption DEF RegistryInv, ObserversCurrent, JobsTypeOK, Bookkeeping,
     Shown, Owned, Ended, Terminal, AgentDisposes, TeardownCancels,
     Cancelled, Notify, outside
<1>4. LimitKept'
  <2>1. /\ listed' = listed
        /\ \A k \in listed :
              status'[k] \in {"running", "stopping"} =>
                status[k] \in {"running", "stopping"}
    BY DEF RegistryInv, JobsTypeOK, Bookkeeping, Statuses, Ended, Terminal,
           TeardownCancels, AgentDisposes
  <2>2. \A b \in Buckets : Active(b)' \subseteq Active(b)
    BY <2>1 DEF Active
  <2> QED BY <2>2, NoNewActive DEF RegistryInv, JobsTypeOK
<1>5. TeardownLeavesNothing'
  BY JobsAssumption DEF RegistryInv, TeardownLeavesNothing, JobsTypeOK,
     Bookkeeping, Ended, Terminal, Owned, AgentDisposes, TeardownCancels,
     Cancelled, Notify, outside
<1>6. Bookkeeping'
  BY JobsAssumption DEF RegistryInv, Bookkeeping, JobsTypeOK, Ended, Terminal,
     Owned, AgentDisposes, TeardownCancels, Cancelled, Notify, outside
<1>7. Reporting'
  BY JobsAssumption DEF RegistryInv, Reporting, JobsTypeOK, Bookkeeping, Ended,
     Terminal, Counted, Owned, AgentDisposes, TeardownCancels, Cancelled,
     Notify, outside
<1> QED BY <1>1, <1>2, <1>3, <1>4, <1>5, <1>6, <1>7 DEF RegistryInv

\* The end of that disposal keeps it.
LEMMA AgentDrainedKeeps ==
    ASSUME RegistryInv, NEW o \in Owners, AgentDrained(o)
    PROVE  RegistryInv'
<1>1. JobsTypeOK'
  BY JobsAssumption DEF RegistryInv, JobsTypeOK, Statuses, Terminal, Ended,
     Shown, Owned, AgentDrained, Notify, outside
<1>2. EndMeansReleased'
  BY JobsAssumption DEF RegistryInv, EndMeansReleased, JobsTypeOK, Ended,
     Terminal, AgentDrained, Notify, outside
<1>3. ObserversCurrent'
  BY JobsAssumption DEF RegistryInv, ObserversCurrent, JobsTypeOK, Bookkeeping,
     Shown, Owned, Ended, Terminal, AgentDrained, Notify, outside
<1>4. LimitKept'
  <2>1. \A b \in Buckets : Active(b)' \subseteq Active(b)
    BY JobsAssumption DEF RegistryInv, JobsTypeOK, Bookkeeping, AgentDrained,
       Notify, outside, Active, Ended, Terminal, Owned
  <2> QED BY <2>1, NoNewActive DEF RegistryInv, JobsTypeOK
<1>5. TeardownLeavesNothing'
  BY JobsAssumption DEF RegistryInv, TeardownLeavesNothing, JobsTypeOK,
     Bookkeeping, Ended, Terminal, Owned, AgentDrained, Notify, outside
<1>6. Bookkeeping'
  BY JobsAssumption DEF RegistryInv, Bookkeeping, JobsTypeOK, Ended, Terminal,
     Owned, AgentDrained, Notify, outside
<1>7. Reporting'
  BY JobsAssumption DEF RegistryInv, Reporting, JobsTypeOK, Bookkeeping, Ended,
     Terminal, Counted, Owned, AgentDrained, Notify, outside
<1> QED BY <1>1, <1>2, <1>3, <1>4, <1>5, <1>6, <1>7 DEF RegistryInv

\* The disposal of the service keeps it.
LEMMA ServiceDisposesKeeps ==
    ASSUME RegistryInv, NEW thrown \in SUBSET Jobs, ServiceDisposes(thrown)
    PROVE  RegistryInv'
<1>1. JobsTypeOK'
  BY JobsAssumption DEF RegistryInv, JobsTypeOK, Statuses, Terminal, Ended,
     Shown, Owned, ServiceDisposes, TeardownCancels, Cancelled, Notify,
     owners
<1>2. EndMeansReleased'
  BY JobsAssumption DEF RegistryInv, EndMeansReleased, JobsTypeOK, Ended,
     Terminal, ServiceDisposes, TeardownCancels, Cancelled, Notify, owners
<1>3. ObserversCurrent'
  BY JobsAssumption DEF RegistryInv, ObserversCurrent, JobsTypeOK, Bookkeeping,
     Shown, Owned, Ended, Terminal, ServiceDisposes, TeardownCancels,
     Cancelled, Notify, owners
<1>4. LimitKept'
  <2>1. /\ listed' = listed
        /\ \A k \in listed :
              status'[k] \in {"running", "stopping"} =>
                status[k] \in {"running", "stopping"}
    BY DEF RegistryInv, JobsTypeOK, Bookkeeping, Statuses, Ended, Terminal,
           TeardownCancels, ServiceDisposes
  <2>2. \A b \in Buckets : Active(b)' \subseteq Active(b)
    BY <2>1 DEF Active
  <2> QED BY <2>2, NoNewActive DEF RegistryInv, JobsTypeOK
<1>5. TeardownLeavesNothing'
  BY JobsAssumption DEF RegistryInv, TeardownLeavesNothing, JobsTypeOK,
     Bookkeeping, Ended, Terminal, Owned, ServiceDisposes, TeardownCancels,
     Cancelled, Notify, owners
<1>6. Bookkeeping'
  BY JobsAssumption DEF RegistryInv, Bookkeeping, JobsTypeOK, Ended, Terminal,
     Owned, ServiceDisposes, TeardownCancels, Cancelled, Notify, owners
<1>7. Reporting'
  BY JobsAssumption DEF RegistryInv, Reporting, JobsTypeOK, Bookkeeping, Ended,
     Terminal, Counted, Owned, ServiceDisposes, TeardownCancels, Cancelled,
     Notify, owners
<1> QED BY <1>1, <1>2, <1>3, <1>4, <1>5, <1>6, <1>7 DEF RegistryInv

\* The end of the service keeps it.
LEMMA ServiceDrainedKeeps ==
    ASSUME RegistryInv, ServiceDrained
    PROVE  RegistryInv'
<1>1. JobsTypeOK'
  BY JobsAssumption DEF RegistryInv, JobsTypeOK, Statuses, Terminal, Ended,
     Shown, Owned, ServiceDrained, Notify, outside
<1>2. EndMeansReleased'
  BY JobsAssumption DEF RegistryInv, EndMeansReleased, JobsTypeOK, Ended,
     Terminal, ServiceDrained, Notify, outside
<1>3. ObserversCurrent'
  BY JobsAssumption DEF RegistryInv, ObserversCurrent, JobsTypeOK, Bookkeeping,
     Shown, Owned, Ended, Terminal, ServiceDrained, Notify, outside
<1>4. LimitKept'
  <2>1. \A b \in Buckets : Active(b)' \subseteq Active(b)
    BY JobsAssumption DEF RegistryInv, JobsTypeOK, Bookkeeping, ServiceDrained,
       Notify, outside, Active, Ended, Terminal, Owned
  <2> QED BY <2>1, NoNewActive DEF RegistryInv, JobsTypeOK
<1>5. TeardownLeavesNothing'
  BY JobsAssumption DEF RegistryInv, TeardownLeavesNothing, JobsTypeOK,
     Bookkeeping, Ended, Terminal, Owned, ServiceDrained, Notify, outside
<1>6. Bookkeeping'
  BY JobsAssumption DEF RegistryInv, Bookkeeping, JobsTypeOK, Ended, Terminal,
     Owned, ServiceDrained, Notify, outside
<1>7. Reporting'
  BY JobsAssumption DEF RegistryInv, Reporting, JobsTypeOK, Bookkeeping, Ended,
     Terminal, Counted, Owned, ServiceDrained, Notify, outside
<1> QED BY <1>1, <1>2, <1>3, <1>4, <1>5, <1>6, <1>7 DEF RegistryInv

\* A step of others keeps it.
LEMMA StutteringKeeps ==
    ASSUME RegistryInv, UNCHANGED jobsVars
    PROVE  RegistryInv'
<1>1. JobsTypeOK' /\ EndMeansReleased' /\ ObserversCurrent'
  BY DEF RegistryInv, jobsVars, owners, outside, JobsTypeOK, EndMeansReleased,
         ObserversCurrent, Ended, Shown
<1>2. LimitKept' /\ TeardownLeavesNothing'
  BY DEF RegistryInv, jobsVars, owners, outside, LimitKept, Active, Ended,
         TeardownLeavesNothing
<1>3. Bookkeeping' /\ Reporting'
  BY DEF RegistryInv, jobsVars, owners, outside, Bookkeeping, Reporting, Owned,
         Ended, Counted
<1> QED BY <1>1, <1>2, <1>3 DEF RegistryInv

\* Every step keeps it.
LEMMA RegistryStep == RegistryInv /\ [JobsNext]_jobsVars => RegistryInv'
<1> SUFFICES ASSUME RegistryInv, [JobsNext]_jobsVars PROVE RegistryInv'
  OBVIOUS
<1>1. ASSUME NEW j \in Jobs, Start(j) PROVE RegistryInv'
  BY <1>1, StartKeeps
<1>2. ASSUME NEW o \in Owners, StartFails(o) PROVE RegistryInv'
  BY <1>2, StartFailsKeeps
<1>3. ASSUME NEW j \in Jobs, ProducerEnds(j) PROVE RegistryInv'
  BY <1>3, ProducerEndsKeeps
<1>4. ASSUME NEW j \in Jobs, NEW outcome \in Outcomes, Settle(j, outcome) PROVE RegistryInv'
  BY <1>4, SettleKeeps
<1>5. ASSUME NEW j \in Jobs, Kill(j) PROVE RegistryInv'
  BY <1>5, KillKeeps
<1>6. ASSUME NEW j \in Jobs, ReadEnd(j) PROVE RegistryInv'
  BY <1>6, ReadEndKeeps
<1>7. ASSUME NEW w \in Waits, NEW j \in Jobs, WaitBegins(w, j) PROVE RegistryInv'
  BY <1>7, WaitBeginsKeeps
<1>8. ASSUME NEW w \in Waits, WaitExpires(w) PROVE RegistryInv'
  BY <1>8, WaitExpiresKeeps
<1>9. ASSUME NEW w \in Waits, WaitAborts(w) PROVE RegistryInv'
  BY <1>9, WaitAbortsKeeps
<1>10. ASSUME NEW w \in Waits, WaitReturns(w) PROVE RegistryInv'
  BY <1>10, WaitReturnsKeeps
<1>11. ASSUME NEW o \in Owners, NEW thrown \in SUBSET Jobs, AgentDisposes(o, thrown)
       PROVE  RegistryInv'
  BY <1>11, AgentDisposesKeeps
<1>12. ASSUME NEW o \in Owners, AgentDrained(o) PROVE RegistryInv'
  BY <1>12, AgentDrainedKeeps
<1>13. ASSUME NEW thrown \in SUBSET Jobs, ServiceDisposes(thrown) PROVE RegistryInv'
  BY <1>13, ServiceDisposesKeeps
<1>14. ASSUME ServiceDrained PROVE RegistryInv'
  BY <1>14, ServiceDrainedKeeps
<1>15. CASE UNCHANGED jobsVars
  BY <1>15, StutteringKeeps
<1> QED
  BY <1>1, <1>2, <1>3, <1>4, <1>5, <1>6, <1>7, <1>8, <1>9, <1>10, <1>11,
     <1>12, <1>13, <1>14, <1>15 DEF JobsNext, Producers, Callers, Teardown

-----------------------------------------------------------------------------
\* Over any interleaving of callers, producers and teardowns, for any number of
\* jobs, owners and waits: types, ends that mean released work, observers that
\* are current, the limit, what a teardown leaves, and who owes a report.
THEOREM RegistryInvariant == JobsSpec => []RegistryInv
<1>1. JobsInit => RegistryInv
  BY RegistryInit
<1>2. RegistryInv /\ [JobsNext]_jobsVars => RegistryInv'
  BY RegistryStep
<1> QED BY <1>1, <1>2, PTL DEF JobsSpec

-----------------------------------------------------------------------------
(* The refinement: every step moves the stages as CompletionDelivery allows. *)

\* What the invariant leaves of the definition of StageOf.
StageTable(j) ==
    /\ status[j] = "absent" => StageOf(j) = "none"
    /\ status[j] # "absent" =>
          /\ notices[j] = 1 => StageOf(j) = "announced"
          /\ notices[j] = 0 =>
                /\ j \in told => StageOf(j) = "known"
                /\ j \notin told /\ j \in torn => StageOf(j) = "dropped"
                /\ j \notin told \cup torn =>
                      StageOf(j) = IF Ended(j) THEN "owed" ELSE "live"

\* A job's delivery stage is read off its status and its notices.
LEMMA StagesTabled ==
    ASSUME RegistryInv, RegistryInv', NEW j \in OwnedJobs
    PROVE  /\ StageTable(j) /\ StageTable(j)'
           /\ notices[j] \in {0, 1} /\ notices'[j] \in {0, 1}
           /\ status'[j] = "absent" => notices'[j] = 0
           /\ Ended(j) \/ notices[j] = 0
<1>1. StageTable(j) /\ notices[j] \in {0, 1} /\ (Ended(j) \/ notices[j] = 0)
  BY DEF RegistryInv, Reporting, OwnedJobs, StageTable, StageOf, Ended, Terminal
<1>2. /\ StageTable(j)' /\ notices'[j] \in {0, 1}
      /\ status'[j] = "absent" => notices'[j] = 0
  BY DEF RegistryInv, Reporting, OwnedJobs, StageTable, StageOf, Ended, Terminal
<1> QED BY <1>1, <1>2

\* A job none of whose ingredients changes keeps its stage.
LEMMA StageKept ==
    ASSUME RegistryInv, RegistryInv', NEW j \in OwnedJobs,
           status'[j] = status[j], notices'[j] = notices[j],
           j \in told' <=> j \in told, j \in torn' <=> j \in torn
    PROVE  StageOf(j)' = StageOf(j)
BY StagesTabled DEF StageTable, Ended

\* One job moves and the others stay.
LEMMA OneMoves ==
    ASSUME NEW j \in OwnedJobs, NEW from, NEW to,
           StageOf(j) = from, StageOf(j)' = to,
           \A k \in OwnedJobs : k # j => StageOf(k)' = StageOf(k)
    PROVE  CD!Move(j, from, to)
BY DEF CD!Move

\* Where no stage changes, the delivery stutters.
LEMMA NoneMoves ==
    ASSUME \A k \in OwnedJobs : StageOf(k)' = StageOf(k)
    PROVE  UNCHANGED [k \in OwnedJobs |-> StageOf(k)]
OBVIOUS

\* A caller is given, or takes on, the end of job j.
LEMMA TellingMoves ==
    ASSUME RegistryInv, RegistryInv', NEW j \in Jobs,
           Ended(j) \/ status[j] # "absent",
           status'[j] # "absent", Ended(j)' <=> Ended(j),
           \A k \in Jobs : k # j => status'[k] = status[k],
           told' = told \cup {j}, UNCHANGED <<notices, torn>>
    PROVE  [CD!Next]_[k \in OwnedJobs |-> StageOf(k)]
<1>1. \A k \in OwnedJobs : k # j => StageOf(k)' = StageOf(k)
  BY StageKept DEF OwnedJobs
<1>2. CASE j \notin OwnedJobs
  BY <1>1, <1>2, NoneMoves
<1>3. CASE j \in OwnedJobs
  <2>1. status[j] # "absent"
    BY DEF Ended, Terminal
  <2>2. CASE notices[j] = 1
    <3>1. StageOf(j)' = StageOf(j)
      BY <1>3, <2>1, <2>2, StagesTabled DEF StageTable
    <3> QED BY <1>1, <3>1, NoneMoves
  <2>3. CASE notices[j] = 0
    <3>1. StageOf(j)' = "known" /\ StageOf(j) \in {"known", "dropped", "owed", "live"}
      BY <1>3, <2>1, <2>3, StagesTabled DEF StageTable
    <3>2. CASE StageOf(j) = "known"
      BY <1>1, <3>1, <3>2, NoneMoves
    <3>3. CASE StageOf(j) # "known"
      <4>1. CD!Tell(j)
        BY <1>1, <1>3, <3>1, <3>3, OneMoves DEF CD!Tell
      <4> QED BY <1>3, <4>1 DEF CD!Next
    <3> QED BY <3>2, <3>3
  <2> QED BY <1>3, <2>2, <2>3, StagesTabled
<1> QED BY <1>2, <1>3

\* A teardown drops the live jobs of the set it cancels.
LEMMA TeardownMoves ==
    ASSUME RegistryInv, RegistryInv', NEW S \in SUBSET Jobs, NEW thrown,
           S \subseteq listed, TeardownCancels(S, thrown)
    PROVE  [CD!Next]_[k \in OwnedJobs |-> StageOf(k)]
<1> DEFINE dropped == {k \in OwnedJobs : k \in S /\ StageOf(k) = "live"}
<1>1. \A k \in OwnedJobs \ dropped : StageOf(k)' = StageOf(k)
  <2> SUFFICES ASSUME NEW k \in OwnedJobs \ dropped
               PROVE  StageOf(k)' = StageOf(k)
    OBVIOUS
  <2>1. CASE k \notin S \/ Ended(k)
    BY <2>1, StageKept DEF TeardownCancels, OwnedJobs
  <2>2. CASE k \in S /\ ~Ended(k)
    <3>1. notices[k] = 0 /\ status[k] # "absent" /\ k \in told \cup torn
      BY <2>2, StagesTabled DEF StageTable, RegistryInv, Bookkeeping
    <3>2. /\ status'[k] # "absent" /\ UNCHANGED <<notices, told>> /\ k \in torn'
          /\ k \in torn' <=> k \in torn \/ k \notin torn
      BY <2>2 DEF TeardownCancels, OwnedJobs
    <3> QED BY <3>1, <3>2, StagesTabled DEF StageTable
  <2> QED BY <2>1, <2>2
<1>2. \A k \in dropped : StageOf(k)' = "dropped"
  <2> SUFFICES ASSUME NEW k \in dropped PROVE StageOf(k)' = "dropped"
    OBVIOUS
  <2>1. /\ k \in OwnedJobs /\ k \in S /\ k \notin told /\ notices[k] = 0 /\ ~Ended(k)
        /\ status[k] # "absent"
    BY StagesTabled DEF StageTable, RegistryInv, Bookkeeping
  <2>2. /\ k \in torn' /\ UNCHANGED <<told, notices>> /\ status'[k] # "absent"
    BY <2>1 DEF TeardownCancels, OwnedJobs
  <2> QED BY <2>1, <2>2, StagesTabled DEF StageTable
<1>3. CD!Drop
  BY <1>1, <1>2 DEF CD!Drop
<1> QED BY <1>3 DEF CD!Next

\* A start begins a delivery.
LEMMA StartMoves ==
    ASSUME RegistryInv, RegistryInv', NEW j \in Jobs, Start(j)
    PROVE  [CD!Next]_[k \in OwnedJobs |-> StageOf(k)]
<1>1. \A k \in OwnedJobs : k # j => StageOf(k)' = StageOf(k)
  BY StageKept DEF Start, outside, OwnedJobs, RegistryInv, JobsTypeOK
<1>2. CASE j \notin OwnedJobs
  BY <1>1, <1>2, NoneMoves
<1>3. CASE j \in OwnedJobs
  <2>1. /\ status'[j] = "running" /\ notices'[j] = 0 /\ j \notin told' \cup torn'
        /\ status[j] = "absent"
    BY DEF Start, outside, RegistryInv, JobsTypeOK, Reporting, Ended, Terminal
  <2>2. StageOf(j) = "none" /\ StageOf(j)' = "live"
    BY <1>3, <2>1, StagesTabled DEF StageTable, Ended, Terminal
  <2>3. CD!Start(j)
    BY <1>1, <1>3, <2>2, OneMoves DEF CD!Start
  <2> QED BY <1>3, <2>3 DEF CD!Next
<1> QED BY <1>2, <1>3

\* An end makes a completion due, or settles it without one.
LEMMA SettleMoves ==
    ASSUME RegistryInv, RegistryInv', NEW j \in Jobs, NEW outcome \in Outcomes,
           Settle(j, outcome)
    PROVE  [CD!Next]_[k \in OwnedJobs |-> StageOf(k)]
<1>1. \A k \in OwnedJobs : k # j => StageOf(k)' = StageOf(k)
  <2>1. /\ UNCHANGED <<told, torn>>
        /\ \A k \in Jobs : k # j => status'[k] = status[k] /\ notices'[k] = notices[k]
    BY DEF Settle, Recorded, RegistryInv, JobsTypeOK
  <2> QED BY <2>1, StageKept DEF OwnedJobs
<1>2. CASE j \notin OwnedJobs
  BY <1>1, <1>2, NoneMoves
<1>3. CASE j \in OwnedJobs /\ Ended(j)
  <2>1. StageOf(j)' = StageOf(j)
    BY <1>3, StageKept DEF Settle
  <2> QED BY <1>1, <2>1, NoneMoves
<1>4. CASE j \in OwnedJobs /\ ~Ended(j)
  <2>1. /\ status'[j] = outcome /\ outcome \in Terminal /\ status[j] # "absent"
        /\ UNCHANGED <<told, torn>>
    BY <1>4, JobsAssumption
       DEF Settle, Recorded, RegistryInv, JobsTypeOK, Bookkeeping
  <2>2. notices[j] = 0 /\ Ended(j)' /\ status'[j] # "absent"
    BY <1>4, <2>1, StagesTabled DEF Ended, Terminal
  <2>3. notices'[j] = 1 => j \notin told \cup torn
    BY <1>4, <2>2 DEF Settle, Announced, RegistryInv, Reporting, JobsTypeOK
  <2>4. CASE j \in told \cup torn
    <3>1. StageOf(j)' = StageOf(j)
      BY <1>4, <2>1, <2>2, <2>3, <2>4, StagesTabled DEF StageTable
    <3> QED BY <1>1, <3>1, NoneMoves
  <2>5. CASE j \notin told \cup torn /\ notices'[j] = 1
    <3>1. StageOf(j) = "live" /\ StageOf(j)' = "announced"
      BY <1>4, <2>1, <2>2, <2>5, StagesTabled DEF StageTable
    <3>2. CD!Announce(j)
      BY <1>1, <1>4, <3>1, OneMoves DEF CD!Announce
    <3> QED BY <1>4, <3>2 DEF CD!Next
  <2>6. CASE j \notin told \cup torn /\ notices'[j] = 0
    <3>1. StageOf(j) = "live" /\ StageOf(j)' = "owed"
      BY <1>4, <2>1, <2>2, <2>6, StagesTabled DEF StageTable
    <3>2. CD!Owe(j)
      BY <1>1, <1>4, <3>1, OneMoves DEF CD!Owe
    <3> QED BY <1>4, <3>2 DEF CD!Next
  <2> QED BY <1>4, <2>4, <2>5, <2>6, StagesTabled
<1> QED BY <1>2, <1>3, <1>4

\* Steps that touch no job's status, notices, told or torn.
LEMMA OthersStay ==
    ASSUME RegistryInv, RegistryInv', UNCHANGED <<status, notices, told, torn>>
    PROVE  [CD!Next]_[k \in OwnedJobs |-> StageOf(k)]
<1>1. \A k \in OwnedJobs : StageOf(k)' = StageOf(k)
  BY StageKept
<1> QED BY <1>1, NoneMoves

\* Every step of the registry is one of the delivery, or a stutter.
LEMMA DeliveryStep ==
    ASSUME RegistryInv, RegistryInv', [JobsNext]_jobsVars
    PROVE  [CD!Next]_[k \in OwnedJobs |-> StageOf(k)]
<1>1. ASSUME NEW j \in Jobs, Start(j) PROVE [CD!Next]_[k \in OwnedJobs |-> StageOf(k)]
  BY <1>1, StartMoves
<1>2. ASSUME NEW j \in Jobs, NEW outcome \in Outcomes, Settle(j, outcome)
      PROVE  [CD!Next]_[k \in OwnedJobs |-> StageOf(k)]
  BY <1>2, SettleMoves
<1>3. ASSUME NEW j \in Jobs, Kill(j) PROVE [CD!Next]_[k \in OwnedJobs |-> StageOf(k)]
  <2>1. /\ status[j] # "absent" /\ status'[j] = "stopping"
        /\ \A k \in Jobs : k # j => status'[k] = status[k]
        /\ told' = told \cup {j} /\ UNCHANGED <<notices, torn>>
    BY <1>3 DEF Kill, Reachable, Tells, RegistryInv, JobsTypeOK, Bookkeeping
  <2>2. ~Ended(j) /\ ~Ended(j)'
    BY <1>3, <2>1 DEF Kill, Ended, Terminal
  <2> QED BY <2>1, <2>2, TellingMoves
<1>4. ASSUME NEW j \in Jobs, ReadEnd(j) PROVE [CD!Next]_[k \in OwnedJobs |-> StageOf(k)]
  <2>1. /\ status[j] # "absent" /\ status' = status
        /\ told' = told \cup {j} /\ UNCHANGED <<notices, torn>>
    BY <1>4 DEF ReadEnd, Reachable, Tells, RegistryInv, JobsTypeOK, Bookkeeping
  <2>2. Ended(j)' <=> Ended(j)
    BY <2>1 DEF Ended
  <2> QED BY <2>1, <2>2, TellingMoves
<1>5. ASSUME NEW w \in Waits, WaitReturns(w)
      PROVE  [CD!Next]_[k \in OwnedJobs |-> StageOf(k)]
  <2>1. PICK j \in Jobs : j = wait[w].job
    BY <1>5 DEF WaitReturns, RegistryInv, Reporting, JobsTypeOK
  <2>2. CASE Ended(j) /\ told' = told \cup {j}
    <3>1. status[j] # "absent" /\ UNCHANGED <<status, notices, torn>>
      BY <1>5, <2>2 DEF WaitReturns, Ended, Terminal
    <3>2. Ended(j)' <=> Ended(j)
      BY <3>1 DEF Ended
    <3> QED BY <2>2, <3>1, <3>2, TellingMoves
  <2>3. CASE told' = told
    <3>1. UNCHANGED <<status, notices, torn>>
      BY <1>5 DEF WaitReturns
    <3> QED BY <2>3, <3>1, OthersStay
  <2> QED BY <1>5, <2>1, <2>2, <2>3 DEF WaitReturns, Tells
<1>6. ASSUME NEW o \in Owners, NEW thrown \in SUBSET Jobs, AgentDisposes(o, thrown)
      PROVE  [CD!Next]_[k \in OwnedJobs |-> StageOf(k)]
  <2>1. Owned(o) \in SUBSET Jobs /\ Owned(o) \subseteq listed
    BY DEF Owned, RegistryInv, JobsTypeOK
  <2>2. TeardownCancels(Owned(o), thrown) \/ UNCHANGED <<status, notices, told, torn>>
    BY <1>6 DEF AgentDisposes, outside
  <2> QED BY <2>1, <2>2, TeardownMoves, OthersStay
<1>7. ASSUME NEW thrown \in SUBSET Jobs, ServiceDisposes(thrown)
      PROVE  [CD!Next]_[k \in OwnedJobs |-> StageOf(k)]
  <2>1. listed \in SUBSET Jobs /\ TeardownCancels(listed, thrown)
    BY <1>7 DEF ServiceDisposes, RegistryInv, JobsTypeOK
  <2> QED BY <2>1, TeardownMoves
<1>8. ASSUME \/ \E o \in Owners : StartFails(o) \/ AgentDrained(o)
             \/ \E j \in Jobs : ProducerEnds(j)
             \/ \E w \in Waits, j \in Jobs : WaitBegins(w, j)
             \/ \E w \in Waits : WaitExpires(w) \/ WaitAborts(w)
             \/ ServiceDrained \/ UNCHANGED jobsVars
      PROVE  [CD!Next]_[k \in OwnedJobs |-> StageOf(k)]
  <2>1. UNCHANGED <<status, notices, told, torn>>
    BY <1>8 DEF StartFails, AgentDrained, ProducerEnds, WaitBegins, WaitExpires,
                WaitAborts, ServiceDrained, jobsVars, outside
  <2> QED BY <2>1, OthersStay
<1> QED BY <1>1, <1>2, <1>3, <1>4, <1>5, <1>6, <1>7, <1>8
        DEF JobsNext, Producers, Callers, Teardown

\* The registry delivers completions as CompletionDelivery prescribes: no step
\* loses the end of an owned job, announces it twice, or announces one that a
\* caller or a teardown has taken.
THEOREM DeliversCompletions == JobsSpec => CD!Safety
<1>1. JobsInit => CD!Init
  <2> SUFFICES ASSUME JobsInit PROVE CD!Init
    OBVIOUS
  <2>1. \A j \in OwnedJobs : StageOf(j) = "none"
    <3>1. \A j \in OwnedJobs : /\ status[j] = "absent" /\ notices[j] = 0
                               /\ j \notin told \cup torn
      BY DEF JobsInit, OwnedJobs
    <3> QED BY <3>1 DEF StageOf, Ended, Terminal
  <2> QED BY <2>1 DEF CD!Init
<1>2. RegistryInv /\ RegistryInv' /\ [JobsNext]_jobsVars
        => [CD!Next]_[j \in OwnedJobs |-> StageOf(j)]
  BY DeliveryStep
<1> QED BY <1>1, <1>2, RegistryInvariant, PTL DEF JobsSpec, CD!Safety

-----------------------------------------------------------------------------
(* GoalRounds: the inductive invariant. *)

\* What is requested of a driver, or holds requests off, is a run that will look at it.
Served(d, due) ==
    (d.requested \/ d.busy) /\ ~d.stopping =>
        d.starting + d.heads + d.flushing > 0 \/ due \in {"sending", "sendingFirst"}

RequestsServed == Served(driver, agent.due)

\* A proposal holds one round, and whatever is claimed.
Claims(ag, f) ==
    /\ \A m \in Rounds(ag.batch), n \in Rounds(ag.batch) : m = n
    /\ \A h \in Humans : f[h] = "claimed" =>
          h \in ag.batch /\ ag.pc \in {"proposed", "checked", "accepted"}
    /\ \A h \in Humans : f[h] # "lost"

ClaimsHeld == Claims(agent, fate)

\* No round on its way is ahead of the log, or past the limit.
Numbered(g, rounds) ==
    \A m \in rounds : m.rev <= g.rev /\ (m.rev = g.rev => m.round <= g.rounds + 1 /\ m.round <= g.max)

\* The attempt is the latest round of its revision, and its identity is its own.
Latest(g, a, rounds) ==
    a # NoAttempt =>
        /\ a.rev <= g.rev
        /\ \A m \in rounds :
              /\ m.id = a.id => m.rev = a.rev /\ m.round = a.round
              /\ m.rev = a.rev => m.round <= a.round

\* The driver's idea of an admitted round is the log's.
Counts(g, a) == a # NoAttempt /\ a.phase = "admitted" /\ a.rev = g.rev => g.rounds = a.round

Numbers(g, a, rounds) ==
    /\ g.armed => g.phase = "active"
    /\ Numbered(g, rounds) /\ Latest(g, a, rounds)
    /\ corrupt \/ Counts(g, a)

NumberInv == Numbers(goal, attempt, Outstanding)

\* A round that was cancelled ends its turn, which takes the authority away.
HaltHolds ==
    halted /\ Armed /\ ~corrupt =>
        \/ agent.aborted /\ agent.pc \in {"proposed", "checked", "accepted", "rejected", "stepping"}
        \/ agent.pc = "retiring" /\ attempt # NoAttempt /\ attempt.cancelled

\* What the driver has let in stays the next round, unless it is overtaken.
AcceptedIsNext ==
    agent.pc = "accepted" /\ ~agent.aborted /\ ~overtaken =>
        \A m \in Rounds(agent.batch) : Armed /\ m.rev = goal.rev /\ m.round = goal.rounds + 1

RoundsIInv == TypeOK /\ RequestsServed /\ ClaimsHeld /\ NumberInv /\ HaltHolds /\ AcceptedIsNext

-----------------------------------------------------------------------------
(* Facts about single definitions. *)

\* The queue of prompts, when one more is queued.
LEMMA QueueGrows ==
    ASSUME NEW batch, NEW queue \in Seq(Humans \cup Messages), NEW m \in Humans \cup Messages
    PROVE  /\ Append(queue, m) \in Seq(Humans \cup Messages)
           /\ OnTheWay(batch, Append(queue, m)) = OnTheWay(batch, queue) \cup Rounds({m})
<1> DEFINE q == Append(queue, m)
<1>1. q \in Seq(Humans \cup Messages) /\ Len(q) = Len(queue) + 1 /\ Len(queue) \in Nat
  OBVIOUS
<1>2. \A j \in 1..Len(q) : q[j] = IF j <= Len(queue) THEN queue[j] ELSE m
  OBVIOUS
<1>3. {q[j] : j \in 1..Len(q)} = {queue[j] : j \in 1..Len(queue)} \cup {m}
  <2> HIDE DEF q
  <2>1. ASSUME NEW x \in {queue[j] : j \in 1..Len(queue)}
        PROVE  x \in {q[j] : j \in 1..Len(q)}
    <3>1. PICK j \in 1..Len(queue) : x = queue[j]
      BY <2>1
    <3>2. j \in 1..Len(q) /\ q[j] = x
      BY <1>1, <1>2, <3>1
    <3> QED BY <3>2
  <2>2. m \in {q[j] : j \in 1..Len(q)}
    <3>1. Len(q) \in 1..Len(q) /\ q[Len(q)] = m
      BY <1>1, <1>2
    <3> QED BY <3>1
  <2>3. ASSUME NEW x \in {q[j] : j \in 1..Len(q)}
        PROVE  x \in {queue[j] : j \in 1..Len(queue)} \cup {m}
    <3>1. PICK j \in 1..Len(q) : x = q[j]
      BY <2>3
    <3>2. j \in 1..Len(queue) \/ x = m
      BY <1>1, <1>2, <3>1
    <3>3. j \in 1..Len(queue) => x = queue[j]
      BY <1>1, <1>2, <3>1
    <3> QED BY <3>2, <3>3
  <2> QED BY <2>1, <2>2, <2>3
<1> QED BY <1>1, <1>3 DEF OnTheWay, Rounds

\* ... and when its first is taken.
LEMMA QueueShrinks ==
    ASSUME NEW queue \in Seq(Humans \cup Messages), queue # <<>>
    PROVE  /\ Tail(queue) \in Seq(Humans \cup Messages)
           /\ Head(queue) \in Humans \cup Messages
           /\ OnTheWay({Head(queue)}, Tail(queue)) \subseteq OnTheWay({}, queue)
<1>1. /\ Tail(queue) \in Seq(Humans \cup Messages) /\ Head(queue) \in Humans \cup Messages
      /\ Len(queue) \in Nat \ {0} /\ Len(Tail(queue)) = Len(queue) - 1 /\ Head(queue) = queue[1]
      /\ \A j \in 1..Len(Tail(queue)) : Tail(queue)[j] = queue[j + 1]
  OBVIOUS
<1>2. 1 \in 1..Len(queue) /\ \A j \in 1..Len(Tail(queue)) : j + 1 \in 1..Len(queue)
  BY <1>1
<1>3. {Tail(queue)[j] : j \in 1..Len(Tail(queue))} \subseteq {queue[j] : j \in 1..Len(queue)}
  BY <1>1, <1>2
<1>4. Head(queue) \in {queue[j] : j \in 1..Len(queue)}
  BY <1>1, <1>2
<1> QED BY <1>1, <1>3, <1>4 DEF OnTheWay, Rounds

\* A message of a person is no round.
LEMMA PeopleAreNoRounds ==
    /\ \A h \in Humans : Rounds({h}) = {}
    /\ \A m \in Messages : Round(m) /\ Rounds({m}) = {m}
    /\ \A batch, steps, queue : steps \subseteq Humans
          => OnTheWay(batch \cup steps, queue) = OnTheWay(batch, queue)
<1>1. \A m \in Messages : m \notin Humans
  BY GoalRoundsAssumption
<1> QED BY <1>1 DEF Rounds, Round, OnTheWay

-----------------------------------------------------------------------------
(* What the operations do to the driver, the attempt and the goal. *)

\* A request finds a run or starts one.
LEMMA RequestIsServed ==
    ASSUME NEW d \in Drivers, NEW q, q = Requested(d), NEW due, Served(d, due)
    PROVE  q \in Drivers /\ Served(q, due) /\ q.stopping = d.stopping
<1>1. CASE d.stopping
  BY <1>1 DEF Requested
<1>2. CASE ~d.stopping
  <2>1. (IF d.busy THEN d.starting ELSE 1) \in 0..1
    BY DEF Drivers
  <2>2. q \in Drivers
    BY <1>2, <2>1, Zenon DEF Requested, Drivers
  <2>3. /\ q.heads = d.heads /\ q.flushing = d.flushing /\ q.stopping = d.stopping
        /\ d.busy => q.starting = d.starting
        /\ ~d.busy => q.starting = 1
    BY <1>2, Zenon DEF Requested, Drivers
  <2> HIDE DEF Requested
  <2>4. Served(q, due)
    BY <2>2, <2>3, <1>2 DEF Served, Drivers
  <2> QED BY <2>2, <2>3, <2>4
<1> QED BY <1>1, <1>2

\* ... also when it asks for a checkpoint.
LEMMA ChangeIsServed ==
    ASSUME NEW d \in Drivers, NEW q, q = Changed(d), NEW due, Served(d, due)
    PROVE  q \in Drivers /\ Served(q, due) /\ q.stopping = d.stopping
<1> DEFINE c == [d EXCEPT !.checkpoint = TRUE]
<1>1. c \in Drivers /\ Served(c, due) /\ c.stopping = d.stopping
  BY DEF Drivers, Served
<1>2. q = Requested(c)
  BY DEF Changed
<1> HIDE DEF c
<1> QED BY <1>1, <1>2, RequestIsServed

\* Competing work changes no run.
LEMMA CompetitionIsServed ==
    ASSUME NEW d \in Drivers, NEW q, q \in {Competes(d), [d EXCEPT !.competing = FALSE]},
           NEW due, Served(d, due)
    PROVE  q \in Drivers /\ Served(q, due) /\ q.stopping = d.stopping
BY DEF Competes, Drivers, Served

\* A run that goes on is there to look.
LEMMA LoopServes ==
    ASSUME NEW d \in Drivers, NEW first \in BOOLEAN, NEW due, NEW q, q = Looping(d, first)
    PROVE  q \in Drivers /\ Served(q, due) /\ q.stopping = d.stopping
<1>1. (d.busy \/ first) \in BOOLEAN
  OBVIOUS
<1>2. q \in [competing : BOOLEAN, checkpoint : BOOLEAN, requested : BOOLEAN, busy : BOOLEAN,
            stopping : BOOLEAN, starting : 0..1, heads : {d.heads + 1}, flushing : Nat]
  BY <1>1, Zenon DEF Drivers, Looping
<1>3. q.stopping = d.stopping
  BY Zenon DEF Drivers, Looping
<1> QED BY <1>2, <1>3 DEF Drivers, Served

\* Another attempt is none, or the same round, not nearer to the log.
SameAttempt(a, b) ==
    /\ b \in {NoAttempt} \cup Attempts
    /\ b # NoAttempt =>
          /\ a # NoAttempt /\ b.id = a.id /\ b.rev = a.rev /\ b.round = a.round
          /\ b.phase = "admitted" => a.phase = "admitted"

StaysCancelled(a, b) == a # NoAttempt /\ a.cancelled => b # NoAttempt /\ b.cancelled

\* Marks leave the round it is.
LEMMA MarksLeaveRound ==
    ASSUME NEW a \in Attempts, NEW b,
           b \in {a, [a EXCEPT !.stale = TRUE], [a EXCEPT !.cancelled = TRUE],
                 [a EXCEPT !.phase = "claimed"]}
    PROVE  /\ b \in Attempts /\ SameAttempt(a, b) /\ StaysCancelled(a, b)
           /\ b = [a EXCEPT !.cancelled = TRUE] => b.cancelled
<1>1. NoAttempt \notin Attempts
  BY GoalRoundsAssumption
<1>2. a # NoAttempt
  BY <1>1
<1>3. CASE b = a
  BY <1>2, <1>3 DEF SameAttempt, StaysCancelled, Attempts
<1>4. CASE b = [a EXCEPT !.stale = TRUE]
  <2>1. b \in Attempts
    BY <1>4 DEF Attempts
  <2> QED BY <1>1, <2>1, <1>4 DEF SameAttempt, StaysCancelled, Attempts
<1>5. CASE b = [a EXCEPT !.cancelled = TRUE]
  <2>1. b \in Attempts
    BY <1>5 DEF Attempts
  <2> QED BY <1>1, <2>1, <1>5 DEF SameAttempt, StaysCancelled, Attempts
<1>6. CASE b = [a EXCEPT !.phase = "claimed"]
  <2>1. b \in Attempts
    BY <1>6 DEF Attempts
  <2> QED BY <1>1, <2>1, <1>6 DEF SameAttempt, StaysCancelled, Attempts
<1> QED BY <1>3, <1>4, <1>5, <1>6

\* So does what happens to it until it is admitted.
LEMMA AttemptChanges ==
    ASSUME NEW a \in {NoAttempt} \cup Attempts, NEW batch, NEW b,
           \/ b \in {a, Claimed(a, batch), Staled(a), Cleared(a)}
           \/ a # NoAttempt /\ b \in {[a EXCEPT !.stale = TRUE], [a EXCEPT !.cancelled = TRUE],
                                     [Cleared(a) EXCEPT !.stale = TRUE]}
    PROVE  SameAttempt(a, b) /\ StaysCancelled(a, b)
<1>1. CASE a = NoAttempt
  BY <1>1, Zenon DEF SameAttempt, StaysCancelled, Claimed, Staled, Cleared, SameQueued
<1>2. CASE a \in Attempts
  <2>1. \/ b \in {a, [a EXCEPT !.stale = TRUE], [a EXCEPT !.cancelled = TRUE],
                 [a EXCEPT !.phase = "claimed"]}
        \/ b = [[a EXCEPT !.cancelled = TRUE] EXCEPT !.stale = TRUE]
    BY Zenon DEF Claimed, Staled, Cleared
  <2>2. CASE b \in {a, [a EXCEPT !.stale = TRUE], [a EXCEPT !.cancelled = TRUE],
                 [a EXCEPT !.phase = "claimed"]}
    BY <1>2, <2>2, MarksLeaveRound
  <2>3. CASE b = [[a EXCEPT !.cancelled = TRUE] EXCEPT !.stale = TRUE]
    <3> DEFINE c == [a EXCEPT !.cancelled = TRUE]
    <3>1. c \in Attempts /\ SameAttempt(a, c) /\ StaysCancelled(a, c)
      BY <1>2, MarksLeaveRound
    <3>2. b = [c EXCEPT !.stale = TRUE]
      BY <2>3
    <3> HIDE DEF c
    <3>3. b \in Attempts /\ SameAttempt(c, b) /\ StaysCancelled(c, b)
      BY <3>1, <3>2, MarksLeaveRound
    <3> QED BY <3>1, <3>3 DEF SameAttempt, StaysCancelled
  <2> QED BY <2>1, <2>2, <2>3
<1> QED BY <1>1, <1>2

\* The goal of a new revision, or the same one without more authority.
GoalMoves(g, h) ==
    /\ h \in Goals /\ (h.armed => h.phase = "active")
    /\ h.rev > g.rev \/ (h.rev = g.rev /\ h.rounds = g.rounds /\ h.max = g.max)

\* Disarming, blocking and pausing only take authority away.
LEMMA GoalChanges ==
    ASSUME goal \in Goals, goal.armed => goal.phase = "active", NEW h,
           \/ h \in {goal, Disarmed(goal)}
           \/ \E phase \in {"none", "paused", "blocked", "complete"} : h = Revised(phase, FALSE)
    PROVE  GoalMoves(goal, h) /\ (h.armed => h = goal)
<1>1. CASE h = goal
  BY <1>1 DEF GoalMoves, Goals
<1>2. CASE h = [goal EXCEPT !.armed = FALSE]
  <2>1. h \in Goals
    BY <1>2 DEF Goals
  <2> QED BY <1>2, <2>1 DEF GoalMoves, Goals
<1>3. ASSUME NEW phase \in {"none", "paused", "blocked", "complete"}, h = Revised(phase, FALSE)
      PROVE  GoalMoves(goal, h) /\ ~h.armed
  <2>0. goal.rev + 1 \in Nat
    BY DEF Goals
  <2>1. h \in Goals
    BY <2>0, <1>3, Zenon DEF Goals, Revised
  <2> QED BY <1>3, <2>1 DEF GoalMoves, Goals, Revised
<1> QED BY <1>1, <1>2, <1>3 DEF Disarmed

\* Without a new round and without more on the way, the numbers stay right.
LEMMA NumbersStay ==
    ASSUME TypeOK, NumberInv, NEW h, GoalMoves(goal, h), NEW b, SameAttempt(attempt, b),
           NEW rounds \in SUBSET Outstanding
    PROVE  Numbers(h, b, rounds)
<1>1. \A m \in Outstanding : m \in Messages
  BY DEF TypeOK, Outstanding, OnTheWay, Rounds, Round, Agents
<1>2. goal \in Goals /\ attempt \in {NoAttempt} \cup Attempts
  BY DEF TypeOK
<1>3. Numbered(h, rounds)
  BY <1>1, <1>2 DEF NumberInv, Numbers, Numbered, GoalMoves, Messages, Goals
<1>4. Latest(h, b, rounds)
  BY <1>1, <1>2 DEF NumberInv, Numbers, Latest, GoalMoves, SameAttempt, Messages, Goals, Attempts
<1>5. corrupt \/ Counts(h, b)
  BY <1>1, <1>2 DEF NumberInv, Numbers, Latest, Counts, GoalMoves, SameAttempt, Messages, Goals, Attempts
<1> QED BY <1>3, <1>4, <1>5 DEF Numbers, GoalMoves

-----------------------------------------------------------------------------
(* The invariant, over what a step may change. *)

\* An agent at the beginning of a step has claimed the step input and, when it opens a
\* turn, the first prompt.
LEMMA ProposalIsClaimed ==
    ASSUME NEW ag \in Agents, NEW queue \in Seq(Humans \cup Messages), NEW steps \in SUBSET Humans,
           NEW a \in {NoAttempt} \cup Attempts, NEW f \in [Humans -> Fates],
           \A h \in Humans : f[h] \notin {"claimed", "lost"},
           Proposes(ag, queue, steps, a, f)
    PROVE  /\ agent' \in Agents /\ turnQ' \in Seq(Humans \cup Messages) /\ stepQ' \subseteq Humans
           /\ fate' \in [Humans -> Fates]
           /\ agent'.pc = "proposed" /\ ~agent'.aborted /\ agent'.due = ag.due
           /\ OnTheWay(agent'.batch, turnQ') \subseteq OnTheWay({}, queue)
           /\ Claims(agent', fate')
           /\ SameAttempt(a, attempt')
<1> DEFINE opens == ag.pc # "stepping"
           first == IF opens /\ queue # <<>> THEN {Head(queue)} ELSE {}
           batch == steps \cup first
<1>1. /\ agent' = [ag EXCEPT !.pc = "proposed", !.batch = batch, !.aborted = FALSE, !.latch = FALSE]
      /\ turnQ' = IF opens /\ queue # <<>> THEN Tail(queue) ELSE queue
      /\ stepQ' = {}
      /\ attempt' = Claimed(a, batch)
      /\ fate' = [h \in Humans |-> IF h \in batch THEN "claimed" ELSE f[h]]
  BY Zenon DEF Proposes
<1>2. /\ turnQ' \in Seq(Humans \cup Messages) /\ first \subseteq Humans \cup Messages
      /\ OnTheWay(first, turnQ') \subseteq OnTheWay({}, queue)
      /\ \A m \in first, n \in first : m = n
  <2>1. CASE opens /\ queue # <<>>
    <3>1. first = {Head(queue)} /\ turnQ' = Tail(queue)
      BY <2>1, <1>1
    <3> QED BY <2>1, <3>1, QueueShrinks
  <2>2. CASE ~(opens /\ queue # <<>>)
    BY <2>2, <1>1
  <2> QED BY <2>1, <2>2
<1>3. batch \in SUBSET (Humans \cup Messages)
  BY <1>2
<1>4. OnTheWay(batch, turnQ') = OnTheWay(first, turnQ') /\ Rounds(batch) \subseteq first
  <2>1. batch = first \cup steps
    OBVIOUS
  <2>2. OnTheWay(first \cup steps, turnQ') = OnTheWay(first, turnQ')
    BY PeopleAreNoRounds, Zenon
  <2>3. Rounds(batch) \subseteq first
    BY DEF Rounds, Round
  <2> QED BY <2>1, <2>2, <2>3
<1> HIDE DEF batch, first
<1>5. agent' \in Agents /\ agent'.pc = "proposed" /\ ~agent'.aborted /\ agent'.due = ag.due
      /\ agent'.batch = batch
  BY <1>1, <1>3 DEF Agents
<1>6. SameAttempt(a, attempt')
  BY <1>1, AttemptChanges
<1>7. fate' \in [Humans -> Fates] /\ \A h \in Humans : fate'[h] = IF h \in batch THEN "claimed" ELSE f[h]
  BY <1>1 DEF Fates
<1>8. Claims(agent', fate')
  BY <1>2, <1>4, <1>5, <1>7 DEF Claims
<1> QED BY <1>1, <1>2, <1>4, <1>5, <1>6, <1>7, <1>8

\* The parts that most steps keep for the same reason.
LEMMA PartsKept ==
    ASSUME RoundsIInv, TypeOK', Served(driver', agent'.due), Claims(agent', fate'),
           GoalMoves(goal, goal'), SameAttempt(attempt, attempt'),
           Outstanding' \subseteq Outstanding, corrupt' = corrupt,
           HaltHolds', AcceptedIsNext'
    PROVE  RoundsIInv'
<1>1. Numbers(goal', attempt', Outstanding')
  BY NumbersStay DEF RoundsIInv
<1>2. NumberInv'
  BY <1>1 DEF NumberInv, Numbers
<1> QED BY <1>2 DEF RoundsIInv, RequestsServed, ClaimsHeld

\* A goal that does not move.
LEMMA GoalStays ==
    ASSUME RoundsIInv
    PROVE  GoalMoves(goal, goal)
BY DEF RoundsIInv, TypeOK, NumberInv, Numbers, GoalMoves, Goals

\* A step that begins, of an agent without a round that was cancelled.
LEMMA ProposalKeeps ==
    ASSUME RoundsIInv, NEW ag \in Agents, NEW queue \in Seq(Humans \cup Messages),
           NEW steps \in SUBSET Humans, NEW a, SameAttempt(attempt, a),
           NEW f \in [Humans -> Fates], \A h \in Humans : f[h] \notin {"claimed", "lost"},
           Proposes(ag, queue, steps, a, f), OnTheWay({}, queue) \subseteq Outstanding,
           driver' \in Drivers, Served(driver', ag.due),
           UNCHANGED <<goal, corrupt, history>>, trouble' \in 0..MaxTrouble,
           ~(halted /\ Armed /\ ~corrupt)
    PROVE  RoundsIInv'
<1>1. a \in {NoAttempt} \cup Attempts
  BY DEF SameAttempt
<1>2. /\ agent' \in Agents /\ turnQ' \in Seq(Humans \cup Messages) /\ stepQ' \subseteq Humans
      /\ fate' \in [Humans -> Fates]
      /\ agent'.pc = "proposed" /\ agent'.due = ag.due
      /\ OnTheWay(agent'.batch, turnQ') \subseteq OnTheWay({}, queue)
      /\ Claims(agent', fate')
      /\ SameAttempt(a, attempt')
  BY <1>1, ProposalIsClaimed, Zenon
<1>3. SameAttempt(attempt, attempt')
  BY <1>2 DEF SameAttempt
<1>4. Outstanding' \subseteq Outstanding
  BY <1>2 DEF Outstanding
<1>5. TypeOK'
  BY <1>2, <1>3 DEF TypeOK, RoundsIInv, SameAttempt, history
<1>6. GoalMoves(goal, goal')
  BY GoalStays
<1>7. HaltHolds' /\ AcceptedIsNext'
  BY <1>2 DEF HaltHolds, AcceptedIsNext, Armed, history
<1> QED BY <1>2, <1>3, <1>4, <1>5, <1>6, <1>7, PartsKept

\* Between steps nothing is claimed, and no cancelled round has authority.
LEMMA BetweenSteps ==
    ASSUME RoundsIInv,
           agent.pc \in {"idle", "maintenance", "between"} \/ (agent.pc = "stepping" /\ ~agent.aborted)
    PROVE  /\ \A h \in Humans : fate[h] \notin {"claimed", "lost"}
           /\ ~(halted /\ Armed /\ ~corrupt)
           /\ OnTheWay({}, turnQ) \subseteq Outstanding
<1>1. \A h \in Humans : fate[h] \notin {"claimed", "lost"}
  BY DEF RoundsIInv, ClaimsHeld, Claims
<1>2. ~(halted /\ Armed /\ ~corrupt)
  BY DEF RoundsIInv, HaltHolds
<1>3. OnTheWay({}, turnQ) \subseteq Outstanding
  BY DEF Outstanding, OnTheWay, Rounds
<1> QED BY <1>1, <1>2, <1>3

-----------------------------------------------------------------------------
(* Every step keeps the invariant: the agent and its clients. *)

\* A prompt that is queued, and wakes an idle agent.
LEMMA FollowupKeeps ==
    ASSUME RoundsIInv, NEW h \in Humans, Followup(h)
    PROVE  RoundsIInv'
<1> DEFINE queued == [fate EXCEPT ![h] = "queued"]
           queue == Append(turnQ, h)
<1>1. TypeOK
  BY DEF RoundsIInv
<1>2. /\ driver' = Competes(driver)
      /\ IF agent.pc = "idle" THEN Proposes(agent, queue, stepQ, Staled(attempt), queued)
         ELSE /\ turnQ' = queue
              /\ attempt' = Staled(attempt)
              /\ agent' = [agent EXCEPT !.latch = @ \/ agent.aborted \/ agent.pc = "maintenance"]
              /\ fate' = queued
              /\ UNCHANGED stepQ
      /\ UNCHANGED <<goal, corrupt, history, trouble>>
  BY Zenon DEF Followup
<1>3. driver' \in Drivers /\ Served(driver', agent.due)
  BY <1>1, <1>2, CompetitionIsServed DEF RoundsIInv, RequestsServed, TypeOK
<1>4. SameAttempt(attempt, Staled(attempt)) /\ StaysCancelled(attempt, Staled(attempt))
  BY <1>1, AttemptChanges DEF TypeOK
<1>5. queued \in [Humans -> Fates] /\ \A k \in Humans : k # h => queued[k] = fate[k]
  BY <1>1 DEF TypeOK, Fates
<1>6. queued[h] = "queued"
  BY <1>1 DEF TypeOK
<1>7. queue \in Seq(Humans \cup Messages)
      /\ OnTheWay(agent.batch, queue) = Outstanding /\ OnTheWay({}, queue) \subseteq Outstanding
  <2>1. Rounds({h}) = {} /\ h \in Humans \cup Messages /\ turnQ \in Seq(Humans \cup Messages)
    BY <1>1, PeopleAreNoRounds DEF TypeOK
  <2>2. queue \in Seq(Humans \cup Messages)
        /\ OnTheWay(agent.batch, queue) = OnTheWay(agent.batch, turnQ) \cup Rounds({h})
        /\ OnTheWay({}, queue) = OnTheWay({}, turnQ) \cup Rounds({h})
    BY <2>1, QueueGrows
  <2>3. OnTheWay({}, turnQ) \subseteq Outstanding
    BY DEF Outstanding, OnTheWay, Rounds
  <2> QED BY <2>1, <2>2, <2>3 DEF Outstanding
<1> HIDE DEF queued, queue
<1>8. CASE agent.pc = "idle"
  <2>1. \A k \in Humans : queued[k] \notin {"claimed", "lost"}
    BY <1>5, <1>6, <1>8, BetweenSteps
  <2>2. Proposes(agent, queue, stepQ, Staled(attempt), queued)
    BY <1>2, <1>8
  <2>3. agent \in Agents /\ stepQ \in SUBSET Humans /\ trouble' \in 0..MaxTrouble
    BY <1>1, <1>2 DEF TypeOK
  <2>4. ~(halted /\ Armed /\ ~corrupt)
    BY <1>8, BetweenSteps
  <2> QED BY <1>2, <1>3, <1>4, <1>5, <1>7, <2>1, <2>2, <2>3, <2>4, ProposalKeeps
<1>9. CASE agent.pc # "idle"
  <2> DEFINE latch == agent.latch \/ agent.aborted \/ agent.pc = "maintenance"
  <2>1. agent' = [agent EXCEPT !.latch = latch]
    BY <1>2, <1>9
  <2>2. latch \in BOOLEAN
    BY DEF latch
  <2> HIDE DEF latch
  <2>3. agent' \in Agents /\ agent'.pc = agent.pc /\ agent'.batch = agent.batch
        /\ agent'.aborted = agent.aborted /\ agent'.due = agent.due
    BY <1>1, <2>1, <2>2, Zenon DEF TypeOK, Agents
  <2>4. TypeOK'
    BY <1>1, <1>2, <1>3, <1>4, <1>5, <1>7, <1>9, <2>3 DEF TypeOK, SameAttempt, history
  <2>5. Claims(agent', fate')
    BY <1>2, <1>5, <1>6, <1>9, <2>3 DEF RoundsIInv, ClaimsHeld, Claims
  <2>6. Outstanding' \subseteq Outstanding
    BY <1>2, <1>7, <1>9, <2>3 DEF Outstanding
  <2>7. GoalMoves(goal, goal')
    BY <1>2, GoalStays
  <2>8. HaltHolds'
    BY <1>2, <1>4, <1>9, <2>3 DEF RoundsIInv, HaltHolds, StaysCancelled, Armed, history
  <2>9. AcceptedIsNext'
    BY <1>2, <2>3 DEF RoundsIInv, AcceptedIsNext, Armed, history
  <2> QED BY <1>2, <1>3, <1>4, <1>9, <2>3, <2>4, <2>5, <2>6, <2>7, <2>8, <2>9, PartsKept
<1> QED BY <1>8, <1>9

\* Step input, whether or not it wakes the agent.
LEMMA InjectKeeps ==
    ASSUME RoundsIInv, NEW h \in Humans, Inject(h)
    PROVE  RoundsIInv'
<1> DEFINE queued == [fate EXCEPT ![h] = "queued"]
           steps == stepQ \cup {h}
<1>1. TypeOK
  BY DEF RoundsIInv
<1>2. /\ \/ /\ stepQ' = steps
            /\ fate' = queued
            /\ \/ UNCHANGED agent
               \/ agent' = [agent EXCEPT !.latch = TRUE]
            /\ UNCHANGED <<attempt, turnQ>>
         \/ agent.pc = "idle" /\ Proposes(agent, turnQ, steps, attempt, queued)
      /\ UNCHANGED <<goal, corrupt, driver, history, trouble>>
  BY Zenon DEF Inject
<1>3. driver' \in Drivers /\ Served(driver', agent.due) /\ steps \in SUBSET Humans
  BY <1>1, <1>2 DEF RoundsIInv, RequestsServed, TypeOK
<1>4. SameAttempt(attempt, attempt)
  BY <1>1, AttemptChanges DEF TypeOK
<1>5. queued \in [Humans -> Fates] /\ queued[h] = "queued"
      /\ \A k \in Humans : k # h => queued[k] = fate[k]
  BY <1>1 DEF TypeOK, Fates
<1> HIDE DEF queued, steps
<1>6. CASE agent.pc = "idle" /\ Proposes(agent, turnQ, steps, attempt, queued)
  <2>1. \A k \in Humans : queued[k] \notin {"claimed", "lost"}
    BY <1>5, <1>6, BetweenSteps
  <2>2. /\ agent \in Agents /\ turnQ \in Seq(Humans \cup Messages)
        /\ trouble' \in 0..MaxTrouble /\ UNCHANGED <<goal, corrupt, history>>
    BY <1>1, <1>2 DEF TypeOK
  <2>3. ~(halted /\ Armed /\ ~corrupt) /\ OnTheWay({}, turnQ) \subseteq Outstanding
    BY <1>6, BetweenSteps
  <2> QED BY <1>3, <1>4, <1>5, <1>6, <2>1, <2>2, <2>3, ProposalKeeps
<1>7. CASE stepQ' = steps /\ fate' = queued /\ UNCHANGED <<attempt, turnQ>>
           /\ (UNCHANGED agent \/ agent' = [agent EXCEPT !.latch = TRUE])
  <2>1. agent' \in Agents /\ agent'.pc = agent.pc /\ agent'.batch = agent.batch
        /\ agent'.aborted = agent.aborted /\ agent'.due = agent.due
    BY <1>1, <1>7 DEF TypeOK, Agents
  <2>2. TypeOK'
    BY <1>1, <1>2, <1>3, <1>5, <1>7, <2>1 DEF TypeOK, history
  <2>3. Claims(agent', fate')
    BY <1>5, <1>7, <2>1 DEF RoundsIInv, ClaimsHeld, Claims
  <2>4. Outstanding' \subseteq Outstanding
    BY <1>7, <2>1 DEF Outstanding
  <2>5. GoalMoves(goal, goal')
    BY <1>2, GoalStays
  <2>6. HaltHolds'
    BY <1>2, <1>7, <2>1 DEF RoundsIInv, HaltHolds, Armed, history
  <2>7. AcceptedIsNext'
    BY <1>2, <2>1 DEF RoundsIInv, AcceptedIsNext, Armed, history
  <2> QED BY <1>2, <1>3, <1>4, <1>7, <2>1, <2>2, <2>3, <2>4, <2>5, <2>6, <2>7, PartsKept
<1> QED BY <1>2, <1>6, <1>7

\* Clearing the inbox takes what is queued, and nothing that is claimed.
LEMMA ClearingKeepsClaims ==
    ASSUME RoundsIInv, Cancels
    PROVE  /\ agent' \in Agents /\ agent'.pc = agent.pc /\ agent'.batch = agent.batch
           /\ agent'.due = agent.due /\ (agent.pc # "idle" => agent'.aborted)
           /\ turnQ' \in Seq(Humans \cup Messages) /\ stepQ' \subseteq Humans
           /\ fate' \in [Humans -> Fates] /\ Claims(agent', fate')
           /\ Outstanding' \subseteq Outstanding
<1> DEFINE aborted == agent.pc # "idle"
<1>1. TypeOK
  BY DEF RoundsIInv
<1>2. /\ agent' = [agent EXCEPT !.latch = FALSE, !.aborted = aborted]
      /\ turnQ' = <<>> /\ stepQ' = {}
      /\ fate' = [h \in Humans |-> IF fate[h] = "queued" THEN "gone" ELSE fate[h]]
  BY Zenon DEF Cancels
<1>3. aborted \in BOOLEAN
  OBVIOUS
<1>4. agent' \in Agents /\ agent'.pc = agent.pc /\ agent'.batch = agent.batch
      /\ agent'.due = agent.due /\ agent'.aborted = aborted
  <2> HIDE DEF aborted
  <2> QED BY <1>1, <1>2, <1>3, Zenon DEF TypeOK, Agents
<1>5. fate' \in [Humans -> Fates]
      /\ \A h \in Humans : fate'[h] = IF fate[h] = "queued" THEN "gone" ELSE fate[h]
  BY <1>1, <1>2 DEF TypeOK, Fates
<1>6. Claims(agent', fate')
  <2> HIDE DEF aborted
  <2> QED BY <1>4, <1>5 DEF RoundsIInv, ClaimsHeld, Claims
<1>7. Outstanding' \subseteq Outstanding
  <2>1. Len(turnQ') = 0
    BY <1>2
  <2> QED BY <1>4, <2>1 DEF Outstanding, OnTheWay, Rounds
<1>8. agent.pc # "idle" => agent'.aborted
  <2>1. agent.pc # "idle" => aborted
    OBVIOUS
  <2> HIDE DEF aborted
  <2> QED BY <1>4, <2>1
<1>9. turnQ' \in Seq(Humans \cup Messages) /\ stepQ' \subseteq Humans
  BY <1>2
<1> HIDE DEF aborted
<1> QED BY <1>4, <1>5, <1>6, <1>7, <1>8, <1>9

\* A cancel, of everything or of the turn only.
LEMMA CancelKeeps ==
    ASSUME RoundsIInv, Cancel
    PROVE  RoundsIInv'
<1> DEFINE halts == /\ attempt # NoAttempt
                    /\ agent.pc \in {"proposed", "checked", "accepted", "stepping"}
                    /\ attempt.phase \in {"claimed", "admitted"}
<1>1. TypeOK
  BY DEF RoundsIInv
<1>2. /\ \/ Cancels /\ attempt' = Cleared(attempt)
         \/ /\ agent.pc # "idle"
            /\ agent' = [agent EXCEPT !.aborted = TRUE]
            /\ UNCHANGED <<attempt, inbox, fate>>
      /\ halted' = (halted \/ halts)
      /\ UNCHANGED <<goal, corrupt, driver, overtaken>>
      /\ Fails
  BY Zenon DEF Cancel
<1>3. trouble' \in 0..MaxTrouble
  BY <1>1, <1>2, GoalRoundsAssumption DEF TypeOK, Fails
<1>4. halted' \in BOOLEAN /\ (halted' => halted \/ agent.pc \in {"proposed", "checked", "accepted", "stepping"})
  BY <1>1, <1>2 DEF TypeOK
<1> HIDE DEF halts
<1>5. /\ agent' \in Agents /\ agent'.pc = agent.pc /\ agent'.batch = agent.batch
      /\ agent'.due = agent.due /\ (agent.pc # "idle" => agent'.aborted)
      /\ turnQ' \in Seq(Humans \cup Messages) /\ stepQ' \subseteq Humans
      /\ fate' \in [Humans -> Fates] /\ Claims(agent', fate')
      /\ Outstanding' \subseteq Outstanding
  <2>1. CASE Cancels
    BY <2>1, ClearingKeepsClaims
  <2>2. CASE /\ agent.pc # "idle"
             /\ agent' = [agent EXCEPT !.aborted = TRUE]
             /\ UNCHANGED <<attempt, inbox, fate>>
    <3>1. /\ agent' \in Agents /\ agent'.pc = agent.pc /\ agent'.batch = agent.batch
          /\ agent'.due = agent.due /\ agent'.aborted
      BY <1>1, <2>2 DEF TypeOK, Agents
    <3>2. Claims(agent', fate')
      BY <2>2, <3>1 DEF RoundsIInv, ClaimsHeld, Claims
    <3> QED BY <1>1, <2>2, <3>1, <3>2 DEF TypeOK, Outstanding, inbox
  <2> QED BY <1>2, <2>1, <2>2
<1>6. SameAttempt(attempt, attempt') /\ StaysCancelled(attempt, attempt')
  BY <1>1, <1>2, AttemptChanges DEF TypeOK
<1>7. TypeOK'
  BY <1>1, <1>2, <1>3, <1>4, <1>5, <1>6 DEF TypeOK, SameAttempt
<1>8. Served(driver', agent'.due)
  BY <1>2, <1>5 DEF RoundsIInv, RequestsServed
<1>9. HaltHolds'
  BY <1>1, <1>2, <1>4, <1>5, <1>6 DEF RoundsIInv, HaltHolds, StaysCancelled, Armed, TypeOK, Agents
<1>10. AcceptedIsNext'
  BY <1>2, <1>5 DEF RoundsIInv, AcceptedIsNext, Armed
<1>11. GoalMoves(goal, goal')
  BY <1>2, GoalStays
<1> QED BY <1>2, <1>5, <1>6, <1>7, <1>8, <1>9, <1>10, <1>11, PartsKept

\* Maintenance takes an idle agent, and leaves it idle or, when a wake came, in a step.
LEMMA MaintenanceKeeps ==
    ASSUME RoundsIInv, MaintenanceBegins \/ MaintenanceEnds
    PROVE  RoundsIInv'
<1>1. TypeOK
  BY DEF RoundsIInv
<1>2. /\ Quiet /\ agent.pc \in {"idle", "maintenance"}
      /\ \/ /\ \/ agent' = [agent EXCEPT !.pc = "maintenance", !.aborted = FALSE, !.latch = FALSE]
               \/ agent' = [agent EXCEPT !.pc = "idle"]
            /\ UNCHANGED <<attempt, inbox, fate>>
         \/ Proposes(agent, turnQ, stepQ, attempt, fate)
      /\ UNCHANGED <<goal, corrupt, driver, history, trouble>>
  BY Zenon DEF MaintenanceBegins, MaintenanceEnds
<1>3. SameAttempt(attempt, attempt) /\ Served(driver, agent.due)
  BY <1>1, AttemptChanges DEF TypeOK, RoundsIInv, RequestsServed
<1>4. /\ \A h \in Humans : fate[h] \notin {"claimed", "lost"}
      /\ ~(halted /\ Armed /\ ~corrupt)
      /\ OnTheWay({}, turnQ) \subseteq Outstanding
  BY <1>2, BetweenSteps
<1>5. CASE Proposes(agent, turnQ, stepQ, attempt, fate)
  <2>1. /\ agent \in Agents /\ turnQ \in Seq(Humans \cup Messages) /\ stepQ \in SUBSET Humans
        /\ fate \in [Humans -> Fates] /\ driver' \in Drivers
        /\ trouble' \in 0..MaxTrouble /\ UNCHANGED <<goal, corrupt, history>>
        /\ Served(driver', agent.due)
    BY <1>1, <1>2, <1>3 DEF TypeOK
  <2> QED BY <1>3, <1>4, <1>5, <2>1, ProposalKeeps
<1>6. CASE /\ \/ agent' = [agent EXCEPT !.pc = "maintenance", !.aborted = FALSE, !.latch = FALSE]
              \/ agent' = [agent EXCEPT !.pc = "idle"]
           /\ UNCHANGED <<attempt, inbox, fate>>
  <2>1. agent' \in Agents /\ agent'.pc \in {"idle", "maintenance"} /\ agent'.batch = agent.batch
        /\ agent'.due = agent.due
    BY <1>1, <1>6 DEF TypeOK, Agents
  <2>2. TypeOK'
    BY <1>1, <1>2, <1>6, <2>1 DEF TypeOK, history, inbox
  <2>3. Claims(agent', fate')
    BY <1>4, <1>6, <2>1 DEF RoundsIInv, ClaimsHeld, Claims
  <2>4. Outstanding' \subseteq Outstanding
    BY <1>6, <2>1 DEF Outstanding, inbox
  <2>5. GoalMoves(goal, goal')
    BY <1>2, GoalStays
  <2>6. HaltHolds' /\ AcceptedIsNext'
    BY <1>2, <1>4, <2>1 DEF HaltHolds, AcceptedIsNext, Armed, history
  <2>7. SameAttempt(attempt, attempt') /\ Served(driver', agent'.due) /\ corrupt' = corrupt
    BY <1>2, <1>3, <1>6, <2>1
  <2> QED BY <2>1, <2>2, <2>3, <2>4, <2>5, <2>6, <2>7, PartsKept
<1> QED BY <1>2, <1>5, <1>6

\* What people and tools may make of the goal is a new revision.
LEMMA OperationsMove ==
    ASSUME RoundsIInv, NEW g \in Operations
    PROVE  GoalMoves(goal, g)
<1>1. goal \in Goals /\ (goal.armed => goal.phase = "active")
  BY DEF RoundsIInv, TypeOK, NumberInv, Numbers
<1>2. goal.rev + 1 \in Nat /\ goal.rev + 1 > goal.rev
  BY <1>1 DEF Goals
<1>3. \A phase \in {"none", "active", "paused", "blocked", "complete"}, armed \in BOOLEAN :
          /\ Revised(phase, armed) \in Goals
          /\ Revised(phase, armed).rev = goal.rev + 1
          /\ Revised(phase, armed).phase = phase /\ Revised(phase, armed).armed = armed
  BY <1>1, <1>2, Zenon DEF Revised, Goals
<1>4. ASSUME NEW phase \in {"none", "active", "paused", "blocked", "complete"},
             NEW armed \in BOOLEAN, armed => phase = "active",
             \/ g = Revised(phase, armed)
             \/ \E n \in 1..MaxRounds : g = [Revised(phase, armed) EXCEPT !.max = n]
             \/ \E n \in 1..MaxRounds : g = [Revised(phase, armed) EXCEPT !.rounds = 0, !.max = n]
      PROVE  GoalMoves(goal, g)
  <2> DEFINE r == Revised(phase, armed)
  <2>1. r \in Goals /\ r.rev = goal.rev + 1 /\ r.phase = phase /\ r.armed = armed
    BY <1>3
  <2>2. \/ g = r
        \/ \E n \in 1..MaxRounds : g = [r EXCEPT !.max = n]
        \/ \E n \in 1..MaxRounds : g = [r EXCEPT !.rounds = 0, !.max = n]
    BY <1>4
  <2> HIDE DEF r
  <2>3. g \in Goals /\ g.rev = r.rev /\ g.phase = r.phase /\ g.armed = r.armed
    <3>1. CASE g = r
      BY <2>1, <3>1
    <3>2. ASSUME NEW n \in 1..MaxRounds, g = [r EXCEPT !.max = n]
          PROVE  g \in Goals /\ g.rev = r.rev /\ g.phase = r.phase /\ g.armed = r.armed
      BY <2>1, <3>2, Zenon DEF Goals
    <3>3. ASSUME NEW n \in 1..MaxRounds, g = [r EXCEPT !.rounds = 0, !.max = n]
          PROVE  g \in Goals /\ g.rev = r.rev /\ g.phase = r.phase /\ g.armed = r.armed
      <4>1. 0 \in Nat
        OBVIOUS
      <4> QED BY <2>1, <3>3, <4>1, Zenon DEF Goals
    <3> QED BY <2>2, <3>1, <3>2, <3>3
  <2> QED BY <1>2, <1>4, <2>1, <2>3 DEF GoalMoves
<1>5. PICK phase \in {"none", "active", "paused", "blocked", "complete"}, armed \in BOOLEAN :
          /\ armed => phase = "active"
          /\ \/ g = Revised(phase, armed)
             \/ \E n \in 1..MaxRounds : g = [Revised(phase, armed) EXCEPT !.max = n]
             \/ \E n \in 1..MaxRounds : g = [Revised(phase, armed) EXCEPT !.rounds = 0, !.max = n]
  <2>1. goal.phase \in {"none", "active", "paused", "blocked", "complete"} /\ goal.armed \in BOOLEAN
    BY <1>1 DEF Goals
  <2>2. \/ \E n \in 1..MaxRounds : g = [Revised("active", TRUE) EXCEPT !.rounds = 0, !.max = n]
        \/ \E n \in 1..MaxRounds : g = [Revised(goal.phase, goal.armed) EXCEPT !.max = n]
        \/ g \in {Revised("paused", FALSE), Revised("blocked", FALSE), Revised("complete", FALSE),
                   Revised("active", TRUE), Revised("none", FALSE)}
    <3>1. PICK S : /\ g \in S
                   /\ \/ S = {[Revised("active", TRUE) EXCEPT !.rounds = 0, !.max = n] : n \in 1..MaxRounds}
                      \/ S = {[Revised(goal.phase, goal.armed) EXCEPT !.max = n] : n \in 1..MaxRounds}
                      \/ S \in {{Revised("paused", FALSE), Revised("blocked", FALSE)},
                               {Revised("complete", FALSE)}, {Revised("active", TRUE)},
                               {Revised("none", FALSE)}, {}}
      BY Zenon DEF Operations
    <3> QED BY <3>1, Zenon
  <2> QED BY <1>1, <2>1, <2>2, Zenon
<1> QED BY <1>4, <1>5

\* A mutation of the goal.
LEMMA MutateKeeps ==
    ASSUME RoundsIInv, Mutate
    PROVE  RoundsIInv'
<1> DEFINE granted == goal'.armed /\ ~goal.armed
<1>1. TypeOK
  BY DEF RoundsIInv
<1>2. /\ goal' \in Operations
      /\ driver' = Changed(driver)
      /\ halted' = (halted /\ ~granted)
      /\ overtaken' = TRUE
      /\ UNCHANGED <<corrupt, attempt, agent, inbox, fate, trouble>>
  BY Zenon DEF Mutate
<1>3. GoalMoves(goal, goal')
  BY <1>2, OperationsMove
<1>4. driver' \in Drivers /\ Served(driver', agent.due)
  BY <1>1, <1>2, ChangeIsServed DEF RoundsIInv, RequestsServed, TypeOK
<1>5. halted' \in BOOLEAN /\ (halted' => halted /\ (goal'.armed => goal.armed))
  BY <1>1, <1>2 DEF TypeOK
<1> HIDE DEF granted
<1>6. TypeOK'
  BY <1>1, <1>2, <1>3, <1>4, <1>5 DEF TypeOK, GoalMoves, inbox
<1>7. HaltHolds'
  BY <1>2, <1>5 DEF RoundsIInv, HaltHolds, Armed, NumberInv, Numbers
<1>8. AcceptedIsNext'
  BY <1>2 DEF AcceptedIsNext
<1>9. SameAttempt(attempt, attempt') /\ Served(driver', agent'.due) /\ Claims(agent', fate')
  BY <1>1, <1>2, <1>4, AttemptChanges DEF TypeOK, RoundsIInv, ClaimsHeld
<1>10. Outstanding' \subseteq Outstanding /\ corrupt' = corrupt
  BY <1>2 DEF Outstanding, inbox
<1> QED BY <1>3, <1>6, <1>7, <1>8, <1>9, <1>10, PartsKept

-----------------------------------------------------------------------------
(* The hooks before a step. *)

\* What the driver rejects goes back to the inbox, except the round.
LEMMA RejectionKeeps ==
    ASSUME RoundsIInv, agent.pc \in {"proposed", "checked"},
           NEW a, SameAttempt(attempt, a), DriverRejects(a),
           UNCHANGED <<goal, corrupt, turnQ, halted, trouble, overtaken>>
    PROVE  RoundsIInv'
<1>1. TypeOK
  BY DEF RoundsIInv
<1>2. /\ attempt' = a
      /\ stepQ' = stepQ \cup (agent.batch \cap Humans)
      /\ fate' = [h \in Humans |-> IF h \in agent.batch THEN "queued" ELSE fate[h]]
      /\ driver' = Requested(driver)
      /\ agent' = [agent EXCEPT !.pc = "rejected"]
  BY DEF DriverRejects
<1>3. /\ agent' \in Agents /\ agent'.pc = "rejected" /\ agent'.batch = agent.batch
      /\ agent'.aborted = agent.aborted /\ agent'.due = agent.due
  BY <1>1, <1>2 DEF TypeOK, Agents
<1>4. driver' \in Drivers /\ Served(driver', agent'.due)
  BY <1>1, <1>2, <1>3, RequestIsServed DEF RoundsIInv, RequestsServed, TypeOK
<1>5. fate' \in [Humans -> Fates]
      /\ \A h \in Humans : fate'[h] = IF h \in agent.batch THEN "queued" ELSE fate[h]
  BY <1>1, <1>2 DEF TypeOK, Fates
<1>6. Claims(agent', fate')
  BY <1>3, <1>5 DEF RoundsIInv, ClaimsHeld, Claims
<1>7. TypeOK'
  BY <1>1, <1>2, <1>3, <1>4, <1>5 DEF TypeOK, SameAttempt
<1>8. HaltHolds'
  BY <1>3 DEF RoundsIInv, HaltHolds, Armed
<1>9. AcceptedIsNext'
  BY <1>3 DEF AcceptedIsNext
<1>10. Outstanding' \subseteq Outstanding
  BY <1>3 DEF Outstanding
<1>11. GoalMoves(goal, goal')
  BY GoalStays
<1> QED BY <1>2, <1>4, <1>6, <1>7, <1>8, <1>9, <1>10, <1>11, PartsKept

\* What the driver lets pass.
LEMMA PassingKeeps ==
    ASSUME RoundsIInv, agent.pc \in {"proposed", "checked"}, NEW pc \in {"checked", "accepted"},
           agent' = [agent EXCEPT !.pc = pc], overtaken' \in BOOLEAN,
           UNCHANGED <<goal, corrupt, turnQ, halted, trouble, attempt, driver, stepQ, fate>>,
           pc = "accepted" => \A m \in Rounds(agent.batch) :
               Armed /\ m.rev = goal.rev /\ m.round = goal.rounds + 1
    PROVE  RoundsIInv'
<1>1. TypeOK
  BY DEF RoundsIInv
<1>2. /\ agent' \in Agents /\ agent'.pc = pc /\ agent'.batch = agent.batch
      /\ agent'.aborted = agent.aborted /\ agent'.due = agent.due
  BY <1>1 DEF TypeOK, Agents
<1>3. TypeOK'
  BY <1>1, <1>2 DEF TypeOK
<1>4. Claims(agent', fate') /\ Served(driver', agent'.due) /\ SameAttempt(attempt, attempt')
  BY <1>1, <1>2, AttemptChanges DEF TypeOK, RoundsIInv, ClaimsHeld, Claims, RequestsServed
<1>5. HaltHolds'
  BY <1>2 DEF RoundsIInv, HaltHolds, Armed
<1>6. AcceptedIsNext'
  BY <1>2 DEF AcceptedIsNext, Armed
<1>7. Outstanding' \subseteq Outstanding
  BY <1>2 DEF Outstanding
<1>8. GoalMoves(goal, goal')
  BY GoalStays
<1> QED BY <1>3, <1>4, <1>5, <1>6, <1>7, <1>8, PartsKept

\* The driver looks at the proposal before the hooks it calls, and after them.
LEMMA ChecksKeep ==
    ASSUME RoundsIInv, DriverChecks \/ DriverRechecks
    PROVE  RoundsIInv'
<1>1. TypeOK /\ SameAttempt(attempt, attempt) /\ SameAttempt(attempt, NoAttempt)
  BY AttemptChanges DEF RoundsIInv, TypeOK, SameAttempt
<1>2. CASE DriverChecks
  <2>1. /\ agent.pc = "proposed"
        /\ UNCHANGED <<goal, corrupt, turnQ, halted, trouble, overtaken>>
        /\ \/ /\ Rounds(agent.batch) = {}
              /\ agent' = [agent EXCEPT !.pc = "accepted"]
              /\ UNCHANGED <<attempt, driver, stepQ, fate>>
           \/ /\ agent' = [agent EXCEPT !.pc = "checked"]
              /\ UNCHANGED <<attempt, driver, stepQ, fate>>
           \/ \E m \in Rounds(agent.batch) :
                 DriverRejects(IF SameQueued(m, attempt) THEN NoAttempt ELSE attempt)
    BY <1>2, Zenon DEF DriverChecks
  <2>2. overtaken' \in BOOLEAN
    BY <1>1, <2>1 DEF TypeOK
  <2>3. CASE /\ Rounds(agent.batch) = {}
             /\ agent' = [agent EXCEPT !.pc = "accepted"]
             /\ UNCHANGED <<attempt, driver, stepQ, fate>>
    BY <2>1, <2>2, <2>3, PassingKeeps
  <2>4. CASE /\ agent' = [agent EXCEPT !.pc = "checked"]
             /\ UNCHANGED <<attempt, driver, stepQ, fate>>
    BY <2>1, <2>2, <2>4, PassingKeeps
  <2>5. ASSUME NEW m \in Rounds(agent.batch),
               DriverRejects(IF SameQueued(m, attempt) THEN NoAttempt ELSE attempt)
        PROVE  RoundsIInv'
    <3>1. SameAttempt(attempt, IF SameQueued(m, attempt) THEN NoAttempt ELSE attempt)
      BY <1>1
    <3> QED BY <2>1, <2>5, <3>1, RejectionKeeps
  <2> QED BY <2>1, <2>3, <2>4, <2>5
<1>3. CASE DriverRechecks
  <2>1. /\ agent.pc = "checked"
        /\ UNCHANGED <<goal, corrupt, turnQ, halted, trouble>>
    BY <1>3 DEF DriverRechecks
  <2>2. PICK m \in Rounds(agent.batch) :
          IF ValidReservation(m)
          THEN /\ agent' = [agent EXCEPT !.pc = "accepted"]
               /\ overtaken' = FALSE
               /\ UNCHANGED <<attempt, driver, stepQ, fate>>
          ELSE DriverRejects(NoAttempt) /\ UNCHANGED overtaken
    BY <1>3, Zenon DEF DriverRechecks
  <2>3. CASE ValidReservation(m)
    <3>1. Armed /\ m.rev = goal.rev /\ m.round = goal.rounds + 1
      BY <2>3 DEF ValidReservation
    <3>2. \A n \in Rounds(agent.batch) : n = m
      BY <2>2 DEF RoundsIInv, ClaimsHeld, Claims
    <3> QED BY <2>1, <2>2, <2>3, <3>1, <3>2, PassingKeeps
  <2>4. CASE ~ValidReservation(m)
    BY <1>1, <2>1, <2>2, <2>4, RejectionKeeps
  <2> QED BY <2>3, <2>4
<1> QED BY <1>2, <1>3

\* The end of a turn takes authority away, or marks the round as cancelled.
LEMMA TurnEndMarks ==
    ASSUME RoundsIInv, NEW a \in {NoAttempt} \cup Attempts, NEW reason, TurnEnds(reason, a, goal)
    PROVE  /\ SameAttempt(a, attempt') /\ GoalMoves(goal, goal') /\ (goal'.armed => goal' = goal)
           /\ reason = "aborted" /\ goal'.armed /\ ~corrupt => attempt' # NoAttempt /\ attempt'.cancelled
<1> DEFINE ours == a # NoAttempt /\ a.phase \in {"claimed", "admitted"}
<1>1. goal \in Goals /\ (goal.armed => goal.phase = "active")
  BY DEF RoundsIInv, TypeOK, NumberInv, Numbers
<1>2. /\ goal' \in {goal, Disarmed(goal)}
      /\ attempt' = a \/ (ours /\ attempt' = [a EXCEPT !.cancelled = TRUE])
      /\ reason = "aborted" => \/ ours /\ attempt' = [a EXCEPT !.cancelled = TRUE]
                              \/ goal' = Disarmed(goal)
  <2>1. CASE reason = "aborted"
    BY <2>1, Zenon DEF TurnEnds
  <2>2. CASE reason \in {"error", "max-tokens"}
    BY <2>2, Zenon DEF TurnEnds
  <2>3. CASE reason \notin {"aborted", "error", "max-tokens"}
    BY <2>3, Zenon DEF TurnEnds
  <2> QED BY <2>1, <2>2, <2>3
<1>3. GoalMoves(goal, goal') /\ (goal'.armed => goal' = goal)
  BY <1>1, <1>2, GoalChanges
<1>4. SameAttempt(a, attempt')
  BY <1>2, AttemptChanges
<1>5. ~corrupt => ~Disarmed(goal).armed
  BY <1>1 DEF Disarmed, Goals
<1>6. ours /\ attempt' = [a EXCEPT !.cancelled = TRUE] => attempt' # NoAttempt /\ attempt'.cancelled
  BY MarksLeaveRound, GoalRoundsAssumption
<1> HIDE DEF ours
<1> QED BY <1>2, <1>3, <1>4, <1>5, <1>6

\* A proposal that is over without a step.
LEMMA LeavingKeeps ==
    ASSUME RoundsIInv, agent.pc \in {"proposed", "checked", "accepted", "rejected"},
           NEW a, SameAttempt(attempt, a), NEW reason, NEW by \in {"dropped", "lost"},
           by = "lost" => agent.pc = "rejected", Leaves(reason, a, goal, by),
           driver' \in Drivers, Served(driver', agent.due), trouble' \in 0..MaxTrouble,
           UNCHANGED <<corrupt, inbox, history>>
    PROVE  RoundsIInv'
<1> DEFINE why == IF agent.aborted THEN "aborted" ELSE reason
<1>1. TypeOK /\ a \in {NoAttempt} \cup Attempts
  BY DEF RoundsIInv, SameAttempt
<1>2. /\ TurnEnds(why, a, goal)
      /\ agent' = [agent EXCEPT !.pc = "retiring", !.batch = {}]
      /\ fate' = [h \in Humans |-> IF fate[h] = "claimed" THEN by ELSE fate[h]]
  BY Zenon DEF Leaves, Unentered
<1>3. agent.aborted => why = "aborted"
  OBVIOUS
<1> HIDE DEF why
<1>4. /\ SameAttempt(a, attempt') /\ GoalMoves(goal, goal') /\ (goal'.armed => goal' = goal)
      /\ why = "aborted" /\ goal'.armed /\ ~corrupt => attempt' # NoAttempt /\ attempt'.cancelled
  BY <1>1, <1>2, TurnEndMarks
<1>5. agent' \in Agents /\ agent'.pc = "retiring" /\ agent'.batch = {} /\ agent'.due = agent.due
  BY <1>1, <1>2 DEF TypeOK, Agents
<1>6. fate' \in [Humans -> Fates]
      /\ \A h \in Humans : fate'[h] = IF fate[h] = "claimed" THEN by ELSE fate[h]
  BY <1>1, <1>2 DEF TypeOK, Fates
<1>7. Claims(agent', fate')
  <2>1. \A h \in Humans : fate[h] = "claimed" => by # "lost"
    BY DEF RoundsIInv, ClaimsHeld, Claims
  <2>2. Rounds(agent'.batch) = {}
    BY <1>5 DEF Rounds
  <2> QED BY <1>6, <2>1, <2>2 DEF RoundsIInv, ClaimsHeld, Claims
<1>8. SameAttempt(attempt, attempt')
  BY <1>4 DEF SameAttempt
<1>9. TypeOK'
  BY <1>1, <1>4, <1>5, <1>6, <1>8 DEF TypeOK, SameAttempt, GoalMoves, inbox, history
<1>10. HaltHolds'
  BY <1>3, <1>4, <1>5 DEF RoundsIInv, HaltHolds, Armed, history
<1>11. AcceptedIsNext'
  BY <1>5 DEF AcceptedIsNext
<1>12. Outstanding' \subseteq Outstanding
  BY <1>5 DEF Outstanding, OnTheWay, Rounds, inbox
<1> QED BY <1>4, <1>5, <1>7, <1>8, <1>9, <1>10, <1>11, <1>12, PartsKept

\* The hooks that the driver's listener called throw, reject or are overtaken.
LEMMA RefusalKeeps ==
    ASSUME RoundsIInv, HooksRefuse
    PROVE  RoundsIInv'
<1>1. TypeOK /\ SameAttempt(attempt, attempt) /\ SameAttempt(attempt, NoAttempt)
  BY AttemptChanges DEF RoundsIInv, TypeOK, SameAttempt
<1>2. agent.pc = "checked" /\ UNCHANGED <<corrupt, turnQ, halted, overtaken>>
  BY DEF HooksRefuse
<1>3. driver \in Drivers /\ Served(driver, agent.due) /\ trouble \in 0..MaxTrouble
  BY <1>1 DEF RoundsIInv, RequestsServed, TypeOK
<1>4. Fails => trouble' \in 0..MaxTrouble
  BY <1>3, GoalRoundsAssumption DEF Fails
<1>5. CASE /\ Fails
           /\ driver' = Requested(driver)
           /\ Leaves("error", NoAttempt, goal, "dropped")
           /\ UNCHANGED stepQ
  <2>1. driver' \in Drivers /\ Served(driver', agent.due)
    BY <1>3, <1>5, RequestIsServed
  <2>2. UNCHANGED <<corrupt, inbox, history>>
    BY <1>2, <1>5 DEF inbox, history
  <2> QED BY <1>1, <1>2, <1>4, <1>5, <2>1, <2>2, LeavingKeeps
<1>6. CASE /\ ~agent.aborted /\ Fails
           /\ attempt' = NoAttempt
           /\ agent' = [agent EXCEPT !.pc = "rejected"]
           /\ fate' = Unentered("dropped")
           /\ (goal' = Revised("blocked", FALSE) /\ driver' = Changed(driver)) \/ UNCHANGED <<goal, driver>>
           /\ UNCHANGED stepQ
  <2>1. (goal' = Revised("blocked", FALSE) /\ driver' = Changed(driver)) \/ UNCHANGED <<goal, driver>>
    BY <1>6
  <2>2. /\ agent' \in Agents /\ agent'.pc = "rejected" /\ agent'.batch = agent.batch
        /\ agent'.due = agent.due
    BY <1>1, <1>6 DEF TypeOK, Agents
  <2>3. driver' \in Drivers /\ Served(driver', agent'.due)
    BY <1>3, <2>1, <2>2, ChangeIsServed
  <2>4. goal \in Goals /\ (goal.armed => goal.phase = "active")
    BY DEF RoundsIInv, TypeOK, NumberInv, Numbers
  <2>5. goal' \in {goal, Disarmed(goal)}
        \/ \E phase \in {"none", "paused", "blocked", "complete"} : goal' = Revised(phase, FALSE)
    BY <2>1
  <2>6. GoalMoves(goal, goal') /\ (goal'.armed => goal' = goal)
    BY <2>4, <2>5, GoalChanges
  <2>7. fate' \in [Humans -> Fates]
        /\ \A h \in Humans : fate'[h] = IF fate[h] = "claimed" THEN "dropped" ELSE fate[h]
    BY <1>1, <1>6 DEF TypeOK, Fates, Unentered
  <2>8. Claims(agent', fate')
    BY <2>2, <2>7 DEF RoundsIInv, ClaimsHeld, Claims
  <2>9. TypeOK'
    BY <1>1, <1>2, <1>4, <1>6, <2>2, <2>3, <2>6, <2>7 DEF TypeOK, GoalMoves
  <2>10. HaltHolds' /\ AcceptedIsNext'
    BY <1>2, <1>6, <2>2, <2>6 DEF RoundsIInv, HaltHolds, AcceptedIsNext, Armed
  <2>11. Outstanding' \subseteq Outstanding
    BY <1>2, <2>2 DEF Outstanding
  <2> QED BY <1>1, <1>2, <1>6, <2>3, <2>6, <2>8, <2>9, <2>10, <2>11, PartsKept
<1>7. CASE /\ agent.aborted
           /\ \/ /\ stepQ' = stepQ \cup (agent.batch \cap Humans)
                 /\ fate' = [h \in Humans |-> IF h \in agent.batch THEN "queued" ELSE fate[h]]
              \/ UNCHANGED <<stepQ, fate>>
           /\ agent' = [agent EXCEPT !.pc = "accepted"]
           /\ UNCHANGED <<goal, attempt, driver, trouble>>
  <2>1. /\ agent' \in Agents /\ agent'.pc = "accepted" /\ agent'.batch = agent.batch
        /\ agent'.due = agent.due /\ agent'.aborted
    BY <1>1, <1>7 DEF TypeOK, Agents
  <2>2. /\ fate' \in [Humans -> Fates] /\ stepQ' \subseteq Humans
        /\ \A h \in Humans : fate'[h] \in {"queued", fate[h]}
    BY <1>1, <1>7 DEF TypeOK, Fates
  <2>3. Claims(agent', fate')
    BY <2>1, <2>2 DEF RoundsIInv, ClaimsHeld, Claims
  <2>4. TypeOK'
    BY <1>1, <1>2, <1>7, <2>1, <2>2 DEF TypeOK
  <2>5. HaltHolds' /\ AcceptedIsNext'
    BY <2>1 DEF HaltHolds, AcceptedIsNext
  <2>6. Outstanding' \subseteq Outstanding
    BY <1>2, <2>1 DEF Outstanding
  <2>7. Served(driver', agent'.due) /\ GoalMoves(goal, goal')
    BY <1>3, <1>7, <2>1, GoalStays
  <2> QED BY <1>1, <1>2, <1>7, <2>3, <2>4, <2>5, <2>6, <2>7, PartsKept
<1>8. CASE /\ Fails
           /\ Leaves("error", NoAttempt, goal, "dropped")
           /\ UNCHANGED <<driver, stepQ>>
  <2>1. driver' \in Drivers /\ Served(driver', agent.due)
    BY <1>3, <1>8
  <2>2. UNCHANGED <<corrupt, inbox, history>>
    BY <1>2, <1>8 DEF inbox, history
  <2> QED BY <1>1, <1>2, <1>4, <1>8, <2>1, <2>2, LeavingKeeps
<1> QED BY <1>2, <1>5, <1>6, <1>7, <1>8, Zenon DEF HooksRefuse

\* A turn that leaves without a step.
LEMMA TurnLeavesKeeps ==
    ASSUME RoundsIInv, TurnLeaves
    PROVE  RoundsIInv'
<1>1. TypeOK /\ SameAttempt(attempt, attempt)
  BY AttemptChanges DEF RoundsIInv, TypeOK
<1>2. UNCHANGED <<corrupt, driver, inbox, history>>
  BY DEF TurnLeaves
<1>3. driver' \in Drivers /\ Served(driver', agent.due) /\ trouble \in 0..MaxTrouble
  BY <1>1, <1>2 DEF RoundsIInv, RequestsServed, TypeOK
<1>4. PICK reason \in {"error", "blocked", "aborted", "completed"}, by \in {"dropped", "lost"} :
          /\ agent.pc \in {"proposed", "accepted", "rejected"} /\ (by = "lost" => agent.pc = "rejected")
          /\ Leaves(reason, attempt, goal, by)
          /\ Fails \/ UNCHANGED trouble
  BY Zenon DEF TurnLeaves
<1>5. trouble' \in 0..MaxTrouble
  BY <1>3, <1>4, GoalRoundsAssumption DEF Fails
<1> QED BY <1>1, <1>2, <1>3, <1>4, <1>5, LeavingKeeps

-----------------------------------------------------------------------------
(* The step, the end of its turn and the return to idle. *)

\* A round that enters is counted, as the round the driver reserved, or makes the log
\* one the fold refuses.
LEMMA EntryCounts ==
    ASSUME RoundsIInv, Enters
    PROVE  NumberInv'
<1> DEFINE rounds == Rounds(agent.batch)
<1>1. /\ goal \in Goals /\ attempt \in {NoAttempt} \cup Attempts /\ corrupt \in BOOLEAN
      /\ NumberInv
  BY DEF RoundsIInv, TypeOK
<1>2. /\ agent' = [agent EXCEPT !.pc = "stepping"]
      /\ goal' = IF ~corrupt /\ \E m \in rounds : Legal(m)
                 THEN [goal EXCEPT !.rounds = @ + 1] ELSE goal
      /\ corrupt' = (corrupt \/ \E m \in rounds : ~Legal(m))
      /\ attempt' = IF attempt # NoAttempt /\ \E m \in rounds : m.id = attempt.id
                    THEN [attempt EXCEPT !.phase = "admitted"] ELSE attempt
      /\ turnQ' = turnQ
  BY Zenon DEF Enters, inbox
<1>3. Outstanding' = Outstanding /\ rounds \subseteq Outstanding
      /\ \A m \in Outstanding : m \in Messages
  <2>1. agent'.batch = agent.batch
    BY <1>2 DEF RoundsIInv, TypeOK, Agents
  <2> QED BY <1>2, <2>1 DEF Outstanding, OnTheWay, Rounds, Round, RoundsIInv, TypeOK, Agents
<1>4. CASE rounds = {}
  BY <1>1, <1>2, <1>3, <1>4 DEF NumberInv, Numbers
<1>5. ASSUME NEW m \in rounds
      PROVE  NumberInv'
  <2>1. rounds = {m}
    BY <1>5 DEF RoundsIInv, ClaimsHeld, Claims
  <2>2. m \in Outstanding /\ m \in Messages
    BY <1>3, <1>5
  <2> DEFINE counted == [goal EXCEPT !.rounds = @ + 1]
             admitted == [attempt EXCEPT !.phase = "admitted"]
  <2>3. /\ goal' = IF ~corrupt /\ Legal(m) THEN counted ELSE goal
        /\ attempt' = IF attempt # NoAttempt /\ m.id = attempt.id THEN admitted ELSE attempt
        /\ ~corrupt' => ~corrupt /\ Legal(m)
    BY <1>2, <2>1
  <2>4. /\ counted.rev = goal.rev /\ counted.rounds = goal.rounds + 1 /\ counted.max = goal.max
        /\ counted.phase = goal.phase /\ counted.armed = goal.armed
    BY <1>1 DEF Goals
  <2>5. attempt # NoAttempt =>
          /\ admitted \in Attempts /\ admitted.id = attempt.id
          /\ admitted.rev = attempt.rev /\ admitted.round = attempt.round
    BY <1>1 DEF Attempts
  <2> HIDE DEF counted, admitted, rounds
  <2>6. goal'.rev = goal.rev /\ goal'.max = goal.max /\ goal'.phase = goal.phase
        /\ goal'.armed = goal.armed /\ goal'.rounds \in {goal.rounds, goal.rounds + 1}
        /\ (~corrupt' => goal'.rounds = goal.rounds + 1)
    BY <2>3, <2>4
  <2>7. /\ attempt' = NoAttempt <=> attempt = NoAttempt
        /\ attempt # NoAttempt =>
              /\ attempt' \in Attempts /\ attempt'.id = attempt.id
              /\ attempt'.rev = attempt.rev /\ attempt'.round = attempt.round
              /\ attempt' = attempt \/ m.id = attempt.id
    BY <1>1, <2>3, <2>5, GoalRoundsAssumption
  <2>8. Numbered(goal', Outstanding')
    BY <1>1, <1>3, <2>6 DEF NumberInv, Numbers, Numbered, Messages, Goals
  <2>9. Latest(goal', attempt', Outstanding')
    BY <1>1, <1>3, <2>6, <2>7 DEF NumberInv, Numbers, Latest
  <2>10. corrupt' \/ Counts(goal', attempt')
    <3> SUFFICES ASSUME ~corrupt', attempt' # NoAttempt, attempt'.phase = "admitted",
                        attempt'.rev = goal'.rev
                 PROVE  goal'.rounds = attempt'.round
      BY DEF Counts
    <3>1. ~corrupt /\ m.rev = goal.rev /\ m.round = goal.rounds + 1
      BY <2>3 DEF Legal
    <3>2. CASE m.id = attempt.id
      BY <1>1, <2>2, <2>6, <2>7, <3>1, <3>2 DEF NumberInv, Numbers, Latest
    <3>3. CASE m.id # attempt.id
      <4>1. attempt' = attempt /\ attempt \in Attempts
        BY <2>7, <3>3
      <4>2. goal.rounds = attempt.round /\ m.round <= attempt.round
        BY <1>1, <2>2, <2>6, <3>1, <4>1 DEF NumberInv, Numbers, Latest, Counts
      <4> QED BY <1>1, <3>1, <4>2 DEF Goals
    <3> QED BY <3>2, <3>3
  <2>11. goal'.armed => goal'.phase = "active"
    BY <1>1, <2>6 DEF NumberInv, Numbers
  <2> QED BY <2>8, <2>9, <2>10, <2>11 DEF NumberInv, Numbers
<1> QED BY <1>4, <1>5

\* The messages of the proposal enter the log.
LEMMA EntersKeeps ==
    ASSUME RoundsIInv, Enters
    PROVE  RoundsIInv'
<1>1. TypeOK
  BY DEF RoundsIInv
<1>2. /\ agent.pc = "accepted" /\ ~agent.aborted
      /\ agent' = [agent EXCEPT !.pc = "stepping"]
      /\ fate' = [h \in Humans |-> IF h \in agent.batch THEN "entered" ELSE fate[h]]
      /\ goal' \in {goal, [goal EXCEPT !.rounds = @ + 1]}
      /\ corrupt' \in BOOLEAN /\ (corrupt => corrupt')
      /\ attempt' = attempt \/ (attempt # NoAttempt /\ attempt' = [attempt EXCEPT !.phase = "admitted"])
      /\ UNCHANGED <<driver, inbox, history, trouble>>
  BY <1>1, Zenon DEF Enters, TypeOK
<1>3. /\ agent' \in Agents /\ agent'.pc = "stepping" /\ agent'.batch = agent.batch
      /\ agent'.due = agent.due
  BY <1>1, <1>2 DEF TypeOK, Agents
<1>4. goal' \in Goals /\ goal'.armed = goal.armed /\ goal'.phase = goal.phase
  <2>1. goal.rounds + 1 \in Nat
    BY <1>1 DEF TypeOK, Goals
  <2> QED BY <1>1, <1>2, <2>1 DEF TypeOK, Goals
<1>5. attempt' \in {NoAttempt} \cup Attempts
  BY <1>1, <1>2 DEF TypeOK, Attempts
<1>6. fate' \in [Humans -> Fates]
      /\ \A h \in Humans : fate'[h] = IF h \in agent.batch THEN "entered" ELSE fate[h]
  BY <1>1, <1>2 DEF TypeOK, Fates
<1>7. TypeOK'
  BY <1>1, <1>2, <1>3, <1>4, <1>5, <1>6 DEF TypeOK, inbox, history
<1>8. Served(driver', agent'.due) /\ Claims(agent', fate')
  BY <1>2, <1>3, <1>6 DEF RoundsIInv, RequestsServed, ClaimsHeld, Claims
<1>9. HaltHolds' /\ AcceptedIsNext'
  BY <1>2, <1>3, <1>4 DEF RoundsIInv, HaltHolds, AcceptedIsNext, Armed, history
<1> QED BY <1>7, <1>8, <1>9, EntryCounts DEF RoundsIInv, RequestsServed, ClaimsHeld

\* The step is over.
LEMMA StepEndsKeeps ==
    ASSUME RoundsIInv, StepEnds
    PROVE  RoundsIInv'
<1>1. TypeOK
  BY DEF RoundsIInv
<1>2. agent.pc = "stepping" /\ UNCHANGED <<corrupt, driver, history>>
  BY DEF StepEnds
<1>3. driver' \in Drivers /\ Served(driver', agent.due) /\ SameAttempt(attempt, attempt)
  BY <1>1, <1>2, AttemptChanges DEF RoundsIInv, RequestsServed, TypeOK
<1>4. CASE /\ ~agent.aborted
           /\ Proposes(agent, turnQ, stepQ, attempt, fate) /\ UNCHANGED <<goal, trouble>>
  <2>1. /\ \A h \in Humans : fate[h] \notin {"claimed", "lost"}
        /\ ~(halted /\ Armed /\ ~corrupt)
        /\ OnTheWay({}, turnQ) \subseteq Outstanding
    BY <1>2, <1>4, BetweenSteps
  <2>2. /\ agent \in Agents /\ turnQ \in Seq(Humans \cup Messages) /\ stepQ \in SUBSET Humans
        /\ fate \in [Humans -> Fates] /\ trouble' \in 0..MaxTrouble
        /\ UNCHANGED <<goal, corrupt, history>>
    BY <1>1, <1>2, <1>4 DEF TypeOK
  <2> QED BY <1>3, <1>4, <2>1, <2>2, ProposalKeeps
<1>5. ASSUME UNCHANGED <<inbox, fate>>, NEW reason, NEW pc \in {"between", "retiring"},
             reason = "aborted" <=> agent.aborted, pc = "between" => ~agent.aborted,
             Fails \/ UNCHANGED trouble,
             TurnEnds(reason, attempt, goal),
             agent' = [agent EXCEPT !.batch = {}, !.pc = pc]
      PROVE  RoundsIInv'
  <2>1. /\ SameAttempt(attempt, attempt') /\ GoalMoves(goal, goal') /\ (goal'.armed => goal' = goal)
        /\ reason = "aborted" /\ goal'.armed /\ ~corrupt => attempt' # NoAttempt /\ attempt'.cancelled
    BY <1>1, <1>5, TurnEndMarks DEF TypeOK
  <2>2. /\ agent' \in Agents /\ agent'.pc = pc /\ agent'.batch = {} /\ agent'.due = agent.due
        /\ agent'.aborted = agent.aborted
    BY <1>1, <1>5 DEF TypeOK, Agents
  <2>3. trouble' \in 0..MaxTrouble
    BY <1>1, <1>5, GoalRoundsAssumption DEF TypeOK, Fails
  <2>4. TypeOK'
    BY <1>1, <1>2, <1>3, <1>5, <2>1, <2>2, <2>3 DEF TypeOK, SameAttempt, GoalMoves, inbox, history
  <2>5. Claims(agent', fate')
    BY <1>2, <1>5, <2>2 DEF RoundsIInv, ClaimsHeld, Claims, Rounds
  <2>6. HaltHolds' /\ AcceptedIsNext'
    BY <1>2, <1>5, <2>1, <2>2 DEF RoundsIInv, HaltHolds, AcceptedIsNext, Armed, history
  <2>7. Outstanding' \subseteq Outstanding
    BY <1>5, <2>2 DEF Outstanding, OnTheWay, Rounds, inbox
  <2> QED BY <1>2, <1>3, <2>1, <2>2, <2>4, <2>5, <2>6, <2>7, PartsKept
<1>6. \/ /\ ~agent.aborted
         /\ Proposes(agent, turnQ, stepQ, attempt, fate) /\ UNCHANGED <<goal, trouble>>
      \/ /\ UNCHANGED <<inbox, fate>>
         /\ \E reason \in {"completed", "max-tokens", "error", "aborted"}, pc \in {"between", "retiring"} :
              /\ reason = "aborted" <=> agent.aborted
              /\ pc = "between" => reason \in {"completed", "max-tokens"}
              /\ Fails \/ UNCHANGED trouble
              /\ TurnEnds(reason, attempt, goal)
              /\ agent' = [agent EXCEPT !.batch = {}, !.pc = pc]
  <2>1. CASE ~agent.aborted /\ Proposes(agent, turnQ, stepQ, attempt, fate) /\ UNCHANGED <<goal, trouble>>
    BY <2>1
  <2>2. ASSUME UNCHANGED <<inbox, fate>>,
               NEW reason \in {"completed", "max-tokens", "error", "aborted"},
               reason = "aborted" <=> agent.aborted,
               Fails \/ UNCHANGED trouble,
               TurnEnds(reason, attempt, goal),
               agent' = [agent EXCEPT !.batch = {},
                    !.pc = IF reason \in {"completed", "max-tokens"} /\ Pending THEN "between" ELSE "retiring"]
        PROVE  \E pc \in {"between", "retiring"} :
                  /\ pc = "between" => reason \in {"completed", "max-tokens"}
                  /\ agent' = [agent EXCEPT !.batch = {}, !.pc = pc]
    BY <2>2
  <2> QED BY <2>1, <2>2, Zenon DEF StepEnds
<1> QED BY <1>4, <1>5, <1>6

\* The next prompt, or none after an abort.
LEMMA NextTurnKeeps ==
    ASSUME RoundsIInv, NextTurn
    PROVE  RoundsIInv'
<1>1. TypeOK
  BY DEF RoundsIInv
<1>2. /\ agent.pc = "between"
      /\ \/ agent' = [agent EXCEPT !.pc = "retiring"] /\ UNCHANGED <<attempt, inbox, fate>>
         \/ Proposes(agent, turnQ, stepQ, attempt, fate)
      /\ UNCHANGED <<goal, corrupt, driver, history, trouble>>
  BY Zenon DEF NextTurn
<1>3. driver' \in Drivers /\ Served(driver', agent.due) /\ SameAttempt(attempt, attempt)
  BY <1>1, <1>2, AttemptChanges DEF RoundsIInv, RequestsServed, TypeOK
<1>4. /\ \A h \in Humans : fate[h] \notin {"claimed", "lost"}
      /\ ~(halted /\ Armed /\ ~corrupt)
      /\ OnTheWay({}, turnQ) \subseteq Outstanding
  BY <1>2, BetweenSteps
<1>5. CASE Proposes(agent, turnQ, stepQ, attempt, fate)
  <2>1. /\ agent \in Agents /\ turnQ \in Seq(Humans \cup Messages) /\ stepQ \in SUBSET Humans
        /\ fate \in [Humans -> Fates] /\ trouble' \in 0..MaxTrouble
        /\ UNCHANGED <<goal, corrupt, history>>
    BY <1>1, <1>2 DEF TypeOK
  <2> QED BY <1>3, <1>4, <1>5, <2>1, ProposalKeeps
<1>6. CASE agent' = [agent EXCEPT !.pc = "retiring"] /\ UNCHANGED <<attempt, inbox, fate>>
  <2>1. /\ agent' \in Agents /\ agent'.pc = "retiring" /\ agent'.batch = agent.batch
        /\ agent'.due = agent.due
    BY <1>1, <1>6 DEF TypeOK, Agents
  <2>2. TypeOK'
    BY <1>1, <1>2, <1>6, <2>1 DEF TypeOK, inbox, history
  <2>3. Claims(agent', fate')
    BY <1>2, <1>6, <2>1 DEF RoundsIInv, ClaimsHeld, Claims
  <2>4. HaltHolds' /\ AcceptedIsNext'
    BY <1>2, <1>4, <2>1 DEF HaltHolds, AcceptedIsNext, Armed, history
  <2>5. Outstanding' \subseteq Outstanding
    BY <1>6, <2>1 DEF Outstanding, inbox
  <2>6. SameAttempt(attempt, attempt') /\ Served(driver', agent'.due) /\ corrupt' = corrupt
        /\ GoalMoves(goal, goal')
    BY <1>2, <1>3, <1>6, <2>1, GoalStays
  <2> QED BY <2>2, <2>3, <2>4, <2>5, <2>6, PartsKept
<1> QED BY <1>2, <1>5, <1>6

\* What is due besides a wake of the driver's own leaves its runs.
LEMMA DueLeavesRuns ==
    ASSUME NEW d, NEW due, due \notin {"sending", "sendingFirst"}, Served(d, due), NEW other
    PROVE  Served(d, other)
BY DEF Served

\* The agent is idle; a round that was cancelled or never ran pauses its goal.
LEMMA RetireKeeps ==
    ASSUME RoundsIInv, Retire
    PROVE  RoundsIInv'
<1> DEFINE unused == attempt # NoAttempt /\ (attempt.phase \in {"queued", "claimed"} \/ attempt.cancelled)
           calm == [driver EXCEPT !.competing = FALSE]
<1>1. TypeOK
  BY DEF RoundsIInv
<1>2. /\ agent.pc = "retiring" /\ agent.due = "none"
      /\ \E due \in {"wake", "none", "requestThenWake", "request"} :
            agent' = [agent EXCEPT !.pc = "idle", !.latch = FALSE, !.aborted = FALSE, !.due = due]
      /\ UNCHANGED <<corrupt, inbox, fate, history>>
      /\ \/ /\ unused /\ Armed /\ ~corrupt
            /\ attempt' = NoAttempt
            /\ \/ goal' = Revised("paused", FALSE) /\ driver' = Changed(calm) /\ UNCHANGED trouble
               \/ Fails /\ goal' = Disarmed(goal) /\ driver' = calm
         \/ /\ ~(unused /\ Armed /\ ~corrupt)
            /\ driver' = calm
            /\ UNCHANGED <<goal, attempt, trouble>>
  BY Zenon DEF Retire, Quiet
<1>3. /\ agent' \in Agents /\ agent'.pc = "idle" /\ agent'.batch = agent.batch
  BY <1>1, <1>2 DEF TypeOK, Agents
<1>4. calm \in Drivers /\ Served(calm, agent'.due)
  <2>1. Served(driver, agent'.due) /\ driver \in Drivers
    BY <1>1, <1>2, DueLeavesRuns DEF RoundsIInv, RequestsServed, TypeOK
  <2> QED BY <2>1, CompetitionIsServed
<1> HIDE DEF calm
<1>5. driver' \in Drivers /\ Served(driver', agent'.due)
  BY <1>2, <1>4, ChangeIsServed
<1>6. halted /\ Armed /\ ~corrupt => unused
  BY <1>2 DEF RoundsIInv, HaltHolds
<1>7. /\ GoalMoves(goal, goal') /\ (goal'.armed => goal' = goal)
      /\ (unused /\ Armed /\ ~corrupt => ~goal'.armed)
      /\ SameAttempt(attempt, attempt')
      /\ trouble' \in 0..MaxTrouble
  <2>1. goal \in Goals /\ (goal.armed => goal.phase = "active")
    BY DEF RoundsIInv, TypeOK, NumberInv, Numbers
  <2>2. SameAttempt(attempt, attempt) /\ SameAttempt(attempt, NoAttempt)
    BY <1>1, AttemptChanges DEF TypeOK, SameAttempt
  <2>3. trouble \in 0..MaxTrouble /\ (Fails => trouble' \in 0..MaxTrouble)
    BY <1>1, GoalRoundsAssumption DEF TypeOK, Fails
  <2> HIDE DEF unused
  <2>4. CASE unused /\ Armed /\ ~corrupt
    <3>1. goal' \in {goal, Disarmed(goal)}
          \/ \E phase \in {"none", "paused", "blocked", "complete"} : goal' = Revised(phase, FALSE)
      BY <1>2, <2>4
    <3>2. ~Disarmed(goal).armed /\ ~Revised("paused", FALSE).armed
      BY <2>1, <2>4 DEF Disarmed, Revised, Goals
    <3>3. GoalMoves(goal, goal') /\ (goal'.armed => goal' = goal)
      BY <2>1, <3>1, GoalChanges
    <3>4. ~goal'.armed /\ SameAttempt(attempt, attempt') /\ trouble' \in 0..MaxTrouble
      BY <1>2, <2>2, <2>3, <2>4, <3>2
    <3> QED BY <3>3, <3>4
  <2>5. CASE ~(unused /\ Armed /\ ~corrupt)
    BY <1>2, <2>2, <2>3, <2>5, GoalStays
  <2> QED BY <2>4, <2>5
<1>8. TypeOK'
  BY <1>1, <1>2, <1>3, <1>5, <1>7 DEF TypeOK, SameAttempt, GoalMoves, inbox, history
<1>9. Claims(agent', fate')
  BY <1>2, <1>3 DEF RoundsIInv, ClaimsHeld, Claims
<1> HIDE DEF unused
<1>10. HaltHolds' /\ AcceptedIsNext'
  BY <1>2, <1>3, <1>6, <1>7 DEF HaltHolds, AcceptedIsNext, Armed, history
<1>11. Outstanding' \subseteq Outstanding
  BY <1>2, <1>3 DEF Outstanding, inbox
<1> QED BY <1>2, <1>5, <1>7, <1>8, <1>9, <1>10, <1>11, PartsKept

\* A wake: the queue is served when the agent is idle, and nothing changes in a step.
LEMMA WakeKeeps ==
    ASSUME RoundsIInv, NEW ag \in Agents, ag.pc = agent.pc, ag.batch = agent.batch,
           ag.aborted = agent.aborted,
           \/ agent.pc = "idle" /\ Proposes(ag, turnQ, stepQ, attempt, fate)
           \/ /\ agent' = ag \/ \E latch \in BOOLEAN : agent' = [ag EXCEPT !.latch = latch]
              /\ UNCHANGED <<attempt, inbox, fate>>,
           driver' \in Drivers, Served(driver', ag.due),
           UNCHANGED <<goal, corrupt, history, trouble>>
    PROVE  RoundsIInv'
<1>1. TypeOK /\ SameAttempt(attempt, attempt)
  BY AttemptChanges DEF RoundsIInv, TypeOK
<1>2. CASE agent.pc = "idle" /\ Proposes(ag, turnQ, stepQ, attempt, fate)
  <2>1. /\ \A h \in Humans : fate[h] \notin {"claimed", "lost"}
        /\ ~(halted /\ Armed /\ ~corrupt)
        /\ OnTheWay({}, turnQ) \subseteq Outstanding
    BY <1>2, BetweenSteps
  <2>2. /\ turnQ \in Seq(Humans \cup Messages) /\ stepQ \in SUBSET Humans
        /\ fate \in [Humans -> Fates] /\ trouble' \in 0..MaxTrouble
        /\ UNCHANGED <<goal, corrupt, history>>
    BY <1>1 DEF TypeOK
  <2> QED BY <1>1, <1>2, <2>1, <2>2, ProposalKeeps
<1>3. CASE /\ agent' = ag \/ \E latch \in BOOLEAN : agent' = [ag EXCEPT !.latch = latch]
           /\ UNCHANGED <<attempt, inbox, fate>>
  <2>1. /\ agent' \in Agents /\ agent'.pc = agent.pc /\ agent'.batch = agent.batch
        /\ agent'.aborted = agent.aborted /\ agent'.due = ag.due
    BY <1>3, Zenon DEF Agents
  <2>2. TypeOK'
    BY <1>1, <1>3, <2>1 DEF TypeOK, inbox, history
  <2>3. Claims(agent', fate')
    BY <1>3, <2>1 DEF RoundsIInv, ClaimsHeld, Claims
  <2>4. HaltHolds' /\ AcceptedIsNext'
    BY <1>3, <2>1 DEF RoundsIInv, HaltHolds, AcceptedIsNext, Armed, history
  <2>5. Outstanding' \subseteq Outstanding
    BY <1>3, <2>1 DEF Outstanding, inbox
  <2>6. SameAttempt(attempt, attempt') /\ Served(driver', agent'.due) /\ GoalMoves(goal, goal')
    BY <1>1, <1>3, <2>1, GoalStays
  <2> QED BY <2>2, <2>3, <2>4, <2>5, <2>6, PartsKept
<1> QED BY <1>2, <1>3

\* The rest of the span in which the agent became idle.
LEMMA IdlesKeeps ==
    ASSUME RoundsIInv, Idles
    PROVE  RoundsIInv'
<1>1. TypeOK
  BY DEF RoundsIInv
<1>2. UNCHANGED <<goal, corrupt, history, trouble>>
  BY DEF Idles
<1>3. CASE /\ agent.due \in {"request", "requestThenWake"}
           /\ driver' = Requested(driver)
           /\ agent' = [agent EXCEPT !.due = IF @ = "request" THEN "none" ELSE "wake"]
           /\ UNCHANGED <<attempt, inbox, fate>>
  <2> DEFINE due == IF agent.due = "request" THEN "none" ELSE "wake"
             ag == [agent EXCEPT !.due = due]
  <2>1. agent' = ag /\ due \in {"none", "wake"}
    BY <1>3
  <2> HIDE DEF due
  <2>2. ag \in Agents /\ ag.pc = agent.pc /\ ag.batch = agent.batch /\ ag.aborted = agent.aborted
    BY <1>1, <2>1 DEF TypeOK, Agents
  <2>3. driver \in Drivers /\ Served(driver, ag.due)
    BY <1>1, <1>3, DueLeavesRuns DEF TypeOK, RoundsIInv, RequestsServed
  <2> HIDE DEF ag
  <2>4. driver' \in Drivers /\ Served(driver', ag.due)
    BY <1>3, <2>3, RequestIsServed
  <2> QED BY <1>2, <1>3, <2>1, <2>2, <2>4, WakeKeeps
<1>4. ASSUME agent.due = "wake", UNCHANGED driver, NEW ag, ag = [agent EXCEPT !.due = "none"],
             IF Pending /\ agent.pc = "idle" THEN Proposes(ag, turnQ, stepQ, attempt, fate)
             ELSE agent' = ag /\ UNCHANGED <<attempt, inbox, fate>>
      PROVE  RoundsIInv'
  <2>1. ag \in Agents /\ ag.pc = agent.pc /\ ag.batch = agent.batch /\ ag.aborted = agent.aborted
    BY <1>1, <1>4 DEF TypeOK, Agents
  <2>2. driver' \in Drivers /\ Served(driver', ag.due)
    BY <1>1, <1>4, DueLeavesRuns DEF TypeOK, RoundsIInv, RequestsServed
  <2> QED BY <1>2, <1>4, <2>1, <2>2, WakeKeeps
<1> QED BY <1>3, <1>4, Zenon DEF Idles

\* The wake that follows a queued round.
LEMMA SendsKeeps ==
    ASSUME RoundsIInv, Sends
    PROVE  RoundsIInv'
<1> DEFINE ag == [agent EXCEPT !.due = "none"]
           first == agent.due = "sendingFirst"
           latch == ag.latch \/ agent.pc = "maintenance"
<1>1. TypeOK
  BY DEF RoundsIInv
<1>2. /\ driver' = Looping(driver, first)
      /\ IF agent.pc = "idle" THEN Proposes(ag, turnQ, stepQ, attempt, fate)
         ELSE /\ agent' = [ag EXCEPT !.latch = latch]
              /\ UNCHANGED <<attempt, inbox, fate>>
      /\ UNCHANGED <<goal, corrupt, history, trouble>>
  BY Zenon DEF Sends
<1>3. ag \in Agents /\ ag.pc = agent.pc /\ ag.batch = agent.batch /\ ag.aborted = agent.aborted
  BY <1>1 DEF TypeOK, Agents
<1>4. first \in BOOLEAN /\ latch \in BOOLEAN
  OBVIOUS
<1> HIDE DEF first, latch, ag
<1>5. driver' \in Drivers /\ Served(driver', ag.due)
  BY <1>1, <1>2, <1>4, LoopServes DEF TypeOK
<1> QED BY <1>2, <1>3, <1>4, <1>5, WakeKeeps

\* The plugin is unloaded.
LEMMA UnloadKeeps ==
    ASSUME RoundsIInv, Unload
    PROVE  RoundsIInv'
<1>1. TypeOK
  BY DEF RoundsIInv
<1>2. /\ driver' = [driver EXCEPT !.stopping = TRUE]
      /\ goal' = Disarmed(goal)
      /\ overtaken' = TRUE
      /\ \/ /\ attempt # NoAttempt /\ Running
            /\ Cancels /\ attempt' = [Cleared(attempt) EXCEPT !.stale = TRUE]
         \/ /\ attempt' = attempt \/ (attempt # NoAttempt /\ attempt' = [attempt EXCEPT !.stale = TRUE])
            /\ UNCHANGED <<agent, inbox, fate>>
      /\ UNCHANGED <<corrupt, halted, trouble>>
  BY Zenon DEF Unload
<1>3. driver' \in Drivers /\ driver'.stopping
  BY <1>1, <1>2 DEF TypeOK, Drivers
<1>4. SameAttempt(attempt, attempt') /\ StaysCancelled(attempt, attempt')
  BY <1>1, <1>2, AttemptChanges DEF TypeOK
<1>5. GoalMoves(goal, goal') /\ (goal'.armed => goal' = goal)
  <2>1. goal \in Goals /\ (goal.armed => goal.phase = "active")
    BY DEF RoundsIInv, TypeOK, NumberInv, Numbers
  <2> QED BY <1>2, <2>1, GoalChanges
<1>6. /\ agent' \in Agents /\ agent'.pc = agent.pc /\ agent'.batch = agent.batch
      /\ agent'.due = agent.due /\ (agent.aborted => agent'.aborted)
      /\ turnQ' \in Seq(Humans \cup Messages) /\ stepQ' \subseteq Humans
      /\ fate' \in [Humans -> Fates] /\ Claims(agent', fate')
      /\ Outstanding' \subseteq Outstanding
  <2>1. CASE Running /\ Cancels
    BY <2>1, ClearingKeepsClaims DEF Running
  <2>2. CASE UNCHANGED <<agent, inbox, fate>>
    BY <1>1, <2>2 DEF TypeOK, RoundsIInv, ClaimsHeld, Claims, Outstanding, inbox
  <2> QED BY <1>2, <2>1, <2>2
<1>7. TypeOK'
  BY <1>1, <1>2, <1>3, <1>4, <1>5, <1>6 DEF TypeOK, SameAttempt, GoalMoves
<1>8. Served(driver', agent'.due)
  BY <1>3 DEF Served
<1>9. HaltHolds'
  BY <1>2, <1>4, <1>5, <1>6 DEF RoundsIInv, HaltHolds, StaysCancelled, Armed
<1>10. AcceptedIsNext'
  BY <1>2 DEF AcceptedIsNext
<1> QED BY <1>2, <1>4, <1>5, <1>6, <1>7, <1>8, <1>9, <1>10, PartsKept

-----------------------------------------------------------------------------
(* The runs of the driver. *)

\* A reserved round is the next one of the goal, and none on its way has its identity.
LEMMA ReservationKeeps ==
    ASSUME RoundsIInv, ~Running, Armed, ~corrupt, goal.rounds < goal.max, attempt = NoAttempt,
           NEW d \in Drivers, NEW first \in BOOLEAN, Reserve(d, first),
           UNCHANGED <<corrupt, stepQ, fate, history, goal, trouble>>
    PROVE  RoundsIInv' /\ ~halted
<1> DEFINE i == CHOOSE x \in FreshIds : TRUE
           m == [id |-> i, rev |-> goal.rev, round |-> goal.rounds + 1]
           a == [id |-> m.id, rev |-> m.rev, round |-> m.round,
                 phase |-> "queued", cancelled |-> FALSE, stale |-> FALSE]
           due == IF first THEN "sendingFirst" ELSE "sending"
<1>1. TypeOK /\ NumberInv
  BY DEF RoundsIInv
<1>2. /\ FreshIds # {} /\ attempt' = a /\ turnQ' = Append(turnQ, m) /\ driver' = d
      /\ agent' = [agent EXCEPT !.due = due]
  BY Zenon DEF Reserve
<1>3. i \in FreshIds /\ due \in {"sendingFirst", "sending"}
  BY <1>2
<1> HIDE DEF i, due
<1>4. i \in Ids /\ \A n \in Outstanding : n.id # i
  BY <1>3 DEF FreshIds
<1>5. goal.rev \in Nat /\ goal.rounds + 1 \in Nat /\ goal \in Goals
  BY <1>1 DEF TypeOK, Goals
<1>6. m \in Messages /\ a \in Attempts /\ m.id = i /\ m.rev = goal.rev /\ m.round = goal.rounds + 1
      /\ a.id = i /\ a.rev = goal.rev /\ a.round = goal.rounds + 1 /\ a.phase = "queued"
  BY <1>4, <1>5 DEF Messages, Attempts
<1> HIDE DEF m, a
<1>7. /\ agent' \in Agents /\ agent'.pc = agent.pc /\ agent'.batch = agent.batch
      /\ agent'.due \in {"sendingFirst", "sending"}
  BY <1>1, <1>2, <1>3 DEF TypeOK, Agents
<1>8. turnQ' \in Seq(Humans \cup Messages) /\ Outstanding' = Outstanding \cup {m}
  <2>1. Rounds({m}) = {m} /\ turnQ \in Seq(Humans \cup Messages) /\ m \in Humans \cup Messages
    BY <1>1, <1>6, PeopleAreNoRounds DEF TypeOK
  <2>2. /\ Append(turnQ, m) \in Seq(Humans \cup Messages)
        /\ OnTheWay(agent.batch, Append(turnQ, m)) = OnTheWay(agent.batch, turnQ) \cup Rounds({m})
    BY <2>1, QueueGrows
  <2> QED BY <1>2, <1>7, <2>1, <2>2 DEF Outstanding
<1>9. \A n \in Outstanding : n \in Messages
  BY <1>1 DEF TypeOK, Outstanding, OnTheWay, Rounds, Round, Agents
<1>10. Numbered(goal, Outstanding \cup {m})
  BY <1>1, <1>5, <1>6 DEF NumberInv, Numbers, Numbered, Goals
<1>11. Latest(goal, a, Outstanding \cup {m})
  BY <1>1, <1>4, <1>5, <1>6, <1>9 DEF NumberInv, Numbers, Numbered, Latest, Goals, Messages
<1>12. Counts(goal, a) /\ (goal.armed => goal.phase = "active")
  BY <1>1, <1>6 DEF Counts, NumberInv, Numbers
<1>13. NumberInv'
  BY <1>2, <1>8, <1>10, <1>11, <1>12 DEF NumberInv, Numbers
<1>14. TypeOK'
  BY <1>1, <1>2, <1>6, <1>7, <1>8 DEF TypeOK, history
<1>15. Served(driver', agent'.due) /\ Claims(agent', fate')
  BY <1>7 DEF Served, RoundsIInv, ClaimsHeld, Claims
<1>16. ~halted
  BY <1>1 DEF RoundsIInv, HaltHolds, Running, TypeOK, Agents
<1>17. HaltHolds' /\ AcceptedIsNext'
  BY <1>7, <1>16 DEF HaltHolds, AcceptedIsNext, Running, history
<1> QED BY <1>13, <1>14, <1>15, <1>16, <1>17 DEF RoundsIInv, RequestsServed, ClaimsHeld

\* What a run does to an agent that is not in a turn, besides reserving a round.
LEMMA RunKeeps ==
    ASSUME RoundsIInv, driver' \in Drivers, Served(driver', agent.due),
           goal' \in {goal, Disarmed(goal), Revised("blocked", FALSE)},
           attempt' \in {attempt, NoAttempt}, attempt' = attempt \/ ~Running,
           goal' = goal \/ ~Running \/ overtaken', overtaken' \in BOOLEAN, overtaken => overtaken',
           trouble' \in 0..MaxTrouble,
           UNCHANGED <<corrupt, agent, inbox, fate, halted>>
    PROVE  RoundsIInv'
<1>1. TypeOK
  BY DEF RoundsIInv
<1>2. GoalMoves(goal, goal') /\ (goal'.armed => goal' = goal)
  <2>1. goal \in Goals /\ (goal.armed => goal.phase = "active")
    BY DEF RoundsIInv, TypeOK, NumberInv, Numbers
  <2> QED BY <2>1, GoalChanges
<1>3. SameAttempt(attempt, attempt')
  BY <1>1, AttemptChanges DEF TypeOK, SameAttempt
<1>4. TypeOK'
  BY <1>1, <1>2, <1>3 DEF TypeOK, SameAttempt, GoalMoves, inbox
<1>5. Served(driver', agent'.due) /\ Claims(agent', fate') /\ Outstanding' \subseteq Outstanding
  BY DEF RoundsIInv, ClaimsHeld, Outstanding, inbox
<1>6. HaltHolds'
  BY <1>1, <1>2 DEF RoundsIInv, HaltHolds, Armed, Running, TypeOK, Agents
<1>7. AcceptedIsNext'
  BY <1>1, <1>2 DEF RoundsIInv, AcceptedIsNext, Armed, Running, TypeOK
<1> QED BY <1>2, <1>3, <1>4, <1>5, <1>6, <1>7, PartsKept

\* A run past its checkpoint.
LEMMA DrivesKeeps ==
    ASSUME RoundsIInv, ~Running, NEW d \in Drivers, NEW first \in BOOLEAN, Drives(d, first)
    PROVE  RoundsIInv' /\ (Reserving => ~halted /\ Armed)
<1>1. TypeOK /\ trouble \in 0..MaxTrouble /\ overtaken \in BOOLEAN
  BY DEF RoundsIInv, TypeOK
<1>2. UNCHANGED <<corrupt, stepQ, fate, history>>
  BY DEF Drives
<1>3. halted' = halted /\ overtaken' = overtaken
  BY <1>2 DEF history
<1>4. /\ Looping(d, first) \in Drivers /\ Served(Looping(d, first), agent.due)
      /\ Looping(Changed(d), first) \in Drivers /\ Served(Looping(Changed(d), first), agent.due)
      /\ [Looping(d, first) EXCEPT !.checkpoint = TRUE, !.requested = TRUE] \in Drivers
      /\ Served([Looping(d, first) EXCEPT !.checkpoint = TRUE, !.requested = TRUE], agent.due)
  <2>1. Served(d, "sending")
    BY DEF Served
  <2>2. Changed(d) \in Drivers
    BY <2>1, ChangeIsServed
  <2>3. \A e \in Drivers : Looping(e, first) \in Drivers /\ Served(Looping(e, first), agent.due)
    BY LoopServes
  <2> DEFINE e == Looping(d, first)
  <2>4. e \in Drivers /\ e.heads > 0
    <3>1. e \in Drivers /\ e.heads = d.heads + 1
      BY <2>3, Zenon DEF Looping, Drivers
    <3> QED BY <3>1 DEF Drivers
  <2> HIDE DEF e
  <2>5. [e EXCEPT !.checkpoint = TRUE, !.requested = TRUE] \in Drivers
        /\ Served([e EXCEPT !.checkpoint = TRUE, !.requested = TRUE], agent.due)
    <3> DEFINE q == [e EXCEPT !.checkpoint = TRUE, !.requested = TRUE]
    <3>1. q \in Drivers /\ q.heads = e.heads
      BY <2>4, Zenon DEF Drivers
    <3> HIDE DEF q
    <3>2. Served(q, agent.due)
      BY <2>4, <3>1 DEF Drivers, Served
    <3> QED BY <3>1, <3>2 DEF q
  <2> QED BY <2>2, <2>3, <2>5 DEF e
<1>5. CASE attempt # NoAttempt /\ WorksOff(d, first) /\ UNCHANGED <<goal, agent, turnQ, trouble>>
  <2>1. driver' = [Looping(d, first) EXCEPT !.checkpoint = TRUE, !.requested = TRUE] /\ attempt' = NoAttempt
    BY <1>5 DEF WorksOff
  <2>2. UNCHANGED <<corrupt, agent, inbox, fate, halted>>
    BY <1>2, <1>3, <1>5 DEF inbox
  <2> QED BY <1>1, <1>3, <1>4, <1>5, <2>1, <2>2, RunKeeps DEF Reserving
<1>6. CASE driver' = Looping(d, first) /\ UNCHANGED <<goal, attempt, agent, turnQ, trouble>>
  <2>1. UNCHANGED <<corrupt, agent, inbox, fate, halted>>
    BY <1>2, <1>3, <1>6 DEF inbox
  <2> QED BY <1>1, <1>3, <1>4, <1>6, <2>1, RunKeeps DEF Reserving
<1>7. CASE Blocks(d, first) /\ UNCHANGED <<attempt, agent, turnQ>> /\ (Fails \/ UNCHANGED trouble)
  <2>1. goal' = Revised("blocked", FALSE) /\ driver' = Looping(Changed(d), first)
    BY <1>7 DEF Blocks
  <2>2. trouble' \in 0..MaxTrouble
    BY <1>1, <1>7, GoalRoundsAssumption DEF Fails
  <2>3. UNCHANGED <<corrupt, agent, inbox, fate, halted>>
    BY <1>2, <1>3, <1>7 DEF inbox
  <2> QED BY <1>1, <1>3, <1>4, <1>7, <2>1, <2>2, <2>3, RunKeeps DEF Reserving
<1>8. CASE /\ attempt = NoAttempt /\ ~corrupt /\ Armed /\ goal.rounds < goal.max
           /\ Reserve(d, first) /\ UNCHANGED <<goal, trouble>>
  BY <1>2, <1>8, ReservationKeeps
<1>9. CASE goal' = Disarmed(goal) /\ driver' = Looping(d, first) /\ Fails /\ UNCHANGED <<attempt, agent, turnQ>>
  <2>1. trouble' \in 0..MaxTrouble
    BY <1>1, <1>9, GoalRoundsAssumption DEF Fails
  <2>2. UNCHANGED <<corrupt, agent, inbox, fate, halted>>
    BY <1>2, <1>3, <1>9 DEF inbox
  <2> QED BY <1>1, <1>3, <1>4, <1>9, <2>1, <2>2, RunKeeps DEF Reserving
<1> QED BY <1>5, <1>6, <1>7, <1>8, <1>9, Zenon DEF Drives

\* A run at the head of its loop.
LEMMA RunsOnKeeps ==
    ASSUME RoundsIInv, RunsOn
    PROVE  RoundsIInv' /\ (Reserving => ~halted /\ Armed)
<1> DEFINE first == driver.starting = 1
           d == IF first THEN [driver EXCEPT !.starting = 0] ELSE [driver EXCEPT !.heads = @ - 1]
           taken == [d EXCEPT !.requested = FALSE]
           busy == d.busy \/ first
           rests == UNCHANGED <<goal, corrupt, attempt, agent, inbox, fate, history, trouble>>
<1>1. TypeOK
  BY DEF RoundsIInv
<1>2. /\ first \/ driver.heads > 0
      /\ \/ /\ ~driver.requested \/ driver.stopping
            /\ driver' = IF first THEN Looping(d, TRUE) ELSE [d EXCEPT !.busy = FALSE]
            /\ rests
         \/ /\ driver' = Looping(taken, first)
            /\ rests
         \/ /\ driver' = [taken EXCEPT !.checkpoint = FALSE, !.flushing = @ + 1, !.busy = @ \/ first]
            /\ rests
         \/ ReadyToDrive /\ Drives(taken, first)
  BY Zenon DEF RunsOn
<1>3. d \in Drivers /\ d.requested = driver.requested /\ d.stopping = driver.stopping
  <2>1. driver \in Drivers /\ (~first => driver.heads - 1 \in Nat)
    BY <1>1, <1>2 DEF TypeOK, Drivers
  <2>2. CASE first
    <3>1. d = [driver EXCEPT !.starting = 0]
      BY <2>2
    <3> HIDE DEF d, first
    <3> QED BY <2>1, <3>1 DEF Drivers
  <2>3. CASE ~first
    <3> DEFINE heads == driver.heads - 1
    <3>1. d = [driver EXCEPT !.heads = heads] /\ heads \in Nat
      BY <2>1, <2>3
    <3> HIDE DEF d, first, heads
    <3> QED BY <2>1, <3>1 DEF Drivers
  <2> QED BY <2>2, <2>3
<1>4. first \in BOOLEAN
  OBVIOUS
<1> HIDE DEF d, first
<1>5. taken \in Drivers
  BY <1>3 DEF Drivers
<1>6. rests => /\ trouble' \in 0..MaxTrouble /\ overtaken' = overtaken /\ overtaken \in BOOLEAN
               /\ UNCHANGED <<corrupt, agent, inbox, fate, halted>>
               /\ goal' = goal /\ attempt' = attempt /\ ~Reserving
  BY <1>1 DEF TypeOK, history, Reserving
<1>7. CASE /\ ~driver.requested \/ driver.stopping
           /\ driver' = IF first THEN Looping(d, TRUE) ELSE [d EXCEPT !.busy = FALSE]
           /\ rests
  <2>0. rests
    BY <1>7
  <2>1. CASE first
    <3>1. driver' \in Drivers /\ Served(driver', agent.due)
      BY <1>3, <1>7, <2>1, LoopServes
    <3> HIDE DEF rests
    <3> QED BY <1>6, <2>0, <3>1, RunKeeps
  <2>2. CASE ~first
    <3>1. driver' \in Drivers /\ Served(driver', agent.due)
      BY <1>3, <1>7, <2>2 DEF Drivers, Served
    <3> HIDE DEF rests
    <3> QED BY <1>6, <2>0, <3>1, RunKeeps
  <2> QED BY <2>1, <2>2
<1>8. CASE driver' = Looping(taken, first) /\ rests
  <2>1. driver' \in Drivers /\ Served(driver', agent.due)
    BY <1>4, <1>5, <1>8, LoopServes
  <2> HIDE DEF rests
  <2> QED BY <1>6, <1>8, <2>1, RunKeeps
<1>9. CASE /\ driver' = [taken EXCEPT !.checkpoint = FALSE, !.flushing = @ + 1, !.busy = @ \/ first]
           /\ rests
  <2> DEFINE flushing == taken.flushing + 1
             taking == taken.busy \/ first
  <2>1. driver' = [taken EXCEPT !.checkpoint = FALSE, !.flushing = flushing, !.busy = taking]
    BY <1>9
  <2>2. flushing \in Nat \ {0} /\ taking \in BOOLEAN
    BY <1>5 DEF Drivers
  <2> HIDE DEF flushing, taking, taken
  <2>3. driver' \in Drivers /\ driver'.flushing = flushing
    BY <1>5, <2>1, <2>2, Zenon DEF Drivers
  <2>4. Served(driver', agent.due)
    BY <2>2, <2>3 DEF Served, Drivers
  <2> HIDE DEF rests
  <2> QED BY <1>6, <1>9, <2>3, <2>4, RunKeeps
<1>10. CASE ReadyToDrive /\ Drives(taken, first)
  <2> HIDE DEF taken
  <2> QED BY <1>4, <1>5, <1>10, DrivesKeeps DEF ReadyToDrive
<1> HIDE DEF rests, taken
<1> QED BY <1>2, <1>7, <1>8, <1>9, <1>10

\* A checkpoint settles.
LEMMA FlushReturnsKeeps ==
    ASSUME RoundsIInv, FlushReturns
    PROVE  RoundsIInv' /\ (Reserving => ~halted /\ Armed)
<1> DEFINE d == [driver EXCEPT !.flushing = @ - 1]
<1>1. TypeOK
  BY DEF RoundsIInv
<1>2. driver.flushing > 0
  BY DEF FlushReturns
<1>3. d \in Drivers
  <2> DEFINE flushing == driver.flushing - 1
  <2>1. flushing \in Nat /\ driver \in Drivers /\ d = [driver EXCEPT !.flushing = flushing]
    BY <1>1, <1>2 DEF TypeOK, Drivers
  <2> HIDE DEF flushing, d
  <2> QED BY <2>1 DEF Drivers
<1>4. \/ /\ Fails
         /\ goal' = Disarmed(goal) /\ driver' = Looping(d, FALSE)
         /\ overtaken' = TRUE
         /\ UNCHANGED <<corrupt, attempt, agent, inbox, fate, halted>>
      \/ /\ driver' = Looping(d, FALSE)
         /\ UNCHANGED <<goal, corrupt, attempt, agent, inbox, fate, history, trouble>>
      \/ ReadyToDrive /\ Drives(d, FALSE)
  BY Zenon DEF FlushReturns
<1> HIDE DEF d
<1>5. Looping(d, FALSE) \in Drivers /\ Served(Looping(d, FALSE), agent.due)
  BY <1>3, LoopServes
<1>6. trouble \in 0..MaxTrouble /\ (Fails => trouble' \in 0..MaxTrouble) /\ overtaken \in BOOLEAN
  BY <1>1, GoalRoundsAssumption DEF TypeOK, Fails
<1>7. CASE /\ Fails
           /\ goal' = Disarmed(goal) /\ driver' = Looping(d, FALSE)
           /\ overtaken' = TRUE
           /\ UNCHANGED <<corrupt, attempt, agent, inbox, fate, halted>>
  BY <1>5, <1>6, <1>7, RunKeeps DEF Reserving
<1>8. CASE /\ driver' = Looping(d, FALSE)
           /\ UNCHANGED <<goal, corrupt, attempt, agent, inbox, fate, history, trouble>>
  BY <1>5, <1>6, <1>8, RunKeeps DEF Reserving, history
<1>9. CASE ReadyToDrive /\ Drives(d, FALSE)
  BY <1>3, <1>9, DrivesKeeps DEF ReadyToDrive
<1> QED BY <1>4, <1>7, <1>8, <1>9

-----------------------------------------------------------------------------
(* The theorems about goal rounds. *)

\* A goal that has not been driven yet has the invariant.
LEMMA RoundsInit == Init => RoundsIInv
<1> SUFFICES ASSUME Init PROVE RoundsIInv
  OBVIOUS
<1>1. TypeOK
  <2>1. goal \in Goals
    BY Zenon, 0 \in Nat, 1 \in Nat DEF Init, Goals
  <2>2. driver \in Drivers
    BY DEF Init, Drivers
  <2>3. agent \in Agents
    BY DEF Init, Agents
  <2>4. turnQ \in Seq(Humans \cup Messages) /\ stepQ \subseteq Humans
    BY DEF Init
  <2>5. fate \in [Humans -> Fates]
    BY DEF Init, Fates
  <2>6. attempt \in {NoAttempt} \cup Attempts /\ trouble \in 0..MaxTrouble
    BY GoalRoundsAssumption DEF Init
  <2>7. corrupt \in BOOLEAN /\ halted \in BOOLEAN /\ overtaken \in BOOLEAN
    BY Zenon DEF Init
  <2> QED BY <2>1, <2>2, <2>3, <2>4, <2>5, <2>6, <2>7 DEF TypeOK
<1>2. RequestsServed
  BY DEF Init, RequestsServed, Served
<1>3. ClaimsHeld
  BY DEF Init, ClaimsHeld, Claims, Rounds
<1>4. NumberInv
  <2>1. Outstanding = {}
    BY DEF Init, Outstanding, OnTheWay, Rounds
  <2>2. ~goal.armed /\ attempt = NoAttempt
    BY DEF Init
  <2> QED BY <2>1, <2>2 DEF NumberInv, Numbers, Numbered, Latest, Counts
<1>5. HaltHolds /\ AcceptedIsNext
  BY DEF Init, HaltHolds, AcceptedIsNext
<1> QED BY <1>1, <1>2, <1>3, <1>4, <1>5 DEF RoundsIInv

\* Every step keeps it.
LEMMA RoundsStep == RoundsIInv /\ [Next]_vars => RoundsIInv'
<1> SUFFICES ASSUME RoundsIInv, [Next]_vars PROVE RoundsIInv'
  OBVIOUS
<1>1. CASE RunsOn
  BY <1>1, RunsOnKeeps
<1>2. CASE FlushReturns
  BY <1>2, FlushReturnsKeeps
<1>3. CASE DriverChecks \/ DriverRechecks
  BY <1>3, ChecksKeep
<1>4. CASE HooksRefuse
  BY <1>4, RefusalKeeps
<1>5. CASE TurnLeaves
  BY <1>5, TurnLeavesKeeps
<1>6. CASE Enters
  BY <1>6, EntersKeeps
<1>7. CASE StepEnds
  BY <1>7, StepEndsKeeps
<1>8. CASE NextTurn
  BY <1>8, NextTurnKeeps
<1>9. CASE Retire
  BY <1>9, RetireKeeps
<1>10. CASE Idles
  BY <1>10, IdlesKeeps
<1>11. CASE Sends
  BY <1>11, SendsKeeps
<1>12. CASE MaintenanceBegins \/ MaintenanceEnds
  BY <1>12, MaintenanceKeeps
<1>13. CASE Mutate
  BY <1>13, MutateKeeps
<1>14. CASE Cancel
  BY <1>14, CancelKeeps
<1>15. CASE Unload
  BY <1>15, UnloadKeeps
<1>16. ASSUME NEW h \in Humans, Followup(h)
       PROVE  RoundsIInv'
  BY <1>16, FollowupKeeps
<1>17. ASSUME NEW h \in Humans, Inject(h)
       PROVE  RoundsIInv'
  BY <1>17, InjectKeeps
<1>18. CASE UNCHANGED vars
  BY <1>18 DEF vars, RoundsIInv, TypeOK, RequestsServed, ClaimsHeld, NumberInv, Numbers, Outstanding,
               HaltHolds, AcceptedIsNext, Armed
<1> QED BY <1>1, <1>2, <1>3, <1>4, <1>5, <1>6, <1>7, <1>8, <1>9, <1>10, <1>11, <1>12, <1>13, <1>14,
           <1>15, <1>16, <1>17, <1>18, Zenon DEF Next, Runs, Agent

\* Nothing but a run of the driver reserves a round.
LEMMA OnlyRunsReserve ==
    ASSUME [Next]_vars, attempt = NoAttempt, ~RunsOn, ~FlushReturns
    PROVE  attempt' = NoAttempt
<1>1. /\ \A batch : Claimed(NoAttempt, batch) = NoAttempt
      /\ Staled(NoAttempt) = NoAttempt /\ Cleared(NoAttempt) = NoAttempt
  BY Zenon DEF Claimed, Staled, Cleared, SameQueued
<1>2. ASSUME NEW ag, NEW queue, NEW steps, NEW f, Proposes(ag, queue, steps, NoAttempt, f)
      PROVE  attempt' = NoAttempt
  BY <1>1, <1>2, Zenon DEF Proposes
<1>3. ASSUME NEW reason, TurnEnds(reason, NoAttempt, goal)
      PROVE  attempt' = NoAttempt
  <2>1. CASE reason = "aborted"
    BY <1>3, <2>1, Zenon DEF TurnEnds
  <2>2. CASE reason \in {"error", "max-tokens"}
    BY <1>3, <2>2, Zenon DEF TurnEnds
  <2>3. CASE reason \notin {"aborted", "error", "max-tokens"}
    BY <1>3, <2>3, Zenon DEF TurnEnds
  <2> QED BY <2>1, <2>2, <2>3
<1>4. CASE DriverChecks
  BY <1>4, Zenon DEF DriverChecks, DriverRejects
<1>5. CASE DriverRechecks
  BY <1>5, Zenon DEF DriverRechecks, DriverRejects
<1>6. CASE HooksRefuse
  BY <1>3, <1>6, Zenon DEF HooksRefuse, Leaves
<1>7. CASE TurnLeaves
  BY <1>3, <1>7, Zenon DEF TurnLeaves, Leaves
<1>8. CASE Enters
  BY <1>8, Zenon DEF Enters
<1>9. CASE StepEnds
  BY <1>2, <1>3, <1>9, Zenon DEF StepEnds
<1>10. CASE NextTurn
  BY <1>2, <1>10, Zenon DEF NextTurn
<1>11. CASE Retire
  BY <1>11, Zenon DEF Retire
<1>12. CASE Idles
  BY <1>2, <1>12, Zenon DEF Idles
<1>13. CASE Sends
  BY <1>2, <1>13, Zenon DEF Sends
<1>14. CASE MaintenanceEnds
  BY <1>2, <1>14, Zenon DEF MaintenanceEnds
<1>15. CASE MaintenanceBegins \/ Mutate
  BY <1>15, Zenon DEF MaintenanceBegins, Mutate
<1>16. CASE Cancel
  BY <1>1, <1>16, Zenon DEF Cancel
<1>17. CASE Unload
  BY <1>17, Zenon DEF Unload
<1>18. ASSUME NEW h \in Humans, Followup(h) \/ Inject(h)
       PROVE  attempt' = NoAttempt
  BY <1>1, <1>2, <1>18, Zenon DEF Followup, Inject
<1>19. CASE UNCHANGED vars
  BY <1>19, Zenon DEF vars
<1> QED BY <1>4, <1>5, <1>6, <1>7, <1>8, <1>9, <1>10, <1>11, <1>12, <1>13, <1>14, <1>15, <1>16, <1>17,
           <1>18, <1>19, Zenon DEF Next, Runs, Agent

\* Only a turn that is not aborted goes from a proposal to its step.
LEMMA AbortedEntersNothing ==
    ASSUME RoundsIInv, [Next]_vars, Entering
    PROVE  ~agent.aborted
<1> SUFFICES ASSUME ~Enters
             PROVE  FALSE
  BY Zenon DEF Enters
<1>1. agent \in Agents /\ agent.pc = "accepted" /\ agent'.pc = "stepping"
  BY DEF RoundsIInv, TypeOK, Entering
<1>2. agent' # agent
  BY <1>1
<1>3. /\ \A due : agent' # [agent EXCEPT !.due = due]
      /\ \A b \in BOOLEAN : /\ agent' # [agent EXCEPT !.latch = b]
                            /\ agent' # [agent EXCEPT !.aborted = b]
                            /\ agent' # [agent EXCEPT !.latch = FALSE, !.aborted = b]
  BY <1>1 DEF Agents
<1>4. ~DriverChecks /\ ~DriverRechecks /\ ~HooksRefuse /\ ~StepEnds /\ ~NextTurn /\ ~Retire
      /\ ~MaintenanceEnds /\ ~MaintenanceBegins
  BY <1>1, Zenon DEF DriverChecks, DriverRechecks, HooksRefuse, StepEnds, NextTurn, Retire,
                     MaintenanceEnds, MaintenanceBegins
<1>5. ~TurnLeaves
  <2>1. agent' # [agent EXCEPT !.pc = "retiring", !.batch = {}]
    BY <1>1 DEF Agents
  <2> QED BY <2>1, Zenon DEF TurnLeaves, Leaves
<1>6. ~Idles /\ ~Sends
  <2>1. agent.pc # "idle" /\ agent.pc # "maintenance"
    BY <1>1
  <2>2. ~Idles
    BY <1>3, <2>1 DEF Idles
  <2>3. agent' # [[agent EXCEPT !.due = "none"] EXCEPT !.latch = @ \/ agent.pc = "maintenance"]
    BY <1>1 DEF Agents
  <2>4. ~Sends
    BY <2>1, <2>3 DEF Sends
  <2> QED BY <2>2, <2>4
<1>7. ~RunsOn /\ ~FlushReturns
  <2>1. ASSUME NEW d, NEW first, Drives(d, first)
        PROVE  FALSE
    BY <1>2, <1>3, <2>1 DEF Drives, Reserve
  <2> QED BY <1>2, <2>1 DEF RunsOn, FlushReturns
<1>8. ~Mutate /\ ~Cancel /\ ~Unload
  BY <1>1, <1>2, <1>3 DEF Mutate, Cancel, Unload, Cancels
<1>9. ASSUME NEW h \in Humans, Followup(h) \/ Inject(h)
       PROVE  FALSE
  BY <1>1, <1>2, <1>3, <1>9 DEF Followup, Inject, Agents
<1>10. CASE UNCHANGED vars
  BY <1>2, <1>10 DEF vars
<1> QED BY <1>4, <1>5, <1>6, <1>7, <1>8, <1>9, <1>10, Zenon DEF Next, Runs, Agent

\* An accepted round that nothing overtook is the one the fold expects.
LEMMA AcceptedIsLegal ==
    ASSUME RoundsIInv, Entering, ~agent.aborted
    PROVE  overtaken \/ (Armed /\ \A m \in Rounds(agent.batch) : Legal(m))
<1> SUFFICES ASSUME ~overtaken
             PROVE  Armed /\ \A m \in Rounds(agent.batch) : Legal(m)
  OBVIOUS
<1>1. /\ Rounds(agent.batch) # {}
      /\ \A m \in Rounds(agent.batch) : Armed /\ m.rev = goal.rev /\ m.round = goal.rounds + 1
  BY DEF RoundsIInv, AcceptedIsNext, Entering
<1>2. \A m \in Rounds(agent.batch) : m.rev = goal.rev => m.round <= goal.max
  BY DEF RoundsIInv, NumberInv, Numbers, Numbered, Outstanding, OnTheWay, Rounds
<1> QED BY <1>1, <1>2 DEF Legal, Armed

\* No request is dropped, a round that the driver rejects takes no person's message
\* down with it, and the round it believes admitted is the log's last one
\* (goal-round-driver: requestDrive, drive, restoreOtherClaimed and the pre-step listener).
THEOREM RoundsKept == Spec => []RoundsInv
<1>1. RoundsIInv => RoundsInv
  <2> SUFFICES ASSUME RoundsIInv PROVE RoundsInv
    OBVIOUS
  <2>1. NoRequestLost
    BY DEF RoundsIInv, RequestsServed, Served, NoRequestLost
  <2>2. OthersKept
    BY DEF RoundsIInv, ClaimsHeld, Claims, OthersKept
  <2>3. RoundsCounted
    BY DEF RoundsIInv, NumberInv, Numbers, Counts, RoundsCounted
  <2> QED BY <2>1, <2>2, <2>3 DEF RoundsIInv, RoundsInv
<1> QED BY <1>1, RoundsInit, RoundsStep, PTL DEF Spec

\* Rounds are reserved and enter the log under a person's authority only, whatever is
\* queued, cancelled, mutated or thrown around the driver's awaits.
THEOREM AuthorityIsKept == Spec => RoundsUnderAuthority
<1>1. RoundsIInv /\ [Next]_vars
        => [/\ Reserving => ~halted /\ Armed
            /\ Entering => overtaken \/ (Armed /\ \A m \in Rounds(agent.batch) : Legal(m))]_vars
  <2> SUFFICES ASSUME RoundsIInv, [Next]_vars
               PROVE  /\ Reserving => ~halted /\ Armed
                      /\ Entering => overtaken \/ (Armed /\ \A m \in Rounds(agent.batch) : Legal(m))
    OBVIOUS
  <2>1. Reserving => RunsOn \/ FlushReturns
    BY OnlyRunsReserve DEF Reserving
  <2>2. Reserving => ~halted /\ Armed
    BY <2>1, RunsOnKeeps, FlushReturnsKeeps
  <2> QED BY <2>2, AbortedEntersNothing, AcceptedIsLegal
<1> QED BY <1>1, RoundsInit, RoundsStep, PTL DEF Spec, RoundsUnderAuthority
=============================================================================
