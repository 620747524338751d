-------------------------- MODULE SchedulesProofs --------------------------
(***************************************************************************)
(* What holds of the reminders for any calls, instants and bounds.           *)
(*                                                                          *)
(* First the queue: drives and tool calls exclude one another, and so act on *)
(* durable changes only.  Then the log and the owner's wakes: every event    *)
(* may follow what is there before it, in every beginning a kill may leave.  *)
(***************************************************************************)
EXTENDS Schedules, SequenceTheorems, FiniteSetTheorems, TLAPS

-----------------------------------------------------------------------------
(* Queues without repetition. *)

Once(s) == \A i, j \in 1..Len(s) : s[i] = s[j] => i = j
In(s, x) == \E i \in 1..Len(s) : s[i] = x

\* Who was not in a queue joins it at the end.
LEMMA Joined ==
    ASSUME NEW S, NEW s \in Seq(S), NEW x \in S, Once(s), ~In(s, x)
    PROVE  /\ Append(s, x) \in Seq(S) /\ Once(Append(s, x))
           /\ \A y : In(Append(s, x), y) <=> In(s, y) \/ y = x
           /\ s # <<>> => Append(s, x)[1] = s[1]
<1> DEFINE t == Append(s, x)
<1>1. t \in Seq(S) /\ Len(t) = Len(s) + 1 /\ Len(s) \in Nat
  OBVIOUS
<1>2. \A i \in 1..Len(s) : t[i] = s[i]
  OBVIOUS
<1>3. t[Len(s) + 1] = x
  OBVIOUS
<1>4. Once(t)
  BY <1>1, <1>2, <1>3 DEF Once, In
<1>5. ASSUME NEW y PROVE In(t, y) <=> In(s, y) \/ y = x
  BY <1>1, <1>2, <1>3 DEF In
<1>6. s # <<>> => t[1] = s[1]
  BY <1>1, <1>2
<1> QED BY <1>1, <1>4, <1>5, <1>6

\* The head leaves, and nobody else.
LEMMA Departed ==
    ASSUME NEW S, NEW s \in Seq(S), s # <<>>, Once(s)
    PROVE  /\ Tail(s) \in Seq(S) /\ Once(Tail(s))
           /\ \A y : In(Tail(s), y) <=> In(s, y) /\ y # s[1]
<1> DEFINE t == Tail(s)
<1>1. t \in Seq(S) /\ Len(t) = Len(s) - 1 /\ Len(s) \in Nat \ {0}
  OBVIOUS
<1>2. \A i \in 1..Len(t) : t[i] = s[i + 1]
  OBVIOUS
<1>3. Once(t)
  <2> SUFFICES ASSUME NEW i \in 1..Len(t), NEW j \in 1..Len(t), t[i] = t[j] PROVE i = j
    BY DEF Once
  <2>1. i + 1 \in 1..Len(s) /\ j + 1 \in 1..Len(s) /\ s[i + 1] = s[j + 1]
    BY <1>1, <1>2
  <2>2. i + 1 = j + 1
    BY <2>1 DEF Once
  <2> QED BY <2>2, <1>1
<1>4. ASSUME NEW y, In(t, y) PROVE In(s, y) /\ y # s[1]
  <2>1. PICK i \in 1..Len(t) : t[i] = y
    BY <1>4 DEF In
  <2>2. i + 1 \in 1..Len(s) /\ s[i + 1] = y /\ 1 \in 1..Len(s) /\ i + 1 # 1
    BY <2>1, <1>1, <1>2
  <2> QED BY <2>2 DEF In, Once
<1>5. ASSUME NEW y, In(s, y), y # s[1] PROVE In(t, y)
  <2>1. PICK i \in 1..Len(s) : s[i] = y
    BY <1>5 DEF In
  <2>2. i # 1 /\ i - 1 \in 1..Len(t)
    BY <2>1, <1>5, <1>1
  <2>3. t[i - 1] = y
    BY <2>1, <2>2, <1>1, <1>2
  <2> QED BY <2>2, <2>3 DEF In
<1> QED BY <1>1, <1>3, <1>4, <1>5

-----------------------------------------------------------------------------
(* The queue's invariant as a relation of the runtime, the calls and the log's length. *)

Members == Calls \cup {Owner}

IsRuntime(r) ==
    r \in [requested : BOOLEAN, timer : {r.timer}, faulted : BOOLEAN, sent : BOOLEAN,
           run : {"none", "queued", "looping", "retiring"} \cup RunningPlaces,
           idle : {"none", "watching", "settled"}, covers : Nat, aside : BOOLEAN,
           fifo : Seq(Members)]

IsCall(k) ==
    k \in [pc : {"none", "queued", "preflight", "barrier"}, op : {k.op}, n : {k.n}, covers : Nat]

AreCalls(cs) == DOMAIN cs = Calls /\ \A c \in Calls : IsCall(cs[c])

Busy(k) == k.pc \in {"preflight", "barrier"}

InPlace(r, cs) ==
    /\ Once(r.fifo)
    /\ r.run \in {"queued"} \cup RunningPlaces <=> In(r.fifo, Owner)
    /\ r.run \in RunningPlaces => r.fifo[1] = Owner
    /\ \A c \in Calls : /\ cs[c].pc # "none" <=> In(r.fifo, c)
                        /\ Busy(cs[c]) => r.fifo[1] = c

Covers(r, cs, n) ==
    /\ r.run \in {"preflight", "barrier"} => r.covers = n
    /\ \A c \in Calls : Busy(cs[c]) => cs[c].covers = n

\* QueueInv is this relation and the types of the rest.
LEMMA QueueInvIs ==
    QueueInv <=> /\ stored \in 0..Len(log) /\ now \in Instant
                 /\ life \in {"live", "leaving", "stopping", "stopped", "down"}
                 /\ agent \in [phase : {"idle", "running", "maintenance", "foreign"},
                               wake : BOOLEAN]
                 /\ IsRuntime(rt) /\ AreCalls(calls)
                 /\ InPlace(rt, calls) /\ Covers(rt, calls, Len(log))
BY DEF QueueInv, TypeOK, Serial, Covered, IsRuntime, Members, AreCalls, IsCall, InPlace, Covers,
       Once, In, Waits, CallRuns, Busy

\* The head of a queue is in it.
LEMMA HeadIn ==
    ASSUME NEW S, NEW s \in Seq(S), s # <<>>
    PROVE  In(s, s[1]) /\ s[1] \in S
BY DEF In

\* Whoever runs is the head of a queue that is not empty.
LEMMA RunnerIsHead ==
    ASSUME NEW r, NEW cs, IsRuntime(r), InPlace(r, cs)
    PROVE  /\ r.run \in RunningPlaces => r.fifo # <<>> /\ r.fifo[1] = Owner
           /\ \A c \in Calls : Busy(cs[c]) => r.fifo # <<>> /\ r.fifo[1] = c
BY DEF IsRuntime, InPlace, In, Busy, RunningPlaces

\* Flags, timers and idle waits do not matter to it.
LEMMA Alike ==
    ASSUME NEW r, NEW q, NEW cs, NEW n, InPlace(r, cs), Covers(r, cs, n),
           q.fifo = r.fifo, q.run = r.run, q.covers = r.covers
    PROVE  InPlace(q, cs) /\ Covers(q, cs, n)
BY DEF InPlace, Covers

-----------------------------------------------------------------------------
(* What joining and leaving the queue do to it. *)

\* The owner joins when no run of its own is in the queue.
LEMMA OwnerJoins ==
    ASSUME NEW r, NEW cs, NEW n, IsRuntime(r), InPlace(r, cs), Covers(r, cs, n),
           r.run \notin {"queued"} \cup RunningPlaces
    PROVE  /\ IsRuntime(Queued(r)) /\ InPlace(Queued(r), cs) /\ Covers(Queued(r), cs, n)
           /\ Queued(r).fifo # <<>> /\ (r.fifo # <<>> => Queued(r).fifo[1] = r.fifo[1])
<1> DEFINE q == Queued(r)
<1>1. /\ q.fifo = Append(r.fifo, Owner) /\ q.run = "queued" /\ q.covers = r.covers
      /\ r.fifo \in Seq(Members) /\ Owner \in Members
  BY DEF Queued, IsRuntime, Members
<1>2. ~In(r.fifo, Owner) /\ Once(r.fifo)
  BY DEF InPlace
<1>3. /\ q.fifo \in Seq(Members) /\ Once(q.fifo)
      /\ \A y : In(q.fifo, y) <=> In(r.fifo, y) \/ y = Owner
      /\ r.fifo # <<>> => q.fifo[1] = r.fifo[1]
  BY <1>1, <1>2, Joined
<1>4. IsRuntime(q)
  BY <1>3 DEF Queued, IsRuntime
<1>5. InPlace(q, cs)
  <2>1. q.run \in {"queued"} \cup RunningPlaces <=> In(q.fifo, Owner)
    BY <1>1, <1>3
  <2>2. q.run \notin RunningPlaces
    BY <1>1 DEF RunningPlaces
  <2>3. ASSUME NEW c \in Calls
        PROVE  (cs[c].pc # "none" <=> In(q.fifo, c)) /\ (Busy(cs[c]) => q.fifo[1] = c)
    BY <1>3, RunnerIsHead, SchedulesAssumption DEF InPlace
  <2> QED BY <1>3, <2>1, <2>2, <2>3 DEF InPlace
<1>6. Covers(q, cs, n)
  BY <1>1 DEF Covers
<1>7. q.fifo # <<>>
  BY <1>1
<1> QED BY <1>3, <1>4, <1>5, <1>6, <1>7

\* A request is safe at any moment, and leaves the head where it is.
LEMMA RequestKeeps ==
    ASSUME NEW r, NEW cs, NEW n, IsRuntime(r), InPlace(r, cs), Covers(r, cs, n)
    PROVE  /\ IsRuntime(Requested(r)) /\ InPlace(Requested(r), cs)
           /\ Covers(Requested(r), cs, n)
           /\ r.fifo # <<>> => /\ Requested(r).fifo # <<>>
                               /\ Requested(r).fifo[1] = r.fifo[1]
<1> DEFINE q == [r EXCEPT !.timer = NoTimer]
           p == [q EXCEPT !.requested = TRUE]
<1>1. IsRuntime(q) /\ q.fifo = r.fifo /\ q.run = r.run /\ q.covers = r.covers
  BY DEF IsRuntime
<1>2. IsRuntime(p) /\ p.fifo = r.fifo /\ p.run = r.run /\ p.covers = r.covers
  BY <1>1 DEF IsRuntime
<1>3. InPlace(q, cs) /\ Covers(q, cs, n) /\ InPlace(p, cs) /\ Covers(p, cs, n)
  BY <1>1, <1>2, Alike
<1>4. CASE Stopping \/ r.faulted
  BY <1>4 DEF Requested
<1>5. CASE ~(Stopping \/ r.faulted) /\ r.run = "none"
  <2>1. Requested(r) = Queued(q)
    BY <1>5 DEF Requested
  <2>2. q.run \notin {"queued"} \cup RunningPlaces
    BY <1>1, <1>5 DEF RunningPlaces
  <2> QED BY <2>1, <2>2, <1>1, <1>3, OwnerJoins, ZenonT(90)
<1>6. CASE ~(Stopping \/ r.faulted) /\ r.run # "none"
  <2>1. Requested(r) = p
    BY <1>6 DEF Requested
  <2> QED BY <2>1, <1>2, <1>3
<1> QED BY <1>4, <1>5, <1>6

\* The owner's transaction ends: nothing runs any more.
LEMMA OwnerLeaves ==
    ASSUME NEW r, NEW cs, NEW n, IsRuntime(r), InPlace(r, cs),
           r.fifo # <<>>, r.fifo[1] = Owner
    PROVE  IsRuntime(Ended(r)) /\ InPlace(Ended(r), cs) /\ Covers(Ended(r), cs, n)
<1> DEFINE q == Ended(r)
<1>1. r.fifo \in Seq(Members) /\ Once(r.fifo)
  BY DEF IsRuntime, InPlace
<1>2. q.fifo = Tail(r.fifo) /\ q.run = "looping"
  BY DEF Ended, Left, IsRuntime
<1>3. /\ q.fifo \in Seq(Members) /\ Once(q.fifo)
      /\ \A y : In(q.fifo, y) <=> In(r.fifo, y) /\ y # Owner
  BY <1>1, <1>2, Departed
<1>4. IsRuntime(q)
  BY <1>3 DEF Ended, Left, IsRuntime
<1>5. \A c \in Calls : c # Owner /\ ~Busy(cs[c])
  BY SchedulesAssumption DEF InPlace
<1>6. q.run \notin {"queued"} \cup RunningPlaces
  BY <1>2 DEF RunningPlaces
<1>7. InPlace(q, cs)
  BY <1>3, <1>5, <1>6 DEF InPlace
<1>8. Covers(q, cs, n)
  BY <1>2, <1>5 DEF Covers
<1> QED BY <1>4, <1>7, <1>8

\* A call's transaction ends with its call: nothing runs any more.
LEMMA CallLeaves ==
    ASSUME NEW r, NEW cs, NEW n, NEW c \in Calls, IsRuntime(r), AreCalls(cs), InPlace(r, cs),
           r.fifo # <<>>, r.fifo[1] = c
    PROVE  LET ds == [cs EXCEPT ![c] = NoCall] IN
           /\ IsRuntime(Left(r)) /\ AreCalls(ds)
           /\ InPlace(Left(r), ds) /\ Covers(Left(r), ds, n)
<1> DEFINE q == Left(r)
           ds == [cs EXCEPT ![c] = NoCall]
<1>1. r.fifo \in Seq(Members) /\ Once(r.fifo)
  BY DEF IsRuntime, InPlace
<1>2. q.fifo = Tail(r.fifo) /\ q.run = r.run /\ q.covers = r.covers
  BY DEF Left, IsRuntime
<1>3. /\ q.fifo \in Seq(Members) /\ Once(q.fifo)
      /\ \A y : In(q.fifo, y) <=> In(r.fifo, y) /\ y # c
  BY <1>1, <1>2, Departed
<1>4. IsRuntime(q)
  BY <1>3 DEF Left, IsRuntime
<1>5. /\ ds[c] = NoCall /\ ~Busy(NoCall) /\ NoCall.pc = "none" /\ IsCall(NoCall)
      /\ DOMAIN ds = Calls /\ \A d \in Calls \ {c} : ds[d] = cs[d]
  BY DEF AreCalls, NoCall, Busy, IsCall
<1>6. AreCalls(ds)
  BY <1>5 DEF AreCalls
<1>7. c # Owner /\ \A d \in Calls : ~Busy(ds[d])
  BY <1>5, SchedulesAssumption DEF InPlace
<1>8. q.run \notin RunningPlaces
  BY <1>2, <1>7 DEF InPlace
<1>9. \A d \in Calls : ds[d].pc # "none" <=> In(q.fifo, d)
  BY <1>3, <1>5 DEF InPlace
<1>10. q.run \in {"queued"} \cup RunningPlaces <=> In(q.fifo, Owner)
  BY <1>2, <1>3, <1>7 DEF InPlace
<1>11. InPlace(q, ds)
  BY <1>3, <1>7, <1>8, <1>9, <1>10 DEF InPlace
<1>12. Covers(q, ds, n)
  BY <1>7, <1>8 DEF Covers, RunningPlaces
<1> QED BY <1>4, <1>6, <1>11, <1>12

\* The owner at the head goes from one place of its transaction to another.
LEMMA OwnerMoves ==
    ASSUME NEW r, NEW q, NEW cs, NEW n, IsRuntime(r), InPlace(r, cs),
           r.fifo # <<>>, r.fifo[1] = Owner, q.fifo = r.fifo, q.run \in RunningPlaces,
           q.run \in {"preflight", "barrier"} => q.covers = n
    PROVE  InPlace(q, cs) /\ Covers(q, cs, n)
<1>1. r.fifo \in Seq(Members)
  BY DEF IsRuntime
<1>2. In(r.fifo, Owner)
  BY <1>1, HeadIn
<1>3. \A c \in Calls : c # Owner /\ ~Busy(cs[c])
  BY SchedulesAssumption DEF InPlace
<1>4. InPlace(q, cs)
  BY <1>2, <1>3 DEF InPlace
<1>5. Covers(q, cs, n)
  BY <1>3 DEF Covers
<1> QED BY <1>4, <1>5

\* Outside its transactions the run's place does not matter.
LEMMA RunMoves ==
    ASSUME NEW r, NEW q, NEW cs, NEW n, InPlace(r, cs), Covers(r, cs, n), q.fifo = r.fifo,
           r.run \notin {"queued"} \cup RunningPlaces, q.run \notin {"queued"} \cup RunningPlaces
    PROVE  InPlace(q, cs) /\ Covers(q, cs, n)
BY DEF InPlace, Covers, RunningPlaces

\* The call at the head begins to run, or goes on.
LEMMA CallMoves ==
    ASSUME NEW r, NEW cs, NEW ds, NEW n, NEW c \in Calls, IsRuntime(r), AreCalls(cs),
           InPlace(r, cs), r.fifo # <<>>, r.fifo[1] = c, DOMAIN ds = Calls,
           \A d \in Calls \ {c} : ds[d] = cs[d],
           IsCall(ds[c]), Busy(ds[c]), ds[c].covers = n
    PROVE  AreCalls(ds) /\ InPlace(r, ds) /\ Covers(r, ds, n)
<1>1. AreCalls(ds)
  BY DEF AreCalls
<1>2. r.fifo \in Seq(Members) /\ In(r.fifo, c)
  BY HeadIn DEF IsRuntime
<1>3. c # Owner /\ r.run \notin RunningPlaces /\ \A d \in Calls \ {c} : ~Busy(ds[d])
  BY SchedulesAssumption DEF InPlace
<1>4. ds[c].pc # "none"
  BY DEF Busy
<1>5. InPlace(r, ds)
  BY <1>2, <1>3, <1>4 DEF InPlace
<1>6. Covers(r, ds, n)
  BY <1>3 DEF Covers, RunningPlaces
<1> QED BY <1>1, <1>5, <1>6

\* A call joins.
LEMMA CallJoins ==
    ASSUME NEW r, NEW cs, NEW ds, NEW n, NEW c \in Calls, IsRuntime(r), AreCalls(cs),
           InPlace(r, cs), Covers(r, cs, n), cs[c].pc = "none", DOMAIN ds = Calls,
           \A d \in Calls \ {c} : ds[d] = cs[d], IsCall(ds[c]), ds[c].pc = "queued"
    PROVE  LET q == [r EXCEPT !.fifo = Append(@, c)] IN
           IsRuntime(q) /\ AreCalls(ds) /\ InPlace(q, ds) /\ Covers(q, ds, n)
<1> DEFINE q == [r EXCEPT !.fifo = Append(@, c)]
<1>1. /\ r.fifo \in Seq(Members) /\ c \in Members /\ c # Owner
      /\ q.fifo = Append(r.fifo, c) /\ q.run = r.run /\ q.covers = r.covers
  BY SchedulesAssumption DEF IsRuntime, Members
<1>2. Once(r.fifo) /\ ~In(r.fifo, c)
  BY DEF InPlace
<1>3. /\ q.fifo \in Seq(Members) /\ Once(q.fifo)
      /\ \A y : In(q.fifo, y) <=> In(r.fifo, y) \/ y = c
      /\ r.fifo # <<>> => q.fifo[1] = r.fifo[1]
  BY <1>1, <1>2, Joined
<1>4. IsRuntime(q)
  BY <1>3 DEF IsRuntime
<1>5. AreCalls(ds)
  BY DEF AreCalls
<1>6. ~Busy(ds[c])
  BY DEF Busy
<1>7. ASSUME NEW d \in Calls
      PROVE  (ds[d].pc # "none" <=> In(q.fifo, d)) /\ (Busy(ds[d]) => q.fifo[1] = d)
  <2>1. CASE d = c
    BY <2>1, <1>3, <1>6
  <2>2. CASE d # c
    BY <2>2, <1>3, RunnerIsHead DEF InPlace
  <2> QED BY <2>1, <2>2
<1>8. q.run \in {"queued"} \cup RunningPlaces <=> In(q.fifo, Owner)
  BY <1>1, <1>3 DEF InPlace
<1>9. q.run \in RunningPlaces => q.fifo[1] = Owner
  BY <1>1, <1>3, RunnerIsHead
<1>10. InPlace(q, ds)
  BY <1>3, <1>7, <1>8, <1>9 DEF InPlace
<1>11. Covers(q, ds, n)
  BY <1>1, <1>6 DEF Covers
<1> QED BY <1>4, <1>5, <1>10, <1>11

-----------------------------------------------------------------------------
(* The log. *)

IsSequence(s) == \E S : s \in Seq(S)

\* The concatenation of sequences is a sequence.
LEMMA Concatenated ==
    ASSUME NEW s, NEW t, IsSequence(s), IsSequence(t)
    PROVE  /\ IsSequence(s \o t) /\ Len(s \o t) = Len(s) + Len(t)
           /\ Len(s) \in Nat /\ Len(t) \in Nat
<1>1. PICK S, T : s \in Seq(S) /\ t \in Seq(T)
  BY DEF IsSequence
<1>2. s \in Seq(S \cup T) /\ t \in Seq(S \cup T)
  BY <1>1
<1>3. s \o t \in Seq(S \cup T) /\ Len(s \o t) = Len(s) + Len(t)
  BY <1>2
<1> QED BY <1>1, <1>3 DEF IsSequence

\* A sequence with one more element is one.
LEMMA Appended ==
    ASSUME NEW s, NEW e, IsSequence(s)
    PROVE  /\ IsSequence(Append(s, e)) /\ Len(Append(s, e)) = Len(s) + 1 /\ Len(s) \in Nat
           /\ Append(s, e)[Len(s) + 1] = e
<1>1. PICK S : s \in Seq(S)
  BY DEF IsSequence
<1>2. s \in Seq(S \cup {e})
  BY <1>1
<1>3. Append(s, e) \in Seq(S \cup {e}) /\ Len(Append(s, e)) = Len(s) + 1
  BY <1>2
<1> QED BY <1>1, <1>3 DEF IsSequence

\* The beginning of a sequence is one.
LEMMA Cut ==
    ASSUME NEW s, IsSequence(s), NEW n \in 0..Len(s)
    PROVE  IsSequence(SubSeq(s, 1, n)) /\ Len(SubSeq(s, 1, n)) = n
<1>1. PICK S : s \in Seq(S)
  BY DEF IsSequence
<1>2. SubSeq(s, 1, n) \in Seq(S) /\ Len(SubSeq(s, 1, n)) = n
  BY <1>1
<1> QED BY <1>2 DEF IsSequence

\* What the maintenance task appends is a message and one record per member.
LEMMA DeliveredIs ==
    ASSUME NEW active, NEW batch, NEW ids \in Orders(active, batch), NEW t
    PROVE  IsSequence(Delivered(active, ids, t))
<1>1. PICK n \in 0..MaxIds : ids \in [1..n -> batch]
  BY DEF Orders
<1>2. n \in Nat
  BY <1>1, ScheduleLogAssumption
<1> DEFINE D == Dispatches(active, ids, t)
           V == {D[k] : k \in 1..n}
<1>3. D \in [1..n -> V]
  BY <1>1 DEF Dispatches
<1>4. D \in Seq(V)
  BY <1>2, <1>3, SeqDef
<1>5. <<Message(active, ids, t)>> \in Seq({Message(active, ids, t)})
  OBVIOUS
<1> HIDE DEF D
<1>6. IsSequence(D) /\ IsSequence(<<Message(active, ids, t)>>)
  BY <1>4, <1>5 DEF IsSequence
<1>7. IsSequence(<<Message(active, ids, t)>> \o D)
  BY <1>6, Concatenated
<1> QED BY <1>7 DEF Delivered, D

\* A flush that covers the log confirms all of it.
LEMMA FlushCovers ==
    ASSUME stored \in 0..Len(log), Len(log) \in Nat
    PROVE  FlushedTo(Len(log)) = Len(log)
BY DEF FlushedTo

-----------------------------------------------------------------------------
(* The inductive invariant. *)

\* A dead process has no transactions.
DownIsEmpty == life = "down" => rt = Fresh /\ calls = [c \in Calls |-> NoCall]

QueueIInv == QueueInv /\ IsSequence(log) /\ DownIsEmpty

Types ==
    /\ stored \in 0..Len(log) /\ now \in Instant
    /\ life \in {"live", "leaving", "stopping", "stopped", "down"}
    /\ agent \in [phase : {"idle", "running", "maintenance", "foreign"}, wake : BOOLEAN]

\* What the invariant says, part by part.
LEMMA QueueIInvGives ==
    ASSUME QueueIInv
    PROVE  /\ Types /\ IsRuntime(rt) /\ AreCalls(calls)
           /\ InPlace(rt, calls) /\ Covers(rt, calls, Len(log))
           /\ IsSequence(log) /\ Len(log) \in Nat
           /\ FlushedTo(Len(log)) = Len(log)
           /\ life = "down" => rt.run = "none" /\ rt.timer = NoTimer /\ rt.idle = "none"
                                /\ rt.fifo = <<>> /\ \A c \in Calls : calls[c].pc = "none"
<1>1. /\ Types /\ IsRuntime(rt) /\ AreCalls(calls)
      /\ InPlace(rt, calls) /\ Covers(rt, calls, Len(log)) /\ IsSequence(log)
  BY QueueInvIs DEF QueueIInv, Types
<1>2. Len(log) \in Nat
  BY <1>1 DEF IsSequence
<1>3. FlushedTo(Len(log)) = Len(log)
  BY <1>1, <1>2, FlushCovers DEF Types
<1>4. life = "down" => rt.run = "none" /\ rt.timer = NoTimer /\ rt.idle = "none"
                       /\ rt.fifo = <<>> /\ \A c \in Calls : calls[c].pc = "none"
  BY DEF QueueIInv, DownIsEmpty, Fresh, NoCall
<1> QED BY <1>1, <1>2, <1>3, <1>4

\* Its parts in the next state give it there.
LEMMA QueueIInvNext ==
    ASSUME Types', IsRuntime(rt'), AreCalls(calls'), InPlace(rt', calls'),
           Covers(rt', calls', Len(log')), IsSequence(log'), DownIsEmpty'
    PROVE  QueueIInv'
BY DEF QueueIInv, QueueInv, TypeOK, Serial, Covered, IsRuntime, Members, AreCalls, IsCall, InPlace,
       Covers, Once, In, Waits, CallRuns, Busy, Types

\* A service that has not started has the invariant.
LEMMA QueueIInvInit == Init => QueueIInv
<1> SUFFICES ASSUME Init PROVE QueueIInv
  OBVIOUS
<1>1. Types
  BY ScheduleLogAssumption DEF Init, Types, Instant
<1>2. IsRuntime(rt)
  BY DEF Init, IsRuntime, Fresh, NoTimer
<1>3. AreCalls(calls) /\ \A c \in Calls : calls[c].pc = "none"
  BY DEF Init, AreCalls, IsCall, NoCall
<1>4. InPlace(rt, calls) /\ Covers(rt, calls, Len(log))
  BY <1>3 DEF Init, InPlace, Covers, Fresh, Once, In, Busy, RunningPlaces
<1>5. log \in Seq({})
  BY DEF Init
<1>6. DownIsEmpty
  BY DEF Init, DownIsEmpty
<1> QED BY <1>1, <1>2, <1>3, <1>4, <1>5, <1>6, QueueInvIs DEF QueueIInv, Types, IsSequence

-----------------------------------------------------------------------------
(* Steps of the owner. *)

\* A drive ends, whatever it noted before.
LEMMA DriveEnds ==
    ASSUME NEW r, NEW q, NEW cs, NEW n, IsRuntime(r), InPlace(r, cs), r.run \in RunningPlaces,
           IsRuntime(q), q.fifo = r.fifo, q.run = r.run, q.covers = r.covers
    PROVE  /\ IsRuntime(Ended(q)) /\ InPlace(Ended(q), cs) /\ Covers(Ended(q), cs, n)
           /\ IsRuntime(SetAside(q)) /\ InPlace(SetAside(q), cs) /\ Covers(SetAside(q), cs, n)
<1>1. r.fifo # <<>> /\ r.fifo[1] = Owner
  BY RunnerIsHead
<1>2. InPlace(q, cs)
  BY DEF InPlace
<1>3. IsRuntime(Ended(q)) /\ InPlace(Ended(q), cs) /\ Covers(Ended(q), cs, n)
  BY <1>1, <1>2, OwnerLeaves
<1>4. /\ IsRuntime(SetAside(q)) /\ SetAside(q).fifo = Ended(q).fifo
      /\ SetAside(q).run = Ended(q).run /\ SetAside(q).covers = Ended(q).covers
  BY <1>3 DEF SetAside, IsRuntime
<1>5. InPlace(SetAside(q), cs) /\ Covers(SetAside(q), cs, n)
  BY <1>3, <1>4, Alike
<1> QED BY <1>3, <1>4, <1>5

\* Arming a timer changes nothing else.
LEMMA WaitingIs ==
    ASSUME NEW r, NEW active, NEW t, IsRuntime(r)
    PROVE  LET q == Waiting(r, active, t) IN
           IsRuntime(q) /\ q.fifo = r.fifo /\ q.run = r.run /\ q.covers = r.covers
BY DEF Waiting, IsRuntime

\* The steps of a drive outside maintenance.
LEMMA DriveSteps ==
    ASSUME QueueIInv,
           DriveBegins \/ PreflightFails \/ PreflightWaits \/ PreflightFindsBusy
           \/ Releases \/ BarrierSettles
    PROVE  QueueIInv'
<1>1. /\ Types /\ IsRuntime(rt) /\ AreCalls(calls)
      /\ InPlace(rt, calls) /\ Covers(rt, calls, Len(log))
      /\ IsSequence(log) /\ Len(log) \in Nat
      /\ FlushedTo(Len(log)) = Len(log)
  BY QueueIInvGives
<1>2. life # "down" /\ life' = life
  BY QueueIInvGives DEF DriveBegins, PreflightFails, PreflightWaits, PreflightFindsBusy, Releases,
     BarrierSettles
<1>3. DownIsEmpty'
  BY <1>2 DEF DownIsEmpty
<1>4. UNCHANGED <<log, calls, now>>
  BY DEF DriveBegins, PreflightFails, PreflightWaits, PreflightFindsBusy, Releases,
     BarrierSettles, durable
<1>5. stored' = stored \/ (rt.run \in {"preflight", "barrier"} /\ stored' = FlushedTo(rt.covers))
  BY DEF DriveBegins, PreflightFails, PreflightWaits, PreflightFindsBusy, Releases,
     BarrierSettles, durable
<1>6. stored' \in 0..Len(log)
  BY <1>1, <1>5 DEF Types, Covers
<1>7. agent' \in [phase : {"idle", "running", "maintenance", "foreign"}, wake : BOOLEAN]
  <2>1. CASE Releases
    BY <2>1 DEF Releases
  <2>2. CASE ~Releases
    BY <1>1, <2>2 DEF Types, DriveBegins, PreflightFails, PreflightWaits, PreflightFindsBusy,
       BarrierSettles
  <2> QED BY <2>1, <2>2
<1>8. Types'
  BY <1>1, <1>2, <1>4, <1>6, <1>7 DEF Types
<1>9. IsRuntime(rt') /\ InPlace(rt', calls) /\ Covers(rt', calls, Len(log))
  <2>1. CASE DriveBegins
    <3> DEFINE r == [rt EXCEPT !.timer = NoTimer, !.aside = FALSE]
               q == [r EXCEPT !.run = "preflight", !.covers = Len(log)]
    <3>1. /\ IsRuntime(r) /\ r.fifo = rt.fifo /\ r.run = rt.run /\ r.covers = rt.covers
          /\ r.fifo # <<>> /\ r.fifo[1] = Owner
      BY <1>1, <2>1 DEF IsRuntime, DriveBegins, TurnOf
    <3>2. InPlace(r, calls)
      BY <1>1, <3>1, Alike
    <3>3. CASE ~Runnable
      <4>1. rt' = Ended(r)
        BY <2>1, <3>3 DEF DriveBegins
      <4> QED BY <4>1, <3>1, <3>2, OwnerLeaves
    <3>4. CASE Runnable
      <4>1. rt' = q
        BY <2>1, <3>4 DEF DriveBegins
      <4>2. IsRuntime(q) /\ q.fifo = r.fifo /\ q.run = "preflight" /\ q.covers = Len(log)
        BY <3>1, <1>1 DEF IsRuntime, RunningPlaces
      <4>3. InPlace(q, calls) /\ Covers(q, calls, Len(log))
        BY <3>1, <3>2, <4>2, OwnerMoves DEF RunningPlaces
      <4> QED BY <4>1, <4>2, <4>3
    <3> QED BY <3>3, <3>4
  <2>2. CASE PreflightFails
    <3>1. rt.run \in RunningPlaces /\ (rt' = SetAside(rt) \/ rt' = Ended(rt))
      BY <2>2 DEF PreflightFails, RunningPlaces
    <3> QED BY <3>1, <1>1, DriveEnds
  <2>3. CASE PreflightWaits
    <3>1. rt.run \in RunningPlaces /\ rt' = Ended(Waiting(rt, Active(log), now))
      BY <2>3 DEF PreflightWaits, RunningPlaces
    <3> QED BY <3>1, <1>1, WaitingIs, DriveEnds
  <2>4. CASE PreflightFindsBusy
    <3>1. rt.run \in RunningPlaces /\ rt' = WaitsForIdle(rt)
      BY <2>4 DEF PreflightFindsBusy, RunningPlaces
    <3>2. IsRuntime(Ended(rt)) /\ InPlace(Ended(rt), calls) /\ Covers(Ended(rt), calls, Len(log))
      BY <3>1, <1>1, DriveEnds
    <3>3. /\ IsRuntime(rt') /\ rt'.fifo = Ended(rt).fifo
          /\ rt'.run = Ended(rt).run /\ rt'.covers = Ended(rt).covers
      BY <3>1, <3>2 DEF WaitsForIdle, IsRuntime
    <3> QED BY <3>2, <3>3, Alike
  <2>5. CASE Releases
    <3> DEFINE q == [rt EXCEPT !.run = "barrier", !.covers = Len(log), !.sent = FALSE]
    <3>1. rt.run \in RunningPlaces /\ (rt' = q \/ rt' = Ended(rt))
      BY <2>5 DEF Releases, RunningPlaces
    <3>2. IsRuntime(q) /\ q.fifo = rt.fifo /\ q.run = "barrier" /\ q.covers = Len(log)
      BY <1>1 DEF IsRuntime, RunningPlaces
    <3>3. rt.fifo # <<>> /\ rt.fifo[1] = Owner
      BY <3>1, <1>1, RunnerIsHead
    <3>4. InPlace(q, calls) /\ Covers(q, calls, Len(log))
      BY <3>2, <3>3, <1>1, OwnerMoves DEF RunningPlaces
    <3> QED BY <3>1, <3>2, <3>4, <1>1, DriveEnds
  <2>6. CASE BarrierSettles
    <3>1. rt.run = "barrier" /\ rt.run \in RunningPlaces
      BY <2>6 DEF BarrierSettles, RunningPlaces
    <3>2. /\ IsRuntime(Requested(rt)) /\ InPlace(Requested(rt), calls)
          /\ Covers(Requested(rt), calls, Len(log))
      BY <1>1, RequestKeeps
    <3>3. rt.fifo # <<>> /\ rt.fifo[1] = Owner
      BY <3>1, <1>1, RunnerIsHead
    <3>4. Requested(rt).fifo # <<>> /\ Requested(rt).fifo[1] = Owner
      BY <3>3, <1>1, RequestKeeps
    <3>5. /\ IsRuntime(Ended(Requested(rt))) /\ InPlace(Ended(Requested(rt)), calls)
          /\ Covers(Ended(Requested(rt)), calls, Len(log))
      BY <3>2, <3>4, OwnerLeaves
    <3>6. rt' = Ended(Requested(rt)) \/ rt' = Ended(rt) \/ rt' = SetAside(rt)
      BY <2>6 DEF BarrierSettles
    <3>7. /\ IsRuntime(Ended(rt)) /\ InPlace(Ended(rt), calls)
          /\ Covers(Ended(rt), calls, Len(log))
          /\ IsRuntime(SetAside(rt)) /\ InPlace(SetAside(rt), calls)
          /\ Covers(SetAside(rt), calls, Len(log))
      BY <3>1, <1>1, DriveEnds
    <3> QED BY <3>5, <3>6, <3>7
  <2> QED BY <2>1, <2>2, <2>3, <2>4, <2>5, <2>6
<1> QED BY <1>1, <1>3, <1>4, <1>8, <1>9, QueueIInvNext

\* The maintenance task: the log grows by a part of what is delivered, and the owner
\* stays at the head.
LEMMA MaintainsStep ==
    ASSUME QueueIInv, Maintains
    PROVE  QueueIInv' /\ stored' = Len(log)
<1>1. /\ Types /\ IsRuntime(rt) /\ AreCalls(calls)
      /\ InPlace(rt, calls) /\ Covers(rt, calls, Len(log))
      /\ IsSequence(log) /\ Len(log) \in Nat
      /\ FlushedTo(Len(log)) = Len(log)
  BY QueueIInvGives
<1>2. rt.run = "preflight" /\ rt.run \in RunningPlaces /\ Runnable
  BY DEF Maintains, RunningPlaces
<1>3. stored' = Len(log) /\ UNCHANGED <<life, calls>>
  BY <1>1, <1>2 DEF Maintains, Covers
<1> DEFINE active == Active(log)
           held == [rt EXCEPT !.run = "maintaining", !.covers = 0]
<1>4. IsRuntime(held) /\ held.fifo = rt.fifo /\ held.run = "maintaining"
  BY <1>1 DEF IsRuntime, RunningPlaces
<1>5. PICK t \in Instant :
        \E ids \in Orders(active, Batch(active, DecidesAt(t))) : now' = t /\ Task(t, ids)
  BY DEF Maintains
<1>6. PICK ids \in Orders(active, Batch(active, DecidesAt(t))) : now' = t /\ Task(t, ids)
  BY <1>5
<1>7. \/ /\ rt' = Waiting(held, active, DecidesAt(t))
        /\ agent' = [agent EXCEPT !.phase = "maintenance"]
        /\ UNCHANGED log
     \/ /\ rt' = [held EXCEPT !.aside = TRUE]
        /\ agent' = [agent EXCEPT !.phase = "maintenance"]
        /\ UNCHANGED log
     \/ /\ \E n \in 1..Len(Delivered(active, ids, DecidesAt(t))) - 1 :
              log' = log \o SubSeq(Delivered(active, ids, DecidesAt(t)), 1, n)
        /\ rt' = FaultsAfterAppend(held)
        /\ agent' = [phase |-> "maintenance", wake |-> TRUE]
     \/ /\ log' = log \o Delivered(active, ids, DecidesAt(t))
        /\ rt' = [held EXCEPT !.sent = TRUE]
        /\ agent' = [phase |-> "maintenance", wake |-> TRUE]
  BY <1>6 DEF Task
<1> DEFINE all == Delivered(active, ids, DecidesAt(t))
<1>8. IsSequence(all) /\ Len(all) \in Nat
  BY DeliveredIs DEF IsSequence
<1>9. IsSequence(log') /\ Len(log') \in Nat /\ Len(log) <= Len(log')
  <2>1. CASE log' = log
    BY <2>1, <1>1
  <2>2. CASE \E n \in 1..Len(all) - 1 : log' = log \o SubSeq(all, 1, n)
    <3>1. PICK n \in 1..Len(all) - 1 : log' = log \o SubSeq(all, 1, n)
      BY <2>2
    <3>2. n \in 0..Len(all) /\ n \in Nat
      BY <1>8
    <3> HIDE DEF all
    <3>3. IsSequence(SubSeq(all, 1, n)) /\ Len(SubSeq(all, 1, n)) = n
      BY <1>8, <3>2, Cut
    <3>4. IsSequence(log') /\ Len(log') = Len(log) + n
      BY <1>1, <3>1, <3>3, Concatenated
    <3> QED BY <3>2, <3>4, <1>1
  <2>3. CASE log' = log \o all
    <3> HIDE DEF all
    <3>1. IsSequence(log') /\ Len(log') = Len(log) + Len(all)
      BY <2>3, <1>1, <1>8, Concatenated
    <3> QED BY <3>1, <1>1, <1>8
  <2> QED BY <1>7, <2>1, <2>2, <2>3
<1>10. IsRuntime(rt') /\ rt'.fifo = rt.fifo /\ rt'.run = "maintaining"
  <2> HIDE DEF held
  <2>1. LET q == Waiting(held, active, DecidesAt(t)) IN
        IsRuntime(q) /\ q.fifo = rt.fifo /\ q.run = "maintaining"
    BY <1>4, WaitingIs
  <2>2. LET q == [held EXCEPT !.aside = TRUE] IN
        IsRuntime(q) /\ q.fifo = rt.fifo /\ q.run = "maintaining"
    BY <1>4 DEF IsRuntime
  <2>3. LET q == FaultsAfterAppend(held) IN
        IsRuntime(q) /\ q.fifo = rt.fifo /\ q.run = "maintaining"
    BY <1>4 DEF IsRuntime, FaultsAfterAppend
  <2>4. LET q == [held EXCEPT !.sent = TRUE] IN
        IsRuntime(q) /\ q.fifo = rt.fifo /\ q.run = "maintaining"
    BY <1>4 DEF IsRuntime
  <2> QED BY <1>7, <2>1, <2>2, <2>3, <2>4
<1>11. InPlace(rt', calls') /\ Covers(rt', calls', Len(log'))
  <2>1. rt.fifo # <<>> /\ rt.fifo[1] = Owner
    BY <1>1, <1>2, RunnerIsHead
  <2> QED BY <2>1, <1>1, <1>3, <1>10, OwnerMoves DEF RunningPlaces
<1>12. agent' \in [phase : {"idle", "running", "maintenance", "foreign"}, wake : BOOLEAN]
  <2>1. [agent EXCEPT !.phase = "maintenance"]
            \in [phase : {"idle", "running", "maintenance", "foreign"}, wake : BOOLEAN]
    BY <1>1 DEF Types
  <2> HIDE DEF held, all
  <2>2. \/ agent' = [agent EXCEPT !.phase = "maintenance"]
        \/ agent' = [phase |-> "maintenance", wake |-> TRUE]
    BY <1>7
  <2>3. [phase |-> "maintenance", wake |-> TRUE]
            \in [phase : {"idle", "running", "maintenance", "foreign"}, wake : BOOLEAN]
    OBVIOUS
  <2>4. CASE agent' = [agent EXCEPT !.phase = "maintenance"]
    BY <2>1, <2>4
  <2>5. CASE agent' = [phase |-> "maintenance", wake |-> TRUE]
    BY <2>3, <2>5
  <2> QED BY <2>2, <2>4, <2>5
<1>13. Types'
  BY <1>1, <1>3, <1>6, <1>9, <1>12 DEF Types
<1>14. DownIsEmpty'
  BY <1>2, <1>3 DEF DownIsEmpty, Runnable
<1> QED BY <1>1, <1>3, <1>9, <1>10, <1>11, <1>13, <1>14, QueueIInvNext

\* Steps between and outside drives.
LEMMA TriggerSteps ==
    ASSUME QueueIInv, Loops \/ Retires \/ TimerFires \/ IdleSeen \/ IdleWaitEnds
    PROVE  QueueIInv'
<1>1. /\ Types /\ IsRuntime(rt) /\ AreCalls(calls)
      /\ InPlace(rt, calls) /\ Covers(rt, calls, Len(log))
      /\ IsSequence(log)
  BY QueueIInvGives
<1>2. life # "down"
  BY QueueIInvGives DEF Loops, Retires, TimerFires, IdleSeen, IdleWaitEnds
<1>3. UNCHANGED <<log, stored, now, life, agent, calls>>
  BY DEF Loops, Retires, TimerFires, IdleSeen, IdleWaitEnds, durable
<1>4. IsRuntime(rt') /\ InPlace(rt', calls) /\ Covers(rt', calls, Len(log))
  <2>1. CASE Loops
    <3> DEFINE q == [rt EXCEPT !.run = "retiring"]
    <3>1. rt.run \notin {"queued"} \cup RunningPlaces /\ (rt' = Queued(rt) \/ rt' = q)
      BY <2>1 DEF Loops, RunningPlaces
    <3>2. IsRuntime(q) /\ q.fifo = rt.fifo /\ q.run \notin {"queued"} \cup RunningPlaces
      BY <1>1 DEF IsRuntime, RunningPlaces
    <3>3. InPlace(q, calls) /\ Covers(q, calls, Len(log))
      BY <3>1, <3>2, <1>1, RunMoves
    <3> QED BY <3>1, <3>2, <3>3, <1>1, OwnerJoins
  <2>2. CASE Retires
    <3> DEFINE q == [rt EXCEPT !.run = "none"]
    <3>1. rt.run \notin {"queued"} \cup RunningPlaces /\ (rt' = Requested(q) \/ rt' = q)
      BY <2>2 DEF Retires, Retired, RunningPlaces
    <3>2. IsRuntime(q) /\ q.fifo = rt.fifo /\ q.run \notin {"queued"} \cup RunningPlaces
      BY <1>1 DEF IsRuntime, RunningPlaces
    <3>3. InPlace(q, calls) /\ Covers(q, calls, Len(log))
      BY <3>1, <3>2, <1>1, RunMoves
    <3> HIDE DEF q
    <3> QED BY <3>1, <3>2, <3>3, RequestKeeps
  <2>3. CASE TimerFires
    <3> DEFINE q == [rt EXCEPT !.timer = NoTimer]
    <3>1. IsRuntime(q) /\ q.fifo = rt.fifo /\ q.run = rt.run /\ q.covers = rt.covers
      BY <1>1 DEF IsRuntime
    <3>2. rt' = Requested(q)
      BY <2>3 DEF TimerFires
    <3> HIDE DEF q
    <3> QED BY <3>1, <3>2, <1>1, Alike, RequestKeeps
  <2>4. CASE IdleSeen
    <3>1. IsRuntime(rt') /\ rt'.fifo = rt.fifo /\ rt'.run = rt.run /\ rt'.covers = rt.covers
      BY <2>4, <1>1 DEF IsRuntime, IdleSeen
    <3> QED BY <3>1, <1>1, Alike
  <2>5. CASE IdleWaitEnds
    <3> DEFINE q == [rt EXCEPT !.idle = "none"]
    <3>1. IsRuntime(q) /\ q.fifo = rt.fifo /\ q.run = rt.run /\ q.covers = rt.covers
      BY <1>1 DEF IsRuntime
    <3>2. rt' = Requested(q)
      BY <2>5 DEF IdleWaitEnds
    <3> HIDE DEF q
    <3> QED BY <3>1, <3>2, <1>1, Alike, RequestKeeps
  <2> QED BY <2>1, <2>2, <2>3, <2>4, <2>5
<1>5. Types'
  BY <1>1, <1>3 DEF Types
<1>6. DownIsEmpty'
  BY <1>2, <1>3 DEF DownIsEmpty
<1> QED BY <1>1, <1>3, <1>4, <1>5, <1>6, QueueIInvNext

-----------------------------------------------------------------------------
(* Steps of a call. *)

\* The head's call returns, with or without a request to the owner.
LEMMA CallReturns ==
    ASSUME QueueIInv, NEW c \in Calls, Returns(c), rt.fifo # <<>>, rt.fifo[1] = c,
           rt' = Left(rt) \/ rt' = Left(Requested(rt)),
           stored' \in 0..Len(log), UNCHANGED <<log, now, life, agent>>
    PROVE  QueueIInv'
<1>1. /\ Types /\ IsRuntime(rt) /\ AreCalls(calls)
      /\ InPlace(rt, calls) /\ Covers(rt, calls, Len(log))
      /\ IsSequence(log) /\ life # "down"
  BY QueueIInvGives
<1>2. /\ IsRuntime(Requested(rt)) /\ InPlace(Requested(rt), calls)
      /\ Requested(rt).fifo # <<>> /\ Requested(rt).fifo[1] = c
  BY <1>1, RequestKeeps
<1>3. calls' = [calls EXCEPT ![c] = NoCall]
  BY DEF Returns
<1>4. CASE rt' = Left(rt)
  <2>1. IsRuntime(rt') /\ AreCalls(calls') /\ InPlace(rt', calls') /\ Covers(rt', calls', Len(log'))
    BY <1>1, <1>3, <1>4, CallLeaves
  <2> QED BY <2>1, <1>1, QueueIInvNext DEF Types, DownIsEmpty
<1>5. CASE rt' = Left(Requested(rt))
  <2>1. IsRuntime(rt') /\ AreCalls(calls') /\ InPlace(rt', calls') /\ Covers(rt', calls', Len(log'))
    BY <1>1, <1>2, <1>3, <1>5, CallLeaves
  <2> QED BY <2>1, <1>1, QueueIInvNext DEF Types, DownIsEmpty
<1> QED BY <1>4, <1>5

\* A call invoked queues; its turn comes.
LEMMA CallStarts ==
    ASSUME QueueIInv, NEW c \in Calls, Invoke(c) \/ CallBegins(c)
    PROVE  QueueIInv'
<1>1. /\ Types /\ IsRuntime(rt) /\ AreCalls(calls)
      /\ InPlace(rt, calls) /\ Covers(rt, calls, Len(log))
      /\ IsSequence(log) /\ Len(log) \in Nat
  BY QueueIInvGives
<1>2. /\ life # "down" /\ UNCHANGED <<stored, log, now, life, agent>>
  BY QueueIInvGives DEF Invoke, CallBegins, durable, Runnable
<1>3. Types' /\ DownIsEmpty' /\ IsSequence(log')
  BY <1>1, <1>2 DEF Types, DownIsEmpty
<1>4. CASE Invoke(c)
  <2>1. PICK q \in Requests :
          calls' = [calls EXCEPT ![c] = [pc |-> "queued", op |-> q.op, n |-> q.n, covers |-> 0]]
    BY <1>4 DEF Invoke
  <2>2. /\ DOMAIN calls' = Calls /\ \A d \in Calls \ {c} : calls'[d] = calls[d]
        /\ calls'[c] = [pc |-> "queued", op |-> q.op, n |-> q.n, covers |-> 0]
    BY <2>1, <1>1 DEF AreCalls
  <2>3. IsCall(calls'[c]) /\ calls'[c].pc = "queued"
    BY <2>2 DEF IsCall
  <2>4. rt' = [rt EXCEPT !.fifo = Append(@, c)] /\ calls[c].pc = "none"
    BY <1>4 DEF Invoke
  <2>5. IsRuntime(rt') /\ AreCalls(calls') /\ InPlace(rt', calls') /\ Covers(rt', calls', Len(log))
    BY <1>1, <2>2, <2>3, <2>4, CallJoins
  <2> QED BY <2>5, <1>2, <1>3, QueueIInvNext
<1>5. CASE CallBegins(c)
  <2>1. rt.fifo # <<>> /\ rt.fifo[1] = c /\ calls[c].pc = "queued"
    BY <1>5 DEF CallBegins, TurnOf
  <2>2. CASE Returns(c) /\ rt' = Left(rt)
    BY <2>1, <2>2, <1>1, <1>2, CallReturns DEF Types
  <2>3. CASE /\ calls' = [calls EXCEPT ![c].pc = "preflight", ![c].covers = Len(log)]
             /\ rt' = rt
    <3>1. /\ DOMAIN calls' = Calls /\ \A d \in Calls \ {c} : calls'[d] = calls[d]
          /\ calls'[c] = [calls[c] EXCEPT !.pc = "preflight", !.covers = Len(log)]
      BY <2>3, <1>1 DEF AreCalls
    <3>2. IsCall(calls[c])
      BY <1>1 DEF AreCalls
    <3>3. IsCall(calls'[c]) /\ Busy(calls'[c]) /\ calls'[c].covers = Len(log)
      BY <3>1, <3>2, <1>1 DEF IsCall, Busy
    <3>4. AreCalls(calls') /\ InPlace(rt, calls') /\ Covers(rt, calls', Len(log))
      BY <3>1, <3>3, <2>1, <1>1, CallMoves
    <3> QED BY <3>4, <2>3, <1>1, <1>2, <1>3, QueueIInvNext
  <2> QED BY <1>5, <2>2, <2>3 DEF CallBegins
<1> QED BY <1>4, <1>5

\* A change is appended.
LEMMA CallAppends ==
    ASSUME QueueIInv, NEW c \in Calls, NEW e, Appends(c, e)
    PROVE  QueueIInv' /\ stored' = Len(log)
<1>1. /\ Types /\ IsRuntime(rt) /\ AreCalls(calls)
      /\ InPlace(rt, calls) /\ Covers(rt, calls, Len(log))
      /\ IsSequence(log) /\ Len(log) \in Nat /\ FlushedTo(Len(log)) = Len(log)
  BY QueueIInvGives
<1>2. Busy(calls[c]) /\ life # "down" /\ UNCHANGED <<now, life, agent>>
  BY QueueIInvGives DEF Appends, Reads, Busy
<1>3. rt.fifo # <<>> /\ rt.fifo[1] = c
  BY <1>1, <1>2, RunnerIsHead
<1>4. stored' = Len(log)
  BY <1>1, <1>2 DEF Appends, Reads, Covers
<1>5. IsSequence(log') /\ Len(log') = Len(log) + 1
  BY <1>1, Appended DEF Appends
<1>6. /\ DOMAIN calls' = Calls /\ \A d \in Calls \ {c} : calls'[d] = calls[d]
      /\ calls'[c] = [calls[c] EXCEPT !.pc = "barrier", !.covers = Len(log) + 1,
                                     !.op = e.op, !.n = e.id]
  BY <1>1 DEF Appends, AreCalls
<1>7. IsCall(calls[c])
  BY <1>1 DEF AreCalls
<1>8. IsCall(calls'[c]) /\ Busy(calls'[c]) /\ calls'[c].covers = Len(log')
  <2> DEFINE o == e.op
             i == e.id
  <2> HIDE DEF o, i
  <2>1. calls'[c] = [calls[c] EXCEPT !.pc = "barrier", !.covers = Len(log) + 1, !.op = o, !.n = i]
    BY <1>6 DEF o, i
  <2>2. /\ calls'[c] \in [pc : {"barrier"}, op : {o}, n : {i}, covers : {Len(log) + 1}]
    BY <2>1, <1>7 DEF IsCall
  <2>3. calls'[c].pc = "barrier" /\ calls'[c].op = o /\ calls'[c].n = i
        /\ calls'[c].covers = Len(log) + 1 /\ Len(log) + 1 \in Nat
    BY <2>2, <1>1
  <2> QED BY <2>2, <2>3, <1>5 DEF IsCall, Busy
<1>9. AreCalls(calls') /\ InPlace(rt, calls') /\ Covers(rt, calls', Len(log'))
  BY <1>1, <1>3, <1>6, <1>8, CallMoves
<1>10. rt' = Requested(rt)
  BY DEF Appends
<1>11. IsRuntime(rt') /\ InPlace(rt', calls') /\ Covers(rt', calls', Len(log'))
  BY <1>1, <1>9, <1>10, RequestKeeps
<1>12. Types' /\ DownIsEmpty'
  BY <1>1, <1>2, <1>4, <1>5 DEF Types, DownIsEmpty
<1> QED BY <1>4, <1>5, <1>9, <1>11, <1>12, QueueIInvNext

\* Every step of a call; what a caller is told was confirmed before.
LEMMA CallSteps ==
    ASSUME QueueIInv, NEW c \in Calls, CallStep(c)
    PROVE  QueueIInv' /\ (log' # log \/ told' # told => stored' >= Len(log))
<1>1. /\ Types /\ IsRuntime(rt) /\ InPlace(rt, calls) /\ Covers(rt, calls, Len(log))
      /\ Len(log) \in Nat /\ FlushedTo(Len(log)) = Len(log)
  BY QueueIInvGives
<1>2. CASE CallBegins(c)
  BY <1>2, CallStarts DEF CallBegins, history, durable
<1>3. CASE CallFails(c)
  <2>1. Busy(calls[c]) /\ Returns(c) /\ rt' = Left(rt) /\ told' = told
        /\ UNCHANGED <<stored, log, now, life, agent>>
    BY <1>3 DEF CallFails, Busy, history, durable
  <2>2. rt.fifo # <<>> /\ rt.fifo[1] = c
    BY <2>1, <1>1, RunnerIsHead
  <2> QED BY <2>1, <2>2, <1>1, CallReturns DEF Types
<1>4. CASE CallAnswers(c) \/ CallConfirms(c)
  <2>1. Busy(calls[c]) /\ Returns(c) /\ rt' = Left(Requested(rt))
        /\ stored' = FlushedTo(calls[c].covers) /\ UNCHANGED <<log, now, life, agent>>
    BY <1>4 DEF CallAnswers, CallConfirms, Reads, Busy
  <2>2. rt.fifo # <<>> /\ rt.fifo[1] = c /\ stored' = Len(log)
    BY <2>1, <1>1, RunnerIsHead DEF Covers
  <2>3. QueueIInv'
    BY <2>1, <2>2, <1>1, CallReturns
  <2> QED BY <2>2, <2>3, <1>1
<1>5. CASE CallCreates(c) \/ CallDeletes(c)
  <2>1. \E e : Appends(c, e)
    BY <1>5 DEF CallCreates, CallDeletes
  <2> QED BY <2>1, <1>1, CallAppends
<1> QED BY <1>2, <1>3, <1>4, <1>5 DEF CallStep

-----------------------------------------------------------------------------
(* Steps of the agent, the clock and the process. *)

\* Whatever happens outside the queue keeps the invariant, tells nobody anything
\* and adds nothing to the log.
LEMMA OutsideSteps ==
    ASSUME QueueIInv, Outside
    PROVE  QueueIInv' /\ told' = told /\ (log' = log \/ Len(log') <= Len(log))
<1>1. /\ Types /\ IsRuntime(rt) /\ AreCalls(calls)
      /\ InPlace(rt, calls) /\ Covers(rt, calls, Len(log))
      /\ IsSequence(log) /\ Len(log) \in Nat
  BY QueueIInvGives
<1>2. told' = told
  BY DEF Outside, Prompted, MaintenanceBegins, MaintenanceEnds, Cancel, TurnEnds, Tick, Rollback,
     Departs, Stops, Disposed, Leaves, Resumes, history
<1>3. CASE Prompted \/ MaintenanceBegins \/ MaintenanceEnds \/ Cancel \/ Tick \/ Rollback
           \/ Departs \/ Disposed
  <2>1. UNCHANGED <<rt, calls, log, stored>>
    BY <1>3 DEF Prompted, MaintenanceBegins, MaintenanceEnds, Cancel, Tick, Rollback, Departs,
       Disposed, durable
  <2>2. /\ now' \in Instant
        /\ life' \in {"live", "leaving", "stopping", "stopped", "down"}
    <3>1. CASE Tick
      BY <3>1, <1>1, ScheduleLogAssumption DEF Tick, Types, Instant
    <3>2. CASE Rollback
      BY <3>2, <1>1 DEF Rollback, Types
    <3>3. CASE Departs \/ Disposed
      BY <3>3, <1>1 DEF Departs, Disposed, Types
    <3>4. CASE Prompted \/ MaintenanceBegins \/ MaintenanceEnds \/ Cancel
      BY <3>4, <1>1 DEF Prompted, MaintenanceBegins, MaintenanceEnds, Cancel, Types
    <3> QED BY <1>3, <3>1, <3>2, <3>3, <3>4
  <2>3. agent' \in [phase : {"idle", "running", "maintenance", "foreign"}, wake : BOOLEAN]
    <3>1. CASE MaintenanceEnds
      BY <3>1 DEF MaintenanceEnds
    <3>2. CASE Prompted
      BY <3>2, <1>1 DEF Prompted, Types
    <3>3. CASE MaintenanceBegins \/ Cancel
      BY <3>3, <1>1 DEF MaintenanceBegins, Cancel, Types
    <3>4. CASE Tick \/ Rollback \/ Departs \/ Disposed
      BY <3>4, <1>1 DEF Tick, Rollback, Departs, Disposed, Types
    <3> QED BY <1>3, <3>1, <3>2, <3>3, <3>4
  <2>4. life' = "down" => life = "down"
    BY <1>3 DEF Prompted, MaintenanceBegins, MaintenanceEnds, Cancel, Tick, Rollback, Departs,
       Disposed
  <2>5. Types' /\ DownIsEmpty'
    BY <2>1, <2>2, <2>3, <2>4, <1>1 DEF Types, DownIsEmpty, QueueIInv
  <2> QED BY <2>1, <2>5, <1>1, <1>2, QueueIInvNext
<1>4. CASE TurnEnds
  <2>1. UNCHANGED <<calls, log, stored, now, life>> /\ (rt' = Requested(rt) \/ rt' = rt)
    BY <1>4 DEF TurnEnds, durable
  <2>2. agent' \in [phase : {"idle", "running", "maintenance", "foreign"}, wake : BOOLEAN]
    BY <1>4, <1>1 DEF TurnEnds, Types
  <2>3. IsRuntime(rt') /\ InPlace(rt', calls) /\ Covers(rt', calls, Len(log))
    BY <2>1, <1>1, RequestKeeps
  <2>4. life = "down" => rt' = rt
    BY <2>1 DEF Requested, Stopping
  <2>5. Types' /\ DownIsEmpty'
    BY <2>1, <2>2, <2>4, <1>1 DEF Types, DownIsEmpty, QueueIInv
  <2> QED BY <2>1, <2>3, <2>5, <1>1, <1>2, QueueIInvNext
<1>5. CASE Stops
  <2>1. /\ UNCHANGED <<calls, log, stored, now, agent>> /\ rt' = StoppedRuntime(rt)
        /\ life' = "stopping"
    BY <1>5 DEF Stops, durable
  <2>2. /\ IsRuntime(StoppedRuntime(rt)) /\ StoppedRuntime(rt).fifo = rt.fifo
        /\ StoppedRuntime(rt).run = rt.run /\ StoppedRuntime(rt).covers = rt.covers
    BY <1>1 DEF StoppedRuntime, IsRuntime
  <2>3. IsRuntime(rt') /\ InPlace(rt', calls) /\ Covers(rt', calls, Len(log))
    BY <2>1, <2>2, <1>1, Alike
  <2>4. Types' /\ DownIsEmpty'
    BY <2>1, <1>1 DEF Types, DownIsEmpty
  <2> QED BY <2>1, <2>3, <2>4, <1>1, <1>2, QueueIInvNext
<1>6. CASE Leaves
  <2>1. /\ life' = "down" /\ rt' = Fresh /\ calls' = [c \in Calls |-> NoCall]
        /\ agent' = [phase |-> "idle", wake |-> FALSE] /\ now' = now
    BY <1>6 DEF Leaves
  <2>2. PICK n \in stored..Len(log) : log' = SubSeq(log, 1, n) /\ stored' = n
    BY <1>6 DEF Leaves
  <2>3. n \in 0..Len(log)
    BY <1>1 DEF Types
  <2>4. IsSequence(log') /\ Len(log') = n
    BY <2>2, <2>3, <1>1, Cut
  <2>5. Types' /\ DownIsEmpty'
    BY <2>1, <2>2, <2>3, <2>4, <1>1 DEF Types, DownIsEmpty
  <2>6. IsRuntime(rt')
    BY <2>1 DEF IsRuntime, Fresh, NoTimer
  <2>7. AreCalls(calls') /\ \A c \in Calls : calls'[c].pc = "none"
    BY <2>1 DEF AreCalls, IsCall, NoCall
  <2>8. InPlace(rt', calls') /\ Covers(rt', calls', Len(log'))
    BY <2>1, <2>7 DEF InPlace, Covers, Fresh, Once, In, Busy, RunningPlaces
  <2> QED BY <2>3, <2>4, <2>5, <2>6, <2>7, <2>8, <1>1, <1>2, QueueIInvNext
<1>7. CASE Resumes
  <2>1. /\ UNCHANGED <<calls, log, stored, now, agent>> /\ rt' = Queued(Fresh)
        /\ life = "down" /\ life' = "live"
    BY <1>7 DEF Resumes, durable
  <2>2. rt = Fresh /\ Fresh.run = "none"
    BY <2>1 DEF QueueIInv, DownIsEmpty, Fresh
  <2>3. IsRuntime(rt') /\ InPlace(rt', calls) /\ Covers(rt', calls, Len(log))
    BY <2>1, <2>2, <1>1, OwnerJoins DEF RunningPlaces
  <2>4. Types' /\ DownIsEmpty'
    BY <2>1, <1>1 DEF Types, DownIsEmpty
  <2> QED BY <2>1, <2>3, <2>4, <1>1, <1>2, QueueIInvNext
<1> QED BY <1>3, <1>4, <1>5, <1>6, <1>7 DEF Outside

-----------------------------------------------------------------------------
(* The theorems. *)

\* Every step keeps the invariant, and what is appended or told follows a flush of
\* all there was.
LEMMA QueueStep ==
    ASSUME QueueIInv, [Next]_vars
    PROVE  /\ QueueIInv'
           /\ Len(log') > Len(log) \/ told' # told => stored' >= Len(log)
<1>1. Len(log) \in Nat
  BY QueueIInvGives
<1>2. CASE UNCHANGED vars
  <2>1. UNCHANGED <<log, stored, now, life, rt, agent, calls, told>>
    BY <1>2 DEF vars
  <2>2. QueueIInv'
    BY <2>1, QueueIInvGives, QueueIInvNext DEF Types, DownIsEmpty, QueueIInv
  <2> QED BY <2>1, <2>2, <1>1
<1>3. CASE DriveBegins \/ PreflightFails \/ PreflightWaits \/ PreflightFindsBusy
           \/ Releases \/ BarrierSettles
  <2>1. log' = log /\ told' = told
    BY <1>3 DEF DriveBegins, PreflightFails, PreflightWaits, PreflightFindsBusy, Releases,
       BarrierSettles, durable, history
  <2> QED BY <2>1, <1>1, <1>3, DriveSteps
<1>4. CASE Maintains
  <2>1. QueueIInv' /\ stored' = Len(log)
    BY <1>4, MaintainsStep
  <2> QED BY <2>1, <1>1
<1>5. CASE Loops \/ Retires \/ TimerFires \/ IdleSeen \/ IdleWaitEnds
  <2>1. log' = log /\ told' = told
    BY <1>5 DEF Loops, Retires, TimerFires, IdleSeen, IdleWaitEnds, durable, history
  <2> QED BY <2>1, <1>1, <1>5, TriggerSteps
<1>6. CASE Outside
  <2>1. QueueIInv' /\ told' = told /\ (log' = log \/ Len(log') <= Len(log))
    BY <1>6, OutsideSteps
  <2>2. Len(log') \in Nat
    BY <2>1 DEF QueueIInv, IsSequence
  <2> QED BY <2>1, <2>2, <1>1
<1>7. ASSUME NEW c \in Calls, Invoke(c) \/ CallStep(c)
      PROVE  QueueIInv' /\ (Len(log') > Len(log) \/ told' # told => stored' >= Len(log))
  <2>1. CASE Invoke(c)
    <3>1. log' = log /\ told' = told
      BY <2>1 DEF Invoke, durable, history
    <3> QED BY <2>1, <3>1, <1>1, CallStarts
  <2>2. CASE CallStep(c)
    BY <2>2, <1>1, CallSteps
  <2> QED BY <1>7, <2>1, <2>2
<1> QED BY <1>2, <1>3, <1>4, <1>5, <1>6, <1>7 DEF Next, OwnerStep

\* Drives and tool calls never run side by side, whatever order triggers, calls, timers,
\* turns, failures, kills and resumes come in: each has the log to itself from its
\* flush to its barrier (transaction.ts, runScheduleTransaction).
THEOREM TransactionsExclude == Spec => []QueueInv
<1>1. Init => QueueIInv
  BY QueueIInvInit
<1>2. QueueIInv /\ [Next]_vars => QueueIInv'
  BY QueueStep
<1>3. QueueIInv => QueueInv
  BY DEF QueueIInv
<1> QED BY <1>1, <1>2, <1>3, PTL DEF Spec

\* No reminder is presented, and no caller told anything, while a change that either
\* rests on may still be lost in a kill (runtime.ts, driveOnce; tools.ts).
THEOREM OwnerActsOnDurable == Spec => ActsOnDurable
<1>1. Init => QueueIInv
  BY QueueIInvInit
<1>2. QueueIInv /\ [Next]_vars => QueueIInv'
  BY QueueStep
<1>3. QueueIInv /\ [Next]_vars => [Presents \/ told' # told => stored' >= Len(log)]_vars
  BY QueueStep DEF Presents
<1> QED BY <1>1, <1>2, <1>3, PTL DEF Spec, ActsOnDurable

-----------------------------------------------------------------------------
(* The fold, change by change. *)

Records == [at : Instant, every : Nat]

Events ==
    [op : {"create"}, id : Nat, at : Instant, every : Nat] \cup [op : {"delete"}, id : Nat]
    \cup [op : {"dispatch"}, id : Nat, accepted : Nat]
    \cup [op : {"followup"}, due : SUBSET (Nat \X Nat)]

\* What the fold of a log that has always been legal looks like.
WellFolded(f) ==
    /\ f \in [legal : BOOLEAN, active : {f.active}, seen : {f.seen}] /\ f.legal
    /\ IsFiniteSet(f.seen) /\ f.seen \subseteq Nat
    /\ DOMAIN f.active \subseteq f.seen
    /\ \A i \in DOMAIN f.active : f.active[i] \in Records

\* The same of what a fold leaves out or keeps.
Gone(f) == f.seen \ DOMAIN f.active

\* Division with a remainder.
LEMMA Divides ==
    ASSUME NEW d \in Nat, NEW e \in Nat \ {0}
    PROVE  /\ d \div e \in Nat /\ d % e \in 0..(e - 1)
           /\ d = e * (d \div e) + (d % e) /\ (d \div e) * e <= d
<1> DEFINE m == d \div e
           r == d % e
<1>1. m \in Int /\ r \in 0..(e - 1) /\ d = e * m + r
  OBVIOUS
<1> HIDE DEF m, r
<1>2. m >= 0
  <2> SUFFICES ASSUME m <= 0 - 1 PROVE FALSE
    BY <1>1
  <2> DEFINE p == 0 - m
  <2>1. p \in Nat /\ p >= 1 /\ m = 0 - p
    BY <1>1
  <2>2. e * m = 0 - e * p
    BY <2>1
  <2>3. e * p >= e
    BY <2>1
  <2> QED BY <2>2, <2>3, <1>1
<1>3. m * e = e * m
  BY <1>1
<1>4. m * e <= d
  BY <1>1, <1>3
<1>5. m \in Nat /\ r \in 0..(e - 1) /\ d = e * m + r /\ m * e <= d
  BY <1>1, <1>2, <1>4
<1> QED BY <1>5 DEF m, r

\* A multiple of an interval has no remainder.
LEMMA Multiple ==
    ASSUME NEW k \in Nat, NEW e \in Nat \ {0}
    PROVE  (k * e) % e = 0
<1> DEFINE q == (k * e) \div e
           r == (k * e) % e
<1>1. k * e \in Nat
  OBVIOUS
<1>2. q \in Int /\ r \in 0..(e - 1) /\ k * e = e * q + r
  BY <1>1
<1> HIDE DEF q, r
<1>3. e * (k - q) = r
  BY <1>2
<1>4. CASE k - q >= 1
  <2>1. e * (k - q) >= e
    BY <1>4, <1>2
  <2> QED BY <2>1, <1>2, <1>3
<1>5. CASE k - q <= 0 - 1
  <2>1. e * (k - q) < 0
    BY <1>5, <1>2
  <2> QED BY <2>1, <1>2, <1>3
<1>6. CASE k = q
  <2>1. k - q = 0
    BY <1>6, <1>2
  <2>2. e * 0 = 0
    OBVIOUS
  <2> QED BY <2>1, <2>2, <1>3 DEF r
<1> QED BY <1>2, <1>4, <1>5, <1>6

\* The occurrence of a due record lies on its grid, not before its target and not
\* after the decision.
LEMMA OccurrenceIs ==
    ASSUME NEW r \in Records, NEW t \in Nat, r.at <= t
    PROVE  /\ Occurrence(r, t) \in Nat /\ r.at <= Occurrence(r, t) /\ Occurrence(r, t) <= t
           /\ \E m \in Nat : Occurrence(r, t) = r.at + m * r.every
<1>1. r.at \in Nat /\ r.every \in Nat
  BY ScheduleLogAssumption DEF Records, Instant
<1>2. CASE r.every = 0
  <2>1. Occurrence(r, t) = r.at /\ r.at = r.at + 0 * r.every
    BY <1>1, <1>2 DEF Occurrence
  <2> QED BY <2>1, <1>1
<1>3. CASE r.every # 0
  <2> DEFINE d == t - r.at
             e == r.every
             m == d \div e
  <2>1. d \in Nat /\ e \in Nat \ {0}
    BY <1>1, <1>3
  <2>2. Occurrence(r, t) = r.at + m * e
    BY <1>3 DEF Occurrence
  <2> HIDE DEF d, e
  <2>5. m \in Nat /\ m * e <= d
    BY <2>1, Divides
  <2>3. m * e \in Nat
    BY <2>1, <2>5
  <2> HIDE DEF m
  <2>6. r.at + m * e <= t
    BY <2>3, <2>5, <1>1 DEF d
  <2>7. Occurrence(r, t) = r.at + m * r.every
    BY <2>2 DEF e
  <2> QED BY <2>2, <2>3, <2>5, <2>6, <2>7, <1>1
<1> QED BY <1>2, <1>3

\* What the strict replay allows, change by change.
LEMMA Allowed ==
    ASSUME NEW f, NEW e \in Events
    PROVE  /\ e.op \in {"create", "delete", "dispatch", "followup"}
           /\ e.op = "create" => /\ e \in [op : {"create"}, id : Nat, at : Instant, every : Nat]
                                 /\ Follows(f, e) <=> e.id \notin f.seen
           /\ e.op = "delete" => /\ e \in [op : {"delete"}, id : Nat]
                                 /\ Follows(f, e) <=> e.id \in DOMAIN f.active
           /\ e.op = "dispatch" =>
                 /\ e \in [op : {"dispatch"}, id : Nat, accepted : Nat]
                 /\ Follows(f, e) =>
                      /\ e.id \in DOMAIN f.active
                      /\ f.active[e.id].every # 0 => e.accepted >= f.active[e.id].at
           /\ e.op = "followup" => e \in [op : {"followup"}, due : SUBSET (Nat \X Nat)]
BY DEF Events, Follows

\* A fold without a record, and with one in its place.
Removed(f, id) == [f EXCEPT !.active = Without(f.active, id)]
Advanced(f, id, r) == [f EXCEPT !.active = With(f.active, id, r)]

\* A fold with other records, and perhaps other ids.
LEMMA FoldExcept ==
    ASSUME NEW f, WellFolded(f), NEW b, NEW y
    PROVE  LET g == [f EXCEPT !.active = b]
               h == [f EXCEPT !.seen = y, !.active = b]
           IN
           /\ g \in [legal : BOOLEAN, active : {g.active}, seen : {g.seen}] /\ g.legal
           /\ g.active = b /\ g.seen = f.seen
           /\ h \in [legal : BOOLEAN, active : {h.active}, seen : {h.seen}] /\ h.legal
           /\ h.active = b /\ h.seen = y
<1> DEFINE a == f.active
           z == f.seen
<1>0. f \in [legal : BOOLEAN, active : {a}, seen : {z}]
  BY DEF WellFolded
<1> HIDE DEF a, z
<1>1. [f EXCEPT !.active = b] = [legal |-> f.legal, active |-> b, seen |-> f.seen]
  BY <1>0
<1>2. [f EXCEPT !.seen = y, !.active = b] = [legal |-> f.legal, active |-> b, seen |-> y]
  <2>1. [f EXCEPT !.seen = y] = [legal |-> f.legal, active |-> f.active, seen |-> y]
    BY <1>0
  <2>2. [f EXCEPT !.seen = y, !.active = b]
            = [[legal |-> f.legal, active |-> f.active, seen |-> y] EXCEPT !.active = b]
    BY <2>1
  <2> DEFINE l == f.legal
             a2 == f.active
  <2> HIDE DEF l, a2
  <2>3. [[legal |-> l, active |-> a2, seen |-> y] EXCEPT !.active = b]
            = [legal |-> l, active |-> b, seen |-> y]
    OBVIOUS
  <2> QED BY <2>2, <2>3 DEF l, a2
<1>3. f.legal \in BOOLEAN /\ f.legal
  BY DEF WellFolded
<1> QED BY <1>1, <1>2, <1>3

\* A creation.
LEMMA CreateFolds ==
    ASSUME NEW f, WellFolded(f), NEW e \in Events, e.op = "create", e.id \notin f.seen
    PROVE  LET g == Change(f, e) IN
           /\ WellFolded(g) /\ g.seen = f.seen \cup {e.id}
           /\ DOMAIN g.active = DOMAIN f.active \cup {e.id}
           /\ g.active[e.id] = [at |-> e.at, every |-> e.every]
           /\ \A i \in DOMAIN f.active : g.active[i] = f.active[i]
<1> DEFINE r == [at |-> e.at, every |-> e.every]
           a == With(f.active, e.id, r)
           g == Change(f, e)
<1>1. e.id \in Nat /\ r \in Records
  BY Allowed DEF Records
<1>2. g = [f EXCEPT !.seen = f.seen \cup {e.id}, !.active = a]
  BY DEF Change
<1>3. /\ DOMAIN a = DOMAIN f.active \cup {e.id} /\ a[e.id] = r
      /\ \A i \in DOMAIN f.active : a[i] = f.active[i]
  BY DEF With, WellFolded
<1>4. IsFiniteSet(f.seen \cup {e.id}) /\ f.seen \cup {e.id} \subseteq Nat
  BY <1>1, FS_AddElement DEF WellFolded
<1> HIDE DEF a, r, g
<1>5. /\ g \in [legal : BOOLEAN, active : {g.active}, seen : {g.seen}] /\ g.legal
      /\ g.active = a /\ g.seen = f.seen \cup {e.id}
  BY <1>2, FoldExcept, Zenon
<1>6. \A i \in DOMAIN a : a[i] \in Records
  BY <1>1, <1>3 DEF WellFolded
<1>7. DOMAIN a \subseteq f.seen \cup {e.id}
  BY <1>3 DEF WellFolded
<1>8. WellFolded(g)
  BY <1>4, <1>5, <1>6, <1>7 DEF WellFolded
<1> QED BY <1>3, <1>5, <1>8 DEF r, g

\* A record is taken out.
LEMMA RemovalFolds ==
    ASSUME NEW f, WellFolded(f), NEW id, NEW g, g = Removed(f, id)
    PROVE  /\ WellFolded(g) /\ g.seen = f.seen
           /\ DOMAIN g.active = DOMAIN f.active \ {id}
           /\ \A i \in DOMAIN f.active \ {id} : g.active[i] = f.active[i]
<1> DEFINE a == Without(f.active, id)
<1>1. /\ DOMAIN a = DOMAIN f.active \ {id}
      /\ \A i \in DOMAIN f.active \ {id} : a[i] = f.active[i]
  BY DEF Without
<1>0. g = [f EXCEPT !.active = a]
  BY DEF Removed
<1> HIDE DEF a
<1>2. /\ g \in [legal : BOOLEAN, active : {g.active}, seen : {g.seen}] /\ g.legal
      /\ g.active = a /\ g.seen = f.seen
  BY <1>0, FoldExcept
<1>3. WellFolded(g)
  BY <1>1, <1>2 DEF WellFolded
<1> QED BY <1>1, <1>2, <1>3 DEF a

\* A record advances.
LEMMA AdvanceFolds ==
    ASSUME NEW f, WellFolded(f), NEW id \in DOMAIN f.active, NEW r \in Records,
           NEW g, g = Advanced(f, id, r)
    PROVE  /\ WellFolded(g) /\ g.seen = f.seen
           /\ DOMAIN g.active = DOMAIN f.active /\ g.active[id] = r
           /\ \A i \in DOMAIN f.active \ {id} : g.active[i] = f.active[i]
<1> DEFINE a == With(f.active, id, r)
<1>1. /\ DOMAIN a = DOMAIN f.active /\ a[id] = r
      /\ \A i \in DOMAIN f.active \ {id} : a[i] = f.active[i]
  BY DEF With
<1>0. g = [f EXCEPT !.active = a]
  BY DEF Advanced
<1> HIDE DEF a
<1>2. /\ g \in [legal : BOOLEAN, active : {g.active}, seen : {g.seen}] /\ g.legal
      /\ g.active = a /\ g.seen = f.seen
  BY <1>0, FoldExcept
<1>3. \A i \in DOMAIN a : a[i] \in Records
  BY <1>1 DEF WellFolded
<1>4. WellFolded(g)
  BY <1>1, <1>2, <1>3 DEF WellFolded
<1> QED BY <1>1, <1>2, <1>4 DEF a

\* A dispatch finishes the record or moves it to the next place of its grid.
LEMMA DispatchFolds ==
    ASSUME NEW f, WellFolded(f), NEW e \in Events, e.op = "dispatch", Follows(f, e)
    PROVE  LET g == Change(f, e)
               r == f.active[e.id]
           IN
           /\ WellFolded(g) /\ g.seen = f.seen
           /\ DOMAIN f.active \ {e.id} \subseteq DOMAIN g.active
           /\ DOMAIN g.active \subseteq DOMAIN f.active
           /\ \A i \in DOMAIN f.active \ {e.id} : g.active[i] = f.active[i]
           /\ e.id \in DOMAIN g.active =>
                 /\ r.every \in Nat \ {0} /\ g.active[e.id].every = r.every
                 /\ g.active[e.id].at = Occurrence(r, e.accepted) + r.every
<1> DEFINE r == f.active[e.id]
           next == Occurrence(r, e.accepted) + r.every
           moved == [r EXCEPT !.at = next]
<1>1. /\ e.id \in DOMAIN f.active /\ e.accepted \in Nat
      /\ r.every # 0 => e.accepted >= r.at
  BY Allowed
<1>2. r \in Records /\ r.at \in Nat /\ r.every \in Nat
  BY <1>1 DEF WellFolded, Records, Instant
<1>3. CASE r.every = 0 \/ next > Horizon
  <2>1. Dispatched(r, e.accepted) = {}
    BY <1>3 DEF Dispatched
  <2>2. Change(f, e) = Removed(f, e.id)
    BY <2>1 DEF Change, Removed
  <2> DEFINE g == Change(f, e)
  <2>3. /\ WellFolded(g) /\ g.seen = f.seen
        /\ DOMAIN g.active = DOMAIN f.active \ {e.id}
        /\ \A i \in DOMAIN f.active \ {e.id} : g.active[i] = f.active[i]
    BY <2>2, RemovalFolds
  <2> HIDE DEF g
  <2>4. e.id \notin DOMAIN g.active
    BY <2>3
  <2>5. DOMAIN f.active \ {e.id} \subseteq DOMAIN g.active /\ DOMAIN g.active \subseteq DOMAIN f.active
    BY <2>3
  <2> QED BY <2>3, <2>4, <2>5 DEF g
<1>4. CASE ~(r.every = 0 \/ next > Horizon)
  <2>1. Dispatched(r, e.accepted) = {moved}
    BY <1>4 DEF Dispatched
  <2> HIDE DEF moved
  <2>2. /\ {moved} # {} /\ (CHOOSE x \in {moved} : TRUE) = moved
    OBVIOUS
  <2>3. Change(f, e) = Advanced(f, e.id, moved)
    BY <2>1, <2>2 DEF Change, Advanced
  <2>4. Occurrence(r, e.accepted) \in Nat /\ r.at <= Occurrence(r, e.accepted)
    BY <1>1, <1>2, <1>4, OccurrenceIs
  <2>5. next \in Instant
    BY <1>2, <1>4, <2>4, ScheduleLogAssumption DEF Instant, Records
  <2> HIDE DEF next
  <2>6. moved \in Records /\ moved.at = next /\ moved.every = r.every
    BY <1>2, <2>5 DEF Records, moved
  <2>7. r.every \in Nat \ {0}
    BY <1>2, <1>4
  <2> HIDE DEF r
  <2>8. LET g == Change(f, e) IN
           /\ WellFolded(g) /\ g.seen = f.seen
           /\ DOMAIN g.active = DOMAIN f.active /\ g.active[e.id] = moved
           /\ \A i \in DOMAIN f.active \ {e.id} : g.active[i] = f.active[i]
    BY <1>1, <2>3, <2>6, AdvanceFolds
  <2> QED BY <2>3, <2>6, <2>7, <2>8 DEF r, next
<1> QED BY <1>3, <1>4

\* A change that may follow leads from one fold to the next, which knows no fewer ids,
\* and none that has gone comes back.
LEMMA ReplayFolds ==
    ASSUME NEW f, WellFolded(f), NEW e \in Events, Follows(f, e)
    PROVE  /\ Replay(f, e) = Change(f, e) /\ WellFolded(Change(f, e))
           /\ f.seen \subseteq Change(f, e).seen /\ Gone(f) \subseteq Gone(Change(f, e))
<1>1. Replay(f, e) = Change(f, e)
  BY DEF Replay, WellFolded
<1> DEFINE g == Change(f, e)
<1>2. CASE e.op = "create"
  <2>1. e.id \notin f.seen
    BY <1>2, Allowed
  <2>2. /\ WellFolded(g) /\ g.seen = f.seen \cup {e.id}
        /\ DOMAIN g.active = DOMAIN f.active \cup {e.id}
    BY <1>2, <2>1, CreateFolds
  <2> HIDE DEF g
  <2>3. f.seen \subseteq g.seen /\ Gone(f) \subseteq Gone(g)
    BY <2>1, <2>2 DEF Gone
  <2> QED BY <1>1, <2>2, <2>3 DEF g
<1>3. CASE e.op = "delete"
  <2>1. Change(f, e) = Removed(f, e.id)
    BY <1>3 DEF Change, Removed
  <2>2. WellFolded(g) /\ g.seen = f.seen /\ DOMAIN g.active = DOMAIN f.active \ {e.id}
    BY <2>1, RemovalFolds
  <2> HIDE DEF g
  <2>3. f.seen \subseteq g.seen /\ Gone(f) \subseteq Gone(g)
    BY <2>2 DEF Gone
  <2> QED BY <1>1, <2>2, <2>3 DEF g
<1>4. CASE e.op = "dispatch"
  <2>1. WellFolded(g) /\ g.seen = f.seen /\ DOMAIN g.active \subseteq DOMAIN f.active
    BY <1>4, DispatchFolds
  <2> HIDE DEF g
  <2>2. f.seen \subseteq g.seen /\ Gone(f) \subseteq Gone(g)
    BY <2>1 DEF Gone
  <2> QED BY <1>1, <2>1, <2>2 DEF g
<1>5. CASE e.op = "followup"
  <2>1. Change(f, e) = f
    BY <1>5 DEF Change
  <2> QED BY <1>1, <2>1
<1> QED BY <1>2, <1>3, <1>4, <1>5, Allowed

-----------------------------------------------------------------------------
(* Logs whose every event may follow what was there before it. *)

\* An instant of the grid a creation laid.
Laid(e, id, at, every) ==
    /\ e.op = "create" /\ e.id = id /\ e.every = every
    /\ \E k \in Nat : at = e.at + k * every

\* A dispatch finishes an occurrence that a message has presented since the reminder's
\* last dispatch.
Announced(s, e) ==
    \E i \in 1..Len(s) :
        /\ s[i].op = "followup"
        /\ <<e.id, Occurrence(Active(s)[e.id], e.accepted)>> \in s[i].due
        /\ \A k \in i..Len(s) : s[k].op = "dispatch" => s[k].id # e.id

\* A message presents occurrences of a grid, later than those of earlier messages
\* unless a kill has made them repeatable.
Timely(s, e, rep) ==
    \A b \in e.due :
        /\ \E i \in 1..Len(s) : Laid(s[i], b[1], b[2], s[i].every)
        /\ \A i \in 1..Len(s) : s[i].op = "followup" =>
              \A a \in s[i].due : a[1] = b[1] => a[2] < b[2] \/ a \in rep

MayFollow(s, e, rep) ==
    /\ Follows(Fold(s), e)
    /\ e.op = "dispatch" => Announced(s, e)
    /\ e.op = "followup" => Timely(s, e, rep)

GoodLog(s, rep) ==
    /\ s \in Seq(Events)
    /\ \A j \in 1..Len(s) : MayFollow(SubSeq(s, 1, j - 1), s[j], rep)

\* What is active stems from a creation in the log, and what was created is seen.
Rooted(s) ==
    /\ \A id \in DOMAIN Active(s) : \E i \in 1..Len(s) :
          Laid(s[i], id, Active(s)[id].at, Active(s)[id].every)
    /\ \A i \in 1..Len(s) : s[i].op = "create" => s[i].id \in Fold(s).seen

Sound(s) == WellFolded(Fold(s)) /\ Rooted(s)

\* The fold of no log, and of a log with one more event.
LEMMA FoldsNext ==
    /\ Fold(<<>>) = NoSchedules
    /\ \A s \in Seq(Events), e \in Events : Fold(Append(s, e)) = Replay(Fold(s), e)
<1>1. Fold(<<>>) = NoSchedules
  BY Replaying!FoldEmpty, Zenon DEF Fold
<1>2. ASSUME NEW s \in Seq(Events), NEW e \in Events
      PROVE  Fold(Append(s, e)) = Replay(Fold(s), e)
  BY Replaying!FoldAppend, Zenon DEF Fold
<1> QED BY <1>1, <1>2

\* Positions of a log with one more event.
LEMMA OneMore ==
    ASSUME NEW s \in Seq(Events), NEW e \in Events
    PROVE  LET t == Append(s, e) IN
           /\ t \in Seq(Events) /\ Len(s) \in Nat /\ Len(t) = Len(s) + 1 /\ t[Len(t)] = e
           /\ \A i \in 1..Len(s) : t[i] = s[i]
           /\ \A j \in 0..Len(s) : SubSeq(t, 1, j) = SubSeq(s, 1, j)
           /\ SubSeq(t, 1, Len(s)) = s
<1> DEFINE t == Append(s, e)
<1>1. /\ t \in Seq(Events) /\ Len(s) \in Nat /\ Len(t) = Len(s) + 1 /\ t[Len(t)] = e
      /\ \A i \in 1..Len(s) : t[i] = s[i]
  OBVIOUS
<1> HIDE DEF t
<1>2. ASSUME NEW j \in 0..Len(s)
      PROVE  SubSeq(t, 1, j) = SubSeq(s, 1, j)
  <2>1. \A i \in 1..j : t[i] = s[i]
    BY <1>1
  <2>2. /\ SubSeq(t, 1, j) \in Seq(Events) /\ Len(SubSeq(t, 1, j)) = j
        /\ SubSeq(s, 1, j) \in Seq(Events) /\ Len(SubSeq(s, 1, j)) = j
        /\ \A i \in 1..j : SubSeq(t, 1, j)[i] = t[i] /\ SubSeq(s, 1, j)[i] = s[i]
    BY <1>1
  <2> QED BY <2>1, <2>2, SeqEqual
<1>3. SubSeq(s, 1, Len(s)) = s
  BY SubSeqFull
<1>4. Len(s) \in 0..Len(s)
  BY <1>1
<1> QED BY <1>1, <1>2, <1>3, <1>4 DEF t

\* Positions of the beginning of a log.
LEMMA Beginning ==
    ASSUME NEW s \in Seq(Events), NEW n \in 0..Len(s)
    PROVE  LET t == SubSeq(s, 1, n) IN
           /\ t \in Seq(Events) /\ Len(t) = n /\ Len(s) \in Nat
           /\ \A i \in 1..n : t[i] = s[i]
           /\ \A j \in 0..n : SubSeq(t, 1, j) = SubSeq(s, 1, j)
<1> DEFINE t == SubSeq(s, 1, n)
<1>1. t \in Seq(Events) /\ Len(t) = n /\ Len(s) \in Nat /\ \A i \in 1..n : t[i] = s[i]
  OBVIOUS
<1> HIDE DEF t
<1>2. ASSUME NEW j \in 0..n
      PROVE  SubSeq(t, 1, j) = SubSeq(s, 1, j)
  <2>1. j \in 0..Len(s) /\ j \in 0..Len(t)
    BY <1>1
  <2>2. /\ SubSeq(t, 1, j) \in Seq(Events) /\ Len(SubSeq(t, 1, j)) = j
        /\ SubSeq(s, 1, j) \in Seq(Events) /\ Len(SubSeq(s, 1, j)) = j
        /\ \A i \in 1..j : SubSeq(t, 1, j)[i] = t[i] /\ SubSeq(s, 1, j)[i] = s[i]
    BY <1>1, <2>1
  <2>3. \A i \in 1..j : t[i] = s[i]
    BY <1>1, <2>1
  <2> QED BY <2>2, <2>3, SeqEqual
<1> QED BY <1>1, <1>2 DEF t

\* A beginning of a good log is good.
LEMMA GoodBeginning ==
    ASSUME NEW s, NEW rep, GoodLog(s, rep), NEW n \in 0..Len(s)
    PROVE  GoodLog(SubSeq(s, 1, n), rep)
<1> DEFINE t == SubSeq(s, 1, n)
<1>1. /\ s \in Seq(Events) /\ t \in Seq(Events) /\ Len(t) = n /\ Len(s) \in Nat
      /\ \A i \in 1..n : t[i] = s[i]
      /\ \A j \in 0..n : SubSeq(t, 1, j) = SubSeq(s, 1, j)
  BY Beginning DEF GoodLog
<1> HIDE DEF t
<1>2. ASSUME NEW j \in 1..Len(t)
      PROVE  MayFollow(SubSeq(t, 1, j - 1), t[j], rep)
  <2>1. j \in 1..Len(s) /\ j \in 1..n /\ j - 1 \in 0..n
    BY <1>1
  <2>2. MayFollow(SubSeq(s, 1, j - 1), s[j], rep)
    BY <2>1 DEF GoodLog
  <2> QED BY <1>1, <2>1, <2>2
<1> QED BY <1>1, <1>2 DEF GoodLog, t

\* So is a good log with an event that may follow.
LEMMA GoodAppend ==
    ASSUME NEW s, NEW rep, GoodLog(s, rep), NEW e \in Events, MayFollow(s, e, rep)
    PROVE  GoodLog(Append(s, e), rep)
<1> DEFINE t == Append(s, e)
<1>1. /\ t \in Seq(Events) /\ Len(s) \in Nat /\ Len(t) = Len(s) + 1 /\ t[Len(t)] = e
      /\ \A i \in 1..Len(s) : t[i] = s[i]
      /\ \A j \in 0..Len(s) : SubSeq(t, 1, j) = SubSeq(s, 1, j)
      /\ SubSeq(t, 1, Len(s)) = s
  BY OneMore DEF GoodLog
<1> HIDE DEF t
<1>2. ASSUME NEW j \in 1..Len(t)
      PROVE  MayFollow(SubSeq(t, 1, j - 1), t[j], rep)
  <2>1. CASE j = Len(t)
    <3>1. j - 1 = Len(s)
      BY <2>1, <1>1
    <3> QED BY <3>1, <2>1, <1>1
  <2>2. CASE j # Len(t)
    <3>1. j \in 1..Len(s) /\ j - 1 \in 0..Len(s)
      BY <2>2, <1>1
    <3>2. MayFollow(SubSeq(s, 1, j - 1), s[j], rep)
      BY <3>1 DEF GoodLog
    <3> QED BY <3>1, <3>2, <1>1
  <2> QED BY <2>1, <2>2
<1> QED BY <1>1, <1>2 DEF GoodLog, t

\* And so it stays when more may be repeated.
LEMMA GoodMore ==
    ASSUME NEW s, NEW rep, GoodLog(s, rep), NEW more, rep \subseteq more
    PROVE  GoodLog(s, more)
<1>1. ASSUME NEW t, NEW e, MayFollow(t, e, rep)
      PROVE  MayFollow(t, e, more)
  BY <1>1 DEF MayFollow, Timely
<1> QED BY <1>1 DEF GoodLog

\* Further along a grid.
LEMMA LaidFurther ==
    ASSUME NEW e, NEW id, NEW at, NEW every \in Nat, Laid(e, id, at, every), e.at \in Nat,
           NEW m \in Nat
    PROVE  /\ Laid(e, id, at + m * every, every) /\ Laid(e, id, at + m * every + every, every)
           /\ at \in Nat /\ e.at <= at
<1>1. PICK k \in Nat : at = e.at + k * every
  BY DEF Laid
<1>2. k * every \in Nat /\ m * every \in Nat
  OBVIOUS
<1>3. at \in Nat /\ e.at <= at
  BY <1>1, <1>2
<1>4. k + m \in Nat /\ (k + m) * every = k * every + m * every
  OBVIOUS
<1>5. at + m * every = e.at + (k + m) * every
  BY <1>1, <1>2, <1>4
<1>6. k + m + 1 \in Nat /\ (k + m + 1) * every = (k + m) * every + every
  OBVIOUS
<1>7. at + m * every + every = e.at + (k + m + 1) * every
  BY <1>5, <1>6, <1>2, <1>3
<1> QED BY <1>3, <1>4, <1>5, <1>6, <1>7 DEF Laid

\* The empty log is sound.
LEMMA SoundEmpty == Sound(<<>>)
<1>1. Fold(<<>>) = NoSchedules
  BY FoldsNext
<1>2. WellFolded(NoSchedules)
  BY FS_EmptySet DEF WellFolded, NoSchedules
<1>3. DOMAIN NoSchedules.active = {}
  BY DEF NoSchedules
<1> QED BY <1>1, <1>2, <1>3 DEF Sound, Rooted, Active

\* Creations in a log.
LEMMA CreationTypes ==
    ASSUME NEW s \in Seq(Events), NEW i \in 1..Len(s), s[i].op = "create"
    PROVE  s[i].id \in Nat /\ s[i].at \in Nat /\ s[i].every \in Nat
<1>1. s[i] \in Events
  OBVIOUS
<1>2. s[i] \in [op : {"create"}, id : Nat, at : Instant, every : Nat]
  BY <1>1, Allowed
<1> QED BY <1>2 DEF Instant

\* An event that may follow keeps a log sound.
LEMMA SoundStep ==
    ASSUME NEW s \in Seq(Events), Sound(s), NEW e \in Events, Follows(Fold(s), e)
    PROVE  Sound(Append(s, e)) /\ Fold(Append(s, e)) = Change(Fold(s), e)
<1> DEFINE t == Append(s, e)
           f == Fold(s)
           g == Fold(t)
<1>1. /\ t \in Seq(Events) /\ Len(s) \in Nat /\ Len(t) = Len(s) + 1 /\ t[Len(t)] = e
      /\ \A i \in 1..Len(s) : t[i] = s[i]
  BY OneMore
<1>2. WellFolded(f) /\ Rooted(s)
  BY DEF Sound
<1>3. g = Change(f, e) /\ WellFolded(g) /\ f.seen \subseteq g.seen
  <2>1. g = Replay(f, e)
    BY FoldsNext
  <2> HIDE DEF f, g
  <2>2. Follows(f, e)
    BY DEF f
  <2> QED BY <2>1, <2>2, <1>2, ReplayFolds
<1>4. /\ \A id \in DOMAIN f.active : \E i \in 1..Len(s) :
            Laid(s[i], id, f.active[id].at, f.active[id].every)
      /\ \A i \in 1..Len(s) : s[i].op = "create" => s[i].id \in f.seen
  BY <1>2 DEF Rooted, Active
<1>5. Follows(f, e)
  OBVIOUS
<1> HIDE DEF f, g, t
<1>6. ASSUME NEW i \in 1..Len(t), t[i].op = "create"
      PROVE  t[i].id \in g.seen
  <2>1. CASE i = Len(t)
    <3>1. e.op = "create" /\ e.id \notin f.seen
      BY <2>1, <1>1, <1>5, <1>6, Allowed
    <3>2. g.seen = f.seen \cup {e.id}
      BY <3>1, <1>2, <1>3, CreateFolds
    <3> QED BY <3>2, <2>1, <1>1
  <2>2. CASE i # Len(t)
    BY <2>2, <1>1, <1>3, <1>4, <1>6
  <2> QED BY <2>1, <2>2
<1>7. ASSUME NEW id \in DOMAIN g.active, id \in DOMAIN f.active, g.active[id] = f.active[id]
      PROVE  \E i \in 1..Len(t) : Laid(t[i], id, g.active[id].at, g.active[id].every)
  <2>1. PICK i \in 1..Len(s) : Laid(s[i], id, f.active[id].at, f.active[id].every)
    BY <1>4, <1>7
  <2>2. i \in 1..Len(t) /\ t[i] = s[i]
    BY <1>1
  <2> QED BY <2>1, <2>2, <1>7
<1>8. ASSUME NEW id \in DOMAIN g.active
      PROVE  \E i \in 1..Len(t) : Laid(t[i], id, g.active[id].at, g.active[id].every)
  <2>1. CASE e.op = "create"
    <3>1. e.id \notin f.seen /\ e \in [op : {"create"}, id : Nat, at : Instant, every : Nat]
      BY <2>1, <1>5, Allowed
    <3>2. /\ DOMAIN g.active = DOMAIN f.active \cup {e.id}
          /\ g.active[e.id] = [at |-> e.at, every |-> e.every]
          /\ \A i \in DOMAIN f.active : g.active[i] = f.active[i]
      BY <2>1, <3>1, <1>2, <1>3, CreateFolds
    <3>3. CASE id = e.id
      <4>1. e.at \in Nat /\ e.every \in Nat
        BY <3>1 DEF Instant
      <4>2. e.at = e.at + 0 * e.every
        BY <4>1
      <4>3. Laid(e, id, e.at, e.every)
        BY <2>1, <3>3, <4>2 DEF Laid
      <4>4. Len(t) \in 1..Len(t) /\ t[Len(t)] = e
        BY <1>1
      <4>5. g.active[id].at = e.at /\ g.active[id].every = e.every
        BY <3>2, <3>3
      <4> QED BY <4>3, <4>4, <4>5
    <3>4. CASE id # e.id
      BY <3>2, <3>4, <1>7
    <3> QED BY <3>3, <3>4
  <2>2. CASE e.op = "delete"
    <3>1. g = Removed(f, e.id)
      BY <2>2, <1>3 DEF Change, Removed
    <3>2. DOMAIN g.active = DOMAIN f.active \ {e.id}
          /\ \A i \in DOMAIN f.active \ {e.id} : g.active[i] = f.active[i]
      BY <3>1, <1>2, RemovalFolds
    <3> QED BY <3>2, <1>7
  <2>3. CASE e.op = "dispatch"
    <3> DEFINE r == f.active[e.id]
    <3>1. /\ DOMAIN g.active \subseteq DOMAIN f.active
          /\ \A i \in DOMAIN f.active \ {e.id} : g.active[i] = f.active[i]
          /\ e.id \in DOMAIN g.active =>
                 /\ r.every \in Nat \ {0} /\ g.active[e.id].every = r.every
                 /\ g.active[e.id].at = Occurrence(r, e.accepted) + r.every
      BY <2>3, <1>2, <1>3, <1>5, DispatchFolds
    <3>2. CASE id # e.id
      BY <3>1, <3>2, <1>7
    <3>3. CASE id = e.id
      <4>1. /\ id \in DOMAIN f.active /\ r \in Records /\ r.every \in Nat \ {0}
            /\ g.active[id].every = r.every
            /\ g.active[id].at = Occurrence(r, e.accepted) + r.every
        BY <3>1, <3>3, <1>2 DEF WellFolded
      <4>2. e.accepted \in Nat /\ e.accepted >= r.at
        <5>1. r.every # 0
          BY <4>1
        <5> QED BY <5>1, <2>3, <1>5, Allowed
      <4>3. PICK m \in Nat : Occurrence(r, e.accepted) = r.at + m * r.every
        BY <4>1, <4>2, OccurrenceIs
      <4>4. PICK i \in 1..Len(s) : Laid(s[i], id, r.at, r.every)
        BY <4>1, <3>3, <1>4
      <4>5. s[i].at \in Nat
        BY <4>4, CreationTypes DEF Laid
      <4> HIDE DEF r
      <4>6. Laid(s[i], id, r.at + m * r.every + r.every, r.every)
        BY <4>1, <4>4, <4>5, LaidFurther
      <4>7. g.active[id].at = r.at + m * r.every + r.every
        BY <4>1, <4>3
      <4>8. i \in 1..Len(t) /\ t[i] = s[i]
        BY <1>1
      <4> QED BY <4>1, <4>6, <4>7, <4>8
    <3> QED BY <3>2, <3>3
  <2>4. CASE e.op = "followup"
    <3>1. g = f
      BY <2>4, <1>3 DEF Change
    <3> QED BY <3>1, <1>7
  <2> QED BY <2>1, <2>2, <2>3, <2>4, Allowed
<1>9. Rooted(t)
  BY <1>6, <1>8 DEF Rooted, Active, g
<1> QED BY <1>3, <1>9 DEF Sound, f, g, t

\* Every good log is sound.
LEMMA GoodIsSound ==
    ASSUME NEW s, NEW rep, GoodLog(s, rep)
    PROVE  Sound(s)
<1> DEFINE P == {x \in Seq(Events) : Sound(x)}
<1>1. s \in Seq(Events) /\ Len(s) \in Nat
  BY DEF GoodLog
<1>2. <<>> \in P
  BY SoundEmpty
<1>3. ASSUME NEW n \in 0..(Len(s) - 1), SubSeq(s, 1, n) \in P
      PROVE  Append(SubSeq(s, 1, n), s[n + 1]) \in P
  <2> DEFINE x == SubSeq(s, 1, n)
             e == s[n + 1]
  <2>1. n + 1 \in 1..Len(s) /\ (n + 1) - 1 = n
    BY <1>1
  <2>2. e \in Events /\ x \in Seq(Events) /\ Sound(x)
    BY <1>1, <1>3, <2>1
  <2>3. MayFollow(x, e, rep)
    BY <2>1 DEF GoodLog
  <2> HIDE DEF x, e
  <2>4. Sound(Append(x, e)) /\ Append(x, e) \in Seq(Events)
    BY <2>2, <2>3, SoundStep, OneMore DEF MayFollow
  <2> QED BY <2>4 DEF x, e
<1> HIDE DEF P
<1>4. s \in P
  BY <1>1, <1>2, <1>3, Replaying!PrefixInduction
<1> QED BY <1>4 DEF P

\* Followers' positions, and what their kind requires.
LEMMA GoodAt ==
    ASSUME NEW s, NEW rep, GoodLog(s, rep), NEW j \in 1..Len(s)
    PROVE  LET t == SubSeq(s, 1, j - 1) IN
           /\ s \in Seq(Events) /\ Len(s) \in Nat /\ s[j] \in Events
           /\ Len(t) = j - 1 /\ \A i \in 1..(j - 1) : t[i] = s[i]
           /\ MayFollow(t, s[j], rep)
<1>1. s \in Seq(Events) /\ Len(s) \in Nat /\ s[j] \in Events
  BY DEF GoodLog
<1>2. j - 1 \in 0..Len(s)
  BY <1>1
<1>3. MayFollow(SubSeq(s, 1, j - 1), s[j], rep)
  BY DEF GoodLog
<1> QED BY <1>1, <1>2, <1>3, Beginning

\* A good log has the parts of ReminderInv that speak of the log.
LEMMA GoodLogGives ==
    ASSUME GoodLog(log, repeatable)
    PROVE  LogFolds /\ NoReminderLost /\ RepeatsOnlyAcrossKills /\ OnTheGrid
<1>1. log \in Seq(Events) /\ Len(log) \in Nat
  BY DEF GoodLog
<1>2. LogFolds
  BY GoodIsSound DEF Sound, WellFolded, LogFolds
<1>3. NoReminderLost
  <2> SUFFICES ASSUME NEW j \in 1..Len(log), log[j].op = "dispatch"
               PROVE  \E i \in 1..j-1 :
            /\ log[i].op = "followup"
            /\ <<log[j].id, Occurrence(Active(SubSeq(log, 1, j-1))[log[j].id], log[j].accepted)>>
                   \in log[i].due
            /\ \A k \in i..j-1 : log[k].op = "dispatch" => log[k].id # log[j].id
    BY DEF NoReminderLost
  <2> DEFINE t == SubSeq(log, 1, j - 1)
  <2>1. Len(t) = j - 1 /\ (\A i \in 1..(j - 1) : t[i] = log[i]) /\ Announced(t, log[j])
    BY GoodAt DEF MayFollow
  <2> HIDE DEF t
  <2>2. PICK i \in 1..Len(t) :
            /\ t[i].op = "followup"
            /\ <<log[j].id, Occurrence(Active(t)[log[j].id], log[j].accepted)>> \in t[i].due
            /\ \A k \in i..Len(t) : t[k].op = "dispatch" => t[k].id # log[j].id
    BY <2>1 DEF Announced
  <2>3. i \in 1..(j - 1) /\ t[i] = log[i]
    BY <2>1
  <2>4. ASSUME NEW k \in i..(j - 1), log[k].op = "dispatch"
        PROVE  log[k].id # log[j].id
    <3>1. k \in 1..(j - 1) /\ k \in i..Len(t)
      BY <2>1, <2>3
    <3> QED BY <3>1, <2>1, <2>2, <2>4
  <2> QED BY <2>2, <2>3, <2>4 DEF t
<1>4. ASSUME NEW j \in 1..Len(log), log[j].op = "followup"
      PROVE  /\ \A i \in 1..j-1 : log[i].op = "followup" =>
                   \A a \in log[i].due, b \in log[j].due :
                       a[1] = b[1] => a[2] < b[2] \/ a \in repeatable
             /\ \A o \in log[j].due : \E i \in 1..j-1 : Laid(log[i], o[1], o[2], log[i].every)
  <2> DEFINE t == SubSeq(log, 1, j - 1)
  <2>1. /\ Len(t) = j - 1 /\ (\A i \in 1..(j - 1) : t[i] = log[i])
        /\ Timely(t, log[j], repeatable)
    BY <1>4, GoodAt DEF MayFollow
  <2> HIDE DEF t
  <2>2. ASSUME NEW o \in log[j].due
        PROVE  \E i \in 1..j-1 : Laid(log[i], o[1], o[2], log[i].every)
    <3>1. PICK i \in 1..Len(t) : Laid(t[i], o[1], o[2], t[i].every)
      BY <2>1 DEF Timely
    <3> QED BY <3>1, <2>1
  <2>3. ASSUME NEW i \in 1..j-1, log[i].op = "followup",
               NEW a \in log[i].due, NEW b \in log[j].due, a[1] = b[1]
        PROVE  a[2] < b[2] \/ a \in repeatable
    BY <2>1, <2>3 DEF Timely
  <2> QED BY <2>2, <2>3
<1>5. RepeatsOnlyAcrossKills
  BY <1>4 DEF RepeatsOnlyAcrossKills
<1>6. OnTheGrid
  <2> SUFFICES ASSUME NEW j \in 1..Len(log), log[j].op = "followup", NEW o \in log[j].due
               PROVE  \E i \in 1..j-1 :
            /\ log[i].op = "create" /\ log[i].id = o[1] /\ o[2] >= log[i].at
            /\ IF log[i].every = 0 THEN o[2] = log[i].at
               ELSE (o[2] - log[i].at) % log[i].every = 0
    BY DEF OnTheGrid
  <2>1. PICK i \in 1..j-1 : Laid(log[i], o[1], o[2], log[i].every)
    BY <1>4
  <2>2. i \in 1..Len(log) /\ log[i].op = "create" /\ log[i].id = o[1]
    BY <2>1 DEF Laid
  <2>3. log[i].at \in Nat /\ log[i].every \in Nat
    BY <1>1, <2>2, CreationTypes
  <2>4. PICK k \in Nat : o[2] = log[i].at + k * log[i].every
    BY <2>1 DEF Laid
  <2>5. k * log[i].every \in Nat
    BY <2>3
  <2>6. o[2] >= log[i].at /\ o[2] - log[i].at = k * log[i].every
    BY <2>3, <2>4, <2>5
  <2>7. CASE log[i].every = 0
    <3>1. k * 0 = 0
      OBVIOUS
    <3>2. o[2] = log[i].at
      BY <2>3, <2>4, <2>7, <3>1
    <3> QED BY <2>2, <2>6, <2>7, <3>2
  <2>8. CASE log[i].every # 0
    <3>1. (k * log[i].every) % log[i].every = 0
      BY <2>3, <2>8, Multiple
    <3> QED BY <2>2, <2>6, <2>8, <3>1
  <2> QED BY <2>7, <2>8
<1> QED BY <1>2, <1>3, <1>5, <1>6

-----------------------------------------------------------------------------
(* What a maintenance task delivers. *)

\* Its members are due, and each is there once.
LEMMA BatchIs ==
    ASSUME NEW f, WellFolded(f), NEW t \in Nat, NEW ids \in Orders(f.active, Batch(f.active, t))
    PROVE  /\ Len(ids) \in Nat /\ DOMAIN ids = 1..Len(ids)
           /\ \A k \in 1..Len(ids) :
                 /\ ids[k] \in DOMAIN f.active /\ ids[k] \in Nat
                 /\ f.active[ids[k]] \in Records /\ f.active[ids[k]].at <= t
           /\ \A j, k \in 1..Len(ids) : j < k => ids[j] # ids[k]
<1> DEFINE active == f.active
           batch == Batch(active, t)
<1>1. batch \subseteq Due(active, t)
  BY DEF Batch, OneShots
<1> HIDE DEF batch
<1>2. PICK n \in 0..MaxIds : ids \in [1..n -> batch]
  BY DEF Orders, batch
<1>3. n \in Nat /\ Len(ids) = n /\ DOMAIN ids = 1..n
  BY <1>2, ScheduleLogAssumption
<1>4. ASSUME NEW k \in 1..n
      PROVE  /\ ids[k] \in DOMAIN active /\ ids[k] \in Nat
             /\ active[ids[k]] \in Records /\ active[ids[k]].at <= t
  <2>1. ids[k] \in Due(active, t)
    BY <1>1, <1>2
  <2>2. ids[k] \in DOMAIN active /\ active[ids[k]].at <= t
    BY <2>1 DEF Due
  <2> QED BY <2>2 DEF WellFolded
<1>5. ASSUME NEW j \in 1..n, NEW k \in 1..n, j < k
      PROVE  ids[j] # ids[k]
  <2>1. Earlier(active, ids[j], ids[k])
    BY <1>3, <1>5 DEF Orders
  <2>2. ids[k] \in Nat /\ active[ids[k]].at \in Nat
    BY <1>4 DEF Records, Instant
  <2> QED BY <2>1, <2>2 DEF Earlier
<1> QED BY <1>3, <1>4, <1>5

\* The message, and then a dispatch of each member.
LEMMA DeliveredAt ==
    ASSUME NEW f, WellFolded(f), NEW t \in Nat, NEW ids \in Orders(f.active, Batch(f.active, t))
    PROVE  LET all == Delivered(f.active, ids, t) IN
           /\ all \in Seq(Events) /\ Len(all) = Len(ids) + 1
           /\ all[1] = Message(f.active, ids, t)
           /\ \A k \in 1..Len(ids) : all[k + 1] = Dispatches(f.active, ids, t)[k]
<1> DEFINE m == Message(f.active, ids, t)
           d == Dispatches(f.active, ids, t)
<1>1. /\ Len(ids) \in Nat /\ DOMAIN ids = 1..Len(ids)
      /\ \A k \in 1..Len(ids) :
            /\ ids[k] \in DOMAIN f.active /\ ids[k] \in Nat
            /\ f.active[ids[k]] \in Records /\ f.active[ids[k]].at <= t
  BY BatchIs
<1>2. m \in Events
  <2> DEFINE due == {<<ids[k], Occurrence(f.active[ids[k]], t)>> : k \in DOMAIN ids}
  <2>1. ASSUME NEW k \in 1..Len(ids)
        PROVE  <<ids[k], Occurrence(f.active[ids[k]], t)>> \in Nat \X Nat
    BY <1>1, OccurrenceIs
  <2>2. due \in SUBSET (Nat \X Nat)
    BY <1>1, <2>1
  <2> HIDE DEF due
  <2>3. [op |-> "followup", due |-> due] \in [op : {"followup"}, due : SUBSET (Nat \X Nat)]
    BY <2>2
  <2>4. m = [op |-> "followup", due |-> due]
    BY DEF Message, FollowUp, due
  <2> HIDE DEF m
  <2> QED BY <2>3, <2>4 DEF Events
<1>3. DOMAIN d = 1..Len(ids)
  BY <1>1 DEF Dispatches
<1>4. ASSUME NEW k \in 1..Len(ids)
      PROVE  d[k] \in Events
  <2>1. d[k] = [op |-> "dispatch", id |-> ids[k],
                accepted |-> IF f.active[ids[k]].every = 0 THEN 0 ELSE t]
    BY <1>1 DEF Dispatches, Dispatch
  <2>2. d[k] \in [op : {"dispatch"}, id : Nat, accepted : Nat]
    BY <1>1, <2>1
  <2> QED BY <2>2 DEF Events
<1>5. d = [k \in 1..Len(ids) |-> d[k]]
  BY <1>1 DEF Dispatches
<1> HIDE DEF d, m
<1>6. d \in Seq(Events) /\ Len(d) = Len(ids)
  <2>1. d \in [1..Len(ids) -> Events]
    BY <1>4, <1>5
  <2> QED BY <2>1, <1>1, SeqDef
<1>7. <<m>> \in Seq(Events) /\ Len(<<m>>) = 1 /\ <<m>>[1] = m
  BY <1>2
<1> DEFINE all == <<m>> \o d
<1>8. /\ all \in Seq(Events) /\ Len(all) = 1 + Len(d) /\ all[1] = m
      /\ \A k \in 1..Len(d) : all[k + 1] = d[k]
  BY <1>6, <1>7
<1>9. Delivered(f.active, ids, t) = all
  BY DEF Delivered, m, d
<1> HIDE DEF all
<1> QED BY <1>1, <1>6, <1>8, <1>9 DEF m, d

\* Everything a message presented has been dispatched since, or may be repeated.
NothingOwed(s, rep) == Undone(s) \subseteq rep

\* The first k members of the batch are dispatched in s, which goes on from older.
Dispatching(older, ids, t, rep, k, s) ==
    LET f == Fold(older)
        g == Fold(s)
    IN
    /\ GoodLog(s, rep) /\ Len(s) = Len(older) + 1 + k
    /\ \A i \in 1..Len(older) : s[i] = older[i]
    /\ s[Len(older) + 1] = Message(f.active, ids, t)
    /\ \A i \in 1..k : s[Len(older) + 1 + i] = Dispatches(f.active, ids, t)[i]
    /\ g.seen = f.seen /\ DOMAIN g.active \subseteq DOMAIN f.active
    /\ \A i \in DOMAIN f.active : (\A j \in 1..k : ids[j] # i) =>
          i \in DOMAIN g.active /\ g.active[i] = f.active[i]
    /\ \A j \in 1..k : ids[j] \in DOMAIN g.active =>
          g.active[ids[j]].at > Occurrence(f.active[ids[j]], t)

\* The message may follow a log that owes nothing.
LEMMA MessageFollows ==
    ASSUME NEW s, NEW rep, GoodLog(s, rep), NothingOwed(s, rep), NEW t \in Nat,
           NEW ids \in Orders(Active(s), Batch(Active(s), t))
    PROVE  Dispatching(s, ids, t, rep, 0, Append(s, Message(Active(s), ids, t)))
<1> DEFINE f == Fold(s)
           a == f.active
           m == Message(a, ids, t)
           w == Append(s, m)
<1>1. s \in Seq(Events) /\ Sound(s) /\ WellFolded(f) /\ Len(s) \in Nat
  <2>1. Sound(s)
    BY GoodIsSound
  <2> QED BY <2>1 DEF GoodLog, Sound
<1>2. /\ DOMAIN ids = 1..Len(ids)
      /\ \A k \in 1..Len(ids) :
            /\ ids[k] \in DOMAIN a /\ ids[k] \in Nat
            /\ a[ids[k]] \in Records /\ a[ids[k]].at <= t
  <2>1. ids \in Orders(f.active, Batch(f.active, t))
    BY DEF Active
  <2> HIDE DEF f
  <2> QED BY <1>1, <2>1, BatchIs
<1>3. m \in Events
  <2>1. ids \in Orders(f.active, Batch(f.active, t))
    BY DEF Active
  <2> HIDE DEF f
  <2>2. LET all == Delivered(f.active, ids, t) IN
        all \in Seq(Events) /\ Len(all) = Len(ids) + 1 /\ all[1] = m
    BY <1>1, <2>1, DeliveredAt
  <2>3. Len(ids) \in Nat
    BY <1>1, <2>1, BatchIs
  <2> QED BY <2>2, <2>3
<1>4. m.op = "followup" /\ m.due = {<<ids[k], Occurrence(a[ids[k]], t)>> : k \in 1..Len(ids)}
  BY <1>2 DEF Message, FollowUp
<1> HIDE DEF m
<1>5. ASSUME NEW k \in 1..Len(ids), NEW b, b = <<ids[k], Occurrence(a[ids[k]], t)>>
      PROVE  /\ \E i \in 1..Len(s) : Laid(s[i], b[1], b[2], s[i].every)
             /\ \A i \in 1..Len(s) : s[i].op = "followup" =>
                   \A x \in s[i].due : x[1] = b[1] => x[2] < b[2] \/ x \in rep
  <2> DEFINE id == ids[k]
             r == a[id]
             occ == Occurrence(r, t)
  <2>1. id \in DOMAIN a /\ r \in Records /\ r.at <= t /\ b[1] = id /\ b[2] = occ
    BY <1>2, <1>5
  <2>2. PICK i \in 1..Len(s) : Laid(s[i], id, r.at, r.every)
    BY <1>1, <2>1 DEF Sound, Rooted, Active
  <2>3. s[i].at \in Nat /\ s[i].every = r.every
    BY <1>1, <2>2, CreationTypes DEF Laid
  <2>4. r.at \in Nat /\ r.every \in Nat
    BY <2>1 DEF Records, Instant
  <2>5. occ \in Nat /\ r.at <= occ /\ \E n \in Nat : occ = r.at + n * r.every
    BY <2>1, OccurrenceIs
  <2> HIDE DEF r, occ, id
  <2>6. PICK n \in Nat : occ = r.at + n * r.every
    BY <2>5
  <2>10. occ \in Nat /\ r.at <= occ
    BY <2>5
  <2>7. Laid(s[i], id, occ, r.every)
    BY <2>2, <2>3, <2>4, <2>6, LaidFurther
  <2>8. Laid(s[i], b[1], b[2], s[i].every)
    BY <2>1, <2>3, <2>7
  <2>9. ASSUME NEW j \in 1..Len(s), s[j].op = "followup", NEW x \in s[j].due, x[1] = b[1]
        PROVE  x[2] < b[2] \/ x \in rep
    <3>1. s[j] \in Events
      BY <1>1
    <3>2. x \in Nat \X Nat
      BY <2>9, <3>1, Allowed
    <3>3. CASE r.at <= x[2]
      <4>1. x \in Undone(s)
        BY <2>1, <2>9, <3>3 DEF Undone, Active, r
      <4> QED BY <4>1 DEF NothingOwed
    <3>4. CASE ~(r.at <= x[2])
      <4>1. x[2] \in Nat
        BY <3>2
      <4> DEFINE p == x[2]
                 q == r.at
      <4>2. p \in Nat /\ q \in Nat /\ ~(q <= p) /\ q <= occ
        BY <4>1, <3>4, <2>4, <2>10
      <4> HIDE DEF p, q
      <4>3. p < occ
        BY <4>2, <2>10
      <4> QED BY <4>3, <2>1 DEF p
    <3> QED BY <3>3, <3>4
  <2> QED BY <2>8, <2>9
<1>6. Timely(s, m, rep)
  <2> SUFFICES ASSUME NEW b \in m.due
               PROVE  /\ \E i \in 1..Len(s) : Laid(s[i], b[1], b[2], s[i].every)
                      /\ \A i \in 1..Len(s) : s[i].op = "followup" =>
                            \A x \in s[i].due : x[1] = b[1] => x[2] < b[2] \/ x \in rep
    BY Zenon DEF Timely
  <2>1. PICK k \in 1..Len(ids) : b = <<ids[k], Occurrence(a[ids[k]], t)>>
    BY <1>4
  <2> QED BY <2>1, <1>5
<1>7. MayFollow(s, m, rep) /\ Follows(f, m)
  BY <1>4, <1>6 DEF MayFollow, Follows
<1>8. GoodLog(w, rep) /\ Fold(w) = Change(f, m)
  BY <1>1, <1>3, <1>7, GoodAppend, SoundStep
<1>9. Fold(w) = f
  BY <1>4, <1>8 DEF Change
<1>10. /\ Len(w) = Len(s) + 1 /\ w[Len(s) + 1] = m
       /\ \A i \in 1..Len(s) : w[i] = s[i]
  BY <1>1, <1>3, OneMore
<1>11. Append(s, Message(Active(s), ids, t)) = w
  BY DEF Active, m
<1> HIDE DEF w, f
<1>12. Dispatching(s, ids, t, rep, 0, w)
  BY <1>1, <1>8, <1>9, <1>10 DEF Dispatching, m, f
<1> QED BY <1>11, <1>12

\* And after it, a dispatch of each member in turn.
LEMMA DispatchFollows ==
    ASSUME NEW older, Sound(older), older \in Seq(Events), NEW rep, NEW t \in Nat,
           NEW ids \in Orders(Active(older), Batch(Active(older), t)),
           NEW k \in 0..(Len(ids) - 1), NEW s, Dispatching(older, ids, t, rep, k, s)
    PROVE  Dispatching(older, ids, t, rep, k + 1,
                       Append(s, Dispatches(Active(older), ids, t)[k + 1]))
<1> DEFINE f == Fold(older)
           g == Fold(s)
           a == f.active
           d == Dispatches(a, ids, t)
           e == d[k + 1]
           id == ids[k + 1]
           r == a[id]
           w == Append(s, e)
           n == Len(older)
           h == Fold(w)
<1>1. WellFolded(f) /\ n \in Nat /\ ids \in Orders(f.active, Batch(f.active, t))
  BY DEF Sound, Active
<1>2. /\ Len(ids) \in Nat /\ DOMAIN ids = 1..Len(ids)
      /\ \A j \in 1..Len(ids) :
            /\ ids[j] \in DOMAIN a /\ ids[j] \in Nat
            /\ a[ids[j]] \in Records /\ a[ids[j]].at <= t
      /\ \A i, j \in 1..Len(ids) : i < j => ids[i] # ids[j]
  <2> HIDE DEF f
  <2> QED BY <1>1, BatchIs
<1>3. /\ GoodLog(s, rep) /\ Len(s) = n + 1 + k
      /\ \A i \in 1..n : s[i] = older[i]
      /\ s[n + 1] = Message(a, ids, t)
      /\ \A i \in 1..k : s[n + 1 + i] = d[i]
      /\ g.seen = f.seen /\ DOMAIN g.active \subseteq DOMAIN a
      /\ \A i \in DOMAIN a : (\A j \in 1..k : ids[j] # i) =>
            i \in DOMAIN g.active /\ g.active[i] = a[i]
      /\ \A j \in 1..k : ids[j] \in DOMAIN g.active =>
            g.active[ids[j]].at > Occurrence(a[ids[j]], t)
  BY DEF Dispatching
<1>4. /\ k \in Nat /\ k + 1 \in 1..Len(ids) /\ id \in DOMAIN a /\ id \in Nat /\ r \in Records
      /\ r.at <= t /\ \A j \in 1..k : ids[j] # id
  BY <1>2
<1>5. \A j \in 1..Len(ids) : d[j] = Dispatch(ids[j], IF a[ids[j]].every = 0 THEN 0 ELSE t)
  BY <1>2 DEF Dispatches
<1>6. e.op = "dispatch" /\ e.id = id /\ e.accepted = (IF r.every = 0 THEN 0 ELSE t)
  <2>1. e = Dispatch(id, IF r.every = 0 THEN 0 ELSE t)
    BY <1>4, <1>5
  <2> HIDE DEF e, id, r
  <2> QED BY <2>1 DEF Dispatch
<1>7. e \in Events
  <2>1. e = Dispatch(id, IF r.every = 0 THEN 0 ELSE t)
    BY <1>4, <1>5
  <2> HIDE DEF e, id, r
  <2>2. e \in [op : {"dispatch"}, id : Nat, accepted : Nat]
    BY <2>1, <1>4 DEF Dispatch
  <2> QED BY <2>2 DEF Events
<1>8. s \in Seq(Events) /\ Sound(s) /\ WellFolded(g)
  <2>1. Sound(s)
    BY <1>3, GoodIsSound
  <2> QED BY <2>1, <1>3 DEF GoodLog, Sound
<1>9. id \in DOMAIN g.active /\ g.active[id] = r
  BY <1>3, <1>4
<1>10. Active(older) = a /\ Active(s) = g.active
  BY DEF Active
<1> HIDE DEF f, g, a, d, e, id, r, w, h
<1>11. Follows(g, e)
  BY <1>4, <1>6, <1>9 DEF Follows
<1>12. Occurrence(r, e.accepted) = Occurrence(r, t)
  BY <1>6 DEF Occurrence
<1>13. Announced(s, e)
  <2>1. n + 1 \in 1..Len(s) /\ Len(s) = n + 1 + k
    BY <1>1, <1>3, <1>4
  <2>2. s[n + 1].op = "followup"
    BY <1>3 DEF Message, FollowUp
  <2>3. <<id, Occurrence(r, t)>> \in s[n + 1].due
    BY <1>2, <1>3, <1>4 DEF Message, FollowUp, id, r
  <2>4. ASSUME NEW i \in (n + 1)..Len(s), s[i].op = "dispatch"
        PROVE  s[i].id # e.id
    <3>1. i # n + 1
      BY <2>2, <2>4
    <3> DEFINE j == i - (n + 1)
    <3>2. j \in 1..k /\ i = n + 1 + j /\ j \in 1..Len(ids)
      BY <2>1, <3>1, <1>1, <1>2, <1>4
    <3> HIDE DEF j
    <3>3. s[i] = d[j]
      BY <3>2, <1>3
    <3>4. d[j].id = ids[j]
      <4>1. d[j] = Dispatch(ids[j], IF a[ids[j]].every = 0 THEN 0 ELSE t)
        BY <3>2, <1>5
      <4> QED BY <4>1 DEF Dispatch
    <3> QED BY <3>2, <3>3, <3>4, <1>4, <1>6
  <2> QED BY <2>1, <2>2, <2>3, <2>4, <1>6, <1>9, <1>10, <1>12 DEF Announced
<1>14. MayFollow(s, e, rep)
  BY <1>6, <1>11, <1>13 DEF MayFollow, g
<1>15. GoodLog(w, rep) /\ h = Change(g, e)
  <2>1. Follows(Fold(s), e)
    BY <1>11 DEF g
  <2> QED BY <2>1, <1>3, <1>7, <1>8, <1>14, GoodAppend, SoundStep DEF g, h, w
<1>16. /\ h.seen = g.seen /\ DOMAIN g.active \ {id} \subseteq DOMAIN h.active
       /\ DOMAIN h.active \subseteq DOMAIN g.active
       /\ \A i \in DOMAIN g.active \ {id} : h.active[i] = g.active[i]
       /\ id \in DOMAIN h.active =>
             r.every \in Nat \ {0} /\ h.active[id].at = Occurrence(r, e.accepted) + r.every
  BY <1>6, <1>7, <1>8, <1>9, <1>11, <1>15, DispatchFolds
<1>17. /\ Len(w) = Len(s) + 1 /\ w[Len(s) + 1] = e
       /\ \A i \in 1..Len(s) : w[i] = s[i]
  <2>1. /\ Len(w) = Len(s) + 1 /\ w[Len(w)] = e
        /\ \A i \in 1..Len(s) : w[i] = s[i]
    BY <1>7, <1>8, OneMore DEF w
  <2> QED BY <2>1
<1>18. Len(w) = n + 1 + (k + 1) /\ w[n + 1 + (k + 1)] = e /\ w[n + 1] = s[n + 1]
  BY <1>1, <1>3, <1>4, <1>17
<1>19. ASSUME NEW i \in 1..n
       PROVE  w[i] = older[i]
  BY <1>1, <1>3, <1>4, <1>17
<1>20. ASSUME NEW i \in 1..(k + 1)
       PROVE  w[n + 1 + i] = d[i]
  <2>1. CASE i = k + 1
    BY <2>1, <1>18 DEF e
  <2>2. CASE i # k + 1
    <3>1. i \in 1..k /\ n + 1 + i \in 1..Len(s)
      BY <2>2, <1>1, <1>3, <1>4
    <3> QED BY <3>1, <1>3, <1>17
  <2> QED BY <2>1, <2>2
<1>21. ASSUME NEW i \in DOMAIN a, \A j \in 1..(k + 1) : ids[j] # i
       PROVE  i \in DOMAIN h.active /\ h.active[i] = a[i]
  <2>1. i # id /\ \A j \in 1..k : ids[j] # i
    BY <1>4, <1>21 DEF id
  <2>2. i \in DOMAIN g.active /\ g.active[i] = a[i]
    BY <2>1, <1>3
  <2> QED BY <2>1, <2>2, <1>16
<1>22. ASSUME NEW j \in 1..(k + 1), ids[j] \in DOMAIN h.active
       PROVE  h.active[ids[j]].at > Occurrence(a[ids[j]], t)
  <2>1. CASE j = k + 1
    <3>1. ids[j] = id /\ a[ids[j]] = r
      BY <2>1 DEF id, r
    <3>2. r.every \in Nat \ {0} /\ h.active[id].at = Occurrence(r, t) + r.every
      BY <3>1, <1>12, <1>16, <1>22
    <3>3. Occurrence(r, t) \in Nat
      BY <1>4, OccurrenceIs
    <3> DEFINE x == h.active[id].at
               y == Occurrence(r, t)
               z == r.every
    <3>4. z \in Nat \ {0} /\ x = y + z /\ y \in Nat
      BY <3>2, <3>3
    <3> HIDE DEF x, y, z
    <3>5. x > y
      BY <3>4
    <3> QED BY <3>5, <3>1 DEF x, y
  <2>2. CASE j # k + 1
    <3>1. j \in 1..k
      BY <2>2, <1>4
    <3>2. ids[j] # id /\ ids[j] \in DOMAIN g.active
      BY <3>1, <1>4, <1>16, <1>22
    <3> QED BY <3>1, <3>2, <1>3, <1>16, <1>22
  <2> QED BY <2>1, <2>2
<1>23. h.seen = f.seen /\ DOMAIN h.active \subseteq DOMAIN a
  BY <1>3, <1>16
<1>24. GoodLog(w, rep) /\ w[n + 1] = Message(a, ids, t)
  BY <1>3, <1>15, <1>18
<1>25. Dispatching(older, ids, t, rep, k + 1, w)
  BY <1>18, <1>19, <1>20, <1>21, <1>22, <1>23, <1>24 DEF Dispatching, a, f, h, d
<1> QED BY <1>25, <1>10 DEF w, e, d

\* A log that goes on by the beginning of another.
LEMMA GoesOn ==
    ASSUME NEW s \in Seq(Events), NEW u \in Seq(Events)
    PROVE  /\ s \o SubSeq(u, 1, 0) = s /\ s \o SubSeq(u, 1, Len(u)) = s \o u
           /\ \A k \in 0..(Len(u) - 1) :
                 s \o SubSeq(u, 1, k + 1) = Append(s \o SubSeq(u, 1, k), u[k + 1])
<1>1. SubSeq(u, 1, 0) = <<>> /\ s \o <<>> = s /\ SubSeq(u, 1, Len(u)) = u
  BY SubSeqFull
<1>2. ASSUME NEW k \in 0..(Len(u) - 1)
      PROVE  s \o SubSeq(u, 1, k + 1) = Append(s \o SubSeq(u, 1, k), u[k + 1])
  <2> DEFINE v == SubSeq(u, 1, k)
             e == u[k + 1]
  <2>1. SubSeq(u, 1, k + 1) = Append(v, e) /\ v \in Seq(Events) /\ e \in Events
    OBVIOUS
  <2> HIDE DEF v, e
  <2>2. s \o Append(v, e) = Append(s \o v, e)
    <3>1. Append(v, e) \in Seq(Events) /\ Append(s \o v, e) \in Seq(Events)
      BY <2>1
    <3>2. s \o Append(v, e) \in Seq(Events)
      BY <3>1
    <3>3. /\ Len(s) \in Nat /\ Len(v) \in Nat
          /\ Len(s \o Append(v, e)) = Len(s) + Len(v) + 1
          /\ Len(Append(s \o v, e)) = Len(s) + Len(v) + 1
      BY <2>1, <3>1
    <3>4. ASSUME NEW i \in 1..(Len(s) + Len(v) + 1)
          PROVE  (s \o Append(v, e))[i] = Append(s \o v, e)[i]
      BY <2>1, <3>1, <3>3
    <3> QED BY <3>1, <3>2, <3>3, <3>4, SeqEqual
  <2> QED BY <2>1, <2>2 DEF v, e
<1> QED BY <1>1, <1>2

\* However much of the delivery is appended, the log stays good.
LEMMA DeliveredGood ==
    ASSUME NEW s, NEW rep, GoodLog(s, rep), NothingOwed(s, rep), NEW t \in Nat,
           NEW ids \in Orders(Active(s), Batch(Active(s), t)),
           NEW n \in 1..Len(Delivered(Active(s), ids, t))
    PROVE  Dispatching(s, ids, t, rep, n - 1, s \o SubSeq(Delivered(Active(s), ids, t), 1, n))
<1> DEFINE all == Delivered(Active(s), ids, t)
           Held == {k \in 0..Len(ids) :
                       Dispatching(s, ids, t, rep, k, s \o SubSeq(all, 1, k + 1))}
<1>1. s \in Seq(Events) /\ Sound(s) /\ WellFolded(Fold(s))
  <2>1. Sound(s)
    BY GoodIsSound
  <2> QED BY <2>1 DEF GoodLog, Sound
<1>2. /\ all \in Seq(Events) /\ Len(all) = Len(ids) + 1
      /\ all[1] = Message(Active(s), ids, t)
      /\ \A k \in 1..Len(ids) : all[k + 1] = Dispatches(Active(s), ids, t)[k]
  BY <1>1, DeliveredAt DEF Active
<1>3. Len(ids) \in Nat
  BY <1>1, BatchIs DEF Active
<1>4. /\ s \o SubSeq(all, 1, 0) = s
      /\ \A k \in 0..(Len(all) - 1) :
            s \o SubSeq(all, 1, k + 1) = Append(s \o SubSeq(all, 1, k), all[k + 1])
  <2> HIDE DEF all
  <2> QED BY <1>1, <1>2, GoesOn
<1> HIDE DEF all
<1>5. 0 \in Held
  <2>1. 0 \in 0..(Len(all) - 1) /\ 0 + 1 = 1
    BY <1>2, <1>3
  <2>2. s \o SubSeq(all, 1, 0 + 1) = Append(s, all[1])
    BY <2>1, <1>4
  <2>3. Dispatching(s, ids, t, rep, 0, Append(s, Message(Active(s), ids, t)))
    BY MessageFollows
  <2>4. Dispatching(s, ids, t, rep, 0, s \o SubSeq(all, 1, 0 + 1))
    BY <1>2, <2>2, <2>3
  <2> QED BY <2>4, <1>3
<1>6. ASSUME NEW k \in 0..(Len(ids) - 1), k \in Held
      PROVE  k + 1 \in Held
  <2> DEFINE u == s \o SubSeq(all, 1, k + 1)
  <2>1. /\ k + 1 \in 0..(Len(all) - 1) /\ k + 1 \in 1..Len(ids) /\ k + 1 \in 0..Len(ids)
    BY <1>2, <1>3
  <2>2. Dispatching(s, ids, t, rep, k, u)
    BY <1>6
  <2>3. s \o SubSeq(all, 1, (k + 1) + 1) = Append(u, Dispatches(Active(s), ids, t)[k + 1])
    BY <2>1, <1>2, <1>4
  <2> HIDE DEF u
  <2>4. Dispatching(s, ids, t, rep, k + 1, Append(u, Dispatches(Active(s), ids, t)[k + 1]))
    BY <1>1, <2>2, DispatchFollows
  <2> QED BY <2>1, <2>3, <2>4
<1>7. 0..Len(ids) \subseteq Held
  <2> HIDE DEF Held
  <2> QED BY <1>3, <1>5, <1>6, Replaying!Induction
<1>8. n - 1 \in 0..Len(ids) /\ (n - 1) + 1 = n
  BY <1>2, <1>3 DEF all
<1>9. n - 1 \in Held
  BY <1>7, <1>8
<1>10. Dispatching(s, ids, t, rep, n - 1, s \o SubSeq(all, 1, (n - 1) + 1))
  BY <1>9
<1> QED BY <1>8, <1>10 DEF all

\* All of it leaves nothing owed.
LEMMA AllDispatched ==
    ASSUME NEW older, Sound(older), older \in Seq(Events), NEW rep, NothingOwed(older, rep),
           NEW t \in Nat, NEW ids \in Orders(Active(older), Batch(Active(older), t)),
           NEW s, Dispatching(older, ids, t, rep, Len(ids), s)
    PROVE  NothingOwed(s, rep)
<1> DEFINE f == Fold(older)
           g == Fold(s)
           a == f.active
           d == Dispatches(a, ids, t)
           n == Len(older)
           k == Len(ids)
<1>1. WellFolded(f) /\ n \in Nat /\ ids \in Orders(f.active, Batch(f.active, t))
  BY DEF Sound, Active
<1>2. /\ k \in Nat /\ DOMAIN ids = 1..k
      /\ \A j \in 1..k :
            /\ ids[j] \in DOMAIN a /\ ids[j] \in Nat
            /\ a[ids[j]] \in Records /\ a[ids[j]].at <= t
  <2> HIDE DEF f
  <2> QED BY <1>1, BatchIs
<1>3. /\ GoodLog(s, rep) /\ Len(s) = n + 1 + k
      /\ \A i \in 1..n : s[i] = older[i]
      /\ s[n + 1] = Message(a, ids, t)
      /\ \A i \in 1..k : s[n + 1 + i] = d[i]
      /\ DOMAIN g.active \subseteq DOMAIN a
      /\ \A i \in DOMAIN a : (\A j \in 1..k : ids[j] # i) =>
            i \in DOMAIN g.active /\ g.active[i] = a[i]
      /\ \A j \in 1..k : ids[j] \in DOMAIN g.active =>
            g.active[ids[j]].at > Occurrence(a[ids[j]], t)
  BY DEF Dispatching
<1>4. s \in Seq(Events) /\ WellFolded(g)
  <2>1. Sound(s)
    BY <1>3, GoodIsSound
  <2> QED BY <2>1, <1>3 DEF GoodLog, Sound
<1>5. \A j \in 1..k : d[j].op = "dispatch"
  BY <1>2 DEF Dispatches, Dispatch
<1>6. Active(older) = a /\ Active(s) = g.active
  BY DEF Active
<1> HIDE DEF f, g, a, d, k, n
<1> SUFFICES ASSUME NEW o \in Undone(s) PROVE o \in rep
  BY DEF NothingOwed
<1>7. PICK i \in 1..Len(s) : s[i].op = "followup" /\ o \in s[i].due
  BY DEF Undone
<1>8. o[1] \in DOMAIN g.active /\ g.active[o[1]].at <= o[2]
  BY <1>6 DEF Undone
<1>9. o \in Nat \X Nat
  <2>1. s[i] \in Events
    BY <1>4
  <2> QED BY <2>1, <1>7, Allowed
<1>10. ASSUME NEW j \in 1..k, o[1] = ids[j]
       PROVE  /\ Occurrence(a[ids[j]], t) < o[2] /\ a[o[1]].at <= o[2]
  <2> DEFINE x == g.active[o[1]].at
             y == Occurrence(a[ids[j]], t)
             z == a[o[1]].at
             p == o[2]
  <2>1. y \in Nat /\ z <= y /\ z \in Nat
    <3>1. a[ids[j]] \in Records /\ a[ids[j]].at <= t
      BY <1>2
    <3>2. a[ids[j]].at \in Nat
      BY <3>1 DEF Records, Instant
    <3> QED BY <3>1, <3>2, <1>10, OccurrenceIs
  <2>2. x > y /\ x <= p /\ p \in Nat
    BY <1>3, <1>8, <1>9, <1>10
  <2>3. x \in Nat
    BY <1>4, <1>8 DEF WellFolded, Records, Instant
  <2> HIDE DEF x, y, z, p
  <2>4. y < p /\ z <= p
    BY <2>1, <2>2, <2>3
  <2> QED BY <2>4 DEF y, z, p
<1>11. CASE i \in 1..n
  <2>1. older[i].op = "followup" /\ o \in older[i].due /\ o[1] \in DOMAIN a
    BY <1>3, <1>7, <1>8, <1>11
  <2>2. a[o[1]].at <= o[2]
    <3>1. CASE \A j \in 1..k : ids[j] # o[1]
      BY <3>1, <2>1, <1>3, <1>8
    <3>2. CASE ~\A j \in 1..k : ids[j] # o[1]
      BY <3>2, <1>10
    <3> QED BY <3>1, <3>2
  <2>3. i \in 1..Len(older)
    BY <1>11 DEF n
  <2>4. o \in Undone(older)
    BY <2>1, <2>2, <2>3, <1>6 DEF Undone
  <2> QED BY <2>4 DEF NothingOwed
<1>12. CASE i = n + 1
  <2>1. PICK j \in 1..k : o = <<ids[j], Occurrence(a[ids[j]], t)>>
    BY <1>2, <1>3, <1>7, <1>12 DEF Message, FollowUp
  <2>2. o[1] = ids[j] /\ o[2] = Occurrence(a[ids[j]], t)
    BY <2>1
  <2>3. a[ids[j]] \in Records /\ a[ids[j]].at <= t
    BY <1>2
  <2>4. Occurrence(a[ids[j]], t) \in Nat
    BY <2>3, OccurrenceIs
  <2>5. Occurrence(a[ids[j]], t) < Occurrence(a[ids[j]], t)
    BY <2>2, <1>10
  <2> QED BY <2>4, <2>5
<1>13. CASE i > n + 1
  <2> DEFINE j == i - (n + 1)
  <2>1. j \in 1..k /\ i = n + 1 + j
    BY <1>1, <1>2, <1>3, <1>13
  <2> HIDE DEF j
  <2>2. s[i].op = "dispatch"
    BY <2>1, <1>3, <1>5
  <2> QED BY <2>2, <1>7
<1> QED BY <1>1, <1>11, <1>12, <1>13
-----------------------------------------------------------------------------
(* What a call may append. *)

\* An id given out is a number nobody has had.
LEMMA FreshIdIs ==
    ASSUME NEW f, WellFolded(f)
    PROVE  FreshId(f) \in Nat /\ FreshId(f) \notin f.seen
<1> DEFINE n == Cardinality(f.seen)
           places == n + 1 .. 2 * n + 1
           free == places \ f.seen
           seen == f.seen
<1>1. n \in Nat /\ IsFiniteSet(seen)
  BY FS_CardinalityType DEF WellFolded
<1>2. FreshId(f) = CHOOSE i \in places : i \notin seen /\ \A j \in n + 1 .. i - 1 : j \in seen
  BY DEF FreshId
<1> HIDE DEF seen
<1>3. free # {}
  <2> SUFFICES ASSUME free = {} PROVE FALSE
    OBVIOUS
  <2>1. places \in SUBSET seen
    BY DEF seen
  <2>2. Cardinality(places) <= Cardinality(seen)
    <3> HIDE DEF places
    <3> QED BY <1>1, <2>1, FS_Subset
  <2>3. n + 1 \in Int /\ 2 * n + 1 \in Int /\ ~(n + 1 > 2 * n + 1)
        /\ (2 * n + 1) - (n + 1) + 1 = n + 1
    BY <1>1
  <2>4. Cardinality(places) = n + 1
    <3> HIDE DEF n
    <3> QED BY <2>3, FS_Interval
  <2>5. Cardinality(seen) = n
    BY DEF seen
  <2> HIDE DEF n, places
  <2> QED BY <1>1, <2>2, <2>4, <2>5
<1>4. free \in SUBSET Nat
  BY <1>1
<1>5. PICK i \in free : \A j \in free : ~(j < i)
  <2> HIDE DEF free
  <2> QED BY <1>3, <1>4, Replaying!Least
<1>6. i \in places /\ i \notin seen
  BY <1>5 DEF seen
<1>7. ASSUME NEW j \in n + 1 .. i - 1
      PROVE  j \in seen
  <2>1. j \in places /\ j < i
    BY <1>1, <1>6
  <2> QED BY <2>1, <1>5 DEF seen
<1>8. FreshId(f) \in places /\ FreshId(f) \notin seen
  <2> HIDE DEF places
  <2> QED BY <1>2, <1>6, <1>7
<1> QED BY <1>1, <1>8 DEF seen

\* Whoever is presented in a good log was created there, and is seen.
LEMMA PresentedIsSeen ==
    ASSUME NEW s, NEW rep, GoodLog(s, rep), NEW i \in 1..Len(s), s[i].op = "followup",
           NEW o \in s[i].due
    PROVE  o[1] \in Fold(s).seen
<1> DEFINE t == SubSeq(s, 1, i - 1)
<1>1. /\ s \in Seq(Events) /\ Len(s) \in Nat /\ Len(t) = i - 1
      /\ \A j \in 1..(i - 1) : t[j] = s[j]
      /\ Timely(t, s[i], rep)
  BY GoodAt DEF MayFollow
<1> HIDE DEF t
<1>2. PICK j \in 1..Len(t) : Laid(t[j], o[1], o[2], t[j].every)
  BY <1>1 DEF Timely
<1>3. j \in 1..Len(s) /\ s[j].op = "create" /\ s[j].id = o[1]
  BY <1>1, <1>2 DEF Laid
<1>4. Sound(s)
  BY GoodIsSound
<1> QED BY <1>3, <1>4 DEF Sound, Rooted

\* A change of a call that may follow keeps the log good, and owes nothing new: it leaves
\* alone what was presented and stays active.
LEMMA ChangeFollows ==
    ASSUME NEW s, NEW rep, GoodLog(s, rep), NEW e \in Events, e.op \in {"create", "delete"},
           Follows(Fold(s), e)
    PROVE  LET w == Append(s, e)
               f == Fold(s)
               g == Fold(w)
           IN
           /\ GoodLog(w, rep) /\ g = Change(f, e)
           /\ f.seen \subseteq g.seen /\ Gone(f) \subseteq Gone(g)
           /\ e.op = "create" => e.id \in g.seen
           /\ e.op = "delete" => e.id \in Gone(g)
           /\ NothingOwed(s, rep) => NothingOwed(w, rep)
<1> DEFINE w == Append(s, e)
           f == Fold(s)
           g == Fold(w)
<1>1. s \in Seq(Events) /\ Sound(s) /\ WellFolded(f)
  <2>1. Sound(s)
    BY GoodIsSound
  <2> QED BY <2>1 DEF GoodLog, Sound
<1>2. MayFollow(s, e, rep)
  BY DEF MayFollow
<1>3. GoodLog(w, rep) /\ g = Change(f, e)
  BY <1>1, <1>2, GoodAppend, SoundStep
<1>4. /\ Len(s) \in Nat /\ Len(w) = Len(s) + 1 /\ w[Len(w)] = e
      /\ \A i \in 1..Len(s) : w[i] = s[i]
  BY <1>1, OneMore
<1>5. Follows(f, e)
  OBVIOUS
<1>6. Active(s) = f.active /\ Active(w) = g.active
  BY DEF Active
<1> HIDE DEF w, f, g
<1>7. f.seen \subseteq g.seen /\ Gone(f) \subseteq Gone(g)
  BY <1>1, <1>3, <1>5, ReplayFolds
<1>8. /\ e.op = "create" => e.id \in g.seen
      /\ e.op = "delete" => e.id \in Gone(g)
      /\ \A i \in DOMAIN g.active :
            i \notin f.seen \/ (i \in DOMAIN f.active /\ g.active[i] = f.active[i])
  <2>1. CASE e.op = "create"
    <3>1. e.id \notin f.seen
      BY <2>1, <1>5, Allowed
    <3>2. /\ g.seen = f.seen \cup {e.id} /\ DOMAIN g.active = DOMAIN f.active \cup {e.id}
          /\ \A i \in DOMAIN f.active : g.active[i] = f.active[i]
      <4>1. LET h == Change(f, e) IN
            /\ h.seen = f.seen \cup {e.id} /\ DOMAIN h.active = DOMAIN f.active \cup {e.id}
            /\ \A i \in DOMAIN f.active : h.active[i] = f.active[i]
        BY <2>1, <3>1, <1>1, CreateFolds
      <4> QED BY <4>1, <1>3
    <3> QED BY <2>1, <3>1, <3>2
  <2>2. CASE e.op = "delete"
    <3>1. g = Removed(f, e.id) /\ e.id \in DOMAIN f.active
      BY <2>2, <1>3, <1>5, Allowed DEF Change, Removed
    <3>2. /\ g.seen = f.seen /\ DOMAIN g.active = DOMAIN f.active \ {e.id}
          /\ \A i \in DOMAIN f.active \ {e.id} : g.active[i] = f.active[i]
      BY <3>1, <1>1, RemovalFolds
    <3>3. e.id \in Gone(g)
      BY <3>1, <3>2, <1>1 DEF Gone, WellFolded
    <3> QED BY <2>2, <3>2, <3>3
  <2> QED BY <2>1, <2>2
<1>9. ASSUME NothingOwed(s, rep)
      PROVE  NothingOwed(w, rep)
  <2> SUFFICES ASSUME NEW o \in Undone(w) PROVE o \in rep
    BY DEF NothingOwed
  <2>1. PICK i \in 1..Len(w) : w[i].op = "followup" /\ o \in w[i].due
    BY DEF Undone
  <2>2. o[1] \in DOMAIN g.active /\ g.active[o[1]].at <= o[2]
    BY <1>6 DEF Undone
  <2>3. i \in 1..Len(s) /\ w[i] = s[i]
    BY <2>1, <1>4
  <2>4. o[1] \in f.seen
    BY <2>1, <2>3, PresentedIsSeen DEF f
  <2>5. o[1] \in DOMAIN f.active /\ f.active[o[1]].at <= o[2]
    BY <2>2, <2>4, <1>8
  <2>6. o \in Undone(s)
    BY <2>1, <2>3, <2>5, <1>6 DEF Undone
  <2> QED BY <2>6, <1>9 DEF NothingOwed
<1> QED BY <1>3, <1>7, <1>8, <1>9 DEF w, f, g

-----------------------------------------------------------------------------
(* What callers were told. *)

\* A good log forgets no id, and revives none that has gone.
LEMMA NeverForgotten ==
    ASSUME NEW s, NEW rep, GoodLog(s, rep), NEW n \in 0..Len(s), NEW m \in 0..n
    PROVE  LET f == Fold(SubSeq(s, 1, m))
               g == Fold(SubSeq(s, 1, n))
           IN f.seen \subseteq g.seen /\ Gone(f) \subseteq Gone(g)
<1> DEFINE f == Fold(SubSeq(s, 1, m))
           Kept(k) == f.seen \subseteq Fold(SubSeq(s, 1, k)).seen
                      /\ Gone(f) \subseteq Gone(Fold(SubSeq(s, 1, k)))
           Good == {k \in 0..n : m <= k => Kept(k)}
<1>1. s \in Seq(Events) /\ Len(s) \in Nat /\ n \in Nat /\ m \in Nat
  BY DEF GoodLog
<1>2. 0 \in Good
  BY <1>1
<1>3. ASSUME NEW k \in 0..(n - 1), k \in Good
      PROVE  k + 1 \in Good
  <2> DEFINE t == SubSeq(s, 1, k)
             e == s[k + 1]
  <2>1. CASE m = k + 1
    BY <2>1, <1>1
  <2>2. CASE m <= k
    <3>1. Kept(k)
      BY <2>2, <1>3
    <3>2. k \in 0..Len(s) /\ k + 1 \in 1..Len(s) /\ (k + 1) - 1 = k
      BY <1>1
    <3>3. t \in Seq(Events) /\ e \in Events /\ SubSeq(s, 1, k + 1) = Append(t, e)
      BY <3>2, <1>1
    <3>4. MayFollow(t, e, rep)
      BY <3>2 DEF GoodLog
    <3>5. GoodLog(t, rep)
      BY <3>2, GoodBeginning
    <3>6. Sound(t)
      BY <3>5, GoodIsSound
    <3> HIDE DEF t, e
    <3> DEFINE g == Fold(t)
    <3>7. WellFolded(g) /\ Follows(g, e) /\ Fold(Append(t, e)) = Replay(g, e)
      BY <3>3, <3>4, <3>6, FoldsNext DEF Sound, MayFollow
    <3> HIDE DEF g
    <3>8. g.seen \subseteq Fold(Append(t, e)).seen /\ Gone(g) \subseteq Gone(Fold(Append(t, e)))
      BY <3>3, <3>7, ReplayFolds
    <3>9. Fold(SubSeq(s, 1, k)) = g /\ Fold(SubSeq(s, 1, k + 1)) = Fold(Append(t, e))
      BY <3>3 DEF t, g
    <3>10. Kept(k + 1)
      <4> HIDE DEF f
      <4> QED BY <3>1, <3>8, <3>9
    <3>11. k + 1 \in 0..n
      BY <1>1
    <3> QED BY <3>10, <3>11
  <2>3. CASE m > k + 1
    BY <2>3, <1>1
  <2> QED BY <2>1, <2>2, <2>3, <1>1
<1>4. 0..n \subseteq Good
  <2> HIDE DEF Good
  <2> QED BY <1>1, <1>2, <1>3, Replaying!Induction
<1>5. n \in Good /\ m <= n
  BY <1>1, <1>4
<1> QED BY <1>5

\* What callers were told is what the first n events of a log say.
Answers(s, n, known) ==
    LET f == Fold(SubSeq(s, 1, n)) IN
    known.created \subseteq f.seen /\ known.gone \subseteq Gone(f)

\* It stays so in longer beginnings, of logs that begin alike.
LEMMA AnswersStay ==
    ASSUME NEW s, NEW w, NEW rep, GoodLog(w, rep), NEW n \in 0..Len(w), NEW m \in 0..n,
           SubSeq(w, 1, m) = SubSeq(s, 1, m), NEW known, Answers(s, m, known)
    PROVE  Answers(w, n, known)
<1>1. LET f == Fold(SubSeq(w, 1, m))
          g == Fold(SubSeq(w, 1, n))
      IN f.seen \subseteq g.seen /\ Gone(f) \subseteq Gone(g)
  BY NeverForgotten
<1> QED BY <1>1 DEF Answers
-----------------------------------------------------------------------------
(* The inductive invariant of the log, and of what calls and callers know of it. *)

\* A call asks for what its tool allows, and once its change is in the log, the change
\* shows.
CallInOrder(k, f) ==
    /\ k.pc \in {"queued", "preflight"} => [op |-> k.op, n |-> k.n] \in Requests
    /\ k.pc = "barrier" => \/ k.op = "create" /\ k.n \in f.seen
                           \/ k.op = "delete" /\ k.n \in Gone(f)

AllInOrder(cs, f) == \A c \in Calls : CallInOrder(cs[c], f)

\* Only an append that failed half way leaves something owed, and its owner drives no more.
Owing(r, s, rep) == ~r.faulted => NothingOwed(s, rep)
FaultStops(r) == r.faulted => r.run \notin {"queued", "preflight"}

LogIInv ==
    /\ QueueIInv
    /\ GoodLog(log, repeatable) /\ Owing(rt, log, repeatable) /\ FaultStops(rt)
    /\ AllInOrder(calls, Fold(log)) /\ Answers(log, stored, told)

\* What it says of the log.
LEMMA LogIInvGives ==
    ASSUME LogIInv
    PROVE  /\ log \in Seq(Events) /\ Len(log) \in Nat /\ stored \in 0..Len(log)
           /\ Sound(log) /\ WellFolded(Fold(log)) /\ Active(log) = Fold(log).active
           /\ SubSeq(log, 1, Len(log)) = log /\ FlushedTo(Len(log)) = Len(log)
           /\ \A n \in stored..Len(log) : Answers(log, n, told)
           /\ IsRuntime(rt) /\ AreCalls(calls) /\ Covers(rt, calls, Len(log))
<1>1. /\ Types /\ IsRuntime(rt) /\ AreCalls(calls) /\ Covers(rt, calls, Len(log))
      /\ FlushedTo(Len(log)) = Len(log)
  BY QueueIInvGives DEF LogIInv
<1>2. GoodLog(log, repeatable) /\ Answers(log, stored, told)
  BY DEF LogIInv
<1>3. log \in Seq(Events) /\ Len(log) \in Nat
  BY <1>2 DEF GoodLog
<1>4. Sound(log)
  BY <1>2, GoodIsSound
<1>5. SubSeq(log, 1, Len(log)) = log
  BY <1>3, SubSeqFull
<1>6. stored \in 0..Len(log)
  BY <1>1 DEF Types
<1>7. ASSUME NEW n \in stored..Len(log)
      PROVE  Answers(log, n, told)
  <2>1. n \in 0..Len(log) /\ stored \in 0..n
    BY <1>3, <1>6
  <2> QED BY <2>1, <1>2, AnswersStay
<1> QED BY <1>1, <1>3, <1>4, <1>5, <1>6, <1>7 DEF Sound, Active

\* Steps that leave the log and its history alone keep it.
LEMMA LogStays ==
    ASSUME LogIInv, QueueIInv', UNCHANGED <<log, repeatable>>, Answers(log, stored', told'),
           AllInOrder(calls', Fold(log)), rt'.faulted = rt.faulted, FaultStops(rt')
    PROVE  LogIInv'
BY DEF LogIInv, Owing

\* Before anything happens it holds.
LEMMA LogIInvInit == Init => LogIInv
<1> SUFFICES ASSUME Init PROVE LogIInv
  OBVIOUS
<1>1. QueueIInv
  BY QueueIInvInit
<1>2. log = <<>> /\ stored = 0 /\ rt = Fresh /\ told = [created |-> {}, gone |-> {}]
  BY DEF Init
<1>3. log \in Seq(Events) /\ Len(log) = 0
  BY <1>2
<1>4. GoodLog(log, repeatable)
  BY <1>3 DEF GoodLog
<1>5. NothingOwed(log, repeatable)
  BY <1>3 DEF NothingOwed, Undone
<1>6. FaultStops(rt) /\ Owing(rt, log, repeatable)
  BY <1>2, <1>5 DEF FaultStops, Owing, Fresh
<1>7. \A c \in Calls : calls[c].pc = "none"
  BY DEF Init, NoCall
<1>8. AllInOrder(calls, Fold(log))
  BY <1>7 DEF AllInOrder, CallInOrder
<1>9. Answers(log, stored, told)
  BY <1>2 DEF Answers
<1> QED BY <1>1, <1>4, <1>6, <1>8, <1>9 DEF LogIInv

-----------------------------------------------------------------------------
(* What becomes of the runtime. *)

\* A request to a live owner makes it drive, now or after the drive under way.
LEMMA RequestIs ==
    ASSUME NEW r, IsRuntime(r)
    PROVE  LET q == Requested(r) IN
           /\ IsRuntime(q) /\ q.faulted = r.faulted /\ q.aside = r.aside
           /\ FaultStops(r) => FaultStops(q)
           /\ ~Stopping /\ ~r.faulted =>
                 q.run = "queued" \/ (q.run = r.run /\ r.run # "none" /\ q.requested)
<1> DEFINE p == [r EXCEPT !.timer = NoTimer]
           m == [p EXCEPT !.requested = TRUE]
<1>1. /\ IsRuntime(p) /\ p.faulted = r.faulted /\ p.run = r.run /\ p.aside = r.aside
  BY DEF IsRuntime
<1>2. /\ IsRuntime(m) /\ m.faulted = r.faulted /\ m.run = r.run /\ m.aside = r.aside /\ m.requested
  BY <1>1 DEF IsRuntime
<1>3. CASE Stopping \/ r.faulted
  BY <1>3 DEF Requested
<1>4. CASE ~(Stopping \/ r.faulted) /\ r.run = "none"
  <2>1. Requested(r) = Queued(p)
    BY <1>4 DEF Requested
  <2> HIDE DEF p
  <2>2. Owner \in Members /\ p.fifo \in Seq(Members)
    BY <1>1 DEF IsRuntime, Members
  <2>3. Append(p.fifo, Owner) \in Seq(Members)
    BY <2>2
  <2>4. IsRuntime(Queued(p)) /\ Queued(p).run = "queued"
        /\ Queued(p).faulted = p.faulted /\ Queued(p).aside = p.aside
    BY <1>1, <2>3 DEF Queued, IsRuntime
  <2> QED BY <2>1, <2>4, <1>1, <1>4 DEF FaultStops
<1>5. CASE ~(Stopping \/ r.faulted) /\ r.run # "none"
  <2>1. Requested(r) = m
    BY <1>5 DEF Requested
  <2> HIDE DEF m
  <2> QED BY <2>1, <1>2, <1>5 DEF FaultStops
<1> QED BY <1>3, <1>4, <1>5

\* Leaving the queue changes nothing else.
LEMMA LeftIs ==
    ASSUME NEW r, IsRuntime(r), NEW q, q = Left(r)
    PROVE  /\ q.run = r.run /\ q.faulted = r.faulted /\ q.aside = r.aside /\ q.sent = r.sent
           /\ q.requested = r.requested /\ q.idle = r.idle /\ q.timer = r.timer
BY DEF Left, IsRuntime

\* The end of a drive.
LEMMA EndedIs ==
    ASSUME NEW r, IsRuntime(r), NEW q,
           q = Ended(r) \/ q = SetAside(r) \/ q = WaitsForIdle(r)
    PROVE  /\ q.run = "looping" /\ q.faulted = r.faulted /\ FaultStops(q)
           /\ q = SetAside(r) => q.aside
           /\ q = WaitsForIdle(r) => q.idle # "none"
           /\ q = Ended(r) => /\ q.aside = r.aside /\ q.requested = r.requested
                              /\ q.idle = r.idle /\ q.timer = r.timer
<1>1. CASE q = Ended(r)
  <2>1. /\ q.run = "looping" /\ q.faulted = r.faulted /\ q.aside = r.aside
        /\ q.requested = r.requested /\ q.idle = r.idle /\ q.timer = r.timer
    BY <1>1 DEF Ended, Left, IsRuntime
  <2>2. q = SetAside(r) => q.aside
    BY DEF SetAside, Ended, Left, IsRuntime
  <2>3. q = WaitsForIdle(r) => q.idle # "none"
    BY DEF WaitsForIdle, Ended, Left, IsRuntime
  <2> QED BY <2>1, <2>2, <2>3 DEF FaultStops
<1>2. CASE q = SetAside(r)
  <2>1. q.run = "looping" /\ q.faulted = r.faulted /\ q.aside
    BY <1>2 DEF SetAside, Ended, Left, IsRuntime
  <2>2. q = WaitsForIdle(r) => q.idle # "none"
    BY DEF WaitsForIdle, Ended, Left, IsRuntime
  <2> QED BY <2>1, <2>2, <1>1 DEF FaultStops
<1>3. CASE q = WaitsForIdle(r)
  <2>1. q.run = "looping" /\ q.faulted = r.faulted /\ q.idle # "none"
    BY <1>3 DEF WaitsForIdle, Ended, Left, IsRuntime
  <2> QED BY <2>1, <1>1, <1>2 DEF FaultStops
<1> QED BY <1>1, <1>2, <1>3

\* Between drives only the run's place changes.
LEMMA RunIs ==
    ASSUME NEW r, IsRuntime(r), NEW place \in {"retiring", "none"}, NEW q,
           q = [r EXCEPT !.run = place]
    PROVE  /\ IsRuntime(q) /\ q.run = place /\ q.faulted = r.faulted /\ q.aside = r.aside
           /\ q.requested = r.requested /\ q.idle = r.idle /\ q.timer = r.timer
           /\ FaultStops(q)
<1>1. /\ IsRuntime(q) /\ q.run = place /\ q.faulted = r.faulted /\ q.aside = r.aside
      /\ q.requested = r.requested /\ q.idle = r.idle /\ q.timer = r.timer
  BY DEF IsRuntime
<1> QED BY <1>1 DEF FaultStops

\* Joining the queue.
LEMMA QueuedIs ==
    ASSUME NEW r, IsRuntime(r)
    PROVE  Queued(r).run = "queued" /\ Queued(r).faulted = r.faulted
BY DEF Queued, IsRuntime

-----------------------------------------------------------------------------
(* Steps of the owner, as the log sees them. *)

\* Two logs with the same first n events begin alike.
LEMMA BeginsAlike ==
    ASSUME NEW s \in Seq(Events), NEW w \in Seq(Events), NEW n \in 0..Len(s), n <= Len(w),
           \A i \in 1..n : w[i] = s[i]
    PROVE  SubSeq(w, 1, n) = SubSeq(s, 1, n)
<1>1. n \in 0..Len(w)
  OBVIOUS
<1>2. /\ SubSeq(s, 1, n) \in Seq(Events) /\ Len(SubSeq(s, 1, n)) = n
      /\ SubSeq(w, 1, n) \in Seq(Events) /\ Len(SubSeq(w, 1, n)) = n
      /\ \A i \in 1..n : SubSeq(s, 1, n)[i] = s[i] /\ SubSeq(w, 1, n)[i] = w[i]
  BY <1>1, Beginning
<1> QED BY <1>2, SeqEqual

\* Calls stay in order as ids are created and go.
LEMMA InOrderStays ==
    ASSUME NEW cs, NEW f, NEW g, f.seen \subseteq g.seen, Gone(f) \subseteq Gone(g),
           AllInOrder(cs, f)
    PROVE  AllInOrder(cs, g)
BY DEF AllInOrder, CallInOrder

\* What the owner does but deliver.
LEMMA OwnerKeepsLog ==
    ASSUME LogIInv, QueueIInv',
           \/ DriveBegins \/ PreflightFails \/ PreflightWaits \/ PreflightFindsBusy
           \/ Releases \/ BarrierSettles \/ Loops \/ Retires
           \/ TimerFires \/ IdleSeen \/ IdleWaitEnds
    PROVE  LogIInv' /\ log' = log
<1>1. /\ IsRuntime(rt) /\ FlushedTo(Len(log)) = Len(log)
      /\ rt.run \in {"preflight", "barrier"} => rt.covers = Len(log)
      /\ \A n \in stored..Len(log) : Answers(log, n, told)
      /\ stored \in 0..Len(log) /\ Len(log) \in Nat
  BY LogIInvGives DEF Covers
<1>2. FaultStops(rt) /\ AllInOrder(calls, Fold(log))
  BY DEF LogIInv
<1>3. UNCHANGED <<log, repeatable, told, calls>>
  BY DEF DriveBegins, PreflightFails, PreflightWaits, PreflightFindsBusy, Releases,
     BarrierSettles, Loops, Retires, TimerFires, IdleSeen, IdleWaitEnds, durable, history
<1>4. stored' = stored \/ (rt.run \in {"preflight", "barrier"} /\ stored' = FlushedTo(rt.covers))
  BY DEF DriveBegins, PreflightFails, PreflightWaits, PreflightFindsBusy, Releases,
     BarrierSettles, Loops, Retires, TimerFires, IdleSeen, IdleWaitEnds, durable
<1>5. stored' \in stored..Len(log)
  BY <1>1, <1>4
<1>6. Answers(log, stored', told')
  BY <1>1, <1>3, <1>5
<1>7. rt'.faulted = rt.faulted /\ FaultStops(rt')
  <2>1. CASE DriveBegins
    <3> DEFINE r == [rt EXCEPT !.timer = NoTimer, !.aside = FALSE]
               q == [r EXCEPT !.run = "preflight", !.covers = Len(log)]
    <3>1. IsRuntime(r) /\ r.faulted = rt.faulted /\ rt.run = "queued"
      BY <2>1, <1>1 DEF IsRuntime, DriveBegins
    <3>2. q.faulted = r.faulted
      BY <3>1 DEF IsRuntime
    <3>3. rt' = q \/ rt' = Ended(r)
      BY <2>1 DEF DriveBegins
    <3> HIDE DEF r, q
    <3>4. CASE rt' = q
      BY <3>1, <3>2, <3>4, <1>2 DEF FaultStops
    <3>5. CASE rt' = Ended(r)
      BY <3>1, <3>5, EndedIs
    <3> QED BY <3>3, <3>4, <3>5
  <2>2. CASE PreflightFails \/ PreflightFindsBusy
    <3>1. rt' = SetAside(rt) \/ rt' = Ended(rt) \/ rt' = WaitsForIdle(rt)
      BY <2>2 DEF PreflightFails, PreflightFindsBusy
    <3> QED BY <3>1, <1>1, EndedIs
  <2>3. CASE PreflightWaits
    <3> DEFINE q == Waiting(rt, Active(log), now)
    <3>1. rt' = Ended(q)
      BY <2>3 DEF PreflightWaits
    <3>2. IsRuntime(q) /\ q.faulted = rt.faulted
      BY <1>1 DEF Waiting, IsRuntime
    <3> HIDE DEF q
    <3> QED BY <3>1, <3>2, EndedIs
  <2>4. CASE Releases
    <3> DEFINE q == [rt EXCEPT !.run = "barrier", !.covers = Len(log), !.sent = FALSE]
    <3>1. rt' = q \/ rt' = Ended(rt)
      BY <2>4 DEF Releases
    <3>2. q.faulted = rt.faulted /\ q.run = "barrier"
      BY <1>1 DEF IsRuntime
    <3> HIDE DEF q
    <3>3. CASE rt' = q
      BY <3>2, <3>3 DEF FaultStops
    <3> QED BY <3>1, <3>3, <1>1, EndedIs
  <2>5. CASE BarrierSettles
    <3>1. rt' = Ended(Requested(rt)) \/ rt' = Ended(rt) \/ rt' = SetAside(rt)
      BY <2>5 DEF BarrierSettles
    <3>2. IsRuntime(Requested(rt)) /\ Requested(rt).faulted = rt.faulted
      BY <1>1, RequestIs
    <3>3. CASE rt' = Ended(Requested(rt))
      BY <3>2, <3>3, EndedIs
    <3> QED BY <3>1, <3>3, <1>1, EndedIs
  <2>6. CASE Loops
    <3>1. rt' = [rt EXCEPT !.run = "retiring"] \/ (rt' = Queued(rt) /\ ~rt.faulted)
      BY <2>6 DEF Loops
    <3>2. CASE rt' = [rt EXCEPT !.run = "retiring"]
      BY <3>2, <1>1, RunIs
    <3>3. CASE rt' = Queued(rt) /\ ~rt.faulted
      BY <3>3, <1>1, QueuedIs DEF FaultStops
    <3> QED BY <3>1, <3>2, <3>3
  <2>7. CASE Retires
    <3> DEFINE q == [rt EXCEPT !.run = "none"]
    <3>1. rt' = Requested(q) \/ rt' = q
      BY <2>7 DEF Retires, Retired
    <3>2. IsRuntime(q) /\ q.faulted = rt.faulted /\ FaultStops(q)
      BY <1>1, RunIs
    <3> HIDE DEF q
    <3> QED BY <3>1, <3>2, RequestIs
  <2>8. CASE TimerFires \/ IdleWaitEnds
    <3> DEFINE q == [rt EXCEPT !.timer = NoTimer]
               p == [rt EXCEPT !.idle = "none"]
    <3>1. rt' = Requested(q) \/ rt' = Requested(p)
      BY <2>8 DEF TimerFires, IdleWaitEnds
    <3>2. /\ IsRuntime(q) /\ q.faulted = rt.faulted /\ q.run = rt.run
          /\ IsRuntime(p) /\ p.faulted = rt.faulted /\ p.run = rt.run
      BY <1>1 DEF IsRuntime
    <3> HIDE DEF q, p
    <3>3. FaultStops(q) /\ FaultStops(p)
      BY <3>2, <1>2 DEF FaultStops
    <3> QED BY <3>1, <3>2, <3>3, RequestIs
  <2>9. CASE IdleSeen
    <3>1. rt'.faulted = rt.faulted /\ rt'.run = rt.run
      BY <2>9, <1>1 DEF IdleSeen, IsRuntime
    <3> QED BY <3>1, <1>2 DEF FaultStops
  <2> QED BY <2>1, <2>2, <2>3, <2>4, <2>5, <2>6, <2>7, <2>8, <2>9
<1>8. LogIInv'
  BY <1>2, <1>3, <1>6, <1>7, LogStays
<1> QED BY <1>3, <1>8

\* Much or little of a delivery keeps the log good, and presents nothing early; a failed
\* append may leave something owed, and then the owner drives no more.
LEMMA MaintainsKeepsLog ==
    ASSUME LogIInv, QueueIInv', Maintains
    PROVE  LogIInv' /\ (Presents => \A o \in log'[Len(log) + 1].due : o[2] <= now')
<1>1. /\ log \in Seq(Events) /\ Len(log) \in Nat /\ stored \in 0..Len(log)
      /\ Sound(log) /\ WellFolded(Fold(log)) /\ Active(log) = Fold(log).active
      /\ \A n \in stored..Len(log) : Answers(log, n, told)
      /\ IsRuntime(rt)
  BY LogIInvGives
<1>2. /\ GoodLog(log, repeatable) /\ FaultStops(rt) /\ AllInOrder(calls, Fold(log))
      /\ Owing(rt, log, repeatable)
  BY DEF LogIInv
<1>3. stored' = Len(log) /\ UNCHANGED <<life, calls, repeatable, told>>
  <2>1. stored' = Len(log)
    BY MaintainsStep DEF LogIInv
  <2> QED BY <2>1 DEF Maintains, history
<1>4. ~rt.faulted /\ NothingOwed(log, repeatable)
  BY <1>2 DEF Maintains, FaultStops, Owing
<1> DEFINE active == Active(log)
           held == [rt EXCEPT !.run = "maintaining", !.covers = 0]
<1>5. IsRuntime(held) /\ held.run = "maintaining" /\ held.faulted = rt.faulted
  BY <1>1 DEF IsRuntime, RunningPlaces
<1>6. PICK t \in Instant :
        \E ids \in Orders(active, Batch(active, DecidesAt(t))) : now' = t /\ Task(t, ids)
  BY DEF Maintains
<1>7. PICK ids \in Orders(active, Batch(active, t)) : now' = t /\ Task(t, ids)
  BY <1>6 DEF DecidesAt
<1> DEFINE all == Delivered(active, ids, t)
<1>8. \/ rt' = Waiting(held, active, t) /\ log' = log
      \/ rt' = [held EXCEPT !.aside = TRUE] /\ log' = log
      \/ /\ \E n \in 1..Len(all) - 1 : log' = log \o SubSeq(all, 1, n)
         /\ rt' = FaultsAfterAppend(held)
      \/ log' = log \o all /\ rt' = [held EXCEPT !.sent = TRUE]
  BY <1>7 DEF Task, DecidesAt
<1>9. t \in Nat
  BY <1>6 DEF Instant
<1>10. /\ all \in Seq(Events) /\ Len(all) = Len(ids) + 1 /\ Len(ids) \in Nat
       /\ log \o SubSeq(all, 1, Len(all)) = log \o all
  <2>1. all \in Seq(Events) /\ Len(all) = Len(ids) + 1
    BY <1>1, <1>9, DeliveredAt
  <2>2. Len(ids) \in Nat
    BY <1>1, <1>9, BatchIs
  <2> HIDE DEF all
  <2>3. log \o SubSeq(all, 1, Len(all)) = log \o all
    BY <2>1, <1>1, GoesOn
  <2> QED BY <2>1, <2>2, <2>3
<1>11. rt'.run = "maintaining"
  <2> HIDE DEF held
  <2>1. Waiting(held, active, t).run = "maintaining"
    BY <1>5 DEF Waiting, IsRuntime
  <2>2. [held EXCEPT !.aside = TRUE].run = "maintaining"
        /\ [held EXCEPT !.sent = TRUE].run = "maintaining"
    BY <1>5 DEF IsRuntime
  <2>3. FaultsAfterAppend(held).run = "maintaining"
    BY <1>5 DEF IsRuntime, FaultsAfterAppend
  <2> QED BY <1>8, <2>1, <2>2, <2>3
<1>12. FaultStops(rt')
  BY <1>11 DEF FaultStops
<1>13. CASE log' = log
  <2>1. rt'.faulted = rt.faulted
    <3>1. log # log \o all /\ \A n \in 1..Len(all) - 1 : log # log \o SubSeq(all, 1, n)
      <4> HIDE DEF all
      <4>1. Len(log \o all) = Len(log) + Len(all)
        BY <1>1, <1>10
      <4>2. ASSUME NEW n \in 1..Len(all) - 1
            PROVE  log # log \o SubSeq(all, 1, n)
        <5>1. SubSeq(all, 1, n) \in Seq(Events) /\ Len(SubSeq(all, 1, n)) = n
          BY <1>10
        <5>2. Len(log \o SubSeq(all, 1, n)) = Len(log) + n
          BY <5>1, <1>1
        <5> QED BY <5>2, <1>1
      <4> QED BY <4>1, <4>2, <1>1, <1>10
    <3>2. rt' = Waiting(held, active, t) \/ rt' = [held EXCEPT !.aside = TRUE]
      <4> HIDE DEF held, all
      <4> QED BY <3>1, <1>8, <1>13
    <3> HIDE DEF held
    <3>3. Waiting(held, active, t).faulted = held.faulted
      BY <1>5 DEF Waiting, IsRuntime
    <3>4. [held EXCEPT !.aside = TRUE].faulted = held.faulted
      BY <1>5 DEF IsRuntime
    <3> QED BY <3>2, <3>3, <3>4, <1>5
  <2>2. Answers(log, stored', told')
    BY <1>1, <1>3
  <2>3. LogIInv'
    BY <2>1, <2>2, <1>2, <1>3, <1>12, <1>13, LogStays
  <2> QED BY <2>3, <1>1, <1>13 DEF Presents
<1>14. ASSUME NEW n \in 1..Len(all), log' = log \o SubSeq(all, 1, n),
              n = Len(all) \/ rt'.faulted
       PROVE  LogIInv' /\ (Presents => \A o \in log'[Len(log) + 1].due : o[2] <= now')
  <2>1. Dispatching(log, ids, t, repeatable, n - 1, log')
    BY <1>2, <1>4, <1>9, <1>14, DeliveredGood
  <2> HIDE DEF all
  <2>2. /\ GoodLog(log', repeatable) /\ Len(log') = Len(log) + 1 + (n - 1)
        /\ \A i \in 1..Len(log) : log'[i] = log[i]
        /\ log'[Len(log) + 1] = Message(active, ids, t)
        /\ Fold(log').seen = Fold(log).seen
        /\ DOMAIN Fold(log').active \subseteq DOMAIN Fold(log).active
    BY <2>1, <1>1 DEF Dispatching
  <2>3. log' \in Seq(Events) /\ Len(log) <= Len(log') /\ Len(log) \in 0..Len(log)
        /\ Len(log) \in 0..Len(log')
    BY <2>2, <1>1, <1>10, <1>14 DEF GoodLog
  <2>4. Answers(log', stored', told')
    <3>1. SubSeq(log', 1, Len(log)) = SubSeq(log, 1, Len(log))
      BY <2>2, <2>3, <1>1, BeginsAlike
    <3>2. Answers(log, Len(log), told)
      BY <1>1
    <3> QED BY <3>1, <3>2, <2>2, <2>3, <1>3, AnswersStay
  <2>5. AllInOrder(calls', Fold(log'))
    <3>1. Gone(Fold(log)) \subseteq Gone(Fold(log'))
      BY <2>2 DEF Gone
    <3> QED BY <3>1, <2>2, <1>2, <1>3, InOrderStays
  <2>6. Owing(rt', log', repeatable)
    <3> SUFFICES ASSUME ~rt'.faulted PROVE NothingOwed(log', repeatable)
      BY DEF Owing
    <3>1. n - 1 = Len(ids)
      BY <1>10, <1>14
    <3>2. Dispatching(log, ids, t, repeatable, Len(ids), log')
      BY <2>1, <3>1
    <3> QED BY <3>2, <1>1, <1>4, <1>9, AllDispatched
  <2>7. LogIInv'
    BY <2>2, <2>4, <2>5, <2>6, <1>3, <1>12 DEF LogIInv
  <2>8. ASSUME NEW o \in log'[Len(log) + 1].due
        PROVE  o[2] <= now'
    <3>1. /\ DOMAIN ids = 1..Len(ids)
          /\ \A k \in 1..Len(ids) : active[ids[k]] \in Records /\ active[ids[k]].at <= t
      BY <1>1, <1>9, BatchIs
    <3>2. PICK k \in 1..Len(ids) : o = <<ids[k], Occurrence(active[ids[k]], t)>>
      BY <2>2, <2>8, <3>1 DEF Message, FollowUp
    <3>3. Occurrence(active[ids[k]], t) <= t
      BY <3>1, <1>9, OccurrenceIs
    <3> QED BY <3>2, <3>3, <1>7
  <2> QED BY <2>7, <2>8
<1>15. CASE log' = log \o all
  <2>1. Len(all) \in 1..Len(all)
    BY <1>10
  <2>2. log' = log \o SubSeq(all, 1, Len(all))
    BY <1>10, <1>15
  <2> HIDE DEF all
  <2> QED BY <2>1, <2>2, <1>14
<1>16. CASE /\ \E n \in 1..Len(all) - 1 : log' = log \o SubSeq(all, 1, n)
            /\ rt' = FaultsAfterAppend(held)
  <2>1. PICK n \in 1..Len(all) - 1 : log' = log \o SubSeq(all, 1, n)
    BY <1>16
  <2>2. rt'.faulted
    BY <1>5, <1>16 DEF FaultsAfterAppend, IsRuntime
  <2> HIDE DEF all
  <2>3. n \in 1..Len(all)
    BY <1>10
  <2> QED BY <2>1, <2>2, <2>3, <1>14
<1> HIDE DEF held, all
<1> QED BY <1>8, <1>13, <1>15, <1>16
-----------------------------------------------------------------------------
(* Steps of calls and of the rest, as the log sees them. *)

\* One call changes, in order.
LEMMA OthersInOrder ==
    ASSUME NEW cs, NEW ds, NEW c \in Calls, NEW f, AllInOrder(cs, f),
           \A d \in Calls \ {c} : ds[d] = cs[d], CallInOrder(ds[c], f)
    PROVE  AllInOrder(ds, f)
BY DEF AllInOrder

\* A call that returns is in order.
LEMMA ReturnsInOrder ==
    ASSUME NEW cs, AreCalls(cs), NEW c \in Calls, NEW f, AllInOrder(cs, f)
    PROVE  AllInOrder([cs EXCEPT ![c] = NoCall], f)
<1> DEFINE ds == [cs EXCEPT ![c] = NoCall]
<1>1. ds[c] = NoCall /\ \A d \in Calls \ {c} : ds[d] = cs[d]
  BY DEF AreCalls
<1> HIDE DEF ds
<1>2. CallInOrder(ds[c], f)
  BY <1>1 DEF CallInOrder, NoCall
<1>3. AllInOrder(ds, f)
  BY <1>1, <1>2, OthersInOrder
<1> QED BY <1>3 DEF ds

\* What the fold says may be told.
LEMMA TruthIsTold ==
    ASSUME LogIInv, NEW created, NEW gone, Knows(created, gone),
           created \subseteq Fold(log).seen, gone \subseteq Gone(Fold(log))
    PROVE  Answers(log, Len(log), told')
<1>1. /\ SubSeq(log, 1, Len(log)) = log /\ Len(log) \in stored..Len(log)
      /\ Answers(log, Len(log), told)
  BY LogIInvGives
<1> DEFINE f == Fold(log)
<1>2. told.created \subseteq f.seen /\ told.gone \subseteq Gone(f)
  BY <1>1 DEF Answers
<1>3. told'.created = told.created \cup created /\ told'.gone = told.gone \cup gone
  BY DEF Knows
<1>4. told'.created \subseteq f.seen /\ told'.gone \subseteq Gone(f)
  <2> HIDE DEF f
  <2> QED BY <1>2, <1>3 DEF f
<1> QED BY <1>1, <1>4 DEF Answers

\* A request of a tool.
LEMMA RequestTypes ==
    ASSUME NEW k, [op |-> k.op, n |-> k.n] \in Requests, Creates(k)
    PROVE  k.n \in Nat
<1> DEFINE q == [op |-> k.op, n |-> k.n]
<1>1. q.op \in {"after", "at", "every"} /\ q.n = k.n /\ q.op = k.op
  BY DEF Creates
<1>2. q \in [op : {"after"}, n : Delays] \cup [op : {"at"}, n : Instants]
            \cup [op : {"every"}, n : Intervals]
  BY <1>1 DEF Requests
<1> HIDE DEF q
<1>3. q.n \in Delays \cup Instants \cup Intervals
  BY <1>2
<1> QED BY <1>1, <1>3, SchedulesAssumption

\* Calls that append nothing keep it.
LEMMA CallReadsLog ==
    ASSUME LogIInv, QueueIInv', NEW c \in Calls,
           Invoke(c) \/ CallBegins(c) \/ CallFails(c) \/ CallAnswers(c) \/ CallConfirms(c)
    PROVE  LogIInv' /\ log' = log
<1>1. /\ IsRuntime(rt) /\ AreCalls(calls) /\ FlushedTo(Len(log)) = Len(log)
      /\ Busy(calls[c]) => calls[c].covers = Len(log)
      /\ \A n \in stored..Len(log) : Answers(log, n, told)
      /\ stored \in 0..Len(log) /\ Len(log) \in Nat /\ WellFolded(Fold(log))
  BY LogIInvGives DEF Covers
<1>2. FaultStops(rt) /\ AllInOrder(calls, Fold(log))
  BY DEF LogIInv
<1>3. UNCHANGED <<log, repeatable>>
  BY DEF Invoke, CallBegins, CallFails, CallAnswers, CallConfirms, Reads, durable, history
<1>4. CASE Invoke(c)
  <2>1. PICK q \in Requests :
          calls' = [calls EXCEPT ![c] = [pc |-> "queued", op |-> q.op, n |-> q.n, covers |-> 0]]
    BY <1>4 DEF Invoke
  <2>2. /\ \A d \in Calls \ {c} : calls'[d] = calls[d]
        /\ calls'[c] = [pc |-> "queued", op |-> q.op, n |-> q.n, covers |-> 0]
    BY <2>1, <1>1 DEF AreCalls
  <2>3. [op |-> q.op, n |-> q.n] = q
    BY DEF Requests
  <2>4. CallInOrder(calls'[c], Fold(log))
    BY <2>2, <2>3 DEF CallInOrder
  <2>5. AllInOrder(calls', Fold(log))
    BY <2>2, <2>4, <1>2, OthersInOrder
  <2>6. rt'.faulted = rt.faulted /\ rt'.run = rt.run /\ stored' = stored /\ told' = told
    BY <1>4, <1>1 DEF Invoke, IsRuntime, durable, history
  <2>7. FaultStops(rt') /\ Answers(log, stored', told')
    BY <2>6, <1>1, <1>2 DEF FaultStops
  <2> QED BY <2>5, <2>6, <2>7, <1>3, LogStays
<1>5. CASE CallBegins(c)
  <2>1. stored' = stored /\ told' = told
    BY <1>5 DEF CallBegins, durable, history
  <2>2. Answers(log, stored', told')
    BY <2>1, <1>1
  <2>3. CASE Returns(c) /\ rt' = Left(rt)
    <3>1. AllInOrder(calls', Fold(log))
      BY <2>3, <1>1, <1>2, ReturnsInOrder DEF Returns
    <3>2. rt'.faulted = rt.faulted /\ FaultStops(rt')
      BY <2>3, <1>1, <1>2, LeftIs DEF FaultStops
    <3> QED BY <2>2, <3>1, <3>2, <1>3, LogStays
  <2>4. CASE /\ calls' = [calls EXCEPT ![c].pc = "preflight", ![c].covers = Len(log)]
             /\ rt' = rt
    <3>1. /\ \A d \in Calls \ {c} : calls'[d] = calls[d]
          /\ calls'[c] = [calls[c] EXCEPT !.pc = "preflight", !.covers = Len(log)]
      BY <2>4, <1>1 DEF AreCalls
    <3>2. IsCall(calls[c]) /\ calls[c].pc = "queued"
      BY <1>1, <1>5 DEF AreCalls, CallBegins
    <3>3. /\ calls'[c].pc = "preflight" /\ calls'[c].op = calls[c].op /\ calls'[c].n = calls[c].n
      BY <3>1, <3>2 DEF IsCall
    <3>4. CallInOrder(calls'[c], Fold(log))
      BY <3>2, <3>3, <1>2 DEF AllInOrder, CallInOrder
    <3>5. AllInOrder(calls', Fold(log))
      BY <3>1, <3>4, <1>2, OthersInOrder
    <3> QED BY <2>2, <2>4, <3>5, <1>2, <1>3, LogStays
  <2> QED BY <1>5, <2>3, <2>4 DEF CallBegins
<1>6. CASE CallFails(c)
  <2>1. Returns(c) /\ rt' = Left(rt) /\ stored' = stored /\ told' = told
    BY <1>6 DEF CallFails, durable, history
  <2>2. AllInOrder(calls', Fold(log))
    BY <2>1, <1>1, <1>2, ReturnsInOrder DEF Returns
  <2>3. rt'.faulted = rt.faulted /\ FaultStops(rt')
    BY <2>1, <1>1, <1>2, LeftIs DEF FaultStops
  <2>4. Answers(log, stored', told')
    BY <2>1, <1>1
  <2> QED BY <2>2, <2>3, <2>4, <1>3, LogStays
<1>7. CASE CallAnswers(c) \/ CallConfirms(c)
  <2>1. /\ Busy(calls[c]) /\ Returns(c) /\ rt' = Left(Requested(rt))
        /\ stored' = FlushedTo(calls[c].covers)
    BY <1>7 DEF CallAnswers, CallConfirms, Reads, Busy
  <2>2. stored' = Len(log)
    BY <2>1, <1>1
  <2>3. AllInOrder(calls', Fold(log))
    BY <2>1, <1>1, <1>2, ReturnsInOrder DEF Returns
  <2>4. rt'.faulted = rt.faulted /\ FaultStops(rt')
    <3>1. /\ IsRuntime(Requested(rt)) /\ Requested(rt).faulted = rt.faulted
          /\ FaultStops(Requested(rt))
      BY <1>1, <1>2, RequestIs
    <3> QED BY <2>1, <3>1, LeftIs DEF FaultStops
  <2>5. Answers(log, Len(log), told')
    <3> DEFINE f == Fold(log)
               active == DOMAIN f.active
    <3>1. active \subseteq f.seen /\ Gone(f) = f.seen \ active
      BY <1>1 DEF WellFolded, Gone
    <3>2. CASE told' = told
      BY <3>2, <1>1
    <3>3. CASE Knows(active, f.seen \ active)
      BY <3>1, <3>3, TruthIsTold
    <3>4. CASE calls[c].n \notin active /\ Knows({}, {calls[c].n} \cap f.seen)
      <4>1. {calls[c].n} \cap f.seen \subseteq Gone(f)
        BY <3>1, <3>4
      <4> QED BY <3>4, <4>1, TruthIsTold
    <3>5. CASE CallConfirms(c)
      <4>1. /\ CallInOrder(calls[c], f) /\ calls[c].pc = "barrier"
            /\ IF calls[c].op = "create" THEN Knows({calls[c].n}, {}) ELSE Knows({}, {calls[c].n})
        BY <3>5, <1>2 DEF CallConfirms, AllInOrder
      <4>2. CASE calls[c].op = "create"
        <5>1. calls[c].n \in f.seen
          BY <4>1, <4>2 DEF CallInOrder
        <5> QED BY <4>1, <4>2, <5>1, TruthIsTold
      <4>3. CASE calls[c].op # "create"
        <5>1. calls[c].n \in Gone(f)
          BY <4>1, <4>3 DEF CallInOrder
        <5> QED BY <4>1, <4>3, <5>1, TruthIsTold
      <4> QED BY <4>2, <4>3
    <3>6. CallAnswers(c) => \/ told' = told
                            \/ Knows(active, f.seen \ active)
                            \/ calls[c].n \notin active /\ Knows({}, {calls[c].n} \cap f.seen)
      BY DEF CallAnswers
    <3> HIDE DEF f, active
    <3> QED BY <1>7, <3>2, <3>3, <3>4, <3>5, <3>6
  <2>6. Answers(log, stored', told')
    BY <2>2, <2>5
  <2> QED BY <2>3, <2>4, <2>6, <1>3, LogStays
<1> QED BY <1>3, <1>4, <1>5, <1>6, <1>7

\* A call that appends adds a change that may follow.
LEMMA CallExtendsLog ==
    ASSUME LogIInv, QueueIInv', NEW c \in Calls, CallCreates(c) \/ CallDeletes(c)
    PROVE  /\ LogIInv' /\ rt' = Requested(rt)
           /\ Presents => \A o \in log'[Len(log) + 1].due : o[2] <= now'
<1>1. /\ log \in Seq(Events) /\ Len(log) \in Nat /\ stored \in 0..Len(log)
      /\ WellFolded(Fold(log)) /\ Active(log) = Fold(log).active
      /\ SubSeq(log, 1, Len(log)) = log
      /\ \A n \in stored..Len(log) : Answers(log, n, told)
      /\ IsRuntime(rt) /\ AreCalls(calls)
  BY LogIInvGives
<1>2. /\ GoodLog(log, repeatable) /\ FaultStops(rt) /\ AllInOrder(calls, Fold(log))
      /\ Owing(rt, log, repeatable)
  BY DEF LogIInv
<1>3. PICK e \in Events :
        Appends(c, e) /\ Follows(Fold(log), e) /\ e.op \in {"create", "delete"}
  <2>1. CASE CallCreates(c)
    <3> DEFINE call == calls[c]
               target == IF call.op = "at" THEN call.n ELSE now + call.n
               every == IF call.op = "every" THEN call.n ELSE 0
               id == FreshId(Fold(log))
               e == Create(id, target, every)
    <3>1. Creates(call) /\ target > now /\ target <= Horizon /\ Appends(c, e)
      BY <2>1 DEF CallCreates
    <3>2. call.pc = "preflight"
      BY <3>1 DEF Appends, Reads
    <3>3. call.n \in Nat
      BY <3>1, <3>2, <1>2, RequestTypes DEF AllInOrder, CallInOrder
    <3>4. now \in Nat
      BY QueueIInvGives DEF LogIInv, Types, Instant
    <3>5. id \in Nat /\ id \notin Fold(log).seen
      BY <1>1, FreshIdIs
    <3>6. target \in Instant /\ every \in Nat
      BY <3>1, <3>3, <3>4, ScheduleLogAssumption DEF Instant
    <3> HIDE DEF id, target, every
    <3>7. e \in Events /\ e.op = "create" /\ e.id = id
      BY <3>5, <3>6 DEF Events, Create
    <3> HIDE DEF e
    <3>8. Follows(Fold(log), e)
      BY <3>5, <3>7 DEF Follows
    <3> QED BY <3>1, <3>7, <3>8
  <2>2. CASE CallDeletes(c)
    <3> DEFINE id == calls[c].n
               e == Delete(id)
    <3>1. id \in DOMAIN Active(log) /\ Appends(c, e)
      BY <2>2 DEF CallDeletes
    <3>2. id \in DOMAIN Fold(log).active /\ id \in Nat
      BY <3>1, <1>1 DEF WellFolded
    <3> HIDE DEF id
    <3>3. e \in Events /\ e.op = "delete" /\ e.id = id
      BY <3>2 DEF Events, Delete
    <3> HIDE DEF e
    <3>4. Follows(Fold(log), e)
      BY <3>2, <3>3 DEF Follows
    <3> QED BY <3>1, <3>3, <3>4
  <2> QED BY <2>1, <2>2
<1>4. /\ log' = Append(log, e) /\ rt' = Requested(rt) /\ UNCHANGED <<repeatable, told>>
      /\ stored' = Len(log)
  <2>1. stored' = Len(log)
    BY <1>3, CallAppends DEF LogIInv
  <2> QED BY <2>1, <1>3 DEF Appends, Reads
<1> DEFINE f == Fold(log)
           g == Fold(log')
<1>5. /\ GoodLog(log', repeatable) /\ f.seen \subseteq g.seen /\ Gone(f) \subseteq Gone(g)
      /\ e.op = "create" => e.id \in g.seen
      /\ e.op = "delete" => e.id \in Gone(g)
      /\ NothingOwed(log, repeatable) => NothingOwed(log', repeatable)
  BY <1>2, <1>3, <1>4, ChangeFollows
<1>6. /\ log' \in Seq(Events) /\ Len(log') = Len(log) + 1 /\ log'[Len(log')] = e
      /\ SubSeq(log', 1, Len(log)) = log
  BY <1>1, <1>4, OneMore
<1>7. rt'.faulted = rt.faulted /\ FaultStops(rt')
  BY <1>1, <1>2, <1>4, RequestIs
<1>8. Owing(rt', log', repeatable)
  BY <1>2, <1>5, <1>7 DEF Owing
<1>9. Answers(log', stored', told')
  <2>1. Len(log) \in 0..Len(log') /\ Len(log) \in 0..Len(log) /\ Len(log) \in stored..Len(log)
    BY <1>1, <1>6
  <2>2. Answers(log, Len(log), told) /\ SubSeq(log', 1, Len(log)) = SubSeq(log, 1, Len(log))
    BY <2>1, <1>1, <1>6
  <2>3. Answers(log', Len(log), told)
    BY <2>1, <2>2, <1>5, AnswersStay
  <2> QED BY <2>3, <1>4
<1>10. AllInOrder(calls', g)
  <2>1. /\ DOMAIN calls = Calls /\ IsCall(calls[c])
        /\ calls' = [calls EXCEPT ![c].pc = "barrier", ![c].covers = Len(log) + 1,
                                  ![c].op = e.op, ![c].n = e.id]
    BY <1>1, <1>3 DEF Appends, AreCalls
  <2>2. /\ \A d \in Calls \ {c} : calls'[d] = calls[d]
        /\ calls'[c] = [calls[c] EXCEPT !.pc = "barrier", !.covers = Len(log) + 1,
                                       !.op = e.op, !.n = e.id]
    BY <2>1
  <2>3. calls'[c].pc = "barrier" /\ calls'[c].op = e.op /\ calls'[c].n = e.id
    <3> DEFINE o == e.op
               i == e.id
    <3> HIDE DEF o, i
    <3>1. calls'[c] = [calls[c] EXCEPT !.pc = "barrier", !.covers = Len(log) + 1,
                                      !.op = o, !.n = i]
      BY <2>2 DEF o, i
    <3>2. calls'[c] \in [pc : {"barrier"}, op : {o}, n : {i}, covers : {Len(log) + 1}]
      BY <3>1, <2>1 DEF IsCall
    <3>3. calls'[c].pc = "barrier" /\ calls'[c].op = o /\ calls'[c].n = i
      BY <3>2
    <3> QED BY <3>3 DEF o, i
  <2> HIDE DEF f, g
  <2>4. CallInOrder(calls'[c], g)
    BY <2>3, <1>3, <1>5 DEF CallInOrder
  <2>5. AllInOrder(calls, g)
    BY <1>2, <1>5, InOrderStays DEF f
  <2> QED BY <2>2, <2>4, <2>5, OthersInOrder
<1>11. LogIInv'
  BY <1>4, <1>5, <1>7, <1>8, <1>9, <1>10 DEF LogIInv
<1>12. ~Presents
  <2>1. log'[Len(log) + 1] = e
    BY <1>6
  <2> QED BY <2>1, <1>3 DEF Presents
<1> QED BY <1>4, <1>11, <1>12

\* A kill leaves a beginning that holds all that callers were told, and what it owes may
\* be repeated; nothing else outside the queue touches the log.
LEMMA OutsideKeepsLog ==
    ASSUME LogIInv, QueueIInv', Outside
    PROVE  LogIInv' /\ ~Presents
<1>1. /\ log \in Seq(Events) /\ Len(log) \in Nat /\ stored \in 0..Len(log)
      /\ \A n \in stored..Len(log) : Answers(log, n, told)
      /\ IsRuntime(rt) /\ AreCalls(calls)
  BY LogIInvGives
<1>2. /\ GoodLog(log, repeatable) /\ FaultStops(rt) /\ AllInOrder(calls, Fold(log))
      /\ Owing(rt, log, repeatable)
  BY DEF LogIInv
<1>3. CASE Leaves
  <2>1. /\ rt' = Fresh /\ calls' = [c \in Calls |-> NoCall] /\ told' = told
    BY <1>3 DEF Leaves
  <2>2. PICK n \in stored..Len(log) :
          /\ log' = SubSeq(log, 1, n) /\ stored' = n
          /\ repeatable' = repeatable \cup Undone(SubSeq(log, 1, n))
    BY <1>3 DEF Leaves
  <2>3. n \in 0..Len(log) /\ n \in 0..n
    BY <1>1
  <2>4. GoodLog(log', repeatable')
    <3>1. GoodLog(log', repeatable)
      BY <2>2, <2>3, <1>2, GoodBeginning
    <3>2. repeatable \subseteq repeatable'
      BY <2>2
    <3> QED BY <3>1, <3>2, GoodMore
  <2>5. Len(log') = n /\ SubSeq(log', 1, n) = SubSeq(log, 1, n)
    BY <2>2, <2>3, <1>1, Beginning
  <2>6. Answers(log', stored', told')
    BY <2>1, <2>2, <2>5, <1>1 DEF Answers
  <2>7. AllInOrder(calls', Fold(log'))
    BY <2>1 DEF AllInOrder, CallInOrder, NoCall
  <2>8. FaultStops(rt')
    BY <2>1 DEF FaultStops, Fresh
  <2>9. Owing(rt', log', repeatable')
    BY <2>2 DEF Owing, NothingOwed
  <2>10. ~Presents
    BY <2>3, <2>5, <1>1 DEF Presents
  <2> QED BY <2>4, <2>6, <2>7, <2>8, <2>9, <2>10 DEF LogIInv
<1>4. CASE ~Leaves
  <2>1. UNCHANGED <<log, stored, repeatable, told, calls>>
    BY <1>4 DEF Outside, Prompted, MaintenanceBegins, MaintenanceEnds, Cancel, TurnEnds, Tick,
       Rollback, Departs, Stops, Disposed, Resumes, durable, history
  <2>2. rt'.faulted = rt.faulted /\ FaultStops(rt')
    <3>1. CASE rt' = rt
      BY <3>1, <1>2
    <3>2. CASE rt' = Requested(rt)
      BY <3>2, <1>1, <1>2, RequestIs
    <3>3. CASE rt' = StoppedRuntime(rt)
      <4>1. rt'.faulted = rt.faulted /\ rt'.run = rt.run
        BY <3>3, <1>1 DEF StoppedRuntime, IsRuntime
      <4> QED BY <4>1, <1>2 DEF FaultStops
    <3>4. CASE Resumes
      <4>1. rt' = Queued(Fresh) /\ rt = Fresh /\ Fresh.faulted = FALSE
        BY <3>4 DEF Resumes, LogIInv, QueueIInv, DownIsEmpty, Fresh
      <4>2. rt'.faulted = FALSE
        BY <4>1, <1>1, QueuedIs
      <4> QED BY <4>1, <4>2 DEF FaultStops
    <3>5. rt' = rt \/ rt' = Requested(rt) \/ rt' = StoppedRuntime(rt) \/ Resumes
      BY <1>4 DEF Outside, Prompted, MaintenanceBegins, MaintenanceEnds, Cancel, TurnEnds, Tick,
         Rollback, Departs, Stops, Disposed
    <3> QED BY <3>1, <3>2, <3>3, <3>4, <3>5
  <2>3. Answers(log, stored', told')
    BY <2>1, <1>1
  <2>4. LogIInv'
    BY <2>1, <2>2, <2>3, <1>2, LogStays
  <2> QED BY <2>1, <2>4, <1>1 DEF Presents
<1> QED BY <1>3, <1>4

\* Every step keeps the log's invariant, and presents nothing before its time.
LEMMA LogStep ==
    ASSUME LogIInv, [Next]_vars
    PROVE  LogIInv' /\ (Presents => \A o \in log'[Len(log) + 1].due : o[2] <= now')
<1>1. QueueIInv' /\ Len(log) \in Nat
  BY QueueStep, LogIInvGives DEF LogIInv
<1>2. CASE UNCHANGED vars
  <2>1. UNCHANGED <<log, stored, repeatable, told, calls, rt>>
    BY <1>2 DEF vars
  <2>2. LogIInv'
    BY <2>1, <1>1 DEF LogIInv
  <2> QED BY <2>1, <2>2, <1>1 DEF Presents
<1>3. CASE OwnerStep
  <2>1. CASE Maintains
    BY <2>1, <1>1, MaintainsKeepsLog
  <2>2. CASE ~Maintains
    <3>1. LogIInv' /\ log' = log
      BY <2>2, <1>1, <1>3, OwnerKeepsLog DEF OwnerStep
    <3> QED BY <3>1, <1>1 DEF Presents
  <2> QED BY <2>1, <2>2
<1>4. CASE Outside
  BY <1>1, <1>4, OutsideKeepsLog
<1>5. ASSUME NEW c \in Calls, Invoke(c) \/ CallStep(c)
      PROVE  LogIInv' /\ (Presents => \A o \in log'[Len(log) + 1].due : o[2] <= now')
  <2>1. CASE CallCreates(c) \/ CallDeletes(c)
    BY <2>1, <1>1, CallExtendsLog
  <2>2. CASE ~(CallCreates(c) \/ CallDeletes(c))
    <3>1. LogIInv' /\ log' = log
      BY <2>2, <1>1, <1>5, CallReadsLog DEF CallStep
    <3> QED BY <3>1, <1>1 DEF Presents
  <2> QED BY <2>1, <2>2
<1> QED BY <1>2, <1>3, <1>4, <1>5 DEF Next
-----------------------------------------------------------------------------
(* The owner's wakes. *)

\* The timer is set, and for no later than the earliest target.
Armed(r, active) == r.timer # NoTimer /\ \A i \in DOMAIN active : r.timer <= active[i].at

\* Between drives a trigger is noted, or something else will come; at the end of a
\* maintenance task the drive goes on to its barrier, or the same holds.
Awake(r, active) ==
    ~r.faulted /\ ~r.aside /\ DOMAIN active # {} =>
        /\ r.run \in {"none", "looping", "retiring"} =>
              (r.run # "none" /\ r.requested) \/ r.idle # "none" \/ Armed(r, active)
        /\ r.run = "maintaining" => r.sent \/ r.requested \/ r.idle # "none" \/ Armed(r, active)

AwakeInv == life = "live" => Awake(rt, Active(log))

ReminderIInv == LogIInv /\ AwakeInv

\* When nothing is due, the timer is set for the earliest target.
LEMMA WaitingArms ==
    ASSUME NEW f, WellFolded(f), NEW t, Due(f.active, t) = {}, NEW r, IsRuntime(r),
           NEW q, q = Waiting(r, f.active, t)
    PROVE  /\ IsRuntime(q) /\ q.run = r.run /\ q.faulted = r.faulted /\ q.aside = r.aside
           /\ DOMAIN f.active # {} => Armed(q, f.active)
<1> DEFINE wakes == Wakes(f.active, t)
           w == CHOOSE w \in wakes : \A v \in wakes : w <= v
<1>1. wakes = {f.active[i].at : i \in DOMAIN f.active}
  BY DEF Wakes
<1>2. wakes \in SUBSET Nat /\ \A v \in wakes : v # 0
  BY <1>1 DEF WellFolded, Records, Instant
<1> HIDE DEF wakes
<1>3. /\ IsRuntime(q) /\ q.run = r.run /\ q.faulted = r.faulted /\ q.aside = r.aside
      /\ wakes # {} => q.timer = w
  BY DEF Waiting, IsRuntime, wakes
<1>4. ASSUME DOMAIN f.active # {}
      PROVE  Armed(q, f.active)
  <2>1. wakes # {}
    BY <1>1, <1>4
  <2>2. PICK m \in wakes : \A k \in wakes : ~(k < m)
    BY <2>1, <1>2, Replaying!Least
  <2>3. \A k \in wakes : m <= k
    BY <2>2, <1>2
  <2>4. w \in wakes /\ \A v \in wakes : w <= v
    BY <2>2, <2>3
  <2> HIDE DEF w
  <2>5. q.timer \in wakes /\ \A v \in wakes : q.timer <= v
    BY <2>1, <2>4, <1>3
  <2>6. q.timer # NoTimer
    BY <2>5, <1>2 DEF NoTimer
  <2>7. ASSUME NEW i \in DOMAIN f.active
        PROVE  q.timer <= f.active[i].at
    BY <2>5, <1>1
  <2> QED BY <2>6, <2>7 DEF Armed
<1> QED BY <1>3, <1>4

\* Whoever has been asked to drive is awake, whatever there is to do.
LEMMA RequestWakes ==
    ASSUME NEW r, IsRuntime(r), ~Stopping, NEW active
    PROVE  /\ Awake(Requested(r), active)
           /\ r.run = "barrier" => Awake(Ended(Requested(r)), active)
           /\ Awake(Left(Requested(r)), active)
<1> DEFINE q == Requested(r)
<1>1. /\ IsRuntime(q) /\ q.faulted = r.faulted
      /\ ~r.faulted => q.run = "queued" \/ (q.run = r.run /\ r.run # "none" /\ q.requested)
  BY RequestIs
<1>2. r.run = "barrier" /\ ~r.faulted => q.requested
  <2> SUFFICES ASSUME r.run = "barrier", ~r.faulted PROVE q.requested
    OBVIOUS
  <2> DEFINE p == [r EXCEPT !.timer = NoTimer]
  <2>1. IsRuntime(p) /\ p.run = "barrier"
    BY DEF IsRuntime
  <2>2. q = [p EXCEPT !.requested = TRUE]
    BY DEF Requested
  <2> HIDE DEF p, q
  <2> QED BY <2>1, <2>2 DEF IsRuntime
<1> HIDE DEF q
<1>3. Awake(q, active)
  BY <1>1 DEF Awake
<1>4. r.run = "barrier" => Awake(Ended(q), active)
  <2> DEFINE e == Ended(q)
  <2>1. e.run = "looping" /\ e.faulted = q.faulted /\ e.requested = q.requested
    BY <1>1, EndedIs
  <2> HIDE DEF e
  <2>2. r.run = "barrier" => Awake(e, active)
    BY <2>1, <1>1, <1>2 DEF Awake
  <2> QED BY <2>2 DEF e
<1>5. Awake(Left(q), active)
  <2> DEFINE e == Left(q)
  <2>1. e.run = q.run /\ e.faulted = q.faulted /\ e.requested = q.requested
    BY <1>1, LeftIs
  <2> HIDE DEF e
  <2>2. Awake(e, active)
    BY <2>1, <1>1 DEF Awake
  <2> QED BY <2>2 DEF e
<1> QED BY <1>3, <1>4, <1>5 DEF q

\* What it rests on.
LEMMA AwakeAlike ==
    ASSUME NEW r, NEW q, NEW active, Awake(r, active),
           q.faulted = r.faulted, q.aside = r.aside, q.run = r.run,
           q.requested = r.requested, q.idle = r.idle, q.timer = r.timer, q.sent = r.sent
    PROVE  Awake(q, active)
BY DEF Awake, Armed

\* The owner's steps leave it awake.
LEMMA OwnerStaysAwake ==
    ASSUME ReminderIInv, OwnerStep, life' = "live"
    PROVE  Awake(rt', Active(log'))
<1>1. /\ WellFolded(Fold(log)) /\ Active(log) = Fold(log).active /\ IsRuntime(rt)
  BY LogIInvGives DEF ReminderIInv
<1>2. life = "live" /\ ~Stopping
  BY DEF OwnerStep, DriveBegins, PreflightFails, PreflightWaits, PreflightFindsBusy, Maintains,
     Releases, BarrierSettles, Loops, Retires, TimerFires, IdleSeen, IdleWaitEnds, Stopping
<1>3. Awake(rt, Active(log))
  BY <1>2 DEF ReminderIInv, AwakeInv
<1> DEFINE active == Active(log)
<1>4. ~Maintains => log' = log
  BY DEF OwnerStep, DriveBegins, PreflightFails, PreflightWaits, PreflightFindsBusy,
     Releases, BarrierSettles, Loops, Retires, TimerFires, IdleSeen, IdleWaitEnds, durable
<1>5. CASE DriveBegins
  <2> DEFINE r == [rt EXCEPT !.timer = NoTimer, !.aside = FALSE]
  <2>1. rt' = [r EXCEPT !.run = "preflight", !.covers = Len(log)] /\ IsRuntime(r)
    BY <1>1, <1>2, <1>5 DEF DriveBegins, Runnable, IsRuntime
  <2> HIDE DEF r
  <2>2. rt'.run = "preflight"
    BY <2>1 DEF IsRuntime
  <2> QED BY <2>2 DEF Awake
<1>6. CASE PreflightFails
  <2>1. rt' = SetAside(rt)
    BY <1>2, <1>6 DEF PreflightFails, Runnable
  <2>2. rt'.aside
    BY <2>1, <1>1, EndedIs
  <2> QED BY <2>2 DEF Awake
<1>7. CASE PreflightWaits
  <2> DEFINE q == Waiting(rt, active, now)
  <2>1. rt' = Ended(q) /\ Due(active, now) = {} /\ ~Maintains
    BY <1>7 DEF PreflightWaits, Maintains
  <2>2. IsRuntime(q) /\ (DOMAIN active # {} => Armed(q, active))
    BY <2>1, <1>1, WaitingArms
  <2> HIDE DEF q
  <2>3. rt'.timer = q.timer
    BY <2>1, <2>2, EndedIs
  <2>4. DOMAIN active # {} => Armed(rt', active)
    BY <2>2, <2>3 DEF Armed
  <2>5. rt'.run = "looping"
    BY <2>1, <2>2, EndedIs
  <2>6. Awake(rt', active)
    BY <2>4, <2>5 DEF Awake
  <2> QED BY <2>1, <2>6, <1>4
<1>8. CASE PreflightFindsBusy
  <2>1. rt' = WaitsForIdle(rt)
    BY <1>8 DEF PreflightFindsBusy
  <2>2. rt'.run = "looping" /\ rt'.idle # "none"
    BY <2>1, <1>1, EndedIs
  <2> QED BY <2>2 DEF Awake
<1>9. CASE Maintains
  <2> DEFINE held == [rt EXCEPT !.run = "maintaining", !.covers = 0]
  <2>1. IsRuntime(held) /\ held.run = "maintaining"
    BY <1>1 DEF IsRuntime, RunningPlaces
  <2>2. PICK t \in Instant :
          \E ids \in Orders(active, Batch(active, DecidesAt(t))) : now' = t /\ Task(t, ids)
    BY <1>9 DEF Maintains
  <2>3. \/ rt' = Waiting(held, active, t) /\ Due(active, t) = {} /\ log' = log
        \/ rt' = [held EXCEPT !.aside = TRUE]
        \/ rt' = FaultsAfterAppend(held)
        \/ rt' = [held EXCEPT !.sent = TRUE]
    BY <2>2 DEF Task, DecidesAt
  <2> HIDE DEF held
  <2>4. CASE rt' = Waiting(held, active, t) /\ Due(active, t) = {} /\ log' = log
    <3>1. rt'.run = "maintaining" /\ (DOMAIN active # {} => Armed(rt', active))
      BY <2>1, <2>4, <1>1, WaitingArms
    <3> QED BY <3>1, <2>4 DEF Awake
  <2>5. CASE rt' = [held EXCEPT !.aside = TRUE]
    <3>1. rt'.aside
      BY <2>1, <2>5 DEF IsRuntime
    <3> QED BY <3>1 DEF Awake
  <2>6. CASE rt' = FaultsAfterAppend(held)
    <3>1. rt'.faulted
      BY <2>1, <2>6 DEF IsRuntime, FaultsAfterAppend
    <3> QED BY <3>1 DEF Awake
  <2>7. CASE rt' = [held EXCEPT !.sent = TRUE]
    <3>1. rt'.sent /\ rt'.run = "maintaining"
      BY <2>1, <2>7 DEF IsRuntime
    <3> QED BY <3>1 DEF Awake
  <2> QED BY <2>3, <2>4, <2>5, <2>6, <2>7
<1>10. CASE Releases
  <2> DEFINE q == [rt EXCEPT !.run = "barrier", !.covers = Len(log), !.sent = FALSE]
  <2>1. rt.run = "maintaining" /\ rt' = (IF rt.sent THEN q ELSE Ended(rt)) /\ ~Maintains
    BY <1>10 DEF Releases, Maintains
  <2>2. q.run = "barrier"
    BY <1>1 DEF IsRuntime
  <2> HIDE DEF q
  <2>3. CASE rt.sent
    BY <2>1, <2>2, <2>3 DEF Awake
  <2>4. CASE ~rt.sent
    <3>1. rt' = Ended(rt)
      BY <2>1, <2>4
    <3>2. /\ rt'.run = "looping" /\ rt'.faulted = rt.faulted /\ rt'.aside = rt.aside
          /\ rt'.requested = rt.requested /\ rt'.idle = rt.idle /\ rt'.timer = rt.timer
      BY <3>1, <1>1, EndedIs
    <3>3. Awake(rt', active)
      BY <3>2, <2>1, <2>4, <1>3 DEF Awake, Armed
    <3> QED BY <3>3, <2>1, <1>4
  <2> QED BY <2>3, <2>4
<1>11. CASE BarrierSettles
  <2>1. rt.run = "barrier" /\ (rt' = Ended(Requested(rt)) \/ rt' = SetAside(rt))
    BY <1>2, <1>11 DEF BarrierSettles, Runnable
  <2>2. CASE rt' = SetAside(rt)
    <3>1. rt'.aside
      BY <2>2, <1>1, EndedIs
    <3> QED BY <3>1 DEF Awake
  <2>3. CASE rt' = Ended(Requested(rt))
    BY <2>1, <2>3, <1>1, <1>2, RequestWakes
  <2> QED BY <2>1, <2>2, <2>3
<1>12. CASE Loops
  <2>1. rt.run = "looping" /\ (rt' = Queued(rt) \/ rt' = [rt EXCEPT !.run = "retiring"])
        /\ ~Maintains
    BY <1>12 DEF Loops, Maintains
  <2>2. CASE rt' = Queued(rt)
    <3>1. rt'.run = "queued"
      BY <2>2, <1>1, QueuedIs
    <3> QED BY <3>1 DEF Awake
  <2>3. CASE rt' = [rt EXCEPT !.run = "retiring"]
    <3>1. /\ rt'.run = "retiring" /\ rt'.faulted = rt.faulted /\ rt'.aside = rt.aside
          /\ rt'.requested = rt.requested /\ rt'.idle = rt.idle /\ rt'.timer = rt.timer
      BY <2>3, <1>1, RunIs
    <3>2. Awake(rt', active)
      BY <3>1, <2>1, <1>3 DEF Awake, Armed
    <3> QED BY <3>2, <2>1, <1>4
  <2> QED BY <2>1, <2>2, <2>3
<1>13. CASE Retires
  <2> DEFINE q == [rt EXCEPT !.run = "none"]
  <2>1. rt.run = "retiring" /\ rt' = (IF rt.requested THEN Requested(q) ELSE q) /\ ~Maintains
    BY <1>13 DEF Retires, Retired, Maintains
  <2>2. /\ IsRuntime(q) /\ q.run = "none" /\ q.faulted = rt.faulted /\ q.aside = rt.aside
        /\ q.requested = rt.requested /\ q.idle = rt.idle /\ q.timer = rt.timer
    BY <1>1, RunIs
  <2> HIDE DEF q
  <2>3. CASE rt.requested
    BY <2>1, <2>2, <2>3, <1>2, RequestWakes
  <2>4. CASE ~rt.requested
    <3>1. Awake(q, active)
      BY <2>1, <2>2, <2>4, <1>3 DEF Awake, Armed
    <3> QED BY <3>1, <2>1, <2>4, <1>4
  <2> QED BY <2>3, <2>4
<1>14. CASE TimerFires \/ IdleWaitEnds
  <2> DEFINE q == [rt EXCEPT !.timer = NoTimer]
             p == [rt EXCEPT !.idle = "none"]
  <2>1. rt' = Requested(q) \/ rt' = Requested(p)
    BY <1>14 DEF TimerFires, IdleWaitEnds
  <2>2. IsRuntime(q) /\ IsRuntime(p)
    BY <1>1 DEF IsRuntime
  <2> HIDE DEF q, p
  <2> QED BY <2>1, <2>2, <1>2, RequestWakes
<1>15. CASE IdleSeen
  <2>1. /\ rt'.run = rt.run /\ rt'.faulted = rt.faulted /\ rt'.aside = rt.aside
        /\ rt'.idle = "settled" /\ log' = log
    BY <1>1, <1>15 DEF IdleSeen, IsRuntime, durable
  <2>2. Awake(rt', active)
    BY <2>1 DEF Awake
  <2> QED BY <2>1, <2>2
<1> QED BY <1>5, <1>6, <1>7, <1>8, <1>9, <1>10, <1>11, <1>12, <1>13, <1>14, <1>15 DEF OwnerStep

\* So do calls, which rouse it whenever they change the log.
LEMMA CallsLeaveAwake ==
    ASSUME ReminderIInv, NEW c \in Calls, Invoke(c) \/ CallStep(c), life' = "live"
    PROVE  Awake(rt', Active(log'))
<1>1. IsRuntime(rt)
  BY LogIInvGives DEF ReminderIInv
<1>2. life = "live" /\ ~Stopping
  BY DEF Invoke, CallStep, CallBegins, CallFails, CallAnswers, CallCreates, CallDeletes, Appends,
     CallConfirms, Reads, Stopping
<1>3. Awake(rt, Active(log))
  BY <1>2 DEF ReminderIInv, AwakeInv
<1>4. CASE Invoke(c)
  <2>1. /\ rt'.run = rt.run /\ rt'.faulted = rt.faulted /\ rt'.aside = rt.aside
        /\ rt'.requested = rt.requested /\ rt'.idle = rt.idle /\ rt'.timer = rt.timer
        /\ rt'.sent = rt.sent /\ log' = log
    BY <1>1, <1>4 DEF Invoke, IsRuntime, durable
  <2>2. Awake(rt', Active(log))
    BY <2>1, <1>3, AwakeAlike
  <2> QED BY <2>1, <2>2
<1>5. CASE (CallBegins(c) \/ CallFails(c)) /\ rt' = rt
  <2>1. log' = log
    BY <1>5 DEF CallBegins, CallFails, durable
  <2> QED BY <2>1, <1>3, <1>5
<1>6. CASE (CallBegins(c) \/ CallFails(c)) /\ rt' = Left(rt)
  <2>1. log' = log
    BY <1>6 DEF CallBegins, CallFails, durable
  <2>2. /\ rt'.run = rt.run /\ rt'.faulted = rt.faulted /\ rt'.aside = rt.aside
        /\ rt'.requested = rt.requested /\ rt'.idle = rt.idle /\ rt'.timer = rt.timer
        /\ rt'.sent = rt.sent
    BY <1>1, <1>6, LeftIs
  <2>3. Awake(rt', Active(log))
    BY <2>2, <1>3, AwakeAlike
  <2> QED BY <2>1, <2>3
<1>7. CASE CallAnswers(c) \/ CallConfirms(c) \/ CallCreates(c) \/ CallDeletes(c)
  <2>1. rt' = Left(Requested(rt)) \/ rt' = Requested(rt)
    BY <1>7 DEF CallAnswers, CallConfirms, CallCreates, CallDeletes, Appends
  <2> QED BY <2>1, <1>1, <1>2, RequestWakes
<1>8. CallBegins(c) \/ CallFails(c) => rt' = rt \/ rt' = Left(rt)
  BY DEF CallBegins, CallFails
<1> QED BY <1>4, <1>5, <1>6, <1>7, <1>8 DEF CallStep

\* And so does everything else while it lives.
LEMMA OutsideLeavesAwake ==
    ASSUME ReminderIInv, Outside, life' = "live"
    PROVE  Awake(rt', Active(log'))
<1>1. IsRuntime(rt)
  BY LogIInvGives DEF ReminderIInv
<1>2. CASE Resumes
  <2>1. rt' = Queued(Fresh) /\ IsRuntime(Fresh)
    BY <1>2 DEF Resumes, IsRuntime, Fresh, NoTimer
  <2>2. rt'.run = "queued"
    BY <2>1, QueuedIs
  <2> QED BY <2>2 DEF Awake
<1>3. CASE ~Resumes
  <2>1. life = "live" /\ log' = log
    BY <1>3 DEF Outside, Prompted, MaintenanceBegins, MaintenanceEnds, Cancel, TurnEnds, Tick,
       Rollback, Departs, Stops, Disposed, Leaves, durable
  <2>2. rt' = rt \/ rt' = Requested(rt)
    BY <1>3 DEF Outside, Prompted, MaintenanceBegins, MaintenanceEnds, Cancel, TurnEnds, Tick,
       Rollback, Departs, Stops, Disposed, Leaves
  <2>3. Awake(rt, Active(log)) /\ ~Stopping
    BY <2>1 DEF ReminderIInv, AwakeInv, Stopping
  <2>4. Awake(Requested(rt), Active(log))
    BY <2>3, <1>1, RequestWakes
  <2> QED BY <2>1, <2>2, <2>3, <2>4
<1> QED BY <1>2, <1>3

\* Every step keeps both invariants.
LEMMA ReminderStep ==
    ASSUME ReminderIInv, [Next]_vars
    PROVE  /\ ReminderIInv'
           /\ Presents => \A o \in log'[Len(log) + 1].due : o[2] <= now'
<1>1. LogIInv' /\ (Presents => \A o \in log'[Len(log) + 1].due : o[2] <= now')
  BY LogStep DEF ReminderIInv
<1>2. AwakeInv'
  <2> SUFFICES ASSUME life' = "live" PROVE Awake(rt', Active(log'))
    BY DEF AwakeInv
  <2>1. CASE UNCHANGED vars
    <3>1. life' = life /\ rt' = rt /\ log' = log
      BY <2>1 DEF vars
    <3> QED BY <3>1 DEF ReminderIInv, AwakeInv
  <2>2. CASE Next
    BY <2>2, OwnerStaysAwake, OutsideLeavesAwake, CallsLeaveAwake DEF Next
  <2> QED BY <2>1, <2>2
<1> QED BY <1>1, <1>2 DEF ReminderIInv

\* The invariants give what the runs check.
LEMMA ReminderIInvGives ==
    ASSUME ReminderIInv
    PROVE  ReminderInv /\ AnswersSurvive
<1>1. GoodLog(log, repeatable) /\ Answers(log, stored, told)
  BY DEF ReminderIInv, LogIInv
<1>2. LogFolds /\ NoReminderLost /\ RepeatsOnlyAcrossKills /\ OnTheGrid
  BY <1>1, GoodLogGives
<1>3. NothingStranded
  <2> SUFFICES ASSUME life = "live", ~rt.faulted, ~rt.aside, DOMAIN Active(log) # {},
                      rt.run = "none", rt.idle = "none"
               PROVE  Armed(rt, Active(log))
    BY DEF NothingStranded, Armed
  <2> QED BY DEF ReminderIInv, AwakeInv, Awake
<1>4. AnswersSurvive
  BY <1>1 DEF Answers, AnswersSurvive, Gone
<1> QED BY <1>2, <1>3, <1>4 DEF ReminderInv

\* Before anything happens they hold.
LEMMA ReminderIInvInit == Init => ReminderIInv
BY LogIInvInit DEF Init, ReminderIInv, AwakeInv

-----------------------------------------------------------------------------
(* The theorems about reminders. *)

\* The log folds, no reminder is lost or needlessly repeated, each is presented on its
\* grid and none is left without a wake, for any calls, instants and intervals, whatever
\* order calls, drives, failures, clock changes, kills and resumes come in.
THEOREM RemindersAreKept == Spec => []ReminderInv
<1>1. Init => ReminderIInv
  BY ReminderIInvInit
<1>2. ReminderIInv /\ [Next]_vars => ReminderIInv'
  BY ReminderStep
<1>3. ReminderIInv => ReminderInv
  BY ReminderIInvGives
<1> QED BY <1>1, <1>2, <1>3, PTL DEF Spec

\* What a caller was told of a reminder, as created or as gone, no kill takes back
\* (tools.ts: preflights and post-append barriers).
THEOREM AnswersAreKept == Spec => []AnswersSurvive
<1>1. Init => ReminderIInv
  BY ReminderIInvInit
<1>2. ReminderIInv /\ [Next]_vars => ReminderIInv'
  BY ReminderStep
<1>3. ReminderIInv => AnswersSurvive
  BY ReminderIInvGives
<1> QED BY <1>1, <1>2, <1>3, PTL DEF Spec

\* No occurrence is presented before its time, although the clock may be set back between
\* the decision of the wake and that of the task (runtime.ts, the maintenance task).
THEOREM NothingIsEarly == Spec => NeverEarly
<1>1. Init => ReminderIInv
  BY ReminderIInvInit
<1>2. ReminderIInv /\ [Next]_vars => ReminderIInv'
  BY ReminderStep
<1>3. ReminderIInv /\ [Next]_vars
        => [Presents => \A o \in log'[Len(log) + 1].due : o[2] <= now']_vars
  BY ReminderStep
<1> QED BY <1>1, <1>2, <1>3, PTL DEF Spec, NeverEarly

=============================================================================
