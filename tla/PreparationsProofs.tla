------------------------- MODULE PreparationsProofs -------------------------
(***************************************************************************)
(* For any number of calls on a persisted session: its preparation has one    *)
(* holder, whose Session is the durable log, and the coordinator implements   *)
(* exclusive ownership of that log.                                          *)
(***************************************************************************)
EXTENDS Preparations, TLAPS

-----------------------------------------------------------------------------
(* The inductive invariant. *)

Ops == [kind : {"load", "commit", "check", "append", "drain", "retire"},
        call : Calls \cup {NoCall}, entry : Entries \cup {NoEntry},
        source : Logs \cup {NoSource},
        at : {"queued", "started", "adopt", "adopted", "write"}]

Pools == [entry : Entries \cup {NoEntry},
          phase : {"none", "loading", "ready", "committing", "reserved"},
          source : Logs \cup {NoSource}]

Places == {"idle", "gap", "parked", "loading", "loaded", "waiting",
           "committing", "committed", "refused", "threw", "checking",
           "stale", "appending", "holding", "live", "retiring", "done"}

CallRecords == [pc : Places, kind : {"none", "inspect", "load", "prepare", "append"},
                entry : Entries \cup {NoEntry}, source : Logs \cup {NoSource},
                aborted : BOOLEAN]

States == [cursor : Nat, owner : Calls \cup {NoCall}]

Typed ==
    /\ stored \in Logs
    /\ tracked \in {Untracked} \cup States
    /\ live \in Calls \cup {NoCall}
    /\ retiring \in BOOLEAN
    /\ pool \in Pools
    /\ chain \in Seq(Ops)
    /\ call \in [Calls -> CallRecords]
    /\ trouble \in 0..MaxTrouble

Started(op) == op.at \in {"adopt", "adopted", "write"}

Leaving == {"drain", "retire"}

Settled == {"ready", "committing", "reserved"}

\* An operation is at a place of its own kind.
WellFormed(op) ==
    /\ op.at = "started" => op.kind = "commit"
    /\ Started(op) => op.kind \in {"append", "drain"}
    /\ op.kind = "load" => op.entry \in Entries
    /\ op.kind # "load" => op.call \in Calls

\* Only the operation in front is under way.
Serial ==
    \A i \in 1..Len(chain) :
        /\ i > 1 => chain[i].at = "queued"
        /\ WellFormed(chain[i])
        /\ chain[i].kind \in Leaving => call[chain[i].call].pc = "retiring"

\* Two operations of a kind that is queued once.
Twice(op, other) ==
    \/ op.kind = "load" /\ other.kind = "load" /\ op.entry = other.entry
    \/ op.kind = "commit" /\ other.kind = "commit" /\ op.call = other.call
    \/ op.kind \in Leaving /\ other.kind \in Leaving /\ op.call = other.call

\* An entry is loaded once, a call commits once, a retirement is queued once.
Once == \A i, j \in 1..Len(chain) : i # j => ~Twice(chain[i], chain[j])

Loads(op, e) == op.kind = "load" /\ op.entry = e

\* An entry that is loading is read by an operation of the chain.
PoolFollowsChain ==
    /\ pool.phase = "none" => pool = NoPool
    /\ pool.entry = NoEntry => pool = NoPool
    /\ pool.phase = "loading" => \E i \in 1..Len(chain) : Loads(chain[i], pool.entry)
    /\ pool.phase \in Settled =>
          pool.source \in Logs /\ \A i \in 1..Len(chain) : ~Loads(chain[i], pool.entry)

Commits(op) == op.kind = "commit" /\ call[op.call].pc = "committing"

\* A queued commit is that of its call, or was abandoned before it started; the
\* only ones that outlive a load are those of the entry it loaded.
CommitsFollowPool ==
    \A i \in 1..Len(chain) : chain[i].kind = "commit" =>
        /\ \/ /\ call[chain[i].call].pc = "committing"
              /\ call[chain[i].call].entry = chain[i].entry
              /\ chain[i].source \in Logs
           \/ call[chain[i].call].pc \in {"threw", "done"} /\ chain[i].at = "queued"
        /\ Commits(chain[i]) /\ pool.phase = "loading" =>
              \A k \in 1..Len(chain) : Loads(chain[k], pool.entry) => i < k
        /\ Commits(chain[i]) /\ pool.phase \in Settled =>
              chain[i].entry = pool.entry /\ chain[i].source = pool.source

Claiming == {"committing", "committed", "refused", "threw", "holding"}

Claims(c) == call[c].pc \in Claiming /\ call[c].entry = pool.entry

\* Who has an entry, and that it is the only one.
Held ==
    /\ \A c \in Calls : call[c].pc \in Claiming =>
          /\ call[c].entry \in Entries /\ call[c].kind \in {"prepare", "load"}
          /\ call[c].pc = "holding" => call[c].entry = pool.entry /\ pool.phase = "reserved"
          /\ call[c].pc # "holding" /\ call[c].entry = pool.entry => pool.phase = "committing"
    /\ \A c, d \in Calls : Claims(c) /\ Claims(d) => c = d
    /\ pool.phase \in {"committing", "reserved"} => \E c \in Calls : Claims(c)

\* Who has joined an entry, and that it is still to be settled.
JoinedAt(c) ==
    /\ call[c].pc \in {"loading", "loaded", "waiting"} => call[c].entry \in Entries
    /\ call[c].pc = "loading" => \E i \in 1..Len(chain) : Loads(chain[i], call[c].entry)
    /\ call[c].pc = "loaded" /\ call[c].entry = pool.entry => pool.phase # "loading"
    /\ call[c].pc = "waiting" =>
          call[c].entry = pool.entry /\ pool.phase \in {"committing", "reserved"}
    /\ call[c].kind = "append" => call[c].pc = "appending"
    /\ call[c].pc \in {"live", "retiring"} => call[c].kind = "prepare"

Joined == \A c \in Calls : JoinedAt(c)

\* What a call has committed, and still has, is the durable log.
Committed ==
    \A c \in Calls :
        call[c].pc \in {"committed", "holding"} /\ call[c].entry = pool.entry =>
            /\ tracked # Untracked /\ tracked.owner = NoCall
            /\ tracked.cursor = Length(pool.source)
            /\ pool.source.own = stored.own /\ ~pool.source.open

\* What may be under way beside the state of the log and its holder.
UnderWay ==
    \A i \in 1..Len(chain) :
        /\ chain[i].at = "started" =>
              /\ call[chain[i].call].pc = "committing"
              /\ tracked = Untracked \/ tracked.owner = NoCall
        /\ chain[i].at \in {"adopt", "adopted"} => tracked = Untracked
        /\ chain[i].at = "write" => tracked # Untracked
        /\ Started(chain[i]) =>
              \A c \in Calls : call[c].pc \in {"committed", "holding"} => call[c].entry # pool.entry

PoolInv == /\ Typed /\ Serial /\ Once /\ PoolFollowsChain /\ CommitsFollowPool /\ Held
           /\ Joined /\ Committed /\ UnderWay /\ LiveOwns

-----------------------------------------------------------------------------
(* How a step changes the chain: the first k operations are gone, and what was *)
(* put behind the others, if anything, is one operation of new.                *)

Same(op, was) ==
    /\ op.kind = was.kind /\ op.call = was.call /\ op.entry = was.entry
    /\ was.kind = "commit" => op.source = was.source

Became(k, new) ==
    /\ chain' \in Seq(Ops)
    /\ \A i \in 1..Len(chain') :
          \/ /\ i + k \in 1..Len(chain)
             /\ Same(chain'[i], chain[i + k])
             /\ i + k > 1 => chain'[i] = chain[i + k]
          \/ i + k = Len(chain) + 1 /\ i = Len(chain') /\ chain'[i] \in new

\* Nothing behind the first k is lost.
Keeps(k) ==
    \A i \in 1..Len(chain) : i > k =>
        i - k \in 1..Len(chain') /\ Same(chain'[i - k], chain[i])

\* A chain that stays has lost and gained nothing.
LEMMA ChainSame ==
    ASSUME Typed, chain' = chain
    PROVE  Became(0, {}) /\ Keeps(0)
BY DEF Typed, Became, Keeps, Same

\* A chain whose head ends has lost that one.
LEMMA ChainTail ==
    ASSUME Typed, chain # <<>>, chain' = Tail(chain)
    PROVE  /\ Became(1, {}) /\ Keeps(1)
           /\ Head(chain) = chain[1] /\ 1 \in 1..Len(chain)
BY DEF Typed, Became, Keeps, Same

\* A chain that an operation joins has gained that one.
LEMMA ChainAppend ==
    ASSUME Typed, NEW op \in Ops, chain' = Append(chain, op)
    PROVE  /\ Became(0, {op}) /\ Keeps(0)
           /\ Len(chain') \in 1..Len(chain') /\ chain'[Len(chain')] = op
           /\ chain # <<>> => chain'[1] = chain[1]
BY DEF Typed, Became, Keeps, Same

\* A chain whose head ends as an operation joins.
LEMMA ChainTailAppend ==
    ASSUME Typed, chain # <<>>, NEW op \in Ops, chain' = Append(Tail(chain), op)
    PROVE  /\ Became(1, {op}) /\ Keeps(1)
           /\ Head(chain) = chain[1] /\ 1 \in 1..Len(chain)
<1> DEFINE t == Tail(chain)
<1>1. /\ t \in Seq(Ops) /\ Len(t) \in Nat /\ Len(chain) = Len(t) + 1
      /\ \A i \in 1..Len(t) : t[i] = chain[i + 1]
      /\ Head(chain) = chain[1] /\ 1 \in 1..Len(chain)
  BY DEF Typed
<1> HIDE DEF t
<1>2. /\ chain' \in Seq(Ops) /\ Len(chain') = Len(t) + 1 /\ chain'[Len(t) + 1] = op
      /\ \A i \in 1..Len(t) : chain'[i] = t[i]
  BY <1>1 DEF t
<1> QED BY <1>1, <1>2 DEF Became, Keeps, Same

\* A chain whose head goes on has lost and gained nothing.
LEMMA ChainMoves ==
    ASSUME Typed, chain # <<>>, NEW op \in Ops, Same(op, chain[1]),
           chain' = [chain EXCEPT ![1] = op]
    PROVE  /\ Became(0, {}) /\ Keeps(0) /\ chain'[1] = op
           /\ Head(chain) = chain[1] /\ 1 \in 1..Len(chain)
BY DEF Typed, Became, Keeps, Same

-----------------------------------------------------------------------------
(* What a change of the chain keeps, whatever the action is. *)

\* Once is kept where no operation joins a second time.
LEMMA OnceStep ==
    ASSUME Typed, Once, NEW k \in {0, 1}, NEW new, Became(k, new),
           \A op \in new : \A i \in 1..Len(chain) : i > k => ~Twice(op, chain[i])
    PROVE  Once'
<1> SUFFICES ASSUME NEW i \in 1..Len(chain'), NEW j \in 1..Len(chain'), i # j
             PROVE  ~Twice(chain'[i], chain'[j])
  BY DEF Once, Twice
<1>1. Len(chain) \in Nat /\ Len(chain') \in Nat
  BY DEF Typed, Became
<1>2. ASSUME NEW a \in 1..Len(chain'), NEW b \in 1..Len(chain'), a # b,
             a + k \in 1..Len(chain), Same(chain'[a], chain[a + k])
      PROVE  ~Twice(chain'[a], chain'[b])
  <2>1. CASE b + k \in 1..Len(chain) /\ Same(chain'[b], chain[b + k])
    <3>1. a + k # b + k
      BY <1>2
    <3>2. ~Twice(chain[a + k], chain[b + k])
      BY <1>2, <2>1, <3>1 DEF Once
    <3> QED BY <3>2, <1>2, <2>1 DEF Same, Twice
  <2>2. CASE chain'[b] \in new
    <3>1. ~Twice(chain'[b], chain[a + k])
      BY <1>1, <1>2, <2>2
    <3> QED BY <3>1, <1>2 DEF Same, Twice
  <2> QED BY <2>1, <2>2 DEF Became
<1>3. CASE i + k \in 1..Len(chain) /\ Same(chain'[i], chain[i + k])
  BY <1>2, <1>3
<1>4. CASE j + k \in 1..Len(chain) /\ Same(chain'[j], chain[j + k])
  <2>1. ~Twice(chain'[j], chain'[i])
    BY <1>2, <1>4
  <2> QED BY <2>1 DEF Twice
<1> QED BY <1>1, <1>3, <1>4 DEF Became

\* Serial is kept where what joins is well-formed and queued.
LEMMA SerialStep ==
    ASSUME Typed, Serial, NEW k \in {0, 1}, NEW new, Became(k, new),
           \A op \in new : /\ op.at = "queued" /\ WellFormed(op)
                           /\ op.kind \in Leaving => call'[op.call].pc = "retiring",
           \A i \in 1..Len(chain) : i > k /\ chain[i].kind \in Leaving =>
              call'[chain[i].call].pc = "retiring",
           k = 0 /\ chain # <<>> => WellFormed(chain'[1])
    PROVE  Serial'
<1> SUFFICES ASSUME NEW i \in 1..Len(chain')
             PROVE  /\ i > 1 => chain'[i].at = "queued"
                    /\ WellFormed(chain'[i])
                    /\ chain'[i].kind \in Leaving => call'[chain'[i].call].pc = "retiring"
  BY DEF Serial, WellFormed, Started
<1>1. Len(chain) \in Nat /\ Len(chain') \in Nat
  BY DEF Typed, Became
<1>2. CASE i + k \in 1..Len(chain) /\ i + k > 1 /\ chain'[i] = chain[i + k]
  <2>1. chain[i + k].at = "queued" /\ WellFormed(chain[i + k])
    BY <1>2 DEF Serial
  <2>2. i + k > k
    BY <1>1
  <2> QED BY <1>2, <2>1, <2>2
<1>3. CASE i + k \in 1..Len(chain) /\ ~(i + k > 1) /\ Same(chain'[i], chain[i + k])
  <2>1. k = 0 /\ i = 1 /\ chain # <<>>
    BY <1>1, <1>3 DEF Typed
  <2> QED BY <1>3, <2>1 DEF Same
<1>4. CASE chain'[i] \in new
  BY <1>4
<1> QED BY <1>2, <1>3, <1>4 DEF Became

\* Behind an operation that is over nothing has started.
LEMMA AllQueued ==
    ASSUME Typed, Serial, NEW new, Became(1, new), \A op \in new : op.at = "queued"
    PROVE  \A i \in 1..Len(chain') : chain'[i].at = "queued"
<1> SUFFICES ASSUME NEW i \in 1..Len(chain') PROVE chain'[i].at = "queued"
  OBVIOUS
<1>1. CASE i + 1 \in 1..Len(chain) /\ chain'[i] = chain[i + 1]
  <2>1. i + 1 > 1
    BY DEF Became
  <2> QED BY <1>1, <2>1 DEF Serial
<1> QED BY <1>1 DEF Became

WillCommit(op) == op.kind = "commit" /\ call'[op.call].pc = "committing"

\* CommitsFollowPool is kept where the pool and the committing calls go on
\* together.
LEMMA CommitsStep ==
    ASSUME Typed, Serial, CommitsFollowPool, NEW k \in {0, 1}, NEW new, Became(k, new),
           \* the calls that commit
           \A i \in 1..Len(chain) : i > k /\ chain[i].kind = "commit" =>
              \/ /\ call'[chain[i].call].pc = call[chain[i].call].pc
                 /\ call'[chain[i].call].entry = call[chain[i].call].entry
              \/ call'[chain[i].call].pc \in {"threw", "done"} /\ chain[i].at = "queued",
           k = 0 /\ chain # <<>> /\ chain[1].kind = "commit" =>
              chain'[1].at = chain[1].at \/ WillCommit(chain'[1]),
           \A op \in new : op.kind = "commit" =>
              /\ call'[op.call].pc = "committing" /\ call'[op.call].entry = op.entry
              /\ op.source \in Logs /\ pool'.phase = "committing"
              /\ op.entry = pool'.entry /\ op.source = pool'.source,
           \* the pool
           pool'.phase = "loading" =>
              \/ pool.phase = "loading" /\ pool'.entry = pool.entry
              \/ \A i \in 1..Len(chain) : i > k => ~Loads(chain[i], pool'.entry),
           pool'.phase \in Settled =>
              \/ pool.phase \in Settled /\ pool'.entry = pool.entry /\ pool'.source = pool.source
              \/ \A i \in 1..Len(chain) : i > k => ~WillCommit(chain[i])
    PROVE  CommitsFollowPool'
<1> SUFFICES ASSUME NEW i \in 1..Len(chain'), chain'[i].kind = "commit"
    PROVE  /\ \/ /\ call'[chain'[i].call].pc = "committing"
                 /\ call'[chain'[i].call].entry = chain'[i].entry
                 /\ chain'[i].source \in Logs
              \/ call'[chain'[i].call].pc \in {"threw", "done"} /\ chain'[i].at = "queued"
           /\ WillCommit(chain'[i]) /\ pool'.phase = "loading" =>
                 \A j \in 1..Len(chain') : Loads(chain'[j], pool'.entry) => i < j
           /\ WillCommit(chain'[i]) /\ pool'.phase \in Settled =>
                 chain'[i].entry = pool'.entry /\ chain'[i].source = pool'.source
  BY DEF CommitsFollowPool, Commits, WillCommit, Loads
<1>1. Len(chain) \in Nat /\ Len(chain') \in Nat
  BY DEF Typed, Became
<1>2. CASE i + k \in 1..Len(chain) /\ Same(chain'[i], chain[i + k])
                /\ (i + k > 1 => chain'[i] = chain[i + k])
  <2> DEFINE was == chain[i + k]
  <2>1. /\ was.kind = "commit" /\ chain'[i].call = was.call
        /\ chain'[i].entry = was.entry /\ chain'[i].source = was.source
        /\ i + k > k /\ i + k \in 1..Len(chain)
    BY <1>1, <1>2 DEF Same
  <2>2. chain'[i].at = was.at \/ WillCommit(was)
    <3>1. CASE i + k > 1
      BY <1>2, <3>1
    <3>2. CASE i + k = 1
      <4>1. k = 0 /\ i = 1 /\ chain # <<>> /\ was = chain[1]
        BY <1>1, <1>2, <3>2 DEF Typed
      <4>2. chain'[1].at = chain[1].at \/ WillCommit(chain'[1])
        BY <2>1, <4>1
      <4> QED BY <2>1, <4>1, <4>2 DEF WillCommit
    <3> QED BY <1>1, <1>2, <3>1, <3>2
  <2>3. /\ \/ /\ call[was.call].pc = "committing" /\ call[was.call].entry = was.entry
              /\ was.source \in Logs
           \/ call[was.call].pc \in {"threw", "done"} /\ was.at = "queued"
        /\ Commits(was) /\ pool.phase = "loading" =>
              \A j \in 1..Len(chain) : Loads(chain[j], pool.entry) => i + k < j
        /\ Commits(was) /\ pool.phase \in Settled =>
              was.entry = pool.entry /\ was.source = pool.source
    BY <2>1 DEF CommitsFollowPool
  <2>4. \/ call'[was.call].pc = call[was.call].pc /\ call'[was.call].entry = call[was.call].entry
        \/ call'[was.call].pc \in {"threw", "done"} /\ was.at = "queued"
    BY <2>1
  <2> HIDE DEF was
  <2>5. \/ /\ call'[chain'[i].call].pc = "committing"
           /\ call'[chain'[i].call].entry = chain'[i].entry
           /\ chain'[i].source \in Logs
        \/ call'[chain'[i].call].pc \in {"threw", "done"} /\ chain'[i].at = "queued"
    BY <2>1, <2>2, <2>3, <2>4 DEF Commits, WillCommit
  <2>6. WillCommit(chain'[i]) => Commits(was) /\ WillCommit(was)
    BY <2>1, <2>4 DEF Commits, WillCommit
  <2>7. ASSUME WillCommit(chain'[i]), pool'.phase = "loading",
               NEW j \in 1..Len(chain'), Loads(chain'[j], pool'.entry)
        PROVE  i < j
    <3>1. CASE j + k \in 1..Len(chain) /\ Same(chain'[j], chain[j + k])
      <4>1. Loads(chain[j + k], pool'.entry) /\ j + k > k
        BY <1>1, <2>7, <3>1 DEF Loads, Same
      <4>2. pool.phase = "loading" /\ pool'.entry = pool.entry
        BY <2>7, <3>1, <4>1
      <4>3. i + k < j + k
        BY <2>3, <2>6, <2>7, <3>1, <4>1, <4>2
      <4> QED BY <1>1, <4>3
    <3>2. CASE j + k = Len(chain) + 1
      BY <1>1, <1>2, <3>2
    <3> QED BY <3>1, <3>2 DEF Became
  <2>8. ASSUME WillCommit(chain'[i]), pool'.phase \in Settled
        PROVE  chain'[i].entry = pool'.entry /\ chain'[i].source = pool'.source
    <3>1. pool.phase \in Settled /\ pool'.entry = pool.entry /\ pool'.source = pool.source
      <4>1. WillCommit(chain[i + k])
        BY <2>6, <2>8 DEF was
      <4> QED BY <2>1, <2>8, <4>1
    <3> QED BY <2>1, <2>3, <2>6, <2>8, <3>1
  <2> QED BY <2>5, <2>7, <2>8
<1>3. CASE chain'[i] \in new
  <2>1. pool'.phase = "committing"
    BY <1>3
  <2> QED BY <1>3, <2>1
<1> QED BY <1>2, <1>3 DEF Became

\* An operation that loads an entry is still there, or was in front.
LEMMA StillLoads ==
    ASSUME Typed, NEW k \in {0, 1}, Keeps(k), NEW e,
           \E i \in 1..Len(chain) : Loads(chain[i], e),
           k = 1 => ~Loads(chain[1], e)
    PROVE  \E i \in 1..Len(chain') : Loads(chain'[i], e)
<1>1. PICK i \in 1..Len(chain) : Loads(chain[i], e)
  OBVIOUS
<1>2. i > k /\ Len(chain) \in Nat
  BY <1>1 DEF Typed
<1>3. i - k \in 1..Len(chain') /\ Same(chain'[i - k], chain[i])
  BY <1>2 DEF Keeps
<1> QED BY <1>1, <1>3 DEF Loads, Same

\* Where nothing new loads it, an entry that was not loaded is not.
LEMMA NotLoaded ==
    ASSUME Typed, NEW k \in {0, 1}, NEW new, Became(k, new), NEW e,
           \A i \in 1..Len(chain) : i > k => ~Loads(chain[i], e),
           \A op \in new : ~Loads(op, e)
    PROVE  \A i \in 1..Len(chain') : ~Loads(chain'[i], e)
<1> SUFFICES ASSUME NEW i \in 1..Len(chain') PROVE ~Loads(chain'[i], e)
  OBVIOUS
<1>1. CASE i + k \in 1..Len(chain) /\ Same(chain'[i], chain[i + k])
  <2>1. i + k > k
    BY DEF Became
  <2> QED BY <1>1, <2>1 DEF Loads, Same
<1> QED BY <1>1 DEF Became

-----------------------------------------------------------------------------
(* Steps that give something up: calls end, wait or start again, and the entry *)
(* is left to its holder, returned or removed.                                *)

Stays(d) ==
    call'[d].pc = call[d].pc /\ call'[d].entry = call[d].entry /\ call'[d].kind = call[d].kind

Freed(d) ==
    /\ call[d].pc = "waiting" /\ call'[d].pc = "loaded"
    /\ call'[d].entry = call[d].entry /\ call'[d].kind = call[d].kind

Leaves(d, k) ==
    /\ call[d].pc \notin {"committing", "live", "done"}
    /\ call[d].pc = "threw" => call'[d].pc = "done"
    /\ call[d].pc = "retiring" =>
          \A i \in 1..Len(chain) : i > k => ~(chain[i].kind \in Leaving /\ chain[i].call = d)
    /\ call'[d].pc \notin Claiming \cup {"live", "retiring"}
    /\ JoinedAt(d)'

\* What the step may put behind the chain.
Benign(op, k) ==
    /\ op.kind \in {"check", "append", "retire"} /\ op.at = "queued" /\ op.call \in Calls
    /\ op.kind = "retire" =>
          /\ call'[op.call].pc = "retiring"
          /\ \A i \in 1..Len(chain) : i > k => ~(chain[i].kind \in Leaving /\ chain[i].call = op.call)

PoolFreed ==
    \/ pool' = NoPool
    \/ pool.phase \in Settled /\ pool' = [pool EXCEPT !.phase = "ready"]

\* The append in front goes on.
Writes(op) ==
    /\ op.kind \in {"append", "drain"} /\ Started(chain'[1])
    /\ chain'[1].at \in {"adopt", "adopted"} => tracked' = Untracked
    /\ chain'[1].at = "write" => tracked' # Untracked
    /\ \A d \in Calls : call[d].pc \in {"committed", "holding"} => ~Claims(d)

\* The invariant is kept by a step after which every claim on the pool either
\* stands as it was or is given up with the pool freed.
LEMMA GivesUp ==
    ASSUME PoolInv, Typed', live' = live,
           NEW k \in {0, 1}, NEW new, Became(k, new), Keeps(k), \A op \in new : Benign(op, k),
           k = 0 /\ chain # <<>> => chain'[1].at = chain[1].at \/ Writes(chain[1]),
           k = 1 => /\ Loads(chain[1], pool.entry) => PoolFreed
                    /\ \A d \in Calls : call[d].pc = "loading" /\ Loads(chain[1], call[d].entry)
                                          => Leaves(d, k),
           \A d \in Calls : Stays(d) \/ Freed(d) \/ Leaves(d, k),
           \/ pool' = pool /\ \A d \in Calls : Claims(d) => Stays(d)
           \/ PoolFreed /\ \A d \in Calls :
                 /\ Claims(d) => \/ Leaves(d, k)
                                 \/ pool' = NoPool /\ Stays(d) /\ call[d].pc # "holding"
                 /\ call[d].pc = "waiting" => ~Stays(d),
           live # NoCall => tracked' # Untracked /\ tracked'.owner = live,
           \/ tracked' = tracked /\ stored'.own = stored.own
           \/ \A d \in Calls : call[d].pc \in {"committed", "holding"} => ~Claims(d),
           tracked' = tracked \/ k = 1 \/ (k = 0 /\ chain # <<>> /\ Writes(chain[1]))
    PROVE  PoolInv'
<1> USE PreparationsAssumption
<1>1. /\ Typed /\ Serial /\ Once /\ PoolFollowsChain /\ CommitsFollowPool /\ Held
      /\ Joined /\ Committed /\ UnderWay /\ LiveOwns
  BY DEF PoolInv
<1>2. /\ pool \in Pools /\ pool' \in Pools
      /\ call \in [Calls -> CallRecords] /\ call' \in [Calls -> CallRecords]
      /\ Len(chain) \in Nat /\ Len(chain') \in Nat
  BY <1>1 DEF Typed
<1>3. \/ pool' = pool
      \/ pool'.phase = "none" /\ pool'.entry = NoEntry /\ pool' = NoPool
      \/ /\ pool.phase \in Settled /\ pool'.phase = "ready"
         /\ pool'.entry = pool.entry /\ pool'.source = pool.source /\ pool' # NoPool
  BY <1>2 DEF PoolFreed, NoPool, Pools
<1>4. Serial'
  <2>1. \A op \in new : /\ op.at = "queued" /\ WellFormed(op)
                        /\ op.kind \in Leaving => call'[op.call].pc = "retiring"
    BY DEF Benign, WellFormed, Leaving, Started
  <2>2. \A i \in 1..Len(chain) : i > k /\ chain[i].kind \in Leaving =>
              call'[chain[i].call].pc = "retiring"
    <3> SUFFICES ASSUME NEW i \in 1..Len(chain), i > k, chain[i].kind \in Leaving
                 PROVE  call'[chain[i].call].pc = "retiring"
      OBVIOUS
    <3>1. call[chain[i].call].pc = "retiring" /\ chain[i].call \in Calls
      BY <1>1 DEF Serial, WellFormed, Leaving
    <3> QED BY <3>1 DEF Stays, Freed, Leaves
  <2>3. k = 0 /\ chain # <<>> => WellFormed(chain'[1])
    <3> SUFFICES ASSUME k = 0, chain # <<>> PROVE WellFormed(chain'[1])
      OBVIOUS
    <3>1. 1 \in 1..Len(chain) /\ 1 \in 1..Len(chain') /\ Same(chain'[1], chain[1])
      BY <1>1, <1>2 DEF Keeps, Typed
    <3> QED BY <3>1, <1>1 DEF Serial, WellFormed, Same, Started, Writes
  <2> QED BY <2>1, <2>2, <2>3, <1>1, SerialStep
<1>5. Once'
  <2>1. \A op \in new : \A i \in 1..Len(chain) : i > k => ~Twice(op, chain[i])
    BY DEF Benign, Twice, Leaving
  <2> QED BY <2>1, <1>1, OnceStep
<1>6. PoolFollowsChain'
  <2>1. (pool.phase = "loading" => \E i \in 1..Len(chain) : Loads(chain[i], pool.entry))'
    <3> SUFFICES ASSUME pool'.phase = "loading"
                 PROVE  \E i \in 1..Len(chain') : Loads(chain'[i], pool'.entry)
      BY DEF Loads
    <3>1. pool' = pool /\ ~PoolFreed
      BY <1>2, <1>3 DEF PoolFreed, NoPool, Pools, Settled
    <3>2. \E i \in 1..Len(chain) : Loads(chain[i], pool.entry)
      BY <1>1, <3>1 DEF PoolFollowsChain
    <3> QED BY <1>1, <3>1, <3>2, StillLoads
  <2>2. (pool.phase \in Settled => \A i \in 1..Len(chain) : ~Loads(chain[i], pool.entry))'
    <3> SUFFICES ASSUME pool'.phase \in Settled
                 PROVE  \A i \in 1..Len(chain') : ~Loads(chain'[i], pool'.entry)
      BY DEF Loads
    <3>1. pool.phase \in Settled /\ pool'.entry = pool.entry
      BY <1>3 DEF Settled
    <3>2. \A op \in new : ~Loads(op, pool.entry)
      BY DEF Benign, Loads
    <3> QED BY <1>1, <3>1, <3>2, NotLoaded DEF PoolFollowsChain
  <2> QED BY <2>1, <2>2, <1>1, <1>3 DEF PoolFollowsChain, Settled, NoPool
<1>7. CommitsFollowPool'
  <2>1. \A i \in 1..Len(chain) : i > k /\ chain[i].kind = "commit" =>
              \/ /\ call'[chain[i].call].pc = call[chain[i].call].pc
                 /\ call'[chain[i].call].entry = call[chain[i].call].entry
              \/ call'[chain[i].call].pc \in {"threw", "done"} /\ chain[i].at = "queued"
    <3> SUFFICES ASSUME NEW i \in 1..Len(chain), chain[i].kind = "commit"
        PROVE  \/ /\ call'[chain[i].call].pc = call[chain[i].call].pc
                  /\ call'[chain[i].call].entry = call[chain[i].call].entry
               \/ call'[chain[i].call].pc \in {"threw", "done"} /\ chain[i].at = "queued"
      OBVIOUS
    <3>1. chain[i].call \in Calls
      BY <1>1 DEF Serial, WellFormed
    <3>2. \/ call[chain[i].call].pc = "committing"
          \/ call[chain[i].call].pc \in {"threw", "done"} /\ chain[i].at = "queued"
      BY <1>1 DEF CommitsFollowPool
    <3> QED BY <3>1, <3>2 DEF Stays, Freed, Leaves
  <2>2. k = 0 /\ chain # <<>> /\ chain[1].kind = "commit" => chain'[1].at = chain[1].at
    <3> SUFFICES ASSUME k = 0, chain # <<>>, chain[1].kind = "commit"
                 PROVE  chain'[1].at = chain[1].at
      OBVIOUS
    <3>1. 1 \in 1..Len(chain)
      BY <1>1 DEF Typed
    <3> QED BY <3>1, <1>1 DEF Serial, WellFormed, Started, Writes
  <2>3. \A op \in new : op.kind # "commit"
    BY DEF Benign
  <2> QED BY <2>1, <2>2, <2>3, <1>1, <1>3, CommitsStep DEF Settled
<1>13. \A c \in Calls : call'[c].pc \in Claiming => Stays(c) /\ call[c].pc \in Claiming
  BY DEF Stays, Freed, Leaves, Claiming
<1>14. \A c \in Calls : call'[c].pc \in Claiming /\ call'[c].entry = pool'.entry
                          => Claims(c) /\ pool' = pool
  BY <1>13, <1>1, <1>2, <1>3 DEF Claims, Held, Stays, PoolFreed, Leaves, NoPool
<1>8. Held'
  <2>2. \A c \in Calls : Claims(c)' => Claims(c) /\ pool' = pool
    BY <1>14 DEF Claims
  <2>3. (pool.phase \in {"committing", "reserved"} => \E c \in Calls : Claims(c))'
    <3> SUFFICES ASSUME pool'.phase \in {"committing", "reserved"}
                 PROVE  \E c \in Calls : Claims(c)'
      OBVIOUS
    <3>1. pool' = pool /\ ~PoolFreed
      BY <1>2, <1>3 DEF PoolFreed, NoPool, Pools
    <3>2. PICK c \in Calls : Claims(c)
      BY <1>1, <3>1 DEF Held
    <3> QED BY <3>1, <3>2 DEF Claims, Stays
  <2>4. ASSUME NEW c \in Calls, call'[c].pc \in Claiming
        PROVE  /\ call'[c].entry \in Entries /\ call'[c].kind \in {"prepare", "load"}
               /\ call'[c].pc = "holding" => call'[c].entry = pool'.entry /\ pool'.phase = "reserved"
               /\ call'[c].pc # "holding" /\ call'[c].entry = pool'.entry => pool'.phase = "committing"
    <3>1. Stays(c) /\ call[c].pc \in Claiming
      BY <1>13, <2>4
    <3>2. call[c].pc = "holding" => pool' = pool
      BY <3>1, <1>1 DEF Held, Claims, Leaves, Stays, Claiming
    <3>3. Claims(c)' => pool' = pool
      BY <2>2
    <3> QED BY <3>1, <3>2, <3>3, <2>4, <1>1 DEF Held, Stays, Claims
  <2> QED BY <2>2, <2>3, <2>4, <1>1 DEF Held
<1>9. Joined'
  <2> SUFFICES ASSUME NEW d \in Calls PROVE JoinedAt(d)'
    BY DEF Joined
  <2>1. CASE Leaves(d, k)
    BY <2>1 DEF Leaves
  <2>2. CASE ~Leaves(d, k) /\ (Stays(d) \/ Freed(d))
    <3>1. call'[d].entry = call[d].entry /\ call'[d].kind = call[d].kind
      BY <2>2 DEF Stays, Freed
    <3>2. JoinedAt(d)
      BY <1>1 DEF Joined
    <3>3. call'[d].pc = "loading" => \E i \in 1..Len(chain') : Loads(chain'[i], call'[d].entry)
      <4> SUFFICES ASSUME call'[d].pc = "loading"
                   PROVE  \E i \in 1..Len(chain') : Loads(chain'[i], call'[d].entry)
        OBVIOUS
      <4>1. call[d].pc = "loading" /\ \E i \in 1..Len(chain) : Loads(chain[i], call[d].entry)
        BY <2>2, <3>2 DEF JoinedAt, Stays, Freed
      <4>2. k = 1 => ~Loads(chain[1], call[d].entry)
        BY <4>1, <2>2
      <4>3. \E i \in 1..Len(chain') : Loads(chain'[i], call[d].entry)
        BY <4>1, <4>2, <1>1, StillLoads
      <4> QED BY <3>1, <4>3
    <3>4. call'[d].pc = "loaded" /\ call'[d].entry = pool'.entry => pool'.phase # "loading"
      BY <2>2, <3>1, <3>2, <1>3 DEF JoinedAt, Stays, Freed
    <3>5. call'[d].pc = "waiting" =>
             call'[d].entry = pool'.entry /\ pool'.phase \in {"committing", "reserved"}
      <4> SUFFICES ASSUME call'[d].pc = "waiting"
                   PROVE  call'[d].entry = pool'.entry /\ pool'.phase \in {"committing", "reserved"}
        OBVIOUS
      <4>1. Stays(d) /\ call[d].pc = "waiting"
        BY <2>2 DEF Stays, Freed
      <4>2. pool' = pool
        BY <4>1
      <4> QED BY <4>1, <4>2, <3>1, <3>2 DEF JoinedAt
    <3> QED BY <2>2, <3>1, <3>2, <3>3, <3>4, <3>5 DEF JoinedAt, Stays, Freed, Loads
  <2> QED BY <2>1, <2>2
<1>10. Committed'
  <2> SUFFICES ASSUME NEW c \in Calls, call'[c].pc \in {"committed", "holding"},
                      call'[c].entry = pool'.entry
      PROVE  /\ tracked' # Untracked /\ tracked'.owner = NoCall
             /\ tracked'.cursor = Length(pool'.source)
             /\ pool'.source.own = stored'.own /\ ~pool'.source.open
    BY DEF Committed, Length
  <2>1. Claims(c) /\ pool' = pool /\ call[c].pc \in {"committed", "holding"}
    BY <1>13, <1>14 DEF Claiming, Stays
  <2> QED BY <2>1, <1>1 DEF Committed, Claims
<1>11. UnderWay'
  <2>1. CASE k = 1
    <3>1. \A i \in 1..Len(chain') : chain'[i].at = "queued"
      BY <2>1, <1>1, AllQueued DEF Benign
    <3> QED BY <3>1 DEF UnderWay, Started
  <2>2. CASE k = 0
    <3> SUFFICES ASSUME NEW i \in 1..Len(chain'), chain'[i].at # "queued"
        PROVE  /\ chain'[i].at = "started" =>
                     /\ call'[chain'[i].call].pc = "committing"
                     /\ tracked' = Untracked \/ tracked'.owner = NoCall
               /\ chain'[i].at \in {"adopt", "adopted"} => tracked' = Untracked
               /\ chain'[i].at = "write" => tracked' # Untracked
               /\ Started(chain'[i]) => \A c \in Calls :
                     call'[c].pc \in {"committed", "holding"} => call'[c].entry # pool'.entry
      BY DEF UnderWay, Started
    <3>1. i = 1 /\ 1 \in 1..Len(chain) /\ Same(chain'[1], chain[1]) /\ chain # <<>>
      BY <2>2, <1>1, <1>2, <1>4 DEF Serial, Became, Benign, Typed
    <3>2. chain'[1].at = chain[1].at \/ Writes(chain[1])
      BY <2>2, <3>1
    <3>7. CASE Writes(chain[1])
      <4>1. \A d \in Calls :
               call'[d].pc \in {"committed", "holding"} => call'[d].entry # pool'.entry
        BY <3>7, <1>13, <1>14 DEF Claiming, Stays, Writes
      <4> QED BY <3>1, <3>7, <4>1 DEF Writes, Started
    <3> SUFFICES ASSUME ~Writes(chain[1]) PROVE
               /\ chain'[i].at = "started" =>
                     /\ call'[chain'[i].call].pc = "committing"
                     /\ tracked' = Untracked \/ tracked'.owner = NoCall
               /\ chain'[i].at \in {"adopt", "adopted"} => tracked' = Untracked
               /\ chain'[i].at = "write" => tracked' # Untracked
               /\ Started(chain'[i]) => \A c \in Calls :
                     call'[c].pc \in {"committed", "holding"} => call'[c].entry # pool'.entry
      BY <3>7
    <3>3. /\ chain[1].at = "started" =>
                /\ call[chain[1].call].pc = "committing"
                /\ tracked = Untracked \/ tracked.owner = NoCall
          /\ chain[1].at \in {"adopt", "adopted"} => tracked = Untracked
          /\ chain[1].at = "write" => tracked # Untracked
          /\ Started(chain[1]) =>
                \A c \in Calls : call[c].pc \in {"committed", "holding"} => call[c].entry # pool.entry
      BY <3>1, <1>1 DEF UnderWay
    <3>4. tracked' = tracked
      BY <2>2
    <3>5. chain[1].at = "started" => call'[chain'[1].call].pc = "committing"
      <4>1. chain[1].at = "started" => chain[1].call \in Calls
        BY <3>1, <1>1 DEF Serial, WellFormed
      <4> QED BY <4>1, <3>1, <3>3 DEF Same, Stays, Freed, Leaves
    <3>6. Started(chain[1]) => \A c \in Calls :
                     call'[c].pc \in {"committed", "holding"} => call'[c].entry # pool'.entry
      BY <3>3, <1>13, <1>14 DEF Claiming, Stays, Claims
    <3> QED BY <3>1, <3>2, <3>3, <3>4, <3>5, <3>6 DEF Started
  <2> QED BY <2>1, <2>2
<1>12. LiveOwns'
  <2>1. \A c \in Calls : call'[c].pc = "live" <=> call[c].pc = "live"
    BY DEF Stays, Freed, Leaves
  <2> QED BY <2>1, <1>1, <1>3 DEF LiveOwns, PoolFreed, NoPool, Settled
<1> QED BY <1>4, <1>5, <1>6, <1>7, <1>8, <1>9, <1>10, <1>11, <1>12 DEF PoolInv

-----------------------------------------------------------------------------
(* Steps on the way of the one call that commits an entry. *)

\* The commit in front goes on, or starts, for a call that still waits for it.
GoesOn(op) ==
    \/ chain'[1].at = op.at
    \/ /\ op.kind = "commit" /\ chain'[1].at = "started"
       /\ call'[op.call].pc = "committing"
       /\ tracked' = Untracked \/ tracked'.owner = NoCall

\* The invariant is kept by a step that brings one claiming call further.
LEMMA Advances ==
    ASSUME PoolInv, Typed', live' = live, NEW c \in Calls,
           call[c].pc \in Claiming \ {"holding"}, call'[c].pc \in Claiming,
           call'[c].entry = call[c].entry, call'[c].kind = call[c].kind,
           \A d \in Calls : d # c => Stays(d),
           NEW k \in {0, 1}, Became(k, {}), Keeps(k),
           k = 1 => chain[1].kind = "commit",
           k = 0 /\ chain # <<>> => GoesOn(chain[1]),
           \A i \in 1..Len(chain) : i > k /\ chain[i].kind = "commit" /\ chain[i].call = c =>
              \/ call'[c].pc = call[c].pc
              \/ call'[c].pc = "threw" /\ chain[i].at = "queued",
           \/ pool' = pool /\ call'[c].pc # "holding"
           \/ /\ Claims(c) /\ call'[c].pc = "holding"
              /\ pool' = [pool EXCEPT !.phase = "reserved"],
           call'[c].pc \in {"committed", "holding"} =>
              /\ k = 1 \/ call[c].pc = "committed"
              /\ Claims(c) => /\ tracked' # Untracked /\ tracked'.owner = NoCall
                              /\ tracked'.cursor = Length(pool.source)
                              /\ pool.source.own = stored'.own /\ ~pool.source.open,
           \/ tracked' = tracked /\ stored'.own = stored.own
           \/ \A d \in Calls \ {c} : call[d].pc \in {"committed", "holding"} => ~Claims(d),
           live # NoCall => tracked' # Untracked /\ tracked'.owner = live,
           tracked' = tracked \/ k = 1
    PROVE  PoolInv'
<1> USE PreparationsAssumption
<1>1. /\ Typed /\ Serial /\ Once /\ PoolFollowsChain /\ CommitsFollowPool /\ Held
      /\ Joined /\ Committed /\ UnderWay /\ LiveOwns
  BY DEF PoolInv
<1>2. /\ pool \in Pools /\ pool' \in Pools
      /\ call \in [Calls -> CallRecords] /\ call' \in [Calls -> CallRecords]
      /\ Len(chain) \in Nat /\ Len(chain') \in Nat
  BY <1>1 DEF Typed
<1>3. \/ pool' = pool
      \/ /\ pool.phase = "committing" /\ pool'.phase = "reserved"
         /\ pool'.entry = pool.entry /\ pool'.source = pool.source
         /\ pool # NoPool /\ pool' # NoPool
  BY <1>1, <1>2 DEF NoPool, Pools, Held, Claims
<1>4. \A d \in Calls : /\ call'[d].entry = call[d].entry /\ call'[d].kind = call[d].kind
                       /\ call[d].pc \in Claiming <=> call'[d].pc \in Claiming
                       /\ d # c => call'[d].pc = call[d].pc
  BY DEF Stays
<1>5. \A i \in 1..Len(chain) : chain[i].kind # "load" => chain[i].call \in Calls
  BY <1>1 DEF Serial, WellFormed
<1>6. k = 0 /\ chain # <<>> => 1 \in 1..Len(chain) /\ 1 \in 1..Len(chain') /\ Same(chain'[1], chain[1])
  BY <1>1, <1>2 DEF Keeps, Typed
<1>7. Serial'
  <2>1. \A i \in 1..Len(chain) : i > k /\ chain[i].kind \in Leaving =>
              call'[chain[i].call].pc = "retiring"
    BY <1>1, <1>4, <1>5 DEF Serial, Leaving, Claiming
  <2>2. k = 0 /\ chain # <<>> => WellFormed(chain'[1])
    BY <1>1, <1>6 DEF Serial, WellFormed, Same, Started, GoesOn
  <2> QED BY <2>1, <2>2, <1>1, SerialStep
<1>8. Once'
  BY <1>1, OnceStep
<1>9. PoolFollowsChain'
  <2>1. (pool.phase = "loading" => \E i \in 1..Len(chain) : Loads(chain[i], pool.entry))'
    <3> SUFFICES ASSUME pool'.phase = "loading"
                 PROVE  \E i \in 1..Len(chain') : Loads(chain'[i], pool'.entry)
      BY DEF Loads
    <3>1. pool' = pool /\ \E i \in 1..Len(chain) : Loads(chain[i], pool.entry)
      BY <1>1, <1>3 DEF PoolFollowsChain
    <3>2. k = 1 => ~Loads(chain[1], pool.entry)
      BY DEF Loads
    <3>3. \E i \in 1..Len(chain') : Loads(chain'[i], pool.entry)
      BY <1>1, <3>1, <3>2, StillLoads
    <3> QED BY <3>1, <3>3
  <2>2. (pool.phase \in Settled => \A i \in 1..Len(chain) : ~Loads(chain[i], pool.entry))'
    <3> SUFFICES ASSUME pool'.phase \in Settled
                 PROVE  \A i \in 1..Len(chain') : ~Loads(chain'[i], pool'.entry)
      BY DEF Loads
    <3>1. pool.phase \in Settled /\ pool'.entry = pool.entry
      BY <1>3 DEF Settled
    <3>2. \A i \in 1..Len(chain) : ~Loads(chain[i], pool.entry)
      BY <1>1, <3>1 DEF PoolFollowsChain
    <3>3. \A i \in 1..Len(chain') : ~Loads(chain'[i], pool.entry)
      <4>1. PICK new : new = {}
        OBVIOUS
      <4>4. Became(k, new) /\ \A op \in new : ~Loads(op, pool.entry)
        BY <4>1
      <4>2. \A i \in 1..Len(chain) : i > k => ~Loads(chain[i], pool.entry)
        BY <3>2
      <4>3. Typed
        BY <1>1
      <4> QED BY <4>2, <4>3, <4>4, NotLoaded
    <3> QED BY <3>1, <3>3
  <2> QED BY <2>1, <2>2, <1>1, <1>3 DEF PoolFollowsChain, Settled, NoPool
<1>10. CommitsFollowPool'
  <2>1. \A i \in 1..Len(chain) : i > k /\ chain[i].kind = "commit" =>
              \/ /\ call'[chain[i].call].pc = call[chain[i].call].pc
                 /\ call'[chain[i].call].entry = call[chain[i].call].entry
              \/ call'[chain[i].call].pc \in {"threw", "done"} /\ chain[i].at = "queued"
    BY <1>4, <1>5
  <2>2. k = 0 /\ chain # <<>> /\ chain[1].kind = "commit" =>
           chain'[1].at = chain[1].at \/ WillCommit(chain'[1])
    BY <1>6 DEF GoesOn, WillCommit, Same
  <2> QED BY <2>1, <2>2, <1>1, <1>3, CommitsStep DEF Settled
<1>11. Held'
  <2>1. \A d \in Calls : Claims(d)' <=> Claims(d)
    BY <1>3, <1>4 DEF Claims
  <2>2. ASSUME NEW d \in Calls, call'[d].pc \in Claiming
        PROVE  /\ call'[d].entry \in Entries /\ call'[d].kind \in {"prepare", "load"}
               /\ call'[d].pc = "holding" => call'[d].entry = pool'.entry /\ pool'.phase = "reserved"
               /\ call'[d].pc # "holding" /\ call'[d].entry = pool'.entry => pool'.phase = "committing"
    <3>1. CASE d = c
      <4>1. /\ call[c].entry \in Entries /\ call[c].kind \in {"prepare", "load"}
            /\ call[c].entry = pool.entry => pool.phase = "committing"
        BY <1>1 DEF Held
      <4>2. CASE call'[c].pc = "holding"
        BY <3>1, <4>1, <4>2, <1>2 DEF Claims, Pools
      <4>3. CASE call'[c].pc # "holding"
        BY <3>1, <4>1, <4>3
      <4> QED BY <4>2, <4>3
    <3>2. CASE d # c
      BY <3>2, <2>2, <1>1, <1>3, <1>4 DEF Held, Claims
    <3> QED BY <3>1, <3>2
  <2> QED BY <2>1, <2>2, <1>1, <1>3 DEF Held
<1>12. Joined'
  <2> SUFFICES ASSUME NEW d \in Calls PROVE JoinedAt(d)'
    BY DEF Joined
  <2>1. JoinedAt(d)
    BY <1>1 DEF Joined
  <2>2. CASE d = c
    BY <2>1, <2>2, <1>1 DEF JoinedAt, Held, Claiming
  <2>3. CASE d # c
    <3>1. call'[d].pc = "loading" => \E i \in 1..Len(chain') : Loads(chain'[i], call'[d].entry)
      <4> SUFFICES ASSUME call'[d].pc = "loading"
                   PROVE  \E i \in 1..Len(chain') : Loads(chain'[i], call'[d].entry)
        OBVIOUS
      <4>1. \E i \in 1..Len(chain) : Loads(chain[i], call'[d].entry)
        BY <2>1, <2>3, <1>4 DEF JoinedAt
      <4>2. k = 1 => ~Loads(chain[1], call'[d].entry)
        BY DEF Loads
      <4> QED BY <4>1, <4>2, <1>1, StillLoads
    <3> QED BY <2>1, <2>3, <3>1, <1>3, <1>4 DEF JoinedAt, Loads
  <2> QED BY <2>2, <2>3
<1>13. Committed'
  <2> SUFFICES ASSUME NEW d \in Calls, call'[d].pc \in {"committed", "holding"},
                      call'[d].entry = pool'.entry
      PROVE  /\ tracked' # Untracked /\ tracked'.owner = NoCall
             /\ tracked'.cursor = Length(pool'.source)
             /\ pool'.source.own = stored'.own /\ ~pool'.source.open
    BY DEF Committed, Length
  <2>1. Claims(d) /\ pool'.source = pool.source
    BY <1>3, <1>4 DEF Claims, Claiming
  <2>2. CASE d = c
    BY <2>1, <2>2
  <2>3. CASE d # c
    BY <2>1, <2>3, <1>1, <1>4 DEF Committed, Claims
  <2> QED BY <2>2, <2>3
<1>14. UnderWay'
  <2>1. CASE k = 1
    <3>1. \A i \in 1..Len(chain') : chain'[i].at = "queued"
      BY <2>1, <1>1, AllQueued
    <3> QED BY <3>1 DEF UnderWay, Started
  <2>2. CASE k = 0
    <3> SUFFICES ASSUME NEW i \in 1..Len(chain'), chain'[i].at # "queued"
        PROVE  /\ chain'[i].at = "started" =>
                     /\ call'[chain'[i].call].pc = "committing"
                     /\ tracked' = Untracked \/ tracked'.owner = NoCall
               /\ chain'[i].at \in {"adopt", "adopted"} => tracked' = Untracked
               /\ chain'[i].at = "write" => tracked' # Untracked
               /\ Started(chain'[i]) => \A d \in Calls :
                     call'[d].pc \in {"committed", "holding"} => call'[d].entry # pool'.entry
      BY DEF UnderWay, Started
    <3>1. i = 1 /\ 1 \in 1..Len(chain) /\ Same(chain'[1], chain[1]) /\ chain # <<>>
      BY <2>2, <1>1, <1>2, <1>7 DEF Serial, Became, Typed
    <3>2. GoesOn(chain[1])
      BY <2>2, <3>1
    <3>3. /\ chain[1].at = "started" =>
                /\ call[chain[1].call].pc = "committing" /\ chain[1].kind = "commit"
                /\ tracked = Untracked \/ tracked.owner = NoCall
          /\ chain[1].at \in {"adopt", "adopted"} => tracked = Untracked
          /\ chain[1].at = "write" => tracked # Untracked
          /\ Started(chain[1]) =>
                \A d \in Calls : call[d].pc \in {"committed", "holding"} => call[d].entry # pool.entry
      BY <3>1, <1>1 DEF UnderWay, Serial, WellFormed
    <3>4. tracked' = tracked
      BY <2>2
    <3>5. chain[1].at = "started" => call'[chain'[1].call].pc = "committing"
      BY <2>2, <3>1, <3>3, <1>4, <1>5 DEF Same
    <3>6. Started(chain[1]) => \A d \in Calls :
                     call'[d].pc \in {"committed", "holding"} => call'[d].entry # pool'.entry
      BY <2>2, <3>3, <1>3, <1>4
    <3> QED BY <3>1, <3>2, <3>3, <3>4, <3>5, <3>6 DEF Started, GoesOn, Same
  <2> QED BY <2>1, <2>2
<1>15. LiveOwns'
  BY <1>1, <1>3, <1>4 DEF LiveOwns, Claiming
<1> QED BY <1>7, <1>8, <1>9, <1>10, <1>11, <1>12, <1>13, <1>14, <1>15 DEF PoolInv

-----------------------------------------------------------------------------
(* Every action keeps the invariant. *)

\* The invariant is kept where one call without a claim ends.
LEMMA OneLeaves ==
    ASSUME PoolInv, Typed', UNCHANGED <<stored, tracked, live, pool, chain>>,
           NEW c \in Calls, Leaves(c, 0), ~Claims(c), \A d \in Calls : d # c => Stays(d)
    PROVE  PoolInv'
<1>1. Typed /\ LiveOwns
  BY DEF PoolInv
<1>2. PICK new : new = {}
  OBVIOUS
<1>3. Became(0, new) /\ Keeps(0) /\ \A op \in new : Benign(op, 0)
  BY <1>1, <1>2, ChainSame
<1>4. \A d \in Calls : Stays(d) \/ Leaves(d, 0)
  OBVIOUS
<1>5. \A d \in Calls : Claims(d) => Stays(d)
  OBVIOUS
<1>6. live # NoCall => tracked' # Untracked /\ tracked'.owner = live
  BY <1>1 DEF LiveOwns
<1> QED BY <1>3, <1>4, <1>5, <1>6, GivesUp

\* A call record replaced.
LEMMA PutCall ==
    ASSUME Typed, NEW c \in Calls, NEW r \in CallRecords, call' = Put(c, r)
    PROVE  /\ call' \in [Calls -> CallRecords] /\ call'[c] = r
           /\ \A d \in Calls : d # c => call'[d] = call[d] /\ Stays(d)
BY DEF Typed, Put, Stays

\* A call starts from, and returns to, a record of a call.
LEMMA RecordsTyped ==
    ASSUME Typed
    PROVE  /\ \A pc \in Places : Out(pc) \in CallRecords
           /\ \A pc \in Places : \A kind \in {"none", "inspect", "load", "prepare", "append"} :
                [Out(pc) EXCEPT !.kind = kind] \in CallRecords
BY DEF Typed, Out, CallRecords

\* A call that moves on stays a record of a call.
LEMMA AtTyped ==
    ASSUME Typed, NEW c \in Calls, NEW pc \in Places
    PROVE  /\ At(c, pc) \in CallRecords /\ At(c, pc).pc = pc /\ At(c, pc).kind = call[c].kind
           /\ At(c, pc).entry = call[c].entry
BY DEF Typed, At, CallRecords

\* A call that begins keeps the invariant.
LEMMA BeginKeeps ==
    ASSUME PoolInv, NEW c \in Calls, NEW kind \in Kinds[c] \ {"append"}, Begin(c, kind)
    PROVE  PoolInv'
<1> DEFINE r == [Out(IF retiring THEN "parked" ELSE "gap") EXCEPT !.kind = kind]
<1>1. /\ r \in CallRecords /\ r.pc \in {"parked", "gap"} /\ r.kind = kind
      /\ kind # "append" /\ Typed
  <2>1. kind \in {"inspect", "load", "prepare"}
    BY PreparationsAssumption
  <2> QED BY <2>1, RecordsTyped DEF PoolInv, Places, Out
<1>2. call' = Put(c, r)
  BY DEF Begin
<1> HIDE DEF r
<1>3. /\ call' \in [Calls -> CallRecords] /\ call'[c] = r
      /\ \A d \in Calls : d # c => Stays(d)
  BY <1>1, <1>2, PutCall
<1>4. Typed'
  BY <1>1, <1>3 DEF Typed, Begin, state
<1>5. Leaves(c, 0) /\ ~Claims(c)
  BY <1>1, <1>3 DEF Begin, Leaves, JoinedAt, Claims, Claiming
<1> QED BY <1>3, <1>4, <1>5, OneLeaves DEF Begin, state

\* A call that finds no entry makes one and has it loaded.
LEMMA NewEntry ==
    ASSUME PoolInv, NEW c \in Calls, NEW e, Unheld(e), call[c].pc = "gap",
           pool.entry = NoEntry, live = NoCall,
           pool' = [entry |-> e, phase |-> "loading", source |-> NoSource],
           chain' = Append(chain, Op("load", NoCall, e, NoSource)),
           call' = Put(c, [At(c, "loading") EXCEPT !.entry = e]),
           UNCHANGED <<state, trouble>>
    PROVE  PoolInv'
<1> USE PreparationsAssumption
<1> DEFINE op == Op("load", NoCall, e, NoSource)
           r == [At(c, "loading") EXCEPT !.entry = e]
<1>1. /\ Typed /\ Serial /\ Once /\ PoolFollowsChain /\ CommitsFollowPool /\ Held
      /\ Joined /\ Committed /\ UnderWay /\ LiveOwns
  BY DEF PoolInv
<1>2. /\ op \in Ops /\ op.kind = "load" /\ op.entry = e /\ op.at = "queued"
      /\ e \in Entries /\ e # NoEntry
  BY DEF Op, Ops, Unheld
<1>3. /\ r \in CallRecords /\ r.pc = "loading" /\ r.entry = e /\ r.kind = call[c].kind
      /\ r.kind # "append"
  <2>1. r \in CallRecords /\ r.pc = "loading" /\ r.entry = e /\ r.kind = call[c].kind
    BY <1>1, <1>2, ZenonT(60) DEF Typed, CallRecords, Places, At
  <2>2. call[c].kind # "append"
    BY <1>1 DEF Joined, JoinedAt
  <2> QED BY <2>1, <2>2
<1> HIDE DEF op, r
<1>4. /\ Became(0, {op}) /\ Keeps(0)
      /\ Len(chain') \in 1..Len(chain') /\ chain'[Len(chain')] = op
      /\ chain # <<>> => chain'[1] = chain[1]
  BY <1>1, <1>2, ChainAppend DEF op
<1>5. /\ call' \in [Calls -> CallRecords] /\ call'[c] = r
      /\ \A d \in Calls : d # c => call'[d] = call[d]
  BY <1>1, <1>3, PutCall DEF r
<1>6. /\ pool' \in Pools /\ pool'.entry = e /\ pool'.phase = "loading" /\ pool' # NoPool
      /\ pool = NoPool /\ pool.phase = "none"
  BY <1>1, <1>2 DEF Pools, NoPool, PoolFollowsChain
<1>7. stored' = stored /\ tracked' = tracked /\ live' = live /\ retiring' = retiring
  BY DEF state
<1>8. \A i \in 1..Len(chain) : chain[i].entry # e
  BY DEF Unheld
<1>9. \A d \in Calls : call[d].entry # e
  BY DEF Unheld
<1>10. Typed'
  BY <1>1, <1>4, <1>5, <1>6, <1>7 DEF Typed, Became
<1>11. Serial'
  <2>1. WellFormed(op) /\ op.kind \notin Leaving
    BY <1>2 DEF WellFormed, Started, Leaving
  <2>2. \A i \in 1..Len(chain) : chain[i].kind \in Leaving => call'[chain[i].call].pc = "retiring"
    BY <1>1, <1>5 DEF Serial, WellFormed, Leaving
  <2>3. chain # <<>> => WellFormed(chain'[1])
    BY <1>1, <1>4 DEF Serial, Typed
  <2>4. PICK new : new = {op}
    OBVIOUS
  <2>5. /\ Became(0, new)
        /\ \A o \in new : /\ o.at = "queued" /\ WellFormed(o)
                          /\ o.kind \in Leaving => call'[o.call].pc = "retiring"
    BY <2>1, <2>4, <1>2, <1>4
  <2> QED BY <2>2, <2>3, <2>5, <1>1, SerialStep
<1>12. Once'
  <2>1. \A i \in 1..Len(chain) : ~Twice(op, chain[i])
    BY <1>2, <1>8 DEF Twice, Leaving
  <2> QED BY <2>1, <1>1, <1>4, OnceStep
<1>13. PoolFollowsChain'
  BY <1>2, <1>4, <1>6 DEF PoolFollowsChain, Loads, Settled
<1>14. CommitsFollowPool'
  <2>1. \A i \in 1..Len(chain) : chain[i].kind = "commit" =>
          /\ call'[chain[i].call].pc = call[chain[i].call].pc
          /\ call'[chain[i].call].entry = call[chain[i].call].entry
    BY <1>1, <1>5 DEF Serial, WellFormed, CommitsFollowPool
  <2>2. \A i \in 1..Len(chain) : ~Loads(chain[i], pool'.entry)
    BY <1>6, <1>8 DEF Loads
  <2> QED BY <2>1, <2>2, <1>1, <1>2, <1>4, <1>6, CommitsStep DEF Settled
<1>15. Held'
  <2>1. \A d \in Calls : call'[d].pc \in Claiming => d # c /\ call'[d] = call[d]
    BY <1>3, <1>5 DEF Claiming
  <2>2. \A d \in Calls : call'[d].pc \in Claiming => call'[d].pc # "holding"
    BY <2>1, <1>1, <1>6 DEF Held
  <2>3. \A d \in Calls : call'[d].pc \in Claiming => call'[d].entry # pool'.entry
    BY <2>1, <1>6, <1>9
  <2> QED BY <2>1, <2>2, <2>3, <1>1, <1>6 DEF Held, Claims
<1>16. Joined'
  <2> SUFFICES ASSUME NEW d \in Calls PROVE JoinedAt(d)'
    BY DEF Joined
  <2>1. CASE d = c
    BY <2>1, <1>2, <1>3, <1>4, <1>5, SMTT(30) DEF JoinedAt, Loads
  <2>2. CASE d # c
    <3>1. call'[d] = call[d] /\ JoinedAt(d)
      BY <2>2, <1>1, <1>5 DEF Joined
    <3>2. call[d].pc = "loading" => \E i \in 1..Len(chain') : Loads(chain'[i], call[d].entry)
      BY <3>1, <1>1, <1>4, StillLoads DEF JoinedAt
    <3> QED BY <3>1, <3>2, <1>6, <1>9 DEF JoinedAt, Loads
  <2> QED BY <2>1, <2>2
<1>17. Committed'
  BY <1>3, <1>5, <1>6, <1>9 DEF Committed
<1>18. UnderWay'
  <2> SUFFICES ASSUME NEW i \in 1..Len(chain'), chain'[i].at # "queued"
      PROVE  /\ chain'[i].at = "started" =>
                   /\ call'[chain'[i].call].pc = "committing"
                   /\ tracked' = Untracked \/ tracked'.owner = NoCall
             /\ chain'[i].at \in {"adopt", "adopted"} => tracked' = Untracked
             /\ chain'[i].at = "write" => tracked' # Untracked
             /\ Started(chain'[i]) => \A d \in Calls :
                   call'[d].pc \in {"committed", "holding"} => call'[d].entry # pool'.entry
    BY DEF UnderWay, Started
  <2>1. i = 1 /\ 1 \in 1..Len(chain) /\ chain'[1] = chain[1]
    BY <1>1, <1>2, <1>4, <1>11 DEF Serial, Became, Typed
  <2>2. chain[1].at = "started" =>
          call[chain[1].call].pc = "committing" /\ chain[1].call \in Calls
    BY <2>1, <1>1 DEF UnderWay, Serial, WellFormed
  <2>3. \A d \in Calls :
          call'[d].pc \in {"committed", "holding"} => call'[d].entry # pool'.entry
    BY <1>3, <1>5, <1>6, <1>9
  <2> QED BY <2>1, <2>2, <2>3, <1>1, <1>5, <1>7 DEF UnderWay
<1>19. LiveOwns'
  BY <1>1, <1>3, <1>5, <1>7 DEF LiveOwns
<1> QED BY <1>10, <1>11, <1>12, <1>13, <1>14, <1>15, <1>16, <1>17, <1>18, <1>19 DEF PoolInv

\* A call past the gap keeps it.
LEMMA ProceedKeeps ==
    ASSUME PoolInv, NEW c \in Calls, Proceed(c)
    PROVE  PoolInv'
<1>1. Typed /\ call[c].pc = "gap" /\ JoinedAt(c) /\ UNCHANGED <<state, trouble>>
      /\ call[c].kind # "append" /\ PoolFollowsChain
  BY DEF PoolInv, Joined, JoinedAt, Proceed
<1>2. ASSUME NEW r \in CallRecords, call' = Put(c, r), UNCHANGED <<pool, chain>>,
             r.pc \notin Claiming \cup {"live", "retiring"}, JoinedAt(c)'
      PROVE  PoolInv'
  <2>1. /\ call' \in [Calls -> CallRecords] /\ call'[c] = r
        /\ \A d \in Calls : d # c => Stays(d)
    BY <1>1, <1>2, PutCall
  <2>2. Typed'
    BY <1>1, <1>2, <2>1 DEF Typed, state
  <2>3. Leaves(c, 0) /\ ~Claims(c)
    BY <1>1, <1>2, <2>1 DEF Leaves, Claims, Claiming
  <2> QED BY <1>1, <1>2, <2>1, <2>2, <2>3, OneLeaves DEF state
<1>3. CASE call' = Put(c, At(c, "parked")) /\ UNCHANGED <<pool, chain>>
  <2> DEFINE r == At(c, "parked")
  <2>3. r \in CallRecords /\ r.pc = "parked" /\ r.kind # "append"
    BY <1>1, AtTyped DEF Places
  <2> HIDE DEF r
  <2>1. r \in CallRecords /\ call' = Put(c, r) /\ call'[c] = r
    BY <1>1, <1>3, <2>3, PutCall DEF r
  <2>2. JoinedAt(c)'
    BY <2>1, <2>3 DEF JoinedAt
  <2> QED BY <1>2, <1>3, <2>1, <2>2, <2>3 DEF Claiming
<1>4. CASE call' = Put(c, Out("done")) /\ UNCHANGED <<pool, chain>>
  <2>1. Out("done") \in CallRecords /\ call'[c] = Out("done")
    BY <1>1, <1>4, RecordsTyped, PutCall DEF Places
  <2>2. JoinedAt(c)' /\ Out("done").pc = "done"
    BY <2>1 DEF JoinedAt, Out
  <2> QED BY <1>2, <1>4, <2>1, <2>2 DEF Claiming
<1>5. CASE live = NoCall /\ pool.entry # NoEntry /\ UNCHANGED <<pool, chain>> /\
           call' = Put(c, [At(c, IF pool.phase = "loading" THEN "loading" ELSE "loaded")
                                EXCEPT !.entry = pool.entry,
                                       !.source = IF call[c].kind = "inspect"
                                                  THEN pool.source ELSE NoSource])
  <2> DEFINE r == [At(c, IF pool.phase = "loading" THEN "loading" ELSE "loaded")
                                EXCEPT !.entry = pool.entry,
                                       !.source = IF call[c].kind = "inspect"
                                                  THEN pool.source ELSE NoSource]
  <2>1. /\ r \in CallRecords /\ r.entry = pool.entry /\ r.kind = call[c].kind
        /\ r.pc = IF pool.phase = "loading" THEN "loading" ELSE "loaded"
    BY <1>1, ZenonT(60) DEF Typed, Pools, CallRecords, Places, At
  <2> HIDE DEF r
  <2>2. call' = Put(c, r)
    BY <1>5 DEF r
  <2>3. call'[c] = r
    BY <1>1, <2>1, <2>2, PutCall
  <2>4. JoinedAt(c)'
    BY <1>1, <1>5, <2>1, <2>3, PreparationsAssumption DEF JoinedAt, PoolFollowsChain, Typed, Pools
  <2> QED BY <1>2, <1>5, <2>1, <2>2, <2>4 DEF Claiming
<1>6. CASE /\ live = NoCall /\ pool.entry = NoEntry
           /\ LET e == FreshEntry IN
             /\ Unheld(e)
             /\ pool' = [entry |-> e, phase |-> "loading", source |-> NoSource]
             /\ chain' = Append(chain, Op("load", NoCall, e, NoSource))
             /\ call' = Put(c, [At(c, "loading") EXCEPT !.entry = e])
  BY <1>1, <1>6, NewEntry
<1> QED BY <1>3, <1>4, <1>5, <1>6 DEF Proceed

\* A call that waits for nothing has joined nothing.
LEMMA Unjoined ==
    ASSUME NEW c \in Calls, call'[c].kind # "append",
           call'[c].pc \in {"gap", "parked", "checking", "stale", "done"}
    PROVE  JoinedAt(c)'
BY DEF JoinedAt

\* The retry loop's next turn is a record of a call.
LEMMA LoopTopTyped ==
    ASSUME Typed, NEW c \in Calls
    PROVE  /\ LoopTop(c) \in CallRecords /\ LoopTop(c).pc \in {"gap", "parked", "done"}
           /\ LoopTop(c).kind \in {"none", call[c].kind}
<1>1. CASE call[c].aborted
  BY <1>1, RecordsTyped DEF LoopTop, Out, Places
<1>2. CASE ~call[c].aborted
  <2>1. call[c] \in CallRecords
    BY DEF Typed
  <2>2. LoopTop(c) = [call[c] EXCEPT !.pc = IF retiring THEN "parked" ELSE "gap",
                                     !.entry = NoEntry, !.source = NoSource]
    BY <1>2 DEF LoopTop
  <2> QED BY <2>1, <2>2 DEF CallRecords, Places
<1> QED BY <1>1, <1>2

\* A call that is done is a record of a call.
LEMMA OutTyped ==
    ASSUME Typed
    PROVE  Out("done") \in CallRecords /\ Out("done").pc = "done" /\ Out("done").kind = "none"
           /\ Out("done").entry = NoEntry
BY DEF Out, CallRecords, Places

\* What becomes of the pool and the calls when an entry is removed or returned.
LEMMA RemoveEffect ==
    ASSUME NEW e, NEW calls \in [Calls -> CallRecords], Remove(e, calls), pool \in Pools
    PROVE  /\ pool' \in Pools /\ call' \in [Calls -> CallRecords]
           /\ \A d \in Calls :
                 \/ call'[d] = calls[d] /\ (pool' # pool => ~(calls[d].pc = "waiting" /\ calls[d].entry = e))
                 \/ /\ calls[d].pc = "waiting" /\ call'[d].pc = "loaded"
                    /\ call'[d].entry = calls[d].entry /\ call'[d].kind = calls[d].kind
           /\ \/ pool.entry # e /\ pool' = pool /\ call' = calls
              \/ pool.entry = e /\ pool' = NoPool
BY DEF Remove, Released, CallRecords, Places, Pools, NoPool

\* What a load that became ready does to the pool and to those who wait.
LEMMA MakeReadyEffect ==
    ASSUME NEW e, NEW calls \in [Calls -> CallRecords], MakeReady(e, calls), pool \in Pools
    PROVE  /\ pool' \in Pools /\ call' \in [Calls -> CallRecords]
           /\ \A d \in Calls :
                 \/ call'[d] = calls[d] /\ (pool' # pool => ~(calls[d].pc = "waiting" /\ calls[d].entry = e))
                 \/ /\ calls[d].pc = "waiting" /\ call'[d].pc = "loaded"
                    /\ call'[d].entry = calls[d].entry /\ call'[d].kind = calls[d].kind
           /\ \/ pool.entry # e /\ pool' = pool /\ call' = calls
              \/ pool.entry = e /\ pool' = [pool EXCEPT !.phase = "ready"]
BY DEF MakeReady, Released, CallRecords, Places, Pools

\* A call that has an entry to itself gives it up and ends or starts again.
LEMMA LetsGo ==
    ASSUME PoolInv, NEW c \in Calls, call[c].pc \in Claiming \ {"committing"},
           NEW r \in CallRecords, r.pc \in {"gap", "parked", "done"}, r.kind # "append",
           call[c].pc = "threw" => r.pc = "done",
           \/ Remove(call[c].entry, Put(c, r))
           \/ MakeReady(call[c].entry, Put(c, r)),
           UNCHANGED <<state, chain, trouble>>
    PROVE  PoolInv'
<1> DEFINE e == call[c].entry
           calls == Put(c, r)
<1>1. Typed /\ Held /\ Joined /\ LiveOwns /\ pool \in Pools
  BY DEF PoolInv, Typed
<1>2. /\ calls \in [Calls -> CallRecords] /\ calls[c] = r
      /\ \A d \in Calls : d # c => calls[d] = call[d]
  BY <1>1 DEF Typed, Put
<1> HIDE DEF calls
<1>3. /\ pool' \in Pools /\ call' \in [Calls -> CallRecords]
      /\ \A d \in Calls :
            \/ call'[d] = calls[d] /\ (pool' # pool => ~(calls[d].pc = "waiting" /\ calls[d].entry = e))
            \/ /\ calls[d].pc = "waiting" /\ call'[d].pc = "loaded"
               /\ call'[d].entry = calls[d].entry /\ call'[d].kind = calls[d].kind
      /\ \/ pool.entry # e /\ pool' = pool /\ call' = calls
         \/ pool.entry = e /\ pool' \in {NoPool, [pool EXCEPT !.phase = "ready"]}
  <2>1. CASE Remove(e, calls)
    BY <2>1, <1>1, <1>2, RemoveEffect
  <2>2. CASE MakeReady(e, calls)
    BY <2>2, <1>1, <1>2, MakeReadyEffect
  <2> QED BY <2>1, <2>2 DEF calls
<1>4. stored' = stored /\ tracked' = tracked /\ live' = live /\ retiring' = retiring
  BY DEF state
<1>5. Typed'
  BY <1>1, <1>3, <1>4 DEF Typed
<1>6. call'[c] = r
  BY <1>2, <1>3
<1>7. Leaves(c, 0)
  <2>1. JoinedAt(c)'
    BY <1>6, Unjoined
  <2> QED BY <2>1, <1>6 DEF Leaves, Claiming
<1>8. \A d \in Calls : d # c => Stays(d) \/ Freed(d)
  BY <1>2, <1>3 DEF Stays, Freed
<1>9. \A d \in Calls : d # c /\ pool.entry = e => ~Claims(d)
  BY <1>1 DEF Held, Claims
<1>10. \/ pool' = pool /\ \A d \in Calls : Claims(d) => Stays(d)
       \/ PoolFreed /\ \A d \in Calls : /\ Claims(d) => Leaves(d, 0)
                                        /\ call[d].pc = "waiting" => ~Stays(d)
  <2>1. CASE pool.entry # e
    BY <2>1, <1>2, <1>3 DEF Claims, Stays
  <2>2. CASE pool.entry = e
    <3>1. pool.phase \in {"committing", "reserved"}
      BY <2>2, <1>1 DEF Held, Claiming
    <3>2. PoolFreed
      BY <2>2, <3>1, <1>3 DEF PoolFreed, Settled
    <3>3. ASSUME NEW d \in Calls, call[d].pc = "waiting" PROVE ~Stays(d)
      <4>1. d # c /\ call[d].entry = e /\ pool' # pool
        BY <2>2, <3>1, <3>3, <1>1, <1>3 DEF Joined, JoinedAt, Claiming, NoPool, Pools
      <4> QED BY <3>3, <4>1, <1>2, <1>3 DEF Stays
    <3> QED BY <2>2, <3>2, <3>3, <1>7, <1>9
  <2> QED BY <2>1, <2>2
<1>11. PICK new : new = {}
  OBVIOUS
<1>12. Became(0, new) /\ Keeps(0) /\ \A op \in new : Benign(op, 0)
  BY <1>1, <1>11, ChainSame
<1>13. live # NoCall => tracked' # Untracked /\ tracked'.owner = live
  BY <1>1, <1>4 DEF LiveOwns
<1>14. \A d \in Calls : Stays(d) \/ Freed(d) \/ Leaves(d, 0)
  BY <1>7, <1>8
<1> QED BY <1>4, <1>5, <1>10, <1>12, <1>13, <1>14, GivesUp

\* A load that returns to its caller keeps the invariant.
LEMMA LoadReturnsKeeps ==
    ASSUME PoolInv, NEW c \in Calls, LoadReturns(c)
    PROVE  PoolInv'
BY OutTyped, LetsGo DEF LoadReturns, PoolInv, Claiming

\* A preparation that is given up keeps it.
LEMMA ReleaseKeeps ==
    ASSUME PoolInv, NEW c \in Calls, Release(c)
    PROVE  PoolInv'
BY OutTyped, LetsGo DEF Release, PoolInv, Claiming

\* The shared read that settles keeps it.
LEMMA LoadRunsKeeps ==
    ASSUME PoolInv, LoadRuns
    PROVE  PoolInv'
<1> USE PreparationsAssumption
<1> DEFINE e == chain[1].entry
           Joins(d) == call[d].pc = "loading" /\ call[d].entry = e
<1>1. /\ Typed /\ Serial /\ Once /\ PoolFollowsChain /\ CommitsFollowPool /\ Held
      /\ Joined /\ Committed /\ UnderWay /\ LiveOwns /\ pool \in Pools
  BY DEF PoolInv, Typed
<1>2. PICK new : new = {}
  OBVIOUS
<1>3. /\ Became(1, new) /\ Keeps(1) /\ Head(chain) = chain[1] /\ 1 \in 1..Len(chain)
      /\ \A op \in new : Benign(op, 1)
  BY <1>1, <1>2, ChainTail DEF LoadRuns, Head1
<1>4. chain[1].kind = "load" /\ e \in Entries /\ Loads(chain[1], e)
  BY <1>1, <1>3 DEF LoadRuns, Head1, Serial, WellFormed, Loads
<1>5. stored' = stored /\ tracked' = tracked /\ live' = live /\ retiring' = retiring
  BY DEF LoadRuns, state
<1>6. pool.entry = e => pool.phase = "loading"
  BY <1>1, <1>3, <1>4 DEF PoolFollowsChain, Pools, Settled, NoPool
<1>7. \A i \in 1..Len(chain) : i > 1 => ~Loads(chain[i], e)
  BY <1>1, <1>3, <1>4 DEF Once, Twice, Loads
<1>8. CASE /\ pool' = IF pool.entry = e
                      THEN [entry |-> e, phase |-> "ready", source |-> stored] ELSE pool
           /\ call' = [d \in Calls |->
                         IF Joins(d)
                         THEN [At(d, "loaded") EXCEPT
                                 !.source = IF call[d].kind = "inspect" THEN stored ELSE NoSource]
                         ELSE call[d]]
           /\ UNCHANGED trouble
  <2>1. /\ call' \in [Calls -> CallRecords]
        /\ \A d \in Calls :
              /\ call'[d].entry = call[d].entry /\ call'[d].kind = call[d].kind
              /\ call'[d].pc = IF Joins(d) THEN "loaded" ELSE call[d].pc
    <3>1. ASSUME NEW d \in Calls
          PROVE  /\ call'[d] \in CallRecords
                 /\ call'[d].entry = call[d].entry /\ call'[d].kind = call[d].kind
                 /\ call'[d].pc = IF Joins(d) THEN "loaded" ELSE call[d].pc
      <4>1. call[d] \in CallRecords /\ stored \in Logs
        BY <1>1 DEF Typed
      <4>2. At(d, "loaded") \in CallRecords /\ At(d, "loaded").pc = "loaded"
            /\ At(d, "loaded").kind = call[d].kind /\ At(d, "loaded").entry = call[d].entry
        BY <1>1, AtTyped DEF Places
      <4> QED BY <4>1, <4>2, <1>8 DEF CallRecords
    <3>2. call' = [d \in Calls |-> call'[d]]
      BY <1>8
    <3> QED BY <3>1, <3>2
  <2>2. /\ pool' \in Pools
        /\ \/ pool.entry # e /\ pool' = pool
           \/ /\ pool.entry = e /\ pool'.entry = e /\ pool'.phase = "ready"
              /\ pool'.source = stored /\ stored \in Logs /\ pool' # NoPool
    BY <1>1, <1>4, <1>8 DEF Typed, Pools, NoPool
  <2> HIDE DEF Joins
  <2>3. \A d \in Calls : call'[d].pc \notin {"loading", "loaded"} => call'[d].pc = call[d].pc
    BY <2>1
  <2>4. \A d \in Calls : call[d].pc # "loading" => call'[d].pc = call[d].pc
    BY <2>1 DEF Joins
  <2>5. Typed'
    BY <1>1, <1>3, <1>5, <1>8, <2>1, <2>2 DEF Typed, Became
  <2>6. Serial'
    <3>1. \A i \in 1..Len(chain) : chain[i].kind \in Leaving => call'[chain[i].call].pc = "retiring"
      BY <1>1, <2>4 DEF Serial, WellFormed, Leaving
    <3> QED BY <3>1, <1>1, <1>2, <1>3, SerialStep
  <2>7. Once'
    BY <1>1, <1>2, <1>3, OnceStep
  <2>8. PoolFollowsChain'
    <3>1. CASE pool.entry # e
      <4>1. pool.phase = "loading" => \E i \in 1..Len(chain') : Loads(chain'[i], pool.entry)
        BY <3>1, <1>1, <1>3, StillLoads DEF PoolFollowsChain, Loads
      <4>2. pool.phase \in Settled => \A i \in 1..Len(chain') : ~Loads(chain'[i], pool.entry)
        <5>1. \A op \in new : ~Loads(op, pool.entry)
          BY <1>2
        <5> QED BY <5>1, <1>1, <1>3, NotLoaded DEF PoolFollowsChain
      <4> QED BY <3>1, <4>1, <4>2, <1>1, <2>2 DEF PoolFollowsChain, Loads
    <3>2. CASE pool.entry = e
      <4>1. \A i \in 1..Len(chain') : ~Loads(chain'[i], e)
        <5>1. \A op \in new : ~Loads(op, e)
          BY <1>2
        <5> QED BY <5>1, <1>1, <1>3, <1>7, NotLoaded
      <4> QED BY <3>2, <4>1, <1>4, <2>2 DEF PoolFollowsChain, Loads
    <3> QED BY <3>1, <3>2
  <2>9. CommitsFollowPool'
    <3>1. \A i \in 1..Len(chain) : chain[i].kind = "commit" =>
            /\ call'[chain[i].call].pc = call[chain[i].call].pc
            /\ call'[chain[i].call].entry = call[chain[i].call].entry
      BY <1>1, <2>1, <2>4 DEF Serial, WellFormed, CommitsFollowPool
    <3>2. pool.entry = e => \A i \in 1..Len(chain) : i > 1 => ~WillCommit(chain[i])
      BY <3>1, <1>1, <1>3, <1>4, <1>6 DEF CommitsFollowPool, WillCommit, Commits
    <3> QED BY <3>1, <3>2, <1>1, <1>2, <1>3, <2>2, CommitsStep DEF Settled
  <2>10. Held'
    <3>1. \A d \in Calls : call'[d].pc \in Claiming <=> call[d].pc \in Claiming
      BY <2>1 DEF Claiming, Joins
    <3>2. \A d \in Calls : call[d].pc \in Claiming => call'[d].pc = call[d].pc
      BY <2>4 DEF Claiming
    <3>3. pool.entry = e => \A d \in Calls : call[d].pc \in Claiming => call[d].entry # e
      BY <1>1, <1>6 DEF Held, Claims
    <3>4. \A d \in Calls : Claims(d)' <=> Claims(d)
      BY <3>1, <2>1, <2>2 DEF Claims
    <3> QED BY <3>1, <3>2, <3>3, <3>4, <1>1, <2>1, <2>2 DEF Held
  <2>11. Joined'
    <3> SUFFICES ASSUME NEW d \in Calls PROVE JoinedAt(d)'
      BY DEF Joined
    <3>1. JoinedAt(d)
      BY <1>1 DEF Joined
    <3>2. call'[d].pc = "loading" => \E i \in 1..Len(chain') : Loads(chain'[i], call'[d].entry)
      <4> SUFFICES ASSUME call'[d].pc = "loading"
                   PROVE  \E i \in 1..Len(chain') : Loads(chain'[i], call'[d].entry)
        OBVIOUS
      <4>1. call[d].pc = "loading" /\ ~Joins(d)
        BY <2>1
      <4>2. call'[d].entry # e /\ \E i \in 1..Len(chain) : Loads(chain[i], call'[d].entry)
        BY <3>1, <4>1, <2>1 DEF Joins, JoinedAt
      <4> QED BY <4>2, <1>1, <1>3, StillLoads DEF Loads
    <3> QED BY <3>1, <3>2, <1>4, <1>6, <2>1, <2>2 DEF JoinedAt, Joins, Loads
  <2>12. Committed'
    <3>1. \A d \in Calls : call'[d].pc \in {"committed", "holding"} => call[d].pc = call'[d].pc
      BY <2>3
    <3>2. pool.entry = e => \A d \in Calls : call[d].pc \in {"committed", "holding"} => call[d].entry # e
      BY <1>1, <1>6 DEF Held, Claiming
    <3> QED BY <3>1, <3>2, <1>1, <1>5, <2>1, <2>2 DEF Committed, Length
  <2>13. UnderWay'
    <3>1. \A i \in 1..Len(chain') : chain'[i].at = "queued"
      BY <1>1, <1>2, <1>3, AllQueued
    <3> QED BY <3>1 DEF UnderWay, Started
  <2>14. LiveOwns'
    BY <1>1, <1>4, <1>5, <2>2, <2>3, <2>4 DEF LiveOwns, NoPool
  <2> QED BY <2>5, <2>6, <2>7, <2>8, <2>9, <2>10, <2>11, <2>12, <2>13, <2>14 DEF PoolInv
<1>9. CASE Fails /\ Remove(e, [d \in Calls |-> IF Joins(d) THEN Out("done") ELSE call[d]])
  <2> DEFINE calls == [d \in Calls |-> IF Joins(d) THEN Out("done") ELSE call[d]]
  <2>1. /\ calls \in [Calls -> CallRecords]
        /\ \A d \in Calls : calls[d] = IF Joins(d) THEN Out("done") ELSE call[d]
    BY <1>1, OutTyped DEF Typed
  <2> HIDE DEF calls, Joins
  <2>2. /\ pool' \in Pools /\ call' \in [Calls -> CallRecords]
        /\ \A d \in Calls :
              \/ call'[d] = calls[d]
              \/ /\ calls[d].pc = "waiting" /\ call'[d].pc = "loaded"
                 /\ call'[d].entry = calls[d].entry /\ call'[d].kind = calls[d].kind
        /\ \/ pool.entry # e /\ pool' = pool
           \/ pool.entry = e /\ pool' = NoPool
    BY <1>1, <1>9, <2>1, RemoveEffect DEF calls
  <2>3. trouble' \in 0..MaxTrouble
    BY <1>1, <1>9 DEF Fails, Typed
  <2>4. Typed'
    BY <1>1, <1>3, <1>5, <2>2, <2>3 DEF Typed, Became
  <2>5. \A d \in Calls : Joins(d) => Leaves(d, 1)
    <3> SUFFICES ASSUME NEW d \in Calls, Joins(d) PROVE Leaves(d, 1)
      OBVIOUS
    <3>1. call'[d] = Out("done")
      BY <2>1, <2>2, OutTyped, <1>1
    <3>2. JoinedAt(d)'
      BY <3>1, <1>1, OutTyped, Unjoined
    <3> QED BY <3>1, <3>2, <1>1, OutTyped DEF Leaves, Joins, Claiming
  <2>6. \A d \in Calls : ~Joins(d) => Stays(d) \/ Freed(d)
    BY <2>1, <2>2 DEF Stays, Freed
  <2>7. \A d \in Calls : call[d].pc # "loading" => ~Joins(d)
    BY DEF Joins
  <2>8. \/ pool' = pool /\ \A d \in Calls : Claims(d) => Stays(d)
        \/ PoolFreed /\ \A d \in Calls : /\ Claims(d) => Leaves(d, 1)
                                         /\ call[d].pc = "waiting" => ~Stays(d)
    <3>1. CASE pool.entry # e
      BY <3>1, <2>2, <2>6, <2>7 DEF Claims, Claiming, Freed
    <3>2. CASE pool.entry = e
      <4>1. \A d \in Calls : ~Claims(d) /\ call[d].pc # "waiting"
        BY <3>2, <1>1, <1>6 DEF Held, Claims, Joined, JoinedAt
      <4> QED BY <3>2, <4>1, <2>2 DEF PoolFreed
    <3> QED BY <3>1, <3>2
  <2>9. /\ Loads(chain[1], pool.entry) => PoolFreed
        /\ \A d \in Calls : call[d].pc = "loading" /\ Loads(chain[1], call[d].entry) => Leaves(d, 1)
    BY <1>4, <2>2, <2>5 DEF Loads, PoolFreed, Joins
  <2>10. live # NoCall => tracked' # Untracked /\ tracked'.owner = live
    BY <1>1, <1>5 DEF LiveOwns
  <2>11. \A d \in Calls : Stays(d) \/ Freed(d) \/ Leaves(d, 1)
    BY <2>5, <2>6
  <2> QED BY <1>3, <1>5, <2>4, <2>8, <2>9, <2>10, <2>11, GivesUp
<1> QED BY <1>3, <1>8, <1>9 DEF LoadRuns

\* A call takes a ready entry to itself.
LEMMA TakesEntry ==
    ASSUME PoolInv, NEW c \in Calls,
           call[c].pc = "loaded", call[c].kind \in {"prepare", "load"},
           pool.entry = call[c].entry, pool.phase = "ready",
           pool' = [pool EXCEPT !.phase = "committing"],
           NEW pc \in {"threw", "committing"}, call' = Put(c, At(c, pc)),
           NEW new, Became(0, new), Keeps(0), chain # <<>> => chain'[1] = chain[1],
           \A op \in new : /\ op.kind = "commit" /\ op.call = c /\ op.entry = call[c].entry
                           /\ op.source = pool.source /\ op.at = "queued" /\ pc = "committing",
           UNCHANGED <<state, trouble>>
    PROVE  PoolInv'
<1> USE PreparationsAssumption
<1> DEFINE r == At(c, pc)
<1>1. /\ Typed /\ Serial /\ Once /\ PoolFollowsChain /\ CommitsFollowPool /\ Held
      /\ Joined /\ Committed /\ UnderWay /\ LiveOwns
  BY DEF PoolInv
<1>2. r \in CallRecords /\ r.pc = pc /\ r.kind = call[c].kind /\ r.entry = call[c].entry
  BY <1>1, AtTyped DEF Places
<1> HIDE DEF r
<1>3. /\ call' \in [Calls -> CallRecords] /\ call'[c] = r
      /\ \A d \in Calls : d # c => call'[d] = call[d]
  BY <1>1, <1>2, PutCall DEF r
<1>4. /\ pool' \in Pools /\ pool'.phase = "committing" /\ pool'.entry = pool.entry
      /\ pool'.source = pool.source /\ pool' # NoPool /\ pool # NoPool
  BY <1>1 DEF Typed, Pools, NoPool
<1>5. stored' = stored /\ tracked' = tracked /\ live' = live /\ retiring' = retiring
  BY DEF state
<1>6. \A d \in Calls : call'[d].entry = call[d].entry /\ call'[d].kind = call[d].kind
  BY <1>2, <1>3
<1>7. \A d \in Calls : ~Claims(d)
  BY <1>1 DEF Held, Claims
<1>8. call[c].entry \in Entries /\ pool.source \in Logs
  BY <1>1 DEF Joined, JoinedAt, PoolFollowsChain, Settled
<1>9. \A i \in 1..Len(chain) : chain[i].kind \in Leaving \cup {"commit"} =>
        chain[i].call \in Calls \ {c}
  BY <1>1 DEF Serial, WellFormed, CommitsFollowPool, Leaving
<1>10. Typed'
  BY <1>1, <1>3, <1>4, <1>5 DEF Typed, Became
<1>11. Serial'
  <2>1. \A i \in 1..Len(chain) : chain[i].kind \in Leaving => call'[chain[i].call].pc = "retiring"
    BY <1>1, <1>3, <1>9 DEF Serial
  <2>2. chain # <<>> => WellFormed(chain'[1])
    BY <1>1 DEF Serial, Typed
  <2>3. \A op \in new : /\ op.at = "queued" /\ WellFormed(op)
                        /\ op.kind \in Leaving => call'[op.call].pc = "retiring"
    BY DEF WellFormed, Started, Leaving
  <2> QED BY <2>1, <2>2, <2>3, <1>1, SerialStep
<1>12. Once'
  <2>1. \A op \in new : \A i \in 1..Len(chain) : ~Twice(op, chain[i])
    BY <1>9 DEF Twice, Leaving
  <2> QED BY <2>1, <1>1, OnceStep
<1>13. PoolFollowsChain'
  <2>1. \A op \in new : ~Loads(op, pool.entry)
    BY DEF Loads
  <2>2. \A i \in 1..Len(chain) : ~Loads(chain[i], pool.entry)
    BY <1>1 DEF PoolFollowsChain, Settled
  <2>3. \A i \in 1..Len(chain') : ~Loads(chain'[i], pool.entry)
    BY <2>1, <2>2, <1>1, NotLoaded
  <2> QED BY <2>3, <1>4, <1>8 DEF PoolFollowsChain, Loads
<1>14. CommitsFollowPool'
  <2>1. \A i \in 1..Len(chain) : chain[i].kind = "commit" =>
          /\ call'[chain[i].call].pc = call[chain[i].call].pc
          /\ call'[chain[i].call].entry = call[chain[i].call].entry
    BY <1>3, <1>9
  <2>2. \A op \in new : /\ call'[op.call].pc = "committing" /\ call'[op.call].entry = op.entry
                        /\ op.source \in Logs /\ pool'.phase = "committing"
                        /\ op.entry = pool'.entry /\ op.source = pool'.source
    BY <1>2, <1>3, <1>4, <1>8
  <2> QED BY <2>1, <2>2, <1>1, <1>4, CommitsStep DEF Settled
<1>15. Held'
  <2>1. \A d \in Calls : d # c => (call'[d].pc \in Claiming <=> call[d].pc \in Claiming)
    BY <1>3
  <2>2. \A d \in Calls : Claims(d)' <=> d = c
    BY <2>1, <1>2, <1>3, <1>4, <1>7 DEF Claims, Claiming
  <2>3. ASSUME NEW d \in Calls, call'[d].pc \in Claiming
        PROVE  /\ call'[d].entry \in Entries /\ call'[d].kind \in {"prepare", "load"}
               /\ call'[d].pc # "holding"
    BY <2>3, <1>1, <1>2, <1>3, <1>8 DEF Held, Claiming
  <2> QED BY <2>2, <2>3, <1>4 DEF Held
<1>16. Joined'
  <2> SUFFICES ASSUME NEW d \in Calls PROVE JoinedAt(d)'
    BY DEF Joined
  <2>1. CASE d = c
    BY <2>1, <1>2, <1>3 DEF JoinedAt
  <2>2. CASE d # c
    <3>1. call'[d] = call[d] /\ JoinedAt(d)
      BY <2>2, <1>1, <1>3 DEF Joined
    <3>2. call[d].pc = "loading" => \E i \in 1..Len(chain') : Loads(chain'[i], call[d].entry)
      <4> SUFFICES ASSUME call[d].pc = "loading"
                   PROVE  \E i \in 1..Len(chain') : Loads(chain'[i], call[d].entry)
        OBVIOUS
      <4>1. \E i \in 1..Len(chain) : Loads(chain[i], call[d].entry)
        BY <3>1 DEF JoinedAt
      <4>2. Typed /\ 0 # 1
        BY <1>1
      <4> QED BY <4>1, <4>2, StillLoads
    <3> QED BY <3>1, <3>2, <1>4 DEF JoinedAt, Loads
  <2> QED BY <2>1, <2>2
<1>17. Committed'
  BY <1>1, <1>2, <1>3, <1>4, <1>5, <1>7 DEF Committed, Claims, Claiming
<1>18. UnderWay'
  <2> SUFFICES ASSUME NEW i \in 1..Len(chain'), chain'[i].at # "queued"
      PROVE  /\ chain'[i].at = "started" =>
                   /\ call'[chain'[i].call].pc = "committing"
                   /\ tracked' = Untracked \/ tracked'.owner = NoCall
             /\ chain'[i].at \in {"adopt", "adopted"} => tracked' = Untracked
             /\ chain'[i].at = "write" => tracked' # Untracked
             /\ Started(chain'[i]) => \A d \in Calls :
                   call'[d].pc \in {"committed", "holding"} => call'[d].entry # pool'.entry
    BY DEF UnderWay, Started
  <2>1. i = 1 /\ 1 \in 1..Len(chain) /\ chain'[1] = chain[1]
    BY <1>1, <1>11 DEF Serial, Became, Typed
  <2>2. chain[1].at = "started" =>
          call[chain[1].call].pc = "committing" /\ chain[1].call \in Calls \ {c}
    BY <2>1, <1>1, <1>9 DEF UnderWay, Serial, WellFormed
  <2>3. \A d \in Calls : call'[d].pc \in {"committed", "holding"} =>
          call[d].pc = call'[d].pc
    BY <1>2, <1>3
  <2> QED BY <2>1, <2>2, <2>3, <1>1, <1>3, <1>4, <1>5, <1>6 DEF UnderWay
<1>19. LiveOwns'
  BY <1>1, <1>2, <1>3, <1>4, <1>5 DEF LiveOwns
<1> QED BY <1>10, <1>11, <1>12, <1>13, <1>14, <1>15, <1>16, <1>17, <1>18, <1>19 DEF PoolInv

\* A reservation that looks at its entry again keeps it.
LEMMA ReserveLooksKeeps ==
    ASSUME PoolInv, NEW c \in Calls, ReserveLooks(c)
    PROVE  PoolInv'
<1> USE PreparationsAssumption
<1> DEFINE e == call[c].entry
<1>1. /\ Typed /\ JoinedAt(c) /\ PoolFollowsChain /\ call[c].pc = "loaded"
      /\ call[c].kind \in {"prepare", "load"} /\ UNCHANGED <<state, trouble>> /\ ~Claims(c)
  BY DEF PoolInv, Joined, ReserveLooks, Claims, Claiming
<1>2. CASE /\ pool.entry # e /\ call' = Put(c, LoopTop(c)) /\ UNCHANGED <<pool, chain>>
  <2>1. /\ LoopTop(c) \in CallRecords /\ LoopTop(c).pc \in {"gap", "parked", "done"}
        /\ LoopTop(c).kind # "append"
    BY <1>1, LoopTopTyped
  <2>2. /\ call' \in [Calls -> CallRecords] /\ call'[c] = LoopTop(c)
        /\ \A d \in Calls : d # c => Stays(d)
    BY <2>1, <1>1, <1>2, PutCall
  <2>3. Typed'
    BY <1>1, <1>2, <2>2 DEF Typed, state
  <2>4. Leaves(c, 0)
    <3>1. JoinedAt(c)'
      BY <2>1, <2>2, Unjoined
    <3> QED BY <3>1, <2>1, <2>2, <1>1 DEF Leaves, Claiming
  <2> QED BY <2>2, <2>3, <2>4, <1>1, <1>2, OneLeaves DEF state
<1>3. CASE /\ pool.entry = e /\ pool.phase # "ready"
           /\ call' = Put(c, At(c, "waiting")) /\ UNCHANGED <<pool, chain>>
  <2> DEFINE r == At(c, "waiting")
  <2>1. r \in CallRecords /\ r.pc = "waiting" /\ r.kind = call[c].kind /\ r.entry = e
    BY <1>1, AtTyped DEF Places
  <2> HIDE DEF r
  <2>2. /\ call' \in [Calls -> CallRecords] /\ call'[c] = r
        /\ \A d \in Calls : d # c => Stays(d)
    BY <2>1, <1>1, <1>3, PutCall DEF r
  <2>3. Typed'
    BY <1>1, <1>3, <2>2 DEF Typed, state
  <2>4. pool.phase \in {"committing", "reserved"}
    BY <1>1, <1>3 DEF JoinedAt, PoolFollowsChain, NoPool, Typed, Pools
  <2>5. Leaves(c, 0)
    <3>1. JoinedAt(c)'
      BY <1>1, <1>3, <2>1, <2>2, <2>4 DEF JoinedAt
    <3> QED BY <3>1, <2>1, <2>2, <1>1 DEF Leaves, Claiming
  <2> QED BY <2>2, <2>3, <2>5, <1>1, <1>3, OneLeaves DEF state
<1>4. CASE /\ pool.entry = e /\ pool.phase = "ready"
           /\ pool' = [pool EXCEPT !.phase = "committing"]
           /\ call' = Put(c, At(c, "threw")) /\ UNCHANGED chain
  <2>1. PICK new : new = {}
    OBVIOUS
  <2>2. Became(0, new) /\ Keeps(0) /\ \A op \in new : FALSE
    BY <1>1, <1>4, <2>1, ChainSame
  <2> QED BY <2>2, <1>1, <1>4, TakesEntry
<1>5. CASE /\ pool.entry = e /\ pool.phase = "ready"
           /\ pool' = [pool EXCEPT !.phase = "committing"]
           /\ call' = Put(c, At(c, "committing"))
           /\ chain' = Append(chain, Op("commit", c, e, pool.source))
  <2> DEFINE o == Op("commit", c, e, pool.source)
  <2>1. /\ o \in Ops /\ o.kind = "commit" /\ o.call = c /\ o.entry = e
        /\ o.source = pool.source /\ o.at = "queued"
    BY <1>1 DEF Op, Ops, Typed, Pools, CallRecords
  <2> HIDE DEF o
  <2>2. PICK new : new = {o}
    OBVIOUS
  <2>3. Became(0, new) /\ Keeps(0) /\ (chain # <<>> => chain'[1] = chain[1])
    BY <1>1, <1>5, <2>1, <2>2, ChainAppend DEF o
  <2>4. \A op \in new : /\ op.kind = "commit" /\ op.call = c /\ op.entry = e
                        /\ op.source = pool.source /\ op.at = "queued"
    BY <2>1, <2>2
  <2> QED BY <2>3, <2>4, <1>1, <1>5, TakesEntry
<1> QED BY <1>2, <1>3, <1>4, <1>5 DEF ReserveLooks

\* A call that waits for the entry of another, or for nothing, goes on without it,
\* and the chain loses its front or gains a check or an append.
LEMMA OneGoesOn ==
    ASSUME PoolInv, NEW c \in Calls, NEW r \in CallRecords, call' = Put(c, r),
           call[c].pc \in {"idle", "loaded", "checking", "appending"},
           r.pc \in {"done", "stale", "checking", "appending"},
           r.kind = "append" => r.pc = "appending",
           NEW k \in {0, 1}, NEW new, Became(k, new), Keeps(k), \A op \in new : Benign(op, k),
           k = 0 /\ chain # <<>> => chain'[1] = chain[1],
           k = 1 => chain[1].kind # "load",
           UNCHANGED <<state, pool>>, trouble' \in 0..MaxTrouble
    PROVE  PoolInv'
<1>1. Typed /\ LiveOwns
  BY DEF PoolInv
<1>2. /\ call' \in [Calls -> CallRecords] /\ call'[c] = r
      /\ \A d \in Calls : d # c => Stays(d)
  BY <1>1, PutCall
<1>3. Typed'
  BY <1>1, <1>2 DEF Typed, state, Became
<1>4. Leaves(c, k) /\ ~Claims(c)
  <2>1. JoinedAt(c)'
    BY <1>2 DEF JoinedAt
  <2> QED BY <2>1, <1>2 DEF Leaves, Claims, Claiming
<1>5. live # NoCall => tracked' # Untracked /\ tracked'.owner = live
  BY <1>1 DEF LiveOwns, state
<1>6. k = 1 => /\ Loads(chain[1], pool.entry) => PoolFreed
               /\ \A d \in Calls : call[d].pc = "loading" /\ Loads(chain[1], call[d].entry)
                                     => Leaves(d, k)
  BY DEF Loads
<1>7. pool' = pool /\ \A d \in Calls : Claims(d) => Stays(d)
  BY <1>2, <1>4
<1>8. live' = live /\ tracked' = tracked /\ stored' = stored
  BY DEF state
<1>9. \A d \in Calls : Stays(d) \/ Leaves(d, k)
  BY <1>2, <1>4
<1>10. k = 0 /\ chain # <<>> => chain'[1].at = chain[1].at
  OBVIOUS
<1> QED BY <1>3, <1>5, <1>6, <1>7, <1>8, <1>9, <1>10, GivesUp

\* The same with every call where it was.
LEMMA ChainGoesOn ==
    ASSUME PoolInv, call' = call,
           NEW k \in {0, 1}, NEW new, Became(k, new), Keeps(k), \A op \in new : Benign(op, k),
           k = 0 /\ chain # <<>> => chain'[1] = chain[1],
           k = 1 => chain[1].kind # "load",
           UNCHANGED <<tracked, live, retiring, pool>>, stored' \in Logs, stored'.own = stored.own,
           trouble' \in 0..MaxTrouble
    PROVE  PoolInv'
<1>1. Typed /\ LiveOwns
  BY DEF PoolInv
<1>2. Typed'
  BY <1>1 DEF Typed, Became
<1>3. \A d \in Calls : Stays(d)
  BY DEF Stays
<1>4. live # NoCall => tracked' # Untracked /\ tracked'.owner = live
  BY <1>1 DEF LiveOwns
<1>5. k = 1 => /\ Loads(chain[1], pool.entry) => PoolFreed
               /\ \A d \in Calls : call[d].pc = "loading" /\ Loads(chain[1], call[d].entry)
                                     => Leaves(d, k)
  BY DEF Loads
<1>6. k = 0 /\ chain # <<>> => chain'[1].at = chain[1].at
  OBVIOUS
<1> QED BY <1>2, <1>3, <1>4, <1>5, <1>6, GivesUp

\* A write by another process keeps it.
LEMMA ForeignWriteKeeps ==
    ASSUME PoolInv, ForeignWrite
    PROVE  PoolInv'
<1>1. Typed
  BY DEF PoolInv
<1>2. PICK open \in BOOLEAN : stored' = [stored EXCEPT !.foreign = @ + 1, !.open = open]
  BY DEF ForeignWrite
<1>3. stored' \in Logs /\ stored'.own = stored.own
  <2>1. stored \in Logs
    BY <1>1 DEF Typed
  <2>2. stored' = [own |-> stored.own, foreign |-> stored.foreign + 1, open |-> open]
    BY <1>2, <2>1 DEF Logs
  <2>3. stored.own \in Nat /\ stored.foreign + 1 \in Nat
    BY <2>1 DEF Logs
  <2> QED BY <2>2, <2>3 DEF Logs
<1>4. trouble' \in 0..MaxTrouble
  BY <1>1, PreparationsAssumption DEF ForeignWrite, Fails, Typed
<1>5. PICK new : new = {}
  OBVIOUS
<1>6. Became(0, new) /\ Keeps(0) /\ chain' = chain /\ \A op \in new : Benign(op, 0)
  BY <1>1, <1>5, ChainSame DEF ForeignWrite
<1> QED BY <1>3, <1>4, <1>6, ChainGoesOn DEF ForeignWrite

\* A live session that begins to write keeps it.
LEMMA LiveWriteKeeps ==
    ASSUME PoolInv, NEW c \in Calls, LiveWrite(c)
    PROVE  PoolInv'
<1> DEFINE o == Op("append", c, NoEntry, NoSource)
<1>1. Typed
  BY DEF PoolInv
<1>2. o \in Ops /\ o.kind = "append" /\ o.call = c /\ o.at = "queued"
  BY DEF Op, Ops
<1> HIDE DEF o
<1>3. PICK new : new = {o}
  OBVIOUS
<1>4. Became(0, new) /\ Keeps(0) /\ (chain # <<>> => chain'[1] = chain[1])
  BY <1>1, <1>2, <1>3, ChainAppend DEF LiveWrite, o
<1>5. \A op \in new : Benign(op, 0)
  BY <1>2, <1>3 DEF Benign
<1> QED BY <1>1, <1>4, <1>5, ChainGoesOn DEF LiveWrite, state, Typed

\* An append that begins keeps it.
LEMMA BeginAppendKeeps ==
    ASSUME PoolInv, NEW c \in Calls, BeginAppend(c)
    PROVE  PoolInv'
<1> DEFINE o == Op("append", c, NoEntry, NoSource)
           r == [Out("appending") EXCEPT !.kind = "append"]
<1>1. Typed
  BY DEF PoolInv
<1>2. o \in Ops /\ o.kind = "append" /\ o.call = c /\ o.at = "queued"
  BY DEF Op, Ops
<1>3. r \in CallRecords /\ r.pc = "appending" /\ r.entry = NoEntry
  BY DEF Out, CallRecords, Places
<1> HIDE DEF o, r
<1>4. PICK new : new = {o}
  OBVIOUS
<1>5. Became(0, new) /\ Keeps(0) /\ (chain # <<>> => chain'[1] = chain[1])
  BY <1>1, <1>2, <1>4, ChainAppend DEF BeginAppend, o
<1>6. \A op \in new : Benign(op, 0)
  BY <1>2, <1>4 DEF Benign
<1>7. call[c].pc = "idle" /\ call' = Put(c, r)
  BY DEF BeginAppend, r
<1>8. UNCHANGED <<state, pool>> /\ trouble' \in 0..MaxTrouble
  BY <1>1 DEF BeginAppend, Typed
<1> QED BY <1>3, <1>5, <1>6, <1>7, <1>8, OneGoesOn

\* An inspection that has its source keeps it.
LEMMA InspectLooksKeeps ==
    ASSUME PoolInv, NEW c \in Calls, InspectLooks(c)
    PROVE  PoolInv'
<1>1. Typed /\ call[c].pc = "loaded" /\ call[c].kind = "inspect" /\ UNCHANGED <<state, pool, trouble>>
  BY DEF PoolInv, InspectLooks
<1>2. CASE call' = Put(c, Out("done")) /\ UNCHANGED chain
  <2>1. PICK new : new = {}
    OBVIOUS
  <2>2. Became(0, new) /\ Keeps(0) /\ \A op \in new : Benign(op, 0)
    BY <1>1, <1>2, <2>1, ChainSame
  <2> QED BY <2>2, <1>1, <1>2, OutTyped, OneGoesOn DEF Typed
<1>3. CASE /\ call' = Put(c, At(c, "checking"))
           /\ chain' = Append(chain, Op("check", c, NoEntry, call[c].source))
  <2> DEFINE o == Op("check", c, NoEntry, call[c].source)
             r == At(c, "checking")
  <2>1. o \in Ops /\ o.kind = "check" /\ o.call = c /\ o.at = "queued"
    BY <1>1 DEF Op, Ops, Typed, CallRecords
  <2>2. r \in CallRecords /\ r.pc = "checking" /\ r.kind = "inspect"
    BY <1>1, AtTyped DEF Places
  <2> HIDE DEF o, r
  <2>3. PICK new : new = {o}
    OBVIOUS
  <2>4. Became(0, new) /\ Keeps(0) /\ (chain # <<>> => chain'[1] = chain[1])
    BY <1>1, <1>3, <2>1, <2>3, ChainAppend DEF o
  <2>5. \A op \in new : Benign(op, 0)
    BY <2>1, <2>3 DEF Benign
  <2>6. call' = Put(c, r)
    BY <1>3 DEF r
  <2>7. UNCHANGED <<state, pool>> /\ trouble' \in 0..MaxTrouble
    BY <1>1 DEF Typed
  <2>8. r.pc \in {"done", "stale", "checking", "appending"} /\ r.kind # "append"
    BY <2>2
  <2>9. call[c].pc \in {"idle", "loaded", "checking", "appending"}
    BY <1>1
  <2> QED BY <2>2, <2>4, <2>5, <2>6, <2>7, <2>8, <2>9, OneGoesOn
<1> QED BY <1>2, <1>3 DEF InspectLooks

\* A revision check that runs keeps it.
LEMMA CheckRunsKeeps ==
    ASSUME PoolInv, CheckRuns
    PROVE  PoolInv'
<1> DEFINE c == chain[1].call
<1>1. Typed /\ Serial /\ UNCHANGED <<state, pool>>
  BY DEF PoolInv, CheckRuns
<1>2. PICK new : new = {}
  OBVIOUS
<1>3. /\ Became(1, new) /\ Keeps(1) /\ Head(chain) = chain[1] /\ 1 \in 1..Len(chain)
      /\ \A op \in new : Benign(op, 1)
  BY <1>1, <1>2, ChainTail DEF CheckRuns, Head1
<1>4. chain[1].kind = "check" /\ c \in Calls
  BY <1>1, <1>3 DEF CheckRuns, Head1, Serial, WellFormed
<1>5. CASE UNCHANGED <<call, trouble>>
  BY <1>1, <1>3, <1>4, <1>5, ChainGoesOn DEF Typed, state
<1>6. CASE call[c].pc = "checking" /\ Fails /\ call' = Put(c, Out("done"))
  <2>1. trouble' \in 0..MaxTrouble
    BY <1>1, <1>6, PreparationsAssumption DEF Fails, Typed
  <2> QED BY <2>1, <1>1, <1>3, <1>4, <1>6, OutTyped, OneGoesOn
<1>7. CASE /\ call[c].pc = "checking" /\ UNCHANGED trouble
           /\ call' = Put(c, IF live # NoCall \/ Head(chain).source = stored
                             THEN Out("done") ELSE At(c, "stale"))
  <2> DEFINE r == IF live # NoCall \/ Head(chain).source = stored
                  THEN Out("done") ELSE At(c, "stale")
  <2>1. r \in CallRecords /\ r.pc \in {"done", "stale"} /\ r.kind \in {"none", call[c].kind}
    BY <1>1, <1>4, AtTyped, OutTyped DEF Places
  <2>2. call[c].kind # "append"
    BY <1>4, <1>7 DEF PoolInv, Joined, JoinedAt
  <2> HIDE DEF r
  <2>3. call' = Put(c, r)
    BY <1>7 DEF r
  <2>4. trouble' \in 0..MaxTrouble
    BY <1>1, <1>7 DEF Typed
  <2>5. r.kind # "append"
    BY <2>1, <2>2
  <2>6. r.pc \in {"done", "stale", "checking", "appending"}
    BY <2>1
  <2>7. call[c].pc \in {"idle", "loaded", "checking", "appending"} /\ chain[1].kind # "load"
    BY <1>4, <1>7
  <2> QED BY <2>1, <2>3, <2>4, <2>5, <2>6, <2>7, <1>1, <1>3, <1>4, OneGoesOn
<1> QED BY <1>3, <1>5, <1>6, <1>7 DEF CheckRuns

\* A ready entry, which nobody has or waits for, may go at any time.
LEMMA ReadyDropped ==
    ASSUME PoolInv, Typed', UNCHANGED <<stored, tracked, live>>,
           pool' = pool \/ (pool.phase = "ready" /\ pool' = NoPool),
           \A d \in Calls : Stays(d) \/ (Leaves(d, 0) /\ ~Claims(d)),
           Became(0, {}), Keeps(0),
           chain # <<>> => chain'[1].at = chain[1].at \/ Writes(chain[1])
    PROVE  PoolInv'
<1>1. Typed /\ LiveOwns /\ Held /\ Joined
  BY DEF PoolInv
<1>2. PICK new : new = {}
  OBVIOUS
<1>3. Became(0, new) /\ \A op \in new : Benign(op, 0)
  BY <1>2
<1>4. \/ pool' = pool /\ \A d \in Calls : Claims(d) => Stays(d)
      \/ PoolFreed /\ \A d \in Calls : /\ Claims(d) => Leaves(d, 0)
                                       /\ call[d].pc = "waiting" => ~Stays(d)
  <2>1. CASE pool.phase = "ready" /\ pool' = NoPool
    <3>1. \A d \in Calls : ~Claims(d) /\ call[d].pc # "waiting"
      BY <2>1, <1>1 DEF Held, Claims, Joined, JoinedAt
    <3> QED BY <2>1, <3>1 DEF PoolFreed
  <2> QED BY <2>1
<1>5. live # NoCall => tracked' # Untracked /\ tracked'.owner = live
  BY <1>1 DEF LiveOwns
<1>6. \A d \in Calls : Stays(d) \/ Freed(d) \/ Leaves(d, 0)
  OBVIOUS
<1> QED BY <1>3, <1>4, <1>5, <1>6, GivesUp

\* An eviction keeps it.
LEMMA EvictKeeps ==
    ASSUME PoolInv, Evict
    PROVE  PoolInv'
<1>1. Typed
  BY DEF PoolInv
<1>2. Became(0, {}) /\ Keeps(0)
  BY <1>1, ChainSame DEF Evict
<1>3. NoPool \in Pools /\ trouble' \in 0..MaxTrouble
  BY <1>1, PreparationsAssumption DEF NoPool, Pools, Evict, Fails, Typed
<1>4. Typed'
  BY <1>1, <1>3 DEF Evict, state, Typed
<1>5. \A d \in Calls : Stays(d)
  BY DEF Evict, Stays
<1>6. /\ \A d \in Calls : Stays(d) \/ (Leaves(d, 0) /\ ~Claims(d))
      /\ chain # <<>> => chain'[1].at = chain[1].at
      /\ UNCHANGED <<stored, tracked, live>>
      /\ pool.phase = "ready" /\ pool' = NoPool
  BY <1>5 DEF Evict, state
<1> QED BY <1>2, <1>4, <1>6, ReadyDropped

\* The decision on a stale entry keeps it.
LEMMA StaleDecidesKeeps ==
    ASSUME PoolInv, NEW c \in Calls, StaleDecides(c)
    PROVE  PoolInv'
<1> DEFINE r == IF live # NoCall \/ (pool.entry = call[c].entry /\ pool.phase # "ready")
                THEN Out("done") ELSE LoopTop(c)
<1>1. Typed /\ call[c].pc = "stale" /\ call[c].kind # "append"
  BY DEF PoolInv, Joined, JoinedAt, StaleDecides
<1>2. /\ r \in CallRecords /\ r.pc \in {"gap", "parked", "done"} /\ r.kind # "append"
      /\ call' = Put(c, r)
  BY <1>1, OutTyped, LoopTopTyped DEF StaleDecides
<1> HIDE DEF r
<1>3. /\ call' \in [Calls -> CallRecords] /\ call'[c] = r
      /\ \A d \in Calls : d # c => Stays(d)
  BY <1>1, <1>2, PutCall
<1>4. pool' = pool \/ (pool.phase = "ready" /\ pool' = NoPool)
  <2>1. pool' = IF pool.entry = call[c].entry /\ pool.phase = "ready" THEN NoPool ELSE pool
    BY DEF StaleDecides
  <2> QED BY <2>1
<1>5. NoPool \in Pools
  BY DEF NoPool, Pools
<1>6. Typed'
  BY <1>1, <1>3, <1>4, <1>5 DEF StaleDecides, state, Typed
<1>7. Leaves(c, 0) /\ ~Claims(c)
  <2>1. JoinedAt(c)'
    BY <1>2, <1>3, Unjoined
  <2> QED BY <2>1, <1>1, <1>2, <1>3 DEF Leaves, Claims, Claiming
<1>8. Became(0, {}) /\ Keeps(0) /\ chain' = chain
  BY <1>1, ChainSame DEF StaleDecides
<1>9. /\ \A d \in Calls : Stays(d) \/ (Leaves(d, 0) /\ ~Claims(d))
      /\ chain # <<>> => chain'[1].at = chain[1].at
      /\ UNCHANGED <<stored, tracked, live>>
  BY <1>3, <1>7, <1>8 DEF StaleDecides, state
<1> QED BY <1>4, <1>6, <1>8, <1>9, ReadyDropped

\* A call is told to stop.
LEMMA AbortKeeps ==
    ASSUME PoolInv, NEW c \in Calls, Abort(c)
    PROVE  PoolInv'
<1> DEFINE begun == \E i \in 1..Len(chain) :
                       chain[i].kind = "commit" /\ chain[i].call = c /\ chain[i].at = "started"
<1>1. /\ Typed /\ Serial /\ LiveOwns /\ CommitsFollowPool /\ Joined
      /\ UNCHANGED <<stored, tracked, live, retiring, pool, chain, trouble>>
      /\ call[c].pc \notin {"threw", "holding", "live", "retiring", "done"}
      /\ call[c].kind # "append"
  BY DEF PoolInv, Abort, state
<1>2. CASE /\ call[c].pc \in {"gap", "parked", "loading", "waiting", "checking"}
           /\ call' = Put(c, Out("done"))
  <2>1. /\ call' \in [Calls -> CallRecords] /\ call'[c] = Out("done")
        /\ \A d \in Calls : d # c => Stays(d)
    BY <1>1, <1>2, OutTyped, PutCall
  <2>2. Typed'
    BY <1>1, <2>1 DEF Typed
  <2>3. Leaves(c, 0) /\ ~Claims(c)
    <3>1. JoinedAt(c)'
      BY <2>1, <1>1, OutTyped, Unjoined
    <3> QED BY <3>1, <2>1, <1>1, <1>2, OutTyped DEF Leaves, Claims, Claiming
  <2> QED BY <1>1, <2>1, <2>2, <2>3, OneLeaves
<1>3. CASE call[c].pc = "committing" /\ ~begun /\ call' = Put(c, At(c, "threw"))
  <2> DEFINE r == At(c, "threw")
  <2>1. r \in CallRecords /\ r.pc = "threw" /\ r.kind = call[c].kind /\ r.entry = call[c].entry
    BY <1>1, AtTyped DEF Places
  <2> HIDE DEF r
  <2>2. /\ call' \in [Calls -> CallRecords] /\ call'[c] = r
        /\ \A d \in Calls : d # c => Stays(d)
    BY <2>1, <1>1, <1>3, PutCall DEF r
  <2>3. Typed'
    BY <1>1, <2>2 DEF Typed
  <2>4. Became(0, {}) /\ Keeps(0)
    BY <1>1, ChainSame
  <2>5. \A i \in 1..Len(chain) : chain[i].kind = "commit" /\ chain[i].call = c =>
          chain[i].at = "queued"
    <3> SUFFICES ASSUME NEW i \in 1..Len(chain), chain[i].kind = "commit", chain[i].call = c
                 PROVE  chain[i].at = "queued"
      OBVIOUS
    <3>1. chain[i].at \in {"queued", "started", "adopt", "adopted", "write"}
      <4>1. chain \in Seq(Ops)
        BY <1>1 DEF Typed
      <4> HIDE DEF begun
      <4>2. chain[i] \in Ops
        BY <4>1
      <4> QED BY <4>2 DEF Ops
    <3> QED BY <3>1, <1>1, <1>3 DEF Serial, WellFormed, Started
  <2>6. chain # <<>> => GoesOn(chain[1])
    BY <1>1 DEF GoesOn
  <2>7. live # NoCall => tracked' # Untracked /\ tracked'.owner = live
    BY <1>1 DEF LiveOwns
  <2>8. call[c].pc \in Claiming \ {"holding"} /\ call'[c].pc \in Claiming
    BY <1>3, <2>1, <2>2 DEF Claiming
  <2> QED BY <1>1, <2>1, <2>2, <2>3, <2>4, <2>5, <2>6, <2>7, <2>8, Advances
<1>4. CASE call' = Put(c, [call[c] EXCEPT !.aborted = TRUE])
  <2> DEFINE r == [call[c] EXCEPT !.aborted = TRUE]
  <2>1. /\ r \in CallRecords /\ r.pc = call[c].pc /\ r.kind = call[c].kind
        /\ r.entry = call[c].entry
    <3>1. call[c] \in CallRecords
      BY <1>1 DEF Typed
    <3> QED BY <3>1 DEF CallRecords
  <2> HIDE DEF r
  <2>2. call' \in [Calls -> CallRecords] /\ \A d \in Calls : Stays(d)
    BY <2>1, <1>1, <1>4, PutCall DEF r, Stays
  <2>3. Typed'
    BY <1>1, <2>2 DEF Typed
  <2>4. Became(0, {}) /\ Keeps(0)
    BY <1>1, ChainSame
  <2>5. /\ \A d \in Calls : Stays(d) \/ (Leaves(d, 0) /\ ~Claims(d))
        /\ chain # <<>> => chain'[1].at = chain[1].at
        /\ UNCHANGED <<stored, tracked, live>> /\ pool' = pool
    BY <1>1, <2>2
  <2> QED BY <2>3, <2>4, <2>5, ReadyDropped
<1> QED BY <1>2, <1>3, <1>4 DEF Abort

\* A reservation that returns keeps it.
LEMMA ReserveReturnsKeeps ==
    ASSUME PoolInv, NEW c \in Calls, ReserveReturns(c)
    PROVE  PoolInv'
<1> DEFINE e == call[c].entry
<1>1. Typed /\ Held /\ LiveOwns /\ Committed /\ UNCHANGED <<state, chain, trouble>>
  BY DEF PoolInv, ReserveReturns
<1>2. /\ LoopTop(c) \in CallRecords /\ LoopTop(c).pc \in {"gap", "parked", "done"}
      /\ LoopTop(c).kind \in {"none", call[c].kind}
  BY <1>1, LoopTopTyped
<1>3. call[c].pc \in Claiming => call[c].kind # "append"
  BY <1>1 DEF Held
<1>4. CASE call[c].pc = "threw" /\ Remove(e, Put(c, Out("done")))
  BY <1>1, <1>4, OutTyped, LetsGo DEF Claiming
<1>5. CASE call[c].pc = "refused" /\ Remove(e, Put(c, LoopTop(c)))
  BY <1>1, <1>2, <1>3, <1>5, LetsGo DEF Claiming
<1>6. CASE call[c].pc = "committed" /\ MakeReady(e, Put(c, Out("done")))
  BY <1>1, <1>6, OutTyped, LetsGo DEF Claiming
<1>7. CASE call[c].pc = "committed" /\ pool.entry # e /\ call' = Put(c, LoopTop(c)) /\ UNCHANGED pool
  <2>1. Remove(e, Put(c, LoopTop(c)))
    BY <1>7 DEF Remove
  <2> QED BY <2>1, <1>1, <1>2, <1>3, <1>7, LetsGo DEF Claiming
<1>8. CASE /\ call[c].pc = "committed" /\ pool.entry = e
           /\ pool' = [pool EXCEPT !.phase = "reserved"] /\ call' = Put(c, At(c, "holding"))
  <2> DEFINE r == At(c, "holding")
  <2>1. r \in CallRecords /\ r.pc = "holding" /\ r.kind = call[c].kind /\ r.entry = call[c].entry
    BY <1>1, AtTyped DEF Places
  <2> HIDE DEF r
  <2>2. /\ call' \in [Calls -> CallRecords] /\ call'[c] = r
        /\ \A d \in Calls : d # c => Stays(d)
    BY <2>1, <1>1, <1>8, PutCall DEF r
  <2>3. pool' \in Pools
    BY <1>1, <1>8 DEF Typed, Pools
  <2>4. Typed'
    BY <1>1, <2>2, <2>3 DEF Typed, state
  <2>5. Became(0, {}) /\ Keeps(0)
    BY <1>1, ChainSame
  <2>6. chain # <<>> => GoesOn(chain[1])
    BY <1>1 DEF GoesOn
  <2>7. live # NoCall => tracked' # Untracked /\ tracked'.owner = live
    BY <1>1 DEF LiveOwns, state
  <2>8. /\ call[c].pc \in Claiming \ {"holding"} /\ call'[c].pc \in Claiming /\ Claims(c)
        /\ call'[c].pc = "holding" /\ call'[c].kind = call[c].kind /\ call'[c].entry = call[c].entry
    BY <1>8, <2>1, <2>2 DEF Claiming, Claims
  <2>9. \A i \in 1..Len(chain) : ~(chain[i].kind = "commit" /\ chain[i].call = c)
    BY <1>8 DEF PoolInv, CommitsFollowPool
  <2>10. /\ tracked' # Untracked /\ tracked'.owner = NoCall
         /\ tracked'.cursor = Length(pool.source)
         /\ pool.source.own = stored'.own /\ ~pool.source.open
    BY <1>1, <1>8 DEF Committed, state
  <2>11. UNCHANGED <<stored, tracked, live>>
    BY <1>1 DEF state
  <2> QED BY <1>8, <2>2, <2>4, <2>5, <2>6, <2>7, <2>8, <2>9, <2>10, <2>11, Advances
<1> QED BY <1>4, <1>5, <1>6, <1>7, <1>8 DEF ReserveReturns

\* A repaired log is a log.
LEMMA RepairTyped ==
    ASSUME Typed, Repaired
    PROVE  stored' \in Logs
<1>1. stored \in Logs
  BY DEF Typed
<1>2. stored' = [own |-> stored.own + 1, foreign |-> stored.foreign, open |-> FALSE]
  BY <1>1 DEF Repaired, Logs
<1>3. stored.own + 1 \in Nat /\ stored.foreign \in Nat
  BY <1>1 DEF Logs
<1> QED BY <1>2, <1>3 DEF Logs

\* A repair whose commit starts keeps it.
LEMMA CommitStartsKeeps ==
    ASSUME PoolInv, CommitStarts
    PROVE  PoolInv'
<1> DEFINE c == chain[1].call
<1>1. /\ Typed /\ Serial /\ LiveOwns /\ CommitsFollowPool /\ Once
      /\ UNCHANGED <<stored, tracked, live, retiring, pool, trouble>>
  BY DEF PoolInv, CommitStarts, state
<1>2. /\ Head(chain) = chain[1] /\ 1 \in 1..Len(chain) /\ chain # <<>>
      /\ chain[1].kind = "commit" /\ chain[1].at = "queued" /\ c \in Calls
  BY <1>1 DEF CommitStarts, Head1, Typed, Serial, WellFormed
<1>3. live # NoCall => tracked' # Untracked /\ tracked'.owner = live
  BY <1>1 DEF LiveOwns
<1>4. CASE chain' = Tail(chain) /\ call' = call
  <2>1. PICK new : new = {}
    OBVIOUS
  <2>2. Became(1, new) /\ Keeps(1) /\ \A op \in new : Benign(op, 1)
    BY <1>1, <1>2, <1>4, <2>1, ChainTail
  <2>3. stored' \in Logs /\ stored'.own = stored.own /\ trouble' \in 0..MaxTrouble
    BY <1>1 DEF Typed
  <2> QED BY <1>1, <1>2, <1>4, <2>2, <2>3, ChainGoesOn
<1>5. CASE /\ call[c].pc = "committing" /\ tracked # Untracked /\ tracked.owner # NoCall
           /\ chain' = Tail(chain) /\ call' = Put(c, At(c, "threw"))
  <2> DEFINE r == At(c, "threw")
  <2>1. r \in CallRecords /\ r.pc = "threw" /\ r.kind = call[c].kind /\ r.entry = call[c].entry
    BY <1>1, <1>2, AtTyped DEF Places
  <2> HIDE DEF r
  <2>2. /\ call' \in [Calls -> CallRecords] /\ call'[c] = r
        /\ \A d \in Calls : d # c => Stays(d)
    BY <2>1, <1>1, <1>2, <1>5, PutCall DEF r
  <2>3. Became(1, {}) /\ Keeps(1)
    BY <1>1, <1>2, <1>5, ChainTail
  <2>4. Typed'
    BY <1>1, <2>2, <2>3 DEF Typed, Became
  <2>5. \A i \in 1..Len(chain) : i > 1 => ~(chain[i].kind = "commit" /\ chain[i].call = c)
    BY <1>1, <1>2 DEF Once, Twice
  <2>6. call[c].pc \in Claiming \ {"holding"} /\ call'[c].pc = "threw" /\ "threw" \in Claiming
    BY <1>5, <2>1, <2>2 DEF Claiming
  <2> QED BY <1>1, <1>2, <1>3, <2>1, <2>2, <2>3, <2>4, <2>5, <2>6, Advances
<1>6. CASE /\ call[c].pc = "committing" /\ ~(tracked # Untracked /\ tracked.owner # NoCall)
           /\ chain' = [chain EXCEPT ![1].at = "started"] /\ call' = call
  <2> DEFINE o == [chain[1] EXCEPT !.at = "started"]
  <2>1. o \in Ops /\ Same(o, chain[1]) /\ o.at = "started"
    <3>1. chain[1] \in Ops
      BY <1>1, <1>2 DEF Typed
    <3> QED BY <3>1 DEF Ops, Same
  <2>2. chain' = [chain EXCEPT ![1] = o]
    BY <1>1, <1>2, <1>6 DEF Typed
  <2> HIDE DEF o
  <2>3. Became(0, {}) /\ Keeps(0) /\ chain'[1] = o
    BY <1>1, <1>2, <2>1, <2>2, ChainMoves
  <2>4. Typed'
    BY <1>1, <1>6, <2>3 DEF Typed, Became
  <2>5. GoesOn(chain[1])
    BY <1>1, <1>2, <1>6, <2>1, <2>3 DEF GoesOn
  <2>6. call[c].pc \in Claiming \ {"holding"} /\ call'[c].pc = "committing" /\ "committing" \in Claiming
    BY <1>6 DEF Claiming
  <2>7. \A d \in Calls : Stays(d)
    BY <1>6 DEF Stays
  <2> QED BY <1>1, <1>2, <1>3, <1>6, <2>3, <2>4, <2>5, <2>6, <2>7, Advances
<1> QED BY <1>2, <1>4, <1>5, <1>6 DEF CommitStarts

\* A commit that decides keeps it.
LEMMA CommitDecidesKeeps ==
    ASSUME PoolInv, CommitDecides
    PROVE  PoolInv'
<1> USE PreparationsAssumption
<1> DEFINE c == chain[1].call
           source == chain[1].source
<1>1. /\ Typed /\ Serial /\ LiveOwns /\ CommitsFollowPool /\ Once /\ Held /\ UnderWay /\ Committed
      /\ UNCHANGED <<live, retiring, pool>> /\ chain' = Tail(chain)
  BY DEF PoolInv, CommitDecides
<1>2. /\ Head(chain) = chain[1] /\ 1 \in 1..Len(chain) /\ chain # <<>>
      /\ chain[1].kind = "commit" /\ chain[1].at = "started" /\ c \in Calls
  BY <1>1 DEF CommitDecides, Head1, Typed, Serial, WellFormed
<1>3. call[c].pc = "committing" /\ (tracked = Untracked \/ tracked.owner = NoCall) /\ live = NoCall
  BY <1>1, <1>2 DEF UnderWay, LiveOwns, Typed
<1>4. /\ call[c].entry = chain[1].entry /\ source \in Logs
      /\ pool.phase \in Settled => chain[1].entry = pool.entry /\ source = pool.source
  BY <1>1, <1>2, <1>3 DEF CommitsFollowPool, Commits
<1>5. \A d \in Calls \ {c} : ~Claims(d)
  <2> SUFFICES ASSUME NEW d \in Calls \ {c}, Claims(d) PROVE FALSE
    OBVIOUS
  <2>1. pool.phase \in Settled
    BY <1>1 DEF Held, Claims, Settled
  <2>2. Claims(c)
    BY <2>1, <1>3, <1>4 DEF Claims, Claiming
  <2> QED BY <2>2, <1>1, <1>2 DEF Held
<1>6. Claims(c) => source = pool.source
  BY <1>1, <1>2, <1>3, <1>4 DEF Held, Claims, Settled
<1>7. Became(1, {}) /\ Keeps(1)
  BY <1>1, <1>2, ChainTail
<1>8. \A i \in 1..Len(chain) : i > 1 => ~(chain[i].kind = "commit" /\ chain[i].call = c)
  BY <1>1, <1>2 DEF Once, Twice
<1>9. ASSUME NEW pc \in {"threw", "refused", "committed"}, call' = Put(c, At(c, pc)),
             stored' \in Logs, tracked' \in {Untracked} \cup States, trouble' \in 0..MaxTrouble,
             pc = "committed" => /\ tracked' # Untracked /\ tracked'.owner = NoCall
                                 /\ tracked'.cursor = Length(source)
                                 /\ source.own = stored'.own /\ ~source.open
      PROVE  PoolInv'
  <2> DEFINE r == At(c, pc)
  <2>1. r \in CallRecords /\ r.pc = pc /\ r.kind = call[c].kind /\ r.entry = call[c].entry
    BY <1>1, <1>2, AtTyped DEF Places
  <2> HIDE DEF r
  <2>2. /\ call' \in [Calls -> CallRecords] /\ call'[c] = r
        /\ \A d \in Calls : d # c => Stays(d)
    BY <2>1, <1>1, <1>2, <1>9, PutCall DEF r
  <2>3. Typed'
    BY <1>1, <1>7, <1>9, <2>2 DEF Typed, Became
  <2>4. /\ call[c].pc \in Claiming \ {"holding"} /\ call'[c].pc \in Claiming \ {"holding"}
        /\ call'[c].kind = call[c].kind /\ call'[c].entry = call[c].entry
    BY <1>3, <2>1, <2>2 DEF Claiming
  <2>5. call'[c].pc \in {"committed", "holding"} =>
          (Claims(c) => /\ tracked' # Untracked /\ tracked'.owner = NoCall
                        /\ tracked'.cursor = Length(pool.source)
                        /\ pool.source.own = stored'.own /\ ~pool.source.open)
    BY <1>6, <1>9, <2>1, <2>2
  <2> QED BY <1>1, <1>2, <1>3, <1>5, <1>7, <1>8, <2>2, <2>3, <2>4, <2>5, Advances
<1>10. CASE Fails /\ call' = Put(c, At(c, "threw")) /\ UNCHANGED <<stored, tracked>>
  <2>1. trouble' \in 0..MaxTrouble
    BY <1>1, <1>10 DEF Fails, Typed
  <2> QED BY <2>1, <1>1, <1>9, <1>10 DEF Typed
<1>11. CASE call' = Put(c, At(c, "refused")) /\ UNCHANGED <<stored, tracked, trouble>>
  BY <1>1, <1>9, <1>11 DEF Typed
<1>12. CASE Repaired /\ call' = Put(c, At(c, "refused")) /\ UNCHANGED <<tracked, trouble>>
  <2>1. stored' \in Logs
    BY <1>1, <1>12, RepairTyped
  <2> QED BY <2>1, <1>1, <1>9, <1>12 DEF Typed
<1>13. CASE /\ source = stored /\ ~stored.open /\ Established(source)
            /\ call' = Put(c, At(c, "committed")) /\ UNCHANGED <<stored, trouble>>
  <2>1. tracked' = [cursor |-> Length(source), owner |-> NoCall] /\ Length(source) \in Nat
    BY <1>4, <1>13 DEF Established, Length, Logs
  <2>2. /\ tracked' \in States /\ tracked' # Untracked
        /\ tracked'.owner = NoCall /\ tracked'.cursor = Length(source)
    BY <2>1 DEF States
  <2> QED BY <2>2, <1>1, <1>9, <1>13 DEF Typed
<1> QED BY <1>2, <1>10, <1>11, <1>12, <1>13 DEF CommitDecides

\* The append in front goes on, with the ready entry taken or not.
LEMMA AppendGoesOn ==
    ASSUME PoolInv, chain # <<>>, NEW op \in Ops, Same(op, chain[1]),
           chain' = [chain EXCEPT ![1] = op],
           UNCHANGED <<live, retiring, call, trouble>>,
           pool' = pool \/ (pool.phase = "ready" /\ pool' = NoPool),
           stored' \in Logs, tracked' \in {Untracked} \cup States,
           live # NoCall => tracked' # Untracked /\ tracked'.owner = live,
           op.kind \in {"append", "drain"}, Started(op),
           op.at \in {"adopt", "adopted"} => tracked' = Untracked,
           op.at = "write" => tracked' # Untracked,
           \A d \in Calls : call[d].pc \in {"committed", "holding"} => ~Claims(d)
    PROVE  PoolInv'
<1>1. Typed /\ Held /\ Joined
  BY DEF PoolInv
<1>2. PICK new : new = {}
  OBVIOUS
<1>3. Became(0, new) /\ Keeps(0) /\ chain'[1] = op /\ (\A o \in new : Benign(o, 0))
  BY <1>1, <1>2, ChainMoves
<1>4. NoPool \in Pools
  BY DEF NoPool, Pools
<1>5. Typed'
  BY <1>1, <1>3, <1>4 DEF Typed, Became
<1>6. Writes(chain[1])
  BY <1>3 DEF Writes, Same
<1>7. \A d \in Calls : Stays(d)
  BY DEF Stays
<1>8. \/ pool' = pool
      \/ PoolFreed /\ \A d \in Calls : ~Claims(d) /\ call[d].pc # "waiting"
  BY <1>1 DEF PoolFreed, Held, Claims, Joined, JoinedAt
<1> QED BY <1>3, <1>5, <1>6, <1>7, <1>8, GivesUp

\* What is known when the operation in front is an append.
LEMMA AppendInFront ==
    ASSUME PoolInv, Appending
    PROVE  /\ chain # <<>> /\ Head(chain) = chain[1] /\ 1 \in 1..Len(chain)
           /\ chain[1] \in Ops /\ chain[1].kind \in {"append", "drain"} /\ chain[1].call \in Calls
           /\ Head(chain).kind = "append" \/ Head(chain).kind = "drain"
           /\ Started(chain[1]) => \A d \in Calls :
                 call[d].pc \in {"committed", "holding"} => ~Claims(d)
           /\ Started(chain[1]) => \A d \in Calls : call[d].pc # "holding"
           /\ chain[1].at \in {"adopt", "adopted"} => tracked = Untracked /\ live = NoCall
           /\ chain[1].at = "write" => tracked # Untracked
           /\ chain[1].at # "queued" => Started(chain[1])
<1>1. Typed /\ Serial /\ UnderWay /\ Held /\ LiveOwns
  BY DEF PoolInv
<1>2. /\ chain # <<>> /\ Head(chain) = chain[1] /\ 1 \in 1..Len(chain) /\ chain[1] \in Ops
      /\ chain[1].kind \in {"append", "drain"}
  BY <1>1 DEF Appending, Head1, Typed
<1>3. chain[1].call \in Calls /\ (chain[1].at # "queued" => Started(chain[1]))
  BY <1>1, <1>2 DEF Serial, WellFormed, Started, Ops
<1>4. /\ Started(chain[1]) => \A d \in Calls :
            call[d].pc \in {"committed", "holding"} => call[d].entry # pool.entry
      /\ chain[1].at \in {"adopt", "adopted"} => tracked = Untracked
      /\ chain[1].at = "write" => tracked # Untracked
  BY <1>1, <1>2 DEF UnderWay
<1>5. Started(chain[1]) => \A d \in Calls : call[d].pc # "holding"
  BY <1>1, <1>4 DEF Held, Claiming
<1>6. tracked = Untracked => live = NoCall
  BY <1>1 DEF LiveOwns
<1> QED BY <1>2, <1>3, <1>4, <1>5, <1>6 DEF Claims

\* An adoption that reads keeps it.
LEMMA AdoptReadsKeeps ==
    ASSUME PoolInv, AdoptReads
    PROVE  PoolInv'
<1>1. Typed
  BY DEF PoolInv
<1>2. /\ chain # <<>> /\ Head(chain) = chain[1] /\ chain[1] \in Ops
      /\ chain[1].kind \in {"append", "drain"} /\ chain[1].at = "adopt"
      /\ tracked = Untracked /\ live = NoCall
      /\ \A d \in Calls : call[d].pc \in {"committed", "holding"} => ~Claims(d)
  BY AppendInFront DEF AdoptReads, Started
<1>3. ASSUME NEW source \in Logs \cup {NoSource}, pool' = pool \/ (pool.phase = "ready" /\ pool' = NoPool),
             chain' = [chain EXCEPT ![1].at = "adopted", ![1].source = source],
             trouble' = trouble
      PROVE  PoolInv'
  <2> DEFINE o == [chain[1] EXCEPT !.at = "adopted", !.source = source]
  <2>1. o \in Ops /\ Same(o, chain[1]) /\ o.at = "adopted" /\ o.kind = chain[1].kind
    BY <1>2 DEF Ops, Same
  <2>2. chain' = [chain EXCEPT ![1] = o]
    BY <1>1, <1>2, <1>3 DEF Typed
  <2> HIDE DEF o
  <2>3. Started(o)
    BY <2>1 DEF Started
  <2>4. /\ UNCHANGED <<live, retiring, call, trouble>>
        /\ stored' \in Logs /\ tracked' = Untracked
    BY <1>1, <1>2, <1>3 DEF AdoptReads, state, Typed
  <2>5. PoolInv /\ o.kind \in {"append", "drain"} /\ o.at # "write"
    BY <1>2, <2>1
  <2> QED BY <1>2, <1>3, <2>1, <2>2, <2>3, <2>4, <2>5, AppendGoesOn
<1>4. CASE /\ pool.phase = "ready" /\ pool' = NoPool /\ UNCHANGED trouble
           /\ chain' = [chain EXCEPT ![1].at = "adopted", ![1].source = pool.source]
  BY <1>1, <1>3, <1>4 DEF Typed, Pools
<1>5. CASE /\ UNCHANGED <<pool, trouble>>
           /\ chain' = [chain EXCEPT ![1].at = "adopted", ![1].source = stored]
  BY <1>1, <1>3, <1>5 DEF Typed
<1> QED BY <1>4, <1>5 DEF AdoptReads

\* An adoption that commits keeps it.
LEMMA AdoptCommitsKeeps ==
    ASSUME PoolInv, AdoptCommits
    PROVE  PoolInv'
<1> USE PreparationsAssumption
<1> DEFINE source == chain[1].source
<1>1. Typed
  BY DEF PoolInv
<1>2. /\ chain # <<>> /\ Head(chain) = chain[1] /\ chain[1] \in Ops
      /\ chain[1].kind \in {"append", "drain"} /\ chain[1].at = "adopted"
      /\ tracked = Untracked /\ live = NoCall
      /\ \A d \in Calls : call[d].pc \in {"committed", "holding"} => ~Claims(d)
  BY AppendInFront DEF AdoptCommits, Started
<1>3. ASSUME NEW at \in {"adopt", "write"},
             chain' = [chain EXCEPT ![1].at = at, ![1].source = NoSource],
             stored' \in Logs,
             \/ at = "adopt" /\ tracked' = Untracked
             \/ at = "write" /\ tracked' \in States
      PROVE  PoolInv'
  <2> DEFINE o == [chain[1] EXCEPT !.at = at, !.source = NoSource]
  <2>1. o \in Ops /\ Same(o, chain[1]) /\ o.at = at /\ o.kind = chain[1].kind
    BY <1>2 DEF Ops, Same
  <2>2. chain' = [chain EXCEPT ![1] = o]
    BY <1>1, <1>2, <1>3 DEF Typed
  <2> HIDE DEF o
  <2>3. Started(o)
    BY <2>1 DEF Started
  <2>4. UNCHANGED <<live, retiring, call, trouble, pool>>
    BY DEF AdoptCommits
  <2>5. /\ tracked' \in {Untracked} \cup States
        /\ o.at \in {"adopt", "adopted"} => tracked' = Untracked
        /\ o.at = "write" => tracked' # Untracked
    BY <1>3, <2>1 DEF States
  <2>6. PoolInv /\ o.kind \in {"append", "drain"}
    BY <1>2, <2>1
  <2> QED BY <1>2, <1>3, <2>1, <2>2, <2>3, <2>4, <2>5, <2>6, AppendGoesOn
<1>4. CASE /\ chain' = [chain EXCEPT ![1].at = "adopt", ![1].source = NoSource]
           /\ UNCHANGED <<stored, tracked>>
  BY <1>1, <1>2, <1>3, <1>4 DEF Typed
<1>5. CASE /\ chain' = [chain EXCEPT ![1].at = "adopt", ![1].source = NoSource]
           /\ Repaired /\ UNCHANGED tracked
  <2>1. stored' \in Logs
    BY <1>1, <1>5, RepairTyped
  <2> QED BY <2>1, <1>2, <1>3, <1>5
<1>6. CASE /\ chain' = [chain EXCEPT ![1].at = "write", ![1].source = NoSource]
           /\ source = stored /\ Established(source) /\ UNCHANGED stored
  <2>1. stored \in Logs
    BY <1>1 DEF Typed
  <2>2. tracked' \in States
    BY <2>1, <1>6 DEF Established, Length, Logs, States
  <2> QED BY <2>1, <2>2, <1>3, <1>6
<1> QED BY <1>2, <1>4, <1>5, <1>6 DEF AdoptCommits


\* A retirement is over: its call is done, and those who awaited it go on.
LEMMA Unretires ==
    ASSUME PoolInv, chain # <<>>, chain[1].kind \in Leaving, chain' = Tail(chain),
           call' = Unparked(Put(chain[1].call, Out("done"))), retiring' = FALSE,
           UNCHANGED <<stored, live, pool>>, trouble' \in 0..MaxTrouble,
           tracked' \in {Untracked} \cup States,
           live # NoCall => tracked' # Untracked /\ tracked'.owner = live,
           \/ tracked' = tracked
           \/ \A d \in Calls : call[d].pc \in {"committed", "holding"} => ~Claims(d)
    PROVE  PoolInv'
<1>1. Typed /\ Serial /\ Once /\ Joined
  BY DEF PoolInv
<1>2. PICK new : new = {}
  OBVIOUS
<1>3. /\ Became(1, new) /\ Keeps(1) /\ (\A op \in new : Benign(op, 1))
      /\ 1 \in 1..Len(chain)
  BY <1>1, <1>2, ChainTail
<1>4. PICK c \in Calls : c = chain[1].call /\ call[c].pc = "retiring"
  BY <1>1, <1>3 DEF Serial, WellFormed, Leaving
<1>5. Out("done") \in CallRecords /\ Out("done").pc = "done" /\ Out("done").kind = "none"
  BY <1>1, OutTyped
<1>6. /\ call' \in [Calls -> CallRecords] /\ call'[c] = Out("done")
      /\ \A d \in Calls : d # c => \/ call'[d] = call[d]
                                   \/ /\ call[d].pc = "parked" /\ call'[d].pc = "gap"
                                      /\ call'[d].kind = call[d].kind
  <2>1. call \in [Calls -> CallRecords]
    BY <1>1 DEF Typed
  <2>2. \A d \in Calls : [call[d] EXCEPT !.pc = "gap"] \in CallRecords
                         /\ [call[d] EXCEPT !.pc = "gap"].pc = "gap"
                         /\ [call[d] EXCEPT !.pc = "gap"].kind = call[d].kind
    BY <2>1 DEF CallRecords, Places
  <2>3. call' = [d \in Calls |-> IF d = c THEN Out("done")
                                 ELSE IF call[d].pc = "parked" THEN [call[d] EXCEPT !.pc = "gap"]
                                 ELSE call[d]]
    BY <2>1, <1>4, <1>5 DEF Unparked, Put
  <2> QED BY <2>1, <2>2, <2>3, <1>4, <1>5, ZenonT(60)
<1>7. Typed'
  BY <1>1, <1>3, <1>6 DEF Typed, Became
<1>8. Leaves(c, 1)
  <2>1. JoinedAt(c)'
    <3>1. call'[c].kind # "append" /\ call'[c].pc = "done"
      BY <1>5, <1>6
    <3> QED BY <3>1, <1>4, Unjoined
  <2>2. \A i \in 1..Len(chain) : i > 1 => ~(chain[i].kind \in Leaving /\ chain[i].call = c)
    BY <1>1, <1>3, <1>4 DEF Once, Twice
  <2> QED BY <2>1, <2>2, <1>4, <1>5, <1>6 DEF Leaves, Claiming
<1>9. \A d \in Calls : Stays(d) \/ (Leaves(d, 1) /\ ~Claims(d))
  <2> SUFFICES ASSUME NEW d \in Calls PROVE Stays(d) \/ (Leaves(d, 1) /\ ~Claims(d))
    OBVIOUS
  <2>1. CASE d = c
    BY <2>1, <1>4, <1>8 DEF Claims, Claiming
  <2>2. CASE call'[d] = call[d]
    BY <2>2 DEF Stays
  <2>3. CASE call[d].pc = "parked" /\ call'[d].pc = "gap" /\ call'[d].kind = call[d].kind
    <3>1. call[d].kind # "append"
      BY <2>3, <1>1 DEF Joined, JoinedAt
    <3>2. JoinedAt(d)'
      BY <2>3, <3>1, Unjoined
    <3> QED BY <2>3, <3>2 DEF Leaves, Claims, Claiming
  <2> QED BY <2>1, <2>2, <2>3, <1>6
<1>10. /\ ~Loads(chain[1], pool.entry)
       /\ \A d \in Calls : ~Loads(chain[1], call[d].entry)
  BY DEF Loads, Leaving
<1>11. \/ tracked' = tracked /\ stored'.own = stored.own
       \/ \A d \in Calls : call[d].pc \in {"committed", "holding"} => ~Claims(d)
  OBVIOUS
<1> QED BY <1>3, <1>7, <1>9, <1>10, <1>11, GivesUp

\* An append in front that fails, or is refused.
LEMMA AppendFails ==
    ASSUME PoolInv, Appending, AppendSettles(FALSE), UNCHANGED <<stored, tracked, live>>,
           trouble' \in 0..MaxTrouble
    PROVE  PoolInv'
<1> DEFINE c == chain[1].call
<1>1. /\ chain # <<>> /\ Head(chain) = chain[1]
      /\ chain[1].kind \in {"append", "drain"} /\ c \in Calls
  BY AppendInFront
<1>2. Typed /\ LiveOwns /\ Joined
  BY DEF PoolInv
<1>3. live # NoCall => tracked' # Untracked /\ tracked'.owner = live
  BY <1>2 DEF LiveOwns
<1>4. CASE chain[1].kind = "drain"
  <2>1. /\ chain' = Tail(chain) /\ call' = Unparked(Put(c, Out("done"))) /\ retiring' = FALSE
        /\ pool' = pool
    BY <1>1, <1>4 DEF AppendSettles
  <2>2. tracked' \in {Untracked} \cup States
    BY <1>2 DEF Typed
  <2>3. chain[1].kind \in Leaving
    BY <1>4 DEF Leaving
  <2> QED BY <1>1, <1>3, <2>1, <2>2, <2>3, Unretires
<1>5. CASE chain[1].kind = "append"
  <2>1. PICK new : new = {}
    OBVIOUS
  <2>2. /\ chain' = Tail(chain) /\ UNCHANGED <<pool, retiring>>
        /\ call' = IF call[c].kind = "append" THEN Put(c, Out("done")) ELSE call
    BY <1>1, <1>5 DEF AppendSettles
  <2>3. Became(1, new) /\ Keeps(1) /\ \A op \in new : Benign(op, 1)
    BY <1>1, <1>2, <2>1, <2>2, ChainTail
  <2>4. CASE call[c].kind = "append"
    <3>1. call[c].pc = "appending"
      BY <1>1, <1>2, <2>4 DEF Joined, JoinedAt
    <3>2. UNCHANGED <<state, pool>> /\ call' = Put(c, Out("done"))
      BY <2>2, <2>4 DEF state
    <3> QED BY <1>1, <1>2, <1>5, <2>3, <3>1, <3>2, OutTyped, OneGoesOn
  <2>5. CASE call[c].kind # "append"
    BY <1>2, <1>5, <2>2, <2>3, <2>5, ChainGoesOn DEF Typed
  <2> QED BY <2>4, <2>5
<1> QED BY <1>1, <1>4, <1>5

\* An append that was written drops the prepared view of the old log.
LEMMA Supersedes ==
    ASSUME PoolInv, Appending, Started(chain[1]), tracked # Untracked,
           NEW calls \in [Calls -> CallRecords], Remove(pool.entry, calls),
           \A d \in Calls : \/ calls[d] = call[d]
                            \/ call[d].pc = "appending" /\ calls[d] = Out("done"),
           NEW new, Became(1, new), Keeps(1), \A op \in new : Benign(op, 1),
           UNCHANGED <<live, retiring, trouble>>,
           stored' \in Logs, tracked' \in States, tracked'.owner = tracked.owner
    PROVE  PoolInv'
<1>1. Typed /\ LiveOwns /\ Joined
  BY DEF PoolInv
<1>2. /\ chain[1].kind \in {"append", "drain"}
      /\ \A d \in Calls : call[d].pc \in {"committed", "holding"} => ~Claims(d)
      /\ \A d \in Calls : call[d].pc # "holding"
  BY AppendInFront
<1>3. pool' = NoPool /\ call' = Released(calls, pool.entry)
  BY DEF Remove
<1>4. NoPool \in Pools
  BY DEF NoPool, Pools
<1>5. /\ call' \in [Calls -> CallRecords]
      /\ \A d \in Calls :
            \/ /\ call'[d] = calls[d]
               /\ ~(calls[d].pc = "waiting" /\ calls[d].entry = pool.entry)
            \/ /\ calls[d].pc = "waiting" /\ call'[d].pc = "loaded"
               /\ call'[d].entry = calls[d].entry /\ call'[d].kind = calls[d].kind
  BY <1>3 DEF Released, CallRecords, Places
<1>6. Typed'
  BY <1>1, <1>3, <1>4, <1>5 DEF Typed, Became
<1>7. \A d \in Calls : Stays(d) \/ Freed(d) \/ (Leaves(d, 1) /\ call[d].pc = "appending")
  <2> SUFFICES ASSUME NEW d \in Calls
               PROVE  Stays(d) \/ Freed(d) \/ (Leaves(d, 1) /\ call[d].pc = "appending")
    OBVIOUS
  <2>1. CASE calls[d] = call[d]
    BY <2>1, <1>5 DEF Stays, Freed
  <2>2. CASE call[d].pc = "appending" /\ calls[d] = Out("done")
    <3>1. call'[d].pc = "done" /\ call'[d].kind = "none"
      BY <2>2, <1>1, <1>5, OutTyped
    <3>2. JoinedAt(d)'
      BY <3>1, Unjoined
    <3> QED BY <2>2, <3>1, <3>2 DEF Leaves, Claiming
  <2> QED BY <2>1, <2>2
<1>8. ASSUME NEW d \in Calls
      PROVE  /\ Claims(d) => Stays(d) /\ call[d].pc # "holding"
             /\ call[d].pc = "waiting" => ~Stays(d)
  <2>1. Claims(d) => Stays(d)
    BY <1>7 DEF Claims, Claiming, Freed
  <2>2. ASSUME call[d].pc = "waiting" PROVE ~Stays(d)
    <3>1. call[d].entry = pool.entry /\ calls[d] = call[d]
      BY <2>2, <1>1 DEF Joined, JoinedAt
    <3> QED BY <2>2, <3>1, <1>5 DEF Stays
  <2> QED BY <2>1, <2>2, <1>2
<1>9. live # NoCall => tracked' # Untracked /\ tracked'.owner = live
  BY <1>1, PreparationsAssumption DEF LiveOwns, States
<1>10. /\ ~Loads(chain[1], pool.entry)
       /\ \A d \in Calls : ~Loads(chain[1], call[d].entry)
  BY <1>2 DEF Loads
<1>11. \A d \in Calls : Stays(d) \/ Freed(d) \/ Leaves(d, 1)
  BY <1>7
<1>12. PoolFreed /\ pool' = NoPool
  BY <1>3 DEF PoolFreed
<1> QED BY <1>2, <1>6, <1>8, <1>9, <1>10, <1>11, <1>12, GivesUp

\* An append that starts keeps it.
LEMMA AppendStartsKeeps ==
    ASSUME PoolInv, AppendStarts
    PROVE  PoolInv'
<1>1. /\ chain # <<>> /\ Head(chain) = chain[1] /\ chain[1] \in Ops
      /\ chain[1].kind \in {"append", "drain"}
  BY AppendInFront DEF AppendStarts
<1>2. Typed /\ Held /\ LiveOwns /\ UNCHANGED <<stored, tracked, live, trouble>>
  BY DEF PoolInv, AppendStarts
<1>3. CASE AppendSettles(FALSE)
  BY <1>2, <1>3, AppendFails DEF AppendStarts, Typed
<1>4. CASE /\ Writable /\ UNCHANGED <<pool, call, retiring>>
           /\ chain' = [chain EXCEPT ![1].at = IF tracked = Untracked THEN "adopt" ELSE "write"]
  <2> DEFINE o == [chain[1] EXCEPT !.at = IF tracked = Untracked THEN "adopt" ELSE "write"]
  <2>1. /\ o \in Ops /\ Same(o, chain[1]) /\ o.kind = chain[1].kind
        /\ o.at = IF tracked = Untracked THEN "adopt" ELSE "write"
    BY <1>1 DEF Ops, Same
  <2>2. chain' = [chain EXCEPT ![1] = o]
    BY <1>1, <1>2, <1>4 DEF Typed
  <2> HIDE DEF o
  <2>3. /\ Started(o) /\ (o.at \in {"adopt", "adopted"} => tracked' = Untracked)
        /\ (o.at = "write" => tracked' # Untracked)
    BY <2>1, <1>2 DEF Started
  <2>4. \A d \in Calls : ~Claims(d)
    BY <1>2, <1>4 DEF Held, Claims, Claiming, Writable
  <2>5. live # NoCall => tracked' # Untracked /\ tracked'.owner = live
    BY <1>2 DEF LiveOwns
  <2>6. stored' \in Logs /\ tracked' \in {Untracked} \cup States
    BY <1>2 DEF Typed
  <2> QED BY <1>1, <1>2, <1>4, <2>1, <2>2, <2>3, <2>4, <2>5, <2>6, AppendGoesOn
<1> QED BY <1>3, <1>4 DEF AppendStarts

\* An append that writes keeps it.
LEMMA AppendWritesKeeps ==
    ASSUME PoolInv, AppendWrites
    PROVE  PoolInv'
<1> DEFINE c == chain[1].call
<1>1. /\ chain # <<>> /\ Head(chain) = chain[1] /\ chain[1] \in Ops /\ 1 \in 1..Len(chain)
      /\ chain[1].kind \in {"append", "drain"} /\ c \in Calls
      /\ (chain[1].at = "write" => tracked # Untracked) /\ Appending /\ live' = live
  BY AppendInFront DEF AppendWrites
<1>2. Typed /\ Serial /\ Once /\ Joined
  BY DEF PoolInv
<1>3. CASE Fails /\ AppendSettles(FALSE) /\ UNCHANGED <<stored, tracked>>
  <2>1. trouble' \in 0..MaxTrouble
    BY <1>2, <1>3, PreparationsAssumption DEF Fails, Typed
  <2> QED BY <1>1, <1>3, <2>1, AppendFails
<1>4. CASE /\ chain[1].at = "write" /\ AppendSettles(TRUE) /\ UNCHANGED trouble
           /\ \E open \in BOOLEAN : stored' = [stored EXCEPT !.own = @ + 1, !.open = open]
           /\ tracked' = [tracked EXCEPT !.cursor = @ + 1]
  <2>1. stored' \in Logs
    <3>1. PICK open \in BOOLEAN : stored' = [stored EXCEPT !.own = @ + 1, !.open = open]
      BY <1>4
    <3>2. stored \in Logs
      BY <1>2 DEF Typed
    <3>3. stored' = [own |-> stored.own + 1, foreign |-> stored.foreign, open |-> open]
      BY <3>1, <3>2 DEF Logs
    <3>4. stored.own + 1 \in Nat /\ stored.foreign \in Nat
      BY <3>2 DEF Logs
    <3> QED BY <3>3, <3>4 DEF Logs
  <2>2. tracked' \in States /\ tracked'.owner = tracked.owner
    BY <1>1, <1>2, <1>4 DEF Typed, States
  <2>3. Started(chain[1])
    BY <1>4 DEF Started
  <2>4. call \in [Calls -> CallRecords]
    BY <1>2 DEF Typed
  <2>5. CASE chain[1].kind = "drain"
    <3> DEFINE o == Op("retire", c, NoEntry, NoSource)
    <3>1. o \in Ops /\ o.kind = "retire" /\ o.call = c /\ o.at = "queued"
      BY <1>1 DEF Op, Ops
    <3>2. /\ chain' = Append(Tail(chain), o) /\ retiring' = retiring
          /\ Remove(pool.entry, call)
      BY <1>1, <1>4, <2>5 DEF AppendSettles
    <3> HIDE DEF o
    <3>3. PICK new : new = {o}
      OBVIOUS
    <3>4. Became(1, new) /\ Keeps(1)
      BY <1>1, <1>2, <3>1, <3>2, <3>3, ChainTailAppend
    <3>5. call'[c].pc = "retiring"
      <4>1. call[c].pc = "retiring"
        BY <1>1, <1>2, <2>5 DEF Serial, Leaving
      <4> QED BY <4>1, <1>1, <2>4, <3>2 DEF Remove, Released
    <3>6. \A i \in 1..Len(chain) : i > 1 => ~(chain[i].kind \in Leaving /\ chain[i].call = c)
      BY <1>1, <1>2, <2>5 DEF Once, Twice, Leaving
    <3>7. \A op \in new : Benign(op, 1)
      BY <1>1, <3>1, <3>3, <3>5, <3>6 DEF Benign
    <3> QED BY <1>1, <1>4, <2>1, <2>2, <2>3, <2>4, <3>2, <3>4, <3>7, Supersedes
  <2>6. CASE chain[1].kind = "append"
    <3> DEFINE after == IF call[c].kind = "append" THEN Put(c, Out("done")) ELSE call
    <3>1. chain' = Tail(chain) /\ retiring' = retiring /\ Remove(pool.entry, after)
      BY <1>1, <1>4, <2>6 DEF AppendSettles
    <3>2. /\ after \in [Calls -> CallRecords]
          /\ \A d \in Calls : \/ after[d] = call[d]
                              \/ call[d].pc = "appending" /\ after[d] = Out("done")
      <4>1. call[c].kind = "append" => call[c].pc = "appending"
        BY <1>1, <1>2 DEF Joined, JoinedAt
      <4> QED BY <4>1, <1>1, <1>2, <2>4, OutTyped DEF Put
    <3> HIDE DEF after
    <3>3. PICK new : new = {}
      OBVIOUS
    <3>4. Became(1, new) /\ Keeps(1) /\ \A op \in new : Benign(op, 1)
      BY <1>1, <1>2, <3>1, <3>3, ChainTail
    <3> QED BY <1>1, <1>4, <2>1, <2>2, <2>3, <3>1, <3>2, <3>4, Supersedes
  <2> QED BY <1>1, <2>5, <2>6
<1> QED BY <1>1, <1>3, <1>4 DEF AppendWrites

\* A retirement that runs keeps it.
LEMMA RetireRunsKeeps ==
    ASSUME PoolInv, RetireRuns
    PROVE  PoolInv'
<1> USE PreparationsAssumption
<1> DEFINE c == chain[1].call
<1>1. Typed /\ Serial /\ LiveOwns /\ Committed
  BY DEF PoolInv
<1>2. /\ chain # <<>> /\ Head(chain) = chain[1] /\ 1 \in 1..Len(chain)
      /\ chain[1].kind = "retire"
  BY <1>1 DEF RetireRuns, Head1, Typed
<1>3. c \in Calls /\ call[c].pc = "retiring"
  BY <1>1, <1>2 DEF Serial, WellFormed, Leaving
<1>4. /\ tracked' = IF tracked # Untracked /\ tracked.owner = c THEN Untracked ELSE tracked
      /\ retiring' = FALSE /\ call' = Unparked(Put(c, Out("done"))) /\ chain' = Tail(chain)
      /\ UNCHANGED <<stored, live, pool, trouble>>
  BY <1>2 DEF RetireRuns
<1>5. tracked' \in {Untracked} \cup States /\ trouble' \in 0..MaxTrouble
  BY <1>1, <1>4 DEF Typed
<1>6. live # NoCall => tracked' # Untracked /\ tracked'.owner = live
  <2>1. live # c
    BY <1>1, <1>3 DEF LiveOwns
  <2> QED BY <2>1, <1>1, <1>4 DEF LiveOwns
<1>7. \/ tracked' = tracked
      \/ \A d \in Calls : call[d].pc \in {"committed", "holding"} => ~Claims(d)
  BY <1>1, <1>3, <1>4 DEF Committed, Claims
<1>8. chain[1].kind \in Leaving
  BY <1>2 DEF Leaving
<1> QED BY <1>2, <1>4, <1>5, <1>6, <1>7, <1>8, Unretires

\* The call that holds the entry publishes it.
LEMMA PublishKeeps ==
    ASSUME PoolInv, NEW c \in Calls, Publish(c)
    PROVE  PoolInv'
<1> USE PreparationsAssumption
<1> DEFINE r == [At(c, "live") EXCEPT !.entry = NoEntry]
<1>1. /\ Typed /\ Serial /\ Once /\ PoolFollowsChain /\ CommitsFollowPool /\ Held
      /\ Joined /\ Committed /\ UnderWay /\ LiveOwns
  BY DEF PoolInv
<1>2. /\ call[c].pc = "holding" /\ call[c].kind = "prepare" /\ live = NoCall /\ live' = c
      /\ tracked' = [tracked EXCEPT !.owner = c]
      /\ Remove(call[c].entry, Put(c, r))
      /\ stored' = stored /\ retiring' = retiring /\ chain' = chain /\ trouble' = trouble
  BY DEF Publish
<1>3. /\ call[c].entry = pool.entry /\ pool.phase = "reserved" /\ Claims(c)
      /\ \A d \in Calls : Claims(d) => d = c
  BY <1>1, <1>2 DEF Held, Claims, Claiming
<1>4. tracked \in States /\ tracked.owner = NoCall
  BY <1>1, <1>2, <1>3 DEF Committed, Typed
<1>5. /\ tracked' \in States /\ tracked'.owner = c /\ tracked' # Untracked
  BY <1>2, <1>4 DEF States
<1>6. r \in CallRecords /\ r.pc = "live" /\ r.kind = "prepare" /\ r.entry = NoEntry
  <2>1. call[c] \in CallRecords
    BY <1>1 DEF Typed
  <2>2. r = [call[c] EXCEPT !.pc = "live", !.entry = NoEntry]
    BY <2>1 DEF At, CallRecords
  <2> QED BY <2>1, <2>2, <1>2 DEF CallRecords, Places
<1> HIDE DEF r
<1>7. /\ pool' = NoPool /\ call' \in [Calls -> CallRecords] /\ call'[c] = r
      /\ \A d \in Calls : d # c =>
            \/ call'[d] = call[d] /\ call[d].pc # "waiting"
            \/ /\ call[d].pc = "waiting" /\ call'[d].pc = "loaded"
               /\ call'[d].entry = call[d].entry /\ call'[d].kind = call[d].kind
  <2> DEFINE calls == Put(c, r)
  <2>1. calls \in [Calls -> CallRecords] /\ calls[c] = r /\ \A d \in Calls : d # c => calls[d] = call[d]
    BY <1>1, <1>6 DEF Typed, Put
  <2>2. pool' = NoPool /\ call' = Released(calls, pool.entry)
    BY <1>2, <1>3 DEF Remove
  <2> HIDE DEF calls
  <2>3. \A d \in Calls : call[d].pc = "waiting" => call[d].entry = pool.entry
    BY <1>1 DEF Joined, JoinedAt
  <2> QED BY <2>1, <2>2, <2>3, <1>6 DEF Released, CallRecords, Places
<1>8. Typed'
  <2>1. NoPool \in Pools
    BY DEF NoPool, Pools
  <2> QED BY <2>1, <1>1, <1>2, <1>5, <1>7 DEF Typed
<1>9. /\ pool'.phase = "none" /\ pool'.entry = NoEntry
  BY <1>7 DEF NoPool
<1>10. \A d \in Calls : /\ call[d].pc \in Claiming /\ d # c => call'[d] = call[d]
                        /\ call'[d].pc \in Claiming => d # c /\ call'[d] = call[d]
                        /\ call[d].pc = "retiring" => call'[d].pc = "retiring"
  BY <1>2, <1>6, <1>7 DEF Claiming
<1>11. \A i \in 1..Len(chain) : chain[i].kind # "load" => chain[i].call \in Calls
  BY <1>1 DEF Serial, WellFormed
<1>12. \A i \in 1..Len(chain) : chain[i].kind = "commit" => chain[i].call # c
  BY <1>1, <1>2 DEF CommitsFollowPool
<1>13. Serial'
  BY <1>1, <1>2, <1>10, <1>11 DEF Serial, Leaving, WellFormed, Started
<1>14. Once'
  BY <1>1, <1>2 DEF Once, Twice
<1>15. PoolFollowsChain'
  BY <1>7, <1>9 DEF PoolFollowsChain, Settled, NoPool
<1>16. CommitsFollowPool'
  <2> SUFFICES ASSUME NEW i \in 1..Len(chain), chain[i].kind = "commit"
      PROVE  \/ /\ call'[chain[i].call].pc = "committing"
                /\ call'[chain[i].call].entry = chain[i].entry
                /\ chain[i].source \in Logs
             \/ call'[chain[i].call].pc \in {"threw", "done"} /\ chain[i].at = "queued"
    BY <1>2, <1>9 DEF CommitsFollowPool, Settled
  <2> DEFINE d == chain[i].call
  <2>1. d \in Calls /\ d # c
    BY <1>11, <1>12
  <2>2. \/ call[d].pc = "committing" /\ call[d].entry = chain[i].entry /\ chain[i].source \in Logs
        \/ call[d].pc \in {"threw", "done"} /\ chain[i].at = "queued"
    BY <1>1 DEF CommitsFollowPool
  <2>3. call'[d] = call[d]
    BY <2>1, <2>2, <1>7
  <2> QED BY <2>2, <2>3
<1>17. Held'
  <2>1. \A d \in Calls : call'[d].pc \in Claiming =>
           /\ call[d].pc \in Claiming /\ call'[d] = call[d] /\ call[d].entry # NoEntry
           /\ call[d].pc # "holding"
    <3> SUFFICES ASSUME NEW d \in Calls, call'[d].pc \in Claiming
        PROVE  /\ call[d].pc \in Claiming /\ call'[d] = call[d] /\ call[d].entry # NoEntry
               /\ call[d].pc # "holding"
      OBVIOUS
    <3>1. d # c /\ call'[d] = call[d]
      BY <1>10
    <3> QED BY <3>1, <1>1, <1>3 DEF Held, Claims
  <2> QED BY <2>1, <1>1, <1>9 DEF Held, Claims
<1>18. Joined'
  <2> SUFFICES ASSUME NEW d \in Calls PROVE JoinedAt(d)'
    BY DEF Joined
  <2>1. JoinedAt(d)
    BY <1>1 DEF Joined
  <2>2. CASE d = c
    BY <2>2, <1>6, <1>7 DEF JoinedAt
  <2>3. CASE call'[d] = call[d] /\ call[d].pc # "waiting"
    BY <2>1, <2>3, <1>2, <1>9 DEF JoinedAt, Loads
  <2>4. CASE /\ call[d].pc = "waiting" /\ call'[d].pc = "loaded"
             /\ call'[d].entry = call[d].entry /\ call'[d].kind = call[d].kind
    BY <2>1, <2>4, <1>9 DEF JoinedAt
  <2> QED BY <2>2, <2>3, <2>4, <1>7
<1>19. Committed'
  BY <1>9, <1>10, <1>17 DEF Committed, Held, Claiming
<1>20. UnderWay'
  <2> SUFFICES ASSUME NEW i \in 1..Len(chain)
      PROVE  /\ chain[i].at = "started" =>
                   /\ call'[chain[i].call].pc = "committing"
                   /\ tracked' = Untracked \/ tracked'.owner = NoCall
             /\ chain[i].at \in {"adopt", "adopted"} => tracked' = Untracked
             /\ chain[i].at = "write" => tracked' # Untracked
             /\ Started(chain[i]) => \A d \in Calls :
                   call'[d].pc \in {"committed", "holding"} => call'[d].entry # pool'.entry
    BY <1>2 DEF UnderWay, Started
  <2>1. chain[i].at # "started"
    <3> SUFFICES ASSUME chain[i].at = "started" PROVE FALSE
      OBVIOUS
    <3>1. /\ chain[i].kind = "commit" /\ chain[i].call \in Calls
          /\ call[chain[i].call].pc = "committing"
      BY <1>1 DEF UnderWay, Serial, WellFormed
    <3>2. chain[i].entry = pool.entry /\ call[chain[i].call].entry = chain[i].entry
      BY <3>1, <1>1, <1>3 DEF CommitsFollowPool, Commits, Settled
    <3>3. Claims(chain[i].call)
      BY <3>1, <3>2 DEF Claims, Claiming
    <3> QED BY <3>1, <3>3, <1>2, <1>3
  <2>2. ~Started(chain[i])
    BY <1>1, <1>2, <1>3 DEF UnderWay
  <2> QED BY <2>1, <2>2 DEF Started
<1>21. LiveOwns'
  <2>1. \A d \in Calls : call'[d].pc = "live" <=> d = c
    BY <1>1, <1>2, <1>6, <1>7 DEF LiveOwns
  <2> QED BY <2>1, <1>2, <1>5, <1>7 DEF LiveOwns
<1> QED BY <1>8, <1>13, <1>14, <1>15, <1>16, <1>17, <1>18, <1>19, <1>20, <1>21 DEF PoolInv

\* The live session is disposed.
LEMMA DisposeKeeps ==
    ASSUME PoolInv, NEW c \in Calls, Dispose(c)
    PROVE  PoolInv'
<1> USE PreparationsAssumption
<1>1. /\ Typed /\ Serial /\ Once /\ PoolFollowsChain /\ CommitsFollowPool /\ Held
      /\ Joined /\ Committed /\ UnderWay /\ LiveOwns
  BY DEF PoolInv
<1>2. PICK kind \in {"drain", "retire"} : chain' = Append(chain, Op(kind, c, NoEntry, NoSource))
  BY DEF Dispose
<1> DEFINE o == Op(kind, c, NoEntry, NoSource)
           r == At(c, "retiring")
<1>3. /\ o \in Ops /\ o.kind = kind /\ o.call = c /\ o.at = "queued"
  BY DEF Op, Ops
<1>4. /\ live = c /\ live' = NoCall /\ retiring' = TRUE /\ call' = Put(c, r)
      /\ stored' = stored /\ tracked' = tracked /\ pool' = pool /\ trouble' = trouble
  BY DEF Dispose
<1>5. call[c].pc = "live" /\ pool = NoPool /\ tracked # Untracked /\ tracked.owner = c /\ c # NoCall
  BY <1>1, <1>4 DEF LiveOwns
<1>6. r \in CallRecords /\ r.pc = "retiring" /\ r.kind = call[c].kind
  BY <1>1, AtTyped DEF Places
<1> HIDE DEF o, r
<1>7. /\ call' \in [Calls -> CallRecords] /\ call'[c] = r
      /\ \A d \in Calls : d # c => call'[d] = call[d]
  BY <1>1, <1>4, <1>6, PutCall
<1>8. PICK new : new = {o}
  OBVIOUS
<1>9. Became(0, new) /\ Keeps(0) /\ (chain # <<>> => chain'[1] = chain[1])
  BY <1>1, <1>2, <1>3, <1>8, ChainAppend DEF o
<1>10. Typed'
  BY <1>1, <1>4, <1>7, <1>9 DEF Typed, Became
<1>11. \A i \in 1..Len(chain) : chain[i].kind # "load" => chain[i].call \in Calls
  BY <1>1 DEF Serial, WellFormed
<1>12. \A i \in 1..Len(chain) : ~(chain[i].kind \in Leaving /\ chain[i].call = c)
  BY <1>1, <1>5 DEF Serial
<1>13. Serial'
  <2>1. \A op \in new : /\ op.at = "queued" /\ WellFormed(op)
                        /\ op.kind \in Leaving => call'[op.call].pc = "retiring"
    BY <1>3, <1>6, <1>7, <1>8 DEF WellFormed, Started
  <2>2. \A i \in 1..Len(chain) : chain[i].kind \in Leaving => call'[chain[i].call].pc = "retiring"
    BY <1>1, <1>7, <1>11, <1>12 DEF Serial, Leaving
  <2>3. chain # <<>> => WellFormed(chain'[1])
    BY <1>1, <1>9 DEF Serial, Typed
  <2> QED BY <2>1, <2>2, <2>3, <1>1, <1>9, SerialStep
<1>14. Once'
  <2>1. \A op \in new : \A i \in 1..Len(chain) : ~Twice(op, chain[i])
    BY <1>3, <1>8, <1>12 DEF Twice, Leaving
  <2> QED BY <2>1, <1>1, <1>9, OnceStep
<1>15. PoolFollowsChain'
  BY <1>4, <1>5 DEF PoolFollowsChain, Settled, NoPool
<1>16. CommitsFollowPool'
  <2>1. \A i \in 1..Len(chain) : i > 0 /\ chain[i].kind = "commit" =>
              \/ /\ call'[chain[i].call].pc = call[chain[i].call].pc
                 /\ call'[chain[i].call].entry = call[chain[i].call].entry
              \/ call'[chain[i].call].pc \in {"threw", "done"} /\ chain[i].at = "queued"
    <3> SUFFICES ASSUME NEW i \in 1..Len(chain), chain[i].kind = "commit"
                 PROVE  call'[chain[i].call] = call[chain[i].call]
      OBVIOUS
    <3>1. chain[i].call \in Calls /\ chain[i].call # c
      BY <1>1, <1>5, <1>11 DEF CommitsFollowPool
    <3> QED BY <3>1, <1>7
  <2>2. \A op \in new : op.kind # "commit"
    BY <1>3, <1>8
  <2>3. pool'.phase = "none"
    BY <1>4, <1>5 DEF NoPool
  <2>4. chain # <<>> => chain'[1].at = chain[1].at
    BY <1>9
  <2>5. pool'.phase # "loading" /\ pool'.phase \notin Settled
    BY <2>3 DEF Settled
  <2> QED BY <2>1, <2>2, <2>4, <2>5, <1>1, <1>9, CommitsStep
<1>17. Held'
  <2>1. \A d \in Calls : call'[d].pc \in Claiming => call'[d] = call[d]
    BY <1>6, <1>7 DEF Claiming
  <2> QED BY <2>1, <1>1, <1>4, <1>5 DEF Held, Claims, NoPool
<1>18. Joined'
  <2> SUFFICES ASSUME NEW d \in Calls PROVE JoinedAt(d)'
    BY DEF Joined
  <2>1. JoinedAt(d)
    BY <1>1 DEF Joined
  <2>2. CASE d = c
    BY <2>1, <2>2, <1>5, <1>6, <1>7 DEF JoinedAt
  <2>3. CASE d # c
    <3>1. call'[d] = call[d]
      BY <2>3, <1>7
    <3>2. ASSUME call[d].pc = "loading"
          PROVE  \E i \in 1..Len(chain') : Loads(chain'[i], call[d].entry)
      <4>1. \E i \in 1..Len(chain) : Loads(chain[i], call[d].entry)
        BY <2>1, <3>2 DEF JoinedAt
      <4>2. PICK i \in 1..Len(chain) : Loads(chain[i], call[d].entry)
        BY <4>1
      <4>3. i > 0 /\ i - 0 = i
        BY <1>1 DEF Typed
      <4>4. i \in 1..Len(chain') /\ Same(chain'[i], chain[i])
        BY <4>3, <1>9 DEF Keeps
      <4> QED BY <4>2, <4>4 DEF Loads, Same
    <3> QED BY <2>1, <3>1, <3>2, <1>4 DEF JoinedAt, Loads
  <2> QED BY <2>2, <2>3
<1>19. \A d \in Calls : call'[d].pc \in {"committed", "holding"} => call'[d].entry # pool'.entry
  BY <1>4, <1>5, <1>6, <1>7, <1>17 DEF Held, Claiming, NoPool
<1>20. Committed'
  BY <1>19 DEF Committed
<1>21. UnderWay'
  <2> SUFFICES ASSUME NEW i \in 1..Len(chain'), chain'[i].at # "queued"
      PROVE  /\ chain'[i].at = "started" =>
                   /\ call'[chain'[i].call].pc = "committing"
                   /\ tracked' = Untracked \/ tracked'.owner = NoCall
             /\ chain'[i].at \in {"adopt", "adopted"} => tracked' = Untracked
             /\ chain'[i].at = "write" => tracked' # Untracked
             /\ Started(chain'[i]) => \A d \in Calls :
                   call'[d].pc \in {"committed", "holding"} => call'[d].entry # pool'.entry
    BY DEF UnderWay, Started
  <2>1. i = 1 /\ chain # <<>> /\ 1 \in 1..Len(chain)
    <3>1. Len(chain) \in Nat /\ Len(chain') \in Nat
      BY <1>1, <1>10 DEF Typed
    <3>2. chain'[i] \notin new
      BY <1>3, <1>8
    <3> QED BY <3>1, <3>2, <1>1, <1>9, <1>13 DEF Serial, Became, Typed
  <2>2. chain'[i] = chain[1]
    BY <2>1, <1>9
  <2>3. /\ chain[1].at = "started" => tracked = Untracked \/ tracked.owner = NoCall
        /\ chain[1].at \in {"adopt", "adopted"} => tracked = Untracked
        /\ chain[1].at = "write" => tracked # Untracked
    BY <2>1, <1>1 DEF UnderWay
  <2> QED BY <2>2, <2>3, <1>4, <1>5, <1>19
<1>22. LiveOwns'
  BY <1>1, <1>4, <1>6, <1>7 DEF LiveOwns
<1> QED BY <1>10, <1>13, <1>14, <1>15, <1>16, <1>17, <1>18, <1>20, <1>21, <1>22 DEF PoolInv

\* A coordinator nobody has called has the invariant.
LEMMA InitHolds ==
    ASSUME Init PROVE PoolInv
<1> USE PreparationsAssumption
<1>1. Typed
  <2>1. stored \in Logs
    BY DEF Init, Logs
  <2>2. pool \in Pools /\ call \in [Calls -> CallRecords]
    BY DEF Init, NoPool, Pools, Out, CallRecords, Places
  <2>3. chain \in Seq(Ops)
    BY DEF Init
  <2>4. tracked = Untracked /\ live = NoCall /\ retiring = FALSE /\ trouble = MaxTrouble
    BY DEF Init
  <2>5. trouble \in 0..MaxTrouble
    BY <2>4
  <2> QED BY <2>1, <2>2, <2>3, <2>4, <2>5 DEF Typed
<1>2. /\ chain = <<>> /\ pool = NoPool /\ tracked = Untracked /\ live = NoCall
      /\ \A c \in Calls : call[c].pc = "idle" /\ call[c].kind = "none"
  BY DEF Init, Out
<1>3. \A i \in 1..Len(chain) : FALSE
  BY <1>2
<1>4. Serial /\ Once /\ CommitsFollowPool /\ UnderWay
  BY <1>3 DEF Serial, Once, CommitsFollowPool, UnderWay
<1>5. PoolFollowsChain
  BY <1>2 DEF PoolFollowsChain, NoPool, Settled
<1>6. Held /\ Joined /\ Committed /\ LiveOwns
  BY <1>2 DEF Held, Claims, Claiming, Joined, JoinedAt, Committed, LiveOwns, NoPool
<1> QED BY <1>1, <1>4, <1>5, <1>6 DEF PoolInv

\* A step of others keeps it.
LEMMA StutterKeeps ==
    ASSUME PoolInv, UNCHANGED vars PROVE PoolInv'
<1>1. Typed
  BY DEF PoolInv
<1>2. Became(0, {}) /\ Keeps(0) /\ Typed'
  BY <1>1, ChainSame DEF vars, Typed
<1>3. \A d \in Calls : Stays(d)
  BY DEF vars, Stays
<1>4. chain # <<>> => chain'[1].at = chain[1].at
  BY DEF vars
<1> QED BY <1>2, <1>3, <1>4, ReadyDropped DEF vars

\* Every step keeps it.
LEMMA NextKeeps ==
    ASSUME PoolInv, [Next]_vars PROVE PoolInv'
<1>1. CASE Operations
  BY <1>1, LoadRunsKeeps, CommitStartsKeeps, CommitDecidesKeeps, CheckRunsKeeps,
     AppendStartsKeeps, AdoptReadsKeeps, AdoptCommitsKeeps, AppendWritesKeeps,
     RetireRunsKeeps DEF Operations
<1>2. ASSUME NEW c \in Calls, NEW kind \in Kinds[c] \ {"append"}, Begin(c, kind)
      PROVE  PoolInv'
  BY <1>2, BeginKeeps
<1>3. ASSUME NEW c \in Calls, Continues(c) PROVE PoolInv'
  BY <1>3, ProceedKeeps, ReserveLooksKeeps, ReserveReturnsKeeps, InspectLooksKeeps,
     StaleDecidesKeeps, LoadReturnsKeeps DEF Continues
<1>4. ASSUME NEW c \in Calls, Ends(c) PROVE PoolInv'
  BY <1>4, PublishKeeps, ReleaseKeeps DEF Ends
<1>5. ASSUME NEW c \in Calls, BeginAppend(c) \/ LiveWrite(c) \/ Dispose(c) \/ Abort(c)
      PROVE  PoolInv'
  BY <1>5, BeginAppendKeeps, LiveWriteKeeps, DisposeKeeps, AbortKeeps
<1>6. CASE ForeignWrite \/ Evict
  BY <1>6, ForeignWriteKeeps, EvictKeeps
<1>7. CASE UNCHANGED vars
  BY <1>7, StutterKeeps
<1> QED BY <1>1, <1>2, <1>3, <1>4, <1>5, <1>6, <1>7 DEF Next

-----------------------------------------------------------------------------
(* What the invariant says. *)

\* It implies the invariant the runs check.
LEMMA InvSuffices ==
    ASSUME PoolInv PROVE PreparationInv
<1>1. /\ Typed /\ PoolFollowsChain /\ Held /\ Joined /\ Committed /\ LiveOwns
  BY DEF PoolInv
<1>2. TypeOK
  BY <1>1 DEF TypeOK, Typed, Pools, CallRecords, Places, States
<1>3. \A c \in Calls : c \in Holders <=> Claims(c)
  BY DEF Holders, Claims, Claiming
<1>4. OneHolder
  <2>1. Holders # {} => pool.phase \in {"committing", "reserved"}
    BY <1>1 DEF Holders, Held, Claiming
  <2>2. pool.phase \in {"committing", "reserved"} => Holders # {}
    BY <1>1, <1>3 DEF Held
  <2>3. \A c, d \in Holders : c = d
    BY <1>1, <1>3 DEF Held, Holders
  <2>4. \A c \in Calls : call[c].pc = "holding" => c \in Holders /\ pool.phase = "reserved"
    BY <1>1, <1>3 DEF Held, Claims, Claiming
  <2> QED BY <2>1, <2>2, <2>3, <2>4 DEF OneHolder
<1>5. NobodyStranded
  BY <1>1 DEF NobodyStranded, Joined, JoinedAt, Loads
<1>6. HeldIsDurable
  BY <1>1 DEF HeldIsDurable, Committed, Held, Claiming
<1> QED BY <1>1, <1>2, <1>4, <1>5, <1>6 DEF PreparationInv

(* Whatever calls overlap, and whatever is evicted, fails or is written by others *)
(* meanwhile: an entry has one holder, nobody waits for an entry that nobody      *)
(* settles, what is held for publication is the durable log, and a live session   *)
(* owns it alone.                                                                *)
THEOREM PreparationsSafe == Spec => []PreparationInv
<1>1. Init => PoolInv
  BY InitHolds
<1>2. PoolInv /\ [Next]_vars => PoolInv'
  BY NextKeeps
<1>3. PoolInv => PreparationInv
  BY InvSuffices
<1> QED BY <1>1, <1>2, <1>3, PTL DEF Spec

-----------------------------------------------------------------------------
(* The refinement: every step is one of ExclusiveSession's, or none. *)

\* Who owns the log by this.states.
LogOwner == IF tracked = Untracked THEN NoCall ELSE tracked.owner

Holding == {c \in Calls : call[c].pc = "holding"}

\* The abstract state, from who holds, is live and owns the log.
View ==
    /\ \A c \in Holding : /\ ModeOfLog = "reserved" /\ OwnerOfLog = c
                          /\ Holding = {c} /\ live = NoCall /\ LogOwner = NoCall
    /\ Holding = {} =>
          /\ OwnerOfLog = LogOwner
          /\ live # NoCall => ModeOfLog = "live" /\ LogOwner = live
          /\ live = NoCall /\ LogOwner # NoCall => ModeOfLog = "retiring"
          /\ live = NoCall /\ LogOwner = NoCall => ModeOfLog = "free"

\* It implies what the exclusive session needs to see.
LEMMA ViewHolds == PoolInv => View
<1> SUFFICES ASSUME PoolInv PROVE View
  OBVIOUS
<1>1. Typed /\ Held /\ Committed /\ LiveOwns
  BY DEF PoolInv
<1>2. ASSUME NEW c \in Holding
      PROVE  /\ ModeOfLog = "reserved" /\ OwnerOfLog = c
             /\ Holding = {c} /\ live = NoCall /\ LogOwner = NoCall
  <2>1. /\ c \in Calls /\ call[c].pc = "holding" /\ call[c].entry = pool.entry
        /\ pool.phase = "reserved" /\ Claims(c)
    BY <1>1 DEF Held, Claims, Claiming, Holding
  <2>2. \A d \in Calls : Claims(d) => d = c
    BY <1>1, <2>1 DEF Held
  <2>3. Holders = {c}
    BY <2>1, <2>2 DEF Holders, Claims, Claiming
  <2>4. live = NoCall
    BY <1>1, <2>1 DEF LiveOwns, NoPool
  <2>6. OwnerOfLog = c /\ ModeOfLog = "reserved"
    <3>1. (CHOOSE d \in Holders : TRUE) \in Holders
      BY <2>3
    <3>2. OwnerOfLog = (CHOOSE d \in Holders : TRUE)
      BY <2>1 DEF OwnerOfLog
    <3>3. OwnerOfLog \in Holders
      BY <3>1, <3>2
    <3>4. ModeOfLog = "reserved"
      BY <2>1, <2>4 DEF ModeOfLog
    <3> QED BY <2>3, <3>3, <3>4
  <2>5. Holding = {c}
    BY <1>1, <2>1, <2>2 DEF Holding, Held, Claims, Claiming
  <2>7. LogOwner = NoCall
    BY <1>1, <2>1 DEF Committed, LogOwner
  <2> QED BY <2>4, <2>5, <2>6, <2>7
<1>3. ASSUME Holding = {}
      PROVE  /\ OwnerOfLog = LogOwner
             /\ live # NoCall => ModeOfLog = "live" /\ LogOwner = live
             /\ live = NoCall /\ LogOwner # NoCall => ModeOfLog = "retiring"
             /\ live = NoCall /\ LogOwner = NoCall => ModeOfLog = "free"
  <2>1. pool.phase # "reserved"
    BY <1>1, <1>3 DEF Held, Claims, Claiming, Holding
  <2>2. OwnerOfLog = LogOwner
    BY <2>1 DEF OwnerOfLog, LogOwner
  <2>3. live # NoCall => LogOwner = live
    BY <1>1 DEF LiveOwns, LogOwner
  <2> QED BY <2>1, <2>2, <2>3 DEF ModeOfLog
<1> QED BY <1>2, <1>3 DEF View

HeldStill == \A d \in Calls : call'[d].pc = "holding" <=> call[d].pc = "holding"

\* A call that neither holds nor comes to hold leaves the holders as they are.
LEMMA PutStill ==
    ASSUME Typed, NEW c \in Calls, NEW r, call' = Put(c, r),
           call[c].pc # "holding", r.pc # "holding"
    PROVE  HeldStill
BY DEF Typed, Put, HeldStill

\* The pool releases waiters only.
LEMMA PoolStill ==
    ASSUME NEW e, NEW calls \in [Calls -> CallRecords],
           Remove(e, calls) \/ MakeReady(e, calls)
    PROVE  \A d \in Calls : call'[d].pc = "holding" <=> calls[d].pc = "holding"
<1>1. call' \in {calls, Released(calls, e)}
  BY DEF Remove, MakeReady
<1>2. CASE call' = calls
  BY <1>2
<1>3. CASE call' = Released(calls, e)
  BY <1>3 DEF Released, CallRecords
<1> QED BY <1>1, <1>2, <1>3

Stutter == UNCHANGED <<ModeOfLog, OwnerOfLog, stored.own>>

\* Where the holders, the owner and the own log stay, the exclusive session
\* stutters.
LEMMA Unseen ==
    ASSUME View, View', HeldStill, live' = live, LogOwner' = LogOwner, stored'.own = stored.own
    PROVE  Stutter
<1>1. Holding' = Holding
  BY DEF HeldStill, Holding
<1>2. CASE Holding = {}
  BY <1>1, <1>2 DEF View, Stutter
<1>3. CASE Holding # {}
  BY <1>1, <1>3 DEF View, Stutter
<1> QED BY <1>2, <1>3

\* A write of the own log is a write of the exclusive session.
LEMMA WriteSeen ==
    ASSUME View, View', HeldStill, live' = live, LogOwner' = LogOwner,
           Holding = {}, stored'.own = stored.own + 1
    PROVE  ES!Next
<1>1. Holding' = {}
  BY DEF HeldStill, Holding
<1>2. ModeOfLog' = ModeOfLog /\ OwnerOfLog' = OwnerOfLog /\ ModeOfLog # "reserved"
  BY <1>1 DEF View
<1> QED BY <1>2 DEF ES!Next, ES!Write

Steps == ES!Next \/ Stutter

\* The chain and the calls that wait for shared work.
LEMMA OperationsSeen ==
    ASSUME PoolInv, View, View', Operations
    PROVE  Steps
<1> USE PreparationsAssumption
<1>1. Typed /\ Serial /\ CommitsFollowPool /\ Held /\ Joined /\ UnderWay /\ LiveOwns /\ Committed
      /\ call \in [Calls -> CallRecords]
  BY DEF PoolInv, Typed
<1>2. Out("done").pc = "done"
  BY DEF Out
<1>3. ASSUME NEW c \in Calls, NEW pc \in Places \ {"holding"},
             call[c].pc # "holding", call' = Put(c, At(c, pc))
      PROVE  HeldStill
  <2>1. At(c, pc).pc = pc
    BY <1>1, AtTyped
  <2> QED BY <2>1, <1>1, <1>3, PutStill
<1>4. ASSUME NEW c \in Calls, call[c].pc # "holding", call' = Put(c, Out("done"))
      PROVE  HeldStill
  BY <1>1, <1>2, <1>4, PutStill
<1>5. call' = call => HeldStill
  BY DEF HeldStill
<1>6. Repaired => stored'.own = stored.own + 1
  <2>1. stored \in Logs
    BY <1>1 DEF Typed
  <2> QED BY <2>1 DEF Repaired, Logs
<1>7. \A source : Established(source) => LogOwner' = NoCall
  <2> SUFFICES ASSUME NEW source, Established(source) PROVE LogOwner' = NoCall
    OBVIOUS
  <2>1. tracked'.owner = NoCall
    BY DEF Established
  <2> QED BY <2>1 DEF LogOwner
<1>8. tracked' = tracked => LogOwner' = LogOwner
  BY DEF LogOwner
<1>9. chain # <<>> => Head(chain) = chain[1] /\ 1 \in 1..Len(chain)
  BY <1>1 DEF Typed
<1>10. CASE LoadRuns
  <2> DEFINE e == Head(chain).entry
             Joins(d) == call[d].pc = "loading" /\ call[d].entry = e
  <2>1. UNCHANGED <<stored, tracked, live>>
    BY <1>10 DEF LoadRuns, state
  <2>2. CASE call' = [d \in Calls |->
                        IF Joins(d)
                        THEN [At(d, "loaded") EXCEPT
                                !.source = IF call[d].kind = "inspect" THEN stored ELSE NoSource]
                        ELSE call[d]]
    <3>1. \A d \in Calls : Joins(d) => call'[d].pc = "loaded" /\ call[d].pc = "loading"
      <4>1. \A d \in Calls : At(d, "loaded") \in CallRecords /\ At(d, "loaded").pc = "loaded"
        BY <1>1, AtTyped DEF Places
      <4> QED BY <2>2, <4>1 DEF CallRecords
    <3> QED BY <2>1, <2>2, <3>1, <1>8, Unseen DEF HeldStill, Steps
  <2>3. CASE Remove(e, [d \in Calls |-> IF Joins(d) THEN Out("done") ELSE call[d]])
    <3> DEFINE calls == [d \in Calls |-> IF Joins(d) THEN Out("done") ELSE call[d]]
    <3>1. /\ calls \in [Calls -> CallRecords]
          /\ \A d \in Calls : calls[d].pc = "holding" <=> call[d].pc = "holding"
      BY <1>1, OutTyped
    <3> HIDE DEF calls
    <3>2. \A d \in Calls : call'[d].pc = "holding" <=> calls[d].pc = "holding"
      BY <2>3, <3>1, PoolStill DEF calls
    <3>3. HeldStill
      BY <3>1, <3>2 DEF HeldStill
    <3> QED BY <2>1, <3>3, <1>8, Unseen DEF Steps
  <2> QED BY <1>10, <2>2, <2>3 DEF LoadRuns
<1>11. CASE CommitStarts
  <2>1. UNCHANGED <<stored, tracked, live>> /\ chain # <<>> /\ chain[1].call \in Calls
    BY <1>1, <1>9, <1>11 DEF CommitStarts, state, Head1, Serial, WellFormed
  <2>2. HeldStill
    BY <1>3, <1>5, <1>9, <1>11, <2>1 DEF CommitStarts, Places
  <2> QED BY <2>1, <2>2, <1>8, Unseen DEF Steps
<1>12. CASE CommitDecides
  <2>1. PICK c \in Calls : c = chain[1].call
    BY <1>1, <1>9, <1>12 DEF CommitDecides, Head1, Serial, WellFormed
  <2>2. /\ chain[1].kind = "commit" /\ chain[1].at = "started" /\ Head(chain) = chain[1]
        /\ 1 \in 1..Len(chain) /\ live' = live
    BY <1>9, <1>12 DEF CommitDecides, Head1
  <2>3. /\ call[c].pc = "committing" /\ LogOwner = NoCall
        /\ call[c].entry = chain[1].entry
        /\ pool.phase \in Settled => chain[1].entry = pool.entry
    BY <1>1, <2>1, <2>2 DEF UnderWay, LogOwner, CommitsFollowPool, Commits
  <2>4. \E pc \in {"threw", "refused", "committed"} : call' = Put(c, At(c, pc))
    BY <1>12, <2>1, <2>2 DEF CommitDecides
  <2>5. HeldStill
    BY <1>3, <2>3, <2>4 DEF Places
  <2>6. Holding = {}
    <3> SUFFICES ASSUME NEW d \in Holding PROVE FALSE
      OBVIOUS
    <3>1. d \in Calls /\ call[d].pc = "holding" /\ Claims(d) /\ pool.phase = "reserved"
      BY <1>1 DEF Holding, Held, Claims, Claiming
    <3>2. Claims(c)
      BY <3>1, <2>3 DEF Claims, Claiming, Settled
    <3> QED BY <3>1, <3>2, <2>3, <1>1 DEF Held
  <2>7. \/ tracked' = tracked /\ stored' = stored
        \/ tracked' = tracked /\ Repaired
        \/ stored' = stored /\ Established(chain[1].source)
    BY <1>12, <2>2 DEF CommitDecides
  <2>8. LogOwner' = LogOwner
    BY <2>3, <2>7, <1>7, <1>8
  <2>9. CASE stored' = stored
    BY <2>2, <2>5, <2>8, <2>9, Unseen DEF Steps
  <2>10. CASE Repaired
    BY <2>2, <2>5, <2>6, <2>8, <2>10, <1>6, WriteSeen DEF Steps
  <2> QED BY <2>7, <2>9, <2>10
<1>13. CASE CheckRuns
  <2>1. UNCHANGED <<stored, tracked, live>> /\ chain # <<>> /\ chain[1].call \in Calls
    BY <1>1, <1>9, <1>13 DEF CheckRuns, state, Head1, Serial, WellFormed
  <2>2. \/ call' = call
        \/ /\ call[chain[1].call].pc = "checking"
           /\ \/ call' = Put(chain[1].call, Out("done"))
              \/ call' = Put(chain[1].call, At(chain[1].call, "stale"))
    BY <1>9, <1>13, <2>1 DEF CheckRuns
  <2>3. HeldStill
    BY <1>3, <1>4, <1>5, <2>1, <2>2 DEF Places
  <2> QED BY <2>1, <2>3, <1>8, Unseen DEF Steps
\* the append in front
<1>14. Appending => /\ chain # <<>> /\ Head(chain) = chain[1] /\ chain[1].call \in Calls
                    /\ call[chain[1].call].kind = "append" => call[chain[1].call].pc = "appending"
                    /\ chain[1].kind = "drain" => call[chain[1].call].pc = "retiring"
                    /\ chain[1].at # "queued" => Holding = {}
                    /\ chain[1].kind \in {"append", "drain"}
  <2> SUFFICES ASSUME Appending
               PROVE  /\ chain # <<>> /\ Head(chain) = chain[1] /\ chain[1].call \in Calls
                      /\ call[chain[1].call].kind = "append" => call[chain[1].call].pc = "appending"
                      /\ chain[1].kind = "drain" => call[chain[1].call].pc = "retiring"
                      /\ chain[1].at # "queued" => Holding = {}
                      /\ chain[1].kind \in {"append", "drain"}
    OBVIOUS
  <2>1. /\ chain # <<>> /\ Head(chain) = chain[1] /\ chain[1].call \in Calls
        /\ chain[1].kind \in {"append", "drain"} /\ 1 \in 1..Len(chain)
        /\ (chain[1].at # "queued" => \A d \in Calls : call[d].pc # "holding")
    BY AppendInFront
  <2>2. chain[1].at # "queued" => Holding = {}
    BY <2>1 DEF Holding
  <2>3. call[chain[1].call].kind = "append" => call[chain[1].call].pc = "appending"
    BY <1>1, <2>1 DEF Joined, JoinedAt
  <2>4. chain[1].kind = "drain" => call[chain[1].call].pc = "retiring"
    BY <1>1, <2>1 DEF Serial, Leaving
  <2> QED BY <2>1, <2>2, <2>3, <2>4
<1>15. \A ok \in BOOLEAN : Appending /\ AppendSettles(ok) => HeldStill
  <2> SUFFICES ASSUME NEW ok \in BOOLEAN, Appending, AppendSettles(ok) PROVE HeldStill
    OBVIOUS
  <2>1. PICK c \in Calls : c = chain[1].call
    BY <1>14
  <2> DEFINE after == IF call[c].kind = "append" THEN Put(c, Out("done")) ELSE call
  <2>2. /\ after \in [Calls -> CallRecords]
        /\ \A d \in Calls : after[d].pc = "holding" <=> call[d].pc = "holding"
    BY <1>1, <1>2, <1>14, <2>1, OutTyped DEF Put
  <2>3. \/ call' = after
        \/ call' = Unparked(Put(c, Out("done"))) /\ call[c].pc = "retiring"
        \/ Remove(pool.entry, call)
        \/ Remove(pool.entry, after)
    BY <1>14, <2>1 DEF AppendSettles
  <2> HIDE DEF after
  <2>4. CASE call' = after
    BY <2>2, <2>4 DEF HeldStill
  <2>5. CASE call' = Unparked(Put(c, Out("done"))) /\ call[c].pc = "retiring"
    <3> DEFINE calls == Put(c, Out("done"))
    <3>1. \A d \in Calls : calls[d] = IF d = c THEN Out("done") ELSE call[d]
      BY <1>1 DEF Put
    <3>2. calls \in [Calls -> CallRecords]
      BY <1>1, OutTyped DEF Put
    <3> HIDE DEF calls
    <3>3. \A d \in Calls : call'[d].pc = "holding" <=> calls[d].pc = "holding"
      BY <2>5, <3>2 DEF Unparked, calls, CallRecords
    <3> QED BY <2>5, <3>1, <3>3, <1>2 DEF HeldStill
  <2>6. CASE Remove(pool.entry, call)
    BY <2>6, <1>1, PoolStill DEF HeldStill
  <2>7. CASE Remove(pool.entry, after)
    <3>1. \A d \in Calls : call'[d].pc = "holding" <=> after[d].pc = "holding"
      BY <2>2, <2>7, PoolStill
    <3> QED BY <2>2, <3>1 DEF HeldStill
  <2> QED BY <2>3, <2>4, <2>5, <2>6, <2>7
<1>16. CASE AppendStarts
  <2>1. UNCHANGED <<stored, tracked, live>> /\ Appending
    BY <1>16 DEF AppendStarts
  <2>2. HeldStill
    BY <1>5, <1>15, <1>16, <2>1 DEF AppendStarts
  <2> QED BY <2>1, <2>2, <1>8, Unseen DEF Steps
<1>17. CASE AdoptReads
  BY <1>5, <1>8, <1>17, Unseen DEF AdoptReads, state, Steps
<1>18. CASE AdoptCommits
  <2>1. Appending /\ chain[1].at = "adopted" /\ live' = live /\ HeldStill
    BY <1>5, <1>14, <1>18 DEF AdoptCommits
  <2>2. Holding = {} /\ LogOwner = NoCall
    BY <1>14, <2>1, AppendInFront DEF LogOwner
  <2>3. \/ tracked' = tracked /\ stored' = stored
        \/ tracked' = tracked /\ Repaired
        \/ stored' = stored /\ \E source : Established(source)
    BY <1>18 DEF AdoptCommits
  <2>4. LogOwner' = LogOwner
    BY <2>2, <2>3, <1>7, <1>8
  <2>5. CASE stored' = stored
    BY <2>1, <2>4, <2>5, Unseen DEF Steps
  <2>6. CASE Repaired
    BY <2>1, <2>2, <2>4, <2>6, <1>6, WriteSeen DEF Steps
  <2> QED BY <2>3, <2>5, <2>6
<1>19. CASE AppendWrites
  <2>1. Appending /\ live' = live
    BY <1>19 DEF AppendWrites
  <2>2. CASE AppendSettles(FALSE) /\ UNCHANGED <<stored, tracked>>
    BY <2>1, <2>2, <1>8, <1>15, Unseen DEF Steps
  <2>3. CASE /\ chain[1].at = "write" /\ AppendSettles(TRUE)
             /\ \E open \in BOOLEAN : stored' = [stored EXCEPT !.own = @ + 1, !.open = open]
             /\ tracked' = [tracked EXCEPT !.cursor = @ + 1]
    <3>1. Holding = {} /\ tracked # Untracked
      BY <1>14, <2>1, <2>3, AppendInFront
    <3>2. tracked \in States /\ stored \in Logs
      BY <3>1, <1>1 DEF Typed
    <3>3. stored'.own = stored.own + 1
      BY <2>3, <3>2 DEF Logs
    <3>4. tracked' \in States /\ tracked'.owner = tracked.owner
      BY <2>3, <3>2 DEF States
    <3>5. LogOwner' = LogOwner
      BY <3>1, <3>4 DEF LogOwner, States
    <3> QED BY <2>1, <2>3, <3>1, <3>3, <3>5, <1>15, WriteSeen DEF Steps
  <2> QED BY <1>14, <1>19, <2>1, <2>2, <2>3 DEF AppendWrites
<1>20. CASE RetireRuns
  <2>1. /\ chain # <<>> /\ Head(chain) = chain[1] /\ 1 \in 1..Len(chain) /\ chain[1].kind = "retire"
    BY <1>9, <1>20 DEF RetireRuns, Head1
  <2>2. PICK c \in Calls : c = chain[1].call
    BY <1>1, <2>1 DEF Serial, WellFormed
  <2>3. /\ call[c].pc = "retiring" /\ live' = live /\ stored' = stored
        /\ call' = Unparked(Put(c, Out("done")))
        /\ tracked' = IF tracked # Untracked /\ tracked.owner = c THEN Untracked ELSE tracked
    BY <1>1, <1>20, <2>1, <2>2 DEF RetireRuns, Serial, Leaving
  <2>4. HeldStill
    <3> DEFINE calls == Put(c, Out("done"))
    <3>1. \A d \in Calls : calls[d] = IF d = c THEN Out("done") ELSE call[d]
      BY <1>1 DEF Put
    <3>2. calls \in [Calls -> CallRecords]
      BY <1>1, OutTyped DEF Put
    <3> HIDE DEF calls
    <3>3. \A d \in Calls : call'[d].pc = "holding" <=> calls[d].pc = "holding"
      BY <2>3, <3>2 DEF Unparked, calls, CallRecords
    <3> QED BY <2>3, <3>1, <3>3, <1>2 DEF HeldStill
  <2>5. CASE LogOwner = c
    <3>1. Holding = {} /\ live = NoCall
      BY <2>3, <2>5, <1>1 DEF View, LiveOwns
    <3>2. Holding' = {} /\ LogOwner' = NoCall
      BY <2>3, <2>4, <2>5, <3>1 DEF LogOwner, Holding, HeldStill
    <3>3. ModeOfLog = "retiring" /\ OwnerOfLog = c /\ ModeOfLog' = "free" /\ OwnerOfLog' = NoCall
      BY <2>3, <2>5, <3>1, <3>2 DEF View
    <3> QED BY <2>3, <3>3 DEF Steps, ES!Next, ES!Retire, ES!Become
  <2>6. CASE LogOwner # c
    <3>1. tracked' = tracked
      BY <2>3, <2>6 DEF LogOwner
    <3> QED BY <2>3, <2>4, <3>1, <1>8, Unseen DEF Steps
  <2> QED BY <2>5, <2>6
<1> QED BY <1>10, <1>11, <1>12, <1>13, <1>16, <1>17, <1>18, <1>19, <1>20 DEF Operations

\* The calls.
LEMMA ContinuesSeen ==
    ASSUME PoolInv, View, View', NEW c \in Calls, Continues(c)
    PROVE  Steps
<1>1. Typed /\ Held /\ LiveOwns /\ Committed /\ call \in [Calls -> CallRecords]
  BY DEF PoolInv, Typed
<1>2. UNCHANGED <<stored, tracked, live>> /\ LogOwner' = LogOwner
  BY DEF Continues, Proceed, ReserveLooks, ReserveReturns, InspectLooks, StaleDecides,
         LoadReturns, state, LogOwner
<1>3. Out("done").pc = "done" /\ LoopTop(c).pc # "holding"
  BY <1>1, LoopTopTyped DEF Out
<1>4. \A pc \in Places : At(c, pc).pc = pc
  BY <1>1, AtTyped
<1>5. ASSUME NEW r, call' = Put(c, r), call[c].pc # "holding", r.pc # "holding"
      PROVE  Steps
  BY <1>1, <1>2, <1>5, PutStill, Unseen DEF Steps
<1>6. ASSUME NEW r \in CallRecords, r.pc # "holding",
             \/ Remove(call[c].entry, Put(c, r)) \/ MakeReady(call[c].entry, Put(c, r))
      PROVE  \A d \in Calls : call'[d].pc = "holding" <=> call[d].pc = "holding" /\ d # c
  <2> DEFINE calls == Put(c, r)
  <2>1. calls \in [Calls -> CallRecords] /\ \A d \in Calls : calls[d] = IF d = c THEN r ELSE call[d]
    BY <1>1, <1>6 DEF Put
  <2>2. Remove(call[c].entry, calls) \/ MakeReady(call[c].entry, calls)
    BY <1>6
  <2> HIDE DEF calls
  <2>3. \A d \in Calls : call'[d].pc = "holding" <=> calls[d].pc = "holding"
    BY <2>1, <2>2, PoolStill
  <2> QED BY <1>6, <2>1, <2>3
<1>7. CASE Proceed(c)
  <2>1. call[c].pc = "gap"
    BY <1>7 DEF Proceed
  <2>2. \E r : call' = Put(c, r) /\ r.pc # "holding"
    <3>1. ASSUME NEW e, call' = Put(c, [At(c, "loading") EXCEPT !.entry = e])
          PROVE  \E r : call' = Put(c, r) /\ r.pc # "holding"
      <4>1. [At(c, "loading") EXCEPT !.entry = e].pc = "loading"
        BY <1>1, AtTyped DEF Places, CallRecords
      <4> QED BY <3>1, <4>1
    <3>2. ASSUME NEW e, NEW source, NEW pc \in {"loading", "loaded"},
                 call' = Put(c, [At(c, pc) EXCEPT !.entry = e, !.source = source])
          PROVE  \E r : call' = Put(c, r) /\ r.pc # "holding"
      <4>1. [At(c, pc) EXCEPT !.entry = e, !.source = source].pc = pc
        <5>1. At(c, pc) \in CallRecords /\ At(c, pc).pc = pc
          BY <1>1, AtTyped DEF Places
        <5> QED BY <5>1 DEF CallRecords
      <4> QED BY <3>2, <4>1
    <3>3. call' = Put(c, At(c, "parked")) => \E r : call' = Put(c, r) /\ r.pc # "holding"
      BY <1>4 DEF Places
    <3>4. call' = Put(c, Out("done")) => \E r : call' = Put(c, r) /\ r.pc # "holding"
      BY <1>3
    <3> QED BY <1>7, <3>1, <3>2, <3>3, <3>4 DEF Proceed
  <2> QED BY <1>5, <2>1, <2>2
<1>8. CASE ReserveLooks(c)
  <2>1. call[c].pc = "loaded"
    BY <1>8 DEF ReserveLooks
  <2>2. \/ call' = Put(c, LoopTop(c))
        \/ \E pc \in {"waiting", "threw", "committing"} : call' = Put(c, At(c, pc))
    BY <1>8 DEF ReserveLooks
  <2>3. \A pc \in {"waiting", "threw", "committing"} : At(c, pc).pc # "holding"
    BY <1>4 DEF Places
  <2> QED BY <1>3, <1>5, <2>1, <2>2, <2>3
<1>9. CASE InspectLooks(c)
  <2>1. call[c].pc = "loaded"
    BY <1>9 DEF InspectLooks
  <2>2. call' = Put(c, Out("done")) \/ call' = Put(c, At(c, "checking"))
    BY <1>9 DEF InspectLooks
  <2>3. At(c, "checking").pc # "holding"
    BY <1>4 DEF Places
  <2> QED BY <1>3, <1>5, <2>1, <2>2, <2>3
<1>10. CASE StaleDecides(c)
  <2>1. call[c].pc = "stale"
    BY <1>10 DEF StaleDecides
  <2>2. call' = Put(c, Out("done")) \/ call' = Put(c, LoopTop(c))
    BY <1>10 DEF StaleDecides
  <2> QED BY <1>3, <1>5, <2>1, <2>2
<1>11. CASE LoadReturns(c)
  <2>1. call[c].pc = "holding" /\ Remove(call[c].entry, Put(c, Out("done")))
    BY <1>11 DEF LoadReturns
  <2>2. \A d \in Calls : call'[d].pc = "holding" <=> call[d].pc = "holding" /\ d # c
    BY <1>1, <1>3, <1>6, <2>1, OutTyped
  <2>3. /\ ModeOfLog = "reserved" /\ OwnerOfLog = c
        /\ Holding = {c} /\ live = NoCall /\ LogOwner = NoCall
    BY <2>1 DEF View, Holding
  <2>4. Holding' = {}
    BY <2>2, <2>3 DEF Holding
  <2>5. ModeOfLog' = "free" /\ OwnerOfLog' = NoCall /\ stored' = stored
    BY <1>2, <2>3, <2>4 DEF View
  <2> QED BY <2>3, <2>5 DEF Steps, ES!Next, ES!Cancel, ES!Become
<1>12. CASE ReserveReturns(c)
  <2>1. CASE /\ call[c].pc \in {"threw", "refused", "committed"}
             /\ \E r \in {Out("done"), LoopTop(c)} :
                   Remove(call[c].entry, Put(c, r)) \/ MakeReady(call[c].entry, Put(c, r))
    <3>1. PICK r \in {Out("done"), LoopTop(c)} :
             Remove(call[c].entry, Put(c, r)) \/ MakeReady(call[c].entry, Put(c, r))
      BY <2>1
    <3>2. r \in CallRecords /\ r.pc # "holding"
      BY <3>1, <1>1, <1>3, OutTyped, LoopTopTyped
    <3>3. HeldStill
      BY <2>1, <3>1, <3>2, <1>6 DEF HeldStill
    <3> QED BY <3>3, <1>2, Unseen DEF Steps
  <2>2. CASE call[c].pc = "committed" /\ call' = Put(c, LoopTop(c))
    BY <2>2, <1>3, <1>5
  <2>3. CASE /\ call[c].pc = "committed" /\ pool.entry = call[c].entry
             /\ call' = Put(c, At(c, "holding"))
    <3>1. Claims(c) /\ pool.phase = "committing"
      BY <2>3, <1>1 DEF Claims, Claiming, Held
    <3>2. Holding = {} /\ LogOwner = NoCall
      BY <2>3, <3>1, <1>1 DEF Holding, Held, Claiming, Committed, LogOwner
    <3>3. live = NoCall
      BY <3>1, <1>1 DEF LiveOwns, NoPool
    <3>4. c \in Holding'
      BY <2>3, <1>1, <1>4 DEF Holding, Put, Places
    <3>5. /\ ModeOfLog = "free" /\ OwnerOfLog = NoCall
          /\ ModeOfLog' = "reserved" /\ OwnerOfLog' = c /\ stored' = stored
      BY <1>2, <3>2, <3>3, <3>4 DEF View
    <3> QED BY <3>5 DEF Steps, ES!Next, ES!Reserve, ES!Become
  <2> QED BY <1>12, <2>1, <2>2, <2>3 DEF ReserveReturns
<1> QED BY <1>7, <1>8, <1>9, <1>10, <1>11, <1>12 DEF Continues

\* A call that publishes, releases or disposes is a step of the exclusive
\* session.
LEMMA EndsSeen ==
    ASSUME PoolInv, View, View', NEW c \in Calls, Publish(c) \/ Release(c) \/ Dispose(c)
    PROVE  Steps
<1> USE PreparationsAssumption
<1>1. Typed /\ Held /\ LiveOwns /\ Committed /\ call \in [Calls -> CallRecords]
  BY DEF PoolInv, Typed
<1>2. call[c].pc = "holding" => /\ ModeOfLog = "reserved" /\ OwnerOfLog = c
                                /\ Holding = {c} /\ live = NoCall /\ LogOwner = NoCall
  BY DEF View, Holding
<1>3. ASSUME NEW r, NEW calls, calls = Put(c, r), calls \in [Calls -> CallRecords],
             r.pc # "holding", call[c].pc = "holding",
             \/ Remove(call[c].entry, calls) \/ MakeReady(call[c].entry, calls)
      PROVE  Holding' = {}
  <2>1. \A d \in Calls : call'[d].pc = "holding" <=> calls[d].pc = "holding"
    BY <1>3, PoolStill
  <2>2. \A d \in Calls : calls[d] = IF d = c THEN r ELSE call[d]
    BY <1>1, <1>3 DEF Put
  <2>3. \A d \in Calls : d # c => call[d].pc # "holding"
    BY <1>2, <1>3 DEF Holding
  <2> QED BY <1>3, <2>1, <2>2, <2>3 DEF Holding
<1>4. CASE Release(c)
  <2>1. /\ call[c].pc = "holding" /\ UNCHANGED <<stored, tracked, live>>
        /\ \/ Remove(call[c].entry, Put(c, Out("done")))
           \/ MakeReady(call[c].entry, Put(c, Out("done")))
    BY <1>4 DEF Release, state
  <2>2. Put(c, Out("done")) \in [Calls -> CallRecords] /\ Out("done").pc # "holding"
    BY <1>1, OutTyped DEF Put
  <2>3. Holding' = {} /\ LogOwner' = NoCall
    BY <1>2, <1>3, <2>1, <2>2 DEF LogOwner
  <2>4. ModeOfLog' = "free" /\ OwnerOfLog' = NoCall
    BY <1>2, <2>1, <2>3 DEF View
  <2> QED BY <1>2, <2>1, <2>4 DEF Steps, ES!Next, ES!Cancel, ES!Become
<1>5. CASE Publish(c)
  <2> DEFINE r == [At(c, "live") EXCEPT !.entry = NoEntry]
  <2>1. /\ call[c].pc = "holding" /\ live' = c /\ stored' = stored
        /\ Remove(call[c].entry, Put(c, r))
    BY <1>5 DEF Publish
  <2>2. r \in CallRecords /\ r.pc = "live"
    <3>1. At(c, "live") \in CallRecords /\ At(c, "live").pc = "live"
      BY <1>1, AtTyped DEF Places
    <3> QED BY <3>1 DEF CallRecords
  <2>3. Put(c, r) \in [Calls -> CallRecords]
    BY <2>2, <1>1 DEF Put
  <2>4. Holding' = {}
    BY <1>3, <2>1, <2>2, <2>3
  <2>5. ModeOfLog' = "live" /\ OwnerOfLog' = c
    BY <2>1, <2>4 DEF View
  <2> QED BY <1>2, <2>1, <2>5 DEF Steps, ES!Next, ES!Publish, ES!Become
<1>6. CASE Dispose(c)
  <2>1. /\ live = c /\ live' = NoCall /\ UNCHANGED <<stored, tracked, pool>>
        /\ call' = Put(c, At(c, "retiring"))
    BY <1>6 DEF Dispose
  <2>2. At(c, "retiring").pc = "retiring"
    BY <1>1, AtTyped DEF Places
  <2>3. Holding = {} /\ LogOwner = c
    BY <2>1 DEF View
  <2>4. Holding' = {} /\ LogOwner' = c
    BY <1>1, <2>1, <2>2, <2>3 DEF Holding, Put, LogOwner
  <2>5. ModeOfLog = "live" /\ OwnerOfLog = c /\ ModeOfLog' = "retiring" /\ OwnerOfLog' = c
    BY <2>1, <2>3, <2>4 DEF View
  <2> QED BY <2>1, <2>5 DEF Steps, ES!Next, ES!Dispose, ES!Become
<1> QED BY <1>4, <1>5, <1>6

\* So is a call that begins, a live write and an abort.
LEMMA OthersSeen ==
    ASSUME PoolInv, View, View', NEW c \in Calls,
           \/ \E kind \in Kinds[c] \ {"append"} : Begin(c, kind)
           \/ BeginAppend(c) \/ LiveWrite(c) \/ Abort(c)
    PROVE  Steps
<1>1. Typed
  BY DEF PoolInv
<1>2. UNCHANGED <<stored, tracked, live>> /\ LogOwner' = LogOwner
  BY DEF Begin, BeginAppend, LiveWrite, Abort, state, LogOwner
<1>3. HeldStill
  <2>1. CASE call' = call
    BY <2>1 DEF HeldStill
  <2>2. ASSUME NEW kind, Begin(c, kind) PROVE HeldStill
    <3>1. [Out(IF retiring THEN "parked" ELSE "gap") EXCEPT !.kind = kind].pc # "holding"
      BY DEF Out
    <3> QED BY <1>1, <2>2, <3>1, PutStill DEF Begin
  <2>3. CASE BeginAppend(c)
    <3>1. [Out("appending") EXCEPT !.kind = "append"].pc # "holding"
      BY DEF Out
    <3> QED BY <1>1, <2>3, <3>1, PutStill DEF BeginAppend
  <2>4. CASE Abort(c)
    <3>1. call[c].pc # "holding"
      BY <2>4 DEF Abort
    <3>2. \E r \in {Out("done"), At(c, "threw"), [call[c] EXCEPT !.aborted = TRUE]} : call' = Put(c, r)
      BY <2>4 DEF Abort
    <3>3. \A r \in {Out("done"), At(c, "threw"), [call[c] EXCEPT !.aborted = TRUE]} :
             r.pc # "holding"
      BY <1>1, <3>1 DEF Out, At, Typed, CallRecords
    <3> QED BY <1>1, <3>1, <3>2, <3>3, PutStill
  <2> QED BY <2>1, <2>2, <2>3, <2>4 DEF LiveWrite
<1> QED BY <1>2, <1>3, Unseen DEF Steps

(* While calls overlap as they may, the log is reserved for one resume at a time,  *)
(* is not written while it is, and is not reserved again before the session that   *)
(* was published from it has let go of it.                                        *)
THEOREM OwnershipExclusive == Spec => ImplementsExclusiveSession
<1>1. Init => PoolInv
  BY InitHolds
<1>2. PoolInv /\ [Next]_vars => PoolInv'
  BY NextKeeps
<1>3. PoolInv /\ Init => ES!Init
  <2> SUFFICES ASSUME PoolInv, Init PROVE ES!Init
    OBVIOUS
  <2>1. Holding = {} /\ LogOwner = NoCall /\ live = NoCall /\ stored.own = 1
    BY DEF Init, Out, Holding, LogOwner
  <2> QED BY <2>1, ViewHolds DEF View, ES!Init
<1>4. PoolInv' => View'
  BY ViewHolds, PTL
<1>5. PoolInv /\ PoolInv' /\ [Next]_vars => [ES!Next]_(ES!vars)
  <2> SUFFICES ASSUME PoolInv, PoolInv', [Next]_vars PROVE Steps
    BY DEF Steps, Stutter, ES!vars
  <2>1. View /\ View'
    BY <1>4, ViewHolds
  <2>2. CASE Operations
    BY <2>1, <2>2, OperationsSeen
  <2>3. ASSUME NEW c \in Calls, Continues(c) PROVE Steps
    BY <2>1, <2>3, ContinuesSeen
  <2>4. ASSUME NEW c \in Calls, Ends(c) \/ Dispose(c) PROVE Steps
    BY <2>1, <2>4, EndsSeen DEF Ends
  <2>5. ASSUME NEW c \in Calls,
               \/ \E kind \in Kinds[c] \ {"append"} : Begin(c, kind)
               \/ BeginAppend(c) \/ LiveWrite(c) \/ Abort(c)
        PROVE  Steps
    BY <2>1, <2>5, OthersSeen
  <2>6. CASE ForeignWrite \/ Evict \/ UNCHANGED vars
    <3>1. Typed
      BY DEF PoolInv
    <3>2. /\ tracked' = tracked /\ live' = live /\ LogOwner' = LogOwner /\ call' = call
          /\ stored'.own = stored.own
      BY <2>6, <3>1 DEF ForeignWrite, Evict, vars, state, LogOwner, Typed, Logs
    <3> QED BY <2>1, <3>2, Unseen DEF HeldStill, Steps
  <2> QED BY <2>2, <2>3, <2>4, <2>5, <2>6 DEF Next
<1> QED BY <1>1, <1>2, <1>3, <1>5, PTL DEF Spec, ImplementsExclusiveSession, ES!Spec
=============================================================================
