------------------------------ MODULE LogFold ------------------------------
(***************************************************************************)
(* A projection of a log, as a loop over its events computes it: it starts   *)
(* from Fresh and every event leads from what its predecessors lead to.      *)
(*                                                                          *)
(* The lemmas are what proofs about such loops need: the fold of the empty   *)
(* log, of a log with one more event, and induction along a log.             *)
(***************************************************************************)
EXTENDS Naturals, Sequences, WellFoundedInduction, TLAPS

CONSTANTS
    Fresh,                \* what the loop starts from
    Step(_, _)            \* one turn of the loop

\* One turn, on the value in a set of one.  (Binding it there keeps TLC from evaluating
\* it anew wherever Step reads it.)
Turn(values, e) == {Step(s, e) : s \in values}

\* What the loop holds after the last event.
Fold(events) ==
    LET after[n \in 0..Len(events)] ==
            IF n = 0 THEN {Fresh}
            ELSE Turn(after[n - 1], events[n])
    IN  CHOOSE s \in after[Len(events)] : TRUE

-----------------------------------------------------------------------------
(* Induction on natural numbers, as the existence of a least one. *)

NatLess == {p \in Nat \X Nat : p[1] < p[2]}

\* The order of the natural numbers is well-founded.
LEMMA NatLessWellFounded == IsWellFoundedOn(NatLess, Nat)
<1>1. IsWellFoundedOn(OpToRel(<, Nat), Nat)
    BY NatLessThanWellFounded, Zenon
<1>2. OpToRel(<, Nat) = NatLess
    BY Zenon DEF OpToRel, NatLess
<1>. QED
    BY <1>1, <1>2, Zenon

\* Every non-empty set of natural numbers has a least element.
LEMMA Least ==
    ASSUME NEW S \in SUBSET Nat, S # {}
    PROVE  \E m \in S : \A k \in S : ~(k < m)
<1>1. IsWellFoundedOn(NatLess, Nat) /\ S \subseteq Nat
    BY NatLessWellFounded
<1>2. PICK x \in S : \A y \in S : ~(<<y, x>> \in NatLess)
    BY <1>1, WFMin, Zenon
<1>3. SUFFICES ASSUME NEW k \in S, k < x PROVE FALSE
    BY <1>2
<1>. QED
    BY <1>2, <1>3 DEF NatLess

\* The same, as induction: a set that misses no number below n holds n.
LEMMA Induction ==
    ASSUME NEW n \in Nat, NEW S, 0 \in S,
           \A k \in 0..(n - 1) : k \in S => k + 1 \in S
    PROVE  0..n \subseteq S
<1>. DEFINE Bad == {k \in 0..n : k \notin S}
<1>1. SUFFICES ASSUME Bad # {} PROVE FALSE
    OBVIOUS
<1>2. Bad \in SUBSET Nat
    OBVIOUS
<1>3. PICK m \in Bad : \A k \in Bad : ~(k < m)
  <2>. HIDE DEF Bad
  <2>. QED
    BY <1>1, <1>2, Least
<1>4. m \in 1..n /\ m - 1 \in 0..(n - 1) /\ m - 1 < m
    BY <1>3
<1>5. m - 1 \in S
    BY <1>3, <1>4
<1>6. (m - 1) + 1 \in S
    BY <1>4, <1>5
<1>. QED
    BY <1>3, <1>4, <1>6

-----------------------------------------------------------------------------
(* The loop variable, event by event. *)

\* f holds what the loop does after each of the first n events.
Loop(f, events, n) ==
    f = [i \in 0..n |-> IF i = 0 THEN {Fresh}
                        ELSE Turn(f[i - 1], events[i])]

\* The loop variable has a value at every turn.
LEMMA LoopExists ==
    ASSUME NEW events, NEW n \in Nat
    PROVE  \E f : Loop(f, events, n)
<1>. DEFINE Good == {i \in 0..n : \E f : Loop(f, events, i)}
<1>1. 0 \in Good
  <2>1. Loop([i \in 0..0 |-> {Fresh}], events, 0)
    BY DEF Loop
  <2>. QED
    BY <2>1
<1>2. ASSUME NEW k \in 0..(n - 1), k \in Good
      PROVE  k + 1 \in Good
  <2>1. PICK f : Loop(f, events, k)
    BY <1>2
  <2>. DEFINE g == [i \in 0..(k + 1) |->
                       IF i <= k THEN f[i] ELSE Turn(f[k], events[k + 1])]
  <2>2. ASSUME NEW i \in 0..(k + 1)
        PROVE  g[i] = IF i = 0 THEN {Fresh} ELSE Turn(g[i - 1], events[i])
    <3>1. CASE i = 0
      BY <3>1, <2>1 DEF Loop
    <3>2. CASE i \in 1..k
      <4>1. i - 1 \in 0..k /\ i \in 0..k /\ i - 1 \in 0..(k + 1)
        BY <3>2
      <4>2. f[i] = Turn(f[i - 1], events[i])
        BY <4>1, <3>2, <2>1 DEF Loop
      <4>3. g[i - 1] = f[i - 1] /\ g[i] = f[i]
        BY <4>1
      <4>. HIDE DEF g
      <4>. QED
        BY <4>2, <4>3, <3>2
    <3>3. CASE i = k + 1
      <4>1. g[i] = Turn(f[k], events[i]) /\ g[i - 1] = f[k] /\ i # 0
        BY <3>3
      <4>. QED
        BY <4>1
    <3>. QED
      BY <3>1, <3>2, <3>3
  <2>3. Loop(g, events, k + 1)
    BY <2>2, Zenon DEF Loop
  <2>. QED
    BY <2>3
<1>3. 0..n \subseteq Good
  <2>. HIDE DEF Good
  <2>. QED
    BY <1>1, <1>2, Induction
<1>. QED
    BY <1>3

\* Two logs with the same first n events.
Agree(events, other, n) == \A i \in 1..n : events[i] = other[i]

\* It depends on the events read so far only.
LEMMA LoopReadsPrefix ==
    ASSUME NEW events, NEW other, NEW n \in Nat, NEW m \in Nat, n <= m,
           Agree(events, other, n),
           NEW f, Loop(f, events, n), NEW g, Loop(g, other, m)
    PROVE  f[n] = g[n]
<1>. DEFINE Same == {i \in 0..n : f[i] = g[i]}
<1>1. 0 \in Same
    BY DEF Loop
<1>2. ASSUME NEW k \in 0..(n - 1), k \in Same
      PROVE  k + 1 \in Same
  <2>1. k + 1 \in 1..n /\ k + 1 \in 0..n /\ k + 1 \in 0..m /\ (k + 1) - 1 = k /\ k + 1 # 0
    OBVIOUS
  <2>2. f[k + 1] = Turn(f[k], events[k + 1])
    BY <2>1 DEF Loop
  <2>3. g[k + 1] = Turn(g[k], other[k + 1])
    BY <2>1 DEF Loop
  <2>. QED
    BY <2>1, <2>2, <2>3, <1>2 DEF Agree
<1>3. 0..n \subseteq Same
  <2>. HIDE DEF Same
  <2>. QED
    BY <1>1, <1>2, Induction
<1>. QED
    BY <1>3

\* The fold is what the loop variable holds in the end.
LEMMA FoldIsLoop ==
    ASSUME NEW events, Len(events) \in Nat
    PROVE  \E f : /\ Loop(f, events, Len(events))
                  /\ Fold(events) = CHOOSE s \in f[Len(events)] : TRUE
<1>. DEFINE f == CHOOSE after : after =
                    [n \in 0..Len(events) |->
                        IF n = 0 THEN {Fresh}
                        ELSE Turn(after[n - 1], events[n])]
<1>1. PICK g : Loop(g, events, Len(events))
    BY LoopExists
<1>2. f = [n \in 0..Len(events) |-> IF n = 0 THEN {Fresh}
                                    ELSE Turn(f[n - 1], events[n])]
    BY <1>1, Zenon DEF Loop
<1>3. Loop(f, events, Len(events))
    BY <1>2, Zenon DEF Loop
<1>4. Fold(events) = CHOOSE s \in f[Len(events)] : TRUE
    BY Zenon DEF Fold
<1>. QED
    BY <1>3, <1>4

\* A set of one value.
Single(values) == \E s : values = {s}

\* The set always holds one value.
LEMMA LoopIsSingle ==
    ASSUME NEW events, NEW n \in Nat, NEW f, Loop(f, events, n)
    PROVE  Single(f[n])
<1>. DEFINE Good == {i \in 0..n : Single(f[i])}
<1>1. 0 \in Good
    BY DEF Loop, Single
<1>2. ASSUME NEW k \in 0..(n - 1), k \in Good
      PROVE  k + 1 \in Good
  <2>1. PICK s : f[k] = {s}
    BY <1>2 DEF Single
  <2>2. f[k + 1] = Turn(f[k], events[k + 1]) /\ k + 1 \in 0..n
    <3>1. k + 1 \in 0..n /\ (k + 1) - 1 = k /\ k + 1 # 0
      OBVIOUS
    <3>. QED
      BY <3>1 DEF Loop
  <2>3. f[k + 1] = {Step(s, events[k + 1])}
    BY <2>1, <2>2 DEF Turn
  <2>. QED
    BY <2>2, <2>3 DEF Single
<1>3. 0..n \subseteq Good
  <2>. HIDE DEF Good
  <2>. QED
    BY <1>1, <1>2, Induction
<1>. QED
    BY <1>3

\* The fold of an empty log is what the loop starts from.
LEMMA FoldEmpty == Fold(<<>>) = Fresh
<1>1. PICK f : Loop(f, <<>>, 0) /\ Fold(<<>>) = CHOOSE s \in f[0] : TRUE
    BY FoldIsLoop
<1>2. f[0] = {Fresh}
    BY <1>1 DEF Loop
<1>. QED
    BY <1>1, <1>2

\* One more event is one more turn of the loop.
LEMMA FoldAppend ==
    ASSUME NEW S, NEW events \in Seq(S), NEW e \in S
    PROVE  Fold(Append(events, e)) = Step(Fold(events), e)
<1>. DEFINE longer == Append(events, e)
<1>1. /\ Len(events) \in Nat /\ Len(events) \in 0..Len(events)
      /\ Len(longer) \in Nat /\ Len(longer) = Len(events) + 1 /\ Len(events) <= Len(longer)
      /\ longer[Len(longer)] = e
      /\ \A i \in 1..Len(events) : events[i] = longer[i]
    OBVIOUS
<1>. HIDE DEF longer
<1>2. PICK f : /\ Loop(f, events, Len(events))
               /\ Fold(events) = CHOOSE s \in f[Len(events)] : TRUE
    BY <1>1, FoldIsLoop, Zenon
<1>3. PICK g : /\ Loop(g, longer, Len(longer))
               /\ Fold(longer) = CHOOSE s \in g[Len(longer)] : TRUE
    BY <1>1, FoldIsLoop, Zenon
<1>4. f[Len(events)] = g[Len(events)]
  <2>1. Agree(events, longer, Len(events))
    BY <1>1, Zenon DEF Agree
  <2>2. Loop(f, events, Len(events)) /\ Loop(g, longer, Len(longer))
    BY <1>2, <1>3
  <2>3. Len(events) \in Nat /\ Len(longer) \in Nat /\ Len(events) <= Len(longer)
    BY <1>1
  <2>. QED
    BY <2>1, <2>2, <2>3, LoopReadsPrefix
<1>5. PICK s : f[Len(events)] = {s}
  <2>1. Single(f[Len(events)])
    BY <1>1, <1>2, LoopIsSingle, Zenon
  <2>. QED
    BY <2>1, Zenon DEF Single
<1>6. g[Len(longer)] = Turn(g[Len(events)], e)
  <2>1. /\ Len(longer) \in 0..Len(longer) /\ Len(longer) # 0
        /\ Len(longer) - 1 = Len(events)
    BY <1>1
  <2>2. g[Len(longer)] = Turn(g[Len(longer) - 1], longer[Len(longer)])
    BY <1>3, <2>1, Zenon DEF Loop
  <2>. QED
    BY <1>1, <2>1, <2>2
<1>7. g[Len(events)] = {s}
    BY <1>4, <1>5
<1>8. g[Len(longer)] = {Step(s, e)}
    BY <1>6, <1>7 DEF Turn
<1>9. Fold(events) = s /\ Fold(longer) = Step(s, e)
    BY <1>2, <1>3, <1>5, <1>8
<1>. QED
    BY <1>9 DEF longer

\* Induction along a log, prefix by prefix.
LEMMA PrefixInduction ==
    ASSUME NEW S, NEW events \in Seq(S), NEW P, <<>> \in P,
           \A n \in 0..(Len(events) - 1) :
               SubSeq(events, 1, n) \in P => Append(SubSeq(events, 1, n), events[n + 1]) \in P
    PROVE  events \in P
<1>. DEFINE Good == {n \in 0..Len(events) : SubSeq(events, 1, n) \in P}
<1>0. Len(events) \in Nat
    OBVIOUS
<1>1. 0 \in Good
  <2>1. SubSeq(events, 1, 0) = <<>> /\ 0 \in 0..Len(events)
    BY <1>0
  <2>2. SubSeq(events, 1, 0) \in P
    BY <2>1
  <2>. QED
    BY <2>1, <2>2
<1>2. ASSUME NEW k \in 0..(Len(events) - 1), k \in Good
      PROVE  k + 1 \in Good
  <2>1. SubSeq(events, 1, k + 1) = Append(SubSeq(events, 1, k), events[k + 1])
    OBVIOUS
  <2>2. SubSeq(events, 1, k) \in P
    BY <1>2
  <2>3. Append(SubSeq(events, 1, k), events[k + 1]) \in P
    BY <2>2
  <2>4. SubSeq(events, 1, k + 1) \in P
    BY <2>1, <2>3
  <2>. QED
    BY <2>4, <1>0
<1>3. 0..Len(events) \subseteq Good
  <2>. HIDE DEF Good
  <2>. QED
    BY <1>0, <1>1, <1>2, Induction
<1>4. SubSeq(events, 1, Len(events)) = events
    OBVIOUS
<1>5. Len(events) \in Good
    BY <1>0, <1>3
<1>. QED
    BY <1>4, <1>5
=============================================================================
