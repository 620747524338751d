----------------------------- MODULE DurableLog -----------------------------
(***************************************************************************)
(* What the persistence of one live session promises to the rest of the    *)
(* system, with no queue, timer or write in sight.  The session emits       *)
(* events 0, 1, 2, ...; the store holds an initial segment of them that     *)
(* only ever grows; a flush that reports success has seen every event       *)
(* emitted before it was called become durable.                             *)
(*                                                                          *)
(* WriteBehind is shown to implement this specification.                    *)
(***************************************************************************)
EXTENDS Naturals, Sequences

CONSTANT Callers          \* clients that may ask for a durability barrier

VARIABLES
    emitted,              \* number of events the live session has produced
    stored,               \* the durable log, a sequence of event numbers
    flushes               \* per caller: its latest flush and what came of it

vars == <<emitted, stored, flushes>>

\* The events lo, lo+1, ..., hi-1 in log order.
Run(lo, hi) == [i \in 1..(hi - lo) |-> lo + i - 1]

Waiting == {c \in Callers : flushes[c].state = "waiting"}

Settled(S, outcome) ==
    [c \in Callers |-> IF c \in S THEN [flushes[c] EXCEPT !.state = outcome]
                                  ELSE flushes[c]]

Init ==
    /\ emitted \in Nat
    /\ stored = <<>>
    /\ flushes = [c \in Callers |-> [state |-> "idle", upTo |-> 0]]

\* The session produces one more event.
Emit ==
    /\ emitted' = emitted + 1
    /\ UNCHANGED <<stored, flushes>>

\* Some further prefix of what was emitted becomes durable, in order.
Persist ==
    /\ \E n \in Len(stored)..emitted : stored' = Run(0, n)
    /\ UNCHANGED <<emitted, flushes>>

\* A caller asks for everything emitted so far to be durable.
Ask(c) ==
    /\ c \notin Waiting
    /\ flushes' = [flushes EXCEPT ![c] = [state |-> "waiting", upTo |-> emitted]]
    /\ UNCHANGED <<emitted, stored>>

\* Success is reported only to callers whose events are all durable.
Resolve ==
    /\ \E S \in SUBSET Waiting :
          /\ \A c \in S : flushes[c].upTo <= Len(stored)
          /\ flushes' = Settled(S, "durable")
    /\ UNCHANGED <<emitted, stored>>

\* A failure may be reported to anyone who waits.
Reject ==
    /\ \E S \in SUBSET Waiting : flushes' = Settled(S, "failed")
    /\ UNCHANGED <<emitted, stored>>

Next == Emit \/ Persist \/ Resolve \/ Reject \/ \E c \in Callers : Ask(c)

Spec == Init /\ [][Next]_vars
=============================================================================
