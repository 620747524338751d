-------------------------- MODULE ExclusiveSession --------------------------
(***************************************************************************)
(* What the persistence coordinator promises of one session's log            *)
(* (session-persistence/src/coordinator.ts): it is reserved for one resume at *)
(* a time and stands still until that resume publishes or gives up; a         *)
(* published session owns it until its retirement has released it.           *)
(***************************************************************************)
EXTENDS Naturals

CONSTANTS Calls, NoCall

VARIABLES
    mode,                 \* "free", "reserved", "live" or "retiring"
    owner,                \* the call that has reserved or owns the log
    length                \* events this process has put into the log

vars == <<mode, owner, length>>

Init == mode = "free" /\ owner = NoCall /\ length = 1

Become(from, c, to, d) ==
    mode = from /\ owner = c /\ mode' = to /\ owner' = d /\ UNCHANGED length

Reserve(c) == Become("free", NoCall, "reserved", c)
Cancel(c)  == Become("reserved", c, "free", NoCall)
Publish(c) == Become("reserved", c, "live", c)
Dispose(c) == Become("live", c, "retiring", c)
Retire(c)  == Become("retiring", c, "free", NoCall)

\* A batch or a repair.
Write == mode # "reserved" /\ length' = length + 1 /\ UNCHANGED <<mode, owner>>

Next == \/ Write
        \/ \E c \in Calls : Reserve(c) \/ Cancel(c) \/ Publish(c) \/ Dispose(c) \/ Retire(c)

Spec == Init /\ [][Next]_vars
=============================================================================
