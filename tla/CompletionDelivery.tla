------------------------- MODULE CompletionDelivery -------------------------
(***************************************************************************)
(* What the background-job registry and its completion reporter promise the *)
(* owner of a job (jobs/src/index.ts, JobRegistry): the end of a job reaches *)
(* it in one way.  Either a notice announces it, once, or somebody has asked *)
(* for it and is told instead; only the teardown of the owner or of the      *)
(* service may drop it.                                                      *)
(***************************************************************************)
CONSTANT Jobs

VARIABLE
    stage     \* per job: how far its completion has come

Init == stage = [j \in Jobs |-> "none"]

Move(j, from, to) == stage[j] = from /\ stage' = [stage EXCEPT ![j] = to]

Start(j) == Move(j, "none", "live")

\* The end is announced although nobody asked, or owed to a caller that waits.
Announce(j) == Move(j, "live", "announced")
Owe(j) == Move(j, "live", "owed")

\* A caller learns the end, or has made it its own by killing the job.
Tell(j) == \E from \in {"live", "owed", "dropped"} : Move(j, from, "known")

\* Teardown leaves no reader: any number of jobs are dropped together.
Drop == \E S \in SUBSET {j \in Jobs : stage[j] = "live"} :
            stage' = [j \in Jobs |-> IF j \in S THEN "dropped" ELSE stage[j]]

Next == Drop \/ \E j \in Jobs : Start(j) \/ Announce(j) \/ Owe(j) \/ Tell(j)

Safety == Init /\ [][Next]_stage

\* A caller that is owed an end gets it.
Spec == Safety /\ \A j \in Jobs : WF_stage(Move(j, "owed", "known"))
=============================================================================
