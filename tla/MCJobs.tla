------------------------------- MODULE MCJobs -------------------------------
(* An agent with two jobs beside an unowned one, for checking Jobs with TLC. *)
EXTENDS Jobs, TLC

CONSTANTS a, j1, j2, u1

MCOwnerOf == (j1 :> a) @@ (j2 :> a) @@ (u1 :> NoOwner)
=============================================================================
