--------------------------- MODULE MCPreparations ---------------------------
(* A resume, a reader and a writer, for checking Preparations with TLC; and two *)
(* writers with a reader.                                                       *)
EXTENDS Preparations, TLC

CONSTANTS c1, c2, c3

MCKinds == (c1 :> {"prepare"}) @@ (c2 :> {"prepare", "load", "inspect"}) @@ (c3 :> {"append"})

WritersAndReader == (c1 :> {"append"}) @@ (c2 :> {"load"}) @@ (c3 :> {"append"})
=============================================================================
