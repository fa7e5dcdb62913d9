--------------------------- MODULE MCParallelCall ---------------------------
(***************************************************************************)
(* Instances of ParallelCall for TLC: two providers of equal weight, one   *)
(* of them behind a rate limiter, and a lighter one.                       *)
(***************************************************************************)
EXTENDS ParallelCall, TLC

CONSTANTS n1, n2, n3

MCWeight   == (n1 :> 2) @@ (n2 :> 2) @@ (n3 :> 1)
MCWeight2  == (n1 :> 2) @@ (n2 :> 1)
=============================================================================
