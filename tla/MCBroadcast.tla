----------------------------- MODULE MCBroadcast -----------------------------
(***************************************************************************)
(* An instance of Broadcast for TLC: providers of different weights, one   *)
(* of which only takes transactions.                                       *)
(***************************************************************************)
EXTENDS Broadcast, TLC

CONSTANTS a, b, s

MCWeight == (a :> 2) @@ (b :> 1) @@ (s :> 3)
=============================================================================
