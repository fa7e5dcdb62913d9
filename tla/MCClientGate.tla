---------------------------- MODULE MCClientGate ----------------------------
(***************************************************************************)
(* Instances of ClientGate for TLC.  Requests are interchangeable, and so  *)
(* are probers.                                                            *)
(***************************************************************************)
EXTENDS ClientGate, TLC

Symmetry == Permutations(Requests) \cup Permutations(Probers)
=============================================================================
