------------------------------- MODULE MCDial -------------------------------
(* Three readers, two of equal weight, and a send-only provider, in pools    *)
(* with and without readers.                                                 *)
EXTENDS Dial, TLC

CONSTANTS a, b, c, s

MCWeight == (a :> 1) @@ (b :> 2) @@ (c :> 2) @@ (s :> 3)
MCConfigs == {<<a, s, b, c>>, <<s, a>>, <<s>>, <<>>}
=============================================================================
