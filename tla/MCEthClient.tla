----------------------------- MODULE MCEthClient -----------------------------
(* Two branches hold the transaction, with different senders and uncles; a    *)
(* third leaves it out, a fourth has it from the zero address.                *)
EXTENDS EthClient, TLC

CONSTANTS b1, b2, b3, b4, t, u, x, y, zero, k1, k2, s1, s2, q1, q2, q3

MCBody == (b1 :> << [tx |-> u, from |-> y], [tx |-> t, from |-> x] >>)
       @@ (b2 :> << [tx |-> t, from |-> y] >>)
       @@ (b3 :> << >>)
       @@ (b4 :> << [tx |-> t, from |-> zero] >>)
MCUncles == (b1 :> <<k1>>) @@ (b2 :> <<k2>>) @@ (b3 :> <<k1, k2>>) @@ (b4 :> << >>)
Symmetry == Permutations({q1, q2, q3})
=============================================================================
