----------------------------- MODULE MCFailover -----------------------------
(* A WebSocket provider that outweighs an HTTP provider, and a send-only one. *)
EXTENDS Failover, TLC

CONSTANTS w, h, s, q1, q2

MCClients == {w, h, s}
MCReaders == {w, h}
OneReader == {w}
MCSendOnly == {s}
NoSendOnly == {}
MCDuplex == {w}
MCWeight == [c \in {w, h, s} |-> IF c = w THEN 2 ELSE 1]
LiveWeight == [c \in {w, h} |-> IF c = w THEN 2 ELSE 1]
MCOrder == <<w, s, h>>
OneWeight == [c \in {w} |-> 2]
LiveOrder == <<w, h>>
OneOrder == <<w>>
MCCallers == {q1, q2}
OneCaller == {q1}
Symmetry == Permutations(MCCallers)
=============================================================================
