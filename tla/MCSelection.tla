----------------------------- MODULE MCSelection -----------------------------
(***************************************************************************)
(* Routing and selection over bounded inputs: every order of three readers *)
(* and a send-only client that the sort allows, and either every           *)
(* combination of loads with nobody free, or every request with every      *)
(* combination of flags, free clients and preferences.                     *)
(***************************************************************************)
EXTENDS Dispatch, TLC

CONSTANTS a, b, c, s

MCWeight == (a :> 2) @@ (b :> 2) @@ (c :> 1) @@ (s :> 1)

Readers == Clients \ SendOnly

\* Loads whose score is a square root of a multiple of 1/12.
MCScale == 12
MCLoads == [rateLimit : {1, 3}, maxConc : {1}, queued : {0, 1, 2, 3, 5}]
Idle == [r \in Clients |-> [rateLimit |-> 1, maxConc |-> 1, queued |-> 0]]

InBatches ==
  {"eth_call", "eth_getUncleByBlockHashAndIndex", "eth_newFilter", "eth_subscribe", Raw}
Requests ==
  TypedReads \cup {Call(m) : m \in ParallelReads \cup Stateful}
             \cup {Notify(m) : m \in InBatches} \cup TypedSubscriptions \cup {SupportedModules}
             \cup {Batch(ms) : ms \in BoundedSeq(InBatches, 2)}

\* Everybody is enabled and at its limits.
Saturated ==
  [pool : [order : ClientOrders(Clients), enabled : {Clients}, free : {{}},
           load : {l @@ Idle : l \in [Readers -> MCLoads]}, preferHttp : BOOLEAN],
   request : {Call("eth_sendTransaction")} \cup TypedSubscriptions, parallelCalls : {FALSE}]

AnyRequest ==
  [pool : [order : ClientOrders(Clients), enabled : HealthFlags, free : SUBSET Readers,
           load : {Idle}, preferHttp : BOOLEAN],
   request : Requests, parallelCalls : BOOLEAN]

MCInputs == Saturated \cup AnyRequest
=============================================================================
