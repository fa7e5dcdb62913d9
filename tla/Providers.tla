------------------------------ MODULE Providers ------------------------------
(***************************************************************************)
(* The provider pool of a MultiRpcClient (rpc/multi_client.go): what is    *)
(* fixed once DialMultiContext has returned, and the filters and the       *)
(* weight groups every kind of call computes from it.  The health flags    *)
(* (internalRpcClient.enabled) change; they are passed to these operators  *)
(* as the set of clients that are enabled.                                 *)
(***************************************************************************)
EXTENDS Integers, FiniteSets

CONSTANTS
  Clients,    \* allClients
  Weight,     \* RpcClientData.Weight: a higher weight has a higher priority
  SendOnly,   \* the clients configured with RpcClientData.SendOnly
  Duplex      \* the clients whose transport supports subscriptions

ASSUME ProvidersAssumption ==
  /\ IsFiniteSet(Clients)
  /\ Weight \in [Clients -> Nat]
  /\ SendOnly \subseteq Clients
  /\ Duplex \subseteq Clients

\* The health flags the pool can have: DialMultiContext enables the send-only
\* clients, and nothing disables them later.
HealthFlags == {SendOnly \cup H : H \in SUBSET (Clients \ SendOnly)}

\* The flags DialMultiContext leaves behind for the configured clients S: the
\* send-only ones and the readers it could reach, at least one of these.
DialledFlags(S) ==
  {(S \cap SendOnly) \cup H : H \in (SUBSET (S \ SendOnly)) \ {{}}}

\* Seeded fault: a send-only client is left out of broadcasts too.
SendOnlySkipped(enabled, subscriptionRelated, broadcast) ==
  {c \in enabled \ SendOnly : subscriptionRelated => c \in Duplex}

\* Seeded fault: a send-only client is handed whatever its flag allows.
SendOnlyServesReads(enabled, subscriptionRelated, broadcast) ==
  {c \in enabled : subscriptionRelated => c \in Duplex}

\* eligibleClients: send-only clients take broadcasts and nothing else, the
\* others must be enabled and, for a subscription, able to push.
EligibleClients(enabled, subscriptionRelated, broadcast) ==
  {c \in Clients : IF c \in SendOnly
                      THEN broadcast
                      ELSE /\ c \in enabled
                           /\ subscriptionRelated => c \in Duplex}

-----------------------------------------------------------------------------
(* groupParallelClients: one group per distinct weight.                    *)

\* The weights that occur in the set S of clients.
GroupWeights(S) == {Weight[c] : c \in S}

\* The clients of S that have weight w.
Group(S, w) == {c \in S : Weight[c] = w}

=============================================================================
