------------------------------ MODULE Dispatch ------------------------------
(***************************************************************************)
(* A MultiRpcClient dispatches one request: whatever state its pool is in, *)
(* whichever request it is given and with or without parallel calls, it    *)
(* asks one of the sets of providers that Routing computes.  What happens  *)
(* after that is in ParallelCall, Broadcast and Failover.                  *)
(***************************************************************************)
EXTENDS Routing

CONSTANTS
  Scale,      \* what the squares of scores are multiplied by, to be whole
  Inputs      \* the pools, requests and settings a behaviour begins with

\* The configuration of a client's gate, and its queued counter.
Loads ==
  {l \in [rateLimit : Nat, maxConc : Nat, queued : Nat] : Scale % (l.queued + 1) = 0}

Pools == [order : ClientOrders(Clients), enabled : HealthFlags, free : SUBSET Clients,
          load : [Clients -> Loads], preferHttp : BOOLEAN]

ASSUME DispatchAssumption ==
  /\ Scale \in Nat \ {0}
  /\ \A i \in Inputs : i.pool \in Pools /\ IsRequest(i.request) /\ i.parallelCalls \in BOOLEAN

VARIABLES
  pool,           \* the client's state when the request arrives
  parallelCalls,  \* MultiRpcClient.parallelCalls
  request,
  routed,         \* the request has been sent on
  asked           \* the providers it was sent to

vars == <<pool, parallelCalls, request, routed, asked>>

Init ==
  /\ \E i \in Inputs :
       pool = i.pool /\ request = i.request /\ parallelCalls = i.parallelCalls
  /\ routed = FALSE /\ asked = {}

\* The request is routed and sent to the providers it is for.
Send ==
  /\ ~routed /\ routed' = TRUE
  /\ asked' \in Recipients(request, parallelCalls, pool, Scale)
  /\ UNCHANGED <<pool, parallelCalls, request>>

Next == Send \/ (routed /\ UNCHANGED vars)

Spec == Init /\ [][Next]_vars

-----------------------------------------------------------------------------
\* Methods that keep state at a node or change it.
Stateful ==
  {"eth_newFilter", "eth_newBlockFilter", "eth_newPendingTransactionFilter",
   "eth_getFilterChanges", "eth_getFilterLogs", "eth_uninstallFilter", "eth_sendTransaction",
   "eth_submitWork", "eth_subscribe", "eth_unsubscribe", "debug_setHead", Raw}

\* The request goes to one client, chosen among Cands.
Single == routed /\ asked # {} /\ Route(request, parallelCalls) = "single"
Chosen == CHOOSE r \in asked : TRUE
Cands == EligibleClients(pool.enabled, SubscriptionRelated(request), FALSE)

\* The reference for the choice among free clients: first those whose transport
\* is the preferred one, by weight, then the others, by weight.
FreeByPreferenceAndWeight ==
  Single /\ Cands \cap pool.free # {} =>
    LET preferred(r) == ~(pool.preferHttp /\ ~SubscriptionRelated(request) /\ r \in Duplex)
    IN /\ Chosen \in Cands \cap pool.free
       /\ \A r \in Cands \cap pool.free :
            \/ preferred(Chosen) /\ ~preferred(r)
            \/ preferred(Chosen) = preferred(r) /\ Weight[Chosen] >= Weight[r]

\* When every candidate is at its limits, the chosen one's score is less than
\* one point per other candidate below the best, for loads that stay still
\* while getRpcClient sorts.
NearBestScore ==
  Single /\ Cands \cap pool.free = {} =>
    \A r \in Cands \ {Chosen} :
      ~Exceeds(Score2(pool.load[r], Scale), Score2(pool.load[Chosen], Scale),
               Cardinality(Cands) - 1, Scale)

\* multi_client.go:203: "select client with best rate limit score".
BestScoreChosen ==
  Single /\ Cands \cap pool.free = {} =>
    \A r \in Cands : Score2(pool.load[r], Scale) <= Score2(pool.load[Chosen], Scale)

\* The groups of a parallel call are the classes of equal weight, each client
\* in one of them, in descending order of weight.
GroupsAreWeights ==
  LET groups == ParallelGroups(pool.order) IN
    /\ \A i \in DOMAIN groups :
         ToSet(groups[i]) = Group(Clients, Weight[groups[i][1]])
    /\ \A i \in 1..(Len(groups) - 1) :
         Weight[groups[i][1]] > Weight[groups[i + 1][1]]
    /\ FlattenSeq(groups) = pool.order

\* multi_client_calls.go:11: "node-local filters and methods with side effects must
\* not be duplicated across providers", neither alone nor inside a batch of reads;
\* a raw transaction, which every provider treats alike, is the exception.
OnlyReadsDuplicated ==
  Cardinality(asked) > 1 /\ request # SendTransaction =>
    ToSet(request.methods) \cap Stateful = {}

\* types.go:25: a send-only provider is sent raw transactions, "excluded from all
\* other operations (reads, subscriptions, batch calls, etc.)".
SendOnlyOnlySends == asked \cap SendOnly # {} => request = SendTransaction

\* A subscription, also one inside a batch or a call, goes to one reader, whose
\* transport can deliver its notifications.
SubscriptionsAreDelivered ==
  asked # {} /\ "eth_subscribe" \in ToSet(request.methods) =>
    Cardinality(asked) = 1 /\ asked \subseteq Duplex \ SendOnly

\* With parallel calls every request of a read of the typed client races to all
\* enabled readers, the two of getBlock alike; its transactions reach the
\* send-only providers, too.
TypedClientFansOut ==
  routed =>
    /\ request \in TypedReads /\ parallelCalls => asked = pool.enabled \ SendOnly
    /\ request = SendTransaction => asked = pool.enabled
=============================================================================
