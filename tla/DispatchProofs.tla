---------------------------- MODULE DispatchProofs ----------------------------
(***************************************************************************)
(* Where requests go, for any providers, weights, transports and loads, in *)
(* any state of the pool and for any method.                               *)
(***************************************************************************)
EXTENDS Dispatch, SelectionProofs

\* A request is sent nowhere before it is routed, and then to one of the sets of
\* providers its route allows.
IInv ==
  /\ pool \in Pools /\ IsRequest(request) /\ parallelCalls \in BOOLEAN /\ routed \in BOOLEAN
  /\ IF routed THEN asked \in Recipients(request, parallelCalls, pool, Scale) ELSE asked = {}

\* A request is dispatched once, from a state of the pool that can occur, to
\* providers its route allows.
THEOREM Inductive == Spec => []IInv
<1>1. Init => IInv
  BY DispatchAssumption DEF Init, IInv
<1>2. IInv /\ [Next]_vars => IInv'
  <2> SUFFICES ASSUME IInv, [Next]_vars PROVE IInv'
    OBVIOUS
  <2>1. CASE Send
    BY <2>1 DEF IInv, Send
  <2>2. CASE UNCHANGED vars
    BY <2>2 DEF IInv, vars
  <2> QED  BY <2>1, <2>2 DEF Next
<1> QED  BY <1>1, <1>2, PTL DEF Spec

-----------------------------------------------------------------------------
(* The state of the pool.                                                  *)

\* The list holds every client once, by weight, and loads are fit for scores.
LEMMA PoolHolds ==
  ASSUME NEW p \in Pools
  PROVE  /\ p.order \in Seq(Clients) /\ ToSet(p.order) = Clients /\ SortedByWeight(p.order)
         /\ IsInjective(p.order)
         /\ p.load \in [Clients -> ScoreData]
         /\ p.enabled \in HealthFlags /\ p.free \subseteq Clients /\ p.preferHttp \in BOOLEAN
<1>1. /\ p.order \in ClientOrders(Clients) /\ p.load \in [Clients -> Loads]
      /\ p.enabled \in HealthFlags /\ p.free \subseteq Clients /\ p.preferHttp \in BOOLEAN
  BY DEF Pools
<1>2. /\ p.order \in Seq(Clients) /\ ToSet(p.order) = Clients /\ SortedByWeight(p.order)
      /\ IsInjective(p.order)
  BY <1>1, OrdersHold DEF IsInjective
<1>3. Loads \subseteq ScoreData
  BY DEF Loads, ScoreData
<1>4. p.load \in [Clients -> ScoreData]
  BY <1>1, <1>3
<1> QED  BY <1>1, <1>2, <1>4

\* Eligible for anything but a broadcast are enabled readers, for a subscription
\* those that can push.
LEMMA EligibleHolds ==
  ASSUME NEW E \in HealthFlags, NEW k \in BOOLEAN
  PROVE  /\ EligibleClients(E, k, FALSE) \subseteq Clients \ SendOnly
         /\ k => EligibleClients(E, k, FALSE) \subseteq Duplex
         /\ EligibleClients(E, FALSE, FALSE) = E \ SendOnly
         /\ EligibleClients(E, FALSE, TRUE) = E
<1>1. SendOnly \subseteq E /\ E \subseteq Clients
  BY ProvidersAssumption DEF HealthFlags
<1> QED  BY <1>1 DEF EligibleClients

\* ChoiceHolds for the pools a request can meet.
LEMMA PoolChoiceHolds ==
  ASSUME NEW p \in Pools, NEW cands, cands \subseteq Clients, cands # {}, NEW k \in BOOLEAN
  PROVE  LET c         == Choice(p, cands, k, Scale)
             preferred(r) == ~(p.preferHttp /\ ~k /\ r \in Duplex)
             sorted    == SortByScore(p.order, cands, p.load, Scale)
         IN /\ c \in cands
            /\ cands \cap p.free # {} =>
                 /\ c \in p.free
                 /\ \A r \in cands \cap p.free :
                      \/ preferred(c) /\ ~preferred(r)
                      \/ preferred(c) = preferred(r) /\ Weight[c] >= Weight[r]
            /\ cands \cap p.free = {} => c = sorted[1]
<1>1. /\ p.order \in Seq(Clients) /\ ToSet(p.order) = Clients /\ SortedByWeight(p.order)
      /\ IsInjective(p.order) /\ p.load \in [Clients -> ScoreData] /\ p.preferHttp \in BOOLEAN
      /\ Scale \in Nat \ {0}
  BY PoolHolds, DispatchAssumption
<1> QED  BY <1>1, ChoiceHolds

-----------------------------------------------------------------------------
(* The routes.                                                             *)

\* There are four routes, and who is asked on each.
LEMMA RoutesHold ==
  ASSUME NEW r, IsRequest(r), NEW b \in BOOLEAN, NEW p \in Pools,
         NEW A \in Recipients(r, b, p, Scale)
  PROVE  LET cands == EligibleClients(p.enabled, SubscriptionRelated(r), FALSE) IN
         /\ Route(r, b) \in {"broadcast", "weighted", "inTurn", "single"}
         /\ Route(r, b) = "broadcast" => A = p.enabled
         /\ Route(r, b) = "weighted" => A = cands
         /\ Route(r, b) = "inTurn" => A \subseteq Clients \ SendOnly
         /\ Route(r, b) = "single" =>
              A = IF cands = {} THEN {}
                  ELSE {Choice(p, cands, SubscriptionRelated(r), Scale)}
<1>1. Route(r, b) \in {"broadcast", "weighted", "inTurn", "single"}
  BY DEF Route, CallRoute, BatchRoute, IsRequest
<1>2. p.enabled \in HealthFlags
  BY PoolHolds
<1>3. EligibleClients(p.enabled, FALSE, TRUE) = p.enabled
  BY <1>2, EligibleHolds
<1>4. \A B \in InTurn(p.order) : B \subseteq Clients \ SendOnly
  <2>1. p.order \in Seq(Clients)
    BY PoolHolds
  <2>2. \A k \in DOMAIN p.order : \A i \in 1..k : p.order[i] \in Clients
    BY <2>1, LenProperties
  <2> QED  BY <2>2 DEF InTurn
<1> QED  BY <1>1, <1>3, <1>4 DEF Recipients

\* What a request that went to a single client was sent to.
LEMMA SingleHolds ==
  ASSUME IInv, Single
  PROVE  /\ Cands # {} /\ Cands \subseteq Clients \ SendOnly
         /\ asked = {Chosen} /\ Chosen = Choice(pool, Cands, SubscriptionRelated(request), Scale)
<1>1. /\ routed /\ asked # {} /\ Route(request, parallelCalls) = "single"
      /\ asked \in Recipients(request, parallelCalls, pool, Scale)
      /\ pool \in Pools /\ IsRequest(request) /\ parallelCalls \in BOOLEAN
  BY DEF Single, IInv
<1>2. asked = IF Cands = {} THEN {}
              ELSE {Choice(pool, Cands, SubscriptionRelated(request), Scale)}
  BY <1>1, RoutesHold DEF Cands
<1>3. SubscriptionRelated(request) \in BOOLEAN /\ pool.enabled \in HealthFlags
  BY <1>1, PoolHolds DEF SubscriptionRelated
<1>4. Cands \subseteq Clients \ SendOnly
  BY <1>3, EligibleHolds DEF Cands
<1>5. Cands # {} /\ asked = {Choice(pool, Cands, SubscriptionRelated(request), Scale)}
  BY <1>1, <1>2
<1>6. Chosen = Choice(pool, Cands, SubscriptionRelated(request), Scale)
  BY <1>5 DEF Chosen
<1> QED  BY <1>4, <1>5, <1>6

\* multi_client.go:173: among the clients that can make the request now, those on
\* the preferred transport come first, and of these the heaviest.
THEOREM FreeByPreferenceAndWeightHolds == Spec => []FreeByPreferenceAndWeight
<1>1. IInv => FreeByPreferenceAndWeight
  <2> SUFFICES ASSUME IInv, Single, Cands \cap pool.free # {} PROVE FreeByPreferenceAndWeight
    BY DEF FreeByPreferenceAndWeight
  <2> DEFINE k == SubscriptionRelated(request)
             preferred(r) == ~(pool.preferHttp /\ ~k /\ r \in Duplex)
  <2>1. pool \in Pools /\ k \in BOOLEAN
    BY DEF IInv, SubscriptionRelated
  <2>2. Cands # {} /\ Cands \subseteq Clients /\ Chosen = Choice(pool, Cands, k, Scale)
    BY SingleHolds
  <2> HIDE DEF k
  <2>3. /\ Chosen \in Cands \cap pool.free
        /\ \A r \in Cands \cap pool.free :
             \/ preferred(Chosen) /\ ~preferred(r)
             \/ preferred(Chosen) = preferred(r) /\ Weight[Chosen] >= Weight[r]
    BY <2>1, <2>2, PoolChoiceHolds
  <2> QED  BY <2>3 DEF FreeByPreferenceAndWeight, k
<1> QED  BY <1>1, Inductive, PTL

\* multi_client.go:203: among saturated clients the score of the chosen one is less
\* than one point per rival below the best.
THEOREM NearBestScoreHolds == Spec => []NearBestScore
<1>1. IInv => NearBestScore
  <2> SUFFICES ASSUME IInv, Single, Cands \cap pool.free = {}, NEW r \in Cands \ {Chosen}
               PROVE  ~Exceeds(Score2(pool.load[r], Scale), Score2(pool.load[Chosen], Scale),
                               Cardinality(Cands) - 1, Scale)
    BY DEF NearBestScore
  <2> DEFINE o == pool.order
             l == pool.load
             t == SortByScore(o, Cands, l, Scale)
             n == Len(t)
  <2>1. pool \in Pools /\ SubscriptionRelated(request) \in BOOLEAN
    BY DEF IInv, SubscriptionRelated
  <2>2. /\ o \in Seq(Clients) /\ IsInjective(o) /\ ToSet(o) = Clients
        /\ l \in [Clients -> ScoreData] /\ Scale \in Nat \ {0}
    BY <2>1, PoolHolds, DispatchAssumption
  <2>3. Cands # {} /\ Cands \subseteq Clients
    BY SingleHolds
  <2>4. Chosen = t[1]
    BY <2>1, <2>3, SingleHolds, PoolChoiceHolds
  <2> HIDE DEF o, l
  <2>5. t \in Seq(Clients) /\ IsInjective(t) /\ ToSet(t) = Cands /\ InOrder(t, l, Scale)
    <3> DEFINE S == Cands
    <3> HIDE DEF S
    <3>1. LET u == SortByScore(o, S, l, Scale) IN
            /\ u \in Seq(Clients) /\ IsInjective(u) /\ InOrder(u, l, Scale)
            /\ ToSet(u) = ToSet(o) \cap S
      BY <2>2, SortHolds
    <3>2. ToSet(o) \cap Cands = Cands
      BY <2>2, <2>3
    <3> QED  BY <3>1, <3>2 DEF S
  <2> HIDE DEF t
  <2>6. n \in Nat /\ DOMAIN t = 1..n /\ t \in [1..n -> Clients]
    BY <2>5, LenProperties
  <2> HIDE DEF n
  <2>7. Cardinality(Cands) = n
    <3>1. t \in Bijection(1..n, Cands)
      <4>1. t \in [1..n -> Cands] /\ \A c \in Cands : \E i \in 1..n : t[i] = c
        BY <2>5, <2>6 DEF ToSet
      <4> QED  BY <2>5, <4>1 DEF Bijection, Injection, Surjection, IsInjective
    <3>2. Cardinality(1..n) = n /\ IsFiniteSet(1..n)
      BY <2>6, FS_Interval
    <3>3. ExistsBijection(1..n, Cands)
      BY <3>1 DEF ExistsBijection
    <3> QED  BY <3>2, <3>3, FS_Bijection
  <2>8. PICK i \in 1..n : t[i] = r
    BY <2>5, <2>6 DEF ToSet
  <2>9. i \in 2..n /\ i - 1 \in 0..(n - 1) /\ n - 1 \in Nat
    BY <2>4, <2>6, <2>8
  <2> DEFINE x == Score2(l[r], Scale)
             y == Score2(l[Chosen], Scale)
  <2>10. x \in Nat /\ y \in Nat
    <3>1. l[r] \in ScoreData /\ l[Chosen] \in ScoreData
      BY <2>2, <2>3, <2>4, <2>6, <2>9
    <3> QED  BY <2>2, <3>1, ScoreType
  <2>11. ~Exceeds(x, y, i - 1, Scale)
    BY <2>2, <2>4, <2>5, <2>8, <2>9, FirstIsNearBest DEF n
  <2> HIDE DEF x, y
  <2>12. ~Exceeds(x, y, n - 1, Scale)
    <3> DEFINE h == i - 1
               m == n - 1
    <3>1. m \in Nat /\ h \in 0..m /\ Scale \in Nat /\ ~Exceeds(x, y, h, Scale)
      BY <2>2, <2>9, <2>11
    <3> HIDE DEF h, m
    <3>2. ~Exceeds(x, y, m, Scale)
      BY <2>10, <3>1, LessThanMore
    <3> QED  BY <3>2 DEF m
  <2> QED  BY <2>7, <2>12 DEF x, y, l
<1> QED  BY <1>1, Inductive, PTL

\* parallel_groups.go: a parallel call partitions the clients by weight, heaviest
\* group first, and keeps the order of the list.
THEOREM GroupsAreWeightsHolds == Spec => []GroupsAreWeights
<1>1. IInv => GroupsAreWeights
  <2> SUFFICES ASSUME IInv PROVE GroupsAreWeights
    OBVIOUS
  <2> DEFINE s == pool.order
             G == ParallelGroups(s)
  <2>1. s \in Seq(Clients) /\ ToSet(s) = Clients /\ SortedByWeight(s)
    BY PoolHolds DEF IInv
  <2> HIDE DEF s
  <2>2. GroupsOf(G, s, Len(s))
    BY <2>1, GroupsHold
  <2> HIDE DEF G
  <2>3. G \in Seq(Seq(Clients)) /\ Len(G) \in Nat /\ DOMAIN G = 1..Len(G)
        /\ Len(s) \in Nat /\ DOMAIN s = 1..Len(s)
    BY <2>1, <2>2, LenProperties DEF GroupsOf
  <2>4. ASSUME NEW i \in 1..Len(G), NEW c \in ToSet(G[i])
        PROVE  c \in Clients /\ Weight[c] = Weight[G[i][1]]
    <3>1. G[i] \in Seq(Clients)
      BY <2>3, ElementOfSeq
    <3>2. PICK j \in 1..Len(G[i]) : c = G[i][j]
      BY <2>4, <3>1, LenProperties DEF ToSet
    <3>3. Weight[G[i][j]] = Weight[G[i][1]]
      BY <2>2 DEF GroupsOf
    <3> QED  BY <3>1, <3>2, <3>3, ElementOfSeq
  <2>5. ASSUME NEW i \in 1..Len(G), NEW c \in Clients, Weight[c] = Weight[G[i][1]]
        PROVE  c \in ToSet(G[i])
    <3>1. PICK j \in 1..Len(s) : s[j] = c
      BY <2>1, <2>3 DEF ToSet
    <3>2. PICK h \in 1..Len(G) : c \in ToSet(G[h])
      BY <2>2, <3>1 DEF GroupsOf
    <3>3. Weight[G[h][1]] = Weight[G[i][1]] /\ Weight[c] \in Nat
      BY <2>4, <2>5, <3>2, ProvidersAssumption
    <3>4. ~(h < i)
      <4> SUFFICES ASSUME h < i PROVE FALSE
        OBVIOUS
      <4>1. i \in (h + 1)..Len(G)
        BY <2>3
      <4>2. Weight[G[h][1]] > Weight[G[i][1]]
        BY <2>1, <2>2, <4>1, GroupsDescend
      <4> QED  BY <2>5, <3>3, <4>2
    <3>5. ~(i < h)
      <4> SUFFICES ASSUME i < h PROVE FALSE
        OBVIOUS
      <4>1. h \in (i + 1)..Len(G)
        BY <2>3
      <4>2. Weight[G[i][1]] > Weight[G[h][1]]
        BY <2>1, <2>2, <4>1, GroupsDescend
      <4> QED  BY <2>5, <3>3, <4>2
    <3>6. h = i
      BY <2>3, <3>4, <3>5
    <3> QED  BY <3>2, <3>6
  <2>6. \A i \in DOMAIN G : ToSet(G[i]) = Group(Clients, Weight[G[i][1]])
    BY <2>3, <2>4, <2>5 DEF Group
  <2>7. \A i \in 1..(Len(G) - 1) : Weight[G[i][1]] > Weight[G[i + 1][1]]
    BY <2>2 DEF GroupsOf
  <2>8. FlattenSeq(G) = s
    BY <2>1, <2>2, SubSeqFull DEF GroupsOf
  <2> QED  BY <2>6, <2>7, <2>8 DEF GroupsAreWeights, G, s
<1> QED  BY <1>1, Inductive, PTL

-----------------------------------------------------------------------------
(* Duplication, send-only providers, subscriptions and the typed client.   *)

\* A sequence of one element is known by it.
LEMMA SingleElement ==
  ASSUME NEW X, NEW s \in Seq(X), Len(s) = 1
  PROVE  s = <<s[1]>> /\ ToSet(s) = {s[1]}
<1>1. s \in [1..1 -> X]
  BY LenProperties
<1> QED  BY <1>1 DEF ToSet

\* None of the reads that may be duplicated keeps state at a node, changes it or
\* subscribes.
LEMMA ReadsAreStateless ==
  ParallelReads \cap Stateful = {} /\ "eth_subscribe" \in Stateful
BY DEF ParallelReads, Stateful, Raw

\* Only a transaction is broadcast, only reads race, and only SupportedModules
\* asks in turn.
LEMMA RequestsHold ==
  ASSUME NEW r, IsRequest(r), NEW b \in BOOLEAN
  PROVE  /\ Route(r, b) = "broadcast" => r = SendTransaction
         /\ Route(r, b) = "weighted" => b /\ ToSet(r.methods) \subseteq ParallelReads
         /\ Route(r, b) = "inTurn" => r = SupportedModules
<1>1. /\ r \in [kind : {"call", "batch", "notify", "subscribe", "modules"}, methods : Seq(STRING)]
      /\ r.kind \in {"call", "notify", "subscribe"} => Len(r.methods) = 1
      /\ r.kind = "modules" => r = SupportedModules
  BY DEF IsRequest
<1>2. CASE r.kind = "call"
  <2>1. r.methods = <<r.methods[1]>> /\ ToSet(r.methods) = {r.methods[1]}
    BY <1>1, <1>2, SingleElement
  <2>2. Route(r, b) = CallRoute(r.methods[1], b)
    BY <1>2 DEF Route
  <2>3. CASE r.methods[1] = Raw
    <3>1. r = [kind |-> "call", methods |-> <<Raw>>]
      BY <1>1, <1>2, <2>1, <2>3
    <3> QED  BY <2>2, <2>3, <3>1 DEF CallRoute, SendTransaction, Call
  <2>4. CASE r.methods[1] # Raw
    BY <2>1, <2>2, <2>4 DEF CallRoute
  <2> QED  BY <2>3, <2>4
<1>3. CASE r.kind = "batch"
  <2>1. Route(r, b) = BatchRoute(r.methods, b)
    BY <1>3 DEF Route
  <2> QED  BY <2>1 DEF BatchRoute
<1>4. CASE r.kind = "modules"
  BY <1>1, <1>4 DEF Route
<1>5. CASE r.kind \in {"notify", "subscribe"}
  BY <1>5 DEF Route
<1> QED  BY <1>1, <1>2, <1>3, <1>4, <1>5

\* A request with a subscription in it is for one client that can push.
LEMMA SubscriptionsHold ==
  ASSUME NEW r, IsRequest(r), NEW b \in BOOLEAN, "eth_subscribe" \in ToSet(r.methods)
  PROVE  Route(r, b) = "single" /\ SubscriptionRelated(r) = TRUE
<1>1. SubscriptionRelated(r) = TRUE
  BY DEF SubscriptionRelated, Subscribes
<1>2. "eth_subscribe" \notin ParallelReads
  BY ReadsAreStateless
<1>3. Route(r, b) # "weighted"
  BY <1>2, RequestsHold
<1>4. r # SendTransaction /\ r # SupportedModules
  <2>1. ToSet(SendTransaction.methods) = {Raw} /\ ToSet(SupportedModules.methods) = {"rpc_modules"}
    BY DEF SendTransaction, SupportedModules, Call, ToSet
  <2> QED  BY <2>1 DEF Raw
<1>5. Route(r, b) \in {"broadcast", "weighted", "inTurn", "single"}
  BY DEF Route, CallRoute, BatchRoute, IsRequest
<1> QED  BY <1>1, <1>3, <1>4, <1>5, RequestsHold

\* What the providers of a request that has been routed are.
LEMMA RoutedHolds ==
  ASSUME IInv, routed
  PROVE  /\ pool \in Pools /\ IsRequest(request) /\ parallelCalls \in BOOLEAN
         /\ pool.enabled \in HealthFlags /\ SubscriptionRelated(request) \in BOOLEAN
         /\ Cands \subseteq Clients \ SendOnly
         /\ SubscriptionRelated(request) => Cands \subseteq Duplex
         /\ \/ Route(request, parallelCalls) = "broadcast" /\ asked = pool.enabled
            \/ Route(request, parallelCalls) = "weighted" /\ asked = Cands
            \/ Route(request, parallelCalls) = "inTurn" /\ asked \subseteq Clients \ SendOnly
            \/ /\ Route(request, parallelCalls) = "single"
               /\ asked = {} \/ (asked = {Chosen} /\ Chosen \in Cands)
<1>1. /\ asked \in Recipients(request, parallelCalls, pool, Scale)
      /\ pool \in Pools /\ IsRequest(request) /\ parallelCalls \in BOOLEAN
  BY DEF IInv
<1>2. SubscriptionRelated(request) \in BOOLEAN /\ pool.enabled \in HealthFlags
  BY <1>1, PoolHolds DEF SubscriptionRelated
<1>3. /\ Cands \subseteq Clients \ SendOnly
      /\ SubscriptionRelated(request) => Cands \subseteq Duplex
  BY <1>2, EligibleHolds DEF Cands
<1>4. ASSUME Route(request, parallelCalls) = "single", asked # {}
      PROVE  asked = {Chosen} /\ Chosen \in Cands
  <2>1. /\ asked = {Chosen} /\ Chosen = Choice(pool, Cands, SubscriptionRelated(request), Scale)
        /\ Cands # {} /\ Cands \subseteq Clients
    BY <1>4, SingleHolds DEF Single
  <2> QED  BY <1>1, <1>2, <2>1, PoolChoiceHolds
<1>5. /\ Route(request, parallelCalls) \in {"broadcast", "weighted", "inTurn", "single"}
      /\ Route(request, parallelCalls) = "broadcast" => asked = pool.enabled
      /\ Route(request, parallelCalls) = "weighted" => asked = Cands
      /\ Route(request, parallelCalls) = "inTurn" => asked \subseteq Clients \ SendOnly
  BY <1>1, RoutesHold DEF Cands
<1> QED  BY <1>1, <1>2, <1>3, <1>4, <1>5

\* multi_client_calls.go:11: of all requests that reach several providers, only raw
\* transactions keep state at a node or change it.
THEOREM OnlyReadsDuplicatedHolds == Spec => []OnlyReadsDuplicated
<1>1. IInv => OnlyReadsDuplicated
  <2> SUFFICES ASSUME IInv, Cardinality(asked) > 1, request # SendTransaction
               PROVE  ToSet(request.methods) \cap Stateful = {}
    BY DEF OnlyReadsDuplicated
  <2>1. asked # {} /\ \A c : asked # {c}
    <3>1. Cardinality({}) = 0
      BY FS_EmptySet
    <3>2. \A c : Cardinality({c}) = 1
      BY FS_Singleton
    <3>3. asked # {}
      BY <3>1
    <3>4. ASSUME NEW c, asked = {c} PROVE FALSE
      <4>1. Cardinality(asked) = 1
        BY <3>2, <3>4
      <4> QED  BY <4>1
    <3> QED  BY <3>3, <3>4
  <2>2. routed
    BY <2>1 DEF IInv
  <2>3. \/ Route(request, parallelCalls) = "weighted"
        \/ Route(request, parallelCalls) = "inTurn"
    BY <2>1, <2>2, RoutedHolds, RequestsHold
  <2>4. IsRequest(request) /\ parallelCalls \in BOOLEAN
    BY DEF IInv
  <2>5. CASE Route(request, parallelCalls) = "weighted"
    BY <2>4, <2>5, RequestsHold, ReadsAreStateless
  <2>6. CASE Route(request, parallelCalls) = "inTurn"
    <3>1. request = SupportedModules
      BY <2>4, <2>6, RequestsHold
    <3>2. ToSet(request.methods) = {"rpc_modules"}
      BY <3>1 DEF SupportedModules, ToSet
    <3> QED  BY <3>2 DEF Stateful, Raw
  <2> QED  BY <2>3, <2>5, <2>6
<1> QED  BY <1>1, Inductive, PTL

\* types.go:25: a send-only provider is sent raw transactions and nothing else.
THEOREM SendOnlyOnlySendsHolds == Spec => []SendOnlyOnlySends
<1>1. IInv => SendOnlyOnlySends
  <2> SUFFICES ASSUME IInv, asked \cap SendOnly # {} PROVE request = SendTransaction
    BY DEF SendOnlyOnlySends
  <2>1. routed
    BY DEF IInv
  <2>2. Route(request, parallelCalls) = "broadcast"
    BY <2>1, RoutedHolds
  <2> QED  BY <2>2, RequestsHold DEF IInv
<1> QED  BY <1>1, Inductive, PTL

\* multi_client.go:156: a request that subscribes, whatever it is made by, goes to one
\* reader that can push.
THEOREM SubscriptionsAreDeliveredHolds == Spec => []SubscriptionsAreDelivered
<1>1. IInv => SubscriptionsAreDelivered
  <2> SUFFICES ASSUME IInv, asked # {}, "eth_subscribe" \in ToSet(request.methods)
               PROVE  Cardinality(asked) = 1 /\ asked \subseteq Duplex \ SendOnly
    BY DEF SubscriptionsAreDelivered
  <2>1. routed
    BY DEF IInv
  <2>2. Route(request, parallelCalls) = "single" /\ SubscriptionRelated(request) = TRUE
    BY SubscriptionsHold DEF IInv
  <2>3. asked = {Chosen} /\ Chosen \in Cands /\ Cands \subseteq Duplex \ SendOnly
    BY <2>1, <2>2, RoutedHolds
  <2> QED  BY <2>3, FS_Singleton
<1> QED  BY <1>1, Inductive, PTL

\* Every read of the typed client may race: its methods, and both forms of the
\* batch of getBlock, are on the allow-list.
LEMMA TypedReadsRace ==
  ASSUME NEW r \in TypedReads
  PROVE  Route(r, TRUE) = "weighted" /\ SubscriptionRelated(r) = FALSE
<1> DEFINE uncle == "eth_getUncleByBlockHashAndIndex"
<1>1. uncle \in ParallelReads /\ Raw \notin ParallelReads
  BY DEF ParallelReads, Raw
<1>2. TypedMethods \subseteq ParallelReads
  <2>1. /\ ChainReads \cup HeaderReads \subseteq ParallelReads
        /\ TransactionByHash \cup TransactionSender \cup BlockTransactions \subseteq ParallelReads
        /\ TransactionReceipt \cup SyncProgress \cup NetworkID \subseteq ParallelReads
    BY DEF ParallelReads, ChainReads, HeaderReads, TransactionByHash, TransactionSender,
           BlockTransactions, TransactionReceipt, SyncProgress, NetworkID
  <2>2. /\ AccountReads \cup FilterLogs \cup PendingReads \subseteq ParallelReads
        /\ ContractCalls \cup GasPrices \cup FeeHistory \cup EstimateGas \subseteq ParallelReads
    BY DEF ParallelReads, AccountReads, FilterLogs, PendingReads, ContractCalls, GasPrices,
           FeeHistory, EstimateGas
  <2> QED  BY <2>1, <2>2 DEF TypedMethods
<1>3. \A m \in ParallelReads : ~Subscribes(m)
  BY DEF ParallelReads, Subscribes
<1>4. CASE r \in UncleBatches
  <2>1. /\ r = Batch(<<uncle>>) \/ r = Batch(<<uncle, uncle>>)
    BY <1>4 DEF UncleBatches
  <2>2. r.kind = "batch" /\ r.methods # <<>> /\ ToSet(r.methods) = {uncle}
    BY <2>1 DEF Batch, ToSet
  <2>3. Route(r, TRUE) = BatchRoute(r.methods, TRUE)
    BY <2>2 DEF Route
  <2> QED  BY <1>1, <1>3, <2>2, <2>3 DEF BatchRoute, SubscriptionRelated
<1>5. CASE r \notin UncleBatches
  <2>1. PICK m \in TypedMethods : r = Call(m)
    BY <1>5 DEF TypedReads
  <2>2. r.kind = "call" /\ r.methods[1] = m /\ ToSet(r.methods) = {m}
    BY <2>1 DEF Call, ToSet
  <2>3. Route(r, TRUE) = CallRoute(m, TRUE)
    BY <2>2 DEF Route
  <2>4. m \in ParallelReads
    BY <1>2, <2>1
  <2> QED  BY <1>1, <1>3, <2>2, <2>3, <2>4 DEF CallRoute, SubscriptionRelated
<1> QED  BY <1>4, <1>5

\* eth/client.go: with parallel calls every read of the typed client races to all
\* enabled readers, and its transactions go to the send-only providers, too.
THEOREM TypedClientFansOutHolds == Spec => []TypedClientFansOut
<1>1. IInv => TypedClientFansOut
  <2> SUFFICES ASSUME IInv, routed PROVE TypedClientFansOut
    BY DEF TypedClientFansOut
  <2>1. pool.enabled \in HealthFlags
    BY RoutedHolds
  <2>2. ASSUME request \in TypedReads, parallelCalls PROVE asked = pool.enabled \ SendOnly
    <3>1. Route(request, parallelCalls) = "weighted" /\ SubscriptionRelated(request) = FALSE
      BY <2>2, TypedReadsRace
    <3>2. asked = Cands
      BY <3>1, RoutedHolds
    <3> QED  BY <2>1, <3>1, <3>2, EligibleHolds DEF Cands
  <2>3. ASSUME request = SendTransaction PROVE asked = pool.enabled
    <3>1. Route(request, parallelCalls) = "broadcast"
      BY <2>3 DEF SendTransaction, Call, Route, CallRoute
    <3> QED  BY <3>1, RoutedHolds
  <2> QED  BY <2>2, <2>3 DEF TypedClientFansOut
<1> QED  BY <1>1, Inductive, PTL
=============================================================================
