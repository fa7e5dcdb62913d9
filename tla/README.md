# Verification of blockchain-rpc-go

TLA+ models of the client library in `src/`: how its pool of providers is dialled,
its weighted parallel reads, its transaction broadcast, its sequential routing with
failover and health checks, the rate and concurrency gate in front of every
provider, the routes and choices made from methods, weights and scores, and the
parts of the typed Ethereum client that are more than one request. TLC checks the
models on small instances; TLAPS proves their safety for every set of providers,
callers, weights and limits, two refinements, and how the modules fit together.

## 1. Inventory

A `MultiRpcClient` owns a list of `RpcClient`s, one per provider, sorted by
weight. The `eth` package is a typed facade over either.

| Component | State | Operations | Hard part |
|---|---|---|---|
| Dialling (`rpc/multi_client.go`, `rpc/multi_client_options.go`) | the list under construction, per reader a goroutine with its tries, two counters | `DialMulti*` | goroutines that write what the caller reads; a context that ends meanwhile; pools without readers |
| Provider pool (`rpc/multi_client.go`, `rpc/parallel_groups.go`) | the sorted list, one health flag (atomic) and gauge per client | `eligibleClients`, `getRpcClient`, `groupParallelClients` | flags read one at a time while others write them; five routes with rules of their own |
| Parallel reads (`rpc/multi_client_parallel.go`, `rpc/parallel_errors.go`, `rpc/multi_client_calls.go`) | per call: one goroutine per provider, one buffered channel per weight, two deadlines | `parallelCall` behind `callContextConcurrent`, `batchCallContextParallel` | which response may be returned when; how an error is classified at a deadline; goroutine leaks |
| Broadcast (`rpc/multi_client.go`, `callContextParallel`) | per call: one goroutine per provider, one channel, a WaitGroup, a closer | `eth_sendRawTransaction` | first acceptance wins over faster failures; channel closed by another goroutine; losers run on |
| Sequential routing (`rpc/multi_client.go`, `rpc/retry.go`) | the flags | `CallContext`, `BatchCallContext`, `Subscribe`, `Notify` | unbounded retry; stale demotions; two writes in `setEnabled` |
| Health checks, `Close` (`rpc/multi_client_health.go`) | one goroutine and ticker per reader, the `stopped` channel | `healthCheckLoop`, `Close` | races with demotions; termination of the loops |
| Gate (`rpc/rate_limit.go`) | token bucket, FIFO semaphore, `queued` counter | `applyRateLimit`, its done function, `canMakeRequestNow`, `clientRateLimitScore` | cancellation at each wait; counting; probes that occupy what they probe |
| Single client (`rpc/client.go`) | connection, gate, metrics | one method per kind of request | gate, RPC, metrics and release in order |
| Metrics (`rpc/metrics.go`) | process-wide series, registered once | increments | second registerer ignored; losers not counted |
| `eth` client (`eth/client.go`, `eth/signer.go`) | a sender cache in each transaction | one method per RPC, `getBlock` with two, `TransactionSender` with one or none | reorganisations between two requests; providers on different branches; a cache shared with go-ethereum |

Interactions: every request of any kind passes the gate of one client; parallel
reads and broadcasts snapshot the flags once, sequential calls scan them at
every attempt; sequential calls clear flags, health checks set and clear them,
and a health check is itself a request through the gate. The `eth` client makes
all its requests through `CallContext`, `BatchCallContext` and `EthSubscribe`, so
that it depends on the list of methods that may be duplicated. What makes each
component correct is stated as its properties below; what is hard to test about
it is the list of hazards in `PROJECT.json`.

## 2. Modules

| Module | Models |
|---|---|
| `Providers` | the fixed pool and the filters and groups computed from it; extended by the modules on `rpc` but the gate |
| `Selection` | the pure choices: weight order, groups, score, `getRpcClient` |
| `Dial` | `DialMultiContextWithOptions`: from a configuration to a pool with flags |
| `Routing` | which providers a request goes to, by operation and method, and the requests of the typed client |
| `Dispatch` | a request meets a pool in any state and is sent to one of the sets of providers `Routing` computes |
| `ParallelCall` | one call of `parallelCall`, with its workers, timers and callers |
| `WeightedRead` | the abstract promise of a parallel read, from which channels, goroutines and timers are gone |
| `Broadcast` | one call of `callContextParallel` |
| `Failover` | callers of the sequential methods, the health goroutines and `Close`, over the shared flags and gauges |
| `ClientGate` | the gate of one client, with requests and probes |
| `GateContract` | the abstract promise of a gate: bounded concurrency; the limiter refuses only requests with a deadline; saturation refuses nobody |
| `EthClient` | `getBlock`, `TransactionSender` and the sender cache, over providers that follow different branches |
| `SelectionProofs` | what the operators of `Selection` compute: lemmas for the proofs about `Dispatch`, `Failover` and `Dial` |
| `ParallelCallProofs`, `BroadcastProofs`, `FailoverProofs`, `ClientGateProofs`, `DialProofs`, `EthClientProofs`, `DispatchProofs` | the proofs about the module of that name |
| `MC*` | instances for TLC |

The modules are composed by what they share. `Dial` ends in one of the states
`Failover` starts from (`DialledFlags` is the initial condition of one and, in
`HandsOverPool`, a theorem of the other; `StartsTheRest` is all that is assumed of
its list). `Failover` in turn changes the flags of which `ParallelCall`,
`Broadcast` and `Dispatch` take a snapshot: they start from any `HealthFlags`, the
readers' flags being arbitrary and those of send-only clients set, which is an
invariant of `Failover` (`FlagsFit`). The choice `Failover` leaves open covers the
one `Selection` computes (`ChooseCoversChoice`). A worker's gate in `ParallelCall` (`LeaveGate`, by admission, refusal or the
end of its context) is what `GateContract` promises of `ClientGate`. `EthClient`
asks any provider for anything, which covers every route of `Routing`.

### How state and actions correspond to the code

**Dial.** `CheckOptions` to `Conclude` are the statements of the caller in their
order; `StartNext` is one iteration of the loop that starts the goroutines, and
`Ask`, `Answer`, `Miss`, `GiveUp` one goroutine's `for range retries`. The context's
end (`over`) does not end the loop of a goroutine: its requests fail at once
(`late`), it sleeps, and tries again. `checked` and `errored` are the two counters;
that they are compared after `wg.Wait` is `Conclude`.

**ParallelCall.** `clients` is the snapshot of line 19 of `multi_client_parallel.go`,
`levels` the groups the `range groups` loop has still to finish, `taken[w]` the
receives from the group's channel, `buf[w]` everything ever sent on it. `Start`,
`LeaveGate`, `Answer`/`Cut` and `Deliver` are the worker (lines 29-38) around the
gate and the RPC. `Take`, `SkipGroup`, `Abort` and `Fail` are the branches of the
collecting loop: a receive, the `default` at the caller's deadline, a
cancellation, and its end. Every return runs the deferred `cancel`, so `Return`
ends `ctx` in the same step. `AttemptError` and `IsTimeout` are
`parallelAttemptError` and `isParallelTimeout`; an error is one of seven kinds
(`RawResults`), the kinds those functions tell apart. Of all times only the order
of two matters: `clock` counts the deadlines passed, and `budget` says whether the
caller's deadline is absent, before or after that of the attempts. `ripe` and `late`
are history variables: the answers buffered when the caller's deadline struck, and
the workers that saw a socket timeout past the deadline. The arguments,
results and decoding of calls are left out; a provider's result and its error
are both answers and differ only by name.

**Broadcast.** Workers end in `SendResult` and then `WorkerDone` (the deferred
`wg.Done`), `CloseChannel` is the goroutine behind `wg.Wait`, `Receive` and
`AllFailed` the `range resultChan` loop. The copies run under the caller's own
context, whose end is `CallerEnds`, before or after the return.

**Failover.** The four sequential methods have one shape, and a caller runs it:
`BeginScan`, one `ScanNext` per client (each a single atomic load), `Choose`,
`Request`, and on a retryable error `Demote` (the flag) and `DemoteGauge` (the
gauge) before it starts over. A health goroutine runs `HealthRpc`, `HealthFlag`,
`HealthGauge` and waits (`HealthTick`, `HealthStop`). A provider is `up`,
`partial` (it answers `eth_chainId` and fails the calls) or `down`, and may
change; a limiter's refusal, being retryable, looks the same as `down`. Which
candidates `canMakeRequestNow` accepts is left open (`Choose`), as is the score;
`Selection` has both. `demoted`, `steady` and `passed` are history variables.

**ClientGate.** `Enter` to `Send` are `applyRateLimit`, `Finish` and `Discount`
the done function's two statements, `Probe` and `ProbeReleases` the two halves of
`canMakeRequestNow`. The bucket of `golang.org/x/time/rate` (v0.5.0) and the
semaphore of `golang.org/x/sync` (v0.7.0) are external; they are modelled with
what the gate uses: reservations that are paid back only when they were the last
one, and a FIFO line whose head is granted by `Release`. What holds of that line
(`NobodyStranded`, `LineIsQueue`) is a fact of the semaphore, not of the gate; it
is part of `IInv` because the proofs of what does hold of the gate need it. A tick is
the time of one token. The flag `nonBlocking` is false in every call of the library.
`Place` maps a request to where it is for its caller: `arrived` until the limiter has
let it through, `paced` until it has a permit, `inside`, and `left` or `refused`.

**Selection, Routing, Dispatch.** `Dispatch` has one action, `Send`: the request it
begins with goes to one of the sets `Recipients` allows in the pool it begins with;
what the providers then do is in the other modules. The score is a square root; scores are compared exactly,
through their squares scaled to integers (`Exceeds`). The truncation of the
comparator's difference to `int` is kept. `Scale` is a common multiple of what the
squares are divided by, one more than each client's `queued` counter: it makes them
whole and changes no comparison. `SortByScore` is the insertion sort that
`slices.SortFunc` runs on lists of at most twelve elements. The comparator is no
order, so that what holds of this sort need not hold of the one for longer lists:
`NearBestScore` speaks of the code for pools of up to twelve candidates. The loads are
frozen while it sorts. The code's are not: `clientRateLimitScore` reads `queued` again
at every comparison (`rate_limit.go:118`), while other requests change it, so that
one sort may compare a client's load of two moments. `NearBestScore` and
`ChooseCoversChoice` are about loads that stay still while the choice is made, as the
set of clients below their limits does, too; they do not bound what a sort of moving
scores may choose. `BestScoreChosen` fails even for loads that stay still. A method is its
name; `Subscribes` are those with the suffix `_subscribe`. `Recipients` gives the
sets of clients one request can reach: one by choice, all eligible ones, all with
the send-only ones, or a prefix of the readers (`SupportedModules` stops at an
error). The sets `ChainReads` to `EstimateGas` name the requests of the methods of
`eth/client.go`, `TypedMethods` collects them.

**EthClient.** A block is a hash at one height, with its transactions, each with the
sender the protocol derives at its inclusion, and its uncles. `SenderFromServer`
and `Equal` are the signer of `eth/signer.go`; `Hit`, `Recover` and `StoreSigned`
are what go-ethereum's `types.Sender` does with the cache, the load and the store
being separate steps. `FetchTransaction` and `ShareFromBlock` produce the
transaction the callers share, `AskSender` and `AnswerSender` are
`TransactionSender`, `RequestBlock` and `RequestUncles` the two requests of
`getBlock`, with the quick verification between them. A provider may drop a list
from its answer, may not know a block, and may follow another branch at any time
(`NewHead`), but it does not forge blocks: a hash stands for its contents.
`origin` is a history variable.

Operators whose comment begins with "Seeded fault" are not part of the model:
each is a plausible bug of the operator after it, with which a property of the
project fails.

## 3. Runs

`IInv` is in each of the six concurrent modules the inductive invariant of Section 4.
Its first conjunct is the type invariant `TypeOK`, and further conjuncts are safety
properties with names of their own, which TLC checks as part of it (`QueuedCounts` and
`PermitsHeld` of the gate, `NoSendOnClosed` and
`ReceiverHoldsFirstAcceptance` of the broadcast, `FailureIsComplete` and
`UncountedOnlyLosers` of the reads).

| Run (cfg) | Instance | Question and result |
|---|---|---|
| `parallel_read` (`MCParallelCall`) | providers of weights 2, 2, 1, one behind a gate; every flag combination, every deadline order | all safety properties of a read, its inductive invariant, and that it implements `WeightedRead`: hold |
| `parallel_read_live` (`MCParallelCallLive`) | two providers of different weight | the call returns and no goroutine stays behind: hold |
| `broadcast` (`MCBroadcast`) | two readers and a send-only provider | failure means that nobody accepted, first acceptance, no send on a closed channel, copies that outlive the return and are heard, termination, and the inductive invariant: hold |
| `failover` (`MCFailover`) | a WebSocket and an HTTP reader, a send-only client, one caller, two changes of a provider from any initial condition | no blind retry, priority under racing flags, honest `ErrNoAvailableClients`, and the inductive invariant: hold |
| `failover_live` (`MCFailoverLive`) | one reader, two callers, two changes | flags and gauges converge, the recursion ends, `Close` ends the loops: hold |
| `gate` (`MCClientGate`) | three requests, two of them with a deadline, a probe, two permits, burst 1 | the counter and the permits are exact, the gate implements `GateContract`, bounded requests leave although an unbounded one may keep its permit, and the inductive invariant: hold |
| `selection` (`MCSelection`) | three readers and a send-only client; every order, flag, load and preference; every typed request, stateful method and batch of up to two | the choice and the groups equal their definitions; only reads are duplicated, send-only clients only send, subscriptions reach a transport that can push, typed reads reach all enabled readers: hold |
| `dial` (`MCDial`) | four pools, with three readers, with one, without any, and empty; five tries | the verdict, what is handed out, no goroutine outlives the dial, the dial ends, and the inductive invariant: hold |
| `eth` (`MCEthClient`) | four blocks of one height, two providers, three callers, one change of a head after any initial heads | senders, signatures, whole blocks, the cache's fast path, and the inductive invariant: hold |
| `rate_limit_burst` (`MCClientGateRate`) | as `gate` | `RateLimitRespected`: violated |
| `best_score` (`MCSelectionScore`) | as `selection` | `BestScoreChosen`: violated |
| `gauge_at_rest` (`MCFailoverGauge`) | two readers, one caller | `GaugeAgreesAtRest`: violated |

What some properties say, and what they do not:

* `AnswersAreGenuine`: a response that is returned ended its attempt by itself, as a
  result, an error, or a socket timeout before the attempt's deadline; a context's
  error or its custom cause is never returned as an answer. There is one exception,
  the code's: a connection found closed once a deadline has passed counts as an
  error of the provider (`parallel_errors.go:46-48` looks only at errors that say
  they are timeouts), so it may be selected.
* `OnlyTimeoutsDiscarded` is its counterpart for what is passed over: the refusal of
  a limiter, the error of a context that a deadline ended, or a socket timeout that
  the worker itself saw past the deadline. A socket that timed out early stays an
  answer although the coordinator, waiting for a heavier provider, reads it late.
* `NoLateStart` is about workers that first run after the return, or after the end of
  the caller's context. A copy that already waits at its gate then is not covered:
  the semaphore (v0.7.0) may still admit a request whose context is over, and the
  transport then cuts it off.
* `CopiesOutliveReturn`: after a broadcast has returned its first acceptance, every
  copy is still accepted or rejected by its provider, and the channel closed, unless
  the caller's context ends or a provider never answers. That context's end is the
  only thing that may end a copy.
* `KeepsContract`: the instance has a limiter and a request without a deadline, which
  the gate must never refuse; and a bounded request, once past the limiter, may be
  refused only when its context is over, however saturated the provider is.

### Where code and documentation part

1. `RateLimit` is documented as "the maximum number of requests per second". The
   limiter starts with a full bucket of that size and refills it at that rate, so
   one second can see up to twice as many requests.
2. "Select client with best rate limit score": the comparator truncates the
   difference of two scores, so scores less than one apart count as equal. What
   does hold is `NearBestScore`: the loss is below one point per rival.
3. The gauge "whether a client is enabled" can disagree with the flag after the
   two writes of a health check and of a demotion interleave, until the next
   check; `FlagsConverge` is what holds.

The comment "Deactivate the client and retry with another" (`multi_client.go:283`)
describes the usual case: the retry goes to any enabled client, and a health check
may have enabled the same one again. `NoBlindRetry` is what holds.

Behaviour that no document describes, found while modelling and kept in the models:

* A context that ends during the connectivity check does not end the dial: each
  reader still fails its remaining tries and sleeps a second after each, and the
  error is `ErrNoAvailableClients`, not the context's.
* A pool without readers cannot be dialled (0 errors out of 0), though it could
  broadcast; `VerdictFits` says so. A failed dial leaves open what it has dialled.
* `canMakeRequestNow` takes a permit in order to know whether one is free, so that
  probes of two calls can make each other see a saturated provider.
* A raw transaction in a batch or in `Notify` is sent to one provider; only
  `CallContext` broadcasts it.
* `SupportsSubscriptions` counts send-only clients, which `Subscribe` never asks.
* An address of zero from a provider is never cached, so each question for that
  sender is another request (`FastPath` excludes it).

### Bounds

`MaxChanges` bounds how often providers change their condition (to 2; any
condition is initial, so a stale request or verdict needs one change). `Word`
stands for 2^64 and is larger than the number of requests, so that the counter
wraps only if it is decremented once too often. `Patience` is the wait a deadline
leaves. Two providers of equal weight and a lighter one are enough for a race
within a group and for the passage from one group to the next; three requests and
two permits for a line, a grant, and a cancellation of its head.
`Retries` is 5 as in the code. `MaxHeads` bounds the changes of the providers'
heads to 1; every combination of heads is initial, so that two providers may
differ from the start and one change is a reorganisation between any two steps. Of
the four blocks two hold the transaction with different senders, one lacks it, one
names the zero address; one has no uncles. A batch of two elements is enough for a
method to spoil the other's route. The calls are finite, so no state constraint is
used anywhere.

### Fairness

Goroutines that can run are scheduled, timers fire, a transport gives up when its
request's context has ended. Nothing is assumed of providers: an answer, an
admission by the gate and the end of the caller's context may never come, because
the transports of go-ethereum put no limit on the time of a whole request. Hence
`EveryRequestLeaves` speaks of the requests with a deadline (`Bounded`), and
promises that they leave although a request without one may keep its permit for
ever. Two requests do have a limit in the code and are assumed to end: the health
check's, by `healthCheckTimeout`, and the connectivity check's, by its three
seconds. `DialEnds` begins after the last provider is dialled, since setting up a
connection need not end. The stop branch of a health goroutine is strongly fair:
Go's `select` chooses at random among ready cases, so a case that is ready at every
iteration is taken. `Close`, changes of the providers and cancellations are never
assumed to happen.

`CallReturns` of `Failover` excludes, on purpose, providers that go on answering
`eth_chainId` while failing calls: with one of these, the recursion of
`CallContext` need not end when the caller has no deadline.

## 4. Proofs

Each proof module but `SelectionProofs`, which holds lemmas, has a theorem
`Inductive`, `Spec => []IInv`, for the inductive invariant `IInv` of its component,
and one theorem per property, with the property's name and `Holds`; those about
the concurrent modules have `TypeCorrect`, too. (The invariant of `Dispatch` only
repeats what its one action does; what is difficult there is in the operators.)
Every safety property of a passing run is proved.

| Module | For | Properties proved |
|---|---|---|
| `ParallelCallProofs` | any finite set of providers, any weights, any subset of send-only and of rate-limited providers | `WeightPriority`, `DeadlineKeepsBestBuffered`, `AnswersAreGenuine`, `OnlyTimeoutsDiscarded`, `FailureIsComplete`, `UncountedOnlyLosers`, `WorkersNeverWait`, the action property `NoLateStart`, and the refinement `ImplementsWeightedRead` |
| `BroadcastProofs` | any finite set of providers, any subset of send-only ones | `FailureMeansNobodyAccepted`, `ReceiverHoldsFirstAcceptance`, `NoSendOnClosed` |
| `FailoverProofs` | any list of clients sorted by weight, any number of callers, any bound on the providers' changes, either transport preference | `NoBlindRetry`, `SelectionRespectsPriority`, `UnavailableMeansNone`, `FlagsFit`, and that `Choose` covers what getRpcClient computes (`ChooseCoversChoice`) |
| `ClientGateProofs` | any finite sets of requests and probes, any limits, any deadlines | `QueuedCounts`, `PermitsHeld`, and the refinement `KeepsContract` |
| `DialProofs` | any set of configurations, any number of tries | `VerdictFits`, `HandsOverPool`, `NobodyWritesLater`, `StartsTheRest` |
| `EthClientProofs` | any blocks, providers, callers and number of reorganisations | `SenderOfInclusion`, `SignatureIsOwners`, `BlockIsWhole`, `FastPath` |
| `DispatchProofs` | any finite set of clients, any weights, transports, orders, flags, loads and free clients, any method names | `FreeByPreferenceAndWeight`, `NearBestScore`, `GroupsAreWeights`, `OnlyReadsDuplicated`, `SendOnlyOnlySends`, `SubscriptionsAreDelivered`, `TypedClientFansOut` |

Assumptions: `ProvidersAssumption` and the assumption of the module (a finite set
of clients, weights in `Nat`, a sorted list of all clients, a value that is no
client; for the gate, that the counter's word exceeds the number of requests; for
`EthClient`, that a block lists a transaction once and that senders are addresses;
for `Dispatch`, that a behaviour begins with a pool, whose list is sorted by weight
and whose loads `Scale` fits, and a request of one of the client's methods).
None restricts the number of goroutines.

None of the properties of the concurrent modules is inductive alone.

**ParallelCall.** `WeightPriority` needs to know that a group is left only when all
its members have been heard, which counts responses: a channel holds one response
of each finished worker (`ChannelInv`), so as many responses as members means
every member (`InjectiveLog`, by `FS_Injection` of the library). `HeardInv` then
says that every client of a group that was left is among the collected timeouts,
unless the caller's deadline ended the wait. `DeadlineKeepsBestBuffered` needs
that what was buffered at the deadline stays in the channel of a group not yet
left (`RipeInv`). The classification of errors needs the attempt's context at the
end of the attempt (`AttemptInv`, which also ties `late` to the verdict sent).
`OutcomeInv` carries the properties over the return. Each conjunct has a lemma `...Next` with a case per action.

**Broadcast.** `FailureMeansNobodyAccepted` holds because `range` ends only at a
closed channel that has been drained: the channel is closed when the WaitGroup is
at zero, the WaitGroup counts the workers not yet done (`WaitInv`), each of those
that are done has one entry in the channel (`ChannelInv`), and what was taken out
and did not end the call was a failure (`HeardInv`). `SnapshotInv` relates the
workers to the flags read at the beginning. There is a lemma `...Keeps` per action.

**Failover.** `UnavailableMeansNone` and `SelectionRespectsPriority` speak of flags
that change while they are read. `ScanInv` is what a scan knows at each position:
every suitable client it has come past that was steady, that is, enabled ever
since the scan began, is among the candidates. `FlagInv` says that a steady client
is enabled and a disabled one is not, so that the scan finds the former
(`ScanNextKeeps`) and `NoBlindRetry` follows for the latter. That a nonempty set
of candidates has a first one (`FirstOfIsFirst`) comes from the well-foundedness
of `Nat`. `StoreKeepsSteady` is shared by the two writers of a flag.

**The refinement of `WeightedRead`.** The mapping keeps the answers that workers have
delivered (`Replies`), the end of the caller's context (`Over`) and the return
value (`Outcome`). A worker's `Deliver` is a reply of the abstract read, `Take` of
an answer is its choice, `Fail` and `Abort` its two failures, and everything else
stutters. The choice is allowed because of `HeardInv` and `RipeInv` (nothing better
is outstanding), and `DeliveredInv` says that a delivered response is the one its
worker ended with, so that what is read from a channel is what was replied.

**ClientGate.** `QueuedCounts` counts modulo the counter's word the requests between
`Enter` and `Discount`. `PermitsHeld` counts the permits of requests and of probes;
it is preserved by `Release` because the line's grants (`Notify`) hand over exactly
what was freed, for which the line must be known to hold the waiting requests, each
once, and to be empty while permits are free (`LineIsQueue`, `NobodyStranded`). For
`KeepsContract` every action is either the move of one request from place to place
or leaves all of them where they are; the bound in `Admit` is `PermitsHeld`, and a
grant in line is a permit counted there already.

**Dial.** `ListInv` is the copy and then the permutation of the configuration,
`ReachInv` says that a reader's flag is set exactly when its goroutine returned
early, `CountInv` that the two counters count goroutines. That the verdict is right
then follows from cardinalities: as many errors as goroutines means every one.

**EthClient.** `CacheInv`: what the cache holds is right for its key, whoever wrote
it. `OriginInv` follows the entry made when the transaction was fetched until a
user's `types.Sender` replaces it. `CallInv` says what a caller between two
requests knows.

**Selection and Dispatch.** The state of `Dispatch` changes once; its difficulty is
in what the operators compute on lists of any length. `ParallelGroups` and
`SortByScore` are recursive functions over the prefixes of the list. That such a
function exists, with the values its recursion says, and every induction along a
list rest on the well-foundedness of `Nat`: the lengths for which a statement fails
have no least element (`UpTo`, `Recursion`; the library's induction theorems, which
take an operator as parameter, are not used).

* `GroupsAreWeights` follows from `GroupsOf`, the property for a prefix, which
  either way to add a client keeps (`GroupOpens`, `GroupGrows`): the concatenation
  of the groups is the prefix, each is of one weight, and the last one's weight is
  that of the last client. That equal weights are in one group needs that weights
  descend over any distance, not only from a group to the next (`GroupsDescend`).
* `NearBestScore` is about a sort whose comparator is not transitive: scores closer
  than one point count as equal. What insertion does keep is that no element goes
  before its left neighbour (`InsertionKeeps`, `SortHolds`), for which it is enough
  that of two clients at most one goes before the other (`GoesBeforeOneWay`). So a
  score exceeds its left neighbour's by less than a point and, `n` places from the
  first, that one's by less than `n` points (`FirstIsNearBest`). Scores being known by
  their squares only, one step of this sum is `PointsAdd`: if `z` exceeds `y` by less
  than a point and `y` exceeds `x` by less than `m` points, then `z` exceeds `x` by
  less than `m + 1`, proved over the integers without a root.
* `FreeByPreferenceAndWeight` needs that in a list sorted by weight the first
  client of a set is one of its heaviest (`FirstInIsFirst`, `FirstIsHeaviest`).
* The four properties of the routes follow from the route of a request
  (`RequestsHold`, `SubscriptionsHold`, `TypedReadsRace`), the allow-list
  (`ReadsAreStateless`) and whom each route asks (`RoutesHold`).

Only model-checked: liveness (`CallReturns`, `WorkersStop`, `CopiesOutliveReturn`,
`AcceptanceReturns`, `EndOfContextEndsAll`, `FlagsConverge`, `CloseEndsHealthChecks`, `DialEnds`,
`EveryRequestLeaves`), which is beyond TLAPS.

## 5. Not modelled

* Encoding of arguments and decoding of results, and the ownership of memory
  (`parallelArgs`, the private receivers): data, not control.
* `nonBlocking` mode of the gate (never used).
* `RegisterName` and `SetHeader`, which hand a value to each connection in turn, and
  `SupportsSubscriptions`.
* Two concurrent `Close` calls, which can both find `stopped` open, so that the
  second `close` panics. No document claims that this is allowed.
* The metrics other than the gauge and the losers' errors: plain increments.
* In the `eth` package the conversions of arguments and results (`toFilterArg`,
  `toCallArg`, block numbers, hexadecimal quantities, receipts): data, not control.
* Connections: subscriptions after they are set up and reconnections belong to
  go-ethereum.

## 6. Left

A composition of `ParallelCall` with `ClientGate` in one state space, in which losing
copies hold permits of the gate while the next read waits in its line: each side of
that interface is checked and proved on its own. The conversions of the `eth`
package could be modelled as functions over small inputs.
