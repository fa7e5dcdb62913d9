------------------------------- MODULE Failover -------------------------------
(***************************************************************************)
(* Calls routed to one provider at a time, and the health flags they are   *)
(* routed by.  CallContext, BatchCallContext, Subscribe and Notify of a    *)
(* MultiRpcClient (rpc/multi_client.go) choose an enabled client, disable  *)
(* it when its error is retryable, and start over; meanwhile one goroutine *)
(* per client (rpc/multi_client_health.go) sets its flag from a probe RPC, *)
(* and Close ends those goroutines.                                        *)
(*                                                                         *)
(* The flag of a client is an atomic; setEnabled writes it and then the    *)
(* gauge exported to the metrics, in two steps.  A scan of the flags reads *)
(* them one at a time.                                                     *)
(***************************************************************************)
EXTENDS Providers, Sequences

CONSTANTS
  Callers,     \* goroutines that make one call each
  Order,       \* allClients, sorted by weight
  Kinds,       \* kinds of calls made: TRUE for subscription-related ones
  PreferHttp,  \* preferHttpForNonSubscriptionRelated
  MaxChanges,  \* bound on the changes of the providers' condition
  NoClient

ASSUME FailoverAssumption ==
  /\ Order \in Seq(Clients)
  /\ \A c \in Clients : \E i \in DOMAIN Order : Order[i] = c
  /\ \A i, j \in DOMAIN Order : i < j =>
       Order[i] # Order[j] /\ Weight[Order[i]] >= Weight[Order[j]]
  /\ Kinds \subseteq BOOLEAN
  /\ PreferHttp \in BOOLEAN
  /\ MaxChanges \in Nat
  /\ NoClient \notin Clients

VARIABLES
  enabled,   \* the health flags that are set
  gauge,     \* clients whose ClientEnabled gauge is 1
  at,        \* where each caller is, or how its call returned
  kind,      \* TRUE for a call that is subscription related
  scanned,   \* how far the caller's scan of the flags has come
  seen,      \* clients the scan found eligible
  chosen,    \* client the caller's request goes to
  health,    \* where the health goroutine of each client is
  verdict,   \* result of the last health RPC
  stopped,   \* the stopped channel is closed
  closed,    \* how many clients of Order Close has closed
  up,        \* condition of each provider that serves reads
  changes,   \* how often it has changed
  demoted,   \* history: clients the call has disabled and nobody enabled since
  steady,    \* history: clients enabled ever since the caller's scan began
  passed     \* history: clients canMakeRequestNow refused in the last choice

flagVars   == <<enabled, gauge>>
callVars   == <<at, kind, scanned, seen, chosen>>
healthVars == <<health, verdict, stopped, closed>>
envVars    == <<up, changes>>
histVars   == <<demoted, steady, passed>>
vars == <<flagVars, callVars, healthVars, envVars, histVars>>

Readers == Clients \ SendOnly

\* How a provider looks through its client: it answers reads and probes, answers
\* only probes, or neither.  A saturated limiter makes it look down: its refusal
\* is retryable, too.
Conditions == {"up", "partial", "down"}

Returned == {"ok", "error", "unavailable"}

TypeOK ==
  /\ enabled \subseteq Clients /\ gauge \subseteq Clients
  /\ at \in [Callers -> {"new", "scan", "choose", "rpc", "demote", "gauge"} \cup Returned]
  /\ kind \in [Callers -> Kinds]
  /\ scanned \in [Callers -> 0..Len(Order)]
  /\ seen \in [Callers -> SUBSET Clients]
  /\ chosen \in [Callers -> Readers \cup {NoClient}]
  /\ health \in [Readers -> {"rpc", "flag", "gauge", "wait", "exited"}]
  /\ verdict \in [Readers -> BOOLEAN]
  /\ stopped \in BOOLEAN
  /\ closed \in 0..Len(Order)
  /\ up \in [Readers -> Conditions]
  /\ changes \in 0..MaxChanges
  /\ demoted \in [Callers -> SUBSET Clients]
  /\ steady \in [Callers -> SUBSET Clients]
  /\ passed \in [Callers -> SUBSET Clients]

\* DialMultiContext has returned: see the module Dial.
Init ==
  /\ up \in [Readers -> Conditions]
  /\ enabled \in DialledFlags(Clients)
  /\ gauge = enabled
  /\ at = [q \in Callers |-> "new"]
  /\ kind \in [Callers -> Kinds]
  /\ scanned = [q \in Callers |-> 0]
  /\ seen = [q \in Callers |-> {}]
  /\ chosen = [q \in Callers |-> NoClient]
  /\ health = [c \in Readers |-> "rpc"]
  /\ verdict = [c \in Readers |-> FALSE]
  /\ stopped = FALSE
  /\ closed = 0
  /\ changes = 0
  /\ demoted = [q \in Callers |-> {}]
  /\ steady = [q \in Callers |-> {}]
  /\ passed = [q \in Callers |-> {}]

-----------------------------------------------------------------------------
(* setEnabled.                                                             *)

\* Seeded fault: the flag is only ever set.
NeverCleared(c, on) == enabled' = IF on THEN enabled \cup {c} ELSE enabled

\* c.enabled.Store(on).
StoreFlag(c, on) == enabled' = IF on THEN enabled \cup {c} ELSE enabled \ {c}

\* What the histories make of it.
StillSteady == steady' = [q \in Callers |-> steady[q] \cap enabled']

\* ClientEnabled...Set(1) or Set(0).
SetGauge(c, on) == gauge' = IF on THEN gauge \cup {c} ELSE gauge \ {c}

\* The position of a client in Order.
Rank(c) == CHOOSE i \in DOMAIN Order : Order[i] = c

\* The condition of a provider, seen through its client: a closed WebSocket or
\* IPC connection answers nothing; closing an HTTP client does nothing.
Condition(c) == IF c \in Duplex /\ Rank(c) <= closed THEN "down" ELSE up[c]

-----------------------------------------------------------------------------
(* A caller.                                                               *)

\* The call, or its retry, begins a scan of the flags.
BeginScan(q) ==
  /\ at[q] = "new"
  /\ at' = [at EXCEPT ![q] = "scan"]
  /\ steady' = [steady EXCEPT ![q] = enabled]
  /\ UNCHANGED <<flagVars, kind, scanned, seen, chosen, healthVars, envVars, demoted, passed>>

\* Seeded fault: the loop ends one client early.
AllButLast == Len(Order) - 1

\* How many clients a scan looks at.
ScanLength == Len(Order)

\* eligibleClients looks at the next client.
ScanNext(q) ==
  /\ at[q] = "scan"
  /\ scanned[q] < ScanLength
  /\ LET c == Order[scanned[q] + 1] IN
       seen' = [seen EXCEPT ![q] =
                  IF c \in EligibleClients(enabled, kind[q], FALSE) THEN @ \cup {c} ELSE @]
  /\ scanned' = [scanned EXCEPT ![q] = @ + 1]
  /\ UNCHANGED <<flagVars, at, kind, chosen, healthVars, envVars, histVars>>

\* Seeded fault: the last candidate in the list is tried first.
LastOf(S) == CHOOSE c \in S : \A d \in S : Rank(d) <= Rank(c)

\* The candidate that comes first in the list.
FirstOf(S) == CHOOSE c \in S : \A d \in S : Rank(c) <= Rank(d)

\* The candidates preferred for the caller's request.
Preferred(q, S) == {c \in S : ~(PreferHttp /\ ~kind[q] /\ c \in Duplex)}

\* getRpcClient chooses: canMakeRequestNow holds for the clients in free.  With
\* none, the score decides, which here may be for any of them.
Choose(q) ==
  /\ at[q] = "scan"
  /\ scanned[q] = ScanLength
  /\ IF seen[q] = {}
       THEN /\ at' = [at EXCEPT ![q] = "unavailable"]
            /\ UNCHANGED <<chosen, passed>>
       ELSE \E free \in SUBSET seen[q] :
              /\ at' = [at EXCEPT ![q] = "rpc"]
              /\ passed' = [passed EXCEPT ![q] = seen[q] \ free]
              /\ IF Preferred(q, free) # {}
                   THEN chosen' = [chosen EXCEPT ![q] = FirstOf(Preferred(q, free))]
                 ELSE IF free # {}
                   THEN chosen' = [chosen EXCEPT ![q] = FirstOf(free)]
                 ELSE \E c \in seen[q] : chosen' = [chosen EXCEPT ![q] = c]
  /\ scanned' = [scanned EXCEPT ![q] = 0]
  /\ seen' = [seen EXCEPT ![q] = {}]
  /\ UNCHANGED <<flagVars, kind, healthVars, envVars, demoted, steady>>

\* The request's outcome: a result or an error of the RPC, the error of a context
\* that may end at any time, or a retryable error (isErrorRetryable).
Request(q) ==
  /\ at[q] = "rpc"
  /\ \/ \E r \in IF Condition(chosen[q]) = "up" THEN {"ok", "error"} ELSE {"error"} :
          /\ at' = [at EXCEPT ![q] = r]
          /\ chosen' = [chosen EXCEPT ![q] = NoClient]
          /\ demoted' = [demoted EXCEPT ![q] = {}]
     \/ /\ Condition(chosen[q]) # "up"
        /\ at' = [at EXCEPT ![q] = "demote"]
        /\ UNCHANGED <<chosen, demoted>>
  /\ steady' = [steady EXCEPT ![q] = {}]
  /\ passed' = [passed EXCEPT ![q] = {}]
  /\ UNCHANGED <<flagVars, kind, scanned, seen, healthVars, envVars>>

\* ic.setEnabled(false): the flag ...
Demote(q) ==
  /\ at[q] = "demote"
  /\ StoreFlag(chosen[q], FALSE)
  /\ StillSteady
  /\ demoted' = [demoted EXCEPT ![q] = @ \cup {chosen[q]}]
  /\ at' = [at EXCEPT ![q] = "gauge"]
  /\ UNCHANGED <<gauge, kind, scanned, seen, chosen, healthVars, envVars, passed>>

\* ... then the gauge, and the call starts over.
DemoteGauge(q) ==
  /\ at[q] = "gauge"
  /\ SetGauge(chosen[q], FALSE)
  /\ at' = [at EXCEPT ![q] = "new"]
  /\ chosen' = [chosen EXCEPT ![q] = NoClient]
  /\ UNCHANGED <<enabled, kind, scanned, seen, healthVars, envVars, histVars>>

-----------------------------------------------------------------------------
(* The health goroutine of a reader.                                       *)

\* Seeded fault: an error of the health RPC is ignored.
AlwaysHealthy(c) == TRUE

\* eth_chainId returns no error within the timeout.
Healthy(c) == Condition(c) # "down"

HealthRpc(c) ==
  /\ health[c] = "rpc"
  /\ verdict' = [verdict EXCEPT ![c] = Healthy(c)]
  /\ health' = [health EXCEPT ![c] = "flag"]
  /\ UNCHANGED <<flagVars, callVars, stopped, closed, envVars, histVars>>

\* client.setEnabled(err == nil): the flag ...
HealthFlag(c) ==
  /\ health[c] = "flag"
  /\ StoreFlag(c, verdict[c])
  /\ StillSteady
  /\ demoted' = [q \in Callers |-> IF verdict[c] THEN demoted[q] \ {c} ELSE demoted[q]]
  /\ health' = [health EXCEPT ![c] = "gauge"]
  /\ UNCHANGED <<gauge, callVars, verdict, stopped, closed, envVars, passed>>

\* ... then the gauge.
HealthGauge(c) ==
  /\ health[c] = "gauge"
  /\ SetGauge(c, verdict[c])
  /\ health' = [health EXCEPT ![c] = "wait"]
  /\ verdict' = [verdict EXCEPT ![c] = FALSE]
  /\ UNCHANGED <<enabled, callVars, stopped, closed, envVars, histVars>>

\* The ticker fires; select may prefer it to a closed stopped channel.
HealthTick(c) ==
  /\ health[c] = "wait"
  /\ health' = [health EXCEPT ![c] = "rpc"]
  /\ UNCHANGED <<flagVars, callVars, verdict, stopped, closed, envVars, histVars>>

\* Seeded fault: the goroutine looks only at the ticker.
DeafToStop == FALSE

\* The stopped channel is ready to be received from.
StopReady == stopped

HealthStop(c) ==
  /\ health[c] = "wait"
  /\ StopReady
  /\ health' = [health EXCEPT ![c] = "exited"]
  /\ UNCHANGED <<flagVars, callVars, verdict, stopped, closed, envVars, histVars>>

-----------------------------------------------------------------------------
(* Close, and the providers.                                               *)

CloseStopped ==
  /\ ~stopped
  /\ stopped' = TRUE
  /\ UNCHANGED <<flagVars, callVars, health, verdict, closed, envVars, histVars>>

\* The loop of Close closes the next client.
CloseNext ==
  /\ stopped
  /\ closed < Len(Order)
  /\ closed' = closed + 1
  /\ UNCHANGED <<flagVars, callVars, health, verdict, stopped, envVars, histVars>>

ProviderChanges(c) ==
  /\ changes < MaxChanges
  /\ \E s \in Conditions \ {up[c]} : up' = [up EXCEPT ![c] = s]
  /\ changes' = changes + 1
  /\ UNCHANGED <<flagVars, callVars, healthVars, histVars>>

\* Every call has returned and Close has ended every goroutine.
Terminated ==
  /\ \A q \in Callers : at[q] \in Returned
  /\ \A c \in Readers : health[c] = "exited"
  /\ closed = Len(Order)
  /\ UNCHANGED vars

CallerStep(q) ==
  BeginScan(q) \/ ScanNext(q) \/ Choose(q) \/ Request(q) \/ Demote(q) \/ DemoteGauge(q)

HealthStep(c) == HealthRpc(c) \/ HealthFlag(c) \/ HealthGauge(c) \/ HealthTick(c)

Next ==
  \/ \E q \in Callers : CallerStep(q)
  \/ \E c \in Readers : HealthStep(c) \/ HealthStop(c)
  \/ CloseStopped \/ CloseNext
  \/ \E c \in Readers : ProviderChanges(c)
  \/ Terminated

Spec == Init /\ [][Next]_vars

\* Goroutines are scheduled, tickers tick and health RPCs end, since eth_chainId is
\* given a timeout.  A call's own request may never end: neither the call nor the
\* transport needs to have a deadline.  select chooses at random among its ready
\* cases, so a case that is ready again and again is taken: strong fairness of
\* HealthStop.
Fairness ==
  /\ \A q \in Callers : WF_vars(at[q] # "rpc" /\ CallerStep(q))
  /\ \A c \in Readers : WF_vars(HealthStep(c)) /\ SF_vars(HealthStop(c))

FairSpec == Spec /\ Fairness

-----------------------------------------------------------------------------
(* Properties.                                                             *)

\* A call that disabled a client does not go back to it until someone has found
\* the client healthy and enabled it: the recursion of CallContext after
\* setEnabled(false) is not a blind retry, whatever the other goroutines do.
NoBlindRetry ==
  \A q \in Callers : at[q] = "rpc" => chosen[q] \notin demoted[q]

\* Flags that change under a scan do not cost a call its place in the order: a
\* client that suits the call, was enabled ever since the scan began and could
\* take the request at once is passed over only for one that precedes it and
\* could, too (getRpcClient).
SelectionRespectsPriority ==
  \A q \in Callers : at[q] = "rpc" =>
    \A c \in Preferred(q, EligibleClients(steady[q], kind[q], FALSE)) \ passed[q] :
      chosen[q] \notin passed[q] /\ Rank(chosen[q]) <= Rank(c)

\* ErrNoAvailableClients is not an artefact of the race with the health checks:
\* no client that suits the call was enabled throughout the scan.
UnavailableMeansNone ==
  \A q \in Callers : at[q] = "unavailable" => EligibleClients(steady[q], kind[q], FALSE) = {}

\* The health checks repair every stale demotion and every stale verdict: the
\* flag and the gauge of a reader follow a provider that settles, however the
\* writes of the callers and of the goroutine interleave, until Close.
FlagsConverge ==
  \A c \in Readers :
    /\ <>[](~stopped /\ up[c] = "up") => <>[](c \in enabled /\ c \in gauge)
    /\ <>[](~stopped /\ up[c] = "down") => <>[](c \notin enabled /\ c \notin gauge)

\* The recursion of CallContext ends, unless a provider goes on passing health
\* checks while it fails the calls: a call that never returns waits for ever for
\* the answer to one request.
CallReturns ==
  <>[](\A c \in Readers : up[c] # "partial") =>
    \A q \in Callers : <>(at[q] \in Returned) \/ <>[](at[q] = "rpc")

\* Close ends every health goroutine, those in the middle of a check included.
CloseEndsHealthChecks == stopped ~> (\A c \in Readers : health[c] = "exited")

\* What the gauge's help says, "Whether a client is enabled" (rpc/metrics.go),
\* once nobody is between the two writes of setEnabled.
GaugeAgreesAtRest ==
  (/\ \A q \in Callers : at[q] # "gauge"
   /\ \A c \in Readers : health[c] # "gauge") => gauge = enabled

-----------------------------------------------------------------------------
(* The inductive invariant behind the safety properties.                   *)

\* A client that a call has disabled is disabled, until someone enables it and
\* the call's grudge is over; a client that is steady is enabled.
FlagInv ==
  \A q \in Callers : demoted[q] \cap enabled = {} /\ steady[q] \subseteq enabled

\* A scan has found readers only, none that the call has disabled, and every
\* suitable client it came past that was enabled all along.
ScanInv ==
  \A q \in Callers :
    /\ at[q] # "scan" => seen[q] = {} /\ scanned[q] = 0
    /\ seen[q] \subseteq Readers
    /\ seen[q] \cap demoted[q] = {}
    /\ \A i \in 1..scanned[q] :
         Order[i] \in EligibleClients(steady[q], kind[q], FALSE) => Order[i] \in seen[q]

\* A request is made of a reader.
ChosenInv ==
  \A q \in Callers : at[q] \in {"rpc", "demote", "gauge"} => chosen[q] \in Readers

\* The inductive invariant: it holds initially, every step of the callers, the
\* health goroutines and Close keeps it, and the safety properties follow from it.
IInv ==
  /\ TypeOK
  /\ FlagInv /\ ScanInv /\ ChosenInv
  /\ NoBlindRetry /\ SelectionRespectsPriority /\ UnavailableMeansNone
=============================================================================
