------------------------------ MODULE ClientGate ------------------------------
(***************************************************************************)
(* The gate in front of one provider (rpc/rate_limit.go): every request of *)
(* an RpcClient goes through applyRateLimit, that is through the client's  *)
(* token bucket, then through its semaphore, and gives its slot back when  *)
(* the RPC is over.  canMakeRequestNow probes the same two objects.        *)
(*                                                                         *)
(* The bucket (golang.org/x/time/rate) and the FIFO semaphore              *)
(* (golang.org/x/sync/semaphore) are external and modelled from the        *)
(* operations the gate uses.  A tick is the time in which the bucket gains *)
(* one token, so a second has RateLimit ticks.                             *)
(***************************************************************************)
EXTENDS SequencesExt

CONSTANTS
  Requests,        \* goroutines that make one request each
  Bounded,         \* the requests whose context has a deadline
  Probers,         \* goroutines in getRpcClient, which probe the gate
  RateLimit,       \* RpcClientData.RateLimit, 0 for no limiter
  MaxConcurrency,  \* RpcClientData.MaxConcurrency, 0 for no semaphore
  Word,            \* values of the queued counter, 2^64 in the code
  Patience         \* ticks a bounded request can wait before its deadline

ASSUME GateAssumption ==
  /\ IsFiniteSet(Requests) /\ IsFiniteSet(Probers)
  /\ Requests \cap Probers = {} /\ Bounded \subseteq Requests
  /\ RateLimit \in Nat /\ MaxConcurrency \in Nat
  /\ Patience \subseteq Nat
  /\ Word \in Nat /\ Word > Cardinality(Requests)

VARIABLES
  at,       \* where each request is
  over,     \* requests whose context is over
  queued,   \* RpcClient.queued
  tokens,   \* the bucket: tokens at hand, below 0 when some are promised
  due,      \* ticks until a waiting request's token is there
  lastDue,  \* ticks until the last promised token is there
  cur,      \* semaphore: permits given out
  waiters,  \* semaphore: requests waiting for a permit, first come first
  probe,    \* what each prober is doing, or has been told
  sent      \* history: RPCs sent in each tick of the last second

reqVars == <<at, over, queued>>
limVars == <<tokens, due, lastDue>>
semVars == <<cur, waiters>>
obsVars == <<probe, sent>>
vars == <<reqVars, limVars, semVars, obsVars>>

Limited  == RateLimit > 0
Counted  == MaxConcurrency > 0

\* A request is counted in queued from its entry until its done function ran.
InFlight == {q \in Requests :
               at[q] \in {"limiter", "promised", "sem", "queue", "granted", "rpc",
                          "released"}}

\* Requests and probers that hold a permit of the semaphore.
Holders == {q \in Requests : Counted /\ at[q] \in {"granted", "rpc"}}
           \cup {p \in Probers : probe[p] = "holding"}

States == {"new", "limiter", "promised", "sem", "queue", "granted", "rpc", "released",
           "done", "refused"}

TypeOK ==
  /\ at \in [Requests -> States]
  /\ over \subseteq Requests
  /\ queued \in Nat
  /\ tokens \in Int /\ tokens <= RateLimit
  /\ due \in [Requests -> Int]
  /\ lastDue \in Int
  /\ cur \in Nat
  /\ waiters \in Seq(Requests)
  /\ probe \in [Probers -> {"idle", "holding", "yes", "no"}]
  /\ sent \in Seq(Nat) /\ Len(sent) = RateLimit

Init ==
  /\ at = [q \in Requests |-> "new"]
  /\ over = {} /\ queued = 0
  /\ tokens = RateLimit           \* rate.NewLimiter(RateLimit, RateLimit)
  /\ due = [q \in Requests |-> -1] /\ lastDue = -1
  /\ cur = 0 /\ waiters = <<>>
  /\ probe = [p \in Probers |-> "idle"]
  /\ sent = [i \in 1..RateLimit |-> 0]

-----------------------------------------------------------------------------
(* The semaphore.                                                          *)

\* How many waiting requests, the longest waiting ones, the free permits are for.
NotifyCount(c, ws) == IF MaxConcurrency - c < Len(ws) THEN MaxConcurrency - c ELSE Len(ws)

\* notifyWaiters, with c permits given out and ws waiting: it grants permits in
\* arrival order while there are any.  state is what at was before.
Notify(c, ws, state) ==
  LET n == NotifyCount(c, ws)
      granted == {ws[i] : i \in 1..n}
  IN /\ cur' = c + n
     /\ waiters' = SubSeq(ws, n + 1, Len(ws))
     /\ at' = [q \in Requests |-> IF q \in granted THEN "granted" ELSE state[q]]

Free == cur < MaxConcurrency /\ waiters = <<>>

-----------------------------------------------------------------------------
(* applyRateLimit.                                                         *)

\* A token goes into the bucket, unless it is full.
Refill(t) == IF t < RateLimit THEN t + 1 ELSE RateLimit

\* The request is counted before it waits for anything.
Enter(q) ==
  /\ at[q] = "new"
  /\ queued' = IF queued + 1 = Word THEN 0 ELSE queued + 1
  /\ at' = [at EXCEPT ![q] = IF Limited THEN "limiter" ELSE "sem"]
  /\ UNCHANGED <<over, limVars, semVars, obsVars>>

\* queued.Add(^uint64(0)), as an unsigned counter does it.
Uncount == queued' = IF queued = 0 THEN Word - 1 ELSE queued - 1

\* Seeded fault: a request that is turned away stays counted.
RefusedCounted(q) ==
  /\ at' = [at EXCEPT ![q] = "refused"]
  /\ UNCHANGED queued

\* applyRateLimit returns an error: nothing is held, the count is taken back.
Refused(q) ==
  /\ at' = [at EXCEPT ![q] = "refused"]
  /\ Uncount

\* lim.Wait: the request takes a token or is promised the next one; it is turned
\* away when its context is over, or its deadline comes before the token is due.
Reserve(q) ==
  /\ at[q] = "limiter"
  /\ LET wait == IF tokens >= 1 THEN 0 ELSE 1 - tokens IN
       \/ /\ q \in over \/ (q \in Bounded /\ \E p \in Patience : wait > p)
          /\ Refused(q)
          /\ UNCHANGED limVars
       \/ /\ q \notin over
          /\ tokens' = tokens - 1
          /\ due' = [due EXCEPT ![q] = wait]
          /\ lastDue' = wait
          /\ at' = [at EXCEPT ![q] = IF wait = 0 THEN "sem" ELSE "promised"]
          /\ UNCHANGED queued
  /\ UNCHANGED <<over, semVars, obsVars>>

\* The promised token has come.
Redeem(q) ==
  /\ at[q] = "promised"
  /\ due[q] <= 0
  /\ at' = [at EXCEPT ![q] = "sem"]
  /\ UNCHANGED <<over, queued, limVars, semVars, obsVars>>

\* The context ends while a token is promised.  The promise is returned to the
\* bucket only when no later request has been promised a token.
Forgo(q) ==
  /\ at[q] = "promised"
  /\ q \in over
  /\ Refused(q)
  /\ IF due[q] >= 0 /\ due[q] = lastDue
       THEN /\ tokens' = Refill(tokens)
            /\ lastDue' = IF due[q] > 0 THEN due[q] - 1 ELSE lastDue
       ELSE UNCHANGED <<tokens, lastDue>>
  /\ UNCHANGED <<over, due, semVars, obsVars>>

\* Seeded fault: the semaphore is tried and not waited for.
TryAcquire(q) ==
  /\ at[q] = "sem"
  /\ IF Counted /\ ~Free THEN Refused(q) /\ UNCHANGED cur
     ELSE /\ at' = [at EXCEPT ![q] = "granted"]
          /\ cur' = IF Counted THEN cur + 1 ELSE cur
          /\ UNCHANGED queued
  /\ UNCHANGED <<over, limVars, waiters, obsVars>>

\* acquireSemaphore, blocking.  sem.Acquire: at once when a permit is free and nobody waits, else in line.
Acquire(q) ==
  /\ at[q] = "sem"
  /\ at' = [at EXCEPT ![q] = IF Counted /\ ~Free THEN "queue" ELSE "granted"]
  /\ cur' = IF Counted /\ Free THEN cur + 1 ELSE cur
  /\ waiters' = IF Counted /\ ~Free THEN Append(waiters, q) ELSE waiters
  /\ UNCHANGED <<over, queued, limVars, obsVars>>

\* The line without a request that gives up.
LineWithout(q) == RemoveAt(waiters, CHOOSE i \in DOMAIN waiters : waiters[i] = q)

\* The context ends in line.  The token the request took is not given back.
LeaveQueue(q) ==
  /\ at[q] = "queue"
  /\ q \in over
  /\ LET rest == LineWithout(q)
         state == [at EXCEPT ![q] = "refused"]
     IN IF waiters[1] = q THEN Notify(cur, rest, state)
        ELSE waiters' = rest /\ at' = state /\ UNCHANGED cur
  /\ Uncount
  /\ UNCHANGED <<over, limVars, obsVars>>

\* applyRateLimit has returned done; the RPC is sent.
Send(q) ==
  /\ at[q] = "granted"
  /\ at' = [at EXCEPT ![q] = "rpc"]
  /\ sent' = IF Limited THEN [sent EXCEPT ![RateLimit] = @ + 1] ELSE sent
  /\ UNCHANGED <<over, queued, limVars, semVars, probe>>

\* Seeded fault: the done function leaves the permit with the request.
ReleaseForgotten(x, state) == at' = state /\ UNCHANGED semVars

\* releaseSemaphore, by the holder x; state is where the requests are then.
Release(x, state) ==
  IF Counted THEN Notify(cur - 1, waiters, state)
             ELSE at' = state /\ UNCHANGED semVars

\* The RPC is over, whatever came of it: done() releases the permit ...
Finish(q) ==
  /\ at[q] = "rpc"
  /\ Release(q, [at EXCEPT ![q] = "released"])
  /\ UNCHANGED <<over, queued, limVars, obsVars>>

\* ... and then takes the request out of the count.
Discount(q) ==
  /\ at[q] = "released"
  /\ at' = [at EXCEPT ![q] = "done"]
  /\ Uncount
  /\ UNCHANGED <<over, limVars, semVars, obsVars>>

-----------------------------------------------------------------------------
(* canMakeRequestNow.                                                      *)

\* The probe reads the bucket and, if there is a semaphore, takes a permit.
Probe(p) ==
  /\ probe[p] # "holding"
  /\ \/ /\ (Limited /\ tokens < 1) \/ (Counted /\ ~Free)
        /\ probe' = [probe EXCEPT ![p] = "no"]
        /\ UNCHANGED cur
     \/ /\ Limited => tokens >= 1
        /\ Counted => Free
        /\ probe' = [probe EXCEPT ![p] = IF Counted THEN "holding" ELSE "yes"]
        /\ cur' = IF Counted THEN cur + 1 ELSE cur
  /\ UNCHANGED <<reqVars, limVars, waiters, sent>>

\* The probe puts the permit back: sem.Release.
ProbeReleases(p) ==
  /\ probe[p] = "holding"
  /\ Notify(cur - 1, waiters, at)
  /\ probe' = [probe EXCEPT ![p] = "yes"]
  /\ UNCHANGED <<over, queued, limVars, sent>>

-----------------------------------------------------------------------------
(* Time and the callers.                                                   *)

Earlier(d) == IF d >= 0 THEN d - 1 ELSE d

Tick ==
  /\ Limited
  /\ tokens' = Refill(tokens)
  /\ due' = [q \in Requests |-> Earlier(due[q])]
  /\ lastDue' = Earlier(lastDue)
  /\ sent' = Append(Tail(sent), 0)
  /\ UNCHANGED <<reqVars, semVars, probe>>

\* A request's context is canceled, or its deadline passes.
ContextEnds(q) ==
  /\ at[q] \notin {"done", "refused"}
  /\ q \notin over
  /\ over' = over \cup {q}
  /\ UNCHANGED <<at, queued, limVars, semVars, obsVars>>

Wait(q) == Reserve(q) \/ Redeem(q) \/ Forgo(q) \/ Acquire(q) \/ LeaveQueue(q)

Next ==
  \/ \E q \in Requests :
       Enter(q) \/ Wait(q) \/ Send(q) \/ Finish(q) \/ Discount(q) \/ ContextEnds(q)
  \/ \E p \in Probers : Probe(p) \/ ProbeReleases(p)
  \/ Tick

Spec == Init /\ [][Next]_vars

(***************************************************************************)
(* Fairness: goroutines that can run do, time passes, deadlines come, and  *)
(* a transport gives up when its request's context is over.  Nobody has to *)
(* make a request or to cancel one, and a provider need not answer.        *)
(***************************************************************************)
FairSpec ==
  /\ Spec
  /\ WF_vars(Tick)
  /\ \A q \in Requests :
       WF_vars(Wait(q) \/ Send(q) \/ Discount(q)) /\ WF_vars(q \in over /\ Finish(q))
  /\ \A q \in Bounded : WF_vars(ContextEnds(q))
  /\ \A p \in Probers : WF_vars(ProbeReleases(p))

-----------------------------------------------------------------------------
(* Properties.                                                             *)

\* queued, which clientRateLimitScore reads, is the number of requests between
\* their entry and their done function, whichever way they leave: it neither
\* drifts nor wraps below zero.
QueuedCounts == queued = Cardinality(InFlight)

\* The permits given out are those held, by requests and by probes; requests
\* under way never exceed MaxConcurrency.
PermitsHeld ==
  /\ cur = Cardinality(Holders)
  /\ Counted => cur <= MaxConcurrency

\* Nobody waits for a permit that is free.  This and the next one are facts of the
\* external semaphore, which the induction needs.
NobodyStranded == waiters # <<>> => cur = MaxConcurrency

\* The line of the semaphore is the set of requests that wait in it.
LineIsQueue ==
  /\ ToSet(waiters) = {q \in Requests : at[q] = "queue"}
  /\ \A i, j \in DOMAIN waiters : waiters[i] = waiters[j] => i = j

\* Without a limit nobody waits for a permit, and no probe takes one.
UnlimitedIdle == Counted \/ (waiters = <<>> /\ \A p \in Probers : probe[p] # "holding")

\* The inductive invariant of the gate: every step keeps it, and the properties
\* above are its conjuncts.
IInv ==
  TypeOK /\ QueuedCounts /\ PermitsHeld /\ NobodyStranded /\ LineIsQueue /\ UnlimitedIdle

\* A request whose context has a deadline leaves the gate, served or refused,
\* although the provider answers nobody and requests without a deadline keep
\* their permits.  Another one leaves, too, unless such a request hangs.
EveryRequestLeaves ==
  \A q \in Requests :
    q \in InFlight ~>
      \/ at[q] \in {"done", "refused"}
      \/ q \notin Bounded /\ \E h \in Requests \ Bounded : [](at[h] = "rpc")

\* rpc/types.go:15: "RateLimit is the maximum number of requests per second to
\* the RPC".
RateLimitRespected == Limited => SumFunction(sent) <= RateLimit

\* A request of the detailed gate, as the contract sees it: it is inside from
\* the moment the RPC is sent until its permit is returned.
Place == [q \in Requests |->
            CASE at[q] \in {"new", "refused"} -> at[q]
              [] at[q] = "rpc" -> "inside"
              [] at[q] \in {"released", "done"} -> "left"
              [] at[q] \in {"limiter", "promised"} -> "arrived"
              [] OTHER -> "paced"]

Contract == INSTANCE GateContract WITH place <- Place, HasLimiter <- Limited

\* The gate keeps its contract, GateContract, which parallelCall and getRpcClient
\* rely on: whatever line and bucket do, no more requests than MaxConcurrency are
\* at the provider, and a request whose context is live is turned away by nothing
\* but the limiter, and then only if it has a deadline that would pass first.
KeepsContract == Contract!Spec
=============================================================================
