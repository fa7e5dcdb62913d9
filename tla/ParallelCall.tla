---------------------------- MODULE ParallelCall ----------------------------
(***************************************************************************)
(* One call of parallelCall (rpc/multi_client_parallel.go): the read is    *)
(* handed to a goroutine per eligible provider, and the calling goroutine, *)
(* the coordinator, picks one response by weight.                          *)
(*                                                                         *)
(* The actors are the coordinator, the workers, the timers of the caller's *)
(* context and of the attempts, the caller who may cancel, and the         *)
(* providers, of which nothing is assumed.  All times are relative to the  *)
(* two deadlines that matter, the attempts' and the caller's: clock counts *)
(* the deadlines that have passed.                                         *)
(***************************************************************************)
EXTENDS Providers, Sequences, FiniteSetsExt

CONSTANTS
  Gated,      \* clients with a rate limiter or a concurrency limit
  NoClient    \* no response has been selected

ASSUME ParallelCallAssumption ==
  /\ Gated \subseteq Clients
  /\ NoClient \notin Clients

VARIABLES
  call,       \* where the coordinator is, or how the call returned
  clients,    \* eligibleClients(false, false), taken once
  levels,     \* weights of the groups the coordinator has not finished
  taken,      \* responses received so far from each group's channel
  failures,   \* clients whose timeouts have been collected
  winner,     \* client whose response was returned
  ctx,        \* the coordinator's context: live, or why it ended
  budget,     \* the caller's deadline against the attempts' one
  clock,      \* deadlines that have passed
  work,       \* where each client's worker is
  attemptCtx, \* each attempt's child context
  raw,        \* what the attempt itself returned
  res,        \* the response after parallelAttemptError
  buf,        \* responses ever sent on each weight's channel, in order
  uncounted,  \* clients whose RPC the metrics did not count as an error
  ripe,       \* history: answers buffered when the caller's deadline struck
  late        \* history: clients whose socket timed out past the deadline

coordVars  == <<call, clients, levels, taken, failures, winner>>
timeVars   == <<ctx, budget, clock, ripe>>
workerVars == <<work, attemptCtx, raw, res, buf, uncounted, late>>
vars == <<coordVars, timeVars, workerVars>>

Weights  == GroupWeights(Clients)
Returned == {"answered", "failed", "canceled", "unavailable"}

\* An expired and a canceled context: Err() is DeadlineExceeded or Canceled.
DeadlineEnds == {"attemptDeadline", "callerDeadline"}
CancelEnds   == {"callerCanceled", "superseded"}

\* What ends an RPC cut short by its context: ctx.Err(), the context's custom
\* cause (newer transports), or the closed connection that results.
Cuts == {"ctxErr", "ctxCause", "closed"}

RawResults == {"value", "error", "netTimeout", "waitLimit"} \cup Cuts
Responses  == {"value", "error", "timeout", "canceled"}

TypeOK ==
  /\ call \in {"idle", "selecting"} \cup Returned
  /\ clients \subseteq Clients
  /\ levels \subseteq Weights
  /\ taken \in [Weights -> Nat]
  /\ failures \subseteq Clients
  /\ winner \in Clients \cup {NoClient}
  /\ ctx \in {"live", "callerDeadline"} \cup CancelEnds
  /\ budget \in {"none", "shorter", "longer"}
  /\ clock \in 0..2
  /\ work \in [Clients -> {"none", "spawned", "gate", "rpc", "ended", "done"}]
  /\ attemptCtx \in [Clients -> {"live"} \cup DeadlineEnds \cup CancelEnds]
  /\ raw \in [Clients -> {"none"} \cup RawResults]
  /\ res \in [Clients -> {"none"} \cup Responses]
  /\ buf \in [Weights -> Seq(Clients)]
  /\ uncounted \subseteq Clients
  /\ ripe \subseteq Clients
  /\ late \subseteq Clients

-----------------------------------------------------------------------------
(* How an attempt's error is classified.                                   *)

\* The earlier of the two deadlines that bind an attempt has passed.
AttemptOverdue == clock >= 1

\* Seeded fault: a custom deadline cause is not recognised as the deadline.
CauseIsAnAnswer(r, ac) ==
  CASE r \in {"value", "error"} -> r
    [] r = "waitLimit"  -> "timeout"
    [] r = "netTimeout" -> IF AttemptOverdue THEN "timeout" ELSE "error"
    [] r = "ctxErr"     -> IF ac \in DeadlineEnds THEN "timeout" ELSE "canceled"
    [] OTHER            -> "error"

\* parallelAttemptError, then isParallelTimeout: the result r of an attempt
\* whose context is ac, seen at the end of the attempt.
AttemptError(r, ac) ==
  CASE r \in {"value", "error"} -> r
    [] r = "waitLimit"  -> "timeout"
    [] r = "netTimeout" -> IF AttemptOverdue THEN "timeout" ELSE "error"
    [] r \in {"ctxErr", "ctxCause"} ->
         IF ac \in DeadlineEnds THEN "timeout" ELSE "canceled"
    [] r = "closed" -> "error"

\* Seeded fault: the error is classified when the response is read.
TimeoutWhenRead(c) == AttemptError(raw[c], attemptCtx[c]) = "timeout"

\* isParallelTimeout: the coordinator goes by the error the worker has sent.
IsTimeout(c) == res[c] = "timeout"

\* Seeded fault: any canceled call counts as a copy that lost the race.
AnyCancellation(ac, r) == ac \in CancelEnds /\ r \in Cuts

\* isParallelCancellation: the attempt was canceled because another response
\* had been selected, so its error says nothing about the provider.
IsParallelCancellation(ac, r) == ac = "superseded" /\ r \in Cuts

-----------------------------------------------------------------------------
Init ==
  /\ call = "idle"
  /\ clients = {} /\ levels = {}
  /\ taken = [w \in Weights |-> 0]
  /\ failures = {} /\ winner = NoClient
  /\ ctx = "live"
  /\ budget \in {"none", "shorter", "longer"}
  /\ clock = 0 /\ ripe = {}
  /\ work = [c \in Clients |-> "none"]
  /\ attemptCtx = [c \in Clients |-> "live"]
  /\ raw = [c \in Clients |-> "none"]
  /\ res = [c \in Clients |-> "none"]
  /\ buf = [w \in Weights |-> <<>>]
  /\ uncounted = {} /\ late = {}

\* The snapshot of the health flags, then one worker per eligible client.
Dispatch(enabled) ==
  /\ call = "idle"
  /\ LET S == EligibleClients(enabled, FALSE, FALSE) IN
       /\ call' = IF S = {} THEN "unavailable" ELSE "selecting"
       /\ clients' = S
       /\ levels' = GroupWeights(S)
       /\ work' = [c \in Clients |-> IF c \in S THEN "spawned" ELSE "none"]
  /\ UNCHANGED <<taken, failures, winner, timeVars, attemptCtx, raw, res, buf,
                 uncounted, late>>

-----------------------------------------------------------------------------
(* A worker.                                                               *)

\* The attempt's context derives from ctx; a context whose deadline has
\* passed is born expired.  An attempt whose context is over is not made.
Start(c) ==
  /\ work[c] = "spawned"
  /\ LET ac == IF ctx # "live" THEN ctx
               ELSE IF AttemptOverdue /\ budget # "shorter"
                    THEN "attemptDeadline" ELSE "live"
     IN /\ attemptCtx' = [attemptCtx EXCEPT ![c] = ac]
        /\ IF ac = "live"
             THEN /\ work' = [work EXCEPT ![c] = IF c \in Gated THEN "gate"
                                                                ELSE "rpc"]
                  /\ UNCHANGED raw
             ELSE /\ work' = [work EXCEPT ![c] = "ended"]
                  /\ raw' = [raw EXCEPT ![c] = "ctxErr"]
  /\ UNCHANGED <<coordVars, timeVars, res, buf, uncounted, late>>

\* applyRateLimit refuses (the limiter cannot serve before the deadline, or
\* the context ends while queued) or admits the request.
LeaveGate(c) ==
  /\ work[c] = "gate"
  /\ \/ /\ work' = [work EXCEPT ![c] = "ended"]
        /\ \/ raw' = [raw EXCEPT ![c] = "waitLimit"]
           \/ /\ attemptCtx[c] # "live"
              /\ raw' = [raw EXCEPT ![c] = "ctxErr"]
     \/ /\ work' = [work EXCEPT ![c] = "rpc"]
        /\ UNCHANGED raw
  /\ UNCHANGED <<coordVars, timeVars, attemptCtx, res, buf, uncounted, late>>

\* The provider answers, with a result or an error, or its socket times out.
Answer(c) ==
  /\ work[c] = "rpc"
  /\ work' = [work EXCEPT ![c] = "ended"]
  /\ \E r \in {"value", "error", "netTimeout"} : raw' = [raw EXCEPT ![c] = r]
  /\ UNCHANGED <<coordVars, timeVars, attemptCtx, res, buf, uncounted, late>>

\* The transport gives the RPC up because its context is over; _callContext
\* counts the error unless the copy only lost the race.
Cut(c) ==
  /\ work[c] = "rpc"
  /\ attemptCtx[c] # "live"
  /\ work' = [work EXCEPT ![c] = "ended"]
  /\ \E r \in Cuts :
       /\ raw' = [raw EXCEPT ![c] = r]
       /\ uncounted' = IF IsParallelCancellation(attemptCtx[c], r)
                         THEN uncounted \cup {c} ELSE uncounted
  /\ UNCHANGED <<coordVars, timeVars, attemptCtx, res, buf, late>>

\* Seeded fault: one slot less than the group has workers.
ShortChannel(w) == Cardinality(Group(clients, w)) - 1

\* Capacity of the channel groupParallelClients makes for weight w.
Capacity(w) == Cardinality(Group(clients, w))

HasRoom(w) == Len(buf[w]) - taken[w] < Capacity(w)

\* The worker normalises its error and sends the response.
Deliver(c) ==
  /\ work[c] = "ended"
  /\ HasRoom(Weight[c])
  /\ work' = [work EXCEPT ![c] = "done"]
  /\ res' = [res EXCEPT ![c] = AttemptError(raw[c], attemptCtx[c])]
  /\ buf' = [buf EXCEPT ![Weight[c]] = Append(@, c)]
  /\ late' = IF raw[c] = "netTimeout" /\ AttemptOverdue THEN late \cup {c} ELSE late
  /\ UNCHANGED <<coordVars, timeVars, attemptCtx, raw, uncounted>>

-----------------------------------------------------------------------------
(* Time and the contexts.  The first end of a context is final.            *)

\* The attempts' deadline exists once the call is under way.
Tick ==
  /\ clock < (IF budget = "longer" THEN 2 ELSE 1)
  /\ call = "idle" => budget = "shorter"
  /\ clock' = clock + 1
  /\ UNCHANGED <<coordVars, ctx, budget, ripe, workerVars>>

\* Responses in the channel of weight w that are not yet received.
Buffered(w) == {buf[w][i] : i \in (taken[w] + 1)..Len(buf[w])}

\* Buffered responses that are not timeouts.
BufferedAnswers ==
  {c \in UNION {Buffered(w) : w \in levels} : ~IsTimeout(c)}

CallerDeadline ==
  /\ ctx = "live"
  /\ call \in {"idle", "selecting"}
  /\ \/ budget = "shorter" /\ clock >= 1
     \/ budget = "longer" /\ clock = 2
  /\ ctx' = "callerDeadline"
  /\ ripe' = BufferedAnswers
  /\ UNCHANGED <<coordVars, budget, clock, workerVars>>

CallerCancel ==
  /\ ctx = "live"
  /\ call \in {"idle", "selecting"}
  /\ ctx' = "callerCanceled"
  /\ UNCHANGED <<coordVars, budget, clock, ripe, workerVars>>

\* Cancellation of ctx reaches a child context that is still live.
Propagate(c) ==
  /\ ctx # "live"
  /\ work[c] \in {"gate", "rpc", "ended"}
  /\ attemptCtx[c] = "live"
  /\ attemptCtx' = [attemptCtx EXCEPT ![c] = ctx]
  /\ UNCHANGED <<coordVars, timeVars, work, raw, res, buf, uncounted, late>>

\* The attempt's own timer fires.
Expire(c) ==
  /\ AttemptOverdue
  /\ budget # "shorter"
  /\ work[c] \in {"gate", "rpc", "ended"}
  /\ attemptCtx[c] = "live"
  /\ attemptCtx' = [attemptCtx EXCEPT ![c] = "attemptDeadline"]
  /\ UNCHANGED <<coordVars, timeVars, work, raw, res, buf, uncounted, late>>

-----------------------------------------------------------------------------
(* The coordinator.                                                        *)

\* Seeded fault: the first response to arrive decides, whatever its weight.
AnyGroup ==
  CHOOSE w \in levels : Buffered(w) # {} \/ \A v \in levels : Buffered(v) = {}

\* The group being read: the heaviest of those left.
Current == Max(levels)

\* Seeded fault: the losing copies are left running.
ReturnWithoutCancel(how) ==
  /\ call' = how
  /\ UNCHANGED ctx

\* Returning runs the deferred cancel(errParallelSuperseded).
Return(how) ==
  /\ call' = how
  /\ ctx' = IF ctx = "live" THEN "superseded" ELSE ctx

\* Seeded fault: one timeout moves the coordinator to the next group.
FirstTimeoutEndsGroup(w, n) == TRUE

\* Seeded fault: the coordinator waits for a response nobody sends.
OneMoreExpected(w, n) == n > Cardinality(Group(clients, w))

\* The n-th response received from group w is its last one.
GroupRead(w, n) == n = Cardinality(Group(clients, w))

\* A response of the current group is received: an answer ends the selection,
\* a timeout is collected, and the last one of a group opens the next group.
Take ==
  /\ call = "selecting"
  /\ levels # {}
  /\ ctx \in {"live", "callerDeadline"}
  /\ LET w == Current
         n == taken[w] + 1
     IN /\ n <= Len(buf[w])
        /\ taken' = [taken EXCEPT ![w] = n]
        /\ LET c == buf[w][n] IN
             IF IsTimeout(c)
               THEN /\ failures' = failures \cup {c}
                    /\ levels' = IF GroupRead(w, n) THEN levels \ {w}
                                                    ELSE levels
                    /\ UNCHANGED <<call, winner, ctx>>
               ELSE /\ winner' = c
                    /\ Return("answered")
                    /\ UNCHANGED <<failures, levels>>
  /\ UNCHANGED <<clients, budget, clock, ripe, workerVars>>

\* Seeded fault: at the caller's deadline the rest is abandoned unread.
AbandonAll ==
  /\ call = "selecting"
  /\ levels # {}
  /\ ctx = "callerDeadline"
  /\ Buffered(Current) = {}
  /\ levels' = {}
  /\ UNCHANGED <<call, clients, taken, failures, winner, timeVars, workerVars>>

\* At the caller's deadline the coordinator no longer waits for a group.
SkipGroup ==
  /\ call = "selecting"
  /\ levels # {}
  /\ ctx = "callerDeadline"
  /\ Buffered(Current) = {}
  /\ levels' = levels \ {Current}
  /\ UNCHANGED <<call, clients, taken, failures, winner, timeVars, workerVars>>

\* The caller has canceled: no response is considered any more.
Abort ==
  /\ call = "selecting"
  /\ ctx = "callerCanceled"
  /\ Return("canceled")
  /\ UNCHANGED <<clients, levels, taken, failures, winner, budget, clock, ripe,
                 workerVars>>

\* Every group has been read without an answer.
Fail ==
  /\ call = "selecting"
  /\ levels = {}
  /\ ctx # "callerCanceled"
  /\ Return("failed")
  /\ UNCHANGED <<clients, levels, taken, failures, winner, budget, clock, ripe,
                 workerVars>>

-----------------------------------------------------------------------------
\* The call has returned and no goroutine of it is left.
Terminated ==
  /\ call \in Returned
  /\ \A c \in clients : work[c] = "done"
  /\ UNCHANGED vars

Worker(c) == Start(c) \/ LeaveGate(c) \/ Answer(c) \/ Cut(c) \/ Deliver(c)
Context(c) == Propagate(c) \/ Expire(c)
Coordinator == Take \/ SkipGroup \/ Abort \/ Fail

Next ==
  \/ \E enabled \in HealthFlags : Dispatch(enabled)
  \/ \E c \in Clients : Worker(c) \/ Context(c)
  \/ Coordinator
  \/ Tick \/ CallerDeadline \/ CallerCancel
  \/ Terminated

Spec == Init /\ [][Next]_vars

(***************************************************************************)
(* Fairness.  Goroutines that can run do run, timers fire, a context       *)
(* reaches its children, and a transport or a limiter gives up once the    *)
(* context of the attempt is over.  Providers may never answer, a queued   *)
(* request may never be admitted and the caller need not cancel.           *)
(***************************************************************************)
Fairness ==
  /\ WF_vars(Tick) /\ WF_vars(CallerDeadline)
  /\ WF_vars(Coordinator)
  /\ \A c \in Clients :
       /\ WF_vars(Start(c)) /\ WF_vars(Context(c)) /\ WF_vars(Deliver(c))
       /\ WF_vars(Cut(c))
       /\ WF_vars(attemptCtx[c] # "live" /\ LeaveGate(c))

FairSpec == Spec /\ Fairness

-----------------------------------------------------------------------------
(* What the call promises.                                                 *)

\* Weight preference: unless the caller's deadline cut the wait short, a
\* response is returned only after every heavier eligible provider's attempt
\* has timed out, however late that was and whatever arrived meanwhile.
WeightPriority ==
  call = "answered" /\ ctx # "callerDeadline" =>
    \A c \in clients : Weight[c] > Weight[winner] => res[c] = "timeout"

\* Caller deadline: the answers that were buffered when the deadline struck
\* are not lost; the call returns one at least as heavy as each of them.
DeadlineKeepsBestBuffered ==
  call \in Returned /\ ripe # {} =>
    /\ call = "answered"
    /\ \A c \in ripe : Weight[c] <= Weight[winner]

\* The response that is returned ended its attempt by itself: a result, an
\* error, or a socket timeout seen before the deadline of the attempt.  A
\* context's own error, custom cause or not, is never returned as an answer.
\* The one exception is the code's: a connection found closed once a deadline
\* has passed counts as an error of the provider, for parallelAttemptError
\* looks only at errors that say they are timeouts.  A connection that was
\* closed by a cancellation is never returned.
AnswersAreGenuine ==
  call = "answered" =>
    /\ res[winner] \in {"value", "error"}
    /\ \/ raw[winner] \in {"value", "error"}
       \/ raw[winner] = "netTimeout" /\ winner \notin late
       \/ raw[winner] = "closed" /\ attemptCtx[winner] \in DeadlineEnds

\* The attempt of c came to nothing because its time was up.
Excused(c) ==
  \/ raw[c] = "waitLimit"
  \/ raw[c] \in {"ctxErr", "ctxCause"} /\ attemptCtx[c] \in DeadlineEnds
  \/ raw[c] = "netTimeout" /\ c \in late

\* Only timeouts are passed over: a limiter's refusal, the error of a context
\* whose deadline has passed, or a socket timeout that the worker saw past the
\* deadline.  A socket that timed out early is an answer, although it may be
\* read much later, while a heavier attempt keeps the coordinator waiting.
OnlyTimeoutsDiscarded == \A c \in failures : Excused(c)

\* A call that fails on its own has heard a timeout from every provider.
FailureIsComplete ==
  call = "failed" /\ ctx = "superseded" => failures = clients

\* The metrics leave out only copies that lost against a selected response.
UncountedOnlyLosers ==
  uncounted # {} => call = "answered" /\ winner \notin uncounted

\* "Workers never wait for the receiver": a response always finds room.
WorkersNeverWait ==
  \A c \in Clients : work[c] = "ended" => HasRoom(Weight[c])

\* A worker that first runs when the call has returned, or when the caller's
\* context is over, makes no attempt: it neither enters its client's gate, where
\* it would take a token or a permit, nor sends.  (A copy that is at the gate by
\* then is not meant: the semaphore may still admit it, and the transport then
\* cuts it off like any copy under way.)
NoLateStart ==
  [][\A c \in Clients :
       (call \in Returned \/ ctx # "live") /\ work[c] = "spawned"
         => work'[c] \in {"spawned", "ended"}]_vars

\* Every call returns, even when no provider ever answers.
CallReturns == call = "selecting" ~> call \in Returned

\* No goroutine outlives the call for ever.
WorkersStop ==
  call \in Returned ~> \A c \in clients : work[c] = "done"

-----------------------------------------------------------------------------
(* The inductive invariant behind the safety properties.                   *)

\* The call is about the clients of the snapshot, each of which has a worker.
SnapshotInv ==
  /\ call = "idle" => clients = {} /\ levels = {}
  /\ levels \subseteq GroupWeights(clients)
  /\ \A c \in Clients : c \in clients <=> work[c] # "none"

\* A channel carries one response of each worker of its group that is done.
ChannelInv ==
  \A w \in Weights :
    /\ taken[w] <= Len(buf[w])
    /\ \A i \in 1..Len(buf[w]) :
         /\ buf[w][i] \in Group(clients, w)
         /\ work[buf[w][i]] = "done"
    /\ \A i, j \in 1..Len(buf[w]) : buf[w][i] = buf[w][j] => i = j

\* A response that was sent is in its channel, and a call under way asks someone.
DeliveredInv ==
  /\ call = "selecting" => clients # {}
  /\ \A c \in Clients : work[c] = "done" =>
       \E i \in 1..Len(buf[Weight[c]]) : buf[Weight[c]][i] = c

\* How an attempt ended, its context, and the response agree.
AttemptInv ==
  \A c \in Clients :
    /\ work[c] \in {"ended", "done"} <=> raw[c] # "none"
    /\ work[c] # "done" <=> res[c] = "none"
    /\ raw[c] \in {"ctxErr", "ctxCause"} => attemptCtx[c] # "live"
    /\ raw[c] = "closed" => attemptCtx[c] # "live"
    /\ res[c] \in {"value", "error"} =>
         \/ raw[c] \in {"value", "error", "closed"}
         \/ raw[c] = "netTimeout" /\ c \notin late
    /\ res[c] = "canceled" => attemptCtx[c] \in CancelEnds
    /\ res[c] = "timeout" => Excused(c)
    /\ c \in late => work[c] = "done"
    /\ attemptCtx[c] \in CancelEnds => ctx = attemptCtx[c]
    /\ attemptCtx[c] \in DeadlineEnds => AttemptOverdue

\* The coordinator has collected the timeouts it received, and those of every
\* group it has left, unless it left the group at the caller's deadline.
HeardInv ==
  /\ failures \subseteq {c \in clients : res[c] = "timeout"}
  /\ call = "selecting" =>
       \A w \in Weights : \A i \in 1..taken[w] : buf[w][i] \in failures
  /\ ctx # "callerDeadline" =>
       \A c \in clients : Weight[c] \in levels \/ c \in failures

\* What was buffered at the caller's deadline still is, until the end.
RipeInv ==
  /\ ripe # {} => ctx = "callerDeadline" /\ call # "idle"
  /\ call = "selecting" =>
       \A c \in ripe : /\ Weight[c] \in levels
                       /\ res[c] # "timeout"
                       /\ c \in Buffered(Weight[c])

\* How the call returned agrees with what was heard and with its context.
OutcomeInv ==
  /\ call = "answered" => winner \in clients
  /\ ctx = "superseded" => call \in {"answered", "failed"}
  /\ ctx = "callerDeadline" => AttemptOverdue
  /\ call \in {"answered", "failed", "canceled"} => ctx # "live"
  /\ call = "unavailable" => clients = {}
  /\ WeightPriority /\ DeadlineKeepsBestBuffered
  /\ AnswersAreGenuine /\ FailureIsComplete /\ UncountedOnlyLosers

\* The inductive invariant: it holds initially, every step of parallelCall keeps
\* it, and the safety properties above follow from it.
IInv ==
  /\ TypeOK
  /\ SnapshotInv /\ ChannelInv /\ DeliveredInv /\ AttemptInv /\ HeardInv
  /\ RipeInv /\ OutcomeInv

-----------------------------------------------------------------------------
(* The abstract read.  A copy has replied once its response is sent; the   *)
(* deferred cancel is not an end of the caller's context.                  *)

\* What each copy has replied, as far as its response is sent.
Replies == [c \in Clients |-> IF work[c] # "done" THEN "pending"
                              ELSE IF IsTimeout(c) THEN "timeout" ELSE "answer"]

\* How the caller's own context has ended.
Over == CASE ctx = "callerDeadline" -> "deadline"
          [] ctx = "callerCanceled" -> "cancel"
          [] OTHER -> "no"

Outcome == IF call \in Returned THEN call ELSE "none"

\* The selection, seen in the state of parallelCall.
Read == INSTANCE WeightedRead WITH
  asked <- clients, reply <- Replies, over <- Over, inTime <- ripe, outcome <- Outcome

\* Every behaviour of parallelCall is one of the weight-ordered selection that
\* PARALLEL_CALLS.md promises.
ImplementsWeightedRead == Read!Spec
=============================================================================
