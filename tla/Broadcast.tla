------------------------------ MODULE Broadcast ------------------------------
(***************************************************************************)
(* eth_sendRawTransaction on a MultiRpcClient: callContextParallel         *)
(* (rpc/multi_client.go) sends the transaction to every eligible provider, *)
(* whatever its weight, and returns the first acceptance.                  *)
(*                                                                         *)
(* The actors are the workers, the goroutine that closes the channel once  *)
(* they are all done, and the calling goroutine, which collects responses. *)
(***************************************************************************)
EXTENDS Providers, Sequences

CONSTANT NoClient

ASSUME BroadcastAssumption == NoClient \notin Clients

VARIABLES
  call,      \* where the calling goroutine is, or how the call returned
  clients,   \* eligibleClients(false, true), taken once
  taken,     \* responses received from resultChan
  failures,  \* clients whose errors have been collected
  result,    \* client whose result was copied to the caller's receiver
  ctx,       \* the caller's context, which the copies use as it is
  work,      \* where each client's worker is
  outcome,   \* what each copy came to
  buf,       \* responses ever sent on resultChan, in order
  closed,    \* resultChan is closed
  wg         \* the WaitGroup's counter

callVars   == <<call, clients, taken, failures, result>>
workerVars == <<work, outcome, buf, closed, wg>>
vars == <<callVars, ctx, workerVars>>

Returned == {"accepted", "failed", "unavailable"}

TypeOK ==
  /\ call \in {"idle", "collecting"} \cup Returned
  /\ clients \subseteq Clients
  /\ taken \in Nat
  /\ failures \subseteq Clients
  /\ result \in Clients \cup {NoClient}
  /\ ctx \in {"live", "ended"}
  /\ work \in [Clients -> {"none", "running", "answered", "sent", "done"}]
  /\ outcome \in [Clients -> {"none", "accepted", "rejected", "cut"}]
  /\ buf \in Seq(Clients)
  /\ closed \in BOOLEAN
  /\ wg \in Nat

Init ==
  /\ call = "idle" /\ clients = {} /\ taken = 0 /\ failures = {}
  /\ result = NoClient
  /\ ctx = "live"
  /\ work = [c \in Clients |-> "none"]
  /\ outcome = [c \in Clients |-> "none"]
  /\ buf = <<>> /\ closed = FALSE /\ wg = 0

\* wg.Add(1) for every worker.
WaitCount(S) == Cardinality(S)

\* The receiver and the arguments have been checked; the workers and the closer
\* are started.
Dispatch(enabled) ==
  /\ call = "idle"
  /\ LET S == EligibleClients(enabled, FALSE, TRUE) IN
       /\ call' = IF S = {} THEN "unavailable" ELSE "collecting"
       /\ clients' = S
       /\ work' = [c \in Clients |-> IF c \in S THEN "running" ELSE "none"]
       /\ wg' = WaitCount(S)
  /\ UNCHANGED <<taken, failures, result, ctx, outcome, buf, closed>>

-----------------------------------------------------------------------------
(* A worker.                                                               *)

\* CallContext returns: the provider accepts and the result decodes, or the
\* gate, the transport, the provider or the decoder reports an error.
Answer(c) ==
  /\ work[c] = "running"
  /\ work' = [work EXCEPT ![c] = "answered"]
  /\ \E o \in {"accepted", "rejected"} : outcome' = [outcome EXCEPT ![c] = o]
  /\ UNCHANGED <<callVars, ctx, buf, closed, wg>>

\* CallContext returns because its context has ended.
Cut(c) ==
  /\ work[c] = "running"
  /\ ctx # "live"
  /\ work' = [work EXCEPT ![c] = "answered"]
  /\ outcome' = [outcome EXCEPT ![c] = "cut"]
  /\ UNCHANGED <<callVars, ctx, buf, closed, wg>>

\* Seeded fault: resultChan is made without a buffer to speak of.
OneSlot == 1

\* The buffer of resultChan has a slot for every worker.
Capacity == Cardinality(clients)

SendResult(c) ==
  /\ work[c] = "answered"
  /\ Len(buf) - taken < Capacity
  /\ work' = [work EXCEPT ![c] = "sent"]
  /\ buf' = Append(buf, c)
  /\ UNCHANGED <<callVars, ctx, outcome, closed, wg>>

\* The deferred wg.Done().
WorkerDone(c) ==
  /\ work[c] = "sent"
  /\ work' = [work EXCEPT ![c] = "done"]
  /\ wg' = wg - 1
  /\ UNCHANGED <<callVars, ctx, outcome, buf, closed>>

\* Seeded fault: the closer does not wait for the last worker.
AlmostDone == wg <= 1

\* wg.Wait() returns.
AllDone == wg = 0

CloseChannel ==
  /\ clients # {}
  /\ AllDone
  /\ ~closed
  /\ closed' = TRUE
  /\ UNCHANGED <<callVars, ctx, work, outcome, buf, wg>>

-----------------------------------------------------------------------------
(* The caller.                                                             *)

\* Seeded fault: the copies run in a context that is canceled on return.
CancelRest == ctx' = "superseded"

\* Returning leaves the other copies alone.
KeepRest == UNCHANGED ctx

\* res.err == nil
IsAcceptance(c) == outcome[c] = "accepted"

\* Seeded fault: responses are read once all workers are done.
WaitForAll == closed /\ taken < Len(buf)

\* Responses are read as they come in.
HasResponse == taken < Len(buf)

\* A response is received: an acceptance is copied out and returned at once, an
\* error is kept.
Receive ==
  /\ call = "collecting"
  /\ HasResponse
  /\ taken' = taken + 1
  /\ LET c == buf[taken + 1] IN
       IF IsAcceptance(c)
         THEN /\ result' = c
              /\ call' = "accepted"
              /\ KeepRest
              /\ UNCHANGED failures
         ELSE /\ failures' = failures \cup {c}
              /\ UNCHANGED <<call, result, ctx>>
  /\ UNCHANGED <<clients, workerVars>>

\* The range loop ends when the channel is closed and drained.
AllFailed ==
  /\ call = "collecting"
  /\ closed
  /\ taken = Len(buf)
  /\ call' = "failed"
  /\ UNCHANGED <<clients, taken, failures, result, ctx, workerVars>>

\* The caller's context is canceled or its deadline passes, perhaps after the
\* call has returned.
CallerEnds ==
  /\ ctx = "live"
  /\ ctx' = "ended"
  /\ UNCHANGED <<callVars, workerVars>>

-----------------------------------------------------------------------------
Terminated ==
  /\ call \in Returned
  /\ clients # {} => closed
  /\ UNCHANGED vars

Worker(c) == Answer(c) \/ Cut(c) \/ SendResult(c) \/ WorkerDone(c)

Next ==
  \/ \E enabled \in HealthFlags : Dispatch(enabled)
  \/ \E c \in Clients : Worker(c)
  \/ CloseChannel \/ Receive \/ AllFailed \/ CallerEnds
  \/ Terminated

Spec == Init /\ [][Next]_vars

\* Goroutines that can run do; a transport gives up when the context of its
\* request has ended.  A provider may never answer.
Fairness ==
  /\ WF_vars(CloseChannel) /\ WF_vars(Receive \/ AllFailed)
  /\ \A c \in Clients :
       WF_vars(Cut(c)) /\ WF_vars(SendResult(c)) /\ WF_vars(WorkerDone(c))

FairSpec == Spec /\ Fairness

-----------------------------------------------------------------------------
(* Properties.                                                             *)

\* The call fails only when the copy of every eligible provider has, those of
\* the send-only providers included: a fast rejection never hides a later
\* acceptance, and neither does the end of the caller's context.
FailureMeansNobodyAccepted ==
  call = "failed" =>
    /\ failures = clients
    /\ \A c \in clients \cup SendOnly : outcome[c] \in {"rejected", "cut"}

\* The caller's receiver is written once, with the result of the acceptance the
\* call returns: the earliest that was sent, and never a losing copy's.
ReceiverHoldsFirstAcceptance ==
  /\ result # NoClient <=> call = "accepted"
  /\ call = "accepted" =>
       /\ buf[taken] = result /\ outcome[result] = "accepted"
       /\ \A i \in 1..(taken - 1) : outcome[buf[i]] # "accepted"

\* No worker ever sends on the closed channel, which would panic.
NoSendOnClosed == closed => \A c \in clients : work[c] = "done"

\* The copies that did not win run on when the call has returned: unless the
\* caller's own context ends, or a provider stays silent for ever, each comes to
\* its provider's verdict, and although nobody reads the channel any more every
\* worker ends and the channel is closed.
CopiesOutliveReturn ==
  call = "accepted" ~>
    \/ ctx = "ended"
    \/ \E c \in Clients : [](work[c] = "running")
    \/ closed /\ \A c \in clients : outcome[c] \in {"accepted", "rejected"}

\* An acceptance is returned, whether or not the other providers ever answer.
AcceptanceReturns ==
  (\E c \in Clients : outcome[c] = "accepted") ~> call = "accepted"

\* When the caller's context ends, the call returns and no goroutine is left.
EndOfContextEndsAll ==
  call = "collecting" /\ ctx = "ended" ~> call \in Returned /\ closed

-----------------------------------------------------------------------------
(* The inductive invariant behind the safety properties.                   *)

\* The call is about the clients of the snapshot, every send-only one among
\* them, each of which has a worker.
SnapshotInv ==
  /\ call \in {"idle", "unavailable"} => clients = {}
  /\ call = "idle" \/ SendOnly \subseteq clients
  /\ call = "idle" => ~closed
  /\ \A c \in Clients : c \in clients <=> work[c] # "none"
  /\ \A c \in Clients :
       work[c] \in {"answered", "sent", "done"} <=> outcome[c] # "none"

\* The channel has carried one response of each worker that has sent.
ChannelInv ==
  /\ taken <= Len(buf)
  /\ \A i \in 1..Len(buf) : buf[i] \in Clients /\ work[buf[i]] \in {"sent", "done"}
  /\ \A i, j \in 1..Len(buf) : buf[i] = buf[j] => i = j
  /\ \A c \in Clients :
       work[c] \in {"sent", "done"} => \E i \in 1..Len(buf) : buf[i] = c

\* The WaitGroup counts the workers that are not done.
WaitInv == wg = Cardinality({c \in clients : work[c] # "done"})

\* The responses received before an acceptance are failures, and are collected.
HeardInv ==
  /\ call \in {"idle", "collecting"} =>
       /\ \A i \in 1..taken : buf[i] \in failures
       /\ \A c \in failures : \E i \in 1..taken : buf[i] = c
  /\ \A c \in failures : c \in clients /\ outcome[c] \in {"rejected", "cut"}
  /\ call = "accepted" => taken \in 1..Len(buf)
  /\ call = "unavailable" => taken = 0 /\ failures = {}

\* The inductive invariant: it holds initially, every step of
\* callContextParallel keeps it, and the safety properties follow from it.
IInv ==
  /\ TypeOK
  /\ SnapshotInv /\ ChannelInv /\ WaitInv /\ HeardInv
  /\ NoSendOnClosed /\ FailureMeansNobodyAccepted /\ ReceiverHoldsFirstAcceptance
=============================================================================
