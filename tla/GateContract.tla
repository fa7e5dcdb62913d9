---------------------------- MODULE GateContract ----------------------------
(***************************************************************************)
(* What the gate of a provider (applyRateLimit, rpc/rate_limit.go)         *)
(* promises to the requests that pass it, and to the calls that count on   *)
(* it: at most MaxConcurrency requests are at the provider at a time, and  *)
(* a request is turned away only because its context is over or, if it has *)
(* a deadline and the limiter has not let it through yet, by the limiter.  *)
(* A saturated provider makes requests wait and never refuses one: this is *)
(* what getRpcClient's last choice and isParallelTimeout build on.  The    *)
(* bucket, the semaphore, its line and the probes are gone.                *)
(***************************************************************************)
EXTENDS Integers, FiniteSets

CONSTANTS
  Requests,        \* goroutines that make one request each
  Bounded,         \* the requests whose context has a deadline
  MaxConcurrency,  \* RpcClientData.MaxConcurrency, 0 for no limit
  HasLimiter       \* the client has a token bucket

VARIABLES
  place,  \* where each request is, as its caller sees it
  over    \* requests whose context is over

vars == <<place, over>>

Inside == {q \in Requests : place[q] = "inside"}

Init ==
  /\ place = [q \in Requests |-> "new"]
  /\ over = {}

Move(q, from, to) ==
  /\ place[q] = from
  /\ place' = [place EXCEPT ![q] = to]
  /\ UNCHANGED over

Arrive(q) == Move(q, "new", IF HasLimiter THEN "arrived" ELSE "paced")

\* The limiter lets the request through.
Pace(q) == Move(q, "arrived", "paced")

\* applyRateLimit returns done and no error.
Admit(q) ==
  /\ Move(q, "paced", "inside")
  /\ MaxConcurrency > 0 => Cardinality(Inside) < MaxConcurrency

\* applyRateLimit returns an error.
TurnAway(q) ==
  \/ Move(q, "arrived", "refused") /\ q \in over \cup Bounded
  \/ Move(q, "paced", "refused") /\ q \in over

\* The request's done function runs.
Leave(q) == Move(q, "inside", "left")

ContextEnds(q) ==
  /\ over' = over \cup {q}
  /\ UNCHANGED place

Next == \E q \in Requests :
          Arrive(q) \/ Pace(q) \/ Admit(q) \/ TurnAway(q) \/ Leave(q) \/ ContextEnds(q)

Spec == Init /\ [][Next]_vars
=============================================================================
