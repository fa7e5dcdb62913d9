---------------------------- MODULE WeightedRead ----------------------------
(***************************************************************************)
(* What a parallel read promises its caller (PARALLEL_CALLS.md,            *)
(* "Response selection" and "Deadlines"), without goroutines, channels or  *)
(* timers: every provider replies at most once, and the call returns one   *)
(* reply, chosen by weight.  ParallelCall is shown to implement it.        *)
(***************************************************************************)
EXTENDS Integers, FiniteSets

CONSTANTS Clients, Weight, NoClient

VARIABLES
  asked,     \* the providers the call asks
  reply,     \* each provider's reply
  over,      \* how the caller's context has ended, if it has
  inTime,    \* providers whose answer was there when the deadline struck
  outcome,   \* how the call has returned, if it has
  winner     \* whose reply it has returned

vars == <<asked, reply, over, inTime, outcome, winner>>

Init ==
  /\ asked = {}
  /\ reply = [c \in Clients |-> "pending"]
  /\ over = "no"
  /\ inTime = {}
  /\ outcome = "none"
  /\ winner = NoClient

Pending == outcome = "none" /\ asked # {}

Ask(S) ==
  /\ outcome = "none" /\ asked = {}
  /\ asked' = S
  /\ outcome' = IF S = {} THEN "unavailable" ELSE "none"
  /\ UNCHANGED <<reply, over, inTime, winner>>

\* A provider's copy is done; a reply may come after the call has returned.
Reply(c, k) ==
  /\ c \in asked /\ reply[c] = "pending"
  /\ reply' = [reply EXCEPT ![c] = k]
  /\ UNCHANGED <<asked, over, inTime, outcome, winner>>

DeadlineStrikes ==
  /\ over = "no" /\ outcome = "none"
  /\ over' = "deadline"
  /\ inTime' = {c \in asked : reply[c] = "answer"}
  /\ UNCHANGED <<asked, reply, outcome, winner>>

CallerCancels ==
  /\ over = "no" /\ outcome = "none"
  /\ over' = "cancel"
  /\ UNCHANGED <<asked, reply, inTime, outcome, winner>>

\* An answer is returned: one whose heavier rivals have all timed out or, at
\* the caller's deadline, one at least as heavy as those that were in time.
Choose(c) ==
  /\ Pending
  /\ c \in asked /\ reply[c] = "answer"
  /\ \/ /\ over = "no"
        /\ \A d \in asked : Weight[d] > Weight[c] => reply[d] = "timeout"
     \/ /\ over = "deadline"
        /\ \A d \in inTime : Weight[d] <= Weight[c]
  /\ outcome' = "answered"
  /\ winner' = c
  /\ UNCHANGED <<asked, reply, over, inTime>>

GiveUp ==
  /\ Pending
  /\ \/ over = "no" /\ \A c \in asked : reply[c] = "timeout"
     \/ over = "deadline" /\ inTime = {}
  /\ outcome' = "failed"
  /\ UNCHANGED <<asked, reply, over, inTime, winner>>

Withdraw ==
  /\ Pending
  /\ over = "cancel"
  /\ outcome' = "canceled"
  /\ UNCHANGED <<asked, reply, over, inTime, winner>>

Next ==
  \/ \E S \in SUBSET Clients : Ask(S)
  \/ \E c \in Clients : Choose(c) \/ \E k \in {"timeout", "answer"} : Reply(c, k)
  \/ DeadlineStrikes \/ CallerCancels \/ GiveUp \/ Withdraw

Spec == Init /\ [][Next]_vars
=============================================================================
