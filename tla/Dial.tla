-------------------------------- MODULE Dial --------------------------------
(***************************************************************************)
(* How a MultiRpcClient comes to be: DialMultiContextWithOptions           *)
(* (rpc/multi_client_options.go) and DialMultiContext                      *)
(* (rpc/multi_client.go).  The providers of the configuration are dialled  *)
(* one after the other and sorted by weight; then one goroutine per reader *)
(* asks for the chain ID until it gets an answer or has tried often        *)
(* enough.  The flags and the list it leaves behind are where Failover,    *)
(* ParallelCall and Broadcast start from.                                  *)
(***************************************************************************)
EXTENDS Selection

CONSTANTS
  Configs,  \* values of cfg.RpcData, sequences of distinct clients
  Retries   \* 5 in the code

ASSUME DialAssumption ==
  /\ Configs \subseteq Seq(Clients)
  /\ \A s \in Configs : \A i, j \in DOMAIN s : s[i] = s[j] => i = j
  /\ Retries \in Nat \ {0}

VARIABLES
  at,          \* where the caller is, or how the dial ended
  config,      \* cfg.RpcData
  allClients,  \* the clients dialled so far, at last sorted by weight
  looked,      \* how far the loop that starts the goroutines has come
  reader,      \* where the goroutine of each client is
  tries,       \* requests each of them has lost
  checked,     \* readers looked at
  errored,     \* readers given up
  enabled,     \* the health flags that are set
  gauge,       \* clients whose ClientEnabled gauge is 1
  over         \* the caller's context is over

poolVars  == <<config, allClients>>
readVars  == <<reader, tries>>
countVars == <<checked, errored>>
flagVars  == <<enabled, gauge>>
vars == <<at, poolVars, looked, readVars, countVars, flagVars, over>>

Pool == ToSet(config)

Returned == {"ok", "invalid options", "dial error", "unavailable"}

\* A goroutine is ready for its next try, waits for the answer to a request it
\* made before ("rpc") or after ("late") the end of the context, or has ended.
Running == {"ready", "rpc", "late"}

TypeOK ==
  /\ at \in {"options", "dial", "start", "wait"} \cup Returned
  /\ config \in Configs
  /\ allClients \in Seq(Clients)
  /\ looked \in Nat
  /\ reader \in [Clients -> {"none", "enabled", "errored"} \cup Running]
  /\ tries \in [Clients -> 0..Retries]
  /\ checked \in Nat /\ errored \in Nat
  /\ enabled \subseteq Clients /\ gauge \subseteq Clients
  /\ over \in BOOLEAN

Init ==
  /\ at = "options"
  /\ config \in Configs
  /\ allClients = <<>> /\ looked = 0
  /\ reader = [c \in Clients |-> "none"]
  /\ tries = [c \in Clients |-> 0]
  /\ checked = 0 /\ errored = 0
  /\ enabled = {} /\ gauge = {}
  /\ over = FALSE

-----------------------------------------------------------------------------
(* The caller.                                                             *)

\* A negative ParallelCallTimeout is refused before anything is dialled.
CheckOptions ==
  /\ at = "options"
  /\ \E valid \in BOOLEAN : at' = IF valid THEN "dial" ELSE "invalid options"
  /\ UNCHANGED <<poolVars, looked, readVars, countVars, flagVars, over>>

\* DialContext, for the next provider.  An error ends the dial; the clients that
\* have been dialled before stay open.
DialNext ==
  /\ at = "dial"
  /\ Len(allClients) < Len(config)
  /\ \/ allClients' = Append(allClients, config[Len(allClients) + 1]) /\ UNCHANGED at
     \/ at' = "dial error" /\ UNCHANGED allClients
  /\ UNCHANGED <<config, looked, readVars, countVars, flagVars, over>>

Sort ==
  /\ at = "dial"
  /\ Len(allClients) = Len(config)
  /\ allClients' \in ClientOrders(ToSet(allClients))
  /\ at' = "start"
  /\ UNCHANGED <<config, looked, readVars, countVars, flagVars, over>>

\* setEnabled(true): the flag, then the gauge.  Nobody else knows the client yet.
Enable(c) == enabled' = enabled \cup {c} /\ gauge' = gauge \cup {c}

\* A reader gets a goroutine.
StartReader(c) ==
  /\ c \notin SendOnly
  /\ reader' = [reader EXCEPT ![c] = "ready"]
  /\ checked' = checked + 1
  /\ UNCHANGED <<tries, flagVars>>

\* Seeded fault: a send-only client is left to a health check it never gets.
OnlyReaders(c) ==
  \/ StartReader(c)
  \/ c \in SendOnly /\ UNCHANGED <<flagVars, readVars, checked>>

\* A send-only client is enabled unseen.
StartOne(c) ==
  \/ StartReader(c)
  \/ c \in SendOnly /\ Enable(c) /\ UNCHANGED <<readVars, checked>>

StartNext ==
  /\ at = "start"
  /\ looked < Len(allClients)
  /\ StartOne(allClients[looked + 1])
  /\ looked' = looked + 1
  /\ at' = IF looked' = Len(allClients) THEN "wait" ELSE "start"
  /\ UNCHANGED <<poolVars, errored, over>>

\* Without any provider configured the loop ends at once.
NothingToStart ==
  /\ at = "start"
  /\ allClients = <<>>
  /\ at' = "wait"
  /\ UNCHANGED <<poolVars, looked, readVars, countVars, flagVars, over>>

\* Seeded fault: the caller goes on as soon as one reader has answered.
FirstAnswer == enabled \ SendOnly # {} \/ \A c \in Clients : reader[c] \notin Running

\* Seeded fault: wg.Done is missed by a goroutine that gives up.
OnlySuccessIsDone == \A c \in Clients : reader[c] \in {"none", "enabled"}

\* wg.Wait.
AllReported == \A c \in Clients : reader[c] \notin Running

\* The verdict.  If the dial is a success the health checks start.
Conclude ==
  /\ at = "wait"
  /\ AllReported
  /\ at' = IF errored = checked THEN "unavailable" ELSE "ok"
  /\ UNCHANGED <<poolVars, looked, readVars, countVars, flagVars, over>>

-----------------------------------------------------------------------------
(* The goroutine of a reader.                                              *)

MayTry(c) == tries[c] < Retries

\* eth_chainId, with three seconds to answer.
Ask(c) ==
  /\ reader[c] = "ready"
  /\ MayTry(c)
  /\ reader' = [reader EXCEPT ![c] = IF over THEN "late" ELSE "rpc"]
  /\ UNCHANGED <<at, poolVars, looked, tries, countVars, flagVars, over>>

\* Seeded fault: the loop is left by a break, and the reader counts as lost.
BreakNotReturn(c) == Enable(c) /\ errored' = errored + 1

\* The flag is set, and the goroutine returns.
Reached(c) == Enable(c) /\ UNCHANGED errored

\* An answer.  A request under way when the context ends may still get one.
Answer(c) ==
  /\ reader[c] = "rpc"
  /\ reader' = [reader EXCEPT ![c] = "enabled"]
  /\ Reached(c)
  /\ UNCHANGED <<at, poolVars, looked, tries, checked, over>>

\* An error, of whatever kind, and a second's sleep.
Miss(c) ==
  /\ reader[c] \in {"rpc", "late"}
  /\ reader' = [reader EXCEPT ![c] = "ready"]
  /\ tries' = [tries EXCEPT ![c] = @ + 1]
  /\ UNCHANGED <<at, poolVars, looked, countVars, flagVars, over>>

GiveUp(c) ==
  /\ reader[c] = "ready"
  /\ ~MayTry(c)
  /\ reader' = [reader EXCEPT ![c] = "errored"]
  /\ errored' = errored + 1
  /\ UNCHANGED <<at, poolVars, looked, tries, checked, flagVars, over>>

\* The caller's context ends.
ContextEnds ==
  /\ at \notin Returned
  /\ ~over
  /\ over' = TRUE
  /\ UNCHANGED <<at, poolVars, looked, readVars, countVars, flagVars>>

-----------------------------------------------------------------------------
CallerStep == CheckOptions \/ DialNext \/ Sort \/ StartNext \/ NothingToStart \/ Conclude

ReaderStep(c) == Ask(c) \/ Answer(c) \/ Miss(c) \/ GiveUp(c)

Next == CallerStep \/ (\E c \in Clients : ReaderStep(c)) \/ ContextEnds

Spec == Init /\ [][Next]_vars

\* Goroutines run, and a request ends within its three seconds.  A provider need
\* not accept a connection or refuse it.
FairSpec ==
  /\ Spec
  /\ WF_vars(at # "dial" /\ CallerStep)
  /\ \A c \in Clients : WF_vars(ReaderStep(c))

-----------------------------------------------------------------------------
(* Properties.                                                             *)

\* The clients the second loop has passed, and the readers whose goroutine it has
\* started.
Passed  == {allClients[i] : i \in 1..looked}
Started == {c \in Clients : reader[c] # "none"}

\* The list: a copy of the configuration at first, then the pool by weight.
ListInv ==
  /\ at \in {"options", "dial"} =>
       /\ Len(allClients) <= Len(config)
       /\ \A i \in DOMAIN allClients : allClients[i] = config[i]
  /\ IF at \in {"start", "wait", "ok", "unavailable"}
       THEN allClients \in ClientOrders(Pool) /\ looked <= Len(allClients)
       ELSE looked = 0
  /\ at \in {"wait", "ok", "unavailable"} => looked = Len(allClients)

\* The flags: a reader's is set exactly when it has answered, a send-only
\* client's when the loop has passed it.  A request under way is one of its tries.
ReachInv ==
  /\ enabled \subseteq Passed /\ gauge = enabled
  /\ Started = Passed \ SendOnly /\ Passed \cap SendOnly \subseteq enabled
  /\ \A c \in Clients \ SendOnly : c \in enabled <=> reader[c] = "enabled"
  /\ \A c \in Clients : reader[c] \in {"rpc", "late"} => tries[c] < Retries

\* The counters, and what the verdict makes of them.
CountInv ==
  /\ checked = Cardinality(Started)
  /\ errored = Cardinality({c \in Clients : reader[c] = "errored"})
  /\ at \in {"ok", "unavailable"} =>
       /\ \A c \in Clients : reader[c] \notin Running
       /\ at = "unavailable" <=> errored = checked

\* The inductive invariant of the dial.
IInv == TypeOK /\ ListInv /\ ReachInv /\ CountInv

\* The dial succeeds exactly when a reader has answered: a send-only provider
\* alone makes no client, and neither does an empty configuration.
VerdictFits ==
  /\ at = "ok" => enabled \ SendOnly # {}
  /\ at = "unavailable" => enabled \ SendOnly = {}

\* A client that is handed out is what the other components start from: its
\* flags and gauges are those of DialledFlags, its list is the pool by weight.
HandsOverPool ==
  at = "ok" =>
    /\ enabled \in DialledFlags(Pool) /\ gauge = enabled
    /\ ToSet(allClients) = Pool /\ SortedByWeight(allClients)
    /\ \A i, j \in DOMAIN allClients : allClients[i] = allClients[j] => i = j

\* After the dial has returned, flags belong to callers and health checks: none
\* of its own goroutines is left to write one.
NobodyWritesLater == at \in Returned => \A c \in Clients : reader[c] \notin Running

\* Once every provider is dialled the caller gets its client or an error, though
\* no provider ever answers.
DialEnds == at = "start" ~> at \in Returned
=============================================================================
