----------------------------- MODULE DialProofs -----------------------------
(***************************************************************************)
(* The safety of the dial, for any configuration, any number of tries and  *)
(* any order in which the readers' goroutines end.                         *)
(***************************************************************************)
EXTENDS Dial, SelectionProofs

-----------------------------------------------------------------------------
(* The counters.                                                           *)

\* The readers that were given up.
GivenUp == {c \in Clients : reader[c] = "errored"}

\* One more client is counted.
LEMMA CountOne ==
  ASSUME NEW S, S \subseteq Clients, NEW c \in Clients, c \notin S
  PROVE  Cardinality(S \cup {c}) = Cardinality(S) + 1
BY Countable, FS_AddElement

\* Equal counts of the started and of those among them that were given up mean
\* that all were.
LEMMA AllOrSome ==
  ASSUME NEW S, NEW T, S \subseteq T, T \subseteq Clients
  PROVE  Cardinality(S) = Cardinality(T) <=> S = T
BY Countable, FS_Subset

-----------------------------------------------------------------------------
(* The steps of the caller.                                                *)

LEMMA InitHolds == Init => IInv
<1> SUFFICES ASSUME Init PROVE IInv
  OBVIOUS
<1>1. TypeOK
  <2>1. reader \in [Clients -> {"none", "enabled", "errored"} \cup Running]
        /\ tries \in [Clients -> 0..Retries]
    BY DialAssumption DEF Init
  <2>2. allClients \in Seq(Clients)
    BY DEF Init
  <2> QED  BY <2>1, <2>2 DEF Init, TypeOK
<1>2. Passed = {} /\ Started = {} /\ {c \in Clients : reader[c] = "errored"} = {}
  BY DEF Init, Passed, Started
<1>3. Len(config) \in Nat /\ ListInv
  BY <1>1, LenProperties, DialAssumption DEF Init, ListInv, TypeOK
<1>4. ReachInv
  BY <1>2 DEF Init, ReachInv
<1>5. CountInv
  BY <1>2, FS_EmptySet DEF Init, CountInv
<1> QED  BY <1>1, <1>3, <1>4, <1>5 DEF IInv

\* Until the second loop nothing is looked at.
LEMMA FirstStepsKeep ==
  ASSUME IInv, CheckOptions \/ DialNext \/ Sort \/ ContextEnds
  PROVE  IInv'
<1>1. TypeOK /\ ListInv /\ ReachInv /\ CountInv
  BY DEF IInv
<1>2. config \in Seq(Clients) /\ Len(config) \in Nat /\ DOMAIN config = 1..Len(config)
      /\ \A i \in 1..Len(config) : config[i] \in Clients
  BY <1>1, DialAssumption, LenProperties, ElementOfSeq DEF TypeOK
<1>3. allClients \in Seq(Clients) /\ Len(allClients) \in Nat
      /\ DOMAIN allClients = 1..Len(allClients)
  BY <1>1, LenProperties DEF TypeOK
<1>4. /\ config' = config /\ looked' = looked /\ reader' = reader /\ tries' = tries
      /\ checked' = checked /\ errored' = errored /\ enabled' = enabled /\ gauge' = gauge
  BY DEF CheckOptions, DialNext, Sort, ContextEnds, poolVars, readVars, countVars, flagVars
<1>5. CASE ContextEnds
  <2>1. at' = at /\ allClients' = allClients /\ over' = TRUE
    BY <1>5 DEF ContextEnds, poolVars
  <2> QED  BY <1>1, <1>4, <2>1
           DEF IInv, TypeOK, ListInv, ReachInv, CountInv, Passed, Started, Pool
<1>6. CASE ~ContextEnds
  <2>1. at \in {"options", "dial"} /\ looked = 0 /\ over' = over
        /\ at' \in {"dial", "invalid options", "dial error", "start"}
    BY <1>1, <1>6 DEF CheckOptions, DialNext, Sort, ListInv
  <2>2. Passed = {} /\ Passed' = {}
    <3>1. 1..0 = {}
      OBVIOUS
    <3> QED  BY <1>4, <2>1, <3>1 DEF Passed
  <2>3. ReachInv' /\ CountInv'
    BY <1>1, <1>4, <2>1, <2>2 DEF ReachInv, CountInv, Started
  <2>4. TypeOK' /\ ListInv'
    <3>1. CASE CheckOptions
      <4>1. at = "options" /\ at' \in {"dial", "invalid options"} /\ allClients' = allClients
        BY <3>1 DEF CheckOptions, poolVars
      <4> QED  BY <1>1, <1>4, <2>1, <4>1 DEF TypeOK, ListInv, Returned
    <3>2. CASE DialNext /\ at' = at
      <4>1. /\ Len(allClients) < Len(config) /\ at = "dial"
            /\ allClients' = Append(allClients, config[Len(allClients) + 1])
        BY <3>2 DEF DialNext
      <4>2. config[Len(allClients) + 1] \in Clients
        BY <1>2, <1>3, <4>1
      <4>3. /\ allClients' \in Seq(Clients) /\ Len(allClients') = Len(allClients) + 1
            /\ DOMAIN allClients' = 1..(Len(allClients) + 1)
            /\ \A i \in 1..Len(allClients) : allClients'[i] = allClients[i]
            /\ allClients'[Len(allClients) + 1] = config[Len(allClients) + 1]
        BY <1>3, <4>1, <4>2, AppendProperties, LenProperties
      <4>4. \A i \in 1..Len(allClients) : allClients[i] = config[i]
        BY <1>1, <1>3, <4>1 DEF ListInv
      <4>5. ASSUME NEW i \in DOMAIN allClients' PROVE allClients'[i] = config[i]
        <5>1. i \in 1..Len(allClients) \/ i = Len(allClients) + 1
          BY <1>3, <4>3
        <5>2. CASE i \in 1..Len(allClients)
          <6>1. allClients'[i] = allClients[i] /\ allClients[i] = config[i]
            BY <4>3, <4>4, <5>2
          <6> QED  BY <6>1
        <5>3. CASE i = Len(allClients) + 1
          BY <4>3, <5>3
        <5> QED  BY <5>1, <5>2, <5>3
      <4> QED  BY <1>1, <1>2, <1>3, <1>4, <2>1, <3>2, <4>1, <4>3, <4>5 DEF TypeOK, ListInv
    <3>3. CASE DialNext /\ at' # at
      BY <1>1, <1>3, <1>4, <2>1, <3>3 DEF DialNext, TypeOK, ListInv, Returned
    <3>4. CASE Sort
      <4>1. Len(allClients) = Len(config) /\ at = "dial" /\ at' = "start"
            /\ allClients' \in ClientOrders(ToSet(allClients))
        BY <3>4 DEF Sort
      <4>2. ToSet(allClients) = Pool /\ Pool \subseteq Clients
        BY <1>1, <1>2, <1>3, <4>1 DEF ListInv, Pool, ToSet
      <4>3. allClients' \in Seq(Clients) /\ Len(allClients') \in Nat
        BY <4>1, <4>2, OrdersHold
      <4> QED  BY <1>1, <1>4, <2>1, <4>1, <4>2, <4>3 DEF TypeOK, ListInv, Pool
    <3> QED  BY <1>6, <3>1, <3>2, <3>3, <3>4
  <2> QED  BY <2>3, <2>4 DEF IInv
<1> QED  BY <1>5, <1>6

\* The second loop looks at one more client, which it has not seen before.
LEMMA StartNextKeeps == ASSUME IInv, StartNext PROVE IInv'
<1> DEFINE c == allClients[looked + 1]
<1>1. TypeOK /\ ListInv /\ ReachInv /\ CountInv
  BY DEF IInv
<1>2. /\ at = "start" /\ looked < Len(allClients) /\ looked' = looked + 1
      /\ at' \in {"start", "wait"} /\ (at' = "wait" <=> looked' = Len(allClients))
      /\ config' = config /\ allClients' = allClients /\ errored' = errored /\ over' = over
  BY DEF StartNext, poolVars
<1>3. /\ allClients \in ClientOrders(Pool) /\ Pool \subseteq Clients /\ looked \in Nat
  <2>1. config \in Seq(Clients)
    BY <1>1, DialAssumption DEF TypeOK
  <2>2. Pool \subseteq Clients
    BY <2>1, LenProperties, ElementOfSeq DEF Pool, ToSet
  <2> QED  BY <1>1, <1>2, <2>2 DEF ListInv, TypeOK
<1>4. /\ Len(allClients) \in Nat /\ DOMAIN allClients = 1..Len(allClients)
      /\ \A i \in 1..Len(allClients) : allClients[i] \in Clients
      /\ \A i, j \in 1..Len(allClients) : allClients[i] = allClients[j] => i = j
  BY <1>3, OrdersHold
<1>5. c \in Clients /\ c \notin Passed /\ Passed' = Passed \cup {c} /\ Passed \subseteq Clients
  <2>1. 1..(looked + 1) = 1..looked \cup {looked + 1}
    BY <1>3
  <2>2. looked + 1 \in 1..Len(allClients) /\ 1..looked \subseteq 1..Len(allClients)
        /\ looked + 1 \notin 1..looked
    <3>1. \A n \in Nat : n + 1 \notin 1..n
      OBVIOUS
    <3>2. \A n, m \in Nat : n < m => n + 1 \in 1..m /\ 1..n \subseteq 1..m
      OBVIOUS
    <3>3. looked \in Nat /\ Len(allClients) \in Nat /\ looked < Len(allClients)
      BY <1>2, <1>3, <1>4
    <3> QED  BY <3>1, <3>2, <3>3
  <2>3. Passed' = {allClients[i] : i \in 1..looked \cup {looked + 1}}
    BY <1>2, <2>1 DEF Passed
  <2>4. c \in Clients
    BY <1>4, <2>2
  <2>5. c \notin Passed
    <3> SUFFICES ASSUME NEW i \in 1..looked, allClients[i] = c PROVE FALSE
      BY DEF Passed
    <3>1. i = looked + 1
      BY <1>4, <2>2
    <3> QED  BY <2>2, <3>1
  <2>6. Passed' = Passed \cup {c}
    BY <2>3 DEF Passed
  <2>7. Passed \subseteq Clients
    BY <1>4, <2>2 DEF Passed
  <2> QED  BY <2>4, <2>5, <2>6, <2>7
<1>6. StartOne(c)
  BY DEF StartNext
<1> HIDE DEF c
<1>7. ListInv'
  <2>1. (allClients \in ClientOrders(Pool))'
    BY <1>2, <1>3 DEF Pool
  <2>2. looked' <= Len(allClients') /\ looked' \in Nat
    <3>1. \A n, m \in Nat : n < m => n + 1 <= m /\ n + 1 \in Nat
      OBVIOUS
    <3>2. looked \in Nat /\ Len(allClients) \in Nat
      BY <1>3, <1>4
    <3> QED  BY <1>2, <3>1, <3>2
  <2>3. at' = "wait" => looked' = Len(allClients')
    BY <1>2
  <2> QED  BY <1>2, <2>1, <2>2, <2>3 DEF ListInv
<1>8. CASE c \in SendOnly
  <2>1. /\ enabled' = enabled \cup {c} /\ gauge' = gauge \cup {c}
        /\ reader' = reader /\ tries' = tries /\ checked' = checked
    BY <1>6, <1>8 DEF StartOne, StartReader, Enable, readVars
  <2>2. TypeOK'
    BY <1>1, <1>2, <1>3, <1>5, <2>1 DEF TypeOK
  <2>3. ReachInv' /\ CountInv'
    BY <1>1, <1>2, <1>5, <1>8, <2>1 DEF ReachInv, CountInv, Started
  <2> QED  BY <1>7, <2>2, <2>3 DEF IInv
<1>9. CASE c \notin SendOnly
  <2>1. /\ reader' = [reader EXCEPT ![c] = "ready"] /\ checked' = checked + 1
        /\ tries' = tries /\ enabled' = enabled /\ gauge' = gauge
    BY <1>6, <1>9 DEF StartOne, StartReader, flagVars
  <2>2. reader \in [Clients -> {"none", "enabled", "errored"} \cup Running]
        /\ reader' \in [Clients -> {"none", "enabled", "errored"} \cup Running]
    BY <1>1, <2>1 DEF TypeOK, Running
  <2>3. TypeOK'
    BY <1>1, <1>2, <1>3, <2>1, <2>2 DEF TypeOK
  <2>4. c \notin Started /\ Started' = Started \cup {c} /\ Started \subseteq Clients
    BY <1>1, <1>5, <2>1, <2>2 DEF ReachInv, Started
  <2>5. ReachInv'
    BY <1>1, <1>5, <1>9, <2>1, <2>2, <2>4 DEF ReachInv
  <2>6. checked' = Cardinality(Started')
    BY <1>1, <1>5, <2>1, <2>4, CountOne DEF CountInv
  <2>7. {d \in Clients : reader'[d] = "errored"} = {d \in Clients : reader[d] = "errored"}
    BY <1>5, <2>1, <2>2, <2>4 DEF Started
  <2>8. CountInv'
    BY <1>1, <1>2, <2>6, <2>7 DEF CountInv
  <2> QED  BY <1>7, <2>3, <2>5, <2>8 DEF IInv
<1> QED  BY <1>8, <1>9

\* The caller's last steps: the loop is empty, or everyone has reported.
LEMMA LastStepsKeep == ASSUME IInv, NothingToStart \/ Conclude PROVE IInv'
<1>1. TypeOK /\ ListInv /\ ReachInv /\ CountInv
  BY DEF IInv
<1>2. UNCHANGED <<config, allClients, looked, reader, tries, checked, errored, enabled, gauge, over>>
  BY DEF NothingToStart, Conclude, poolVars, readVars, countVars, flagVars
<1>3. CASE NothingToStart
  <2>1. at = "start" /\ at' = "wait" /\ Len(allClients) = 0
    BY <1>3 DEF NothingToStart
  <2>2. looked = 0
    BY <1>1, <2>1 DEF ListInv, TypeOK
  <2> QED  BY <1>1, <1>2, <2>1, <2>2
           DEF IInv, TypeOK, ListInv, ReachInv, CountInv, Passed, Started, Pool
<1>4. CASE Conclude
  <2>1. /\ at = "wait" /\ at' \in {"ok", "unavailable"}
        /\ at' = "unavailable" <=> errored = checked
        /\ \A c \in Clients : reader[c] \notin Running
    BY <1>4 DEF Conclude, AllReported
  <2>2. TypeOK' /\ ListInv'
    BY <1>1, <1>2, <2>1 DEF TypeOK, ListInv, Pool, Returned
  <2>3. ReachInv' /\ CountInv'
    BY <1>1, <1>2, <2>1 DEF ReachInv, CountInv, Passed, Started
  <2> QED  BY <2>2, <2>3 DEF IInv
<1> QED  BY <1>3, <1>4

-----------------------------------------------------------------------------
(* The steps of a goroutine.                                               *)

LEMMA ReaderKeeps == ASSUME IInv, NEW c \in Clients, ReaderStep(c) PROVE IInv'
<1>1. TypeOK /\ ListInv /\ ReachInv /\ CountInv
  BY DEF IInv
<1>2. UNCHANGED <<at, config, allClients, looked, checked, over>>
  BY DEF ReaderStep, Ask, Answer, Miss, GiveUp, poolVars, countVars
<1>3. reader[c] \in Running /\ at \notin {"ok", "unavailable"}
  BY <1>1 DEF ReaderStep, Ask, Answer, Miss, GiveUp, Running, CountInv
<1>4. reader \in [Clients -> {"none", "enabled", "errored"} \cup Running]
      /\ Passed' = Passed /\ ListInv'
  BY <1>1, <1>2 DEF TypeOK, Passed, ListInv, Pool
<1>5. c \in Passed \ SendOnly /\ reader[c] # "enabled" /\ c \notin enabled
  BY <1>1, <1>3 DEF ReachInv, Started, Running
<1>6. ASSUME NEW state \in {"enabled", "errored"} \cup Running, reader' = [reader EXCEPT ![c] = state]
      PROVE  Started' = Started /\ reader' \in [Clients -> {"none", "enabled", "errored"} \cup Running]
  BY <1>3, <1>4, <1>6 DEF Started, Running
<1>7. CASE Ask(c) \/ Miss(c)
  <2>1. PICK state \in Running : reader' = [reader EXCEPT ![c] = state]
    BY <1>7 DEF Ask, Miss, Running
  <2>2. UNCHANGED <<enabled, gauge, errored>>
    BY <1>7 DEF Ask, Miss, flagVars, countVars
  <2>3. Started' = Started /\ reader' \in [Clients -> {"none", "enabled", "errored"} \cup Running]
    BY <1>6, <2>1
  <2>4. tries' \in [Clients -> 0..Retries]
    <3>1. Retries \in Nat /\ tries \in [Clients -> 0..Retries]
      BY <1>1, DialAssumption DEF TypeOK
    <3>2. CASE Ask(c)
      BY <3>1, <3>2 DEF Ask
    <3>3. CASE Miss(c)
      <4>1. tries[c] < Retries
        BY <1>1, <3>3 DEF Miss, ReachInv
      <4> QED  BY <3>1, <3>3, <4>1 DEF Miss
    <3> QED  BY <1>7, <3>2, <3>3
  <2>5. TypeOK'
    BY <1>1, <1>2, <2>2, <2>3, <2>4 DEF TypeOK
  <2>6. ReachInv'
    <3>1. \A d \in Clients : reader'[d] \in {"rpc", "late"} => tries'[d] < Retries
      BY <1>1, <1>4, <1>7 DEF ReachInv, Ask, Miss, MayTry, TypeOK
    <3> QED  BY <1>1, <1>4, <1>5, <2>1, <2>2, <2>3, <3>1 DEF ReachInv, Running
  <2>7. {d \in Clients : reader'[d] = "errored"} = {d \in Clients : reader[d] = "errored"}
    BY <1>3, <1>4, <2>1 DEF Running
  <2>8. CountInv'
    BY <1>1, <1>2, <1>3, <2>2, <2>3, <2>7 DEF CountInv
  <2> QED  BY <1>4, <2>5, <2>6, <2>8 DEF IInv
<1>8. CASE Answer(c)
  <2>1. /\ reader' = [reader EXCEPT ![c] = "enabled"] /\ UNCHANGED <<tries, errored>>
        /\ enabled' = enabled \cup {c} /\ gauge' = gauge \cup {c}
    BY <1>8 DEF Answer, Reached, Enable
  <2>2. Started' = Started /\ reader' \in [Clients -> {"none", "enabled", "errored"} \cup Running]
    BY <1>6, <2>1
  <2>3. TypeOK'
    BY <1>1, <1>2, <2>1, <2>2 DEF TypeOK
  <2>4. ReachInv'
    BY <1>1, <1>4, <1>5, <2>1, <2>2 DEF ReachInv
  <2>5. {d \in Clients : reader'[d] = "errored"} = {d \in Clients : reader[d] = "errored"}
    BY <1>3, <1>4, <2>1 DEF Running
  <2>6. CountInv'
    BY <1>1, <1>2, <1>3, <2>1, <2>2, <2>5 DEF CountInv
  <2> QED  BY <1>4, <2>3, <2>4, <2>6 DEF IInv
<1>9. CASE GiveUp(c)
  <2>1. /\ reader' = [reader EXCEPT ![c] = "errored"] /\ errored' = errored + 1
        /\ UNCHANGED <<tries, enabled, gauge>>
    BY <1>9 DEF GiveUp, flagVars
  <2>2. Started' = Started /\ reader' \in [Clients -> {"none", "enabled", "errored"} \cup Running]
    BY <1>6, <2>1
  <2>3. TypeOK'
    BY <1>1, <1>2, <2>1, <2>2 DEF TypeOK
  <2>4. ReachInv'
    BY <1>1, <1>4, <1>5, <2>1, <2>2 DEF ReachInv
  <2>5. {d \in Clients : reader'[d] = "errored"} = GivenUp \cup {c} /\ c \notin GivenUp
    BY <1>3, <1>4, <2>1 DEF GivenUp, Running
  <2>6. errored' = Cardinality({d \in Clients : reader'[d] = "errored"})
    <3>1. errored = Cardinality(GivenUp) /\ GivenUp \subseteq Clients
      BY <1>1 DEF CountInv, GivenUp
    <3> QED  BY <2>1, <2>5, <3>1, CountOne
  <2>7. CountInv'
    BY <1>1, <1>2, <1>3, <2>2, <2>6 DEF CountInv
  <2> QED  BY <1>4, <2>3, <2>4, <2>7 DEF IInv
<1> QED  BY <1>7, <1>8, <1>9 DEF ReaderStep

-----------------------------------------------------------------------------
(* The theorems.                                                           *)

\* The invariant of the dial (DialMultiContext, rpc/multi_client.go): the flags,
\* the counters and the list agree with what the goroutines have done.
THEOREM Inductive == Spec => []IInv
<1>1. IInv /\ [Next]_vars => IInv'
  <2> SUFFICES ASSUME IInv, [Next]_vars PROVE IInv'
    OBVIOUS
  <2>1. CASE CallerStep \/ ContextEnds
    BY <2>1, FirstStepsKeep, StartNextKeeps, LastStepsKeep DEF CallerStep
  <2>2. CASE \E c \in Clients : ReaderStep(c)
    BY <2>2, ReaderKeeps
  <2>3. CASE UNCHANGED vars
    BY <2>3 DEF IInv, TypeOK, ListInv, ReachInv, CountInv, Passed, Started, Pool,
                vars, poolVars, readVars, countVars, flagVars
  <2> QED  BY <2>1, <2>2, <2>3 DEF Next
<1> QED  BY InitHolds, <1>1, PTL DEF Spec

\* Every variable of the dial keeps its type; no reader is asked more than Retries times.
THEOREM TypeCorrect == Spec => []TypeOK
<1>1. IInv => TypeOK
  BY DEF IInv
<1> QED  BY <1>1, Inductive, PTL

\* The verdict of DialMultiContext, whatever the order in which the goroutines
\* report: a client if and only if a reader has answered.
THEOREM VerdictFitsHolds == Spec => []VerdictFits
<1>1. IInv => VerdictFits
  <2> SUFFICES ASSUME IInv, at \in {"ok", "unavailable"}
               PROVE  at = "ok" <=> enabled \ SendOnly # {}
    BY DEF VerdictFits
  <2>1. TypeOK /\ ReachInv /\ CountInv
    BY DEF IInv
  <2>2. \A c \in Started : reader[c] = "errored" \/ reader[c] = "enabled"
    BY <2>1 DEF CountInv, TypeOK, Started
  <2>3. enabled \ SendOnly = Started \ GivenUp
    BY <2>1, <2>2 DEF ReachInv, Started, GivenUp, TypeOK
  <2>4. GivenUp \subseteq Started /\ Started \subseteq Clients
    BY DEF GivenUp, Started
  <2>5. errored = checked <=> GivenUp = Started
    <3>1. Cardinality(GivenUp) = Cardinality(Started) <=> GivenUp = Started
      BY <2>4, AllOrSome
    <3> QED  BY <2>1, <3>1 DEF CountInv, GivenUp
  <2>6. at = "ok" <=> GivenUp # Started
    BY <2>1, <2>5 DEF CountInv
  <2> QED  BY <2>3, <2>4, <2>6
<1> QED  BY <1>1, Inductive, PTL

\* What DialMultiContext hands out is the state the other components start from,
\* for any configuration.
THEOREM HandsOverPoolHolds == Spec => []HandsOverPool
<1>1. IInv /\ VerdictFits => HandsOverPool
  <2> SUFFICES ASSUME IInv, VerdictFits, at = "ok" PROVE HandsOverPool
    BY DEF HandsOverPool
  <2>1. TypeOK /\ ListInv /\ ReachInv
    BY DEF IInv
  <2>2. Pool \subseteq Clients
    <3>1. config \in Seq(Clients)
      BY <2>1, DialAssumption DEF TypeOK
    <3> QED  BY <3>1, LenProperties, ElementOfSeq DEF Pool, ToSet
  <2>3. allClients \in ClientOrders(Pool) /\ looked = Len(allClients)
    BY <2>1 DEF ListInv
  <2>4. ToSet(allClients) = Pool /\ SortedByWeight(allClients) /\ Passed = Pool
        /\ \A i, j \in DOMAIN allClients : allClients[i] = allClients[j] => i = j
    <3>1. DOMAIN allClients = 1..Len(allClients)
      BY <2>2, <2>3, OrdersHold
    <3> QED  BY <2>2, <2>3, <3>1, OrdersHold DEF Passed, ToSet
  <2>5. enabled \in DialledFlags(Pool)
    <3>1. enabled = (Pool \cap SendOnly) \cup (enabled \ SendOnly)
      BY <2>1, <2>4 DEF ReachInv
    <3>2. enabled \ SendOnly \in (SUBSET (Pool \ SendOnly)) \ {{}}
      BY <2>1, <2>4 DEF ReachInv, VerdictFits
    <3> QED  BY <3>1, <3>2 DEF DialledFlags
  <2> QED  BY <2>1, <2>4, <2>5 DEF HandsOverPool, ReachInv
<1> QED  BY <1>1, Inductive, VerdictFitsHolds, PTL

\* When DialMultiContext has returned, with a client or with an error, none of
\* its goroutines is left to set a flag.
THEOREM NobodyWritesLaterHolds == Spec => []NobodyWritesLater
<1>1. IInv => NobodyWritesLater
  <2> SUFFICES ASSUME IInv, at \in Returned, NEW c \in Clients PROVE reader[c] \notin Running
    BY DEF NobodyWritesLater
  <2>1. ListInv /\ ReachInv /\ CountInv
    BY DEF IInv
  <2>2. CASE at \in {"ok", "unavailable"}
    BY <2>1, <2>2 DEF CountInv
  <2>3. CASE at \in {"invalid options", "dial error"}
    <3>1. looked = 0
      BY <2>1, <2>3 DEF ListInv
    <3>2. 1..0 = {}
      OBVIOUS
    <3>3. Started = {}
      BY <2>1, <3>1, <3>2 DEF ReachInv, Passed
    <3> QED  BY <3>3 DEF Started, Running
  <2> QED  BY <2>2, <2>3 DEF Returned
<1> QED  BY <1>1, Inductive, PTL

\* What the modules beside this one take for granted when all of Clients are
\* configured: Failover of its list (FailoverAssumption) and of the flags it begins
\* with, the others of any list (ClientOrders) and any flags (HealthFlags).
StartsTheRest ==
  at = "ok" /\ Pool = Clients =>
    /\ allClients \in ClientOrders(Clients) /\ allClients \in Seq(Clients)
    /\ \A c \in Clients : \E i \in DOMAIN allClients : allClients[i] = c
    /\ \A i, j \in DOMAIN allClients : i < j =>
         allClients[i] # allClients[j] /\ Weight[allClients[i]] >= Weight[allClients[j]]
    /\ enabled \in DialledFlags(Clients) \cap HealthFlags /\ gauge = enabled

\* A dial that succeeds ends in a state the other modules begin with.
THEOREM StartsTheRestHolds == Spec => []StartsTheRest
<1>1. IInv /\ HandsOverPool => StartsTheRest
  <2> SUFFICES ASSUME IInv, HandsOverPool, at = "ok", Pool = Clients PROVE StartsTheRest
    BY DEF StartsTheRest
  <2>1. allClients \in ClientOrders(Clients)
    BY DEF IInv, ListInv
  <2>2. /\ allClients \in Seq(Clients) /\ ToSet(allClients) = Clients
        /\ SortedByWeight(allClients)
        /\ Len(allClients) \in Nat /\ DOMAIN allClients = 1..Len(allClients)
        /\ \A i, j \in DOMAIN allClients : allClients[i] = allClients[j] => i = j
    BY <2>1, OrdersHold
  <2>3. \A c \in Clients : \E i \in DOMAIN allClients : allClients[i] = c
    BY <2>2 DEF ToSet
  <2>4. ASSUME NEW i \in DOMAIN allClients, NEW j \in DOMAIN allClients, i < j
        PROVE  allClients[i] # allClients[j] /\ Weight[allClients[i]] >= Weight[allClients[j]]
    <3>1. i \in 1..Len(allClients) /\ j \in i..Len(allClients) /\ i # j
      BY <2>2, <2>4
    <3> QED  BY <2>2, <3>1, EarlierIsHeavier
  <2>5. enabled \in DialledFlags(Clients) /\ gauge = enabled
    BY DEF HandsOverPool
  <2>6. DialledFlags(Clients) \subseteq HealthFlags
    <3>1. Clients \cap SendOnly = SendOnly
      BY ProvidersAssumption
    <3> QED  BY <3>1 DEF DialledFlags, HealthFlags
  <2> QED  BY <2>1, <2>2, <2>3, <2>4, <2>5, <2>6 DEF StartsTheRest
<1> QED  BY <1>1, Inductive, HandsOverPoolHolds, PTL
=============================================================================
