--------------------------- MODULE FailoverProofs ---------------------------
(***************************************************************************)
(* The safety properties of Failover, for every pool of providers, every   *)
(* number of callers and any changes of the providers.                     *)
(***************************************************************************)
EXTENDS Failover, SelectionProofs

-----------------------------------------------------------------------------
(* Lemmas about the list of clients.                                       *)

\* A client has the position at which Order lists it.
LEMMA RankType == \A c \in Clients : Rank(c) \in 1..Len(Order) /\ Order[Rank(c)] = c
<1> SUFFICES ASSUME NEW c \in Clients
             PROVE  Rank(c) \in 1..Len(Order) /\ Order[Rank(c)] = c
  OBVIOUS
<1>1. DOMAIN Order = 1..Len(Order)
  BY FailoverAssumption
<1>2. \E i \in DOMAIN Order : Order[i] = c
  BY FailoverAssumption
<1> QED  BY <1>1, <1>2 DEF Rank

\* A nonempty set of clients has a first one.
LEMMA FirstOfIsFirst ==
  ASSUME NEW S, S \subseteq Clients, S # {}
  PROVE  FirstOf(S) \in S /\ \A d \in S : Rank(FirstOf(S)) <= Rank(d)
<1> DEFINE Ranks == {Rank(c) : c \in S}
<1>1. \A c \in S : Rank(c) \in Nat
  BY RankType, FailoverAssumption
<1>2. Ranks \subseteq Nat /\ Ranks # {}
  BY <1>1
<1>3. PICK n \in Ranks : \A m \in Ranks : ~(<<m, n>> \in OpToRel(<, Nat))
  BY <1>2, NatLessThanWellFounded, WFMin
<1>4. PICK c \in S : n = Rank(c)
  OBVIOUS
<1>5. \A d \in S : Rank(c) <= Rank(d)
  <2> SUFFICES ASSUME NEW d \in S PROVE Rank(c) <= Rank(d)
    OBVIOUS
  <2>1. Rank(d) \in Ranks /\ Rank(d) \in Nat /\ Rank(c) \in Nat
    BY <1>1
  <2>2. ~(Rank(d) < Rank(c))
    BY <2>1, <1>3, <1>4 DEF OpToRel
  <2> QED  BY <2>1, <2>2
<1> QED  BY <1>5 DEF FirstOf

\* Reads are for enabled readers, and a suitable client stays suitable as long
\* as it is enabled.
LEMMA EligibleReaders ==
  ASSUME NEW E, NEW k
  PROVE  /\ EligibleClients(E, k, FALSE) \subseteq Readers \cap E
         /\ \A F : EligibleClients(F, k, FALSE) \cap E \subseteq EligibleClients(E, k, FALSE)
         /\ \A F : F \subseteq E =>
              EligibleClients(F, k, FALSE) \subseteq EligibleClients(E, k, FALSE)
BY DEF EligibleClients, Readers

-----------------------------------------------------------------------------
(* The initial states.                                                     *)

\* The invariant holds when DialMultiContext has returned.
LEMMA IInvInit == Init => IInv
<1> SUFFICES ASSUME Init PROVE IInv
  OBVIOUS
<1>1. TypeOK
  <2>1. Len(Order) \in Nat /\ MaxChanges \in Nat
    BY FailoverAssumption
  <2>2. enabled \in DialledFlags(Clients) /\ gauge = enabled
    BY DEF Init
  <2>3. enabled \subseteq Clients /\ gauge \subseteq Clients
    BY <2>2 DEF DialledFlags
  <2>4. /\ at \in [Callers -> {"new", "scan", "choose", "rpc", "demote", "gauge"} \cup Returned]
        /\ kind \in [Callers -> Kinds]
        /\ scanned \in [Callers -> 0..Len(Order)]
        /\ seen \in [Callers -> SUBSET Clients]
        /\ chosen \in [Callers -> Readers \cup {NoClient}]
    BY <2>1 DEF Init
  <2>5. /\ health \in [Readers -> {"rpc", "flag", "gauge", "wait", "exited"}]
        /\ closed \in 0..Len(Order)
        /\ up \in [Readers -> Conditions]
        /\ changes \in 0..MaxChanges
    BY <2>1 DEF Init
  <2>7. stopped \in BOOLEAN /\ verdict \in [Readers -> BOOLEAN]
    BY Zenon DEF Init
  <2>6. /\ demoted \in [Callers -> SUBSET Clients]
        /\ steady \in [Callers -> SUBSET Clients]
        /\ passed \in [Callers -> SUBSET Clients]
    BY DEF Init
  <2> QED  BY <2>3, <2>4, <2>5, <2>6, <2>7 DEF TypeOK
<1>2. FlagInv /\ ChosenInv /\ NoBlindRetry /\ SelectionRespectsPriority
      /\ UnavailableMeansNone
  BY DEF Init, FlagInv, ChosenInv, NoBlindRetry, SelectionRespectsPriority,
         UnavailableMeansNone
<1>3. ScanInv
  BY DEF Init, ScanInv
<1> QED  BY <1>1, <1>2, <1>3 DEF IInv

-----------------------------------------------------------------------------
(* The steps of a caller.                                                  *)

\* A scan begins with the flags as they are.
LEMMA BeginScanKeeps == ASSUME IInv, NEW q \in Callers, BeginScan(q) PROVE IInv'
<1>1. /\ at[q] = "new"
      /\ at' = [at EXCEPT ![q] = "scan"]
      /\ steady' = [steady EXCEPT ![q] = enabled]
      /\ UNCHANGED <<flagVars, kind, scanned, seen, chosen, healthVars, envVars, demoted, passed>>
  BY DEF BeginScan
<1> USE DEF flagVars, healthVars, envVars
<1>2. TypeOK /\ seen[q] = {} /\ scanned[q] = 0
  BY <1>1 DEF IInv, ScanInv
<1>3. TypeOK'
  BY <1>1, <1>2 DEF TypeOK
<1>4. FlagInv' /\ ChosenInv'
  BY <1>1, <1>2 DEF IInv, FlagInv, ChosenInv, TypeOK
<1>5. ScanInv'
  <2> SUFFICES ASSUME NEW p \in Callers
               PROVE  /\ at'[p] # "scan" => seen'[p] = {} /\ scanned'[p] = 0
                      /\ seen'[p] \subseteq Readers
                      /\ seen'[p] \cap demoted'[p] = {}
                      /\ \A i \in 1..scanned'[p] :
                           Order[i] \in EligibleClients(steady'[p], kind'[p], FALSE)
                             => Order[i] \in seen'[p]
    BY DEF ScanInv
  <2>1. CASE p = q
    BY <2>1, <1>1, <1>2 DEF TypeOK
  <2>2. CASE p # q
    BY <2>2, <1>1, <1>2 DEF IInv, ScanInv, TypeOK
  <2> QED  BY <2>1, <2>2
<1>6. NoBlindRetry' /\ SelectionRespectsPriority' /\ UnavailableMeansNone'
  BY <1>1, <1>2 DEF IInv, NoBlindRetry, SelectionRespectsPriority, UnavailableMeansNone,
                    Preferred, TypeOK
<1> QED  BY <1>3, <1>4, <1>5, <1>6 DEF IInv

\* A scan takes in the next client if it suits the call and its flag is set.
LEMMA ScanNextKeeps == ASSUME IInv, NEW q \in Callers, ScanNext(q) PROVE IInv'
<1> DEFINE c == Order[scanned[q] + 1]
           new == EligibleClients(enabled, kind[q], FALSE)
<1>1. /\ at[q] = "scan" /\ scanned[q] < Len(Order)
      /\ seen' = [seen EXCEPT ![q] = IF c \in new THEN @ \cup {c} ELSE @]
      /\ scanned' = [scanned EXCEPT ![q] = @ + 1]
      /\ UNCHANGED <<flagVars, at, kind, chosen, healthVars, envVars, histVars>>
  BY DEF ScanNext, ScanLength
<1> USE DEF flagVars, healthVars, envVars, histVars
<1>2. TypeOK /\ Len(Order) \in Nat /\ scanned[q] \in Nat
  BY FailoverAssumption DEF IInv, TypeOK
<1>3. new \subseteq Readers \cap enabled
  BY EligibleReaders
<1>a. steady[q] \subseteq enabled =>
        EligibleClients(steady[q], kind[q], FALSE) \subseteq new
  BY EligibleReaders
<1> HIDE DEF c, new
<1>b. /\ seen'[q] = (IF c \in new THEN seen[q] \cup {c} ELSE seen[q])
      /\ scanned'[q] = scanned[q] + 1
  BY <1>1, <1>2 DEF TypeOK
<1>c. /\ seen[q] \subseteq Readers /\ seen[q] \cap demoted[q] = {}
      /\ demoted[q] \cap enabled = {} /\ steady[q] \subseteq enabled
  BY DEF IInv, ScanInv, FlagInv
<1>d. seen'[q] \subseteq Readers /\ seen'[q] \cap demoted[q] = {}
  <2>1. CASE c \in new
    BY <2>1, <1>b, <1>c, <1>3
  <2>2. CASE c \notin new
    BY <2>2, <1>b, <1>c
  <2> QED  BY <2>1, <2>2
<1>4. TypeOK'
  <2>1. scanned' \in [Callers -> 0..Len(Order)]
    <3>1. scanned[q] + 1 \in 0..Len(Order)
      BY <1>1, <1>2
    <3> QED  BY <3>1, <1>1, <1>2 DEF TypeOK
  <2>2. seen' \in [Callers -> SUBSET Clients]
    <3>1. seen' = [seen EXCEPT ![q] = seen'[q]]
      BY <1>1, <1>2 DEF TypeOK
    <3>2. seen'[q] \in SUBSET Clients
      BY <1>d DEF Readers
    <3> QED  BY <3>1, <3>2, <1>2 DEF TypeOK
  <2> QED  BY <2>1, <2>2, <1>1, <1>2 DEF TypeOK
<1>5. FlagInv' /\ ChosenInv'
  BY <1>1 DEF IInv, FlagInv, ChosenInv
<1>6. ScanInv'
  <2> SUFFICES ASSUME NEW p \in Callers
               PROVE  /\ at'[p] # "scan" => seen'[p] = {} /\ scanned'[p] = 0
                      /\ seen'[p] \subseteq Readers
                      /\ seen'[p] \cap demoted'[p] = {}
                      /\ \A i \in 1..scanned'[p] :
                           Order[i] \in EligibleClients(steady'[p], kind'[p], FALSE)
                             => Order[i] \in seen'[p]
    BY DEF ScanInv
  <2>1. CASE p # q
    BY <2>1, <1>1, <1>2 DEF IInv, ScanInv, TypeOK
  <2>2. CASE p = q
    <3>1. seen'[q] \subseteq Readers /\ seen'[q] \cap demoted'[q] = {}
      BY <1>d, <1>1
    <3>2. ASSUME NEW i \in 1..scanned'[q],
                 Order[i] \in EligibleClients(steady'[q], kind'[q], FALSE)
          PROVE  Order[i] \in seen'[q]
      <4>1. Order[i] \in EligibleClients(steady[q], kind[q], FALSE)
        BY <3>2, <1>1
      <4>2. CASE i = scanned[q] + 1
        <5>1. Order[i] = c
          BY <4>2 DEF c
        <5> QED  BY <5>1, <4>1, <1>a, <1>b, <1>c
      <4>3. CASE i # scanned[q] + 1
        <5>1. i \in 1..scanned[q]
          BY <4>3, <1>b, <1>2
        <5>2. Order[i] \in seen[q]
          BY <5>1, <4>1 DEF IInv, ScanInv
        <5> QED  BY <5>2, <1>b
      <4> QED  BY <4>2, <4>3
    <3> QED  BY <2>2, <3>1, <3>2, <1>1
  <2> QED  BY <2>1, <2>2
<1>7. NoBlindRetry' /\ SelectionRespectsPriority' /\ UnavailableMeansNone'
  BY <1>1 DEF IInv, NoBlindRetry, SelectionRespectsPriority, UnavailableMeansNone,
              Preferred
<1> QED  BY <1>4, <1>5, <1>6, <1>7 DEF IInv

\* A choice is made among the candidates of a complete scan.
LEMMA ChooseKeeps == ASSUME IInv, NEW q \in Callers, Choose(q) PROVE IInv'
<1>1. /\ at[q] = "scan" /\ scanned[q] = Len(Order)
      /\ scanned' = [scanned EXCEPT ![q] = 0]
      /\ seen' = [seen EXCEPT ![q] = {}]
      /\ UNCHANGED <<flagVars, kind, healthVars, envVars, demoted, steady>>
  BY DEF Choose, ScanLength
<1> USE DEF flagVars, healthVars, envVars
<1> DEFINE suited == EligibleClients(steady[q], kind[q], FALSE)
<1>2. TypeOK /\ seen[q] \subseteq Readers /\ seen[q] \cap demoted[q] = {}
  BY DEF IInv, ScanInv
<1>3. suited \subseteq seen[q]
  <2> SUFFICES ASSUME NEW c \in suited PROVE c \in seen[q]
    OBVIOUS
  <2>1. c \in Clients
    BY DEF EligibleClients
  <2>2. Rank(c) \in 1..scanned[q] /\ Order[Rank(c)] = c
    BY <2>1, <1>1, RankType
  <2> QED  BY <2>2 DEF IInv, ScanInv
<1>4. \/ /\ seen[q] = {}
         /\ at' = [at EXCEPT ![q] = "unavailable"]
         /\ UNCHANGED <<chosen, passed>>
      \/ \E free \in SUBSET seen[q], c \in seen[q] :
           /\ at' = [at EXCEPT ![q] = "rpc"]
           /\ passed' = [passed EXCEPT ![q] = seen[q] \ free]
           /\ chosen' = [chosen EXCEPT ![q] = c]
           /\ Preferred(q, free) # {} => c = FirstOf(Preferred(q, free))
  <2>1. CASE seen[q] = {}
    BY <2>1 DEF Choose
  <2>2. CASE seen[q] # {}
    <3>1. PICK free \in SUBSET seen[q] :
            /\ at' = [at EXCEPT ![q] = "rpc"]
            /\ passed' = [passed EXCEPT ![q] = seen[q] \ free]
            /\ IF Preferred(q, free) # {}
                 THEN chosen' = [chosen EXCEPT ![q] = FirstOf(Preferred(q, free))]
               ELSE IF free # {}
                 THEN chosen' = [chosen EXCEPT ![q] = FirstOf(free)]
               ELSE \E c \in seen[q] : chosen' = [chosen EXCEPT ![q] = c]
      BY <2>2 DEF Choose
    <3>2. free \subseteq Clients /\ Preferred(q, free) \subseteq free
      BY <1>2 DEF Readers, Preferred
    <3>3. CASE Preferred(q, free) # {}
      <4>1. FirstOf(Preferred(q, free)) \in seen[q]
        BY <3>2, <3>3, FirstOfIsFirst
      <4> QED  BY <4>1, <3>1, <3>3
    <3>4. CASE Preferred(q, free) = {} /\ free # {}
      <4>1. FirstOf(free) \in seen[q]
        BY <3>2, <3>4, FirstOfIsFirst
      <4> QED  BY <4>1, <3>1, <3>4
    <3>5. CASE Preferred(q, free) = {} /\ free = {}
      BY <3>1, <3>5
    <3> QED  BY <3>3, <3>4, <3>5
  <2> QED  BY <2>1, <2>2
<1>5. TypeOK'
  <2>1. /\ scanned' \in [Callers -> 0..Len(Order)]
        /\ seen' \in [Callers -> SUBSET Clients]
    <3>1. 0 \in 0..Len(Order)
      BY FailoverAssumption
    <3> QED  BY <3>1, <1>1, <1>2 DEF TypeOK
  <2>2. /\ at' \in [Callers -> {"new", "scan", "choose", "rpc", "demote", "gauge"} \cup Returned]
        /\ chosen' \in [Callers -> Readers \cup {NoClient}]
        /\ passed' \in [Callers -> SUBSET Clients]
    <3>1. CASE seen[q] = {} /\ at' = [at EXCEPT ![q] = "unavailable"]
               /\ UNCHANGED <<chosen, passed>>
      BY <3>1, <1>2 DEF TypeOK, Returned
    <3>2. ASSUME NEW free \in SUBSET seen[q], NEW c \in seen[q],
                 at' = [at EXCEPT ![q] = "rpc"],
                 passed' = [passed EXCEPT ![q] = seen[q] \ free],
                 chosen' = [chosen EXCEPT ![q] = c]
          PROVE  /\ at' \in [Callers -> {"new", "scan", "choose", "rpc", "demote", "gauge"}
                                         \cup Returned]
                 /\ chosen' \in [Callers -> Readers \cup {NoClient}]
                 /\ passed' \in [Callers -> SUBSET Clients]
      <4>1. c \in Readers /\ seen[q] \ free \in SUBSET Clients
        BY <1>2 DEF Readers
      <4> QED  BY <4>1, <3>2, <1>2 DEF TypeOK
    <3> QED  BY <3>1, <3>2, <1>4
  <2> QED  BY <2>1, <2>2, <1>1, <1>2 DEF TypeOK
<1>6. FlagInv'
  BY <1>1 DEF IInv, FlagInv
<1>7. ScanInv'
  <2> SUFFICES ASSUME NEW p \in Callers
               PROVE  /\ at'[p] # "scan" => seen'[p] = {} /\ scanned'[p] = 0
                      /\ seen'[p] \subseteq Readers
                      /\ seen'[p] \cap demoted'[p] = {}
                      /\ \A i \in 1..scanned'[p] :
                           Order[i] \in EligibleClients(steady'[p], kind'[p], FALSE)
                             => Order[i] \in seen'[p]
    BY DEF ScanInv
  <2>1. CASE p = q
    <3>1. seen'[q] = {} /\ scanned'[q] = 0
      BY <1>1, <1>2 DEF TypeOK
    <3> QED  BY <2>1, <3>1
  <2>2. CASE p # q
    BY <2>2, <1>1, <1>2, <1>4 DEF IInv, ScanInv, TypeOK
  <2> QED  BY <2>1, <2>2
<1>8. ChosenInv'
  BY <1>1, <1>2, <1>4 DEF IInv, ChosenInv, TypeOK
<1>9. NoBlindRetry'
  BY <1>1, <1>2, <1>4 DEF IInv, NoBlindRetry, TypeOK
<1>10. SelectionRespectsPriority'
  <2> SUFFICES ASSUME NEW p \in Callers, at'[p] = "rpc",
                      NEW d \in Preferred(p, EligibleClients(steady[p], kind[p], FALSE))
                                  \ passed'[p]
               PROVE  chosen'[p] \notin passed'[p] /\ Rank(chosen'[p]) <= Rank(d)
    BY <1>1 DEF SelectionRespectsPriority, Preferred
  <2>1. CASE p # q
    BY <2>1, <1>1, <1>2, <1>4 DEF IInv, SelectionRespectsPriority, TypeOK
  <2>2. CASE p = q
    <3>1. PICK free \in SUBSET seen[q], c \in seen[q] :
            /\ passed'[q] = seen[q] \ free
            /\ chosen'[q] = c
            /\ Preferred(q, free) # {} => c = FirstOf(Preferred(q, free))
      BY <2>2, <1>2, <1>4 DEF TypeOK
    <3>2. d \in Preferred(q, free)
      BY <2>2, <3>1, <1>3 DEF Preferred
    <3>3. Preferred(q, free) \subseteq Clients /\ Preferred(q, free) \subseteq free
      BY <1>2 DEF Preferred, Readers
    <3>4. c \in Preferred(q, free) /\ Rank(c) <= Rank(d)
      BY <3>1, <3>2, <3>3, FirstOfIsFirst
    <3> QED  BY <2>2, <3>1, <3>3, <3>4
  <2> QED  BY <2>1, <2>2
<1>11. UnavailableMeansNone'
  BY <1>1, <1>2, <1>3, <1>4 DEF IInv, UnavailableMeansNone, TypeOK
<1> QED  BY <1>5, <1>6, <1>7, <1>8, <1>9, <1>10, <1>11 DEF IInv

\* The request returns, or its error is retryable.
LEMMA RequestKeeps == ASSUME IInv, NEW q \in Callers, Request(q) PROVE IInv'
<1>1. /\ at[q] = "rpc"
      /\ steady' = [steady EXCEPT ![q] = {}]
      /\ passed' = [passed EXCEPT ![q] = {}]
      /\ UNCHANGED <<flagVars, kind, scanned, seen, healthVars, envVars>>
  BY DEF Request
<1> USE DEF flagVars, healthVars, envVars
<1>2. TypeOK /\ seen[q] = {} /\ scanned[q] = 0 /\ chosen[q] \in Readers
  BY <1>1 DEF IInv, ScanInv, ChosenInv
<1>3. PICK r \in {"ok", "error", "demote"} :
        /\ at' = [at EXCEPT ![q] = r]
        /\ \/ /\ r # "demote"
              /\ chosen' = [chosen EXCEPT ![q] = NoClient]
              /\ demoted' = [demoted EXCEPT ![q] = {}]
           \/ r = "demote" /\ UNCHANGED <<chosen, demoted>>
  <2>1. CASE \E r \in {"ok", "error"} :
               /\ at' = [at EXCEPT ![q] = r]
               /\ chosen' = [chosen EXCEPT ![q] = NoClient]
               /\ demoted' = [demoted EXCEPT ![q] = {}]
    BY <2>1
  <2>2. CASE at' = [at EXCEPT ![q] = "demote"] /\ UNCHANGED <<chosen, demoted>>
    BY <2>2
  <2> QED  BY <2>1, <2>2 DEF Request
<1>4. /\ demoted'[q] \subseteq demoted[q]
      /\ \A p \in Callers \ {q} : demoted'[p] = demoted[p] /\ chosen'[p] = chosen[p]
  BY <1>2, <1>3 DEF TypeOK
<1>5. TypeOK'
  <2>1. /\ at' \in [Callers -> {"new", "scan", "choose", "rpc", "demote", "gauge"} \cup Returned]
        /\ chosen' \in [Callers -> Readers \cup {NoClient}]
    BY <1>2, <1>3 DEF TypeOK, Returned
  <2>2. /\ steady' \in [Callers -> SUBSET Clients]
        /\ passed' \in [Callers -> SUBSET Clients]
        /\ demoted' \in [Callers -> SUBSET Clients]
    BY <1>1, <1>2, <1>3 DEF TypeOK
  <2> QED  BY <2>1, <2>2, <1>1, <1>2 DEF TypeOK
<1>6. FlagInv'
  <2> SUFFICES ASSUME NEW p \in Callers
               PROVE  demoted'[p] \cap enabled = {} /\ steady'[p] \subseteq enabled
    BY <1>1 DEF FlagInv
  <2>1. CASE p = q
    BY <2>1, <1>1, <1>2, <1>4 DEF IInv, FlagInv, TypeOK
  <2>2. CASE p # q
    BY <2>2, <1>1, <1>2, <1>4 DEF IInv, FlagInv, TypeOK
  <2> QED  BY <2>1, <2>2
<1>7. ScanInv'
  <2> SUFFICES ASSUME NEW p \in Callers
               PROVE  /\ at'[p] # "scan" => seen[p] = {} /\ scanned[p] = 0
                      /\ seen[p] \subseteq Readers
                      /\ seen[p] \cap demoted'[p] = {}
                      /\ \A i \in 1..scanned[p] :
                           Order[i] \in EligibleClients(steady'[p], kind[p], FALSE)
                             => Order[i] \in seen[p]
    BY <1>1 DEF ScanInv
  <2>1. CASE p = q
    BY <2>1, <1>2
  <2>2. CASE p # q
    BY <2>2, <1>1, <1>2, <1>3, <1>4 DEF IInv, ScanInv, TypeOK
  <2> QED  BY <2>1, <2>2
<1>8. ChosenInv'
  BY <1>2, <1>3 DEF IInv, ChosenInv, TypeOK
<1>9. NoBlindRetry' /\ UnavailableMeansNone'
  BY <1>1, <1>2, <1>3, <1>4 DEF IInv, NoBlindRetry, UnavailableMeansNone, TypeOK
<1>10. SelectionRespectsPriority'
  BY <1>1, <1>2, <1>3, <1>4 DEF IInv, SelectionRespectsPriority, Preferred, TypeOK
<1> QED  BY <1>5, <1>6, <1>7, <1>8, <1>9, <1>10 DEF IInv

-----------------------------------------------------------------------------
(* The writes of a flag and of a gauge.                                    *)

\* Under a write of a flag the clients that stay steady are some of those that
\* were, and all of them are enabled.
LEMMA StoreKeepsSteady ==
  ASSUME TypeOK, NEW c \in Clients, NEW on \in BOOLEAN, StoreFlag(c, on), StillSteady
  PROVE  /\ enabled' \subseteq Clients
         /\ steady' \in [Callers -> SUBSET Clients]
         /\ \A p \in Callers :
              /\ steady'[p] \subseteq steady[p] \cap enabled'
              /\ \A k : EligibleClients(steady'[p], k, FALSE)
                          \subseteq EligibleClients(steady[p], k, FALSE)
<1>1. enabled' \subseteq Clients
  BY DEF StoreFlag, TypeOK
<1>2. \A p \in Callers : steady'[p] = steady[p] \cap enabled'
  BY DEF StillSteady
<1>3. steady' \in [Callers -> SUBSET Clients]
  BY <1>1 DEF StillSteady, TypeOK
<1> QED  BY <1>1, <1>2, <1>3, EligibleReaders

\* A demotion clears the flag.
LEMMA DemoteKeeps == ASSUME IInv, NEW q \in Callers, Demote(q) PROVE IInv'
<1>1. /\ at[q] = "demote"
      /\ StoreFlag(chosen[q], FALSE) /\ StillSteady
      /\ demoted' = [demoted EXCEPT ![q] = @ \cup {chosen[q]}]
      /\ at' = [at EXCEPT ![q] = "gauge"]
      /\ UNCHANGED <<gauge, kind, scanned, seen, chosen, healthVars, envVars, passed>>
  BY DEF Demote
<1> USE DEF healthVars, envVars
<1>2. TypeOK /\ seen[q] = {} /\ scanned[q] = 0 /\ chosen[q] \in Readers
  BY <1>1 DEF IInv, ScanInv, ChosenInv
<1>3. chosen[q] \in Clients
  BY <1>2 DEF Readers
<1>4. /\ enabled' \subseteq Clients
      /\ steady' \in [Callers -> SUBSET Clients]
      /\ \A p \in Callers :
           /\ steady'[p] \subseteq steady[p] \cap enabled'
           /\ \A k : EligibleClients(steady'[p], k, FALSE)
                       \subseteq EligibleClients(steady[p], k, FALSE)
  BY <1>1, <1>2, <1>3, StoreKeepsSteady
<1>5. enabled' = enabled \ {chosen[q]}
  BY <1>1 DEF StoreFlag
<1>6. /\ demoted'[q] = demoted[q] \cup {chosen[q]}
      /\ \A p \in Callers \ {q} : demoted'[p] = demoted[p] /\ at'[p] = at[p]
      /\ at'[q] = "gauge"
  BY <1>1, <1>2 DEF TypeOK
<1>7. TypeOK'
  <2>1. at' \in [Callers -> {"new", "scan", "choose", "rpc", "demote", "gauge"} \cup Returned]
    BY <1>1, <1>2 DEF TypeOK
  <2>2. demoted' \in [Callers -> SUBSET Clients]
    <3>1. demoted[q] \cup {chosen[q]} \in SUBSET Clients
      BY <1>2, <1>3 DEF TypeOK
    <3> QED  BY <3>1, <1>1, <1>2 DEF TypeOK
  <2> QED  BY <2>1, <2>2, <1>1, <1>2, <1>4 DEF TypeOK
<1>8. FlagInv'
  <2> SUFFICES ASSUME NEW p \in Callers
               PROVE  demoted'[p] \cap enabled' = {} /\ steady'[p] \subseteq enabled'
    BY DEF FlagInv
  <2>1. demoted[p] \cap enabled = {}
    BY DEF IInv, FlagInv
  <2> QED  BY <2>1, <1>4, <1>5, <1>6
<1>9. ScanInv'
  <2> SUFFICES ASSUME NEW p \in Callers
               PROVE  /\ at'[p] # "scan" => seen[p] = {} /\ scanned[p] = 0
                      /\ seen[p] \subseteq Readers
                      /\ seen[p] \cap demoted'[p] = {}
                      /\ \A i \in 1..scanned[p] :
                           Order[i] \in EligibleClients(steady'[p], kind[p], FALSE)
                             => Order[i] \in seen[p]
    BY <1>1 DEF ScanInv
  <2>1. CASE p = q
    BY <2>1, <1>2
  <2>2. CASE p # q
    BY <2>2, <1>4, <1>6 DEF IInv, ScanInv
  <2> QED  BY <2>1, <2>2
<1>10. ChosenInv' /\ NoBlindRetry' /\ UnavailableMeansNone'
  <2> SUFFICES ASSUME NEW p \in Callers
               PROVE  /\ at'[p] \in {"rpc", "demote", "gauge"} => chosen[p] \in Readers
                      /\ at'[p] = "rpc" => chosen[p] \notin demoted'[p]
                      /\ at'[p] = "unavailable" =>
                           EligibleClients(steady'[p], kind[p], FALSE) = {}
    BY <1>1 DEF ChosenInv, NoBlindRetry, UnavailableMeansNone
  <2>1. CASE p = q
    BY <2>1, <1>2, <1>6
  <2>2. CASE p # q
    BY <2>2, <1>4, <1>6 DEF IInv, ChosenInv, NoBlindRetry, UnavailableMeansNone
  <2> QED  BY <2>1, <2>2
<1>11. SelectionRespectsPriority'
  <2> SUFFICES ASSUME NEW p \in Callers, at'[p] = "rpc",
                      NEW d \in Preferred(p, EligibleClients(steady'[p], kind[p], FALSE))
                                  \ passed[p]
               PROVE  chosen[p] \notin passed[p] /\ Rank(chosen[p]) <= Rank(d)
    BY <1>1 DEF SelectionRespectsPriority, Preferred
  <2>1. p # q /\ at[p] = "rpc"
    BY <1>6
  <2>2. d \in Preferred(p, EligibleClients(steady[p], kind[p], FALSE)) \ passed[p]
    BY <1>4 DEF Preferred
  <2> QED  BY <2>1, <2>2 DEF IInv, SelectionRespectsPriority
<1> QED  BY <1>7, <1>8, <1>9, <1>10, <1>11 DEF IInv

\* A health check writes the flag; if it sets it, no call has disabled the client.
LEMMA HealthFlagKeeps == ASSUME IInv, NEW c \in Readers, HealthFlag(c) PROVE IInv'
<1>1. /\ StoreFlag(c, verdict[c]) /\ StillSteady
      /\ demoted' = [q \in Callers |-> IF verdict[c] THEN demoted[q] \ {c} ELSE demoted[q]]
      /\ health' = [health EXCEPT ![c] = "gauge"]
      /\ UNCHANGED <<gauge, at, kind, scanned, seen, chosen, verdict, stopped, closed,
                     envVars, passed>>
  BY DEF HealthFlag, callVars
<1> USE DEF envVars
<1>2. TypeOK /\ verdict[c] \in BOOLEAN /\ c \in Clients
  BY DEF IInv, TypeOK, Readers
<1>3. /\ enabled' \subseteq Clients
      /\ steady' \in [Callers -> SUBSET Clients]
      /\ \A p \in Callers :
           /\ steady'[p] \subseteq steady[p] \cap enabled'
           /\ \A k : EligibleClients(steady'[p], k, FALSE)
                       \subseteq EligibleClients(steady[p], k, FALSE)
  BY <1>1, <1>2, StoreKeepsSteady
<1>4. ASSUME NEW p \in Callers
      PROVE  demoted'[p] \subseteq demoted[p] /\ demoted'[p] \cap enabled' = {}
  <2>1. demoted[p] \cap enabled = {}
    BY DEF IInv, FlagInv
  <2>2. CASE verdict[c]
    BY <2>1, <2>2, <1>1 DEF StoreFlag
  <2>3. CASE ~verdict[c]
    BY <2>1, <2>3, <1>1 DEF StoreFlag
  <2> QED  BY <2>2, <2>3
<1>5. TypeOK'
  <2>1. health' \in [Readers -> {"rpc", "flag", "gauge", "wait", "exited"}]
    BY <1>1, <1>2 DEF TypeOK
  <2>2. demoted' \in [Callers -> SUBSET Clients]
    BY <1>1, <1>2 DEF TypeOK
  <2> QED  BY <2>1, <2>2, <1>1, <1>2, <1>3 DEF TypeOK
<1>6. FlagInv'
  BY <1>3, <1>4 DEF FlagInv
<1>7. ScanInv'
  BY <1>1, <1>3, <1>4 DEF IInv, ScanInv
<1>8. ChosenInv' /\ NoBlindRetry' /\ UnavailableMeansNone'
  BY <1>1, <1>3, <1>4 DEF IInv, ChosenInv, NoBlindRetry, UnavailableMeansNone
<1>9. SelectionRespectsPriority'
  <2> SUFFICES ASSUME NEW p \in Callers, at[p] = "rpc",
                      NEW d \in Preferred(p, EligibleClients(steady'[p], kind[p], FALSE))
                                  \ passed[p]
               PROVE  chosen[p] \notin passed[p] /\ Rank(chosen[p]) <= Rank(d)
    BY <1>1 DEF SelectionRespectsPriority, Preferred
  <2>1. d \in Preferred(p, EligibleClients(steady[p], kind[p], FALSE)) \ passed[p]
    BY <1>3 DEF Preferred
  <2> QED  BY <2>1 DEF IInv, SelectionRespectsPriority
<1> QED  BY <1>5, <1>6, <1>7, <1>8, <1>9 DEF IInv

\* Steps that leave the calls, the flags and the histories alone keep all of the
\* invariant but, perhaps, the types.
LEMMA QuietStepKeeps ==
  ASSUME IInv, TypeOK', UNCHANGED <<enabled, callVars, histVars>>
  PROVE  IInv'
<1> USE DEF callVars, histVars
<1>1. FlagInv' /\ ScanInv' /\ ChosenInv'
  BY DEF IInv, FlagInv, ScanInv, ChosenInv
<1>2. NoBlindRetry' /\ SelectionRespectsPriority' /\ UnavailableMeansNone'
  BY DEF IInv, NoBlindRetry, SelectionRespectsPriority, UnavailableMeansNone, Preferred
<1> QED  BY <1>1, <1>2 DEF IInv

\* A demotion ends with the gauge, and the call starts over.
LEMMA DemoteGaugeKeeps == ASSUME IInv, NEW q \in Callers, DemoteGauge(q) PROVE IInv'
<1>1. /\ at[q] = "gauge" /\ gauge' = gauge \ {chosen[q]}
      /\ at' = [at EXCEPT ![q] = "new"]
      /\ chosen' = [chosen EXCEPT ![q] = NoClient]
      /\ UNCHANGED <<enabled, kind, scanned, seen, healthVars, envVars, histVars>>
  BY DEF DemoteGauge, SetGauge
<1> USE DEF healthVars, envVars, histVars
<1>2. TypeOK /\ seen[q] = {} /\ scanned[q] = 0
  BY <1>1 DEF IInv, ScanInv
<1>3. TypeOK'
  BY <1>1, <1>2 DEF TypeOK
<1>4. at'[q] = "new" /\ \A p \in Callers \ {q} : at'[p] = at[p] /\ chosen'[p] = chosen[p]
  BY <1>1, <1>2 DEF TypeOK
<1>5. FlagInv' /\ ScanInv' /\ ChosenInv'
  BY <1>1, <1>2, <1>4 DEF IInv, FlagInv, ScanInv, ChosenInv
<1>6. NoBlindRetry' /\ SelectionRespectsPriority' /\ UnavailableMeansNone'
  BY <1>1, <1>4 DEF IInv, NoBlindRetry, SelectionRespectsPriority, UnavailableMeansNone,
                    Preferred
<1> QED  BY <1>3, <1>5, <1>6 DEF IInv

-----------------------------------------------------------------------------
(* The other steps of the health goroutines, Close and the providers.      *)

\* The health goroutine's steps other than the write of the flag.
LEMMA HealthKeeps ==
  ASSUME IInv, NEW c \in Readers,
         HealthRpc(c) \/ HealthGauge(c) \/ HealthTick(c) \/ HealthStop(c)
  PROVE  IInv'
<1>1. TypeOK
  BY DEF IInv
<1>2. CASE HealthRpc(c)
  <2>1. Healthy(c) \in BOOLEAN
    BY DEF Healthy
  <2>2. /\ verdict' = [verdict EXCEPT ![c] = Healthy(c)]
        /\ health' = [health EXCEPT ![c] = "flag"]
        /\ UNCHANGED <<flagVars, callVars, stopped, closed, envVars, histVars>>
    BY <1>2 DEF HealthRpc
  <2>3. verdict' \in [Readers -> BOOLEAN]
    BY <2>1, <2>2, <1>1, Zenon DEF TypeOK
  <2>4. health' \in [Readers -> {"rpc", "flag", "gauge", "wait", "exited"}]
    BY <2>2, <1>1 DEF TypeOK
  <2>5. TypeOK'
    BY <2>2, <2>3, <2>4, <1>1 DEF TypeOK, flagVars, callVars, envVars, histVars
  <2> QED  BY <2>2, <2>5, QuietStepKeeps DEF flagVars
<1>3. CASE HealthGauge(c)
  <2>1. /\ gauge' \in {gauge \cup {c}, gauge \ {c}}
        /\ verdict' = [verdict EXCEPT ![c] = FALSE]
        /\ health' = [health EXCEPT ![c] = "wait"]
        /\ UNCHANGED <<enabled, callVars, stopped, closed, envVars, histVars>>
    BY <1>3 DEF HealthGauge, SetGauge
  <2>2. gauge' \subseteq Clients
    BY <2>1, <1>1 DEF TypeOK, Readers
  <2>3. verdict' \in [Readers -> BOOLEAN]
    BY <2>1, <1>1, Zenon DEF TypeOK
  <2>4. health' \in [Readers -> {"rpc", "flag", "gauge", "wait", "exited"}]
    BY <2>1, <1>1 DEF TypeOK
  <2>5. TypeOK'
    BY <2>1, <2>2, <2>3, <2>4, <1>1 DEF TypeOK, callVars, envVars, histVars
  <2> QED  BY <2>1, <2>5, QuietStepKeeps
<1>4. CASE HealthTick(c) \/ HealthStop(c)
  <2>1. /\ \E s \in {"rpc", "exited"} : health' = [health EXCEPT ![c] = s]
        /\ UNCHANGED <<flagVars, callVars, verdict, stopped, closed, envVars, histVars>>
    BY <1>4 DEF HealthTick, HealthStop
  <2>2. TypeOK'
    BY <2>1, <1>1 DEF TypeOK, flagVars, callVars, envVars, histVars
  <2> QED  BY <2>1, <2>2, QuietStepKeeps DEF flagVars
<1> QED  BY <1>2, <1>3, <1>4

\* The steps of Close and of the providers.
LEMMA OthersKeep ==
  ASSUME IInv,
         CloseStopped \/ CloseNext \/ (\E c \in Readers : ProviderChanges(c))
           \/ UNCHANGED vars
  PROVE  IInv'
<1>1. TypeOK /\ Len(Order) \in Nat /\ MaxChanges \in Nat
  BY FailoverAssumption DEF IInv
<1> USE DEF flagVars, callVars, healthVars, envVars, histVars
<1>2. CASE CloseStopped
  <2>1. TypeOK'
    BY <1>1, <1>2 DEF CloseStopped, TypeOK
  <2> QED  BY <2>1, <1>2, QuietStepKeeps DEF CloseStopped
<1>3. CASE CloseNext
  <2>1. TypeOK'
    BY <1>1, <1>3 DEF CloseNext, TypeOK
  <2> QED  BY <2>1, <1>3, QuietStepKeeps DEF CloseNext
<1>4. CASE \E c \in Readers : ProviderChanges(c)
  <2>1. PICK c \in Readers : ProviderChanges(c)
    BY <1>4
  <2>2. TypeOK'
    BY <1>1, <2>1 DEF ProviderChanges, TypeOK
  <2> QED  BY <2>1, <2>2, QuietStepKeeps DEF ProviderChanges
<1>5. CASE UNCHANGED vars
  <2>1. TypeOK'
    BY <1>1, <1>5 DEF vars, TypeOK
  <2> QED  BY <2>1, <1>5, QuietStepKeeps DEF vars
<1> QED  BY <1>2, <1>3, <1>4, <1>5

-----------------------------------------------------------------------------
(* The theorems.                                                           *)

\* The invariant holds in every reachable state.
THEOREM Inductive == Spec => []IInv
<1>1. IInv /\ [Next]_vars => IInv'
  <2> SUFFICES ASSUME IInv, [Next]_vars PROVE IInv'
    OBVIOUS
  <2>1. CASE \E q \in Callers : CallerStep(q)
    <3>1. PICK q \in Callers : CallerStep(q)
      BY <2>1
    <3> QED  BY <3>1, BeginScanKeeps, ScanNextKeeps, ChooseKeeps, RequestKeeps,
                DemoteKeeps, DemoteGaugeKeeps DEF CallerStep
  <2>2. CASE \E c \in Readers : HealthStep(c) \/ HealthStop(c)
    <3>1. PICK c \in Readers : HealthStep(c) \/ HealthStop(c)
      BY <2>2
    <3> QED  BY <3>1, HealthKeeps, HealthFlagKeeps DEF HealthStep
  <2>3. CASE CloseStopped \/ CloseNext \/ (\E c \in Readers : ProviderChanges(c))
               \/ Terminated \/ UNCHANGED vars
    BY <2>3, OthersKeep DEF Terminated
  <2> QED  BY <2>1, <2>2, <2>3 DEF Next
<1> QED  BY IInvInit, <1>1, PTL DEF Spec

\* Every variable keeps its type.
THEOREM TypeCorrect == Spec => []TypeOK
<1>1. IInv => TypeOK
  BY DEF IInv
<1> QED  BY Inductive, <1>1, PTL

\* CallContext never goes back to a client it has disabled before someone has
\* found the client healthy.
THEOREM NoBlindRetryHolds == Spec => []NoBlindRetry
<1>1. IInv => NoBlindRetry
  BY DEF IInv
<1> QED  BY Inductive, <1>1, PTL

\* getRpcClient passes over no suitable client that was enabled throughout the
\* scan and free, except for one that precedes it.
THEOREM SelectionRespectsPriorityHolds == Spec => []SelectionRespectsPriority
<1>1. IInv => SelectionRespectsPriority
  BY DEF IInv
<1> QED  BY Inductive, <1>1, PTL

\* ErrNoAvailableClients is returned only if no suitable client was enabled
\* throughout the scan.
THEOREM UnavailableMeansNoneHolds == Spec => []UnavailableMeansNone
<1>1. IInv => UnavailableMeansNone
  BY DEF IInv
<1> QED  BY Inductive, <1>1, PTL

-----------------------------------------------------------------------------
(* How Failover fits the modules beside it.                                *)

\* The flags ParallelCall, Broadcast and Dispatch take a snapshot of: calls and
\* health checks write the flags and gauges of readers only.
FlagsFit == enabled \in HealthFlags /\ SendOnly \subseteq gauge

\* Whatever callers, health checks and Close do, the flags are those the other
\* kinds of call start from.
THEOREM FlagsFitHolds == Spec => []FlagsFit
<1> DEFINE I == SendOnly \subseteq enabled \cap gauge
<1>1. Init => I
  <2>1. \A E \in DialledFlags(Clients) : SendOnly \subseteq E
    BY ProvidersAssumption DEF DialledFlags
  <2> QED  BY <2>1 DEF Init
<1>2. I /\ IInv /\ [Next]_vars => I'
  <2> SUFFICES ASSUME I, IInv, [Next]_vars PROVE I'
    OBVIOUS
  <2>1. CASE \E q \in Callers : Demote(q) \/ DemoteGauge(q)
    <3>1. PICK q \in Callers : Demote(q) \/ DemoteGauge(q)
      BY <2>1
    <3>2. chosen[q] \notin SendOnly
      BY <3>1 DEF IInv, ChosenInv, Readers, Demote, DemoteGauge
    <3> QED  BY <3>1, <3>2 DEF Demote, DemoteGauge, StoreFlag, SetGauge
  <2>2. CASE \E c \in Readers : HealthFlag(c) \/ HealthGauge(c)
    <3>1. PICK c \in Readers : HealthFlag(c) \/ HealthGauge(c)
      BY <2>2
    <3> QED  BY <3>1 DEF HealthFlag, HealthGauge, StoreFlag, SetGauge, Readers
  <2>3. CASE UNCHANGED flagVars
    BY <2>3 DEF flagVars
  <2> QED  BY <2>1, <2>2, <2>3 DEF Next, CallerStep, HealthStep, BeginScan, ScanNext, Choose,
              Request, HealthRpc, HealthTick, HealthStop, CloseStopped, CloseNext,
              ProviderChanges, Terminated, vars
<1>3. I /\ IInv => FlagsFit
  <2> SUFFICES ASSUME I, IInv PROVE FlagsFit
    OBVIOUS
  <2>1. enabled = SendOnly \cup (enabled \ SendOnly) /\ enabled \subseteq Clients
    BY DEF IInv, TypeOK
  <2> QED  BY <2>1 DEF FlagsFit, HealthFlags
<1> QED  BY <1>1, <1>2, <1>3, Inductive, PTL DEF Spec

\* Selection and Failover mean the same by the first client of a set.
LEMMA FirstInIsFirstOf ==
  ASSUME NEW S, S \subseteq Clients, S # {}
  PROVE  FirstIn(Order, S) = FirstOf(S)
<1> DEFINE g == FirstOf(S)
<1>1. /\ Order \in Seq(Clients) /\ S \subseteq ToSet(Order)
      /\ Len(Order) \in Nat /\ DOMAIN Order = 1..Len(Order)
  BY FailoverAssumption, LenProperties DEF ToSet
<1>2. PICK f \in 1..Len(Order) : /\ FirstIn(Order, S) = Order[f] /\ Order[f] \in S
                                 /\ \A j \in 1..(f - 1) : Order[j] \notin S
  BY <1>1, FirstInIsFirst
<1>3. g \in S /\ Rank(g) <= Rank(Order[f])
  BY <1>2, FirstOfIsFirst
<1> HIDE DEF g
<1>4. /\ Rank(g) \in 1..Len(Order) /\ Order[Rank(g)] = g
      /\ Rank(Order[f]) \in 1..Len(Order) /\ Order[Rank(Order[f])] = Order[f]
  BY <1>2, <1>3, RankType
<1>5. Rank(Order[f]) = f
  <2>1. \A i, j \in 1..Len(Order) : i < j => Order[i] # Order[j]
    BY <1>1, FailoverAssumption
  <2> HIDE DEF Rank
  <2>2. ~(Rank(Order[f]) < f) /\ ~(f < Rank(Order[f]))
    BY <1>4, <2>1
  <2> QED  BY <1>1, <1>4, <2>2
<1>6. ~(Rank(g) < f)
  BY <1>1, <1>2, <1>3, <1>4
<1>7. Rank(g) = f
  BY <1>1, <1>3, <1>4, <1>5, <1>6
<1> QED  BY <1>2, <1>4, <1>7 DEF g

\* What Choose leaves open covers what getRpcClient computes (Choice): for any
\* loads, any clients that can make a request now, and any candidates of the scan,
\* the client it returns is one that Choose may pick for these clients.
THEOREM ChooseCoversChoice ==
  ASSUME TypeOK, NEW q \in Callers, NEW S, S \subseteq Clients, S # {},
         NEW now, NEW load \in [Clients -> ScoreData], NEW Scale \in Nat \ {0}
  PROVE  LET pool == [order |-> Order, free |-> now, load |-> load, preferHttp |-> PreferHttp]
             free == S \cap now
             c    == Choice(pool, S, kind[q], Scale)
         IN IF Preferred(q, free) # {} THEN c = FirstOf(Preferred(q, free))
            ELSE IF free # {} THEN c = FirstOf(free) ELSE c \in S
<1> DEFINE p == [order |-> Order, free |-> now, load |-> load, preferHttp |-> PreferHttp]
           free == S \cap now
           c == Choice(p, S, kind[q], Scale)
<1>1. /\ p.order = Order /\ p.free = now /\ p.load = load /\ p.preferHttp = PreferHttp
      /\ kind[q] \in BOOLEAN /\ PreferHttp \in BOOLEAN
  BY FailoverAssumption DEF TypeOK
<1>2. Order \in Seq(Clients) /\ ToSet(Order) = Clients /\ SortedByWeight(Order) /\ IsInjective(Order)
  <2>1. Order \in Seq(Clients) /\ DOMAIN Order = 1..Len(Order) /\ Len(Order) \in Nat
    BY FailoverAssumption, LenProperties
  <2>2. ToSet(Order) = Clients
    BY <2>1, FailoverAssumption, ElementOfSeq DEF ToSet
  <2>3. SortedByWeight(Order)
    BY <2>1, FailoverAssumption DEF SortedByWeight
  <2>4. IsInjective(Order)
    BY <2>1, FailoverAssumption DEF IsInjective
  <2> QED  BY <2>1, <2>2, <2>3, <2>4
<1> HIDE DEF p
<1>3. c \in S
  BY <1>1, <1>2, ChoiceHolds
<1>4. Ideal(p, free, kind[q]) = Preferred(q, free)
  BY <1>1 DEF Ideal, Preferred
<1>5. /\ Preferred(q, free) # {} => c = FirstIn(Order, Preferred(q, free))
      /\ Preferred(q, free) = {} /\ free # {} => c = FirstIn(Order, free)
  BY <1>1, <1>4 DEF Choice
<1>6. free \subseteq Clients /\ Preferred(q, free) \subseteq Clients
  BY DEF Preferred
<1> HIDE DEF c, free
<1>7. IF Preferred(q, free) # {} THEN c = FirstOf(Preferred(q, free))
      ELSE IF free # {} THEN c = FirstOf(free) ELSE c \in S
  <2>1. CASE Preferred(q, free) # {}
    BY <1>5, <1>6, <2>1, FirstInIsFirstOf
  <2>2. CASE Preferred(q, free) = {} /\ free # {}
    BY <1>5, <1>6, <2>2, FirstInIsFirstOf
  <2>3. CASE Preferred(q, free) = {} /\ free = {}
    BY <1>3, <2>3
  <2> QED  BY <2>1, <2>2, <2>3
<1> QED  BY <1>7 DEF c, free, p
=============================================================================
