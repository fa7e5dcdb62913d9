------------------------- MODULE ParallelCallProofs -------------------------
(***************************************************************************)
(* The safety properties of ParallelCall, for every set of providers, all  *)
(* weights and every interleaving.  TypeOK is inductive by itself; the     *)
(* properties follow from IInv, which TLC checks on a small instance.      *)
(***************************************************************************)
EXTENDS ParallelCall, FiniteSetTheorems, SequenceTheorems, TLAPS

-----------------------------------------------------------------------------
(* Lemmas about the data.                                                  *)

\* There are finitely many weights, and they are numbers.
LEMMA WeightsFinite == IsFiniteSet(Weights) /\ Weights \subseteq Nat
<1>1. Weight \in Surjection(Clients, Weights)
  BY ProvidersAssumption DEF Weights, GroupWeights, Surjection
<1> QED  BY <1>1, FS_Surjection, ProvidersAssumption DEF Weights, GroupWeights

\* A finite nonempty set of numbers has a greatest element: the one with the
\* fewest elements above it.
LEMMA MaxIsGreatest ==
  ASSUME NEW S, S \subseteq Nat, IsFiniteSet(S), S # {}
  PROVE  Max(S) \in S /\ \A y \in S : y <= Max(S)
<1> DEFINE Above(x) == {y \in S : y > x}
           Counts == {Cardinality(Above(x)) : x \in S}
<1>1. \A x \in S : IsFiniteSet(Above(x)) /\ Cardinality(Above(x)) \in Nat
  BY FS_Subset, FS_CardinalityType
<1>2. PICK x \in S : \A y \in S : ~(Cardinality(Above(y)) < Cardinality(Above(x)))
  <2>1. Counts \subseteq Nat /\ Counts # {}
    BY <1>1
  <2>2. PICK n \in Counts : \A m \in Counts : ~(<<m, n>> \in OpToRel(<, Nat))
    BY <2>1, NatLessThanWellFounded, WFMin
  <2> QED  BY <2>1, <2>2 DEF OpToRel
<1>3. ASSUME NEW y \in S, y > x PROVE FALSE
  <2>1. x \in Nat /\ y \in Nat /\ \A z \in S : z \in Nat
    OBVIOUS
  <2>2. Above(y) \subseteq Above(x)
    <3> SUFFICES ASSUME NEW z \in S, z > y PROVE z > x
      OBVIOUS
    <3>1. x \in Nat /\ y \in Nat /\ z \in Nat
      BY <2>1
    <3> QED  BY <3>1, <1>3
  <2>3. y \in Above(x) /\ y \notin Above(y)
    BY <1>3, <2>1
  <2>4. Cardinality(Above(y)) # Cardinality(Above(x))
    BY <2>2, <2>3, <1>1, FS_Subset, Zenon
  <2>5. Cardinality(Above(y)) <= Cardinality(Above(x))
    BY <2>2, <1>1, FS_Subset, Zenon
  <2> HIDE DEF Above
  <2> QED  BY <2>4, <2>5, <1>1, <1>2
<1>4. \A y \in S : y <= x
  BY <1>3
<1> QED  BY <1>4 DEF Max

\* The greatest weight of a nonempty set of weights.
LEMMA CurrentIsHeaviest ==
  ASSUME levels \subseteq Weights, levels # {}
  PROVE  /\ Current \in levels /\ Current \in Weights /\ Current \in Nat
         /\ \A w \in levels : w <= Current
<1>1. IsFiniteSet(levels) /\ levels \subseteq Nat
  BY WeightsFinite, FS_Subset
<1> QED  BY <1>1, MaxIsGreatest, WeightsFinite DEF Current

\* A log without duplicates has at most as many entries as its set of values,
\* and names every value when it has that many.
LEMMA InjectiveLog ==
  ASSUME NEW S, IsFiniteSet(S), NEW U, NEW s \in Seq(U),
         \A i \in 1..Len(s) : s[i] \in S,
         \A i, j \in 1..Len(s) : s[i] = s[j] => i = j
  PROVE  /\ Len(s) <= Cardinality(S)
         /\ Len(s) = Cardinality(S) => \A x \in S : \E i \in 1..Len(s) : s[i] = x
<1> DEFINE n == Len(s)
           f == [i \in 1..n |-> s[i]]
<1>1. n \in Nat /\ Cardinality(1..n) = n
  <2>1. n \in Nat
    BY LenProperties
  <2>2. Cardinality(1..n) = IF 1 > n THEN 0 ELSE n - 1 + 1
    BY <2>1, FS_Interval, 1 \in Int, n \in Int, Zenon
  <2> QED  BY <2>1, <2>2
<1>2. f \in Injection(1..n, S)
  BY DEF Injection, IsInjective
<1>3. n <= Cardinality(S) /\ (n = Cardinality(S) => f \in Surjection(1..n, S))
  BY <1>1, <1>2, FS_Injection
<1> QED  BY <1>3 DEF Surjection

\* Every group of the snapshot is finite.
LEMMA GroupFinite ==
  ASSUME TypeOK, NEW w
  PROVE  /\ IsFiniteSet(Group(clients, w))
         /\ Cardinality(Group(clients, w)) \in Nat
         /\ Group(clients, w) \subseteq Clients
BY ProvidersAssumption, FS_Subset, FS_CardinalityType DEF Group, TypeOK

\* The weight of a client is one of the weights.
LEMMA WeightInWeights == \A c \in Clients : Weight[c] \in Weights
BY DEF Weights, GroupWeights

-----------------------------------------------------------------------------
(* Type correctness.                                                       *)

\* A classified error is a response.
LEMMA AttemptErrorType ==
  ASSUME NEW r \in RawResults, NEW ac
  PROVE  AttemptError(r, ac) \in Responses
BY DEF AttemptError, RawResults, Responses, Cuts

\* The responses waiting in the channels are the clients' responses.
LEMMA BufferedAnswersType ==
  ASSUME TypeOK
  PROVE  BufferedAnswers \subseteq Clients
<1> SUFFICES ASSUME NEW w \in levels, NEW i \in (taken[w] + 1)..Len(buf[w])
             PROVE  buf[w][i] \in Clients
  BY DEF BufferedAnswers, Buffered
<1>1. w \in Weights /\ taken[w] \in Nat /\ buf[w] \in Seq(Clients)
  BY DEF TypeOK
<1>2. Len(buf[w]) \in Nat /\ i \in 1..Len(buf[w])
  BY <1>1, LenProperties
<1> QED  BY <1>1, <1>2, ElementOfSeq

\* The initial state is well typed.
LEMMA TypeInit == Init => TypeOK
BY DEF Init, TypeOK, Returned

\* No step of the call breaks a variable's type.
LEMMA TypeNext == IInv /\ [Next]_vars => TypeOK'
<1> SUFFICES ASSUME IInv, [Next]_vars PROVE TypeOK'
  OBVIOUS
<1> USE DEF coordVars, timeVars, workerVars
<1> TypeOK
  BY DEF IInv
<1>1. ASSUME NEW enabled \in HealthFlags, Dispatch(enabled) PROVE TypeOK'
  <2> DEFINE S == EligibleClients(enabled, FALSE, FALSE)
  <2>1. S \subseteq Clients /\ GroupWeights(S) \subseteq Weights
    BY DEF EligibleClients, GroupWeights, Weights
  <2> QED  BY <1>1, <2>1 DEF Dispatch, TypeOK, Returned
<1>2. ASSUME NEW c \in Clients, Start(c) PROVE TypeOK'
  BY <1>2 DEF Start, TypeOK, DeadlineEnds, CancelEnds, RawResults, Cuts
<1>3. ASSUME NEW c \in Clients, LeaveGate(c) PROVE TypeOK'
  BY <1>3 DEF LeaveGate, TypeOK, RawResults, Cuts
<1>4. ASSUME NEW c \in Clients, Answer(c) PROVE TypeOK'
  BY <1>4 DEF Answer, TypeOK, RawResults
<1>5. ASSUME NEW c \in Clients, Cut(c) PROVE TypeOK'
  BY <1>5 DEF Cut, TypeOK, RawResults
<1>6. ASSUME NEW c \in Clients, Deliver(c) PROVE TypeOK'
  <2>1. AttemptError(raw[c], attemptCtx[c]) \in Responses
    BY <1>6, AttemptErrorType DEF Deliver, IInv, AttemptInv, TypeOK
  <2>2. Append(buf[Weight[c]], c) \in Seq(Clients)
    BY WeightInWeights, AppendProperties DEF TypeOK
  <2> QED  BY <1>6, <2>1, <2>2 DEF Deliver, TypeOK
<1>7. ASSUME NEW c \in Clients, Context(c) PROVE TypeOK'
  BY <1>7 DEF Context, Propagate, Expire, TypeOK, DeadlineEnds, CancelEnds
<1>8. ASSUME Take PROVE TypeOK'
  <2>1. Current \in Weights /\ taken[Current] \in Nat /\ buf[Current] \in Seq(Clients)
    BY <1>8, CurrentIsHeaviest DEF Take, TypeOK
  <2>2. buf[Current][taken[Current] + 1] \in Clients
    BY <1>8, <2>1, LenProperties, ElementOfSeq DEF Take
  <2> QED  BY <1>8, <2>1, <2>2 DEF Take, Return, Returned, CancelEnds, TypeOK
<1>9. ASSUME SkipGroup \/ Abort \/ Fail PROVE TypeOK'
  BY <1>9 DEF SkipGroup, Abort, Fail, Return, Returned, CancelEnds, TypeOK
<1>10. ASSUME Tick \/ CallerCancel PROVE TypeOK'
  BY <1>10 DEF Tick, CallerCancel, CancelEnds, TypeOK
<1>11. ASSUME CallerDeadline PROVE TypeOK'
  BY <1>11, BufferedAnswersType DEF CallerDeadline, TypeOK
<1>12. ASSUME UNCHANGED vars PROVE TypeOK'
  BY <1>12 DEF vars, TypeOK
<1> QED  BY <1>1, <1>2, <1>3, <1>4, <1>5, <1>6, <1>7, <1>8, <1>9, <1>10, <1>11, <1>12
         DEF Next, Worker, Coordinator, Terminated

-----------------------------------------------------------------------------
(* The snapshot and the channels.                                          *)

\* The snapshot of the clients is never revised after the dispatch.
LEMMA SnapshotNext == IInv /\ [Next]_vars => SnapshotInv'
<1> SUFFICES ASSUME IInv, [Next]_vars PROVE SnapshotInv'
  OBVIOUS
<1> USE DEF coordVars, timeVars, workerVars
<1>0. TypeOK /\ SnapshotInv
  BY DEF IInv
<1>1. ASSUME NEW enabled \in HealthFlags, Dispatch(enabled) PROVE SnapshotInv'
  <2>1. EligibleClients(enabled, FALSE, FALSE) \subseteq Clients
    BY DEF EligibleClients
  <2> QED  BY <1>0, <1>1, <2>1 DEF Dispatch, SnapshotInv, TypeOK
<1>2. ASSUME NEW c \in Clients, Worker(c) PROVE SnapshotInv'
  BY <1>0, <1>2 DEF Worker, Start, LeaveGate, Answer, Cut, Deliver, SnapshotInv, TypeOK
<1>3. ASSUME Coordinator PROVE SnapshotInv'
  BY <1>0, <1>3 DEF Coordinator, Take, SkipGroup, Abort, Fail, Return, SnapshotInv
<1>4. ASSUME UNCHANGED <<call, clients, levels, work>> PROVE SnapshotInv'
  BY <1>0, <1>4 DEF SnapshotInv
<1> QED  BY <1>1, <1>2, <1>3, <1>4
         DEF Next, Context, Propagate, Expire, Tick, CallerDeadline, CallerCancel,
             Terminated, vars

\* The members of a group and the log of its channel, as the lemmas need them.
LEMMA ChannelFacts ==
  ASSUME IInv, NEW w \in Weights
  PROVE  /\ taken[w] \in Nat /\ buf[w] \in Seq(Clients) /\ Len(buf[w]) \in Nat
         /\ taken[w] <= Len(buf[w])
         /\ IsFiniteSet(Group(clients, w)) /\ Cardinality(Group(clients, w)) \in Nat
         /\ Len(buf[w]) <= Cardinality(Group(clients, w))
         /\ Len(buf[w]) = Cardinality(Group(clients, w)) =>
              \A c \in Group(clients, w) : \E i \in 1..Len(buf[w]) : buf[w][i] = c
<1>1. taken[w] \in Nat /\ buf[w] \in Seq(Clients) /\ Len(buf[w]) \in Nat
  BY LenProperties DEF IInv, TypeOK
<1>2. /\ taken[w] <= Len(buf[w])
      /\ \A i \in 1..Len(buf[w]) : buf[w][i] \in Group(clients, w)
      /\ \A i, j \in 1..Len(buf[w]) : buf[w][i] = buf[w][j] => i = j
  BY DEF IInv, ChannelInv
<1>3. IsFiniteSet(Group(clients, w)) /\ Cardinality(Group(clients, w)) \in Nat
  BY GroupFinite DEF IInv
<1> HIDE DEF Group
<1> QED  BY <1>1, <1>2, <1>3, InjectiveLog

\* The logs of the channels stay what the workers have sent, once each.
LEMMA ChannelNext == IInv /\ [Next]_vars => ChannelInv'
<1> SUFFICES ASSUME IInv, [Next]_vars, NEW w \in Weights
             PROVE  /\ taken'[w] <= Len(buf'[w])
                    /\ \A i \in 1..Len(buf'[w]) :
                         /\ buf'[w][i] \in Group(clients', w)
                         /\ work'[buf'[w][i]] = "done"
                    /\ \A i, j \in 1..Len(buf'[w]) : buf'[w][i] = buf'[w][j] => i = j
  BY DEF ChannelInv, Weights, Group, GroupWeights
<1> DEFINE Goal == /\ taken'[w] <= Len(buf'[w])
                   /\ \A i \in 1..Len(buf'[w]) :
                        /\ buf'[w][i] \in Group(clients', w)
                        /\ work'[buf'[w][i]] = "done"
                   /\ \A i, j \in 1..Len(buf'[w]) : buf'[w][i] = buf'[w][j] => i = j
<1> USE DEF coordVars, timeVars, workerVars
<1>0. /\ TypeOK /\ taken[w] \in Nat /\ buf[w] \in Seq(Clients) /\ Len(buf[w]) \in Nat
      /\ taken[w] <= Len(buf[w])
      /\ \A i \in 1..Len(buf[w]) : buf[w][i] \in Group(clients, w) /\ work[buf[w][i]] = "done"
      /\ \A i, j \in 1..Len(buf[w]) : buf[w][i] = buf[w][j] => i = j
  BY ChannelFacts DEF IInv, ChannelInv
<1>1. ASSUME NEW enabled \in HealthFlags, Dispatch(enabled) PROVE Goal
  <2>1. Group(clients, w) = {}
    BY <1>1 DEF Dispatch, IInv, SnapshotInv, Group
  <2>2. Len(buf[w]) = 0
    BY <1>0, <2>1
  <2> QED  BY <1>0, <1>1, <2>2 DEF Dispatch
<1>2. ASSUME NEW c \in Clients, work[c] # "done", work' = [work EXCEPT ![c] = work'[c]],
             UNCHANGED <<taken, buf, clients>>
      PROVE  Goal
  BY <1>0, <1>2 DEF TypeOK, Group
<1>3. ASSUME NEW c \in Clients, Deliver(c) PROVE Goal
  <2>1. c \in clients /\ work'[c] = "done" /\ UNCHANGED <<taken, clients>>
    BY <1>3 DEF Deliver, IInv, SnapshotInv, TypeOK
  <2>2. CASE w # Weight[c]
    <3>1. buf'[w] = buf[w]
      BY <1>3, <2>2 DEF Deliver, TypeOK
    <3>2. \A i \in 1..Len(buf[w]) : buf[w][i] # c /\ work'[buf[w][i]] = "done"
      BY <1>0, <1>3 DEF Deliver, TypeOK, Group
    <3> QED  BY <1>0, <2>1, <3>1, <3>2
  <2>3. CASE w = Weight[c]
    <3>1. buf'[w] = Append(buf[w], c) /\ c \in Group(clients, w)
      <4>1. buf' = [buf EXCEPT ![w] = Append(buf[w], c)]
        BY <1>3, <2>3 DEF Deliver
      <4>2. buf \in [Weights -> Seq(Clients)]
        BY <1>0 DEF TypeOK
      <4>3. c \in Group(clients, w)
        BY <2>1, <2>3 DEF Group
      <4> QED  BY <4>1, <4>2, <4>3
    <3>2. /\ Len(buf'[w]) = Len(buf[w]) + 1
          /\ \A i \in 1..Len(buf[w]) : buf'[w][i] = buf[w][i]
          /\ buf'[w][Len(buf[w]) + 1] = c
      BY <3>1, <1>0, AppendProperties
    <3>3. \A i \in 1..Len(buf[w]) : buf[w][i] # c
      BY <1>0, <1>3 DEF Deliver
    <3>4. \A i \in 1..Len(buf[w]) : work'[buf[w][i]] = "done"
      BY <1>0, <1>3 DEF Deliver, TypeOK, Group
    <3>5. \A i \in 1..Len(buf'[w]) : i \in 1..Len(buf[w]) \/ i = Len(buf[w]) + 1
      BY <3>2, <1>0
    <3> HIDE DEF Group
    <3> QED  BY <1>0, <2>1, <3>1, <3>2, <3>3, <3>4, <3>5
  <2> QED  BY <2>2, <2>3
<1>4. ASSUME Take PROVE Goal
  <2>1. Current \in Weights
    BY <1>0, <1>4, CurrentIsHeaviest DEF Take, TypeOK
  <2>2. taken'[w] <= Len(buf[w])
    BY <1>0, <1>4, <2>1 DEF Take, TypeOK
  <2> QED  BY <1>0, <1>4, <2>2 DEF Take
<1>5. ASSUME UNCHANGED <<taken, buf, clients, work>> PROVE Goal
  BY <1>0, <1>5
<1>6. ASSUME NEW c \in Clients, Start(c) \/ LeaveGate(c) \/ Answer(c) \/ Cut(c) PROVE Goal
  BY <1>0, <1>6, <1>2 DEF Start, LeaveGate, Answer, Cut, TypeOK
<1> QED  BY <1>1, <1>3, <1>4, <1>5, <1>6
         DEF Next, Worker, Context, Propagate, Expire, Tick, CallerDeadline, CallerCancel,
             Coordinator, SkipGroup, Abort, Fail, Terminated, vars

\* No response is lost between its worker and its channel.
LEMMA DeliveredNext == IInv /\ [Next]_vars => DeliveredInv'
<1> SUFFICES ASSUME IInv, [Next]_vars PROVE DeliveredInv'
  OBVIOUS
<1> USE DEF coordVars, timeVars, workerVars
<1>0. TypeOK /\ DeliveredInv
  BY DEF IInv
<1>1. ASSUME NEW enabled \in HealthFlags, Dispatch(enabled) PROVE DeliveredInv'
  BY <1>1 DEF Dispatch, DeliveredInv
<1>2. ASSUME NEW c \in Clients, Start(c) \/ LeaveGate(c) \/ Answer(c) \/ Cut(c)
      PROVE  DeliveredInv'
  <2>1. UNCHANGED <<call, clients, buf>>
    BY <1>2 DEF Start, LeaveGate, Answer, Cut
  <2>2. \A d \in Clients : work'[d] = "done" => work[d] = "done"
    BY <1>0, <1>2 DEF Start, LeaveGate, Answer, Cut, TypeOK
  <2> QED  BY <1>0, <2>1, <2>2 DEF DeliveredInv
<1>3. ASSUME NEW c \in Clients, Deliver(c) PROVE DeliveredInv'
  <2>1. UNCHANGED <<call, clients>> /\ work' = [work EXCEPT ![c] = "done"]
        /\ buf' = [buf EXCEPT ![Weight[c]] = Append(@, c)]
    BY <1>3 DEF Deliver
  <2>2. ASSUME NEW d \in Clients, work'[d] = "done"
        PROVE  \E i \in 1..Len(buf'[Weight[d]]) : buf'[Weight[d]][i] = d
    <3> DEFINE w == Weight[d]
    <3>1. w \in Weights /\ buf[w] \in Seq(Clients) /\ Len(buf[w]) \in Nat
      BY WeightInWeights, ChannelFacts
    <3>2. buf'[w] = IF w = Weight[c] THEN Append(buf[w], c) ELSE buf[w]
      BY <1>0, <2>1, <3>1 DEF TypeOK
    <3>3. CASE d = c
      <4>1. Len(buf'[w]) = Len(buf[w]) + 1 /\ buf'[w][Len(buf[w]) + 1] = c
        BY <3>1, <3>2, <3>3, AppendProperties
      <4>2. Len(buf[w]) + 1 \in 1..Len(buf'[w])
        BY <3>1, <4>1
      <4> QED  BY <3>3, <4>1, <4>2
    <3>4. CASE d # c
      <4>1. PICK i \in 1..Len(buf[w]) : buf[w][i] = d
        BY <1>0, <2>1, <2>2, <3>4 DEF DeliveredInv, TypeOK
      <4>2. i \in 1..Len(buf'[w]) /\ buf'[w][i] = buf[w][i]
        BY <3>1, <3>2, <4>1, AppendProperties
      <4> QED  BY <4>1, <4>2
    <3> QED  BY <3>3, <3>4
  <2> QED  BY <1>0, <2>1, <2>2 DEF DeliveredInv
<1>4. ASSUME call' = "selecting" => call = "selecting", UNCHANGED <<clients, work, buf>>
      PROVE  DeliveredInv'
  BY <1>0, <1>4 DEF DeliveredInv
<1> QED  BY <1>1, <1>2, <1>3, <1>4
         DEF Next, Worker, Context, Propagate, Expire, Tick, CallerDeadline, CallerCancel,
             Coordinator, Take, SkipGroup, Abort, Fail, Return, Terminated, vars

-----------------------------------------------------------------------------
(* The attempts.                                                           *)

\* An attempt, its context and its response stay consistent.
LEMMA AttemptNext == IInv /\ [Next]_vars => AttemptInv'
<1> SUFFICES ASSUME IInv, [Next]_vars PROVE AttemptInv'
  OBVIOUS
<1> USE DEF coordVars, timeVars, workerVars
<1>0. TypeOK /\ SnapshotInv /\ AttemptInv /\ OutcomeInv
  BY DEF IInv
<1>1. ASSUME NEW enabled \in HealthFlags, Dispatch(enabled) PROVE AttemptInv'
  <2>1. \A c \in Clients : work[c] = "none" /\ work'[c] \in {"none", "spawned"}
    BY <1>0, <1>1 DEF Dispatch, SnapshotInv
  <2>2. UNCHANGED <<raw, res, attemptCtx, ctx, clock, late>>
    BY <1>1 DEF Dispatch
  <2> QED  BY <1>0, <2>1, <2>2 DEF AttemptInv, Excused, AttemptOverdue
<1>2. ASSUME NEW c \in Clients, Start(c) PROVE AttemptInv'
  BY <1>0, <1>2
     DEF Start, AttemptInv, Excused, TypeOK, OutcomeInv, AttemptOverdue, DeadlineEnds,
         CancelEnds
<1>3. ASSUME NEW c \in Clients, LeaveGate(c) \/ Answer(c) \/ Cut(c) PROVE AttemptInv'
  BY <1>0, <1>3
     DEF LeaveGate, Answer, Cut, Cuts, AttemptInv, Excused, TypeOK, AttemptOverdue
<1>4. ASSUME NEW c \in Clients, Deliver(c) PROVE AttemptInv'
  <2> DEFINE e == AttemptError(raw[c], attemptCtx[c])
  <2>1. raw[c] \in RawResults
    BY <1>0, <1>4 DEF Deliver, AttemptInv, TypeOK
  <2>2. /\ e \in Responses
        /\ e \in {"value", "error"} =>
             \/ raw[c] \in {"value", "error", "closed"}
             \/ raw[c] = "netTimeout" /\ ~AttemptOverdue
        /\ e = "canceled" => attemptCtx[c] \in CancelEnds
        /\ e = "timeout" =>
             \/ raw[c] = "waitLimit"
             \/ raw[c] \in {"ctxErr", "ctxCause"} /\ attemptCtx[c] \in DeadlineEnds
             \/ raw[c] = "netTimeout" /\ AttemptOverdue
    BY <1>0, <2>1
       DEF AttemptError, Responses, RawResults, Cuts, AttemptInv, TypeOK, DeadlineEnds, CancelEnds
  <2>3. /\ work' = [work EXCEPT ![c] = "done"] /\ res' = [res EXCEPT ![c] = e]
        /\ late' = IF raw[c] = "netTimeout" /\ AttemptOverdue THEN late \cup {c} ELSE late
        /\ work[c] = "ended"
        /\ UNCHANGED <<raw, attemptCtx, ctx, clock>>
    BY <1>4 DEF Deliver
  <2> HIDE DEF e
  <2>4. c \notin late
    BY <1>0, <2>3 DEF AttemptInv
  <2>5. /\ e \in {"value", "error"} =>
             \/ raw[c] \in {"value", "error", "closed"}
             \/ raw[c] = "netTimeout" /\ c \notin late'
        /\ e = "timeout" => Excused(c)'
    BY <2>2, <2>3, <2>4 DEF Excused
  <2>6. \A d \in Clients : d # c =>
           /\ work'[d] = work[d] /\ res'[d] = res[d] /\ (d \in late' <=> d \in late)
           /\ Excused(d)' <=> Excused(d)
    BY <1>0, <2>3 DEF TypeOK, Excused
  <2>7. work'[c] = "done" /\ res'[c] = e
    BY <1>0, <2>3 DEF TypeOK
  <2> QED  BY <1>0, <2>2, <2>3, <2>5, <2>6, <2>7 DEF AttemptInv, Responses, AttemptOverdue
<1>5. ASSUME NEW c \in Clients, Context(c) PROVE AttemptInv'
  BY <1>0, <1>5
     DEF Context, Propagate, Expire, AttemptInv, Excused, TypeOK, OutcomeInv,
         AttemptOverdue, DeadlineEnds, CancelEnds
<1>6. ASSUME ctx' = ctx \/ ctx = "live", UNCHANGED <<workerVars, clock>> PROVE AttemptInv'
  BY <1>0, <1>6 DEF AttemptInv, Excused, AttemptOverdue, CancelEnds
<1>7. ASSUME Tick PROVE AttemptInv'
  BY <1>0, <1>7 DEF Tick, AttemptInv, Excused, AttemptOverdue, TypeOK
<1> QED  BY <1>1, <1>2, <1>3, <1>4, <1>5, <1>6, <1>7
         DEF Next, Worker, CallerDeadline, CallerCancel, Coordinator, Take, SkipGroup,
             Abort, Fail, Return, Terminated, vars

-----------------------------------------------------------------------------
(* What the coordinator has heard.                                         *)

\* The response the coordinator is about to receive.
LEMMA TakeFacts ==
  ASSUME IInv, Take
  PROVE  LET w == Current
             n == taken[w] + 1
             c == buf[w][n]
         IN /\ w \in Weights /\ w \in levels /\ w \in Nat
            /\ \A v \in levels : v <= w
            /\ n \in 1..Len(buf[w])
            /\ c \in Clients /\ c \in clients /\ Weight[c] = w
            /\ work[c] = "done" /\ res[c] # "none"
<1> DEFINE w == Current
           n == taken[w] + 1
<1>1. w \in Weights /\ w \in levels /\ w \in Nat /\ \A v \in levels : v <= w
  BY CurrentIsHeaviest DEF IInv, TypeOK, Take
<1>2. n \in 1..Len(buf[w])
  BY <1>1, ChannelFacts DEF Take
<1>3. buf[w][n] \in Group(clients, w) /\ work[buf[w][n]] = "done"
  BY <1>1, <1>2 DEF IInv, ChannelInv
<1> QED  BY <1>1, <1>2, <1>3 DEF Group, IInv, TypeOK, AttemptInv

\* Once the last response of a group is received, every member has been heard.
LEMMA LastResponse ==
  ASSUME IInv, NEW w \in Weights, taken[w] + 1 <= Len(buf[w]), GroupRead(w, taken[w] + 1)
  PROVE  /\ taken[w] + 1 = Len(buf[w])
         /\ \A c \in Group(clients, w) : \E i \in 1..(taken[w] + 1) : buf[w][i] = c
BY ChannelFacts DEF GroupRead

\* What the coordinator has left behind are timeouts it has collected.
LEMMA HeardNext == IInv /\ [Next]_vars => HeardInv'
<1> SUFFICES ASSUME IInv, [Next]_vars PROVE HeardInv'
  OBVIOUS
<1> USE DEF coordVars, timeVars, workerVars
<1>0. TypeOK /\ SnapshotInv /\ AttemptInv /\ HeardInv
  BY DEF IInv
<1>1. ASSUME NEW enabled \in HealthFlags, Dispatch(enabled) PROVE HeardInv'
  <2>1. clients = {} /\ failures = {} /\ UNCHANGED <<failures, taken, buf>>
    BY <1>0, <1>1 DEF Dispatch, SnapshotInv, HeardInv
  <2>2. \A w \in Weights : Group(clients, w) = {} /\ Len(buf[w]) \in Nat
    BY <2>1, ChannelFacts DEF Group
  <2>3. \A w \in Weights : Len(buf[w]) = 0
    <3>1. ChannelInv
      BY DEF IInv
    <3> QED  BY <2>2, <3>1 DEF ChannelInv
  <2>4. \A w \in Weights : 1..taken[w] = {}
    BY <2>3, ChannelFacts
  <2>5. \A c \in clients' : Weight[c] \in levels'
    BY <1>1 DEF Dispatch, GroupWeights
  <2> QED  BY <2>1, <2>4, <2>5 DEF HeardInv
<1>2. ASSUME NEW c \in Clients, Start(c) \/ LeaveGate(c) \/ Answer(c) \/ Cut(c) \/ Context(c)
      PROVE  HeardInv'
  BY <1>0, <1>2 DEF Start, LeaveGate, Answer, Cut, Context, Propagate, Expire, HeardInv
<1>3. ASSUME NEW c \in Clients, Deliver(c) PROVE HeardInv'
  <2>1. \A w \in Weights : \A i \in 1..taken[w] : buf'[w][i] = buf[w][i]
    <3> SUFFICES ASSUME NEW i \in 1..taken[Weight[c]]
                 PROVE  Append(buf[Weight[c]], c)[i] = buf[Weight[c]][i]
      BY <1>0, <1>3, WeightInWeights DEF Deliver, TypeOK
    <3> QED  BY WeightInWeights, ChannelFacts, AppendProperties
  <2>2. res[c] = "none" /\ \A d \in Clients : d # c => res'[d] = res[d]
    BY <1>0, <1>3 DEF Deliver, AttemptInv, TypeOK
  <2>3. UNCHANGED <<call, clients, levels, taken, failures, ctx>>
    BY <1>3 DEF Deliver
  <2>4. failures' \subseteq {d \in clients' : res'[d] = "timeout"}
    <3> SUFFICES ASSUME NEW d \in failures PROVE d \in clients /\ res'[d] = "timeout"
      BY <2>3
    <3>1. d \in clients /\ d \in Clients /\ res[d] = "timeout"
      BY <1>0 DEF HeardInv, TypeOK
    <3> QED  BY <2>2, <3>1
  <2>5. call = "selecting" => \A w \in Weights : \A i \in 1..taken[w] : buf'[w][i] \in failures
    BY <1>0, <2>1 DEF HeardInv
  <2>6. ctx # "callerDeadline" => \A d \in clients : Weight[d] \in levels \/ d \in failures
    BY <1>0 DEF HeardInv
  <2> QED  BY <2>3, <2>4, <2>5, <2>6 DEF HeardInv
<1>4. ASSUME Take PROVE HeardInv'
  <2> DEFINE w == Current
             n == taken[w] + 1
             c == buf[w][n]
  <2>0. /\ w \in Weights /\ n \in 1..Len(buf[w]) /\ n \in Nat /\ taken[w] \in Nat
        /\ c \in clients /\ c \in Clients
        /\ taken' = [taken EXCEPT ![w] = n] /\ UNCHANGED <<clients, buf, res>>
    BY <1>4, TakeFacts, ChannelFacts DEF Take
  <2>1. CASE IsTimeout(c)
    <3>1. /\ failures' = failures \cup {c} /\ UNCHANGED <<call, ctx>>
          /\ levels' = IF GroupRead(w, n) THEN levels \ {w} ELSE levels
      BY <1>4, <2>1 DEF Take
    <3>2. \A v \in Weights : \A i \in 1..taken'[v] :
             i \in 1..taken[v] \/ (v = w /\ i = n)
      BY <1>0, <2>0 DEF TypeOK
    <3>3. call = "selecting"
      BY <1>4 DEF Take
    <3>4. \A v \in Weights : \A i \in 1..taken'[v] : buf[v][i] \in failures'
      BY <1>0, <3>1, <3>2, <3>3 DEF HeardInv
    <3>5. GroupRead(w, n) => \A d \in Group(clients, w) : d \in failures'
      BY <2>0, <3>4, LastResponse, <1>0 DEF TypeOK
    <3>6. failures' \subseteq {d \in clients : res[d] = "timeout"}
      BY <1>0, <2>0, <2>1, <3>1 DEF HeardInv, IsTimeout
    <3>7. ctx # "callerDeadline" => \A d \in clients : Weight[d] \in levels' \/ d \in failures'
      BY <1>0, <3>1, <3>5 DEF HeardInv, Group
    <3> QED  BY <2>0, <3>1, <3>4, <3>6, <3>7 DEF HeardInv
  <2>2. CASE ~IsTimeout(c)
    BY <1>0, <1>4, <2>0, <2>2 DEF Take, Return, HeardInv
  <2> QED  BY <2>1, <2>2
<1>5. ASSUME SkipGroup PROVE HeardInv'
  BY <1>0, <1>5 DEF SkipGroup, HeardInv
<1>6. ASSUME Abort \/ Fail PROVE HeardInv'
  BY <1>0, <1>6 DEF Abort, Fail, Return, HeardInv
<1>7. ASSUME Tick \/ CallerDeadline \/ CallerCancel PROVE HeardInv'
  BY <1>0, <1>7 DEF Tick, CallerDeadline, CallerCancel, HeardInv
<1>8. ASSUME UNCHANGED vars PROVE HeardInv'
  BY <1>0, <1>8 DEF vars, HeardInv
<1> QED  BY <1>1, <1>2, <1>3, <1>4, <1>5, <1>6, <1>7, <1>8
         DEF Next, Worker, Coordinator, Terminated

-----------------------------------------------------------------------------
(* What was buffered at the caller's deadline.                             *)

\* The answers that were ripe at the deadline stay within its reach.
LEMMA RipeNext == IInv /\ [Next]_vars => RipeInv'
<1> SUFFICES ASSUME IInv, [Next]_vars PROVE RipeInv'
  OBVIOUS
<1> USE DEF coordVars, timeVars, workerVars
<1>0. TypeOK /\ SnapshotInv /\ AttemptInv /\ RipeInv
  BY DEF IInv
<1>1. ASSUME NEW enabled \in HealthFlags, Dispatch(enabled) PROVE RipeInv'
  BY <1>0, <1>1 DEF Dispatch, RipeInv
<1>2. ASSUME NEW c \in Clients, Start(c) \/ LeaveGate(c) \/ Answer(c) \/ Cut(c) \/ Context(c)
      PROVE  RipeInv'
  BY <1>0, <1>2
     DEF Start, LeaveGate, Answer, Cut, Context, Propagate, Expire, RipeInv, Buffered
<1>3. ASSUME NEW c \in Clients, Deliver(c) PROVE RipeInv'
  <2>1. ASSUME NEW w \in Weights, NEW i \in (taken[w] + 1)..Len(buf[w])
        PROVE  /\ i \in (taken'[w] + 1)..Len(buf'[w]) /\ buf'[w][i] = buf[w][i]
               /\ res'[buf[w][i]] = res[buf[w][i]]
    <3>1. /\ taken[w] \in Nat /\ Len(buf[w]) \in Nat /\ buf[w] \in Seq(Clients)
          /\ i \in 1..Len(buf[w])
      BY <2>1, ChannelFacts
    <3>2. work[buf[w][i]] = "done" /\ buf[w][i] \in Clients
      BY <3>1, ElementOfSeq DEF IInv, ChannelInv
    <3>3. /\ work[c] # "done" /\ taken' = taken /\ res' = [res EXCEPT ![c] = res'[c]]
      BY <1>0, <1>3 DEF Deliver, TypeOK
    <3>4. buf'[w] = buf[w] \/ buf'[w] = Append(buf[w], c)
      BY <1>0, <1>3 DEF Deliver, TypeOK
    <3>5. i \in 1..Len(buf'[w]) /\ Len(buf'[w]) \in Nat /\ buf'[w][i] = buf[w][i]
      BY <3>1, <3>4, AppendProperties
    <3> QED  BY <3>1, <3>2, <3>3, <3>5, <1>0 DEF TypeOK
  <2>2. ASSUME NEW w \in Weights, NEW d \in Buffered(w)
        PROVE  d \in Buffered(w)' /\ res'[d] = res[d]
    BY <2>1, <2>2 DEF Buffered
  <2>3. UNCHANGED <<call, levels, ctx, ripe>>
    BY <1>3 DEF Deliver
  <2>4. \A d \in ripe : d \in Clients /\ Weight[d] \in Weights
    BY <1>0, WeightInWeights DEF TypeOK
  <2> QED  BY <1>0, <2>2, <2>3, <2>4 DEF RipeInv
<1>4. ASSUME Take PROVE RipeInv'
  <2> DEFINE w == Current
             n == taken[w] + 1
             c == buf[w][n]
  <2>0. /\ w \in Weights /\ n \in 1..Len(buf[w]) /\ n \in Nat /\ taken[w] \in Nat
        /\ taken' = [taken EXCEPT ![w] = n] /\ UNCHANGED <<clients, buf, res, ripe>>
        /\ call = "selecting" /\ Len(buf[w]) \in Nat
    BY <1>4, TakeFacts, ChannelFacts DEF Take
  <2>1. CASE IsTimeout(c)
    <3>1. /\ UNCHANGED <<call, ctx>>
          /\ levels' = IF GroupRead(w, n) THEN levels \ {w} ELSE levels
      BY <1>4, <2>1 DEF Take
    <3>2. ASSUME NEW d \in ripe
          PROVE  /\ Weight[d] \in levels' /\ res'[d] # "timeout"
                 /\ d \in Buffered(Weight[d])'
      <4>1. /\ Weight[d] \in levels /\ res[d] # "timeout" /\ d \in Buffered(Weight[d])
        BY <1>0, <2>0, <3>2 DEF RipeInv
      <4>2. CASE Weight[d] # w
        <5>1. taken'[Weight[d]] = taken[Weight[d]]
          BY <1>0, <2>0, <4>1, <4>2 DEF TypeOK
        <5> QED  BY <2>0, <3>1, <4>1, <4>2, <5>1 DEF Buffered
      <4>3. CASE Weight[d] = w
        <5>1. PICK i \in n..Len(buf[w]) : buf[w][i] = d
          BY <4>1, <4>3 DEF Buffered
        <5>2. i # n
          BY <4>1, <5>1, <2>1 DEF IsTimeout
        <5>3. i \in (n + 1)..Len(buf[w]) /\ n < Len(buf[w])
          BY <2>0, <5>1, <5>2
        <5>4. ~GroupRead(w, n)
          BY <2>0, <5>3, LastResponse
        <5>5. taken'[w] = n
          BY <1>0, <2>0 DEF TypeOK
        <5> QED  BY <2>0, <3>1, <4>1, <4>3, <5>1, <5>3, <5>4, <5>5 DEF Buffered
      <4> QED  BY <4>2, <4>3
    <3> QED  BY <1>0, <2>0, <3>1, <3>2 DEF RipeInv
  <2>2. CASE ~IsTimeout(c)
    BY <1>0, <1>4, <2>0, <2>2 DEF Take, Return, RipeInv
  <2> QED  BY <2>1, <2>2
<1>5. ASSUME SkipGroup PROVE RipeInv'
  <2>1. UNCHANGED <<call, taken, buf, res, ripe, ctx>>
    BY <1>5 DEF SkipGroup
  <2>2. \A d \in ripe : Weight[d] \in levels => Weight[d] \in levels' \/ Buffered(Weight[d]) = {}
    BY <1>5 DEF SkipGroup
  <2>3. \A d \in ripe : Buffered(Weight[d])' = Buffered(Weight[d])
    BY <2>1 DEF Buffered
  <2> QED  BY <1>0, <2>1, <2>2, <2>3 DEF RipeInv
<1>6. ASSUME Abort \/ Fail PROVE RipeInv'
  BY <1>0, <1>6 DEF Abort, Fail, Return, RipeInv
<1>7. ASSUME CallerDeadline PROVE RipeInv'
  <2>1. \A w \in Weights : \A d \in Buffered(w) : Weight[d] = w
    <3> SUFFICES ASSUME NEW w \in Weights, NEW i \in (taken[w] + 1)..Len(buf[w])
                 PROVE  Weight[buf[w][i]] = w
      BY DEF Buffered
    <3>1. i \in 1..Len(buf[w])
      BY ChannelFacts
    <3> QED  BY <3>1 DEF IInv, ChannelInv, Group
  <2>2. call = "idle" => ripe' = {}
    BY <1>0, <1>7 DEF CallerDeadline, SnapshotInv, BufferedAnswers
  <2>3. ctx' = "callerDeadline" /\ ripe' = BufferedAnswers
        /\ UNCHANGED <<call, levels, taken, buf, res>>
    BY <1>7 DEF CallerDeadline
  <2>4. \A d \in BufferedAnswers :
           Weight[d] \in levels /\ res[d] # "timeout" /\ d \in Buffered(Weight[d])
    BY <1>0, <2>1 DEF BufferedAnswers, IsTimeout, TypeOK
  <2> QED  BY <2>2, <2>3, <2>4 DEF RipeInv, Buffered
<1>8. ASSUME Tick \/ CallerCancel PROVE RipeInv'
  BY <1>0, <1>8 DEF Tick, CallerCancel, RipeInv, Buffered
<1>9. ASSUME UNCHANGED vars PROVE RipeInv'
  BY <1>0, <1>9 DEF vars, RipeInv, Buffered
<1> QED  BY <1>1, <1>2, <1>3, <1>4, <1>5, <1>6, <1>7, <1>8, <1>9
         DEF Next, Worker, Coordinator, Terminated

-----------------------------------------------------------------------------
(* How the call returns.                                                   *)

\* How the call returned stays consistent with what it has heard.
LEMMA OutcomeNext == IInv /\ [Next]_vars => OutcomeInv'
<1> SUFFICES ASSUME IInv, [Next]_vars PROVE OutcomeInv'
  OBVIOUS
<1> USE DEF coordVars, timeVars, workerVars
<1>0. TypeOK /\ SnapshotInv /\ AttemptInv /\ HeardInv /\ RipeInv /\ OutcomeInv
  BY DEF IInv
<1> USE DEF WeightPriority, DeadlineKeepsBestBuffered, AnswersAreGenuine,
            FailureIsComplete, UncountedOnlyLosers
<1>1. ASSUME NEW enabled \in HealthFlags, Dispatch(enabled) PROVE OutcomeInv'
  BY <1>0, <1>1 DEF Dispatch, OutcomeInv, RipeInv, AttemptOverdue
<1>2. ASSUME NEW c \in Clients, Start(c) \/ LeaveGate(c) \/ Answer(c) \/ Context(c)
      PROVE  OutcomeInv'
  BY <1>0, <1>2
     DEF Start, LeaveGate, Answer, Context, Propagate, Expire, OutcomeInv, AttemptInv,
         SnapshotInv, TypeOK, AttemptOverdue
<1>3. ASSUME NEW c \in Clients, Cut(c) PROVE OutcomeInv'
  <2>1. /\ work[c] = "rpc" /\ res[c] = "none" /\ c \in clients /\ raw' = [raw EXCEPT ![c] = raw'[c]]
        /\ UNCHANGED <<call, clients, winner, failures, ctx, clock, ripe, res, attemptCtx,
                       late>>
    BY <1>0, <1>3 DEF Cut, AttemptInv, SnapshotInv, TypeOK
  <2>2. uncounted' # uncounted => ctx = "superseded" /\ uncounted' = uncounted \cup {c}
    BY <1>0, <1>3 DEF Cut, IsParallelCancellation, AttemptInv, CancelEnds
  <2>3. ctx = "superseded" => call = "answered"
    BY <1>0, <2>1 DEF OutcomeInv, HeardInv
  <2>4. call = "answered" => winner # c
    BY <1>0, <2>1 DEF OutcomeInv
  <2> QED  BY <1>0, <2>1, <2>2, <2>3, <2>4 DEF OutcomeInv, TypeOK, AttemptOverdue
<1>4. ASSUME NEW c \in Clients, Deliver(c) PROVE OutcomeInv'
  <2>1. res[c] = "none" /\ \A d \in Clients : d # c => res'[d] = res[d]
    BY <1>0, <1>4 DEF Deliver, AttemptInv, TypeOK
  <2>2. /\ UNCHANGED <<call, clients, winner, failures, ctx, clock, ripe, raw, uncounted,
                       attemptCtx>>
        /\ \A d \in Clients : d # c => (d \in late' <=> d \in late)
    BY <1>4 DEF Deliver
  <2>3. call = "answered" => winner # c
    BY <1>0, <2>1 DEF OutcomeInv
  <2>4. \A d \in clients : res[d] = "timeout" => res'[d] = "timeout"
    BY <1>0, <2>1 DEF TypeOK
  <2> QED  BY <1>0, <2>1, <2>2, <2>3, <2>4 DEF OutcomeInv, TypeOK, AttemptOverdue
<1>5. ASSUME Take PROVE OutcomeInv'
  <2> DEFINE w == Current
             c == buf[w][taken[w] + 1]
  <2>0. /\ w \in Nat /\ \A v \in levels : v <= w
        /\ c \in clients /\ c \in Clients /\ Weight[c] = w /\ res[c] # "none"
        /\ call = "selecting" /\ ctx \in {"live", "callerDeadline"}
        /\ UNCHANGED <<clients, clock, ripe, res, raw, uncounted, attemptCtx, late>>
    BY <1>5, TakeFacts DEF Take
  <2>1. CASE IsTimeout(c)
    <3>1. UNCHANGED <<call, ctx, winner>>
      BY <1>5, <2>1 DEF Take
    <3> QED  BY <1>0, <2>0, <3>1 DEF OutcomeInv, AttemptOverdue
  <2>2. CASE ~IsTimeout(c)
    <3>1. /\ call' = "answered" /\ winner' = c
          /\ ctx' = IF ctx = "live" THEN "superseded" ELSE ctx
      BY <1>5, <2>2 DEF Take, Return
    <3>2. \A d \in clients : Weight[d] \in Nat
      BY <1>0, ProvidersAssumption DEF TypeOK
    <3>3. ctx # "callerDeadline" =>
            \A d \in clients : Weight[d] > w => res[d] = "timeout"
      BY <1>0, <2>0, <3>2 DEF HeardInv
    <3>4. \A d \in ripe : Weight[d] <= w
      BY <1>0, <2>0 DEF RipeInv
    <3>5. /\ res[c] \in {"value", "error"}
          /\ \/ raw[c] \in {"value", "error"}
             \/ raw[c] = "netTimeout" /\ c \notin late
             \/ raw[c] = "closed" /\ attemptCtx[c] \in DeadlineEnds
      <4>1. attemptCtx[c] \notin CancelEnds
        BY <1>0, <2>0 DEF AttemptInv, CancelEnds
      <4>2. res[c] \in {"value", "error"}
        BY <1>0, <2>0, <2>2, <4>1 DEF IsTimeout, AttemptInv, TypeOK, Responses
      <4> QED  BY <1>0, <2>0, <4>1, <4>2 DEF AttemptInv, TypeOK
    <3>6. uncounted = {}
      BY <1>0, <2>0 DEF OutcomeInv
    <3>7. ctx = "callerDeadline" => AttemptOverdue
      BY <1>0 DEF OutcomeInv
    <3> QED  BY <2>0, <3>1, <3>3, <3>4, <3>5, <3>6, <3>7 DEF OutcomeInv, AttemptOverdue
  <2> QED  BY <2>1, <2>2
<1>6. ASSUME SkipGroup PROVE OutcomeInv'
  BY <1>0, <1>6 DEF SkipGroup, OutcomeInv, AttemptOverdue
<1>7. ASSUME Abort PROVE OutcomeInv'
  BY <1>0, <1>7 DEF Abort, Return, OutcomeInv, RipeInv, AttemptOverdue
<1>8. ASSUME Fail PROVE OutcomeInv'
  <2>1. ripe = {}
    BY <1>0, <1>8 DEF Fail, RipeInv
  <2>2. ctx # "callerDeadline" => failures = clients
    BY <1>0, <1>8 DEF Fail, HeardInv
  <2> QED  BY <1>0, <1>8, <2>1, <2>2 DEF Fail, Return, OutcomeInv, AttemptOverdue
<1>9. ASSUME CallerDeadline \/ CallerCancel \/ Tick PROVE OutcomeInv'
  BY <1>0, <1>9
     DEF CallerDeadline, CallerCancel, Tick, OutcomeInv, AttemptOverdue, TypeOK, RipeInv, Returned
<1>10. ASSUME UNCHANGED vars PROVE OutcomeInv'
  BY <1>0, <1>10 DEF vars, OutcomeInv, AttemptOverdue
<1> QED  BY <1>1, <1>2, <1>3, <1>4, <1>5, <1>6, <1>7, <1>8, <1>9, <1>10
         DEF Next, Worker, Coordinator, Terminated

-----------------------------------------------------------------------------
(* The theorems.                                                           *)

\* The inductive invariant holds initially.
LEMMA IInvInit == Init => IInv
<1> SUFFICES ASSUME Init PROVE IInv
  OBVIOUS
<1>1. TypeOK
  BY TypeInit
<1>2. \A w \in Weights : Len(buf[w]) = 0 /\ taken[w] = 0
  BY DEF Init
<1> QED  BY <1>1, <1>2
         DEF Init, IInv, SnapshotInv, ChannelInv, DeliveredInv, AttemptInv, HeardInv, RipeInv, OutcomeInv,
             CancelEnds, DeadlineEnds, WeightPriority, DeadlineKeepsBestBuffered,
             AnswersAreGenuine, FailureIsComplete, UncountedOnlyLosers, Returned

\* IInv is an inductive invariant of parallelCall.
THEOREM Inductive == Spec => []IInv
<1>1. IInv /\ [Next]_vars => IInv'
  BY TypeNext, SnapshotNext, ChannelNext, DeliveredNext, AttemptNext, HeardNext, RipeNext, OutcomeNext
     DEF IInv
<1> QED  BY IInvInit, <1>1, PTL DEF Spec

\* Every variable of the call keeps its type.
THEOREM TypeCorrect == Spec => []TypeOK
<1>1. IInv => TypeOK
  BY DEF IInv
<1> QED  BY Inductive, <1>1, PTL

\* No lighter provider's response is returned while a heavier one may answer.
THEOREM WeightPriorityHolds == Spec => []WeightPriority
<1>1. IInv => WeightPriority
  BY DEF IInv, OutcomeInv
<1> QED  BY Inductive, <1>1, PTL

\* The caller's deadline loses no answer that was already buffered.
THEOREM DeadlineKeepsBestBufferedHolds == Spec => []DeadlineKeepsBestBuffered
<1>1. IInv => DeadlineKeepsBestBuffered
  BY DEF IInv, OutcomeInv
<1> QED  BY Inductive, <1>1, PTL

\* What is returned ended its attempt by itself; of the ends of a context only a
\* connection closed past a deadline is taken for an answer.
THEOREM AnswersAreGenuineHolds == Spec => []AnswersAreGenuine
<1>1. IInv => AnswersAreGenuine
  BY DEF IInv, OutcomeInv
<1> QED  BY Inductive, <1>1, PTL

\* A call that fails on its own has a timeout of every eligible provider.
THEOREM FailureIsCompleteHolds == Spec => []FailureIsComplete
<1>1. IInv => FailureIsComplete
  BY DEF IInv, OutcomeInv
<1> QED  BY Inductive, <1>1, PTL

\* The coordinator passes over an attempt only when its time was up, as judged
\* when the attempt ended and not when its response is read.
THEOREM OnlyTimeoutsDiscardedHolds == Spec => []OnlyTimeoutsDiscarded
<1>1. IInv => OnlyTimeoutsDiscarded
  BY DEF IInv, HeardInv, AttemptInv, TypeOK, OnlyTimeoutsDiscarded
<1> QED  BY Inductive, <1>1, PTL

\* The metrics hide no error but those of copies that lost.
THEOREM UncountedOnlyLosersHolds == Spec => []UncountedOnlyLosers
<1>1. IInv => UncountedOnlyLosers
  BY DEF IInv, OutcomeInv
<1> QED  BY Inductive, <1>1, PTL

\* A worker's send never blocks: the group's channel has a slot for each.
THEOREM WorkersNeverWaitHolds == Spec => []WorkersNeverWait
<1>1. IInv => WorkersNeverWait
  <2> SUFFICES ASSUME IInv, NEW c \in Clients, work[c] = "ended"
               PROVE  HasRoom(Weight[c])
    BY DEF WorkersNeverWait
  <2> DEFINE w == Weight[c]
  <2>1. w \in Weights /\ c \in Group(clients, w)
    BY WeightInWeights DEF IInv, SnapshotInv, Group
  <2>2. \A i \in 1..Len(buf[w]) : buf[w][i] # c
    BY <2>1 DEF IInv, ChannelInv
  <2>3. Len(buf[w]) < Cardinality(Group(clients, w)) /\ taken[w] \in Nat
        /\ Len(buf[w]) \in Nat /\ Cardinality(Group(clients, w)) \in Nat
    BY <2>1, <2>2, ChannelFacts
  <2> QED  BY <2>3 DEF HasRoom, Capacity
<1> QED  BY Inductive, <1>1, PTL

\* A worker that first runs after the return, or after the end of the caller's
\* context, makes no attempt: the deferred cancel comes before the return.
THEOREM NoLateStartHolds == Spec => NoLateStart
<1>1. IInv /\ [Next]_vars =>
        [\A c \in Clients : (call \in Returned \/ ctx # "live") /\ work[c] = "spawned"
                             => work'[c] \in {"spawned", "ended"}]_vars
  <2> SUFFICES ASSUME IInv, [Next]_vars, NEW c \in Clients,
                      call \in Returned \/ ctx # "live", work[c] = "spawned"
               PROVE  work'[c] \in {"spawned", "ended"}
    OBVIOUS
  <2> USE DEF coordVars, timeVars, workerVars
  <2>0. ctx # "live" /\ TypeOK /\ c \in clients
    BY DEF IInv, OutcomeInv, SnapshotInv, Returned
  <2>1. ASSUME NEW d \in Clients, Worker(d) PROVE work'[c] \in {"spawned", "ended"}
    BY <2>0, <2>1 DEF Worker, Start, LeaveGate, Answer, Cut, Deliver, TypeOK
  <2>2. ASSUME NEW enabled \in HealthFlags, Dispatch(enabled) PROVE FALSE
    BY <2>0, <2>2 DEF Dispatch, IInv, SnapshotInv
  <2>3. ASSUME UNCHANGED work PROVE work'[c] \in {"spawned", "ended"}
    BY <2>3
  <2> QED  BY <2>1, <2>2, <2>3
           DEF Next, Context, Propagate, Expire, Coordinator, Take, SkipGroup, Abort, Fail,
               Tick, CallerDeadline, CallerCancel, Terminated, vars
<1> QED  BY Inductive, <1>1, PTL DEF Spec, NoLateStart

-----------------------------------------------------------------------------
(* The read implements its specification.                                  *)

\* The answers a deadline finds buffered are all those that have been given: a
\* live call has passed over nothing but timeouts.
LEMMA RipeAnswers ==
  ASSUME IInv, ctx = "live"
  PROVE  BufferedAnswers = {c \in clients : Replies[c] = "answer"}
<1>0. TypeOK /\ SnapshotInv /\ DeliveredInv /\ AttemptInv /\ HeardInv /\ OutcomeInv
  BY DEF IInv
<1>1. ASSUME NEW c \in BufferedAnswers PROVE c \in clients /\ Replies[c] = "answer"
  <2>1. PICK w \in levels : c \in Buffered(w)
    BY DEF BufferedAnswers
  <2>2. PICK i \in (taken[w] + 1)..Len(buf[w]) : buf[w][i] = c
    BY <2>1 DEF Buffered
  <2>3. w \in Weights /\ i \in 1..Len(buf[w])
    BY <1>0, <2>2, ChannelFacts DEF TypeOK
  <2>4. c \in clients /\ c \in Clients /\ work[c] = "done"
    BY <1>0, <2>2, <2>3 DEF IInv, ChannelInv, Group, TypeOK
  <2>5. ~IsTimeout(c)
    BY <1>1 DEF BufferedAnswers
  <2> QED  BY <2>4, <2>5 DEF Replies
<1>2. ASSUME NEW c \in clients, Replies[c] = "answer" PROVE c \in BufferedAnswers
  <2> DEFINE w == Weight[c]
  <2>1. c \in Clients /\ work[c] = "done" /\ ~IsTimeout(c) /\ w \in Weights
    BY <1>0, <1>2, WeightInWeights DEF Replies, TypeOK
  <2>2. c \notin failures /\ w \in levels
    BY <1>0, <2>1 DEF HeardInv, IsTimeout
  <2>3. PICK i \in 1..Len(buf[w]) : buf[w][i] = c
    BY <1>0, <2>1 DEF DeliveredInv
  <2>4. call = "selecting"
    <3>1. clients # {} /\ call # "idle"
      BY <1>0 DEF SnapshotInv
    <3> QED  BY <1>0, <3>1 DEF OutcomeInv, TypeOK, Returned
  <2>5. i \notin 1..taken[w]
    BY <1>0, <2>1, <2>2, <2>3, <2>4 DEF HeardInv
  <2>6. taken[w] \in Nat /\ Len(buf[w]) \in Nat
    BY <2>1, ChannelFacts
  <2>7. i \in (taken[w] + 1)..Len(buf[w])
    BY <2>3, <2>5, <2>6
  <2> QED  BY <2>1, <2>2, <2>3, <2>7 DEF BufferedAnswers, Buffered
<1>3. BufferedAnswers \subseteq clients
  BY <1>1
<1> QED  BY <1>1, <1>2, <1>3

\* The end of a copy is its reply, everything else a copy does is hidden.
LEMMA WorkersReply ==
  ASSUME IInv, NEW c \in Clients, Worker(c)
  PROVE  Read!Next \/ UNCHANGED Read!vars
<1> USE DEF coordVars, timeVars
<1>0. TypeOK /\ SnapshotInv
  BY DEF IInv
<1>1. UNCHANGED <<clients, ripe, winner>> /\ Over' = Over /\ Outcome' = Outcome
  BY DEF Worker, Start, LeaveGate, Answer, Cut, Deliver, Over, Outcome
<1>2. CASE Start(c) \/ LeaveGate(c) \/ Answer(c) \/ Cut(c)
  <2>1. res' = res /\ \A d \in Clients : work'[d] = "done" <=> work[d] = "done"
    BY <1>0, <1>2 DEF Start, LeaveGate, Answer, Cut, TypeOK
  <2>2. Replies' = Replies
    BY <2>1 DEF Replies, IsTimeout
  <2> QED  BY <1>1, <2>2 DEF Read!vars
<1>3. CASE Deliver(c)
  <2> DEFINE k == IF res'[c] = "timeout" THEN "timeout" ELSE "answer"
  <2>1. /\ work[c] = "ended" /\ work'[c] = "done"
        /\ \A d \in Clients \ {c} : work'[d] = work[d] /\ res'[d] = res[d]
    BY <1>0, <1>3 DEF Deliver, TypeOK
  <2>2. c \in clients /\ Replies[c] = "pending"
    BY <1>0, <2>1 DEF SnapshotInv, Replies
  <2>3. Replies' = [Replies EXCEPT ![c] = k]
    BY <2>1 DEF Replies, IsTimeout
  <2>4. Read!Reply(c, k)
    BY <1>1, <2>2, <2>3 DEF Read!Reply
  <2> QED  BY <2>4 DEF Read!Next
<1> QED  BY <1>2, <1>3 DEF Worker

\* The coordinator's steps: it passes over timeouts unseen, and it returns as the
\* selection does.
LEMMA CoordinatorReads ==
  ASSUME IInv, Coordinator
  PROVE  Read!Next \/ UNCHANGED Read!vars
<1> USE DEF timeVars, workerVars
<1>0. /\ TypeOK /\ SnapshotInv /\ DeliveredInv /\ AttemptInv /\ HeardInv
      /\ RipeInv /\ OutcomeInv
  BY DEF IInv
<1>1. /\ call = "selecting" /\ clients # {} /\ UNCHANGED <<clients, ripe, work, res>>
      /\ Replies' = Replies
  BY <1>0 DEF Coordinator, Take, SkipGroup, Abort, Fail, DeliveredInv, Replies, IsTimeout
<1>2. Outcome = "none" /\ Read!Pending
  BY <1>1 DEF Outcome, Returned, Read!Pending
<1>3. ctx # "superseded" /\ (ctx' = ctx \/ (ctx = "live" /\ ctx' = "superseded"))
  <2>1. ctx # "superseded"
    BY <1>0, <1>1 DEF OutcomeInv
  <2>2. CASE Take
    BY <2>1, <2>2 DEF Take, Return
  <2>3. CASE SkipGroup
    BY <2>1, <2>3 DEF SkipGroup
  <2>4. CASE Abort \/ Fail
    BY <2>1, <2>4 DEF Abort, Fail, Return
  <2> QED  BY <2>2, <2>3, <2>4 DEF Coordinator
<1>4. Over' = Over /\ (ctx = "live" => Over = "no") /\ (ctx = "callerDeadline" => Over = "deadline")
  BY <1>3 DEF Over
<1>5. \A d \in failures : Replies[d] = "timeout"
  BY <1>0 DEF HeardInv, Replies, AttemptInv, IsTimeout, TypeOK
<1>6. CASE Take
  <2> DEFINE w == Current
             c == buf[w][taken[w] + 1]
  <2>0. /\ w \in Nat /\ \A v \in levels : v <= w
        /\ c \in clients /\ c \in Clients /\ Weight[c] = w /\ work[c] = "done"
    BY <1>6, TakeFacts
  <2>1. CASE IsTimeout(c)
    <3>1. UNCHANGED <<call, winner>>
      BY <1>6, <2>1 DEF Take
    <3> QED  BY <1>1, <1>4, <3>1 DEF Outcome, Read!vars
  <2>2. CASE ~IsTimeout(c)
    <3>1. call' = "answered" /\ winner' = c /\ Outcome' = "answered"
      BY <1>6, <2>2 DEF Take, Return, Outcome, Returned
    <3>2. Replies[c] = "answer"
      BY <2>0, <2>2 DEF Replies
    <3>3. \A d \in clients : Weight[d] \in Nat
      BY <1>0, ProvidersAssumption DEF TypeOK
    <3>4. CASE ctx = "live"
      <4>1. \A d \in clients : Weight[d] > Weight[c] => Replies[d] = "timeout"
        BY <1>0, <1>5, <2>0, <3>3, <3>4 DEF HeardInv
      <4>2. Read!Choose(c)
        BY <1>1, <1>2, <1>4, <2>0, <3>1, <3>2, <3>4, <4>1 DEF Read!Choose
      <4> QED  BY <2>0, <4>2 DEF Read!Next
    <3>5. CASE ctx = "callerDeadline"
      <4>1. \A d \in ripe : Weight[d] <= Weight[c]
        BY <1>0, <1>1, <2>0 DEF RipeInv
      <4>2. Read!Choose(c)
        BY <1>1, <1>2, <1>4, <2>0, <3>1, <3>2, <3>5, <4>1 DEF Read!Choose
      <4> QED  BY <2>0, <4>2 DEF Read!Next
    <3> QED  BY <1>6, <3>4, <3>5 DEF Take
  <2> QED  BY <2>1, <2>2
<1>7. CASE SkipGroup
  BY <1>1, <1>4, <1>7 DEF SkipGroup, Outcome, Read!vars
<1>8. CASE Abort
  <2>1. Over = "cancel" /\ Outcome' = "canceled" /\ winner' = winner
    BY <1>8 DEF Abort, Return, Over, Outcome, Returned
  <2>2. Read!Withdraw
    BY <1>1, <1>2, <1>4, <2>1 DEF Read!Withdraw
  <2> QED  BY <2>2 DEF Read!Next
<1>9. CASE Fail
  <2>1. Outcome' = "failed" /\ winner' = winner /\ levels = {} /\ ctx # "callerCanceled"
    BY <1>9 DEF Fail, Return, Outcome, Returned
  <2>2. CASE ctx = "callerDeadline"
    <3>1. ripe = {}
      BY <1>0, <1>1, <2>1 DEF RipeInv
    <3> QED  BY <1>1, <1>2, <1>4, <2>1, <2>2, <3>1 DEF Read!GiveUp, Read!Next
  <2>3. CASE ctx = "live"
    <3>1. \A d \in clients : Replies[d] = "timeout"
      BY <1>0, <1>5, <2>1, <2>3 DEF HeardInv
    <3> QED  BY <1>1, <1>2, <1>4, <2>1, <2>3, <3>1 DEF Read!GiveUp, Read!Next
  <2> QED  BY <1>0, <1>3, <2>1, <2>2, <2>3 DEF TypeOK, CancelEnds
<1> QED  BY <1>6, <1>7, <1>8, <1>9 DEF Coordinator

\* The caller's context and the clock.
LEMMA ContextsRead ==
  ASSUME IInv, Tick \/ CallerDeadline \/ CallerCancel
  PROVE  Read!Next \/ UNCHANGED Read!vars
<1> USE DEF coordVars, workerVars
<1>1. /\ UNCHANGED <<clients, winner, call, work, res>>
      /\ Replies' = Replies /\ Outcome' = Outcome
  BY DEF Tick, CallerDeadline, CallerCancel, Replies, IsTimeout, Outcome
<1>2. CASE Tick
  BY <1>1, <1>2 DEF Tick, Over, Read!vars
<1>3. ctx = "live" /\ call \in {"idle", "selecting"} => Over = "no" /\ Outcome = "none"
  BY DEF Over, Outcome, Returned
<1>4. CASE CallerDeadline
  <2>1. Over' = "deadline" /\ ripe' = {c \in clients : Replies[c] = "answer"}
    BY <1>4, RipeAnswers DEF CallerDeadline, Over
  <2>2. Read!DeadlineStrikes
    BY <1>1, <1>3, <1>4, <2>1 DEF CallerDeadline, Read!DeadlineStrikes
  <2> QED  BY <2>2 DEF Read!Next
<1>5. CASE CallerCancel
  <2>1. Over' = "cancel" /\ ripe' = ripe
    BY <1>5 DEF CallerCancel, Over
  <2>2. Read!CallerCancels
    BY <1>1, <1>3, <1>5, <2>1 DEF CallerCancel, Read!CallerCancels
  <2> QED  BY <2>2 DEF Read!Next
<1> QED  BY <1>2, <1>4, <1>5

\* The snapshot is the abstract read's question.
LEMMA DispatchAsks ==
  ASSUME IInv, NEW enabled \in HealthFlags, Dispatch(enabled)
  PROVE  Read!Next
<1> DEFINE S == EligibleClients(enabled, FALSE, FALSE)
<1>1. S \in SUBSET Clients
  BY DEF EligibleClients
<1>2. /\ call = "idle" /\ call' = IF S = {} THEN "unavailable" ELSE "selecting"
      /\ clients' = S /\ clients = {} /\ \A c \in Clients : work[c] = "none"
      /\ \A c \in Clients : work'[c] \in {"none", "spawned"}
      /\ UNCHANGED <<winner, ctx, ripe, res>>
  BY DEF Dispatch, IInv, SnapshotInv, timeVars
<1> HIDE DEF S
<1>3. Replies' = Replies /\ Over' = Over
  BY <1>2 DEF Replies, Over, IsTimeout
<1>4. Outcome = "none" /\ Outcome' = IF S = {} THEN "unavailable" ELSE "none"
  BY <1>2 DEF Outcome, Returned
<1>5. Read!Ask(S)
  BY <1>2, <1>3, <1>4 DEF Read!Ask
<1> QED  BY <1>1, <1>5 DEF Read!Next

\* parallelCall implements the weight-ordered selection that PARALLEL_CALLS.md
\* promises: its steps are the selection's, or invisible in it.
THEOREM ImplementsWeightedReadHolds == Spec => ImplementsWeightedRead
<1>1. Init => Read!Init
  BY DEF Init, Read!Init, Replies, Over, Outcome, Returned
<1>2. IInv /\ [Next]_vars => [Read!Next]_(Read!vars)
  <2> SUFFICES ASSUME IInv, [Next]_vars PROVE Read!Next \/ UNCHANGED Read!vars
    OBVIOUS
  <2>1. ASSUME NEW enabled \in HealthFlags, Dispatch(enabled) PROVE Read!Next
    BY <2>1, DispatchAsks
  <2>2. ASSUME NEW c \in Clients, Worker(c) PROVE Read!Next \/ UNCHANGED Read!vars
    BY <2>2, WorkersReply
  <2>3. ASSUME NEW c \in Clients, Context(c) PROVE UNCHANGED Read!vars
    BY <2>3 DEF Context, Propagate, Expire, coordVars, timeVars, Read!vars, Replies, Over,
                Outcome, IsTimeout
  <2>4. CASE UNCHANGED vars
    BY <2>4 DEF vars, coordVars, timeVars, workerVars, Read!vars, Replies, Over, Outcome,
                IsTimeout
  <2> QED  BY <2>1, <2>2, <2>3, <2>4, CoordinatorReads, ContextsRead DEF Next, Terminated
<1> QED  BY <1>1, <1>2, Inductive, PTL DEF Spec, ImplementsWeightedRead, Read!Spec
=============================================================================
