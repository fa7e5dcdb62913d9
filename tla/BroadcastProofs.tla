--------------------------- MODULE BroadcastProofs ---------------------------
(***************************************************************************)
(* Proofs about Broadcast, for any finite set of providers, any weights    *)
(* and any choice of send-only providers.                                  *)
(***************************************************************************)
EXTENDS Broadcast, FiniteSetTheorems, TLAPS

\* The snapshot is a finite set of clients that includes the send-only ones.
LEMMA EligibleFacts ==
  ASSUME NEW enabled \in HealthFlags
  PROVE  LET S == EligibleClients(enabled, FALSE, TRUE) IN
           S \subseteq Clients /\ SendOnly \subseteq S /\ IsFiniteSet(S)
<1> DEFINE S == EligibleClients(enabled, FALSE, TRUE)
<1>1. S \subseteq Clients /\ SendOnly \subseteq S
  BY ProvidersAssumption DEF EligibleClients
<1>2. IsFiniteSet(S)
  BY <1>1, ProvidersAssumption, FS_Subset
<1> QED  BY <1>1, <1>2

\* The initial state satisfies the invariant.
LEMMA IInvInit == Init => IInv
<1> SUFFICES ASSUME Init PROVE IInv
  OBVIOUS
<1>1. {c \in clients : work[c] # "done"} = {}
  BY DEF Init
<1>2. WaitInv
  BY <1>1, FS_EmptySet DEF Init, WaitInv
<1>3. Len(buf) = 0 /\ buf \in Seq(Clients)
  BY DEF Init
<1>4. TypeOK
  BY <1>3 DEF Init, TypeOK, Returned
<1>5. SnapshotInv /\ ChannelInv /\ HeardInv
  BY <1>3 DEF Init, SnapshotInv, ChannelInv, HeardInv
<1>6. NoSendOnClosed /\ FailureMeansNobodyAccepted /\ ReceiverHoldsFirstAcceptance
  BY DEF Init, NoSendOnClosed, FailureMeansNobodyAccepted, ReceiverHoldsFirstAcceptance
<1> QED  BY <1>2, <1>4, <1>5, <1>6 DEF IInv

-----------------------------------------------------------------------------
(* The dispatch.                                                           *)

\* The dispatch establishes the invariant for the snapshot it takes.
LEMMA DispatchKeeps ==
  ASSUME IInv, NEW enabled \in HealthFlags, Dispatch(enabled)
  PROVE  IInv'
<1> DEFINE S == EligibleClients(enabled, FALSE, TRUE)
<1>1. S \subseteq Clients /\ SendOnly \subseteq S /\ IsFiniteSet(S)
  BY EligibleFacts
<1>2. /\ call = "idle" /\ clients' = S /\ wg' = Cardinality(S)
      /\ call' = IF S = {} THEN "unavailable" ELSE "collecting"
      /\ work' = [c \in Clients |-> IF c \in S THEN "running" ELSE "none"]
      /\ UNCHANGED <<taken, failures, result, ctx, outcome, buf, closed>>
  BY DEF Dispatch, WaitCount
<1>3. clients = {} /\ ~closed /\ TypeOK /\ \A c \in Clients : work[c] = "none"
  BY <1>2 DEF IInv, SnapshotInv, TypeOK
<1>4. buf = <<>> /\ Len(buf) = 0 /\ taken = 0 /\ failures = {}
  <2>1. Len(buf) \in Nat /\ \A i \in 1..Len(buf) : FALSE
    BY <1>3 DEF IInv, ChannelInv, TypeOK
  <2>2. Len(buf) = 0
    BY <2>1
  <2>3. buf = <<>>
    BY <2>2, <1>3 DEF TypeOK
  <2> QED  BY <2>2, <2>3, <1>3 DEF IInv, ChannelInv, HeardInv, TypeOK
<1>5. \A c \in Clients : outcome[c] = "none"
  BY <1>3 DEF IInv, SnapshotInv
<1>6. TypeOK'
  <2>1. Cardinality(S) \in Nat
    BY <1>1, FS_CardinalityType
  <2> QED  BY <2>1, <1>1, <1>2, <1>3 DEF TypeOK, Returned
<1>7. SnapshotInv'
  BY <1>1, <1>2, <1>3, <1>5 DEF SnapshotInv
<1>8. ChannelInv' /\ HeardInv'
  BY <1>1, <1>2, <1>4 DEF ChannelInv, HeardInv
<1>9. WaitInv'
  <2>1. {c \in clients' : work'[c] # "done"} = S
    BY <1>1, <1>2
  <2> QED  BY <2>1, <1>2 DEF WaitInv
<1>10. NoSendOnClosed' /\ FailureMeansNobodyAccepted'
  BY <1>2, <1>3 DEF NoSendOnClosed, FailureMeansNobodyAccepted
<1>11. ReceiverHoldsFirstAcceptance'
  <2>1. result = NoClient
    BY <1>2 DEF IInv, ReceiverHoldsFirstAcceptance
  <2> QED  BY <2>1, <1>2 DEF ReceiverHoldsFirstAcceptance
<1> QED  BY <1>6, <1>7, <1>8, <1>9, <1>10, <1>11 DEF IInv

-----------------------------------------------------------------------------
(* The workers.                                                            *)

\* The end of a copy's RPC keeps the invariant, whatever ended it.
LEMMA AnswerKeeps ==
  ASSUME IInv, NEW c \in Clients, Answer(c) \/ Cut(c)
  PROVE  IInv'
<1>1. PICK o \in {"accepted", "rejected", "cut"} :
        /\ work[c] = "running"
        /\ work' = [work EXCEPT ![c] = "answered"]
        /\ outcome' = [outcome EXCEPT ![c] = o]
        /\ UNCHANGED <<callVars, ctx, buf, closed, wg>>
  BY DEF Answer, Cut
<1> USE DEF callVars
<1>2. TypeOK /\ outcome[c] = "none"
  BY <1>1 DEF IInv, SnapshotInv
<1>3. TypeOK'
  BY <1>1, <1>2 DEF TypeOK
<1>4. SnapshotInv'
  BY <1>1, <1>2 DEF IInv, SnapshotInv, TypeOK
<1>5. ChannelInv'
  BY <1>1, <1>2 DEF IInv, ChannelInv, TypeOK
<1>6. WaitInv'
  <2>1. {d \in clients' : work'[d] # "done"} = {d \in clients : work[d] # "done"}
    BY <1>1, <1>2 DEF TypeOK
  <2> QED  BY <2>1, <1>1 DEF IInv, WaitInv
<1>7. HeardInv'
  BY <1>1, <1>2 DEF IInv, HeardInv, TypeOK
<1>8. NoSendOnClosed'
  BY <1>1, <1>2 DEF IInv, NoSendOnClosed, SnapshotInv, TypeOK
<1>9. FailureMeansNobodyAccepted'
  <2>1. call = "failed" => c \notin clients \cup SendOnly
    BY <1>2 DEF IInv, FailureMeansNobodyAccepted
  <2> QED  BY <2>1, <1>1, <1>2 DEF IInv, FailureMeansNobodyAccepted, TypeOK
<1>10. ReceiverHoldsFirstAcceptance'
  <2>1. \A i \in 1..Len(buf) : buf[i] # c
    BY <1>1 DEF IInv, ChannelInv
  <2>2. call = "accepted" => taken \in 1..Len(buf)
    BY DEF IInv, HeardInv
  <2> QED  BY <2>1, <2>2, <1>1, <1>2
           DEF IInv, ReceiverHoldsFirstAcceptance, TypeOK
<1> QED  BY <1>3, <1>4, <1>5, <1>6, <1>7, <1>8, <1>9, <1>10 DEF IInv

\* A response is appended to those sent before.
LEMMA SendResultKeeps ==
  ASSUME IInv, NEW c \in Clients, SendResult(c)
  PROVE  IInv'
<1>1. /\ work[c] = "answered"
      /\ work' = [work EXCEPT ![c] = "sent"]
      /\ buf' = Append(buf, c)
      /\ UNCHANGED <<callVars, ctx, outcome, closed, wg>>
  BY DEF SendResult
<1> USE DEF callVars
<1>2. TypeOK /\ taken \in Nat
  BY DEF IInv, TypeOK
<1>3. /\ buf' \in Seq(Clients) /\ Len(buf) \in Nat /\ Len(buf') = Len(buf) + 1
      /\ \A i \in 1..Len(buf) : buf'[i] = buf[i]
      /\ buf'[Len(buf) + 1] = c
  BY <1>1, <1>2 DEF TypeOK
<1>4. TypeOK'
  BY <1>1, <1>2, <1>3 DEF TypeOK
<1>5. SnapshotInv'
  BY <1>1, <1>2 DEF IInv, SnapshotInv, TypeOK
<1>6. ChannelInv'
  <2>1. \A i \in 1..Len(buf) : buf[i] # c
    BY <1>1 DEF IInv, ChannelInv
  <2>2. \A i \in 1..Len(buf') : i \in 1..Len(buf) \/ i = Len(buf) + 1
    BY <1>3
  <2>3. taken' <= Len(buf')
    BY <1>1, <1>2, <1>3 DEF IInv, ChannelInv
  <2>4. \A i \in 1..Len(buf') : buf'[i] \in Clients /\ work'[buf'[i]] \in {"sent", "done"}
    BY <2>2, <1>1, <1>2, <1>3 DEF IInv, ChannelInv, TypeOK
  <2>5. \A i, j \in 1..Len(buf') : buf'[i] = buf'[j] => i = j
    BY <2>1, <2>2, <1>3 DEF IInv, ChannelInv
  <2>6. ASSUME NEW d \in Clients, work'[d] \in {"sent", "done"}
        PROVE  \E i \in 1..Len(buf') : buf'[i] = d
    <3>1. CASE d = c
      BY <3>1, <1>3
    <3>2. CASE d # c
      <4>1. work[d] \in {"sent", "done"}
        BY <3>2, <2>6, <1>1, <1>2 DEF TypeOK
      <4>2. PICK i \in 1..Len(buf) : buf[i] = d
        BY <4>1 DEF IInv, ChannelInv
      <4>3. i \in 1..Len(buf') /\ buf'[i] = d
        BY <4>2, <1>3
      <4> QED  BY <4>3
    <3> QED  BY <3>1, <3>2
  <2> QED  BY <2>3, <2>4, <2>5, <2>6 DEF ChannelInv
<1>7. WaitInv'
  <2>1. {d \in clients' : work'[d] # "done"} = {d \in clients : work[d] # "done"}
    BY <1>1, <1>2 DEF TypeOK
  <2> QED  BY <2>1, <1>1 DEF IInv, WaitInv
<1>8. taken \in Nat /\ taken <= Len(buf)
  BY <1>2 DEF IInv, ChannelInv
<1>9. \A i \in 1..taken : i \in 1..Len(buf) /\ buf'[i] = buf[i]
  BY <1>3, <1>8
<1>10. HeardInv'
  BY <1>1, <1>3, <1>8, <1>9 DEF IInv, HeardInv
<1>11. NoSendOnClosed' /\ FailureMeansNobodyAccepted'
  BY <1>1, <1>2 DEF IInv, NoSendOnClosed, FailureMeansNobodyAccepted, SnapshotInv, TypeOK
<1>12. ReceiverHoldsFirstAcceptance'
  <2>1. call = "accepted" => taken \in 1..taken /\ \A i \in 1..(taken - 1) : i \in 1..taken
    BY <1>8 DEF IInv, HeardInv
  <2> QED  BY <2>1, <1>1, <1>9 DEF IInv, ReceiverHoldsFirstAcceptance
<1> QED  BY <1>4, <1>5, <1>6, <1>7, <1>10, <1>11, <1>12 DEF IInv

\* wg.Done() takes one worker out of the count.
LEMMA WorkerDoneKeeps ==
  ASSUME IInv, NEW c \in Clients, WorkerDone(c)
  PROVE  IInv'
<1>1. /\ work[c] = "sent"
      /\ work' = [work EXCEPT ![c] = "done"]
      /\ wg' = wg - 1
      /\ UNCHANGED <<callVars, ctx, outcome, buf, closed>>
  BY DEF WorkerDone
<1> USE DEF callVars
<1>2. TypeOK /\ c \in clients
  BY <1>1 DEF IInv, SnapshotInv
<1> DEFINE Busy == {d \in clients : work[d] # "done"}
<1>3. wg' = Cardinality({d \in clients' : work'[d] # "done"}) /\ wg' \in Nat
  <2>1. {d \in clients' : work'[d] # "done"} = Busy \ {c}
    BY <1>1, <1>2 DEF TypeOK
  <2>2. IsFiniteSet(Busy) /\ c \in Busy
    BY <1>1, <1>2, ProvidersAssumption, FS_Subset DEF TypeOK
  <2>3. /\ IsFiniteSet(Busy \ {c})
        /\ Cardinality(Busy \ {c}) = Cardinality(Busy) - 1
    BY <2>2, FS_RemoveElement
  <2>4. Cardinality(Busy \ {c}) \in Nat
    BY <2>3, FS_CardinalityType
  <2> QED  BY <2>1, <2>3, <2>4, <1>1 DEF IInv, WaitInv
<1>4. TypeOK'
  BY <1>1, <1>2, <1>3 DEF TypeOK
<1>5. SnapshotInv'
  BY <1>1, <1>2 DEF IInv, SnapshotInv, TypeOK
<1>6. ChannelInv'
  BY <1>1, <1>2 DEF IInv, ChannelInv, TypeOK
<1>7. WaitInv'
  BY <1>3 DEF WaitInv
<1>8. HeardInv' /\ ReceiverHoldsFirstAcceptance'
  BY <1>1 DEF IInv, HeardInv, ReceiverHoldsFirstAcceptance
<1>9. NoSendOnClosed' /\ FailureMeansNobodyAccepted'
  BY <1>1, <1>2 DEF IInv, NoSendOnClosed, FailureMeansNobodyAccepted, TypeOK
<1> QED  BY <1>4, <1>5, <1>6, <1>7, <1>8, <1>9 DEF IInv

-----------------------------------------------------------------------------
(* The closer and the caller.                                              *)

\* The channel is closed when no worker is left that could send on it.
LEMMA CloseChannelKeeps ==
  ASSUME IInv, CloseChannel
  PROVE  IInv'
<1>1. /\ clients # {} /\ wg = 0 /\ closed' = TRUE
      /\ UNCHANGED <<callVars, ctx, work, outcome, buf, wg>>
  BY DEF CloseChannel, AllDone
<1> USE DEF callVars
<1>2. \A c \in clients : work[c] = "done"
  <2> DEFINE Busy == {d \in clients : work[d] # "done"}
  <2>1. IsFiniteSet(Busy)
    BY ProvidersAssumption, FS_Subset DEF IInv, TypeOK
  <2>2. Cardinality(Busy) = 0
    BY <1>1 DEF IInv, WaitInv
  <2>3. Busy = {}
    BY <2>1, <2>2, FS_EmptySet
  <2> QED  BY <2>3
<1>3. TypeOK' /\ WaitInv'
  BY <1>1 DEF IInv, TypeOK, WaitInv
<1>4. SnapshotInv'
  BY <1>1 DEF IInv, SnapshotInv
<1>5. ChannelInv' /\ HeardInv'
  BY <1>1 DEF IInv, ChannelInv, HeardInv
<1>6. NoSendOnClosed' /\ FailureMeansNobodyAccepted' /\ ReceiverHoldsFirstAcceptance'
  BY <1>1, <1>2 DEF IInv, NoSendOnClosed, FailureMeansNobodyAccepted,
                    ReceiverHoldsFirstAcceptance
<1> QED  BY <1>3, <1>4, <1>5, <1>6 DEF IInv

\* A received response is an acceptance, after failures only, or one more failure.
LEMMA ReceiveKeeps ==
  ASSUME IInv, Receive
  PROVE  IInv'
<1> DEFINE c == buf[taken + 1]
<1>1. /\ call = "collecting" /\ taken < Len(buf) /\ taken' = taken + 1
      /\ UNCHANGED <<clients, ctx, work, outcome, buf, closed, wg>>
      /\ IF outcome[c] = "accepted"
           THEN result' = c /\ call' = "accepted" /\ UNCHANGED failures
           ELSE failures' = failures \cup {c} /\ UNCHANGED <<call, result>>
  BY DEF Receive, HasResponse, IsAcceptance, KeepRest, workerVars
<1>2. TypeOK /\ taken \in Nat /\ Len(buf) \in Nat /\ taken + 1 \in 1..Len(buf)
  BY <1>1 DEF IInv, TypeOK
<1>3. c \in Clients /\ work[c] \in {"sent", "done"}
  BY <1>2 DEF IInv, ChannelInv
<1>4. c \in clients /\ outcome[c] \in {"accepted", "rejected", "cut"}
  BY <1>2, <1>3 DEF IInv, SnapshotInv, TypeOK
<1>5. \A i \in 1..taken : buf[i] \in failures /\ outcome[buf[i]] \in {"rejected", "cut"}
  BY <1>1 DEF IInv, HeardInv
<1>6. result = NoClient /\ NoClient \notin Clients
  BY <1>1, BroadcastAssumption DEF IInv, ReceiverHoldsFirstAcceptance
<1>7. TypeOK'
  BY <1>1, <1>2, <1>3 DEF TypeOK, Returned
<1>8. SnapshotInv' /\ WaitInv' /\ NoSendOnClosed'
  BY <1>1 DEF IInv, SnapshotInv, WaitInv, NoSendOnClosed
<1>9. ChannelInv'
  BY <1>1, <1>2 DEF IInv, ChannelInv
<1>10. HeardInv'
  <2>1. \A i \in 1..taken' : i \in 1..taken \/ i = taken + 1
    BY <1>1, <1>2
  <2>2. CASE outcome[c] = "accepted"
    BY <2>2, <1>1, <1>2 DEF IInv, HeardInv
  <2>3. CASE outcome[c] # "accepted"
    <3>1. \A i \in 1..taken' : buf'[i] \in failures'
      BY <2>1, <2>3, <1>1, <1>5
    <3>2. ASSUME NEW d \in failures' PROVE \E i \in 1..taken' : buf'[i] = d
      <4>1. CASE d = c
        BY <4>1, <1>1, <1>2
      <4>2. CASE d # c
        <5>1. d \in failures
          BY <4>2, <3>2, <2>3, <1>1
        <5>2. PICK i \in 1..taken : buf[i] = d
          BY <5>1, <1>1 DEF IInv, HeardInv
        <5>3. i \in 1..taken' /\ buf'[i] = d
          BY <5>2, <1>1, <1>2
        <5> QED  BY <5>3
      <4> QED  BY <4>1, <4>2
    <3>3. \A d \in failures' : d \in clients' /\ outcome'[d] \in {"rejected", "cut"}
      BY <2>3, <1>1, <1>4 DEF IInv, HeardInv
    <3> QED  BY <3>1, <3>2, <3>3, <2>3, <1>1 DEF HeardInv
  <2> QED  BY <2>2, <2>3
<1>11. FailureMeansNobodyAccepted'
  BY <1>1 DEF FailureMeansNobodyAccepted
<1>12. ReceiverHoldsFirstAcceptance'
  <2>1. CASE outcome[c] = "accepted"
    <3>1. \A i \in 1..(taken' - 1) : i \in 1..taken
      BY <1>1, <1>2
    <3> QED  BY <2>1, <3>1, <1>1, <1>3, <1>5, <1>6 DEF ReceiverHoldsFirstAcceptance
  <2>2. CASE outcome[c] # "accepted"
    BY <2>2, <1>1, <1>6 DEF ReceiverHoldsFirstAcceptance
  <2> QED  BY <2>1, <2>2
<1> QED  BY <1>7, <1>8, <1>9, <1>10, <1>11, <1>12 DEF IInv

\* A drained, closed channel has delivered the failure of every worker.
LEMMA AllFailedKeeps ==
  ASSUME IInv, AllFailed
  PROVE  IInv'
<1>1. /\ call = "collecting" /\ closed /\ taken = Len(buf) /\ call' = "failed"
      /\ UNCHANGED <<clients, taken, failures, result, ctx, work, outcome, buf, closed, wg>>
  BY DEF AllFailed, workerVars
<1>2. TypeOK'
  BY <1>1 DEF IInv, TypeOK, Returned
<1>3. SnapshotInv' /\ ChannelInv'
  BY <1>1 DEF IInv, SnapshotInv, ChannelInv
<1>4. WaitInv' /\ NoSendOnClosed'
  BY <1>1 DEF IInv, WaitInv, NoSendOnClosed
<1>5. HeardInv' /\ ReceiverHoldsFirstAcceptance'
  BY <1>1 DEF IInv, HeardInv, ReceiverHoldsFirstAcceptance
<1>6. FailureMeansNobodyAccepted'
  <2>1. ASSUME NEW c \in clients PROVE c \in failures
    <3>1. c \in Clients /\ work[c] = "done"
      BY <1>1 DEF IInv, NoSendOnClosed, TypeOK
    <3>2. PICK i \in 1..Len(buf) : buf[i] = c
      BY <3>1 DEF IInv, ChannelInv
    <3> QED  BY <3>2, <1>1 DEF IInv, HeardInv
  <2>2. failures = clients /\ SendOnly \subseteq clients
    BY <2>1, <1>1 DEF IInv, HeardInv, SnapshotInv
  <2> QED  BY <2>2, <1>1 DEF IInv, HeardInv, FailureMeansNobodyAccepted
<1> QED  BY <1>2, <1>3, <1>4, <1>5, <1>6 DEF IInv

\* The end of the caller's context and a stutter change nothing else.
LEMMA RestKeeps ==
  ASSUME IInv, CallerEnds \/ UNCHANGED vars
  PROVE  IInv'
<1>1. /\ ctx' \in {"live", "ended"}
      /\ UNCHANGED <<callVars, workerVars>>
  BY DEF CallerEnds, vars, IInv, TypeOK
<1> USE DEF callVars, workerVars
<1>2. TypeOK' /\ SnapshotInv' /\ ChannelInv'
  BY <1>1 DEF IInv, TypeOK, SnapshotInv, ChannelInv
<1>3. WaitInv' /\ HeardInv' /\ NoSendOnClosed'
  BY <1>1 DEF IInv, WaitInv, HeardInv, NoSendOnClosed
<1>4. FailureMeansNobodyAccepted' /\ ReceiverHoldsFirstAcceptance'
  BY <1>1 DEF IInv, FailureMeansNobodyAccepted, ReceiverHoldsFirstAcceptance
<1> QED  BY <1>2, <1>3, <1>4 DEF IInv

-----------------------------------------------------------------------------
(* The theorems.                                                           *)

\* IInv is an inductive invariant of callContextParallel.
THEOREM Inductive == Spec => []IInv
<1>1. ASSUME IInv, [Next]_vars PROVE IInv'
  <2>1. ASSUME NEW enabled \in HealthFlags, Dispatch(enabled) PROVE IInv'
    BY <1>1, <2>1, DispatchKeeps
  <2>2. ASSUME NEW c \in Clients, Worker(c) PROVE IInv'
    BY <1>1, <2>2, AnswerKeeps, SendResultKeeps, WorkerDoneKeeps DEF Worker
  <2>3. CASE CloseChannel
    BY <1>1, <2>3, CloseChannelKeeps
  <2>4. CASE Receive
    BY <1>1, <2>4, ReceiveKeeps
  <2>5. CASE AllFailed
    BY <1>1, <2>5, AllFailedKeeps
  <2>6. CASE CallerEnds \/ Terminated \/ UNCHANGED vars
    BY <1>1, <2>6, RestKeeps DEF Terminated
  <2> QED  BY <1>1, <2>1, <2>2, <2>3, <2>4, <2>5, <2>6 DEF Next
<1> QED  BY IInvInit, <1>1, PTL DEF Spec

\* Every variable of the broadcast keeps its type; the WaitGroup never goes
\* below zero, which would panic.
THEOREM TypeCorrect == Spec => []TypeOK
<1>1. IInv => TypeOK
  BY DEF IInv
<1> QED  BY Inductive, <1>1, PTL

\* A broadcast that fails was accepted by nobody.
THEOREM FailureMeansNobodyAcceptedHolds == Spec => []FailureMeansNobodyAccepted
<1>1. IInv => FailureMeansNobodyAccepted
  BY DEF IInv
<1> QED  BY Inductive, <1>1, PTL

\* The caller's receiver holds the first acceptance that was sent.
THEOREM ReceiverHoldsFirstAcceptanceHolds == Spec => []ReceiverHoldsFirstAcceptance
<1>1. IInv => ReceiverHoldsFirstAcceptance
  BY DEF IInv
<1> QED  BY Inductive, <1>1, PTL

\* No worker can send on the closed channel.
THEOREM NoSendOnClosedHolds == Spec => []NoSendOnClosed
<1>1. IInv => NoSendOnClosed
  BY DEF IInv
<1> QED  BY Inductive, <1>1, PTL
=============================================================================
