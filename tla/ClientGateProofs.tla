-------------------------- MODULE ClientGateProofs --------------------------
(***************************************************************************)
(* The safety of the gate, for any requests and probers, any limits and    *)
(* any order of cancellations: its inductive invariant, and that it keeps  *)
(* the contract of GateContract.                                           *)
(***************************************************************************)
EXTENDS ClientGate, FiniteSetTheorems, SequenceTheorems, TLAPS

-----------------------------------------------------------------------------
(* Lemmas about the line.                                                  *)

\* What LineIsQueue says of a line: its members, each of them once.
Lined(ws, S) ==
  /\ ToSet(ws) = S
  /\ \A i, j \in DOMAIN ws : ws[i] = ws[j] => i = j

\* The head of a line leaves it: the others stay.
LEMMA HeadLeaves ==
  ASSUME NEW T, NEW ws \in Seq(T), NEW S, Lined(ws, S), ws # <<>>
  PROVE  /\ ws[1] \in S /\ ws[1] \in T
         /\ SubSeq(ws, 2, Len(ws)) \in Seq(T)
         /\ Lined(SubSeq(ws, 2, Len(ws)), S \ {ws[1]})
<1> DEFINE t == SubSeq(ws, 2, Len(ws))
<1>1. Len(ws) \in Nat \ {0} /\ DOMAIN ws = 1..Len(ws) /\ \A i \in 1..Len(ws) : ws[i] \in T
  BY EmptySeq, LenProperties, ElementOfSeq
<1>2. t \in Seq(T) /\ Len(t) = Len(ws) - 1 /\ \A i \in 1..Len(t) : t[i] = ws[i + 1]
  BY <1>1, SubSeqProperties
<1>3. DOMAIN t = 1..(Len(ws) - 1)
  BY <1>2, LenProperties
<1>4. \A i, j \in DOMAIN t : t[i] = t[j] => i = j
  BY <1>1, <1>2, <1>3 DEF Lined
<1>5. ToSet(t) = S \ {ws[1]}
  <2>1. ASSUME NEW x \in ToSet(t) PROVE x \in S \ {ws[1]}
    BY <1>1, <1>2, <1>3 DEF Lined, ToSet
  <2>2. ASSUME NEW x \in S \ {ws[1]} PROVE x \in ToSet(t)
    <3>1. PICK i \in DOMAIN ws : x = ws[i]
      BY DEF Lined, ToSet
    <3>2. i - 1 \in DOMAIN t /\ t[i - 1] = x
      BY <1>1, <1>2, <1>3, <3>1
    <3> QED  BY <3>2 DEF ToSet
  <2> QED  BY <2>1, <2>2
<1> QED  BY <1>1, <1>2, <1>4, <1>5 DEF Lined, ToSet

\* Anyone leaves the line: the others stay.
LEMMA OneLeaves ==
  ASSUME NEW T, NEW ws \in Seq(T), NEW S, Lined(ws, S), NEW x \in S
  PROVE  LET rest == RemoveAt(ws, CHOOSE i \in DOMAIN ws : ws[i] = x)
         IN rest \in Seq(T) /\ Lined(rest, S \ {x})
<1> DEFINE k == CHOOSE i \in DOMAIN ws : ws[i] = x
           n == Len(ws)
           a == SubSeq(ws, 1, k - 1)
           b == SubSeq(ws, k + 1, n)
           rest == RemoveAt(ws, k)
<1>1. n \in Nat /\ DOMAIN ws = 1..n /\ \A i \in 1..n : ws[i] \in T
  BY LenProperties, ElementOfSeq
<1>2. k \in 1..n /\ ws[k] = x
  BY <1>1 DEF Lined, ToSet
<1> HIDE DEF k
<1>3. a \in Seq(T) /\ Len(a) = k - 1 /\ \A i \in 1..(k - 1) : a[i] = ws[i]
  <2>1. 1 \in Int /\ k - 1 \in 0..n
    BY <1>1, <1>2
  <2> QED  BY <1>1, <1>2, <2>1, SubSeqProperties
<1>4. b \in Seq(T) /\ Len(b) = n - k /\ \A i \in 1..(n - k) : b[i] = ws[k + i]
  <2>1. k + 1 \in Int /\ n \in Int /\ \A i \in (k + 1)..n : ws[i] \in T
    BY <1>1, <1>2
  <2>2. /\ b \in Seq(T) /\ Len(b) = (IF k + 1 <= n THEN n - (k + 1) + 1 ELSE 0)
        /\ \A i \in 1..(n - (k + 1) + 1) : b[i] = ws[(k + 1) + i - 1]
    BY <2>1, SubSeqProperties
  <2> HIDE DEF b
  <2>3. \A i \in 1..(n - k) : i \in 1..(n - (k + 1) + 1) /\ (k + 1) + i - 1 = k + i
    BY <1>1, <1>2
  <2>4. Len(b) = n - k
    <3>1. Len(b) = IF k + 1 <= n THEN n - (k + 1) + 1 ELSE 0
      BY <2>2
    <3> HIDE DEF n
    <3>2. CASE k < n
      BY <1>1, <1>2, <3>1, <3>2
    <3>3. CASE k = n
      BY <1>1, <1>2, <3>1, <3>3
    <3> QED  BY <1>1, <1>2, <3>2, <3>3
  <2> QED  BY <2>2, <2>3, <2>4
<1>5. rest = a \o b
  BY DEF RemoveAt
<1>6. /\ rest \in Seq(T) /\ Len(rest) = n - 1
      /\ \A i \in 1..(n - 1) : rest[i] = IF i < k THEN ws[i] ELSE ws[i + 1]
  <2> HIDE DEF a, b, rest
  <2>1. /\ a \o b \in Seq(T) /\ Len(a \o b) = Len(a) + Len(b)
        /\ \A i \in 1..(Len(a) + Len(b)) :
             (a \o b)[i] = IF i <= Len(a) THEN a[i] ELSE b[i - Len(a)]
    BY <1>3, <1>4, ConcatProperties
  <2>2. ASSUME NEW i \in 1..(n - 1)
        PROVE  rest[i] = IF i < k THEN ws[i] ELSE ws[i + 1]
    <3>1. CASE i < k
      BY <1>1, <1>2, <1>3, <1>4, <1>5, <2>1, <3>1
    <3>2. CASE ~(i < k)
      <4>1. i - (k - 1) \in 1..(n - k) /\ k + (i - (k - 1)) = i + 1
        BY <1>1, <1>2, <3>2
      <4>2. rest[i] = b[i - (k - 1)]
        BY <1>1, <1>2, <1>3, <1>4, <1>5, <2>1, <3>2
      <4> QED  BY <1>4, <3>2, <4>1, <4>2
    <3> QED  BY <3>1, <3>2
  <2> QED  BY <1>1, <1>2, <1>3, <1>4, <1>5, <2>1, <2>2
<1>7. DOMAIN rest = 1..(n - 1)
  BY <1>6, LenProperties
<1> HIDE DEF rest
<1> HIDE DEF n
<1>7a. \A i \in 1..(n - 1) : \E p \in 1..n :
        rest[i] = ws[p] /\ p # k /\ p = (IF i < k THEN i ELSE i + 1)
  <2> SUFFICES ASSUME NEW i \in 1..(n - 1)
               PROVE  \E p \in 1..n :
                        rest[i] = ws[p] /\ p # k /\ p = (IF i < k THEN i ELSE i + 1)
    OBVIOUS
  <2>1. rest[i] = IF i < k THEN ws[i] ELSE ws[i + 1]
    BY <1>6
  <2>2. CASE i < k
    <3>1. i \in 1..n /\ i # k
      BY <1>1, <1>2, <2>2
    <3> QED  BY <2>1, <2>2, <3>1
  <2>3. CASE ~(i < k)
    <3>1. i + 1 \in 1..n /\ i + 1 # k
      BY <1>1, <1>2, <2>3
    <3> QED  BY <2>1, <2>3, <3>1
  <2> QED  BY <2>2, <2>3
<1>8. \A i, j \in DOMAIN rest : rest[i] = rest[j] => i = j
  <2> SUFFICES ASSUME NEW i \in 1..(n - 1), NEW j \in 1..(n - 1), rest[i] = rest[j]
               PROVE  i = j
    BY <1>7
  <2>1. PICK p \in 1..n : rest[i] = ws[p] /\ p = (IF i < k THEN i ELSE i + 1)
    BY <1>7a
  <2>2. PICK q \in 1..n : rest[j] = ws[q] /\ q = (IF j < k THEN j ELSE j + 1)
    BY <1>7a
  <2>3. p = q
    BY <1>1, <2>1, <2>2 DEF Lined
  <2>4. i \in Int /\ j \in Int /\ k \in Int
    BY <1>1, <1>2
  <2> QED  BY <2>1, <2>2, <2>3, <2>4
<1>9. ToSet(rest) = S \ {x}
  <2>1. ASSUME NEW y \in ToSet(rest) PROVE y \in S \ {x}
    <3>1. PICK i \in 1..(n - 1) : y = rest[i]
      BY <1>7 DEF ToSet
    <3>2. PICK p \in 1..n : y = ws[p] /\ p # k
      BY <1>7a, <3>1
    <3>3. ws[p] \in S /\ ws[p] # ws[k]
      BY <1>1, <1>2, <3>2 DEF Lined, ToSet
    <3> QED  BY <1>2, <3>2, <3>3
  <2>2. ASSUME NEW y \in S \ {x} PROVE y \in ToSet(rest)
    <3>1. PICK i \in 1..n : y = ws[i] /\ i # k
      BY <1>1, <1>2 DEF Lined, ToSet
    <3>2. PICK j \in 1..(n - 1) : j = IF i < k THEN i ELSE i - 1
      BY <1>1, <1>2, <3>1
    <3>3. rest[j] = y
      BY <1>1, <1>2, <1>6, <3>1, <3>2
    <3> QED  BY <1>7, <3>3 DEF ToSet
  <2> QED  BY <2>1, <2>2
<1> QED  BY <1>6, <1>8, <1>9 DEF Lined, rest, k

\* Someone joins the line at its end.
LEMMA OneJoins ==
  ASSUME NEW T, NEW ws \in Seq(T), NEW S, Lined(ws, S), NEW x \in T, x \notin S
  PROVE  Append(ws, x) \in Seq(T) /\ Lined(Append(ws, x), S \cup {x})
<1> DEFINE t == Append(ws, x)
<1>1. Len(ws) \in Nat /\ DOMAIN ws = 1..Len(ws)
  BY LenProperties
<1>2. /\ t \in Seq(T) /\ Len(t) = Len(ws) + 1
      /\ \A i \in 1..Len(ws) : t[i] = ws[i]
      /\ t[Len(ws) + 1] = x
  BY AppendProperties
<1>3. DOMAIN t = 1..(Len(ws) + 1)
  BY <1>2, LenProperties
<1> HIDE DEF t
<1>4. \A i \in 1..Len(ws) : t[i] # x
  BY <1>1, <1>2 DEF Lined, ToSet
<1>5. \A i, j \in DOMAIN t : t[i] = t[j] => i = j
  BY <1>1, <1>2, <1>3, <1>4 DEF Lined
<1>6. ToSet(t) = S \cup {x}
  BY <1>1, <1>2, <1>3 DEF Lined, ToSet
<1> QED  BY <1>2, <1>5, <1>6 DEF Lined, t

-----------------------------------------------------------------------------
(* The semaphore as a function of where everybody is.                      *)

LineOf(state) == {q \in Requests : state[q] = "queue"}

HoldersOf(state, pr) ==
  {q \in Requests : Counted /\ state[q] \in {"granted", "rpc"}}
    \cup {p \in Probers : pr[p] = "holding"}

CountedAt(state) ==
  {q \in Requests :
     state[q] \in {"limiter", "promised", "sem", "queue", "granted", "rpc", "released"}}

\* The conjuncts of IInv about the semaphore, for c permits given out and ws waiting.
SemInv(c, ws, state, pr) ==
  /\ c \in Nat /\ ws \in Seq(Requests)
  /\ c = Cardinality(HoldersOf(state, pr)) /\ (Counted => c <= MaxConcurrency)
  /\ ws # <<>> => c = MaxConcurrency
  /\ Lined(ws, LineOf(state))
  /\ Counted \/ (ws = <<>> /\ \A p \in Probers : pr[p] # "holding")

\* The conjunct about the counter.
CountInv(n, state) == n = Cardinality(CountedAt(state))

\* The rest of TypeOK.
LimInv ==
  /\ over \subseteq Requests
  /\ tokens \in Int /\ tokens <= RateLimit
  /\ due \in [Requests -> Int] /\ lastDue \in Int
  /\ sent \in Seq(Nat) /\ Len(sent) = RateLimit

\* The inductive invariant, taken apart along these lines.
LEMMA Split ==
  IInv <=> /\ at \in [Requests -> States] /\ probe \in [Probers -> {"idle", "holding", "yes", "no"}]
           /\ queued \in Nat /\ LimInv
           /\ CountInv(queued, at) /\ SemInv(cur, waiters, at, probe)
BY DEF IInv, TypeOK, QueuedCounts, PermitsHeld, NobodyStranded, LineIsQueue, UnlimitedIdle,
       LimInv, CountInv, SemInv, Lined, LineOf, HoldersOf, CountedAt, InFlight, Holders

LEMMA SplitNext ==
  IInv' <=> /\ at' \in [Requests -> States] /\ probe' \in [Probers -> {"idle", "holding", "yes", "no"}]
            /\ queued' \in Nat /\ LimInv'
            /\ CountInv(queued', at') /\ SemInv(cur', waiters', at', probe')
BY DEF IInv, TypeOK, QueuedCounts, PermitsHeld, NobodyStranded, LineIsQueue, UnlimitedIdle,
       LimInv, CountInv, SemInv, Lined, LineOf, HoldersOf, CountedAt, InFlight, Holders

\* Holders, and counted requests, are finitely many.
LEMMA Finite ==
  ASSUME NEW state, NEW pr
  PROVE  /\ IsFiniteSet(HoldersOf(state, pr)) /\ IsFiniteSet(CountedAt(state))
         /\ Cardinality(CountedAt(state)) \in Nat
         /\ Cardinality(CountedAt(state)) < Word
         /\ \A S \in SUBSET Requests : IsFiniteSet(S)
<1>1. IsFiniteSet(Requests \cup Probers) /\ IsFiniteSet(Requests)
  BY FS_Union, GateAssumption
<1>2. HoldersOf(state, pr) \subseteq Requests \cup Probers /\ CountedAt(state) \subseteq Requests
  BY DEF HoldersOf, CountedAt
<1>3. IsFiniteSet(HoldersOf(state, pr)) /\ IsFiniteSet(CountedAt(state))
  BY <1>1, <1>2, FS_Subset
<1>4. /\ Cardinality(CountedAt(state)) \in Nat /\ Cardinality(Requests) \in Nat
      /\ Cardinality(CountedAt(state)) <= Cardinality(Requests)
  BY <1>1, <1>2, <1>3, FS_Subset, FS_CardinalityType
<1>5. \A S \in SUBSET Requests : IsFiniteSet(S)
  BY <1>1, FS_Subset
<1> QED  BY <1>3, <1>4, <1>5, GateAssumption

\* A request that is counted for the first time, and one that is counted no more.
LEMMA CountUp ==
  ASSUME NEW state \in [Requests -> States], NEW q \in Requests, NEW n \in Nat,
         CountInv(n, state), NEW s \in States, NEW m,
         CountedAt([state EXCEPT ![q] = s]) = CountedAt(state) \cup {q},
         q \notin CountedAt(state),
         m = IF n + 1 = Word THEN 0 ELSE n + 1
  PROVE  CountInv(m, [state EXCEPT ![q] = s]) /\ m \in Nat
<1> DEFINE S == CountedAt(state)
           new == [state EXCEPT ![q] = s]
<1>1. IsFiniteSet(S) /\ Cardinality(CountedAt(new)) < Word
  BY Finite
<1>2. Cardinality(CountedAt(new)) = n + 1
  BY <1>1, FS_AddElement DEF CountInv
<1> QED  BY <1>1, <1>2, GateAssumption DEF CountInv

LEMMA CountDown ==
  ASSUME NEW state \in [Requests -> States], NEW q \in Requests, NEW n \in Nat,
         CountInv(n, state), NEW new \in [Requests -> States], NEW m,
         CountedAt(new) = CountedAt(state) \ {q}, q \in CountedAt(state),
         m = IF n = 0 THEN Word - 1 ELSE n - 1
  PROVE  CountInv(m, new) /\ m \in Nat
<1> DEFINE S == CountedAt(state)
<1>1. IsFiniteSet(S) /\ Cardinality(S) \in Nat
  BY Finite
<1>2. Cardinality(S \ {q}) = Cardinality(S) - 1 /\ Cardinality(S \ {q}) \in Nat
  BY <1>1, FS_RemoveElement, FS_CardinalityType
<1>3. n # 0
  BY <1>2 DEF CountInv
<1> QED  BY <1>2, <1>3 DEF CountInv

\* Where a semaphore's permits and line do not change, neither does its invariant.
LEMMA SemSame ==
  ASSUME NEW c, NEW ws, NEW state, NEW new, NEW pr, NEW pr2, SemInv(c, ws, state, pr),
         LineOf(new) = LineOf(state), HoldersOf(new, pr2) = HoldersOf(state, pr),
         \A p \in Probers : pr2[p] = "holding" => pr[p] = "holding"
  PROVE  SemInv(c, ws, new, pr2)
BY DEF SemInv

\* notifyWaiters with no permit to give or nobody to take it changes nothing.
LEMMA NotifyNobody ==
  ASSUME NEW c \in Nat, NEW ws \in Seq(Requests), NEW state \in [Requests -> States],
         c = MaxConcurrency \/ (ws = <<>> /\ c <= MaxConcurrency), Notify(c, ws, state)
  PROVE  cur' = c /\ waiters' = ws /\ at' = state
<1>1. Len(ws) \in Nat /\ (ws = <<>> => Len(ws) = 0)
  BY LenProperties, EmptySeq
<1>2. NotifyCount(c, ws) = 0
  BY <1>1, GateAssumption DEF NotifyCount
<1>3. SubSeq(ws, 1, Len(ws)) = ws
  <2>1. \A i \in 1..Len(ws) : ws[i] \in Requests
    BY ElementOfSeq
  <2>2. /\ SubSeq(ws, 1, Len(ws)) \in Seq(Requests)
        /\ Len(SubSeq(ws, 1, Len(ws))) = Len(ws)
        /\ \A i \in 1..Len(ws) : SubSeq(ws, 1, Len(ws))[i] = ws[i]
    BY <1>1, <2>1, SubSeqProperties
  <2> QED  BY <2>2, SeqEqual
<1> QED  BY <1>2, <1>3 DEF Notify

\* With one permit to give, the head of the line gets it.
LEMMA NotifyHead ==
  ASSUME NEW c \in Nat, NEW ws \in Seq(Requests), NEW state \in [Requests -> States],
         c + 1 = MaxConcurrency, ws # <<>>, Notify(c, ws, state)
  PROVE  /\ cur' = c + 1 /\ waiters' = SubSeq(ws, 2, Len(ws))
         /\ ws[1] \in Requests
         /\ at' = [state EXCEPT ![ws[1]] = "granted"]
<1>1. Len(ws) \in Nat \ {0} /\ ws[1] \in Requests
  BY LenProperties, EmptySeq, ElementOfSeq
<1>2. NotifyCount(c, ws) = 1
  <2>1. MaxConcurrency - c = 1
    BY GateAssumption
  <2>2. NotifyCount(c, ws) = IF 1 < Len(ws) THEN 1 ELSE Len(ws)
    BY <2>1 DEF NotifyCount
  <2>3. CASE 1 < Len(ws)
    BY <2>2, <2>3
  <2>4. CASE Len(ws) = 1
    BY <2>2, <2>4
  <2>5. \A n \in Nat \ {0} : 1 < n \/ n = 1
    OBVIOUS
  <2> QED  BY <1>1, <2>3, <2>4, <2>5
<1>3. {ws[i] : i \in 1..1} = {ws[1]}
  OBVIOUS
<1>4. at' = [q \in Requests |-> IF q \in {ws[1]} THEN "granted" ELSE state[q]]
  BY <1>2, <1>3 DEF Notify
<1>5. cur' = c + 1 /\ waiters' = SubSeq(ws, 2, Len(ws))
  BY <1>2 DEF Notify
<1> QED  BY <1>1, <1>4, <1>5

\* A permit is returned: the line moves up by one, or a permit is free again.
LEMMA ReleaseKeeps ==
  ASSUME IInv, NEW state \in [Requests -> States], NEW x \in Holders,
         LineOf(state) = LineOf(at),
         HoldersOf(state, probe') = HoldersOf(at, probe) \ {x},
         \A p \in Probers : probe'[p] = "holding" => probe[p] = "holding",
         Notify(cur - 1, waiters, state), Counted
  PROVE  /\ SemInv(cur', waiters', at', probe')
         /\ at' \in [Requests -> States] /\ CountedAt(at') = CountedAt(state)
<1> DEFINE H == HoldersOf(at, probe)
<1>1. SemInv(cur, waiters, at, probe) /\ x \in H
  BY Split DEF Holders, HoldersOf
<1>2. IsFiniteSet(H) /\ Cardinality(H) \in Nat
  BY Finite, FS_CardinalityType
<1>3. /\ Cardinality(H \ {x}) = cur - 1 /\ IsFiniteSet(H \ {x})
      /\ cur \in Nat /\ cur - 1 \in Nat /\ cur <= MaxConcurrency
  <2>1. cur = Cardinality(H) /\ cur <= MaxConcurrency
    BY <1>1 DEF SemInv
  <2>2. IsFiniteSet(H \ {x}) /\ Cardinality(H \ {x}) = Cardinality(H) - 1
    BY <1>1, <1>2, FS_RemoveElement
  <2>3. Cardinality(H \ {x}) \in Nat
    BY <2>2, FS_CardinalityType
  <2> QED  BY <1>2, <2>1, <2>2, <2>3
<1>4. Notify(cur - 1, waiters, state) /\ MaxConcurrency \in Nat
  BY GateAssumption
<1>5. CASE waiters = <<>>
  <2> HIDE DEF H
  <2>1. waiters \in Seq(Requests) /\ cur - 1 <= MaxConcurrency
    BY <1>1, <1>3, <1>4 DEF SemInv
  <2>2. cur' = cur - 1 /\ waiters' = waiters /\ at' = state
    BY <1>3, <1>4, <1>5, <2>1, NotifyNobody
  <2>3. Lined(waiters', LineOf(at')) /\ HoldersOf(at', probe') = H \ {x}
    BY <1>1, <2>2 DEF SemInv, H
  <2> QED  BY <1>3, <1>5, <2>1, <2>2, <2>3 DEF SemInv
<1>6. CASE waiters # <<>>
  <2> DEFINE w == waiters[1]
  <2>1. cur = MaxConcurrency /\ waiters \in Seq(Requests) /\ Lined(waiters, LineOf(at))
    BY <1>1, <1>6 DEF SemInv
  <2>2. /\ cur' = cur /\ waiters' = SubSeq(waiters, 2, Len(waiters))
        /\ at' = [state EXCEPT ![w] = "granted"] /\ w \in Requests
    BY <1>3, <1>4, <1>6, <2>1, NotifyHead
  <2>3. w \in LineOf(at) /\ waiters' \in Seq(Requests) /\ Lined(waiters', LineOf(at) \ {w})
    BY <1>6, <2>1, <2>2, HeadLeaves
  <2>4. state[w] = "queue" /\ at' \in [Requests -> States]
    BY <2>2, <2>3 DEF LineOf, States
  <2>5. LineOf(at') = LineOf(at) \ {w}
    BY <2>2, <2>4 DEF LineOf
  <2>6. w \notin HoldersOf(state, probe')
    <3>1. w \notin Probers
      BY <2>2, GateAssumption
    <3> QED  BY <2>4, <3>1 DEF HoldersOf
  <2>7. HoldersOf(at', probe') = (H \ {x}) \cup {w}
    BY <2>2 DEF HoldersOf
  <2>8. Cardinality(HoldersOf(at', probe')) = cur
    <3>1. w \notin H \ {x}
      BY <2>6
    <3> HIDE DEF H, w
    <3>2. Cardinality((H \ {x}) \cup {w}) = (cur - 1) + 1
      BY <1>3, <3>1, FS_AddElement
    <3>3. HoldersOf(at', probe') = (H \ {x}) \cup {w}
      BY <2>7 DEF H, w
    <3> QED  BY <1>3, <3>2, <3>3
  <2>9. CountedAt(at') = CountedAt(state)
    BY <2>2, <2>4 DEF CountedAt
  <2> QED  BY <1>1, <2>1, <2>2, <2>3, <2>4, <2>5, <2>8, <2>9 DEF SemInv
<1> QED  BY <1>5, <1>6

-----------------------------------------------------------------------------
(* One lemma per action.                                                   *)

\* A request that moves on, neither in line nor with a permit before or after,
\* or with a permit before and after, leaves the semaphore as it is.
LEMMA MoveKeepsSem ==
  ASSUME IInv, NEW q \in Requests, NEW s \in States, at' = [at EXCEPT ![q] = s],
         at[q] # "queue", s # "queue",
         at[q] \in {"granted", "rpc"} <=> s \in {"granted", "rpc"},
         UNCHANGED <<cur, waiters, probe>>
  PROVE  SemInv(cur', waiters', at', probe') /\ at' \in [Requests -> States]
<1>1. at \in [Requests -> States] /\ SemInv(cur, waiters, at, probe)
  BY Split
<1>2. LineOf(at') = LineOf(at) /\ HoldersOf(at', probe') = HoldersOf(at, probe)
  BY <1>1 DEF LineOf, HoldersOf
<1> QED  BY <1>1, <1>2, SemSame

\* The counter, for a request that is counted before and after.
LEMMA MoveKeepsCount ==
  ASSUME IInv, NEW q \in Requests, NEW s \in States, at' = [at EXCEPT ![q] = s],
         q \in CountedAt(at), q \in CountedAt(at'), queued' = queued
  PROVE  CountInv(queued', at') /\ queued' \in Nat
<1>1. at \in [Requests -> States] /\ CountInv(queued, at) /\ queued \in Nat
  BY Split
<1>2. CountedAt(at') = CountedAt(at)
  BY <1>1 DEF CountedAt
<1> QED  BY <1>1, <1>2 DEF CountInv

\* The counter, for a request that is turned away.
LEMMA RefusedKeepsCount ==
  ASSUME IInv, NEW q \in Requests, q \in CountedAt(at), Refused(q)
  PROVE  CountInv(queued', at') /\ queued' \in Nat
<1>1. at \in [Requests -> States] /\ CountInv(queued, at) /\ queued \in Nat
  BY Split
<1>2. at' = [at EXCEPT ![q] = "refused"] /\ at' \in [Requests -> States]
  BY <1>1 DEF Refused, States
<1>3. CountedAt(at') = CountedAt(at) \ {q}
  BY <1>1, <1>2 DEF CountedAt
<1> QED  BY <1>1, <1>2, <1>3, CountDown DEF Refused, Uncount

LEMMA RefillType ==
  ASSUME NEW n \in Int PROVE Refill(n) \in Int /\ Refill(n) <= RateLimit
BY GateAssumption DEF Refill

LEMMA EnterKeeps == ASSUME IInv, NEW q \in Requests, Enter(q) PROVE IInv'
<1> DEFINE s == IF Limited THEN "limiter" ELSE "sem"
<1>1. /\ at \in [Requests -> States] /\ CountInv(queued, at) /\ queued \in Nat
      /\ at[q] = "new" /\ at' = [at EXCEPT ![q] = s] /\ s \in {"limiter", "sem"}
      /\ queued' = IF queued + 1 = Word THEN 0 ELSE queued + 1
  BY Split DEF Enter
<1>2. q \notin CountedAt(at) /\ CountedAt(at') = CountedAt(at) \cup {q}
  BY <1>1 DEF CountedAt
<1>3. s \in States
  BY <1>1 DEF States
<1> HIDE DEF s
<1>4. CountInv(queued', at') /\ queued' \in Nat
  BY <1>1, <1>2, <1>3, CountUp
<1>5. SemInv(cur', waiters', at', probe') /\ at' \in [Requests -> States]
  BY <1>1, <1>3, MoveKeepsSem DEF Enter, semVars, obsVars
<1>6. LimInv' /\ probe' \in [Probers -> {"idle", "holding", "yes", "no"}]
  BY Split DEF Enter, LimInv, limVars, obsVars
<1> QED  BY <1>4, <1>5, <1>6, SplitNext

LEMMA ReserveKeeps == ASSUME IInv, NEW q \in Requests, Reserve(q) PROVE IInv'
<1> DEFINE wait == IF tokens >= 1 THEN 0 ELSE 1 - tokens
<1>1. /\ at \in [Requests -> States] /\ at[q] = "limiter" /\ q \in CountedAt(at)
      /\ UNCHANGED <<over, cur, waiters, probe, sent>> /\ LimInv
      /\ probe \in [Probers -> {"idle", "holding", "yes", "no"}]
  BY Split DEF Reserve, CountedAt, semVars, obsVars
<1>2. CASE Refused(q) /\ UNCHANGED limVars
  <2>1. CountInv(queued', at') /\ queued' \in Nat
    BY <1>1, <1>2, RefusedKeepsCount
  <2>2. SemInv(cur', waiters', at', probe') /\ at' \in [Requests -> States]
    BY <1>1, <1>2, MoveKeepsSem DEF Refused, States
  <2>3. LimInv'
    BY <1>1, <1>2 DEF LimInv, limVars
  <2> QED  BY <1>1, <2>1, <2>2, <2>3, SplitNext
<1>3. CASE /\ tokens' = tokens - 1 /\ due' = [due EXCEPT ![q] = wait] /\ lastDue' = wait
           /\ at' = [at EXCEPT ![q] = IF wait = 0 THEN "sem" ELSE "promised"]
           /\ UNCHANGED queued
  <2> DEFINE s == IF wait = 0 THEN "sem" ELSE "promised"
  <2>1. s \in {"sem", "promised"} /\ s \in States
    BY DEF States
  <2>2. wait \in Int /\ LimInv'
    BY <1>1, <1>3 DEF LimInv
  <2> HIDE DEF s, wait
  <2>3. at' = [at EXCEPT ![q] = s]
    BY <1>3 DEF s
  <2>4. q \in CountedAt(at')
    BY <1>1, <2>1, <2>3 DEF CountedAt
  <2>5. CountInv(queued', at') /\ queued' \in Nat
    BY <1>1, <1>3, <2>1, <2>3, <2>4, MoveKeepsCount
  <2>6. SemInv(cur', waiters', at', probe') /\ at' \in [Requests -> States]
    BY <1>1, <2>1, <2>3, MoveKeepsSem
  <2> QED  BY <1>1, <2>2, <2>5, <2>6, SplitNext
<1> QED  BY <1>2, <1>3 DEF Reserve

LEMMA RedeemKeeps == ASSUME IInv, NEW q \in Requests, Redeem(q) PROVE IInv'
<1>1. /\ at \in [Requests -> States] /\ at[q] = "promised" /\ at' = [at EXCEPT ![q] = "sem"]
      /\ UNCHANGED <<over, queued, tokens, due, lastDue, cur, waiters, probe, sent>>
  BY Split DEF Redeem, limVars, semVars, obsVars
<1>2. q \in CountedAt(at) /\ q \in CountedAt(at') /\ "sem" \in States
  BY <1>1 DEF CountedAt, States
<1>3. CountInv(queued', at') /\ queued' \in Nat
  BY <1>1, <1>2, MoveKeepsCount
<1>4. SemInv(cur', waiters', at', probe') /\ at' \in [Requests -> States]
  BY <1>1, <1>2, MoveKeepsSem
<1>5. LimInv' /\ probe' \in [Probers -> {"idle", "holding", "yes", "no"}]
  BY <1>1, Split DEF LimInv
<1> QED  BY <1>3, <1>4, <1>5, SplitNext

LEMMA ForgoKeeps == ASSUME IInv, NEW q \in Requests, Forgo(q) PROVE IInv'
<1>1. /\ at \in [Requests -> States] /\ at[q] = "promised" /\ q \in CountedAt(at)
      /\ UNCHANGED <<over, due, cur, waiters, probe, sent>> /\ Refused(q) /\ LimInv
      /\ probe \in [Probers -> {"idle", "holding", "yes", "no"}]
  BY Split DEF Forgo, CountedAt, semVars, obsVars
<1>2. CountInv(queued', at') /\ queued' \in Nat
  BY <1>1, RefusedKeepsCount
<1>3. SemInv(cur', waiters', at', probe') /\ at' \in [Requests -> States]
  BY <1>1, MoveKeepsSem DEF Refused, States
<1>4. LimInv'
  <2>0. /\ tokens \in Int /\ tokens <= RateLimit /\ lastDue \in Int /\ due[q] \in Int
        /\ Refill(tokens) \in Int /\ Refill(tokens) <= RateLimit
    BY <1>1, RefillType DEF LimInv
  <2>1. tokens' \in Int /\ tokens' <= RateLimit /\ lastDue' \in Int
    <3>1. CASE due[q] >= 0 /\ due[q] = lastDue
      BY <2>0, <3>1 DEF Forgo
    <3>2. CASE ~(due[q] >= 0 /\ due[q] = lastDue)
      BY <2>0, <3>2 DEF Forgo
    <3> QED  BY <3>1, <3>2
  <2> QED  BY <1>1, <2>1 DEF LimInv
<1> QED  BY <1>1, <1>2, <1>3, <1>4, SplitNext

LEMMA SendKeeps == ASSUME IInv, NEW q \in Requests, Send(q) PROVE IInv'
<1>1. /\ at \in [Requests -> States] /\ at[q] = "granted" /\ at' = [at EXCEPT ![q] = "rpc"]
      /\ UNCHANGED <<over, queued, tokens, due, lastDue, cur, waiters, probe>>
  BY Split DEF Send, limVars, semVars
<1>2. q \in CountedAt(at) /\ q \in CountedAt(at') /\ "rpc" \in States
  BY <1>1 DEF CountedAt, States
<1>3. CountInv(queued', at') /\ queued' \in Nat
  BY <1>1, <1>2, MoveKeepsCount
<1>4. SemInv(cur', waiters', at', probe') /\ at' \in [Requests -> States]
  BY <1>1, <1>2, MoveKeepsSem
<1>5. sent' \in Seq(Nat) /\ Len(sent') = RateLimit
  <2>1. sent \in Seq(Nat) /\ Len(sent) = RateLimit /\ RateLimit \in Nat
    BY Split, GateAssumption DEF LimInv
  <2>2. CASE Limited
    <3>1. RateLimit \in 1..Len(sent) /\ sent[RateLimit] \in Nat
      BY <2>1, <2>2, ElementOfSeq DEF Limited
    <3>2. sent' = [sent EXCEPT ![RateLimit] = sent[RateLimit] + 1]
      BY <2>2 DEF Send
    <3> QED  BY <2>1, <3>1, <3>2, ExceptSeq
  <2>3. CASE ~Limited
    BY <2>1, <2>3 DEF Send
  <2> QED  BY <2>2, <2>3
<1>6. LimInv' /\ probe' \in [Probers -> {"idle", "holding", "yes", "no"}]
  BY <1>1, <1>5, Split DEF LimInv
<1> QED  BY <1>3, <1>4, <1>6, SplitNext

LEMMA AcquireKeeps == ASSUME IInv, NEW q \in Requests, Acquire(q) PROVE IInv'
<1>1. /\ at \in [Requests -> States] /\ at[q] = "sem" /\ queued' = queued /\ probe' = probe
      /\ SemInv(cur, waiters, at, probe) /\ q \in CountedAt(at)
  BY Split DEF Acquire, CountedAt, obsVars
<1>2. LimInv' /\ probe' \in [Probers -> {"idle", "holding", "yes", "no"}]
  BY Split DEF Acquire, LimInv, limVars, obsVars
<1>3. q \notin LineOf(at) /\ q \notin HoldersOf(at, probe)
  BY <1>1, GateAssumption DEF LineOf, HoldersOf
<1>4. ASSUME NEW s \in {"queue", "granted"}, at' = [at EXCEPT ![q] = s]
      PROVE  at' \in [Requests -> States] /\ CountInv(queued', at') /\ queued' \in Nat
  <2>1. s \in States /\ at' \in [Requests -> States]
    BY <1>1, <1>4 DEF States
  <2>2. q \in CountedAt(at')
    BY <1>1, <1>4 DEF CountedAt
  <2> QED  BY <1>1, <1>4, <2>1, <2>2, MoveKeepsCount
<1>5. CASE Counted /\ ~Free
  <2>1. at' = [at EXCEPT ![q] = "queue"] /\ cur' = cur /\ waiters' = Append(waiters, q)
    BY <1>5 DEF Acquire
  <2>2. waiters' \in Seq(Requests) /\ Lined(waiters', LineOf(at) \cup {q})
    BY <1>1, <1>3, <2>1, OneJoins DEF SemInv
  <2>3. LineOf(at') = LineOf(at) \cup {q} /\ HoldersOf(at', probe') = HoldersOf(at, probe)
    BY <1>1, <2>1 DEF LineOf, HoldersOf
  <2>4. cur = MaxConcurrency
    BY <1>1, <1>5, GateAssumption DEF SemInv, Free
  <2>5. SemInv(cur', waiters', at', probe')
    BY <1>1, <1>5, <2>1, <2>2, <2>3, <2>4 DEF SemInv
  <2> QED  BY <1>2, <1>4, <2>1, <2>5, SplitNext
<1>6. CASE Counted /\ Free
  <2>1. at' = [at EXCEPT ![q] = "granted"] /\ cur' = cur + 1 /\ waiters' = waiters
    BY <1>6 DEF Acquire
  <2>2. LineOf(at') = LineOf(at) /\ HoldersOf(at', probe') = HoldersOf(at, probe) \cup {q}
    BY <1>1, <1>6, <2>1 DEF LineOf, HoldersOf
  <2>3. Cardinality(HoldersOf(at', probe')) = cur + 1
    <3>1. IsFiniteSet(HoldersOf(at, probe)) /\ Cardinality(HoldersOf(at, probe)) = cur
      BY <1>1, Finite DEF SemInv
    <3> QED  BY <1>3, <2>2, <3>1, FS_AddElement
  <2>4. cur + 1 \in Nat /\ cur + 1 <= MaxConcurrency
    BY <1>1, <1>6, GateAssumption DEF SemInv, Free
  <2>5. SemInv(cur', waiters', at', probe')
    BY <1>1, <1>6, <2>1, <2>2, <2>3, <2>4 DEF SemInv, Free
  <2> QED  BY <1>2, <1>4, <2>1, <2>5, SplitNext
<1>7. CASE ~Counted
  <2>1. at' = [at EXCEPT ![q] = "granted"] /\ cur' = cur /\ waiters' = waiters
    BY <1>7 DEF Acquire
  <2>2. LineOf(at') = LineOf(at) /\ HoldersOf(at', probe') = HoldersOf(at, probe)
    BY <1>1, <1>7, <2>1 DEF LineOf, HoldersOf
  <2>3. SemInv(cur', waiters', at', probe')
    BY <1>1, <2>1, <2>2, SemSame
  <2> QED  BY <1>2, <1>4, <2>1, <2>3, SplitNext
<1> QED  BY <1>5, <1>6, <1>7

LEMMA LeaveQueueKeeps == ASSUME IInv, NEW q \in Requests, LeaveQueue(q) PROVE IInv'
<1> DEFINE rest == LineWithout(q)
           state == [at EXCEPT ![q] = "refused"]
<1>1. /\ at \in [Requests -> States] /\ at[q] = "queue" /\ probe' = probe /\ Uncount
      /\ SemInv(cur, waiters, at, probe) /\ CountInv(queued, at) /\ queued \in Nat
      /\ q \in CountedAt(at) /\ q \in LineOf(at)
  BY Split DEF LeaveQueue, CountedAt, LineOf, obsVars
<1>2. LimInv' /\ probe' \in [Probers -> {"idle", "holding", "yes", "no"}]
  BY Split DEF LeaveQueue, LimInv, limVars, obsVars
<1>3. rest \in Seq(Requests) /\ Lined(rest, LineOf(at) \ {q})
  BY <1>1, OneLeaves DEF SemInv, LineWithout
<1>4. state \in [Requests -> States] /\ LineOf(state) = LineOf(at) \ {q}
      /\ HoldersOf(state, probe') = HoldersOf(at, probe) /\ CountedAt(state) = CountedAt(at) \ {q}
  BY <1>1 DEF States, LineOf, HoldersOf, CountedAt
<1>5. waiters # <<>> /\ cur = MaxConcurrency /\ cur \in Nat /\ Counted
  <2>1. waiters # <<>>
    BY <1>1 DEF SemInv, Lined, ToSet
  <2> QED  BY <1>1, <2>1 DEF SemInv
<1> HIDE DEF rest, state
<1>6. cur' = cur /\ waiters' = rest /\ at' = state
  <2>1. CASE waiters[1] = q
    <3>1. Notify(cur, rest, state)
      BY <2>1 DEF LeaveQueue, rest, state
    <3> QED  BY <1>3, <1>4, <1>5, <3>1, NotifyNobody
  <2>2. CASE waiters[1] # q
    BY <2>2 DEF LeaveQueue, rest, state
  <2> QED  BY <2>1, <2>2
<1>7. SemInv(cur', waiters', at', probe')
  BY <1>1, <1>3, <1>4, <1>5, <1>6 DEF SemInv
<1>8. CountInv(queued', at') /\ queued' \in Nat
  BY <1>1, <1>4, <1>6, CountDown DEF Uncount
<1> QED  BY <1>2, <1>4, <1>6, <1>7, <1>8, SplitNext

LEMMA FinishKeeps == ASSUME IInv, NEW q \in Requests, Finish(q) PROVE IInv'
<1> DEFINE state == [at EXCEPT ![q] = "released"]
<1>1. /\ at \in [Requests -> States] /\ at[q] = "rpc" /\ Release(q, state)
      /\ queued' = queued /\ probe' = probe
      /\ SemInv(cur, waiters, at, probe) /\ CountInv(queued, at) /\ queued \in Nat
  BY Split DEF Finish, obsVars
<1>2. LimInv' /\ probe' \in [Probers -> {"idle", "holding", "yes", "no"}]
  BY Split DEF Finish, LimInv, limVars, obsVars
<1>3. state \in [Requests -> States] /\ LineOf(state) = LineOf(at) /\ CountedAt(state) = CountedAt(at)
  BY <1>1 DEF States, LineOf, CountedAt
<1>4. CASE Counted
  <2>1. q \in Holders /\ HoldersOf(state, probe') = HoldersOf(at, probe) \ {q}
    <3>1. q \notin Probers
      BY GateAssumption
    <3> QED  BY <1>1, <1>4, <3>1 DEF Holders, HoldersOf
  <2>a. Notify(cur - 1, waiters, state)
    BY <1>1, <1>4 DEF Release
  <2> HIDE DEF state
  <2>2. /\ SemInv(cur', waiters', at', probe')
        /\ at' \in [Requests -> States] /\ CountedAt(at') = CountedAt(state)
    BY <1>1, <1>3, <1>4, <2>a, <2>1, ReleaseKeeps
  <2> QED  BY <1>1, <1>2, <1>3, <2>2, SplitNext DEF CountInv
<1>5. CASE ~Counted
  <2>1. at' = state /\ cur' = cur /\ waiters' = waiters
    BY <1>1, <1>5 DEF Release, semVars
  <2>2. HoldersOf(state, probe') = HoldersOf(at, probe)
    BY <1>1, <1>5 DEF HoldersOf
  <2> HIDE DEF state
  <2>3. SemInv(cur', waiters', at', probe')
    BY <1>1, <1>3, <2>1, <2>2, SemSame
  <2> QED  BY <1>1, <1>2, <1>3, <2>1, <2>3, SplitNext DEF CountInv
<1> QED  BY <1>4, <1>5

LEMMA DiscountKeeps == ASSUME IInv, NEW q \in Requests, Discount(q) PROVE IInv'
<1>1. /\ at \in [Requests -> States] /\ at[q] = "released" /\ at' = [at EXCEPT ![q] = "done"]
      /\ UNCHANGED <<over, tokens, due, lastDue, cur, waiters, probe, sent>> /\ Uncount
      /\ CountInv(queued, at) /\ queued \in Nat
  BY Split DEF Discount, limVars, semVars, obsVars
<1>2. /\ q \in CountedAt(at) /\ CountedAt(at') = CountedAt(at) \ {q}
      /\ "done" \in States /\ at' \in [Requests -> States]
  BY <1>1 DEF CountedAt, States
<1>3. CountInv(queued', at') /\ queued' \in Nat
  BY <1>1, <1>2, CountDown DEF Uncount
<1>4. SemInv(cur', waiters', at', probe')
  BY <1>1, <1>2, MoveKeepsSem
<1>5. LimInv' /\ probe' \in [Probers -> {"idle", "holding", "yes", "no"}]
  BY <1>1, Split DEF LimInv
<1> QED  BY <1>2, <1>3, <1>4, <1>5, SplitNext

LEMMA ProbeKeeps == ASSUME IInv, NEW p \in Probers, Probe(p) PROVE IInv'
<1>1. /\ at' = at /\ queued' = queued /\ waiters' = waiters /\ UNCHANGED <<limVars, over, sent>>
      /\ at \in [Requests -> States] /\ probe[p] # "holding"
      /\ probe \in [Probers -> {"idle", "holding", "yes", "no"}]
      /\ SemInv(cur, waiters, at, probe) /\ CountInv(queued, at) /\ queued \in Nat
  BY Split DEF Probe, reqVars
<1>2. LimInv'
  BY <1>1, Split DEF LimInv, limVars
<1>3. CASE cur' = cur /\ \E v \in {"yes", "no"} : probe' = [probe EXCEPT ![p] = v]
  <2>1. /\ probe' \in [Probers -> {"idle", "holding", "yes", "no"}]
        /\ \A r \in Probers : probe'[r] = "holding" <=> probe[r] = "holding"
    BY <1>1, <1>3
  <2>2. HoldersOf(at', probe') = HoldersOf(at, probe) /\ LineOf(at') = LineOf(at)
    BY <1>1, <2>1 DEF HoldersOf
  <2>3. SemInv(cur', waiters', at', probe')
    BY <1>1, <1>3, <2>1, <2>2, SemSame
  <2> QED  BY <1>1, <1>2, <2>1, <2>3, SplitNext
<1>4. CASE Counted /\ Free /\ cur' = cur + 1 /\ probe' = [probe EXCEPT ![p] = "holding"]
  <2>1. probe' \in [Probers -> {"idle", "holding", "yes", "no"}]
    BY <1>1, <1>4
  <2>2. /\ p \notin HoldersOf(at, probe) /\ LineOf(at') = LineOf(at)
        /\ HoldersOf(at', probe') = HoldersOf(at, probe) \cup {p}
    <3>1. p \notin Requests
      BY GateAssumption
    <3> QED  BY <1>1, <1>4, <3>1 DEF HoldersOf
  <2>3. Cardinality(HoldersOf(at', probe')) = cur + 1
    <3>1. IsFiniteSet(HoldersOf(at, probe)) /\ Cardinality(HoldersOf(at, probe)) = cur
      BY <1>1, Finite DEF SemInv
    <3> QED  BY <2>2, <3>1, FS_AddElement
  <2>4. cur + 1 \in Nat /\ cur + 1 <= MaxConcurrency
    BY <1>1, <1>4, GateAssumption DEF SemInv, Free
  <2>5. SemInv(cur', waiters', at', probe')
    BY <1>1, <1>4, <2>2, <2>3, <2>4 DEF SemInv, Free
  <2> QED  BY <1>1, <1>2, <2>1, <2>5, SplitNext
<1> QED  BY <1>3, <1>4 DEF Probe

LEMMA ProbeReleasesKeeps == ASSUME IInv, NEW p \in Probers, ProbeReleases(p) PROVE IInv'
<1>1. /\ queued' = queued /\ UNCHANGED <<limVars, over, sent>> /\ Notify(cur - 1, waiters, at)
      /\ at \in [Requests -> States] /\ probe[p] = "holding" /\ probe' = [probe EXCEPT ![p] = "yes"]
      /\ probe \in [Probers -> {"idle", "holding", "yes", "no"}]
      /\ SemInv(cur, waiters, at, probe) /\ CountInv(queued, at) /\ queued \in Nat
  BY Split DEF ProbeReleases
<1>2. LimInv'
  BY <1>1, Split DEF LimInv, limVars
<1>3. /\ probe' \in [Probers -> {"idle", "holding", "yes", "no"}]
      /\ \A r \in Probers : probe'[r] = "holding" <=> probe[r] = "holding" /\ r # p
  BY <1>1
<1>4. Counted /\ p \in Holders
  BY <1>1 DEF SemInv, Holders
<1>5. HoldersOf(at, probe') = HoldersOf(at, probe) \ {p}
  <2>1. p \notin Requests
    BY GateAssumption
  <2> QED  BY <1>3, <2>1 DEF HoldersOf
<1>6. SemInv(cur', waiters', at', probe') /\ at' \in [Requests -> States] /\ CountedAt(at') = CountedAt(at)
  BY <1>1, <1>3, <1>4, <1>5, ReleaseKeeps
<1> QED  BY <1>1, <1>2, <1>3, <1>6, SplitNext DEF CountInv

LEMMA TickKeeps == ASSUME IInv, Tick PROVE IInv'
<1>1. /\ UNCHANGED <<at, over, queued, cur, waiters, probe>> /\ Limited /\ LimInv
      /\ tokens' = Refill(tokens) /\ due' = [q \in Requests |-> Earlier(due[q])]
      /\ lastDue' = Earlier(lastDue) /\ sent' = Append(Tail(sent), 0)
  BY Split DEF Tick, reqVars, semVars
<1>2. \A d \in Int : Earlier(d) \in Int
  BY DEF Earlier
<1>3. sent' \in Seq(Nat) /\ Len(sent') = RateLimit
  <2>1. sent \in Seq(Nat) /\ Len(sent) = RateLimit /\ sent # <<>> /\ RateLimit \in Nat
    BY <1>1, EmptySeq, GateAssumption DEF LimInv, Limited
  <2>2. Tail(sent) \in Seq(Nat) /\ Len(Tail(sent)) = RateLimit - 1
    BY <2>1, HeadTailProperties
  <2> QED  BY <1>1, <2>1, <2>2, AppendProperties
<1>4. LimInv'
  BY <1>1, <1>2, <1>3, RefillType DEF LimInv
<1> QED  BY <1>1, <1>4, Split, SplitNext

LEMMA ContextEndsKeeps == ASSUME IInv, NEW q \in Requests, ContextEnds(q) PROVE IInv'
BY Split, SplitNext DEF ContextEnds, LimInv, limVars, semVars, obsVars

-----------------------------------------------------------------------------
(* The invariants.                                                         *)

LEMMA InitHolds == Init => IInv
<1> SUFFICES ASSUME Init PROVE IInv
  OBVIOUS
<1>1. /\ at \in [Requests -> States] /\ probe \in [Probers -> {"idle", "holding", "yes", "no"}]
      /\ queued = 0 /\ cur = 0 /\ waiters = <<>>
  BY DEF Init, States
<1>2. LimInv
  <2>1. sent \in Seq(Nat) /\ Len(sent) = RateLimit
    BY GateAssumption DEF Init
  <2> QED  BY <2>1, GateAssumption DEF Init, LimInv
<1>3. HoldersOf(at, probe) = {} /\ CountedAt(at) = {} /\ LineOf(at) = {}
  BY DEF Init, HoldersOf, CountedAt, LineOf
<1>4. waiters \in Seq(Requests) /\ Lined(waiters, {})
  BY <1>1 DEF Lined, ToSet
<1>5. SemInv(cur, waiters, at, probe) /\ CountInv(queued, at)
  <2>1. Cardinality({}) = 0
    BY FS_EmptySet
  <2>2. \A p \in Probers : probe[p] # "holding"
    BY DEF Init
  <2>3. CountInv(queued, at)
    BY <1>1, <1>3, <2>1 DEF CountInv
  <2>4. SemInv(cur, waiters, at, probe)
    BY <1>1, <1>3, <1>4, <2>1, <2>2, GateAssumption DEF SemInv
  <2> QED  BY <2>3, <2>4
<1> QED  BY <1>1, <1>2, <1>5, Split

LEMMA NextKeeps == IInv /\ [Next]_vars => IInv'
<1> SUFFICES ASSUME IInv, [Next]_vars PROVE IInv'
  OBVIOUS
<1>1. CASE UNCHANGED vars
  <2>1. /\ at' = at /\ probe' = probe /\ queued' = queued /\ cur' = cur /\ waiters' = waiters
        /\ UNCHANGED <<over, tokens, due, lastDue, sent>>
    BY <1>1 DEF vars, reqVars, limVars, semVars, obsVars
  <2> QED  BY <2>1, Split, SplitNext DEF LimInv
<1>2. ASSUME NEW q \in Requests, Enter(q) \/ Wait(q) PROVE IInv'
  BY <1>2, EnterKeeps, ReserveKeeps, RedeemKeeps, ForgoKeeps, AcquireKeeps, LeaveQueueKeeps
     DEF Wait
<1>3. ASSUME NEW q \in Requests, Send(q) \/ Finish(q) \/ Discount(q) \/ ContextEnds(q) PROVE IInv'
  BY <1>3, SendKeeps, FinishKeeps, DiscountKeeps, ContextEndsKeeps
<1>4. ASSUME NEW p \in Probers, Probe(p) \/ ProbeReleases(p) PROVE IInv'
  BY <1>4, ProbeKeeps, ProbeReleasesKeeps
<1> QED  BY <1>1, <1>2, <1>3, <1>4, TickKeeps DEF Next

\* The inductive invariant of the gate (rpc/rate_limit.go).
THEOREM Inductive == Spec => []IInv
BY InitHolds, NextKeeps, PTL DEF Spec

\* Every variable of the gate keeps its type; the bucket holds at most RateLimit tokens.
THEOREM TypeCorrect == Spec => []TypeOK
<1>1. IInv => TypeOK
  BY DEF IInv
<1> QED  BY <1>1, Inductive, PTL

\* queued is exactly the number of requests under way: applyRateLimit and its
\* done function neither lose nor repeat a decrement, and it never wraps.
THEOREM QueuedCountsHolds == Spec => []QueuedCounts
<1>1. IInv => QueuedCounts
  BY DEF IInv
<1> QED  BY <1>1, Inductive, PTL

\* The permits given out are those held; requests under way never exceed MaxConcurrency.
THEOREM PermitsHeldHolds == Spec => []PermitsHeld
<1>1. IInv => PermitsHeld
  BY DEF IInv
<1> QED  BY <1>1, Inductive, PTL

-----------------------------------------------------------------------------
(* The gate implements its contract.                                       *)

\* A request that is sent is not the last straw: with its permit it is among the
\* holders, and everybody at the provider is.
LEMMA RoomInside ==
  ASSUME IInv, Counted, NEW q \in Requests, at[q] = "granted"
  PROVE  Cardinality({r \in Requests : at[r] = "rpc"}) < MaxConcurrency
<1> DEFINE H == HoldersOf(at, probe)
           R == {r \in Requests : at[r] = "rpc"}
<1>1. IsFiniteSet(H) /\ Cardinality(H) = cur /\ cur <= MaxConcurrency /\ cur \in Nat
  BY Split, Finite DEF SemInv
<1>2. q \in H /\ R \subseteq H \ {q}
  BY DEF HoldersOf
<1> HIDE DEF H, R
<1>3. IsFiniteSet(H \ {q}) /\ Cardinality(H \ {q}) = cur - 1
  BY <1>1, <1>2, FS_RemoveElement
<1>4. Cardinality(R) <= Cardinality(H \ {q}) /\ Cardinality(R) \in Nat
  BY <1>2, <1>3, FS_Subset, FS_CardinalityType
<1>5. Cardinality(R) < MaxConcurrency
  BY <1>1, <1>3, <1>4, GateAssumption
<1> QED  BY <1>5 DEF R

\* A release moves at most the head of the line, which the contract does not see.
LEMMA ReleaseUnseen ==
  ASSUME IInv, NEW x \in Holders, NEW state \in [Requests -> States],
         LineOf(state) = LineOf(at), Notify(cur - 1, waiters, state), Counted
  PROVE  \A r \in Requests :
           at'[r] = state[r] \/ (state[r] = "queue" /\ at'[r] = "granted")
<1>1. SemInv(cur, waiters, at, probe) /\ Holders = HoldersOf(at, probe)
  BY Split DEF Holders, HoldersOf
<1>2. IsFiniteSet(Holders) /\ Cardinality(Holders) = cur /\ cur \in Nat /\ cur <= MaxConcurrency
  BY <1>1, Finite DEF SemInv
<1>3. IsFiniteSet(Holders \ {x}) /\ Cardinality(Holders \ {x}) = cur - 1
  BY <1>2, FS_RemoveElement
<1>4. cur - 1 \in Nat /\ cur - 1 <= MaxConcurrency /\ Notify(cur - 1, waiters, state)
  <2>1. cur - 1 \in Nat
    BY <1>3, FS_CardinalityType
  <2> QED  BY <1>2, <2>1, GateAssumption
<1>5. CASE waiters = <<>>
  <2>1. waiters \in Seq(Requests)
    BY <1>1 DEF SemInv
  <2>2. at' = state
    BY <1>4, <1>5, <2>1, NotifyNobody
  <2> QED  BY <2>2
<1>6. CASE waiters # <<>>
  <2>1. cur = MaxConcurrency /\ waiters \in Seq(Requests) /\ Lined(waiters, LineOf(state))
    BY <1>1, <1>6 DEF SemInv
  <2>2. waiters[1] \in LineOf(state) /\ (cur - 1) + 1 = MaxConcurrency
    <3>1. waiters[1] \in LineOf(state)
      BY <1>6, <2>1, HeadLeaves
    <3> QED  BY <1>2, <2>1, <3>1
  <2>3. at' = [state EXCEPT ![waiters[1]] = "granted"]
    BY <1>4, <1>6, <2>1, <2>2, NotifyHead
  <2> QED  BY <2>2, <2>3 DEF LineOf
<1> QED  BY <1>5, <1>6

\* What a step of the gate is to the contract.
LEMMA StepKeepsContract == IInv /\ [Next]_vars => [Contract!Next]_(Contract!vars)
<1> SUFFICES ASSUME IInv, [Next]_vars PROVE [Contract!Next]_(Contract!vars)
  OBVIOUS
<1>0. at \in [Requests -> States] /\ at' \in [Requests -> States]
  BY NextKeeps, Split, SplitNext
<1> USE <1>0
<1>a. ASSUME over' = over, \A q \in Requests : Place'[q] = Place[q]
      PROVE  UNCHANGED Contract!vars
  BY <1>a DEF Contract!vars, Place
<1>b. ASSUME NEW q \in Requests, NEW s, Place'[q] = s,
             \A r \in Requests \ {q} : Place'[r] = Place[r]
      PROVE  Place' = [Place EXCEPT ![q] = s]
  BY <1>b DEF Place
<1>1. CASE UNCHANGED vars
  BY <1>1, <1>a DEF vars, reqVars, Place
<1>2. ASSUME NEW q \in Requests, Enter(q) PROVE Contract!Next
  <2>1. /\ Place[q] = "new" /\ Place'[q] = (IF Limited THEN "arrived" ELSE "paced")
        /\ over' = over /\ \A r \in Requests \ {q} : Place'[r] = Place[r]
    BY <1>2 DEF Enter, Place
  <2>2. Contract!Arrive(q)
    BY <1>b, <2>1 DEF Contract!Arrive, Contract!Move
  <2> QED  BY <2>2 DEF Contract!Next
<1>3. ASSUME NEW q \in Requests, Acquire(q) PROVE UNCHANGED Contract!vars
  BY <1>3, <1>a DEF Acquire, Place
<1>c. ASSUME NEW q \in Requests, at[q] \in {"limiter", "promised"},
             at' = [at EXCEPT ![q] = "sem"], over' = over
      PROVE  Contract!Next
  <2>1. Place[q] = "arrived" /\ Place'[q] = "paced" /\ \A r \in Requests \ {q} : Place'[r] = Place[r]
    BY <1>c DEF Place
  <2>2. Contract!Pace(q)
    BY <1>c, <1>b, <2>1 DEF Contract!Pace, Contract!Move
  <2> QED  BY <2>2 DEF Contract!Next
<1>d. ASSUME NEW q \in Requests, Redeem(q) PROVE Contract!Next
  BY <1>c, <1>d DEF Redeem
<1>4. ASSUME NEW q \in Requests, at[q] \in {"limiter", "promised"}, Refused(q), over' = over,
             q \in over \cup Bounded
      PROVE  Contract!Next
  <2>1. Place[q] = "arrived" /\ Place'[q] = "refused" /\ \A r \in Requests \ {q} : Place'[r] = Place[r]
    BY <1>4 DEF Refused, Place
  <2>2. Contract!TurnAway(q)
    BY <1>4, <1>b, <2>1 DEF Contract!TurnAway, Contract!Move
  <2> QED  BY <2>2 DEF Contract!Next
<1>5. ASSUME NEW q \in Requests, Reserve(q) PROVE [Contract!Next]_(Contract!vars)
  <2>0. at[q] = "limiter" /\ over' = over
    BY <1>5 DEF Reserve
  <2>1. CASE Refused(q) /\ q \in over \cup Bounded
    BY <1>4, <2>0, <2>1
  <2>2. CASE at' = [at EXCEPT ![q] = "sem"]
    BY <1>c, <2>0, <2>2
  <2>3. CASE at' = [at EXCEPT ![q] = "promised"]
    <3>1. \A r \in Requests : Place'[r] = Place[r]
      BY <2>0, <2>3 DEF Place
    <3> QED  BY <1>a, <2>0, <3>1
  <2> QED  BY <1>5, <2>1, <2>2, <2>3 DEF Reserve
<1>6. ASSUME NEW q \in Requests, Forgo(q) PROVE Contract!Next
  BY <1>4, <1>6 DEF Forgo
<1>7. ASSUME NEW q \in Requests, LeaveQueue(q) PROVE Contract!Next
  <2> DEFINE state == [at EXCEPT ![q] = "refused"]
  <2>1. at[q] = "queue" /\ q \in over /\ over' = over
    BY <1>7 DEF LeaveQueue
  <2>2. at'[q] = "refused" /\ \A r \in Requests \ {q} :
          at'[r] = at[r] \/ (at[r] = "queue" /\ at'[r] = "granted")
    <3>1. CASE waiters[1] # q
      BY <1>7, <3>1 DEF LeaveQueue
    <3>2. CASE waiters[1] = q
      <4>1. SemInv(cur, waiters, at, probe)
        BY Split
      <4>2. waiters # <<>> /\ cur = MaxConcurrency /\ cur \in Nat
        <5>1. waiters # <<>>
          BY <2>1, <4>1 DEF SemInv, Lined, ToSet, LineOf
        <5> QED  BY <4>1, <5>1 DEF SemInv
      <4>3. LineWithout(q) \in Seq(Requests)
        <5>1. q \in LineOf(at) /\ waiters \in Seq(Requests) /\ Lined(waiters, LineOf(at))
          BY <2>1, <4>1 DEF SemInv, LineOf
        <5> QED  BY <5>1, OneLeaves DEF LineWithout
      <4>4. Notify(cur, LineWithout(q), state) /\ state \in [Requests -> States]
        BY <1>7, <3>2 DEF LeaveQueue, States
      <4>5. at' = state
        BY <4>2, <4>3, <4>4, NotifyNobody
      <4> QED  BY <4>5
    <3> QED  BY <3>1, <3>2
  <2>3. Place[q] = "paced" /\ Place'[q] = "refused" /\ \A r \in Requests \ {q} : Place'[r] = Place[r]
    BY <2>1, <2>2 DEF Place
  <2>4. Contract!TurnAway(q)
    BY <1>b, <2>1, <2>3 DEF Contract!TurnAway, Contract!Move
  <2> QED  BY <2>4 DEF Contract!Next
<1>8. ASSUME NEW q \in Requests, Send(q) PROVE Contract!Next
  <2>1. at[q] = "granted" /\ at' = [at EXCEPT ![q] = "rpc"] /\ over' = over
    BY <1>8 DEF Send
  <2>2. Place[q] = "paced" /\ Place'[q] = "inside" /\ \A r \in Requests \ {q} : Place'[r] = Place[r]
    BY <2>1 DEF Place
  <2>3. Contract!Inside = {r \in Requests : at[r] = "rpc"}
    BY DEF Contract!Inside, Place
  <2>4. MaxConcurrency > 0 => Cardinality(Contract!Inside) < MaxConcurrency
    BY <2>1, <2>3, RoomInside DEF Counted
  <2>5. Contract!Admit(q)
    <3>1. Contract!Move(q, "paced", "inside")
      BY <1>b, <2>1, <2>2 DEF Contract!Move
    <3>2. Contract!Cardinality(Contract!Inside) = Cardinality(Contract!Inside)
      BY DEF Contract!Cardinality, Cardinality
    <3> QED  BY <2>4, <3>1, <3>2, Zenon DEF Contract!Admit
  <2> QED  BY <2>5 DEF Contract!Next
<1>9. ASSUME NEW q \in Requests, Finish(q) PROVE Contract!Next
  <2> DEFINE state == [at EXCEPT ![q] = "released"]
  <2>1. at[q] = "rpc" /\ over' = over /\ Release(q, state) /\ state \in [Requests -> States]
        /\ LineOf(state) = LineOf(at)
    BY <1>9 DEF Finish, States, LineOf
  <2>2. \A r \in Requests :
          at'[r] = state[r] \/ (state[r] = "queue" /\ at'[r] = "granted")
    <3>1. CASE Counted
      <4>1. q \in Holders
        BY <2>1, <3>1 DEF Holders
      <4>2. Notify(cur - 1, waiters, state)
        BY <2>1, <3>1 DEF Release
      <4> HIDE DEF state
      <4> QED  BY <2>1, <3>1, <4>1, <4>2, ReleaseUnseen
    <3>2. CASE ~Counted
      BY <2>1, <3>2 DEF Release
    <3> QED  BY <3>1, <3>2
  <2>3. Place[q] = "inside" /\ Place'[q] = "left" /\ \A r \in Requests \ {q} : Place'[r] = Place[r]
    BY <2>1, <2>2 DEF Place
  <2>4. Contract!Leave(q)
    BY <1>b, <2>1, <2>3 DEF Contract!Leave, Contract!Move
  <2> QED  BY <2>4 DEF Contract!Next
<1>10. ASSUME NEW q \in Requests, Discount(q) PROVE UNCHANGED Contract!vars
  BY <1>10, <1>a DEF Discount, Place
<1>11. ASSUME NEW q \in Requests, ContextEnds(q) PROVE Contract!Next
  <2>1. Contract!ContextEnds(q)
    BY <1>11 DEF ContextEnds, Contract!ContextEnds, Place
  <2> QED  BY <2>1 DEF Contract!Next
<1>12. ASSUME NEW p \in Probers, Probe(p) PROVE UNCHANGED Contract!vars
  BY <1>12, <1>a DEF Probe, reqVars, Place
<1>13. ASSUME NEW p \in Probers, ProbeReleases(p) PROVE UNCHANGED Contract!vars
  <2>1. Notify(cur - 1, waiters, at) /\ over' = over /\ p \in Holders
    BY <1>13 DEF ProbeReleases, Holders, semVars
  <2>2. Counted
    BY <1>13, Split DEF ProbeReleases, SemInv
  <2>3. \A r \in Requests : at'[r] = at[r] \/ (at[r] = "queue" /\ at'[r] = "granted")
    BY <2>1, <2>2, ReleaseUnseen
  <2> QED  BY <1>a, <2>1, <2>3 DEF Place
<1>14. CASE Tick
  BY <1>14, <1>a DEF Tick, reqVars, Place
<1> QED  BY <1>1, <1>2, <1>3, <1>d, <1>5, <1>6, <1>7, <1>8, <1>9, <1>10, <1>11, <1>12, <1>13, <1>14
            DEF Next, Wait

\* The gate keeps the contract that its callers rely on (applyRateLimit and its
\* done function, rpc/rate_limit.go): never more than MaxConcurrency requests at
\* the provider, and a live request is turned away by the limiter alone, if it has
\* a deadline; a saturated provider makes it wait.
THEOREM KeepsContractHolds == Spec => KeepsContract
<1>1. Init => Contract!Init
  BY DEF Init, Contract!Init, Place
<1> QED  BY <1>1, InitHolds, NextKeeps, StepKeepsContract, PTL
         DEF Spec, KeepsContract, Contract!Spec
=============================================================================
