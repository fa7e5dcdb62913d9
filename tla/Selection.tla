------------------------------ MODULE Selection ------------------------------
(***************************************************************************)
(* The pure computations a MultiRpcClient makes on its list of clients:    *)
(* groupParallelClients (rpc/parallel_groups.go), the choice of a client   *)
(* in getRpcClient (rpc/multi_client.go) and the score it is based on      *)
(* (rpc/rate_limit.go).  A list of clients is a sequence.                  *)
(***************************************************************************)
EXTENDS Providers, SequencesExt

-----------------------------------------------------------------------------
(* Weights.                                                                *)

\* allClients after the sort of DialMultiContext.
SortedByWeight(s) == \A i \in 1..(Len(s) - 1) : Weight[s[i]] >= Weight[s[i + 1]]

\* The orders allClients can have for the configured clients S: the sort leaves
\* the order of equal weights open.
ClientOrders(S) == {s \in SetToSeqs(S) : SortedByWeight(s)}

\* Seeded fault: the inner loop never extends a group.
SingletonGroups(groups, c) == Append(groups, <<c>>)

\* One more client: it joins the last group or, with another weight, opens one.
ExtendGroups(groups, c) ==
  IF groups # <<>> /\ Weight[Last(groups)[1]] = Weight[c]
    THEN Append(Front(groups), Append(Last(groups), c))
    ELSE Append(groups, <<c>>)

\* groupParallelClients: the runs of equal weight, in the order of the list.
ParallelGroups(s) ==
  LET groups[k \in 0..Len(s)] ==
        IF k = 0 THEN <<>> ELSE ExtendGroups(groups[k - 1], s[k])
  IN groups[Len(s)]

-----------------------------------------------------------------------------
(* The score.  A client's load is a record of its configuration and of the *)
(* queued counter.  The score is a square root; scores are compared        *)
(* exactly, through their squares, which are fractions.                    *)

\* rateLimit * capacityScore, times Scale: the square of the score.
Score2(load, Scale) ==
  LET rate     == IF load.rateLimit > 0 THEN load.rateLimit ELSE 10000
      capacity == IF load.maxConc > 0 THEN load.maxConc * 100 ELSE 1000
  IN (rate * capacity * Scale) \div (load.queued + 1)

\* Sqrt(x / Scale) - Sqrt(y / Scale) >= m, for naturals x, y and m.
Exceeds(x, y, m, Scale) ==
  LET d == x - y - Scale * m * m IN d >= 0 /\ d * d >= 4 * m * m * y * Scale

\* Seeded fault: the operands of the comparison are swapped.
WorstFirst(a, b, Scale) == Exceeds(Score2(b, Scale), Score2(a, Scale), 1, Scale)

\* int(score(b) - score(a)) < 0: a conversion to int drops the fraction, so a
\* goes before b only when its score is greater by at least 1.
GoesBefore(a, b, Scale) == Exceeds(Score2(a, Scale), Score2(b, Scale), 1, Scale)

\* One step of the insertion sort slices.SortFunc does on a short list: x is
\* moved to the left past the elements it goes before.
InsertByScore(s, x, load, Scale) ==
  LET stop == {k \in 0..Len(s) : k = 0 \/ ~GoesBefore(load[x], load[s[k]], Scale)}
  IN InsertAt(s, Max(stop) + 1, x)

\* candidatesOverLimits after the sort: the clients of s that are in S.  The
\* loads stay still while it sorts; the code reads them at every comparison.
SortByScore(s, S, load, Scale) ==
  LET sorted[k \in 0..Len(s)] ==
        IF k = 0 THEN <<>>
        ELSE IF s[k] \in S THEN InsertByScore(sorted[k - 1], s[k], load, Scale)
        ELSE sorted[k - 1]
  IN sorted[Len(s)]

-----------------------------------------------------------------------------
(* getRpcClient.  A pool is a record of what it looks at: the list of the  *)
(* clients, their flags, which of them are below their limits              *)
(* (canMakeRequestNow), the loads of all, and the user's preference.       *)

\* The first client of s in the set S.
FirstIn(s, S) == s[CHOOSE i \in DOMAIN s : s[i] \in S /\ \A j \in 1..(i - 1) : s[j] \notin S]

\* Seeded fault: a client passed over for its transport outranks a free one.
PreferenceLast(pool, taken, subscriptionRelated) == taken

\* Those of the clients taken, which can make the request now, that are preferred.
Ideal(pool, taken, subscriptionRelated) ==
  {c \in taken : ~(pool.preferHttp /\ ~subscriptionRelated /\ c \in Duplex)}

\* getRpcClient for the eligible clients cands: the first ideal one, else the
\* first that can make the request now, else the first by score.
Choice(pool, cands, subscriptionRelated, Scale) ==
  LET taken == cands \cap pool.free
      ideal == Ideal(pool, taken, subscriptionRelated)
  IN IF ideal # {} THEN FirstIn(pool.order, ideal)
     ELSE IF taken # {} THEN FirstIn(pool.order, taken)
     ELSE SortByScore(pool.order, cands, pool.load, Scale)[1]
=============================================================================
