--------------------------- MODULE SelectionProofs ---------------------------
(***************************************************************************)
(* What the operators of Selection compute, for lists of any length: the   *)
(* order of the list, the weight groups, the sort by score and the choice. *)
(* The two folds over a list are recursive functions; that they satisfy    *)
(* their equations, and what their results have in common, is shown by     *)
(* induction on the prefix of the list, as a statement about sets (UpTo).  *)
(***************************************************************************)
EXTENDS Selection, FiniteSetTheorems, SequenceTheorems, WellFoundedInduction, TLAPS

-----------------------------------------------------------------------------
(* Induction and recursion up to a number.                                 *)

\* A set that has 0, and with each number below n the next one, has all up to n.
LEMMA UpTo ==
  ASSUME NEW n \in Nat, NEW P, 0 \in P, \A k \in 0..(n - 1) : k \in P => k + 1 \in P
  PROVE  \A k \in 0..n : k \in P
<1> DEFINE T == {k \in 0..n : k \notin P}
<1>1. SUFFICES ASSUME T # {} PROVE FALSE
  OBVIOUS
<1>2. T \subseteq Nat
  OBVIOUS
<1>3. PICK m \in T : \A k \in T : ~(<<k, m>> \in OpToRel(<, Nat))
  BY <1>1, <1>2, NatLessThanWellFounded, WFMin
<1>4. m \in 1..n
  OBVIOUS
<1>5. m - 1 \in 0..(n - 1) /\ m - 1 \in 0..n /\ (m - 1) + 1 = m
  BY <1>4
<1>6. m - 1 \notin T
  <2>1. <<m - 1, m>> \in OpToRel(<, Nat)
    BY <1>4 DEF OpToRel
  <2> HIDE DEF T
  <2> QED  BY <1>3, <2>1
<1>7. m - 1 \in P
  BY <1>5, <1>6
<1> QED  BY <1>3, <1>5, <1>7

\* The steps by which a value of T can go through n stages, and the courses of
\* values from b that a given choice of steps has.
Steps(n, T) == [1..n -> [T -> T]]
Courses(n, T, b, F) ==
  {g \in [0..n -> T] : g[0] = b /\ \A k \in 1..n : g[k] = F[k][g[k - 1]]}

\* A function can be defined by recursion on its argument.
LEMMA Recursion ==
  ASSUME NEW n \in Nat, NEW T, NEW b \in T, NEW F \in Steps(n, T)
  PROVE  Courses(n, T, b, F) # {}
<1> USE DEF Steps, Courses
<1> DEFINE Upto(g, m) == g[0] = b /\ \A k \in 1..m : g[k] = F[k][g[k - 1]]
           P == {m \in 0..n : \E g \in [0..m -> T] : Upto(g, m)}
<1>1. 0 \in P
  <2> DEFINE g == [i \in 0..0 |-> b]
  <2>1. g \in [0..0 -> T] /\ g[0] = b /\ 1..0 = {} /\ 0 \in 0..n
    OBVIOUS
  <2> HIDE DEF g
  <2> QED  BY <2>1
<1>2. ASSUME NEW m \in 0..(n - 1), m \in P PROVE m + 1 \in P
  <2>1. PICK g \in [0..m -> T] : Upto(g, m)
    BY <1>2
  <2> DEFINE h == [i \in 0..(m + 1) |-> IF i = m + 1 THEN F[m + 1][g[m]] ELSE g[i]]
  <2>2. m + 1 \in 1..n /\ m + 1 \in 0..n /\ g[m] \in T
    OBVIOUS
  <2>3. F[m + 1][g[m]] \in T
    BY <2>2
  <2>4. h \in [0..(m + 1) -> T]
    BY <2>3
  <2>5. h[0] = b
    BY <2>1
  <2>6. ASSUME NEW k \in 1..(m + 1) PROVE h[k] = F[k][h[k - 1]]
    <3>1. h[k - 1] = g[k - 1] /\ k - 1 \in 0..m
      OBVIOUS
    <3>2. CASE k = m + 1
      <4>1. h[k] = F[k][g[m]] /\ k - 1 = m
        BY <3>2
      <4> QED  BY <3>1, <4>1
    <3>3. CASE k \in 1..m
      <4>1. h[k] = g[k]
        BY <3>3
      <4> QED  BY <2>1, <3>1, <3>3, <4>1
    <3> QED  BY <3>2, <3>3
  <2>7. Upto(h, m + 1)
    BY <2>5, <2>6
  <2> HIDE DEF h, Upto
  <2> QED  BY <2>2, <2>4, <2>7
<1> HIDE DEF P
<1>3. n \in P
  <2>1. \A m \in 0..(n - 1) : m \in P => m + 1 \in P
    BY <1>2
  <2>2. \A m \in 0..n : m \in P
    BY <1>1, <2>1, UpTo
  <2> QED  BY <2>2
<1> QED  BY <1>3 DEF P
-----------------------------------------------------------------------------
(* The order of the list.                                                  *)

\* Any number of clients can be counted.
LEMMA Countable == ASSUME NEW S, S \subseteq Clients PROVE IsFiniteSet(S)
BY ProvidersAssumption, FS_Subset

\* A list the sort may leave is the whole pool, each client of it once.
LEMMA OrdersHold ==
  ASSUME NEW S, S \subseteq Clients, NEW s \in ClientOrders(S)
  PROVE  /\ s \in Seq(Clients) /\ ToSet(s) = S /\ SortedByWeight(s)
         /\ Len(s) \in Nat /\ DOMAIN s = 1..Len(s) /\ \A i \in 1..Len(s) : s[i] \in S
         /\ \A i, j \in DOMAIN s : s[i] = s[j] => i = j
<1> DEFINE n == Cardinality(S)
<1>1. IsFiniteSet(S) /\ n \in Nat
  BY Countable, FS_CardinalityType
<1>2. s \in [1..n -> S] /\ SortedByWeight(s) /\ \A i, j \in 1..n : s[i] = s[j] => i = j
  BY DEF ClientOrders, SetToSeqs
<1> HIDE DEF n
<1>3. s \in Seq(S) /\ Len(s) = n /\ DOMAIN s = 1..n
  BY <1>1, <1>2, SeqDef, LenProperties
<1>4. s \in Injection(1..n, S)
  BY <1>2 DEF Injection, IsInjective
<1>5. Cardinality(1..n) = n
  BY <1>1, FS_Interval
<1>6. s \in Surjection(1..n, S)
  BY <1>1, <1>4, <1>5, FS_Injection DEF n
<1>7. ToSet(s) = S
  <2>1. \A x \in S : \E i \in 1..n : s[i] = x
    BY <1>6 DEF Surjection
  <2> QED  BY <1>2, <1>3, <2>1 DEF ToSet
<1>8. s \in Seq(Clients)
  BY <1>3
<1> QED  BY <1>1, <1>2, <1>3, <1>7, <1>8

-----------------------------------------------------------------------------
(* Insertion.                                                              *)

\* A nonempty set of numbers with a bound has a greatest one.
LEMMA MaxIsGreatest ==
  ASSUME NEW n \in Nat, NEW S, S \subseteq 0..n, S # {}
  PROVE  Max(S) \in S /\ \A k \in S : k <= Max(S)
<1> DEFINE T == {n - k : k \in S}
<1>1. T \subseteq Nat /\ T # {}
  <2>1. \A k \in S : n - k \in Nat
    OBVIOUS
  <2> QED  BY <2>1
<1> HIDE DEF T
<1>2. PICK d \in T : \A e \in T : ~(<<e, d>> \in OpToRel(<, Nat))
  BY <1>1, NatLessThanWellFounded, WFMin
<1>3. PICK m \in S : d = n - m
  BY DEF T
<1>4. ASSUME NEW k \in S PROVE m >= k
  <2>1. n - k \in T /\ n - k \in Nat /\ n - m \in Nat
    BY DEF T
  <2>2. ~(n - k < n - m)
    BY <1>2, <1>3, <2>1 DEF OpToRel
  <2> QED  BY <2>2
<1>5. /\ Max(S) \in S
      /\ \A k \in S : Max(S) >= k
  BY <1>4 DEF Max
<1> QED  BY <1>5

\* An inserted element has one place: it goes before its right neighbour and not
\* before its left one; the others keep their order.
LEMMA InsertionPlace ==
  ASSUME NEW t \in Seq(Clients), NEW x \in Clients, NEW load, NEW Scale
  PROVE  LET u == InsertByScore(t, x, load, Scale) IN
         /\ u \in Seq(Clients) /\ Len(u) = Len(t) + 1
         /\ \E p \in 1..(Len(t) + 1) :
              /\ u[p] = x
              /\ \A i \in 1..(p - 1) : u[i] = t[i]
              /\ \A i \in (p + 1)..(Len(t) + 1) : u[i] = t[i - 1]
              /\ p > 1 => ~GoesBefore(load[x], load[t[p - 1]], Scale)
              /\ p <= Len(t) => GoesBefore(load[x], load[t[p]], Scale)
<1> DEFINE n    == Len(t)
           stop == {k \in 0..n : k = 0 \/ ~GoesBefore(load[x], load[t[k]], Scale)}
           q    == Max(stop)
           u    == InsertByScore(t, x, load, Scale)
<1>1. n \in Nat /\ t \in [1..n -> Clients]
  BY LenProperties
<1>2. 0 \in stop /\ stop \subseteq 0..n
  BY <1>1
<1>3. q \in stop /\ \A k \in stop : k <= q
  <2> HIDE DEF stop
  <2> QED  BY <1>1, <1>2, MaxIsGreatest
<1>4. q \in 0..n
  BY <1>2, <1>3
<1>5. u = SubSeq(t, 1, q) \o <<x>> \o SubSeq(t, q + 1, n)
  <2>1. u = InsertAt(t, q + 1, x)
    BY DEF InsertByScore
  <2> HIDE DEF u, q
  <2>2. (q + 1) - 1 = q
    BY <1>4
  <2> QED  BY <2>1, <2>2 DEF InsertAt
<1> HIDE DEF u, q
<1>6. /\ SubSeq(t, 1, q) \in Seq(Clients) /\ Len(SubSeq(t, 1, q)) = q
      /\ \A i \in 1..q : SubSeq(t, 1, q)[i] = t[i]
  BY <1>1, <1>4, SubSeqProperties
<1>7. /\ SubSeq(t, q + 1, n) \in Seq(Clients) /\ Len(SubSeq(t, q + 1, n)) = n - q
      /\ \A i \in 1..(n - q) : SubSeq(t, q + 1, n)[i] = t[q + i]
  <2>1. \A i \in (q + 1)..n : t[i] \in Clients
    BY <1>1, <1>4
  <2>2. q + 1 \in Int /\ n \in Int
    BY <1>1, <1>4
  <2> DEFINE m == q + 1
  <2>3. /\ SubSeq(t, m, n) \in Seq(Clients)
        /\ Len(SubSeq(t, m, n)) = IF m <= n THEN n - m + 1 ELSE 0
        /\ \A i \in 1..(n - m + 1) : SubSeq(t, m, n)[i] = t[m + i - 1]
    <3> HIDE DEF m
    <3> QED  BY <2>1, <2>2, SubSeqProperties DEF m
  <2>4. n - m + 1 = n - q /\ (m <= n \/ n - q = 0)
    <3>1. n \in Nat /\ q \in Nat /\ q <= n
      BY <1>1, <1>4
    <3> HIDE DEF n
    <3> QED  BY <3>1
  <2>5. \A i \in 1..(n - q) : m + i - 1 = q + i
    BY <1>1, <1>4
  <2> QED  BY <2>3, <2>4, <2>5
<1> DEFINE l == SubSeq(t, 1, q)
           r == SubSeq(t, q + 1, n)
<1> HIDE DEF l, r
<1>8. l \in Seq(Clients) /\ Len(l) = q /\ r \in Seq(Clients) /\ Len(r) = n - q
      /\ <<x>> \in Seq(Clients) /\ Len(<<x>>) = 1 /\ <<x>>[1] = x
  BY <1>6, <1>7 DEF l, r
<1>9. /\ l \o <<x>> \in Seq(Clients) /\ Len(l \o <<x>>) = q + 1
      /\ \A i \in 1..q : (l \o <<x>>)[i] = l[i]
      /\ (l \o <<x>>)[q + 1] = x
  BY <1>4, <1>8, ConcatProperties
<1>10. /\ u \in Seq(Clients) /\ Len(u) = n + 1
       /\ \A i \in 1..(q + 1) : u[i] = (l \o <<x>>)[i]
       /\ \A i \in (q + 2)..(n + 1) : u[i] = r[i - (q + 1)]
  <2>1. u = (l \o <<x>>) \o r
    BY <1>5 DEF l, r
  <2> QED  BY <1>1, <1>4, <1>8, <1>9, <2>1, ConcatProperties
<1>11. u[q + 1] = x /\ q + 1 \in 1..(n + 1)
  BY <1>1, <1>4, <1>9, <1>10
<1>12. \A i \in 1..q : u[i] = t[i]
  BY <1>1, <1>4, <1>6, <1>9, <1>10 DEF l
<1>13. \A i \in (q + 2)..(n + 1) : u[i] = t[i - 1]
  <2> SUFFICES ASSUME NEW i \in (q + 2)..(n + 1) PROVE u[i] = t[i - 1]
    OBVIOUS
  <2>1. i - (q + 1) \in 1..(n - q) /\ q + (i - (q + 1)) = i - 1
    BY <1>1, <1>4
  <2>2. r[i - (q + 1)] = t[i - 1]
    BY <1>7, <2>1 DEF r
  <2> QED  BY <1>10, <2>2
<1>14. q + 1 > 1 => ~GoesBefore(load[x], load[t[q]], Scale)
  BY <1>3, <1>4
<1>15. q + 1 <= n => GoesBefore(load[x], load[t[q + 1]], Scale)
  <2> SUFFICES ASSUME q + 1 <= n, ~GoesBefore(load[x], load[t[q + 1]], Scale) PROVE FALSE
    OBVIOUS
  <2>1. q + 1 \in stop
    BY <1>1, <1>4
  <2> QED  BY <1>3, <1>4, <2>1
<1> DEFINE p == q + 1
<1>16. p - 1 = q /\ p + 1 = q + 2
  BY <1>4
<1> QED  BY <1>10, <1>11, <1>12, <1>13, <1>14, <1>15, <1>16 DEF u

-----------------------------------------------------------------------------
(* The comparison of scores.  ~Exceeds(x, y, m, S) says that the score with *)
(* square x is less than m points above the score with square y.           *)

\* Squares of naturals are ordered as the naturals are.
LEMMA Squares ==
  ASSUME NEW a \in Nat, NEW b \in Nat
  PROVE  /\ a * a \in Nat
         /\ a <= b => a * a <= b * b
         /\ a < b => a * a < b * b
<1>1. a * a \in Nat
  OBVIOUS
<1>2. ASSUME a <= b PROVE a * a <= b * b
  <2>1. a * a <= a * b /\ a * b <= b * b
    BY <1>2
  <2> QED  BY <2>1
<1>3. ASSUME a < b PROVE a * a < b * b
  <2>1. a * a <= a * b /\ a * b < b * b
    BY <1>3
  <2> QED  BY <2>1
<1> QED  BY <1>1, <1>2, <1>3

\* The truth about d and m behind Exceeds(x, y, m, S).
LEMMA ExceedsMeans ==
  ASSUME NEW x \in Nat, NEW y \in Nat, NEW m \in Nat, NEW S \in Nat
  PROVE  LET d == x - y - S * (m * m) IN
         /\ d \in Int
         /\ Exceeds(x, y, m, S) <=> d >= 0 /\ d * d >= (m * m) * (4 * (y * S))
<1>1. S * m * m = S * (m * m) /\ 4 * m * m * y * S = (m * m) * (4 * (y * S))
  OBVIOUS
<1> QED  BY <1>1 DEF Exceeds

\* Who leads by one point leads.
LEMMA LeaderIsGreater ==
  ASSUME NEW x \in Nat, NEW y \in Nat, NEW S \in Nat \ {0}, Exceeds(x, y, 1, S)
  PROVE  y < x
<1>1. x - y - S * (1 * 1) >= 0
  BY ExceedsMeans
<1> QED  BY <1>1

\* Less than j points is less than n points, when j is at most n.
LEMMA LessThanMore ==
  ASSUME NEW x \in Nat, NEW y \in Nat, NEW S \in Nat, NEW n \in Nat, NEW j \in 0..n,
         ~Exceeds(x, y, j, S)
  PROVE  ~Exceeds(x, y, n, S)
<1>1. SUFFICES ASSUME Exceeds(x, y, n, S) PROVE FALSE
  OBVIOUS
<1> DEFINE e == x - y - S * (n * n)
           d == x - y - S * (j * j)
           Q == 4 * (y * S)
<1>2. j * j \in Nat /\ n * n \in Nat /\ j * j <= n * n /\ Q \in Nat
  BY Squares
<1>3. e \in Int /\ e >= 0 /\ e * e >= (n * n) * Q
  BY <1>1, ExceedsMeans
<1>4. d \in Int /\ ~(d >= 0 /\ d * d >= (j * j) * Q)
  BY ExceedsMeans
<1>5. S * (j * j) <= S * (n * n) /\ (j * j) * Q <= (n * n) * Q
  <2> HIDE DEF Q
  <2> QED  BY <1>2
<1>6. d >= e
  <2>1. S * (j * j) \in Int /\ S * (n * n) \in Int
    BY <1>2
  <2> QED  BY <1>5, <2>1
<1> HIDE DEF d, e, Q
<1>7. d * d >= e * e
  BY <1>3, <1>4, <1>6, Squares
<1> DEFINE jQ == (j * j) * Q
           nQ == (n * n) * Q
           dd == d * d
           ee == e * e
<1>8. jQ \in Int /\ nQ \in Int /\ dd \in Int /\ ee \in Int
  BY <1>2, <1>3, <1>4
<1> QED  BY <1>3, <1>4, <1>5, <1>6, <1>7, <1>8

\* The heart of the telescope, in the differences of the squares: d2 = y - x - S m^2
\* and u = z - y - S - 2 m S stand for the two steps, Q = 4 x S, and u + d2 is the
\* difference of z and x less S (m + 1)^2.
LEMMA StepsAdd ==
  ASSUME NEW u \in Int, NEW d2 \in Int, NEW Q \in Nat, NEW S \in Nat, NEW m \in Nat \ {0},
         u + d2 >= 0,
         d2 >= 0 => d2 * d2 < (m * m) * Q,
         u >= 0 => u * u + 4 * (m * (S * u)) < Q + 4 * (S * d2)
  PROVE  (u + d2) * (u + d2) < ((m + 1) * (m + 1)) * Q
<1> DEFINE D == u + d2
           M == m + 1
<1>1. m * m <= M * M /\ 1 <= M * M /\ m * m \in Nat /\ M * M \in Nat
  OBVIOUS
<1>2. (m * m) * Q <= (M * M) * Q /\ 1 * Q <= (M * M) * Q
  <2> HIDE DEF M
  <2>1. ASSUME NEW a \in Nat, NEW b \in Nat, a <= b PROVE a * Q <= b * Q
    BY <2>1
  <2> QED  BY <1>1, <2>1
<1>3. CASE u < 0
  <2>1. d2 \in Nat /\ D \in Nat /\ D < d2
    BY <1>3
  <2>2. D * D < d2 * d2
    <3> HIDE DEF D
    <3> QED  BY <2>1, Squares
  <2>3. d2 * d2 < (m * m) * Q
    BY <2>1
  <2> DEFINE DD == D * D
             dd == d2 * d2
             mQ == (m * m) * Q
             MQ == (M * M) * Q
  <2>4. DD \in Int /\ dd \in Int /\ mQ \in Int /\ MQ \in Int
    BY <1>1
  <2>5. DD < MQ
    <3>1. DD < dd /\ dd < mQ /\ mQ <= MQ
      BY <1>2, <2>2, <2>3
    <3> HIDE DEF DD, dd, mQ, MQ
    <3> QED  BY <2>4, <3>1
  <2> QED  BY <2>5
<1>4. CASE u >= 0 /\ d2 <= m * u
  <2>1. u \in Nat /\ m * u \in Nat /\ u * u \in Nat
    BY <1>4
  <2>2. S * d2 <= m * (S * u)
    <3>1. S * d2 <= S * (m * u)
      <4> DEFINE mu == m * u
      <4>1. mu \in Nat /\ d2 <= mu
        BY <1>4
      <4> HIDE DEF mu
      <4>2. S * d2 <= S * mu
        BY <4>1
      <4> QED  BY <4>2 DEF mu
    <3>2. S * (m * u) = m * (S * u)
      BY <2>1
    <3> QED  BY <3>1, <3>2
  <2>3. u * u < Q
    <3> DEFINE A == m * (S * u)
               B == S * d2
               U == u * u
    <3>1. A \in Int /\ B \in Int /\ U \in Int /\ U + 4 * A < Q + 4 * B /\ B <= A
      BY <1>4, <2>2
    <3> HIDE DEF A, B, U
    <3>2. U < Q
      BY <3>1
    <3> QED  BY <3>2 DEF U
  <2>4. D \in Nat /\ M * u \in Nat /\ D <= M * u
    <3>1. M * u = m * u + u
      BY <2>1
    <3> QED  BY <1>4, <2>1, <3>1
  <2>5. D * D <= (M * u) * (M * u)
    <3> DEFINE Mu == M * u
    <3>1. D \in Nat /\ Mu \in Nat /\ D <= Mu
      BY <2>4
    <3> HIDE DEF D, Mu
    <3>2. D * D <= Mu * Mu
      BY <3>1, Squares
    <3> QED  BY <3>2 DEF Mu
  <2>6. (M * u) * (M * u) = (M * M) * (u * u)
    BY <2>1
  <2>7. (M * M) * (u * u) < (M * M) * Q
    <3>1. ASSUME NEW a \in Nat \ {0}, NEW b \in Nat, b < Q PROVE a * b < a * Q
      BY <3>1
    <3>2. M * M \in Nat \ {0}
      BY <1>1
    <3> HIDE DEF M
    <3> QED  BY <2>1, <2>3, <3>1, <3>2
  <2> DEFINE DD == D * D
             Mu == (M * M) * (u * u)
             MQ == (M * M) * Q
  <2>8. DD \in Int /\ Mu \in Int /\ MQ \in Int
    BY <1>1, <2>1
  <2>9. DD < MQ
    <3>1. DD <= Mu /\ Mu < MQ
      BY <2>5, <2>6, <2>7
    <3> HIDE DEF DD, Mu, MQ
    <3> QED  BY <2>8, <3>1
  <2> QED  BY <2>9
<1>5. CASE u >= 0 /\ d2 > m * u
  <2>1. u \in Nat /\ m * u \in Nat /\ d2 \in Nat /\ D \in Nat
    BY <1>5
  <2>2. m * D \in Nat /\ M * d2 \in Nat /\ m * D <= M * d2
    <3>1. m * D = m * u + m * d2 /\ M * d2 = m * d2 + d2
      BY <2>1
    <3>2. m * d2 \in Nat
      BY <2>1
    <3> QED  BY <1>5, <2>1, <3>1, <3>2
  <2>3. (m * D) * (m * D) <= (M * d2) * (M * d2)
    <3> DEFINE mD == m * D
               Md == M * d2
    <3>1. mD \in Nat /\ Md \in Nat /\ mD <= Md
      BY <2>2
    <3> HIDE DEF mD, Md
    <3>2. mD * mD <= Md * Md
      BY <3>1, Squares
    <3> QED  BY <3>2 DEF mD, Md
  <2>4. (m * D) * (m * D) = (m * m) * (D * D) /\ (M * d2) * (M * d2) = (M * M) * (d2 * d2)
    BY <2>1
  <2>5. (M * M) * (d2 * d2) < (M * M) * ((m * m) * Q)
    <3>1. ASSUME NEW a \in Nat \ {0}, NEW b \in Nat, NEW c \in Nat, b < c PROVE a * b < a * c
      BY <3>1
    <3>2. M * M \in Nat \ {0} /\ d2 * d2 \in Nat /\ (m * m) * Q \in Nat
      BY <1>1, <2>1
    <3>3. d2 * d2 < (m * m) * Q
      BY <2>1
    <3> HIDE DEF M
    <3> QED  BY <3>1, <3>2, <3>3
  <2>6. (M * M) * ((m * m) * Q) = (m * m) * ((M * M) * Q)
    BY <1>1
  <2> DEFINE DD == D * D
             MQ == (M * M) * Q
             mm == m * m
  <2>7. DD \in Nat /\ MQ \in Nat /\ mm \in Nat \ {0}
    BY <1>1, <2>1
  <2>8. mm * DD < mm * MQ
    <3> DEFINE A == (M * M) * (d2 * d2)
    <3>1. A \in Int /\ mm * DD \in Int /\ mm * MQ \in Int
      BY <1>1, <2>1
    <3>2. mm * DD <= A /\ A < mm * MQ
      BY <2>3, <2>4, <2>5, <2>6
    <3> HIDE DEF A, DD, MQ, mm
    <3> QED  BY <3>1, <3>2
  <2>9. DD < MQ
    <3> HIDE DEF DD, MQ, mm
    <3> QED  BY <2>7, <2>8
  <2> QED  BY <2>9
<1>6. m * u \in Int
  OBVIOUS
<1> QED  BY <1>3, <1>4, <1>5, <1>6

\* Less than one point and less than m points are less than m + 1 points.
LEMMA PointsAdd ==
  ASSUME NEW x \in Nat, NEW y \in Nat, NEW z \in Nat, NEW S \in Nat \ {0}, NEW m \in Nat \ {0},
         ~Exceeds(z, y, 1, S), ~Exceeds(y, x, m, S)
  PROVE  ~Exceeds(z, x, m + 1, S)
<1> DEFINE d1 == z - y - S * (1 * 1)
           d2 == y - x - S * (m * m)
           Q  == 4 * (x * S)
           u  == d1 - 2 * (m * S)
           M  == m + 1
           mm == m * m
           Sm == m * S
           SM == S * mm
<1>1. SUFFICES ASSUME Exceeds(z, x, M, S) PROVE FALSE
  OBVIOUS
<1>2. /\ mm \in Nat /\ Q \in Nat /\ Sm \in Nat /\ SM \in Nat /\ M \in Nat
      /\ d1 \in Int /\ d2 \in Int /\ u \in Int
  OBVIOUS
<1>3. z - x - S * (M * M) = u + d2
  <2>1. S * (M * M) = SM + 2 * Sm + S
    OBVIOUS
  <2>2. S * (1 * 1) = S
    OBVIOUS
  <2> HIDE DEF M, Sm, SM
  <2>3. u = z - y - S - 2 * Sm /\ d2 = y - x - SM
    BY <2>2 DEF Sm, SM
  <2> QED  BY <1>2, <2>1, <2>3
<1>4. u + d2 >= 0 /\ (u + d2) * (u + d2) >= (M * M) * Q
  BY <1>1, <1>2, <1>3, ExceedsMeans
<1>5. ~(d1 >= 0 /\ d1 * d1 >= (1 * 1) * (4 * (y * S)))
  BY ExceedsMeans
<1>6. d2 >= 0 => d2 * d2 < mm * Q
  <2>1. ~(d2 >= 0 /\ d2 * d2 >= mm * Q)
    BY ExceedsMeans
  <2>2. d2 * d2 \in Int /\ mm * Q \in Int
    BY <1>2
  <2> HIDE DEF d2, mm, Q
  <2> QED  BY <2>1, <2>2
<1>7. u >= 0 => u * u + 4 * (m * (S * u)) < Q + 4 * (S * d2)
  <2> SUFFICES ASSUME u >= 0 PROVE u * u + 4 * (m * (S * u)) < Q + 4 * (S * d2)
    OBVIOUS
  <2>1. d1 = u + 2 * Sm
    BY <1>2
  <2>2. d1 >= 0
    <3> HIDE DEF d1, u, Sm
    <3> QED  BY <1>2, <2>1
  <2> DEFINE dd == d1 * d1
             ys == 4 * (y * S)
             uu == u * u
             A  == m * (S * u)
             SS == Sm * Sm
             B  == S * d2
  <2>3. dd \in Int /\ ys \in Int /\ uu \in Int /\ A \in Int /\ SS \in Int /\ B \in Int
    OBVIOUS
  <2>4. dd < ys
    <3>1. ~(dd >= (1 * 1) * ys)
      BY <1>5, <2>2
    <3>2. (1 * 1) * ys = ys
      BY <2>3
    <3> HIDE DEF dd, ys
    <3> QED  BY <2>3, <3>1, <3>2
  <2>5. dd = uu + 4 * A + 4 * SS
    <3> HIDE DEF d1, u
    <3>1. (u + 2 * Sm) * (u + 2 * Sm) = u * u + 4 * (Sm * u) + 4 * (Sm * Sm)
      <4> HIDE DEF Sm
      <4> QED  BY <1>2
    <3>2. Sm * u = A
      BY <1>2
    <3> QED  BY <2>1, <3>1, <3>2
  <2>6. ys = Q + 4 * SS + 4 * B
    <3>1. S * y = S * x + S * SM + B
      <4> HIDE DEF d2, SM
      <4>1. y = x + SM + d2
        BY <1>2 DEF d2, SM
      <4> QED  BY <1>2, <4>1
    <3>2. S * SM = SS
      BY <1>2
    <3>3. ys = 4 * (S * y) /\ Q = 4 * (S * x)
      OBVIOUS
    <3> DEFINE Sx == S * x
               Sy == S * y
    <3>4. Sx \in Int /\ Sy \in Int
      OBVIOUS
    <3>5. Sy = Sx + SS + B /\ ys = 4 * Sy /\ Q = 4 * Sx
      BY <3>1, <3>2, <3>3
    <3> HIDE DEF Sx, Sy, SS, B, ys, Q
    <3> QED  BY <2>3, <3>4, <3>5
  <2>7. uu + 4 * A < Q + 4 * B
    <3> HIDE DEF dd, ys, uu, A, SS, B, Q
    <3> QED  BY <1>2, <2>3, <2>4, <2>5, <2>6
  <2> QED  BY <2>7
<1>8. (u + d2) * (u + d2) < (M * M) * Q
  <2> HIDE DEF u, d2, Q
  <2> QED  BY <1>2, <1>4, <1>6, <1>7, StepsAdd
<1> DEFINE D2 == (u + d2) * (u + d2)
           MQ == (M * M) * Q
<1>9. D2 \in Int /\ MQ \in Int /\ D2 < MQ /\ D2 >= MQ
  <2>1. D2 \in Int /\ MQ \in Int
    <3> HIDE DEF u, d2, Q, M
    <3> QED  BY <1>2
  <2> QED  BY <1>4, <1>8, <2>1
<1> HIDE DEF D2, MQ
<1> QED  BY <1>9

-----------------------------------------------------------------------------
(* The sort by score.                                                      *)

\* What a score is computed from.
ScoreData == [rateLimit : Nat, maxConc : Nat, queued : Nat]

LEMMA ScoreType ==
  ASSUME NEW l \in ScoreData, NEW Scale \in Nat
  PROVE  Score2(l, Scale) \in Nat
<1> DEFINE rate     == IF l.rateLimit > 0 THEN l.rateLimit ELSE 10000
           capacity == IF l.maxConc > 0 THEN l.maxConc * 100 ELSE 1000
           a == rate * capacity * Scale
           b == l.queued + 1
<1>1. rate \in Nat /\ capacity \in Nat /\ b \in Nat \ {0}
  BY DEF ScoreData
<1>2. a \in Nat
  <2> HIDE DEF rate, capacity
  <2> QED  BY <1>1
<1>3. a \div b \in Nat
  <2> HIDE DEF a, b
  <2> QED  BY <1>1, <1>2
<1> QED  BY <1>3 DEF Score2

\* Of two clients at most one goes before the other.
LEMMA GoesBeforeOneWay ==
  ASSUME NEW k \in ScoreData, NEW l \in ScoreData, NEW Scale \in Nat \ {0},
         GoesBefore(k, l, Scale)
  PROVE  ~GoesBefore(l, k, Scale)
<1> DEFINE x == Score2(k, Scale)
           y == Score2(l, Scale)
<1>1. x \in Nat /\ y \in Nat
  BY ScoreType
<1>2. Exceeds(x, y, 1, Scale)
  BY DEF GoesBefore
<1> HIDE DEF x, y
<1>3. ~Exceeds(y, x, 1, Scale)
  <2>1. y < x
    BY <1>1, <1>2, LeaderIsGreater
  <2> SUFFICES ASSUME Exceeds(y, x, 1, Scale) PROVE FALSE
    OBVIOUS
  <2>2. x < y
    BY <1>1, LeaderIsGreater
  <2> QED  BY <1>1, <2>1, <2>2
<1> QED  BY <1>3 DEF GoesBefore, x, y

\* SortByScore is the last value of a function that satisfies its equation.
LEMMA SortRecursion ==
  ASSUME NEW s \in Seq(Clients), NEW S, NEW load, NEW Scale
  PROVE  \E g : /\ g[0] = <<>>
                /\ \A k \in 1..Len(s) :
                     g[k] = IF s[k] \in S THEN InsertByScore(g[k - 1], s[k], load, Scale)
                                          ELSE g[k - 1]
                /\ SortByScore(s, S, load, Scale) = g[Len(s)]
<1> DEFINE n == Len(s)
           T == Seq(Clients)
           Step(t, k) == IF s[k] \in S THEN InsertByScore(t, s[k], load, Scale) ELSE t
           Rec(g) == g = [k \in 0..n |-> IF k = 0 THEN <<>> ELSE Step(g[k - 1], k)]
           F == [k \in 1..n |-> [t \in T |-> Step(t, k)]]
<1>1. n \in Nat /\ \A k \in 1..n : s[k] \in Clients
  BY LenProperties
<1>2. \A t \in T, k \in 1..n : Step(t, k) \in T
  <2> SUFFICES ASSUME NEW t \in T, NEW k \in 1..n PROVE Step(t, k) \in T
    OBVIOUS
  <2>1. InsertByScore(t, s[k], load, Scale) \in T
    BY <1>1, InsertionPlace
  <2> QED  BY <2>1
<1>3. <<>> \in T
  OBVIOUS
<1> HIDE DEF Step, T, n
<1>4. F \in Steps(n, T)
  BY <1>2 DEF Steps
<1>5. \A t \in T, k \in 1..n : F[k][t] = Step(t, k)
  OBVIOUS
<1> HIDE DEF F
<1>6. PICK g \in [0..n -> T] : g[0] = <<>> /\ \A k \in 1..n : g[k] = F[k][g[k - 1]]
  <2>1. Courses(n, T, <<>>, F) # {}
    BY <1>1, <1>3, <1>4, Recursion
  <2> QED  BY <2>1 DEF Courses
<1>7. \A k \in 1..n : g[k] = Step(g[k - 1], k)
  <2> SUFFICES ASSUME NEW k \in 1..n PROVE g[k] = Step(g[k - 1], k)
    OBVIOUS
  <2>1. k - 1 \in 0..n
    BY <1>1
  <2> QED  BY <1>5, <1>6, <2>1
<1>8. Rec(g)
  BY <1>1, <1>6, <1>7
<1> DEFINE h == CHOOSE x : Rec(x)
<1>9. Rec(h)
  BY <1>8
<1>10. SortByScore(s, S, load, Scale) = h[n]
  BY DEF SortByScore, Step, n
<1> HIDE DEF h
<1>11. h[0] = <<>> /\ \A k \in 1..n : h[k] = Step(h[k - 1], k)
  BY <1>1, <1>9
<1> QED  BY <1>10, <1>11 DEF Step, n

\* A list no element of which goes before the element on its left.
InOrder(t, load, Scale) ==
  \A i \in 1..(Len(t) - 1) : ~GoesBefore(load[t[i + 1]], load[t[i]], Scale)

\* An insertion adds the element, once, and leaves a list in order in order.
LEMMA InsertionKeeps ==
  ASSUME NEW load \in [Clients -> ScoreData], NEW Scale \in Nat \ {0},
         NEW t \in Seq(Clients), IsInjective(t), InOrder(t, load, Scale),
         NEW x \in Clients, x \notin ToSet(t)
  PROVE  LET u == InsertByScore(t, x, load, Scale) IN
         /\ u \in Seq(Clients) /\ IsInjective(u) /\ ToSet(u) = ToSet(t) \cup {x}
         /\ InOrder(u, load, Scale)
<1> DEFINE n == Len(t)
           u == InsertByScore(t, x, load, Scale)
<1>1. n \in Nat /\ t \in [1..n -> Clients] /\ DOMAIN t = 1..n
  BY LenProperties
<1>2. u \in Seq(Clients) /\ Len(u) = n + 1
  BY InsertionPlace
<1>3. PICK p \in 1..(n + 1) :
        /\ u[p] = x
        /\ \A i \in 1..(p - 1) : u[i] = t[i]
        /\ \A i \in (p + 1)..(n + 1) : u[i] = t[i - 1]
        /\ p > 1 => ~GoesBefore(load[x], load[t[p - 1]], Scale)
        /\ p <= n => GoesBefore(load[x], load[t[p]], Scale)
  BY InsertionPlace
<1> HIDE DEF u, n
<1>4. DOMAIN u = 1..(n + 1) /\ \A i \in 1..(n + 1) : u[i] \in Clients
  BY <1>2, LenProperties
<1>5. ASSUME NEW i \in 1..(n + 1)
      PROVE  i \in 1..(p - 1) \/ i = p \/ i \in (p + 1)..(n + 1)
  BY <1>1
<1>6. \A i \in 1..n : t[i] # x
  BY <1>1 DEF ToSet
<1>7. \A i \in 1..(p - 1) : i \in 1..n /\ u[i] = t[i]
  BY <1>1, <1>3
<1>8. \A i \in (p + 1)..(n + 1) : i - 1 \in p..n /\ i - 1 \in 1..n /\ u[i] = t[i - 1]
  BY <1>1, <1>3
<1>9. ToSet(u) = ToSet(t) \cup {x}
  <2>1. \A i \in 1..(n + 1) : u[i] \in ToSet(t) \cup {x}
    <3> SUFFICES ASSUME NEW i \in 1..(n + 1) PROVE u[i] \in ToSet(t) \cup {x}
      OBVIOUS
    <3>1. \A j \in 1..n : t[j] \in ToSet(t)
      BY <1>1 DEF ToSet
    <3> QED  BY <1>3, <1>5, <1>7, <1>8, <3>1
  <2>2. \A j \in 1..n : \E i \in 1..(n + 1) : u[i] = t[j]
    <3> SUFFICES ASSUME NEW j \in 1..n PROVE \E i \in 1..(n + 1) : u[i] = t[j]
      OBVIOUS
    <3>1. CASE j < p
      <4>1. j \in 1..(p - 1) /\ j \in 1..(n + 1)
        BY <1>1, <3>1
      <4> QED  BY <1>3, <4>1
    <3>2. CASE ~(j < p)
      <4>1. j + 1 \in (p + 1)..(n + 1) /\ j + 1 \in 1..(n + 1) /\ (j + 1) - 1 = j
        BY <1>1, <3>2
      <4>2. u[j + 1] = t[j]
        BY <1>3, <4>1
      <4> QED  BY <4>1, <4>2
    <3> QED  BY <3>1, <3>2
  <2> QED  BY <1>1, <1>3, <1>4, <2>1, <2>2 DEF ToSet
<1>10. IsInjective(u)
  <2>1. \A i, j \in 1..n : t[i] = t[j] => i = j
    BY <1>1 DEF IsInjective
  <2>2. ASSUME NEW i \in 1..(n + 1), NEW j \in 1..(n + 1), u[i] = u[j] PROVE i = j
    <3>1. CASE i \in 1..(p - 1)
      <4>1. j # p
        BY <1>3, <1>6, <1>7, <2>2, <3>1
      <4>2. CASE j \in 1..(p - 1)
        BY <1>7, <2>1, <2>2, <3>1, <4>2
      <4>3. CASE j \in (p + 1)..(n + 1)
        <5>1. i = j - 1
          BY <1>7, <1>8, <2>1, <2>2, <3>1, <4>3
        <5> QED  BY <1>1, <3>1, <4>3, <5>1
      <4> QED  BY <1>5, <4>1, <4>2, <4>3
    <3>2. CASE i = p
      BY <1>3, <1>5, <1>6, <1>7, <1>8, <2>2, <3>2
    <3>3. CASE i \in (p + 1)..(n + 1)
      <4>1. j # p
        BY <1>3, <1>6, <1>8, <2>2, <3>3
      <4>2. CASE j \in 1..(p - 1)
        <5>1. i - 1 = j
          BY <1>7, <1>8, <2>1, <2>2, <3>3, <4>2
        <5> QED  BY <1>1, <3>3, <4>2, <5>1
      <4>3. CASE j \in (p + 1)..(n + 1)
        <5>1. i - 1 = j - 1
          BY <1>8, <2>1, <2>2, <3>3, <4>3
        <5> QED  BY <1>1, <5>1
      <4> QED  BY <1>5, <4>1, <4>2, <4>3
    <3> QED  BY <1>5, <3>1, <3>2, <3>3
  <2> QED  BY <1>4, <2>2 DEF IsInjective
<1>11. InOrder(u, load, Scale)
  <2> SUFFICES ASSUME NEW i \in 1..n PROVE ~GoesBefore(load[u[i + 1]], load[u[i]], Scale)
    BY <1>1, <1>2 DEF InOrder
  <2>1. \A j \in 1..(n - 1) : ~GoesBefore(load[t[j + 1]], load[t[j]], Scale)
    BY DEF InOrder, n
  <2>2. CASE i + 1 \in 1..(p - 1)
    <3>1. i \in 1..(p - 1) /\ i \in 1..(n - 1)
      BY <1>1, <2>2
    <3> QED  BY <1>3, <2>1, <2>2, <3>1
  <2>3. CASE i + 1 = p
    <3>1. i \in 1..(p - 1) /\ i = p - 1 /\ p > 1
      BY <1>1, <2>3
    <3> QED  BY <1>3, <2>3, <3>1
  <2>4. CASE i = p
    <3>1. i + 1 \in (p + 1)..(n + 1) /\ (i + 1) - 1 = p /\ p <= n /\ p \in 1..n
      BY <1>1, <2>4
    <3>2. u[i + 1] = t[p] /\ u[i] = x /\ GoesBefore(load[x], load[t[p]], Scale)
      BY <1>3, <2>4, <3>1
    <3>3. load[x] \in ScoreData /\ load[t[p]] \in ScoreData
      BY <1>1, <3>1
    <3> QED  BY <3>2, <3>3, GoesBeforeOneWay
  <2>5. CASE i \in (p + 1)..n
    <3>1. i \in (p + 1)..(n + 1) /\ i + 1 \in (p + 1)..(n + 1) /\ i - 1 \in 1..(n - 1)
          /\ (i + 1) - 1 = (i - 1) + 1
      BY <1>1, <2>5
    <3>2. u[i] = t[i - 1] /\ u[i + 1] = t[(i - 1) + 1]
      BY <1>3, <3>1
    <3> QED  BY <2>1, <3>1, <3>2
  <2>6. i + 1 \in 1..(p - 1) \/ i + 1 = p \/ i = p \/ i \in (p + 1)..n
    BY <1>1
  <2> QED  BY <2>2, <2>3, <2>4, <2>5, <2>6
<1> QED  BY <1>2, <1>9, <1>10, <1>11 DEF u

\* The sort loses no client, invents none, and leaves a list in order.
LEMMA SortHolds ==
  ASSUME NEW load \in [Clients -> ScoreData], NEW Scale \in Nat \ {0},
         NEW s \in Seq(Clients), IsInjective(s), NEW S
  PROVE  LET t == SortByScore(s, S, load, Scale) IN
         /\ t \in Seq(Clients) /\ IsInjective(t) /\ ToSet(t) = ToSet(s) \cap S
         /\ InOrder(t, load, Scale)
<1> DEFINE n == Len(s)
           Before(k) == {s[i] : i \in 1..k}
           Good(t, k) == /\ t \in Seq(Clients) /\ IsInjective(t)
                         /\ ToSet(t) = Before(k) \cap S /\ InOrder(t, load, Scale)
<1>1. n \in Nat /\ s \in [1..n -> Clients] /\ DOMAIN s = 1..n
  BY LenProperties
<1>2. PICK g : /\ g[0] = <<>>
               /\ \A k \in 1..n : g[k] = IF s[k] \in S
                                         THEN InsertByScore(g[k - 1], s[k], load, Scale)
                                         ELSE g[k - 1]
               /\ SortByScore(s, S, load, Scale) = g[n]
  BY SortRecursion
<1> HIDE DEF n
<1> DEFINE P == {k \in 0..n : Good(g[k], k)}
<1>3. 0 \in P
  <2>1. <<>> \in Seq(Clients) /\ Len(<<>>) = 0 /\ DOMAIN <<>> = {}
    OBVIOUS
  <2>2. IsInjective(<<>>) /\ ToSet(<<>>) = {}
    BY <2>1 DEF IsInjective, ToSet
  <2>3. InOrder(<<>>, load, Scale)
    <3>1. 1..(0 - 1) = {}
      OBVIOUS
    <3> QED  BY <2>1, <3>1 DEF InOrder
  <2>4. Before(0) = {}
    <3>1. 1..0 = {}
      OBVIOUS
    <3> QED  BY <3>1
  <2> HIDE DEF Before
  <2>5. Good(<<>>, 0)
    BY <2>1, <2>2, <2>3, <2>4
  <2> HIDE DEF Good
  <2>6. Good(g[0], 0) /\ 0 \in 0..n
    BY <1>1, <1>2, <2>5
  <2> QED  BY <2>6
<1>4. ASSUME NEW k \in 0..(n - 1), k \in P PROVE k + 1 \in P
  <2> DEFINE x == s[k + 1]
  <2>1. k + 1 \in 1..n /\ k + 1 \in 0..n /\ (k + 1) - 1 = k /\ x \in Clients
    BY <1>1
  <2>2. Good(g[k], k)
    BY <1>4
  <2>3. g[k + 1] = IF x \in S THEN InsertByScore(g[k], x, load, Scale) ELSE g[k]
    BY <1>2, <2>1
  <2>4. Before(k + 1) = Before(k) \cup {x}
    <3>1. 1..(k + 1) = (1..k) \cup {k + 1}
      BY <1>1
    <3> QED  BY <3>1
  <2>5. x \notin Before(k)
    <3>1. \A i \in 1..k : i \in 1..n /\ i # k + 1
      BY <1>1
    <3>2. \A i \in 1..k : s[i] # x
      BY <1>1, <2>1, <3>1 DEF IsInjective
    <3> QED  BY <3>2
  <2> HIDE DEF x, Before
  <2>6. Good(g[k + 1], k + 1)
    <3>1. CASE x \in S
      <4>1. x \notin ToSet(g[k])
        BY <2>2, <2>5
      <4> DEFINE u == InsertByScore(g[k], x, load, Scale)
      <4>2. /\ u \in Seq(Clients) /\ IsInjective(u) /\ ToSet(u) = ToSet(g[k]) \cup {x}
            /\ InOrder(u, load, Scale)
        BY <2>1, <2>2, <4>1, InsertionKeeps
      <4> HIDE DEF u
      <4>3. g[k + 1] = u
        BY <2>3, <3>1 DEF u
      <4> QED  BY <2>2, <2>4, <3>1, <4>2, <4>3
    <3>2. CASE x \notin S
      BY <2>2, <2>3, <2>4, <3>2
    <3> QED  BY <3>1, <3>2
  <2> HIDE DEF Good
  <2> QED  BY <2>1, <2>6
<1>5. n \in P
  <2> HIDE DEF P
  <2>1. \A k \in 0..(n - 1) : k \in P => k + 1 \in P
    BY <1>4
  <2>2. \A k \in 0..n : k \in P
    BY <1>1, <1>3, <2>1, UpTo
  <2> QED  BY <1>1, <2>2
<1>6. Before(n) = ToSet(s)
  BY <1>1 DEF ToSet
<1>7. Good(g[n], n)
  BY <1>5
<1> HIDE DEF Before
<1> QED  BY <1>2, <1>6, <1>7

\* In a list in order the k-th is less than k - 1 points above the first.
LEMMA FirstIsNearBest ==
  ASSUME NEW load \in [Clients -> ScoreData], NEW Scale \in Nat \ {0},
         NEW t \in Seq(Clients), InOrder(t, load, Scale), NEW k \in 2..Len(t)
  PROVE  ~Exceeds(Score2(load[t[k]], Scale), Score2(load[t[1]], Scale), k - 1, Scale)
<1> DEFINE n     == Len(t)
           sq(i) == Score2(load[t[i]], Scale)
           P     == {m \in Nat : ~Exceeds(sq(m + 2), sq(1), m + 1, Scale)}
<1>1. n \in Nat /\ t \in [1..n -> Clients]
  BY LenProperties
<1>2. \A i \in 1..n : sq(i) \in Nat
  BY <1>1, ScoreType
<1>3. \A i \in 1..(n - 1) : ~Exceeds(sq(i + 1), sq(i), 1, Scale)
  BY DEF InOrder, GoesBefore
<1> HIDE DEF n, sq
<1>4. 0 \in P
  <2>1. 1 \in 1..(n - 1) /\ 1 + 1 = 2 /\ 0 + 2 = 2 /\ 0 + 1 = 1
    BY <1>1 DEF n
  <2>2. ~Exceeds(sq(2), sq(1), 1, Scale)
    BY <1>3, <2>1
  <2> QED  BY <2>1, <2>2
<1>5. ASSUME NEW m \in 0..((n - 2) - 1), m \in P PROVE m + 1 \in P
  <2>1. /\ m + 2 \in 1..(n - 1) /\ (m + 2) + 1 = m + 3 /\ (m + 1) + 2 = m + 3
        /\ m + 3 \in 1..n /\ m + 2 \in 1..n /\ 1 \in 1..n /\ m + 1 \in Nat \ {0}
    BY <1>1
  <2>2. ~Exceeds(sq(m + 3), sq(m + 2), 1, Scale)
    BY <1>3, <2>1
  <2>3. ~Exceeds(sq(m + 2), sq(1), m + 1, Scale)
    BY <1>5
  <2>4. sq(m + 3) \in Nat /\ sq(m + 2) \in Nat /\ sq(1) \in Nat
    BY <1>2, <2>1
  <2>5. ~Exceeds(sq(m + 3), sq(1), (m + 1) + 1, Scale)
    <3> DEFINE z == sq(m + 3)
               y == sq(m + 2)
               x == sq(1)
               h == m + 1
    <3>1. z \in Nat /\ y \in Nat /\ x \in Nat /\ h \in Nat \ {0}
      BY <2>1, <2>4
    <3>2. ~Exceeds(z, y, 1, Scale) /\ ~Exceeds(y, x, h, Scale)
      BY <2>2, <2>3
    <3> HIDE DEF z, y, x, h
    <3>3. ~Exceeds(z, x, h + 1, Scale)
      BY <3>1, <3>2, PointsAdd
    <3> QED  BY <3>3 DEF z, x, h
  <2> QED  BY <2>1, <2>5
<1>6. k - 2 \in P
  <2> HIDE DEF P
  <2>1. n - 2 \in Nat /\ k - 2 \in 0..(n - 2)
    BY <1>1 DEF n
  <2>2. \A m \in 0..((n - 2) - 1) : m \in P => m + 1 \in P
    BY <1>5
  <2>3. \A m \in 0..(n - 2) : m \in P
    BY <1>4, <2>1, <2>2, UpTo
  <2> QED  BY <2>1, <2>3
<1>7. (k - 2) + 2 = k /\ (k - 2) + 1 = k - 1
  OBVIOUS
<1>8. ~Exceeds(sq(k), sq(1), k - 1, Scale)
  BY <1>6, <1>7
<1> QED  BY <1>8 DEF sq

-----------------------------------------------------------------------------
(* The choice.                                                             *)

\* In a list sorted by weight no client is lighter than a later one.
LEMMA EarlierIsHeavier ==
  ASSUME NEW s \in Seq(Clients), SortedByWeight(s),
         NEW i \in 1..Len(s), NEW j \in i..Len(s)
  PROVE  Weight[s[i]] >= Weight[s[j]]
<1> DEFINE n == Len(s)
           w(k) == Weight[s[k]]
           P == {m \in Nat : w(i) >= w(i + m)}
<1>1. n \in Nat /\ \A k \in 1..n : s[k] \in Clients
  BY LenProperties
<1>2. \A k \in 1..n : w(k) \in Nat
  BY <1>1, ProvidersAssumption
<1>3. \A k \in 1..(n - 1) : w(k) >= w(k + 1)
  BY DEF SortedByWeight
<1>4. i \in 1..n /\ j \in i..n
  OBVIOUS
<1> HIDE DEF n, w
<1>5. 0 \in P
  <2>1. i + 0 = i /\ w(i) \in Nat
    BY <1>2, <1>4
  <2> QED  BY <2>1
<1>6. ASSUME NEW m \in 0..((n - i) - 1), m \in P PROVE m + 1 \in P
  <2>1. i + m \in 1..(n - 1) /\ i + m \in 1..n /\ (i + m) + 1 \in 1..n
        /\ (i + m) + 1 = i + (m + 1)
    BY <1>1, <1>4
  <2>2. w(i + m) >= w(i + (m + 1))
    BY <1>3, <2>1
  <2>3. w(i) >= w(i + m)
    BY <1>6
  <2>4. w(i) \in Nat /\ w(i + m) \in Nat /\ w(i + (m + 1)) \in Nat
    BY <1>2, <1>4, <2>1
  <2>5. w(i) >= w(i + (m + 1))
    BY <2>2, <2>3, <2>4
  <2> QED  BY <2>5
<1>7. j - i \in P
  <2> HIDE DEF P
  <2>1. n - i \in Nat /\ j - i \in 0..(n - i)
    BY <1>1, <1>4
  <2>2. \A m \in 0..((n - i) - 1) : m \in P => m + 1 \in P
    BY <1>6
  <2>3. \A m \in 0..(n - i) : m \in P
    BY <1>5, <2>1, <2>2, UpTo
  <2> QED  BY <2>1, <2>3
<1>8. i + (j - i) = j
  BY <1>4
<1>9. w(i) >= w(j)
  BY <1>7, <1>8
<1> QED  BY <1>9 DEF w

\* The first client of a list in a set that the list meets.
LEMMA FirstInIsFirst ==
  ASSUME NEW s \in Seq(Clients), NEW S, S \subseteq ToSet(s), S # {}
  PROVE  \E f \in 1..Len(s) : /\ FirstIn(s, S) = s[f] /\ s[f] \in S
                              /\ \A j \in 1..(f - 1) : s[j] \notin S
<1> DEFINE n == Len(s)
           T == {i \in 1..n : s[i] \in S}
           first(i) == s[i] \in S /\ \A j \in 1..(i - 1) : s[j] \notin S
           f == CHOOSE i \in DOMAIN s : first(i)
<1>1. n \in Nat /\ DOMAIN s = 1..n
  BY LenProperties
<1>2. T # {} /\ T \subseteq Nat
  BY <1>1 DEF ToSet
<1>3. PICK m \in T : \A i \in T : ~(<<i, m>> \in OpToRel(<, Nat))
  <2> HIDE DEF T
  <2> QED  BY <1>2, NatLessThanWellFounded, WFMin
<1>4. first(m)
  <2>1. ASSUME NEW j \in 1..(m - 1), s[j] \in S PROVE FALSE
    <3>1. j \in T /\ j \in Nat /\ m \in Nat /\ j < m
      BY <1>1, <2>1
    <3>2. <<j, m>> \in OpToRel(<, Nat)
      BY <3>1 DEF OpToRel
    <3> QED  BY <1>3, <3>1, <3>2
  <2> QED  BY <2>1
<1>5. f \in 1..n /\ first(f)
  BY <1>1, <1>4
<1>6. FirstIn(s, S) = s[f]
  BY DEF FirstIn
<1> HIDE DEF f
<1> QED  BY <1>5, <1>6

\* It is one of the heaviest clients of the list in that set.
LEMMA FirstIsHeaviest ==
  ASSUME NEW s \in Seq(Clients), SortedByWeight(s), NEW S, S \subseteq ToSet(s), S # {}
  PROVE  FirstIn(s, S) \in S /\ \A c \in S : Weight[FirstIn(s, S)] >= Weight[c]
<1> DEFINE n == Len(s)
<1>1. n \in Nat /\ DOMAIN s = 1..n
  BY LenProperties
<1>2. PICK f \in 1..n : /\ FirstIn(s, S) = s[f] /\ s[f] \in S
                        /\ \A j \in 1..(f - 1) : s[j] \notin S
  BY FirstInIsFirst
<1>3. ASSUME NEW c \in S PROVE Weight[s[f]] >= Weight[c]
  <2>1. PICK i \in 1..n : s[i] = c
    BY <1>1 DEF ToSet
  <2>2. i \in f..n
    BY <1>1, <1>2, <2>1
  <2>3. Weight[s[f]] >= Weight[s[i]]
    BY <2>2, EarlierIsHeavier
  <2> QED  BY <2>1, <2>3
<1> QED  BY <1>2, <1>3

\* getRpcClient returns a candidate: one that can make the request now if any can,
\* of these a preferred one if there is one, and of these one of the heaviest.
LEMMA ChoiceHolds ==
  ASSUME NEW p, p.order \in Seq(Clients), ToSet(p.order) = Clients, SortedByWeight(p.order),
         IsInjective(p.order), p.load \in [Clients -> ScoreData], p.preferHttp \in BOOLEAN,
         NEW Scale \in Nat \ {0},
         NEW cands, cands \subseteq Clients, cands # {}, NEW k \in BOOLEAN
  PROVE  LET c         == Choice(p, cands, k, Scale)
             preferred(r) == ~(p.preferHttp /\ ~k /\ r \in Duplex)
             sorted    == SortByScore(p.order, cands, p.load, Scale)
         IN /\ c \in cands
            /\ cands \cap p.free # {} =>
                 /\ c \in p.free
                 /\ \A r \in cands \cap p.free :
                      \/ preferred(c) /\ ~preferred(r)
                      \/ preferred(c) = preferred(r) /\ Weight[c] >= Weight[r]
            /\ cands \cap p.free = {} => c = sorted[1]
<1> DEFINE c      == Choice(p, cands, k, Scale)
           taken  == cands \cap p.free
           ideal  == Ideal(p, taken, k)
           sorted == SortByScore(p.order, cands, p.load, Scale)
           preferred(r) == ~(p.preferHttp /\ ~k /\ r \in Duplex)
<1>1. /\ p.order \in Seq(Clients) /\ ToSet(p.order) = Clients /\ SortedByWeight(p.order)
      /\ IsInjective(p.order) /\ p.load \in [Clients -> ScoreData] /\ p.preferHttp \in BOOLEAN
  OBVIOUS
<1>2. c = IF ideal # {} THEN FirstIn(p.order, ideal)
          ELSE IF taken # {} THEN FirstIn(p.order, taken) ELSE sorted[1]
  BY DEF Choice
<1>3. ideal = {r \in taken : preferred(r)} /\ taken \subseteq Clients
  BY DEF Ideal
<1> HIDE DEF c, ideal, sorted
<1>4. CASE ideal # {}
  <2>1. c \in ideal /\ \A r \in ideal : Weight[c] >= Weight[r]
    BY <1>1, <1>2, <1>3, <1>4, FirstIsHeaviest
  <2> QED  BY <1>3, <2>1 DEF c
<1>5. CASE ideal = {} /\ taken # {}
  <2>1. c \in taken /\ \A r \in taken : Weight[c] >= Weight[r]
    BY <1>1, <1>2, <1>3, <1>5, FirstIsHeaviest
  <2>2. ~preferred(c) /\ \A r \in taken : ~preferred(r)
    BY <1>3, <1>5, <2>1
  <2> QED  BY <2>1, <2>2 DEF c
<1>6. CASE ideal = {} /\ taken = {}
  <2>1. sorted \in Seq(Clients) /\ ToSet(sorted) = cands
    <3> DEFINE o == p.order
               l == p.load
               t == SortByScore(o, cands, l, Scale)
    <3>1. o \in Seq(Clients) /\ IsInjective(o) /\ l \in [Clients -> ScoreData]
          /\ ToSet(o) = Clients /\ Scale \in Nat \ {0}
      BY <1>1
    <3> HIDE DEF o, l
    <3>2. t \in Seq(Clients) /\ ToSet(t) = ToSet(o) \cap cands
      BY <3>1, SortHolds
    <3> HIDE DEF t
    <3>3. t = sorted
      BY DEF t, sorted, o, l
    <3> QED  BY <3>1, <3>2, <3>3
  <2>2. sorted # <<>>
    <3>1. ToSet(<<>>) = {}
      BY DEF ToSet
    <3> QED  BY <2>1, <3>1
  <2>3. 1 \in DOMAIN sorted
    BY <2>1, <2>2, EmptySeq, LenProperties
  <2>4. sorted[1] \in cands
    BY <2>1, <2>3 DEF ToSet
  <2>5. c = sorted[1]
    BY <1>2, <1>6
  <2> QED  BY <1>6, <2>4, <2>5 DEF c, sorted
<1> QED  BY <1>4, <1>5, <1>6

-----------------------------------------------------------------------------
(* The weight groups.                                                      *)

\* FlattenSeq is the last value of a function that satisfies its equation.
LEMMA FlattenRecursion ==
  ASSUME NEW H \in Seq(Seq(Clients)), H # <<>>
  PROVE  \E f : /\ f[1] = H[1] /\ \A i \in 2..Len(H) : f[i] = f[i - 1] \o H[i]
                /\ \A i \in 1..Len(H) : f[i] \in Seq(Clients)
                /\ FlattenSeq(H) = f[Len(H)]
<1> DEFINE n == Len(H)
           T == Seq(Clients)
           F == [k \in 1..(n - 1) |-> [t \in T |-> t \o H[k + 1]]]
           Rec(f) == f = [i \in 1..n |-> IF i = 1 THEN H[i] ELSE f[i - 1] \o H[i]]
<1>1. n \in Nat /\ n # 0 /\ \A i \in 1..n : H[i] \in T
  BY EmptySeq, LenProperties, ElementOfSeq
<1>2. \A t \in T, u \in T : t \o u \in T
  BY ConcatProperties
<1> HIDE DEF n, T
<1>3. n - 1 \in Nat /\ H[1] \in T /\ \A k \in 1..(n - 1) : k + 1 \in 1..n
  BY <1>1
<1>4. F \in Steps(n - 1, T)
  <2>1. \A k \in 1..(n - 1) : H[k + 1] \in T
    BY <1>1, <1>3
  <2> QED  BY <1>2, <2>1 DEF Steps
<1>5. \A k \in 1..(n - 1), t \in T : F[k][t] = t \o H[k + 1]
  OBVIOUS
<1> HIDE DEF F
<1>6. PICK g : g \in Courses(n - 1, T, H[1], F)
  BY <1>3, <1>4, Recursion
<1>7. /\ g \in [0..(n - 1) -> T] /\ g[0] = H[1]
      /\ \A k \in 1..(n - 1) : g[k] = g[k - 1] \o H[k + 1]
  <2>1. /\ g \in [0..(n - 1) -> T] /\ g[0] = H[1]
        /\ \A k \in 1..(n - 1) : g[k] = F[k][g[k - 1]]
    BY <1>6 DEF Courses
  <2>2. \A k \in 1..(n - 1) : g[k - 1] \in T
    <3>1. \A k \in 1..(n - 1) : k - 1 \in 0..(n - 1)
      BY <1>1
    <3> QED  BY <2>1, <3>1
  <2> QED  BY <1>5, <2>1, <2>2
<1> DEFINE f == [i \in 1..n |-> g[i - 1]]
<1>8. \A i \in 2..n : f[i] = f[i - 1] \o H[i]
  <2> SUFFICES ASSUME NEW i \in 2..n PROVE f[i] = f[i - 1] \o H[i]
    OBVIOUS
  <2>1. i \in 1..n /\ i - 1 \in 1..n /\ i - 1 \in 1..(n - 1) /\ (i - 1) + 1 = i
    BY <1>1
  <2>2. f[i] = g[i - 1] /\ f[i - 1] = g[(i - 1) - 1]
    BY <2>1
  <2>3. g[i - 1] = g[(i - 1) - 1] \o H[(i - 1) + 1]
    BY <1>7, <2>1
  <2> QED  BY <2>1, <2>2, <2>3
<1>9. f[1] = H[1] /\ \A i \in 1..n : f[i] \in T
  <2>1. 1 \in 1..n /\ 1 - 1 = 0 /\ \A i \in 1..n : i - 1 \in 0..(n - 1)
    BY <1>1
  <2> QED  BY <1>7, <2>1
<1>10. Rec(f)
  <2>1. ASSUME NEW i \in 1..n PROVE f[i] = IF i = 1 THEN H[i] ELSE f[i - 1] \o H[i]
    <3>1. i = 1 \/ i \in 2..n
      BY <1>1
    <3> HIDE DEF f
    <3> QED  BY <1>8, <1>9, <3>1
  <2> QED  BY <2>1
<1> DEFINE h == CHOOSE x : Rec(x)
<1>11. Rec(h)
  BY <1>10
<1>12. FlattenSeq(H) = h[n]
  BY <1>1 DEF FlattenSeq, n
<1> HIDE DEF h, f
<1>13. h[1] = H[1] /\ \A i \in 2..n : h[i] = h[i - 1] \o H[i]
  <2>1. \A i \in 1..n : h[i] = IF i = 1 THEN H[i] ELSE h[i - 1] \o H[i]
    BY <1>11
  <2>2. 1 \in 1..n /\ \A i \in 2..n : i \in 1..n /\ i # 1
    BY <1>1
  <2> QED  BY <2>1, <2>2
<1> DEFINE P == {k \in Nat : h[k + 1] \in T}
<1>14. \A i \in 1..n : h[i] \in T
  <2>1. 0 \in P
    BY <1>3, <1>13
  <2>2. ASSUME NEW k \in 0..((n - 1) - 1), k \in P PROVE k + 1 \in P
    <3>1. (k + 1) + 1 \in 2..n /\ ((k + 1) + 1) - 1 = k + 1 /\ (k + 1) + 1 \in 1..n
      BY <1>1
    <3>2. h[(k + 1) + 1] = h[k + 1] \o H[(k + 1) + 1]
      BY <1>13, <3>1
    <3>3. h[k + 1] \in T /\ H[(k + 1) + 1] \in T
      BY <1>1, <2>2, <3>1
    <3>4. h[(k + 1) + 1] \in T
      BY <1>2, <3>2, <3>3
    <3> QED  BY <1>1, <3>4
  <2>3. \A k \in 0..(n - 1) : k \in P
    <3> HIDE DEF P
    <3>1. \A k \in 0..((n - 1) - 1) : k \in P => k + 1 \in P
      BY <2>2
    <3> QED  BY <1>3, <2>1, <3>1, UpTo
  <2> SUFFICES ASSUME NEW i \in 1..n PROVE h[i] \in T
    OBVIOUS
  <2>4. i - 1 \in 0..(n - 1) /\ (i - 1) + 1 = i
    BY <1>1
  <2> QED  BY <2>3, <2>4
<1> QED  BY <1>12, <1>13, <1>14 DEF n, T

\* One more list at the end of a list of lists.
LEMMA FlattenAppend ==
  ASSUME NEW G \in Seq(Seq(Clients)), NEW l \in Seq(Clients)
  PROVE  /\ FlattenSeq(G) \in Seq(Clients)
         /\ FlattenSeq(Append(G, l)) = FlattenSeq(G) \o l
<1> DEFINE n == Len(G)
           H == Append(G, l)
<1>1. n \in Nat /\ H \in Seq(Seq(Clients)) /\ H # <<>> /\ Len(H) = n + 1
      /\ H[n + 1] = l /\ \A i \in 1..n : H[i] = G[i]
  BY LenProperties, AppendProperties
<1> HIDE DEF n, H
<1>2. PICK f : /\ f[1] = H[1] /\ \A i \in 2..(n + 1) : f[i] = f[i - 1] \o H[i]
               /\ FlattenSeq(H) = f[n + 1]
  BY <1>1, FlattenRecursion
<1>3. CASE G = <<>>
  <2>1. Len(<<>>) = 0
    OBVIOUS
  <2>2. n = 0
    BY <1>3, <2>1 DEF n
  <2>3. FlattenSeq(G) = <<>>
    BY <1>3, <2>1 DEF FlattenSeq
  <2>4. FlattenSeq(H) = l
    BY <1>1, <1>2, <2>2
  <2>5. <<>> \o l = l /\ <<>> \in Seq(Clients)
    BY ConcatEmptySeq
  <2> QED  BY <2>3, <2>4, <2>5 DEF H
<1>4. CASE G # <<>>
  <2>1. PICK e : /\ e[1] = G[1] /\ \A i \in 2..n : e[i] = e[i - 1] \o G[i]
                 /\ \A i \in 1..n : e[i] \in Seq(Clients)
                 /\ FlattenSeq(G) = e[n]
    BY <1>4, FlattenRecursion DEF n
  <2>2. n \in Nat \ {0} /\ n - 1 \in Nat
    BY <1>1, <1>4, EmptySeq DEF n
  <2> DEFINE P == {k \in Nat : f[k + 1] = e[k + 1]}
  <2>3. 0 \in P
    BY <1>1, <1>2, <2>1, <2>2
  <2>4. ASSUME NEW k \in 0..((n - 1) - 1), k \in P PROVE k + 1 \in P
    <3> DEFINE i == (k + 1) + 1
    <3>1. i \in 2..n /\ i \in 2..(n + 1) /\ i \in 1..n /\ i - 1 = k + 1
      BY <2>2
    <3>2. f[i] = f[k + 1] \o H[i] /\ e[i] = e[k + 1] \o G[i] /\ H[i] = G[i]
      BY <1>1, <1>2, <2>1, <3>1
    <3>3. f[k + 1] = e[k + 1]
      BY <2>4
    <3>4. f[i] = e[i] /\ k + 1 \in Nat
      BY <2>2, <3>2, <3>3
    <3> QED  BY <3>4
  <2>5. \A k \in 0..(n - 1) : k \in P
    <3> HIDE DEF P
    <3>1. \A k \in 0..((n - 1) - 1) : k \in P => k + 1 \in P
      BY <2>4
    <3> QED  BY <2>2, <2>3, <3>1, UpTo
  <2>6. f[n] = e[n]
    <3>1. n - 1 \in 0..(n - 1) /\ (n - 1) + 1 = n
      BY <2>2
    <3> QED  BY <2>5, <3>1
  <2>7. f[n + 1] = f[n] \o l
    <3>1. n + 1 \in 2..(n + 1) /\ (n + 1) - 1 = n
      BY <2>2
    <3> QED  BY <1>1, <1>2, <3>1
  <2>8. e[n] \in Seq(Clients)
    BY <2>1, <2>2
  <2> QED  BY <1>2, <2>1, <2>6, <2>7, <2>8 DEF H
<1> QED  BY <1>3, <1>4

\* GroupsAreWeights for the first k clients of the list s: nonempty groups, each of
\* one weight, in descending order, the last one that of the last client.
GroupsOf(G, s, k) ==
  /\ G \in Seq(Seq(Clients)) /\ FlattenSeq(G) = SubSeq(s, 1, k)
  /\ \A i \in 1..Len(G) :
       G[i] # <<>> /\ \A j \in 1..Len(G[i]) : Weight[G[i][j]] = Weight[G[i][1]]
  /\ \A i \in 1..(Len(G) - 1) : Weight[G[i][1]] > Weight[G[i + 1][1]]
  /\ \A j \in 1..k : \E i \in 1..Len(G) : s[j] \in ToSet(G[i])
  /\ \A i \in 1..Len(G) : ToSet(G[i]) \subseteq ToSet(s)
  /\ IF k = 0 THEN G = <<>> ELSE G # <<>> /\ Weight[Last(G)[1]] = Weight[s[k]]

\* The first k + 1 clients of a list are the first k and the next one.
LEMMA PrefixGrows ==
  ASSUME NEW s \in Seq(Clients), NEW k \in 0..(Len(s) - 1)
  PROVE  SubSeq(s, 1, k + 1) = SubSeq(s, 1, k) \o <<s[k + 1]>>
<1>1. Len(s) \in Nat
  BY LenProperties
<1>2. k + 1 \in 1..Len(s) /\ 1 \in 1..Len(s) /\ k + 1 \in 1..Len(s) /\ (k + 1) - 1 = k
  BY <1>1
<1> QED  BY <1>2, SubSeqRecursiveSecond

\* Concatenation of lists of clients is associative.
LEMMA ConcatClients ==
  ASSUME NEW l \in Seq(Clients), NEW m \in Seq(Clients), NEW r \in Seq(Clients)
  PROVE  l \o (m \o r) = (l \o m) \o r
BY ConcatAssociative

\* A client of another weight opens a group.
LEMMA GroupOpens ==
  ASSUME NEW s \in Seq(Clients), SortedByWeight(s), NEW k \in 0..(Len(s) - 1),
         NEW G, GroupsOf(G, s, k),
         ~(G # <<>> /\ Weight[Last(G)[1]] = Weight[s[k + 1]])
  PROVE  GroupsOf(Append(G, <<s[k + 1]>>), s, k + 1)
<1> DEFINE c == s[k + 1]
           g == <<c>>
           H == Append(G, g)
           n == Len(G)
<1>1. Len(s) \in Nat /\ k + 1 \in 1..Len(s) /\ c \in Clients /\ DOMAIN s = 1..Len(s)
  BY LenProperties, ElementOfSeq
<1>2. g \in Seq(Clients) /\ Len(g) = 1 /\ g[1] = c /\ g # <<>> /\ ToSet(g) = {c}
  BY <1>1 DEF ToSet
<1>3. G \in Seq(Seq(Clients)) /\ n \in Nat
  BY LenProperties DEF GroupsOf
<1> HIDE DEF g
<1>4. /\ H \in Seq(Seq(Clients)) /\ Len(H) = n + 1 /\ H[n + 1] = g /\ H # <<>>
      /\ \A i \in 1..n : H[i] = G[i]
  <2>1. /\ H \in Seq(Seq(Clients)) /\ H # <<>>
        /\ Len(H) = Len(G) + 1 /\ H[Len(G) + 1] = g
        /\ \A i \in 1..Len(G) : H[i] = G[i]
    <3> DEFINE T == Seq(Clients)
    <3>1. G \in Seq(T) /\ g \in T
      BY <1>2, <1>3
    <3> HIDE DEF T
    <3>2. /\ Append(G, g) \in Seq(T) /\ Append(G, g) # <<>>
          /\ Len(Append(G, g)) = Len(G) + 1 /\ Append(G, g)[Len(G) + 1] = g
          /\ \A i \in 1..Len(G) : Append(G, g)[i] = G[i]
      BY <3>1, AppendProperties
    <3> QED  BY <3>2 DEF T
  <2> QED  BY <2>1
<1>5. FlattenSeq(H) = SubSeq(s, 1, k + 1)
  <2>1. FlattenSeq(G) = SubSeq(s, 1, k)
    BY DEF GroupsOf
  <2>2. FlattenSeq(H) = FlattenSeq(G) \o g
    BY <1>2, <1>3, FlattenAppend
  <2>3. SubSeq(s, 1, k + 1) = SubSeq(s, 1, k) \o g
    BY PrefixGrows DEF g
  <2> QED  BY <2>1, <2>2, <2>3
<1> HIDE DEF H, n
<1>6. \A i \in 1..(n + 1) : i \in 1..n \/ i = n + 1
  BY <1>3
<1>7. \A i \in 1..(n + 1) :
        H[i] # <<>> /\ \A j \in 1..Len(H[i]) : Weight[H[i][j]] = Weight[H[i][1]]
  <2>1. \A i \in 1..n :
          G[i] # <<>> /\ \A j \in 1..Len(G[i]) : Weight[G[i][j]] = Weight[G[i][1]]
    BY DEF GroupsOf, n
  <2>2. g # <<>> /\ \A j \in 1..Len(g) : Weight[g[j]] = Weight[g[1]]
    <3>1. \A j \in 1..1 : j = 1
      OBVIOUS
    <3> QED  BY <1>2, <3>1
  <2> SUFFICES ASSUME NEW i \in 1..(n + 1)
               PROVE  H[i] # <<>> /\ \A j \in 1..Len(H[i]) : Weight[H[i][j]] = Weight[H[i][1]]
    OBVIOUS
  <2>3. H[i] = g \/ (i \in 1..n /\ H[i] = G[i])
    BY <1>4, <1>6
  <2> QED  BY <2>1, <2>2, <2>3
<1>8. ASSUME n > 0 PROVE Weight[G[n][1]] > Weight[c]
  <2>1. G # <<>>
    <3>1. Len(<<>>) = 0
      OBVIOUS
    <3> QED  BY <1>8, <3>1 DEF n
  <2>2. k > 0
    BY <2>1 DEF GroupsOf
  <2>3. Weight[G[n][1]] = Weight[s[k]] /\ Weight[G[n][1]] # Weight[c]
    BY <2>1, <2>2 DEF GroupsOf, Last, n
  <2>4. Weight[s[k]] >= Weight[c]
    <3>1. k \in 1..(Len(s) - 1)
      BY <1>1, <2>2
    <3> QED  BY <3>1 DEF SortedByWeight
  <2>5. Weight[s[k]] \in Nat /\ Weight[c] \in Nat
    <3>1. k \in 1..Len(s)
      BY <1>1, <2>2
    <3> QED  BY <1>1, <3>1, ProvidersAssumption, ElementOfSeq
  <2> QED  BY <2>3, <2>4, <2>5
<1>9. \A i \in 1..n : Weight[H[i][1]] > Weight[H[i + 1][1]]
  <2> SUFFICES ASSUME NEW i \in 1..n PROVE Weight[H[i][1]] > Weight[H[i + 1][1]]
    OBVIOUS
  <2>1. CASE i = n
    <3>1. n \in 1..n /\ n > 0
      BY <1>3, <2>1
    <3>2. H[i] = G[n] /\ H[i + 1][1] = c
      BY <1>2, <1>4, <2>1, <3>1
    <3> QED  BY <1>8, <3>1, <3>2
  <2>2. CASE i # n
    <3>1. i \in 1..(n - 1) /\ i + 1 \in 1..n
      BY <1>3, <2>2
    <3> QED  BY <1>4, <3>1 DEF GroupsOf, n
  <2> QED  BY <2>1, <2>2
<1>10. \A j \in 1..(k + 1) : \E i \in 1..(n + 1) : s[j] \in ToSet(H[i])
  <2> SUFFICES ASSUME NEW j \in 1..(k + 1) PROVE \E i \in 1..(n + 1) : s[j] \in ToSet(H[i])
    OBVIOUS
  <2>1. CASE j = k + 1
    <3>1. s[j] \in ToSet(H[n + 1]) /\ n + 1 \in 1..(n + 1)
      BY <1>2, <1>3, <1>4, <2>1
    <3> QED  BY <3>1
  <2>2. CASE j # k + 1
    <3>1. j \in 1..k
      BY <2>2
    <3>2. PICK i \in 1..n : s[j] \in ToSet(G[i])
      BY <3>1 DEF GroupsOf, n
    <3>3. i \in 1..(n + 1) /\ s[j] \in ToSet(H[i])
      BY <1>3, <1>4, <3>2
    <3> QED  BY <3>3
  <2> QED  BY <2>1, <2>2
<1>11. \A i \in 1..(n + 1) : ToSet(H[i]) \subseteq ToSet(s)
  <2>1. c \in ToSet(s)
    BY <1>1 DEF ToSet
  <2>2. \A i \in 1..n : ToSet(G[i]) \subseteq ToSet(s)
    BY DEF GroupsOf, n
  <2> HIDE DEF c
  <2> QED  BY <1>2, <1>4, <1>6, <2>1, <2>2
<1>12. Last(H) = g
  BY <1>4 DEF Last
<1>13. (n + 1) - 1 = n
  BY <1>3
<1>14. k + 1 # 0 /\ H # <<>> /\ Weight[Last(H)[1]] = Weight[s[k + 1]]
  BY <1>2, <1>4, <1>12
<1> HIDE DEF c
<1>15. GroupsOf(H, s, k + 1)
  BY <1>4, <1>5, <1>7, <1>9, <1>10, <1>11, <1>13, <1>14 DEF GroupsOf
<1> QED  BY <1>15 DEF H, g, c

\* A client of the weight of the last group joins it.
LEMMA GroupGrows ==
  ASSUME NEW s \in Seq(Clients), NEW k \in 0..(Len(s) - 1), NEW G, GroupsOf(G, s, k),
         G # <<>>, Weight[Last(G)[1]] = Weight[s[k + 1]]
  PROVE  GroupsOf(Append(Front(G), Append(Last(G), s[k + 1])), s, k + 1)
<1> DEFINE c == s[k + 1]
           n == Len(G)
           m == n - 1
           F == Front(G)
           L == Last(G)
           g == Append(L, c)
           H == Append(F, g)
<1>1. Len(s) \in Nat /\ k + 1 \in 1..Len(s) /\ c \in Clients /\ DOMAIN s = 1..Len(s)
  BY LenProperties, ElementOfSeq
<1>2. /\ G \in Seq(Seq(Clients)) /\ n \in Nat \ {0} /\ m \in Nat /\ n \in 1..n /\ m + 1 = n
      /\ \A i \in 1..n : i \in 1..m \/ i = n
  <2>1. G \in Seq(Seq(Clients))
    BY DEF GroupsOf
  <2>2. n \in Nat \ {0}
    BY <2>1, EmptySeq
  <2> HIDE DEF n
  <2> QED  BY <2>1, <2>2
<1>3. \A i \in 1..n : G[i] \in Seq(Clients)
  BY <1>2, ElementOfSeq
<1>4. F \in Seq(Seq(Clients)) /\ Len(F) = m /\ \A i \in 1..m : F[i] = G[i]
  <2>1. \A i \in 1..m : G[i] \in Seq(Clients)
    <3>1. \A i \in 1..m : i \in 1..n
      <4> HIDE DEF n
      <4> QED  BY <1>2
    <3> QED  BY <1>3, <3>1
  <2>2. F = SubSeq(G, 1, m)
    BY DEF Front
  <2>3. /\ SubSeq(G, 1, m) \in Seq(Seq(Clients))
        /\ Len(SubSeq(G, 1, m)) = IF 1 <= m THEN m - 1 + 1 ELSE 0
        /\ \A i \in 1..(m - 1 + 1) : SubSeq(G, 1, m)[i] = G[1 + i - 1]
    <3> HIDE DEF m
    <3> QED  BY <1>2, <2>1, SubSeqProperties
  <2> HIDE DEF F, n
  <2>4. m - 1 + 1 = m /\ (1 <= m \/ m = 0) /\ \A i \in 1..m : 1 + i - 1 = i
    BY <1>2
  <2> QED  BY <2>2, <2>3, <2>4
<1>5. L = G[n] /\ L \in Seq(Clients) /\ L # <<>> /\ Len(L) \in Nat \ {0}
  <2>1. L = G[n] /\ L # <<>>
    BY <1>2 DEF Last, GroupsOf
  <2> QED  BY <1>2, <1>3, <2>1, EmptySeq
<1>6. /\ g \in Seq(Clients) /\ g # <<>> /\ Len(g) = Len(L) + 1 /\ g[Len(L) + 1] = c
      /\ \A j \in 1..Len(L) : g[j] = L[j]
  BY <1>1, <1>5, AppendProperties
<1>7. g[1] = L[1] /\ \A j \in 1..Len(g) : j \in 1..Len(L) \/ j = Len(L) + 1
  BY <1>5, <1>6
<1>8. /\ H \in Seq(Seq(Clients)) /\ H # <<>> /\ Len(H) = n /\ H[n] = g
      /\ \A i \in 1..m : H[i] = G[i]
  <2> HIDE DEF F, g, n
  <2>1. /\ H \in Seq(Seq(Clients)) /\ H # <<>> /\ Len(H) = Len(F) + 1 /\ H[Len(F) + 1] = g
        /\ \A i \in 1..Len(F) : H[i] = F[i]
    BY <1>4, <1>6, AppendProperties
  <2> HIDE DEF H
  <2> QED  BY <1>2, <1>4, <2>1
<1>9. FlattenSeq(H) = SubSeq(s, 1, k + 1)
  <2>1. G = Append(F, L)
    <3> DEFINE A == Append(F, L)
    <3> HIDE DEF F, L, n
    <3>1. /\ A \in Seq(Seq(Clients)) /\ Len(A) = Len(F) + 1 /\ A[Len(F) + 1] = L
          /\ \A i \in 1..Len(F) : A[i] = F[i]
      BY <1>4, <1>5, AppendProperties
    <3> HIDE DEF A
    <3>2. Len(A) = n /\ \A i \in 1..n : A[i] = G[i]
      BY <1>2, <1>4, <1>5, <3>1
    <3>3. Len(G) = Len(A)
      BY <3>2 DEF n
    <3>4. \A i \in 1..Len(G) : A[i] = G[i]
      BY <3>2 DEF n
    <3>5. A = G
      BY <1>2, <3>1, <3>3, <3>4, SeqEqual
    <3> QED  BY <3>5 DEF A
  <2> HIDE DEF F, L, c
  <2>2. FlattenSeq(F) \in Seq(Clients) /\ FlattenSeq(F) \o L = SubSeq(s, 1, k)
    <3>1. FlattenSeq(G) = SubSeq(s, 1, k)
      BY DEF GroupsOf
    <3> QED  BY <1>4, <1>5, <2>1, <3>1, FlattenAppend
  <2>3. FlattenSeq(H) = FlattenSeq(F) \o g
    BY <1>4, <1>6, FlattenAppend
  <2>4. g = L \o <<c>> /\ <<c>> \in Seq(Clients)
    BY <1>1, <1>5, AppendIsConcat
  <2>5. FlattenSeq(F) \o (L \o <<c>>) = (FlattenSeq(F) \o L) \o <<c>>
    BY <1>5, <2>2, <2>4, ConcatClients
  <2>6. SubSeq(s, 1, k + 1) = SubSeq(s, 1, k) \o <<c>>
    BY PrefixGrows DEF c
  <2> QED  BY <2>2, <2>3, <2>4, <2>5, <2>6
<1>10. \A i \in 1..n : (i \in 1..m /\ H[i] = G[i] /\ H[i][1] = G[i][1])
                      \/ (i = n /\ H[i] = g /\ H[i][1] = G[i][1])
  <2> HIDE DEF n, H, g, L
  <2> QED  BY <1>2, <1>5, <1>7, <1>8
<1>11. Weight[g[1]] = Weight[c]
  <2>1. g[1] = L[1] /\ Weight[L[1]] = Weight[c]
    BY <1>7
  <2> HIDE DEF g, L, c
  <2> QED  BY <2>1
<1>12. g # <<>> /\ \A j \in 1..Len(g) : Weight[g[j]] = Weight[g[1]]
  <2>1. \A j \in 1..Len(L) : Weight[L[j]] = Weight[L[1]]
    <3>1. \A i \in 1..n : \A j \in 1..Len(G[i]) : Weight[G[i][j]] = Weight[G[i][1]]
      BY DEF GroupsOf
    <3>2. n \in 1..n /\ L = G[n]
      BY <1>2, <1>5
    <3> HIDE DEF n, L
    <3> QED  BY <3>1, <3>2
  <2>2. g[1] = L[1]
    BY <1>7
  <2> HIDE DEF g, L, c
  <2> QED  BY <1>6, <1>7, <1>11, <2>1
<1>13. ToSet(g) = ToSet(L) \cup {c}
  <2>1. DOMAIN g = 1..(Len(L) + 1) /\ DOMAIN L = 1..Len(L)
    BY <1>5, <1>6, LenProperties
  <2>2. 1..(Len(L) + 1) = (1..Len(L)) \cup {Len(L) + 1}
    BY <1>5
  <2> HIDE DEF g, L, c
  <2> QED  BY <1>6, <2>1, <2>2 DEF ToSet
<1> HIDE DEF n, F, L, g, H
<1>14. \A i \in 1..n :
         H[i] # <<>> /\ \A j \in 1..Len(H[i]) : Weight[H[i][j]] = Weight[H[i][1]]
  <2>1. \A i \in 1..n :
          G[i] # <<>> /\ \A j \in 1..Len(G[i]) : Weight[G[i][j]] = Weight[G[i][1]]
    BY DEF GroupsOf, n
  <2> SUFFICES ASSUME NEW i \in 1..n
               PROVE  H[i] # <<>> /\ \A j \in 1..Len(H[i]) : Weight[H[i][j]] = Weight[H[i][1]]
    OBVIOUS
  <2>2. H[i] = g \/ H[i] = G[i]
    BY <1>10
  <2> QED  BY <1>12, <2>1, <2>2
<1>15. \A i \in 1..(n - 1) : Weight[H[i][1]] > Weight[H[i + 1][1]]
  <2> SUFFICES ASSUME NEW i \in 1..(n - 1) PROVE Weight[H[i][1]] > Weight[H[i + 1][1]]
    OBVIOUS
  <2>1. i \in 1..n /\ i + 1 \in 1..n
    BY <1>2
  <2>2. H[i][1] = G[i][1] /\ H[i + 1][1] = G[i + 1][1]
    BY <1>10, <2>1
  <2>3. Weight[G[i][1]] > Weight[G[i + 1][1]]
    BY DEF GroupsOf, n
  <2> QED  BY <2>2, <2>3
<1>16. \A i \in 1..n : ToSet(G[i]) \subseteq ToSet(H[i])
  <2> SUFFICES ASSUME NEW i \in 1..n PROVE ToSet(G[i]) \subseteq ToSet(H[i])
    OBVIOUS
  <2>1. H[i] = G[i] \/ (H[i] = g /\ G[i] = L)
    BY <1>5, <1>10
  <2> QED  BY <1>13, <2>1
<1>17. \A j \in 1..(k + 1) : \E i \in 1..n : s[j] \in ToSet(H[i])
  <2> SUFFICES ASSUME NEW j \in 1..(k + 1) PROVE \E i \in 1..n : s[j] \in ToSet(H[i])
    OBVIOUS
  <2>1. CASE j = k + 1
    BY <1>2, <1>8, <1>13, <2>1
  <2>2. CASE j # k + 1
    <3>1. j \in 1..k
      BY <2>2
    <3>2. PICK i \in 1..n : s[j] \in ToSet(G[i])
      BY <3>1 DEF GroupsOf, n
    <3> QED  BY <1>16, <3>2
  <2> QED  BY <2>1, <2>2
<1>18. \A i \in 1..n : ToSet(H[i]) \subseteq ToSet(s)
  <2>1. c \in ToSet(s)
    BY <1>1 DEF ToSet
  <2>2. \A i \in 1..n : ToSet(G[i]) \subseteq ToSet(s)
    BY DEF GroupsOf, n
  <2> SUFFICES ASSUME NEW i \in 1..n PROVE ToSet(H[i]) \subseteq ToSet(s)
    OBVIOUS
  <2>3. H[i] = G[i] \/ (H[i] = g /\ G[i] = L)
    BY <1>5, <1>10
  <2> HIDE DEF c
  <2> QED  BY <1>13, <2>1, <2>2, <2>3
<1>19. k + 1 # 0 /\ H # <<>> /\ Weight[Last(H)[1]] = Weight[s[k + 1]]
  BY <1>8, <1>11 DEF Last
<1> HIDE DEF c
<1>20. GroupsOf(H, s, k + 1)
  BY <1>8, <1>9, <1>14, <1>15, <1>17, <1>18, <1>19 DEF GroupsOf
<1> QED  BY <1>20 DEF H, F, g, L, c

\* Extended groups are groups.
LEMMA ExtendType ==
  ASSUME NEW G \in Seq(Seq(Clients)), NEW c \in Clients
  PROVE  ExtendGroups(G, c) \in Seq(Seq(Clients))
<1>1. Append(G, <<c>>) \in Seq(Seq(Clients))
  <2>1. <<c>> \in Seq(Clients)
    OBVIOUS
  <2> QED  BY <2>1, AppendProperties
<1>2. ASSUME G # <<>> PROVE Append(Front(G), Append(Last(G), c)) \in Seq(Seq(Clients))
  <2> DEFINE n == Len(G)
             m == n - 1
             F == Front(G)
             g == Append(Last(G), c)
  <2>1. n \in Nat \ {0} /\ m \in Int /\ n \in 1..n
    <3>1. n \in Nat \ {0}
      BY <1>2, EmptySeq
    <3> HIDE DEF n
    <3> QED  BY <3>1
  <2>2. Last(G) \in Seq(Clients)
    BY <2>1, ElementOfSeq DEF Last
  <2>3. g \in Seq(Clients)
    BY <2>2, AppendProperties
  <2>4. \A i \in 1..m : G[i] \in Seq(Clients)
    <3>1. \A i \in 1..m : i \in 1..n
      <4> HIDE DEF n
      <4> QED  BY <2>1
    <3> QED  BY <3>1, ElementOfSeq
  <2>5. F \in Seq(Seq(Clients))
    <3>1. F = SubSeq(G, 1, m)
      BY DEF Front
    <3> HIDE DEF F, m
    <3> QED  BY <2>1, <2>4, <3>1, SubSeqProperties
  <2> HIDE DEF F, g
  <2>6. Append(F, g) \in Seq(Seq(Clients))
    BY <2>3, <2>5, AppendProperties
  <2> QED  BY <2>6 DEF F, g
<1> QED  BY <1>1, <1>2 DEF ExtendGroups

\* ParallelGroups is the last value of a function that satisfies its equation.
LEMMA GroupsRecursion ==
  ASSUME NEW s \in Seq(Clients)
  PROVE  \E g : /\ g[0] = <<>>
                /\ \A k \in 1..Len(s) : g[k] = ExtendGroups(g[k - 1], s[k])
                /\ ParallelGroups(s) = g[Len(s)]
<1> DEFINE n == Len(s)
           T == Seq(Seq(Clients))
           Step(G, k) == ExtendGroups(G, s[k])
           Rec(g) == g = [k \in 0..n |-> IF k = 0 THEN <<>> ELSE Step(g[k - 1], k)]
           F == [k \in 1..n |-> [G \in T |-> Step(G, k)]]
<1>1. n \in Nat /\ \A k \in 1..n : s[k] \in Clients
  BY LenProperties
<1>2. \A G \in T, k \in 1..n : Step(G, k) \in T
  BY <1>1, ExtendType
<1>3. <<>> \in T
  OBVIOUS
<1> HIDE DEF Step, T, n
<1>4. F \in Steps(n, T)
  BY <1>2 DEF Steps
<1>5. \A G \in T, k \in 1..n : F[k][G] = Step(G, k)
  OBVIOUS
<1> HIDE DEF F
<1>6. PICK g \in [0..n -> T] : g[0] = <<>> /\ \A k \in 1..n : g[k] = F[k][g[k - 1]]
  <2>1. Courses(n, T, <<>>, F) # {}
    BY <1>1, <1>3, <1>4, Recursion
  <2> QED  BY <2>1 DEF Courses
<1>7. \A k \in 1..n : g[k] = Step(g[k - 1], k)
  <2> SUFFICES ASSUME NEW k \in 1..n PROVE g[k] = Step(g[k - 1], k)
    OBVIOUS
  <2>1. k - 1 \in 0..n
    BY <1>1
  <2> QED  BY <1>5, <1>6, <2>1
<1>8. Rec(g)
  BY <1>1, <1>6, <1>7
<1> DEFINE h == CHOOSE x : Rec(x)
<1>9. Rec(h)
  BY <1>8
<1>10. ParallelGroups(s) = h[n]
  BY DEF ParallelGroups, Step, n
<1> HIDE DEF h
<1>11. h[0] = <<>> /\ \A k \in 1..n : h[k] = Step(h[k - 1], k)
  BY <1>1, <1>9
<1> QED  BY <1>10, <1>11 DEF Step, n

\* The groups of a list sorted by weight.
LEMMA GroupsHold ==
  ASSUME NEW s \in Seq(Clients), SortedByWeight(s)
  PROVE  GroupsOf(ParallelGroups(s), s, Len(s))
<1> DEFINE n == Len(s)
<1>1. n \in Nat
  BY LenProperties
<1>2. PICK g : /\ g[0] = <<>>
               /\ \A k \in 1..n : g[k] = ExtendGroups(g[k - 1], s[k])
               /\ ParallelGroups(s) = g[n]
  BY GroupsRecursion
<1> DEFINE P == {k \in 0..n : GroupsOf(g[k], s, k)}
<1>3. 0 \in P
  <2>1. <<>> \in Seq(Seq(Clients)) /\ Len(<<>>) = 0 /\ 1..0 = {} /\ 1..(0 - 1) = {}
    OBVIOUS
  <2>2. FlattenSeq(<<>>) = <<>>
    BY <2>1 DEF FlattenSeq
  <2>3. SubSeq(s, 1, 0) = <<>>
    BY SubSeqEmpty
  <2>4. GroupsOf(<<>>, s, 0)
    BY <2>1, <2>2, <2>3 DEF GroupsOf
  <2> HIDE DEF n
  <2>5. GroupsOf(g[0], s, 0) /\ 0 \in 0..n
    BY <1>1, <1>2, <2>4
  <2> QED  BY <2>5
<1>4. ASSUME NEW k \in 0..(n - 1), k \in P PROVE k + 1 \in P
  <2> DEFINE G == g[k]
             c == s[k + 1]
  <2>1. k + 1 \in 1..n /\ k + 1 \in 0..n /\ (k + 1) - 1 = k
    BY <1>1
  <2>2. GroupsOf(G, s, k)
    BY <1>4
  <2>3. g[k + 1] = ExtendGroups(G, c)
    BY <1>2, <2>1
  <2> HIDE DEF G
  <2>4. CASE G # <<>> /\ Weight[Last(G)[1]] = Weight[c]
    <3>1. GroupsOf(Append(Front(G), Append(Last(G), c)), s, k + 1)
      BY <2>2, <2>4, GroupGrows
    <3>2. g[k + 1] = Append(Front(G), Append(Last(G), c))
      <4> HIDE DEF c
      <4> QED  BY <2>3, <2>4 DEF ExtendGroups, Last, Front
    <3> QED  BY <2>1, <3>1, <3>2
  <2>5. CASE ~(G # <<>> /\ Weight[Last(G)[1]] = Weight[c])
    <3>1. GroupsOf(Append(G, <<c>>), s, k + 1)
      BY <2>2, <2>5, GroupOpens
    <3>2. g[k + 1] = Append(G, <<c>>)
      <4> HIDE DEF c
      <4> QED  BY <2>3, <2>5 DEF ExtendGroups, Last, Front
    <3> QED  BY <2>1, <3>1, <3>2
  <2> QED  BY <2>4, <2>5
<1>5. n \in P
  <2> HIDE DEF P, n
  <2>1. \A k \in 0..(n - 1) : k \in P => k + 1 \in P
    BY <1>4
  <2>2. \A k \in 0..n : k \in P
    BY <1>1, <1>3, <2>1, UpTo
  <2> QED  BY <1>1, <2>2
<1>6. GroupsOf(g[n], s, n)
  BY <1>5
<1> QED  BY <1>2, <1>6

\* Of two groups the earlier one is heavier.
LEMMA GroupsDescend ==
  ASSUME NEW s \in Seq(Clients), NEW k, NEW G, GroupsOf(G, s, k), SortedByWeight(s),
         NEW i \in 1..Len(G), NEW j \in (i + 1)..Len(G)
  PROVE  Weight[G[i][1]] > Weight[G[j][1]]
<1> DEFINE n == Len(G)
           w(l) == Weight[G[l][1]]
           P == {m \in Nat : w(i) > w(i + m + 1)}
<1>1. G \in Seq(Seq(Clients)) /\ n \in Nat
  BY LenProperties DEF GroupsOf
<1>2. \A l \in 1..n : w(l) \in Nat
  <2> SUFFICES ASSUME NEW l \in 1..n PROVE w(l) \in Nat
    OBVIOUS
  <2>1. G[l] \in Seq(Clients) /\ G[l] # <<>>
    BY <1>1, ElementOfSeq DEF GroupsOf
  <2>2. Len(G[l]) \in Nat \ {0}
    BY <2>1, EmptySeq
  <2>3. 1 \in 1..Len(G[l])
    BY <2>2
  <2>4. G[l][1] \in Clients
    BY <2>1, <2>3, ElementOfSeq
  <2> QED  BY <2>4, ProvidersAssumption
<1>3. \A l \in 1..(n - 1) : w(l) > w(l + 1)
  BY DEF GroupsOf
<1>4. i \in 1..n /\ j \in (i + 1)..n
  OBVIOUS
<1> HIDE DEF n, w
<1>5. 0 \in P
  <2>1. i + 0 + 1 = i + 1 /\ i \in 1..(n - 1)
    BY <1>1, <1>4
  <2> QED  BY <1>3, <2>1
<1>6. ASSUME NEW m \in 0..((n - (i + 1)) - 1), m \in P PROVE m + 1 \in P
  <2> DEFINE l == i + m + 1
  <2>1. l \in 1..(n - 1) /\ l \in 1..n /\ l + 1 \in 1..n /\ l + 1 = i + (m + 1) + 1
    BY <1>1, <1>4
  <2>2. w(l) > w(i + (m + 1) + 1)
    <3>1. w(l) > w(l + 1)
      BY <1>3, <2>1
    <3> QED  BY <2>1, <3>1
  <2>3. w(i) > w(l)
    BY <1>6
  <2>4. w(i) \in Nat /\ w(l) \in Nat /\ w(i + (m + 1) + 1) \in Nat
    BY <1>2, <1>4, <2>1
  <2> HIDE DEF l
  <2>5. w(i) > w(i + (m + 1) + 1)
    BY <2>2, <2>3, <2>4
  <2> QED  BY <2>5
<1>7. j - (i + 1) \in P
  <2> HIDE DEF P
  <2>1. n - (i + 1) \in Nat /\ j - (i + 1) \in 0..(n - (i + 1))
    BY <1>1, <1>4
  <2>2. \A m \in 0..((n - (i + 1)) - 1) : m \in P => m + 1 \in P
    BY <1>6
  <2>3. \A m \in 0..(n - (i + 1)) : m \in P
    BY <1>5, <2>1, <2>2, UpTo
  <2> QED  BY <2>1, <2>3
<1>8. i + (j - (i + 1)) + 1 = j
  BY <1>1, <1>4
<1>9. w(i) > w(j)
  BY <1>7, <1>8
<1> QED  BY <1>9 DEF w

=============================================================================
