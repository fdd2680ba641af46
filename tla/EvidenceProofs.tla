--------------------------- MODULE EvidenceProofs ---------------------------
(***************************************************************************)
(* What the operators of an analysis return, for every input: the builder  *)
(* of evidence and the reading of a log (Evidence), and the scores         *)
(* (RiskScore).                                                            *)
(*                                                                         *)
(* Their recursive functions follow a sequence from its beginning.  What   *)
(* holds at its end is shown by induction, in the form: a set of naturals  *)
(* that has 0, and n + 1 with every n, has every natural.                  *)
(***************************************************************************)
EXTENDS RiskScore, FiniteSetTheorems, NaturalsInduction, WellFoundedInduction,
        TLAPS

-----------------------------------------------------------------------------
(* Induction.                                                              *)

\* A set of naturals has a least element.
LEMMA Least ==
  ASSUME NEW T \in SUBSET Nat, T # {}
  PROVE  \E x \in T : \A y \in T : x <= y
  <1>1. IsWellFoundedOn(OpToRel(<, Nat), Nat)
    BY NatLessThanWellFounded
  <1>2. PICK x \in T : \A y \in T : ~(<<y, x>> \in OpToRel(<, Nat))
    BY <1>1, WFMin
  <1>3. \A y \in T : ~(y < x)
    BY <1>2 DEF OpToRel
  <1> QED
    BY <1>3

LEMMA Induction ==
  ASSUME NEW T, 0 \in T, \A n \in Nat : n \in T => n + 1 \in T
  PROVE  Nat \subseteq T
  <1> SUFFICES ASSUME Nat \ T # {} PROVE FALSE
    OBVIOUS
  <1>1. PICK x \in Nat \ T : \A y \in Nat \ T : x <= y
    BY Least
  <1>2. x # 0 /\ x - 1 \in Nat
    OBVIOUS
  <1>3. x - 1 \in T
    BY <1>1, <1>2
  <1> QED
    BY <1>1, <1>2, <1>3

\* A set of numbers up to a bound has a greatest element.
LEMMA Greatest ==
  ASSUME NEW bound \in Nat, NEW T \in SUBSET (1 .. bound), T # {}
  PROVE  \E x \in T : \A y \in T : y <= x
  <1> DEFINE U == {bound - x : x \in T}
  <1>0. PICK e \in T : TRUE
    OBVIOUS
  <1>a. bound - e \in U
    OBVIOUS
  <1>b. U \in SUBSET Nat
    OBVIOUS
  <1>1. U \in SUBSET Nat /\ U # {}
    BY <1>a, <1>b
  <1>2. PICK u \in U : \A v \in U : u <= v
    BY <1>1, Least
  <1>3. PICK x \in T : u = bound - x
    OBVIOUS
  <1>4. \A y \in T : bound - y \in U
    OBVIOUS
  <1> HIDE DEF U
  <1> QED
    BY <1>2, <1>3, <1>4

\* What holds at the beginning and is kept by each step holds at every step.
LEMMA HoldsAlong ==
  ASSUME NEW N \in Nat, NEW S, NEW f, f[0] \in S,
         \A n \in 1 .. N : f[n - 1] \in S => f[n] \in S
  PROVE  \A n \in 0 .. N : f[n] \in S
  <1> DEFINE T == {n \in Nat : n <= N => f[n] \in S}
  <1>1. 0 \in T
    OBVIOUS
  <1>2. ASSUME NEW n \in Nat, n \in T PROVE n + 1 \in T
    <2>1. CASE n + 1 <= N
      <3>1. n + 1 \in 1 .. N /\ (n + 1) - 1 = n /\ f[n] \in S
        BY <1>2, <2>1
      <3> QED
        BY <3>1
    <2> QED
      BY <2>1
  <1>3. Nat \subseteq T
    BY <1>1, <1>2, Induction
  <1> QED
    BY <1>3

\* A recursion whose steps stay within a set has a solution.
Solves(g, N, S, base, step) ==
  /\ g \in [0 .. N -> S]
  /\ g = [n \in 0 .. N |-> IF n = 0 THEN base ELSE step[<<g[n - 1], n>>]]

LEMMA Recursion ==
  ASSUME NEW N \in Nat, NEW S, NEW base \in S, NEW step \in [S \X (1 .. N) -> S]
  PROVE  \E g : Solves(g, N, S, base, step)
  <1> DEFINE F(g, m) == [n \in 0 .. m |-> IF n = 0 THEN base ELSE step[<<g[n - 1], n>>]]
             T == {m \in Nat : m <= N => \E g \in [0 .. m -> S] : g = F(g, m)}
  <1>1. 0 \in T
    <2> DEFINE z == [n \in 0 .. 0 |-> base]
    <2>1. z = F(z, 0) /\ z \in [0 .. 0 -> S]
      OBVIOUS
    <2> HIDE DEF z, F
    <2> QED
      BY <2>1
  <1>2. ASSUME NEW m \in Nat, m \in T PROVE m + 1 \in T
    <2> SUFFICES ASSUME m + 1 <= N PROVE \E g \in [0 .. m + 1 -> S] : g = F(g, m + 1)
      OBVIOUS
    <2>1. PICK g \in [0 .. m -> S] : g = F(g, m)
      BY <1>2
    <2> DEFINE h == [n \in 0 .. m + 1 |-> IF n \in 0 .. m THEN g[n] ELSE step[<<g[m], m + 1>>]]
    <2>2. ASSUME NEW n \in 0 .. m + 1
          PROVE  h[n] \in S /\ h[n] = IF n = 0 THEN base ELSE step[<<h[n - 1], n>>]
      <3>1. CASE n \in 0 .. m
        <4>1. g[n] = IF n = 0 THEN base ELSE step[<<g[n - 1], n>>]
          BY <2>1, <3>1
        <4>2. h[n] = g[n] /\ (n # 0 => h[n - 1] = g[n - 1])
          BY <3>1
        <4> QED
          BY <3>1, <4>1, <4>2
      <3>2. CASE n = m + 1
        <4>1. h[n] = step[<<g[m], m + 1>>] /\ h[n - 1] = g[m] /\ n # 0
          BY <3>2
        <4>2. step[<<g[m], m + 1>>] \in S
          OBVIOUS
        <4> QED
          BY <4>1, <4>2, <3>2
      <3> QED
        BY <3>1, <3>2
    <2>3. h = F(h, m + 1) /\ h \in [0 .. m + 1 -> S]
      BY <2>2
    <2> HIDE DEF h, F
    <2> QED
      BY <2>3
  <1>3. N \in T
    BY <1>1, <1>2, Induction
  <1>4. PICK g \in [0 .. N -> S] : g = F(g, N)
    BY <1>3
  <1> QED
    BY <1>4 DEF Solves

-----------------------------------------------------------------------------
(* Places in an order.                                                     *)

\* Where each element of a finite set knows those ahead of it, each has a place of
\* its own among them.
LEMMA PlacesInOrder ==
  ASSUME NEW S, IsFiniteSet(S), NEW ahead \in [S -> SUBSET S],
         \A i \in S : i \notin ahead[i],
         \A i, j \in S : i # j => j \in ahead[i] \/ i \in ahead[j],
         \A i, j \in S : j \in ahead[i] => ahead[j] \subseteq ahead[i]
  PROVE  /\ \A k \in 1 .. Cardinality(S) : \E i \in S : Cardinality(ahead[i]) = k - 1
         /\ \A i, j \in S : Cardinality(ahead[i]) = Cardinality(ahead[j]) => i = j
         /\ \A i \in S : Cardinality(ahead[i]) + 1 \in 1 .. Cardinality(S)
  <1> DEFINE n == Cardinality(S)
             D == 1 .. n
             place == [i \in S |-> Cardinality(ahead[i]) + 1]
  <1>1. n \in Nat
    BY FS_CardinalityType
  <1>2. IsFiniteSet(D) /\ Cardinality(D) = n
    <2> HIDE DEF n
    <2>1. 1 \in Int /\ n \in Int
      BY <1>1
    <2>2. IsFiniteSet(1 .. n) /\ Cardinality(1 .. n) = IF 1 > n THEN 0 ELSE n - 1 + 1
      BY ONLY <2>1, FS_Interval
    <2> QED
      BY <1>1, <2>2
  <1>5. \A i \in S : IsFiniteSet(ahead[i]) /\ Cardinality(ahead[i]) \in Nat
    BY FS_Subset, FS_CardinalityType
  <1>6. \A i \in S : Cardinality(ahead[i]) < n
    <2> SUFFICES ASSUME NEW i \in S PROVE Cardinality(ahead[i]) < n
      OBVIOUS
    <2>1. Cardinality(ahead[i]) <= n /\ (n = Cardinality(ahead[i]) => S = ahead[i])
      BY FS_Subset
    <2> QED
      BY <1>1, <1>5, <2>1
  <1>7. \A i, j \in S : j \in ahead[i] => Cardinality(ahead[j]) < Cardinality(ahead[i])
    <2> SUFFICES ASSUME NEW i \in S, NEW j \in S, j \in ahead[i]
                 PROVE  Cardinality(ahead[j]) < Cardinality(ahead[i])
      OBVIOUS
    <2>1. ahead[j] \in SUBSET ahead[i] /\ ahead[j] # ahead[i]
      OBVIOUS
    <2>2. /\ Cardinality(ahead[j]) <= Cardinality(ahead[i])
          /\ Cardinality(ahead[i]) = Cardinality(ahead[j]) => ahead[i] = ahead[j]
      BY <1>5, <2>1, FS_Subset
    <2> QED
      BY <1>5, <2>1, <2>2
  <1> HIDE DEF n
  <1>8. place \in [S -> D]
    BY <1>1, <1>5, <1>6
  <1>9. \A i, j \in S : Cardinality(ahead[i]) = Cardinality(ahead[j]) => i = j
    BY <1>5, <1>7
  <1>10. \A i, j \in S : place[i] = place[j] => i = j
    BY <1>5, <1>9
  <1> HIDE DEF place, D
  <1>11. place \in Injection(S, D)
    BY <1>8, <1>10 DEF Injection, IsInjective
  <1>12. place \in Surjection(S, D)
    BY <1>2, <1>11, FS_Injection DEF n
  <1>13. ASSUME NEW k \in 1 .. n PROVE \E i \in S : Cardinality(ahead[i]) = k - 1
    <2>1. PICK i \in S : place[i] = k
      BY <1>12 DEF Surjection, D
    <2> QED
      BY <1>5, <2>1 DEF place
  <1>14. \A i \in S : Cardinality(ahead[i]) + 1 \in 1 .. n
    BY <1>8 DEF place, D
  <1> QED
    BY <1>9, <1>13, <1>14 DEF n

-----------------------------------------------------------------------------
(* Sequences.                                                              *)

\* The function that Kept is defined by.
KeptUpTo(s, keep) ==
  LET kept[n \in 0 .. Len(s)] ==
        IF n = 0 THEN <<>>
        ELSE IF n \in keep THEN Append(kept[n - 1], s[n]) ELSE kept[n - 1]
  IN kept

LEMMA KeptUnfolds ==
  ASSUME NEW X, NEW s \in Seq(X), NEW keep
  PROVE  /\ Kept(s, keep) = KeptUpTo(s, keep)[Len(s)]
         /\ KeptUpTo(s, keep)[0] = <<>>
         /\ \A n \in 1 .. Len(s) :
              KeptUpTo(s, keep)[n] = IF n \in keep THEN Append(KeptUpTo(s, keep)[n - 1], s[n])
                                     ELSE KeptUpTo(s, keep)[n - 1]
  <1> DEFINE Step(q, n) == IF n \in keep THEN Append(q, s[n]) ELSE q
             F(g) == [n \in 0 .. Len(s) |-> IF n = 0 THEN <<>> ELSE Step(g[n - 1], n)]
             S == Seq(X)
             step == [p \in S \X (1 .. Len(s)) |-> Step(p[1], p[2])]
             k == KeptUpTo(s, keep)
  <1>1. k = CHOOSE g : g = F(g)
    BY DEF KeptUpTo
  <1>2. Kept(s, keep) = k[Len(s)]
    BY DEF Kept, KeptUpTo
  <1>3. \A q \in S, n \in 1 .. Len(s) : Step(q, n) \in S
    OBVIOUS
  <1>4. <<>> \in S /\ Len(s) \in Nat
    OBVIOUS
  <1> HIDE DEF k, Step, S
  <1>5. step \in [S \X (1 .. Len(s)) -> S]
    BY <1>3
  <1>6. PICK g : Solves(g, Len(s), S, <<>>, step)
    <2> HIDE DEF step
    <2> QED
      BY <1>4, <1>5, Recursion
  <1>7. \A n \in 1 .. Len(s) : step[<<g[n - 1], n>>] = Step(g[n - 1], n)
    <2>1. \A n \in 1 .. Len(s) : g[n - 1] \in S
      <3>1. g \in [0 .. Len(s) -> S]
        BY <1>6 DEF Solves
      <3>2. \A n \in 1 .. Len(s) : n - 1 \in 0 .. Len(s)
        BY <1>4
      <3> QED
        BY <3>1, <3>2
    <2> QED
      BY <2>1
  <1> HIDE DEF step
  <1>8. g = F(g)
    <2>1. \A n \in 0 .. Len(s) :
            (IF n = 0 THEN <<>> ELSE step[<<g[n - 1], n>>])
              = (IF n = 0 THEN <<>> ELSE Step(g[n - 1], n))
      BY <1>4, <1>7
    <2> QED
      BY <1>6, <2>1 DEF Solves
  <1>9. k = F(k)
    BY <1>1, <1>8
  <1>10. k[0] = <<>>
    BY <1>4, <1>9
  <1>11. ASSUME NEW n \in 1 .. Len(s) PROVE k[n] = Step(k[n - 1], n)
    <2>1. n \in 0 .. Len(s) /\ n # 0
      BY <1>4
    <2> QED
      BY <1>9, <2>1
  <1> QED
    BY <1>2, <1>10, <1>11 DEF k, Step

\* Only what is kept is in the list.
LEMMA KeptType ==
  ASSUME NEW X, NEW s \in Seq(X), NEW keep, NEW Y,
         \A n \in 1 .. Len(s) : n \in keep => s[n] \in Y
  PROVE  Kept(s, keep) \in Seq(Y)
  <1> DEFINE k == KeptUpTo(s, keep)
             S == Seq(Y)
  <1>1. Len(s) \in Nat
    OBVIOUS
  <1>2. /\ Kept(s, keep) = k[Len(s)] /\ k[0] = <<>>
        /\ \A n \in 1 .. Len(s) : k[n] = IF n \in keep THEN Append(k[n - 1], s[n]) ELSE k[n - 1]
    BY KeptUnfolds
  <1> HIDE DEF k
  <1>3. ASSUME NEW n \in 1 .. Len(s), k[n - 1] \in S PROVE k[n] \in S
    <2>1. CASE n \in keep
      <3>1. k[n] = Append(k[n - 1], s[n]) /\ s[n] \in Y
        BY <1>2, <2>1
      <3> QED
        BY <1>3, <3>1
    <2>2. CASE n \notin keep
      BY <1>2, <1>3, <2>2
    <2> QED
      BY <2>1, <2>2
  <1>4. k[0] \in S
    BY <1>2
  <1> HIDE DEF S
  <1>5. \A n \in 0 .. Len(s) : k[n] \in S
    BY <1>1, <1>3, <1>4, HoldsAlong
  <1> QED
    BY <1>1, <1>2, <1>5 DEF S

\* Every element of the list is one that is kept; elements with names of their
\* own keep them apart.
LEMMA KeptDistinct ==
  ASSUME NEW X, NEW s \in Seq(X), NEW keep,
         \A i, j \in 1 .. Len(s) : i \in keep /\ j \in keep /\ s[i].id = s[j].id => i = j
  PROVE  \A a, b \in DOMAIN Kept(s, keep) :
           Kept(s, keep)[a].id = Kept(s, keep)[b].id => a = b
  <1> DEFINE k == KeptUpTo(s, keep)
             P(n) == /\ k[n] \in Seq(X)
                     /\ \A a \in 1 .. Len(k[n]) : \E i \in 1 .. n : i \in keep /\ k[n][a] = s[i]
                     /\ \A a, b \in 1 .. Len(k[n]) : k[n][a].id = k[n][b].id => a = b
             T == {n \in Nat : n <= Len(s) => P(n)}
  <1>1. Len(s) \in Nat
    OBVIOUS
  <1>2. /\ Kept(s, keep) = k[Len(s)] /\ k[0] = <<>>
        /\ \A n \in 1 .. Len(s) : k[n] = IF n \in keep THEN Append(k[n - 1], s[n]) ELSE k[n - 1]
    BY KeptUnfolds
  <1> HIDE DEF k
  <1>3. 0 \in T
    <2>1. Len(k[0]) = 0 /\ k[0] \in Seq(X)
      BY <1>2
    <2> QED
      BY <2>1
  <1>4. ASSUME NEW n \in Nat, n \in T PROVE n + 1 \in T
    <2> SUFFICES ASSUME n + 1 <= Len(s) PROVE P(n + 1)
      OBVIOUS
    <2>1. P(n) /\ n + 1 \in 1 .. Len(s) /\ (n + 1) - 1 = n
      BY <1>1, <1>4
    <2>2. k[n + 1] = IF n + 1 \in keep THEN Append(k[n], s[n + 1]) ELSE k[n]
      BY <1>2, <2>1
    <2>5. \A a \in 1 .. Len(k[n]) :
            \E i \in 1 .. n : i \in keep /\ i \in 1 .. Len(s) /\ k[n][a] = s[i]
      <3>1. \A i \in 1 .. n : i \in 1 .. Len(s)
        BY <1>1, <2>1
      <3> QED
        BY <2>1, <3>1
    <2>3. CASE n + 1 \notin keep
      <3>1. k[n + 1] = k[n]
        BY <2>2, <2>3
      <3> QED
        BY <2>1, <3>1
    <2>4. CASE n + 1 \in keep
      <3>1. /\ k[n + 1] \in Seq(X) /\ Len(k[n + 1]) = Len(k[n]) + 1 /\ Len(k[n]) \in Nat
            /\ \A a \in 1 .. Len(k[n]) : k[n + 1][a] = k[n][a]
            /\ k[n + 1][Len(k[n]) + 1] = s[n + 1]
        BY <2>1, <2>2, <2>4
      <3>2. \A a \in 1 .. Len(k[n]) :
              \E i \in 1 .. n : i \in keep /\ i \in 1 .. Len(s) /\ k[n + 1][a] = s[i]
        BY <2>5, <3>1
      <3>3. \A a \in 1 .. Len(k[n]) : k[n + 1][a].id # s[n + 1].id
        <4> SUFFICES ASSUME NEW a \in 1 .. Len(k[n]), k[n + 1][a].id = s[n + 1].id PROVE FALSE
          OBVIOUS
        <4>1. PICK i \in 1 .. n : i \in keep /\ i \in 1 .. Len(s) /\ k[n + 1][a] = s[i]
          BY <3>2
        <4>2. n + 1 \in 1 .. Len(s)
          BY <2>1
        <4>3. s[i].id = s[n + 1].id
          BY <4>1
        <4>4. i = n + 1
          BY <2>4, <4>1, <4>2, <4>3
        <4> QED
          BY <4>4
      <3>4. \A a, b \in 1 .. Len(k[n + 1]) : k[n + 1][a].id = k[n + 1][b].id => a = b
        <4> SUFFICES ASSUME NEW a \in 1 .. Len(k[n + 1]), NEW b \in 1 .. Len(k[n + 1]),
                            k[n + 1][a].id = k[n + 1][b].id
                     PROVE  a = b
          OBVIOUS
        <4>1. CASE a \in 1 .. Len(k[n]) /\ b \in 1 .. Len(k[n])
          BY <2>1, <3>1, <4>1
        <4>2. CASE a = Len(k[n]) + 1 \/ b = Len(k[n]) + 1
          BY <3>1, <3>3, <4>2
        <4> QED
          BY <3>1, <4>1, <4>2
      <3>5. \A a \in 1 .. Len(k[n + 1]) :
              \E i \in 1 .. n + 1 : i \in keep /\ k[n + 1][a] = s[i]
        BY <2>4, <3>1, <3>2
      <3> QED
        BY <3>1, <3>4, <3>5
    <2> QED
      BY <2>3, <2>4
  <1>5. Len(s) \in T
    BY <1>1, <1>3, <1>4, Induction
  <1>6. P(Len(s))
    BY <1>1, <1>5
  <1>7. DOMAIN k[Len(s)] = 1 .. Len(k[Len(s)])
    BY <1>6
  <1> QED
    BY <1>2, <1>6, <1>7

\* The positions up to n that a list was made of, in their order.
Positions(list, s, keep, n, m) ==
  /\ m \in [DOMAIN list -> Nat]
  /\ \A a \in DOMAIN list : m[a] \in 1 .. n /\ m[a] \in keep /\ list[a] = s[m[a]]
  /\ \A a, b \in DOMAIN list : a < b => m[a] < m[b]
  /\ \A i \in 1 .. n : i \in keep => \E a \in DOMAIN list : m[a] = i

\* The list is what is kept, in its order.
LEMMA KeptPositions ==
  ASSUME NEW X, NEW s \in Seq(X), NEW keep
  PROVE  \E m : Positions(Kept(s, keep), s, keep, Len(s), m)
  <1> DEFINE k == KeptUpTo(s, keep)
             P(n) == k[n] \in Seq(X) /\ \E m : Positions(k[n], s, keep, n, m)
             T == {n \in Nat : n <= Len(s) => P(n)}
  <1>1. Len(s) \in Nat /\ \A n \in 1 .. Len(s) : s[n] \in X
    OBVIOUS
  <1>2. /\ Kept(s, keep) = k[Len(s)] /\ k[0] = <<>>
        /\ \A n \in 1 .. Len(s) : k[n] = IF n \in keep THEN Append(k[n - 1], s[n]) ELSE k[n - 1]
    BY KeptUnfolds
  <1> HIDE DEF k
  <1>3. 0 \in T
    <2>1. k[0] \in Seq(X) /\ DOMAIN k[0] = {}
      BY <1>2
    <2>2. Positions(k[0], s, keep, 0, [a \in DOMAIN k[0] |-> a])
      BY <2>1 DEF Positions
    <2> QED
      BY <2>1, <2>2
  <1>4. ASSUME NEW n \in Nat, n \in T PROVE n + 1 \in T
    <2> SUFFICES ASSUME n + 1 <= Len(s) PROVE P(n + 1)
      OBVIOUS
    <2>1. P(n) /\ n + 1 \in 1 .. Len(s) /\ (n + 1) - 1 = n
      BY <1>1, <1>4
    <2>2. k[n + 1] = IF n + 1 \in keep THEN Append(k[n], s[n + 1]) ELSE k[n]
      BY <1>2, <2>1
    <2>3. PICK m : Positions(k[n], s, keep, n, m)
      BY <2>1
    <2>4. \A i : i \in 1 .. n + 1 <=> (i \in 1 .. n \/ i = n + 1)
      OBVIOUS
    <2>5. CASE n + 1 \notin keep
      <3>1. k[n + 1] = k[n]
        BY <2>2, <2>5
      <3>2. Positions(k[n], s, keep, n + 1, m)
        BY <2>3, <2>4, <2>5 DEF Positions
      <3> QED
        BY <2>1, <3>1, <3>2
    <2>6. CASE n + 1 \in keep
      <3> DEFINE l == Len(k[n]) + 1
                 new == [a \in 1 .. l |-> IF a = l THEN n + 1 ELSE m[a]]
      <3>1. /\ k[n + 1] \in Seq(X) /\ DOMAIN k[n + 1] = 1 .. l /\ l \in Nat /\ l - 1 \in Nat
            /\ DOMAIN k[n] = 1 .. l - 1
            /\ \A a \in 1 .. l - 1 : k[n + 1][a] = k[n][a]
            /\ k[n + 1][l] = s[n + 1]
        BY <1>1, <2>1, <2>2, <2>6
      <3> HIDE DEF l
      <3>2. \A a \in 1 .. l : a = l \/ a \in 1 .. l - 1
        BY <3>1
      <3>3. \A a \in 1 .. l - 1 : a \in 1 .. l /\ a # l /\ new[a] = m[a] /\ m[a] \in Nat
                                  /\ m[a] \in 1 .. n /\ m[a] \in keep /\ k[n][a] = s[m[a]]
        <4>1. \A a \in 1 .. l - 1 : a \in 1 .. l /\ a # l
          BY <3>1
        <4>2. \A a \in 1 .. l - 1 : m[a] \in Nat /\ m[a] \in 1 .. n /\ m[a] \in keep
                                     /\ k[n][a] = s[m[a]]
          BY <2>3, <3>1 DEF Positions
        <4> QED
          BY <4>1, <4>2
      <3>4. l \in 1 .. l /\ new[l] = n + 1
        <4>1. l \in 1 .. l
          BY <3>1
        <4> QED
          BY <4>1
      <3>5. new \in [1 .. l -> Nat]
        <4>1. ASSUME NEW a \in 1 .. l PROVE (IF a = l THEN n + 1 ELSE m[a]) \in Nat
          <5>1. CASE a = l
            BY <5>1
          <5>2. CASE a # l
            BY <3>2, <3>3, <5>2
          <5> QED
            BY <5>1, <5>2
        <4> QED
          BY <4>1
      <3> HIDE DEF new
      <3>6. \A a \in 1 .. l : new[a] \in 1 .. n + 1 /\ new[a] \in keep /\ k[n + 1][a] = s[new[a]]
        BY <2>4, <2>6, <3>1, <3>2, <3>3, <3>4
      <3>7. \A a, b \in 1 .. l : a < b => new[a] < new[b]
        <4> SUFFICES ASSUME NEW a \in 1 .. l, NEW b \in 1 .. l, a < b PROVE new[a] < new[b]
          OBVIOUS
        <4>1. a \in 1 .. l - 1
          BY <3>1
        <4>2. CASE b = l
          BY <3>3, <3>4, <4>1, <4>2
        <4>3. CASE b # l
          <5>1. b \in 1 .. l - 1
            BY <3>2, <4>3
          <5>2. m[a] < m[b]
            BY <2>3, <3>1, <4>1, <5>1 DEF Positions
          <5> QED
            BY <3>3, <4>1, <5>1, <5>2
        <4> QED
          BY <4>2, <4>3
      <3>8. \A i \in 1 .. n + 1 : i \in keep => \E a \in 1 .. l : new[a] = i
        <4> SUFFICES ASSUME NEW i \in 1 .. n + 1, i \in keep PROVE \E a \in 1 .. l : new[a] = i
          OBVIOUS
        <4>1. CASE i = n + 1
          BY <3>4, <4>1
        <4>2. CASE i \in 1 .. n
          <5>1. PICK a \in 1 .. l - 1 : m[a] = i
            BY <2>3, <3>1, <4>2 DEF Positions
          <5> QED
            BY <3>3, <5>1
        <4> QED
          BY <2>4, <4>1, <4>2
      <3>9. Positions(k[n + 1], s, keep, n + 1, new)
        BY <3>1, <3>5, <3>6, <3>7, <3>8 DEF Positions
      <3> QED
        BY <3>1, <3>9
    <2> QED
      BY <2>5, <2>6
  <1>5. P(Len(s))
    <2>1. Len(s) \in T
      BY <1>1, <1>3, <1>4, Induction
    <2> QED
      BY <1>1, <2>1
  <1> QED
    BY <1>2, <1>5

\* The function that Total is defined by.
TotalUpTo(numbers) ==
  LET sum[n \in 0 .. Len(numbers)] == IF n = 0 THEN 0 ELSE sum[n - 1] + numbers[n]
  IN sum

LEMMA TotalUnfolds ==
  ASSUME NEW new \in Seq(Nat)
  PROVE  /\ Total(new) = TotalUpTo(new)[Len(new)]
         /\ TotalUpTo(new)[0] = 0
         /\ \A n \in 1 .. Len(new) :
              TotalUpTo(new)[n] = TotalUpTo(new)[n - 1] + new[n]
  <1> DEFINE Step(q, n) == q + new[n]
             F(g) == [n \in 0 .. Len(new) |-> IF n = 0 THEN 0 ELSE Step(g[n - 1], n)]
             S == Nat
             step == [p \in S \X (1 .. Len(new)) |-> Step(p[1], p[2])]
             f == TotalUpTo(new)
  <1>1. f = CHOOSE g : g = F(g)
    BY DEF TotalUpTo
  <1>2. Total(new) = f[Len(new)]
    BY DEF Total, TotalUpTo
  <1>3. \A q \in S, n \in 1 .. Len(new) : Step(q, n) \in S
    OBVIOUS
  <1>4. 0 \in S /\ Len(new) \in Nat
    OBVIOUS
  <1> HIDE DEF f, Step, S
  <1>5. step \in [S \X (1 .. Len(new)) -> S]
    BY <1>3
  <1>6. PICK g : Solves(g, Len(new), S, 0, step)
    <2> HIDE DEF step
    <2> QED
      BY <1>4, <1>5, Recursion
  <1>7. \A n \in 1 .. Len(new) : step[<<g[n - 1], n>>] = Step(g[n - 1], n)
    <2>1. \A n \in 1 .. Len(new) : g[n - 1] \in S
      <3>1. g \in [0 .. Len(new) -> S]
        BY <1>6 DEF Solves
      <3>2. \A n \in 1 .. Len(new) : n - 1 \in 0 .. Len(new)
        BY <1>4
      <3> QED
        BY <3>1, <3>2
    <2> QED
      BY <2>1
  <1> HIDE DEF step
  <1>8. g = F(g)
    <2>1. \A n \in 0 .. Len(new) :
            (IF n = 0 THEN 0 ELSE step[<<g[n - 1], n>>])
              = (IF n = 0 THEN 0 ELSE Step(g[n - 1], n))
      BY <1>4, <1>7
    <2> QED
      BY <1>6, <2>1 DEF Solves
  <1>9. f = F(f)
    BY <1>1, <1>8
  <1>10. f[0] = 0
    BY <1>4, <1>9
  <1>11. ASSUME NEW n \in 1 .. Len(new) PROVE f[n] = Step(f[n - 1], n)
    <2>1. n \in 0 .. Len(new) /\ n # 0
      BY <1>4
    <2> QED
      BY <1>9, <2>1
  <1> QED
    BY <1>2, <1>10, <1>11 DEF f, Step

\* A sum of naturals is one.
LEMMA TotalType ==
  ASSUME NEW new \in Seq(Nat)
  PROVE  Total(new) \in Nat
  <1> DEFINE f == TotalUpTo(new)
  <1>1. Len(new) \in Nat
    OBVIOUS
  <1>2. /\ Total(new) = f[Len(new)] /\ f[0] = 0
        /\ \A n \in 1 .. Len(new) : f[n] = f[n - 1] + new[n]
    BY TotalUnfolds
  <1> HIDE DEF f
  <1>3. f[0] \in Nat /\ \A n \in 1 .. Len(new) : f[n - 1] \in Nat => f[n] \in Nat
    BY <1>2
  <1>4. \A n \in 0 .. Len(new) : f[n] \in Nat
    BY <1>1, <1>3, HoldsAlong
  <1> QED
    BY <1>1, <1>2, <1>4

\* A number of a sum that becomes zero is missing from it.
LEMMA TotalWithout ==
  ASSUME NEW g \in Seq(Nat), NEW j \in DOMAIN g
  PROVE  /\ [g EXCEPT ![j] = 0] \in Seq(Nat)
         /\ Total(g) = Total([g EXCEPT ![j] = 0]) + g[j]
  <1> DEFINE z == [g EXCEPT ![j] = 0]
             a == TotalUpTo(g)
             b == TotalUpTo(z)
             P(n) == /\ a[n] \in Nat /\ b[n] \in Nat
                     /\ a[n] = b[n] + (IF j <= n THEN g[j] ELSE 0)
             T == {n \in Nat : n <= Len(g) => P(n)}
  <1>1. /\ Len(g) \in Nat /\ z \in Seq(Nat) /\ Len(z) = Len(g) /\ j \in 1 .. Len(g)
        /\ g[j] \in Nat /\ z[j] = 0
        /\ \A n \in 1 .. Len(g) : g[n] \in Nat /\ z[n] \in Nat /\ (n # j => z[n] = g[n])
    OBVIOUS
  <1> HIDE DEF z
  <1>2. /\ Total(g) = a[Len(g)] /\ a[0] = 0
        /\ \A n \in 1 .. Len(g) : a[n] = a[n - 1] + g[n]
    BY TotalUnfolds
  <1>3. /\ Total(z) = b[Len(g)] /\ b[0] = 0
        /\ \A n \in 1 .. Len(g) : b[n] = b[n - 1] + z[n]
    BY <1>1, TotalUnfolds
  <1> HIDE DEF a, b
  <1>4. 0 \in T
    BY <1>1, <1>2, <1>3
  <1>5. ASSUME NEW n \in Nat, n \in T PROVE n + 1 \in T
    <2> SUFFICES ASSUME n + 1 <= Len(g) PROVE P(n + 1)
      OBVIOUS
    <2>1. P(n) /\ n + 1 \in 1 .. Len(g) /\ (n + 1) - 1 = n
      BY <1>1, <1>5
    <2>2. a[n + 1] = a[n] + g[n + 1] /\ b[n + 1] = b[n] + z[n + 1]
      BY <1>2, <1>3, <2>1
    <2>3. CASE n + 1 = j
      BY <1>1, <2>1, <2>2, <2>3
    <2>4. CASE n + 1 # j
      <3>1. z[n + 1] = g[n + 1] /\ g[n + 1] \in Nat
        BY <1>1, <2>1, <2>4
      <3> DEFINE d == IF j <= n THEN g[j] ELSE 0
      <3>2. d = (IF j <= n + 1 THEN g[j] ELSE 0) /\ d \in Nat
        <4>1. j <= n + 1 <=> j <= n
          BY <1>1, <2>4
        <4> QED
          BY <1>1, <4>1
      <3>3. a[n] \in Nat /\ b[n] \in Nat /\ a[n] = b[n] + d
        BY <2>1
      <3> HIDE DEF d
      <3>4. a[n + 1] \in Nat /\ b[n + 1] \in Nat /\ a[n + 1] = b[n + 1] + d
        <4>1. d \in Nat /\ b[n + 1] = b[n] + g[n + 1] /\ a[n + 1] = a[n] + g[n + 1]
          BY <2>2, <3>1, <3>2
        <4>2. \A p, q, u \in Nat : p + u \in Nat /\ (p + q) + u = (p + u) + q
          OBVIOUS
        <4>3. a[n] \in Nat /\ b[n] \in Nat /\ d \in Nat /\ g[n + 1] \in Nat
          BY ONLY <3>1, <3>3, <4>1
        <4>4. (b[n] + d) + g[n + 1] = (b[n] + g[n + 1]) + d
          BY ONLY <4>2, <4>3
        <4>5. b[n] + g[n + 1] \in Nat /\ a[n] + g[n + 1] \in Nat
          BY ONLY <4>2, <4>3
        <4> QED
          BY ONLY <3>3, <4>1, <4>4, <4>5
      <3> QED
        BY <3>2, <3>4
    <2> QED
      BY <2>3, <2>4
  <1>6. P(Len(g))
    <2>1. Len(g) \in T
      BY <1>1, <1>4, <1>5, Induction
    <2> QED
      BY <1>1, <2>1
  <1>7. Total(g) = Total(z) + g[j]
    BY <1>1, <1>2, <1>3, <1>6
  <1> QED
    BY <1>1, <1>7 DEF z

\* A sum is no greater than another in which each of its numbers that is not zero
\* has one of its own that is no less.
LEMMA TotalGrows ==
  ASSUME NEW f \in Seq(Nat), NEW A \in SUBSET DOMAIN f, \A i \in DOMAIN f : i \notin A => f[i] = 0,
         NEW h \in [A -> Nat], \A i, j \in A : h[i] = h[j] => i = j,
         NEW g \in Seq(Nat), \A i \in A : h[i] \in DOMAIN g /\ f[i] <= g[h[i]]
  PROVE  Total(f) <= Total(g)
  <1> DEFINE a == TotalUpTo(f)
             Covers(s, n) == \A i \in A : i <= n => h[i] \in DOMAIN s /\ f[i] <= s[h[i]]
             P(n) == a[n] \in Nat /\ \A s \in Seq(Nat) : Covers(s, n) => a[n] <= Total(s)
             T == {n \in Nat : n <= Len(f) => P(n)}
  <1>1. /\ Len(f) \in Nat /\ DOMAIN f = 1 .. Len(f)
        /\ \A n \in 1 .. Len(f) : f[n] \in Nat
    OBVIOUS
  <1>2. /\ Total(f) = a[Len(f)] /\ a[0] = 0
        /\ \A n \in 1 .. Len(f) : a[n] = a[n - 1] + f[n]
    BY TotalUnfolds
  <1> HIDE DEF a
  <1>3. 0 \in T
    BY <1>2, TotalType
  <1>4. ASSUME NEW n \in Nat, n \in T PROVE n + 1 \in T
    <2> SUFFICES ASSUME n + 1 <= Len(f) PROVE P(n + 1)
      OBVIOUS
    <2>1. P(n) /\ n + 1 \in 1 .. Len(f) /\ (n + 1) - 1 = n /\ n + 1 \in DOMAIN f
      BY <1>1, <1>4
    <2>2. a[n + 1] = a[n] + f[n + 1] /\ a[n + 1] \in Nat
      BY <1>1, <1>2, <2>1
    <2>3. ASSUME NEW s \in Seq(Nat), Covers(s, n + 1) PROVE a[n + 1] <= Total(s)
      <3>1. Covers(s, n)
        BY <1>1, <2>3
      <3>2. CASE n + 1 \notin A
        <4>1. f[n + 1] = 0 /\ a[n] <= Total(s)
          BY <2>1, <3>1, <3>2
        <4> QED
          BY <2>1, <2>2, <4>1
      <3>3. CASE n + 1 \in A
        <4> DEFINE k == h[n + 1]
                   z == [s EXCEPT ![k] = 0]
        <4>1. k \in DOMAIN s /\ f[n + 1] <= s[k] /\ s[k] \in Nat
          BY <2>3, <3>3
        <4>2. z \in Seq(Nat) /\ Total(s) = Total(z) + s[k] /\ Total(z) \in Nat
          BY <4>1, TotalWithout, TotalType
        <4>3. Covers(z, n)
          <5> SUFFICES ASSUME NEW i \in A, i <= n PROVE h[i] \in DOMAIN z /\ f[i] <= z[h[i]]
            OBVIOUS
          <5>1. i # n + 1 /\ h[i] # k
            BY <1>1, <3>3
          <5>2. h[i] \in DOMAIN s /\ f[i] <= s[h[i]]
            BY <3>1
          <5> QED
            BY <5>1, <5>2
        <4> HIDE DEF z, k, Covers
        <4>4. a[n] <= Total(z)
          BY <2>1, <4>2, <4>3
        <4>5. f[n + 1] \in Nat /\ a[n] \in Nat
          BY <1>1, <2>1
        <4>6. \A p, q, u, v \in Nat : p <= u /\ q <= v => p + q <= u + v
          OBVIOUS
        <4>7. a[n] + f[n + 1] <= Total(z) + s[k]
          BY ONLY <4>1, <4>2, <4>4, <4>5, <4>6
        <4> QED
          BY ONLY <2>2, <4>2, <4>7
      <3> QED
        BY <3>2, <3>3
    <2> QED
      BY <2>2, <2>3
  <1>5. P(Len(f))
    <2>1. Len(f) \in T
      BY <1>1, <1>3, <1>4, Induction
    <2> QED
      BY <1>1, <2>1
  <1> QED
    BY <1>2, <1>5

-----------------------------------------------------------------------------
(* The builder of evidence.                                                *)

\* Evidence that grew: what was there stays, new items have the next numbers and
\* are observations of S.
Extends(old, all, S) ==
  /\ all \in Seq(Item)
  /\ Len(old) <= Len(all)
  /\ \A i \in 1 .. Len(old) : all[i] = old[i]
  /\ \A i \in Len(old) + 1 .. Len(all) : \E s \in S, t \in Nat : all[i] = Numbered(s, i, t)

Shows(all, s) == \E i \in 1 .. Len(all) : Same(all[i], s)

LEMMA NumberedIsItem ==
  ASSUME NEW s \in Observation, NEW n \in Nat, NEW t \in Nat
  PROVE  Numbered(s, n, t) \in Item /\ Same(Numbered(s, n, t), s)
  BY DEF Numbered, Item, Observation, Same

\* One observation more.
LEMMA AddExtends ==
  ASSUME NEW items \in Seq(Item), NEW s \in Observation, NEW dated \in BOOLEAN
  PROVE  Extends(items, Add(items, s, dated), {s}) /\ Shows(Add(items, s, dated), s)
  <1> DEFINE all == Add(items, s, dated)
  <1>1. CASE \E i \in DOMAIN items : Same(items[i], s)
    <2>1. all = items
      BY <1>1 DEF Add
    <2> QED
      BY <1>1, <2>1 DEF Extends, Shows
  <1>2. CASE ~ \E i \in DOMAIN items : Same(items[i], s)
    <2> DEFINE time == IF dated THEN EpochTime ELSE Len(items) + 1
               new == Numbered(s, Len(items) + 1, time)
    <2>1. all = Append(items, new)
      BY <1>2 DEF Add
    <2>2. time \in Nat
      BY DEF EpochTime
    <2>3. new \in Item /\ Same(new, s)
      BY <2>2, NumberedIsItem
    <2> HIDE DEF new, all
    <2>4. /\ all \in Seq(Item) /\ Len(all) = Len(items) + 1
          /\ \A i \in 1 .. Len(items) : all[i] = items[i]
          /\ all[Len(items) + 1] = new
      BY <2>1, <2>3
    <2>5. \A i \in Len(items) + 1 .. Len(all) : i = Len(items) + 1
      BY <2>4
    <2>6. Extends(items, all, {s})
      BY <2>2, <2>4, <2>5 DEF Extends, new
    <2>7. Shows(all, s)
      BY <2>3, <2>4 DEF Shows
    <2> QED
      BY <2>6, <2>7 DEF all
  <1> QED
    BY <1>1, <1>2

\* The function that AddEach is defined by.
AddedUpTo(items, new, dated) ==
  LET added[n \in 0 .. Len(new)] ==
        IF n = 0 THEN items ELSE Add(added[n - 1], new[n], dated)
  IN added

LEMMA AddEachUnfolds ==
  ASSUME NEW items \in Seq(Item), NEW new \in Seq(Observation), NEW dated \in BOOLEAN
  PROVE  /\ AddEach(items, new, dated) = AddedUpTo(items, new, dated)[Len(new)]
         /\ AddedUpTo(items, new, dated)[0] = items
         /\ \A n \in 1 .. Len(new) :
              AddedUpTo(items, new, dated)[n] = Add(AddedUpTo(items, new, dated)[n - 1], new[n], dated)
  <1> DEFINE Step(q, n) == Add(q, new[n], dated)
             F(g) == [n \in 0 .. Len(new) |-> IF n = 0 THEN items ELSE Step(g[n - 1], n)]
             S == Seq(Item)
             step == [p \in S \X (1 .. Len(new)) |-> Step(p[1], p[2])]
             f == AddedUpTo(items, new, dated)
  <1>1. f = CHOOSE g : g = F(g)
    BY DEF AddedUpTo
  <1>2. AddEach(items, new, dated) = f[Len(new)]
    BY DEF AddEach, AddedUpTo
  <1>3. \A q \in S, n \in 1 .. Len(new) : Step(q, n) \in S
    BY AddExtends DEF Extends
  <1>4. items \in S /\ Len(new) \in Nat
    OBVIOUS
  <1> HIDE DEF f, Step, S
  <1>5. step \in [S \X (1 .. Len(new)) -> S]
    BY <1>3
  <1>6. PICK g : Solves(g, Len(new), S, items, step)
    <2> HIDE DEF step
    <2> QED
      BY <1>4, <1>5, Recursion
  <1>7. \A n \in 1 .. Len(new) : step[<<g[n - 1], n>>] = Step(g[n - 1], n)
    <2>1. \A n \in 1 .. Len(new) : g[n - 1] \in S
      <3>1. g \in [0 .. Len(new) -> S]
        BY <1>6 DEF Solves
      <3>2. \A n \in 1 .. Len(new) : n - 1 \in 0 .. Len(new)
        BY <1>4
      <3> QED
        BY <3>1, <3>2
    <2> QED
      BY <2>1
  <1> HIDE DEF step
  <1>8. g = F(g)
    <2>1. \A n \in 0 .. Len(new) :
            (IF n = 0 THEN items ELSE step[<<g[n - 1], n>>])
              = (IF n = 0 THEN items ELSE Step(g[n - 1], n))
      BY <1>4, <1>7
    <2> QED
      BY <1>6, <2>1 DEF Solves
  <1>9. f = F(f)
    BY <1>1, <1>8
  <1>10. f[0] = items
    BY <1>4, <1>9
  <1>11. ASSUME NEW n \in 1 .. Len(new) PROVE f[n] = Step(f[n - 1], n)
    <2>1. n \in 0 .. Len(new) /\ n # 0
      BY <1>4
    <2> QED
      BY <1>9, <2>1
  <1> QED
    BY <1>2, <1>10, <1>11 DEF f, Step

LEMMA ExtendsGrows ==
  ASSUME NEW S, NEW S1, NEW S2, NEW a \in Seq(Item), NEW b, NEW c,
         Extends(a, b, S1), Extends(b, c, S2), S1 \subseteq S, S2 \subseteq S
  PROVE  Extends(a, c, S)
  <1>1. /\ b \in Seq(Item) /\ c \in Seq(Item) /\ Len(a) <= Len(b) /\ Len(b) <= Len(c)
        /\ \A i \in 1 .. Len(a) : b[i] = a[i]
        /\ \A i \in 1 .. Len(b) : c[i] = b[i]
    BY DEF Extends
  <1>2. Len(a) \in Nat /\ Len(b) \in Nat /\ Len(c) \in Nat
    BY <1>1
  <1>3. ASSUME NEW i \in Len(a) + 1 .. Len(c) PROVE \E s \in S, t \in Nat : c[i] = Numbered(s, i, t)
    <2>1. CASE i \in Len(a) + 1 .. Len(b)
      <3>1. \E s \in S1, t \in Nat : b[i] = Numbered(s, i, t)
        BY <2>1 DEF Extends
      <3>2. c[i] = b[i]
        BY <1>1, <1>2, <2>1
      <3> QED
        BY <3>1, <3>2
    <2>2. CASE i \in Len(b) + 1 .. Len(c)
      BY <2>2 DEF Extends
    <2> QED
      BY <1>2, <2>1, <2>2
  <1>4. \A i \in 1 .. Len(a) : i \in 1 .. Len(b)
    BY <1>1, <1>2
  <1>5. Len(a) <= Len(c) /\ \A i \in 1 .. Len(a) : c[i] = a[i]
    BY <1>1, <1>2, <1>4
  <1> QED
    BY <1>1, <1>3, <1>5 DEF Extends

LEMMA ShownStays ==
  ASSUME NEW S, NEW a \in Seq(Item), NEW b, Extends(a, b, S), NEW s, Shows(a, s)
  PROVE  Shows(b, s)
  <1>1. PICK i \in 1 .. Len(a) : Same(a[i], s)
    BY DEF Shows
  <1>2. i \in 1 .. Len(b) /\ b[i] = a[i]
    BY DEF Extends
  <1> QED
    BY <1>1, <1>2 DEF Shows

\* Whatever a collector hands over: what was there stays, what is new is one of
\* its observations under the next number, and each of them is shown.
LEMMA AddEachExtends ==
  ASSUME NEW S \in SUBSET Observation, NEW items \in Seq(Item), NEW new \in Seq(S),
         NEW dated \in BOOLEAN
  PROVE  /\ Extends(items, AddEach(items, new, dated), S)
         /\ \A n \in 1 .. Len(new) : Shows(AddEach(items, new, dated), new[n])
  <1> DEFINE f == AddedUpTo(items, new, dated)
             P(n) == Extends(items, f[n], S) /\ \A m \in 1 .. n : Shows(f[n], new[m])
             T == {n \in Nat : n <= Len(new) => P(n)}
  <1>1. Len(new) \in Nat /\ new \in Seq(Observation)
    OBVIOUS
  <1>2. /\ AddEach(items, new, dated) = f[Len(new)] /\ f[0] = items
        /\ \A n \in 1 .. Len(new) : f[n] = Add(f[n - 1], new[n], dated)
    BY <1>1, AddEachUnfolds
  <1> HIDE DEF f
  <1>3. 0 \in T
    BY <1>2 DEF Extends
  <1>4. ASSUME NEW n \in Nat, n \in T PROVE n + 1 \in T
    <2> SUFFICES ASSUME n + 1 <= Len(new) PROVE P(n + 1)
      OBVIOUS
    <2>1. P(n) /\ n + 1 \in 1 .. Len(new) /\ (n + 1) - 1 = n
      BY <1>1, <1>4
    <2>2. f[n] \in Seq(Item) /\ new[n + 1] \in S /\ new[n + 1] \in Observation
      BY <2>1 DEF Extends
    <2>3. f[n + 1] = Add(f[n], new[n + 1], dated)
      BY <1>2, <2>1
    <2>4. Extends(f[n], f[n + 1], {new[n + 1]}) /\ Shows(f[n + 1], new[n + 1])
      BY <2>2, <2>3, AddExtends
    <2>5. Extends(items, f[n + 1], S)
      BY <2>1, <2>2, <2>4, ExtendsGrows
    <2>6. \A m \in 1 .. n : Shows(f[n + 1], new[m])
      BY <2>1, <2>2, <2>4, ShownStays
    <2>7. \A m \in 1 .. n + 1 : m \in 1 .. n \/ m = n + 1
      OBVIOUS
    <2> QED
      BY <2>4, <2>5, <2>6, <2>7
  <1>5. Len(new) \in T
    BY <1>1, <1>3, <1>4, Induction
  <1> QED
    BY <1>1, <1>2, <1>5

-----------------------------------------------------------------------------
(* What a log shows.                                                       *)

\* Observations of a log are never trusted, and a destination in one is not
\* strong.
LogObservation(types) ==
  {o \in Observation :
     /\ o.type \in types \cap (TokenType \cup NetworkType)
     /\ o.trust = "LOG_OBSERVED" /\ ~o.body /\ o.src \in Line
     /\ o.type \in NetworkType => o.conf = 60}

LEMMA LogTypesAre ==
  /\ ToSet(LogTypes) = {"sms_access", "accessibility_behavior", "dynamic_code_load",
                        "webview_activity", "network_destination", "dns_destination"}
  /\ \A k \in 1 .. 6 : LogTypes[k] \in ToSet(LogTypes)
  /\ ToSet(LogTypes) \subseteq TokenType \cup NetworkType
  /\ ToSet(LogTypes) \subseteq EvidenceType
  <1>1. DOMAIN LogTypes = {1, 2, 3, 4, 5, 6}
    BY DEF LogTypes
  <1>2. ToSet(LogTypes) = {LogTypes[1], LogTypes[2], LogTypes[3], LogTypes[4], LogTypes[5],
                           LogTypes[6]}
    BY <1>1 DEF ToSet
  <1>3. 1 .. 6 = {1, 2, 3, 4, 5, 6}
    OBVIOUS
  <1> QED
    BY <1>2, <1>3 DEF LogTypes, TokenType, NetworkType, EvidenceType

LEMMA LineIsObserved ==
  ASSUME NEW l \in Line, NEW t \in ToSet(LogTypes)
  PROVE  FromLine(l, t) \in LogObservation({t})
  <1> DEFINE marked == l \in MarkedLine
             dump == "dumpsys" \in Signals[l]
             conf == IF t \in NetworkType THEN 60 ELSE 75
  <1>1. t \in EvidenceType /\ t \in TokenType \cup NetworkType
    BY LogTypesAre
  <1>2. marked \in BOOLEAN /\ dump \in BOOLEAN /\ conf \in 0 .. 100
    OBVIOUS
  <1>3. t \in NetworkType => conf = 60
    OBVIOUS
  <1>4. FromLine(l, t) = [Seen(t, "LOG_OBSERVED", conf, l) EXCEPT !.marked = marked, !.dump = dump]
    BY DEF FromLine
  <1> HIDE DEF EvidenceType, TokenType, NetworkType, marked, dump, conf
  <1>5. FromLine(l, t) = [type |-> t, trust |-> "LOG_OBSERVED", conf |-> conf, src |-> l,
                          marked |-> marked, body |-> FALSE, dump |-> dump]
    BY <1>4 DEF Seen
  <1>6. l \in Source
    BY DEF Source
  <1>7. FromLine(l, t) \in Observation
    BY <1>1, <1>2, <1>5, <1>6 DEF Observation, TrustLevel
  <1> QED
    BY <1>1, <1>3, <1>5, <1>7 DEF LogObservation

LEMMA ShownIsObserved ==
  ASSUME NEW log, NEW t \in ToSet(LogTypes)
  PROVE  Shown(log, t) \in Seq(LogObservation({t}))
  <1> DEFINE X == LogObservation({t})
             s == [i \in DOMAIN Lines |-> FromLine(Lines[i], t)]
  <1>1. Lines \in Seq(Line)
    BY EvidenceAssumption
  <1>2. \A i \in DOMAIN Lines : FromLine(Lines[i], t) \in X
    BY <1>1, LineIsObserved
  <1>3. DOMAIN Lines = 1 .. Len(Lines) /\ Len(Lines) \in Nat
    BY <1>1
  <1> HIDE DEF X
  <1>4. s \in [1 .. Len(Lines) -> X]
    BY <1>2, <1>3
  <1> HIDE DEF s
  <1>5. s \in Seq(X) /\ \A n \in 1 .. Len(s) : s[n] \in X
    BY <1>3, <1>4
  <1>6. \A keep : Kept(s, keep) \in Seq(X)
    BY <1>5, KeptType
  <1> QED
    BY <1>6 DEF Shown, s, X

\* _extract_logcat_evidence, for any log and types.
LEMMA LogIsObserved ==
  ASSUME NEW log, NEW types
  PROVE  FromLog(log, types) \in Seq(LogObservation(types))
  <1> DEFINE S == LogObservation(types)
             Of(t) == IF t \in types THEN Shown(log, t) ELSE <<>>
  <1>1. ASSUME NEW t \in ToSet(LogTypes) PROVE Of(t) \in Seq(S)
    <2>1. CASE t \in types
      <3>1. LogObservation({t}) \subseteq S
        BY <2>1 DEF LogObservation
      <3> HIDE DEF S
      <3>2. Shown(log, t) \in Seq(S)
        BY <3>1, ShownIsObserved
      <3> QED
        BY <2>1, <3>2
    <2>2. CASE t \notin types
      BY <2>2
    <2> QED
      BY <2>1, <2>2
  <1> HIDE DEF S, Of
  <1>2. \A k \in 1 .. 6 : Of(LogTypes[k]) \in Seq(S)
    BY <1>1, LogTypesAre
  <1>3. \A a, b \in Seq(S) : a \o b \in Seq(S)
    OBVIOUS
  <1>4. FromLog(log, types) = Of(LogTypes[1]) \o Of(LogTypes[2]) \o Of(LogTypes[3])
                                \o Of(LogTypes[4]) \o Of(LogTypes[5]) \o Of(LogTypes[6])
    BY DEF FromLog, Of
  <1>5. /\ Of(LogTypes[1]) \in Seq(S) /\ Of(LogTypes[2]) \in Seq(S)
        /\ Of(LogTypes[3]) \in Seq(S) /\ Of(LogTypes[4]) \in Seq(S)
        /\ Of(LogTypes[5]) \in Seq(S) /\ Of(LogTypes[6]) \in Seq(S)
    BY <1>2
  <1> DEFINE two == Of(LogTypes[1]) \o Of(LogTypes[2])
             three == two \o Of(LogTypes[3])
             four == three \o Of(LogTypes[4])
             five == four \o Of(LogTypes[5])
  <1>6. two \in Seq(S)
    BY <1>3, <1>5
  <1> HIDE DEF two
  <1>7. three \in Seq(S)
    BY <1>3, <1>5, <1>6
  <1> HIDE DEF three
  <1>8. four \in Seq(S)
    BY <1>3, <1>5, <1>7
  <1> HIDE DEF four
  <1>9. five \in Seq(S)
    BY <1>3, <1>5, <1>8
  <1> HIDE DEF five
  <1>10. five \o Of(LogTypes[6]) \in Seq(S)
    BY <1>3, <1>5, <1>9
  <1> QED
    BY <1>4, <1>10 DEF S, two, three, four, five

-----------------------------------------------------------------------------
(* The scores.                                                             *)

\* Points of rules with natural weights add up to a natural.
LEMMA EarnedType ==
  ASSUME NEW R, NEW rules \in Seq(R), \A k \in DOMAIN rules : rules[k].points \in Nat, NEW fired,
         NEW c
  PROVE  Earned(rules, fired, c) \in Nat
  <1> DEFINE s == [k \in DOMAIN rules |->
                     IF k \in fired /\ rules[k].category = c THEN rules[k].points ELSE 0]
  <1>1. s \in Seq(Nat)
    OBVIOUS
  <1> HIDE DEF s
  <1>2. Total(s) \in Nat
    BY <1>1, TotalType
  <1> QED
    BY <1>2 DEF Earned, s

LEMMA AtMostBounds ==
  ASSUME NEW n \in Nat, NEW bound \in Nat
  PROVE  AtMost(n, bound) \in 0 .. bound
  BY DEF AtMost

LEMMA Categories ==
  /\ CategoryOrder \in Seq(Category)
  /\ \A c \in Category : RuntimeCap(c) \in Nat /\ Weight(c) \in Nat
  <1>1. \A k \in 1 .. 4 : CategoryOrder[k] \in Category
    BY DEF Category, ToSet, CategoryOrder
  <1>2. Category = {CategoryOrder[1], CategoryOrder[2], CategoryOrder[3], CategoryOrder[4]}
    BY DEF Category, ToSet, CategoryOrder
  <1> QED
    BY <1>1, <1>2 DEF CategoryOrder, RuntimeCap, Weight

\* Stage 2, whatever evidence there is.
LEMMA AdjustmentBounds ==
  ASSUME NEW ev
  PROVE  RuntimeAdjustment(ev) \in 0 .. GlobalRuntimeCap
  <1> DEFINE rules == RuntimeRules(ev)
             s == [k \in DOMAIN CategoryOrder |->
                     AtMost(RuntimePoints(rules, CategoryOrder[k]), RuntimeCap(CategoryOrder[k]))]
  <1>0. \A id, category, points, cited :
          RuntimeRule(id, category, points, cited).points = points
    BY DEF RuntimeRule
  <1>1. /\ rules \in Seq({rules[k] : k \in 1 .. 6})
        /\ \A k \in DOMAIN rules : rules[k].points \in Nat
    BY <1>0 DEF RuntimeRules
  <1> HIDE DEF rules
  <1>2. \A c : RuntimePoints(rules, c) \in Nat
    BY <1>1, EarnedType DEF RuntimePoints
  <1>3. CategoryOrder \in Seq(Category) /\ \A c \in Category : RuntimeCap(c) \in Nat
    BY Categories
  <1>4. ASSUME NEW k \in DOMAIN CategoryOrder
        PROVE  AtMost(RuntimePoints(rules, CategoryOrder[k]), RuntimeCap(CategoryOrder[k])) \in Nat
    <2>1. CategoryOrder[k] \in Category
      BY <1>3
    <2>2. RuntimeCap(CategoryOrder[k]) \in Nat /\ RuntimePoints(rules, CategoryOrder[k]) \in Nat
      BY <1>2, <1>3, <2>1
    <2> QED
      BY <2>2 DEF AtMost
  <1>5. s \in Seq(Nat)
    BY <1>3, <1>4
  <1> HIDE DEF s
  <1>6. Total(s) \in Nat
    BY <1>5, TotalType
  <1>7. RuntimeAdjustment(ev) = AtMost(GlobalRuntimeCap, Total(s))
    BY DEF RuntimeAdjustment, s, rules
  <1> QED
    BY <1>6, <1>7 DEF AtMost, GlobalRuntimeCap

\* Python's round, of a number that is not negative.
LEMMA RoundedType ==
  ASSUME NEW n \in Nat
  PROVE  Rounded(n) \in Nat
  <1>1. n \div 100 \in Nat
    OBVIOUS
  <1> QED
    BY <1>1 DEF Rounded

LEMMA RulesHavePoints ==
  ASSUME NEW fired, NEW c
  PROVE  /\ Earned(StaticRules, fired, c) \in Nat
         /\ Earned(PermissionWeights, fired, c) \in Nat
         /\ Earned(SignalWeights, fired, c) \in Nat
  <1>1. \A signals, category, points : Rule(signals, category, points).points = points
    BY DEF Rule
  <1>2. /\ DOMAIN StaticRules = 1 .. 19
        /\ \A k \in 1 .. 19 : StaticRules[k].points \in Nat
        /\ StaticRules \in Seq({StaticRules[k] : k \in 1 .. 19})
    BY <1>1 DEF StaticRules
  <1>3. /\ DOMAIN PermissionWeights = 1 .. 9
        /\ \A k \in 1 .. 9 : PermissionWeights[k].points \in Nat
        /\ PermissionWeights \in Seq({PermissionWeights[k] : k \in 1 .. 9})
    BY <1>1 DEF PermissionWeights
  <1>4. /\ DOMAIN SignalWeights = 1 .. 8
        /\ \A k \in 1 .. 8 : SignalWeights[k].points \in Nat
        /\ SignalWeights \in Seq({SignalWeights[k] : k \in 1 .. 8})
    BY <1>1 DEF SignalWeights
  <1> QED
    BY <1>2, <1>3, <1>4, EarnedType

\* What engines find never takes points away.
LEMMA EnginePointsType ==
  ASSUME NEW X, NEW findings \in Seq(X), \A f \in X : f.points \in Nat, NEW c
  PROVE  EnginePoints(findings, c) \in Nat
  <1>1. ASSUME NEW engine PROVE EngineCredit(findings, engine, c) \in Nat
    <2> DEFINE Of(f) == IF f.engine = engine /\ f.eligible /\ f.conf >= 70 /\ f.category = c
                        THEN AtMost(f.points, 30) ELSE 0
               s == [i \in DOMAIN findings |-> Of(findings[i])]
    <2>1. \A f \in X : Of(f) \in Nat
      BY DEF AtMost
    <2> HIDE DEF Of
    <2>2. s \in Seq(Nat)
      BY <2>1
    <2> HIDE DEF s
    <2>3. Total(s) \in Nat
      BY <2>2, TotalType
    <2>4. EngineCredit(findings, engine, c) = AtMost(Total(s), 25)
      BY DEF EngineCredit, s, Of
    <2> QED
      BY <2>3, <2>4 DEF AtMost
  <1> DEFINE First1(i) == \A j \in DOMAIN findings :
                            findings[j].engine = findings[i].engine => i <= j
             s == [i \in DOMAIN findings |->
                     IF First1(i) THEN EngineCredit(findings, findings[i].engine, c) ELSE 0]
  <1> HIDE DEF First1
  <1>2. s \in Seq(Nat)
    BY <1>1
  <1> HIDE DEF s
  <1>3. Total(s) \in Nat
    BY <1>2, TotalType
  <1> QED
    BY <1>3 DEF EnginePoints, s, First1

\* Stage 1, whatever was extracted and whatever the engines found.
LEMMA StaticScoreBounds ==
  ASSUME NEW static, NEW expected, NEW X, NEW findings \in Seq(X), \A f \in X : f.points \in Nat
  PROVE  StaticScore(static, expected, findings) \in 0 .. 100
  <1>1. ASSUME NEW c PROVE SubScore(static, findings, c) \in Nat
    BY RulesHavePoints, EnginePointsType DEF SubScore, Points, AtMost
  <1>2. FraudDelta(static, expected) \in Nat
    BY RulesHavePoints DEF FraudDelta, AtMost
  <1> DEFINE Part(k) == Weight(CategoryOrder[k]) * SubScore(static, findings, CategoryOrder[k])
             s == [k \in DOMAIN CategoryOrder |-> Part(k)]
             sum == Total(s) + AtMost(1000, 10 * FraudDelta(static, expected))
             rounded == Rounded(sum)
  <1>3. ASSUME NEW k \in DOMAIN CategoryOrder
        PROVE  Part(k) \in Nat
    <2>1. CategoryOrder[k] \in Category
      BY Categories
    <2>2. Weight(CategoryOrder[k]) \in Nat /\ SubScore(static, findings, CategoryOrder[k]) \in Nat
      BY <1>1, <2>1, Categories
    <2>3. \A a, b \in Nat : a * b \in Nat
      OBVIOUS
    <2> QED
      BY <2>2, <2>3
  <1>4. CategoryOrder \in Seq(Category)
    BY Categories
  <1> HIDE DEF Part
  <1>5. s \in Seq(Nat)
    BY <1>3, <1>4
  <1> HIDE DEF s
  <1>6. Total(s) \in Nat
    BY <1>5, TotalType
  <1>7. sum \in Nat
    BY <1>2, <1>6 DEF AtMost
  <1> HIDE DEF sum
  <1>8. rounded \in Nat
    BY <1>7, RoundedType
  <1> HIDE DEF rounded
  <1>9. AtMost(100, rounded) \in 0 .. 100
    BY <1>8 DEF AtMost
  <1> QED
    BY <1>9 DEF StaticScore, rounded, sum, s, Part

\* Every element of a list has one in another to itself, and that is the same.
Within(small, large) ==
  \E h \in [DOMAIN small -> DOMAIN large] :
    /\ \A i, j \in DOMAIN small : h[i] = h[j] => i = j
    /\ \A i \in DOMAIN small : small[i] = large[h[i]]

\* What an engine is credited with grows with its findings.
LEMMA EngineCreditGrows ==
  ASSUME NEW X, \A f \in X : f.points \in Nat, NEW small \in Seq(X), NEW large \in Seq(X),
         Within(small, large), NEW engine, NEW c
  PROVE  /\ EngineCredit(small, engine, c) \in Nat /\ EngineCredit(large, engine, c) \in Nat
         /\ EngineCredit(small, engine, c) <= EngineCredit(large, engine, c)
  <1> DEFINE Of(f) == IF f.engine = engine /\ f.eligible /\ f.conf >= 70 /\ f.category = c
                      THEN AtMost(f.points, 30) ELSE 0
             s == [i \in DOMAIN small |-> Of(small[i])]
             l == [i \in DOMAIN large |-> Of(large[i])]
  <1>1. \A f \in X : Of(f) \in Nat
    BY DEF AtMost
  <1>2. PICK h \in [DOMAIN small -> DOMAIN large] :
          /\ \A i, j \in DOMAIN small : h[i] = h[j] => i = j
          /\ \A i \in DOMAIN small : small[i] = large[h[i]]
    BY DEF Within
  <1>3. /\ EngineCredit(small, engine, c) = AtMost(Total(s), 25)
        /\ EngineCredit(large, engine, c) = AtMost(Total(l), 25)
    BY DEF EngineCredit
  <1> HIDE DEF Of
  <1>4. s \in Seq(Nat) /\ l \in Seq(Nat)
    BY <1>1
  <1>5. \A i \in DOMAIN small : h[i] \in DOMAIN l /\ s[i] <= l[h[i]]
    <2> SUFFICES ASSUME NEW i \in DOMAIN small PROVE h[i] \in DOMAIN l /\ s[i] <= l[h[i]]
      OBVIOUS
    <2>1. h[i] \in DOMAIN large /\ small[i] = large[h[i]] /\ small[i] \in X
      BY <1>2
    <2>2. Of(small[i]) \in Nat
      BY <1>1, <2>1
    <2>3. s[i] = Of(small[i]) /\ l[h[i]] = Of(small[i])
      BY <2>1
    <2> QED
      BY <2>1, <2>2, <2>3
  <1>6. DOMAIN s = DOMAIN small /\ h \in [DOMAIN small -> Nat]
    <2>1. \A i \in DOMAIN small : h[i] \in Nat
      BY <1>2
    <2> QED
      BY <2>1
  <1> HIDE DEF s, l
  <1>7. Total(s) <= Total(l)
    BY <1>2, <1>4, <1>5, <1>6, TotalGrows
  <1>8. Total(s) \in Nat /\ Total(l) \in Nat
    BY <1>4, TotalType
  <1> QED
    BY <1>3, <1>7, <1>8 DEF AtMost

\* And so do the points of all engines: each counts at the first of its findings.
LEMMA EnginePointsGrow ==
  ASSUME NEW X, \A f \in X : f.points \in Nat, NEW small \in Seq(X), NEW large \in Seq(X),
         Within(small, large), NEW c
  PROVE  EnginePoints(small, c) <= EnginePoints(large, c)
  <1> DEFINE FirstOf(list, i) ==
               \A j \in DOMAIN list : list[j].engine = list[i].engine => i <= j
             s == [i \in DOMAIN small |->
                     IF FirstOf(small, i) THEN EngineCredit(small, small[i].engine, c) ELSE 0]
             l == [i \in DOMAIN large |->
                     IF FirstOf(large, i) THEN EngineCredit(large, large[i].engine, c) ELSE 0]
             A == {i \in DOMAIN small : FirstOf(small, i)}
             Its(i, j) == j \in DOMAIN large /\ large[j].engine = small[i].engine /\ FirstOf(large, j)
             h == [i \in A |-> CHOOSE j \in Nat : Its(i, j)]
  <1>1. EnginePoints(small, c) = Total(s) /\ EnginePoints(large, c) = Total(l)
    BY DEF EnginePoints
  <1>2. \A engine : /\ EngineCredit(small, engine, c) \in Nat /\ EngineCredit(large, engine, c) \in Nat
                    /\ EngineCredit(small, engine, c) <= EngineCredit(large, engine, c)
    BY EngineCreditGrows
  <1>3. ASSUME NEW i \in DOMAIN small PROVE \E j \in Nat : Its(i, j)
    <2> DEFINE U == {j \in DOMAIN large : large[j].engine = small[i].engine}
    <2>1. \E j \in DOMAIN large : large[j] = small[i]
      BY DEF Within
    <2>2. U \in SUBSET Nat /\ U # {}
      BY <2>1
    <2>3. PICK j \in U : \A k \in U : j <= k
      <3> HIDE DEF U
      <3> QED
        BY <2>2, Least
    <2> QED
      BY <2>3
  <1>4. ASSUME NEW i \in A PROVE h[i] \in Nat /\ Its(i, h[i])
    BY <1>3
  <1>5. \A i, j \in A : h[i] = h[j] => i = j
    <2> SUFFICES ASSUME NEW i \in A, NEW j \in A, h[i] = h[j] PROVE i = j
      OBVIOUS
    <2>1. small[i].engine = small[j].engine
      BY <1>4
    <2>2. i <= j /\ j <= i /\ i \in Nat /\ j \in Nat
      BY <2>1
    <2> QED
      BY <2>2
  <1>6. \A i \in A : h[i] \in DOMAIN l /\ s[i] <= l[h[i]]
    <2> SUFFICES ASSUME NEW i \in A PROVE h[i] \in DOMAIN l /\ s[i] <= l[h[i]]
      OBVIOUS
    <2>1. Its(i, h[i])
      BY <1>4
    <2>2. s[i] = EngineCredit(small, small[i].engine, c)
      OBVIOUS
    <2>3. l[h[i]] = EngineCredit(large, small[i].engine, c)
      BY <2>1
    <2> QED
      BY <1>2, <2>1, <2>2, <2>3
  <1>7. s \in Seq(Nat) /\ l \in Seq(Nat)
    <2> HIDE DEF FirstOf
    <2>1. /\ Len(small) \in Nat /\ DOMAIN small = 1 .. Len(small)
          /\ Len(large) \in Nat /\ DOMAIN large = 1 .. Len(large)
      OBVIOUS
    <2>2. s \in [1 .. Len(small) -> Nat]
      BY <1>2, <2>1
    <2>3. l \in [1 .. Len(large) -> Nat]
      BY <1>2, <2>1
    <2>4. \A n \in Nat : \A t \in [1 .. n -> Nat] : t \in Seq(Nat)
      OBVIOUS
    <2> HIDE DEF s, l
    <2> QED
      BY ONLY <2>1, <2>2, <2>3, <2>4
  <1>8. DOMAIN s = DOMAIN small /\ A \in SUBSET DOMAIN s /\ \A i \in DOMAIN s : i \notin A => s[i] = 0
    OBVIOUS
  <1>9. h \in [A -> Nat]
    BY <1>4
  <1> HIDE DEF s, l, h, A
  <1>10. Total(s) <= Total(l)
    BY <1>5, <1>6, <1>7, <1>8, <1>9, TotalGrows
  <1> QED
    BY <1>1, <1>10

\* Python's round keeps the order.
LEMMA RoundedGrows ==
  ASSUME NEW a \in Nat, NEW b \in Nat, a <= b
  PROVE  Rounded(a) <= Rounded(b)
  <1> DEFINE m == a \div 100
             n == b \div 100
             p == a % 100
             q == b % 100
  <1>1. /\ m \in Nat /\ n \in Nat /\ p \in 0 .. 99 /\ q \in 0 .. 99
        /\ a = 100 * m + p /\ b = 100 * n + q
    OBVIOUS
  <1>2. /\ Rounded(a) = IF p > 50 \/ (p = 50 /\ m % 2 = 1) THEN m + 1 ELSE m
        /\ Rounded(b) = IF q > 50 \/ (q = 50 /\ n % 2 = 1) THEN n + 1 ELSE n
    BY DEF Rounded
  <1> HIDE DEF m, n, p, q
  <1>3. CASE m = n
    <2>1. p <= q
      BY <1>1, <1>3
    <2> QED
      BY <1>1, <1>2, <1>3, <2>1
  <1>4. CASE m # n
    <2>1. m + 1 <= n
      BY <1>1, <1>4
    <2> QED
      BY <1>1, <1>2, <2>1
  <1> QED
    BY <1>3, <1>4

\* Stage 1 grows with what engines find.
LEMMA StaticScoreGrows ==
  ASSUME NEW static, NEW expected, NEW X, \A f \in X : f.points \in Nat,
         NEW small \in Seq(X), NEW large \in Seq(X), Within(small, large)
  PROVE  StaticScore(static, expected, small) <= StaticScore(static, expected, large)
  <1> DEFINE Part(list, k) == Weight(CategoryOrder[k]) * SubScore(static, list, CategoryOrder[k])
             s == [k \in DOMAIN CategoryOrder |-> Part(small, k)]
             l == [k \in DOMAIN CategoryOrder |-> Part(large, k)]
             extra == AtMost(1000, 10 * FraudDelta(static, expected))
  <1>1. ASSUME NEW c
        PROVE  /\ SubScore(static, small, c) \in Nat /\ SubScore(static, large, c) \in Nat
               /\ SubScore(static, small, c) <= SubScore(static, large, c)
    <2>1. Points(static, c) \in Nat /\ EnginePoints(small, c) \in Nat /\ EnginePoints(large, c) \in Nat
      BY RulesHavePoints, EnginePointsType DEF Points
    <2>2. EnginePoints(small, c) <= EnginePoints(large, c)
      BY EnginePointsGrow
    <2> QED
      BY <2>1, <2>2 DEF SubScore, AtMost
  <1>2. extra \in Nat
    <2>1. FraudDelta(static, expected) \in Nat
      BY RulesHavePoints DEF FraudDelta, AtMost
    <2> QED
      BY <2>1 DEF AtMost
  <1>3. ASSUME NEW k \in DOMAIN CategoryOrder
        PROVE  Part(small, k) \in Nat /\ Part(large, k) \in Nat /\ Part(small, k) <= Part(large, k)
    <2>1. CategoryOrder[k] \in Category
      BY Categories
    <2>2. Weight(CategoryOrder[k]) \in {34, 30, 20, 16}
      BY <2>1 DEF Category, ToSet, CategoryOrder, Weight
    <2> DEFINE x == SubScore(static, small, CategoryOrder[k])
               y == SubScore(static, large, CategoryOrder[k])
    <2>3. x \in Nat /\ y \in Nat /\ x <= y
      BY <1>1
    <2> HIDE DEF x, y
    <2>4. \A w \in {34, 30, 20, 16} : w * x \in Nat /\ w * y \in Nat /\ w * x <= w * y
      BY <2>3
    <2> QED
      BY <2>2, <2>4 DEF x, y
  <1>4. DOMAIN CategoryOrder = 1 .. 4
    BY DEF CategoryOrder
  <1> DEFINE h == [k \in 1 .. 4 |-> k]
  <1> HIDE DEF Part
  <1>5. /\ s \in Seq(Nat) /\ l \in Seq(Nat) /\ DOMAIN s = 1 .. 4
        /\ h \in [1 .. 4 -> Nat] /\ \A k \in 1 .. 4 : h[k] \in DOMAIN l /\ s[k] <= l[h[k]]
        /\ \A i, j \in 1 .. 4 : h[i] = h[j] => i = j
    BY <1>3, <1>4
  <1> HIDE DEF s, l, h
  <1>6. Total(s) <= Total(l)
    BY <1>5, TotalGrows
  <1>7. Total(s) \in Nat /\ Total(l) \in Nat
    BY <1>5, TotalType
  <1> HIDE DEF extra
  <1>8. Rounded(Total(s) + extra) <= Rounded(Total(l) + extra)
    BY <1>2, <1>6, <1>7, RoundedGrows
  <1>9. Rounded(Total(s) + extra) \in Nat /\ Rounded(Total(l) + extra) \in Nat
    <2>1. Total(s) + extra \in Nat /\ Total(l) + extra \in Nat
      BY <1>2, <1>7
    <2> QED
      BY <2>1, RoundedType
  <1>10. /\ StaticScore(static, expected, small) = AtMost(100, Rounded(Total(s) + extra))
         /\ StaticScore(static, expected, large) = AtMost(100, Rounded(Total(l) + extra))
    BY DEF StaticScore, s, l, extra, Part
  <1> QED
    BY <1>8, <1>9, <1>10 DEF AtMost
=============================================================================
