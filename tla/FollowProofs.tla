---------------------------- MODULE FollowProofs ----------------------------
(***************************************************************************)
(* The followed session, proved for every set of records, every length of  *)
(* the file and every number of rotations: no agent acts before its spawn, *)
(* and tails sent by count add up to the whole projection.                 *)
(***************************************************************************)
EXTENDS SessionFollow, FiniteSetTheorems, WellFoundedInduction, TLAPS

-----------------------------------------------------------------------------
(* Least elements.                                                          *)

LEMMA LeastOf ==
  ASSUME NEW S, S \subseteq Nat, S # {}
  PROVE  Min(S) \in S /\ \A j \in S : Min(S) <= j
<1> DEFINE Less == {p \in Nat \X Nat : p[1] < p[2]}
<1>1. IsWellFoundedOn(Less, Nat)
  BY NatLessThanWellFounded DEF OpToRel
<1> HIDE DEF Less
<1>2. PICK x \in S : \A y \in S : ~(<<y, x>> \in Less)
  BY <1>1, WFMin
<1>3. ASSUME NEW j \in S PROVE x <= j
  <2>1. ~(<<j, x>> \in Less) /\ j \in Nat /\ x \in Nat
    BY <1>2
  <2> QED
    BY <2>1 DEF Less
<1> QED
  BY <1>3 DEF Min

(* The least of a set is what it was when only greater numbers are added.  *)
LEMMA LeastStays ==
  ASSUME NEW S, NEW T, S \subseteq Nat, T \subseteq Nat, S # {}, S \subseteq T,
         \A x \in S, y \in T \ S : x <= y
  PROVE  Min(T) = Min(S)
<1>1. /\ Min(S) \in S /\ \A j \in S : Min(S) <= j
      /\ Min(T) \in T /\ \A j \in T : Min(T) <= j
  BY LeastOf
<1>2. Min(S) \in Nat /\ Min(T) \in Nat /\ Min(T) <= Min(S)
  BY <1>1
<1>3. Min(S) <= Min(T)
  BY <1>1
<1> QED
  BY <1>2, <1>3

-----------------------------------------------------------------------------
(* Sets in order.  The order is a set of pairs.                             *)

OrderOn(R, S) ==
  /\ \A x \in S : <<x, x>> \notin R
  /\ \A x \in S : \A y \in S : x = y \/ <<x, y>> \in R \/ <<y, x>> \in R
  /\ \A x \in S : \A y \in S : \A z \in S : <<x, y>> \in R /\ <<y, z>> \in R => <<x, z>> \in R

Rank(S, R)   == [x \in S |-> Cardinality({y \in S : <<y, x>> \in R})]
Ranked(S, R) == [n \in 1..Cardinality(S) |-> CHOOSE x \in S : Rank(S, R)[x] = n - 1]

LEMMA RankGrows ==
  ASSUME NEW S, IsFiniteSet(S), NEW R, OrderOn(R, S), NEW x \in S, NEW y \in S, <<x, y>> \in R
  PROVE  Rank(S, R)[x] < Rank(S, R)[y]
<1> DEFINE P == {z \in S : <<z, x>> \in R}
           Q == {z \in S : <<z, y>> \in R}
<1>1. P \subseteq Q /\ x \in Q /\ x \notin P
  BY DEF OrderOn
<1>2. IsFiniteSet(Q) /\ IsFiniteSet(P)
  BY FS_Subset
<1>3. Cardinality(P) \in Nat /\ Cardinality(Q) \in Nat
  BY <1>2, FS_CardinalityType
<1>4. Cardinality(P) <= Cardinality(Q) /\ (Cardinality(P) = Cardinality(Q) => P = Q)
  BY <1>1, <1>2, FS_Subset
<1>5. Cardinality(P) < Cardinality(Q)
  BY <1>1, <1>3, <1>4
<1> QED
  BY <1>5 DEF Rank

LEMMA RankType ==
  ASSUME NEW S, IsFiniteSet(S), NEW R, OrderOn(R, S), NEW x \in S
  PROVE  Rank(S, R)[x] \in 0..(Cardinality(S) - 1)
<1> DEFINE P == {z \in S : <<z, x>> \in R}
<1>1. P \subseteq S /\ x \notin P
  BY DEF OrderOn
<1>2. IsFiniteSet(P)
  BY <1>1, FS_Subset
<1>3. Cardinality(P) \in Nat /\ Cardinality(S) \in Nat
  BY <1>2, FS_CardinalityType
<1>4. Cardinality(P) <= Cardinality(S) /\ (Cardinality(P) = Cardinality(S) => P = S)
  BY <1>1, FS_Subset
<1>5. Rank(S, R)[x] = Cardinality(P)
  BY DEF Rank
<1> HIDE DEF P
<1> QED
  BY <1>1, <1>3, <1>4, <1>5

LEMMA RankOnto ==
  ASSUME NEW S, IsFiniteSet(S), NEW R, OrderOn(R, S)
  PROVE  \A n \in 1..Cardinality(S) : \E x \in S : Rank(S, R)[x] = n - 1
<1> DEFINE k == Cardinality(S)
           f == [x \in S |-> Rank(S, R)[x] + 1]
<1>1. k \in Nat
  BY FS_CardinalityType
<1>2. \A x \in S : f[x] \in 1..k
  BY <1>1, RankType
<1>3. \A x \in S : \A y \in S : f[x] = f[y] => x = y
  <2> SUFFICES ASSUME NEW x \in S, NEW y \in S, f[x] = f[y], x # y PROVE FALSE
    OBVIOUS
  <2>1. Rank(S, R)[x] \in Int /\ Rank(S, R)[y] \in Int
    BY RankType, <1>1
  <2>2. <<x, y>> \in R \/ <<y, x>> \in R
    BY DEF OrderOn
  <2>3. Rank(S, R)[x] < Rank(S, R)[y] \/ Rank(S, R)[y] < Rank(S, R)[x]
    BY <2>2, RankGrows
  <2> QED
    BY <2>1, <2>3
<1>4. f \in Injection(S, 1..k)
  <2> HIDE DEF k
  <2>1. f \in [S -> 1..k]
    BY <1>2
  <2> HIDE DEF f
  <2> QED
    BY <2>1, <1>3 DEF Injection, IsInjective
<1>5. IsFiniteSet(1..k) /\ Cardinality(1..k) = k
  BY <1>1, FS_Interval
<1>6. f \in Surjection(S, 1..k)
  <2> HIDE DEF f
  <2> QED
    BY <1>4, <1>5, FS_Injection
<1>7. \A n \in 1..k : \E x \in S : f[x] = n
  <2> HIDE DEF f
  <2> QED
    BY <1>6 DEF Surjection
<1> QED
  <2> SUFFICES ASSUME NEW n \in 1..k PROVE \E x \in S : Rank(S, R)[x] = n - 1
    OBVIOUS
  <2>1. PICK x \in S : f[x] = n
    BY <1>7
  <2>2. Rank(S, R)[x] \in Int /\ Rank(S, R)[x] + 1 = n
    BY <2>1, RankType, <1>1
  <2>3. Rank(S, R)[x] = n - 1
    BY <2>2, <1>1
  <2> QED
    BY <2>3

(* What an ordered set looks like as a sequence: each element once, in      *)
(* order.                                                                   *)
LEMMA RankedLists ==
  ASSUME NEW S, IsFiniteSet(S), NEW R, OrderOn(R, S)
  PROVE  LET q == Ranked(S, R)
         IN  /\ Cardinality(S) \in Nat
             /\ q \in [1..Cardinality(S) -> S] /\ q \in Seq(S)
             /\ Len(q) = Cardinality(S) /\ DOMAIN q = 1..Cardinality(S)
             /\ \A n \in DOMAIN q : Rank(S, R)[q[n]] = n - 1
             /\ \A x \in S : \E n \in DOMAIN q : q[n] = x
             /\ \A i \in DOMAIN q : \A j \in DOMAIN q : q[i] = q[j] => i = j
             /\ \A i \in DOMAIN q : \A j \in DOMAIN q : i < j <=> <<q[i], q[j]>> \in R
<1> DEFINE q == Ranked(S, R)
           k == Cardinality(S)
<1>1. k \in Nat
  BY FS_CardinalityType
<1>2. ASSUME NEW n \in 1..k
      PROVE  q[n] \in S /\ Rank(S, R)[q[n]] = n - 1
  <2>1. q[n] = CHOOSE x \in S : Rank(S, R)[x] = n - 1
    BY DEF Ranked
  <2>2. \E x \in S : Rank(S, R)[x] = n - 1
    BY RankOnto
  <2> HIDE DEF q
  <2> QED
    BY <2>1, <2>2
<1>3. DOMAIN q = 1..k
  BY DEF Ranked
<1>4. q \in [1..k -> S]
  <2>1. q = [n \in 1..k |-> q[n]]
    BY DEF Ranked
  <2> HIDE DEF q, k
  <2> QED
    BY <1>2, <2>1
<1>5. q \in Seq(S) /\ Len(q) = k
  <2> HIDE DEF q, k
  <2> QED
    BY <1>1, <1>4
<1> HIDE DEF q, k
<1>6. ASSUME NEW x \in S
      PROVE  \E n \in 1..k : q[n] = x
  <2>1. Rank(S, R)[x] \in 0..(k - 1)
    BY RankType DEF k
  <2>2. PICK n \in 1..k : n - 1 = Rank(S, R)[x]
    <3>1. Rank(S, R)[x] + 1 \in 1..k /\ (Rank(S, R)[x] + 1) - 1 = Rank(S, R)[x]
      BY <2>1, <1>1
    <3> QED
      BY <3>1
  <2>3. q[n] \in S /\ Rank(S, R)[q[n]] = Rank(S, R)[x]
    BY <1>2, <2>2
  <2>4. Rank(S, R)[x] \in Int
    BY <2>1
  <2>5. q[n] = x
    <3> SUFFICES ASSUME q[n] # x PROVE FALSE
      OBVIOUS
    <3>1. <<q[n], x>> \in R \/ <<x, q[n]>> \in R
      BY <2>3 DEF OrderOn
    <3>2. Rank(S, R)[q[n]] < Rank(S, R)[x] \/ Rank(S, R)[x] < Rank(S, R)[q[n]]
      BY <2>3, <3>1, RankGrows
    <3> QED
      BY <2>3, <2>4, <3>2
  <2> QED
    BY <2>5
<1>7. ASSUME NEW i \in 1..k, NEW j \in 1..k, q[i] = q[j]
      PROVE  i = j
  <2>1. i - 1 = j - 1
    BY <1>2, <1>7
  <2> QED
    BY <2>1
<1>8. ASSUME NEW i \in 1..k, NEW j \in 1..k
      PROVE  i < j <=> <<q[i], q[j]>> \in R
  <2>1. /\ q[i] \in S /\ q[j] \in S
        /\ Rank(S, R)[q[i]] = i - 1 /\ Rank(S, R)[q[j]] = j - 1
    BY <1>2
  <2>2. <<q[i], q[j]>> \in R => i - 1 < j - 1
    BY <2>1, RankGrows
  <2>3. <<q[j], q[i]>> \in R => j - 1 < i - 1
    BY <2>1, RankGrows
  <2>4. i # j => <<q[i], q[j]>> \in R \/ <<q[j], q[i]>> \in R
    BY <1>7, <2>1 DEF OrderOn
  <2> QED
    BY <2>2, <2>3, <2>4
<1> QED
  BY <1>1, <1>2, <1>3, <1>4, <1>5, <1>6, <1>7, <1>8 DEF q, k

(* The greatest of a finite set of numbers is the last one in order.        *)
LEMMA GreatestOf ==
  ASSUME NEW S, IsFiniteSet(S), S \subseteq Nat, S # {}
  PROVE  Max(S) \in S /\ \A j \in S : Max(S) >= j
<1> DEFINE R == {p \in Nat \X Nat : p[1] < p[2]}
           q == Ranked(S, R)
           k == Cardinality(S)
<1>1. OrderOn(R, S)
  BY DEF OrderOn
<1> HIDE DEF R
<1>2. /\ k \in Nat /\ k # 0 /\ DOMAIN q = 1..k /\ q \in [1..k -> S]
      /\ \A x \in S : \E n \in DOMAIN q : q[n] = x
      /\ \A m \in DOMAIN q : \A n \in DOMAIN q : m < n <=> <<q[m], q[n]>> \in R
  <2>1. k \in Nat /\ k # 0
    BY FS_CardinalityType, FS_EmptySet
  <2>2. DOMAIN q = 1..k /\ q \in [1..k -> S]
    BY <1>1, RankedLists
  <2>3. \A x \in S : \E n \in DOMAIN q : q[n] = x
    BY <1>1, RankedLists
  <2>4. \A m \in DOMAIN q : \A n \in DOMAIN q : m < n <=> <<q[m], q[n]>> \in R
    BY <1>1, RankedLists
  <2> QED
    BY <2>1, <2>2, <2>3, <2>4
<1> HIDE DEF q, k
<1>3. k \in 1..k
  BY <1>2
<1>4. ASSUME NEW j \in S PROVE q[k] >= j
  <2>1. PICK n \in 1..k : q[n] = j
    BY <1>2
  <2>2. n = k \/ n < k
    BY <1>2
  <2>3. n = k \/ <<q[n], q[k]>> \in R
    BY <1>2, <1>3, <2>2
  <2>4. q[n] \in Nat /\ q[k] \in Nat
    BY <1>2, <1>3
  <2> QED
    BY <2>1, <2>3, <2>4 DEF R
<1>5. q[k] \in S
  BY <1>2, <1>3
<1> QED
  BY <1>4, <1>5 DEF Max

(* T adds to S elements that come after all of S.                           *)
After(S, T, R) == S \subseteq T /\ \A x \in S : \A y \in T \ S : <<x, y>> \in R

(* A sequence that another one continues.                                   *)
Continues(t, s) == Len(s) <= Len(t) /\ \A n \in DOMAIN s : n \in DOMAIN t /\ t[n] = s[n]

LEMMA RankedGrows ==
  ASSUME NEW T, IsFiniteSet(T), NEW R, OrderOn(R, T), NEW S, After(S, T, R)
  PROVE  Continues(Ranked(T, R), Ranked(S, R))
<1>1. S \subseteq T /\ IsFiniteSet(S)
  BY FS_Subset DEF After
<1>2. OrderOn(R, S)
  BY <1>1 DEF OrderOn
<1>3. Cardinality(S) <= Cardinality(T) /\ Cardinality(S) \in Nat /\ Cardinality(T) \in Nat
  BY <1>1, FS_Subset, FS_CardinalityType
<1>4. ASSUME NEW x \in S
      PROVE  Rank(T, R)[x] = Rank(S, R)[x]
  <2>1. \A y \in T : <<y, x>> \in R => y \in S
    <3> SUFFICES ASSUME NEW y \in T, <<y, x>> \in R, y \notin S PROVE FALSE
      OBVIOUS
    <3>1. <<x, y>> \in R
      BY DEF After
    <3>2. <<x, x>> \in R
      BY <1>1, <3>1 DEF OrderOn
    <3> QED
      BY <1>2, <3>2 DEF OrderOn
  <2>2. {y \in T : <<y, x>> \in R} = {y \in S : <<y, x>> \in R}
    BY <1>1, <2>1
  <2> QED
    BY <1>1, <2>2 DEF Rank
<1> DEFINE s == Ranked(S, R)
           t == Ranked(T, R)
<1>5. /\ DOMAIN s = 1..Cardinality(S) /\ Len(s) = Cardinality(S)
      /\ \A n \in DOMAIN s : s[n] \in S /\ Rank(S, R)[s[n]] = n - 1
  BY <1>1, <1>2, RankedLists
<1>6. /\ DOMAIN t = 1..Cardinality(T) /\ Len(t) = Cardinality(T)
      /\ \A n \in DOMAIN t : t[n] \in T /\ Rank(T, R)[t[n]] = n - 1
  BY RankedLists
<1> HIDE DEF s, t
<1>7. ASSUME NEW n \in DOMAIN s
      PROVE  n \in DOMAIN t /\ t[n] = s[n]
  <2>1. n \in DOMAIN t
    BY <1>3, <1>5, <1>6
  <2>2. s[n] \in T /\ t[n] \in T /\ Rank(T, R)[s[n]] = n - 1 /\ Rank(T, R)[t[n]] = n - 1
    BY <1>1, <1>4, <1>5, <1>6, <2>1
  <2>3. n - 1 \in Int /\ ~(n - 1 < n - 1)
    BY <1>3, <1>5
  <2>4. t[n] = s[n]
    <3> SUFFICES ASSUME t[n] # s[n] PROVE FALSE
      OBVIOUS
    <3>1. <<s[n], t[n]>> \in R \/ <<t[n], s[n]>> \in R
      BY <2>2 DEF OrderOn
    <3> QED
      BY <2>2, <2>3, <3>1, RankGrows
  <2> QED
    BY <2>1, <2>4
<1> QED
  BY <1>3, <1>5, <1>6, <1>7 DEF Continues, s, t

-----------------------------------------------------------------------------
(* The order of agent paths.                                                *)

LEMMA ElementsType == \A p \in Seq(Nat) : \A k \in 1..Len(p) : p[k] \in Nat
OBVIOUS

LEMMA PathBeforeIsStrict == \A p \in Seq(Nat) : ~PathBefore(p, p)
BY DEF PathBefore

LEMMA PathBeforeChains ==
  ASSUME NEW p \in Seq(Nat), NEW q \in Seq(Nat), NEW r \in Seq(Nat),
         PathBefore(p, q), PathBefore(q, r)
  PROVE  PathBefore(p, r)
<1>1. PICK k \in 1..Len(q) : /\ Len(p) >= k - 1
                             /\ \A j \in 1..(k - 1) : p[j] = q[j]
                             /\ Len(p) = k - 1 \/ p[k] < q[k]
  BY DEF PathBefore
<1>2. PICK m \in 1..Len(r) : /\ Len(q) >= m - 1
                             /\ \A j \in 1..(m - 1) : q[j] = r[j]
                             /\ Len(q) = m - 1 \/ q[m] < r[m]
  BY DEF PathBefore
<1>3. CASE k < m
  <2>1. k \in 1..Len(r) /\ \A j \in 1..(k - 1) : p[j] = r[j]
    BY <1>1, <1>2, <1>3
  <2>2. q[k] = r[k]
    BY <1>1, <1>2, <1>3
  <2> QED
    BY <1>1, <2>1, <2>2 DEF PathBefore
<1>4. CASE k = m
  <2>1. k \in 1..Len(r) /\ \A j \in 1..(k - 1) : p[j] = r[j]
    BY <1>1, <1>2, <1>4
  <2>2. Len(q) # m - 1 /\ q[k] < r[k]
    BY <1>1, <1>2, <1>4
  <2>3. Len(p) = k - 1 \/ p[k] < r[k]
    <3> SUFFICES ASSUME Len(p) # k - 1 PROVE p[k] < r[k]
      OBVIOUS
    <3>1. p[k] < q[k] /\ k \in 1..Len(p)
      <4>1. Len(p) \in Nat /\ k \in Int /\ k >= 1
        BY <1>1
      <4> QED
        BY <1>1, <4>1
    <3>2. p[k] \in Nat /\ q[k] \in Nat /\ r[k] \in Nat
      <4>1. k \in 1..Len(p) /\ k \in 1..Len(q) /\ k \in 1..Len(r)
        BY <2>1, <3>1
      <4> QED
        BY <4>1, ElementsType
    <3> QED
      BY <2>2, <3>1, <3>2
  <2> QED
    BY <1>1, <2>1, <2>3 DEF PathBefore
<1>5. CASE m < k
  <2>1. \A j \in 1..(m - 1) : p[j] = r[j]
    BY <1>1, <1>2, <1>5
  <2>2. p[m] = q[m] /\ Len(q) # m - 1 /\ Len(p) >= m - 1
    BY <1>1, <1>2, <1>5
  <2>3. p[m] < r[m]
    BY <1>2, <2>2
  <2> QED
    BY <2>1, <2>2, <2>3 DEF PathBefore
<1> QED
  BY <1>3, <1>4, <1>5

LEMMA PathBeforeIsTotal ==
  ASSUME NEW p \in Seq(Nat), NEW q \in Seq(Nat), p # q
  PROVE  PathBefore(p, q) \/ PathBefore(q, p)
<1> DEFINE D == {k \in Nat \ {0} : k > Len(p) \/ k > Len(q) \/ p[k] # q[k]}
<1>1. Len(p) \in Nat /\ Len(q) \in Nat
  OBVIOUS
<1>2. Len(p) + 1 \in D
  BY <1>1
<1> DEFINE k == Min(D)
<1>3. k \in D /\ \A j \in D : k <= j
  <2>1. D \subseteq Nat /\ D # {}
    BY <1>2
  <2> HIDE DEF D
  <2> QED
    BY <2>1, LeastOf
<1> HIDE DEF k
<1>4. k \in Nat /\ k >= 1
  BY <1>3
<1>5. \A j \in 1..(k - 1) : j <= Len(p) /\ j <= Len(q) /\ p[j] = q[j]
  <2> SUFFICES ASSUME NEW j \in 1..(k - 1), ~(j <= Len(p) /\ j <= Len(q) /\ p[j] = q[j])
               PROVE  FALSE
    OBVIOUS
  <2>1. j \in D
    BY <1>1, <1>4
  <2>2. k <= j
    BY <1>3, <2>1
  <2> QED
    BY <1>4, <2>2
<1>6. Len(p) >= k - 1 /\ Len(q) >= k - 1
  <2>1. CASE k = 1
    BY <1>1, <2>1
  <2>2. CASE k # 1
    <3>1. k - 1 \in 1..(k - 1)
      BY <1>4, <2>2
    <3> QED
      BY <1>5, <3>1
  <2> QED
    BY <2>1, <2>2
<1>7. CASE k > Len(p) /\ k > Len(q)
  <2>1. Len(p) = k - 1 /\ Len(q) = k - 1
    BY <1>1, <1>4, <1>6, <1>7
  <2>2. p = q
    BY <1>5, <2>1
  <2> QED
    BY <2>2
<1>8. CASE k > Len(p) /\ k <= Len(q)
  <2>1. Len(p) = k - 1 /\ k \in 1..Len(q)
    BY <1>1, <1>4, <1>6, <1>8
  <2> QED
    BY <1>5, <2>1 DEF PathBefore
<1>9. CASE k > Len(q) /\ k <= Len(p)
  <2>1. Len(q) = k - 1 /\ k \in 1..Len(p)
    BY <1>1, <1>4, <1>6, <1>9
  <2> QED
    BY <1>5, <2>1 DEF PathBefore
<1>10. CASE k <= Len(p) /\ k <= Len(q)
  <2>1. p[k] # q[k] /\ k \in 1..Len(p) /\ k \in 1..Len(q)
    BY <1>1, <1>3, <1>4, <1>10
  <2>2. p[k] \in Nat /\ q[k] \in Nat
    BY <2>1
  <2>3. p[k] < q[k] \/ q[k] < p[k]
    BY <2>1, <2>2
  <2> QED
    BY <1>5, <1>6, <2>1, <2>3 DEF PathBefore
<1> QED
  BY <1>1, <1>4, <1>7, <1>8, <1>9, <1>10

-----------------------------------------------------------------------------
(* The prepared events of a file.                                           *)

EventOrder(S) == {p \in S \X S : EventBefore(p[1], p[2])}

LEMMA EventsRanked == \A S : Sorted(S, EventBefore) = Ranked(S, EventOrder(S))
<1> SUFFICES ASSUME NEW S PROVE Sorted(S, EventBefore) = Ranked(S, EventOrder(S))
  OBVIOUS
<1>1. \A x \in S : {y \in S : EventBefore(y, x)} = {y \in S : <<y, x>> \in EventOrder(S)}
  BY DEF EventOrder
<1>2. [x \in S |-> Cardinality({y \in S : EventBefore(y, x)})] = Rank(S, EventOrder(S))
  BY <1>1 DEF Rank
<1> QED
  BY <1>2 DEF Sorted, Ranked

(* A set of timed records, each known by its key.                           *)
Timed(E) == /\ IsFiniteSet(E) /\ E \subseteq Record
            /\ \A x \in E : x.at # 0 /\ \A y \in E : x.key = y.key => x = y

LEMMA EventsOrdered == ASSUME NEW E, Timed(E) PROVE OrderOn(EventOrder(E), E)
<1>1. \A x \in E : x.at \in Nat /\ x.key \in Nat
  BY DEF Timed, Record
<1>2. \A x \in E : ~EventBefore(x, x)
  BY <1>1 DEF EventBefore
<1>3. \A x \in E : \A y \in E : x = y \/ EventBefore(x, y) \/ EventBefore(y, x)
  BY <1>1 DEF EventBefore, Timed
<1>4. \A x \in E : \A y \in E : \A z \in E :
         EventBefore(x, y) /\ EventBefore(y, z) => EventBefore(x, z)
  BY <1>1 DEF EventBefore
<1> QED
  BY <1>2, <1>3, <1>4 DEF OrderOn, EventOrder

LEMMA FileRecords ==
  ASSUME NEW f \in Seq(Records)
  PROVE  /\ IsFiniteSet(ToSet(f)) /\ IsFiniteSet(unique_events(f))
         /\ unique_events(f) \subseteq Records /\ unique_events(f) \subseteq Record
<1>1. \A i \in DOMAIN f : f[i] \in Records
  OBVIOUS
<1>2. DOMAIN f = 1..Len(f) /\ Len(f) \in Nat
  OBVIOUS
<1>3. IsFiniteSet(1..Len(f))
  BY <1>2, FS_Interval
<1> DEFINE g == [i \in 1..Len(f) |-> f[i]]
<1>4. g \in Surjection(1..Len(f), ToSet(f))
  BY <1>2 DEF ToSet, Surjection
<1>5. IsFiniteSet(ToSet(f))
  <2> HIDE DEF g
  <2> QED
    BY <1>3, <1>4, FS_Surjection
<1>6. unique_events(f) \subseteq ToSet(f)
  BY DEF unique_events
<1> QED
  BY <1>1, <1>5, <1>6, FS_Subset, RecordsAreKeyed DEF ToSet

(* The records without a time get one, and every record keeps its key.      *)
LEMMA StampedAreTimed ==
  ASSUME NEW f \in Seq(Records)
  PROVE  Timed(stamped_events(f))
<1> DEFINE U == unique_events(f)
           missing == {e \in U : e.at = 0}
           base == Max({e.at : e \in U} \cup {0})
           stamp(e) == [e EXCEPT !.at = IF @ # 0 THEN @
                          ELSE base + Cardinality({m \in missing : m.key <= e.key})]
<1>1. IsFiniteSet(U) /\ U \subseteq Records /\ U \subseteq Record
  BY FileRecords
<1>2. stamped_events(f) = {stamp(e) : e \in U}
  BY DEF stamped_events
<1>3. base \in Nat
  <2> DEFINE T == {e.at : e \in U}
  <2>1. IsFiniteSet(T)
    <3> DEFINE g == [e \in U |-> e.at]
    <3>1. g \in Surjection(U, T)
      BY DEF Surjection
    <3> HIDE DEF g, T, U
    <3> QED
      BY <1>1, <3>1, FS_Surjection
  <2>2. T \subseteq Nat
    BY <1>1 DEF Record
  <2>3. IsFiniteSet(T \cup {0}) /\ T \cup {0} \subseteq Nat /\ T \cup {0} # {}
    BY <2>1, <2>2, FS_AddElement
  <2> DEFINE D == T \cup {0}
  <2>4. base = Max(D)
    OBVIOUS
  <2> HIDE DEF T, base
  <2>5. IsFiniteSet(D) /\ D \subseteq Nat /\ D # {}
    BY <2>3
  <2> HIDE DEF D
  <2>6. Max(D) \in D
    BY <2>5, GreatestOf
  <2> QED
    BY <2>4, <2>5, <2>6
<1> HIDE DEF base
<1>4. ASSUME NEW e \in U
      PROVE  /\ stamp(e) \in Record /\ stamp(e).at # 0 /\ stamp(e).key = e.key
             /\ e.at # 0 => stamp(e) = e
  <2>1. e \in Record
    BY <1>1
  <2>2. ASSUME e.at = 0
        PROVE  Cardinality({m \in missing : m.key <= e.key}) \in Nat \ {0}
    <3> DEFINE M == {m \in missing : m.key <= e.key}
    <3>1. IsFiniteSet(M)
      BY <1>1, FS_Subset
    <3>2. e \in M
      BY <2>1, <2>2 DEF Record
    <3> HIDE DEF M
    <3>3. Cardinality(M) \in Nat /\ Cardinality(M) # 0
      BY <3>1, <3>2, FS_CardinalityType, FS_EmptySet
    <3> QED
      BY <3>3 DEF M
  <2> DEFINE at == IF e.at # 0 THEN e.at
                   ELSE base + Cardinality({m \in missing : m.key <= e.key})
  <2>3. at \in Nat \ {0} /\ (e.at # 0 => at = e.at)
    BY <1>3, <2>1, <2>2 DEF Record
  <2>4. stamp(e) = [e EXCEPT !.at = at]
    OBVIOUS
  <2> HIDE DEF at
  <2>5. /\ [e EXCEPT !.at = at] \in Record /\ [e EXCEPT !.at = at].at = at
        /\ [e EXCEPT !.at = at].key = e.key
    BY <2>1, <2>3 DEF Record
  <2>6. at = e.at => [e EXCEPT !.at = at] = e
    BY <2>1 DEF Record
  <2> QED
    BY <2>3, <2>4, <2>5, <2>6
<1> HIDE DEF stamp, U
<1>5. IsFiniteSet({stamp(e) : e \in U})
  <2> DEFINE T == {stamp(e) : e \in U}
             g == [e \in U |-> stamp(e)]
  <2>1. g \in Surjection(U, T)
    BY DEF Surjection
  <2> HIDE DEF g, T
  <2> QED
    BY <1>1, <2>1, FS_Surjection DEF T
<1>6. \A x \in Records : \A y \in Records : x.key = y.key => x = y
  BY RecordsAreKeyed
<1> QED
  BY <1>1, <1>2, <1>4, <1>5, <1>6 DEF Timed

LEMMA PreparedEvents ==
  ASSUME NEW f \in Seq(Records)
  PROVE  ToSet(prepare_events(f)) = stamped_events(f)
<1> DEFINE E == stamped_events(f)
           q == Ranked(E, EventOrder(E))
<1>1. prepare_events(f) = q
  BY EventsRanked DEF prepare_events
<1>2. Timed(E) /\ IsFiniteSet(E) /\ OrderOn(EventOrder(E), E)
  BY StampedAreTimed, EventsOrdered DEF Timed
<1>3. /\ q \in [1..Cardinality(E) -> E]
      /\ \A x \in E : \E n \in DOMAIN q : q[n] = x
  <2> HIDE DEF E
  <2> QED
    BY <1>2, RankedLists
<1> HIDE DEF q, E
<1> QED
  BY <1>1, <1>3 DEF ToSet, E

-----------------------------------------------------------------------------
(* Agent paths.                                                             *)

Path == {p \in Seq(Nat) : p # <<>>}

LEMMA PathParts == \A p \in Path : Len(p) \in Nat /\ Len(p) >= 1 /\ p[1] \in Nat /\ p \in Seq(Nat)
BY DEF Path

(* A prefix, element by element.                                            *)
LEMMA PrefixIs ==
  ASSUME NEW p \in Seq(Nat), NEW q \in Seq(Nat)
  PROVE  IsPrefix(p, q) <=> Len(p) <= Len(q) /\ \A j \in 1..Len(p) : p[j] = q[j]
<1>1. Len(p) \in Nat /\ Len(q) \in Nat
  OBVIOUS
<1>2. SubSeq(p, 1, Len(p)) = [j \in 1..Len(p) |-> p[j]]
  BY <1>1
<1>3. Len(p) <= Len(q) => SubSeq(q, 1, Len(p)) = [j \in 1..Len(p) |-> q[j]]
  BY <1>1
<1> QED
  BY <1>1, <1>2, <1>3 DEF IsPrefix

LEMMA PrefixOfPrefix ==
  ASSUME NEW p \in Seq(Nat), NEW q \in Seq(Nat), NEW r \in Seq(Nat),
         IsPrefix(p, q), IsPrefix(q, r)
  PROVE  IsPrefix(p, r)
<1>1. Len(p) \in Nat /\ Len(q) \in Nat /\ Len(r) \in Nat
  OBVIOUS
<1>2. Len(p) <= Len(q) /\ \A j \in 1..Len(p) : p[j] = q[j]
  BY PrefixIs
<1>3. Len(q) <= Len(r) /\ \A j \in 1..Len(q) : q[j] = r[j]
  BY PrefixIs
<1>4. Len(p) <= Len(r) /\ \A j \in 1..Len(p) : p[j] = r[j]
  BY <1>1, <1>2, <1>3
<1> QED
  BY <1>4, PrefixIs

LEMMA PrefixOfItself == \A p \in Seq(Nat) : IsPrefix(p, p)
BY PrefixIs

(* A path without its last name.                                            *)
LEMMA FrontIs ==
  ASSUME NEW p \in Seq(Nat), Len(p) > 1
  PROVE  /\ Front(p) \in Path /\ Len(Front(p)) = Len(p) - 1 /\ IsPrefix(Front(p), p)
         /\ \A j \in 1..(Len(p) - 1) : Front(p)[j] = p[j]
         /\ PathBefore(Front(p), p)
<1>1. Len(p) \in Nat
  OBVIOUS
<1>2. Front(p) = [j \in 1..(Len(p) - 1) |-> p[j]]
  BY <1>1 DEF Front
<1>3. Front(p) \in Seq(Nat) /\ Len(Front(p)) = Len(p) - 1
  BY <1>1, <1>2
<1>4. \A j \in 1..(Len(p) - 1) : Front(p)[j] = p[j]
  BY <1>2
<1>5. IsPrefix(Front(p), p)
  <2> DEFINE q == Front(p)
  <2> HIDE DEF q
  <2>1. q \in Seq(Nat) /\ Len(q) <= Len(p) /\ \A j \in 1..Len(q) : q[j] = p[j]
    BY <1>1, <1>3, <1>4 DEF q
  <2>2. IsPrefix(q, p)
    BY <2>1, PrefixIs
  <2> QED
    BY <2>2 DEF q
<1>6. Front(p) # <<>>
  BY <1>1, <1>3
<1>7. PathBefore(Front(p), p)
  <2>1. Len(p) \in 1..Len(p)
    BY <1>1
  <2> QED
    BY <1>1, <1>3, <1>4, <2>1 DEF PathBefore
<1> QED
  BY <1>3, <1>4, <1>5, <1>6, <1>7 DEF Path

LEMMA AppendIs ==
  ASSUME NEW p \in Path, NEW n \in Nat
  PROVE  /\ Append(p, n) \in Path /\ Len(Append(p, n)) = Len(p) + 1
         /\ Front(Append(p, n)) = p /\ IsPrefix(p, Append(p, n))
<1>1. p \in Seq(Nat) /\ Len(p) \in Nat /\ Len(p) >= 1
  BY PathParts
<1>2. /\ Append(p, n) \in Seq(Nat) /\ Len(Append(p, n)) = Len(p) + 1
      /\ \A j \in 1..Len(p) : Append(p, n)[j] = p[j]
  BY <1>1
<1>3. Append(p, n) # <<>>
  BY <1>1, <1>2
<1> DEFINE q == Append(p, n)
<1> HIDE DEF q
<1>4. /\ Front(q) \in Path /\ Len(Front(q)) = Len(p)
      /\ \A j \in 1..Len(p) : Front(q)[j] = p[j]
  <2>1. q \in Seq(Nat) /\ Len(q) > 1 /\ Len(q) - 1 = Len(p)
    BY <1>1, <1>2 DEF q
  <2> QED
    BY <1>2, <2>1, FrontIs DEF q
<1>5. Front(q) = p
  BY <1>1, <1>4 DEF Path
<1>6. IsPrefix(p, q)
  <2>1. q \in Seq(Nat) /\ Len(p) <= Len(q) /\ \A j \in 1..Len(p) : p[j] = q[j]
    BY <1>1, <1>2 DEF q
  <2> QED
    BY <1>1, <2>1, PrefixIs
<1> QED
  BY <1>2, <1>3, <1>5, <1>6 DEF Path, q

(* What every prefix of some paths is.                                      *)
LEMMA Prefixes1Are ==
  ASSUME NEW S, S \subseteq Path
  PROVE  /\ Prefixes1(S) \subseteq Path
         /\ \A p \in Path : p \in Prefixes1(S) <=> \E q \in S : IsPrefix(p, q)
<1>1. ASSUME NEW q \in S, NEW k \in 1..Len(q)
      PROVE  SubSeq(q, 1, k) \in Path /\ IsPrefix(SubSeq(q, 1, k), q)
  <2>1. q \in Seq(Nat) /\ Len(q) \in Nat /\ k \in Nat /\ k >= 1 /\ k <= Len(q)
    BY <1>1 DEF Path
  <2>2. SubSeq(q, 1, k) = [j \in 1..k |-> q[j]]
    BY <2>1
  <2>3. SubSeq(q, 1, k) \in Seq(Nat) /\ Len(SubSeq(q, 1, k)) = k
    BY <2>1, <2>2
  <2>4. SubSeq(q, 1, k) # <<>>
    BY <2>1, <2>3
  <2>5. \A j \in 1..k : SubSeq(q, 1, k)[j] = q[j]
    BY <2>2
  <2> QED
    BY <2>1, <2>3, <2>4, <2>5, PrefixIs DEF Path
<1>2. ASSUME NEW p \in Path, NEW q \in S, IsPrefix(p, q)
      PROVE  p \in Prefixes1(S)
  <2>1. p \in Seq(Nat) /\ q \in Seq(Nat) /\ Len(p) \in Nat /\ Len(p) >= 1 /\ Len(q) \in Nat
    BY PathParts
  <2>2. Len(p) <= Len(q) /\ \A j \in 1..Len(p) : p[j] = q[j]
    BY <1>2, <2>1, PrefixIs
  <2>3. Len(p) \in 1..Len(q) /\ SubSeq(q, 1, Len(p)) = [j \in 1..Len(p) |-> q[j]]
    BY <2>1, <2>2
  <2>4. p = [j \in 1..Len(p) |-> p[j]]
    BY <2>1
  <2>5. p = SubSeq(q, 1, Len(p))
    BY <2>2, <2>3, <2>4
  <2>6. p \in {SubSeq(q, 1, k) : k \in 1..Len(q)}
    BY <2>3, <2>5
  <2> QED
    BY <2>6 DEF Prefixes1
<1>3. ASSUME NEW p \in Prefixes1(S)
      PROVE  p \in Path /\ \E q \in S : IsPrefix(p, q)
  <2>1. PICK q \in S : p \in {SubSeq(q, 1, k) : k \in 1..Len(q)}
    BY <1>3 DEF Prefixes1
  <2> QED
    BY <1>1, <2>1
<1> QED
  BY <1>2, <1>3

(* A set of one-name paths has a least.                                     *)
LEMMA LeastPath ==
  ASSUME NEW S, S \subseteq Path, S # {}, \A p \in S : Len(p) = 1
  PROVE  Least(S) \in S
<1> DEFINE F == {p[1] : p \in S}
<1>1. F \subseteq Nat /\ F # {}
  BY PathParts
<1>2. Min(F) \in F /\ \A n \in F : Min(F) <= n
  <2> HIDE DEF F
  <2> QED
    BY <1>1, LeastOf
<1>3. PICK p \in S : p[1] = Min(F)
  BY <1>2
<1>4. ASSUME NEW q \in S PROVE p = q \/ PathBefore(p, q)
  <2>1. p[1] \in Nat /\ q[1] \in Nat /\ p[1] <= q[1] /\ Len(p) = 1 /\ Len(q) = 1
    BY <1>2, <1>3, PathParts
  <2>2. CASE p[1] = q[1]
    <3>1. p \in Seq(Nat) /\ q \in Seq(Nat)
      BY PathParts
    <3>2. p = q
      BY <2>1, <2>2, <3>1
    <3> QED
      BY <3>2
  <2>3. CASE p[1] < q[1]
    BY <2>1, <2>3 DEF PathBefore
  <2> QED
    BY <2>1, <2>2, <2>3
<1> QED
  BY <1>4 DEF Least

-----------------------------------------------------------------------------
(* Agents and their spawns.                                                 *)

(* The paths a file names; its agents are their prefixes.                   *)
Given(E) == Named(E) \cup {root_id(E)}
              \cup {transfer_path(E, e) : e \in {x \in E : x.transfer # 0}}

LEMMA NamedPaths ==
  ASSUME NEW E, E \subseteq Record
  PROVE  /\ Named(E) \subseteq Path /\ root_id(E) \in Path /\ Len(root_id(E)) = 1
         /\ \A e \in E : e.author # User => agent_path(e) \in Named(E)
         /\ \A e \in E : e.author = User /\ e.branch # <<>> =>
                           <<e.branch[1]>> \in Named(E) /\ <<e.branch[1]>> \in Path
<1>1. \A e \in E : e.branch \in Seq(Nat) /\ e.author \in Nat
  BY DEF Record
<1>2. \A e \in E : agent_path(e) \in Path
  <2> SUFFICES ASSUME NEW e \in E PROVE agent_path(e) \in Path
    OBVIOUS
  <2>1. CASE e.branch # <<>> /\ Last(e.branch) = e.author
    BY <1>1, <2>1 DEF agent_path, Path
  <2>2. CASE ~(e.branch # <<>> /\ Last(e.branch) = e.author)
    <3>1. Append(e.branch, e.author) \in Seq(Nat) /\ Len(Append(e.branch, e.author)) # 0
      BY <1>1
    <3>2. Append(e.branch, e.author) # <<>>
      BY <3>1
    <3> QED
      BY <2>2, <3>1, <3>2 DEF agent_path, Path
  <2> QED
    BY <2>1, <2>2
<1>3. \A e \in E : e.branch # <<>> => <<e.branch[1]>> \in Path /\ Len(<<e.branch[1]>>) = 1
  <2> SUFFICES ASSUME NEW e \in E, e.branch # <<>>
               PROVE  <<e.branch[1]>> \in Path /\ Len(<<e.branch[1]>>) = 1
    OBVIOUS
  <2>1. e.branch[1] \in Nat
    BY <1>1
  <2> QED
    BY <2>1 DEF Path
<1>4. Named(E) \subseteq Path
  BY <1>2, <1>3 DEF Named, branch_root
<1>5. root_id(E) \in Path /\ Len(root_id(E)) = 1
  <2> DEFINE C == {p \in Named(E) : Len(p) = 1}
             T == {p \in Prefixes1(Named(E)) : Len(p) = 1}
  <2>1. Prefixes1(Named(E)) \subseteq Path
    BY <1>4, Prefixes1Are
  <2>2. C # {} => Least(C) \in C
    <3>1. C \subseteq Path /\ \A p \in C : Len(p) = 1
      BY <1>4
    <3> HIDE DEF C
    <3> QED
      BY <3>1, LeastPath
  <2>3. T # {} => Least(T) \in T
    <3>1. T \subseteq Path /\ \A p \in T : Len(p) = 1
      BY <2>1
    <3> HIDE DEF T
    <3> QED
      BY <3>1, LeastPath
  <2>4. DefaultRoot \in Path /\ Len(DefaultRoot) = 1
    BY DEF DefaultRoot, Path
  <2>5. root_id(E) = IF C # {} THEN Least(C) ELSE IF T # {} THEN Least(T) ELSE DefaultRoot
    BY DEF root_id
  <2>6. C \subseteq Path /\ T \subseteq Path /\ (\A p \in C : Len(p) = 1) /\ (\A p \in T : Len(p) = 1)
    BY <1>4, <2>1
  <2> HIDE DEF C, T
  <2> QED
    BY <2>2, <2>3, <2>4, <2>5, <2>6
<1>6. \A e \in E : e.author # User => agent_path(e) \in Named(E)
  BY DEF Named
<1>7. \A e \in E : e.author = User /\ e.branch # <<>> => <<e.branch[1]>> \in Named(E)
  BY DEF Named, branch_root
<1> QED
  BY <1>3, <1>4, <1>5, <1>6, <1>7

LEMMA GivenPaths ==
  ASSUME NEW E, E \subseteq Record
  PROVE  /\ Given(E) \subseteq Path /\ Agents(E) = Prefixes1(Given(E))
         /\ \A e \in E : /\ event_agent_id(E, e) \in Path
                         /\ event_agent_id(E, e) \in Given(E)
                         /\ transfer_path(E, e) \in Path
                         /\ e.transfer # 0 => transfer_path(E, e) \in Given(E)
<1>1. \A e \in E : event_agent_id(E, e) \in Path /\ event_agent_id(E, e) \in Given(E)
  BY NamedPaths DEF event_agent_id, Given
<1>2. \A e \in E : transfer_path(E, e) \in Path
  <2>1. \A e \in E : e.transfer \in Nat
    BY DEF Record
  <2> QED
    BY <1>1, <2>1, AppendIs DEF transfer_path
<1>3. \A e \in E : e.transfer # 0 => transfer_path(E, e) \in Given(E)
  BY DEF Given
<1>4. Given(E) \subseteq Path
  BY <1>2, NamedPaths DEF Given
<1> QED
  BY <1>1, <1>2, <1>3, <1>4 DEF Agents, Given

(* The records that show an agent to exist.                                 *)
NamedBy(E, id) == {x \in E : \/ IsPrefix(id, event_agent_id(E, x))
                             \/ x.transfer # 0 /\ transfer_path(E, x) = id}

LEMMA AgentsAre ==
  ASSUME NEW E, E \subseteq Record
  PROVE  /\ Agents(E) \subseteq Path
         /\ \A p \in Path : p \in Agents(E) <=> \E g \in Given(E) : IsPrefix(p, g)
         /\ \A e \in E : event_agent_id(E, e) \in Agents(E)
         /\ \A p \in Agents(E) : Len(p) > 1 => Front(p) \in Agents(E)
<1>1. Given(E) \subseteq Path /\ Agents(E) = Prefixes1(Given(E))
  BY GivenPaths
<1>2. /\ Agents(E) \subseteq Path
      /\ \A p \in Path : p \in Agents(E) <=> \E g \in Given(E) : IsPrefix(p, g)
  BY <1>1, Prefixes1Are
<1>3. \A g \in Given(E) : g \in Agents(E)
  BY <1>1, <1>2, PrefixOfItself, PathParts
<1>4. ASSUME NEW p \in Agents(E), Len(p) > 1
      PROVE  Front(p) \in Agents(E)
  <2>1. p \in Seq(Nat) /\ Front(p) \in Path /\ Front(p) \in Seq(Nat) /\ IsPrefix(Front(p), p)
    BY <1>2, <1>4, FrontIs, PathParts
  <2>2. PICK g \in Given(E) : IsPrefix(p, g)
    BY <1>2
  <2>3. IsPrefix(Front(p), g)
    BY <1>1, <2>1, <2>2, PrefixOfPrefix, PathParts
  <2> QED
    BY <1>2, <2>1, <2>3
<1> QED
  BY <1>2, <1>3, <1>4, GivenPaths

LEMMA NamedAreAgents ==
  ASSUME NEW E, E \subseteq Record, NEW id \in Path, NamedBy(E, id) # {}
  PROVE  id \in Agents(E)
<1>1. PICK x \in E : \/ IsPrefix(id, event_agent_id(E, x))
                     \/ x.transfer # 0 /\ transfer_path(E, x) = id
  BY DEF NamedBy
<1>2. \E g \in Given(E) : IsPrefix(id, g)
  BY <1>1, GivenPaths, PrefixOfItself, PathParts
<1> QED
  BY <1>2, AgentsAre

LEMMA AgentsAreNamed ==
  ASSUME NEW E, E \subseteq Record, NEW id \in Agents(E), Len(id) > 1
  PROVE  NamedBy(E, id) # {}
<1>1. id \in Path /\ id \in Seq(Nat) /\ Len(id) \in Nat
  BY AgentsAre, PathParts
<1>2. PICK g \in Given(E) : IsPrefix(id, g)
  BY <1>1, AgentsAre
<1>3. g \in Path /\ g \in Seq(Nat) /\ Len(g) \in Nat /\ Len(id) <= Len(g)
  BY <1>1, <1>2, GivenPaths, PathParts, PrefixIs
<1>4. Len(g) # 1
  <2> DEFINE m == Len(id)
             n == Len(g)
  <2>1. m \in Nat /\ n \in Nat /\ m > 1 /\ m <= n
    BY <1>1, <1>3
  <2> HIDE DEF m, n
  <2>2. n # 1
    BY <2>1
  <2> QED
    BY <2>2 DEF n
<1>5. CASE g \in Named(E) \cup {root_id(E)}
  <2>1. g # root_id(E)
    BY <1>4, NamedPaths
  <2>2. PICK e \in E : e.author # User /\ g = agent_path(e)
    BY <1>4, <1>5, <2>1 DEF Named, branch_root
  <2>3. event_agent_id(E, e) = g
    BY <2>2 DEF event_agent_id
  <2> QED
    BY <1>2, <2>2, <2>3 DEF NamedBy
<1>6. CASE \E e \in E : e.transfer # 0 /\ g = transfer_path(E, e)
  <2>1. PICK e \in E : e.transfer # 0 /\ g = transfer_path(E, e)
    BY <1>6
  <2>2. CASE id = g
    BY <2>1, <2>2 DEF NamedBy
  <2>3. CASE id # g
    <3> DEFINE a == event_agent_id(E, e)
    <3>1. a \in Path /\ e.transfer \in Nat /\ g = Append(a, e.transfer)
      BY <2>1, GivenPaths DEF transfer_path, Record
    <3> HIDE DEF a
    <3>2. a \in Seq(Nat) /\ Len(a) \in Nat /\ Len(g) = Len(a) + 1 /\ IsPrefix(a, g)
      BY <3>1, AppendIs, PathParts
    <3>3. /\ \A j \in 1..Len(id) : id[j] = g[j]
          /\ \A j \in 1..Len(a) : a[j] = g[j]
      BY <1>1, <1>2, <1>3, <3>2, PrefixIs
    <3>4. Len(id) # Len(g)
      BY <1>1, <1>3, <2>3, <3>3
    <3>5. Len(id) <= Len(a) /\ \A j \in 1..Len(id) : id[j] = a[j]
      BY <1>1, <1>3, <3>2, <3>3, <3>4
    <3>6. IsPrefix(id, a)
      BY <1>1, <3>2, <3>5, PrefixIs
    <3> QED
      BY <3>6 DEF NamedBy, a
  <2> QED
    BY <2>2, <2>3
<1> QED
  BY <1>5, <1>6 DEF Given

LEMMA SpawnTimeIs ==
  ASSUME NEW E, E \subseteq Record, NEW id \in Agents(E), Len(id) > 1
  PROVE  /\ SpawnTime(E, id) \in Nat
         /\ \A x \in NamedBy(E, id) : SpawnTime(E, id) <= x.at
         /\ \E x \in NamedBy(E, id) : SpawnTime(E, id) = x.at
<1> DEFINE T == {e.at : e \in NamedBy(E, id)}
<1>1. NamedBy(E, id) \subseteq E /\ NamedBy(E, id) # {}
  BY AgentsAreNamed DEF NamedBy
<1>2. T \subseteq Nat /\ T # {}
  BY <1>1 DEF Record
<1>3. SpawnTime(E, id) = Min(T)
  BY DEF SpawnTime, NamedBy
<1>4. Min(T) \in T /\ \A j \in T : Min(T) <= j
  <2> HIDE DEF T
  <2> QED
    BY <1>2, LeastOf
<1> QED
  BY <1>1, <1>2, <1>3, <1>4

(* A parent is spawned no later than its child.                             *)
LEMMA ParentIsNamed ==
  ASSUME NEW E, E \subseteq Record, NEW id \in Agents(E), Len(id) > 1
  PROVE  NamedBy(E, id) \subseteq NamedBy(E, Front(id))
<1>1. id \in Path /\ id \in Seq(Nat) /\ Front(id) \in Seq(Nat) /\ IsPrefix(Front(id), id)
  BY AgentsAre, PathParts, FrontIs
<1>2. ASSUME NEW x \in NamedBy(E, id)
      PROVE  x \in NamedBy(E, Front(id))
  <2> DEFINE a == event_agent_id(E, x)
  <2>1. x \in E /\ a \in Path /\ a \in Seq(Nat)
    BY GivenPaths, PathParts DEF NamedBy
  <2>2. CASE IsPrefix(id, a)
    <3>1. IsPrefix(Front(id), a)
      <4> HIDE DEF a
      <4> QED
        BY <1>1, <2>1, <2>2, PrefixOfPrefix
    <3> QED
      BY <2>1, <3>1 DEF NamedBy
  <2>3. CASE x.transfer # 0 /\ transfer_path(E, x) = id
    <3>1. Front(id) = a
      BY <2>1, <2>3, AppendIs DEF transfer_path, Record
    <3>2. IsPrefix(Front(id), a)
      BY <2>1, <3>1, PrefixOfItself
    <3> QED
      BY <2>1, <3>2 DEF NamedBy
  <2> QED
    BY <2>2, <2>3 DEF NamedBy
<1> QED
  BY <1>2

-----------------------------------------------------------------------------
(* The items of a session.                                                  *)

LEMMA ImageFinite ==
  ASSUME NEW S, IsFiniteSet(S), NEW f
  PROVE  IsFiniteSet({f[x] : x \in S})
<1> DEFINE T == {f[x] : x \in S}
           g == [x \in S |-> f[x]]
<1>1. g \in Surjection(S, T)
  BY DEF Surjection
<1> HIDE DEF g, T
<1>2. IsFiniteSet(T)
  BY <1>1, FS_Surjection
<1> QED
  BY <1>2 DEF T

LEMMA FiniteAgents ==
  ASSUME NEW E, E \subseteq Record, IsFiniteSet(E)
  PROVE  IsFiniteSet(Agents(E))
<1> DEFINE A == {e \in E : e.author # User}
           B == {e \in E : e.author = User}
           C == {e \in E : e.transfer # 0}
           a == [e \in E |-> agent_path(e)]
           b == [e \in E |-> branch_root(e)]
           c == [e \in E |-> transfer_path(E, e)]
<1>1. IsFiniteSet(A) /\ IsFiniteSet(B) /\ IsFiniteSet(C)
  BY FS_Subset
<1>2. IsFiniteSet({a[e] : e \in A}) /\ IsFiniteSet({b[e] : e \in B}) /\ IsFiniteSet({c[e] : e \in C})
  <2> HIDE DEF A, B, C, a, b, c
  <2> QED
    BY <1>1, ImageFinite
<1>3. \A s \in {b[e] : e \in B} : IsFiniteSet(s)
  BY FS_EmptySet, FS_Singleton DEF branch_root
<1>4. IsFiniteSet(UNION {b[e] : e \in B})
  <2> HIDE DEF b, B
  <2> QED
    BY <1>2, <1>3, FS_UNION
<1>5. /\ {a[e] : e \in A} = {agent_path(e) : e \in A}
      /\ {b[e] : e \in B} = {branch_root(e) : e \in B}
      /\ {c[e] : e \in C} = {transfer_path(E, e) : e \in C}
  OBVIOUS
<1>6. IsFiniteSet(Given(E))
  <2> DEFINE X == {a[e] : e \in A}
             Y == UNION {b[e] : e \in B}
             Z == {c[e] : e \in C}
  <2>1. Given(E) = ((X \cup Y) \cup {root_id(E)}) \cup Z
    BY <1>5 DEF Given, Named
  <2>2. IsFiniteSet(X) /\ IsFiniteSet(Y) /\ IsFiniteSet(Z)
    BY <1>2, <1>4
  <2> HIDE DEF X, Y, Z
  <2>3. IsFiniteSet({root_id(E)})
    BY FS_Singleton
  <2>4. IsFiniteSet(X \cup Y)
    BY <2>2, FS_Union
  <2>5. IsFiniteSet((X \cup Y) \cup {root_id(E)})
    BY <2>3, <2>4, FS_Union
  <2>6. IsFiniteSet(((X \cup Y) \cup {root_id(E)}) \cup Z)
    BY <2>2, <2>5, FS_Union
  <2> QED
    BY <2>1, <2>6
<1> DEFINE G == Given(E)
           d == [p \in G |-> {SubSeq(p, 1, k) : k \in 1..Len(p)}]
<1>7. \A p \in G : IsFiniteSet(d[p])
  <2> SUFFICES ASSUME NEW p \in G PROVE IsFiniteSet(d[p])
    OBVIOUS
  <2>1. Len(p) \in Nat
    BY GivenPaths, PathParts
  <2> DEFINE h == [k \in 1..Len(p) |-> SubSeq(p, 1, k)]
  <2>2. IsFiniteSet(1..Len(p))
    BY <2>1, FS_Interval
  <2>3. d[p] = {h[k] : k \in 1..Len(p)}
    OBVIOUS
  <2> HIDE DEF h, d
  <2> QED
    BY <2>2, <2>3, ImageFinite
<1>8. Agents(E) = UNION {d[p] : p \in G}
  BY GivenPaths DEF Prefixes1
<1> HIDE DEF G, d
<1>9. IsFiniteSet({d[p] : p \in G})
  BY <1>6, ImageFinite DEF G
<1> QED
  BY <1>7, <1>8, <1>9, FS_UNION

(* What a record says in its k-th place: a part, or a terminal fact after   *)
(* all of them.                                                             *)
Says(e, k) ==
  IF k \in DOMAIN e.parts
  THEN IF e.parts[k] = "text" /\ e.author = User THEN "prompt" ELSE e.parts[k]
  ELSE IF "error" \in e.ends THEN "failed" ELSE "completed"

Said(E, e, k) == [at |-> e.at, rank |-> 1, path |-> <<>>, key |-> e.key, part |-> k,
                  agent |-> event_agent_id(E, e), what |-> Says(e, k)]
SpawnOf(E, id) == [at |-> SpawnTime(E, id), rank |-> 0, path |-> id, key |-> 0, part |-> 0,
                   agent |-> Front(id), what |-> "spawn"]

LEMMA PushedAre ==
  ASSUME NEW E, NEW e \in Record
  PROVE  /\ IsFiniteSet(push_event(E, e))
         /\ \A x \in push_event(E, e) : \E k \in Nat : x = Said(E, e, k)
         /\ \A k \in Nat : Says(e, k) # "spawn"
<1> DEFINE line(k, what) == [at |-> e.at, rank |-> 1, path |-> <<>>, key |-> e.key, part |-> k,
                             agent |-> event_agent_id(E, e), what |-> what]
           kind(p)  == IF p = "text" /\ e.author = User THEN "prompt" ELSE p
           terminal == IF "error" \in e.ends THEN {"failed"}
                       ELSE IF e.ends # {} THEN {"completed"} ELSE {}
           spoken == {n \in DOMAIN e.parts : e.parts[n] # "thought"}
           P == {line(k, kind(e.parts[k])) : k \in spoken}
           Q == {line(Len(e.parts) + 1, fact) : fact \in terminal}
<1>1. push_event(E, e) = P \cup Q
  BY DEF push_event
<1>2. /\ e.parts \in Seq({"thought", "text", "call", "result"})
      /\ DOMAIN e.parts = 1..Len(e.parts) /\ Len(e.parts) \in Nat
  BY DEF Record
<1>3. \A x \in P : \E k \in Nat : x = Said(E, e, k)
  BY <1>2 DEF Said, Says
<1>4. \A x \in Q : \E k \in Nat : x = Said(E, e, k)
  <2> SUFFICES ASSUME NEW fact \in terminal
               PROVE  line(Len(e.parts) + 1, fact) = Said(E, e, Len(e.parts) + 1)
    BY <1>2
  <2>1. Len(e.parts) + 1 \notin DOMAIN e.parts
    BY <1>2
  <2>2. fact = Says(e, Len(e.parts) + 1)
    BY <2>1 DEF Says
  <2> QED
    BY <2>2 DEF Said
<1>5. \A k \in Nat : Says(e, k) # "spawn"
  <2> SUFFICES ASSUME NEW k \in Nat PROVE Says(e, k) # "spawn"
    OBVIOUS
  <2>1. k \in DOMAIN e.parts => e.parts[k] \in {"thought", "text", "call", "result"}
    BY <1>2
  <2> QED
    BY <2>1 DEF Says
<1>6. IsFiniteSet(P)
  <2> DEFINE h == [k \in spoken |-> line(k, kind(e.parts[k]))]
  <2>1. IsFiniteSet(spoken)
    <3>1. IsFiniteSet(1..Len(e.parts))
      BY <1>2, FS_Interval
    <3> QED
      BY <1>2, <3>1, FS_Subset
  <2>2. P = {h[k] : k \in spoken}
    OBVIOUS
  <2> HIDE DEF h, P, spoken
  <2> QED
    BY <2>1, <2>2, ImageFinite
<1>7. IsFiniteSet(Q)
  <2>1. Q = {} \/ Q = {line(Len(e.parts) + 1, "failed")} \/ Q = {line(Len(e.parts) + 1, "completed")}
    OBVIOUS
  <2> HIDE DEF Q, line
  <2> QED
    BY <2>1, FS_EmptySet, FS_Singleton
<1> HIDE DEF P, Q
<1> QED
  BY <1>1, <1>3, <1>4, <1>5, <1>6, <1>7, FS_Union

Items(E) == declare_agents(E) \cup UNION {push_event(E, e) : e \in E}

LEMMA ItemsAre ==
  ASSUME NEW E, Timed(E)
  PROVE  /\ IsFiniteSet(Items(E))
         /\ \A id \in Agents(E) : Len(id) > 1 => SpawnOf(E, id) \in Items(E)
         /\ \A x \in Items(E) : \/ \E id \in Agents(E) : Len(id) > 1 /\ x = SpawnOf(E, id)
                                \/ \E e \in E : \E k \in Nat :
                                      x = Said(E, e, k) /\ x \in push_event(E, e)
<1>1. IsFiniteSet(E) /\ E \subseteq Record
  BY DEF Timed
<1> DEFINE I == {p \in Agents(E) : Len(p) > 1}
           h == [id \in I |-> SpawnOf(E, id)]
           g == [e \in E |-> push_event(E, e)]
<1>2. declare_agents(E) = {SpawnOf(E, id) : id \in I}
  BY DEF declare_agents, SpawnOf
<1>3. {h[id] : id \in I} = {SpawnOf(E, id) : id \in I}
  OBVIOUS
<1>4. IsFiniteSet(I)
  BY <1>1, FiniteAgents, FS_Subset
<1>5. IsFiniteSet(declare_agents(E))
  <2> HIDE DEF h, I
  <2> QED
    BY <1>2, <1>3, <1>4, ImageFinite
<1>6. {g[e] : e \in E} = {push_event(E, e) : e \in E}
  OBVIOUS
<1>7. \A s \in {g[e] : e \in E} : IsFiniteSet(s)
  BY <1>1, PushedAre
<1>8. IsFiniteSet({g[e] : e \in E})
  <2> HIDE DEF g
  <2> QED
    BY <1>1, ImageFinite
<1>9. IsFiniteSet(UNION {push_event(E, e) : e \in E})
  <2> HIDE DEF g
  <2>1. IsFiniteSet(UNION {g[e] : e \in E})
    BY <1>7, <1>8, FS_UNION
  <2> QED
    BY <1>6, <2>1
<1>10. IsFiniteSet(Items(E))
  BY <1>5, <1>9, FS_Union DEF Items
<1>11. \A e \in E : \A x \in push_event(E, e) : \E k \in Nat : x = Said(E, e, k)
  BY <1>1, PushedAre
<1> QED
  BY <1>2, <1>10, <1>11 DEF Items

LEMMA ItemTypes ==
  ASSUME NEW E, Timed(E)
  PROVE  \A x \in Items(E) : /\ x.at \in Nat /\ x.rank \in {0, 1} /\ x.path \in Seq(Nat)
                             /\ x.key \in Nat /\ x.part \in Nat /\ x.agent \in Path
<1>1. E \subseteq Record
  BY DEF Timed
<1>2. ASSUME NEW id \in Agents(E), Len(id) > 1, NEW x, x = SpawnOf(E, id)
      PROVE  /\ x.at \in Nat /\ x.rank \in {0, 1} /\ x.path \in Seq(Nat)
             /\ x.key \in Nat /\ x.part \in Nat /\ x.agent \in Path
  BY <1>1, <1>2, SpawnTimeIs, AgentsAre, PathParts, FrontIs DEF SpawnOf
<1>3. ASSUME NEW e \in E, NEW k \in Nat, NEW x, x = Said(E, e, k)
      PROVE  /\ x.at \in Nat /\ x.rank \in {0, 1} /\ x.path \in Seq(Nat)
             /\ x.key \in Nat /\ x.part \in Nat /\ x.agent \in Path
  <2>1. e \in Record /\ event_agent_id(E, e) \in Path
    BY <1>1, GivenPaths
  <2> QED
    BY <1>3, <2>1 DEF Said, Record
<1> QED
  BY <1>2, <1>3, ItemsAre

(* A spawn is known by its path, and a line by its record and its place.    *)
LEMMA ItemKeys ==
  ASSUME NEW E, Timed(E), NEW x \in Items(E), NEW y \in Items(E), x.rank = y.rank,
         IF x.rank = 0 THEN x.path = y.path ELSE x.key = y.key /\ x.part = y.part
  PROVE  x = y
<1>1. CASE x.rank = 0
  <2>1. PICK a \in Agents(E) : x = SpawnOf(E, a)
    BY <1>1, ItemsAre DEF Said
  <2> y.rank = 0
    BY <1>1
  <2>2. PICK b \in Agents(E) : y = SpawnOf(E, b)
    BY ItemsAre DEF Said
  <2>3. a = b
    BY <1>1, <2>1, <2>2 DEF SpawnOf
  <2> QED
    BY <2>1, <2>2, <2>3
<1>2. CASE x.rank # 0
  <2>1. PICK a \in E, j \in Nat : x = Said(E, a, j)
    BY <1>2, ItemsAre DEF SpawnOf
  <2>2. PICK b \in E, k \in Nat : y = Said(E, b, k)
    BY <1>2, ItemsAre DEF SpawnOf
  <2>3. a.key = b.key /\ j = k
    BY <1>2, <2>1, <2>2 DEF Said
  <2>4. a = b
    BY <2>3 DEF Timed
  <2> QED
    BY <2>1, <2>2, <2>3, <2>4
<1> QED
  BY <1>1, <1>2

ItemOrder(S) == {p \in S \X S : Before(p[1], p[2])}

LEMMA ItemsOrdered == ASSUME NEW E, Timed(E) PROVE OrderOn(ItemOrder(Items(E)), Items(E))
<1> DEFINE S == Items(E)
<1>1. \A x \in S : /\ x.at \in Nat /\ x.rank \in {0, 1} /\ x.path \in Seq(Nat)
                   /\ x.key \in Nat /\ x.part \in Nat
  BY ItemTypes
<1>2. \A x \in S : \A y \in S :
         x.rank = y.rank /\ (IF x.rank = 0 THEN x.path = y.path
                             ELSE x.key = y.key /\ x.part = y.part) => x = y
  BY ItemKeys
<1> HIDE DEF S
<1>3. \A x \in S : ~Before(x, x)
  BY <1>1, PathBeforeIsStrict DEF Before
<1>4. ASSUME NEW x \in S, NEW y \in S, x # y
      PROVE  Before(x, y) \/ Before(y, x)
  <2>1. CASE x.at # y.at \/ x.rank # y.rank
    BY <1>1, <2>1 DEF Before
  <2>2. CASE x.at = y.at /\ x.rank = y.rank /\ x.rank = 0
    <3>1. x.path # y.path
      BY <1>2, <1>4, <2>2
    <3>2. PathBefore(x.path, y.path) \/ PathBefore(y.path, x.path)
      BY <1>1, <3>1, PathBeforeIsTotal
    <3> QED
      BY <2>2, <3>2 DEF Before
  <2>3. CASE x.at = y.at /\ x.rank = y.rank /\ x.rank # 0
    <3>1. x.key # y.key \/ x.part # y.part
      BY <1>2, <1>4, <2>3
    <3>2. \/ x.key < y.key \/ (x.key = y.key /\ x.part < y.part)
          \/ y.key < x.key \/ (x.key = y.key /\ y.part < x.part)
      BY <1>1, <3>1
    <3> QED
      BY <2>3, <3>2 DEF Before
  <2> QED
    BY <2>1, <2>2, <2>3
<1>5. ASSUME NEW x \in S, NEW y \in S, NEW z \in S, Before(x, y), Before(y, z)
      PROVE  Before(x, z)
  <2>1. CASE x.at = y.at /\ y.at = z.at /\ x.rank = y.rank /\ y.rank = z.rank
    <3>1. CASE x.rank = 0
      <4>1. PathBefore(x.path, y.path) /\ PathBefore(y.path, z.path)
        BY <1>1, <1>5, <2>1, <3>1 DEF Before
      <4>2. PathBefore(x.path, z.path)
        BY <1>1, <4>1, PathBeforeChains
      <4> QED
        BY <2>1, <3>1, <4>2 DEF Before
    <3>2. CASE x.rank # 0
      <4>1. /\ x.key < y.key \/ (x.key = y.key /\ x.part < y.part)
            /\ y.key < z.key \/ (y.key = z.key /\ y.part < z.part)
        BY <1>1, <1>5, <2>1, <3>2 DEF Before
      <4>2. x.key < z.key \/ (x.key = z.key /\ x.part < z.part)
        BY <1>1, <4>1
      <4> QED
        BY <2>1, <3>2, <4>2 DEF Before
    <3> QED
      BY <3>1, <3>2
  <2>2. CASE ~(x.at = y.at /\ y.at = z.at /\ x.rank = y.rank /\ y.rank = z.rank)
    <3>1. x.at < z.at \/ (x.at = z.at /\ x.rank < z.rank)
      <4>1. x.at < y.at \/ (x.at = y.at /\ x.rank <= y.rank)
        BY <1>1, <1>5 DEF Before
      <4>2. y.at < z.at \/ (y.at = z.at /\ y.rank <= z.rank)
        BY <1>1, <1>5 DEF Before
      <4> QED
        BY <1>1, <2>2, <4>1, <4>2
    <3> QED
      BY <3>1 DEF Before
  <2> QED
    BY <2>1, <2>2
<1>6. OrderOn(ItemOrder(S), S)
  BY <1>3, <1>4, <1>5 DEF OrderOn, ItemOrder
<1> QED
  BY <1>6 DEF S

LEMMA ItemsRanked == \A S : Sorted(S, Before) = Ranked(S, ItemOrder(S))
<1> SUFFICES ASSUME NEW S PROVE Sorted(S, Before) = Ranked(S, ItemOrder(S))
  OBVIOUS
<1>1. \A x \in S : {y \in S : Before(y, x)} = {y \in S : <<y, x>> \in ItemOrder(S)}
  BY DEF ItemOrder
<1>2. [x \in S |-> Cardinality({y \in S : Before(y, x)})] = Rank(S, ItemOrder(S))
  BY <1>1 DEF Rank
<1> QED
  BY <1>2 DEF Sorted, Ranked

(* The items of a session in order, and the session they make.              *)
Lines(E) == Ranked(Items(E), ItemOrder(Items(E)))

LEMMA LinesAre ==
  ASSUME NEW E, Timed(E)
  PROVE  /\ Len(Lines(E)) \in Nat /\ DOMAIN Lines(E) = 1..Len(Lines(E))
         /\ \A n \in DOMAIN Lines(E) : Lines(E)[n] \in Items(E)
         /\ \A x \in Items(E) : \E n \in DOMAIN Lines(E) : Lines(E)[n] = x
         /\ \A i \in DOMAIN Lines(E) : \A j \in DOMAIN Lines(E) :
               Lines(E)[i] = Lines(E)[j] => i = j
         /\ \A i \in DOMAIN Lines(E) : \A j \in DOMAIN Lines(E) :
               i < j <=> Before(Lines(E)[i], Lines(E)[j])
<1> DEFINE S == Items(E)
           R == ItemOrder(S)
           q == Ranked(S, R)
<1>1. IsFiniteSet(S) /\ OrderOn(R, S)
  BY ItemsAre, ItemsOrdered
<1>2. \A x \in S : \A y \in S : <<x, y>> \in R <=> Before(x, y)
  BY DEF ItemOrder
<1> HIDE DEF S, R
<1>3. /\ Len(q) \in Nat /\ DOMAIN q = 1..Len(q) /\ q \in [1..Len(q) -> S]
      /\ \A x \in S : \E n \in DOMAIN q : q[n] = x
      /\ \A i \in DOMAIN q : \A j \in DOMAIN q : q[i] = q[j] => i = j
      /\ \A i \in DOMAIN q : \A j \in DOMAIN q : i < j <=> <<q[i], q[j]>> \in R
  <2>1. Len(q) = Cardinality(S) /\ Cardinality(S) \in Nat /\ DOMAIN q = 1..Cardinality(S)
        /\ q \in [1..Cardinality(S) -> S]
    BY <1>1, RankedLists
  <2>2. \A x \in S : \E n \in DOMAIN q : q[n] = x
    BY <1>1, RankedLists
  <2>3. \A i \in DOMAIN q : \A j \in DOMAIN q : q[i] = q[j] => i = j
    BY <1>1, RankedLists
  <2>4. \A i \in DOMAIN q : \A j \in DOMAIN q : i < j <=> <<q[i], q[j]>> \in R
    BY <1>1, RankedLists
  <2> QED
    BY <2>1, <2>2, <2>3, <2>4
<1>4. Lines(E) = q
  BY DEF Lines, S, R
<1> HIDE DEF q
<1>5. \A n \in DOMAIN q : q[n] \in S
  BY <1>3
<1>6. \A i \in DOMAIN q : \A j \in DOMAIN q : i < j <=> Before(q[i], q[j])
  BY <1>2, <1>3, <1>5
<1> QED
  BY <1>3, <1>4, <1>5, <1>6 DEF S

-----------------------------------------------------------------------------
(* The session of a file.                                                   *)

Shown(q) == [i \in DOMAIN q |-> [seq |-> i - 1, agent |-> q[i].agent, what |-> q[i].what,
                                 child |-> q[i].path]]

LEMMA FilesAre ==
  ASSUME NEW f \in Files
  PROVE  /\ f \in Seq(Records) /\ Len(f) \in Nat /\ Len(f) <= MaxRecords
         /\ Sessions[f] = build(f)
<1>1. PICK n \in 0..MaxRecords : f \in [1..n -> Records]
  BY DEF Files
<1>2. n \in Nat /\ n <= MaxRecords
  BY <1>1, FollowBounds
<1>3. f \in Seq(Records) /\ Len(f) = n
  BY <1>1, <1>2
<1> QED
  BY <1>2, <1>3 DEF Sessions

LEMMA Built ==
  ASSUME NEW f \in Seq(Records)
  PROVE  LET E == stamped_events(f)
         IN  /\ Timed(E) /\ ToSet(prepare_events(f)) = E
             /\ build(f) = [session |-> session_id(f), agents |-> Agents(E),
                            events |-> Shown(Lines(E))]
<1> DEFINE E == stamped_events(f)
<1>1. Timed(E) /\ ToSet(prepare_events(f)) = E
  BY StampedAreTimed, PreparedEvents
<1> HIDE DEF E
<1>2. Sorted(declare_agents(E) \cup UNION {push_event(E, e) : e \in E}, Before) = Lines(E)
  BY ItemsRanked DEF Lines, Items
<1>3. build(f) = [session |-> session_id(f), agents |-> Agents(E), events |-> Shown(Lines(E))]
  BY <1>1, <1>2 DEF build, Shown
<1> QED
  BY <1>1, <1>3 DEF E

(* What an agent with a parent says or spawns comes after its own spawn.    *)
LEMMA SpawnedBefore ==
  ASSUME NEW E, Timed(E), NEW x \in Items(E), Len(x.agent) > 1
  PROVE  /\ x.agent \in Agents(E) /\ SpawnOf(E, x.agent) \in Items(E)
         /\ Before(SpawnOf(E, x.agent), x)
<1>1. E \subseteq Record
  BY DEF Timed
<1> DEFINE p == x.agent
<1>2. CASE \E e \in E : \E k \in Nat : x = Said(E, e, k)
  <2>1. PICK e \in E, k \in Nat : x = Said(E, e, k)
    BY <1>2
  <2>2. p = event_agent_id(E, e) /\ x.at = e.at /\ x.rank = 1
    BY <2>1 DEF Said
  <2>3. p \in Agents(E) /\ p \in Seq(Nat)
    BY <1>1, <2>2, AgentsAre, PathParts
  <2>4. e \in NamedBy(E, p)
    BY <2>2, <2>3, PrefixOfItself DEF NamedBy
  <2>5. SpawnTime(E, p) <= e.at /\ SpawnTime(E, p) \in Nat /\ e.at \in Nat
    BY <1>1, <2>3, <2>4, SpawnTimeIs DEF Record
  <2>6. Before(SpawnOf(E, p), x)
    <3> DEFINE s == SpawnOf(E, p)
    <3>1. s.at = SpawnTime(E, p) /\ s.rank = 0
      BY DEF SpawnOf
    <3> HIDE DEF s
    <3>2. s.at < x.at \/ (s.at = x.at /\ s.rank < x.rank)
      BY <2>2, <2>5, <3>1
    <3>3. Before(s, x)
      BY <3>2 DEF Before
    <3> QED
      BY <3>3 DEF s
  <2> QED
    BY <2>3, <2>6, ItemsAre
<1>3. CASE \E id \in Agents(E) : Len(id) > 1 /\ x = SpawnOf(E, id)
  <2>1. PICK id \in Agents(E) : Len(id) > 1 /\ x = SpawnOf(E, id)
    BY <1>3
  <2>2. /\ p = Front(id) /\ x.at = SpawnTime(E, id) /\ x.rank = 0 /\ x.path = id
    BY <2>1 DEF SpawnOf
  <2>3. id \in Seq(Nat) /\ PathBefore(p, id) /\ p \in Agents(E)
    BY <1>1, <2>1, <2>2, AgentsAre, PathParts, FrontIs
  <2>4. SpawnTime(E, p) <= SpawnTime(E, id) /\ SpawnTime(E, p) \in Nat /\ SpawnTime(E, id) \in Nat
    <3>1. PICK y \in NamedBy(E, id) : SpawnTime(E, id) = y.at
      BY <1>1, <2>1, SpawnTimeIs
    <3>2. y \in NamedBy(E, p)
      BY <1>1, <2>1, <2>2, ParentIsNamed
    <3> QED
      BY <1>1, <2>1, <2>3, <3>1, <3>2, SpawnTimeIs
  <2>5. Before(SpawnOf(E, p), x)
    <3> DEFINE s == SpawnOf(E, p)
    <3>1. s.at = SpawnTime(E, p) /\ s.rank = 0 /\ s.path = p
      BY DEF SpawnOf
    <3> HIDE DEF s
    <3>2. s.at < x.at \/ s.at = x.at
      BY <2>2, <2>4, <3>1
    <3>3. Before(s, x)
      BY <2>2, <2>3, <3>1, <3>2 DEF Before
    <3> QED
      BY <3>3 DEF s
  <2> QED
    BY <2>3, <2>5, ItemsAre
<1> QED
  BY <1>2, <1>3, ItemsAre

LEMMA SpawnFirstInEveryFile ==
  ASSUME NEW E, Timed(E)
  PROVE  LET events == Shown(Lines(E))
         IN  \A i \in DOMAIN events :
               LET spawns == {j \in DOMAIN events : /\ events[j].what = "spawn"
                                                    /\ events[j].child = events[i].agent}
               IN  Len(events[i].agent) > 1 => Cardinality(spawns) = 1 /\ \A j \in spawns : j < i
<1> DEFINE q == Lines(E)
           events == Shown(q)
<1>1. /\ Len(q) \in Nat /\ DOMAIN q = 1..Len(q)
      /\ \A n \in DOMAIN q : q[n] \in Items(E)
      /\ \A x \in Items(E) : \E n \in DOMAIN q : q[n] = x
      /\ \A i \in DOMAIN q : \A j \in DOMAIN q : q[i] = q[j] => i = j
      /\ \A i \in DOMAIN q : \A j \in DOMAIN q : i < j <=> Before(q[i], q[j])
  BY LinesAre
<1> HIDE DEF q
<1>2. /\ DOMAIN events = DOMAIN q
      /\ \A i \in DOMAIN q : /\ events[i].agent = q[i].agent /\ events[i].what = q[i].what
                             /\ events[i].child = q[i].path
  BY DEF Shown
<1> SUFFICES ASSUME NEW i \in DOMAIN q, Len(q[i].agent) > 1
             PROVE  LET spawns == {j \in DOMAIN q : q[j].what = "spawn" /\ q[j].path = q[i].agent}
                    IN  Cardinality(spawns) = 1 /\ \A j \in spawns : j < i
  <2>1. \A i \in DOMAIN q : {j \in DOMAIN events : /\ events[j].what = "spawn"
                                                   /\ events[j].child = events[i].agent}
                            = {j \in DOMAIN q : q[j].what = "spawn" /\ q[j].path = q[i].agent}
    BY <1>2
  <2> HIDE DEF events
  <2> QED
    BY <1>2, <2>1 DEF q, events
<1> DEFINE p == q[i].agent
           spawns == {j \in DOMAIN q : q[j].what = "spawn" /\ q[j].path = p}
<1>3. SpawnOf(E, p) \in Items(E) /\ Before(SpawnOf(E, p), q[i])
  BY <1>1, SpawnedBefore
<1>4. PICK n \in DOMAIN q : q[n] = SpawnOf(E, p)
  BY <1>1, <1>3
<1>5. n < i
  BY <1>1, <1>3, <1>4
<1>6. n \in spawns
  BY <1>4 DEF SpawnOf
<1>7. ASSUME NEW j \in spawns PROVE j = n
  <2>1. q[j] \in Items(E) /\ q[j].what = "spawn" /\ q[j].path = p
    BY <1>1
  <2>2. ~ \E e \in E : \E k \in Nat : q[j] = Said(E, e, k)
    <3>1. \A e \in E : \A k \in Nat : Says(e, k) # "spawn"
      BY PushedAre DEF Timed
    <3> QED
      BY <2>1, <3>1 DEF Said
  <2>3. PICK id \in Agents(E) : q[j] = SpawnOf(E, id)
    BY <2>1, <2>2, ItemsAre
  <2>4. id = p
    BY <2>1, <2>3 DEF SpawnOf
  <2> QED
    BY <1>1, <1>4, <2>3, <2>4
<1>8. spawns = {n}
  BY <1>6, <1>7
<1>9. Cardinality(spawns) = 1
  BY <1>8, FS_Singleton
<1> QED
  BY <1>5, <1>7, <1>9

(* No agent acts before it is spawned, however the records arrive: the      *)
(* projection of every file that loads has, for every agent with a parent,  *)
(* one spawn, before all that the agent says and before the spawns of its   *)
(* own children (adk.rs declare_agents, push_event and the sort in build).  *)
THEOREM SpawnFirstHolds == Spec => []SpawnFirst
<1>1. SpawnFirst
  <2> SUFFICES ASSUME file \in Readable PROVE SpawnFirst
    BY DEF SpawnFirst
  <2>1. file \in Files
    BY DEF Readable
  <2>2. file \in Seq(Records) /\ Sessions[file] = build(file)
    BY <2>1, FilesAre
  <2>3. Timed(stamped_events(file)) /\ Sessions[file].events = Shown(Lines(stamped_events(file)))
    BY <2>2, Built
  <2> DEFINE E == stamped_events(file)
  <2> HIDE DEF E
  <2> QED
    BY <2>3, SpawnFirstInEveryFile DEF SpawnFirst, E
<1> QED
  BY <1>1, PTL

-----------------------------------------------------------------------------
(* A file that grows in order.                                              *)

(* A record that comes after all the timed ones, or changes nothing.        *)
Comes(f, e) == \/ e \in ToSet(f) \/ e.partial
               \/ \A x \in unique_events(f) : x.at # 0 /\ x.at < e.at

(* F adds to E at most one event, which comes after all of E.               *)
Adds(E, F) == F = E \/ \E e \in F : F = E \cup {e} /\ \A x \in E : x.at < e.at

LEMMA AllTimed ==
  ASSUME NEW f \in Seq(Records), \A x \in unique_events(f) : x.at # 0
  PROVE  stamped_events(f) = unique_events(f)
<1> DEFINE U == unique_events(f)
           base == Max({e.at : e \in U} \cup {0})
           late(e) == base + Cardinality({m \in {n \in U : n.at = 0} : m.key <= e.key})
<1>1. U \subseteq Record
  BY FileRecords
<1>2. stamped_events(f) = {[e EXCEPT !.at = IF e.at # 0 THEN e.at ELSE late(e)] : e \in U}
  BY DEF stamped_events
<1> HIDE DEF late
<1>3. \A e \in U : [e EXCEPT !.at = IF e.at # 0 THEN e.at ELSE late(e)] = e
  BY <1>1 DEF Record
<1> QED
  BY <1>2, <1>3

LEMMA EventsGrow ==
  ASSUME NEW f \in Seq(Records), NEW e \in Records, stamped_events(f) # {}, Comes(f, e)
  PROVE  Adds(stamped_events(f), stamped_events(Append(f, e)))
<1> DEFINE g == Append(f, e)
<1>1. g \in Seq(Records) /\ ToSet(g) = ToSet(f) \cup {e}
  <2>1. /\ g \in Seq(Records) /\ Len(g) = Len(f) + 1 /\ Len(f) \in Nat
        /\ \A i \in 1..Len(f) : g[i] = f[i]
        /\ g[Len(f) + 1] = e
    OBVIOUS
  <2>2. DOMAIN g = 1..Len(g) /\ DOMAIN f = 1..Len(f)
    OBVIOUS
  <2> HIDE DEF g
  <2>3. ToSet(g) \subseteq ToSet(f) \cup {e}
    <3> SUFFICES ASSUME NEW i \in DOMAIN g PROVE g[i] \in ToSet(f) \cup {e}
      BY DEF ToSet
    <3>1. i \in 1..Len(f) \/ i = Len(f) + 1
      BY <2>1, <2>2
    <3> QED
      BY <2>1, <2>2, <3>1 DEF ToSet
  <2>4. ToSet(f) \cup {e} \subseteq ToSet(g)
    <3>1. \A i \in DOMAIN f : i \in DOMAIN g /\ g[i] = f[i]
      BY <2>1, <2>2
    <3>2. Len(f) + 1 \in DOMAIN g
      BY <2>1, <2>2
    <3> QED
      BY <2>1, <3>1, <3>2 DEF ToSet
  <2> QED
    BY <2>1, <2>3, <2>4
<1> HIDE DEF g
<1>2. CASE e \in ToSet(f) \/ e.partial
  <2>1. unique_events(g) = unique_events(f)
    BY <1>1, <1>2 DEF unique_events
  <2>2. stamped_events(g) = stamped_events(f)
    BY <2>1 DEF stamped_events
  <2> QED
    BY <2>2 DEF Adds, g
<1>3. CASE ~(e \in ToSet(f) \/ e.partial)
  <2>1. unique_events(g) = unique_events(f) \cup {e}
    BY <1>1, <1>3 DEF unique_events
  <2>2. \A x \in unique_events(f) : x.at # 0 /\ x.at < e.at
    BY <1>3 DEF Comes
  <2>3. stamped_events(f) = unique_events(f)
    BY <2>2, AllTimed
  <2>4. e.at # 0
    <3>1. PICK x \in unique_events(f) : TRUE
      BY <2>3
    <3>2. x.at \in Nat /\ x.at < e.at /\ e.at \in Nat
      BY <2>2, FileRecords, RecordsAreKeyed DEF Record
    <3> QED
      BY <3>2
  <2>5. stamped_events(g) = unique_events(g)
    BY <1>1, <2>1, <2>2, <2>4, AllTimed
  <2> QED
    BY <2>1, <2>2, <2>3, <2>5 DEF Adds, g
<1> QED
  BY <1>2, <1>3

LEMMA ItemsGrow ==
  ASSUME NEW E, NEW F, Timed(E), Timed(F), NEW e \in F, F = E \cup {e},
         \A x \in E : x.at < e.at, root_id(E) = root_id(F)
  PROVE  /\ Agents(E) \subseteq Agents(F)
         /\ After(Items(E), Items(F), ItemOrder(Items(F)))
<1>1. E \subseteq Record /\ F \subseteq Record /\ E \subseteq F /\ \A x \in F : x.at \in Nat
  BY DEF Timed, Record
<1>2. \A x \in F : /\ event_agent_id(E, x) = event_agent_id(F, x)
                   /\ transfer_path(E, x) = transfer_path(F, x)
  BY DEF event_agent_id, transfer_path
<1>3. \A id : NamedBy(E, id) = NamedBy(F, id) \cap E
  BY <1>1, <1>2 DEF NamedBy
<1>4. \A x \in E : push_event(E, x) = push_event(F, x)
  BY <1>1, <1>2 DEF push_event
<1>5. Agents(E) \subseteq Agents(F)
  <2>1. Named(E) \subseteq Named(F)
    BY <1>1 DEF Named
  <2>2. Given(E) \subseteq Given(F)
    BY <1>1, <1>2, <2>1 DEF Given
  <2>3. \A p \in Agents(E) : p \in Path /\ \E g \in Given(E) : IsPrefix(p, g)
    BY <1>1, AgentsAre
  <2> QED
    BY <1>1, <2>2, <2>3, AgentsAre
<1>6. ASSUME NEW id \in Agents(E), Len(id) > 1
      PROVE  SpawnOf(F, id) = SpawnOf(E, id)
  <2> DEFINE S == {x.at : x \in NamedBy(E, id)}
             T == {x.at : x \in NamedBy(F, id)}
  <2>1. NamedBy(E, id) # {} /\ NamedBy(E, id) \subseteq E /\ NamedBy(F, id) \subseteq F
    BY <1>1, <1>6, AgentsAreNamed DEF NamedBy
  <2>2. S \subseteq Nat /\ T \subseteq Nat /\ S # {} /\ S \subseteq T
    BY <1>1, <1>3, <2>1
  <2>3. \A x \in S : \A y \in T \ S : x <= y
    <3> SUFFICES ASSUME NEW a \in NamedBy(E, id), NEW b \in NamedBy(F, id), b.at \notin S
                 PROVE  a.at <= b.at
      OBVIOUS
    <3>1. b \notin E
      BY <1>3
    <3>2. b = e
      BY <2>1, <3>1
    <3>3. a.at < e.at /\ a.at \in Nat /\ e.at \in Nat
      BY <1>1, <2>1
    <3> QED
      BY <3>2, <3>3
  <2>4. Min(T) = Min(S)
    <3> HIDE DEF S, T
    <3> QED
      BY <2>2, <2>3, LeastStays
  <2>5. SpawnTime(E, id) = Min(S) /\ SpawnTime(F, id) = Min(T)
    BY DEF SpawnTime, NamedBy
  <2> QED
    BY <2>4, <2>5 DEF SpawnOf
<1>7. ASSUME NEW id \in Agents(F), Len(id) > 1, id \notin Agents(E)
      PROVE  SpawnTime(F, id) = e.at
  <2>1. id \in Path
    BY <1>1, AgentsAre
  <2>2. NamedBy(E, id) = {}
    BY <1>1, <1>7, <2>1, NamedAreAgents
  <2>3. PICK x \in NamedBy(F, id) : SpawnTime(F, id) = x.at
    BY <1>1, <1>7, SpawnTimeIs
  <2>4. x \in F /\ x \notin E
    BY <1>3, <2>2 DEF NamedBy
  <2> QED
    BY <2>3, <2>4
<1>8. ASSUME NEW x \in Items(E)
      PROVE  x \in Items(F) /\ x.at < e.at
  <2>1. CASE \E id \in Agents(E) : Len(id) > 1 /\ x = SpawnOf(E, id)
    <3>1. PICK id \in Agents(E) : Len(id) > 1 /\ x = SpawnOf(E, id)
      BY <2>1
    <3>2. x = SpawnOf(F, id) /\ id \in Agents(F)
      BY <1>5, <1>6, <3>1
    <3>3. PICK y \in NamedBy(E, id) : SpawnTime(E, id) = y.at
      BY <1>1, <3>1, SpawnTimeIs
    <3>4. x.at = y.at /\ y \in E
      BY <3>1, <3>3 DEF SpawnOf, NamedBy
    <3> QED
      BY <3>1, <3>2, <3>4, ItemsAre
  <2>2. CASE \E z \in E : \E k \in Nat : x = Said(E, z, k) /\ x \in push_event(E, z)
    <3>1. PICK z \in E, k \in Nat : x = Said(E, z, k) /\ x \in push_event(E, z)
      BY <2>2
    <3>2. x.at = z.at /\ x \in push_event(F, z)
      BY <1>4, <3>1 DEF Said
    <3> QED
      BY <1>1, <3>2 DEF Items
  <2> QED
    BY <2>1, <2>2, ItemsAre
<1>9. ASSUME NEW y \in Items(F), y \notin Items(E)
      PROVE  y.at = e.at
  <2>1. CASE \E id \in Agents(F) : Len(id) > 1 /\ y = SpawnOf(F, id)
    <3>1. PICK id \in Agents(F) : Len(id) > 1 /\ y = SpawnOf(F, id)
      BY <2>1
    <3>2. id \notin Agents(E)
      BY <1>6, <1>9, <3>1, ItemsAre
    <3> QED
      BY <1>7, <3>1, <3>2 DEF SpawnOf
  <2>2. CASE \E z \in F : \E k \in Nat : y = Said(F, z, k) /\ y \in push_event(F, z)
    <3>1. PICK z \in F, k \in Nat : y = Said(F, z, k) /\ y \in push_event(F, z)
      BY <2>2
    <3>2. z \notin E
      BY <1>4, <1>9, <3>1 DEF Items
    <3> QED
      BY <3>1, <3>2 DEF Said
  <2> QED
    BY <2>1, <2>2, ItemsAre
<1>10. \A x \in Items(E) : \A y \in Items(F) \ Items(E) : <<x, y>> \in ItemOrder(Items(F))
  BY <1>8, <1>9 DEF ItemOrder, Before
<1> QED
  BY <1>5, <1>8, <1>10 DEF After

LEMMA LinesGrow ==
  ASSUME NEW E, NEW F, Timed(E), Timed(F),
         After(Items(E), Items(F), ItemOrder(Items(F)))
  PROVE  Continues(Lines(F), Lines(E))
<1> DEFINE S == Items(E)
           T == Items(F)
<1>1. S \subseteq T
  BY DEF After
<1>2. IsFiniteSet(T) /\ OrderOn(ItemOrder(T), T)
  BY ItemsAre, ItemsOrdered
<1> HIDE DEF S, T
<1>3. \A x \in S : {y \in S : <<y, x>> \in ItemOrder(T)} = {y \in S : <<y, x>> \in ItemOrder(S)}
  BY <1>1 DEF ItemOrder
<1>4. Rank(S, ItemOrder(T)) = Rank(S, ItemOrder(S))
  BY <1>3 DEF Rank
<1>5. Ranked(S, ItemOrder(T)) = Ranked(S, ItemOrder(S))
  BY <1>4 DEF Ranked
<1>6. After(S, T, ItemOrder(T))
  BY DEF S, T
<1>7. Continues(Ranked(T, ItemOrder(T)), Ranked(S, ItemOrder(T)))
  BY <1>2, <1>6, RankedGrows
<1> QED
  BY <1>5, <1>7 DEF Lines, S, T

-----------------------------------------------------------------------------
(* The renderer's input.                                                    *)

(* A sequence, and one whose n-th element says that it is the n-th.         *)
List(t) == Len(t) \in Nat /\ DOMAIN t = 1..Len(t) /\ t = [i \in 1..Len(t) |-> t[i]]
Numbered(t) == List(t) /\ \A i \in DOMAIN t : t[i].seq = i - 1

LEMMA ShownAreNumbered ==
  ASSUME NEW E, Timed(E)
  PROVE  Numbered(Shown(Lines(E))) /\ Len(Shown(Lines(E))) = Len(Lines(E))
<1> DEFINE q == Lines(E)
           s == Shown(q)
<1>1. Len(q) \in Nat /\ DOMAIN q = 1..Len(q)
  BY LinesAre
<1> HIDE DEF q
<1>2. DOMAIN s = 1..Len(q) /\ \A i \in DOMAIN s : s[i].seq = i - 1
  BY <1>1 DEF Shown
<1>3. s = [i \in 1..Len(q) |-> s[i]]
  BY <1>1 DEF Shown
<1>4. Len(s) = Len(q)
  <2> DEFINE S == {s[i] : i \in 1..Len(q)}
  <2>1. s \in [1..Len(q) -> S]
    BY <1>3
  <2> HIDE DEF s, S
  <2> QED
    BY <1>1, <2>1
<1> HIDE DEF s
<1> QED
  BY <1>1, <1>2, <1>3, <1>4 DEF Numbered, List, s, q

LEMMA ShownGrow ==
  ASSUME NEW E, NEW F, Timed(E), Timed(F), Continues(Lines(F), Lines(E))
  PROVE  Continues(Shown(Lines(F)), Shown(Lines(E)))
<1> DEFINE q == Lines(E)
           r == Lines(F)
<1>1. Len(Shown(q)) = Len(q) /\ Len(Shown(r)) = Len(r)
  BY ShownAreNumbered
<1>2. DOMAIN Shown(q) = DOMAIN q /\ DOMAIN Shown(r) = DOMAIN r
  BY DEF Shown
<1>3. Len(q) <= Len(r) /\ \A n \in DOMAIN q : n \in DOMAIN r /\ r[n] = q[n]
  BY DEF Continues
<1> HIDE DEF q, r
<1>4. \A n \in DOMAIN q : Shown(r)[n] = Shown(q)[n]
  BY <1>3 DEF Shown
<1> QED
  BY <1>1, <1>2, <1>3, <1>4 DEF Continues, q, r

(* The lines of a numbered sequence that are in W, in their order.          *)
Among(t, W) == Sorted({x \in ToSet(t) : x \in W}, SeqBefore)

NumberOrder(S) == {p \in S \X S : SeqBefore(p[1], p[2])}

LEMMA NumberedFinite ==
  ASSUME NEW t, List(t)
  PROVE  IsFiniteSet(ToSet(t))
<1>1. IsFiniteSet(1..Len(t))
  <2>1. Len(t) \in Nat
    BY DEF List
  <2> QED
    BY <2>1, FS_Interval
<1>2. ToSet(t) = {t[i] : i \in 1..Len(t)}
  BY DEF ToSet, List
<1> QED
  BY <1>1, <1>2, ImageFinite

LEMMA NumberedOrdered ==
  ASSUME NEW t, Numbered(t), NEW S, S \subseteq ToSet(t)
  PROVE  OrderOn(NumberOrder(S), S)
<1>1. \A x \in S : \E i \in 1..Len(t) : x = t[i] /\ x.seq = i - 1
  BY DEF ToSet, Numbered, List
<1>2. Len(t) \in Nat
  BY DEF Numbered, List
<1>3. \A x \in S : x.seq \in Int
  BY <1>1, <1>2
<1>4. \A x \in S : \A y \in S : x.seq = y.seq => x = y
  <2> SUFFICES ASSUME NEW x \in S, NEW y \in S, x.seq = y.seq PROVE x = y
    OBVIOUS
  <2>1. PICK i \in 1..Len(t) : x = t[i] /\ x.seq = i - 1
    BY <1>1
  <2>2. PICK j \in 1..Len(t) : y = t[j] /\ y.seq = j - 1
    BY <1>1
  <2>3. i = j
    BY <1>2, <2>1, <2>2
  <2> QED
    BY <2>1, <2>2, <2>3
<1>5. \A x \in S : \A y \in S : x = y \/ x.seq < y.seq \/ y.seq < x.seq
  BY <1>3, <1>4
<1> QED
  BY <1>3, <1>5 DEF OrderOn, NumberOrder, SeqBefore

LEMMA NumbersRanked == \A S : Sorted(S, SeqBefore) = Ranked(S, NumberOrder(S))
<1> SUFFICES ASSUME NEW S PROVE Sorted(S, SeqBefore) = Ranked(S, NumberOrder(S))
  OBVIOUS
<1>1. \A x \in S : {y \in S : SeqBefore(y, x)} = {y \in S : <<y, x>> \in NumberOrder(S)}
  BY DEF NumberOrder
<1>2. [x \in S |-> Cardinality({y \in S : SeqBefore(y, x)})] = Rank(S, NumberOrder(S))
  BY <1>1 DEF Rank
<1> QED
  BY <1>2 DEF Sorted, Ranked

LEMMA AmongIsList ==
  ASSUME NEW t, Numbered(t), NEW W
  PROVE  List(Among(t, W))
<1> DEFINE S == {x \in ToSet(t) : x \in W}
           q == Ranked(S, NumberOrder(S))
<1>1. IsFiniteSet(S)
  BY NumberedFinite, FS_Subset DEF Numbered
<1>2. OrderOn(NumberOrder(S), S)
  BY NumberedOrdered
<1>3. Among(t, W) = q
  BY NumbersRanked DEF Among
<1> HIDE DEF S
<1>4. /\ Cardinality(S) \in Nat /\ Len(q) = Cardinality(S) /\ DOMAIN q = 1..Cardinality(S)
  BY <1>1, <1>2, RankedLists
<1>5. q = [i \in 1..Cardinality(S) |-> q[i]]
  BY DEF Ranked
<1> HIDE DEF q
<1> QED
  BY <1>3, <1>4, <1>5 DEF List

LEMMA AmongGrows ==
  ASSUME NEW s, NEW t, Numbered(s), Numbered(t), Continues(t, s), NEW W
  PROVE  Continues(Among(t, W), Among(s, W))
<1> DEFINE S == {x \in ToSet(s) : x \in W}
           T == {x \in ToSet(t) : x \in W}
<1>1. ToSet(s) \subseteq ToSet(t)
  BY DEF ToSet, Continues
<1>2. IsFiniteSet(T) /\ OrderOn(NumberOrder(T), T)
  BY NumberedFinite, NumberedOrdered, FS_Subset DEF Numbered
<1>3. \A x \in S : \A y \in T \ S : SeqBefore(x, y)
  <2> SUFFICES ASSUME NEW x \in S, NEW y \in T \ S PROVE x.seq < y.seq
    BY DEF SeqBefore
  <2>1. PICK i \in DOMAIN s : x = s[i]
    BY DEF ToSet
  <2>2. PICK j \in DOMAIN t : y = t[j]
    BY DEF ToSet
  <2>3. j \notin DOMAIN s
    <3> SUFFICES ASSUME j \in DOMAIN s PROVE FALSE
      OBVIOUS
    <3>1. y = s[j]
      BY <2>2 DEF Continues
    <3> QED
      BY <3>1 DEF ToSet
  <2>4. /\ i \in 1..Len(s) /\ j \in 1..Len(t) /\ ~(j \in 1..Len(s))
        /\ Len(s) \in Nat /\ Len(t) \in Nat /\ x.seq = i - 1 /\ y.seq = j - 1
    BY <2>1, <2>2, <2>3 DEF Numbered, List
  <2> QED
    BY <2>4
<1>4. After(S, T, NumberOrder(T))
  BY <1>1, <1>3 DEF After, NumberOrder
<1>5. S \subseteq T
  BY <1>1
<1>6. Among(t, W) = Ranked(T, NumberOrder(T)) /\ Among(s, W) = Ranked(S, NumberOrder(S))
  BY NumbersRanked DEF Among
<1> HIDE DEF S, T
<1>7. \A x \in S : {y \in S : <<y, x>> \in NumberOrder(T)} = {y \in S : <<y, x>> \in NumberOrder(S)}
  BY <1>5 DEF NumberOrder
<1>8. Rank(S, NumberOrder(T)) = Rank(S, NumberOrder(S))
  BY <1>7 DEF Rank
<1>9. Ranked(S, NumberOrder(T)) = Ranked(S, NumberOrder(S))
  BY <1>8 DEF Ranked
<1>10. Continues(Ranked(T, NumberOrder(T)), Ranked(S, NumberOrder(T)))
  BY <1>2, <1>4, RankedGrows
<1> QED
  BY <1>6, <1>9, <1>10

(* One renderer input continues another: the same session, and every        *)
(* transcript a continuation.                                               *)
Extends(w, v) ==
  /\ w.session = v.session /\ DOMAIN Transcripts(v) \subseteq DOMAIN Transcripts(w)
  /\ \A a \in DOMAIN Transcripts(v) : Continues(Transcripts(w)[a], Transcripts(v)[a])

Lists(w) == \A a \in DOMAIN Transcripts(w) : List(Transcripts(w)[a])

(* The transcripts of a compiled session.                                   *)
InMain(x, top) == x.what \in {"spawn", "failed", "completed"} \/ x.agent = top
MainOf(t, top)   == {x \in ToSet(t) : InMain(x, top)}
OwnOf(t, top, a) == {x \in ToSet(t) : ~InMain(x, top) /\ x.agent = a}

LEMMA CompiledIs ==
  ASSUME NEW v, NEW t, Continues(t, v.events)
  PROVE  LET top == root(v.agents)
             all == Transcripts(compile(v))
         IN  /\ compile(v).session = v.session
             /\ DOMAIN all = {<<>>} \cup (v.agents \ {top})
             /\ all[<<>>] = Among(v.events, MainOf(t, top))
             /\ \A a \in v.agents \ {top} :
                   a # <<>> => all[a] = Among(v.events, OwnOf(t, top, a))
<1> DEFINE top == root(v.agents)
           s == v.events
           w == compile(v)
<1>1. ToSet(s) \subseteq ToSet(t)
  BY DEF ToSet, Continues
<1>2. {x \in ToSet(s) : InMain(x, top)} = {x \in ToSet(s) : x \in MainOf(t, top)}
  BY <1>1 DEF MainOf
<1>3. \A a : {x \in ToSet(s) : ~InMain(x, top) /\ x.agent = a}
               = {x \in ToSet(s) : x \in OwnOf(t, top, a)}
  BY <1>1 DEF OwnOf
<1>4. /\ w.session = v.session
      /\ w.main = Sorted({x \in ToSet(s) : InMain(x, top)}, SeqBefore)
      /\ DOMAIN w.subs = v.agents \ {top}
      /\ \A a \in v.agents \ {top} :
            w.subs[a] = Sorted({x \in ToSet(s) : ~InMain(x, top) /\ x.agent = a}, SeqBefore)
  BY DEF compile, InMain
<1>5. w.main = Among(s, MainOf(t, top))
  BY <1>2, <1>4 DEF Among
<1>6. \A a \in v.agents \ {top} : w.subs[a] = Among(s, OwnOf(t, top, a))
  BY <1>3, <1>4 DEF Among
<1> HIDE DEF w, s, top
<1>7. /\ DOMAIN Transcripts(w) = {<<>>} \cup (v.agents \ {top})
      /\ Transcripts(w)[<<>>] = w.main
      /\ \A a \in v.agents \ {top} : a # <<>> => Transcripts(w)[a] = w.subs[a]
  BY <1>4 DEF Transcripts
<1> QED
  BY <1>4, <1>5, <1>6, <1>7 DEF w, s, top

LEMMA ContinuesItself == \A t : Len(t) \in Nat => Continues(t, t)
BY DEF Continues

LEMMA ExtendsItself == ASSUME NEW w, Lists(w) PROVE Extends(w, w)
BY ContinuesItself DEF Extends, Lists, List

LEMMA ExtendsChains ==
  ASSUME NEW u, NEW v, NEW w, Lists(u), Lists(v), Lists(w), Extends(v, u), Extends(w, v)
  PROVE  Extends(w, u)
<1>1. ASSUME NEW a \in DOMAIN Transcripts(u)
      PROVE  Continues(Transcripts(w)[a], Transcripts(u)[a])
  <2> DEFINE r == Transcripts(u)[a]
             s == Transcripts(v)[a]
             t == Transcripts(w)[a]
  <2>1. Continues(s, r) /\ Continues(t, s)
    BY DEF Extends
  <2>2. Len(r) \in Nat /\ Len(s) \in Nat /\ Len(t) \in Nat
    BY DEF Extends, Lists, List
  <2> HIDE DEF r, s, t
  <2>3. Continues(t, r)
    BY <2>1, <2>2 DEF Continues
  <2> QED
    BY <2>3 DEF r, t
<1> QED
  BY <1>1 DEF Extends

LEMMA CompiledLists ==
  ASSUME NEW v, Numbered(v.events)
  PROVE  Lists(compile(v))
<1> DEFINE top == root(v.agents)
           A == Transcripts(compile(v))
<1>1. Continues(v.events, v.events)
  BY ContinuesItself DEF Numbered, List
<1>2. \A W : List(Among(v.events, W))
  BY AmongIsList
<1>3. /\ DOMAIN A = {<<>>} \cup (v.agents \ {top})
      /\ A[<<>>] = Among(v.events, MainOf(v.events, top))
      /\ \A a \in v.agents \ {top} : a # <<>> => A[a] = Among(v.events, OwnOf(v.events, top, a))
  BY <1>1, CompiledIs
<1> HIDE DEF A, top
<1>4. \A a \in DOMAIN A : List(A[a])
  <2> SUFFICES ASSUME NEW a \in DOMAIN A PROVE List(A[a])
    OBVIOUS
  <2>1. CASE a = <<>>
    BY <1>2, <1>3, <2>1
  <2>2. CASE a # <<>>
    BY <1>2, <1>3, <2>2
  <2> QED
    BY <2>1, <2>2
<1> QED
  BY <1>4 DEF Lists, A

LEMMA CompiledGrows ==
  ASSUME NEW v, NEW w, Numbered(v.events), Numbered(w.events), Continues(w.events, v.events),
         v.session = w.session, v.agents \subseteq w.agents, root(v.agents) = root(w.agents)
  PROVE  Extends(compile(w), compile(v))
<1> DEFINE top == root(v.agents)
           A == Transcripts(compile(v))
           B == Transcripts(compile(w))
<1>1. Continues(w.events, w.events)
  BY ContinuesItself DEF Numbered, List
<1>2. /\ compile(v).session = v.session
      /\ DOMAIN A = {<<>>} \cup (v.agents \ {top})
      /\ A[<<>>] = Among(v.events, MainOf(w.events, top))
      /\ \A a \in v.agents \ {top} : a # <<>> => A[a] = Among(v.events, OwnOf(w.events, top, a))
  BY CompiledIs
<1>3. /\ compile(w).session = w.session
      /\ DOMAIN B = {<<>>} \cup (w.agents \ {top})
      /\ B[<<>>] = Among(w.events, MainOf(w.events, top))
      /\ \A a \in w.agents \ {top} : a # <<>> => B[a] = Among(w.events, OwnOf(w.events, top, a))
  <2> DEFINE low == root(w.agents)
  <2>1. /\ compile(w).session = w.session
        /\ DOMAIN B = {<<>>} \cup (w.agents \ {low})
        /\ B[<<>>] = Among(w.events, MainOf(w.events, low))
        /\ \A a \in w.agents \ {low} : a # <<>> => B[a] = Among(w.events, OwnOf(w.events, low, a))
    BY <1>1, CompiledIs
  <2>2. low = top
    OBVIOUS
  <2> HIDE DEF low, top, B
  <2> QED
    BY <2>1, <2>2
<1>4. \A W : Continues(Among(w.events, W), Among(v.events, W))
  BY AmongGrows
<1> HIDE DEF A, B, top
<1>5. DOMAIN A \subseteq DOMAIN B
  BY <1>2, <1>3
<1>6. ASSUME NEW a \in DOMAIN A
      PROVE  Continues(B[a], A[a])
  <2>1. CASE a = <<>>
    BY <1>2, <1>3, <1>4, <2>1
  <2>2. CASE a # <<>>
    <3>1. a \in v.agents \ {top} /\ a \in w.agents \ {top}
      BY <1>2, <2>2
    <3> QED
      BY <1>2, <1>3, <1>4, <2>2, <3>1
  <2> QED
    BY <2>1, <2>2
<1> QED
  BY <1>2, <1>3, <1>5, <1>6 DEF Extends, A, B

-----------------------------------------------------------------------------
(* The projections of the files there can be.                               *)

LEMMA WireIs ==
  ASSUME NEW f \in Files
  PROVE  Lists(Wires[f]) /\ (f # <<>> => Wires[f] = compile(build(f)))
<1>1. f \in Seq(Records) /\ Sessions[f] = build(f)
  BY FilesAre
<1>2. f # <<>> => Wires[f] = compile(build(f))
  BY <1>1 DEF Wires
<1>3. CASE f # <<>>
  <2> DEFINE E == stamped_events(f)
  <2>1. Timed(E) /\ build(f).events = Shown(Lines(E))
    BY <1>1, Built
  <2>2. Numbered(Shown(Lines(E)))
    BY <2>1, ShownAreNumbered
  <2>3. Numbered(build(f).events)
    BY <2>1, <2>2
  <2> QED
    BY <1>2, <1>3, <2>3, CompiledLists
<1>4. CASE f = <<>>
  <2> DEFINE none == [session |-> 0, main |-> <<>>, subs |-> <<>>]
  <2>1. Wires[f] = none
    BY <1>4 DEF Wires
  <2>2. DOMAIN <<>> = {} /\ Len(<<>>) = 0
    OBVIOUS
  <2>3. Transcripts(none) = [a \in {<<>>} |-> <<>>]
    BY <2>2 DEF Transcripts
  <2>4. List(<<>>)
    BY <2>2 DEF List
  <2>5. Lists(none)
    BY <2>3, <2>4 DEF Lists
  <2> QED
    BY <1>4, <2>1, <2>5
<1> QED
  BY <1>2, <1>3, <1>4

LEMMA HeadIs ==
  ASSUME NEW f \in Files
  PROVE  LET E == stamped_events(f)
         IN  Heads[f] = [empty |-> E = {}, user |-> root_id(E), main |-> root(Agents(E)),
                         session |-> session_id(f)]
<1>1. ToSet(prepare_events(f)) = stamped_events(f)
  BY FilesAre, PreparedEvents
<1> QED
  BY <1>1 DEF Heads

LEMMA NothingOfNothing ==
  ASSUME NEW f \in Files, f = <<>>
  PROVE  stamped_events(f) = {}
<1>1. ToSet(f) = {}
  BY DEF ToSet
<1> QED
  BY <1>1 DEF stamped_events, unique_events

LEMMA ReadableHasEvents ==
  ASSUME NEW f \in Readable
  PROVE  f \in Files /\ f # <<>> /\ ~Heads[f].empty
<1>1. f \in Files /\ f # <<>> /\ build(f).events # <<>>
  BY DEF Readable, Loads
<1> DEFINE E == stamped_events(f)
<1>2. Timed(E) /\ build(f).events = Shown(Lines(E))
  BY <1>1, FilesAre, Built
<1>3. E # {}
  <2> SUFFICES ASSUME E = {} PROVE FALSE
    OBVIOUS
  <2> HIDE DEF E
  <2>1. \A id : NamedBy(E, id) = {}
    BY DEF NamedBy
  <2>2. \A id \in Agents(E) : ~(Len(id) > 1)
    BY <1>2, <2>1, AgentsAreNamed DEF Timed
  <2>3. Items(E) = {}
    BY <1>2, <2>2, ItemsAre
  <2>4. DOMAIN Lines(E) = {}
    BY <1>2, <2>3, LinesAre
  <2>5. Shown(Lines(E)) = <<>>
    BY <2>4 DEF Shown
  <2> QED
    BY <1>1, <1>2, <2>5
<1>4. Heads[f] = [empty |-> E = {}, user |-> root_id(E), main |-> root(Agents(E)),
                  session |-> session_id(f)]
  BY <1>1, HeadIs
<1> HIDE DEF E
<1>5. Heads[f].empty = (E = {})
  BY <1>4
<1> QED
  BY <1>1, <1>3, <1>5

(* A record in its place, that names no other root and no other session,    *)
(* adds to every transcript at its end.                                     *)
LEMMA WiresGrow ==
  ASSUME NEW f \in Files, NEW e \in Records, Append(f, e) \in Files, Comes(f, e),
         ~Heads[f].empty, Heads[Append(f, e)] = Heads[f]
  PROVE  Extends(Wires[Append(f, e)], Wires[f])
<1> DEFINE g == Append(f, e)
           E == stamped_events(f)
           F == stamped_events(g)
<1>1. f \in Seq(Records) /\ g \in Seq(Records) /\ f # <<>> /\ g # <<>>
  <2>1. f \in Seq(Records) /\ g \in Seq(Records)
    BY FilesAre
  <2>2. E # {}
    <3>1. Heads[f] = [empty |-> E = {}, user |-> root_id(E), main |-> root(Agents(E)),
                      session |-> session_id(f)]
      BY HeadIs
    <3> HIDE DEF E, g, F
    <3>2. Heads[f].empty = (E = {})
      BY <3>1
    <3> QED
      BY <3>2
  <2>3. f # <<>>
    BY <2>2, NothingOfNothing
  <2>4. g # <<>>
    BY <2>1
  <2> QED
    BY <2>1, <2>3, <2>4
<1>2. E # {} /\ root_id(E) = root_id(F) /\ root(Agents(E)) = root(Agents(F))
      /\ session_id(f) = session_id(g)
  <2>1. Heads[f] = [empty |-> E = {}, user |-> root_id(E), main |-> root(Agents(E)),
                    session |-> session_id(f)]
    BY HeadIs
  <2>2. Heads[g] = [empty |-> F = {}, user |-> root_id(F), main |-> root(Agents(F)),
                    session |-> session_id(g)]
    BY HeadIs
  <2> HIDE DEF E, F, g
  <2>3. /\ Heads[f].empty = (E = {}) /\ Heads[f].user = root_id(E)
        /\ Heads[f].main = root(Agents(E)) /\ Heads[f].session = session_id(f)
    BY <2>1
  <2>4. /\ Heads[g].user = root_id(F)
        /\ Heads[g].main = root(Agents(F)) /\ Heads[g].session = session_id(g)
    BY <2>2
  <2> QED
    BY <2>3, <2>4 DEF g
<1>3. /\ Timed(E) /\ build(f) = [session |-> session_id(f), agents |-> Agents(E),
                                 events |-> Shown(Lines(E))]
      /\ Timed(F) /\ build(g) = [session |-> session_id(g), agents |-> Agents(F),
                                 events |-> Shown(Lines(F))]
  <2> HIDE DEF g
  <2> QED
    BY <1>1, Built
<1>4. Adds(E, F)
  BY <1>1, <1>2, EventsGrow
<1>5. Wires[f] = compile(build(f)) /\ Wires[g] = compile(build(g)) /\ Lists(Wires[f])
  BY <1>1, WireIs
<1> HIDE DEF E, F, g
<1>6. CASE F = E
  <2>1. build(g) = build(f)
    BY <1>2, <1>3, <1>6
  <2> QED
    BY <1>5, <2>1, ExtendsItself DEF g
<1>7. CASE F # E
  <2>1. PICK x \in F : F = E \cup {x} /\ \A y \in E : y.at < x.at
    BY <1>4, <1>7 DEF Adds
  <2>2. Agents(E) \subseteq Agents(F) /\ After(Items(E), Items(F), ItemOrder(Items(F)))
    BY <1>2, <1>3, <2>1, ItemsGrow
  <2>3. Continues(Shown(Lines(F)), Shown(Lines(E)))
    BY <1>3, <2>2, LinesGrow, ShownGrow
  <2>4. Numbered(Shown(Lines(E))) /\ Numbered(Shown(Lines(F)))
    BY <1>3, ShownAreNumbered
  <2> DEFINE v == build(f)
             w == build(g)
  <2>5. /\ v.events = Shown(Lines(E)) /\ v.agents = Agents(E) /\ v.session = session_id(f)
        /\ w.events = Shown(Lines(F)) /\ w.agents = Agents(F) /\ w.session = session_id(g)
    BY <1>3
  <2> HIDE DEF v, w
  <2>6. Extends(compile(w), compile(v))
    BY <1>2, <2>2, <2>3, <2>4, <2>5, CompiledGrows
  <2> QED
    BY <1>5, <2>6 DEF v, w, g
<1> QED
  BY <1>6, <1>7

-----------------------------------------------------------------------------
(* Tails by count.                                                          *)

(* What was held and the tail past it make the whole.                       *)
LEMMA TailJoins ==
  ASSUME NEW s, NEW t, List(s), List(t), Continues(t, s)
  PROVE  s \o tail_lines(t, Len(s)) = t
<1> DEFINE S == {s[i] : i \in DOMAIN s} \cup {t[i] : i \in DOMAIN t}
           m == Len(s)
           n == Len(t)
<1>1. m \in Nat /\ n \in Nat /\ m <= n /\ \A i \in 1..m : t[i] = s[i]
  BY DEF List, Continues
<1>2. s \in [1..m -> S] /\ t \in [1..n -> S]
  BY DEF List
<1>3. s \in Seq(S) /\ t \in Seq(S)
  <2> HIDE DEF S, m, n
  <2> QED
    BY <1>1, <1>2
<1> HIDE DEF S
<1> DEFINE u == SubSeq(t, m + 1, n)
<1>4. u \in Seq(S) /\ Len(u) = n - m /\ \A i \in 1..(n - m) : u[i] = t[m + i]
  BY <1>1, <1>3
<1>5. s \o u \in Seq(S) /\ Len(s \o u) = n
  BY <1>1, <1>3, <1>4
<1> HIDE DEF u, m, n
<1>6. \A i \in 1..n : (s \o u)[i] = t[i]
  <2> SUFFICES ASSUME NEW i \in 1..n PROVE (s \o u)[i] = t[i]
    OBVIOUS
  <2>0. i \in Nat /\ m \in Nat /\ n \in Nat /\ Len(s) = m
    BY <1>1 DEF m
  <2>1. CASE i <= m
    <3>1. i \in 1..m
      BY <2>0, <2>1
    <3>2. (s \o u)[i] = s[i]
      BY <1>3, <1>4, <2>0, <3>1
    <3> QED
      BY <1>1, <3>1, <3>2
  <2>2. CASE i > m
    <3>1. i - m \in 1..(n - m) /\ m + (i - m) = i
      BY <2>0, <2>2
    <3>2. (s \o u)[i] = u[i - m]
      BY <1>3, <1>4, <2>0, <2>2, <3>1
    <3> QED
      BY <1>4, <3>1, <3>2
  <2>3. i <= m \/ i > m
    BY <2>0
  <2> QED
    BY <2>1, <2>2, <2>3, Zenon
<1>7. s \o u = t
  <2> DEFINE v == s \o u
  <2>1. v \in Seq(S) /\ Len(v) = n /\ \A i \in 1..n : v[i] = t[i]
    BY <1>5, <1>6
  <2> HIDE DEF v
  <2>2. v = [i \in 1..n |-> v[i]]
    BY <2>1
  <2>3. t = [i \in 1..n |-> t[i]]
    BY <1>2
  <2> QED
    BY <2>1, <2>2, <2>3 DEF v
<1> QED
  BY <1>7 DEF tail_lines, u, m, n

(* What a batch makes of what was held, by transcript.                      *)
Tails(all, from)    == [a \in DOMAIN all |-> tail_lines(all[a], AlreadySent(from, a))]
Joined(held, tails) == [a \in DOMAIN held \cup DOMAIN tails |-> Held(held, a) \o Held(tails, a)]

(* all continues what is held, and from counts the latter.                  *)
Catchable(all, held, from) ==
  /\ all = [a \in DOMAIN all |-> all[a]] /\ DOMAIN held \subseteq DOMAIN all
  /\ \A a \in DOMAIN all : List(all[a])
  /\ \A a \in DOMAIN held : List(held[a]) /\ Continues(all[a], held[a])
  /\ from = [a \in DOMAIN held |-> Len(held[a])]

(* A renderer that holds what was counted holds everything after a batch.   *)
LEMMA BatchIsWhole ==
  ASSUME NEW held, NEW all, NEW from, Catchable(all, held, from)
  PROVE  Joined(held, Tails(all, from)) = all
<1> USE DEF Catchable
<1> DEFINE tails == [a \in DOMAIN all |-> tail_lines(all[a], AlreadySent(from, a))]
<1>1. ASSUME NEW a \in DOMAIN all
      PROVE  Held(held, a) \o Held(tails, a) = all[a]
  <2>1. Held(tails, a) = tail_lines(all[a], AlreadySent(from, a))
    BY DEF Held
  <2>2. CASE a \in DOMAIN held
    <3> DEFINE h == held[a]
               t == all[a]
    <3>1. Held(held, a) = h /\ AlreadySent(from, a) = Len(h)
      BY <2>2 DEF Held, AlreadySent
    <3>2. List(h) /\ List(t) /\ Continues(t, h)
      BY <2>2
    <3> HIDE DEF h, t
    <3>3. h \o tail_lines(t, Len(h)) = t
      BY <3>2, TailJoins
    <3>4. Held(tails, a) = tail_lines(t, Len(h))
      BY <2>1, <3>1 DEF t
    <3> HIDE DEF tails
    <3> QED
      BY <3>1, <3>3, <3>4 DEF t
  <2>3. CASE a \notin DOMAIN held
    <3>1. Held(held, a) = <<>> /\ AlreadySent(from, a) = 0
      BY <2>3 DEF Held, AlreadySent
    <3> DEFINE t == all[a]
    <3>2. List(t) /\ List(<<>>) /\ Continues(t, <<>>) /\ Len(<<>>) = 0
      BY DEF List, Continues
    <3> HIDE DEF t
    <3>3. <<>> \o tail_lines(t, Len(<<>>)) = t
      BY <3>2, TailJoins
    <3>4. Held(tails, a) = tail_lines(t, Len(<<>>))
      BY <2>1, <3>1, <3>2 DEF t
    <3> HIDE DEF tails
    <3> QED
      BY <3>1, <3>3, <3>4 DEF t
  <2> QED
    BY <2>2, <2>3
<1>2. DOMAIN held \cup DOMAIN tails = DOMAIN all
  OBVIOUS
<1> HIDE DEF tails
<1>3. [a \in DOMAIN held \cup DOMAIN tails |-> Held(held, a) \o Held(tails, a)]
        = [a \in DOMAIN all |-> all[a]]
  BY <1>1, <1>2
<1> QED
  BY <1>3 DEF tails, Tails, Joined

-----------------------------------------------------------------------------
(* What the renderer holds.                                                 *)

(* What the watcher counted as delivered is what the last load showed, and  *)
(* the file on disk has only grown since then.                              *)
Counted ==
  /\ delivered = Count(Wires[seen])
  /\ Extends(Wires[file], Wires[seen]) /\ ~Heads[file].empty

(* Before the watcher counts, nothing may happen to the file.               *)
Untouched == file = seen /\ ~torn

FollowInv ==
  /\ file \in Files /\ seen \in Files /\ torn \in BOOLEAN /\ clean \in BOOLEAN
  /\ tui = [up |-> tui.up, session |-> tui.session, lines |-> tui.lines]
  /\ tui.up \in BOOLEAN /\ delivered.on \in BOOLEAN
  /\ delivered = [counts |-> delivered.counts, on |-> delivered.on]
  /\ delivered.on => tui.up
  /\ clean /\ tui.up =>
       /\ seen \in Readable
       /\ tui.session = Wires[seen].session /\ tui.lines = Transcripts(Wires[seen])
       /\ (delivered.on => Counted) /\ (~delivered.on => Untouched)

LEMMA FilesGrow ==
  ASSUME NEW f \in Files, NEW e \in Records, Len(f) < MaxRecords
  PROVE  Append(f, e) \in Files
<1> DEFINE n == Len(f)
           g == Append(f, e)
<1>1. f \in Seq(Records) /\ n \in Nat /\ n + 1 \in 0..MaxRecords
  BY FilesAre, FollowBounds
<1>2. g \in Seq(Records) /\ Len(g) = n + 1
  BY <1>1
<1> HIDE DEF g, n
<1>3. g \in [1..(n + 1) -> Records]
  BY <1>2
<1> QED
  BY <1>1, <1>3 DEF Files, g

(* The transcripts are a function, and main is one of them.                 *)
LEMMA TranscriptsAre ==
  ASSUME NEW w
  PROVE  /\ Transcripts(w) = [a \in DOMAIN Transcripts(w) |-> Transcripts(w)[a]]
         /\ <<>> \in DOMAIN Transcripts(w) /\ Transcripts(w)[<<>>] = w.main
BY DEF Transcripts

LEMMA FollowInvInit == Init => FollowInv
<1> SUFFICES ASSUME Init PROVE FollowInv
  OBVIOUS
<1>1. <<>> \in Files
  <2>1. 0 \in 0..MaxRecords /\ <<>> \in [1..0 -> Records]
    BY FollowBounds
  <2> QED
    BY <2>1 DEF Files
<1> QED
  BY <1>1 DEF Init, FollowInv, NotStarted

LEMMA AppendsKeeps ==
  ASSUME FollowInv, NEW e \in Records, Appends(e)
  PROVE  FollowInv'
<1> USE DEF Appends
<1>1. file' \in Files
  BY FilesGrow DEF FollowInv
<1>2. ASSUME clean', tui.up
      PROVE  /\ clean /\ delivered.on /\ Counted /\ SameHead(e) /\ InOrder(e)
             /\ seen \in Readable
             /\ tui.session = Wires[seen].session /\ tui.lines = Transcripts(Wires[seen])
  BY <1>2 DEF FollowInv
<1>3. ASSUME clean', tui.up
      PROVE  Counted'
  <2> DEFINE g == Append(file, e)
  <2>1. g \in Files /\ file \in Files /\ seen \in Files /\ ~Heads[file].empty
        /\ Heads[g] = Heads[file] /\ Comes(file, e) /\ Extends(Wires[file], Wires[seen])
        /\ delivered = Count(Wires[seen])
    BY <1>1, <1>2, <1>3 DEF FollowInv, Counted, SameHead, InOrder, Comes
  <2> HIDE DEF g
  <2>2. Lists(Wires[g]) /\ Lists(Wires[file]) /\ Lists(Wires[seen])
    BY <2>1, WireIs
  <2>3. Extends(Wires[g], Wires[file])
    BY <2>1, WiresGrow DEF g
  <2> DEFINE a == Wires[seen]
             b == Wires[file]
             c == Wires[g]
  <2>4. Lists(a) /\ Lists(b) /\ Lists(c) /\ Extends(b, a) /\ Extends(c, b)
    BY <2>1, <2>2, <2>3
  <2> HIDE DEF a, b, c
  <2>5. Extends(c, a)
    BY <2>4, ExtendsChains
  <2>6. ~Heads[g].empty
    BY <2>1
  <2> QED
    BY <2>1, <2>5, <2>6 DEF Counted, a, c, g
<1>4. clean' \in BOOLEAN /\ torn' \in BOOLEAN
  BY DEF FollowInv
<1> QED
  BY <1>1, <1>2, <1>3, <1>4 DEF FollowInv

LEMMA TearsKeeps ==
  ASSUME FollowInv, Tears
  PROVE  FollowInv'
<1>1. clean' /\ tui.up => clean /\ delivered.on
  BY DEF Tears
<1>2. Counted' = Counted
  BY DEF Tears, Counted
<1> QED
  BY <1>1, <1>2 DEF Tears, FollowInv

LEMMA StartsOverKeeps ==
  ASSUME FollowInv, StartsOver
  PROVE  FollowInv'
<1>1. clean' => ~tui.up
  BY DEF StartsOver
<1>2. <<>> \in Files
  <2>1. 0 \in 0..MaxRecords /\ <<>> \in [1..0 -> Records]
    BY FollowBounds
  <2> QED
    BY <2>1 DEF Files
<1> QED
  BY <1>1, <1>2 DEF StartsOver, FollowInv

LEMMA RunViewKeeps ==
  ASSUME FollowInv, run_view
  PROVE  FollowInv'
<1> USE DEF run_view, load_ok
<1>1. file \in Readable /\ seen' = file /\ file' = file /\ ~torn' /\ delivered' = delivered
      /\ ~delivered.on /\ torn' = torn /\ clean' = clean
  BY DEF FollowInv
<1>2. tui' = [up |-> TRUE, session |-> Wires[file].session, lines |-> Transcripts(Wires[file])]
  OBVIOUS
<1>3. tui'.up = TRUE /\ tui'.session = Wires[file].session
      /\ tui'.lines = Transcripts(Wires[file])
  BY <1>2
<1> QED
  BY <1>1, <1>2, <1>3 DEF FollowInv, Untouched

LEMMA CountIs ==
  ASSUME NEW w
  PROVE  /\ Count(w) = [counts |-> Count(w).counts, on |-> TRUE] /\ Count(w).on = TRUE
         /\ Count(w).counts = [a \in DOMAIN Transcripts(w) |-> Len(Transcripts(w)[a])]
BY DEF Count

LEMMA WatchStartsKeeps ==
  ASSUME FollowInv, watch_starts
  PROVE  FollowInv'
<1>1. /\ tui.up /\ ~delivered.on /\ file' = file /\ torn' = torn /\ tui' = tui /\ seen' = seen
      /\ clean' = clean
      /\ delivered' = IF load_ok THEN Count(Wires[file]) ELSE Nothing
  BY DEF watch_starts
<1>2. delivered' = [counts |-> delivered'.counts, on |-> delivered'.on] /\ delivered'.on = TRUE
  <2>1. CASE load_ok
    BY <1>1, <2>1, CountIs
  <2>2. CASE ~load_ok
    BY <1>1, <2>2 DEF Nothing
  <2> QED
    BY <2>1, <2>2
<1>3. ASSUME clean
      PROVE  Counted'
  <2>1. file = seen /\ ~torn /\ seen \in Readable /\ seen \in Files
    BY <1>1, <1>3 DEF FollowInv, Untouched
  <2>2. delivered' = Count(Wires[seen])
    BY <1>1, <2>1 DEF load_ok
  <2>3. Extends(Wires[seen], Wires[seen])
    <3> DEFINE w == Wires[seen]
    <3>1. Lists(w)
      BY <2>1, WireIs
    <3> HIDE DEF w
    <3>2. Extends(w, w)
      BY <3>1, ExtendsItself
    <3> QED
      BY <3>2 DEF w
  <2>4. ~Heads[seen].empty
    BY <2>1, ReadableHasEvents
  <2> QED
    BY <1>1, <2>1, <2>2, <2>3, <2>4 DEF Counted
<1>4. clean /\ tui.up => /\ seen \in Readable
                         /\ tui.session = Wires[seen].session
                         /\ tui.lines = Transcripts(Wires[seen])
  BY DEF FollowInv
<1> QED
  BY <1>1, <1>2, <1>3, <1>4 DEF FollowInv

(* A renderer that shows v, with v counted, when what is to be shown is w.  *)
Behind(w, v, app, from) ==
  /\ Lists(w) /\ Lists(v) /\ Extends(w, v)
  /\ app = [up |-> app.up, session |-> w.session, lines |-> Transcripts(v)]
  /\ from = Count(v).counts

Recounted(all, from) ==
  [a \in DOMAIN all \cup DOMAIN from |-> IF a \in DOMAIN all THEN Len(all[a]) ELSE from[a]]

(* The tails of w past what was counted of v, given to a renderer that      *)
(* holds v, leave it with w; and what is counted then is w.                 *)
LEMMA CatchesUp ==
  ASSUME NEW w, NEW v, NEW app, NEW from, Behind(w, v, app, from)
  PROVE  /\ handle_batch(app, w.session, Tails(Transcripts(w), from))
              = [up |-> app.up, session |-> w.session, lines |-> Transcripts(w)]
         /\ [on |-> TRUE, counts |-> Recounted(Transcripts(w), from)] = Count(w)
<1> USE DEF Behind
<1> DEFINE all   == Transcripts(w)
           held  == Transcripts(v)
           tails == [a \in DOMAIN all |-> tail_lines(all[a], AlreadySent(from, a))]
           joined == Joined(held, tails)
<1>1. /\ DOMAIN held \subseteq DOMAIN all
      /\ \A a \in DOMAIN all : List(all[a])
      /\ \A a \in DOMAIN held : List(held[a]) /\ Continues(all[a], held[a])
  BY DEF Extends, Lists
<1>2. from = [a \in DOMAIN held |-> Len(held[a])] /\ all = [a \in DOMAIN all |-> all[a]]
  BY CountIs, TranscriptsAre
<1>3. joined = all
  <2> HIDE DEF all, held
  <2>1. Catchable(all, held, from)
    BY <1>1, <1>2 DEF Catchable
  <2>2. tails = Tails(all, from)
    BY DEF Tails
  <2> HIDE DEF tails
  <2> QED
    BY <2>1, <2>2, BatchIsWhole
<1>4. handle_batch(app, w.session, tails) = [up |-> app.up, session |-> w.session, lines |-> all]
  <2> HIDE DEF tails, all
  <2>1. app.session = w.session /\ app.lines = held
    OBVIOUS
  <2>2. handle_batch(app, w.session, tails) = [app EXCEPT !.lines = joined]
    BY <2>1 DEF handle_batch, Joined
  <2> HIDE DEF joined
  <2> QED
    BY <1>3, <2>2
<1>5. [a \in DOMAIN all \cup DOMAIN from |-> IF a \in DOMAIN all THEN Len(all[a]) ELSE from[a]]
        = Count(w).counts
  <2>1. Count(w).counts = [a \in DOMAIN all |-> Len(all[a])]
    BY CountIs
  <2>2. DOMAIN from \subseteq DOMAIN all
    BY <1>1, <1>2
  <2> HIDE DEF all
  <2> QED
    BY <2>1, <2>2
<1>6. Count(w) = [counts |-> Count(w).counts, on |-> TRUE]
  BY CountIs
<1>7. tails = Tails(all, from) /\ Count(w).counts = Recounted(all, from)
  BY <1>5 DEF Tails, Recounted
<1> HIDE DEF tails, all
<1>8. [on |-> TRUE, counts |-> Recounted(all, from)] = Count(w)
  BY <1>6, <1>7
<1> QED
  BY <1>4, <1>7, <1>8 DEF all

(* The input of a renderer that starts anew.                                *)
Blank(session) == [session |-> session, main |-> <<>>, subs |-> <<>>]

LEMMA BlankIs ==
  ASSUME NEW w, Lists(w)
  PROVE  /\ Transcripts(Blank(w.session)) = [a \in {<<>>} |-> <<>>]
         /\ Lists(Blank(w.session)) /\ Extends(w, Blank(w.session))
         /\ Count(Blank(w.session)).counts = Nothing.counts
<1> DEFINE b == Blank(w.session)
           T == Transcripts(w)
<1>1. DOMAIN <<>> = {} /\ Len(<<>>) = 0
  OBVIOUS
<1>2. Transcripts(b) = [a \in {<<>>} |-> <<>>]
  BY <1>1 DEF Transcripts, Blank
<1>3. b.session = w.session
  BY DEF Blank
<1>4. List(<<>>)
  BY <1>1 DEF List
<1>5. <<>> \in DOMAIN T
  BY TranscriptsAre
<1>6. Len(T[<<>>]) \in Nat
  BY <1>5 DEF Lists, List
<1> HIDE DEF b, T
<1>7. Continues(T[<<>>], <<>>)
  BY <1>1, <1>6 DEF Continues
<1>8. Lists(b)
  BY <1>2, <1>4 DEF Lists
<1>9. Extends(w, b)
  BY <1>2, <1>3, <1>5, <1>7 DEF Extends, T
<1>10. Count(b).counts = [a \in DOMAIN Transcripts(b) |-> Len(Transcripts(b)[a])]
  BY CountIs
<1>11. Count(b).counts = [a \in {<<>>} |-> 0]
  BY <1>1, <1>2, <1>10
<1>12. Nothing.counts = [a \in {<<>>} |-> 0]
  BY DEF Nothing
<1> QED
  BY <1>2, <1>8, <1>9, <1>11, <1>12 DEF b

LEMMA PollKeeps ==
  ASSUME FollowInv, poll
  PROVE  FollowInv'
<1> DEFINE w      == Wires[file]
           all    == Transcripts(w)
           shrunk == Len(w.main) < delivered.counts[<<>>]
           from   == IF shrunk THEN Nothing.counts ELSE delivered.counts
           shown  == IF shrunk
                     THEN [tui EXCEPT !.session = w.session, !.lines = [a \in {<<>>} |-> <<>>]]
                     ELSE tui
           tails  == [a \in DOMAIN all |-> tail_lines(all[a], AlreadySent(from, a))]
           counts == [a \in DOMAIN all \cup DOMAIN from |->
                        IF a \in DOMAIN all THEN Len(all[a]) ELSE from[a]]
           v      == IF shrunk THEN Blank(w.session) ELSE Wires[seen]
<1>1. /\ delivered.on /\ load_ok /\ file' = file /\ torn' = torn /\ seen' = file
      /\ tui' = handle_batch(shown, w.session, tails)
      /\ delivered' = [on |-> TRUE, counts |-> counts]
      /\ clean' = (clean \/ shrunk)
  BY DEF poll
<1>2. file \in Readable /\ file \in Files /\ seen \in Files /\ tui.up = TRUE
  BY <1>1 DEF load_ok, FollowInv
<1>3. Lists(w) /\ Lists(Wires[seen])
  BY <1>2, WireIs
<1>4. tui = [up |-> tui.up, session |-> tui.session, lines |-> tui.lines]
  BY DEF FollowInv
<1>5. delivered' = [counts |-> delivered'.counts, on |-> delivered'.on] /\ delivered'.on = TRUE
  <2> HIDE DEF counts
  <2> QED
    BY <1>1
<1>6. tui' = [up |-> tui'.up, session |-> tui'.session, lines |-> tui'.lines] /\ tui'.up = TRUE
  <2>1. shown = [up |-> TRUE, session |-> shown.session, lines |-> shown.lines]
    <3>1. CASE shrunk
      <4> HIDE DEF w
      <4>1. shown = [tui EXCEPT !.session = w.session, !.lines = [a \in {<<>>} |-> <<>>]]
        BY <3>1
      <4> HIDE DEF shown
      <4> QED
        BY <1>2, <1>4, <4>1
    <3>2. CASE ~shrunk
      BY <1>2, <1>4, <3>2
    <3> HIDE DEF shown
    <3> QED
      BY <3>1, <3>2
  <2> HIDE DEF shown, tails, w
  <2>2. \/ tui' = shown
        \/ tui' = [shown EXCEPT !.lines = [a \in DOMAIN shown.lines \cup DOMAIN tails |->
                                             Held(shown.lines, a) \o Held(tails, a)]]
    BY <1>1 DEF handle_batch
  <2> QED
    BY <2>1, <2>2
<1>7. ASSUME clean'
      PROVE  /\ Lists(v) /\ Extends(w, v) /\ from = Count(v).counts
             /\ shown = [up |-> shown.up, session |-> w.session, lines |-> Transcripts(v)]
  <2>1. CASE shrunk
    <3>1. v = Blank(w.session) /\ from = Nothing.counts
      BY <2>1
    <3>2. /\ Transcripts(Blank(w.session)) = [a \in {<<>>} |-> <<>>]
          /\ Lists(Blank(w.session)) /\ Extends(w, Blank(w.session))
          /\ Count(Blank(w.session)).counts = Nothing.counts
      <4> HIDE DEF w
      <4> QED
        BY <1>3, BlankIs
    <3>3. shown = [up |-> shown.up, session |-> w.session, lines |-> Transcripts(v)]
      <4>1. shown = [tui EXCEPT !.session = w.session, !.lines = [a \in {<<>>} |-> <<>>]]
        BY <2>1
      <4> HIDE DEF shown, w, v
      <4> QED
        BY <1>4, <3>1, <3>2, <4>1
    <3> HIDE DEF shown, w, v, from, shrunk
    <3> QED
      BY <3>1, <3>2, <3>3
  <2>2. CASE ~shrunk
    <3>1. v = Wires[seen] /\ from = delivered.counts /\ shown = tui
      BY <2>2
    <3>2. clean
      BY <1>1, <1>7, <2>2
    <3>3. /\ tui.session = Wires[seen].session /\ tui.lines = Transcripts(Wires[seen])
          /\ delivered = Count(Wires[seen]) /\ Extends(Wires[file], Wires[seen])
      BY <1>1, <1>2, <3>2 DEF FollowInv, Counted
    <3>4. w.session = Wires[seen].session
      BY <3>3 DEF Extends
    <3>5. from = Count(v).counts
      BY <3>1, <3>3
    <3>6. Extends(w, v) /\ Lists(v)
      BY <1>3, <3>1, <3>3
    <3> HIDE DEF shown, w, v, from, shrunk
    <3>7. shown = [up |-> shown.up, session |-> w.session, lines |-> Transcripts(v)]
      BY <1>4, <3>1, <3>3, <3>4
    <3> QED
      BY <3>5, <3>6, <3>7
  <2> HIDE DEF shrunk, v, from, shown, w
  <2> QED
    BY <2>1, <2>2
<1>8. ASSUME clean'
      PROVE  /\ tui' = [up |-> shown.up, session |-> w.session, lines |-> Transcripts(w)]
             /\ delivered' = Count(w)
  <2> HIDE DEF w, v, from, shown, shrunk
  <2>1. /\ Lists(w) /\ Lists(v) /\ Extends(w, v) /\ from = Count(v).counts
        /\ shown = [up |-> shown.up, session |-> w.session, lines |-> Transcripts(v)]
    BY <1>3, <1>7, <1>8
  <2>2. Behind(w, v, shown, from)
    BY <2>1 DEF Behind
  <2>3. /\ handle_batch(shown, w.session, Tails(all, from))
             = [up |-> shown.up, session |-> w.session, lines |-> all]
        /\ [on |-> TRUE, counts |-> Recounted(all, from)] = Count(w)
    BY <2>2, CatchesUp
  <2>4. tails = Tails(all, from) /\ counts = Recounted(all, from)
    BY DEF Tails, Recounted
  <2> HIDE DEF tails, counts, all
  <2>5. tui' = [up |-> shown.up, session |-> w.session, lines |-> all] /\ delivered' = Count(w)
    BY <1>1, <2>3, <2>4
  <2> QED
    BY <2>5 DEF all
<1>9. ASSUME clean'
      PROVE  /\ tui'.session = Wires[seen'].session /\ tui'.lines = Transcripts(Wires[seen'])
             /\ Counted'
  <2>1. ~Heads[file].empty
    BY <1>2, ReadableHasEvents
  <2>2. Extends(w, w)
    <3> HIDE DEF w
    <3> QED
      BY <1>3, ExtendsItself
  <2>3. tui'.session = w.session /\ tui'.lines = Transcripts(w)
    <3> HIDE DEF w, shown
    <3> QED
      BY <1>8, <1>9
  <2>4. delivered' = Count(w)
    BY <1>8, <1>9
  <2> QED
    BY <1>1, <2>1, <2>2, <2>3, <2>4 DEF Counted
<1>10. torn' \in BOOLEAN /\ clean' \in BOOLEAN
  BY <1>1 DEF FollowInv
<1> HIDE DEF shown, tails, counts, from, v, shrunk, w, all
<1> QED
  BY <1>1, <1>2, <1>5, <1>6, <1>9, <1>10 DEF FollowInv

LEMMA FollowInvSteps == FollowInv /\ [Next]_vars => FollowInv'
<1> SUFFICES ASSUME FollowInv, [Next]_vars PROVE FollowInv'
  OBVIOUS
<1>1. ASSUME NEW e \in Records, Appends(e) PROVE FollowInv'
  BY <1>1, AppendsKeeps
<1>2. CASE UNCHANGED vars
  BY <1>2 DEF vars, FollowInv, Counted, Untouched
<1> QED
  BY <1>1, <1>2, TearsKeeps, StartsOverKeeps, RunViewKeeps, WatchStartsKeeps, PollKeeps
  DEF Next, Producer, Watcher

(* The renderer that is sent tails by count holds the whole projection:     *)
(* as long as records are written in the order of their times and keep the  *)
(* session's root and name, and no rotation goes unnoticed, each poll of    *)
(* follow.rs leaves every transcript of the renderer with each line of the  *)
(* file as last read, once and in its place, however many records of        *)
(* whatever kinds the producer writes and however often it starts over.     *)
THEOREM TailIsWholeHolds == Spec => []TailIsWhole
<1>1. FollowInv => TailIsWhole
  BY DEF FollowInv, TailIsWhole
<1> QED
  BY <1>1, FollowInvInit, FollowInvSteps, PTL DEF Spec
=============================================================================
