---------------------------- MODULE OfflineProofs ----------------------------
(***************************************************************************)
(* What the offline side owes, for any values of its constants and any     *)
(* number of steps: the archive implements TopK, access is earned, a       *)
(* command says what it did, a backtest's cash is accounted for, and a     *)
(* sealed vintage is what its evidence says.                               *)
(*                                                                         *)
(* Sorting is reasoned about by counting: t is s in descending order iff,  *)
(* for every fitness x, the places of t that hold x or more are the first  *)
(* AtLeast(s, x).  This determines t, and says at once what an insertion   *)
(* and a replacement do to it.                                             *)
(***************************************************************************)
EXTENDS MapElites, Session, Commands, Backtest, TrainJob, FiniteSetTheorems, SequenceTheorems, WellFoundedInduction, TLAPS

\* The sub-populations a cell may hold.
Populations == {s \in Seq(Candidates) : Len(s) <= SubpopSize}

AtLeast(s, x) == Cardinality({i \in DOMAIN s : s[i].fit >= x})

IsSortOf(t, s) ==
  /\ t \in [1 .. Len(s) -> Int]
  /\ \A x \in Int : \A k \in 1 .. Len(s) : t[k] >= x <=> k <= AtLeast(s, x)

LEMMA PopulationIs ==
  ASSUME NEW s \in Seq(Candidates)
  PROVE  Len(s) \in Nat /\ DOMAIN s = 1 .. Len(s) /\ \A i \in 1 .. Len(s) : s[i] \in Candidates /\ s[i].fit \in Int
  BY ArchiveAssumption

LEMMA PlacesAre ==
  ASSUME NEW n \in Nat  PROVE IsFiniteSet(1 .. n) /\ Cardinality(1 .. n) = n
<1>1. n \in Int /\ 1 \in Int  OBVIOUS
<1>2. IsFiniteSet(1 .. n) /\ Cardinality(1 .. n) = IF 1 > n THEN 0 ELSE n - 1 + 1  BY <1>1, FS_Interval
<1> QED  BY <1>2

LEMMA AtLeastIs ==
  ASSUME NEW s \in Seq(Candidates), NEW x \in Int
  PROVE  AtLeast(s, x) \in 0 .. Len(s) /\ IsFiniteSet({i \in DOMAIN s : s[i].fit >= x})
<1> DEFINE S == {i \in DOMAIN s : s[i].fit >= x}
<1>1. Len(s) \in Nat /\ S \in SUBSET (1 .. Len(s))  BY PopulationIs
<1>2. IsFiniteSet(1 .. Len(s)) /\ Cardinality(1 .. Len(s)) = Len(s)  BY <1>1, PlacesAre
<1>3. IsFiniteSet(S) /\ Cardinality(S) <= Len(s)  BY <1>1, <1>2, FS_Subset
<1>4. Cardinality(S) \in Nat  BY <1>3, FS_CardinalityType
<1> QED  BY <1>1, <1>3, <1>4 DEF AtLeast

\* A sorted sequence is determined by what it sorts.
LEMMA SortIsUnique ==
  ASSUME NEW s \in Seq(Candidates), NEW t, NEW u, IsSortOf(t, s), IsSortOf(u, s)
  PROVE  t = u
<1>1. t \in [1 .. Len(s) -> Int] /\ u \in [1 .. Len(s) -> Int]  BY DEF IsSortOf
<1>2. ASSUME NEW k \in 1 .. Len(s)  PROVE t[k] = u[k]
  <2>1. t[k] \in Int /\ u[k] \in Int  BY <1>1
  <2>2. \A x \in Int : t[k] >= x <=> u[k] >= x  BY DEF IsSortOf
  <2>3. t[k] >= u[k] /\ u[k] >= t[k]  BY <2>1, <2>2
  <2> QED  BY <2>1, <2>3
<1> QED  BY <1>1, <1>2

-----------------------------------------------------------------------------
(* SortedFitnesses sorts.                                                  *)

Before(s, i) == {j \in DOMAIN s : s[j].fit > s[i].fit \/ (s[j].fit = s[i].fit /\ j < i)}
RankIn(s, i) == 1 + Cardinality(Before(s, i))

LEMMA BeforeIs ==
  ASSUME NEW s \in Seq(Candidates), NEW i \in 1 .. Len(s)
  PROVE  /\ IsFiniteSet(Before(s, i)) /\ Before(s, i) \in SUBSET (1 .. Len(s)) /\ i \notin Before(s, i)
         /\ IsFiniteSet(Before(s, i) \union {i}) /\ Cardinality(Before(s, i) \union {i}) = RankIn(s, i)
         /\ RankIn(s, i) \in 1 .. Len(s) /\ RankIn(s, i) \in Nat
<1>1. /\ Len(s) \in Nat /\ DOMAIN s = 1 .. Len(s) /\ \A j \in 1 .. Len(s) : s[j].fit \in Int  BY PopulationIs
<1>2. Before(s, i) \in SUBSET (1 .. Len(s)) /\ i \notin Before(s, i)  BY <1>1 DEF Before
<1>3. IsFiniteSet(1 .. Len(s)) /\ Cardinality(1 .. Len(s)) = Len(s)  BY <1>1, PlacesAre
<1>a. PICK B : B = Before(s, i)  OBVIOUS
<1>4. IsFiniteSet(B)  BY <1>a, <1>2, <1>3, FS_Subset
<1>5. Cardinality(B) \in Nat  BY <1>4, FS_CardinalityType
<1>6. IsFiniteSet(B \union {i}) /\ Cardinality(B \union {i}) = Cardinality(B) + 1
  BY <1>a, <1>2, <1>4, FS_AddElement
<1>7. B \union {i} \in SUBSET (1 .. Len(s))  BY <1>a, <1>2
<1>8. Cardinality(B \union {i}) <= Len(s)  BY <1>3, <1>7, FS_Subset
<1> QED  BY <1>a, <1>1, <1>2, <1>4, <1>5, <1>6, <1>8 DEF RankIn

\* The order is strict and total, so each rank is taken once.
LEMMA RanksFill ==
  ASSUME NEW s \in Seq(Candidates)
  PROVE  \A k \in 1 .. Len(s) : \E i \in DOMAIN s : RankIn(s, i) = k
<1> DEFINE D == 1 .. Len(s)
           f == [i \in D |-> RankIn(s, i)]
<1>1. /\ Len(s) \in Nat /\ DOMAIN s = D /\ \A j \in D : s[j].fit \in Int  BY PopulationIs
<1>2. IsFiniteSet(D)  BY <1>1, PlacesAre
<1>3. f \in [D -> D]  BY BeforeIs
<1>4. ASSUME NEW i \in D, NEW j \in D, i \in Before(s, j)  PROVE RankIn(s, i) < RankIn(s, j)
  <2>1. Before(s, i) \union {i} \in SUBSET Before(s, j)  BY <1>1, <1>4 DEF Before
  <2>2. Cardinality(Before(s, i) \union {i}) <= Cardinality(Before(s, j))  BY <2>1, BeforeIs, FS_Subset
  <2>3. RankIn(s, i) <= Cardinality(Before(s, j)) /\ RankIn(s, i) \in Nat  BY <2>2, BeforeIs
  <2>4. Cardinality(Before(s, j)) \in Nat  BY BeforeIs, FS_CardinalityType
  <2> QED  BY <2>3, <2>4 DEF RankIn
<1>5. ASSUME NEW i \in D, NEW j \in D, i # j  PROVE i \in Before(s, j) \/ j \in Before(s, i)
  BY <1>1, <1>5 DEF Before
<1>6. ASSUME NEW i \in D, NEW j \in D, f[i] = f[j]  PROVE i = j
  <2>1. RankIn(s, i) \in Nat /\ RankIn(s, j) \in Nat  BY BeforeIs
  <2>2. RankIn(s, i) = RankIn(s, j)  BY <1>6
  <2> QED  BY <1>4, <1>5, <2>1, <2>2
<1> HIDE DEF f, D
<1>7. f \in Injection(D, D)  BY <1>3, <1>6 DEF Injection, IsInjective
<1>8. f \in Surjection(D, D)  BY <1>2, <1>7, FS_Injection
<1>9. \A k \in D : \E i \in D : f[i] = k  BY <1>8 DEF Surjection
<1> QED  BY <1>1, <1>9 DEF D, f

LEMMA SortedFitnessesSorts ==
  ASSUME NEW s \in Seq(Candidates)
  PROVE  IsSortOf(SortedFitnesses(s), s)
<1> DEFINE D == 1 .. Len(s)
           Place(k) == CHOOSE i \in DOMAIN s : RankIn(s, i) = k
           t == [k \in DOMAIN s |-> s[Place(k)].fit]
<1>1. /\ Len(s) \in Nat /\ DOMAIN s = D /\ \A j \in D : s[j].fit \in Int  BY PopulationIs
<1>2. SortedFitnesses(s) = t  BY DEF SortedFitnesses, RankIn, Before
<1>3. ASSUME NEW k \in D  PROVE Place(k) \in D /\ RankIn(s, Place(k)) = k  BY <1>1, RanksFill
<1> HIDE DEF Place
<1>4. t \in [D -> Int]  BY <1>1, <1>3
<1>6. ASSUME NEW x \in Int, NEW k \in D  PROVE t[k] >= x <=> k <= AtLeast(s, x)
  <2>a. PICK i : i = Place(k)  OBVIOUS
  <2>b. PICK S : S = {j \in DOMAIN s : s[j].fit >= x}  OBVIOUS
  <2>c. PICK B : B = Before(s, i)  OBVIOUS
  <2>1. i \in D /\ RankIn(s, i) = k /\ t[k] = s[i].fit /\ s[i].fit \in Int  BY <1>1, <1>3, <2>a
  <2>2. IsFiniteSet(S) /\ AtLeast(s, x) = Cardinality(S) /\ AtLeast(s, x) \in 0 .. Len(s)
    BY <2>b, AtLeastIs DEF AtLeast
  <2>3. IsFiniteSet(B) /\ IsFiniteSet(B \union {i}) /\ Cardinality(B \union {i}) = k
    BY <2>1, <2>c, BeforeIs
  <2>4. Cardinality(B) \in Nat /\ k = 1 + Cardinality(B)
    BY <2>1, <2>3, <2>c, FS_CardinalityType DEF RankIn
  <2>5. CASE s[i].fit >= x
    <3>1. B \union {i} \in SUBSET S  BY <1>1, <2>1, <2>5, <2>b, <2>c DEF Before
    <3>2. k <= Cardinality(S)  BY <2>2, <2>3, <3>1, FS_Subset
    <3> QED  BY <2>1, <2>2, <2>5, <3>2
  <2>6. CASE ~(s[i].fit >= x)
    <3>1. S \in SUBSET B  BY <1>1, <2>1, <2>6, <2>b, <2>c DEF Before
    <3>2. Cardinality(S) <= Cardinality(B)  BY <2>3, <3>1, FS_Subset
    <3>3. ~(k <= AtLeast(s, x))  BY <2>2, <2>4, <3>2
    <3> QED  BY <2>1, <2>6, <3>3
  <2> QED  BY <2>5, <2>6
<1> QED  BY <1>2, <1>4, <1>6 DEF IsSortOf

-----------------------------------------------------------------------------
(* What TopK does to a sorted sequence.                                    *)

\* The element at place k once f is put after the m elements that are at least f.
Shifted(u, m, f, k) == IF k <= m THEN u[k] ELSE IF k = m + 1 THEN f ELSE u[k - 1]

LEMMA OfferedIs ==
  ASSUME NEW n \in Nat, n <= SubpopSize, NEW u \in [1 .. n -> Int], NEW f \in Int,
         NEW m \in 0 .. n, \A i \in 1 .. n : u[i] >= f <=> i <= m,
         NEW l, l = IF n < SubpopSize THEN n + 1 ELSE n,
         NEW r, r = [k \in 1 .. l |-> Shifted(u, m, f, k)]
  PROVE  Elites!Offered(u, f) = r
<1> DEFINE P(k) == (\A i \in 1 .. k : u[i] >= f) /\ (\A i \in k + 1 .. Len(u) : u[i] < f)
           t == SubSeq(u, 1, m) \o <<f>> \o SubSeq(u, m + 1, Len(u))
<1>1. u \in Seq(Int) /\ Len(u) = n /\ m \in Nat  OBVIOUS
<1>2. P(m)
  <2>1. \A i \in 1 .. m : i \in 1 .. n  BY <1>1
  <2>2. \A i \in m + 1 .. n : i \in 1 .. n /\ ~(i <= m) /\ u[i] \in Int  BY <1>1
  <2> QED  BY <1>1, <2>1, <2>2
<1>3. ASSUME NEW k \in 0 .. n, P(k)  PROVE k = m
  <2>1. k \in Nat  OBVIOUS
  <2>2. ~(k < m)
    <3>1. SUFFICES ASSUME k < m PROVE FALSE  OBVIOUS
    <3>2. k + 1 \in 1 .. n /\ k + 1 \in k + 1 .. Len(u) /\ k + 1 <= m  BY <1>1, <2>1, <3>1
    <3>3. u[k + 1] < f /\ u[k + 1] >= f /\ u[k + 1] \in Int  BY <1>3, <3>2
    <3> QED  BY <3>3
  <2>3. ~(k > m)
    <3>1. SUFFICES ASSUME k > m PROVE FALSE  OBVIOUS
    <3>2. k \in 1 .. n /\ k \in 1 .. k /\ ~(k <= m)  BY <1>1, <2>1, <3>1
    <3> QED  BY <1>3, <3>2
  <2> QED  BY <1>1, <2>1, <2>2, <2>3
<1>4. (CHOOSE k \in 0 .. Len(u) : P(k)) = m
  <2>1. m \in 0 .. Len(u)  BY <1>1
  <2> HIDE DEF P
  <2> QED  BY <1>1, <1>2, <1>3, <2>1
<1>5. Elites!Placed(u, f) = t  BY <1>4 DEF Elites!Placed
<1>6. t = [k \in 1 .. n + 1 |-> Shifted(u, m, f, k)]
  <2>a. PICK a : a = SubSeq(u, 1, m)  OBVIOUS
  <2>b. PICK z : z = SubSeq(u, m + 1, n)  OBVIOUS
  <2>1. a \in Seq(Int) /\ Len(a) = m /\ \A k \in 1 .. m : a[k] = u[k]  BY <1>1, <2>a
  <2>2. z \in Seq(Int) /\ Len(z) = n - m /\ \A k \in 1 .. n - m : z[k] = u[m + k]  BY <1>1, <2>b
  <2>c. PICK h : h = a \o <<f>>  OBVIOUS
  <2>3. h \in Seq(Int) /\ Len(h) = m + 1 /\ \A k \in 1 .. m + 1 : h[k] = IF k <= m THEN u[k] ELSE f
    <3>1. <<f>> \in Seq(Int) /\ Len(<<f>>) = 1 /\ <<f>>[1] = f  OBVIOUS
    <3>2. /\ h \in Seq(Int) /\ Len(h) = Len(a) + Len(<<f>>)
          /\ \A k \in 1 .. Len(a) + Len(<<f>>) : h[k] = IF k <= Len(a) THEN a[k] ELSE <<f>>[k - Len(a)]
      BY <2>1, <2>c, <3>1, ConcatProperties
    <3>3. ASSUME NEW k \in 1 .. m + 1  PROVE h[k] = IF k <= m THEN u[k] ELSE f
      <4>1. CASE k <= m  BY <1>1, <2>1, <3>1, <3>2, <4>1
      <4>2. CASE k = m + 1  BY <1>1, <2>1, <3>1, <3>2, <4>2
      <4> QED  BY <1>1, <4>1, <4>2
    <3> QED  BY <1>1, <2>1, <3>1, <3>2, <3>3
  <2>d. PICK e : e = h \o z  OBVIOUS
  <2>4. e \in Seq(Int) /\ Len(e) = n + 1  BY <1>1, <2>2, <2>3, <2>d
  <2>5. ASSUME NEW k \in 1 .. n + 1  PROVE e[k] = Shifted(u, m, f, k)
    <3>1. CASE k <= m + 1
      <4>1. k \in 1 .. m + 1 /\ e[k] = h[k]  BY <1>1, <2>2, <2>3, <2>d, <3>1
      <4> QED  BY <1>1, <2>3, <3>1, <4>1 DEF Shifted
    <3>2. CASE k > m + 1
      <4>a. k - (m + 1) \in 1 .. n - m  BY <1>1, <3>2
      <4>b. k \in 1 .. Len(h) + Len(z) /\ k > Len(h)  BY <1>1, <2>2, <2>3, <3>2
      <4>c. (h \o z)[k] = z[k - Len(h)]
        <5>1. h \in Seq(Int) /\ z \in Seq(Int)  BY <2>2, <2>3
        <5>2. Len(h) \in Nat /\ Len(z) \in Nat  BY <5>1
        <5> QED  BY <4>b, <5>1, <5>2
      <4>1. k - (m + 1) \in 1 .. n - m /\ e[k] = z[k - (m + 1)]  BY <2>3, <2>d, <4>a, <4>c
      <4>2. z[k - (m + 1)] = u[m + (k - (m + 1))] /\ m + (k - (m + 1)) = k - 1  BY <1>1, <2>2, <4>1
      <4> QED  BY <1>1, <3>2, <4>1, <4>2 DEF Shifted
    <3> QED  BY <1>1, <3>1, <3>2
  <2>6. e = [k \in 1 .. n + 1 |-> e[k]]  BY <2>4
  <2>7. e = [k \in 1 .. n + 1 |-> Shifted(u, m, f, k)]  BY <2>5, <2>6
  <2> QED  BY <1>1, <2>a, <2>b, <2>c, <2>d, <2>7
<1>7. Len(t) = n + 1 /\ DOMAIN t = 1 .. n + 1 /\ t \in Seq(Int)
  <2>1. SubSeq(u, 1, m) \in Seq(Int) /\ SubSeq(u, m + 1, Len(u)) \in Seq(Int)  BY <1>1
  <2>2. t \in Seq(Int)  BY <2>1
  <2> HIDE DEF t
  <2>3. DOMAIN t = 1 .. n + 1  BY <1>6
  <2> QED  BY <2>2, <2>3
<1> HIDE DEF t
<1>8. Elites!Offered(u, f) = IF Len(t) > SubpopSize THEN SubSeq(t, 1, SubpopSize) ELSE t
  BY <1>5 DEF Elites!Offered
<1>9. CASE n < SubpopSize
  <2>1. l = n + 1 /\ ~(n + 1 > SubpopSize)  BY <1>9, ArchiveAssumption
  <2> QED  BY <1>6, <1>7, <1>8, <2>1
<1>10. CASE ~(n < SubpopSize)
  <2>1. l = n /\ n = SubpopSize /\ n + 1 > SubpopSize  BY <1>10, ArchiveAssumption
  <2>2. Elites!Offered(u, f) = SubSeq(t, 1, n)  BY <1>7, <1>8, <2>1
  <2>3. SubSeq(t, 1, n) = [k \in 1 .. n |-> t[k]]  BY <1>7
  <2>4. \A k \in 1 .. n : t[k] = Shifted(u, m, f, k)  BY <1>6
  <2> QED  BY <2>1, <2>2, <2>3, <2>4
<1> QED  BY <1>9, <1>10

-----------------------------------------------------------------------------
(* What SubPopulation::consider does to the counts.                        *)

LEMMA LeastPlace ==
  ASSUME NEW S \in SUBSET Nat, S # {}
  PROVE  \E x \in S : \A y \in S : x <= y
<1>1. \E x \in S : \A y \in S : ~(<<y, x>> \in OpToRel(<, Nat))
  BY NatLessThanWellFounded, WFMin, Zenon
<1>2. PICK x \in S : \A y \in S : ~(y < x)  BY <1>1 DEF OpToRel
<1> QED  BY <1>2

\* A sub-population that is not empty has a worst, which no elite is under.
LEMMA WorstIs ==
  ASSUME NEW s \in Seq(Candidates), s # <<>>, NEW w, w = WorstIndex(s)
  PROVE  w \in 1 .. Len(s) /\ \A j \in 1 .. Len(s) : s[w].fit <= s[j].fit
<1> DEFINE n == Len(s)
           P(i) == \A j \in DOMAIN s : s[i].fit < s[j].fit \/ (s[i].fit = s[j].fit /\ i <= j)
<1>1. n \in Nat /\ n # 0 /\ DOMAIN s = 1 .. n /\ \A j \in 1 .. n : s[j].fit \in Int  BY PopulationIs
<1>2. PICK z \in DOMAIN s : RankIn(s, z) = n
  <2>1. n \in 1 .. n  BY <1>1
  <2> QED  BY <2>1, RanksFill
<1>3. \A j \in 1 .. n : s[z].fit <= s[j].fit
  <2>1. Before(s, z) \union {z} = 1 .. n
    <3>1. Before(s, z) \union {z} \in SUBSET (1 .. n) /\ Cardinality(Before(s, z) \union {z}) = n
      BY <1>1, <1>2, BeforeIs
    <3>2. IsFiniteSet(1 .. n) /\ Cardinality(1 .. n) = n  BY <1>1, PlacesAre
    <3> QED  BY <3>1, <3>2, FS_Subset
  <2> QED  BY <1>1, <1>2, <2>1 DEF Before
<1> DEFINE T == {i \in 1 .. n : s[i].fit = s[z].fit}
<1>4. T \in SUBSET Nat /\ T # {}  BY <1>1, <1>2
<1>5. PICK i \in T : \A j \in T : i <= j  BY <1>4, LeastPlace
<1>6. i \in DOMAIN s /\ P(i)
  <2>1. i \in 1 .. n /\ s[i].fit = s[z].fit /\ s[z].fit \in Int  BY <1>1, <1>2, <1>5
  <2>2. ASSUME NEW j \in 1 .. n  PROVE s[i].fit < s[j].fit \/ (s[i].fit = s[j].fit /\ i <= j)
    BY <1>1, <1>3, <1>5, <2>1
  <2> QED  BY <1>1, <2>1, <2>2
<1>7. w = CHOOSE k \in DOMAIN s : P(k)  BY DEF WorstIndex
<1>8. w \in DOMAIN s /\ P(w)  BY <1>6, <1>7
<1> QED  BY <1>1, <1>8

LEMMA AppendCounts ==
  ASSUME NEW s \in Seq(Candidates), NEW c \in Candidates, NEW x \in Int
  PROVE  AtLeast(Append(s, c), x) = IF c.fit >= x THEN AtLeast(s, x) + 1 ELSE AtLeast(s, x)
<1>a. PICK S : S = {i \in DOMAIN s : s[i].fit >= x}  OBVIOUS
<1>b. PICK e : e = Append(s, c)  OBVIOUS
<1>c. PICK n : n = Len(s)  OBVIOUS
<1>1. n \in Nat /\ DOMAIN s = 1 .. n  BY <1>c, PopulationIs
<1>2. DOMAIN e = 1 .. n + 1 /\ e[n + 1] = c /\ \A i \in 1 .. n : e[i] = s[i]  BY <1>b, <1>c
<1>3. AtLeast(s, x) = Cardinality(S) /\ IsFiniteSet(S) /\ n + 1 \notin S
  <2>1. AtLeast(s, x) = Cardinality(S) /\ IsFiniteSet(S)  BY <1>a, AtLeastIs DEF AtLeast
  <2>2. n + 1 \notin 1 .. n  BY <1>1
  <2> QED  BY <1>a, <1>1, <2>1, <2>2
<1>4. CASE c.fit >= x
  <2>1. {i \in DOMAIN e : e[i].fit >= x} = S \union {n + 1}  BY <1>a, <1>1, <1>2, <1>4
  <2>2. Cardinality(S \union {n + 1}) = Cardinality(S) + 1  BY <1>3, FS_AddElement
  <2> QED  BY <1>b, <1>3, <1>4, <2>1, <2>2 DEF AtLeast
<1>5. CASE ~(c.fit >= x)
  <2>1. {i \in DOMAIN e : e[i].fit >= x} = S  BY <1>a, <1>1, <1>2, <1>5
  <2> QED  BY <1>b, <1>3, <1>5, <2>1 DEF AtLeast
<1> QED  BY <1>4, <1>5

\* Replacing an elite by a fitter one adds it to the counts it newly reaches.
LEMMA ReplaceCounts ==
  ASSUME NEW s \in Seq(Candidates), NEW x \in Int, NEW w \in DOMAIN s,
         NEW e, DOMAIN e = DOMAIN s, \A i \in DOMAIN s : i # w => e[i] = s[i],
         e[w].fit \in Int, e[w].fit > s[w].fit
  PROVE  AtLeast(e, x) = AtLeast(s, x) + (IF e[w].fit >= x /\ s[w].fit < x THEN 1 ELSE 0)
<1>a. PICK S : S = {i \in DOMAIN s : s[i].fit >= x}  OBVIOUS
<1>1. s[w].fit \in Int  BY PopulationIs
<1>2. AtLeast(s, x) = Cardinality(S) /\ IsFiniteSet(S) /\ AtLeast(s, x) \in Nat
  <2>1. AtLeast(s, x) = Cardinality(S) /\ IsFiniteSet(S)  BY <1>a, AtLeastIs DEF AtLeast
  <2> QED  BY <2>1, FS_CardinalityType
<1>3. CASE e[w].fit >= x /\ s[w].fit < x
  <2>1. {i \in DOMAIN e : e[i].fit >= x} = S \union {w} /\ w \notin S  BY <1>a, <1>1, <1>3
  <2>2. Cardinality(S \union {w}) = Cardinality(S) + 1  BY <1>2, <2>1, FS_AddElement
  <2> QED  BY <1>2, <1>3, <2>1, <2>2 DEF AtLeast
<1>4. CASE ~(e[w].fit >= x /\ s[w].fit < x)
  <2>1. {i \in DOMAIN e : e[i].fit >= x} = S  BY <1>a, <1>1, <1>4
  <2>2. AtLeast(e, x) = AtLeast(s, x)  BY <1>2, <2>1 DEF AtLeast
  <2> QED  BY <1>2, <1>4, <2>2
<1> QED  BY <1>3, <1>4

LEMMA ConsideredIs ==
  ASSUME NEW s \in Populations, NEW c \in Candidates  PROVE Considered(s, c) \in Populations
<1>1. s \in Seq(Candidates) /\ Len(s) \in Nat /\ Len(s) <= SubpopSize  BY DEF Populations
<1>2. CASE Len(s) < SubpopSize
  <2>1. Append(s, c) \in Seq(Candidates) /\ Len(Append(s, c)) = Len(s) + 1  BY <1>1
  <2> QED  BY <1>1, <1>2, <2>1, ArchiveAssumption DEF Considered, Populations
<1>3. CASE ~(Len(s) < SubpopSize)
  <2>a. PICK w : w = WorstIndex(s)  OBVIOUS
  <2>1. [s EXCEPT ![w] = c] \in Seq(Candidates) /\ Len([s EXCEPT ![w] = c]) = Len(s)
    <3>1. Len(s) # 0  BY <1>1, <1>3, ArchiveAssumption
    <3>2. s # <<>>  BY <3>1
    <3>3. w \in 1 .. Len(s)  BY <1>1, <2>a, <3>2, WorstIs
    <3> QED  BY <1>1, <3>3
  <2> QED  BY <1>1, <1>3, <2>a, <2>1 DEF Considered, Populations
<1> QED  BY <1>2, <1>3

\* Considering a candidate and sorting is sorting and offering its fitness.
LEMMA OfferSorts ==
  ASSUME NEW s \in Populations, NEW c \in Candidates
  PROVE  SortedFitnesses(Considered(s, c)) = Elites!Offered(SortedFitnesses(s), c.fit)
<1>a. PICK n : n = Len(s)  OBVIOUS
<1>b. PICK f : f = c.fit  OBVIOUS
<1>c. PICK u : u = SortedFitnesses(s)  OBVIOUS
<1>d. PICK m : m = AtLeast(s, f)  OBVIOUS
<1>e. PICK l : l = IF n < SubpopSize THEN n + 1 ELSE n  OBVIOUS
<1>f. PICK t : t = [k \in 1 .. l |-> Shifted(u, m, f, k)]  OBVIOUS
<1>g. PICK e : e = Considered(s, c)  OBVIOUS
<1>1. /\ s \in Seq(Candidates) /\ n \in Nat /\ n <= SubpopSize /\ f \in Int /\ DOMAIN s = 1 .. n
      /\ SubpopSize \in Nat \ {0} /\ \A i \in 1 .. n : s[i].fit \in Int
  BY <1>a, <1>b, PopulationIs, ArchiveAssumption DEF Populations
<1>2. u \in [1 .. n -> Int] /\ \A x \in Int : \A k \in 1 .. n : u[k] >= x <=> k <= AtLeast(s, x)
  BY <1>a, <1>c, <1>1, SortedFitnessesSorts DEF IsSortOf
<1>3. \A x \in Int : AtLeast(s, x) \in 0 .. n  BY <1>a, <1>1, AtLeastIs
<1>4. m \in 0 .. n /\ \A k \in 1 .. n : u[k] >= f <=> k <= m  BY <1>d, <1>1, <1>2, <1>3
<1>5. Elites!Offered(u, f) = t  BY <1>e, <1>f, <1>1, <1>2, <1>4, OfferedIs
<1>6. e \in Seq(Candidates)  BY <1>g, ConsideredIs DEF Populations
<1>7. l \in Nat /\ t \in [1 .. l -> Int]
  <2>1. \A k \in 1 .. l : Shifted(u, m, f, k) \in Int
    BY <1>e, <1>1, <1>2, <1>4 DEF Shifted
  <2> QED  BY <1>e, <1>f, <1>1, <2>1
\* Offered to a sorted sequence, f raises the counts up to f, as far as there is room.
<1>8. ASSUME NEW x \in Int, NEW k \in 1 .. l
      PROVE  t[k] >= x <=> k <= IF f >= x THEN AtLeast(s, x) + 1 ELSE AtLeast(s, x)
  <2>a. PICK y : y = AtLeast(s, x)  OBVIOUS
  <2>1. y \in 0 .. n /\ \A j \in 1 .. n : u[j] >= x <=> j <= y  BY <1>2, <1>3, <2>a
  <2>2. t[k] = Shifted(u, m, f, k) /\ k \in 1 .. n + 1  BY <1>e, <1>f, <1>1
  <2>3. f >= x => m <= y
    <3>1. SUFFICES ASSUME f >= x, m > y PROVE FALSE  BY <1>4, <2>1
    <3>2. m \in 1 .. n  BY <1>4, <2>1, <3>1
    <3>3. u[m] >= f /\ u[m] \in Int  BY <1>2, <1>4, <3>2
    <3>4. u[m] >= x  BY <1>1, <3>1, <3>3
    <3> QED  BY <1>4, <2>1, <3>1, <3>2, <3>4
  <2>4. ~(f >= x) => y <= m
    <3>1. SUFFICES ASSUME ~(f >= x), y > m PROVE FALSE  BY <1>4, <2>1
    <3>2. y \in 1 .. n  BY <1>4, <2>1, <3>1
    <3>3. u[y] >= x /\ u[y] \in Int  BY <1>2, <2>1, <3>2
    <3>4. u[y] >= f  BY <1>1, <3>1, <3>3
    <3> QED  BY <1>4, <2>1, <3>1, <3>2, <3>4
  <2>5. CASE k <= m
    <3>1. k \in 1 .. n /\ t[k] = u[k]  BY <1>1, <1>4, <2>2, <2>5 DEF Shifted
    <3> QED  BY <1>4, <2>a, <2>1, <2>3, <2>4, <2>5, <3>1
  <2>6. CASE k = m + 1
    <3>1. t[k] = f  BY <1>4, <2>2, <2>6 DEF Shifted
    <3> QED  BY <1>1, <1>4, <2>a, <2>1, <2>3, <2>4, <2>6, <3>1
  <2>7. CASE k > m + 1
    <3>1. k - 1 \in 1 .. n /\ t[k] = u[k - 1]  BY <1>1, <1>4, <2>2, <2>7 DEF Shifted
    <3> QED  BY <1>4, <2>a, <2>1, <2>3, <2>4, <2>7, <3>1
  <2> QED  BY <1>4, <2>2, <2>5, <2>6, <2>7
<1>9. IsSortOf(t, e)
  <2>1. CASE n < SubpopSize
    <3>1. e = Append(s, c) /\ l = n + 1 /\ Len(e) = l  BY <1>a, <1>e, <1>g, <1>1, <2>1 DEF Considered
    <3>2. \A x \in Int : AtLeast(e, x) = IF f >= x THEN AtLeast(s, x) + 1 ELSE AtLeast(s, x)
      BY <1>b, <1>1, <3>1, AppendCounts
    <3> QED  BY <1>7, <1>8, <3>1, <3>2 DEF IsSortOf
  <2>2. CASE ~(n < SubpopSize)
    <3>a. PICK w : w = WorstIndex(s)  OBVIOUS
    <3>1. l = n /\ n # 0 /\ s # <<>>  BY <1>a, <1>e, <1>1, <2>2
    <3>2. w \in 1 .. n /\ \A j \in 1 .. n : s[w].fit <= s[j].fit  BY <1>a, <1>1, <3>a, <3>1, WorstIs
    <3>3. ASSUME NEW x \in Int, x <= s[w].fit  PROVE AtLeast(s, x) = n
      <4>1. \A j \in 1 .. n : s[j].fit >= x  BY <1>1, <3>2, <3>3
      <4>2. {i \in DOMAIN s : s[i].fit >= x} = 1 .. n  BY <1>1, <4>1
      <4> QED  BY <1>1, <4>2, PlacesAre DEF AtLeast
    <3>4. e = IF f > s[w].fit THEN [s EXCEPT ![w] = c] ELSE s
      BY <1>a, <1>b, <1>g, <2>2, <3>a DEF Considered
    <3>5. CASE f > s[w].fit
      <4>1. Len(e) = l  BY <1>a, <1>1, <3>1, <3>2, <3>4, <3>5
      <4>2. ASSUME NEW x \in Int, NEW k \in 1 .. l  PROVE t[k] >= x <=> k <= AtLeast(e, x)
        <5>a. PICK y : y = AtLeast(s, x)  OBVIOUS
        <5>1. AtLeast(e, x) = IF f >= x /\ s[w].fit < x THEN y + 1 ELSE y
          <6>1. e = [s EXCEPT ![w] = c] /\ w \in DOMAIN s  BY <1>1, <3>2, <3>4, <3>5
          <6>2. DOMAIN e = DOMAIN s /\ e[w] = c /\ \A i \in DOMAIN s : i # w => e[i] = s[i]  BY <6>1
          <6>3. e[w].fit = f /\ f > s[w].fit /\ f \in Int  BY <1>b, <1>1, <3>5, <6>2
          <6>a. e[w].fit \in Int /\ e[w].fit > s[w].fit  BY <6>3
          <6>b. AtLeast(e, x) = AtLeast(s, x) + (IF e[w].fit >= x /\ s[w].fit < x THEN 1 ELSE 0)
            <7>1. s \in Seq(Candidates)  BY <1>1
            <7>2. w \in DOMAIN s  BY <6>1
            <7>3. DOMAIN e = DOMAIN s  BY <6>2
            <7>4. \A i \in DOMAIN s : i # w => e[i] = s[i]  BY <6>2
            <7>5. e[w].fit \in Int  BY <6>a
            <7>6. e[w].fit > s[w].fit  BY <6>a
            <7> QED  BY <7>1, <7>2, <7>3, <7>4, <7>5, <7>6, ReplaceCounts
          <6>4. AtLeast(e, x) = y + (IF e[w].fit >= x /\ s[w].fit < x THEN 1 ELSE 0)  BY <5>a, <6>b
          <6>5. y \in Nat  BY <1>1, <1>3, <5>a
          <6> QED  BY <6>3, <6>4, <6>5
        <5>2. t[k] >= x <=> k <= IF f >= x THEN y + 1 ELSE y  BY <1>8, <5>a
        <5>3. y \in 0 .. n /\ (~(s[w].fit < x) => y = n)
          <6>1. s[w].fit \in Int  BY <1>1, <3>2
          <6> QED  BY <1>3, <3>3, <5>a, <6>1
        <5> QED  BY <1>1, <3>1, <5>1, <5>2, <5>3
      <4> QED  BY <1>7, <4>1, <4>2 DEF IsSortOf
    <3>6. CASE ~(f > s[w].fit)
      <4>1. e = s /\ Len(e) = l  BY <1>a, <3>1, <3>4, <3>6
      <4>2. ASSUME NEW x \in Int, NEW k \in 1 .. l  PROVE t[k] >= x <=> k <= AtLeast(e, x)
        <5>a. PICK y : y = AtLeast(s, x)  OBVIOUS
        <5>1. t[k] >= x <=> k <= IF f >= x THEN y + 1 ELSE y  BY <1>8, <5>a
        <5>2. y \in 0 .. n /\ (f >= x => y = n)
          <6>1. s[w].fit \in Int  BY <1>1, <3>2
          <6>2. f >= x => x <= s[w].fit  BY <1>1, <3>6, <6>1
          <6> QED  BY <1>3, <3>3, <5>a, <6>2
        <5> QED  BY <1>1, <3>1, <4>1, <5>a, <5>1, <5>2
      <4> QED  BY <1>7, <4>1, <4>2 DEF IsSortOf
    <3> QED  BY <3>5, <3>6
  <2> QED  BY <2>1, <2>2
<1>10. IsSortOf(SortedFitnesses(e), e)  BY <1>6, SortedFitnessesSorts
<1>11. SortedFitnesses(e) = t  BY <1>6, <1>9, <1>10, SortIsUnique
<1> QED  BY <1>b, <1>c, <1>g, <1>5, <1>11

-----------------------------------------------------------------------------
(* The archive implements TopK.                                            *)

\* Every cell holds a sub-population.
Kept == archive \in [Directions -> [Niches -> Populations]]

\* The fitnesses of a cell, as TopK sees them.
FitnessesOf(a) == [c \in Directions \X Niches |-> SortedFitnesses(a[c[1]][c[2]])]

LEMMA InsertedKeeps ==
  ASSUME NEW a \in [Directions -> [Niches -> Populations]], NEW c \in Candidates
  PROVE  Inserted(a, c) \in [Directions -> [Niches -> Populations]]
<1>1. ASSUME NEW side \in Directions, NEW cell \in Niches
      PROVE  a[side][cell] \in Populations /\ Considered(a[side][cell], c) \in Populations
  BY ConsideredIs
<1> QED  BY <1>1 DEF Inserted

\* A step of either driver inserts one candidate in both directions.
LEMMA DriverInserts ==
  ASSUME MapElitesNext
  PROVE  archive' = archive \/ \E c \in Candidates : archive' = Inserted(archive, c)
<1>1. ASSUME NEW op \in Operators, DriveLong(op) \/ DriveShort(op)
      PROVE  \E c \in Candidates : archive' = Inserted(archive, c)
  <2>1. \A side : Offspring(op, side) \subseteq Candidates  BY DEF Offspring
  <2> QED  BY <1>1, <2>1 DEF DriveLong, DriveShort
<1>2. CASE LearnNiche  BY <1>2 DEF LearnNiche
<1> QED  BY <1>1, <1>2 DEF MapElitesNext

LEMMA KeptHolds == MapElitesSpec => []Kept
<1>1. MapElitesInit => Kept
  <2>1. <<>> \in Populations  BY ArchiveAssumption DEF Populations
  <2> QED  BY <2>1 DEF MapElitesInit, Kept
<1>2. Kept /\ [MapElitesNext]_searchVars => Kept'
  <2> SUFFICES ASSUME Kept, [MapElitesNext]_searchVars PROVE Kept'  OBVIOUS
  <2>1. archive' = archive \/ \E c \in Candidates : archive' = Inserted(archive, c)
    BY DriverInserts DEF searchVars
  <2> QED  BY <2>1, InsertedKeeps DEF Kept
<1> QED  BY <1>1, <1>2, PTL DEF MapElitesSpec

\* Inserting a candidate offers its fitness to the cells it changes, and it
\* changes one cell of a direction at most.
LEMMA InsertOffers ==
  ASSUME NEW a \in [Directions -> [Niches -> Populations]], NEW c \in Candidates,
         NEW p \in Directions \X Niches,
         FitnessesOf(Inserted(a, c))[p] # FitnessesOf(a)[p]
  PROVE  p[2] = CellOf(c, p[1]) /\ FitnessesOf(Inserted(a, c))[p] = Elites!Offered(FitnessesOf(a)[p], c.fit)
<1>a. PICK side \in Directions, cell \in Niches : p = <<side, cell>>  OBVIOUS
<1>b. PICK s : s = a[side][cell]  OBVIOUS
<1>c. PICK e : e = Inserted(a, c)[side][cell]  OBVIOUS
<1>1. s \in Populations  BY <1>b
<1>2. e = IF cell = CellOf(c, side) THEN Considered(s, c) ELSE s  BY <1>b, <1>c DEF Inserted
<1>3. FitnessesOf(a)[p] = SortedFitnesses(s) /\ FitnessesOf(Inserted(a, c))[p] = SortedFitnesses(e)
  BY <1>a, <1>b, <1>c DEF FitnessesOf
<1>4. cell = CellOf(c, side) /\ e = Considered(s, c)  BY <1>2, <1>3
<1>5. SortedFitnesses(e) = Elites!Offered(SortedFitnesses(s), c.fit)  BY <1>1, <1>4, OfferSorts
<1> QED  BY <1>a, <1>3, <1>4, <1>5

\* In every cell of either direction the archive keeps the best fitnesses the cell
\* was ever offered, for any candidates and any sequence of steps of both drivers
\* (insert, consider and worst_index, in mapelites.rs).
THEOREM ArchiveKeepsTheBest == MapElitesSpec => KeepsTheBest
<1>1. MapElitesInit => Elites!TopKInit
  <2> SUFFICES ASSUME MapElitesInit PROVE Elites!TopKInit  OBVIOUS
  <2>1. SortedFitnesses(<<>>) = <<>>  BY DEF SortedFitnesses
  <2>2. \A p \in Directions \X Niches : archive[p[1]][p[2]] = <<>>  BY DEF MapElitesInit
  <2> QED  BY <2>1, <2>2 DEF Elites!TopKInit
<1>2. ASSUME Kept, [MapElitesNext]_searchVars
      PROVE  Elites!TopKNext \/ FitnessesOf(archive') = FitnessesOf(archive)
  <2>1. CASE archive' = archive  BY <2>1
  <2>2. ASSUME NEW c \in Candidates, archive' = Inserted(archive, c)
        PROVE  Elites!TopKNext \/ FitnessesOf(archive') = FitnessesOf(archive)
    <3> DEFINE to == {p \in Directions \X Niches : FitnessesOf(archive')[p] # FitnessesOf(archive)[p]}
    <3>1. CASE to = {}
      <4>1. \A p \in Directions \X Niches : FitnessesOf(archive')[p] = FitnessesOf(archive)[p]  BY <3>1
      <4> QED  BY <4>1 DEF FitnessesOf
    <3>2. CASE to # {}
      <4>1. ASSUME NEW p \in to
            PROVE  /\ p[2] = CellOf(c, p[1])
                   /\ FitnessesOf(archive')[p] = Elites!Offered(FitnessesOf(archive)[p], c.fit)
        BY <1>2, <2>2, InsertOffers DEF Kept
      <4>2. ASSUME NEW p \in to, NEW q \in to, p[1] = q[1]  PROVE p = q
        BY <4>1, <4>2
      <4>3. DOMAIN FitnessesOf(archive') = Directions \X Niches  BY DEF FitnessesOf
      <4>4. c.fit \in {d.fit : d \in Candidates}  OBVIOUS
      <4>5. \A p \in to : FitnessesOf(archive')[p] = Elites!Offered(FitnessesOf(archive)[p], c.fit)
        BY <4>1
      <4> QED  BY <3>2, <4>2, <4>3, <4>4, <4>5 DEF Elites!TopKNext, Elites!Offer, FitnessesOf
    <3> QED  BY <3>1, <3>2
  <2> QED  BY <1>2, <2>1, <2>2, DriverInserts DEF searchVars
<1>3. Kept /\ [MapElitesNext]_searchVars => [Elites!TopKNext]_(FitnessesOf(archive))
  BY <1>2
<1> QED  BY <1>1, <1>3, KeptHolds, PTL DEF MapElitesSpec, KeepsTheBest, Elites!TopKSpec, FitnessesOf

-----------------------------------------------------------------------------
(* Sessions.  Only a request sets the grant, and what it grants is in the  *)
(* cookie it came with, so the invariant is about cookies: what was true   *)
(* when one was minted, read against the server of now.                    *)

LEMMA SecretIs ==
  ASSUME NEW env \in Deployments, NEW n \in Nat
  PROVE  SecretOf(env, n) \in Secrets /\ SecretOf(env, n)[2] = env.secret
  BY DEF SecretOf, Secrets

LEMMA CookieIsNone ==
  ASSUME NEW c \in Cookies  PROVE c # NoCookie
  BY DEF Cookies, NoCookie

LEMMA SessionStarts == SessionInit => SessionKept /\ AccessEarned
<1> SUFFICES ASSUME SessionInit  PROVE SessionKept /\ AccessEarned  OBVIOUS
<1>1. PICK env \in Deployments : server = [up |-> SecretAllowed(env), env |-> env, secret |-> SecretOf(env, 0)]
  BY DEF SessionInit
<1>2. SecretOf(env, 0) \in Secrets /\ SecretOf(env, 0)[2] = env.secret  BY SecretIs
<1>3. server \in [up : BOOLEAN, env : Deployments, secret : Secrets]  BY <1>1, <1>2 DEF SecretAllowed
<1>4. jar \in [Browsers -> [state : Nat, cookie : Cookies \union {NoCookie}]] /\ \A b \in Browsers : jar[b].cookie = NoCookie
  BY DEF SessionInit
<1> QED  BY <1>1, <1>2, <1>3, <1>4 DEF SessionInit, SessionKept, SessionTypes, AccessEarned

\* Time may pass, and what was earned stays so.
LEMMA StillEarned ==
  ASSUME NEW c \in Cookies, Earned(c), now \in Nat, now' \in Nat, now <= now'
  PROVE  Earned(c)'
<1> c.at \in Nat  BY DEF Cookies
<1> QED  BY DEF Earned

\* Every action but a sign-in leaves the cookies alone or clears one.
LEMMA KeptWith ==
  ASSUME SessionKept, now' \in Nat, now <= now', UNCHANGED server, UNCHANGED <<boots, logins>>,
         jar' \in [Browsers -> [state : Nat, cookie : Cookies \union {NoCookie}]],
         \A b \in Browsers : jar'[b].cookie \in {jar[b].cookie, NoCookie},
         flights' \subseteq [browser : Browsers, state : Nat]
  PROVE  SessionKept'
<1>1. SessionTypes'  BY DEF SessionKept, SessionTypes
<1>2. ASSUME NEW b \in Browsers  PROVE (jar[b].cookie # NoCookie => Earned(jar[b].cookie))'
  <2>1. ASSUME NEW c \in Cookies, Earned(c)  PROVE Earned(c)'
    BY <2>1, StillEarned DEF SessionKept, SessionTypes
  <2>2. CASE jar'[b].cookie # NoCookie
    <3>1. jar'[b].cookie = jar[b].cookie  BY <2>2
    <3>2. jar[b].cookie \in Cookies /\ Earned(jar[b].cookie)  BY <2>2, <3>1 DEF SessionKept, SessionTypes
    <3> QED  BY <2>1, <3>1, <3>2 DEF Earned
  <2> QED  BY <2>2
<1>3. (server.secret[2] = server.env.secret)' /\ (server.up => SecretAllowed(server.env))'
  BY DEF SessionKept, SecretAllowed
<1> QED  BY <1>1, <1>2, <1>3 DEF SessionKept

LEMMA BootKeeps ==
  ASSUME SessionKept, NEW env \in Deployments, BootServer(env)  PROVE SessionKept' /\ grant' = NoGrant
<1>1. boots \in Nat  BY DEF SessionKept, SessionTypes
<1>2. SecretOf(env, boots) \in Secrets /\ SecretOf(env, boots)[2] = env.secret  BY <1>1, SecretIs
<1>3. server' = [up |-> SecretAllowed(env), env |-> env, secret |-> SecretOf(env, boots)]  BY DEF BootServer
<1>4. server' \in [up : BOOLEAN, env : Deployments, secret : Secrets]  BY <1>2, <1>3 DEF SecretAllowed
<1>5. SessionTypes'  BY <1>1, <1>4 DEF BootServer, SessionKept, SessionTypes
<1>6. (server.secret[2] = server.env.secret)' /\ (server.up => SecretAllowed(server.env))'
  BY <1>2, <1>3 DEF SecretAllowed
<1>7. \A b \in Browsers : (jar[b].cookie # NoCookie => Earned(jar[b].cookie))'
  BY DEF BootServer, SessionKept, Earned
<1> QED  BY <1>5, <1>6, <1>7 DEF SessionKept, BootServer

LEMMA LoginKeeps ==
  ASSUME SessionKept, NEW b \in Browsers, Login(b)  PROVE SessionKept' /\ grant' = NoGrant
<1>1. jar' = [jar EXCEPT ![b].state = logins + 1]  BY DEF Login
<1>2. jar \in [Browsers -> [state : Nat, cookie : Cookies \union {NoCookie}]] /\ logins + 1 \in Nat
  BY DEF SessionKept, SessionTypes
<1>3. jar' \in [Browsers -> [state : Nat, cookie : Cookies \union {NoCookie}]]  BY <1>1, <1>2
<1>4. \A x \in Browsers : jar'[x].cookie = jar[x].cookie  BY <1>1, <1>2
<1>5. SessionTypes'  BY <1>2, <1>3 DEF Login, SessionKept, SessionTypes
<1>6. \A x \in Browsers : (jar[x].cookie # NoCookie => Earned(jar[x].cookie))'
  BY <1>4 DEF Login, SessionKept, Earned
<1> QED  BY <1>5, <1>6 DEF SessionKept, Login, SecretAllowed

LEMMA LogoutKeeps ==
  ASSUME SessionKept, NEW b \in Browsers, Logout(b)  PROVE SessionKept' /\ grant' = NoGrant
<1>1. jar' = [jar EXCEPT ![b].cookie = NoCookie]  BY DEF Logout
<1>2. jar \in [Browsers -> [state : Nat, cookie : Cookies \union {NoCookie}]] /\ now \in Nat  BY DEF SessionKept, SessionTypes
<1>3. jar' \in [Browsers -> [state : Nat, cookie : Cookies \union {NoCookie}]]  BY <1>1, <1>2
<1>4. \A x \in Browsers : jar'[x].cookie \in {jar[x].cookie, NoCookie}  BY <1>1, <1>2
<1>5. flights' \subseteq [browser : Browsers, state : Nat]  BY DEF Logout, SessionKept, SessionTypes
<1> QED  BY <1>2, <1>3, <1>4, <1>5, KeptWith DEF Logout

\* The one action that mints: for an address the running server allows, under
\* its secret, now.
LEMMA CallbackKeeps ==
  ASSUME SessionKept, NEW f \in flights, NEW a \in Claims, Callback(f, a)  PROVE SessionKept' /\ grant' = NoGrant
<1> DEFINE Jars == [Browsers -> [state : Nat, cookie : Cookies \union {NoCookie}]]
           e == Vouched(a).email
<1>1. jar \in Jars /\ now \in Nat /\ f.browser \in Browsers /\ flights \subseteq [browser : Browsers, state : Nat]
  BY DEF SessionKept, SessionTypes
<1>2. flights' \subseteq [browser : Browsers, state : Nat] /\ UNCHANGED <<server, now, boots, logins>> /\ grant' = NoGrant
  BY <1>1 DEF Callback
<1>3. CASE jar' = jar
  BY <1>1, <1>2, <1>3, KeptWith
<1>4. CASE IsAllowed(e) /\ jar' = [jar EXCEPT ![f.browser] = [state |-> 0, cookie |-> Minted(e)]]
  <2>1. e \in server.env.allowed /\ server.env \in Deployments /\ server.secret \in Secrets
    BY <1>4 DEF IsAllowed, SessionKept, SessionTypes
  <2>2. Minted(e) \in Cookies /\ Earned(Minted(e))
    <3> HIDE DEF e
    <3>1. now + Ttl \in Nat /\ e \in Addresses  BY <1>1, <2>1, SessionAssumption DEF Addresses
    <3>2. Minted(e).at = now /\ Minted(e).exp = now + Ttl /\ Minted(e).email = e /\ Minted(e).secret = server.secret  BY DEF Minted
    <3>3. server.secret[2] = server.env.secret  BY DEF SessionKept
    <3>4. Minted(e) \in Cookies  BY <1>1, <2>1, <3>1 DEF Minted, Cookies
    <3> QED  BY <1>1, <2>1, <3>2, <3>3, <3>4 DEF Earned
  <2> HIDE DEF e
  <2>3. jar' \in Jars  BY <1>1, <1>4, <2>2
  <2>4. \A b \in Browsers : jar'[b].cookie \in {jar[b].cookie, Minted(e)}  BY <1>1, <1>4
  <2>5. \A b \in Browsers : jar'[b].cookie # NoCookie => Earned(jar'[b].cookie)  BY <2>2, <2>4 DEF SessionKept
  <2>6. \A b \in Browsers : (jar[b].cookie # NoCookie => Earned(jar[b].cookie))'  BY <1>2, <2>5 DEF Earned
  <2>7. SessionTypes'  BY <1>2, <2>3 DEF SessionKept, SessionTypes
  <2> QED  BY <1>2, <2>6, <2>7 DEF SessionKept, SecretAllowed
<1> QED  BY <1>3, <1>4 DEF Callback

\* What a request finds in its cookie is what a grant has to be backed by.
LEMMA UseIsEarned ==
  ASSUME SessionKept, NEW b \in Browsers, NEW route \in {"read", "operator", "approver"}, Use(b, route)
  PROVE  SessionKept' /\ AccessEarned'
<1> DEFINE c == jar[b].cookie
<1>1. c \in Cookies /\ Earned(c) /\ now \in Nat
  <2>1. c # NoCookie  BY DEF Use, Verified
  <2> QED  BY <2>1 DEF SessionKept, SessionTypes
<1>2. grant' = [what |-> route, cookie |-> c, at |-> now, can |-> Capabilities(c.email)] /\ UNCHANGED <<server, jar, flights, now, boots, logins>>
  BY DEF Use
<1>3. SessionKept'
  BY <1>1, <1>2, KeptWith DEF SessionKept, SessionTypes
<1>4. c.secret = server.secret /\ now < c.exp /\ server.up  BY DEF Use, Verified
<1>5. now - c.at \in 0 .. Ttl - 1
  <2>1. c.at \in Nat /\ c.at <= now /\ c.exp = c.at + Ttl  BY <1>1 DEF Earned, Cookies
  <2> HIDE DEF c
  <2> QED  BY <1>1, <1>4, <2>1, SessionAssumption
<1>6. \E env \in Deployments : c.email \in env.allowed /\ env.secret = server.env.secret
  BY <1>1, <1>4 DEF Earned, SessionKept
<1>7. route # "read" => c.email \in server.env.roles[route] /\ route \in Capabilities(c.email)
  BY DEF Use, RoleGate, Holds, Capabilities
<1>8. server.env.loopback \/ server.env.secret # Empty  BY <1>4 DEF SessionKept, SecretAllowed
<1> HIDE DEF c
<1>9. grant'.cookie = c /\ grant'.at = now /\ grant'.what = route /\ grant'.can = Capabilities(c.email)  BY <1>2
<1> QED  BY <1>2, <1>3, <1>4, <1>5, <1>6, <1>7, <1>8, <1>9 DEF AccessEarned

LEMMA TickKeeps ==
  ASSUME SessionKept, Tick  PROVE SessionKept' /\ grant' = NoGrant
<1>1. now \in Nat /\ now' = now + 1  BY DEF SessionKept, SessionTypes, Tick
<1>2. now' \in Nat /\ now <= now'  BY <1>1
<1> QED  BY <1>2, KeptWith DEF Tick, SessionKept, SessionTypes

\* A request is let through only on an unexpired sign-in of an address that a
\* deployment with the secret in force allowed, and a governed route only to
\* somebody on its list now (require_session, role_gate, callback): for any
\* deployments, browsers and lifetime, whatever restarts.
THEOREM AccessHolds == SessionSpec => []AccessEarned
<1>1. SessionInit => SessionKept /\ AccessEarned  BY SessionStarts
<1>2. SessionKept /\ AccessEarned /\ [SessionNext]_sessionVars => (SessionKept /\ AccessEarned)'
  <2> SUFFICES ASSUME SessionKept, AccessEarned, [SessionNext]_sessionVars  PROVE (SessionKept /\ AccessEarned)'
    OBVIOUS
  <2>1. grant' = NoGrant => AccessEarned'  BY DEF AccessEarned
  <2>2. ASSUME NEW env \in Deployments, BootServer(env)  PROVE (SessionKept /\ AccessEarned)'  BY <2>1, <2>2, BootKeeps
  <2>3. ASSUME NEW b \in Browsers, Login(b)  PROVE (SessionKept /\ AccessEarned)'  BY <2>1, <2>3, LoginKeeps
  <2>4. ASSUME NEW b \in Browsers, Logout(b)  PROVE (SessionKept /\ AccessEarned)'  BY <2>1, <2>4, LogoutKeeps
  <2>5. ASSUME NEW b \in Browsers, NEW route \in {"read", "operator", "approver"}, Use(b, route)
        PROVE (SessionKept /\ AccessEarned)'
    BY <2>5, UseIsEarned
  <2>6. ASSUME NEW f \in flights, NEW a \in Claims, Callback(f, a)  PROVE (SessionKept /\ AccessEarned)'
    BY <2>1, <2>6, CallbackKeeps
  <2>7. CASE Tick  BY <2>1, <2>7, TickKeeps
  <2>8. CASE UNCHANGED sessionVars
    BY <2>8 DEF sessionVars, SessionKept, SessionTypes, Earned, SecretAllowed, AccessEarned
  <2> QED  BY <2>2, <2>3, <2>4, <2>5, <2>6, <2>7, <2>8 DEF SessionNext
<1> QED  BY <1>1, <1>2, PTL DEF SessionSpec

-----------------------------------------------------------------------------
(* Commands.  The invariant says what each step has behind it; a leaf only *)
(* has to follow one command from step to step.                            *)

Line == {"progress", "done", "error"}

\* One line more on stdout.
LEMMA OneLine ==
  ASSUME NEW s \in Seq(Line), NEW x \in Line
  PROVE  /\ Append(s, x) \in Seq(Line)
         /\ ToSet(Append(s, x)) = ToSet(s) \union {x}
         /\ ToSet(s) \subseteq {"progress"} =>
              \A i \in 1 .. Len(Append(s, x)) - 1 : Append(s, x)[i] \notin {"done", "error"}
<1>1. Append(s, x) \in Seq(Line) /\ Len(Append(s, x)) = Len(s) + 1 /\ Len(s) \in Nat  OBVIOUS
<1>2. \A i \in 1 .. Len(s) : Append(s, x)[i] = s[i]  OBVIOUS
<1>3. Append(s, x)[Len(s) + 1] = x  OBVIOUS
<1>4. ToSet(s) = {s[i] : i \in 1 .. Len(s)}  BY DEF ToSet
<1>5. ToSet(Append(s, x)) = {Append(s, x)[i] : i \in 1 .. Len(s) + 1}  BY <1>1 DEF ToSet
<1>6. 1 .. Len(s) + 1 = (1 .. Len(s)) \union {Len(s) + 1}  BY <1>1
<1>7. ToSet(Append(s, x)) = ToSet(s) \union {x}
  <2>1. ASSUME NEW y \in ToSet(Append(s, x))  PROVE y \in ToSet(s) \union {x}  BY <1>2, <1>3, <1>4, <1>5, <1>6
  <2>2. ASSUME NEW y \in ToSet(s) \union {x}  PROVE y \in ToSet(Append(s, x))  BY <1>2, <1>3, <1>4, <1>5, <1>6
  <2> QED  BY <2>1, <2>2
<1>8. ASSUME ToSet(s) \subseteq {"progress"}, NEW i \in 1 .. Len(s)  PROVE s[i] \notin {"done", "error"}  BY <1>4, <1>8
<1> QED  BY <1>1, <1>2, <1>7, <1>8

\* A sequence over names is one over the set it is asked from.
LEMMA AskedIs ==
  ASSUME NEW c \in CommandLines
  PROVE  c.explicit \in Seq(Instruments) /\ Roster \in Seq(Instruments) /\ AllKnown \in Seq(Instruments)
<1>1. ASSUME NEW s \in Seq(STRING), ToSet(s) \subseteq Instruments  PROVE s \in Seq(Instruments)
  <2>1. \A i \in 1 .. Len(s) : s[i] \in Instruments  BY <1>1 DEF ToSet
  <2> QED  BY <1>1, <2>1
<1>2. c.explicit \in Seq(STRING) /\ Roster \in Seq(STRING) /\ AllKnown \in Seq(STRING)  BY CommandAssumption
<1>3. ToSet(c.explicit) \subseteq Instruments /\ ToSet(Roster) \subseteq Instruments /\ ToSet(AllKnown) \subseteq Instruments
  BY DEF Instruments
<1> QED  BY <1>1, <1>2, <1>3

LEMMA CommandIs ==
  ASSUME CommandTypes
  PROVE  /\ command.kind \in {"backtest", "train", "evolve", "ingest"}
         /\ ResolveIngestInstruments.names \in Seq(Instruments) /\ Asked \subseteq Instruments
<1>1. command \in CommandLines  BY DEF CommandTypes
<1>2. ResolveIngestInstruments.names \in Seq(Instruments)  BY <1>1, AskedIs DEF ResolveIngestInstruments
<1>3. Asked \subseteq Instruments  BY <1>2 DEF Asked, ToSet
<1> QED  BY <1>1, <1>2, <1>3, CommandAssumption

LEMMA CommandStarts == CommandsInit => CommandKept
<1> SUFFICES ASSUME CommandsInit  PROVE CommandKept  OBVIOUS
<1>1. Said = {}  BY DEF CommandsInit, Said, ToSet
<1>2. CommandTypes  BY DEF CommandsInit, CommandTypes, Marks, Stocks
<1>3. NothingSaid /\ FilesBehind /\ StockBehind
  BY <1>1 DEF CommandsInit, NothingSaid, FilesBehind, StockBehind, Written
<1>4. CommandSound  BY <1>1 DEF CommandsInit, CommandSound, DoneIsBacked, ExitHonest, OneTerminal
<1> QED  BY <1>2, <1>3, <1>4 DEF CommandKept

\* Ending is always safe while nothing terminal was said: whatever the code, the
\* lines stay as they are or one error is added.
LEMMA EndingKeeps ==
  ASSUME CommandKept, step \notin {"said", "over"}, step' = "over", exit' \in {"1", "panic", "killed"},
         out' = out \/ out' = Append(out, "error"),
         UNCHANGED <<command, dir, sealed, market>>, todo' \in Seq(Instruments)
  PROVE  CommandKept'
<1>1. out \in Seq(Line) /\ Said \subseteq {"progress"}  BY DEF CommandKept, CommandTypes, NothingSaid, Line
<1>2. out' \in Seq(Line) /\ Said' \subseteq {"progress", "error"}  BY <1>1, OneLine DEF Said, Line
<1>3. OneTerminal'
  <2>1. CASE out' = out  BY <2>1 DEF CommandKept, CommandSound, OneTerminal
  <2>2. CASE out' = Append(out, "error")  BY <1>1, <2>2, OneLine DEF Said, OneTerminal, Terminals, Line
  <2> QED  BY <2>1, <2>2
<1>4. CommandTypes'  BY <1>2 DEF CommandKept, CommandTypes, Line
<1>5. NothingSaid' /\ FilesBehind' /\ StockBehind'  BY DEF NothingSaid, FilesBehind, StockBehind, Written
<1>6. CommandSound'  BY <1>2, <1>3 DEF CommandSound, DoneIsBacked, ExitHonest
<1> QED  BY <1>4, <1>5, <1>6 DEF CommandKept

\* So is going on without a word, as far as words are concerned.
LEMMA QuietlyOn ==
  ASSUME CommandKept, step \notin {"said", "over"}, step' \notin {"said", "over"}, UNCHANGED <<command, out, exit>>
  PROVE  NothingSaid' /\ CommandSound' /\ out' \in Seq(Line)
<1>1. Said' = Said /\ Said \subseteq {"progress"} /\ exit = "none"  BY DEF CommandKept, NothingSaid, Said
<1>2. NothingSaid'  BY <1>1 DEF NothingSaid
<1>3. CommandSound'
  BY <1>1 DEF CommandSound, DoneIsBacked, ExitHonest, OneTerminal, CommandKept
<1> QED  BY <1>2, <1>3 DEF CommandKept, CommandTypes, Line

-----------------------------------------------------------------------------
(* The steps the commands share.                                           *)

LEMMA ConfigureKeeps == ASSUME CommandKept, Keep, Configure  PROVE CommandKept'
<1>1. CASE step' = "job" /\ UNCHANGED <<out, exit>>
  <2>1. NothingSaid' /\ CommandSound' /\ out' \in Seq(Line)  BY <1>1, QuietlyOn DEF Configure, Keep
  <2>2. CommandTypes'  BY <1>1 DEF CommandKept, CommandTypes, Configure, Keep
  <2>3. FilesBehind' /\ StockBehind'  BY <1>1 DEF FilesBehind, StockBehind, Written
  <2> QED  BY <2>1, <2>2, <2>3 DEF CommandKept
<1>2. CASE FailQuietly
  BY <1>2, EndingKeeps DEF Configure, Keep, FailQuietly, End, CommandKept, CommandTypes
<1> QED  BY <1>1, <1>2 DEF Configure

LEMMA ProgressKeeps == ASSUME CommandKept, Keep, NEW panics \in BOOLEAN, Progress(panics)  PROVE CommandKept'
<1>1. CASE End("panic") /\ UNCHANGED out
  BY <1>1, EndingKeeps DEF Progress, Keep, End, CommandKept, CommandTypes
<1>2. CASE UNCHANGED <<step, exit>> /\ Emit("progress")
  <2>1. out \in Seq(Line) /\ Said \subseteq {"progress"} /\ exit = "none" /\ step = "job"
    BY DEF CommandKept, CommandTypes, NothingSaid, Line, Progress
  <2>2. out' = out \/ out' = Append(out, "progress")  BY <1>2 DEF Emit
  <2>3. out' \in Seq(Line) /\ Said' \subseteq {"progress"}  BY <2>1, <2>2, OneLine DEF Said, Line
  <2>4. OneTerminal'
    <3>1. CASE out' = out  BY <3>1 DEF CommandKept, CommandSound, OneTerminal
    <3>2. CASE out' = Append(out, "progress")  BY <2>1, <3>2, OneLine DEF Said, OneTerminal, Terminals, Line
    <3> QED  BY <2>2, <3>1, <3>2
  <2>5. CommandTypes'  BY <2>3 DEF CommandKept, CommandTypes, Line, Progress, Keep
  <2>6. NothingSaid' /\ FilesBehind' /\ StockBehind'  BY <1>2, <2>1, <2>3 DEF NothingSaid, FilesBehind, StockBehind, Written
  <2>7. CommandSound'  BY <1>2, <2>1, <2>3, <2>4 DEF CommandSound, DoneIsBacked, ExitHonest
  <2> QED  BY <2>5, <2>6, <2>7 DEF CommandKept
<1> QED  BY <1>1, <1>2 DEF Progress

LEMMA JobFailsKeeps == ASSUME CommandKept, Keep, JobFails  PROVE CommandKept'
  BY EndingKeeps DEF JobFails, FailAloud, End, Emit, Keep, CommandKept, CommandTypes

LEMMA JobEndsKeeps ==
  ASSUME CommandKept, Keep, NEW root, JobEnds(root),
         command.kind = "train" => root = "vintages", command.kind = "evolve" => root = PoolRootFor(command.mode), ~Ingest
  PROVE  CommandKept'
<1>1. NothingSaid' /\ CommandSound' /\ out' \in Seq(Line)  BY QuietlyOn DEF JobEnds, Keep
<1>2. CommandTypes'  BY DEF CommandKept, CommandTypes, JobEnds, Keep
<1>3. FilesBehind'  BY DEF FilesBehind, Written, JobEnds, Keep, PoolRootFor, Ingest
<1>4. StockBehind'  BY DEF StockBehind, Keep, Ingest, JobEnds
<1> QED  BY <1>1, <1>2, <1>3, <1>4 DEF CommandKept

\* Writing a file gives nothing away: the step after it has it whole.
LEMMA WriteKeeps ==
  ASSUME CommandKept, Keep, NEW file \in {"result", "archive"}, NEW next, WriteFile(file, next),
         <<file, next>> \in {<<"result", "say">>, <<"result", "archive">>, <<"archive", "say">>},
         (file = "archive" \/ next = "archive") <=> command.kind = "evolve"
  PROVE  CommandKept'
<1>1. CASE FailQuietly /\ UNCHANGED dir /\ step \in {file, Filling(file)}
  BY <1>1, EndingKeeps DEF WriteFile, Filling, Keep, FailQuietly, End, CommandKept, CommandTypes
<1>2. CASE /\ \/ step = file /\ step' = Filling(file) /\ dir' = [dir EXCEPT ![file] = "torn"]
              \/ step = Filling(file) /\ step' = next /\ dir' = [dir EXCEPT ![file] = "whole"]
           /\ UNCHANGED <<out, exit>>
  <2>1. UNCHANGED <<command, out, exit, sealed, market, todo>>  BY <1>2 DEF WriteFile, Keep
  <2>2. dir \in [result : Marks, archive : Marks]  BY DEF CommandKept, CommandTypes
  <2>3. \/ step = file /\ step' = Filling(file) /\ dir' = [dir EXCEPT ![file] = "torn"]
        \/ step = Filling(file) /\ step' = next /\ dir' = [dir EXCEPT ![file] = "whole"]
    BY <1>2
  <2>4. NothingSaid' /\ CommandSound'  BY <2>1, <2>3, QuietlyOn DEF Filling
  <2>5. dir' \in [result : Marks, archive : Marks]  BY <2>2, <2>3 DEF Marks
  <2>6. CommandTypes'  BY <2>1, <2>5 DEF CommandKept, CommandTypes
  <2>7. FilesBehind'
    <3>1. CASE file = "result"
      BY <3>1, <2>1, <2>2, <2>3 DEF FilesBehind, CommandKept, Filling, Written, Ingest, PoolRootFor
    <3>2. CASE file = "archive"
      BY <3>2, <2>1, <2>2, <2>3 DEF FilesBehind, CommandKept, Filling, Written, Ingest, PoolRootFor
    <3> QED  BY <3>1, <3>2
  <2>8. StockBehind'
    <3>1. (Asked = Asked') /\ (\A n \in Asked : Stored(n) <=> Stored(n)')
      BY <2>1 DEF Asked, Stored, ResolveIngestInstruments, SurvivorshipUnsafe
    <3>2. command.kind # "evolve" => file = "result" /\ next = "say"  OBVIOUS
    <3> QED  BY <3>1, <3>2, <2>1, <2>3 DEF StockBehind, CommandKept, Filling, Ingest
  <2> QED  BY <2>4, <2>6, <2>7, <2>8 DEF CommandKept
<1> QED  BY <1>1, <1>2 DEF WriteFile

\* The last words: what they announce is behind them.
LEMMA AnnounceKeeps == ASSUME CommandKept, Keep, Announce  PROVE CommandKept'
<1> DEFINE Told == command.json \/ Ingest
<1>1. UNCHANGED <<command, dir, sealed, market, todo>>  BY DEF Announce, Keep
<1>2. CASE step = "say" /\ UNCHANGED out /\ End(IF Told THEN "1" ELSE "panic")
  BY <1>1, <1>2, EndingKeeps DEF End, CommandKept, CommandTypes
<1>3. CASE step = "say" /\ step' = "said" /\ out' = (IF Told THEN Append(out, "done") ELSE out) /\ UNCHANGED exit
  <2>1. out \in Seq(Line) /\ Said \subseteq {"progress"} /\ exit = "none"
    BY <1>3 DEF CommandKept, CommandTypes, NothingSaid, Line
  <2>2. out' \in Seq(Line) /\ (Told => "done" \in Said') /\ ("done" \in Said' => Told)
    BY <1>3, <2>1, OneLine DEF Said, Line
  <2>3. OneTerminal'
    <3>1. CASE ~Told  BY <1>3, <3>1 DEF CommandKept, CommandSound, OneTerminal
    <3>2. CASE Told  BY <1>3, <2>1, <3>2, OneLine DEF Said, OneTerminal, Terminals, Line
    <3> QED  BY <3>1, <3>2
  <2>4. Delivered
    <3>1. command.kind = "evolve" => (sealed = "pools") = (command.mode = "production")
      <4>1. command.kind = "evolve" => sealed = PoolRootFor(command.mode)  BY <1>3 DEF CommandKept, FilesBehind, Written
      <4>2. command.mode \in {"sandbox", "production"}  BY CommandAssumption DEF CommandKept, CommandTypes
      <4> QED  BY <4>1, <4>2 DEF PoolRootFor
    <3> QED  BY <1>3, <3>1 DEF Delivered, CommandKept, FilesBehind, StockBehind, Written
  <2>5. Delivered'  BY <1>1, <2>4 DEF Delivered, Asked, Stored, ResolveIngestInstruments, SurvivorshipUnsafe, Ingest
  <2>6. CommandSound'  BY <1>3, <2>1, <2>3, <2>5 DEF CommandSound, DoneIsBacked, ExitHonest
  <2>7. CommandTypes'  BY <1>1, <2>2 DEF CommandKept, CommandTypes, Line
  <2>8. NothingSaid'  BY <1>1, <1>3, <2>1, <2>2 DEF NothingSaid, Ingest
  <2>9. FilesBehind' /\ StockBehind'
    BY <1>1, <1>3 DEF CommandKept, FilesBehind, StockBehind, Written, Asked, Stored, ResolveIngestInstruments, SurvivorshipUnsafe,
                      Ingest, PoolRootFor
  <2> QED  BY <2>6, <2>7, <2>8, <2>9 DEF CommandKept
<1>4. CASE step = "said" /\ End("0") /\ UNCHANGED out
  <2>1. Said' = Said /\ step' = "over" /\ exit' = "0" /\ out' = out  BY <1>4 DEF Said, End
  <2>2. Delivered /\ (Told => "done" \in Said)
    <3>1. command.kind = "evolve" => (sealed = "pools") = (command.mode = "production")
      <4>1. command.kind = "evolve" => sealed = PoolRootFor(command.mode)  BY <1>4 DEF CommandKept, FilesBehind, Written
      <4>2. command.mode \in {"sandbox", "production"}  BY CommandAssumption DEF CommandKept, CommandTypes
      <4> QED  BY <4>1, <4>2 DEF PoolRootFor
    <3> QED  BY <1>4, <3>1 DEF Delivered, CommandKept, FilesBehind, StockBehind, NothingSaid, Written
  <2>3. Delivered'  BY <1>1, <2>2 DEF Delivered, Asked, Stored, ResolveIngestInstruments, SurvivorshipUnsafe, Ingest
  <2>4. CommandSound'  BY <1>1, <2>1, <2>2, <2>3 DEF CommandSound, DoneIsBacked, ExitHonest, OneTerminal, CommandKept, Ingest
  <2>5. CommandTypes'  BY <1>1, <2>1 DEF CommandKept, CommandTypes
  <2>6. NothingSaid' /\ FilesBehind' /\ StockBehind'  BY <2>1 DEF NothingSaid, FilesBehind, StockBehind, Written
  <2> QED  BY <2>4, <2>5, <2>6 DEF CommandKept
<1> QED  BY <1>2, <1>3, <1>4 DEF Announce

-----------------------------------------------------------------------------
(* Ingestion: an instrument leaves the list only after its bars are stored. *)

LEMMA StartIngestKeeps == ASSUME CommandKept, Ingest, StartIngest  PROVE CommandKept'
<1>1. CASE FailAloud /\ UNCHANGED todo
  BY <1>1, EndingKeeps DEF StartIngest, FailAloud, End, Emit, CommandKept, CommandTypes
<1>2. CASE step' = "names" /\ UNCHANGED <<out, exit>> /\ todo' = ResolveIngestInstruments.names
  <2>1. UNCHANGED <<command, dir, sealed, market>> /\ step = "start"  BY DEF StartIngest
  <2>2. NothingSaid' /\ CommandSound' /\ out' \in Seq(Line)  BY <1>2, <2>1, QuietlyOn
  <2>3. CommandTypes'  BY <1>2, <2>1, CommandIs DEF CommandKept, CommandTypes
  <2>4. FilesBehind'  BY <1>2 DEF FilesBehind, Written
  <2>5. StockBehind'
    <3>1. Asked' = ToSet(todo')  BY <1>2, <2>1 DEF Asked, ResolveIngestInstruments, SurvivorshipUnsafe
    <3> QED  BY <1>2, <3>1 DEF StockBehind
  <2> QED  BY <2>2, <2>3, <2>4, <2>5 DEF CommandKept
<1> QED  BY <1>1, <1>2 DEF StartIngest

LEMMA HeadAndTail ==
  ASSUME NEW S, NEW s \in Seq(S), s # <<>>
  PROVE  Head(s) \in S /\ Tail(s) \in Seq(S) /\ ToSet(s) = ToSet(Tail(s)) \union {Head(s)}
<1>1. Len(s) \in Nat \ {0} /\ Head(s) = s[1] /\ Head(s) \in S /\ Tail(s) \in Seq(S) /\ Len(Tail(s)) = Len(s) - 1  OBVIOUS
<1>2. \A i \in 1 .. Len(s) - 1 : Tail(s)[i] = s[i + 1]  OBVIOUS
<1>3. ToSet(s) = {s[i] : i \in 1 .. Len(s)} /\ ToSet(Tail(s)) = {Tail(s)[i] : i \in 1 .. Len(s) - 1}
  <2>1. DOMAIN s = 1 .. Len(s) /\ DOMAIN Tail(s) = 1 .. Len(Tail(s))  BY <1>1
  <2> QED  BY <1>1, <2>1 DEF ToSet
<1>4. ASSUME NEW x \in ToSet(s)  PROVE x \in ToSet(Tail(s)) \union {Head(s)}
  <2>1. PICK i \in 1 .. Len(s) : x = s[i]  BY <1>3
  <2>2. CASE i = 1  BY <1>1, <2>1, <2>2
  <2>3. CASE i # 1
    <3>1. i - 1 \in 1 .. Len(s) - 1 /\ (i - 1) + 1 = i  BY <1>1, <2>3
    <3>2. Tail(s)[i - 1] = s[i]  BY <1>2, <3>1
    <3> QED  BY <1>3, <2>1, <3>1, <3>2
  <2> QED  BY <2>2, <2>3
<1>5. ASSUME NEW x \in ToSet(Tail(s))  PROVE x \in ToSet(s)
  <2>1. PICK i \in 1 .. Len(s) - 1 : x = Tail(s)[i]  BY <1>3
  <2>2. i + 1 \in 1 .. Len(s) /\ x = s[i + 1]  BY <1>1, <1>2, <2>1
  <2> QED  BY <1>3, <2>2
<1>6. Head(s) \in ToSet(s)  BY <1>1, <1>3
<1> QED  BY <1>1, <1>4, <1>5, <1>6

\* One commit of bars: nothing stored before is lost to a synthetic pass.
LEMMA CommitKeeps ==
  ASSUME CommandKept, NEW fetches, fetches \in {{BarTimes}, SUBSET BarTimes}, Ingest, command.synthetic => fetches = {BarTimes},
         step = "names", todo # <<>>, NEW ts \in fetches,
         market' = [market EXCEPT ![Head(todo)] = [t \in BarTimes |-> IF t \in ts THEN Provenance ELSE @[t]]],
         step' = "series", UNCHANGED <<command, dir, sealed, out, exit, todo>>
  PROVE  CommandKept'
<1>1. PICK h \in Instruments : h = Head(todo) /\ h \in ToSet(todo)
  BY HeadAndTail DEF CommandKept, CommandTypes
<1>2. NothingSaid' /\ CommandSound' /\ out' \in Seq(Line)  BY QuietlyOn
<1>3. /\ market \in [Instruments -> Stocks]
      /\ market'[h] = [t \in BarTimes |-> IF t \in ts THEN Provenance ELSE market[h][t]]
      /\ \A n \in Instruments \ {h} : market'[n] = market[n]
  BY <1>1 DEF CommandKept, CommandTypes
<1>4. market' \in [Instruments -> Stocks]
  <2>1. Provenance \in {"synthetic", "real"} /\ market[h] \in Stocks  BY <1>3 DEF Provenance
  <2>2. market'[h] \in Stocks  BY <1>3, <2>1 DEF Stocks
  <2>3. market' = [market EXCEPT ![h] = market'[h]]  BY <1>1, <1>3
  <2> QED  BY <1>3, <2>2, <2>3
<1>5. CommandTypes'  BY <1>4 DEF CommandKept, CommandTypes
<1>6. FilesBehind'  BY DEF FilesBehind, Written
<1>7. StockBehind'
  <2> SUFFICES ASSUME command.synthetic  PROVE /\ \A n \in Asked' : n \in ToSet(todo') \/ Stored(n)'
                                               /\ Stored(h)'
    BY <1>1 DEF StockBehind, Ingest
  <2>1. Provenance = "synthetic" /\ \A t \in BarTimes : t \in ts  BY DEF Provenance
  <2>2. Stored(h)'  BY <1>3, <2>1 DEF Stored
  <2>3. Asked' = Asked /\ Asked \subseteq Instruments
    BY CommandIs DEF Asked, ResolveIngestInstruments, SurvivorshipUnsafe, CommandKept
  <2>4. \A n \in Instruments : Stored(n) => Stored(n)'  BY <1>3, <2>2 DEF Stored
  <2>5. \A n \in Asked : n \in ToSet(todo) \/ Stored(n)  BY DEF CommandKept, StockBehind
  <2> QED  BY <2>2, <2>3, <2>4, <2>5
<1> QED  BY <1>2, <1>5, <1>6, <1>7 DEF CommandKept

LEMMA IngestInstrumentKeeps ==
  ASSUME CommandKept, NEW fetches, fetches \in {{BarTimes}, SUBSET BarTimes}, Ingest, command.synthetic => fetches = {BarTimes},
         IngestInstrument(fetches)
  PROVE  CommandKept'
<1>1. UNCHANGED <<command, dir, sealed>> /\ todo \in Seq(Instruments)  BY DEF IngestInstrument, CommandKept, CommandTypes
<1>2. CASE step \in {"names", "series"} /\ FailAloud /\ UNCHANGED <<market, todo>>
  BY <1>1, <1>2, EndingKeeps DEF FailAloud, End, Emit
<1>3. CASE /\ step = "names" /\ todo # <<>> /\ step' = "series" /\ UNCHANGED <<out, exit, todo>>
           /\ \E ts \in fetches :
                market' = [market EXCEPT ![Head(todo)] = [t \in BarTimes |-> IF t \in ts THEN Provenance ELSE @[t]]]
  BY <1>1, <1>3, CommitKeeps
<1>4. CASE step = "series" /\ step' = "names" /\ todo' = Tail(todo) /\ UNCHANGED <<out, exit, market>>
  <2>1. NothingSaid' /\ CommandSound' /\ out' \in Seq(Line)  BY <1>1, <1>4, QuietlyOn
  <2>2. FilesBehind'  BY <1>4 DEF FilesBehind, Written
  <2>3. Asked' = Asked /\ \A n : Stored(n)' <=> Stored(n)
    BY <1>1, <1>4 DEF Asked, ResolveIngestInstruments, SurvivorshipUnsafe, Stored
  <2>4. todo # <<>>  BY <1>4 DEF CommandKept, StockBehind
  <2>5. Tail(todo) \in Seq(Instruments) /\ ToSet(todo) = ToSet(Tail(todo)) \union {Head(todo)}  BY <1>1, <2>4, HeadAndTail
  <2>6. CommandTypes'  BY <1>1, <1>4, <2>5 DEF CommandKept, CommandTypes
  <2>7. StockBehind'  BY <1>1, <1>4, <2>3, <2>5 DEF StockBehind, CommandKept, Ingest
  <2> QED  BY <2>1, <2>2, <2>6, <2>7 DEF CommandKept
<1>5. CASE step = "names" /\ todo = <<>> /\ step' = "finish" /\ UNCHANGED <<out, exit, market, todo>>
  <2>1. NothingSaid' /\ CommandSound' /\ out' \in Seq(Line)  BY <1>1, <1>5, QuietlyOn
  <2>2. CommandTypes' /\ FilesBehind'  BY <1>1, <1>5 DEF CommandKept, CommandTypes, FilesBehind, Written
  <2>3. Asked' = Asked /\ ToSet(todo) = {}
    BY <1>1, <1>5 DEF Asked, ResolveIngestInstruments, SurvivorshipUnsafe, ToSet
  <2>4. StockBehind'  BY <1>1, <1>5, <2>3 DEF StockBehind, CommandKept, Ingest, Stored
  <2> QED  BY <2>1, <2>2, <2>4 DEF CommandKept
<1> QED  BY <1>2, <1>3, <1>4, <1>5 DEF IngestInstrument

LEMMA FinishIngestKeeps == ASSUME CommandKept, Ingest, FinishIngest  PROVE CommandKept'
<1>1. Keep  BY DEF FinishIngest
<1>2. CASE step = "finish" /\ step' = (IF command.runDir THEN "result" ELSE "say") /\ UNCHANGED <<out, exit, dir, sealed>>
  <2>1. NothingSaid' /\ CommandSound' /\ out' \in Seq(Line)  BY <1>1, <1>2, QuietlyOn DEF Keep
  <2>2. CommandTypes'  BY <1>1, <1>2 DEF Keep, CommandKept, CommandTypes
  <2>3. FilesBehind'  BY <1>1, <1>2 DEF Keep, FilesBehind, Written, Ingest
  <2>4. Asked' = Asked /\ \A n : Stored(n)' <=> Stored(n)
    BY <1>1 DEF Keep, Asked, ResolveIngestInstruments, SurvivorshipUnsafe, Stored
  <2>5. StockBehind'  BY <1>1, <1>2, <2>4 DEF Keep, StockBehind, CommandKept, Ingest
  <2> QED  BY <2>1, <2>2, <2>3, <2>5 DEF CommandKept
<1>3. CASE WriteFile("result", "say")  BY <1>1, <1>3, WriteKeeps DEF Ingest
<1>4. CASE Announce  BY <1>1, <1>4, AnnounceKeeps
<1> QED  BY <1>2, <1>3, <1>4 DEF FinishIngest

-----------------------------------------------------------------------------
\* What the properties read is in these variables.
LEMMA ReadsSame ==
  ASSUME UNCHANGED <<command, out, dir, sealed, market, todo>>
  PROVE  /\ Said' = Said /\ Ingest' = Ingest /\ Asked' = Asked /\ (\A n : Stored(n)' <=> Stored(n))
         /\ (Delivered' <=> Delivered) /\ (OneTerminal' <=> OneTerminal) /\ (CommandTypes' <=> CommandTypes)
<1>1. Said' = Said /\ Ingest' = Ingest /\ (OneTerminal' <=> OneTerminal)  BY DEF Said, Ingest, OneTerminal
<1>2. Asked' = Asked  BY DEF Asked, ResolveIngestInstruments, SurvivorshipUnsafe
<1>3. \A n : Stored(n)' <=> Stored(n)  BY DEF Stored
<1>4. Delivered' <=> Delivered  BY <1>1, <1>2, <1>3 DEF Delivered
<1>5. CommandTypes' <=> CommandTypes  BY DEF CommandTypes
<1> QED  BY <1>1, <1>2, <1>3, <1>4, <1>5

LEMMA SameKeeps ==
  ASSUME CommandKept, UNCHANGED <<command, step, out, dir, sealed, market, todo, exit>>  PROVE CommandKept'
<1>1. CommandTypes' /\ OneTerminal'  BY ReadsSame DEF CommandKept, CommandSound
<1>2. NothingSaid'  BY ReadsSame DEF CommandKept, NothingSaid
<1>3. FilesBehind'  BY ReadsSame DEF CommandKept, FilesBehind, Written, PoolRootFor
<1>4. StockBehind'
  <2>1. Stored(Head(todo))' <=> Stored(Head(todo))  BY DEF Stored
  <2>2. Asked' = Asked /\ \A n \in Asked : Stored(n)' <=> Stored(n)  BY ReadsSame
  <2> QED  BY <2>1, <2>2 DEF CommandKept, StockBehind, Ingest
<1>5. DoneIsBacked' /\ ExitHonest'  BY ReadsSame DEF CommandKept, CommandSound, DoneIsBacked, ExitHonest
<1> QED  BY <1>1, <1>2, <1>3, <1>4, <1>5 DEF CommandKept, CommandSound

LEMMA KilledKeeps == ASSUME CommandKept, Killed  PROVE CommandKept'
<1>1. UNCHANGED <<command, out, dir, sealed, market, todo>> /\ step' = "over" /\ exit' = "killed"  BY DEF Killed, End
<1>2. CommandTypes' /\ OneTerminal' /\ DoneIsBacked' /\ ExitHonest'
  BY <1>1, ReadsSame DEF CommandKept, CommandSound, DoneIsBacked, ExitHonest
<1>3. NothingSaid' /\ FilesBehind' /\ StockBehind'  BY <1>1 DEF NothingSaid, FilesBehind, StockBehind, Written
<1> QED  BY <1>2, <1>3 DEF CommandKept, CommandSound

\* A done line is backed by everything it announces, success is honest and one
\* terminal line ends the output (main.rs), for any command lines, rosters and
\* windows, whatever fails, is killed or stops reading.
THEOREM CommandHolds == CommandSpec => []CommandSound
<1>1. CommandKept /\ [CommandsNext]_commandVars => CommandKept'
  <2> SUFFICES ASSUME CommandKept, [CommandsNext]_commandVars  PROVE CommandKept'  OBVIOUS
  <2>1. CASE RunBacktestCommand
    <3>1. Keep /\ ~Ingest /\ command.kind = "backtest"  BY <2>1 DEF RunBacktestCommand, Ingest
    <3>2. CASE Configure  BY <3>1, <3>2, ConfigureKeeps
    <3>3. CASE Progress(FALSE)  BY <3>1, <3>3, ProgressKeeps
    <3>4. CASE JobFails  BY <3>1, <3>4, JobFailsKeeps
    <3>5. CASE JobEnds("none")  BY <3>1, <3>5, JobEndsKeeps
    <3>6. CASE WriteFile("result", "say")  BY <3>1, <3>6, WriteKeeps
    <3>7. CASE Announce  BY <3>1, <3>7, AnnounceKeeps
    <3> QED  BY <2>1, <3>2, <3>3, <3>4, <3>5, <3>6, <3>7 DEF RunBacktestCommand
  <2>2. CASE RunTrainCommand
    <3>1. Keep /\ ~Ingest /\ command.kind = "train"  BY <2>2 DEF RunTrainCommand, Ingest
    <3>2. CASE Configure  BY <3>1, <3>2, ConfigureKeeps
    <3>3. CASE Progress(TRUE)  BY <3>1, <3>3, ProgressKeeps
    <3>4. CASE JobFails  BY <3>1, <3>4, JobFailsKeeps
    <3>5. CASE JobEnds("vintages")  BY <3>1, <3>5, JobEndsKeeps
    <3>6. CASE WriteFile("result", "say")  BY <3>1, <3>6, WriteKeeps
    <3>7. CASE Announce  BY <3>1, <3>7, AnnounceKeeps
    <3> QED  BY <2>2, <3>2, <3>3, <3>4, <3>5, <3>6, <3>7 DEF RunTrainCommand
  <2>3. CASE RunEvolveCommand
    <3>1. Keep /\ ~Ingest /\ command.kind = "evolve"  BY <2>3 DEF RunEvolveCommand, Ingest
    <3>2. CASE Configure  BY <3>1, <3>2, ConfigureKeeps
    <3>3. CASE Progress(TRUE)  BY <3>1, <3>3, ProgressKeeps
    <3>4. CASE JobFails  BY <3>1, <3>4, JobFailsKeeps
    <3>5. CASE JobEnds(PoolRootFor(command.mode))  BY <3>1, <3>5, JobEndsKeeps
    <3>6. CASE WriteFile("result", "archive")  BY <3>1, <3>6, WriteKeeps
    <3>7. CASE WriteFile("archive", "say")  BY <3>1, <3>7, WriteKeeps
    <3>8. CASE Announce  BY <3>1, <3>8, AnnounceKeeps
    <3> QED  BY <2>3, <3>2, <3>3, <3>4, <3>5, <3>6, <3>7, <3>8 DEF RunEvolveCommand
  <2>4. CASE RunSyntheticIngest
    <3>1. Ingest /\ command.synthetic  BY <2>4 DEF RunSyntheticIngest
    <3>2. CASE IngestInstrument({BarTimes})  BY <3>1, <3>2, IngestInstrumentKeeps
    <3> QED  BY <2>4, <3>1, <3>2, StartIngestKeeps, FinishIngestKeeps DEF RunSyntheticIngest
  <2>5. CASE RunRealIngest
    <3>1. Ingest /\ ~command.synthetic  BY <2>5 DEF RunRealIngest
    <3>2. CASE IngestInstrument(SUBSET BarTimes)  BY <3>1, <3>2, IngestInstrumentKeeps
    <3> QED  BY <2>5, <3>1, <3>2, StartIngestKeeps, FinishIngestKeeps DEF RunRealIngest
  <2>6. CASE RunRealIngestOffline
    BY <2>6, EndingKeeps DEF RunRealIngestOffline, Keep, FailAloud, End, Emit, CommandKept, CommandTypes
  <2>7. CASE ReaderGoes  BY <2>7, SameKeeps DEF ReaderGoes
  <2>8. CASE Killed  BY <2>8, KilledKeeps
  <2>9. CASE UNCHANGED commandVars  BY <2>9, SameKeeps DEF commandVars
  <2> QED  BY <2>1, <2>2, <2>3, <2>4, <2>5, <2>6, <2>7, <2>8, <2>9 DEF CommandsNext
<1>2. CommandKept => CommandSound  BY DEF CommandKept
<1> QED  BY <1>1, <1>2, CommandStarts, PTL DEF CommandSpec

-----------------------------------------------------------------------------
(* Sums over sequences, by induction on their length: least counterexample *)
(* first, as sets of numbers.                                              *)

LEMMA SetInduction ==
  ASSUME NEW S \in SUBSET Nat, 0 \in S, \A n \in S : n + 1 \in S
  PROVE  S = Nat
<1> SUFFICES ASSUME S # Nat PROVE FALSE  OBVIOUS
<1>1. Nat \ S # {} /\ Nat \ S \subseteq Nat  OBVIOUS
<1>2. \E x \in Nat \ S : \A y \in Nat \ S : ~(<<y, x>> \in OpToRel(<, Nat))
  BY <1>1, NatLessThanWellFounded, WFMin, Zenon
<1>3. PICK x \in Nat \ S : \A y \in Nat \ S : ~(y < x)
  BY <1>2 DEF OpToRel
<1>4. x # 0 /\ x - 1 \in Nat /\ x - 1 < x  BY <1>3
<1>5. x - 1 \in S  BY <1>3, <1>4
<1> QED  BY <1>3, <1>4, <1>5

LEMMA SumsUnfold ==
  ASSUME NEW s \in Seq(Int)
  PROVE  Sums(s) = [i \in 0 .. Len(s) |-> IF i = 0 THEN 0 ELSE Sums(s)[i - 1] + s[i]]
<1> DEFINE G(n, f) == f = [i \in 0 .. n |-> IF i = 0 THEN 0 ELSE f[i - 1] + s[i]]
           Some == {n \in Nat : n <= Len(s) => \E f : G(n, f)}
<1>1. 0 \in Some
  <2>1. G(0, [i \in 0 .. 0 |-> 0])  OBVIOUS
  <2> QED  BY <2>1
<1>2. ASSUME NEW n \in Some PROVE n + 1 \in Some
  <2> SUFFICES ASSUME n + 1 <= Len(s) PROVE \E f : G(n + 1, f)  OBVIOUS
  <2>0. n \in Nat /\ n <= Len(s)  OBVIOUS
  <2>1. PICK f : G(n, f)  BY <2>0
  <2> DEFINE g == [i \in 0 .. n + 1 |-> IF i <= n THEN f[i] ELSE f[n] + s[n + 1]]
  <2>2. \A i \in 0 .. n : f[i] = IF i = 0 THEN 0 ELSE f[i - 1] + s[i]  BY <2>0, <2>1
  <2>3. \A i \in 0 .. n : g[i] = f[i]  BY <2>0
  <2>4. g[n + 1] = f[n] + s[n + 1]  BY <2>0
  <2>5. ASSUME NEW i \in 0 .. n + 1 PROVE g[i] = IF i = 0 THEN 0 ELSE g[i - 1] + s[i]
    <3> HIDE DEF g, G
    <3>1. CASE i = n + 1
      <4>1. n + 1 - 1 = n /\ n \in 0 .. n /\ n + 1 # 0  BY <2>0
      <4> QED  BY <3>1, <4>1, <2>3, <2>4
    <3>2. CASE i # n + 1
      <4>1. i \in 0 .. n  BY <2>0, <3>2
      <4>2. i = 0 \/ i - 1 \in 0 .. n  BY <2>0, <4>1
      <4> QED  BY <4>1, <4>2, <2>2, <2>3
    <3> QED  BY <3>1, <3>2
  <2>6. G(n + 1, g)  BY <2>5
  <2> QED  BY <2>6
<1>3. Some = Nat
  <2> HIDE DEF Some
  <2>1. Some \in SUBSET Nat  BY DEF Some
  <2> QED  BY <1>1, <1>2, <2>1, SetInduction
<1>4. \E f : G(Len(s), f)
  <2>1. Len(s) \in Nat  OBVIOUS
  <2> QED  BY <1>3, <2>1
<1>5. Sums(s) = CHOOSE f : G(Len(s), f)  BY DEF Sums
<1>6. G(Len(s), Sums(s))
  <2> HIDE DEF G
  <2> QED  BY <1>4, <1>5
<1> QED  BY <1>6

LEMMA SumsAre ==
  ASSUME NEW s \in Seq(Int)
  PROVE  \A n \in 0 .. Len(s) : Sums(s)[n] \in Int
<1> DEFINE Good == {n \in Nat : n <= Len(s) => Sums(s)[n] \in Int}
<1>0. Len(s) \in Nat /\ \A i \in 1 .. Len(s) : s[i] \in Int  OBVIOUS
<1>1. \A n \in 0 .. Len(s) : Sums(s)[n] = IF n = 0 THEN 0 ELSE Sums(s)[n - 1] + s[n]  BY SumsUnfold
<1>2. 0 \in Good  BY <1>0, <1>1
<1>3. ASSUME NEW n \in Good  PROVE n + 1 \in Good
  <2> SUFFICES ASSUME n + 1 <= Len(s)  PROVE Sums(s)[n + 1] \in Int  OBVIOUS
  <2>1. n \in Nat /\ n + 1 \in 0 .. Len(s) /\ n + 1 # 0 /\ (n + 1) - 1 = n /\ Sums(s)[n] \in Int  BY <1>0
  <2> QED  BY <1>0, <1>1, <2>1
<1>4. Good = Nat
  <2> HIDE DEF Good
  <2>1. Good \in SUBSET Nat  BY DEF Good
  <2> QED  BY <1>2, <1>3, <2>1, SetInduction
<1> QED  BY <1>0, <1>4

LEMMA SumOfIs == ASSUME NEW s \in Seq(Int)  PROVE SumOf(s) \in Int
  BY SumsAre DEF SumOf

\* Term by term below is below in all.
LEMMA SumOfBelow ==
  ASSUME NEW s \in Seq(Int), NEW t \in Seq(Int), Len(s) = Len(t), \A i \in 1 .. Len(s) : 0 <= s[i] /\ s[i] <= t[i]
  PROVE  0 <= SumOf(s) /\ SumOf(s) <= SumOf(t)
<1> DEFINE Good == {n \in Nat : n <= Len(s) => 0 <= Sums(s)[n] /\ Sums(s)[n] <= Sums(t)[n]}
<1>0. Len(s) \in Nat /\ \A i \in 1 .. Len(s) : s[i] \in Int /\ t[i] \in Int  OBVIOUS
<1>1. \A n \in 0 .. Len(s) : Sums(s)[n] = IF n = 0 THEN 0 ELSE Sums(s)[n - 1] + s[n]  BY SumsUnfold
<1>2. \A n \in 0 .. Len(s) : Sums(t)[n] = IF n = 0 THEN 0 ELSE Sums(t)[n - 1] + t[n]  BY SumsUnfold
<1>3. 0 \in Good  BY <1>0, <1>1, <1>2
<1>4. ASSUME NEW n \in Good  PROVE n + 1 \in Good
  <2> SUFFICES ASSUME n + 1 <= Len(s)  PROVE 0 <= Sums(s)[n + 1] /\ Sums(s)[n + 1] <= Sums(t)[n + 1]  OBVIOUS
  <2>1. n \in Nat /\ n + 1 \in 1 .. Len(s) /\ (n + 1) - 1 = n /\ n \in 0 .. Len(s)  BY <1>0
  <2>2. 0 <= Sums(s)[n] /\ Sums(s)[n] <= Sums(t)[n]  BY <2>1
  <2>3. Sums(s)[n] \in Int /\ Sums(t)[n] \in Int  BY <2>1, SumsAre
  <2>4. 0 <= s[n + 1] /\ s[n + 1] <= t[n + 1] /\ s[n + 1] \in Int /\ t[n + 1] \in Int  BY <1>0, <2>1
  <2>5. Sums(s)[n + 1] = Sums(s)[n] + s[n + 1] /\ Sums(t)[n + 1] = Sums(t)[n] + t[n + 1]  BY <1>0, <1>1, <1>2, <2>1
  <2> HIDE DEF Good
  <2> QED  BY <2>2, <2>3, <2>4, <2>5
<1>5. Good = Nat
  <2> HIDE DEF Good
  <2>1. Good \in SUBSET Nat  BY DEF Good
  <2> QED  BY <1>3, <1>4, <2>1, SetInduction
<1> QED  BY <1>0, <1>5 DEF SumOf

-----------------------------------------------------------------------------
(* Arithmetic of lots and shares.                                          *)

LEMMA Cancel == ASSUME NEW a \in Nat \ {0}, NEW x \in Int, NEW y \in Int, a * x <= a * y PROVE x <= y
  OBVIOUS
LEMMA CancelStrictly == ASSUME NEW a \in Nat \ {0}, NEW x \in Int, NEW y \in Int, a * x < a * y PROVE x < y
  OBVIOUS
LEMMA DivIs == ASSUME NEW n \in Int, NEW d \in Nat \ {0}
  PROVE n \div d \in Int /\ d * (n \div d) <= n /\ n < d * (n \div d) + d
  OBVIOUS
LEMMA DivMul == ASSUME NEW k \in Int, NEW d \in Nat \ {0} PROVE (k * d) \div d = k
<1>1. PICK q \in Int : q = (k * d) \div d BY DivIs
<1>2. k * d \in Int  OBVIOUS
<1>3. d * q <= k * d /\ k * d < d * q + d  BY <1>1, <1>2, DivIs
<1>4. d * q <= d * k /\ d * k < d * (q + 1)  BY <1>3
<1>5. q <= k /\ k < q + 1  BY <1>4, Cancel, CancelStrictly
<1> QED  BY <1>1, <1>5
\* A share of at most the whole, scaled by a strength of at most one and rounded
\* down to lots, costs at most what it is a share of.
Share(m, s, a, b, e, p, st) == ((s * a * e) \div ((m * b * 100 * p) * st)) * st
LEMMA OutlayWithin ==
  ASSUME NEW m \in Nat, NEW s \in Nat, NEW a \in Nat, NEW b \in Nat, NEW e \in Nat, NEW p \in Nat, NEW st \in Nat,
         m # 0, s <= m, a <= b, b # 0, p # 0, st # 0
  PROVE  100 * Share(m, s, a, b, e, p, st) * p <= e
<1>0. PICK c \in Nat \ {0} : c = m * b  OBVIOUS
<1>1. PICK n \in Nat : n = s * a * e  OBVIOUS
<1>2. PICK d \in Nat \ {0} : d = (m * b * 100 * p) * st
  <2>1. PICK x \in Nat \ {0} : x = c * 100 * p  OBVIOUS
  <2>2. x * st \in Nat \ {0}  BY <2>1
  <2> QED  BY <1>0, <2>1, <2>2
<1>3. PICK k \in Int : k = n \div d /\ d * k <= n
  <2>1. n \div d \in Int /\ d * (n \div d) <= n  BY <1>1, <1>2, DivIs
  <2> QED  BY <2>1
<1>4. \A x, y, z \in Nat : x <= y => x * z <= y * z /\ z * x <= z * y  OBVIOUS
<1>5. s * a <= c
  <2>1. PICK x \in Nat, y \in Nat : x = s * a /\ y = m * a  OBVIOUS
  <2>2. x <= y /\ y <= c  BY <1>0, <1>4, <2>1
  <2> QED  BY <2>1, <2>2
<1>6. n <= c * e
  <2>1. PICK x \in Nat : x = s * a  OBVIOUS
  <2>2. x * e <= c * e  BY <1>4, <1>5, <2>1
  <2> QED  BY <1>1, <2>1, <2>2
<1>7. PICK w \in Int : w = 100 * (k * st) * p  OBVIOUS
<1>8. d * k = c * w
  <2>1. d = (c * 100 * p) * st  BY <1>0, <1>2
  <2> QED  BY <1>7, <2>1
<1>9. c * w <= c * e
  <2>1. PICK x \in Int, y \in Int : x = c * w /\ y = c * e  OBVIOUS
  <2> QED  BY <1>3, <1>6, <1>8, <2>1
<1>10. w <= e  BY <1>9, Cancel
<1>11. Share(m, s, a, b, e, p, st) = k * st  BY <1>1, <1>2, <1>3 DEF Share
<1> QED  BY <1>7, <1>10, <1>11

-----------------------------------------------------------------------------
(* The backtest: what an entry is sized on.                                *)

LEMMA PairMin == ASSUME NEW a \in Int, NEW b \in Int
  PROVE  Min({a, b}) \in {a, b} /\ Min({a, b}) <= a /\ Min({a, b}) <= b
<1>1. \E x \in {a, b} : \A y \in {a, b} : x <= y  OBVIOUS
<1> QED  BY <1>1 DEF Min
LEMMA PairMax == ASSUME NEW a \in Int, NEW b \in Int
  PROVE  Max({a, b}) \in {a, b} /\ Max({a, b}) >= a /\ Max({a, b}) >= b
<1>1. \E x \in {a, b} : \A y \in {a, b} : x >= y  OBVIOUS
<1> QED  BY <1>1 DEF Max

LEMMA RatesAre ==
  /\ Taker \in Nat /\ HalfSpread \in Nat /\ AlphaLoss \in Nat /\ ImpactCoeff \in Nat /\ CostMultiplier \in Nat
  /\ GapReturn \in Nat /\ FundingPerPeriod \in Nat /\ FundingPeriods \in Nat /\ AdlHaircut \in Nat
<1>1. \A rate \in {Taker, Maker, HalfSpread, AlphaLoss, ImpactCoeff, CostMultiplier, GapReturn, FundingPerPeriod, FundingPeriods, AdlHaircut} :
        rate \in Nat
  BY BacktestAssumption, Zenon DEF BacktestAssumption
<1> QED  BY <1>1
LEMMA UnitsAre == Capital \in Int /\ TickSize \in Nat /\ StepSize \in Nat \ {0} /\ AdvWindow \in Nat \ {0}
  BY BacktestAssumption, Zenon DEF BacktestAssumption
LEMMA WithinIs == ASSUME NEW n \in Nat, NEW z \in 0 .. n  PROVE z \in Nat /\ z <= n  OBVIOUS
LEMMA SizeIs == MaxSizeBps \in Nat \ {0} /\ Strategy.size \in Nat /\ Strategy.size <= MaxSizeBps
<1>1. Strategy.size \in 0 .. MaxSizeBps  BY BacktestAssumption, Zenon DEF BacktestAssumption
<1>2. MaxSizeBps \in Nat /\ MaxSizeBps # 0  BY DEF MaxSizeBps
<1>3. Strategy.size \in Nat /\ Strategy.size <= MaxSizeBps  BY <1>1, <1>2, WithinIs, Zenon
<1> QED  BY <1>2, <1>3

\* A feature is never deeper in its band than half the band (clause_depth).
LEMMA DepthIs ==
  ASSUME NEW c \in Clauses, NEW features, \A f \in DOMAIN features : features[f] \in Int
  PROVE  /\ Depth(c, features) \in Int /\ FullDepth(c) \in Int
         /\ 0 <= Depth(c, features) /\ Depth(c, features) <= FullDepth(c)
<1>1. c.lo \in Nat /\ c.hi \in Nat  BY DEF Clauses
<1>2. PICK m \in Int : m = Max({c.hi - c.lo, 0}) /\ m >= c.hi - c.lo /\ m >= 0
  <2>1. PICK width \in Int : width = c.hi - c.lo  BY <1>1
  <2>0. 0 \in Int  OBVIOUS
  <2>2. Max({width, 0}) \in {width, 0} /\ Max({width, 0}) >= width /\ Max({width, 0}) >= 0  BY <2>0, <2>1, PairMax, Zenon
  <2>3. PICK m \in Int : m = Max({width, 0})  BY <2>2
  <2> QED  BY <2>1, <2>2, <2>3
<1>3. FullDepth(c) = IF c.enabled THEN 1 + m \div 2 ELSE 0  BY <1>2 DEF FullDepth
<1>4. CASE Satisfied(c, features)
  <2>1. PICK v \in Int : v = features[c.feature] /\ c.lo <= v /\ v <= c.hi  BY <1>4 DEF Satisfied
  <2>2. PICK d \in Int : d = Min({v - c.lo, c.hi - v}) /\ d <= v - c.lo /\ d <= c.hi - v /\ d \in {v - c.lo, c.hi - v}
    <3>1. PICK up \in Int, down \in Int : up = v - c.lo /\ down = c.hi - v  BY <1>1
    <3>2. Min({up, down}) \in {up, down} /\ Min({up, down}) <= up /\ Min({up, down}) <= down  BY <3>1, PairMin
    <3>3. PICK d \in Int : d = Min({up, down})  BY <3>2
    <3> QED  BY <3>1, <3>2, <3>3
  <2>3. Depth(c, features) = 1 + d  BY <1>4, <2>1, <2>2 DEF Depth
  <2>4. 0 <= d /\ 2 * d <= m  BY <1>1, <1>2, <2>1, <2>2
  <2>5. c.enabled  BY <1>4 DEF Satisfied
  <2> QED  BY <1>2, <1>3, <2>3, <2>4, <2>5
<1>5. CASE ~Satisfied(c, features)
  BY <1>2, <1>3, <1>5 DEF Depth
<1> QED  BY <1>4, <1>5

\* A conviction is a fraction (graded_conviction).
LEMMA ConvictionIs ==
  ASSUME NEW set, set.clauses \in Seq(Clauses), NEW features, \A f \in DOMAIN features : features[f] \in Int
  PROVE  /\ GradedConviction(set, features)[1] \in Nat /\ GradedConviction(set, features)[2] \in Nat \ {0}
         /\ GradedConviction(set, features)[1] <= GradedConviction(set, features)[2]
<1> DEFINE s == [i \in DOMAIN set.clauses |-> Depth(set.clauses[i], features)]
           t == [i \in DOMAIN set.clauses |-> FullDepth(set.clauses[i])]
<1>1. DOMAIN set.clauses = 1 .. Len(set.clauses) /\ Len(set.clauses) \in Nat
      /\ \A i \in 1 .. Len(set.clauses) : set.clauses[i] \in Clauses
  OBVIOUS
<1>2. \A i \in 1 .. Len(set.clauses) : s[i] \in Int /\ t[i] \in Int /\ 0 <= s[i] /\ s[i] <= t[i]
  BY <1>1, DepthIs
<1>3. s \in Seq(Int) /\ t \in Seq(Int) /\ Len(s) = Len(set.clauses) /\ Len(t) = Len(set.clauses)
  <2>1. PICK n \in Nat : n = Len(set.clauses) /\ DOMAIN set.clauses = 1 .. n  BY <1>1
  <2>2. s \in [1 .. n -> Int] /\ t \in [1 .. n -> Int]  BY <1>2, <2>1
  <2> HIDE DEF s, t
  <2>3. s \in Seq(Int) /\ t \in Seq(Int)  BY <2>2, SeqDef
  <2>4. DOMAIN s = 1 .. n /\ DOMAIN t = 1 .. n  BY <2>2
  <2>5. Len(s) = n /\ Len(t) = n  BY <2>3, <2>4, LenProperties
  <2> QED  BY <2>1, <2>3, <2>5
<1>4. GradedConviction(set, features) = IF SumOf(t) = 0 THEN <<0, 1>> ELSE <<SumOf(s), SumOf(t)>>
  BY DEF GradedConviction
<1> HIDE DEF s, t
<1>5. 0 <= SumOf(s) /\ SumOf(s) <= SumOf(t)  BY <1>2, <1>3, SumOfBelow
<1>6. SumOf(s) \in Int /\ SumOf(t) \in Int  BY <1>3, SumOfIs
<1> QED  BY <1>4, <1>5, <1>6

LEMMA StrengthIs ==
  ASSUME NEW features, \A f \in DOMAIN features : features[f] \in Int, NEW way
  PROVE  Fraction(EntryStrength(Strategy, features, way))
<1>1. PICK c : c = GradedConviction(IF way = "long" THEN Strategy.long ELSE Strategy.short, features)  OBVIOUS
<1>2. c[1] \in Nat /\ c[2] \in Nat \ {0} /\ c[1] <= c[2]
  BY <1>1, BacktestAssumption, ConvictionIs DEF BacktestAssumption
<1>3. EntryStrength(Strategy, features, way) = <<c[2] + c[1], 2 * c[2]>>  BY <1>1 DEF EntryStrength
<1> QED  BY <1>2, <1>3 DEF Fraction

(* The backtest: what a fill does to the cash and to the ledger.           *)

LEMMA CostsAre ==
  ASSUME NEW n \in Int, NEW qty \in Int, NEW adv, adv[1] \in Int, adv[2] \in Int
  PROVE  /\ Fee(n, "taker") * CostMultiplier \in Int
         /\ (SlippageCost(n, qty, adv) + AlphaLossCost(n)) * CostMultiplier \in Int
<1>0. Taker \in Int /\ HalfSpread \in Int /\ AlphaLoss \in Int /\ ImpactCoeff \in Int /\ CostMultiplier \in Int
  BY RatesAre
<1>1. Fee(n, "taker") \in Int  BY <1>0 DEF Fee
<1>2. Impact(qty, adv) \in Int
  <2>1. CASE adv[1] > 0 /\ qty > 0
    <3>1. qty * adv[2] \in Int /\ adv[1] \in Nat \ {0}  BY <2>1
    <3>2. PICK q \in Int : q = (qty * adv[2]) \div adv[1]  BY <3>1, DivIs
    <3> QED  BY <1>0, <2>1, <3>2 DEF Impact
  <2>2. CASE ~(adv[1] > 0 /\ qty > 0)  BY <2>2 DEF Impact
  <2> QED  BY <2>1, <2>2
<1>3. SlippageCost(n, qty, adv) \in Int  BY <1>0, <1>2 DEF SlippageCost
<1>4. AlphaLossCost(n) \in Int  BY <1>0 DEF AlphaLossCost
<1>5. SlippageCost(n, qty, adv) + AlphaLossCost(n) \in Int  BY <1>3, <1>4
<1> QED  BY <1>0, <1>1, <1>5

WithFill(b, cash, pos, l) == [b EXCEPT !.cash = cash, !.pos = pos, !.ledger = l]
WithCosts(l, fee, slip) == [l EXCEPT !.fees = l.fees + fee, !.slippage = l.slippage + slip]
\* What a fill changes: the cash, the position and the ledger, all three still
\* numbers and still in agreement.
Filled(b, r, pos, loss) ==
  /\ r.cash \in Int /\ r.ledger \in Ledgers /\ r.pos = pos /\ Agree(r, loss)
  /\ r = WithFill(b, r.cash, r.pos, r.ledger)

LEMMA BookFields ==
  ASSUME NEW b \in Books, NEW cash \in Int, NEW pos \in Int, NEW l \in Ledgers
  PROVE  LET r == WithFill(b, cash, pos, l)
         IN  /\ r \in Books /\ r.cash = cash /\ r.pos = pos /\ r.ledger = l
             /\ r.entry = b.entry /\ r.open = b.open /\ r.trades = b.trades /\ r.fills = b.fills
<1>1. PICK r : r = [b EXCEPT !.cash = cash, !.pos = pos, !.ledger = l]  OBVIOUS
<1>2. r \in Books  BY <1>1 DEF Books
<1>3. /\ r.cash = cash /\ r.pos = pos /\ r.ledger = l
      /\ r.entry = b.entry /\ r.open = b.open /\ r.trades = b.trades /\ r.fills = b.fills
  BY <1>1 DEF Books
<1>4. WithFill(b, cash, pos, l) = r  BY <1>1 DEF WithFill
<1> QED  BY <1>2, <1>3, <1>4
LEMMA FilledFields ==
  ASSUME NEW b \in Books, NEW r, NEW pos \in Int, NEW loss, Filled(b, r, pos, loss)
  PROVE  /\ r \in Books /\ r.pos = pos /\ Agree(r, loss)
         /\ r.entry = b.entry /\ r.open = b.open /\ r.trades = b.trades /\ r.fills = b.fills
<1>1. PICK cash \in Int, l \in Ledgers : cash = r.cash /\ l = r.ledger  BY DEF Filled
<1>2. r = WithFill(b, cash, pos, l)  BY <1>1 DEF Filled
<1>3. Agree(r, loss) /\ r.pos = pos  BY DEF Filled
<1>4. r \in Books /\ r.entry = b.entry /\ r.open = b.open /\ r.trades = b.trades /\ r.fills = b.fills
  BY <1>1, <1>2, BookFields
<1> QED  BY <1>3, <1>4
LEMMA LedgerFields ==
  ASSUME NEW l \in Ledgers
  PROVE  l.qty \in Int /\ l.avg \in Int /\ l.gross \in Int /\ l.fees \in Int /\ l.slippage \in Int /\ l.funding \in Int
  BY DEF Ledgers
\* The ledger after the costs of a fill.
LEMMA CostsBooked ==
  ASSUME NEW l \in Ledgers, NEW fee \in Int, NEW slip \in Int
  PROVE  LET m == WithCosts(l, fee, slip)
         IN  /\ m \in Ledgers
             /\ m.qty = l.qty /\ m.avg = l.avg /\ m.gross = l.gross /\ m.funding = l.funding
             /\ m.fees = l.fees + fee /\ m.slippage = l.slippage + slip
<1>1. PICK fees \in Int, slippage \in Int : fees = l.fees + fee /\ slippage = l.slippage + slip  BY LedgerFields
<1>2. PICK m : m = [l EXCEPT !.fees = fees, !.slippage = slippage]  OBVIOUS
<1>3. m \in Ledgers  BY <1>2 DEF Ledgers
<1>4. m.qty = l.qty /\ m.avg = l.avg /\ m.gross = l.gross /\ m.funding = l.funding /\ m.fees = fees /\ m.slippage = slippage
  BY <1>2 DEF Ledgers
<1>5. WithCosts(l, fee, slip) = m  BY <1>1, <1>2 DEF WithCosts
<1> QED  BY <1>1, <1>3, <1>4, <1>5
LEMMA BookTypes ==
  ASSUME NEW b \in Books
  PROVE  /\ b.cash \in Int /\ b.pos \in Int /\ b.entry \in Int /\ b.trades \in Nat /\ b.fills \in Seq(Exits) /\ b.ledger \in Ledgers
         /\ b.open = NoTrade \/ b.open \in Entries
         /\ Len(b.fills) \in Nat /\ DOMAIN b.fills = 1 .. Len(b.fills)
         /\ \A i \in 1 .. Len(b.fills) : b.fills[i].entry \in Nat /\ b.fills[i].exit \in Nat
<1>1. b.fills \in Seq(Exits)  BY DEF Books
<1>2. Len(b.fills) \in Nat /\ DOMAIN b.fills = 1 .. Len(b.fills)  BY <1>1
<1>3. \A i \in 1 .. Len(b.fills) : b.fills[i] \in Exits  BY <1>1
<1>4. \A i \in 1 .. Len(b.fills) : b.fills[i].entry \in Nat /\ b.fills[i].exit \in Nat  BY <1>3 DEF Exits
<1> QED  BY <1>1, <1>2, <1>4 DEF Books

LEMMA FillIs ==
  ASSUME NEW b \in Books, NEW side, NEW qty \in Int, NEW price \in Int, NEW adv, adv[1] \in Int, adv[2] \in Int,
         NEW l \in Ledgers, l = PositionApply(b.ledger, side, qty, price)
  PROVE  \E fee \in Int, slip \in Int :
           ApplyFill(b, side, qty, price, adv, "taker") =
             WithFill(b, b.cash - 100 * Signed(side, qty) * price - fee - slip, b.pos + Signed(side, qty), WithCosts(l, fee, slip))
<1>0. qty * price \in Int  OBVIOUS
<1>1. PICK fee \in Int : fee = Fee(qty * price, "taker") * CostMultiplier  BY <1>0, CostsAre
<1>2. PICK slip \in Int : slip = (SlippageCost(qty * price, qty, adv) + AlphaLossCost(qty * price)) * CostMultiplier  BY <1>0, CostsAre
<1>3. LedgerFill(b.ledger, side, qty, price, adv, "taker") = WithCosts(l, fee, slip)
  BY <1>1, <1>2 DEF LedgerFill, WithCosts
<1>4. ApplyFill(b, side, qty, price, adv, "taker") =
        WithFill(b, b.cash - 100 * Signed(side, qty) * price - fee - slip, b.pos + Signed(side, qty),
                 LedgerFill(b.ledger, side, qty, price, adv, "taker"))
  BY <1>1, <1>2 DEF ApplyFill, Cents, WithFill
<1>5. ApplyFill(b, side, qty, price, adv, "taker") =
        WithFill(b, b.cash - 100 * Signed(side, qty) * price - fee - slip, b.pos + Signed(side, qty), WithCosts(l, fee, slip))
  BY <1>3, <1>4
<1> QED  BY <1>5

\* From flat the ledger's average is the price paid.
LEMMA OpenFilled ==
  ASSUME NEW b \in Books, NEW loss \in Int, Agree(b, loss), b.pos = 0, NEW side \in {"buy", "sell"},
         NEW qty \in Nat \ {0}, NEW price \in Int, NEW adv, adv[1] \in Int, adv[2] \in Int
  PROVE  Filled(b, ApplyFill(b, side, qty, price, adv, "taker"), Signed(side, qty), loss)
<1>1. PICK s \in Int : s = Signed(side, qty) /\ Abs(s) = qty /\ s # 0  BY DEF Signed, Abs
<1>2. PICK l \in Ledgers, cash \in Int : l = b.ledger /\ l.qty = 0 /\ cash = b.cash  BY BookTypes DEF Agree
<1>3. PICK avg \in Int, gross \in Int, fees \in Int, slippage \in Int, funding \in Int :
        avg = l.avg /\ gross = l.gross /\ fees = l.fees /\ slippage = l.slippage /\ funding = l.funding
  BY LedgerFields
<1>4. PICK v \in Int : v = s * price  OBVIOUS
<1>5. PICK opened \in Ledgers : opened = [l EXCEPT !.qty = s, !.avg = price]
  <2>1. [l EXCEPT !.qty = s, !.avg = price] \in Ledgers  BY <1>1, <1>2 DEF Ledgers
  <2> QED  BY <2>1
<1>6. opened.qty = s /\ opened.avg = price /\ opened.gross = gross /\ opened.fees = fees /\ opened.slippage = slippage /\ opened.funding = funding
  BY <1>3, <1>5 DEF Ledgers
<1>7. PositionApply(b.ledger, side, qty, price) = opened
  <2>1. (avg * Abs(0) + price * qty) \div Abs(s) = price
    <3>1. avg * Abs(0) + price * qty = price * qty  BY DEF Abs
    <3> QED  BY <1>1, <3>1, DivMul
  <2>2. 0 + s = s  OBVIOUS
  <2>3. PositionApply(l, side, qty, price) = [l EXCEPT !.qty = 0 + s, !.avg = (avg * Abs(0) + price * qty) \div Abs(0 + s)]
    BY <1>1, <1>2, <1>3 DEF PositionApply
  <2> QED  BY <1>2, <1>5, <2>1, <2>2, <2>3
<1>8. PICK fee \in Int, slip \in Int :
        ApplyFill(b, side, qty, price, adv, "taker") =
          WithFill(b, b.cash - 100 * Signed(side, qty) * price - fee - slip, b.pos + Signed(side, qty), WithCosts(opened, fee, slip))
  <2>1. qty \in Int  OBVIOUS
  <2> QED  BY <1>5, <1>7, <2>1, FillIs
<1>9. PICK m \in Ledgers : /\ m = WithCosts(opened, fee, slip)
                           /\ m.qty = s /\ m.avg = price /\ m.gross = gross /\ m.funding = funding
                           /\ m.fees = fees + fee /\ m.slippage = slippage + slip
  <2>0. opened \in Ledgers /\ fee \in Int /\ slip \in Int  BY <1>5, <1>8
  <2>1. PICK m : m = WithCosts(opened, fee, slip)  OBVIOUS
  <2>2. /\ m \in Ledgers
        /\ m.qty = opened.qty /\ m.avg = opened.avg /\ m.gross = opened.gross /\ m.funding = opened.funding
        /\ m.fees = opened.fees + fee /\ m.slippage = opened.slippage + slip
    BY <2>0, <2>1, CostsBooked
  <2> QED  BY <1>6, <2>1, <2>2
<1>10. PICK rest \in Int : rest = cash - 100 * v - fee - slip  OBVIOUS
<1>11. b.pos + Signed(side, qty) = s  BY <1>1
<1>12. b.cash - 100 * Signed(side, qty) * price - fee - slip = rest
  <2>1. 100 * s * price = 100 * v  BY <1>4
  <2> QED  BY <1>1, <1>2, <1>10, <2>1
<1>13. PICK r : r = ApplyFill(b, side, qty, price, adv, "taker")  OBVIOUS
<1>14. r = WithFill(b, rest, s, m)  BY <1>8, <1>9, <1>11, <1>12, <1>13
<1>15. r.cash = rest /\ r.pos = s /\ r.ledger = m  BY <1>1, <1>9, <1>10, <1>14, BookFields
<1>16. rest = Capital + 100 * (m.gross - m.qty * m.avg) - m.fees - m.slippage + m.funding - loss
  <2>1. cash = Capital + 100 * (gross - 0 * avg) - fees - slippage + funding - loss  BY <1>2, <1>3 DEF Agree, Cents
  <2>2. cash = Capital + 100 * gross - fees - slippage + funding - loss  BY <2>1, UnitsAre
  <2>3. m.qty * m.avg = v  BY <1>4, <1>9
  <2>4. rest = Capital + 100 * (gross - v) - (fees + fee) - (slippage + slip) + funding - loss  BY <1>10, <2>2, UnitsAre
  <2>5. m.gross - m.qty * m.avg = gross - v  BY <1>9, <2>3
  <2> QED  BY <1>9, <2>4, <2>5
<1>17. Agree(r, loss)  BY <1>9, <1>15, <1>16 DEF Agree, Cents
<1> QED  BY <1>1, <1>13, <1>14, <1>15, <1>17 DEF Filled

\* Closed whole, the ledger has realised what the cash has received.
LEMMA WholeClosed ==
  ASSUME NEW b \in Books, NEW loss \in Int, Agree(b, loss), b.pos # 0, NEW price \in Int,
         NEW adv, adv[1] \in Int, adv[2] \in Int
  PROVE  Filled(b, ApplyFill(b, IF b.pos > 0 THEN "sell" ELSE "buy", Abs(b.pos), price, adv, "taker"), 0, loss)
<1>1. PICK l \in Ledgers, cash \in Int, p \in Int : l = b.ledger /\ l.qty = p /\ cash = b.cash /\ p = b.pos /\ p # 0
  BY BookTypes DEF Agree
<1>2. PICK avg \in Int, gross \in Int, fees \in Int, slippage \in Int, funding \in Int :
        avg = l.avg /\ gross = l.gross /\ fees = l.fees /\ slippage = l.slippage /\ funding = l.funding
  BY LedgerFields
<1>3. PICK side \in {"buy", "sell"} : side = IF p > 0 THEN "sell" ELSE "buy"  OBVIOUS
<1>4. PICK qty \in Nat \ {0} : qty = IF p < 0 THEN -p ELSE p  BY <1>1
<1>5. Abs(p) = qty /\ Signed(side, qty) = -p  BY <1>3, <1>4 DEF Abs, Signed
<1>6. PICK sign \in Int : sign = IF p > 0 THEN 1 ELSE -1  OBVIOUS
<1>7. PICK v \in Int : v = p * price  OBVIOUS
<1>8. PICK u \in Int : u = p * avg  OBVIOUS
<1>9. sign * (price - avg) * qty = v - u
  <2>1. sign * qty = p  BY <1>1, <1>4, <1>6
  <2>2. sign * (price - avg) * qty = (sign * qty) * (price - avg)  OBVIOUS
  <2>3. sign * (price - avg) * qty = p * (price - avg)  BY <2>1, <2>2
  <2>4. p * (price - avg) = p * price - p * avg  OBVIOUS
  <2> QED  BY <1>7, <1>8, <2>3, <2>4
<1>10. PICK made \in Int : made = gross + (v - u)  OBVIOUS
<1>11. PICK closed \in Ledgers : closed = [l EXCEPT !.qty = 0, !.gross = made, !.avg = 0]
  <2>1. PICK none \in Int : none = 0  OBVIOUS
  <2>2. [l EXCEPT !.qty = none, !.gross = made, !.avg = none] \in Ledgers  BY <1>1, <1>10, <2>1 DEF Ledgers
  <2> QED  BY <2>1, <2>2
<1>12. closed.qty = 0 /\ closed.avg = 0 /\ closed.gross = made /\ closed.fees = fees /\ closed.slippage = slippage /\ closed.funding = funding
  BY <1>2, <1>11 DEF Ledgers
<1>13. PositionApply(b.ledger, side, qty, price) = closed
  <2>0. qty \in Int  BY <1>4
  <2>1. Min({qty, Abs(p)}) = qty  BY <1>5, <2>0, PairMin
  <2>2. p + Signed(side, qty) = 0  BY <1>5
  <2>3. ~(p = 0 \/ (p > 0) = (Signed(side, qty) > 0))  BY <1>1, <1>5
  <2>4. PositionApply(l, side, qty, price) = [l EXCEPT !.qty = 0, !.gross = gross + sign * (price - avg) * qty, !.avg = 0]
    BY <1>1, <1>2, <1>6, <2>1, <2>2, <2>3 DEF PositionApply
  <2> QED  BY <1>1, <1>9, <1>10, <1>11, <2>4
<1>14. PICK fee \in Int, slip \in Int :
        ApplyFill(b, side, qty, price, adv, "taker") =
          WithFill(b, b.cash - 100 * Signed(side, qty) * price - fee - slip, b.pos + Signed(side, qty), WithCosts(closed, fee, slip))
  <2>1. qty \in Int  BY <1>4
  <2> QED  BY <1>3, <1>11, <1>13, <2>1, FillIs
<1>15. PICK m \in Ledgers : /\ m = WithCosts(closed, fee, slip)
                            /\ m.qty = 0 /\ m.avg = 0 /\ m.gross = made /\ m.funding = funding
                            /\ m.fees = fees + fee /\ m.slippage = slippage + slip
  <2>0. closed \in Ledgers /\ fee \in Int /\ slip \in Int  BY <1>11, <1>14
  <2>1. PICK m : m = WithCosts(closed, fee, slip)  OBVIOUS
  <2>2. /\ m \in Ledgers
        /\ m.qty = closed.qty /\ m.avg = closed.avg /\ m.gross = closed.gross /\ m.funding = closed.funding
        /\ m.fees = closed.fees + fee /\ m.slippage = closed.slippage + slip
    BY <2>0, <2>1, CostsBooked
  <2> QED  BY <1>12, <2>1, <2>2
<1>16. PICK rest \in Int : rest = cash + 100 * v - fee - slip  OBVIOUS
<1>17. b.pos + Signed(side, qty) = 0  BY <1>1, <1>5
<1>18. b.cash - 100 * Signed(side, qty) * price - fee - slip = rest
  <2>1. 100 * (-p) * price = -(100 * v)  BY <1>7
  <2> QED  BY <1>1, <1>5, <1>16, <2>1
<1>19. PICK r : r = ApplyFill(b, side, qty, price, adv, "taker")  OBVIOUS
<1>20. r = WithFill(b, rest, 0, m)  BY <1>14, <1>15, <1>17, <1>18, <1>19
<1>21. r.cash = rest /\ r.pos = 0 /\ r.ledger = m
  <2>1. 0 \in Int  OBVIOUS
  <2> QED  BY <1>15, <1>16, <1>20, <2>1, BookFields
<1>22. rest = Capital + 100 * (m.gross - m.qty * m.avg) - m.fees - m.slippage + m.funding - loss
  <2>1. cash = Capital + 100 * (gross - p * avg) - fees - slippage + funding - loss  BY <1>1, <1>2 DEF Agree, Cents
  <2>2. cash = Capital + 100 * (gross - u) - fees - slippage + funding - loss  BY <1>8, <2>1
  <2>3. m.qty * m.avg = 0  BY <1>15
  <2>4. rest = Capital + 100 * made - (fees + fee) - (slippage + slip) + funding - loss  BY <1>10, <1>16, <2>2, UnitsAre
  <2>5. m.gross - m.qty * m.avg = made  BY <1>15, <2>3
  <2> QED  BY <1>15, <2>4, <2>5
<1>23. Agree(r, loss)  BY <1>15, <1>21, <1>22 DEF Agree, Cents
<1>24. Filled(b, r, 0, loss)  BY <1>20, <1>21, <1>23 DEF Filled
<1> QED  BY <1>1, <1>3, <1>5, <1>19, <1>24

-----------------------------------------------------------------------------
(* The backtest: orders, funding, shocks and decisions.                    *)

LEMMA PriceIs == ASSUME NEW p \in Nat PROVE QuantizePrice(p) \in Int
<1>1. TickSize \in Nat  BY UnitsAre
<1>2. CASE TickSize > 0
  <2>1. PICK q \in Int : q = p \div TickSize  BY <1>1, <1>2, DivIs
  <2>2. RoundHalfEven(p, TickSize) \in {q, q + 1}  BY <2>1 DEF RoundHalfEven
  <2>3. PICK r \in Int : r = RoundHalfEven(p, TickSize)  BY <2>2
  <2> QED  BY <1>1, <2>3 DEF QuantizePrice
<1> QED  BY <1>1, <1>2 DEF QuantizePrice

LEMMA LotsAre == ASSUME NEW k \in Int PROVE Lots(k * StepSize) /\ Lots(-(k * StepSize))
<1>1. StepSize \in Nat \ {0}  BY UnitsAre
<1>2. (k * StepSize) \div StepSize = k  BY <1>1, DivMul
<1>3. -k \in Int /\ -(k * StepSize) = (-k) * StepSize  BY <1>1
<1>4. ((-k) * StepSize) \div StepSize = -k  BY <1>1, <1>3, DivMul
<1> QED  BY <1>2, <1>3, <1>4 DEF Lots

\* A whole position of lots is closed whole: rounding it down leaves nothing over.
LEMMA WholeIs ==
  ASSUME NEW q \in Int, Lots(q)
  PROVE  QuantizeQty(Abs(q), 1) = Abs(q)
<1>1. StepSize \in Nat \ {0}  BY UnitsAre
<1>2. PICK k \in Int : k = q \div StepSize  BY <1>1, DivIs
<1>3. q = k * StepSize  BY <1>2 DEF Lots
<1>4. PICK j \in Int : Abs(q) = j * StepSize
  <2>1. CASE q < 0
    <3>1. -k \in Int /\ Abs(q) = (-k) * StepSize  BY <1>1, <1>3, <2>1 DEF Abs
    <3> QED  BY <3>1
  <2>2. CASE ~(q < 0)  BY <1>3, <2>2 DEF Abs
  <2> QED  BY <2>1, <2>2
<1>5. (j * StepSize) \div StepSize = j  BY <1>1, DivMul
<1> QED  BY <1>1, <1>4, <1>5 DEF QuantizeQty

\* An entry is a number of lots, and the equity it is sized on covers it.
LEMMA EntryIs ==
  ASSUME NEW f, Fraction(f), NEW e \in Int, NEW p \in Nat \ {0}
  PROVE  \E k \in Int : /\ EntryQty(f, e, p) = k * StepSize
                        /\ k * StepSize > 0 => e > 0 /\ Cents * EntryQty(f, e, p) * p <= e
<1>1. StepSize \in Nat \ {0}  BY UnitsAre
<1>2. CASE e <= 0
  <2>1. EntryQty(f, e, p) = 0 * StepSize  BY <1>1, <1>2 DEF EntryQty
  <2> QED  BY <1>1, <2>1
<1>3. CASE e > 0
  <2>1. PICK a \in Nat, c \in Nat \ {0} : a = f[1] /\ c = f[2] /\ a <= c  BY DEF Fraction
  <2>2. PICK s \in Nat, m \in Nat : s = Strategy.size /\ m = MaxSizeBps /\ s <= m /\ m # 0  BY SizeIs
  <2>3. PICK n \in Int : n = s * a * e  OBVIOUS
  <2>4. PICK d \in Nat \ {0} : d = (m * c * 100 * p) * StepSize
    <3>1. PICK x \in Nat \ {0} : x = m * c
      <4>1. m \in Nat \ {0}  BY <2>2
      <4> QED  BY <2>1, <4>1
    <3>2. PICK y \in Nat \ {0} : y = x * 100 * p  OBVIOUS
    <3>3. y * StepSize \in Nat \ {0}  BY <1>1
    <3> QED  BY <3>1, <3>2, <3>3
  <2>5. PICK k \in Int : k = n \div d  BY <2>3, <2>4, DivIs
  <2>6. EntryQty(f, e, p) = k * StepSize
    <3>1. ~ (e <= 0)  BY <1>3
    <3>2. EntryQty(f, e, p) = QuantizeQty(s * a * e, m * c * Cents * p)
      BY <2>1, <2>2, <3>1, Zenon DEF EntryQty
    <3>3. Cents = 100  BY DEF Cents
    <3> QED  BY <2>3, <2>4, <2>5, <3>2, <3>3 DEF QuantizeQty
  <2>7. 100 * (k * StepSize) * p <= e
    <3>1. PICK stake \in Nat : stake = e  BY <1>3
    <3>2. PICK lot \in Nat \ {0} : lot = StepSize  BY <1>1
    <3>3. /\ a \in Nat /\ c \in Nat /\ p \in Nat /\ lot \in Nat /\ a <= c /\ c # 0 /\ p # 0 /\ lot # 0
          /\ s \in Nat /\ m \in Nat /\ s <= m /\ m # 0
      <4>1. a \in Nat /\ c \in Nat /\ c # 0 /\ a <= c  BY <2>1
      <4>2. lot \in Nat /\ lot # 0  BY <3>2
      <4>3. p \in Nat /\ p # 0  OBVIOUS
      <4>4. s \in Nat /\ m \in Nat /\ s <= m /\ m # 0  BY <2>2
      <4> QED  BY <4>1, <4>2, <4>3, <4>4
    <3>4. 100 * Share(m, s, a, c, stake, p, lot) * p <= stake
      <4> HIDE DEF Share
      <4> QED  BY <3>1, <3>3, OutlayWithin, Zenon
    <3>5. Share(m, s, a, c, stake, p, lot) = k * StepSize  BY <2>3, <2>4, <2>5, <3>1, <3>2 DEF Share
    <3> QED  BY <3>1, <3>4, <3>5
  <2> QED  BY <1>3, <2>6, <2>7 DEF Cents
<1> QED  BY <1>2, <1>3

BookKept(b, loss, n) == b \in Books /\ Agree(b, loss) /\ TradesOf(b, n)

LEMMA BarsPass ==
  ASSUME NEW b, NEW loss, NEW n \in Nat, BookKept(b, loss, n)
  PROVE  BookKept(b, loss, n + 1)
<1>1. b.open = NoTrade \/ b.open \in Entries  BY DEF BookKept, Books
<1>2. \A i \in DOMAIN b.fills : b.fills[i].exit \in Nat  BY BookTypes DEF BookKept
<1> QED  BY <1>1, <1>2 DEF BookKept, TradesOf

\* An entry from flat is the only trade, and paid for.
LEMMA EnterKeeps ==
  ASSUME NEW b, NEW loss \in Int, bar \in Nat, BookKept(b, loss, bar), b.pos = 0, NEW order, order.dir \in {"long", "short"},
         Fraction(order.strength), equityPrev \in Int, NEW price \in Nat \ {0}, NEW adv, adv[1] \in Int, adv[2] \in Int
  PROVE  BookKept(EnterFilled(b, order, price, adv), loss, bar + 1)
<1>1. PICK px \in Int : px = QuantizePrice(price)  BY PriceIs
<1>2. StepSize \in Nat \ {0}  BY UnitsAre
<1>3. PICK k \in Int : /\ EntryQty(order.strength, equityPrev, price) = k * StepSize
                       /\ k * StepSize > 0 => equityPrev > 0 /\ Cents * EntryQty(order.strength, equityPrev, price) * price <= equityPrev
  BY EntryIs
<1>4. PICK qty \in Int : qty = k * StepSize  BY <1>2
<1>5. PICK side \in {"buy", "sell"} : side = IF order.dir = "long" THEN "buy" ELSE "sell"  OBVIOUS
<1>6. CASE ~FillOk(px, qty, TRUE)
  <2>1. EnterFilled(b, order, price, adv) = b  BY <1>1, <1>3, <1>4, <1>6 DEF EnterFilled
  <2> QED  BY <2>1, BarsPass
<1>7. CASE FillOk(px, qty, TRUE)
  <2>1. qty \in Nat \ {0}  BY <1>7 DEF FillOk
  <2>2. equityPrev > 0 /\ Cents * qty * price <= equityPrev  BY <1>3, <1>4, <2>1
  <2>3. PICK a : a = ApplyFill(b, side, qty, px, adv, "taker")  OBVIOUS
  <2>4. Filled(b, a, Signed(side, qty), loss)  BY <2>1, <2>3, OpenFilled DEF BookKept
  <2>5. PICK r : r = EnterFilled(b, order, price, adv)  OBVIOUS
  <2>6. PICK o : o = [entry |-> bar, dir |-> order.dir, px |-> px, stake |-> equityPrev, outlay |-> Cents * qty * price]  OBVIOUS
  <2>7. r = [a EXCEPT !.entry = bar, !.trades = a.trades + 1, !.open = o]
    BY <1>1, <1>3, <1>4, <1>5, <1>7, <2>3, <2>5, <2>6 DEF EnterFilled
  <2>8. Cents * qty * price \in Int  BY DEF Cents
  <2>9. o \in Entries /\ o # NoTrade  BY <2>6, <2>8 DEF Entries, NoTrade
  <2>10. Signed(side, qty) \in Int /\ Signed(side, qty) # 0 /\ (Signed(side, qty) > 0) = (order.dir = "long")
    BY <1>5, <2>1 DEF Signed
  <2>11. b \in Books /\ b.trades \in Nat /\ b.fills \in Seq(Exits) /\ b.open = NoTrade /\ b.trades = Len(b.fills)
    BY DEF BookKept, Books, TradesOf
  <2>12. a \in Books /\ a.trades = b.trades /\ a.fills = b.fills  BY <2>4, <2>10, <2>11, FilledFields
  <2>13. PICK trades \in Nat : trades = b.trades + 1  BY <2>11
  <2>14. r \in Books
    <3>1. r = [a EXCEPT !.entry = bar, !.trades = trades, !.open = o]  BY <2>7, <2>12, <2>13
    <3>2. bar \in Int  OBVIOUS
    <3> QED  BY <2>9, <2>12, <2>13, <3>1, <3>2 DEF Books
  <2>15. r.cash = a.cash /\ r.pos = a.pos /\ r.ledger = a.ledger /\ r.fills = b.fills /\ r.trades = b.trades + 1 /\ r.open = o /\ r.entry = bar
    BY <2>7, <2>12, <2>13 DEF Books
  <2>16. Agree(r, loss)  BY <2>4, <2>15 DEF Filled, Agree
  <2>17. r.pos = Signed(side, qty)  BY <2>4, <2>15 DEF Filled
  <2>18. Lots(r.pos)  BY <1>4, <2>17, LotsAre DEF Signed
  <2>19. TradesOf(r, bar + 1)
    <3>1. o.dir = order.dir /\ o.entry = bar /\ o.stake > 0 /\ o.outlay <= o.stake  BY <2>2, <2>6
    <3>2. \A i \in DOMAIN b.fills : b.fills[i].exit \in Nat /\ b.fills[i].exit < bar /\ b.fills[i].entry < b.fills[i].exit
      BY BookTypes DEF BookKept, TradesOf
    <3>3. \A i \in 1 .. Len(b.fills) - 1 : b.fills[i].exit < b.fills[i + 1].entry  BY DEF BookKept, TradesOf
    <3>4. \A i \in DOMAIN r.fills : r.fills[i].exit < r.entry /\ r.fills[i].exit < bar + 1 /\ r.fills[i].entry < r.fills[i].exit
      BY <2>15, <3>2
    <3>5. \A i \in 1 .. Len(r.fills) - 1 : r.fills[i].exit < r.fills[i + 1].entry  BY <2>15, <3>3
    <3>6. r.trades = Len(r.fills) + 1 /\ r.pos # 0 /\ r.open # NoTrade /\ r.entry \in 0 .. (bar + 1) - 1
      BY <2>9, <2>10, <2>11, <2>15, <2>17
    <3>7. (r.pos > 0) = (r.open.dir = "long") /\ r.open.entry = r.entry /\ r.open.stake > 0 /\ r.open.outlay <= r.open.stake
      BY <2>10, <2>15, <2>17, <3>1
    <3> QED  BY <2>18, <3>4, <3>5, <3>6, <3>7 DEF TradesOf
  <2> QED  BY <2>5, <2>14, <2>16, <2>19 DEF BookKept
<1> QED  BY <1>6, <1>7

\* A close is of the whole position, and ends the trade it began with.
LEMMA CloseKeeps ==
  ASSUME NEW b, NEW loss \in Int, bar \in Nat, BookKept(b, loss, bar), b.pos # 0,
         NEW price \in Nat \ {0}, NEW adv, adv[1] \in Int, adv[2] \in Int
  PROVE  BookKept(CloseFilled(b, price, adv), loss, bar + 1)
<1>1. PICK px \in Int : px = QuantizePrice(price)  BY PriceIs
<1>2. b \in Books /\ b.pos \in Int /\ b.trades \in Nat /\ b.fills \in Seq(Exits) /\ b.open # NoTrade /\ b.open \in Entries /\ Lots(b.pos)
  BY DEF BookKept, Books, TradesOf
<1>3. QuantizeQty(Abs(b.pos), 1) = Abs(b.pos)  BY <1>2, WholeIs
<1>4. FillOk(px, Abs(b.pos), FALSE)  BY <1>2 DEF FillOk, Abs
<1>5. PICK a : a = ApplyFill(b, IF b.pos > 0 THEN "sell" ELSE "buy", Abs(b.pos), px, adv, "taker")  OBVIOUS
<1>6. Filled(b, a, 0, loss)  BY <1>5, WholeClosed DEF BookKept
<1>7. PICK r : r = CloseFilled(b, price, adv)  OBVIOUS
<1>8. PICK x : x = [entry |-> b.open.entry, exit |-> bar, dir |-> b.open.dir, entryPx |-> b.open.px, exitPx |-> px]  OBVIOUS
<1>9. a \in Books /\ Agree(a, loss) /\ a.pos = 0  BY <1>2, <1>6, FilledFields
<1>10. a.trades = b.trades /\ a.fills = b.fills /\ a.open = b.open  BY <1>2, <1>6, FilledFields
<1>11. r = [a EXCEPT !.entry = -1, !.open = NoTrade, !.fills = Append(b.fills, x)]
  BY <1>1, <1>2, <1>3, <1>4, <1>5, <1>7, <1>8, <1>10 DEF CloseFilled
<1>12. x \in Exits  BY <1>2, <1>8 DEF Entries, Exits
<1>13. PICK fills \in Seq(Exits) : fills = Append(b.fills, x)
  <2>1. PICK old \in Seq(Exits) : old = b.fills  BY <1>2
  <2>2. Append(old, x) \in Seq(Exits)  BY <1>12, <2>1
  <2> QED  BY <2>1, <2>2
<1>14. /\ Len(fills) = Len(b.fills) + 1 /\ Len(b.fills) \in Nat
       /\ \A i \in 1 .. Len(b.fills) : fills[i] = b.fills[i]
       /\ fills[Len(b.fills) + 1] = x
  BY <1>2, <1>12, <1>13
<1>15. r \in Books
  <2>1. PICK shut \in Int : shut = -1  OBVIOUS
  <2>2. r = [a EXCEPT !.entry = shut, !.open = NoTrade, !.fills = fills]  BY <1>11, <1>13, <2>1
  <2> QED  BY <1>9, <1>13, <2>1, <2>2 DEF Books
<1>16. r.cash = a.cash /\ r.pos = a.pos /\ r.ledger = a.ledger /\ r.fills = fills /\ r.trades = b.trades /\ r.open = NoTrade /\ r.entry = -1
  BY <1>9, <1>10, <1>11, <1>13 DEF Books
<1>17. Agree(r, loss)  BY <1>6, <1>16 DEF Filled, Agree
<1>18. r.pos = 0  BY <1>6, <1>16 DEF Filled
<1>19. TradesOf(r, bar + 1)
  <2>1. x.entry = b.entry /\ x.exit = bar /\ b.entry \in 0 .. bar - 1 /\ b.trades = Len(b.fills) + 1
    BY <1>2, <1>8 DEF BookKept, TradesOf
  <2>2. \A i \in 1 .. Len(b.fills) : b.fills[i].exit \in Nat /\ b.fills[i].exit < bar /\ b.fills[i].entry < b.fills[i].exit /\ b.fills[i].exit < b.entry
    BY <1>2, BookTypes DEF BookKept, TradesOf
  <2>3. \A i \in 1 .. Len(b.fills) - 1 : b.fills[i].exit < b.fills[i + 1].entry  BY DEF BookKept, TradesOf
  <2>4. ASSUME NEW i \in 1 .. Len(fills) PROVE fills[i].entry < fills[i].exit /\ fills[i].exit < bar + 1
    <3>1. CASE i = Len(b.fills) + 1  BY <1>14, <2>1, <3>1
    <3>2. CASE i # Len(b.fills) + 1
      <4>1. i \in 1 .. Len(b.fills)  BY <1>14, <3>2
      <4>2. fills[i] = b.fills[i] /\ b.fills[i].exit \in Nat /\ b.fills[i].exit < bar /\ b.fills[i].entry < b.fills[i].exit
        BY <1>14, <2>2, <4>1
      <4>3. b.fills[i].exit < bar + 1  BY <4>2
      <4> QED  BY <4>2, <4>3
    <3> QED  BY <3>1, <3>2
  <2>5. ASSUME NEW i \in 1 .. Len(fills) - 1 PROVE fills[i].exit < fills[i + 1].entry
    <3>1. i \in 1 .. Len(b.fills) /\ fills[i] = b.fills[i]  BY <1>14
    <3>2. CASE i = Len(b.fills)  BY <1>14, <2>1, <2>2, <3>1, <3>2
    <3>3. CASE i # Len(b.fills)
      <4>1. i + 1 \in 1 .. Len(b.fills) /\ i \in 1 .. Len(b.fills) - 1  BY <1>14, <3>1, <3>3
      <4> QED  BY <1>14, <2>3, <3>1, <4>1
    <3> QED  BY <3>2, <3>3
  <2>6. DOMAIN r.fills = 1 .. Len(fills)  BY <1>13, <1>16
  <2>7. Lots(r.pos)
    <3>1. StepSize \in Nat \ {0} /\ 0 * StepSize = 0  BY BacktestAssumption DEF BacktestAssumption
    <3>2. 0 \in Int  OBVIOUS
    <3>3. Lots(0)  BY <3>1, <3>2, LotsAre
    <3> QED  BY <1>18, <3>3
  <2>8. r.trades = Len(r.fills) + 0  BY <1>14, <1>16, <2>1
  <2> QED  BY <1>16, <1>18, <2>4, <2>5, <2>6, <2>7, <2>8 DEF TradesOf
<1> QED  BY <1>7, <1>15, <1>17, <1>19 DEF BookKept

LEMMA OrderKeeps ==
  ASSUME NEW b, NEW loss \in Int, bar \in Nat, BookKept(b, loss, bar), OrderSuits(b, pending), equityPrev \in Int,
         NEW price \in Nat, NEW adv, adv[1] \in Int, adv[2] \in Int
  PROVE  BookKept(OrderFilled(b, price, adv), loss, bar + 1)
<1>1. CASE price = 0 \/ pending = NoOrder
  <2>1. OrderFilled(b, price, adv) = b
    <3>1. CASE price = 0  BY <3>1 DEF OrderFilled
    <3>2. CASE pending = NoOrder
      <4>1. pending.kind # "enter" /\ pending.kind # "close"  BY <3>2 DEF NoOrder
      <4> QED  BY <3>2, <4>1 DEF OrderFilled
    <3> QED  BY <1>1, <3>1, <3>2
  <2> QED  BY <2>1, BarsPass
<1>2. CASE price > 0 /\ pending # NoOrder /\ pending.kind = "enter"
  <2>1. OrderFilled(b, price, adv) = EnterFilled(b, pending, price, adv)  BY <1>2 DEF OrderFilled
  <2> QED  BY <1>2, <2>1, EnterKeeps DEF OrderSuits
<1>3. CASE price > 0 /\ pending # NoOrder /\ pending.kind = "close"
  <2>1. OrderFilled(b, price, adv) = CloseFilled(b, price, adv)  BY <1>3 DEF OrderFilled
  <2> QED  BY <1>3, <2>1, CloseKeeps DEF OrderSuits
<1>4. pending = NoOrder \/ pending.kind \in {"enter", "close"}  BY DEF OrderSuits
<1> QED  BY <1>1, <1>2, <1>3, <1>4

\* Funding moves the cash and the ledger by the same amount.
LEMMA FundingKeeps ==
  ASSUME NEW b, NEW loss \in Int, NEW n \in Nat, BookKept(b, loss, n), NEW price \in Nat, NEW rate \in Int
  PROVE  BookKept(ApplyFunding(b, price, rate), loss, n)
<1>1. b \in Books /\ b.pos \in Int /\ b.cash \in Int /\ b.ledger \in Ledgers /\ b.ledger.qty = b.pos
  BY DEF BookKept, Books, Agree
<1>2. PICK f \in Int : f = b.pos * price * rate  BY <1>1
<1>3. PICK cash \in Int : cash = b.cash - f  BY <1>1
<1>4. PICK l \in Ledgers : l = [b.ledger EXCEPT !.funding = b.ledger.funding - f]
  <2>1. PICK funding \in Int : funding = b.ledger.funding - f  BY <1>1, <1>2, LedgerFields
  <2>2. [b.ledger EXCEPT !.funding = funding] \in Ledgers  BY <1>1, <2>1 DEF Ledgers
  <2> QED  BY <2>1, <2>2
<1>5. PICK r : r = ApplyFunding(b, price, rate)  OBVIOUS
<1>6. r = [b EXCEPT !.cash = cash, !.ledger = l]  BY <1>1, <1>2, <1>3, <1>4, <1>5 DEF ApplyFunding, LedgerFunding
<1>7. r \in Books /\ r.cash = cash /\ r.ledger = l /\ r.pos = b.pos /\ r.entry = b.entry /\ r.open = b.open /\ r.trades = b.trades /\ r.fills = b.fills
  BY <1>1, <1>6 DEF Books
<1>8. TradesOf(r, n)  BY <1>7 DEF BookKept, TradesOf
<1>9. Agree(r, loss)
  <2>1. l.qty = b.ledger.qty /\ l.avg = b.ledger.avg /\ l.gross = b.ledger.gross /\ l.fees = b.ledger.fees /\ l.slippage = b.ledger.slippage
        /\ l.funding = b.ledger.funding - f
    BY <1>1, <1>4 DEF Ledgers
  <2>2. PICK v \in Int : v = Cents * (b.ledger.gross - b.ledger.qty * b.ledger.avg)  BY <1>1 DEF Ledgers, Cents
  <2>3. b.cash = Capital + v - b.ledger.fees - b.ledger.slippage + b.ledger.funding - loss  BY <2>2 DEF BookKept, Agree
  <2>4. Capital \in Int /\ b.ledger.fees \in Int /\ b.ledger.slippage \in Int /\ b.ledger.funding \in Int
    BY <1>1, BacktestAssumption DEF BacktestAssumption, Ledgers
  <2>5. cash = Capital + v - l.fees - l.slippage + l.funding - loss  BY <1>1, <1>3, <2>1, <2>3, <2>4
  <2> QED  BY <1>1, <1>7, <2>1, <2>2, <2>5 DEF Agree
<1> QED  BY <1>5, <1>7, <1>8, <1>9 DEF BookKept

\* What a shock takes is in the account of the shocks.
LEMMA ShockKeeps ==
  ASSUME NEW b, NEW loss \in Int, NEW n \in Nat, BookKept(b, loss, n), NEW taken \in Int
  PROVE  BookKept([b EXCEPT !.cash = b.cash - taken], loss + taken, n)
<1>1. b \in Books /\ b.cash \in Int /\ b.ledger \in Ledgers  BY DEF BookKept, Books
<1>2. PICK cash \in Int : cash = b.cash - taken  BY <1>1
<1>3. PICK r : r = [b EXCEPT !.cash = cash]  OBVIOUS
<1>4. r \in Books /\ r.cash = cash /\ r.ledger = b.ledger /\ r.pos = b.pos /\ r.entry = b.entry /\ r.open = b.open /\ r.trades = b.trades /\ r.fills = b.fills
  BY <1>1, <1>3 DEF Books
<1>5. TradesOf(r, n)  BY <1>4 DEF BookKept, TradesOf
<1>6. Agree(r, loss + taken)
  <2>1. PICK l \in Ledgers : l = b.ledger  BY <1>1
  <2>2. PICK q \in Int, avg \in Int, gross \in Int, fees \in Int, slippage \in Int, funding \in Int :
          q = l.qty /\ avg = l.avg /\ gross = l.gross /\ fees = l.fees /\ slippage = l.slippage /\ funding = l.funding
    BY LedgerFields
  <2>3. PICK v \in Int : v = Capital + 100 * (gross - q * avg) - fees - slippage + funding  BY UnitsAre
  <2>4. b.cash = Capital + 100 * (gross - q * avg) - fees - slippage + funding - loss /\ b.pos = q
    BY <2>1, <2>2 DEF BookKept, Agree, Cents
  <2>5. PICK held \in Int : held = q * avg  BY <2>2
  <2>6. b.cash = v - loss  BY <2>2, <2>3, <2>4, <2>5, UnitsAre
  <2>7. cash = Capital + 100 * (gross - q * avg) - fees - slippage + funding - (loss + taken)
    BY <1>1, <1>2, <2>2, <2>3, <2>5, <2>6, UnitsAre
  <2>8. r.pos = q /\ r.ledger = l /\ r.cash = cash  BY <1>4, <2>1, <2>4
  <2> QED  BY <2>2, <2>7, <2>8 DEF Agree, Cents
<1> QED  BY <1>2, <1>3, <1>4, <1>5, <1>6 DEF BookKept

\* What is decided next suits the position it was decided on.
LEMMA NextOrderSuits ==
  ASSUME NEW b, NEW loss, NEW n \in Nat, BookKept(b, loss, n), NEW features, \A f \in DOMAIN features : features[f] \in Int
  PROVE  OrderSuits(b, NextOrder(b, features))
<1>1. PICK p : p = Position(b)  OBVIOUS
<1>2. PICK d : d = Decide(Strategy, features, p)  OBVIOUS
<1>3. (p.dir = "none") <=> (b.pos = 0)
  <2>1. b.pos = 0 \/ b.entry # -1  BY DEF BookKept, TradesOf
  <2>2. CASE b.pos = 0  BY <1>1, <2>2 DEF Position, Flat
  <2>3. CASE b.pos # 0
    <3>1. p.dir = IF b.pos > 0 THEN "long" ELSE "short"  BY <1>1, <2>1, <2>3 DEF Position, Held
    <3> QED  BY <2>3, <3>1
  <2> QED  BY <2>2, <2>3
<1>4. IF p.dir = "none" THEN d \in {"hold", "long", "short"} ELSE d \in {"exit", "hold"}  BY <1>2 DEF Decide
<1>5. PICK f : f = (IF Graded THEN EntryStrength(Strategy, features, d) ELSE <<1, 1>>)  OBVIOUS
<1>6. Fraction(f)
  <2>1. Fraction(<<1, 1>>)  BY DEF Fraction
  <2> QED  BY <1>5, <2>1, StrengthIs
<1>7. CASE d \in {"long", "short"}
  <2>1. NextOrder(b, features) = [kind |-> "enter", dir |-> d, strength |-> f]  BY <1>1, <1>2, <1>5, <1>7 DEF NextOrder
  <2> QED  BY <1>3, <1>4, <1>6, <1>7, <2>1 DEF OrderSuits
<1>8. CASE d = "exit"
  <2>1. NextOrder(b, features) = [kind |-> "close"]  BY <1>1, <1>2, <1>8 DEF NextOrder
  <2> QED  BY <1>3, <1>4, <1>8, <2>1 DEF OrderSuits
<1>9. CASE d = "hold"
  <2>1. NextOrder(b, features) = NoOrder  BY <1>1, <1>2, <1>9 DEF NextOrder
  <2> QED  BY <2>1 DEF OrderSuits
<1> QED  BY <1>4, <1>7, <1>8, <1>9

LEMMA StepKeeps ==
  ASSUME BacktestKept, NEW x \in Bars, Step(x)
  PROVE  BacktestKept'
<1>0. /\ x.price \in Nat /\ x.volume \in Nat /\ x.funding \in Int /\ x.rolls[1] \in Nat /\ x.rolls[2] \in Nat
      /\ \A f \in DOMAIN x.features : x.features[f] \in Int
  BY BacktestAssumption DEF BacktestAssumption
<1>1. bar \in Nat /\ window \in Seq(Nat) /\ equityPrev \in Int /\ shockLoss \in Int /\ BookKept(book, shockLoss, bar) /\ OrderSuits(book, pending)
  BY DEF BacktestKept, BookKept
<1>2. PICK w : w = Append(IF Len(window) = AdvWindow THEN Tail(window) ELSE window, x.volume)  OBVIOUS
<1>3. w \in Seq(Nat)
  <2>1. CASE Len(window) = AdvWindow
    <3>1. AdvWindow \in Nat \ {0}  BY UnitsAre
    <3>2. window # <<>>  BY <1>1, <2>1, <3>1
    <3>3. Tail(window) \in Seq(Nat)  BY <1>1, <3>2
    <3> QED  BY <1>0, <1>2, <2>1, <3>3
  <2>2. CASE Len(window) # AdvWindow  BY <1>0, <1>1, <1>2, <2>2
  <2> QED  BY <2>1, <2>2
<1>4. PICK adv : adv = <<SumOf(w), Len(w)>>  OBVIOUS
<1>5. adv[1] \in Int /\ adv[2] \in Int
  <2>1. w \in Seq(Int)  BY <1>3
  <2> QED  BY <1>4, <2>1, SumOfIs
<1>6. PICK filled : filled = OrderFilled(book, x.price, adv)  OBVIOUS
<1>7. BookKept(filled, shockLoss, bar + 1)  BY <1>0, <1>1, <1>5, <1>6, OrderKeeps
<1>8. PICK funded : funded = IF x.funding = 0 THEN filled ELSE ApplyFunding(filled, x.price, x.funding)  OBVIOUS
<1>9. BookKept(funded, shockLoss, bar + 1)
  <2>1. bar + 1 \in Nat  BY <1>1
  <2> QED  BY <1>0, <1>1, <1>7, <1>8, <2>1, FundingKeeps
<1>10. PICK taken : taken = IF ShockFires(x.rolls[1]) /\ funded.pos # 0
                            THEN Abs(funded.pos * x.price) * AdverseFraction(x.rolls[2]) ELSE 0
  OBVIOUS
<1>11. taken \in Int
  <2>1. funded.pos \in Int  BY <1>9 DEF BookKept, Books
  <2>2. Abs(funded.pos * x.price) \in Int  BY <1>0, <2>1 DEF Abs
  <2>3. GapReturn \in Int /\ FundingPerPeriod * FundingPeriods \in Int /\ AdlHaircut \in Int  BY RatesAre
  <2>4. AdverseFraction(x.rolls[2]) \in Int  BY <1>0, <2>3 DEF AdverseFraction
  <2> QED  BY <1>10, <2>2, <2>4
<1>12. PICK b : b = [funded EXCEPT !.cash = funded.cash - taken]  OBVIOUS
<1>13. BookKept(b, shockLoss + taken, bar + 1)
  <2>1. bar + 1 \in Nat  BY <1>1
  <2> QED  BY <1>1, <1>9, <1>11, <1>12, <2>1, ShockKeeps
<1>14. /\ window' = w /\ book' = b /\ shockLoss' = shockLoss + taken /\ bar' = bar + 1
       /\ equityPrev' = b.cash + Cents * b.pos * x.price /\ pending' = NextOrder(b, x.features)
  BY <1>2, <1>4, <1>6, <1>8, <1>10, <1>12 DEF Step
<1>15. OrderSuits(b, NextOrder(b, x.features))
  <2>1. bar + 1 \in Nat  BY <1>1
  <2> QED  BY <1>0, <1>13, <2>1, NextOrderSuits
<1>16. b.cash + Cents * b.pos * x.price \in Int
  <2>1. b.cash \in Int /\ b.pos \in Int  BY <1>13 DEF BookKept, Books
  <2> QED  BY <1>0, <2>1 DEF Cents
<1>17. book' \in Books /\ Agree(book', shockLoss') /\ TradesOf(book', bar')  BY <1>13, <1>14 DEF BookKept
<1>18. OrderSuits(book', pending')  BY <1>14, <1>15
<1>19. bar' \in Nat /\ window' \in Seq(Nat) /\ equityPrev' \in Int /\ shockLoss' \in Int  BY <1>1, <1>3, <1>11, <1>14, <1>16
<1> QED  BY <1>17, <1>18, <1>19 DEF BacktestKept

LEMMA BacktestStarts == BacktestInit => BacktestKept
<1> SUFFICES ASSUME BacktestInit  PROVE BacktestKept  OBVIOUS
<1>1. Capital \in Int /\ StepSize \in Nat \ {0}  BY UnitsAre
<1>2. EmptyLedger \in Ledgers  BY DEF EmptyLedger, Ledgers
<1>3. book \in Books  BY <1>1, <1>2 DEF BacktestInit, Books
<1>4. Agree(book, shockLoss)
  <2>1. Cents * (0 - 0 * 0) = 0  BY DEF Cents
  <2> QED  BY <1>1, <2>1 DEF BacktestInit, Agree, EmptyLedger
<1>5. Lots(0)
  <2>1. 0 * StepSize = 0  BY <1>1
  <2> QED  BY <2>1, LotsAre
<1>6. TradesOf(book, bar)  BY <1>5 DEF BacktestInit, TradesOf
<1>7. OrderSuits(book, pending)  BY DEF BacktestInit, OrderSuits
<1> QED  BY <1>1, <1>3, <1>4, <1>6, <1>7 DEF BacktestInit, BacktestKept

LEMMA BacktestKeptSound == BacktestKept => BacktestSound
<1> SUFFICES ASSUME BacktestKept  PROVE BacktestSound  OBVIOUS
<1>1. BooksAgree  BY DEF BacktestKept, BooksAgree
<1>2. /\ (book.pos = 0) <=> (book.open = NoTrade)
      /\ book.trades = Len(book.fills) + (IF book.pos = 0 THEN 0 ELSE 1)
      /\ \A i \in DOMAIN book.fills : book.fills[i].entry < book.fills[i].exit
      /\ \A i \in 1 .. Len(book.fills) - 1 : book.fills[i].exit < book.fills[i + 1].entry
  BY DEF BacktestKept, TradesOf
<1>3. IF book.open = NoTrade THEN book.entry = -1
      ELSE /\ (book.pos > 0) = (book.open.dir = "long") /\ book.open.entry = book.entry /\ book.entry \in 0 .. bar - 1
           /\ book.open.stake > 0 /\ book.open.outlay <= book.open.stake
  BY DEF BacktestKept, TradesOf
<1>4. (book.pos = 0) <=> (book.entry = -1)
  <2>1. bar \in Nat  BY DEF BacktestKept
  <2> QED  BY <1>2, <1>3, <2>1
<1>5. (pending.kind = "close" => book.pos # 0) /\ (pending.kind = "enter" => book.pos = 0)
  BY DEF BacktestKept, OrderSuits, NoOrder
<1>6. OneTradeAtATime  BY <1>2, <1>3, <1>4, <1>5 DEF OneTradeAtATime
<1> QED  BY <1>1, <1>6 DEF BacktestSound

\* However long the series, whatever the strategy, the filter, the rates and the
\* bars, the cash the bar loop holds is what the friction ledger accounts for, and
\* the trade log describes the position: one trade at a time, closed whole and
\* never larger than the equity it was sized on (backtest_with_trades, simulate).
THEOREM BacktestHolds == BacktestSpec => []BacktestSound
<1>1. BacktestKept /\ [BacktestNext]_btVars => BacktestKept'
  <2> SUFFICES ASSUME BacktestKept, [BacktestNext]_btVars  PROVE BacktestKept'  OBVIOUS
  <2>1. CASE BacktestNext  BY <2>1, StepKeeps DEF BacktestNext
  <2>2. CASE UNCHANGED btVars
    BY <2>2 DEF btVars, BacktestKept, Agree, TradesOf, OrderSuits
  <2> QED  BY <2>1, <2>2
<1> QED  BY <1>1, BacktestStarts, BacktestKeptSound, PTL DEF BacktestSpec
-----------------------------------------------------------------------------
(* Training: what the evidence of a request comes to.                      *)

LEMMA MostOfThree == ASSUME NEW a \in Nat, NEW b \in Nat, NEW c \in Nat
  PROVE  Max({a, b, c}) \in Nat
<1>1. \E x \in {a, b, c} : \A y \in {a, b, c} : x >= y  OBVIOUS
<1> QED  BY <1>1 DEF Max

LEMMA LimitsAre ==
  /\ UsizeMax \in Nat /\ Width \in Nat /\ IsFiniteSet(Jobs)
  /\ CscvBlocks \in Nat /\ MinOccupiedNiches \in Nat /\ MinHoldoutRegimes \in Nat /\ MinHoldoutSamples \in Nat
  /\ DsrThreshold \in Nat /\ SpaAlpha \in Nat /\ MaxPbo \in Nat
<1>1. \A limit \in {CscvBlocks, MinOccupiedNiches, MinHoldoutRegimes, MinHoldoutSamples, DsrThreshold, SpaAlpha, MaxPbo} : limit \in Nat
  BY TrainAssumption, Zenon DEF TrainAssumption
<1>2. UsizeMax \in Nat /\ Width \in Nat /\ IsFiniteSet(Jobs)  BY TrainAssumption, Zenon DEF TrainAssumption
<1> QED  BY <1>1, <1>2

LEMMA RequestIs ==
  ASSUME NEW r \in Requests
  PROVE  /\ r.id \in Int /\ r.flow \in BOOLEAN /\ r.steered \in BOOLEAN
         /\ r.holdout[1] \in Int /\ r.holdout[2] \in Int
         /\ r.subset \in Nat /\ r.generations \in Nat /\ r.windows \in Nat /\ r.search.elites \in Nat /\ r.search.occupied \in Nat
         /\ r.verdict.dsr \in Percents /\ r.verdict.pbo \in Percents /\ r.verdict.spa \in Percents
         /\ r.verdict.series \in Nat /\ r.verdict.outLen \in Nat /\ r.verdict.net \in Int /\ r.verdict.paths \in BOOLEAN
<1>1. /\ r.id \in Int /\ r.flow \in BOOLEAN /\ r.steered \in BOOLEAN
      /\ {r.holdout[1], r.holdout[2], r.train[1], r.train[2]} \subseteq Int
      /\ {r.subset, r.regimes, r.generations, r.windows, r.search.elites, r.search.occupied} \subseteq Nat
      /\ {r.verdict.dsr, r.verdict.pbo, r.verdict.spa} \subseteq Percents
      /\ {r.verdict.series, r.verdict.outLen} \subseteq Nat /\ {r.verdict.net, r.verdict.inSharpe, r.verdict.outSharpe} \subseteq Int
      /\ r.verdict.paths \in BOOLEAN
  BY TrainAssumption, Zenon DEF TrainAssumption
<1> QED  BY <1>1
LEMMA PoolIs ==
  ASSUME NEW r \in Requests, r.pool # NoPool
  PROVE  /\ IsFiniteSet(r.pool.formulas) /\ r.pool.pbo \in Percents /\ PoolTrials(r.pool) \in Nat
<1>1. /\ IsFiniteSet(r.pool.formulas) /\ r.pool.pbo \in Percents
      /\ {r.pool.nTrials, r.pool.distinct, r.pool.analytic} \subseteq Nat
  BY TrainAssumption, Zenon DEF TrainAssumption
<1>2. PICK a \in Nat, b \in Nat, c \in Nat : a = r.pool.nTrials /\ b = r.pool.distinct /\ c = r.pool.analytic  BY <1>1
<1>3. Max({a, b, c}) \in Nat  BY <1>2, MostOfThree
<1> QED  BY <1>1, <1>2, <1>3 DEF PoolTrials

LEMMA SaturatedIs ==
  ASSUME NEW x \in Nat
  PROVE  Saturated(x) \in Nat /\ Saturated(x) = IF x <= UsizeMax THEN x ELSE UsizeMax
<1>1. PICK m \in Nat : m = UsizeMax  BY LimitsAre
<1>2. x \in Int /\ m \in Int  BY <1>1
<1>3. Min({x, m}) \in {x, m} /\ Min({x, m}) <= x /\ Min({x, m}) <= m  BY <1>2, PairMin
<1> QED  BY <1>1, <1>2, <1>3 DEF Saturated

LEMMA TrialsAre ==
  ASSUME NEW r \in Requests
  PROVE  LET plain == EffectiveTrials(r.search.occupied, r.generations, r.windows)
         IN  /\ ComposeTrialBasis(r) \in Nat /\ ComposeTrialBasis(r) >= plain
             /\ r.pool # NoPool => ComposeTrialBasis(r) >= Min({UsizeMax, PoolTrials(r.pool)})
<1>1. PICK top \in Nat : top = UsizeMax  BY LimitsAre
<1>2. PICK plain \in Nat : plain = EffectiveTrials(r.search.occupied, r.generations, r.windows) /\ plain <= top
  <2>1. r.search.occupied * r.generations \in Nat  BY RequestIs
  <2>2. Saturated(r.search.occupied * r.generations) \in Nat  BY <2>1, SaturatedIs
  <2>3. Saturated(r.search.occupied * r.generations) * r.windows \in Nat  BY <2>2, RequestIs
  <2>4. PICK n \in Nat : n = Saturated(r.search.occupied * r.generations) * r.windows  BY <2>3
  <2>5. Saturated(n) \in Nat /\ Saturated(n) <= top  BY <1>1, <2>4, SaturatedIs
  <2> QED  BY <2>4, <2>5 DEF EffectiveTrials
<1>3. ASSUME NEW n \in Nat  PROVE WithFeatures(plain, n) \in Nat /\ plain <= WithFeatures(plain, n)
  <2>1. PICK f \in Nat : f = Max({n, 1}) /\ f >= 1
    <3>1. n \in Int /\ 1 \in Int  OBVIOUS
    <3>2. Max({n, 1}) \in {n, 1} /\ Max({n, 1}) >= 1  BY <3>1, PairMax
    <3> QED  BY <3>2
  <2>2. PICK m \in Nat : m = plain * f  BY <1>2, <2>1
  <2>3. plain <= m
    <3>1. \A x, y \in Nat : y >= 1 => x <= x * y  OBVIOUS
    <3> QED  BY <1>2, <2>1, <2>2, <3>1
  <2>4. WithFeatures(plain, n) = Saturated(m)  BY <2>1, <2>2 DEF WithFeatures
  <2>5. Saturated(m) \in Nat /\ Saturated(m) = IF m <= top THEN m ELSE top  BY <1>1, <2>2, SaturatedIs
  <2> QED  BY <1>1, <1>2, <2>2, <2>3, <2>4, <2>5
<1>4. CASE r.pool # NoPool
  <2>1. PICK trials \in Nat : trials = PoolTrials(r.pool)  BY <1>4, PoolIs
  <2>2. PICK n \in Nat : n = Width + Cardinality(r.pool.formulas)
    <3>1. Cardinality(r.pool.formulas) \in Nat  BY <1>4, PoolIs, FS_CardinalityType
    <3> QED  BY <3>1, LimitsAre
  <2>3. PICK w \in Nat : w = WithFeatures(plain, n) /\ plain <= w  BY <1>3, <2>2
  <2>4. w + trials \in Nat  BY <2>1, <2>3
  <2>5. PICK all \in Nat : all = Saturated(w + trials) /\ all = IF w + trials <= top THEN w + trials ELSE top  BY <1>1, <2>4, SaturatedIs
  <2>6. ComposeTrialBasis(r) = all  BY <1>2, <1>4, <2>1, <2>2, <2>3, <2>5 DEF ComposeTrialBasis
  <2>7. all >= plain  BY <1>1, <1>2, <2>1, <2>3, <2>5
  <2>8. all >= Min({top, trials})
    <3>1. top \in Int /\ trials \in Int  BY <1>1, <2>1
    <3>2. PICK m \in Int : m = Min({top, trials}) /\ m <= top /\ m <= trials
      <4>1. Min({top, trials}) \in {top, trials} /\ Min({top, trials}) <= top /\ Min({top, trials}) <= trials  BY <3>1, PairMin
      <4> QED  BY <3>1, <4>1
    <3> QED  BY <1>1, <2>1, <2>3, <2>5, <3>2
  <2> QED  BY <1>1, <1>2, <2>1, <2>5, <2>6, <2>7, <2>8
<1>5. CASE r.pool = NoPool
  <2>1. ComposeTrialBasis(r) = IF r.steered THEN WithFeatures(plain, r.subset) ELSE plain  BY <1>2, <1>5 DEF ComposeTrialBasis
  <2>2. WithFeatures(plain, r.subset) \in Nat /\ plain <= WithFeatures(plain, r.subset)  BY <1>3, RequestIs
  <2> QED  BY <1>2, <1>5, <2>1, <2>2
<1> QED  BY <1>4, <1>5

LEMMA RobustnessIs ==
  ASSUME NEW r \in Requests
  PROVE  /\ Robustness(r) \in Statistics
         /\ r.pool # NoPool => Robustness(r).pbo >= r.pool.pbo
         /\ r.pool = NoPool /\ r.search.elites >= 2 /\ r.verdict.series >= CscvBlocks =>
              Robustness(r) = [dsr |-> r.verdict.dsr, pbo |-> r.verdict.pbo, spa |-> r.verdict.spa]
         /\ ~(r.search.elites >= 2 /\ r.verdict.series >= CscvBlocks) => Robustness(r).dsr = 0
<1> DEFINE weak == r.search.elites < 2 \/ r.verdict.series < CscvBlocks
<1>0. r.search.elites \in Nat /\ r.verdict.series \in Nat /\ CscvBlocks \in Nat  BY RequestIs, LimitsAre
<1>1. PICK dsr \in Percents : dsr = IF weak THEN 0 ELSE r.verdict.dsr  BY RequestIs DEF Percents
<1>2. PICK pbo \in Percents : pbo = IF weak THEN 100 ELSE r.verdict.pbo  BY RequestIs DEF Percents
<1>3. PICK spa \in Percents : spa = IF weak THEN 100 ELSE r.verdict.spa  BY RequestIs DEF Percents
<1>4. Robustness(r) = [dsr |-> dsr, pbo |-> IF r.pool = NoPool THEN pbo ELSE Max({pbo, r.pool.pbo}), spa |-> spa]
  BY <1>1, <1>2, <1>3 DEF Robustness
<1>5. r.pool # NoPool => Max({pbo, r.pool.pbo}) \in Percents /\ Max({pbo, r.pool.pbo}) >= r.pool.pbo
  <2> SUFFICES ASSUME r.pool # NoPool  PROVE Max({pbo, r.pool.pbo}) \in Percents /\ Max({pbo, r.pool.pbo}) >= r.pool.pbo  OBVIOUS
  <2>1. PICK own \in Percents : own = r.pool.pbo  BY PoolIs
  <2>2. pbo \in Int /\ own \in Int  BY <1>2, <2>1 DEF Percents, NotFinite
  <2>3. Max({pbo, own}) \in {pbo, own} /\ Max({pbo, own}) >= own  BY <2>2, PairMax
  <2> QED  BY <1>2, <2>1, <2>3
<1>6. PICK most \in Percents : most = IF r.pool = NoPool THEN pbo ELSE Max({pbo, r.pool.pbo})  BY <1>2, <1>5
<1>7. Robustness(r) = [dsr |-> dsr, pbo |-> most, spa |-> spa]  BY <1>4, <1>6
<1>8. Robustness(r) \in Statistics  BY <1>1, <1>3, <1>6, <1>7 DEF Statistics
<1>9. Robustness(r).pbo = most /\ Robustness(r).dsr = dsr  BY <1>7
<1>10. weak <=> ~(r.search.elites >= 2 /\ r.verdict.series >= CscvBlocks)  BY <1>0
<1> HIDE DEF weak
<1>11. r.pool # NoPool => Robustness(r).pbo >= r.pool.pbo  BY <1>5, <1>6, <1>9
<1>12. weak => Robustness(r).dsr = 0  BY <1>1, <1>9
<1>13. r.pool = NoPool /\ ~weak => Robustness(r) = [dsr |-> r.verdict.dsr, pbo |-> r.verdict.pbo, spa |-> r.verdict.spa]
  BY <1>1, <1>2, <1>3, <1>4
<1> QED  BY <1>8, <1>10, <1>11, <1>12, <1>13

\* Whatever passes the gate had evidence to pass it with.
LEMMA PromotedIs ==
  ASSUME NEW r \in Requests, Promoted(r, EvaluateG1(r.verdict, Robustness(r)))
  PROVE  /\ r.pool = NoPool /\ r.verdict.paths /\ r.search.elites >= 2 /\ r.verdict.series >= CscvBlocks
         /\ r.verdict.outLen >= MinHoldoutSamples /\ r.verdict.dsr > DsrThreshold
         /\ r.verdict.spa \in 0 .. SpaAlpha - 1 /\ r.verdict.pbo \in 0 .. MaxPbo - 1
<1>1. PICK g : g = EvaluateG1(r.verdict, Robustness(r))  OBVIOUS
<1>2. \A c \in DOMAIN g : g[c]  BY <1>1 DEF Promoted
<1>3. g.samples /\ g.dsr /\ g.spa /\ g.pbo  BY <1>1, <1>2 DEF EvaluateG1
<1>4. PICK rob : rob = Robustness(r)  OBVIOUS
<1>5. /\ r.verdict.outLen >= MinHoldoutSamples /\ rob.dsr > DsrThreshold
      /\ rob.spa # NotFinite /\ rob.spa < SpaAlpha /\ rob.pbo # NotFinite /\ rob.pbo < MaxPbo
  BY <1>1, <1>3, <1>4 DEF EvaluateG1
<1>6. r.pool = NoPool /\ r.verdict.paths  BY DEF Promoted
<1>7. r.search.elites >= 2 /\ r.verdict.series >= CscvBlocks
  <2> SUFFICES ASSUME ~(r.search.elites >= 2 /\ r.verdict.series >= CscvBlocks)  PROVE FALSE  OBVIOUS
  <2>1. rob.dsr = 0  BY <1>4, RobustnessIs
  <2>2. DsrThreshold \in Nat  BY LimitsAre
  <2> QED  BY <1>5, <2>1, <2>2
<1>8. rob.dsr = r.verdict.dsr /\ rob.pbo = r.verdict.pbo /\ rob.spa = r.verdict.spa
  <2>1. Robustness(r) = [dsr |-> r.verdict.dsr, pbo |-> r.verdict.pbo, spa |-> r.verdict.spa]  BY <1>6, <1>7, RobustnessIs
  <2> QED  BY <1>4, <2>1
<1>9. r.verdict.spa \in Percents /\ r.verdict.pbo \in Percents  BY RequestIs
<1>10. SpaAlpha \in Nat /\ MaxPbo \in Nat  BY LimitsAre
<1>11. PICK spa \in Percents, pbo \in Percents : spa = r.verdict.spa /\ pbo = r.verdict.pbo  BY <1>9
<1>12. spa \in 0 .. SpaAlpha - 1  BY <1>5, <1>8, <1>10, <1>11 DEF Percents, NotFinite
<1>13. pbo \in 0 .. MaxPbo - 1  BY <1>5, <1>8, <1>10, <1>11 DEF Percents, NotFinite
<1> QED  BY <1>5, <1>6, <1>7, <1>8, <1>11, <1>12, <1>13
LEMMA EarnedIs ==
  ASSUME NEW v \in Vintages, Genuine(v)
  PROVE  LET r == v.request  said == r.verdict
         IN  /\ v.promoted => /\ r.pool = NoPool /\ said.paths
                              /\ r.search.elites >= 2 /\ said.series >= CscvBlocks /\ said.outLen >= MinHoldoutSamples
                              /\ said.dsr > DsrThreshold /\ said.spa \in 0 .. SpaAlpha - 1 /\ said.pbo \in 0 .. MaxPbo - 1
             /\ v.trials >= EffectiveTrials(r.search.occupied, r.generations, r.windows)
             /\ r.pool # NoPool => v.trials >= Min({UsizeMax, PoolTrials(r.pool)}) /\ v.evidence.pbo >= r.pool.pbo
             /\ r.flow => v.consultations >= 1 /\ r.regimes >= MinHoldoutRegimes
             /\ r.steered => r.search.occupied >= MinOccupiedNiches
<1>1. PICK r \in Requests : r = v.request  BY DEF Vintages
<1>2. /\ v.evidence = Robustness(r) /\ v.promoted = Promoted(r, EvaluateG1(r.verdict, Robustness(r)))
      /\ v.trials = ComposeTrialBasis(r) /\ Covered(r, v.consultations) /\ Spread(r)
  BY <1>1 DEF Genuine
<1>3. v.promoted => /\ r.pool = NoPool /\ r.verdict.paths /\ r.search.elites >= 2 /\ r.verdict.series >= CscvBlocks
                    /\ r.verdict.outLen >= MinHoldoutSamples /\ r.verdict.dsr > DsrThreshold
                    /\ r.verdict.spa \in 0 .. SpaAlpha - 1 /\ r.verdict.pbo \in 0 .. MaxPbo - 1
  <2> SUFFICES ASSUME v.promoted
               PROVE  /\ r.pool = NoPool /\ r.verdict.paths /\ r.search.elites >= 2 /\ r.verdict.series >= CscvBlocks
                      /\ r.verdict.outLen >= MinHoldoutSamples /\ r.verdict.dsr > DsrThreshold
                      /\ r.verdict.spa \in 0 .. SpaAlpha - 1 /\ r.verdict.pbo \in 0 .. MaxPbo - 1
    OBVIOUS
  <2>1. Promoted(r, EvaluateG1(r.verdict, Robustness(r)))  BY <1>2, Zenon
  <2> QED  BY <1>1, <2>1, PromotedIs
<1>4. /\ ComposeTrialBasis(r) >= EffectiveTrials(r.search.occupied, r.generations, r.windows)
      /\ r.pool # NoPool => ComposeTrialBasis(r) >= Min({UsizeMax, PoolTrials(r.pool)})
  BY <1>1, TrialsAre
<1>5. r.pool # NoPool => Robustness(r).pbo >= r.pool.pbo  BY <1>1, RobustnessIs
<1>6. /\ r.flow => v.consultations >= 1 /\ r.regimes >= MinHoldoutRegimes
      /\ r.steered => r.search.occupied >= MinOccupiedNiches
  BY <1>2 DEF Covered, Spread
<1> QED  BY <1>1, <1>2, <1>3, <1>4, <1>5, <1>6, Zenon

\* Two protected windows with two bars in common overlap, as the code compares them.
LEMMA SharedOverlaps ==
  ASSUME NEW v \in Requests, NEW w \in Requests, w.flow, Shared(v, w) > 1
  PROVE  ConsultationOverlaps(w, v.holdout)
<1>1. PICK a \in Int, b \in Int : a = v.holdout[1] /\ b = v.holdout[2]  BY RequestIs
<1>2. PICK c \in Int, d \in Int : c = w.holdout[1] /\ d = w.holdout[2]  BY RequestIs
<1>3. PICK S : S = (a .. b) \intersect (c .. d)  OBVIOUS
<1>4. Cardinality(S) > 1  BY <1>1, <1>2, <1>3 DEF Shared
<1>5. \E x, y \in S : x < y
  <2> SUFFICES ASSUME \A x, y \in S : ~(x < y)  PROVE FALSE  OBVIOUS
  <2>1. CASE S = {}  BY <1>4, <2>1, FS_EmptySet
  <2>2. CASE S # {}
    <3>1. PICK x \in S : TRUE  BY <2>2
    <3>2. \A y \in S : y = x  BY <1>1, <1>2, <1>3, <3>1
    <3>3. S = {x}  BY <3>1, <3>2
    <3>4. Cardinality({x}) = 1  BY FS_Singleton
    <3> QED  BY <1>4, <3>3, <3>4
  <2> QED  BY <2>1, <2>2
<1>6. c < b /\ a < d  BY <1>1, <1>2, <1>3, <1>5
<1> QED  BY <1>1, <1>2, <1>6 DEF ConsultationOverlaps

LEMMA ListedFinite ==
  ASSUME \A id \in Listed : FileKept(id)
  PROVE  IsFiniteSet(Listed)
<1>1. IsFiniteSet(Jobs)  BY LimitsAre
<1> DEFINE asked == [j \in Jobs |-> job[j].request.id]
<1>2. asked \in Surjection(Jobs, {job[j].request.id : j \in Jobs})  BY DEF Surjection
<1>4. IsFiniteSet({job[j].request.id : j \in Jobs})  BY <1>1, <1>2, FS_Surjection
<1>3. Listed \subseteq {job[j].request.id : j \in Jobs}  BY DEF FileKept
<1> QED  BY <1>3, <1>4, FS_Subset

LEMMA FileIs ==
  ASSUME TrainTypes, NEW id \in Listed
  PROVE  id \in Ids /\ Whole(id) /\ Vintage(id) \in Vintages /\ Vintage(id).request \in Requests
<1>1. id \in Ids /\ files[id].state = "whole"  BY DEF Listed, Whole
<1>2. files[id] \in {Absent, Torn} \union [state : {"whole"}, vintage : Vintages]  BY <1>1 DEF TrainTypes
<1>3. files[id] \in [state : {"whole"}, vintage : Vintages]  BY <1>1, <1>2 DEF Absent, Torn
<1>4. PICK v \in Vintages : v = files[id].vintage  BY <1>3
<1>5. v.request \in Requests  BY <1>4 DEF Vintages
<1> QED  BY <1>1, <1>4, <1>5 DEF Whole, Vintage

\* A vintage that consulted the holdout once too often is below every one that did not.
LEMMA RankBelow ==
  ASSUME TrainTypes, \A id \in Listed : FileKept(id), NEW a \in Listed, NEW b \in Listed,
         OverConsulted(Vintage(a)), ~OverConsulted(Vintage(b))
  PROVE  Rank(b) < Rank(a)
<1> DEFINE over(x) == {other \in Listed : Outranks(other, x)}
<1>1. \A other \in Listed : Vintage(other).request.verdict.net \in Int /\ other \in Int
  <2> SUFFICES ASSUME NEW other \in Listed  PROVE Vintage(other).request.verdict.net \in Int /\ other \in Int  OBVIOUS
  <2>1. Vintage(other).request \in Requests  BY FileIs
  <2>2. Vintage(other).request.id = other  BY DEF FileKept
  <2> QED  BY <2>1, <2>2, RequestIs
<1>2. IsFiniteSet(over(a)) /\ IsFiniteSet(over(b))  BY ListedFinite, FS_Subset
<1>3. over(b) \subseteq over(a)  BY DEF Outranks
<1>4. b \in over(a)  BY DEF Outranks
<1>5. b \notin over(b)
  <2>1. ~Outranks(b, b)
    <3>1. Vintage(b).request.verdict.net \in Int /\ b \in Int  BY <1>1
    <3>2. Vintage(b).evidence.dsr \in Int
      <4>1. Vintage(b) \in Vintages  BY FileIs
      <4>2. Vintage(b).evidence.dsr \in Percents  BY <4>1 DEF Vintages, Statistics
      <4> QED  BY <4>2 DEF Percents, NotFinite
    <3>3. PICK n \in Int, d \in Int, i \in Int : n = Vintage(b).request.verdict.net /\ d = Vintage(b).evidence.dsr /\ i = b
      BY <3>1, <3>2
    <3>4. ~(n > n) /\ ~(d > d) /\ ~(i < i)  BY <3>3
    <3> QED  BY <3>3, <3>4 DEF Outranks
  <2> QED  BY <2>1
<1>6. Cardinality(over(b)) < Cardinality(over(a)) /\ Cardinality(over(b)) \in Nat /\ Cardinality(over(a)) \in Nat
  <2>1. over(b) # over(a)  BY <1>4, <1>5
  <2> HIDE DEF over
  <2>2. PICK big, small : big = over(a) /\ small = over(b)  OBVIOUS
  <2>3. IsFiniteSet(big) /\ small \in SUBSET big /\ small # big  BY <1>2, <1>3, <2>1, <2>2
  <2>4. IsFiniteSet(small) /\ Cardinality(small) <= Cardinality(big) /\ Cardinality(small) # Cardinality(big)  BY <2>3, FS_Subset
  <2>5. Cardinality(small) \in Nat /\ Cardinality(big) \in Nat  BY <2>3, <2>4, FS_CardinalityType
  <2> QED  BY <2>2, <2>4, <2>5
<1> QED  BY <1>6 DEF Rank

\* The invariant is as strong as the property.
LEMMA TrainingSound == TrainKept => JobSound
<1> SUFFICES ASSUME TrainKept  PROVE JobSound  OBVIOUS
<1>0. /\ TrainTypes /\ \A j \in Jobs : JobKept(job[j]) /\ Landed(j)
      /\ \A id \in Listed : FileKept(id)
  BY DEF TrainKept
<1>1. PromotionEarned
  <2> SUFFICES ASSUME NEW id \in Listed
               PROVE  LET v == Vintage(id)  r == v.request  said == r.verdict
                      IN  /\ v.promoted => /\ r.pool = NoPool /\ said.paths
                                           /\ r.search.elites >= 2 /\ said.series >= CscvBlocks /\ said.outLen >= MinHoldoutSamples
                                           /\ said.dsr > DsrThreshold /\ said.spa \in 0 .. SpaAlpha - 1 /\ said.pbo \in 0 .. MaxPbo - 1
                          /\ v.trials >= EffectiveTrials(r.search.occupied, r.generations, r.windows)
                          /\ r.pool # NoPool => v.trials >= Min({UsizeMax, PoolTrials(r.pool)}) /\ v.evidence.pbo >= r.pool.pbo
                          /\ r.flow => v.consultations >= 1 /\ r.regimes >= MinHoldoutRegimes
                          /\ r.steered => r.search.occupied >= MinOccupiedNiches
    BY Zenon DEF PromotionEarned
  <2>1. Vintage(id) \in Vintages /\ Genuine(Vintage(id))  BY <1>0, FileIs DEF FileKept
  <2>2. PICK v \in Vintages : v = Vintage(id) /\ Genuine(v)  BY <2>1
  <2> QED  BY <2>2, EarnedIs
<1>2. OverlapCounted
  <2> SUFFICES ASSUME NEW a \in Listed, NEW b \in Listed, Vintage(a).request.flow, Vintage(b).request.flow,
                      Shared(Vintage(a).request, Vintage(b).request) > 1, Vintage(a).countedAt > Vintage(b).sealedAt
               PROVE  OverConsulted(Vintage(a)) /\ (OverConsulted(Vintage(b)) \/ Rank(b) < Rank(a))
    BY DEF OverlapCounted, FlowPairs
  <2>1. PICK v \in Vintages, r \in Requests : v = Vintage(a) /\ r = Vintage(a).request  BY <1>0, FileIs
  <2>2. PICK w \in Vintages, s \in Requests : w = Vintage(b) /\ s = Vintage(b).request  BY <1>0, FileIs
  <2>3. ConsultationOverlaps(s, r.holdout)  BY <2>1, <2>2, SharedOverlaps
  <2>4. Counts(r, v.countedAt, v.consultations)  BY <1>0, <2>1 DEF FileKept
  <2>5. w.sealedAt < v.countedAt  BY <2>1, <2>2 DEF Vintages
  <2>6. v.consultations > 1  BY <2>1, <2>2, <2>3, <2>4, <2>5 DEF Counts
  <2>7. OverConsulted(Vintage(a))  BY <2>1, <2>6 DEF OverConsulted, ConsultationBudget
  <2> QED  BY <1>0, <2>7, RankBelow
<1>3. VerdictTrue
  <2> SUFFICES ASSUME NEW j \in Jobs
               PROVE  LET id == job[j].request.id
                      IN  /\ job[j].line = "done" =>
                               /\ job[j].result
                               /\ \/ Whole(id)
                                  \/ \E k \in Jobs \ {j} : job[k].request.id = id /\ Truncated(k)
                          /\ job[j].line = "error" => ~job[j].result
                          /\ Whole(id) /\ LoadOutcome(id) = "ok" => Vintage(id).request.pool = NoPool
    BY Zenon DEF VerdictTrue
  <2>1. JobKept(job[j]) /\ Landed(j)  BY <1>0
  <2>2. job[j].line = "done" => job[j].result /\ (Whole(job[j].request.id) \/ Contested(j))  BY <2>1 DEF JobKept, Landed
  <2>3. job[j].line = "error" => ~job[j].result  BY <2>1 DEF JobKept
  <2>4. Whole(job[j].request.id) /\ LoadOutcome(job[j].request.id) = "ok" => Vintage(job[j].request.id).request.pool = NoPool
    BY DEF LoadOutcome, Whole
  <2> QED  BY <2>2, <2>3, <2>4 DEF Contested
<1> QED  BY <1>1, <1>2, <1>3 DEF JobSound

\* At the start no holdout was consulted, no file is there and no process has said anything.
LEMMA TrainStarts == TrainInit => TrainKept
<1> SUFFICES ASSUME TrainInit  PROVE TrainKept  OBVIOUS
<1>1. \A id \in Ids : files[id] = Absent  BY DEF TrainInit
<1>2. Listed = {}  BY <1>1 DEF Listed, Whole, Absent
<1>3. \A j \in Jobs : \E r \in Requests : job[j] = Fresh(r)  BY DEF TrainInit
<1>4. ASSUME NEW r \in Requests  PROVE Fresh(r) \in Processes
  <2>1. PICK none : none = NoVintage  OBVIOUS
  <2>2. none \in Vintages \union {NoVintage}  BY <2>1
  <2>3. Fresh(r) = [pc |-> "start", request |-> r, line |-> "none", result |-> FALSE, error |-> "none", cut |-> "none",
                    countedAt |-> 0, consultations |-> 0, vintage |-> none]
    BY <2>1 DEF Fresh
  <2>4. "start" \in Stages /\ "none" \in Stages \union {"none"} /\ "none" \in Errors /\ "none" \in {"none", "done", "error"} /\ 0 \in Nat
    BY DEF Stages, Errors
  <2>5. PICK any : any = Vintages \union {NoVintage}  OBVIOUS
  <2> QED  BY <2>2, <2>3, <2>4, <2>5, SMT DEF Processes
<1>5. TrainTypes  BY <1>3, <1>4 DEF TrainInit, TrainTypes
<1>6. ASSUME NEW j \in Jobs  PROVE JobKept(job[j]) /\ Landed(j)
  <2>1. PICK r \in Requests : job[j] = Fresh(r)  BY <1>3
  <2>2. JobKept(Fresh(r))  BY <1>2 DEF TrainInit, JobKept, Counts, Fresh, Begun, SealedStages
  <2>3. Landed(j)  BY <2>1 DEF Landed, Fresh
  <2> QED  BY <2>1, <2>2, <2>3
<1> QED  BY <1>2, <1>5, <1>6 DEF TrainKept

LEMMA ProcessIs ==
  ASSUME TrainTypes, NEW j \in Jobs
  PROVE  /\ job[j] \in Processes /\ job[j].request \in Requests /\ job[j].request.id \in Ids /\ job[j].pc \in Stages
         /\ clock \in Nat
<1>1. job[j] \in Processes /\ clock \in Nat  BY DEF TrainTypes
<1>2. PICK p \in Processes : p = job[j]  BY <1>1
<1>3. p.request \in Requests /\ p.pc \in Stages  BY <1>2 DEF Processes
<1> QED  BY <1>1, <1>2, <1>3 DEF Ids

\* A step of one process that leaves the files alone keeps what is known of the others.
LEMMA OneJobMoves ==
  ASSUME TrainKept, NEW j \in Jobs, NEW p \in Processes, job' = [job EXCEPT ![j] = p], files' = files, clock' = clock,
         p.request = job[j].request, JobKept(p), p.pc # "bytes",
         p.pc \in {"report", "line", "done"} => job[j].pc \in {"report", "line", "done"},
         Truncated(j) => {p.pc, p.cut} \intersect {"bytes", "report", "line", "done"} # {}
  PROVE  TrainKept'
<1>1. job \in [Jobs -> Processes]  BY DEF TrainKept, TrainTypes
<1>2. job' \in [Jobs -> Processes] /\ job'[j] = p /\ \A k \in Jobs \ {j} : job'[k] = job[k]  BY <1>1
<1>3. TrainTypes'  BY <1>2 DEF TrainKept, TrainTypes
<1>4. \A k \in Jobs : job'[k].request = job[k].request  BY <1>2
<1>5. ASSUME NEW k \in Jobs, Truncated(k)  PROVE Truncated(k)'
  <2>1. CASE k = j  BY <1>2, <1>5, <2>1 DEF Truncated
  <2>2. CASE k # j  BY <1>2, <1>5, <2>2 DEF Truncated
  <2> QED  BY <2>1, <2>2
<1>6. ASSUME NEW k \in Jobs, Contested(k)  PROVE Contested(k)'  BY <1>4, <1>5, <1>6 DEF Contested
<1>7. \A id : Whole(id)' = Whole(id) /\ Vintage(id)' = Vintage(id)  BY DEF Whole, Vintage
<1>8. Listed' = Listed  BY <1>7 DEF Listed
<1>9. \A r, c, n : Counts(r, c, n)' = Counts(r, c, n)
  <2> SUFFICES ASSUME NEW r, NEW c, NEW n  PROVE Counts(r, c, n)' = Counts(r, c, n)  OBVIOUS
  <2> QED  BY <1>7, <1>8 DEF Counts
<1>10. ASSUME NEW q, JobKept(q)  PROVE JobKept(q)'  BY <1>9, <1>10 DEF JobKept
<1>11. ASSUME NEW k \in Jobs  PROVE JobKept(job[k])'
  <2>1. PICK q : q = job'[k]  OBVIOUS
  <2>2. JobKept(q)  BY <1>2, <2>1 DEF TrainKept
  <2>3. JobKept(q)'  BY <1>10, <2>2
  <2> QED  BY <2>1, <2>3 DEF JobKept
<1>12. ASSUME NEW k \in Jobs  PROVE Landed(k)'
  <2>1. Landed(k)  BY DEF TrainKept
  <2>2. job'[k].pc \in {"report", "line", "done"} => job[k].pc \in {"report", "line", "done"}  BY <1>2
  <2>3. job'[k].pc = "bytes" => job[k].pc = "bytes"  BY <1>2
  <2> QED  BY <1>4, <1>6, <1>7, <2>1, <2>2, <2>3 DEF Landed
<1>13. ASSUME NEW id \in Listed'  PROVE FileKept(id)'
  <2>1. FileKept(id)  BY <1>8 DEF TrainKept
  <2>2. PICK v : v = Vintage(id)  OBVIOUS
  <2>3. Counts(v.request, v.countedAt, v.consultations)'  BY <1>9, <2>1, <2>2 DEF FileKept
  <2> QED  BY <1>4, <1>7, <2>1, <2>2, <2>3 DEF FileKept
<1> QED  BY <1>3, <1>11, <1>12, <1>13 DEF TrainKept

\* A job that fails has sealed nothing.
LEMMA FailKeeps ==
  ASSUME TrainKept, NEW j \in Jobs, NEW e \in Errors, job[j].pc \in {"open", "split", "search", "assess"}, Fail(j, e),
         files' = files, clock' = clock
  PROVE  TrainKept'
<1>1. PICK q \in Processes : q = job[j] /\ JobKept(q)  BY ProcessIs DEF TrainKept
<1>2. PICK p : p = [q EXCEPT !.pc = "failed", !.error = e, !.line = "error"]  OBVIOUS
<1>3. p \in Processes  BY <1>1, <1>2 DEF Processes, Stages
<1>4. /\ p.pc = "failed" /\ p.line = "error" /\ p.request = q.request /\ p.result = q.result /\ p.cut = q.cut
      /\ p.countedAt = q.countedAt /\ p.consultations = q.consultations /\ p.vintage = q.vintage
  BY <1>1, <1>2 DEF Processes
<1>5. JobKept(p)  BY <1>1, <1>4 DEF JobKept, Begun, SealedStages
<1>6. job' = [job EXCEPT ![j] = p]  BY <1>1, <1>2 DEF Fail
<1>7. Truncated(j) => {p.pc, p.cut} \intersect {"bytes", "report", "line", "done"} # {}  BY <1>1, <1>4 DEF Truncated, JobKept
<1> QED  BY <1>1, <1>3, <1>4, <1>5, <1>6, <1>7, OneJobMoves

LEMMA LoadConfigKeeps == ASSUME TrainKept, NEW j \in Jobs, LoadConfig(j)  PROVE TrainKept'
<1>1. PICK q \in Processes : q = job[j] /\ JobKept(q)  BY ProcessIs DEF TrainKept
<1>2. PICK s \in {"failed", "open"} : job' = [job EXCEPT ![j].pc = s]  BY DEF LoadConfig
<1>3. PICK p : p = [q EXCEPT !.pc = s]  OBVIOUS
<1>4. p \in Processes  BY <1>1, <1>2, <1>3 DEF Processes, Stages
<1>5. /\ p.pc = s /\ p.line = q.line /\ p.request = q.request /\ p.result = q.result /\ p.cut = q.cut
      /\ p.countedAt = q.countedAt /\ p.consultations = q.consultations /\ p.vintage = q.vintage
  BY <1>1, <1>2, <1>3 DEF Processes
<1>6. q.pc = "start" /\ files' = files /\ clock' = clock  BY <1>1 DEF LoadConfig, At
<1>7. JobKept(p)  BY <1>1, <1>2, <1>5, <1>6 DEF JobKept, Begun, SealedStages
<1>8. job' = [job EXCEPT ![j] = p]  BY <1>1, <1>2, <1>3
<1>9. Truncated(j) => {p.pc, p.cut} \intersect {"bytes", "report", "line", "done"} # {}  BY <1>1, <1>5, <1>6 DEF Truncated, JobKept
<1> QED  BY <1>1, <1>2, <1>4, <1>5, <1>6, <1>7, <1>8, <1>9, OneJobMoves

LEMMA OpenKeeps == ASSUME TrainKept, NEW j \in Jobs, Open(j)  PROVE TrainKept'
<1>1. PICK q \in Processes : q = job[j] /\ JobKept(q)  BY ProcessIs DEF TrainKept
<1>2. q.pc = "open" /\ files' = files /\ clock' = clock  BY <1>1 DEF Open, At
<1>3. CASE \E i \in Flaws(job[j].request) : Fail(j, Opening[i])
  <2>1. PICK i \in DOMAIN Opening : Fail(j, Opening[i])  BY <1>3 DEF Flaws
  <2>2. Opening[i] \in Errors  BY <2>1 DEF Errors
  <2> QED  BY <1>1, <1>2, <2>1, <2>2, FailKeeps
<1>4. CASE job' = [job EXCEPT ![j].pc = "split"]
  <2>1. PICK p : p = [q EXCEPT !.pc = "split"]  OBVIOUS
  <2>2. p \in Processes  BY <1>1, <2>1 DEF Processes, Stages
  <2>3. /\ p.pc = "split" /\ p.line = q.line /\ p.request = q.request /\ p.result = q.result /\ p.cut = q.cut
        /\ p.countedAt = q.countedAt /\ p.consultations = q.consultations /\ p.vintage = q.vintage
    BY <1>1, <2>1 DEF Processes
  <2>4. JobKept(p)  BY <1>1, <1>2, <2>3 DEF JobKept, Begun, SealedStages
  <2>5. job' = [job EXCEPT ![j] = p]  BY <1>1, <1>4, <2>1
  <2>6. Truncated(j) => {p.pc, p.cut} \intersect {"bytes", "report", "line", "done"} # {}
    BY <1>1, <1>2, <2>3 DEF Truncated, JobKept
  <2> QED  BY <1>1, <1>2, <2>2, <2>3, <2>4, <2>5, <2>6, OneJobMoves
<1> QED  BY <1>3, <1>4 DEF Open

\* Whatever overlapping vintage is there when the holdout is consulted is counted.
LEMMA ConsultKeeps == ASSUME TrainKept, NEW j \in Jobs, Consult(j)  PROVE TrainKept'
<1>1. PICK q \in Processes : q = job[j] /\ JobKept(q)  BY ProcessIs DEF TrainKept
<1>2. PICK r \in Requests : r = q.request  BY <1>1 DEF Processes
<1>3. q.pc = "split" /\ files' = files /\ clock' = clock  BY <1>1 DEF Consult, At
<1>4. CASE r.flow /\ r.regimes < MinHoldoutRegimes
  <2>1. Fail(j, "HoldoutRegimeCoverage")  BY <1>1, <1>2, <1>4 DEF Consult
  <2>2. PICK e \in Errors : e = "HoldoutRegimeCoverage"  BY DEF Errors
  <2>3. Fail(j, e)  BY <2>1, <2>2
  <2>4. job[j].pc \in {"open", "split", "search", "assess"}  BY <1>1, <1>3
  <2> QED  BY <1>3, <2>3, <2>4, FailKeeps
<1>5. CASE ~(r.flow /\ r.regimes < MinHoldoutRegimes)
  <2>1. PICK n : n = IF r.flow THEN 1 + CountConsultations(r) ELSE 0  OBVIOUS
  <2>2. PICK p : p = [q EXCEPT !.pc = "search", !.countedAt = clock, !.consultations = n]  OBVIOUS
  <2>3. job' = [job EXCEPT ![j] = p]  BY <1>1, <1>2, <1>5, <2>1, <2>2 DEF Consult
  <2>4. PICK S : S = {id \in Listed : ConsultationOverlaps(Vintage(id).request, r.holdout)}  OBVIOUS
  <2>5. IsFiniteSet(S) /\ Cardinality(S) \in Nat
    <3>1. IsFiniteSet(Listed)  BY ListedFinite DEF TrainKept
    <3> QED  BY <2>4, <3>1, FS_Subset, FS_CardinalityType
  <2>6. n = IF r.flow THEN 1 + Cardinality(S) ELSE 0  BY <2>1, <2>4 DEF CountConsultations
  <2>7. n \in Nat /\ clock \in Nat  BY <2>5, <2>6 DEF TrainKept, TrainTypes
  <2>8. p \in Processes  BY <1>1, <2>2, <2>7 DEF Processes, Stages
  <2>9. /\ p.pc = "search" /\ p.line = q.line /\ p.request = r /\ p.result = q.result /\ p.cut = q.cut
        /\ p.countedAt = clock /\ p.consultations = n
    BY <1>1, <1>2, <2>2 DEF Processes
  <2>10. Counts(r, clock, n)
    <3> SUFFICES ASSUME r.flow, NEW id \in Listed, ConsultationOverlaps(Vintage(id).request, r.holdout)  PROVE n > 1
      BY DEF Counts
    <3>1. id \in S  BY <2>4
    <3>2. Cardinality(S) # 0  BY <2>5, <3>1, FS_EmptySet
    <3> QED  BY <2>5, <2>6, <3>2
  <2>11. Covered(r, n)
    <3>1. r.flow => r.regimes >= MinHoldoutRegimes
      <4>1. r.regimes \in Nat
        <5>1. {r.subset, r.regimes, r.generations, r.windows, r.search.elites, r.search.occupied} \subseteq Nat
          BY TrainAssumption, Zenon DEF TrainAssumption
        <5> QED  BY <5>1
      <4> QED  BY <1>5, <4>1, LimitsAre
    <3> QED  BY <2>5, <2>6, <3>1 DEF Covered
  <2>12. JobKept(p)  BY <1>1, <1>3, <2>7, <2>9, <2>10, <2>11 DEF JobKept, Begun, SealedStages
  <2>13. Truncated(j) => {p.pc, p.cut} \intersect {"bytes", "report", "line", "done"} # {}
    BY <1>1, <1>3, <2>9 DEF Truncated, JobKept
  <2> QED  BY <1>1, <1>2, <1>3, <2>3, <2>8, <2>9, <2>12, <2>13, OneJobMoves
<1> QED  BY <1>4, <1>5

LEMMA SearchKeeps == ASSUME TrainKept, NEW j \in Jobs, Search(j)  PROVE TrainKept'
<1>1. PICK q \in Processes : q = job[j] /\ JobKept(q)  BY ProcessIs DEF TrainKept
<1>2. PICK r \in Requests : r = q.request  BY <1>1 DEF Processes
<1>3. q.pc = "search" /\ files' = files /\ clock' = clock  BY <1>1 DEF Search, At
<1>4. CASE \E e \in Errors : Fail(j, e)  BY <1>1, <1>3, <1>4, FailKeeps
<1>5. CASE job' = [job EXCEPT ![j].pc = "assess"] /\ ~(r.steered /\ r.search.occupied < MinOccupiedNiches)
  <2>1. PICK p : p = [q EXCEPT !.pc = "assess"]  OBVIOUS
  <2>2. p \in Processes  BY <1>1, <2>1 DEF Processes, Stages
  <2>3. /\ p.pc = "assess" /\ p.line = q.line /\ p.request = q.request /\ p.result = q.result /\ p.cut = q.cut
        /\ p.countedAt = q.countedAt /\ p.consultations = q.consultations /\ p.vintage = q.vintage
    BY <1>1, <2>1 DEF Processes
  <2>4. Spread(r)
    <3>1. r.search.occupied \in Nat /\ MinOccupiedNiches \in Nat  BY RequestIs, LimitsAre
    <3> QED  BY <1>5, <3>1 DEF Spread
  <2>5. JobKept(p)  BY <1>1, <1>2, <1>3, <2>3, <2>4 DEF JobKept, Begun, SealedStages
  <2>6. job' = [job EXCEPT ![j] = p]  BY <1>1, <1>5, <2>1
  <2>7. Truncated(j) => {p.pc, p.cut} \intersect {"bytes", "report", "line", "done"} # {}
    BY <1>1, <1>3, <2>3 DEF Truncated, JobKept
  <2> QED  BY <1>1, <1>3, <2>2, <2>3, <2>5, <2>6, <2>7, OneJobMoves
<1>6. PICK e \in Errors : e = IF r.search.elites = 0 THEN "NoElites"
                             ELSE IF r.search.members = 0 THEN "EmptyEnsemble"
                             ELSE IF ~r.search.valid THEN "SchemaMismatch"
                             ELSE IF r.steered /\ r.search.occupied < MinOccupiedNiches THEN "ArchiveCoverageCollapsed"
                             ELSE "none"
  BY DEF Errors
<1>7. IF e # "none" THEN Fail(j, e) ELSE job' = [job EXCEPT ![j].pc = "assess"]  BY <1>1, <1>2, <1>6, Zenon DEF Search
<1>8. e = "none" => ~(r.steered /\ r.search.occupied < MinOccupiedNiches)  BY <1>6
<1> QED  BY <1>4, <1>5, <1>7, <1>8

LEMMA SealKeeps == ASSUME TrainKept, NEW j \in Jobs, Seal(j)  PROVE TrainKept'
<1>1. PICK q \in Processes : q = job[j] /\ JobKept(q)  BY ProcessIs DEF TrainKept
<1>2. PICK r \in Requests : r = q.request  BY <1>1 DEF Processes
<1>3. q.pc = "assess" /\ files' = files /\ clock' = clock  BY <1>1 DEF Seal, At
<1>4. PICK rob \in Statistics : rob = Robustness(r)  BY <1>2, RobustnessIs
<1>5. CASE ~Sealable(r.verdict, rob)
  <2>1. Fail(j, "Vintage")  BY <1>1, <1>2, <1>4, <1>5 DEF Seal
  <2>2. PICK e \in Errors : e = "Vintage"  BY DEF Errors
  <2>3. Fail(j, e) /\ job[j].pc \in {"open", "split", "search", "assess"}  BY <1>1, <1>3, <2>1, <2>2
  <2> QED  BY <1>3, <2>3, FailKeeps
<1>6. CASE Sealable(r.verdict, rob)
  <2>1. PICK n \in Nat : n = ComposeTrialBasis(r)  BY <1>2, TrialsAre
  <2>2. PICK good : good = Promoted(r, EvaluateG1(r.verdict, rob))  OBVIOUS
  <2>3. good \in BOOLEAN  BY <2>2 DEF Promoted
  <2>4. PICK v : v = [request |-> r, consultations |-> q.consultations, countedAt |-> q.countedAt,
                      sealedAt |-> clock, evidence |-> rob, promoted |-> good, trials |-> n]
    OBVIOUS
  <2>5. v \in Vintages /\ v # NoVintage
    <3>1. q.consultations \in Nat /\ q.countedAt \in Nat /\ clock \in Nat  BY <1>1 DEF Processes, TrainKept, TrainTypes
    <3>2. v \in Vintages  BY <2>1, <2>3, <2>4, <3>1 DEF Vintages
    <3>3. v # NoVintage  BY <2>4 DEF NoVintage
    <3> QED  BY <3>2, <3>3
  <2>6. PICK p : p = [q EXCEPT !.pc = "write", !.vintage = v]  OBVIOUS
  <2>7. job' = [job EXCEPT ![j] = p]  BY <1>1, <1>2, <1>4, <1>6, <2>1, <2>2, <2>4, <2>6 DEF Seal
  <2>8. p \in Processes  BY <1>1, <2>5, <2>6 DEF Processes, Stages
  <2>9. /\ p.pc = "write" /\ p.line = q.line /\ p.request = r /\ p.result = q.result /\ p.cut = q.cut
        /\ p.countedAt = q.countedAt /\ p.consultations = q.consultations /\ p.vintage = v
    BY <1>1, <1>2, <2>6 DEF Processes
  <2>10. /\ v.request = r /\ v.countedAt = q.countedAt /\ v.consultations = q.consultations
         /\ v.evidence = rob /\ v.promoted = good /\ v.trials = n
    BY <2>4
  <2>11. Covered(r, q.consultations) /\ Spread(r)  BY <1>1, <1>2, <1>3 DEF JobKept, Begun
  <2>12. Genuine(v)  BY <1>4, <2>1, <2>2, <2>10, <2>11 DEF Genuine
  <2>13. JobKept(p)  BY <1>1, <1>2, <1>3, <2>5, <2>9, <2>10, <2>11, <2>12 DEF JobKept
  <2>14. Truncated(j) => {p.pc, p.cut} \intersect {"bytes", "report", "line", "done"} # {}
    BY <1>1, <1>3, <2>9 DEF Truncated, JobKept
  <2> QED  BY <1>1, <1>2, <1>3, <2>7, <2>8, <2>9, <2>13, <2>14, OneJobMoves
<1> QED  BY <1>5, <1>6

LEMMA ReportKeeps == ASSUME TrainKept, NEW j \in Jobs, Report(j)  PROVE TrainKept'
<1>1. PICK q \in Processes : q = job[j] /\ JobKept(q)  BY ProcessIs DEF TrainKept
<1>2. q.pc = "report" /\ files' = files /\ clock' = clock  BY <1>1 DEF Report, At
<1>3. PICK p : p = [q EXCEPT !.pc = "line", !.result = TRUE]  OBVIOUS
<1>4. p \in Processes  BY <1>1, <1>3 DEF Processes, Stages
<1>5. /\ p.pc = "line" /\ p.line = q.line /\ p.request = q.request /\ p.result /\ p.cut = q.cut
      /\ p.countedAt = q.countedAt /\ p.consultations = q.consultations /\ p.vintage = q.vintage
  BY <1>1, <1>3 DEF Processes
<1>6. JobKept(p)  BY <1>1, <1>2, <1>5 DEF JobKept, Begun, SealedStages
<1>7. job' = [job EXCEPT ![j] = p]  BY <1>1, <1>3 DEF Report
<1>8. Truncated(j) => {p.pc, p.cut} \intersect {"bytes", "report", "line", "done"} # {}  BY <1>5
<1> QED  BY <1>1, <1>2, <1>4, <1>5, <1>6, <1>7, <1>8, OneJobMoves

LEMMA SayDoneKeeps == ASSUME TrainKept, NEW j \in Jobs, SayDone(j)  PROVE TrainKept'
<1>1. PICK q \in Processes : q = job[j] /\ JobKept(q)  BY ProcessIs DEF TrainKept
<1>2. q.pc = "line" /\ files' = files /\ clock' = clock  BY <1>1 DEF SayDone, At
<1>3. PICK p : p = [q EXCEPT !.pc = "done", !.line = "done"]  OBVIOUS
<1>4. p \in Processes  BY <1>1, <1>3 DEF Processes, Stages
<1>5. /\ p.pc = "done" /\ p.line = "done" /\ p.request = q.request /\ p.result = q.result /\ p.cut = q.cut
      /\ p.countedAt = q.countedAt /\ p.consultations = q.consultations /\ p.vintage = q.vintage
  BY <1>1, <1>3 DEF Processes
<1>6. JobKept(p)  BY <1>1, <1>2, <1>5 DEF JobKept, Begun, SealedStages
<1>7. job' = [job EXCEPT ![j] = p]  BY <1>1, <1>3 DEF SayDone
<1>8. Truncated(j) => {p.pc, p.cut} \intersect {"bytes", "report", "line", "done"} # {}  BY <1>5
<1> QED  BY <1>1, <1>2, <1>4, <1>5, <1>6, <1>7, <1>8, OneJobMoves

LEMMA TrainKillKeeps == ASSUME TrainKept, NEW j \in Jobs, Kill(j)  PROVE TrainKept'
<1>1. PICK q \in Processes : q = job[j] /\ JobKept(q)  BY ProcessIs DEF TrainKept
<1>2. PICK p : p = [q EXCEPT !.pc = "killed", !.cut = q.pc]  OBVIOUS
<1>3. p \in Processes  BY <1>1, <1>2 DEF Processes, Stages
<1>4. /\ p.pc = "killed" /\ p.cut = q.pc /\ p.line = q.line /\ p.request = q.request /\ p.result = q.result
      /\ p.countedAt = q.countedAt /\ p.consultations = q.consultations /\ p.vintage = q.vintage
  BY <1>1, <1>2 DEF Processes
<1>5. q.pc \notin {"done", "failed", "killed"} /\ files' = files /\ clock' = clock  BY <1>1 DEF Kill, Ended
<1>6. JobKept(p)  BY <1>1, <1>4, <1>5 DEF JobKept, Begun, SealedStages
<1>7. job' = [job EXCEPT ![j] = p]  BY <1>1, <1>2 DEF Kill
<1>8. Truncated(j) => {p.pc, p.cut} \intersect {"bytes", "report", "line", "done"} # {}
  BY <1>1, <1>4, <1>5 DEF Truncated, JobKept
<1> QED  BY <1>1, <1>3, <1>4, <1>5, <1>6, <1>7, <1>8, OneJobMoves

\* A write changes one file, of the process that writes: it leaves it torn, or
\* whole and later than every count made so far.
LEMMA OneFileMoves ==
  ASSUME TrainKept, NEW j \in Jobs, NEW s \in {"bytes", "report"}, NEW f, NEW v \in Vintages,
         job[j].pc \in {"write", "bytes"}, job' = [job EXCEPT ![j].pc = s],
         files' = [files EXCEPT ![job[j].request.id] = f],
         \/ f = Torn /\ (s = "bytes" \/ Contested(j))
         \/ f = [state |-> "whole", vintage |-> v] /\ s = "report",
         v.request = job[j].request /\ Genuine(v) /\ v.sealedAt = clock /\ v.countedAt <= clock,
         Counts(v.request, v.countedAt, v.consultations),
         clock' \in Nat, clock' >= clock, f # Torn => clock' > clock
  PROVE  TrainKept'
<1>0. PICK id \in Ids : id = job[j].request.id  BY ProcessIs DEF TrainKept
<1>1. PICK q \in Processes : q = job[j] /\ JobKept(q)  BY ProcessIs DEF TrainKept
<1>2. PICK p : p = [q EXCEPT !.pc = s]  OBVIOUS
<1>3. p \in Processes  BY <1>1, <1>2 DEF Processes, Stages
<1>4. /\ p.pc = s /\ p.cut = q.cut /\ p.line = q.line /\ p.request = q.request /\ p.result = q.result
      /\ p.countedAt = q.countedAt /\ p.consultations = q.consultations /\ p.vintage = q.vintage
  BY <1>1, <1>2 DEF Processes
<1>5. job \in [Jobs -> Processes]  BY DEF TrainKept, TrainTypes
<1>6. job' = [job EXCEPT ![j] = p]  BY <1>1, <1>2
<1>7. job' \in [Jobs -> Processes] /\ job'[j] = p /\ \A k \in Jobs \ {j} : job'[k] = job[k]  BY <1>3, <1>5, <1>6
<1>8. JobKept(p)  BY <1>1, <1>4 DEF JobKept, Begun, SealedStages
<1>10. files'[id] = f /\ \A x \in Ids \ {id} : files'[x] = files[x]  BY <1>0 DEF TrainKept, TrainTypes
<1>11. f \in {Absent, Torn} \union [state : {"whole"}, vintage : Vintages]  OBVIOUS
<1>12. TrainTypes'
  <2>1. files' \in [Ids -> {Absent, Torn} \union [state : {"whole"}, vintage : Vintages]]
    BY <1>0, <1>11 DEF TrainKept, TrainTypes
  <2> QED  BY <1>7, <2>1 DEF TrainTypes
<1>13. \A x \in Ids \ {id} : (Whole(x)' <=> Whole(x)) /\ Vintage(x)' = Vintage(x)  BY <1>10 DEF Whole, Vintage
<1>14. Whole(id)' <=> f # Torn  BY <1>0, <1>10 DEF Whole, Torn
<1>15. f # Torn => Vintage(id)' = v  BY <1>0, <1>10 DEF Vintage
<1>16. ASSUME NEW x \in Listed'
       PROVE  x \in Ids /\ ((x \in Listed /\ Vintage(x)' = Vintage(x)) \/ (x = id /\ f # Torn /\ Vintage(x)' = v))
  <2>1. x \in Ids /\ Whole(x)'  BY DEF Listed
  <2>2. CASE x = id  BY <1>14, <1>15, <2>1, <2>2
  <2>3. CASE x # id
    <3>1. x \in Ids \ {id}  BY <2>1, <2>3
    <3>2. Whole(x) /\ Vintage(x)' = Vintage(x)  BY <1>13, <2>1, <3>1, Zenon
    <3>3. x \in Listed  BY <2>1, <3>2 DEF Listed
    <3> QED  BY <2>1, <3>2, <3>3, Zenon
  <2> QED  BY <2>1, <2>2, <2>3
<1>17. ASSUME NEW r, NEW c \in Nat, NEW n, c <= clock, Counts(r, c, n)  PROVE Counts(r, c, n)'
  <2> SUFFICES ASSUME r.flow, NEW x \in Listed', Vintage(x)'.sealedAt < c, ConsultationOverlaps(Vintage(x)'.request, r.holdout)
               PROVE  n > 1
    BY DEF Counts
  <2>1. clock \in Nat  BY DEF TrainKept, TrainTypes
  <2>2. CASE x \in Listed /\ Vintage(x)' = Vintage(x)  BY <1>17, <2>2 DEF Counts
  <2>3. CASE Vintage(x)' = v  BY <1>17, <2>1, <2>3
  <2> QED  BY <1>16, <2>2, <2>3
<1>18. ASSUME NEW u \in Processes, JobKept(u)  PROVE JobKept(u)'
  <2>1. u.countedAt \in Nat /\ clock \in Nat /\ u.countedAt <= clock  BY <1>18 DEF Processes, JobKept, TrainKept, TrainTypes
  <2>2. Counts(u.request, u.countedAt, u.consultations)'  BY <1>17, <1>18, <2>1 DEF JobKept
  <2>3. u.countedAt <= clock'  BY <2>1
  <2> QED  BY <1>18, <2>2, <2>3 DEF JobKept
<1>19. ASSUME NEW k \in Jobs  PROVE JobKept(job[k])'
  <2>1. PICK u \in Processes : u = job'[k]  BY <1>7
  <2>2. JobKept(u)  BY <1>7, <1>8, <2>1 DEF TrainKept
  <2>3. JobKept(u)'  BY <1>18, <2>2
  <2> QED  BY <2>1, <2>3 DEF JobKept
<1>20. \A k \in Jobs : job'[k].request = job[k].request  BY <1>1, <1>4, <1>7
<1>21. Truncated(j)'  BY <1>4, <1>7 DEF Truncated
<1>22. ASSUME NEW k \in Jobs, Truncated(k)  PROVE Truncated(k)'
  <2>1. CASE k = j  BY <1>21, <2>1
  <2>2. CASE k # j  BY <1>7, <1>22, <2>2 DEF Truncated
  <2> QED  BY <2>1, <2>2
<1>23. ASSUME NEW k \in Jobs, Contested(k)  PROVE Contested(k)'  BY <1>20, <1>22, <1>23 DEF Contested
<1>24. ASSUME NEW k \in Jobs \ {j}, job[k].request.id = id  PROVE Contested(k)'  BY <1>0, <1>20, <1>21, <1>24 DEF Contested
<1>25. ASSUME NEW k \in Jobs  PROVE Landed(k)'
  <2>1. CASE k = j
    <3>1. job'[j].pc = s /\ job'[j].request.id = id  BY <1>0, <1>1, <1>4, <1>7
    <3>2. s = "report" => Whole(id)' \/ Contested(j)'  BY <1>14, <1>23 DEF Torn
    <3>3. s = "bytes" => ~Whole(id)'  BY <1>14
    <3> QED  BY <2>1, <3>1, <3>2, <3>3 DEF Landed, Whole
  <2>2. CASE k # j /\ job[k].request.id = id  BY <1>7, <1>24, <2>2 DEF Landed, Whole
  <2>3. CASE k # j /\ job[k].request.id # id
    <3>1. job[k].request.id \in Ids \ {id}  BY <1>0, <2>3, ProcessIs DEF TrainKept
    <3>2. Whole(job[k].request.id)' <=> Whole(job[k].request.id)  BY <1>7, <1>13, <2>3, <3>1 DEF Whole
    <3>3. Landed(k)  BY DEF TrainKept
    <3> QED  BY <1>7, <1>23, <2>3, <3>2, <3>3 DEF Landed, Whole
  <2> QED  BY <2>1, <2>2, <2>3
<1>26. ASSUME NEW x \in Listed'  PROVE FileKept(x)'
  <2>1. CASE x \in Listed /\ Vintage(x)' = Vintage(x)
    <3>1. FileKept(x)  BY <2>1 DEF TrainKept
    <3>2. PICK w \in Vintages : w = Vintage(x)  BY <2>1, FileIs DEF TrainKept
    <3>3. w.countedAt \in Nat /\ clock \in Nat /\ w.sealedAt \in Nat  BY <3>2 DEF Vintages, TrainKept, TrainTypes
    <3> QED  BY <1>17, <1>20, <2>1, <3>1, <3>2, <3>3 DEF FileKept
  <2>2. CASE x = id /\ f # Torn /\ Vintage(x)' = v
    <3>1. v.countedAt \in Nat /\ clock \in Nat  BY DEF Vintages, TrainKept, TrainTypes
    <3>2. Counts(v.request, v.countedAt, v.consultations)'  BY <1>17, <3>1
    <3>3. v.sealedAt < clock'  BY <2>2, <3>1
    <3>4. \E k \in Jobs : job'[k].request.id = x  BY <1>0, <1>20, <2>2
    <3> QED  BY <1>0, <2>2, <3>1, <3>2, <3>3, <3>4 DEF FileKept
  <2> QED  BY <1>16, <2>1, <2>2
<1> QED  BY <1>12, <1>19, <1>25, <1>26 DEF TrainKept

\* When a vintage is written is no part of what it says.
LEMMA WrittenIs ==
  ASSUME NEW v \in Vintages, NEW n \in Nat, Genuine(v), NEW w, w = [v EXCEPT !.sealedAt = n]
  PROVE  /\ w \in Vintages /\ w.sealedAt = n /\ Genuine(w)
         /\ w.request = v.request /\ w.countedAt = v.countedAt /\ w.consultations = v.consultations
<1>1. w \in Vintages /\ w.sealedAt = n  BY DEF Vintages
<1>2. /\ w.request = v.request /\ w.countedAt = v.countedAt /\ w.consultations = v.consultations
      /\ w.evidence = v.evidence /\ w.promoted = v.promoted /\ w.trials = v.trials
  BY DEF Vintages
<1> QED  BY <1>1, <1>2 DEF Genuine

LEMMA CreateKeeps == ASSUME TrainKept, NEW j \in Jobs, Create(j)  PROVE TrainKept'
<1>1. PICK q \in Processes : q = job[j] /\ JobKept(q)  BY ProcessIs DEF TrainKept
<1>2. q.pc = "write" /\ clock' = clock  BY <1>1 DEF Create, At
<1>3. PICK v \in Vintages : v = q.vintage
  <2>1. q.vintage # NoVintage  BY <1>1, <1>2 DEF JobKept, SealedStages
  <2> QED  BY <1>1, <2>1 DEF Processes
<1>4. PICK w : w = [v EXCEPT !.sealedAt = clock]  OBVIOUS
<1>5. /\ Genuine(v) /\ v.request = q.request /\ v.countedAt = q.countedAt /\ v.consultations = q.consultations
      /\ Counts(q.request, q.countedAt, q.consultations) /\ q.countedAt <= clock
  BY <1>1, <1>2, <1>3 DEF JobKept, SealedStages
<1>6. w \in Vintages /\ w.request = q.request /\ w.sealedAt = clock /\ w.countedAt <= clock /\ Genuine(w)
      /\ Counts(w.request, w.countedAt, w.consultations)
  BY <1>3, <1>4, <1>5, WrittenIs DEF TrainKept, TrainTypes
<1>7. clock \in Nat  BY DEF TrainKept, TrainTypes
<1>8. PICK f : f = Torn  OBVIOUS
<1>9. files' = [files EXCEPT ![job[j].request.id] = f] /\ job' = [job EXCEPT ![j].pc = "bytes"]  BY <1>8 DEF Create, Torn
<1>10. clock' \in Nat /\ clock' >= clock  BY <1>2, <1>7
<1>11. job[j].pc \in {"write", "bytes"} /\ w.request = job[j].request  BY <1>1, <1>2, <1>6
<1> QED  BY <1>6, <1>8, <1>9, <1>10, <1>11, OneFileMoves

LEMMA BytesKeeps == ASSUME TrainKept, NEW j \in Jobs, Bytes(j)  PROVE TrainKept'
<1>1. PICK q \in Processes : q = job[j] /\ JobKept(q)  BY ProcessIs DEF TrainKept
<1>2. q.pc = "bytes" /\ clock' = clock + 1 /\ job' = [job EXCEPT ![j].pc = "report"]  BY <1>1 DEF Bytes, At
<1>3. PICK v \in Vintages : v = q.vintage
  <2>1. q.vintage # NoVintage  BY <1>1, <1>2 DEF JobKept, SealedStages
  <2> QED  BY <1>1, <2>1 DEF Processes
<1>4. PICK w : w = [v EXCEPT !.sealedAt = clock]  OBVIOUS
<1>5. /\ Genuine(v) /\ v.request = q.request /\ v.countedAt = q.countedAt /\ v.consultations = q.consultations
      /\ Counts(q.request, q.countedAt, q.consultations) /\ q.countedAt <= clock
  BY <1>1, <1>2, <1>3 DEF JobKept, SealedStages
<1>6. w \in Vintages /\ w.request = q.request /\ w.sealedAt = clock /\ w.countedAt <= clock /\ Genuine(w)
      /\ Counts(w.request, w.countedAt, w.consultations)
  BY <1>3, <1>4, <1>5, WrittenIs DEF TrainKept, TrainTypes
<1>7. clock \in Nat  BY DEF TrainKept, TrainTypes
<1>8. clock' \in Nat /\ clock' > clock /\ clock' >= clock  BY <1>2, <1>7
<1>9. w = [job[j].vintage EXCEPT !.sealedAt = clock]  BY <1>1, <1>3, <1>4
<1>10. w.request.id = job[j].request.id  BY <1>1, <1>6
<1>11. CASE files' = [files EXCEPT ![w.request.id] = [state |-> "whole", vintage |-> w]]
  <2>1. PICK f : f = [state |-> "whole", vintage |-> w]  OBVIOUS
  <2>2. files' = [files EXCEPT ![job[j].request.id] = f]  BY <1>10, <1>11, <2>1
  <2> QED  BY <1>1, <1>2, <1>6, <1>8, <2>1, <2>2, OneFileMoves
<1>12. CASE Whole(w.request.id) /\ files' = [files EXCEPT ![w.request.id] = [state |-> "torn"]]
  <2>1. PICK f : f = Torn  OBVIOUS
  <2>2. files' = [files EXCEPT ![job[j].request.id] = f]  BY <1>10, <1>12, <2>1 DEF Torn
  <2>3. Contested(j)  BY <1>1, <1>2, <1>10, <1>12 DEF TrainKept, Landed
  <2> QED  BY <1>1, <1>2, <1>6, <1>8, <2>1, <2>2, <2>3, OneFileMoves
<1> QED  BY <1>9, <1>11, <1>12 DEF Bytes

LEMMA TrainNextKeeps == ASSUME TrainKept, [TrainNext]_trainVars  PROVE TrainKept'
<1>1. CASE UNCHANGED trainVars
  BY <1>1 DEF trainVars, TrainKept, TrainTypes, JobKept, Landed, FileKept, Listed, Whole, Vintage, Counts, Contested, Truncated
<1>2. ASSUME NEW j \in Jobs, JobStep(j) \/ Kill(j)  PROVE TrainKept'
  BY <1>2, LoadConfigKeeps, OpenKeeps, ConsultKeeps, SearchKeeps, SealKeeps, CreateKeeps, BytesKeeps, ReportKeeps, SayDoneKeeps,
     TrainKillKeeps
  DEF JobStep
<1> QED  BY <1>1, <1>2 DEF TrainNext

\* With any number of jobs over one repository and a kill between any two steps, a
\* job promotes what earned it, counts every earlier use of the holdout it shares,
\* and says done of what is on disk (train.rs; vintage/src/lib.rs).
THEOREM JobHolds == TrainSpec => []JobSound
<1>1. TrainInit => TrainKept  BY TrainStarts
<1>2. TrainKept /\ [TrainNext]_trainVars => TrainKept'  BY TrainNextKeeps
<1>3. TrainKept => JobSound  BY TrainingSound
<1> QED  BY <1>1, <1>2, <1>3, PTL DEF TrainSpec
==============================================================================
