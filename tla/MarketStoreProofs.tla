-------------------------- MODULE MarketStoreProofs --------------------------
(***************************************************************************)
(* Proofs about MarketStore, for any windows, funding interval, page size, *)
(* retries and clock, and any number of jobs, failed pages and crashes;    *)
(* and about DerivedCache, the data derived from it.                       *)
(***************************************************************************)
EXTENDS MarketStore, DerivedCache, FiniteSetTheorems, WellFoundedInduction, TLAPS

USE StoreAssumption

-----------------------------------------------------------------------------
(* Numbers: least and greatest elements, and the grid of a series.         *)

LEMMA LeastExists ==
  ASSUME NEW S \in SUBSET Nat, S # {}
  PROVE  Min(S) \in S /\ \A y \in S : Min(S) <= y
<1>2. \E x \in S : \A y \in S : ~(<<y, x>> \in OpToRel(<, Nat))
  BY NatLessThanWellFounded, WFMin, Zenon
<1>3. PICK x \in S : \A y \in S : ~(y < x)
  BY <1>2 DEF OpToRel
<1>4. x \in S /\ \A y \in S : x =< y  BY <1>3
<1> QED  BY <1>4 DEF Min

LEMMA GreatestExists ==
  ASSUME NEW n \in Nat, NEW S \in SUBSET (0 .. n), S # {}
  PROVE  Max(S) \in S /\ \A y \in S : Max(S) >= y
<1> DEFINE T == {n - i : i \in S}
<1>0. \A i \in S : n - i \in Nat  OBVIOUS
<1>1. T \in SUBSET Nat /\ T # {}  BY <1>0
<1>2. Min(T) \in T /\ \A y \in T : Min(T) <= y  BY <1>1, LeastExists
<1>3. PICK x \in S : Min(T) = n - x  BY <1>2
<1>4. \A j \in S : n - x <= n - j  BY <1>2, <1>3
<1>5. x \in S /\ \A y \in S : x >= y  BY <1>4
<1> QED  BY <1>5 DEF Max

LEMMA MinOfTwo ==
  ASSUME NEW a \in Nat, NEW b \in Nat
  PROVE  Min({a, b}) \in Nat /\ Min({a, b}) <= a /\ Min({a, b}) <= b /\ (Min({a, b}) = a \/ Min({a, b}) = b)
  BY LeastExists

LEMMA Remainder ==
  ASSUME NEW s \in Nat \ {0}, NEW a \in Int
  PROVE  a % s \in 0 .. s - 1
  OBVIOUS

LEMMA Quotient ==
  ASSUME NEW s \in Nat \ {0}, NEW a \in Int
  PROVE  a = (s * (a \div s)) + (a % s) /\ (a \div s) \in Int
  OBVIOUS

LEMMA Multiple ==
  ASSUME NEW s \in Nat \ {0}, NEW q \in Int
  PROVE  (s * q) % s = 0
  OBVIOUS

LEMMA NextOnGrid ==
  ASSUME NEW s \in Nat \ {0}, NEW a \in Int, a % s = 0
  PROVE  (a + s) % s = 0
<1> DEFINE p == a \div s
<1>1. p \in Int /\ a = s * p  BY Quotient
<1>2. s * (p + 1) = a + s  BY <1>1
<1>3. (s * (p + 1)) % s = 0  BY <1>1, Multiple
<1> QED  BY <1>2, <1>3

\* Two stamps of the grid are a step apart.
LEMMA GridGap ==
  ASSUME NEW s \in Nat \ {0}, NEW a \in Int, NEW b \in Int, a % s = 0, b % s = 0, a < b
  PROVE  a + s <= b
<1> DEFINE p == a \div s
           q == b \div s
<1>1. p \in Int /\ q \in Int /\ a = s * p /\ b = s * q  BY Quotient
<1>2. p < q  BY <1>1
<1>3. p + 1 <= q  BY <1>1, <1>2
<1>4. s * (p + 1) <= s * q  BY <1>1, <1>3
<1>5. s * (p + 1) = (s * p) + s  BY <1>1
<1> QED  BY <1>1, <1>4, <1>5

\* FloorToGrid is the last stamp up to a time.
LEMMA FloorIsLast ==
  ASSUME NEW s \in Nat \ {0}, NEW a \in Nat
  PROVE  /\ FloorToGrid(a, s) \in Nat /\ FloorToGrid(a, s) % s = 0 /\ FloorToGrid(a, s) <= a
         /\ \A t \in Int : t % s = 0 /\ t <= a => t <= FloorToGrid(a, s)
<1> DEFINE r == a % s
           p == a \div s
           e == FloorToGrid(a, s)
<1>1. r \in 0 .. s - 1  BY Remainder
<1>2. p \in Int /\ a = (s * p) + r  BY Quotient
<1>3. e = a - r  BY DEF FloorToGrid
<1>4. e = s * p  BY <1>1, <1>2, <1>3
<1>5. (s * p) % s = 0  BY <1>2, Multiple
<1>6. e % s = 0  BY <1>4, <1>5
<1>7. p >= 0  BY <1>1, <1>2
<1>8. s * p >= 0  BY <1>2, <1>7
<1>9. e \in Nat /\ e <= a  BY <1>1, <1>2, <1>3, <1>4, <1>8
<1>10. ASSUME NEW t \in Int, t % s = 0, t <= a  PROVE t <= e
  <2>1. SUFFICES ASSUME e < t  PROVE FALSE  BY <1>9, <1>10
  <2>2. e + s <= t  BY <1>6, <1>9, <1>10, <2>1, GridGap
  <2> QED  BY <1>1, <1>3, <1>10, <2>2
<1> QED  BY <1>6, <1>9, <1>10

LEMMA FloorOfSlots == ASSUME NEW a \in Int PROVE FloorToGrid(a, 1) = a /\ a % 1 = 0
<1>1. a % 1 \in 0 .. 1 - 1  BY Remainder
<1> QED  BY <1>1 DEF FloorToGrid

-----------------------------------------------------------------------------
(* The inductive invariant.                                                *)

\* The last slot a job may want: the end of its window or the clock it read.
Upto(j) == Min({j.to, j.now})

Slots == 0 .. LastSlot
Specs == [kind : {"real", "synthetic", "fused"}, from : Slots, to : Slots, now : Nat]
Fetches == [series : {"bars", "funding"}, first : Nat, last : Nat, cursor : Nat,
            rows : SUBSET Nat, final : SUBSET Nat, attempts : Nat, ended : BOOLEAN]

\* A fetch under way for the spec j: it holds every stamp of the series before
\* its cursor and no other, and knows which of them were final as they were read.
Fetching(f, j) ==
  /\ f.first = FloorToGrid(j.from, Step(f.series)) /\ f.last = FloorToGrid(Upto(j), Step(f.series))
  /\ \A t \in f.rows : t >= f.first /\ t <= now /\ t < f.cursor /\ t % Step(f.series) = 0
  /\ \A t \in f.rows : t + 1 <= j.now => t \in f.final
  /\ f.cursor >= f.first /\ f.cursor % Step(f.series) = 0
  /\ \A t \in f.first .. f.cursor - 1 : t % Step(f.series) = 0 => t \in f.rows
  /\ f.ended => Upto(j) < f.first

\* A fetch that ended has all that was wanted of its series.
Fetched(f, j) ==
  /\ f.first = FloorToGrid(j.from, Step(f.series)) /\ f.last = FloorToGrid(Upto(j), Step(f.series))
  /\ \A t \in f.rows : t + 1 <= j.now => t \in f.final
  /\ \A t \in f.first .. f.last : t % Step(f.series) = 0 => t \in f.rows

\* What a real ingest holds of the bars, and of the funding, of its window.
BarsWhole(b, fin, j) ==
  /\ b \subseteq Slots /\ b \subseteq fin
  /\ \A t \in j.from .. Upto(j) : t + 1 <= j.now => t \in b
FundingWhole(g, j) == \A t \in j.from .. Upto(j) : t % FundingStep = 0 => t \in g

FetchingBars ==
  /\ job \in [pc : {"fetch"}, spec : Specs, fetch : Fetches]
  /\ job.spec.kind = "real" /\ job.fetch.series = "bars" /\ Fetching(job.fetch, job.spec)

FetchingFunding ==
  /\ job \in [pc : {"fetch"}, spec : Specs, bars : SUBSET Nat, final : SUBSET Nat, fetch : Fetches]
  /\ job.spec.kind = "real" /\ job.fetch.series = "funding" /\ Fetching(job.fetch, job.spec)
  /\ BarsWhole(job.bars, job.final, job.spec)

Writing ==
  /\ job \in [pc : {"tagged", "funding", "context"}, spec : Specs, bars : SUBSET Nat,
              final : SUBSET Nat, funding : SUBSET Nat]
  /\ job.spec.kind \in {"real", "synthetic"} /\ job.bars \subseteq Slots
  /\ job.spec.kind = "real" => BarsWhole(job.bars, job.final, job.spec) /\ FundingWhole(job.funding, job.spec)
  /\ job.pc # "tagged" => \A t \in job.bars : t \in DOMAIN bars /\ bars[t].origin = job.spec.kind
  /\ job.pc = "context" => job.funding \subseteq fundings

\* The corpus of a fused job is stored in the order of its transactions.
Fusing ==
  /\ job \in [pc : Range(FusedOrder), spec : Specs, id : Nat]
  /\ job.id \in DOMAIN persisted /\ persisted[job.id] = <<job.spec.from, job.spec.to>>
  /\ job.pc # "plain" => FusedSlots \subseteq DOMAIN bars
  /\ job.pc \notin {"plain", "fused-funding"} => FusedSlots \subseteq fundings
  /\ job.pc \in {"fused-futures", "lineage"} => FusedSlots \subseteq contexts
  /\ job.pc = "lineage" => FusedSlots \subseteq futures

JobOK == job = NoJob \/ (job.spec.now <= now /\ (FetchingBars \/ FetchingFunding \/ Writing \/ Fusing))

\* The store's own shape, whatever jobs are under way.
Shaped ==
  /\ now \in Nat /\ jobsRun \in Nat
  /\ DOMAIN bars \subseteq Slots
  /\ DOMAIN segments \subseteq DOMAIN bars
  /\ \A s \in DOMAIN segments : /\ segments[s].end \in Nat /\ s <= segments[s].end
                                /\ segments[s].origin \in {"real", "synthetic"}
  /\ \A id \in DOMAIN persisted : id \in Nat /\ id < jobsRun /\ persisted[id] \in Windows
  /\ lineages \subseteq DOMAIN persisted

\* Nothing is written between the report of a success and the next job.
Reported == finished # NoJob => job = NoJob

StoreInv == Shaped /\ JobOK /\ Reported /\ TaggedTogether /\ IngestComplete /\ NoFormingBar /\ LineageComplete


-----------------------------------------------------------------------------
(* Pages.                                                                  *)

LEMMA StepIsPositive == ASSUME NEW series \in {"bars", "funding"} PROVE Step(series) \in Nat \ {0}
  BY DEF Step

\* A page holds the first stamps of the venue from the cursor on.
LEMMA PageIsPrefix ==
  ASSUME now \in Nat, NEW series \in {"bars", "funding"}, NEW c \in Nat
  PROVE  /\ \A t \in VenuePage(series, c) : t \in 0 .. now /\ t % Step(series) = 0 /\ t >= c
         /\ \A t \in VenuePage(series, c) : \A u \in 0 .. now :
              (u % Step(series) = 0 /\ u >= c /\ u < t) => u \in VenuePage(series, c)
         /\ VenuePage(series, c) = {} => \A u \in 0 .. now : u % Step(series) = 0 => u < c
<1> DEFINE have == {t \in 0 .. now : t % Step(series) = 0 /\ t >= c}
           before(t) == {u \in have : u < t}
           page == VenuePage(series, c)
<1>1. page = {t \in have : Cardinality(before(t)) < PageLimit}  BY DEF VenuePage
<1>2. IsFiniteSet(0 .. now)  BY FS_Interval
<1>3. IsFiniteSet(have)  BY <1>2, FS_Subset
<1>4. ASSUME NEW t \in page, NEW u \in 0 .. now, u % Step(series) = 0, u >= c, u < t
      PROVE  u \in page
  <2>1. u \in have /\ t \in have  BY <1>1, <1>4
  <2>2. before(u) \subseteq before(t)  BY <1>4, <2>1
  <2>3. IsFiniteSet(before(t))  BY <1>3, FS_Subset
  <2>4. IsFiniteSet(before(u)) /\ Cardinality(before(u)) <= Cardinality(before(t))
    BY <2>2, <2>3, FS_Subset
  <2>5. Cardinality(before(u)) \in Nat /\ Cardinality(before(t)) \in Nat  BY <2>3, <2>4, FS_CardinalityType
  <2>6. Cardinality(before(t)) < PageLimit  BY <1>1
  <2>7. Cardinality(before(u)) < PageLimit  BY <2>4, <2>5, <2>6
  <2> QED  BY <1>1, <2>1, <2>7
<1>5. ASSUME page = {}  PROVE have = {}
  <2>1. SUFFICES ASSUME have # {}  PROVE FALSE  OBVIOUS
  <2>2. Min(have) \in have /\ \A y \in have : Min(have) <= y  BY <2>1, LeastExists
  <2>3. before(Min(have)) = {}  BY <2>2
  <2>4. Cardinality(before(Min(have))) = 0  BY <2>3, FS_EmptySet
  <2>5. Min(have) \in page  BY <1>1, <2>2, <2>4
  <2> QED  BY <1>5, <2>5
<1> HIDE DEF page
<1>6. \A t \in page : t \in have  BY <1>1
<1>7. \A u \in 0 .. now : u \notin have /\ u % Step(series) = 0 => u < c  OBVIOUS
<1> QED  BY <1>4, <1>5, <1>6, <1>7 DEF page

LEMMA UptoOf ==
  ASSUME NEW j \in Specs
  PROVE  Upto(j) \in Nat /\ Upto(j) <= j.to /\ Upto(j) <= j.now
  BY MinOfTwo DEF Specs, Slots, Upto

\* One page of backfill either keeps the fetch going, with nothing skipped, or
\* ends it with everything that was wanted.
LEMMA PageKeepsFetch ==
  ASSUME now \in Nat, NEW j \in Specs, NEW f \in Fetches, Fetching(f, j), ~ f.ended, j.now <= now,
         NEW g, g = AfterPage(f, VenuePage(f.series, f.cursor))
  PROVE  /\ g \in Fetches /\ g.series = f.series
         /\ IF g.ended THEN Fetched(g, j) ELSE Fetching(g, j)
<1> DEFINE s == Step(f.series)
           have == f.rows
           page == VenuePage(f.series, f.cursor)
           last == IF have = {} THEN -1 ELSE Max(have)
           rows == have \union page
           newest == IF rows = {} THEN f.cursor ELSE Max(rows)
           fin  == f.final \union {t \in rows \ have : t + 1 <= now}
           over == page = {} \/ rows = have \/ newest >= f.last
<1>1. /\ f.series \in {"bars", "funding"} /\ f.first \in Nat /\ f.last \in Nat /\ f.cursor \in Nat
      /\ have \in SUBSET Nat /\ f.final \in SUBSET Nat
      /\ j.now \in Nat /\ j.from \in Nat
  BY DEF Fetches, Specs, Slots
<1>2. s \in Nat \ {0}  BY <1>1, StepIsPositive
<1>3. Upto(j) \in Nat /\ Upto(j) <= j.now  BY UptoOf
<1>4. f.last <= Upto(j) /\ f.last <= now
  <2>1. f.last = FloorToGrid(Upto(j), s)  BY DEF Fetching
  <2>2. FloorToGrid(Upto(j), s) <= Upto(j)  BY <1>2, <1>3, FloorIsLast
  <2> QED  BY <1>1, <1>3, <2>1, <2>2
<1>5. \A t \in have : t >= f.first /\ t <= now /\ t < f.cursor /\ t % s = 0  BY DEF Fetching
<1>6. /\ \A t \in page : t \in 0 .. now /\ t % s = 0 /\ t >= f.cursor
      /\ \A t \in page : \A u \in 0 .. now : (u % s = 0 /\ u >= f.cursor /\ u < t) => u \in page
      /\ page = {} => \A u \in 0 .. now : u % s = 0 => u < f.cursor
  BY <1>1, PageIsPrefix
<1>7. have \in SUBSET (0 .. now)  BY <1>1, <1>5
<1>8. \A t \in page : t > last
  <2>1. CASE have = {}  BY <1>6, <2>1
  <2>2. CASE have # {}
    <3>1. Max(have) \in have  BY <1>7, <2>2, GreatestExists
    <3> QED  BY <1>1, <1>5, <1>6, <2>2, <3>1
  <2> QED  BY <2>1, <2>2
<1>9. have \union {t \in page : t > last} = rows  BY <1>8
<1>10. g = [f EXCEPT !.rows = rows, !.attempts = 0, !.final = fin,
                     !.cursor = newest + s, !.ended = over]
  BY <1>9 DEF AfterPage, NextCursor
<1>11. rows \in SUBSET (0 .. now)  BY <1>6, <1>7
<1>12. rows # {} => newest \in rows /\ \A y \in rows : newest >= y  BY <1>11, GreatestExists
<1>13. newest \in Nat  BY <1>1, <1>11, <1>12
<1>14. fin \in SUBSET Nat  BY <1>1, <1>11
<1> HIDE DEF s, have, page, last, rows, newest, fin, over
<1>15. over \in BOOLEAN  BY DEF over
<1>16. newest + s \in Nat /\ rows \in SUBSET Nat  BY <1>2, <1>11, <1>13
<1>17. g \in Fetches
  <2>1. g = [series |-> f.series, first |-> f.first, last |-> f.last, cursor |-> newest + s,
             rows |-> rows, final |-> fin, attempts |-> 0, ended |-> over]
    BY <1>10 DEF Fetches
  <2> QED  BY <1>1, <1>14, <1>15, <1>16, <2>1 DEF Fetches
<1>18. /\ g.series = f.series /\ g.first = f.first /\ g.last = f.last /\ g.rows = rows
       /\ g.final = fin /\ g.cursor = newest + s /\ g.ended = over
  BY <1>10 DEF Fetches
<1>19. \A t \in rows : t + 1 <= j.now => t \in fin
  <2>1. TAKE t \in rows
  <2>2. HAVE t + 1 <= j.now
  <2>3. CASE t \in have  BY <2>2, <2>3 DEF Fetching, have, fin
  <2>4. CASE t \notin have  BY <1>1, <1>11, <2>1, <2>2, <2>4 DEF fin
  <2> QED  BY <2>3, <2>4
<1>20. \A t \in f.first .. f.cursor - 1 : t % s = 0 => t \in have  BY DEF Fetching, s, have
<1>21. f.first % s = 0
  <2>1. f.first = FloorToGrid(j.from, s)  BY DEF Fetching, s
  <2> QED  BY <1>1, <1>2, <2>1, FloorIsLast
<1>22. f.cursor >= f.first /\ f.cursor % s = 0  BY DEF Fetching, s
<1>23. \A t \in rows : t >= f.first /\ t % s = 0  BY <1>1, <1>5, <1>6, <1>22 DEF rows
<1>24. rows # {} => \A t \in f.first .. newest : t % s = 0 => t \in rows
  <2>1. HAVE rows # {}
  <2>2. TAKE t \in f.first .. newest
  <2>3. HAVE t % s = 0
  <2>4. t \in Nat /\ t <= newest /\ t \in 0 .. now  BY <1>1, <1>11, <1>12, <1>13, <2>1
  <2>5. CASE t < f.cursor  BY <1>1, <1>20, <2>3, <2>4, <2>5 DEF rows
  <2>6. CASE t >= f.cursor
    <3>1. newest \in page  BY <1>1, <1>5, <1>12, <1>13, <2>1, <2>4, <2>6 DEF rows
    <3>2. t = newest \/ t < newest  BY <1>13, <2>4
    <3> QED  BY <1>6, <2>3, <2>4, <2>6, <3>1, <3>2 DEF rows
  <2> QED  BY <1>1, <2>4, <2>5, <2>6
<1>25. CASE over
  <2>1. \A t \in f.first .. f.last : t % s = 0 => t \in rows
    <3>1. CASE page = {}
      <4>1. TAKE t \in f.first .. f.last
      <4>2. HAVE t % s = 0
      <4>3. t \in 0 .. now  BY <1>1, <1>4
      <4>4. t < f.cursor  BY <1>6, <3>1, <4>2, <4>3
      <4> QED  BY <1>1, <1>20, <4>2, <4>4 DEF rows
    <3>2. CASE page # {} /\ newest >= f.last
      <4>1. rows # {}  BY <3>2 DEF rows
      <4> QED  BY <1>1, <1>13, <1>24, <3>2, <4>1
    <3>3. CASE page # {} /\ rows = have
      <4>1. PICK t \in page : TRUE  BY <3>3
      <4>2. t \in have  BY <3>3 DEF rows
      <4> QED  BY <1>1, <1>5, <1>6, <4>1, <4>2
    <3> QED  BY <1>25, <3>1, <3>2, <3>3 DEF over
  <2>2. Fetched(g, j)  BY <1>18, <1>19, <2>1 DEF Fetched, Fetching, s
  <2> QED  BY <1>17, <1>18, <1>25, <2>2
<1>26. CASE ~ over
  <2>1. rows # {}  BY <1>26 DEF over, rows
  <2>2. newest \in rows /\ \A y \in rows : newest >= y  BY <1>12, <2>1
  <2>3. newest % s = 0 /\ newest >= f.first  BY <1>23, <2>2
  <2>4. (newest + s) % s = 0  BY <1>2, <1>13, <2>3, NextOnGrid, newest \in Int, Zenon
  <2>5. \A t \in rows : t <= now /\ t < newest + s  BY <1>2, <1>11, <1>13, <2>2
  <2>6. \A t \in f.first .. newest + s - 1 : t % s = 0 => t \in rows
    <3>1. TAKE t \in f.first .. newest + s - 1
    <3>2. HAVE t % s = 0
    <3>3. t \in Int /\ t < newest + s  BY <1>1, <1>2, <1>13
    <3>4. ~ (newest < t)
      <4>1. ASSUME newest < t  PROVE newest + s <= t
        BY <1>2, <1>13, <2>3, <3>2, <3>3, <4>1, newest \in Int, GridGap, Zenon
      <4> QED  BY <1>2, <1>13, <3>3, <4>1
    <3> QED  BY <1>1, <1>13, <1>24, <2>1, <3>2, <3>3, <3>4
  <2>7. newest + s >= f.first  BY <1>1, <1>2, <1>13, <2>3
  <2>8. Step(g.series) = s  BY <1>18 DEF s
  <2>9. g.first = FloorToGrid(j.from, s) /\ g.last = FloorToGrid(Upto(j), s)
    BY <1>18 DEF Fetching, s
  <2>10. \A t \in g.rows : t >= g.first /\ t <= now /\ t < g.cursor /\ t % s = 0  BY <1>18, <1>23, <2>5
  <2>11. \A t \in g.first .. g.cursor - 1 : t % s = 0 => t \in g.rows
    BY <1>1, <1>2, <1>13, <1>18, <2>6
  <2>12. \A t \in g.rows : t + 1 <= j.now => t \in g.final  BY <1>18, <1>19
  <2>13. g.cursor >= g.first /\ g.cursor % s = 0 /\ ~ g.ended  BY <1>18, <1>26, <2>4, <2>7
  <2>14. Fetching(g, j)
    BY <2>8, <2>9, <2>10, <2>11, <2>12, <2>13 DEF Fetching
  <2> QED  BY <1>17, <1>18, <1>26, <2>14
<1> QED  BY <1>25, <1>26

\* A fetch that had nothing to do is whole from the start.
LEMMA EndedIsFetched ==
  ASSUME NEW j \in Specs, NEW f \in Fetches, Fetching(f, j), f.ended
  PROVE  Fetched(f, j)
<1>1. Step(f.series) \in Nat \ {0}  BY StepIsPositive DEF Fetches
<1>2. Upto(j) \in Nat  BY UptoOf
<1>3. FloorToGrid(Upto(j), Step(f.series)) <= Upto(j)  BY <1>1, <1>2, FloorIsLast
<1>4. f.first \in Nat /\ f.last \in Nat  BY DEF Fetches
<1>5. f.last < f.first  BY <1>2, <1>3, <1>4 DEF Fetching
<1>6. f.first .. f.last = {}  BY <1>4, <1>5
<1> QED  BY <1>6 DEF Fetching, Fetched

LEMMA NewFetchFetches ==
  ASSUME NEW j \in Specs, NEW series \in {"bars", "funding"}
  PROVE  /\ NewFetch(series, j) \in Fetches /\ NewFetch(series, j).series = series
         /\ Fetching(NewFetch(series, j), j)
<1> DEFINE f == NewFetch(series, j)
           s == Step(series)
           a == FloorToGrid(j.from, s)
           z == FloorToGrid(Upto(j), s)
<1>1. s \in Nat \ {0}  BY StepIsPositive
<1>2. j.from \in Nat /\ Upto(j) \in Nat  BY UptoOf DEF Specs, Slots
<1>3. a \in Nat /\ a % s = 0 /\ z \in Nat  BY <1>1, <1>2, FloorIsLast
<1>4. f = [series |-> series, first |-> a, last |-> z, cursor |-> a, rows |-> {}, final |-> {},
           attempts |-> 0, ended |-> Upto(j) < a]
  BY DEF NewFetch, Upto
<1> HIDE DEF f, s, a, z
<1>5. f \in Fetches  BY <1>3, <1>4 DEF Fetches
<1>6. f.series = series /\ f.first = a /\ f.last = z /\ f.cursor = a /\ f.rows = {} /\ (f.ended <=> Upto(j) < a)
  BY <1>4
<1>7. a .. a - 1 = {}  BY <1>3
<1>8. f.first = FloorToGrid(j.from, Step(f.series)) /\ f.last = FloorToGrid(Upto(j), Step(f.series))
  BY <1>6 DEF a, z, s
<1>9. f.cursor >= f.first /\ f.cursor % Step(f.series) = 0  BY <1>3, <1>6 DEF s
<1>10. Fetching(f, j)  BY <1>6, <1>7, <1>8, <1>9 DEF Fetching
<1> QED  BY <1>5, <1>6, <1>10 DEF f

\* The bars that were closed as the job began are among those fetched, and were
\* final as they were read.
LEMMA BarsAreWhole ==
  ASSUME NEW j \in Specs, NEW f \in Fetches, f.series = "bars", Fetched(f, j)
  PROVE  BarsWhole(Closed(f, j), f.final, j)
<1> DEFINE b == Closed(f, j)
<1>1. j.from \in Nat /\ j.to \in Slots /\ j.now \in Nat  BY DEF Specs, Slots
<1>2. Upto(j) \in Nat /\ Upto(j) <= j.to /\ Upto(j) <= j.now  BY UptoOf
<1>3. Step(f.series) = 1  BY DEF Step
<1>4. f.first = j.from /\ f.last = Upto(j)  BY <1>1, <1>2, <1>3, FloorOfSlots DEF Fetched
<1>5. b = {t \in f.rows : f.first <= t /\ t <= f.last /\ t + 1 <= j.now}  BY DEF Closed
<1>6. f.rows \in SUBSET Nat  BY DEF Fetches
<1>7. b \subseteq Slots  BY <1>1, <1>2, <1>4, <1>5, <1>6 DEF Slots
<1>8. b \subseteq f.final  BY <1>5 DEF Fetched
<1>9. \A t \in j.from .. Upto(j) : t + 1 <= j.now => t \in b
  <2>1. TAKE t \in j.from .. Upto(j)
  <2>2. HAVE t + 1 <= j.now
  <2>3. t \in Int /\ j.from <= t /\ t <= Upto(j)  BY <1>1, <1>2
  <2>4. t % 1 = 0  BY <2>3, FloorOfSlots
  <2>5. t \in f.rows  BY <1>3, <1>4, <2>4 DEF Fetched
  <2> QED  BY <1>4, <1>5, <2>2, <2>3, <2>5
<1> QED  BY <1>7, <1>8, <1>9 DEF BarsWhole

LEMMA FundingIsWhole ==
  ASSUME NEW j \in Specs, NEW f \in Fetches, f.series = "funding", Fetched(f, j)
  PROVE  FundingWhole(Closed(f, j), j)
<1> DEFINE g == Closed(f, j)
<1>1. j.from \in Nat /\ j.now \in Nat  BY DEF Specs, Slots
<1>2. Upto(j) \in Nat /\ Upto(j) <= j.now  BY UptoOf
<1>3. Step(f.series) = FundingStep  BY DEF Step
<1>4. f.first = FloorToGrid(j.from, FundingStep) /\ f.last = FloorToGrid(Upto(j), FundingStep)
  BY <1>3 DEF Fetched
<1>5. f.first \in Nat /\ f.first <= j.from  BY <1>1, <1>4, FloorIsLast
<1>6. f.last \in Nat /\ \A t \in Int : t % FundingStep = 0 /\ t <= Upto(j) => t <= f.last
  BY <1>2, <1>4, FloorIsLast
<1>7. g = {t \in f.rows : f.first <= t /\ t <= f.last /\ t <= j.now}  BY DEF Closed
<1>8. \A t \in j.from .. Upto(j) : t % FundingStep = 0 => t \in g
  <2>1. TAKE t \in j.from .. Upto(j)
  <2>2. HAVE t % FundingStep = 0
  <2>3. t \in Int /\ j.from <= t /\ t <= Upto(j)  BY <1>1, <1>2
  <2>4. t <= f.last  BY <1>6, <2>2, <2>3
  <2>5. f.first <= t /\ t <= j.now  BY <1>1, <1>2, <1>5, <2>3
  <2>6. t \in f.rows  BY <1>3, <1>5, <1>6, <2>2, <2>3, <2>4, <2>5 DEF Fetched
  <2> QED  BY <1>7, <2>4, <2>5, <2>6
<1> QED  BY <1>8 DEF FundingWhole

-----------------------------------------------------------------------------
(* The steps.                                                              *)

LEMMA PutIs ==
  ASSUME NEW f, NEW keys, NEW v
  PROVE  /\ DOMAIN Put(f, keys, v) = DOMAIN f \union keys
         /\ \A k \in DOMAIN f \union keys : Put(f, keys, v)[k] = IF k \in keys THEN v[k] ELSE f[k]
  BY DEF Put

Properties == Shaped /\ Reported /\ TaggedTogether /\ IngestComplete /\ NoFormingBar /\ LineageComplete

LEMMA InitHolds == StoreInit => StoreInv
<1> SUFFICES ASSUME StoreInit PROVE StoreInv  OBVIOUS
<1> USE DEF StoreInit
<1>1. DOMAIN bars = {} /\ DOMAIN segments = {} /\ DOMAIN persisted = {}  OBVIOUS
<1>2. Shaped  BY <1>1 DEF Shaped
<1>3. JobOK /\ Reported  BY DEF JobOK, Reported
<1>4. TaggedTogether /\ IngestComplete  BY DEF TaggedTogether, IngestComplete
<1>5. NoFormingBar /\ LineageComplete  BY <1>1 DEF NoFormingBar, LineageComplete
<1> QED  BY <1>2, <1>3, <1>4, <1>5 DEF StoreInv

\* A step that writes nothing and reports nothing leaves the properties alone.
LEMMA NothingWritten ==
  ASSUME Properties, now' \in Nat, UNCHANGED <<bars, segments, fundings, contexts, futures, lineages>>,
         UNCHANGED <<jobsRun, batch, finished, persisted>>, finished = NoJob \/ job' = NoJob
  PROVE  Properties'
<1>1. Shaped'  BY DEF Properties, Shaped
<1>2. Reported'  BY DEF Reported
<1>3. TaggedTogether'  BY DEF Properties, TaggedTogether
<1>4. IngestComplete'  BY DEF Properties, IngestComplete
<1>5. NoFormingBar'  BY DEF Properties, NoFormingBar
<1>6. LineageComplete'  BY DEF Properties, LineageComplete
<1> QED  BY <1>1, <1>2, <1>3, <1>4, <1>5, <1>6 DEF Properties

LEMMA FetchPageKeeps ==
  ASSUME StoreInv, FetchPage  PROVE StoreInv'
<1>a. PICK j : j = job.spec  OBVIOUS
<1>b. PICK f : f = job.fetch  OBVIOUS
<1>c. PICK g : g = IF f.ended THEN f ELSE AfterPage(f, VenuePage(f.series, f.cursor))  OBVIOUS
<1>1. /\ Properties /\ job # NoJob /\ job.pc = "fetch" /\ job' = Advanced(g) /\ now' = now /\ now \in Nat
      /\ j.now <= now
  BY <1>a, <1>b, <1>c DEF StoreInv, Properties, FetchPage, JobOK, Shaped
<1>2. FetchingBars \/ FetchingFunding
  BY <1>1 DEF StoreInv, JobOK, Writing, Fusing, Range, FusedOrder
<1>3. j \in Specs /\ f \in Fetches /\ Fetching(f, j) /\ j.kind = "real"
  BY <1>a, <1>b, <1>2 DEF FetchingBars, FetchingFunding
<1>4. g \in Fetches /\ g.series = f.series /\ (IF g.ended THEN Fetched(g, j) ELSE Fetching(g, j))
  <2>1. CASE f.ended  BY <1>c, <1>3, <2>1, EndedIsFetched
  <2>2. CASE ~ f.ended  BY <1>c, <1>1, <1>3, <2>2, PageKeepsFetch
  <2> QED  BY <2>1, <2>2
<1>5. Properties'  BY <1>1, NothingWritten DEF Properties, Reported, FetchPage, storeVars
<1>6. CASE ~ g.ended
  <2>1. job' = [job EXCEPT !.fetch = g]  BY <1>1, <1>6 DEF Advanced
  <2>2. Fetching(g, j)'  BY <1>1, <1>4, <1>6 DEF Fetching
  <2>3. CASE FetchingBars
    <3>1. job \in [pc : {"fetch"}, spec : Specs, fetch : Fetches]  BY <2>3 DEF FetchingBars
    <3>2. job' \in [pc : {"fetch"}, spec : Specs, fetch : Fetches] /\ job'.spec = j /\ job'.fetch = g
      BY <1>a, <1>4, <2>1, <3>1
    <3>3. g.series = "bars"  BY <1>b, <1>4, <2>3 DEF FetchingBars
    <3>4. FetchingBars'  BY <1>3, <2>2, <3>2, <3>3 DEF FetchingBars
    <3>5. JobOK'  BY <1>1, <3>2, <3>4 DEF JobOK
    <3> QED  BY <1>5, <3>5 DEF StoreInv, Properties
  <2>4. CASE FetchingFunding
    <3> DEFINE T == [pc : {"fetch"}, spec : Specs, bars : SUBSET Nat, final : SUBSET Nat, fetch : Fetches]
    <3>1. job \in T  BY <2>4 DEF FetchingFunding
    <3>2. job' \in T /\ job'.spec = j /\ job'.fetch = g /\ job'.bars = job.bars /\ job'.final = job.final
      BY <1>a, <1>4, <2>1, <3>1
    <3>3. BarsWhole(job'.bars, job'.final, job'.spec)  BY <1>a, <2>4, <3>2 DEF FetchingFunding
    <3>4. g.series = "funding"  BY <1>b, <1>4, <2>4 DEF FetchingFunding
    <3>5. FetchingFunding'  BY <1>3, <2>2, <3>2, <3>3, <3>4 DEF FetchingFunding, BarsWhole
    <3>6. JobOK'  BY <1>1, <3>2, <3>5 DEF JobOK
    <3> QED  BY <1>5, <3>6 DEF StoreInv, Properties
  <2> QED  BY <1>2, <2>3, <2>4
<1>7. CASE g.ended /\ FetchingBars
  <2> DEFINE b == Closed(g, j)
             n == NewFetch("funding", j)
             T == [pc : {"fetch"}, spec : Specs, bars : SUBSET Nat, final : SUBSET Nat, fetch : Fetches]
  <2>1. g.series = "bars"  BY <1>b, <1>4, <1>7 DEF FetchingBars
  <2>2. BarsWhole(b, g.final, j)  BY <1>3, <1>4, <1>7, <2>1, BarsAreWhole
  <2>3. n \in Fetches /\ n.series = "funding" /\ Fetching(n, j)  BY <1>3, NewFetchFetches
  <2>4. job' = [pc |-> "fetch", spec |-> j, bars |-> b, final |-> g.final, fetch |-> n]
    BY <1>a, <1>1, <1>7, <2>1 DEF Advanced
  <2>5. b \in SUBSET Nat /\ g.final \in SUBSET Nat  BY <1>4, <2>2 DEF BarsWhole, Slots, Fetches
  <2> HIDE DEF b, n
  <2>6. job' \in T /\ job'.spec = j /\ job'.fetch = n /\ job'.bars = b /\ job'.final = g.final
    BY <1>3, <2>3, <2>4, <2>5
  <2>7. Fetching(n, j)'  BY <1>1, <2>3 DEF Fetching
  <2>8. FetchingFunding'  BY <1>3, <2>2, <2>3, <2>6, <2>7 DEF FetchingFunding, BarsWhole
  <2>9. JobOK'  BY <1>1, <2>6, <2>8 DEF JobOK
  <2> QED  BY <1>5, <2>9 DEF StoreInv, Properties
<1>8. CASE g.ended /\ FetchingFunding
  <2> DEFINE h == Closed(g, j)
             T == [pc : {"tagged", "funding", "context"}, spec : Specs, bars : SUBSET Nat,
                   final : SUBSET Nat, funding : SUBSET Nat]
  <2>1. g.series = "funding"  BY <1>b, <1>4, <1>8 DEF FetchingFunding
  <2>2. FundingWhole(h, j)  BY <1>3, <1>4, <1>8, <2>1, FundingIsWhole
  <2>3. job' = [pc |-> "tagged", spec |-> j, bars |-> job.bars, final |-> job.final, funding |-> h]
    BY <1>a, <1>1, <1>8, <2>1 DEF Advanced
  <2>4. h \in SUBSET Nat  BY <1>4 DEF Closed, Fetches
  <2>5. /\ job.bars \in SUBSET Nat /\ job.final \in SUBSET Nat /\ BarsWhole(job.bars, job.final, j)
        /\ job.bars \subseteq Slots
    BY <1>a, <1>8 DEF FetchingFunding, BarsWhole
  <2> HIDE DEF h
  <2>6. /\ job' \in T /\ job'.spec = j /\ job'.bars = job.bars /\ job'.final = job.final
        /\ job'.funding = h /\ job'.pc = "tagged"
    BY <1>3, <2>3, <2>4, <2>5
  <2>7. Writing'  BY <1>3, <2>2, <2>5, <2>6 DEF Writing, BarsWhole, FundingWhole
  <2>8. JobOK'  BY <1>1, <2>6, <2>7 DEF JobOK
  <2> QED  BY <1>5, <2>8 DEF StoreInv, Properties
<1> QED  BY <1>2, <1>6, <1>7, <1>8

LEMMA PageFailsKeeps ==
  ASSUME StoreInv, NEW fatal \in BOOLEAN, PageFails(fatal)  PROVE StoreInv'
<1>1. Properties /\ job # NoJob /\ job.pc = "fetch" /\ now' = now /\ now \in Nat /\ job.spec.now <= now
  BY DEF StoreInv, Properties, PageFails, JobOK, Shaped, storeVars
<1>2. Properties'  BY <1>1, NothingWritten DEF Properties, Reported, PageFails, storeVars
<1>3. CASE job' = NoJob  BY <1>2, <1>3 DEF StoreInv, Properties, JobOK
<1>4. CASE job' # NoJob
  <2>a. PICK j : j = job.spec  OBVIOUS
  <2>b. PICK f : f = job.fetch  OBVIOUS
  <2>1. FetchingBars \/ FetchingFunding
    BY <1>1 DEF StoreInv, JobOK, Writing, Fusing, Range, FusedOrder
  <2>2. job' = [job EXCEPT !.fetch.attempts = @ + 1]  BY <1>4 DEF PageFails
  <2> DEFINE g == [f EXCEPT !.attempts = @ + 1]
  <2>3. j \in Specs /\ f \in Fetches /\ Fetching(f, j) /\ j.kind = "real"
    BY <2>a, <2>b, <2>1 DEF FetchingBars, FetchingFunding
  <2>4. g \in Fetches /\ g.series = f.series /\ g.first = f.first /\ g.last = f.last /\ g.cursor = f.cursor
        /\ g.rows = f.rows /\ g.final = f.final /\ g.ended = f.ended
    BY <2>3 DEF Fetches
  <2> HIDE DEF g
  <2>5. Fetching(g, j)'  BY <1>1, <2>3, <2>4 DEF Fetching
  <2>6. CASE FetchingBars
    <3>1. job \in [pc : {"fetch"}, spec : Specs, fetch : Fetches]  BY <2>6 DEF FetchingBars
    <3>2. job' = [job EXCEPT !.fetch = g]  BY <2>b, <2>2, <3>1 DEF g
    <3>3. job' \in [pc : {"fetch"}, spec : Specs, fetch : Fetches] /\ job'.spec = j /\ job'.fetch = g
      BY <2>a, <2>4, <3>1, <3>2
    <3>4. g.series = "bars"  BY <2>b, <2>4, <2>6 DEF FetchingBars
    <3>5. FetchingBars'  BY <2>3, <2>5, <3>3, <3>4 DEF FetchingBars
    <3>6. JobOK'  BY <1>1, <2>a, <3>3, <3>5 DEF JobOK
    <3> QED  BY <1>2, <3>6 DEF StoreInv, Properties
  <2>7. CASE FetchingFunding
    <3> DEFINE T == [pc : {"fetch"}, spec : Specs, bars : SUBSET Nat, final : SUBSET Nat, fetch : Fetches]
    <3>1. job \in T  BY <2>7 DEF FetchingFunding
    <3>2. job' = [job EXCEPT !.fetch = g]  BY <2>b, <2>2, <3>1 DEF g
    <3>3. job' \in T /\ job'.spec = j /\ job'.fetch = g /\ job'.bars = job.bars /\ job'.final = job.final
      BY <2>a, <2>4, <3>1, <3>2
    <3>4. g.series = "funding"  BY <2>b, <2>4, <2>7 DEF FetchingFunding
    <3>5. BarsWhole(job'.bars, job'.final, job'.spec)  BY <2>a, <2>7, <3>3 DEF FetchingFunding
    <3>6. FetchingFunding'  BY <2>3, <2>5, <3>3, <3>4, <3>5 DEF FetchingFunding, BarsWhole
    <3>7. JobOK'  BY <1>1, <2>a, <3>3, <3>6 DEF JobOK
    <3> QED  BY <1>2, <3>7 DEF StoreInv, Properties
  <2> QED  BY <2>1, <2>6, <2>7
<1> QED  BY <1>3, <1>4

LEMMA TimePassesKeeps ==
  ASSUME StoreInv, TimePasses  PROVE StoreInv'
<1>1. Properties /\ now \in Nat /\ now' = now + 1 /\ job' = job
      /\ UNCHANGED <<bars, segments, fundings, contexts, futures, lineages>>
      /\ UNCHANGED <<jobsRun, batch, finished, persisted>>
  BY DEF StoreInv, Properties, TimePasses, Shaped, storeVars
<1>2. Properties'  BY <1>1, NothingWritten DEF Properties, Reported
<1>3. CASE job = NoJob  BY <1>1, <1>2, <1>3 DEF StoreInv, Properties, JobOK
<1>4. CASE job # NoJob
  <2>1. job.spec.now <= now /\ (FetchingBars \/ FetchingFunding \/ Writing \/ Fusing)
    BY <1>4 DEF StoreInv, JobOK
  <2>2. job.spec \in Specs
    BY <2>1 DEF FetchingBars, FetchingFunding, Writing, Fusing
  <2>3. job'.spec.now <= now'  BY <1>1, <2>1, <2>2 DEF Specs
  <2>4. FetchingBars => FetchingBars'
    <3>1. HAVE FetchingBars
    <3>2. \A t \in job.fetch.rows : t \in Nat  BY <3>1 DEF FetchingBars, Fetches
    <3>3. Fetching(job.fetch, job.spec)'  BY <1>1, <3>1, <3>2 DEF FetchingBars, Fetching
    <3> QED  BY <1>1, <3>1, <3>3 DEF FetchingBars
  <2>5. FetchingFunding => FetchingFunding'
    <3>1. HAVE FetchingFunding
    <3>2. \A t \in job.fetch.rows : t \in Nat  BY <3>1 DEF FetchingFunding, Fetches
    <3>3. Fetching(job.fetch, job.spec)'  BY <1>1, <3>1, <3>2 DEF FetchingFunding, Fetching
    <3> QED  BY <1>1, <3>1, <3>3 DEF FetchingFunding, BarsWhole
  <2>6. Writing => Writing'  BY <1>1 DEF Writing, BarsWhole, FundingWhole
  <2>7. Fusing => Fusing'  BY <1>1 DEF Fusing, FusedSlots
  <2>8. JobOK'  BY <2>1, <2>3, <2>4, <2>5, <2>6, <2>7 DEF JobOK
  <2> QED  BY <1>2, <2>8 DEF StoreInv, Properties
<1> QED  BY <1>3, <1>4

LEMMA CrashKeeps ==
  ASSUME StoreInv, CrashJob  PROVE StoreInv'
<1>1. Properties /\ now' \in Nat /\ job' = NoJob
      /\ UNCHANGED <<bars, segments, fundings, contexts, futures, lineages>>
      /\ UNCHANGED <<jobsRun, batch, finished, persisted>>
  BY DEF StoreInv, Properties, CrashJob, Shaped, storeVars
<1>2. Properties'  BY <1>1, NothingWritten
<1> QED  BY <1>1, <1>2 DEF StoreInv, Properties, JobOK

LEMMA WindowIs ==
  ASSUME NEW w \in Windows
  PROVE  w[1] \in Slots /\ w[2] \in Slots /\ w = <<w[1], w[2]>>
  BY DEF StoreAssumption, Slots

LEMMA StartJobKeeps ==
  ASSUME StoreInv, NEW kind \in Origins, NEW w \in Windows, StartJob(kind, w)  PROVE StoreInv'
<1>a. PICK j : j = [kind |-> kind, from |-> w[1], to |-> w[2], now |-> now]  OBVIOUS
<1>1. /\ Properties /\ now \in Nat /\ now' = now /\ jobsRun \in Nat /\ jobsRun' = jobsRun + 1
      /\ finished' = NoJob /\ UNCHANGED <<bars, segments, fundings, contexts, futures, lineages, batch>>
  BY DEF StoreInv, Properties, StartJob, Shaped, storeVars
<1>2. w[1] \in Slots /\ w[2] \in Slots /\ w = <<w[1], w[2]>> /\ Slots \subseteq Nat
  BY WindowIs DEF Slots, StoreAssumption
<1>3. kind \in {"real", "synthetic", "fused"}  BY DEF StoreAssumption
<1>4. j \in Specs /\ j.now <= now' /\ j.kind = kind /\ j.from = w[1] /\ j.to = w[2]
  BY <1>a, <1>1, <1>2, <1>3 DEF Specs
<1>5. /\ \A id \in DOMAIN persisted : id \in DOMAIN persisted' /\ persisted'[id] = persisted[id]
      /\ \A id \in DOMAIN persisted' : id \in Nat /\ id < jobsRun' /\ persisted'[id] \in Windows
  <2>1. \A id \in DOMAIN persisted : id \in Nat /\ id < jobsRun /\ persisted[id] \in Windows
    BY <1>1 DEF Properties, Shaped
  <2>2. CASE kind = "fused"
    <3>1. persisted' = Put(persisted, {jobsRun}, [k \in {jobsRun} |-> w])  BY <2>2 DEF StartJob
    <3>2. /\ DOMAIN persisted' = DOMAIN persisted \union {jobsRun}
          /\ \A k \in DOMAIN persisted' : persisted'[k] = IF k = jobsRun THEN w ELSE persisted[k]
      BY <3>1 DEF Put
    <3> QED  BY <1>1, <2>1, <3>2
  <2>3. CASE kind # "fused"
    <3>1. persisted' = persisted  BY <2>3 DEF StartJob
    <3> QED  BY <1>1, <2>1, <3>1
  <2> QED  BY <2>2, <2>3
<1>6. Shaped'  BY <1>1, <1>5 DEF Properties, Shaped
<1>7. Reported' /\ IngestComplete'  BY <1>1 DEF Reported, IngestComplete
<1>8. TaggedTogether' /\ NoFormingBar'  BY <1>1 DEF Properties, TaggedTogether, NoFormingBar
<1>9. LineageComplete'
  <2>1. lineages \subseteq DOMAIN persisted  BY <1>1 DEF Properties, Shaped
  <2> QED  BY <1>1, <1>5, <2>1 DEF Properties, LineageComplete
<1>10. CASE kind = "real"
  <2>1. job' = [pc |-> "fetch", spec |-> j, fetch |-> NewFetch("bars", j)]  BY <1>a, <1>10 DEF StartJob
  <2> DEFINE n == NewFetch("bars", j)
  <2>2. n \in Fetches /\ n.series = "bars" /\ Fetching(n, j)  BY <1>4, NewFetchFetches
  <2>3. Fetching(n, j)'  BY <1>1, <2>2 DEF Fetching
  <2> HIDE DEF n
  <2>4. job' = [pc |-> "fetch", spec |-> j, fetch |-> n]  BY <2>1 DEF n
  <2>5. job' \in [pc : {"fetch"}, spec : Specs, fetch : Fetches] /\ job'.spec = j /\ job'.fetch = n
    BY <1>4, <2>2, <2>4
  <2>6. FetchingBars'  BY <1>4, <1>10, <2>2, <2>3, <2>5 DEF FetchingBars
  <2>7. JobOK'  BY <1>4, <2>5, <2>6 DEF JobOK
  <2> QED  BY <1>6, <1>7, <1>8, <1>9, <2>7 DEF StoreInv
<1>11. CASE kind = "synthetic"
  <2> DEFINE b == w[1] .. w[2] - 1
             T == [pc : {"tagged", "funding", "context"}, spec : Specs, bars : SUBSET Nat,
                   final : SUBSET Nat, funding : SUBSET Nat]
  <2>1. job' = [pc |-> "tagged", spec |-> j, bars |-> b, final |-> {}, funding |-> {}]
    BY <1>a, <1>11 DEF StartJob
  <2>2. b \subseteq Slots /\ b \in SUBSET Nat  BY <1>2 DEF Slots
  <2> HIDE DEF b
  <2>3. job' \in T /\ job'.spec = j /\ job'.bars = b /\ job'.pc = "tagged"  BY <1>4, <2>1, <2>2
  <2>4. Writing'  BY <1>4, <1>11, <2>2, <2>3 DEF Writing
  <2>5. JobOK'  BY <1>4, <2>3, <2>4 DEF JobOK
  <2> QED  BY <1>6, <1>7, <1>8, <1>9, <2>5 DEF StoreInv
<1>12. CASE kind = "fused"
  <2>1. job' = [pc |-> "plain", spec |-> j, id |-> jobsRun]  BY <1>a, <1>12 DEF StartJob
  <2>2. "plain" \in Range(FusedOrder)  BY DEF Range, FusedOrder
  <2>3. /\ job' \in [pc : Range(FusedOrder), spec : Specs, id : Nat] /\ job'.spec = j
        /\ job'.id = jobsRun /\ job'.pc = "plain"
    BY <1>1, <1>4, <2>1, <2>2
  <2>4. persisted' = Put(persisted, {jobsRun}, [k \in {jobsRun} |-> w])  BY <1>12 DEF StartJob
  <2>5. jobsRun \in DOMAIN persisted' /\ persisted'[jobsRun] = <<j.from, j.to>>
    BY <1>2, <1>4, <2>4 DEF Put
  <2>6. Fusing'  BY <2>3, <2>5 DEF Fusing
  <2>7. JobOK'  BY <1>4, <2>3, <2>6 DEF JobOK
  <2> QED  BY <1>6, <1>7, <1>8, <1>9, <2>7 DEF StoreInv
<1> QED  BY <1>3, <1>10, <1>11, <1>12

LEMMA RestartFusedKeeps ==
  ASSUME StoreInv, RestartFused  PROVE StoreInv'
<1>1. /\ Properties /\ now \in Nat /\ now' = now /\ jobsRun \in Nat /\ jobsRun' = jobsRun + 1
      /\ finished' = NoJob /\ UNCHANGED <<bars, segments, fundings, contexts, futures, lineages, batch, persisted>>
  BY DEF StoreInv, Properties, RestartFused, Shaped, storeVars
<1>2. \A id \in DOMAIN persisted : id \in Nat /\ id < jobsRun' /\ persisted[id] \in Windows
  BY <1>1 DEF Properties, Shaped
<1>3. Shaped'  BY <1>1, <1>2 DEF Properties, Shaped
<1>4. Reported' /\ IngestComplete'  BY <1>1 DEF Reported, IngestComplete
<1>5. TaggedTogether' /\ NoFormingBar'  BY <1>1 DEF Properties, TaggedTogether, NoFormingBar
<1>6. LineageComplete'  BY <1>1 DEF Properties, LineageComplete
<1>7. JobOK'
  <2>1. PICK id \in DOMAIN persisted :
          job' = IF id \in lineages THEN NoJob ELSE
                 [pc |-> "plain", id |-> id,
                  spec |-> [kind |-> "fused", from |-> persisted[id][1], to |-> persisted[id][2], now |-> now]]
    BY DEF RestartFused
  <2>2. CASE id \in lineages  BY <2>1, <2>2 DEF JobOK
  <2>3. CASE id \notin lineages
    <3>a. PICK j : j = [kind |-> "fused", from |-> persisted[id][1], to |-> persisted[id][2], now |-> now]
      OBVIOUS
    <3>1. id \in Nat /\ persisted[id] \in Windows  BY <1>2
    <3>2. persisted[id][1] \in Slots /\ persisted[id][2] \in Slots
          /\ persisted[id] = <<persisted[id][1], persisted[id][2]>>
      BY <3>1, WindowIs
    <3>3. j \in Specs /\ j.now <= now' /\ persisted[id] = <<j.from, j.to>>
      BY <1>1, <3>a, <3>2 DEF Specs
    <3>4. job' = [pc |-> "plain", id |-> id, spec |-> j]  BY <2>1, <2>3, <3>a
    <3>5. "plain" \in Range(FusedOrder)  BY DEF Range, FusedOrder
    <3>6. /\ job' \in [pc : Range(FusedOrder), spec : Specs, id : Nat] /\ job'.spec = j
          /\ job'.id = id /\ job'.pc = "plain"
      BY <3>1, <3>3, <3>4, <3>5
    <3>7. Fusing'  BY <1>1, <3>3, <3>6 DEF Fusing
    <3> QED  BY <3>3, <3>6, <3>7 DEF JobOK
  <2> QED  BY <2>2, <2>3
<1> QED  BY <1>3, <1>4, <1>5, <1>6, <1>7 DEF StoreInv

LEMMA WritingNow ==
  ASSUME StoreInv, job # NoJob, job.pc \in {"tagged", "funding", "context"}
  PROVE  /\ Writing /\ job.spec.now <= now /\ job.spec \in Specs
         /\ job \in [pc : {"tagged", "funding", "context"}, spec : Specs, bars : SUBSET Nat,
                     final : SUBSET Nat, funding : SUBSET Nat]
<1>1. Writing  BY DEF StoreInv, JobOK, FetchingBars, FetchingFunding, Fusing, Range, FusedOrder
<1> QED  BY <1>1 DEF StoreInv, JobOK, Writing

LEMMA WriteTaggedKeeps ==
  ASSUME StoreInv, WriteTagged  PROVE StoreInv'
<1>a. PICK j : j = job.spec  OBVIOUS
<1>b. PICK b : b = job.bars  OBVIOUS
<1>1. /\ Properties /\ now \in Nat /\ now' = now /\ jobsRun \in Nat /\ job # NoJob /\ job.pc = "tagged"
      /\ UNCHANGED <<fundings, contexts, futures, lineages, jobsRun, finished, persisted>>
      /\ job' = [job EXCEPT !.pc = "funding"]
      /\ batch' = [slots |-> b, origin |-> j.kind]
  BY <1>a, <1>b DEF StoreInv, Properties, WriteTagged, Shaped
<1>2. Writing /\ j.now <= now /\ j \in Specs  BY <1>a, <1>1, WritingNow
<1>3. b \subseteq Slots /\ j.kind \in {"real", "synthetic"} /\ Slots \subseteq Nat
  BY <1>a, <1>b, <1>2 DEF Writing, Slots, StoreAssumption
<1>4. /\ DOMAIN bars' = DOMAIN bars \union b
      /\ \A t \in b : bars'[t].origin = j.kind /\ bars'[t].final = (j.kind # "real" \/ t \in job.final)
      /\ \A t \in DOMAIN bars \ b : bars'[t] = bars[t]
  BY <1>a, <1>b DEF WriteTagged, Put
<1>5. \A t \in b : bars'[t].final
  <2>1. j.kind = "real" => b \subseteq job.final  BY <1>a, <1>b, <1>2 DEF Writing, BarsWhole
  <2> QED  BY <1>4, <2>1
<1>6. NoFormingBar'  BY <1>1, <1>4, <1>5 DEF Properties, NoFormingBar
<1>7. /\ \A s \in DOMAIN segments' : s \in DOMAIN bars' /\ segments'[s].end \in Nat /\ s <= segments'[s].end
                                     /\ segments'[s].origin \in {"real", "synthetic"}
      /\ TaggedTogether'
  <2>1. segments' = SegmentAfter(segments, b, j.kind)  BY <1>a, <1>b DEF WriteTagged
  <2>2. \A s \in DOMAIN segments : s \in DOMAIN bars' /\ segments[s].end \in Nat /\ s <= segments[s].end
                                   /\ segments[s].origin \in {"real", "synthetic"}
    BY <1>1, <1>4 DEF Properties, Shaped
  <2>3. CASE b = {}
    <3>1. segments' = segments  BY <2>1, <2>3 DEF SegmentAfter
    <3> QED  BY <1>1, <2>2, <2>3, <3>1 DEF TaggedTogether
  <2>4. CASE b # {}
    <3> DEFINE lo == Min(b)
               hi == Max(b)
    <3>1. lo \in b /\ \A y \in b : lo <= y  BY <1>3, <2>4, LeastExists
    <3>2. hi \in b /\ \A y \in b : hi >= y
      BY <1>3, <2>4, GreatestExists DEF Slots, StoreAssumption
    <3>3. /\ DOMAIN segments' = DOMAIN segments \union {lo}
          /\ segments'[lo] = [end |-> hi, origin |-> j.kind]
          /\ \A s \in DOMAIN segments \ {lo} : segments'[s] = segments[s]
      BY <2>1, <2>4 DEF SegmentAfter, Put
    <3> HIDE DEF lo, hi
    <3>4. segments'[lo].end = hi /\ segments'[lo].origin = j.kind  BY <3>3
    <3>5. \A s \in DOMAIN segments' : s \in DOMAIN bars' /\ segments'[s].end \in Nat /\ s <= segments'[s].end
                                      /\ segments'[s].origin \in {"real", "synthetic"}
      BY <1>3, <1>4, <2>2, <3>1, <3>2, <3>3, <3>4
    <3>6. \A t \in b : lo <= t /\ t <= segments'[lo].end  BY <1>3, <3>1, <3>2, <3>4
    <3>7. TaggedTogether'  BY <1>1, <3>3, <3>4, <3>6 DEF TaggedTogether
    <3> QED  BY <3>5, <3>7
  <2> QED  BY <2>3, <2>4
<1>8. Shaped'  BY <1>1, <1>3, <1>4, <1>7 DEF Properties, Shaped
<1>9. Reported' /\ IngestComplete'  BY <1>1 DEF Properties, Reported, IngestComplete
<1>10. LineageComplete'  BY <1>1, <1>4 DEF Properties, LineageComplete
<1>11. JobOK'
  <2> DEFINE T == [pc : {"tagged", "funding", "context"}, spec : Specs, bars : SUBSET Nat,
                   final : SUBSET Nat, funding : SUBSET Nat]
  <2>1. job \in T  BY <1>1, WritingNow
  <2>2. /\ job' \in T /\ job'.spec = j /\ job'.bars = b /\ job'.pc = "funding"
        /\ job'.final = job.final /\ job'.funding = job.funding
    BY <1>a, <1>b, <1>1, <2>1
  <2>3. \A t \in b : t \in DOMAIN bars' /\ bars'[t].origin = j.kind  BY <1>4
  <2>4. j.kind = "real" => BarsWhole(b, job.final, j) /\ FundingWhole(job.funding, j)
    BY <1>a, <1>b, <1>2 DEF Writing
  <2>5. Writing'  BY <1>3, <2>2, <2>3, <2>4 DEF Writing, BarsWhole, FundingWhole
  <2> QED  BY <1>1, <1>2, <2>2, <2>5 DEF JobOK
<1> QED  BY <1>6, <1>7, <1>8, <1>9, <1>10, <1>11 DEF StoreInv

LEMMA WriteFundingKeeps ==
  ASSUME StoreInv, WriteFunding  PROVE StoreInv'
<1>a. PICK j : j = job.spec  OBVIOUS
<1>1. /\ Properties /\ now \in Nat /\ now' = now /\ job # NoJob /\ job.pc = "funding"
      /\ UNCHANGED <<bars, segments, contexts, futures, lineages, jobsRun, batch, finished, persisted>>
      /\ job' = [job EXCEPT !.pc = "context"] /\ fundings' = fundings \union job.funding
  BY DEF StoreInv, Properties, WriteFunding, Shaped
<1>2. Writing /\ j.now <= now  BY <1>a, <1>1, WritingNow
<1>3. Shaped'  BY <1>1 DEF Properties, Shaped
<1>4. Reported' /\ IngestComplete'  BY <1>1 DEF Properties, Reported, IngestComplete
<1>5. TaggedTogether' /\ NoFormingBar'  BY <1>1 DEF Properties, TaggedTogether, NoFormingBar
<1>6. LineageComplete'  BY <1>1 DEF Properties, LineageComplete
<1>7. JobOK'
  <2> DEFINE T == [pc : {"tagged", "funding", "context"}, spec : Specs, bars : SUBSET Nat,
                   final : SUBSET Nat, funding : SUBSET Nat]
  <2>1. job \in T  BY <1>1, WritingNow
  <2>2. /\ job' \in T /\ job'.spec = j /\ job'.bars = job.bars /\ job'.pc = "context"
        /\ job'.final = job.final /\ job'.funding = job.funding
    BY <1>a, <1>1, <2>1
  <2>3. Writing'  BY <1>a, <1>1, <1>2, <2>2 DEF Writing, BarsWhole, FundingWhole
  <2> QED  BY <1>1, <1>2, <2>2, <2>3 DEF JobOK
<1> QED  BY <1>3, <1>4, <1>5, <1>6, <1>7 DEF StoreInv

\* The success a real ingest reports is backed by what its writes stored.
LEMMA WriteContextKeeps ==
  ASSUME StoreInv, NEW empty \in BOOLEAN, WriteContext(empty)  PROVE StoreInv'
<1>a. PICK j : j = job.spec  OBVIOUS
<1>1. /\ Properties /\ now \in Nat /\ now' = now /\ job # NoJob /\ job.pc = "context" /\ job' = NoJob
      /\ UNCHANGED <<bars, segments, fundings, futures, lineages, jobsRun, batch, persisted>>
      /\ finished' = (IF j.kind = "real" THEN j ELSE NoJob) /\ contexts \subseteq contexts'
  BY <1>a DEF StoreInv, Properties, WriteContext, Shaped
<1>2. Writing  BY <1>1, WritingNow
<1>3. Shaped'  BY <1>1 DEF Properties, Shaped
<1>4. Reported' /\ JobOK'  BY <1>1 DEF Reported, JobOK
<1>5. TaggedTogether' /\ NoFormingBar'  BY <1>1 DEF Properties, TaggedTogether, NoFormingBar
<1>6. LineageComplete'  BY <1>1 DEF Properties, LineageComplete
<1>7. CASE j.kind = "real"
  <2>1. BarsWhole(job.bars, job.final, j) /\ FundingWhole(job.funding, j)  BY <1>a, <1>2, <1>7 DEF Writing
  <2>2. \A t \in job.bars : t \in DOMAIN bars /\ bars[t].origin = "real"  BY <1>a, <1>1, <1>2, <1>7 DEF Writing
  <2>3. job.funding \subseteq fundings  BY <1>1, <1>2 DEF Writing
  <2>4. \A t \in j.from .. Upto(j) : t + 1 <= j.now => t \in DOMAIN bars' /\ bars'[t].origin = "real"
    BY <1>1, <2>1, <2>2 DEF BarsWhole
  <2>5. \A t \in j.from .. Upto(j) : t % FundingStep = 0 => t \in fundings'
    BY <1>1, <2>1, <2>3 DEF FundingWhole
  <2>6. IngestComplete'  BY <1>1, <1>7, <2>4, <2>5 DEF IngestComplete, Upto
  <2> QED  BY <1>3, <1>4, <1>5, <1>6, <2>6 DEF StoreInv
<1>8. CASE j.kind # "real"
  <2>1. IngestComplete'  BY <1>1, <1>8 DEF IngestComplete
  <2> QED  BY <1>3, <1>4, <1>5, <1>6, <2>1 DEF StoreInv
<1> QED  BY <1>7, <1>8

\* The five transactions of persist_fused, one after another.
LEMMA PersistNext ==
  ASSUME job # NoJob, job.pc \in Range(FusedOrder), PersistStep
  PROVE  \/ job.pc = "plain" /\ job' = [job EXCEPT !.pc = "fused-funding"]
         \/ job.pc = "fused-funding" /\ job' = [job EXCEPT !.pc = "fused-premium"]
         \/ job.pc = "fused-premium" /\ job' = [job EXCEPT !.pc = "fused-futures"]
         \/ job.pc = "fused-futures" /\ job' = [job EXCEPT !.pc = "lineage"]
         \/ job.pc = "lineage" /\ job' = NoJob
<1> DEFINE k == CHOOSE n \in DOMAIN FusedOrder : FusedOrder[n] = job.pc
<1>1. DOMAIN FusedOrder = 1 .. 5  BY DEF FusedOrder
<1>2. \E n \in DOMAIN FusedOrder : FusedOrder[n] = job.pc  BY DEF Range
<1>3. k \in 1 .. 5 /\ FusedOrder[k] = job.pc  BY <1>1, <1>2
<1>4. job' = IF k = 5 THEN NoJob ELSE [job EXCEPT !.pc = FusedOrder[k + 1]]  BY DEF PersistStep
<1> HIDE DEF k
<1>5. k = 1 \/ k = 2 \/ k = 3 \/ k = 4 \/ k = 5  BY <1>3
<1>6. /\ FusedOrder[1] = "plain" /\ FusedOrder[2] = "fused-funding" /\ FusedOrder[3] = "fused-premium"
      /\ FusedOrder[4] = "fused-futures" /\ FusedOrder[5] = "lineage"
  BY DEF FusedOrder
<1>7. CASE k = 1  BY <1>3, <1>4, <1>6, <1>7
<1>8. CASE k = 2  BY <1>3, <1>4, <1>6, <1>8
<1>9. CASE k = 3  BY <1>3, <1>4, <1>6, <1>9
<1>10. CASE k = 4  BY <1>3, <1>4, <1>6, <1>10
<1>11. CASE k = 5  BY <1>3, <1>4, <1>6, <1>11
<1> QED  BY <1>5, <1>7, <1>8, <1>9, <1>10, <1>11

LEMMA PersistKeeps ==
  ASSUME StoreInv, PersistStep  PROVE StoreInv'
<1>a. PICK j : j = job.spec  OBVIOUS
<1> DEFINE slots == j.from .. j.to
           T == [pc : Range(FusedOrder), spec : Specs, id : Nat]
<1>1. /\ Properties /\ now \in Nat /\ now' = now /\ jobsRun \in Nat
      /\ job # NoJob /\ job.pc \in Range(FusedOrder)
      /\ UNCHANGED <<segments, jobsRun, batch, finished, persisted>>
  BY DEF StoreInv, Properties, PersistStep, Shaped
<1>2. Fusing
  BY <1>1 DEF StoreInv, JobOK, FetchingBars, FetchingFunding, Writing, Range, FusedOrder
<1>3. job \in T /\ j \in Specs /\ j.now <= now /\ FusedSlots = slots
  BY <1>a, <1>1, <1>2 DEF StoreInv, JobOK, Fusing, FusedSlots
<1>4. slots \subseteq Slots  BY <1>3 DEF Specs, Slots
<1>5. job.id \in DOMAIN persisted /\ persisted[job.id] = <<j.from, j.to>>  BY <1>a, <1>2 DEF Fusing
<1>6. /\ job.pc = "plain" => /\ DOMAIN bars' = DOMAIN bars \union slots
                             /\ \A t \in slots : bars'[t].final
                             /\ \A t \in DOMAIN bars \ slots : bars'[t] = bars[t]
      /\ job.pc # "plain" => bars' = bars
  BY <1>3 DEF PersistStep, Put
<1>7. /\ fundings' = IF job.pc = "fused-funding" THEN fundings \union slots ELSE fundings
      /\ contexts' = IF job.pc = "fused-premium" THEN contexts \union slots ELSE contexts
      /\ futures' = IF job.pc = "fused-futures" THEN futures \union slots ELSE futures
      /\ lineages' = IF job.pc = "lineage" THEN lineages \union {job.id} ELSE lineages
  BY <1>3 DEF PersistStep
<1>8. DOMAIN bars \subseteq DOMAIN bars' /\ DOMAIN bars' \subseteq Slots
  BY <1>1, <1>4, <1>6 DEF Properties, Shaped
<1>9. lineages' \subseteq DOMAIN persisted'  BY <1>1, <1>5, <1>7 DEF Properties, Shaped
<1>10. Shaped'  BY <1>1, <1>8, <1>9 DEF Properties, Shaped
<1>11. Reported' /\ IngestComplete'  BY <1>1 DEF Properties, Reported, IngestComplete
<1>12. TaggedTogether'  BY <1>1 DEF Properties, TaggedTogether
<1>13. NoFormingBar'  BY <1>1, <1>6 DEF Properties, NoFormingBar
<1>14. LineageComplete'
  <2>1. ASSUME NEW id \in lineages'
        PROVE  LET s == persisted[id][1] .. persisted[id][2]
               IN  s \subseteq DOMAIN bars' /\ s \subseteq fundings' /\ s \subseteq contexts' /\ s \subseteq futures'
    <3>1. CASE id \in lineages  BY <1>1, <1>7, <1>8, <3>1 DEF Properties, LineageComplete
    <3>2. CASE id \notin lineages
      <4>1. job.pc = "lineage" /\ id = job.id  BY <1>7, <2>1, <3>2
      <4>2. slots \subseteq DOMAIN bars /\ slots \subseteq fundings /\ slots \subseteq contexts /\ slots \subseteq futures
        BY <1>2, <1>3, <4>1 DEF Fusing
      <4>3. persisted[id][1] = j.from /\ persisted[id][2] = j.to  BY <1>5, <4>1
      <4> QED  BY <1>7, <1>8, <4>1, <4>2, <4>3
    <3> QED  BY <3>1, <3>2
  <2> QED  BY <1>1, <2>1 DEF LineageComplete
<1>15. ASSUME NEW p \in Range(FusedOrder), job' = [job EXCEPT !.pc = p],
              p # "plain" => slots \subseteq DOMAIN bars',
              p \notin {"plain", "fused-funding"} => slots \subseteq fundings',
              p \in {"fused-futures", "lineage"} => slots \subseteq contexts',
              p = "lineage" => slots \subseteq futures'
       PROVE  JobOK'
  <2>1. job' \in T /\ job'.spec = j /\ job'.id = job.id /\ job'.pc = p  BY <1>a, <1>3, <1>15
  <2>2. FusedSlots' = slots  BY <2>1 DEF FusedSlots
  <2>3. Fusing'  BY <1>1, <1>5, <1>15, <2>1, <2>2 DEF Fusing
  <2> QED  BY <1>1, <1>3, <2>1, <2>3 DEF JobOK
<1>16. Range(FusedOrder) = {"plain", "fused-funding", "fused-premium", "fused-futures", "lineage"}
  BY DEF Range, FusedOrder
<1>17. JobOK'
  <2>1. CASE job.pc = "plain"
    <3>1. job' = [job EXCEPT !.pc = "fused-funding"]  BY <1>1, <2>1, PersistNext
    <3>2. slots \subseteq DOMAIN bars'  BY <1>6, <2>1
    <3> QED  BY <1>15, <1>16, <3>1, <3>2
  <2>2. CASE job.pc = "fused-funding"
    <3>1. job' = [job EXCEPT !.pc = "fused-premium"]  BY <1>1, <2>2, PersistNext
    <3>2. slots \subseteq DOMAIN bars'  BY <1>2, <1>3, <1>8, <2>2 DEF Fusing
    <3>3. slots \subseteq fundings'  BY <1>7, <2>2
    <3> QED  BY <1>15, <1>16, <3>1, <3>2, <3>3
  <2>3. CASE job.pc = "fused-premium"
    <3>1. job' = [job EXCEPT !.pc = "fused-futures"]  BY <1>1, <2>3, PersistNext
    <3>2. slots \subseteq DOMAIN bars' /\ slots \subseteq fundings'
      BY <1>2, <1>3, <1>7, <1>8, <2>3 DEF Fusing
    <3>3. slots \subseteq contexts'  BY <1>7, <2>3
    <3> QED  BY <1>15, <1>16, <3>1, <3>2, <3>3
  <2>4. CASE job.pc = "fused-futures"
    <3>1. job' = [job EXCEPT !.pc = "lineage"]  BY <1>1, <2>4, PersistNext
    <3>2. slots \subseteq DOMAIN bars' /\ slots \subseteq fundings' /\ slots \subseteq contexts'
      BY <1>2, <1>3, <1>7, <1>8, <2>4 DEF Fusing
    <3>3. slots \subseteq futures'  BY <1>7, <2>4
    <3> QED  BY <1>15, <1>16, <3>1, <3>2, <3>3
  <2>5. CASE job.pc = "lineage"
    <3>1. job' = NoJob  BY <1>1, <2>5, PersistNext
    <3> QED  BY <3>1 DEF JobOK
  <2> QED  BY <1>1, <1>16, <2>1, <2>2, <2>3, <2>4, <2>5
<1> QED  BY <1>10, <1>11, <1>12, <1>13, <1>14, <1>17 DEF StoreInv

-----------------------------------------------------------------------------
(* The theorems.                                                           *)

LEMMA StutterKeeps ==
  ASSUME StoreInv, UNCHANGED msVars  PROVE StoreInv'
<1>1. UNCHANGED <<now, bars, segments, fundings, contexts, futures, lineages, job>>
      /\ UNCHANGED <<jobsRun, batch, finished, persisted>>
  BY DEF msVars, storeVars
<1>2. Shaped' /\ Reported' /\ TaggedTogether'  BY <1>1 DEF StoreInv, Shaped, Reported, TaggedTogether
<1>3. IngestComplete' /\ NoFormingBar' /\ LineageComplete'
  BY <1>1 DEF StoreInv, IngestComplete, NoFormingBar, LineageComplete
<1>4. FetchingBars' <=> FetchingBars  BY <1>1 DEF FetchingBars, Fetching
<1>5. FetchingFunding' <=> FetchingFunding  BY <1>1 DEF FetchingFunding, Fetching, BarsWhole
<1>6. Writing' <=> Writing  BY <1>1 DEF Writing, BarsWhole, FundingWhole
<1>7. Fusing' <=> Fusing  BY <1>1 DEF Fusing, FusedSlots
<1>8. JobOK'  BY <1>1, <1>4, <1>5, <1>6, <1>7 DEF StoreInv, JobOK
<1> QED  BY <1>2, <1>3, <1>8 DEF StoreInv

LEMMA StoreInvHolds == StoreSpec => []StoreInv
<1>1. StoreInv /\ [StoreNext]_msVars => StoreInv'
  <2> SUFFICES ASSUME StoreInv, [StoreNext]_msVars PROVE StoreInv'  OBVIOUS
  <2>1. ASSUME NEW kind \in Origins, NEW w \in Windows, StartJob(kind, w)  PROVE StoreInv'
    BY <2>1, StartJobKeeps
  <2>2. CASE RestartFused  BY <2>2, RestartFusedKeeps
  <2>3. CASE FetchPage  BY <2>3, FetchPageKeeps
  <2>4. ASSUME NEW fatal \in BOOLEAN, PageFails(fatal)  PROVE StoreInv'  BY <2>4, PageFailsKeeps
  <2>5. CASE WriteTagged  BY <2>5, WriteTaggedKeeps
  <2>6. CASE WriteFunding  BY <2>6, WriteFundingKeeps
  <2>7. ASSUME NEW e \in BOOLEAN, WriteContext(e)  PROVE StoreInv'  BY <2>7, WriteContextKeeps
  <2>8. CASE PersistStep  BY <2>8, PersistKeeps
  <2>9. CASE CrashJob  BY <2>9, CrashKeeps
  <2>10. CASE TimePasses  BY <2>10, TimePassesKeeps
  <2>11. CASE UNCHANGED msVars  BY <2>11, StutterKeeps
  <2> QED
    BY <2>1, <2>2, <2>3, <2>4, <2>5, <2>6, <2>7, <2>8, <2>9, <2>10, <2>11 DEF StoreNext
<1> QED  BY InitHolds, <1>1, PTL DEF StoreSpec

\* A coverage row always counts bars: a segment starts at a bar.
LEMMA CoverageIsCounted ==
  ASSUME Shaped  PROVE StoreTypeOK
<1>1. DOMAIN bars \subseteq Slots /\ IsFiniteSet(Slots) /\ Slots = 0 .. LastSlot
  <2>1. IsFiniteSet(0 .. LastSlot)  BY FS_Interval DEF StoreAssumption
  <2> QED  BY <2>1 DEF Shaped, Slots
<1>2. ASSUME NEW B \in SUBSET (DOMAIN bars), B # {}  PROVE Cardinality(B) > 0
  <2>1. IsFiniteSet(B)  BY <1>1, FS_Subset
  <2>2. Cardinality(B) \in Nat /\ (Cardinality(B) = 0 <=> B = {})  BY <2>1, FS_CardinalityType, FS_EmptySet
  <2> QED  BY <1>2, <2>2
<1>3. ASSUME NEW r \in CoverageRows  PROVE r.bars > 0
  <2>1. DOMAIN bars # {}  BY <1>3 DEF CoverageRows
  <2>2. CASE DOMAIN segments = {}
    <3>1. r.bars = Cardinality(DOMAIN bars)  BY <1>3, <2>1, <2>2 DEF CoverageRows
    <3> QED  BY <1>2, <2>1, <3>1
  <2>3. CASE DOMAIN segments # {}
    <3>1. PICK s \in DOMAIN segments : r.bars = CountBarsInRange(s, segments[s].end)
      BY <1>3, <2>1, <2>3 DEF CoverageRows
    <3> DEFINE B == {t \in DOMAIN bars : s <= t /\ t <= segments[s].end}
    <3>2. s \in DOMAIN bars /\ s <= segments[s].end  BY DEF Shaped
    <3>3. s \in Nat  BY <1>1, <3>2 DEF StoreAssumption
    <3>4. B # {}  BY <3>2, <3>3
    <3>5. Cardinality(B) > 0  BY <1>2, <3>4
    <3> QED  BY <3>1, <3>5 DEF CountBarsInRange
  <2> QED  BY <2>2, <2>3
<1>4. \A s \in DOMAIN segments : s <= segments[s].end /\ segments[s].origin \in {"real", "synthetic"}
  BY DEF Shaped
<1> QED  BY <1>1, <1>3, <1>4 DEF StoreTypeOK

\* What the store owes a training that reads it (store.rs, backfill.rs, persist.rs):
\* whatever pages, retries, ticks of the clock and crashes came between the
\* transactions, every tagged batch has its segment, a real ingest that reported
\* success stored its whole window, no stored bar was still forming, and a
\* lineage on record has its corpus.
THEOREM StoreHolds == StoreSpec => []StoreSound
<1>1. StoreInv => StoreSound  BY CoverageIsCounted DEF StoreInv, StoreSound
<1> QED  BY StoreInvHolds, <1>1, PTL

-----------------------------------------------------------------------------
(* Derived data.  Reads are safe because an entry says what it was computed *)
(* from; that an eviction deletes no fresh entry needs the keys it chose to *)
(* be stale still, but for those written since.                             *)

LEMMA DerivedStarts == DerivedInit => DerivedKept
  BY DEF DerivedInit, DerivedKept, DerivedTypes, Resting

LEMMA StartFeaturesKeeps ==
  ASSUME DerivedKept, NEW l \in Lineages, NEW c \in Catalogues, StartFeatures(l, c)  PROVE DerivedKept'
<1>1. Covers[l] \in SUBSET BarTimes  BY DerivedAssumption DEF BarTimes
<1>2. pass' = [lineage |-> l, cfg |-> c, left |-> Covers[l]] /\ UNCHANGED <<feats, tiers, evict, raced, lost>>  BY DEF StartFeatures
<1>3. pass' \in [lineage : Lineages, cfg : Catalogues, left : SUBSET BarTimes] /\ pass'.left \subseteq Covers[pass'.lineage]
  BY <1>1, <1>2
<1>4. DerivedTypes'  BY <1>2, <1>3 DEF DerivedKept, DerivedTypes
<1> QED  BY <1>2, <1>4 DEF DerivedKept

LEMMA PutNextKeeps == ASSUME DerivedKept, PutNext  PROVE DerivedKept'
<1>1. pass \in [lineage : Lineages, cfg : Catalogues, left : SUBSET BarTimes] /\ pass.left \subseteq Covers[pass.lineage]
  BY DEF PutNext, DerivedKept, DerivedTypes
<1>2. PICK t \in pass.left :
        /\ PutIndicatorState(<<pass.cfg.lookback, t>>, [lineage |-> pass.lineage, cfg |-> pass.cfg])
        /\ pass' = [pass EXCEPT !.left = @ \ {t}]
        /\ raced' = raced \union {<<pass.cfg.lookback, t>>}
  BY DEF PutNext
<1>3. PICK k : k = <<pass.cfg.lookback, t>>  OBVIOUS
<1>4. PICK e : e = [lineage |-> pass.lineage, cfg |-> pass.cfg]  OBVIOUS
<1>5. /\ k \in FeatureKeys /\ k[1] = pass.cfg.lookback /\ k[2] = t /\ t \in Covers[pass.lineage]
      /\ e \in Entries /\ e.lineage = pass.lineage /\ e.cfg = pass.cfg
  BY <1>1, <1>3, <1>4 DEF FeatureKeys, Entries
<1>6. feats' = [feats EXCEPT ![k] = e] /\ raced' = raced \union {k} /\ UNCHANGED <<tiers, evict, lost>>
  BY <1>2, <1>3, <1>4 DEF PutNext, PutIndicatorState
<1>7. feats \in [FeatureKeys -> Entries \union {NoEntry}]  BY DEF DerivedKept, DerivedTypes
<1>8. feats' \in [FeatureKeys -> Entries \union {NoEntry}] /\ feats'[k] = e /\ \A j \in FeatureKeys \ {k} : feats'[j] = feats[j]
  BY <1>5, <1>6, <1>7
<1>9. pass' \in [lineage : Lineages, cfg : Catalogues, left : SUBSET BarTimes] /\ pass'.left \subseteq Covers[pass'.lineage]
  BY <1>1, <1>2
<1>10. DerivedTypes'  BY <1>6, <1>8, <1>9 DEF DerivedKept, DerivedTypes
<1>11. \A j \in FeatureKeys : feats'[j] # NoEntry => feats'[j].cfg.lookback = j[1] /\ j[2] \in Covers[feats'[j].lineage]
  BY <1>5, <1>8 DEF DerivedKept
<1>12. evict # Resting => \A j \in evict.left \ raced' : feats'[j] # NoEntry /\ feats'[j].lineage # evict.lineage
  <2> SUFFICES ASSUME evict # Resting, NEW j \in evict.left \ raced'
               PROVE  feats'[j] # NoEntry /\ feats'[j].lineage # evict.lineage
    OBVIOUS
  <2>1. j \in FeatureKeys /\ j # k /\ j \in evict.left \ raced  BY <1>6 DEF DerivedKept, DerivedTypes
  <2> QED  BY <1>8, <2>1 DEF DerivedKept
<1> QED  BY <1>6, <1>10, <1>11, <1>12 DEF DerivedKept

LEMMA EndPassKeeps == ASSUME DerivedKept, EndPass  PROVE DerivedKept'
  BY DEF EndPass, DerivedKept, DerivedTypes

\* The tiers of a lineage go in together, and nothing ever removes one.
LEMMA CacheTiersKeeps == ASSUME DerivedKept, NEW l \in Lineages, CacheTiers(l)  PROVE DerivedKept'
<1>1. Covers[l] \in SUBSET BarTimes  BY DerivedAssumption DEF BarTimes
<1>2. tiers' = [t \in BarTimes |-> IF t \in Covers[l] THEN l ELSE tiers[t]] /\ UNCHANGED <<feats, pass, evict, raced, lost>>
  BY DEF CacheTiers
<1>3. tiers \in [BarTimes -> Lineages \union {NoEntry}]  BY DEF DerivedKept, DerivedTypes
<1>4. tiers' \in [BarTimes -> Lineages \union {NoEntry}]  BY <1>2, <1>3
<1>5. DerivedTypes'  BY <1>2, <1>4 DEF DerivedKept, DerivedTypes
<1>6. \A t \in BarTimes : tiers[t] # NoEntry => tiers'[t] # NoEntry  BY <1>2, DerivedAssumption
<1>7. \A u \in Covers[l] : tiers'[u] = l /\ l # NoEntry  BY <1>1, <1>2, DerivedAssumption
<1>8. ASSUME NEW t \in BarTimes, tiers'[t] # NoEntry
      PROVE  t \in Covers[tiers'[t]] /\ \A u \in Covers[tiers'[t]] : tiers'[u] # NoEntry
  <2>1. CASE t \in Covers[l]  BY <1>7, <2>1
  <2>2. CASE t \notin Covers[l]
    <3>1. tiers'[t] = tiers[t] /\ tiers[t] \in Lineages  BY <1>2, <1>3, <1>8, <2>2
    <3>2. Covers[tiers[t]] \subseteq BarTimes  BY <3>1 DEF BarTimes
    <3> QED  BY <1>6, <1>8, <3>1, <3>2 DEF DerivedKept
  <2> QED  BY <2>1, <2>2
<1> QED  BY <1>2, <1>5, <1>8 DEF DerivedKept

LEMMA ScanStaleKeeps == ASSUME DerivedKept, NEW l \in Lineages, ScanStale(l)  PROVE DerivedKept'
<1>1. /\ evict' = [lineage |-> l, left |-> {k \in FeatureKeys : feats[k] # NoEntry /\ feats[k].lineage # l}]
      /\ UNCHANGED <<feats, tiers, pass, lost>>
  BY DEF ScanStale
<1>2. evict' \in [lineage : Lineages, left : SUBSET FeatureKeys]  BY <1>1
<1>3. DerivedTypes'  BY <1>1, <1>2 DEF DerivedKept, DerivedTypes
<1> QED  BY <1>1, <1>3 DEF DerivedKept

LEMMA DeleteStaleKeeps == ASSUME DerivedKept, DeleteStale  PROVE DerivedKept'
<1>1. /\ feats' = [k \in FeatureKeys |-> IF k \in evict.left THEN NoEntry ELSE feats[k]]
      /\ lost' = lost \union {k \in evict.left \ raced : feats[k] # NoEntry /\ feats[k].lineage = evict.lineage}
      /\ evict' = Resting /\ UNCHANGED <<tiers, pass>>
  BY DEF DeleteStale
<1>2. lost' = {}  BY <1>1 DEF DeleteStale, DerivedKept
<1>3. feats' \in [FeatureKeys -> Entries \union {NoEntry}]  BY <1>1 DEF DerivedKept, DerivedTypes
<1>4. DerivedTypes'  BY <1>1, <1>3 DEF DerivedKept, DerivedTypes
<1>5. \A k \in FeatureKeys : feats'[k] # NoEntry => feats'[k] = feats[k]  BY <1>1
<1>6. \A k \in FeatureKeys : feats'[k] # NoEntry => feats'[k].cfg.lookback = k[1] /\ k[2] \in Covers[feats'[k].lineage]
  BY <1>5 DEF DerivedKept
<1> QED  BY <1>1, <1>2, <1>4, <1>6 DEF DerivedKept

\* The invariant is about what is stored, the property about what is read.
LEMMA ReadsAreSound == DerivedKept => DerivedSound
<1> SUFFICES ASSUME DerivedKept  PROVE DerivedSound  OBVIOUS
<1>1. ASSUME NEW l \in Lineages, NEW c \in Catalogues, NEW t \in BarTimes, NEW e \in ReadCachedFeature(t, l, c)
      PROVE  e.lineage = l /\ e.cfg.lookback = c.lookback /\ t \in Covers[l]
  <2>1. PICK k : k = <<c.lookback, t>>  OBVIOUS
  <2>2. k \in FeatureKeys /\ k[1] = c.lookback /\ k[2] = t  BY <2>1 DEF FeatureKeys
  <2>3. e \in GetIndicatorState(k, l)  BY <2>1 DEF ReadCachedFeature
  <2>4. e = feats[k] /\ feats[k] # NoEntry /\ feats[k].lineage = l  BY <2>3 DEF GetIndicatorState
  <2> QED  BY <2>2, <2>4 DEF DerivedKept
<1>2. ASSUME NEW l \in Lineages, NEW t \in BarTimes, GetReconBar(t, l) # {}
      PROVE  t \in Covers[l] /\ \A u \in Covers[l] : u \in ScanReconBars(u, u + 1)
  <2>1. tiers[t] = l /\ l # NoEntry  BY <1>2, DerivedAssumption DEF GetReconBar
  <2>2. t \in Covers[l] /\ \A u \in Covers[l] : tiers[u] # NoEntry  BY <2>1 DEF DerivedKept
  <2>3. \A u \in Covers[l] : u \in BarTimes /\ u \in Int  BY DerivedAssumption DEF BarTimes
  <2>4. \A u \in Int : u <= u /\ u < u + 1  OBVIOUS
  <2> QED  BY <2>2, <2>3, <2>4 DEF ScanReconBars
<1>3. lost = {}  BY DEF DerivedKept
<1> QED  BY <1>1, <1>2, <1>3 DEF DerivedSound

\* What a read serves was computed from the lineage it asks for, the tiers of a
\* lineage come together, and an eviction deletes no entry that was current at
\* its scan (synthetic.rs, features.rs, recon.rs): for any lineages, coverings
\* and catalogues, any number of passes and evictions.
THEOREM DerivedHolds == DerivedSpec => []DerivedSound
<1>1. DerivedKept /\ [DerivedNext]_derivedVars => DerivedKept'
  <2> SUFFICES ASSUME DerivedKept, [DerivedNext]_derivedVars  PROVE DerivedKept'  OBVIOUS
  <2>1. ASSUME NEW l \in Lineages, NEW c \in Catalogues, StartFeatures(l, c)  PROVE DerivedKept'  BY <2>1, StartFeaturesKeeps
  <2>2. ASSUME NEW l \in Lineages, CacheTiers(l)  PROVE DerivedKept'  BY <2>2, CacheTiersKeeps
  <2>3. ASSUME NEW l \in Lineages, ScanStale(l)  PROVE DerivedKept'  BY <2>3, ScanStaleKeeps
  <2>4. CASE PutNext  BY <2>4, PutNextKeeps
  <2>5. CASE EndPass  BY <2>5, EndPassKeeps
  <2>6. CASE DeleteStale  BY <2>6, DeleteStaleKeeps
  <2>7. CASE UNCHANGED derivedVars  BY <2>7 DEF derivedVars, DerivedKept, DerivedTypes
  <2> QED  BY <2>1, <2>2, <2>3, <2>4, <2>5, <2>6, <2>7 DEF DerivedNext
<1> QED  BY <1>1, DerivedStarts, ReadsAreSound, PTL DEF DerivedSpec
=============================================================================
