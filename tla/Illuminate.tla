----------------------------- MODULE Illuminate -----------------------------
(***************************************************************************)
(* The formula search (qe-wfo, gp; `qe evolve`): offspring are drawn by    *)
(* three operators, evaluated over the job's bars, offered to an archive   *)
(* of cells by structure, and the best of the cells are frozen into a pool *)
(* that is written to the pool repository.  A draw of the generator is a   *)
(* choice from the set of what it can return, over few terminals and       *)
(* operators; fitness, correlation and quantisation are computed exactly.  *)
(***************************************************************************)
EXTENDS ExprTree, SequencesExt

CONSTANTS
  RandomTerminals,      \* bound: the terminals a random draw returns
  RandomUnOps, RandomBinOps, RandomWindows,   \* bound: likewise for operators
  GrowDepths,           \* the depths of a grown subtree
  Stream,               \* the bars of the job
  States, SubpopSize, MaxPoolSize, CscvBlocks, Generations,
  FastMax, MediumMax,   \* the bands of the timescale axis
  MaxOffspring          \* bound: offspring of the search

VARIABLES cells,        \* cell -> its sub-population
          distinct,     \* the canonical hashes ever scored
          total,        \* evaluations
          frozen,       \* the pool the job seals, or <<>>
          disk          \* the pool's file: "absent", "torn" or "whole"
searchVars == <<cells, distinct, total, frozen, disk>>
----------------------------------------------------------------------------
(* Evaluation under the threshold-cross head. *)
Bands(edges, v) == Cardinality({i \in 1..Len(edges) : Less(edges[i], v)})
Linear(lo, hi, n, v) ==
  CASE AtMostQ(hi, lo) \/ AtMostQ(v, lo) -> 0
    [] Less(lo, hi) /\ Less(lo, v) /\ AtMostQ(hi, v) -> n - 1
    [] OTHER -> LET f == Times(Over(Minus(v, lo), Minus(hi, lo)), Whole(n)) IN f.n \div f.d

Squared(x) == Times(x, AbsQ(x))         \* the scale Zscore is modelled on
Quantise(root, n, v) ==
  IF root = "zscore"
    THEN Bands([i \in 1..(n - 1) |-> Squared(Plus(Whole(-2), Frac(4 * i, n)))], v)
    ELSE Linear(Zero, One, n, v)

SeriesOf(e) == LET raw == EvalStream(e, Stream)
               IN  [t \in 1..Len(Stream) |->
                      IF raw[t] = <<>> THEN <<>> ELSE <<Quantise(e.op, States, raw[t][1])>>]
ForwardReturn(t) == LET c == Stream[t]["close"]
                    IN  IF c.n = 0 THEN Zero ELSE Minus(Over(Stream[t + 1]["close"], c), One)
SignalAt(series, t) == IF series[t] = <<>> THEN 0
                       ELSE IF series[t][1] >= States \div 2 THEN 1 ELSE -1
SignalSeries(e) == [t \in 1..(Len(Stream) - 1) |-> SignalAt(SeriesOf(e), t)]
FormulaReturns(e) ==
  [t \in 1..(Len(Stream) - 1) |-> Times(Whole(SignalSeries(e)[t]), ForwardReturn(t))]
Fitness(series) ==
  LET warm == SelectSeq([t \in 1..(Len(Stream) - 1) |-> t],
                        LAMBDA t : series[t] # <<>> /\ Stream[t]["close"].n # 0)
  IN  IF warm = <<>> THEN Zero
      ELSE MeanQ([i \in 1..Len(warm) |->
                    Times(Whole(SignalAt(series, warm[i])), ForwardReturn(warm[i]))])

(* Pearson above 0.95 over the samples both have, without the root. *)
Correlation(a, b) ==
  LET both == SelectSeq([t \in 1..Len(a) |-> t], LAMBDA t : a[t] # <<>> /\ b[t] # <<>>)
      x == [i \in 1..Len(both) |-> Whole(a[both[i]][1])]
      y == [i \in 1..Len(both) |-> Whole(b[both[i]][1])]
      Cov(u, v) == SumQ([i \in 1..Len(both) |->
                           Times(Minus(u[i], MeanQ(u)), Minus(v[i], MeanQ(v)))])
  IN  IF Len(both) < 2 \/ Cov(x, x).n = 0 \/ Cov(y, y).n = 0 THEN Zero
      ELSE Over(Squared(Cov(x, y)), Times(Cov(x, x), Cov(y, y)))
DedupThreshold == Frac(361, 400)
----------------------------------------------------------------------------
(* Cells: family, timescale, complexity. *)
AllNodes(e) == [i \in 1..CountNodes(e) |-> NthNode(e, i - 1)[1]]
CountOf(e, P(_)) == Cardinality({i \in 1..CountNodes(e) : P(AllNodes(e)[i])})
Has(e, ops) == \E i \in 1..CountNodes(e) : AllNodes(e)[i].k = "win" /\ AllNodes(e)[i].op \in ops
FamilyOf(e) ==                         \* 1 momentum, 2 trend, 3 volatility, 4 volume
  LET vol(x) == x.k = "in" /\ x.f = "volume"
      oth(x) == x.k = "in" /\ x.f # "volume"
  IN  CASE CountOf(e, vol) > CountOf(e, oth) -> 4
        [] OTHER -> IF Has(e, {"std", "mad"}) THEN 3
                    ELSE IF ~Has(e, {"delta", "lag"}) /\ Has(e, {"mean", "max", "min"})
                           THEN 2 ELSE 1
Band(x, a, b) == IF x <= a THEN 0 ELSE IF x <= b THEN 1 ELSE 2
DescriptorFor(e) == <<FamilyOf(e), Band(MaxLookback(e), FastMax, MediumMax), Band(CountNodes(e), 2, 4)>>

EliteOf(e) == [tree |-> e, fitness |-> Fitness(SeriesOf(e)), hash |-> CanonicalHash(e),
               series |-> SeriesOf(e)]

(* A near-duplicate competes with its nearest neighbour alone; anything else
   takes a free slot or displaces the worst.  The lower index breaks ties. *)
FirstBy(I, Better(_, _)) ==
  CHOOSE i \in I : \A j \in I : ~Better(j, i) /\ (j < i => Better(i, j))
(* mutant: a full cell takes the newcomer whatever its fitness *)
InsertedAnyway(sub, e) ==
  IF Len(sub) < SubpopSize THEN Append(sub, e) ELSE [sub EXCEPT ![1] = e]
Inserted(sub, e) ==
  LET idx == 1..Len(sub)
      corr == [i \in idx |-> Correlation(sub[i].series, e.series)]
      dups == {i \in idx : Less(DedupThreshold, corr[i])}
      closer(i, j) == Less(corr[j], corr[i])
      poorer(i, j) == Less(sub[i].fitness, sub[j].fitness)
      rival == FirstBy(dups, closer)
      worst == FirstBy(idx, poorer)
      beats(i) == Less(sub[i].fitness, e.fitness)
  IN  IF dups # {} THEN IF beats(rival) THEN [sub EXCEPT ![rival] = e] ELSE sub
      ELSE IF Len(sub) < SubpopSize THEN Append(sub, e)
      ELSE IF beats(worst) THEN [sub EXCEPT ![worst] = e] ELSE sub
----------------------------------------------------------------------------
(* Offspring. *)
RECURSIVE Grow(_, _)
Grow(depth, full) ==
  IF depth <= 1 THEN RandomTerminals
  ELSE LET sub == Grow(depth - 1, full)
       IN  (IF full THEN {} ELSE RandomTerminals)
           \cup {Unary(op, a) : op \in RandomUnOps, a \in sub}
           \cup {Binary(op, a, b) : op \in RandomBinOps, a \in sub, b \in sub}
           \cup {Window(op, a, PeriodLattice[i]) :
                   op \in RandomWindows, a \in sub, i \in 1..Len(PeriodLattice)}

FreshRandom == {Repair(e) : e \in UNION {Grow(d, full) : d \in GrowDepths, full \in BOOLEAN}}

IndexOf(x, s) == IF In(x, s) THEN CHOOSE i \in 1..Len(s) : s[i] = x ELSE 1
Neighbours(x, s) == {s[j] : j \in {i \in {IndexOf(x, s) - 1, IndexOf(x, s) + 1} : i \in 1..Len(s)}
                              \cup (IF IndexOf(x, s) \in {1, Len(s)} THEN {IndexOf(x, s)} ELSE {})}
Tweaks(x) == CASE x.k = "const" -> {Const(c) : c \in Neighbours(x.c, ConstGrid)}
               [] x.k = "win" -> {[x EXCEPT !.p = p] : p \in Neighbours(x.p, PeriodLattice)}
               [] x.k = "in" -> {y \in RandomTerminals : y.k = "in" /\ y # x}
               [] OTHER -> {}
Positions(e) == 0..(CountNodes(e) - 1)
LocalRefine(e) ==
  UNION {{Repair(PutNode(e, i, x)) : x \in Tweaks(NthNode(e, i)[1])} : i \in Positions(e)}

Explore(e, other) ==
  LET here(i) == NthNode(e, i)[1]
      put(i, X) == {Repair(PutNode(e, i, x)) : x \in X}
      donors == {NthNode(other, j)[1] : j \in Positions(other)}
      grown == UNION {Grow(d, full) : d \in GrowDepths, full \in BOOLEAN}
  IN  UNION {put(i, donors \cup grown)
             \cup (IF IsTerminal(here(i)) THEN put(i, Grow(2, TRUE)) ELSE put(i, RandomTerminals)) :
               i \in Positions(e)}

Elites == UNION {{cells[c][i] : i \in 1..Len(cells[c])} : c \in DOMAIN cells}

(* One offspring: the operator's tree is evaluated, counted and offered. *)
ScoreDistinct(e) == distinct' = distinct \cup {CanonicalHash(e)}
Offspring(e) ==
  LET c == DescriptorFor(e)
      sub == IF c \in DOMAIN cells THEN cells[c] ELSE <<>>
  IN  /\ ScoreDistinct(e)
      /\ total' = total + 1
      /\ cells' = [x \in DOMAIN cells \cup {c} |->
                     IF x = c THEN Inserted(sub, EliteOf(e)) ELSE cells[x]]
      /\ UNCHANGED <<frozen, disk>>

MoreOffspring == total < MaxOffspring /\ frozen = <<>>
OffspringFresh == MoreOffspring /\ \E e \in FreshRandom : Offspring(e)
OffspringRefined == MoreOffspring /\ \E p \in Elites : \E e \in LocalRefine(p.tree) : Offspring(e)
OffspringExplored == MoreOffspring /\ \E p, o \in Elites : \E e \in Explore(p.tree, o.tree) : Offspring(e)
----------------------------------------------------------------------------
(* The job's tail: champions, trial basis, freeze, seal, write. *)
EarlierCell(c, d) ==
  LET i == CHOOSE j \in 1..3 : c[j] # d[j] /\ \A l \in 1..(j - 1) : c[l] = d[l]
  IN  c # d /\ c[i] < d[i]
BestIn(sub) == sub[CHOOSE i \in 1..Len(sub) :
                     \A j \in 1..Len(sub) : \/ Less(sub[j].fitness, sub[i].fitness)
                                            \/ sub[j].fitness = sub[i].fitness /\ j <= i]
Ahead(c, d) == LET x == BestIn(cells[c]).fitness
                   y == BestIn(cells[d]).fitness
               IN  Less(y, x) \/ (x = y /\ EarlierCell(c, d))
RECURSIVE DedupByHash(_)
DedupByHash(s) ==
  IF s = <<>> THEN <<>>
  ELSE <<Head(s)>> \o DedupByHash(SelectSeq(Tail(s), LAMBDA x : x.hash # Head(s).hash))
Ranked == LET order == SetToSortSeq(DOMAIN cells, Ahead)
          IN  [i \in 1..Len(order) |-> BestIn(cells[order[i]])]
(* mutant: champions in the order of their cells *)
ChampionsUnranked == LET order == SetToSortSeq(DOMAIN cells, EarlierCell)
                     IN  DedupByHash([i \in 1..Len(order) |-> BestIn(cells[order[i]])])
Champions == DedupByHash(Ranked)

EffectiveCells == Cardinality(DOMAIN cells) * Generations
TrialBasis(evaluations) == Larger(evaluations, EffectiveCells)
UncensoredPbo(population) == population # <<>> /\ Len(Stream) - 1 >= CscvBlocks

Freeze(top) ==
  LET texts == SetToSortSeq({top[i].hash : i \in 1..Len(top)}, Before)
  IN  [i \in 1..Len(texts) |-> [sexpr |-> texts[i], hash |-> texts[i]]]

ValidPool(formulas) ==
  /\ Len(formulas) <= MaxPoolSize
  /\ \A i \in 1..(Len(formulas) - 1) : Before(formulas[i].hash, formulas[i + 1].hash)

SealPool ==
  /\ frozen = <<>> /\ total > 0
  /\ Champions # <<>>
  /\ \E k \in 0..(MaxPoolSize + 1) :
       LET cap == IF k = 0 THEN 1 ELSE IF k > MaxPoolSize THEN MaxPoolSize ELSE k
           pool == Freeze(SubSeq(Champions, 1, IF cap < Len(Champions) THEN cap ELSE Len(Champions)))
       IN  /\ ValidPool(pool)
           /\ frozen' = <<[formulas |-> pool, k |-> cap,
                           evaluations |-> Cardinality(distinct),
                           trials |-> TrialBasis(Cardinality(distinct)),
                           varianceTrials |-> Len(Champions),
                           pbo |-> UncensoredPbo(Champions)]>>
  /\ disk' = "torn"                                   \* File::create truncates
  /\ UNCHANGED <<cells, distinct, total>>

WritePool == disk = "torn" /\ disk' = "whole" /\ UNCHANGED <<cells, distinct, total, frozen>>

(* What list() and load() return of the file. *)
Listed == IF disk = "whole" THEN frozen ELSE <<>>

SearchInit == cells = <<>> /\ distinct = {} /\ total = 0 /\ frozen = <<>> /\ disk = "absent"
SearchNext == OffspringFresh \/ OffspringRefined \/ OffspringExplored \/ SealPool \/ WritePool
----------------------------------------------------------------------------
(* Tradability (gates.rs): the target positions of a formula as fills. *)
RECURSIVE FillsFrom(_, _, _)
FillsFrom(pos, t, current) ==
  IF t > Len(pos)
    THEN IF current = 0 \/ pos = <<>> \/ Stream[Len(pos)]["close"].n = 0 THEN <<>>
         ELSE <<Over(Whole(-current), Stream[Len(pos)]["close"])>>
    ELSE IF pos[t] = current \/ Stream[t]["close"].n = 0 THEN FillsFrom(pos, t + 1, current)
         ELSE <<Over(Whole(pos[t] - current), Stream[t]["close"])>> \o FillsFrom(pos, t + 1, pos[t])
BuildFills(e) == FillsFrom(SignalSeries(e), 1, 0)       \* signed quantities per unit of notional
TurnoverFrac(e) ==
  LET p == SignalSeries(e)
  IN  IF Len(p) < 2 THEN Zero
      ELSE Frac(Cardinality({t \in 1..(Len(p) - 1) : p[t] # p[t + 1]}), Len(p) - 1)

\* The comment in build_fills: the last fill flattens the position, so that
\* all of its profit is realised.  The quantity that closes is computed from
\* the last price and the quantity that opened from its own, so the code
\* refutes it.
FlattenedAtEnd == \A e \in Elites : SumQ(BuildFills(e.tree)) = Zero
----------------------------------------------------------------------------
\* Every elite is a repaired tree in the cell of its structure, within the
\* cell's size, and its hash was counted as a trial: nothing the deflation
\* must answer for is missing from the count.
ArchiveSound ==
  \A c \in DOMAIN cells :
    /\ Len(cells[c]) \in 1..SubpopSize
    /\ \A i \in 1..Len(cells[c]) :
         /\ DescriptorFor(cells[c][i].tree) = c
         /\ Repair(cells[c][i].tree) = cells[c][i].tree
         /\ cells[c][i].hash \in distinct

\* The best fitness of a cell never falls, whichever elite a near-duplicate
\* or a newcomer displaces.
BestKept ==
  [][\A c \in DOMAIN cells : c \in DOMAIN cells' /\
       ~Less(BestIn(cells'[c]).fitness, BestIn(cells[c]).fitness)]_searchVars

\* A pool that can be listed holds the best formula the search scored, no
\* formula twice, no more than asked for; each stored text alone parses to a
\* tree with that hash and the same quantised series over the job's bars;
\* and the trial count covers every distinct formula scored.
PoolSound ==
  Listed # <<>> =>
    LET pool == Listed[1]
        fs == pool.formulas
        best == {e \in Elites : \A x \in Elites : ~Less(e.fitness, x.fitness)}
    IN  /\ Len(fs) \in 1..pool.k
        /\ Len(fs) = pool.k \/ \A c \in DOMAIN cells : \E i \in 1..Len(fs) :
                                  fs[i].hash = BestIn(cells[c]).hash
        /\ \E i \in 1..Len(fs) : \E e \in best : fs[i].hash = e.hash
        /\ \A i \in 1..Len(fs) :
             /\ \A j \in 1..Len(fs) : i # j => fs[i].hash # fs[j].hash
             /\ ParseSexpr(fs[i].sexpr) # <<>>
             /\ LET back == ParseSexpr(fs[i].sexpr)[1]
                IN  /\ CanonicalHash(back) = fs[i].hash
                    /\ \E e \in Elites : e.hash = fs[i].hash /\ SeriesOf(back) = e.series
        /\ pool.trials >= Cardinality(distinct) /\ pool.varianceTrials <= pool.trials

\* What evolve owes the pool it lists (gp/archive.rs, gp/freeze.rs,
\* jobs/evolve.rs).
EvolveSound == ArchiveSound /\ PoolSound
=============================================================================
