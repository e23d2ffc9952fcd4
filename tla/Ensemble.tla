------------------------------ MODULE Ensemble ------------------------------
(***************************************************************************)
(* Ensemble construction (qe-ensemble): capacity-capped weights, the tail  *)
(* and stress measures, the folds of the score, the regime tags and their  *)
(* table, and the differential-evolution search over membership masks.     *)
(*                                                                         *)
(* Returns, weights and capacities are exact rationals.  The score is any  *)
(* function of the members: the floating-point ratio it is in the code is  *)
(* not modelled, and the search must be right whatever it returns.  A      *)
(* close is a power of two so that its log-return is a whole number.       *)
(***************************************************************************)
EXTENDS Rationals, FiniteSets, SequencesExt

CONSTANTS
  SeedWeights,     \* seed weight vectors
  Capacities,      \* what one member's capacity may be, in units of the target AUM
  ReturnSeries,    \* net-return series of one member
  PoolSize,        \* strategies the search selects from
  Scorings,        \* score functions over sets of members
  PopSize,         \* masks in the population (the code takes at least 4)
  MaxTrials,       \* bound: trial masks of a search
  LogPrices,       \* series of log-closes
  RegimeWindow,
  TrendThreshold,  \* a rational
  HalfSpread, ImpactCoeff,   \* of the cost model, rationals
  Tested,          \* members' train-window backtests: returns, trades and size
  BarSeries        \* train-window bars: prices and volumes

VARIABLES book,    \* a choice of inputs for the pure measures
          score,   \* the scoring of this search
          pop,     \* the population of masks
          scores,  \* their scores
          tried,   \* every mask scored so far
          trials
deVars == <<score, pop, scores, tried, trials>>
ensembleVars == <<book, deVars>>

Indices(s) == 1..Len(s)
MinLen(ss) == CHOOSE n \in {Len(ss[i]) : i \in Indices(ss)} : \A i \in Indices(ss) : n <= Len(ss[i])
NonNegative(x) == MaxQ(Zero, x)
----------------------------------------------------------------------------
(* Water-filling: whoever would reach its cap is fixed there and the rest of
   the budget is shared again in proportion to the weights. *)
RECURSIVE Fill(_, _, _, _, _)
Fill(w, caps, alloc, active, remaining) ==
  LET SumOver(f, S) == SumQ([i \in Indices(w) |-> IF i \in S THEN f[i] ELSE Zero])
      total == SumOver(w, active)
      share(i) == Over(Times(remaining, w[i]), total)
      full == {i \in active : AtMostQ(caps[i], share(i))}
  IN  IF active = {} \/ ~Less(Zero, total) \/ ~Less(Zero, remaining) THEN alloc
      ELSE IF full = {} THEN [i \in Indices(w) |-> IF i \in active THEN share(i) ELSE alloc[i]]
      ELSE Fill(w, caps, [i \in Indices(w) |-> IF i \in full THEN caps[i] ELSE alloc[i]],
                active \ full, Minus(remaining, SumOver(caps, full)))
(* mutant: every weight is cut at its cap and the freed budget is lost *)
CapOnce(w, capacities, aum) ==
  [i \in Indices(w) |-> MinQ(w[i], Over(capacities[i], aum))]
CapWeights(w, capacities, aum) ==
  IF AtMostQ(aum, Zero) THEN w
  ELSE LET caps == [i \in Indices(w) |-> MinQ(One, NonNegative(Over(capacities[i], aum)))]
           budget == MinQ(One, SumQ([i \in Indices(w) |-> NonNegative(w[i])]))
       IN  Fill(w, caps, [i \in Indices(w) |-> Zero],
                {i \in Indices(w) : Less(Zero, w[i]) /\ Less(Zero, caps[i])}, budget)

(* Capacity: the size at which half-spread and impact have eaten the edge,
   <<>> when nothing bounds it.  The impact exponent is the code's 1/2, so the
   participation is the square of a ratio. *)
Capacity(p) ==
  LET usable == Minus(p.edge, Times(p.turnover, HalfSpread))
      slope == Times(p.turnover, ImpactCoeff)
      root == Over(usable, slope)
  IN  IF AtMostQ(usable, Zero) THEN <<Zero>>
      ELSE IF AtMostQ(slope, Zero) \/ AtMostQ(p.adv, Zero) THEN <<>>
      ELSE <<Times(Over(p.adv, p.turnover), Times(root, root))>>
(* The cost of trading a notional whose participation is the square of root. *)
SlippageCost(notional, root) == Times(notional, Plus(HalfSpread, Times(ImpactCoeff, root)))

EqualWeights(k) == [i \in 1..k |-> Frac(1, k)]
CapOrEqual(w, capacities, aum) ==
  LET capped == CapWeights(w, capacities, aum)
  IN  IF Less(Zero, SumQ(capped)) THEN capped ELSE EqualWeights(Len(w))

(* The economics of one member from its train-window backtest: the mean net
   return as its edge, the round-trip notional per period as its turnover. *)
MeanDollarAdv(bars) ==
  IF bars = <<>> THEN Zero ELSE MeanQ([t \in Indices(bars) |-> Times(bars[t].volume, bars[t].price)])
Turnover(bt) ==
  Over(Times(Whole(2 * bt.trades), bt.size), Whole(IF bt.returns = <<>> THEN 1 ELSE Len(bt.returns)))
ProfileOf(bt, adv) ==
  [edge |-> IF bt.returns = <<>> THEN Zero ELSE MeanQ(bt.returns), turnover |-> Turnover(bt), adv |-> adv]
EnsembleTurnover(bts, w) == SumQ([i \in Indices(bts) |-> Times(w[i], Turnover(bts[i]))])
(* An unbounded capacity caps nothing: it counts as the whole target AUM. *)
StrategyCapacities(bts, adv, aum) ==
  [i \in Indices(bts) |-> LET c == Capacity(ProfileOf(bts[i], adv)) IN IF c = <<>> THEN aum ELSE c[1]]
(* The deployed weights: equal shares, capped. *)
CapacityCappedWeights(bts, adv, aum) ==
  CapOrEqual(EqualWeights(Len(bts)), StrategyCapacities(bts, adv, aum), aum)

WeightedCombined(series, w) ==
  [t \in 1..MinLen(series) |-> SumQ([i \in Indices(series) |-> Times(w[i], series[i][t])])]
----------------------------------------------------------------------------
(* Tail and stress. *)
Ascending(s) == SortSeq(s, Less)
Cvar(returns, alpha) ==
  IF returns = <<>> THEN Zero
  ELSE LET n == Len(returns)
           up == (alpha.n * n + alpha.d - 1) \div alpha.d
           k == IF up < 1 THEN 1 ELSE IF up > n THEN n ELSE up
       IN  MeanQ(SubSeq(Ascending(returns), 1, k))

RECURSIVE CurveFrom(_, _, _)
CurveFrom(returns, equity, peak) ==     \* drawdown after each period, as a loss
  IF returns = <<>> THEN <<>>
  ELSE LET e == Times(equity, Plus(One, Head(returns)))
           p == MaxQ(peak, e)
       IN  <<IF Less(Zero, p) THEN Minus(One, Over(e, p)) ELSE One>> \o CurveFrom(Tail(returns), e, p)
Drawdowns(returns) == CurveFrom(returns, One, One)
Cdar(returns, alpha) ==
  LET d == Drawdowns(returns) IN Cvar([t \in Indices(d) |-> Negate(d[t])], alpha)
MaxDrawdown(returns) == FoldLeft(MaxQ, Zero, Drawdowns(returns))

Compound(d, e) == Minus(One, Times(Minus(One, d), Minus(One, e)))
HistoricalLoss(base, start, len) ==
  MaxDrawdown(SubSeq(base, start + 1, IF start + len < Len(base) THEN start + len ELSE Len(base)))
ShockLoss(base, gross, shock) == Compound(MaxDrawdown(base), Times(NonNegative(shock), gross))
ScenarioLoss(base, gross, s) ==      \* a historical window, or a gap, funding or deleveraging shock
  IF s.kind = "window" THEN HistoricalLoss(base, s.start, s.len) ELSE ShockLoss(base, gross, s.shock)
WorstCase(series, w, scenarios) ==
  LET base == WeightedCombined(series, w)
      gross == SumQ([i \in Indices(w) |-> AbsQ(w[i])])
  IN  FoldLeft(MaxQ, Zero, [k \in Indices(scenarios) |-> ScenarioLoss(base, gross, scenarios[k])])
----------------------------------------------------------------------------
(* The folds of the cross-validated score, and leave-one-out. *)
FoldBounds(f, k, t) == <<(f * t) \div k + 1, ((f + 1) * t) \div k>>     \* inclusive
FoldsOf(folds, t) ==
  LET k == IF folds < 1 THEN 1 ELSE IF folds > t THEN t ELSE folds
  IN  SelectSeq([f \in 1..k |-> FoldBounds(f - 1, k, t)], LAMBDA b : b[1] <= b[2])
PairsN(lengths) == CHOOSE n \in lengths : \A m \in lengths : n <= m     \* the shortest pair's overlap
CorrEffectiveN(members, folds, t) ==
  IF Cardinality(members) < 2 THEN 0
  ELSE LET fs == FoldsOf(folds, t) IN PairsN({fs[f][2] - fs[f][1] + 1 : f \in Indices(fs)})
Reduced(members) == IF Cardinality(members) <= 1 THEN {members}
                    ELSE {members \ {m} : m \in members}
----------------------------------------------------------------------------
(* Regimes. *)
Price(e) == 2 ^ e
SumN(f, S) == FoldLeft(LAMBDA a, i : a + f[i], 0, SetToSeq(S))
LabelRegimes(logs) ==
  LET n == Len(logs)
      w == IF RegimeWindow < 1 THEN 1 ELSE RegimeWindow
      win(i) == (i - w + 1)..i
      ret == [i \in 2..n |-> Whole(logs[i] - logs[i - 1])]
      vol == [i \in (w + 1)..n |->                             \* the variance: its order is vol's
                LET r == [j \in 1..w |-> ret[i - w + j]]
                IN  MeanQ([j \in 1..w |-> Times(Minus(r[j], MeanQ(r)), Minus(r[j], MeanQ(r)))])]
      step == [i \in 2..n |-> Magnitude(Price(logs[i]) - Price(logs[i - 1]))]
      eff == [i \in (w + 1)..n |->
                IF SumN(step, win(i)) = 0 THEN Zero
                ELSE Frac(Magnitude(Price(logs[i]) - Price(logs[i - w])), SumN(step, win(i)))]
      sorted == Ascending([j \in 1..(n - w) |-> vol[w + j]])
      mid == (n - w) \div 2
      above(v) == IF (n - w) % 2 = 1 THEN Less(sorted[mid + 1], v)
                  ELSE Less(Plus(sorted[mid], sorted[mid + 1]), Plus(v, v))
  IN  IF n <= w THEN [i \in 1..n |-> <<>>]
      ELSE [i \in 1..n |-> IF i <= w THEN <<>>
                           ELSE <<[volatile |-> above(vol[i]),
                                   trending |-> AtMostQ(TrendThreshold, eff[i])]>>]

(* One row per regime met; the two series are paired over the shorter. *)
ExpectancyTable(returns, labels) ==
  LET n == IF Len(returns) < Len(labels) THEN Len(returns) ELSE Len(labels)
      at(g) == {i \in 1..n : labels[i] = <<g>>}
      met == {labels[i][1] : i \in {j \in 1..n : labels[j] # <<>>}}
      inSeq(g) == SelectSeq([i \in 1..n |-> i], LAMBDA i : i \in at(g))
      totalOf(g) == SumQ([j \in 1..Len(inSeq(g)) |-> returns[inSeq(g)[j]]])
  IN  [rows |-> [g \in met |->
                   [count |-> Cardinality(at(g)), total |-> totalOf(g),
                    mean |-> Over(totalOf(g), Whole(Cardinality(at(g)))),
                    wins |-> Cardinality({i \in at(g) : Less(Zero, returns[i])})]],
       unlabelled |-> Cardinality({i \in 1..n : labels[i] = <<>>})]
WorstRegime(table) ==
  IF DOMAIN table.rows = {} THEN <<>>
  ELSE <<FoldLeft(MinQ, table.rows[CHOOSE g \in DOMAIN table.rows : TRUE].mean,
                  SetToSeq({table.rows[g].mean : g \in DOMAIN table.rows}))>>
RegimePenalty(table) ==      \* what the worst regime is short of the floor, zero where none was met
  IF WorstRegime(table) = <<>> THEN Zero ELSE NonNegative(Minus(Zero, WorstRegime(table)[1]))
----------------------------------------------------------------------------
(* The search.  A mask is the set of the members it selects. *)
Members == 1..PoolSize
DeMutant(a, b, c) ==
  LET Xor(x, y) == (x \ y) \cup (y \ x) IN Xor(a, Xor(b, c))
Crossed(target, mutant) ==                       \* at least one position is the mutant's
  {{m \in Members : m \in (IF m \in from THEN mutant ELSE target)} :
     from \in SUBSET Members \ {{}}}
RepairNonempty(mask) == IF mask = {} THEN {{m} : m \in Members} ELSE {mask}

Books == [weights : SeedWeights, caps : [1..3 -> Capacities], series : [1..2 -> ReturnSeries],
          logs : LogPrices, members : [1..2 -> Tested], bars : BarSeries]
Masks == [1..PopSize -> SUBSET Members \ {{}}]
DeInit ==
  /\ score \in Scorings
  /\ pop \in Masks
  /\ scores = [i \in 1..PopSize |-> score[pop[i]]]
  /\ tried = {pop[i] : i \in 1..PopSize}
  /\ trials = 0

Keep(i, trial) == score[trial] >= scores[i]

Trial ==
  /\ trials < MaxTrials
  /\ LET i == (trials % PopSize) + 1
     IN  \E a, b, c \in 1..PopSize \ {i} :
           /\ Cardinality({a, b, c}) = 3
           /\ \E x \in Crossed(pop[i], DeMutant(pop[a], pop[b], pop[c])) :
              \E trial \in RepairNonempty(x) :
                /\ tried' = tried \cup {trial}
                /\ IF Keep(i, trial)
                     THEN /\ pop' = [pop EXCEPT ![i] = trial]
                          /\ scores' = [scores EXCEPT ![i] = score[trial]]
                     ELSE UNCHANGED <<pop, scores>>
  /\ trials' = trials + 1
  /\ UNCHANGED <<score, book>>

BestMask == pop[CHOOSE i \in 1..PopSize :
                  \A j \in 1..PopSize : scores[j] < scores[i] \/ (scores[j] = scores[i] /\ j <= i)]
----------------------------------------------------------------------------
\* Capacity is the size where the edge is gone: a strategy traded at any
\* size up to it earns its costs back, and at any size beyond it does not.
CapacityBreaksEven ==
  LET p == ProfileOf(book.members[1], MeanDollarAdv(book.bars))
  IN  \A root \in {Frac(k, 4) : k \in 1..12} :
        (~AtMostQ(p.adv, Zero) /\ Less(Zero, p.turnover)) =>
          LET size == Times(Over(p.adv, p.turnover), Times(root, root))
              traded == Times(p.turnover, size)
              covered == AtMostQ(SlippageCost(traded, root), Times(p.edge, size))
          IN  covered <=> (Capacity(p) = <<>> \/ AtMostQ(size, Capacity(p)[1]))

\* No member of the deployed book holds more than its capacity at the target
\* AUM, except that a book of which no member has any is deployed at equal
\* weights (cap_or_equal); and a book trades no more than its busiest member.
DeployedWithinCapacity ==
  LET adv == MeanDollarAdv(book.bars)
      aum == Whole(2)
      caps == StrategyCapacities(book.members, adv, aum)
      w == CapacityCappedWeights(book.members, adv, aum)
  IN  /\ \A i \in 1..2 : AtMostQ(Times(w[i], aum), caps[i]) \/ (caps[1] = Zero /\ caps[2] = Zero)
      /\ Less(Zero, SumQ(w)) /\ AtMostQ(SumQ(w), One)
      /\ \E i \in 1..2 : AtMostQ(EnsembleTurnover(book.members, w), Turnover(book.members[i]))

\* The capped weights are the water level: with one level for all, a member
\* gets the level in proportion to its weight or its cap, whichever is less,
\* and budget is left over only when every member is at its cap.
WaterLevel ==
  LET w == book.weights
      c == book.caps
      a == CapWeights(w, c, One)
      live == {i \in Indices(w) : Less(Zero, w[i]) /\ Less(Zero, c[i])}
      cap(i) == MinQ(One, c[i])
      open == {i \in live : Less(a[i], cap(i))}
      budget == MinQ(One, SumQ(w))
  IN  /\ \A i \in Indices(w) : i \notin live => a[i] = Zero
      /\ \A i \in live : Less(Zero, a[i]) /\ AtMostQ(a[i], cap(i))
      /\ \A i, j \in open : Times(a[i], w[j]) = Times(a[j], w[i])
      /\ \A i \in live \ open : \A j \in open : AtMostQ(Times(a[i], w[j]), Times(a[j], w[i]))
      /\ AtMostQ(SumQ(a), budget)
      /\ open # {} => SumQ(a) = budget
      /\ Less(Zero, SumQ(CapOrEqual(w, c, One)))

\* The risk measures order the way their readers assume: a deeper tail is no
\* better than a shallower one, and the drawdown measures, the historical
\* window and the shocks all sit on the right side of the curve's drawdown.
RiskOrdered ==
  LET r == WeightedCombined(book.series, EqualWeights(Len(book.series)))
      half == Frac(1, 2)
      worst == MaxDrawdown(r)
  IN  /\ AtMostQ(Cvar(r, Frac(1, 20)), Cvar(r, half)) /\ AtMostQ(Cvar(r, half), Cvar(r, One))
      /\ AtMostQ(Negate(worst), Cdar(r, Frac(1, 20))) /\ Cdar(r, Frac(1, 20)) = Negate(worst)
      /\ AtMostQ(Cdar(r, half), Zero)
      /\ \A s, l \in 0..Len(r) : AtMostQ(HistoricalLoss(r, s, l), worst)
      /\ \A x \in {Whole(-1), Zero, Frac(1, 10)} : AtMostQ(worst, ShockLoss(r, One, x))
      /\ \A k \in 0..Len(r) :
           AtMostQ(worst, WorstCase(book.series, EqualWeights(Len(book.series)),
                     <<[kind |-> "window", start |-> 0, len |-> k], [kind |-> "shock", shock |-> Zero]>>))
      /\ \A t \in Indices(r) : Less(r[t], Zero) => AtMostQ(Negate(r[t]), worst)

\* The folds tile the sample in order and none is empty, so no period counts
\* in two folds and none is left out of the score, and the sample size the
\* result reports for its correlations is that of its smallest fold.
FoldsTile ==
  LET t == MinLen(book.series)
  IN  \A folds \in 0..(t + 1) :
        LET fs == FoldsOf(folds, t)
        IN  /\ fs # <<>> /\ fs[1][1] = 1 /\ fs[Len(fs)][2] = t
            /\ \A f \in 1..(Len(fs) - 1) : fs[f + 1][1] = fs[f][2] + 1
            /\ \A f \in Indices(fs) : CorrEffectiveN({1, 2}, folds, t) <= fs[f][2] - fs[f][1] + 1
            /\ CorrEffectiveN({1, 2}, folds, t) * Len(fs) <= t

\* The regime table accounts for every paired period exactly once, and no
\* more than half of the labelled bars are volatile.
RegimesReconcile ==
  LET labels == LabelRegimes(book.logs)
      r == book.series[1]
      table == ExpectancyTable(r, labels)
      n == IF Len(r) < Len(labels) THEN Len(r) ELSE Len(labels)
      labelled == {i \in 1..Len(labels) : labels[i] # <<>>}
      sumRows(f) == FoldLeft(LAMBDA a, g : a + f[g], 0, SetToSeq(DOMAIN f))
  IN  /\ Len(labels) = Len(book.logs)
      /\ sumRows([g \in DOMAIN table.rows |-> table.rows[g].count]) + table.unlabelled = n
      /\ \A g \in DOMAIN table.rows : table.rows[g].wins <= table.rows[g].count
      /\ 2 * Cardinality({i \in labelled : labels[i][1].volatile}) <= Cardinality(labelled)
      /\ WorstRegime(table) # <<>> =>
           \A g \in DOMAIN table.rows : AtMostQ(WorstRegime(table)[1], table.rows[g].mean)
      /\ RegimePenalty(table) = Zero <=> \A g \in DOMAIN table.rows : AtMostQ(Zero, table.rows[g].mean)

\* Whatever the score, the search never loses the best mask it has scored,
\* and never holds an empty one.
SearchKeepsBest ==
  /\ \A i \in 1..PopSize : pop[i] # {} /\ scores[i] = score[pop[i]]
  /\ \A m \in tried : score[m] <= score[BestMask]

\* What the job seals rests on all of these measures at once.
BookSound == WaterLevel /\ DeployedWithinCapacity /\ CapacityBreaksEven /\ RiskOrdered /\ FoldsTile /\ RegimesReconcile
=============================================================================
