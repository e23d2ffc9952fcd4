----------------------------- MODULE ResultDoc -----------------------------
(***************************************************************************)
(* The backtest job (qe-cli, jobs/backtest.rs and jobs/metrics.rs): the    *)
(* checks that come before the simulation, the blend of the strategies'    *)
(* returns, and the document of what came out.                             *)
(*                                                                         *)
(* Returns are exact rationals; the roots and powers of the headline       *)
(* ratios are left out, and what they are taken over is kept.  A day has   *)
(* DayLen time units, a month MonthLen, a year MonthsPerYear months.       *)
(***************************************************************************)
EXTENDS Ensemble

CONSTANTS
  DayLen, MonthLen, MonthsPerYear, BarLen,
  Asks        \* requests, each with what the store and the repository hold for it

VARIABLES ask, doc          \* the request, and its document or its error once it has run
resultVars == <<ask, doc>>
----------------------------------------------------------------------------
EquityCurve(returns) == [t \in 1..(Len(returns) + 1) |->
                           FoldLeft(LAMBDA v, r : Times(v, Plus(One, r)), One, SubSeq(returns, 1, t - 1))]
RunningPeak(eq, t) == FoldLeft(MaxQ, eq[1], SubSeq(eq, 1, t))
DrawdownSeries(eq) == [t \in Indices(eq) |-> Over(Minus(eq[t], RunningPeak(eq, t)), RunningPeak(eq, t))]
MaxDd(dd) == FoldLeft(MinQ, Zero, dd)

(* Returns compounded within a bucket, over the buckets met, in order. *)
Bucketed(returns, times, length) ==
  LET at(k) == SelectSeq([i \in Indices(returns) |-> i], LAMBDA i : times[i] \div length = k)
      met == {times[i] \div length : i \in Indices(returns)}
  IN  [k \in met |-> Minus(FoldLeft(LAMBDA v, i : Times(v, Plus(One, returns[i])), One, at(k)), One)]
DailyReturns(returns, times) == Bucketed(returns, times, DayLen)
(* Per year a row of months; a month without a return reads zero. *)
MonthlyReturns(returns, times) ==
  LET byMonth == Bucketed(returns, times, MonthLen)
  IN  [y \in {m \div MonthsPerYear : m \in DOMAIN byMonth} |->
         [j \in 0..(MonthsPerYear - 1) |->
            IF y * MonthsPerYear + j \in DOMAIN byMonth THEN byMonth[y * MonthsPerYear + j] ELSE Zero]]

WinRate(trades) ==
  IF trades = <<>> THEN Zero
  ELSE Frac(Len(SelectSeq(trades, LAMBDA t : Less(Zero, t.ret))), Len(trades))
(* Gains over losses; <<>> is the infinity of a book without a loss. *)
ProfitFactor(trades) ==
  LET gains == SumQ([i \in Indices(trades) |-> NonNegative(trades[i].ret)])
      losses == SumQ([i \in Indices(trades) |-> NonNegative(Negate(trades[i].ret))])
  IN  IF trades = <<>> THEN <<Zero>> ELSE IF losses = Zero THEN <<>> ELSE <<Over(gains, losses)>>
(* What the Lo adjustment divides by: 1 + 2 sum (1 - k/q) rho_k, one where
   the returns do not vary or the sum is not positive. *)
Autocorrelation(r, k) ==
  LET d == [i \in Indices(r) |-> Minus(r[i], MeanQ(r))]
      denom == SumQ([i \in Indices(r) |-> Times(d[i], d[i])])
  IN  IF k = 0 \/ k >= Len(r) \/ Len(r) < 2 \/ denom = Zero THEN Zero
      ELSE Over(SumQ([i \in 1..(Len(r) - k) |-> Times(d[i + k], d[i])]), denom)
LoDenominator(r, q) ==
  LET lags == IF q - 1 < Len(r) - 1 THEN q - 1 ELSE Len(r) - 1
      x == Plus(One, Times(Whole(2), SumQ([k \in 1..lags |-> Times(Frac(q - k, q), Autocorrelation(r, k))])))
  IN  IF Len(r) < 2 THEN One ELSE IF Less(Zero, x) THEN x ELSE One
----------------------------------------------------------------------------
(* A request either stops at its first failed check or runs.  The store may fail
   to open or to be scanned; a.foreign are the chromosomes that are not valid
   for the catalogue's schema, and only the selected ones are checked. *)
SelectChromosomes(a) ==
  IF a.strategy = <<>> THEN [i \in Indices(a.weights) |-> i]
  ELSE IF a.strategy[1] \in 0..(Len(a.weights) - 1) THEN <<a.strategy[1] + 1>> ELSE <<>>
SelectedWeights(a) == IF a.strategy = <<>> THEN a.weights ELSE <<One>>
Refusal(a) ==
  IF a.universe = 0 THEN "empty_universe"
  ELSE IF ~a.parses THEN "bad_request"             \* resolution, dates, symbols
  ELSE IF ~a.opens THEN "storage"
  ELSE IF ~a.vintage THEN "vintage"                \* absent or refused by the load
  ELSE IF a.weights = <<>> THEN "empty_vintage"
  ELSE IF SelectChromosomes(a) = <<>> THEN "strategy_not_found"
  ELSE IF Range(SelectChromosomes(a)) \cap a.foreign # {} THEN "schema_mismatch"
  ELSE IF ~a.scans THEN "storage"
  ELSE IF a.bars = 0 THEN "no_bars" ELSE "none"

Blend(a) ==
  LET chosen == SelectChromosomes(a)
      w == SelectedWeights(a)
  IN  [t \in 1..(a.bars - 1) |->
         SumQ([i \in Indices(chosen) |-> Times(w[i], a.returns[chosen[i]][t])])]
BarTime(b) == (b - 1) * BarLen
Times1(a) == [t \in 1..(a.bars - 1) |-> BarTime(t + 1)]     \* a return is dated by its closing bar

(* Every chosen strategy's fills, by entry and then by strategy. *)
RECURSIVE SortFills(_)
SortFills(fs) ==
  IF fs = {} THEN <<>>
  ELSE LET first == CHOOSE f \in fs : \A g \in fs :
                      f.entry < g.entry \/ (f.entry = g.entry /\ f.strategy <= g.strategy)
       IN  <<first>> \o SortFills(fs \ {first})
FillsOf(a) == SortFills(UNION {{[f EXCEPT !.strategy = i] : f \in a.fills[SelectChromosomes(a)[i]]} :
                                 i \in Indices(SelectChromosomes(a))})
TradeRow(f) == [ret |-> f.ret, hold |-> NonNegative(Whole(BarTime(f.exit) - BarTime(f.entry))),
                won |-> Less(Zero, f.ret), entry |-> f.entry]
AssembleDoc(a) ==
  LET r == Blend(a)
      eq == EquityCurve(r)
      rows == [i \in Indices(FillsOf(a)) |-> TradeRow(FillsOf(a)[i])]
  IN  [equity |-> eq, drawdown |-> DrawdownSeries(eq), maxDd |-> MaxDd(DrawdownSeries(eq)),
       daily |-> DailyReturns(r, Times1(a)), monthly |-> MonthlyReturns(r, Times1(a)),
       trades |-> rows, winRate |-> WinRate(rows), profitFactor |-> ProfitFactor(rows)]

ResultInit == ask \in Asks /\ doc = <<>>
RunBacktest ==
  /\ doc = <<>>
  /\ doc' = <<IF Refusal(ask) = "none" THEN [error |-> "none", body |-> <<AssembleDoc(ask)>>]
              ELSE [error |-> Refusal(ask), body |-> <<>>]>>
  /\ UNCHANGED ask
----------------------------------------------------------------------------
Compounded(f) == FoldLeft(LAMBDA v, k : Times(v, Plus(One, f[k])), One, SetToSeq(DOMAIN f))

\* The document is one account of one simulation: the days and the months
\* each compound to the last point of the equity curve, the drawdown is the
\* one the stress report of the same returns has, every fill of the chosen
\* strategies is a row in order of entry, a strategy backtested alone has the
\* returns of the strategy, and no error leaves a document behind.
ReportReconciles ==
  doc # <<>> =>
    LET d == doc[1]
        r == Blend(ask)
    IN  /\ (d.error = "none") <=> (d.body # <<>>)
        /\ d.body # <<>> =>
             LET b == d.body[1]
                 last == b.equity[Len(b.equity)]
                 months == [m \in {<<y, j>> : y \in DOMAIN b.monthly, j \in 0..(MonthsPerYear - 1)} |->
                              b.monthly[m[1]][m[2]]]
             IN  /\ Compounded(b.daily) = last
                 /\ Compounded(months) = last
                 /\ b.maxDd = Negate(MaxDrawdown(r))
                 /\ \A t \in Indices(b.drawdown) : AtMostQ(b.drawdown[t], Zero)
                 /\ \A i \in 1..(Len(b.trades) - 1) : b.trades[i].entry <= b.trades[i + 1].entry
                 /\ b.winRate = Zero <=> \A i \in Indices(b.trades) : ~b.trades[i].won
                 /\ b.profitFactor # <<>> /\ Less(One, b.profitFactor[1]) =>
                      Less(Zero, SumQ([i \in Indices(b.trades) |-> b.trades[i].ret]))
                 /\ ask.strategy # <<>> => r = SubSeq(ask.returns[ask.strategy[1] + 1], 1, ask.bars - 1)
                 /\ Less(Zero, LoDenominator(r, 3))

\* What a vintage's book and the report on it rest on: weights and measures
\* (capacity.rs, objective.rs, stress.rs), the search over members (search.rs),
\* and a document whose parts agree (jobs/backtest.rs, metrics.rs).
ResultSound == BookSound /\ SearchKeepsBest /\ ReportReconciles
=============================================================================
