---------------------------- MODULE QualityGate -----------------------------
(***************************************************************************)
(* Which strategies graduate: the growth and drawdown of a return series   *)
(* (crates/wfo/src/fitness.rs), the phased quality gate (lifecycle.rs), the*)
(* strategy repository (strategy_repo.rs) and the robustness check         *)
(* (robustness.rs).                                                        *)
(*                                                                         *)
(* A bar's return multiplies the account by a power of two, and is written *)
(* as the exponent; Wipe is a loss of everything.  Growths are then sums   *)
(* of exponents, and drawdowns differences of them.  A standard error is   *)
(* rational for two windows or fewer, so a candidate has at most two, of   *)
(* WindowLength bars.                                                      *)
(***************************************************************************)
EXTENDS Integers, Sequences, FiniteSets, SequencesExt

CONSTANTS
  Wipe,           \* a return of -100 % or worse
  MinusInfinity,  \* less than every growth
  Infinity,       \* greater than every growth
  Samples,        \* windowed return series offered to the repository
  Distribution,   \* growths of the population, from which the threshold is taken
  Quantile,       \* in hundredths
  MinWindows,     \* min_exploitation_windows
  Ceiling,        \* max_drawdown_ceiling, as a number of halvings
  Assessments,    \* robustness assessments: base, jitters, limits
  MaxRecords

VARIABLES records, assessment
gateVars == <<records, assessment>>

-----------------------------------------------------------------------------
Total(w) == FoldLeft(LAMBDA a, b : a + b, 0, w)

\* log_growth of a window, times its length.
LogGrowth(w) == IF Wipe \in Range(w) THEN MinusInfinity ELSE Total(w)

\* max_drawdown: halvings from the running peak, the start counting as one.
MaxDrawdown(w) ==
  LET at(k) == Total(SubSeq(w, 1, k))
      peak(k) == Max({at(j) : j \in 0 .. k})
  IN  IF Wipe \in Range(w) THEN Infinity ELSE Max({peak(k) - at(k) : k \in 0 .. Len(w)})

Gap(x) == IF x < 0 THEN -x ELSE x

\* from_windows: twice the mean and twice the standard error over one or two
\* windows; no error with fewer than two or a ruined one.
FromWindows(ws) ==
  LET g == [k \in DOMAIN ws |-> LogGrowth(ws[k])]
      ruined == MinusInfinity \in Range(g)
  IN  [n |-> Len(ws),
       mean2 |-> IF Len(ws) = 0 THEN 0 ELSE IF ruined THEN MinusInfinity ELSE IF Len(ws) = 1 THEN 2 * g[1] ELSE g[1] + g[2],
       se2 |-> IF Len(ws) < 2 \/ ruined THEN 0 ELSE Gap(g[1] - g[2])]

-----------------------------------------------------------------------------
(* The gate, with k_sigma = 1.                                              *)

Phase(f) == IF f.n >= MinWindows THEN "Exploitation" ELSE "Exploration"

\* The quantile of some sorted growths, at the rounded index.
QuantileOf(s) == s[((2 * Quantile * (Len(s) - 1) + 100) \div 200) + 1]

\* from_distribution: twice the threshold; nothing clears that of no finite one.
Threshold ==
  LET finite == SelectSeq(Distribution, LAMBDA x : x # MinusInfinity)
      ranked == SortSeq(finite, <)
  IN  IF finite = <<>> THEN Infinity ELSE 2 * QuantileOf(ranked)

RobustLowerBound(f) == IF f.mean2 = MinusInfinity THEN MinusInfinity ELSE f.mean2 - f.se2

\* persists
Persists(f) == Phase(f) = "Exploitation" /\ f.mean2 # MinusInfinity /\ RobustLowerBound(f) >= Threshold

DrawdownWithinCeiling(d) == d # Infinity /\ d <= Ceiling

\* try_record and record_survivors: the drawdown is of the whole series.
TryRecord(ws) ==
  /\ Len(records) < MaxRecords
  /\ records' = IF Persists(FromWindows(ws)) /\ DrawdownWithinCeiling(MaxDrawdown(FlattenSeq(ws)))
                THEN Append(records, ws) ELSE records
  /\ UNCHANGED assessment

-----------------------------------------------------------------------------
(* Robustness to jitters; an assessment's fitnesses and trades are data.    *)

\* Retaining less than half of the base fitness is a collapse, also when the
\* base fitness is negative.
Collapsed(a, j) == j.trades < a.minTrades \/ j.fit = MinusInfinity \/ 2 * j.fit < a.base.fit

\* cell_reassignment_rate over the elite's niches, as reassigned and considered.
Reassigned(a) ==
  LET pairs == {<<k, dir>> \in (DOMAIN a.jitters) \X {1, 2} : a.base.cells[dir] # 0}
  IN  <<Cardinality({p \in pairs : a.jitters[p[1]].cells[p[2]] # a.base.cells[p[2]]}), Cardinality(pairs)>>

\* assess_robustness: at most a quarter collapse, at most one in twenty moves.
Passed(a) ==
  LET collapsed == Cardinality({k \in DOMAIN a.jitters : Collapsed(a, a.jitters[k])})
  IN  /\ a.base.trades >= a.minTrades
      /\ 4 * collapsed <= Len(a.jitters)
      /\ 20 * Reassigned(a)[1] <= Reassigned(a)[2]

-----------------------------------------------------------------------------
GateNext == \E ws \in Samples : TryRecord(ws)

\* Every recorded strategy was re-evaluated on enough windows, was wiped out in
\* none, reached the threshold in its worst window (for two windows and one
\* sigma that is what its lower bound is), and never fell further than the
\* ceiling below a peak, which may lie in an earlier window.
RecordsEarned ==
  \A k \in DOMAIN records :
    LET ws == records[k]
        all == FlattenSeq(ws)
    IN  /\ Len(ws) >= MinWindows
        /\ \A w \in Range(ws) : Wipe \notin Range(w) /\ 2 * Total(w) >= Threshold
        /\ \A i \in 0 .. Len(all) : \A j \in i .. Len(all) : Total(SubSeq(all, i + 1, j)) >= -Ceiling

\* An elite that passes the robustness check keeps its trades and its niches in
\* the large majority of its jitters, and is not a loser: when the base loses
\* money, a jitter that merely matches it counts as collapsed.
RobustElite ==
  Passed(assessment) /\ assessment.jitters # <<>> =>
    /\ assessment.base.trades >= assessment.minTrades
    /\ \/ assessment.base.fit >= 0
       \/ \E k \in DOMAIN assessment.jitters : assessment.jitters[k].fit > assessment.base.fit
    /\ \E k \in DOMAIN assessment.jitters : assessment.jitters[k].fit # MinusInfinity
=============================================================================
