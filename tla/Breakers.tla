------------------------------ MODULE Breakers ------------------------------
(***************************************************************************)
(* The circuit breakers: one per strategy and one for the ensemble         *)
(* (crates/risk/src/breaker.rs), the layer that latches their trips and    *)
(* rewrites decisions (crates/hedger/src/live_breakers.rs), the peaks a    *)
(* cold start seeds them with (crates/hedger/src/boot_state.rs) and the    *)
(* thresholds calibrated from a backtest (crates/risk/src/calibration.rs). *)
(*                                                                         *)
(* Equity is an integer; a threshold is an integer number of hundredths,   *)
(* and a quotient is compared by multiplying out, so nothing is rounded    *)
(* before calibration rounds it.  Index 0 is the ensemble's breaker.       *)
(***************************************************************************)
EXTENDS Integers, Sequences, FiniteSets, SequencesExt

CONSTANTS
  None,         \* the absence of a value
  Strategies,   \* 1 .. n
  Calibrated,   \* the profile's thresholds for the strategies it knows
  EnsembleFast, \* the profile's ensemble_fast_drop
  FastWindow,   \* fast_window
  Paths,        \* the equity paths a cold start may find per strategy
  Equities,     \* equities a tick may report
  Margin,       \* the calibration margin, in tenths
  MaxTicks,     \* bound: equity observations
  MaxResets     \* bound: resets

ASSUME TierAssumption == None \notin {"fast", "med", "slow"}

Hundred == 100
Layer == {0} \union Strategies

VARIABLES
  breaker,   \* per index: thresholds, peak, seed_peak, recent
  gated,     \* the indices whose gate is shut (strategy_gated, ensemble_gated)
  pre,       \* pre_gated: the strategies calibration does not know
  ticks, resets,
  high,      \* history: the highest equity each breaker answers for
  lastSeen,  \* history: the last equity observed since the last reset
  trail      \* history: the equities the ensemble's breaker observed

bvars == <<breaker, gated, pre, ticks, resets, high, lastSeen, trail>>

-----------------------------------------------------------------------------
(* One breaker.                                                            *)

NewBreaker(th) == [th |-> th, peak |-> None, seed |-> None, recent |-> <<>>]

SeedPeak(b, p) == [b EXCEPT !.seed = p, !.peak = p]

ResetBreaker(b) ==
  [b EXCEPT !.recent = <<>>,
            !.seed = IF @ # None THEN b.peak ELSE None,
            !.peak = IF b.seed # None THEN @ ELSE None]

Higher(p, e) == IF p = None THEN e ELSE Max({p, e})

LastN(s, n) == SubSeq(s, Max({1, Len(s) - n + 1}), Len(s))

\* (top - e) / top >= t/100, where a top that is not positive counts as no loss
Fallen(top, e, t) == IF top > 0 THEN (top - e) * Hundred >= t * top ELSE 0 >= t

Push(b, e) ==
  [b EXCEPT !.recent = LastN(Append(@, e), Max({FastWindow, 1}) + 1),
            !.peak = Higher(@, e)]

\* The tier that `observe` answers, once e is pushed.
Tier(b, e) ==
  IF b.th.fast > 0 /\ Fallen(Max(Range(b.recent)), e, b.th.fast) THEN "fast"
  ELSE IF Fallen(b.peak, e, b.th.med) THEN "med"
  ELSE IF Fallen(b.peak, e, b.th.slow) THEN "slow" ELSE None

\* replay: the ticks of an equity path at which a fresh breaker trips.
ReplayTrips(th, path) ==
  LET after(n) == FoldLeft(Push, NewBreaker(th), SubSeq(path, 1, n))
  IN  {<<n, Tier(after(n), path[n])>> : n \in {k \in 1 .. Len(path) : Tier(after(k), path[k]) # None}}

-----------------------------------------------------------------------------
(* Calibration.  A drop is <<lost, top>>, standing for lost / top.         *)

PeakUpTo(path, n) == Max({0} \union {path[k] : k \in 1 .. n})

DropFrom(top, e) == IF top > 0 THEN <<Max({top - e, 0}), top>> ELSE <<0, 1>>

DrawdownDistribution(path) == [n \in 1 .. Len(path) |-> DropFrom(PeakUpTo(path, n), path[n])]

FastDropDistribution(path) ==
  [n \in 1 .. Len(path) |->
     DropFrom(Max({path[k] : k \in Max({1, n - Max({FastWindow, 1})}) .. n}), path[n])]

SmallerDrop(a, b) == a[1] * b[2] <= b[1] * a[2]

\* The drop at a quantile of q/20 of the sorted distribution, times a margin
\* of m/10, clamped to [0, 1] and rounded down to hundredths.
CalibrateThreshold(drops, q, m) ==
  IF drops = <<>> THEN 0
  ELSE LET order == SortSeq(drops, SmallerDrop)
           idx   == (2 * q * (Len(drops) - 1) + 20) \div 40
           base  == order[Min({idx, Len(drops) - 1}) + 1]
       IN  Min({Hundred, (base[1] * m * Hundred) \div (base[2] * 10)})

CalibrateThresholds(path, margin) ==
  LET dd   == DrawdownDistribution(path)
      slow == CalibrateThreshold(dd, 15, margin)
      med  == CalibrateThreshold(dd, 19, margin)
  IN  [slow |-> slow, med |-> Max({med, slow}),
       fast |-> CalibrateThreshold(FastDropDistribution(path), 19, margin)]

-----------------------------------------------------------------------------
(* The layer.                                                              *)

FiresImmediately == [slow |-> 0, med |-> 0, fast |-> 0]
EnsembleThresholds == [slow |-> Hundred, med |-> Hundred, fast |-> EnsembleFast]
Thresholds(i) ==
  IF i = 0 THEN EnsembleThresholds
  ELSE IF i \in DOMAIN Calibrated THEN Calibrated[i] ELSE FiresImmediately

Uncalibrated == Strategies \ DOMAIN Calibrated

\* CommittedPeak::from_series, and the sum over the strategies that have one.
CommittedPeak(path) == IF path = <<>> THEN None ELSE Max(Range(path))
WithPeak(paths) == {i \in Strategies : CommittedPeak(paths[i]) # None}
AggregateCommittedPeak(paths) ==
  IF WithPeak(paths) = {} THEN None
  ELSE MapThenSumSet(LAMBDA i : CommittedPeak(paths[i]), WithPeak(paths))

SeedFor(paths, i) == IF i = 0 THEN AggregateCommittedPeak(paths) ELSE CommittedPeak(paths[i])

SeedCommittedPeaks(paths, i) ==
  LET b == NewBreaker(Thresholds(i))
  IN  IF SeedFor(paths, i) = None THEN b ELSE SeedPeak(b, SeedFor(paths, i))

\* from_calibration followed by seed_committed_peaks, as from_reconstructed_calibrated does.
LayerFromCalibration(paths) ==
  /\ breaker' = [i \in Layer |-> SeedCommittedPeaks(paths, i)]
  /\ pre' = Uncalibrated
  /\ gated' = Uncalibrated
  /\ high' = [i \in Layer |-> SeedFor(paths, i)]
  /\ lastSeen' = [i \in Layer |-> None]
  /\ trail' = <<>>

\* Mutant: a tick without a trip opens the gate.
ObserveUnlatched(i, e) ==
  LET b == Push(breaker[i], e)
  IN  /\ breaker' = [breaker EXCEPT ![i] = b]
      /\ gated' = IF Tier(b, e) # None THEN gated \union {i} ELSE gated \ {i}
      /\ high' = [high EXCEPT ![i] = Higher(@, e)]
      /\ lastSeen' = [lastSeen EXCEPT ![i] = e]
      /\ trail' = trail
      /\ ticks' = ticks + 1
      /\ UNCHANGED <<pre, resets>>

\* observe_strategy and observe_ensemble
Observe(i, e) ==
  LET b == Push(breaker[i], e)
  IN  /\ breaker' = [breaker EXCEPT ![i] = b]
      /\ gated' = IF Tier(b, e) # None THEN gated \union {i} ELSE gated
      /\ high' = [high EXCEPT ![i] = Higher(@, e)]
      /\ lastSeen' = [lastSeen EXCEPT ![i] = e]
      /\ trail' = IF i = 0 THEN Append(trail, e) ELSE trail
      /\ ticks' = ticks + 1
      /\ UNCHANGED <<pre, resets>>

IsGated(i) == 0 \in gated \/ i \in gated

ClampDecisions(decisions) == [i \in DOMAIN decisions |-> IF IsGated(i) THEN "exit" ELSE decisions[i]]

\* Mutant: a reset opens every gate.
ResetLayerOpens ==
  /\ resets < MaxResets
  /\ breaker' = [i \in Layer |-> ResetBreaker(breaker[i])]
  /\ gated' = {}
  /\ resets' = resets + 1
  /\ UNCHANGED <<pre, ticks, trail, high, lastSeen>>

ResetLayer ==
  /\ resets < MaxResets
  /\ breaker' = [i \in Layer |-> ResetBreaker(breaker[i])]
  /\ gated' = pre
  /\ high' = [i \in Layer |-> IF breaker[i].seed = None THEN None ELSE high[i]]
  /\ lastSeen' = [i \in Layer |-> None]
  /\ resets' = resets + 1
  /\ UNCHANGED <<pre, ticks, trail>>

-----------------------------------------------------------------------------
LayerInit ==
  \E paths \in [Strategies -> Paths] :
    /\ breaker = [i \in Layer |-> SeedCommittedPeaks(paths, i)]
    /\ pre = Uncalibrated /\ gated = Uncalibrated
    /\ ticks = 0 /\ resets = 0
    /\ high = [i \in Layer |-> SeedFor(paths, i)]
    /\ lastSeen = [i \in Layer |-> None] /\ trail = <<>>

\* Before a cutover has built its layer.
NoLayer ==
  /\ breaker = [i \in Layer |-> NewBreaker(Thresholds(i))]
  /\ gated = {} /\ pre = {} /\ ticks = 0 /\ resets = 0
  /\ high = [i \in Layer |-> None] /\ lastSeen = [i \in Layer |-> None] /\ trail = <<>>

LayerNext ==
  \/ ticks < MaxTicks /\ \E i \in Layer, e \in Equities : Observe(i, e)
  \/ ResetLayer

LayerSpec == LayerInit /\ [][LayerNext]_bvars

-----------------------------------------------------------------------------
(* Properties.                                                             *)

\* A strategy that calibration does not know never trades: its gate is shut
\* from the first bar on and a reset does not open it (live_breakers.rs).
UncalibratedStaysGated == pre \subseteq gated

\* A breaker answers for the highest equity of the backtest and of every tick
\* since: a reset may forget it only where no peak was ever committed.
PeakRemembered == \A i \in Layer : breaker[i].peak = high[i]

\* When the last equity a strategy reported is as far below its highest as its
\* slow threshold, its gate is shut, whatever happened before; the ensemble's
\* slow threshold is the whole of its equity.
LossIsGated ==
  \A i \in Layer :
    (lastSeen[i] # None /\ Fallen(high[i], lastSeen[i], Thresholds(i).slow)) => i \in gated

\* What the live breaker sees of an equity path is what calibration saw of it:
\* the ticks at which a fresh breaker with the calibrated thresholds trips are
\* those the two distributions put over them; and the thresholds are ordered.
CalibrationParity ==
  LET th   == CalibrateThresholds(trail, Margin)
      dd   == DrawdownDistribution(trail)
      fast == FastDropDistribution(trail)
      over(d, t) == d[1] * Hundred >= t * d[2]
      tier(n) == IF th.fast > 0 /\ over(fast[n], th.fast) THEN "fast"
                 ELSE IF over(dd[n], th.med) THEN "med"
                 ELSE IF over(dd[n], th.slow) THEN "slow" ELSE None
  IN  /\ ReplayTrips(th, trail) = {<<n, tier(n)>> : n \in {k \in DOMAIN trail : tier(k) # None}}
      /\ th.slow <= th.med /\ {th.slow, th.med, th.fast} \subseteq 0 .. Hundred

\* What live_breakers.rs and breaker.rs owe: no strategy is let through
\* uncalibrated, no loss past its threshold goes unseen, and none is forgotten.
BreakersSound == UncalibratedStaysGated /\ PeakRemembered /\ LossIsGated
=============================================================================
