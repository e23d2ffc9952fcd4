------------------------------- MODULE Splits --------------------------------
(***************************************************************************)
(* How the research pipeline cuts a bar series: purged k-fold              *)
(* cross-validation (crates/wfo/src/cv.rs, cv_fitness.rs), walk-forward    *)
(* windows (walkforward.rs), the sub-windows of a return series            *)
(* (backtest.rs), the embargoed holdout (crates/gate/src/lib.rs) and the   *)
(* combinatorial purged paths (crates/validation/src/cpcv.rs, pbo.rs).     *)
(* Bars are numbered from 0; a range is its first bar and the bar after    *)
(* its last.                                                               *)
(***************************************************************************)
EXTENDS Integers, Sequences, FiniteSets, SequencesExt

CONSTANTS
  Cuts,       \* the arguments of one call, see CutsAssumption
  Tests,      \* percentile tests: floor, percentage q and the paths' values
  Matrices    \* block returns of some strategies

ASSUME CutsAssumption ==
  Cuts \subseteq [bars : Nat, folds : Nat, lookback : Nat, horizon : Nat, embargo : Nat,
                  mode : {"rolling", "anchored"}, train : Nat, validate : Nat, step : Nat]

VARIABLES
  cut,      \* the arguments of a split
  comb,     \* the odometer of combinations
  test,     \* the arguments of a path gate
  returns   \* returns[block][strategy], the matrix of pbo_cscv

-----------------------------------------------------------------------------
Monus(a, b) == IF a > b THEN a - b ELSE 0            \* saturating_sub
AtMost(a, b) == IF a < b THEN a ELSE b
AtLeast(a, b) == IF a < b THEN b ELSE a
BarsOf(r) == r.from .. r.to - 1
Apart(i, j) == IF i < j THEN j - i ELSE i - j        \* abs_diff

\* Block k of n bars cut into f blocks.
Block(n, f, k) == [from |-> (k * n) \div f, to |-> ((k + 1) * n) \div f]

\* purge
Purge(c) == c.lookback + c.horizon

\* The training bars left by some test ranges: none within the purge before
\* or the purge and embargo after any of them.
PurgedTrain(c, tests) ==
  {i \in 0 .. c.bars - 1 :
     \A r \in tests : i < Monus(r.from, Purge(c)) \/ i >= AtMost(r.to + Purge(c) + c.embargo, c.bars)}

\* fold_test_ranges: the blocks that are not empty.
FoldTests(c) == {r \in {Block(c.bars, AtLeast(c.folds, 1), k) : k \in 0 .. AtLeast(c.folds, 1) - 1} : r.from < r.to}

\* PurgedKFold::folds
Folds(c) == {[test |-> r, train |-> PurgedTrain(c, {r})] : r \in FoldTests(c)}

\* selection_kfold: at least two folds, an embargo of one lookback.
SelectionKFold(c) == [c EXCEPT !.folds = AtLeast(c.folds, 2), !.embargo = c.lookback]

\* windows_disjoint, of a test range and its training bars.
WindowsDisjoint(test1, train, span) == \A i \in train, j \in BarsOf(test1) : Apart(i, j) > span

-----------------------------------------------------------------------------
(* Walk-forward windows.                                                    *)

\* The w-th window.
WindowAt(c, w) ==
  LET origin == w * AtLeast(c.step, 1)
      start  == origin + c.train + Purge(c) + c.embargo
  IN  [train |-> [from |-> IF c.mode = "rolling" THEN origin ELSE 0, to |-> origin + c.train],
       validate |-> [from |-> start, to |-> start + c.validate]]

\* WalkForward::windows: as many as fit; none when a length is 0.
Windows(c) ==
  {w \in 0 .. c.bars : c.train # 0 /\ c.validate # 0 /\ WindowAt(c, w).validate.to <= c.bars}

-----------------------------------------------------------------------------
(* The holdout and the sub-windows.                                         *)

\* split_with_embargo
SplitWithEmbargo(n, holdout, embargo) ==
  LET start == Monus(n, holdout)
      gap   == Monus(start, embargo)
  IN  [train |-> [from |-> 0, to |-> gap], embargo |-> [from |-> gap, to |-> start],
       holdout |-> [from |-> start, to |-> n]]

\* split_windows: the first n % m windows are one longer.
SplitWindows(n, k) ==
  LET m == AtMost(AtLeast(k, 1), n)
      start(w) == w * (n \div m) + AtMost(w, n % m)
  IN  IF n = 0 THEN <<>> ELSE [w \in 1 .. m |-> [from |-> start(w - 1), to |-> start(w)]]

-----------------------------------------------------------------------------
(* Combinatorial purged cross-validation.                                   *)

\* The odometer of combinations: the rightmost index that can move.
Movable(c) == {i \in 1 .. c.k : c.idx[i] # i - 1 + c.n - c.k}

NextIndex(c) ==
  LET i == CHOOSE j \in Movable(c) : \A l \in Movable(c) : l <= j
  IN  [j \in 1 .. c.k |-> IF j < i THEN c.idx[j] ELSE c.idx[i] + 1 + (j - i)]

\* combinations(n, k): one more combination is pushed.
Combine ==
  /\ comb.idx # <<>>
  /\ comb' = [comb EXCEPT !.out = Append(@, comb.idx),
                          !.idx = IF Movable(comb) = {} THEN <<>> ELSE NextIndex(comb)]
  /\ UNCHANGED <<cut, test, returns>>

\* cpcv_paths, or the empty set for a refused argument.
CpcvPaths(c) ==
  IF c.folds < 2 \/ c.folds % 2 # 0 \/ c.bars < c.folds THEN {}
  ELSE LET tests(s) == {Block(c.bars, c.folds, b) : b \in s}
       IN  {[test |-> tests(s), train |-> PurgedTrain(c, tests(s))] :
              s \in {t \in SUBSET (0 .. c.folds - 1) : Cardinality(t) = c.folds \div 2}}

\* n_choose_k, by exact divisions.
NChooseK(n, k) ==
  LET m == AtMost(k, n - k)
      f[i \in 0 .. n] == IF i = 0 THEN 1 ELSE (f[i - 1] * (n - i + 1)) \div i
  IN  IF k > n THEN 0 ELSE f[m]
BalancedPartitionCount(b) == IF b < 2 \/ b % 2 # 0 THEN 0 ELSE NChooseK(b, b \div 2)

CpcvPathCount(b) == IF b < 2 \/ b % 2 # 0 THEN 0 ELSE NChooseK(b - 1, b \div 2 - 1)

-----------------------------------------------------------------------------
(* The path gate.                                                           *)

\* percentile, of values sorted ascending and q hundredths: a hundred times
\* the interpolated value.
Percentile(xs, q) ==
  LET pos == q * (Len(xs) - 1)
      lo  == pos \div 100
      hi  == (pos + 99) \div 100
  IN  IF xs = <<>> THEN 0 ELSE 100 * xs[lo + 1] + (xs[hi + 1] - xs[lo + 1]) * (pos % 100)

\* CpcvGate::passes
CpcvPasses(t) == Len(t.dsrs) >= t.minPaths /\ Percentile(t.dsrs, t.q) >= 100 * t.floor

-----------------------------------------------------------------------------
(* The probability of backtest overfitting.                                 *)

\* perf_per_strategy over some blocks; a performance is the blocks' return.
Performance(blocks, k) == MapThenSumSet(LAMBDA b : returns[b][k], blocks)

\* argmax: the first of the best.
ArgMax(blocks) ==
  LET best(k) == \A j \in DOMAIN returns[1] :
                   IF j < k THEN Performance(blocks, j) < Performance(blocks, k)
                   ELSE Performance(blocks, j) <= Performance(blocks, k)
  IN  CHOOSE k \in DOMAIN returns[1] : best(k)

\* One combination: the best in sample is at or below the median out of it.
Overfit(inSample) ==
  LET out  == DOMAIN returns \ inSample
      best == ArgMax(inSample)
      rank == 1 + Cardinality({k \in DOMAIN returns[1] : Performance(out, k) < Performance(out, best)})
  IN  2 * rank <= Len(returns[1]) + 1

\* pbo_cscv: the combinations, and those that are overfit.
Combinations == {c \in SUBSET DOMAIN returns : 2 * Cardinality(c) = Len(returns)}
PboCscv == {c \in Combinations : Overfit(c)}

-----------------------------------------------------------------------------
\* The odometer starts at the first combination of k of n.
CombInit ==
  LET n == cut.folds
      k == cut.train
  IN  comb = [n |-> n, k |-> k, idx |-> IF k = 0 \/ k > n THEN <<>> ELSE [i \in 1 .. k |-> i - 1], out |-> <<>>]

\* No bar a model is fitted on is within a lookback and a label horizon of a
\* bar it is tested on, in a purged fold, a walk-forward window or a
\* combinatorial path (whose test blocks lie on both sides of a training
\* block); and the bars after a test block are fitted on only past the embargo.
NoLeak ==
  /\ \A f \in Folds(cut) \union Folds(SelectionKFold(cut)) :
       /\ WindowsDisjoint(f.test, f.train, Purge(cut))
       /\ \A i \in f.train : i >= f.test.to => i - f.test.to >= Purge(cut)
  /\ \A w \in Windows(cut) :
       LET v == WindowAt(cut, w)
       IN  WindowsDisjoint(v.validate, BarsOf(v.train), Purge(cut) + cut.embargo)
  /\ \A p \in CpcvPaths(cut) : \A t \in p.test : WindowsDisjoint(t, p.train, Purge(cut))

\* Every bar is tested in exactly one fold: the blocks of folds and
\* fold_test_ranges cover a series whose length the fold count does not divide.
TestedOnce ==
  \A i \in 0 .. cut.bars - 1 : Cardinality({r \in FoldTests(cut) : i \in BarsOf(r)}) = 1

\* The windows that fit are the first ones, and each starts one step after the
\* one before it: WalkForward::run carries its archive forward over them in time
\* order, and never trains a rolling window on a bar it has not reached.
WindowsInOrder ==
  \A w \in Windows(cut) :
    /\ \A u \in 0 .. w : u \in Windows(cut)
    /\ LET v == WindowAt(cut, w)
       IN  /\ v.train.to <= v.validate.from /\ v.validate.to <= cut.bars
           /\ \A u \in Windows(cut) : u < w => WindowAt(cut, u).validate.from < v.validate.from

\* split_with_embargo cuts the series into training bars, embargo and holdout
\* with nothing lost or shared, however long the holdout; the holdout is as long
\* as was asked, and whatever is left to train on is a whole embargo before it.
HoldoutUntouched ==
  LET h == SplitWithEmbargo(cut.bars, cut.validate, cut.embargo)
  IN  /\ h.train.from = 0 /\ h.train.to = h.embargo.from /\ h.embargo.to = h.holdout.from /\ h.holdout.to = cut.bars
      /\ Cardinality(BarsOf(h.holdout)) = AtMost(cut.validate, cut.bars)
      /\ BarsOf(h.train) # {} => h.holdout.from - h.train.to >= cut.embargo

\* split_windows loses no return, counts none twice, returns no empty window and
\* none more than one longer than another.
SubWindowsExact ==
  LET s == SplitWindows(cut.bars, cut.folds)
  IN  /\ \A i \in 0 .. cut.bars - 1 : Cardinality({w \in DOMAIN s : i \in BarsOf(s[w])}) = 1
      /\ \A w \in DOMAIN s : \A v \in DOMAIN s :
           s[w].from < s[w].to /\ (s[w].to - s[w].from) - (s[v].to - s[v].from) <= 1

\* The odometer visits every combination once, in increasing order, and stops.
CombinationsExact ==
  /\ \A a \in DOMAIN comb.out : \A b \in DOMAIN comb.out : a # b => Range(comb.out[a]) # Range(comb.out[b])
  /\ comb.idx = <<>> /\ comb.k > 0 =>
       {Range(comb.out[a]) : a \in DOMAIN comb.out} =
       {s \in SUBSET (0 .. comb.n - 1) : Cardinality(s) = comb.k}

\* cpcv_paths returns one path per balanced choice of blocks, as many as
\* balanced_partition_count reports, and each block is tested in
\* cpcv_path_count of them.
PathsBalanced ==
  LET paths == CpcvPaths(cut)
  IN  paths # {} =>
        /\ Cardinality({p.test : p \in paths}) = BalancedPartitionCount(cut.folds)
        /\ \A b \in 0 .. cut.folds - 1 :
             Cardinality({p \in paths : Block(cut.bars, cut.folds, b) \in p.test}) = CpcvPathCount(cut.folds)

\* A candidate the path gate passes has at most the gate's percentile of its
\* paths, rounded up, below the floor; one whose paths are all at or above it
\* and that has enough of them is passed.
GateBoundsBadPaths ==
  LET below == Cardinality({i \in DOMAIN test.dsrs : test.dsrs[i] < test.floor})
  IN  /\ CpcvPasses(test) => Len(test.dsrs) >= test.minPaths /\ below <= (test.q * (Len(test.dsrs) - 1) + 99) \div 100
      /\ below = 0 /\ Len(test.dsrs) >= test.minPaths => CpcvPasses(test)

\* The overfitting probability fails closed: with one strategy, or strategies
\* nothing tells apart, every combination counts as overfit and the gate
\* refuses; a strategy strictly best in every block is never counted against.
PboFailsClosed ==
  /\ (\A b \in DOMAIN returns : \A k \in DOMAIN returns[b] : returns[b][k] = returns[b][1]) => PboCscv = Combinations
  /\ (Len(returns[1]) > 1 /\ \E k \in DOMAIN returns[1] :
        \A b \in DOMAIN returns : \A j \in DOMAIN returns[b] \ {k} : returns[b][j] < returns[b][k]) => PboCscv = {}

\* What cv.rs, walkforward.rs, cpcv.rs and pbo.rs owe the verdict: no bar is
\* both learnt from and tested on, none is left out, and the overfitting tests
\* err on the side of refusing.
SplitsSound ==
  /\ NoLeak /\ TestedOnce /\ WindowsInOrder /\ HoldoutUntouched /\ SubWindowsExact
  /\ CombinationsExact /\ PathsBalanced /\ GateBoundsBadPaths /\ PboFailsClosed
=============================================================================
