----------------------------- MODULE MapElites ------------------------------
(***************************************************************************)
(* The quality-diversity search of a training run: the MAP-Elites archive  *)
(* of each direction (crates/wfo/src/mapelites.rs), the adaptive operator  *)
(* selection and its credit (operator.rs, thompson.rs), the driver's step  *)
(* (variation.rs), and what a train job takes from the archive             *)
(* (crates/cli/src/jobs/train.rs).                                         *)
(*                                                                         *)
(* A candidate is its niche in each direction (NoCell if it has none there;*)
(* Variation derives it), its complexity and its fitness, an integer; Ruin *)
(* is minus infinity.  Rewards are counted in units of 1 / RewardUnit.     *)
(***************************************************************************)
EXTENDS Integers, Sequences, FiniteSets, SequencesExt

CONSTANTS
  Niches,       \* cells of one direction
  NoNiche,
  NaN,          \* not a number
  Candidates,   \* records [name, long, short, mdl, fit]
  Ruin,         \* minus infinity: less than every other fitness
  SubpopSize,   \* SUBPOP_SIZE, elites kept per cell
  RecentWindow, \* rewards remembered per operator
  MaxPool,      \* MAX_POOL
  RewardUnit,   \* divisible by every fitness's magnitude
  MaxSteps

ASSUME ArchiveAssumption == SubpopSize \in Nat \ {0} /\ \A c \in Candidates : c.fit \in Int

VARIABLES
  archive,   \* archive[dir][cell]: the elites of a cell, in the order they were added
  recent,    \* recent[op]: the last rewards of an operator of the long driver
  niche,     \* niche[cell]: rewards counted and summed per niche
  steps,
  report     \* the long driver's last step: its cell until a niche has learnt it, outcome, reward
searchVars == <<archive, recent, niche, steps, report>>

Directions == {"long", "short"}
Operators == {"refine", "explore", "fresh"}
CellOf(c, dir) == IF dir = "long" THEN c.long ELSE c.short

-----------------------------------------------------------------------------
(* A cell.                                                                  *)

\* worst_index: the first of the least fit.
WorstIndex(s) ==
  CHOOSE i \in DOMAIN s : \A j \in DOMAIN s : s[i].fit < s[j].fit \/ (s[i].fit = s[j].fit /\ i <= j)

\* Mutant: a candidate that ties with the worst replaces it, and one that is
\* worse takes the place of the last.
ConsideredLast(s, c) == IF Len(s) < SubpopSize THEN Append(s, c) ELSE [s EXCEPT ![Len(s)] = c]

\* SubPopulation::consider
Considered(s, c) ==
  IF Len(s) < SubpopSize THEN Append(s, c)
  ELSE IF c.fit > s[WorstIndex(s)].fit THEN [s EXCEPT ![WorstIndex(s)] = c]
  ELSE s

OutcomeOf(s, c) ==
  IF s = <<>> THEN "NewCell"
  ELSE IF Len(s) < SubpopSize THEN "Added"
  ELSE IF c.fit > s[WorstIndex(s)].fit THEN "ImprovedElite" ELSE "Rejected"

\* MapElitesArchive::insert: each direction is considered on its own.
Inserted(a, c) ==
  [dir \in Directions |->
    [cell \in Niches |-> IF cell = CellOf(c, dir) THEN Considered(a[dir][cell], c) ELSE a[dir][cell]]]

Occupied(dir) == {cell \in Niches : archive[dir][cell] # <<>>}

\* neighbours: one band away on an ordered axis, or another family.
Neighbours(c) ==
  {d \in Niches : \/ d[1] = c[1] /\ d[2] \in {c[2] - 1, c[2] + 1} /\ d[3] = c[3]
                  \/ d[1] = c[1] /\ d[2] = c[2] /\ d[3] \in {c[3] - 1, c[3] + 1}
                  \/ d[1] # c[1] /\ d[2] = c[2] /\ d[3] = c[3]}

\* local_crowding; the novelty weight of a cell falls with it.
LocalCrowding(dir, cell) == Cardinality(Neighbours(cell) \intersect Occupied(dir))

-----------------------------------------------------------------------------
(* The driver.                                                              *)

\* sample_parent: any elite of any occupied cell of the direction.
Parents(dir) == UNION {Range(archive[dir][cell]) : cell \in Occupied(dir)}

\* A refinement stays in its parent's niches (Variation); the other operators,
\* and a refinement with no parent to refine, make any candidate.
Offspring(op, dir) ==
  IF op = "refine" /\ Parents(dir) # {}
  THEN {c \in Candidates : \E p \in Parents(dir) : c.long = p.long /\ c.short = p.short}
  ELSE Candidates

\* The worst fitness of a full cell, read before the insertion.
Displaced(dir, c) ==
  LET cell == CellOf(c, dir)
  IN  IF cell = NoNiche THEN NaN
      ELSE LET s == archive[dir][cell] IN IF Len(s) < SubpopSize THEN NaN ELSE s[WorstIndex(s)].fit

Magnitude(x) == IF x < 0 THEN -x ELSE x

\* Mutant: infinity over infinity is not clamped.
RewardOfRuin(outcome, f, w) ==
  IF outcome = "NewCell" THEN RewardUnit
  ELSE IF outcome # "ImprovedElite" THEN 0
  ELSE IF w = Ruin THEN NaN
  ELSE IF w # 0 THEN (RewardUnit * (f - w)) \div Magnitude(w) ELSE RewardUnit * (f - w)

\* ApplicationOutcome::reward, of the outcome and the gain over the displaced
\* elite: infinity over infinity is not a number, and max(0) makes it 0.
Reward(outcome, f, w) ==
  IF outcome = "NewCell" THEN RewardUnit
  ELSE IF outcome # "ImprovedElite" \/ w = Ruin THEN 0
  ELSE IF w # 0 THEN (RewardUnit * (f - w)) \div Magnitude(w) ELSE RewardUnit * (f - w)

\* OperatorSelector::record
Recorded(q, r) == IF Len(q) < RecentWindow THEN Append(q, r) ELSE Append(Tail(q), r)

\* VariationDriver::step of the long driver.  Every operator has a positive
\* weight, so any may be selected.
DriveLong(op) ==
  /\ steps < MaxSteps
  /\ \E c \in Offspring(op, "long") :
       LET cell    == c.long
           outcome == IF cell = NoNiche THEN "none" ELSE OutcomeOf(archive["long"][cell], c)
           reward  == Reward(outcome, c.fit, Displaced("long", c))
       IN  /\ archive' = Inserted(archive, c)
           /\ recent' = [recent EXCEPT ![op] = Recorded(@, reward)]
           /\ report' = [cell |-> cell, outcome |-> outcome, reward |-> reward]
  /\ steps' = steps + 1
  /\ UNCHANGED niche

\* The step of the short driver, whose selector is its own.
DriveShort(op) ==
  /\ steps < MaxSteps
  /\ \E c \in Offspring(op, "short") : archive' = Inserted(archive, c)
  /\ steps' = steps + 1
  /\ UNCHANGED <<recent, niche, report>>

\* ThompsonParentSelector::record, of the last step's outcome.
LearnNiche ==
  /\ report.cell # NoNiche
  /\ niche' = [niche EXCEPT ![report.cell] = [n |-> @.n + 1, sum |-> @.sum + report.reward]]
  /\ report' = [report EXCEPT !.cell = NoNiche]
  /\ UNCHANGED <<archive, recent, steps>>

MapElitesInit ==
  /\ archive = [dir \in Directions |-> [cell \in Niches |-> <<>>]]
  /\ recent = [op \in Operators |-> <<>>]
  /\ niche = [cell \in Niches |-> [n |-> 0, sum |-> 0]]
  /\ steps = 0
  /\ report = [cell |-> NoNiche, outcome |-> "none", reward |-> 0]

MapElitesNext == LearnNiche \/ \E op \in Operators : DriveLong(op) \/ DriveShort(op)

MapElitesSpec == MapElitesInit /\ [][MapElitesNext]_searchVars

-----------------------------------------------------------------------------
(* What the job takes from the archive.                                     *)

CellSeq == SetToSeq(Niches)
\* The elites in the order the job visits them: long before short, cell by cell.
AllElites == FlattenSeq([k \in 1 .. Len(CellSeq) |-> archive["long"][CellSeq[k]]])
             \o FlattenSeq([k \in 1 .. Len(CellSeq) |-> archive["short"][CellSeq[k]]])

\* archive_best
ArchiveBest == IF AllElites = <<>> THEN Ruin ELSE Max({e.fit : e \in Range(AllElites)} \union {Ruin})

\* elite_pool: distinct finite elites, fittest first, at most MAX_POOL.
ElitePool ==
  LET scored == FoldLeft(LAMBDA acc, e : IF e.fit = Ruin \/ e \in Range(acc) THEN acc ELSE Append(acc, e), <<>>, AllElites)
      before(i, j) == scored[i].fit > scored[j].fit \/ (scored[i].fit = scored[j].fit /\ i < j)
      rank(i) == 1 + Cardinality({j \in DOMAIN scored : before(j, i)})
      sorted == [k \in DOMAIN scored |-> scored[CHOOSE i \in DOMAIN scored : rank(i) = k]]
  IN  IF Len(sorted) > MaxPool THEN SubSeq(sorted, 1, MaxPool) ELSE sorted

\* parsimonious_equal: of the elites of the genome's niches with its fitness,
\* the simplest, the first of those that tie; ruined elites are all alike to
\* graduation_cmp, and the first is kept.
ParsimoniousEqual(g) ==
  LET cells == [dir \in Directions |-> IF CellOf(g, dir) = NoNiche THEN <<>> ELSE archive[dir][CellOf(g, dir)]]
      there == cells["long"] \o cells["short"]
      tied  == SelectSeq(there, LAMBDA e : e.fit = g.fit)
      better(e, best) == e.fit # Ruin /\ e.mdl < best.mdl
  IN  IF g \notin Range(there) THEN g
      ELSE FoldLeft(LAMBDA best, e : IF better(e, best) THEN e ELSE best, tied[1], tied)

-----------------------------------------------------------------------------
\* The archive keeps, in every cell, the best fitnesses that cell was ever
\* offered: a fit strategy is never lost to a worse one, in either direction,
\* whichever driver's step offers it.
SortedFitnesses(s) ==
  LET rank(i) == 1 + Cardinality({j \in DOMAIN s : s[j].fit > s[i].fit \/ (s[j].fit = s[i].fit /\ j < i)})
  IN  [k \in DOMAIN s |-> s[CHOOSE i \in DOMAIN s : rank(i) = k].fit]
Elites == INSTANCE TopK WITH
  kept <- [c \in Directions \X Niches |-> SortedFitnesses(archive[c[1]][c[2]])],
  Cells <- Directions \X Niches, Capacity <- SubpopSize, Fitnesses <- {c.fit : c \in Candidates}
\* The archive implements TopK: each cell keeps the best fitnesses it was offered
\* (insert, in mapelites.rs).
KeepsTheBest == Elites!TopKSpec

\* Credit is earned: no reward in a window or a niche's posterior is negative or
\* not a number, whatever was displaced (one would poison the operator's mean,
\* and every later selection would fall through to a fresh genome), each window
\* is bounded, and an operator is rewarded only for a step that opened a cell or
\* raised a full one; a niche has learnt only of a cell that is occupied.
CreditSound ==
  /\ \A op \in Operators :
       Len(recent[op]) <= RecentWindow /\ \A k \in DOMAIN recent[op] : recent[op][k] # NaN /\ recent[op][k] >= 0
  /\ report.reward # NaN /\ report.reward > 0 => report.outcome \in {"NewCell", "ImprovedElite"}
  /\ \A cell \in Niches : niche[cell].sum # 0 => niche[cell].n > 0 /\ archive["long"][cell] # <<>>

\* The pool the ensemble is searched in holds no ruined strategy and no genome
\* twice, although one genome may fill several cells of both directions; it is
\* the best of the archive, so the reported best fitness is the pool's.
PoolSound ==
  LET pool == ElitePool
      fit  == {e \in Range(AllElites) : e.fit # Ruin}
  IN  /\ IsInjective(pool) /\ Range(pool) \subseteq fit
      /\ Len(pool) = Min({MaxPool, Cardinality(fit)})
      /\ \A e \in fit \ Range(pool) : \A k \in DOMAIN pool : pool[k].fit >= e.fit
      /\ pool # <<>> => pool[1].fit = ArchiveBest

\* Swapping a genome selected from the pool for a simpler one never costs fitness
\* and never adds complexity (the ruined are not in the pool).
ParsimonyFree ==
  \A g \in Range(ElitePool) : ParsimoniousEqual(g).fit = g.fit /\ ParsimoniousEqual(g).mdl <= g.mdl

\* Crowding is mutual, so the novelty weights of a direction count every pair of
\* neighbouring occupied cells twice.
CrowdingMutual ==
  \A dir \in Directions : MapThenSumSet(LAMBDA c : LocalCrowding(dir, c), Occupied(dir)) % 2 = 0
=============================================================================
