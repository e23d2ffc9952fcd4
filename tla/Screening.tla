----------------------------- MODULE Screening ------------------------------
(***************************************************************************)
(* The screen an indicator or a formula passes before it is worth a place  *)
(* in a catalogue: rank correlation with forward returns in two folds, and *)
(* a false-discovery bound over all that were screened (qe-validation,     *)
(* ic.rs; a library part, no job calls it yet).                            *)
(*                                                                         *)
(* A correlation is kept as its signed square n/d, which is exact and      *)
(* ordered as it is.  A missing value is <<>>.  A p-value is in thousand-  *)
(* ths and any function that falls as the square of z grows.               *)
(***************************************************************************)
EXTENDS Integers, Sequences, FiniteSets, SequencesExt

CONSTANTS
  Screens,                \* signals, returns, folds and horizons to screen
  FdrQ,                   \* the level, in thousandths
  MinIcSq, RatioSq,       \* squares of the two bars, in hundredths
  PLevel(_, _)            \* two-sided p-value of a squared z, a quotient

VARIABLE screen
----------------------------------------------------------------------------
(* Rank correlation. *)

\* Twice the mean 0-based position of each value's tie group.
AverageRanks(xs) ==
  [i \in DOMAIN xs |-> 2 * Cardinality({j \in DOMAIN xs : xs[j] < xs[i]})
                         + Cardinality({j \in DOMAIN xs : xs[j] = xs[i]}) - 1]

RECURSIVE SumZ(_)
SumZ(s) == IF s = <<>> THEN 0 ELSE Head(s) + SumZ(Tail(s))
Pearson(a, b) ==
  LET n == Len(a)
      dot(u, v) == n * SumZ([i \in 1..n |-> u[i] * v[i]]) - SumZ(u) * SumZ(v)
      cov == dot(a, b)
      spread == dot(a, a) * dot(b, b)
  IN  IF n < 2 \/ spread = 0 THEN <<>> ELSE <<[n |-> (IF cov < 0 THEN -cov ELSE cov) * cov, d |-> spread]>>

\* The bars of a fold that are in range and have both values.
Gather(signal, forward, bars) ==
  SelectSeq(bars, LAMBDA i : i \in DOMAIN signal /\ i \in DOMAIN forward /\ signal[i] # <<>> /\ forward[i] # <<>>)
RankIc(xs, ys) == Pearson(AverageRanks(xs), AverageRanks(ys))
IcOn(signal, forward, bars) ==
  LET at == Gather(signal, forward, bars)
  IN  RankIc([k \in DOMAIN at |-> signal[at[k]][1]], [k \in DOMAIN at |-> forward[at[k]][1]])

ForwardReturns(net, horizon) ==
  [t \in DOMAIN net |-> IF horizon = 0 \/ t + horizon > Len(net) THEN <<>>
                        ELSE <<SumZ(SubSeq(net, t + 1, t + horizon))>>]

Size(ic) == IF ic = <<>> THEN [n |-> 0, d |-> 1] ELSE [ic[1] EXCEPT !.n = IF @ < 0 THEN -@ ELSE @]
Smaller(x, y) == x.n * y.d < y.n * x.d
SpearmanPvalue(ic, n) == IF ic = <<>> \/ n < 2 THEN 1000 ELSE PLevel(Size(ic).n * (n - 1), ic[1].d)

\* Everything ranked up to the last p-value that is within its share of the level.
BenjaminiHochberg(ps, q) ==
  LET order == SetToSortSeq(DOMAIN ps, LAMBDA i, j : ps[i] < ps[j] \/ (ps[i] = ps[j] /\ i < j))
      within(k) == ps[order[k]] * Len(ps) <= k * q
  IN  {order[k] : k \in {l \in DOMAIN ps : \E m \in l..Len(ps) : within(m)}}
----------------------------------------------------------------------------
(* The verdicts. *)

ReplicatedMagnitude(h) == IF Smaller(Size(h.b), Size(h.a)) THEN Size(h.b) ELSE Size(h.a)
FoldsSignConsistent(h) ==
  /\ h.a # <<>> /\ h.b # <<>>
  /\ h.a[1].n * h.b[1].n > 0
  /\ LET lo == ReplicatedMagnitude(h)
         hi == IF Smaller(Size(h.b), Size(h.a)) THEN Size(h.a) ELSE Size(h.b)
     IN  RatioSq * hi.n * lo.d <= 100 * lo.n * hi.d

\* One indicator: its folds at the first horizon of the greatest replicated
\* magnitude, and the p-value over both folds there.
Profile(signal, s) ==
  LET at(i) ==
        LET fwd == ForwardReturns(s.returns, s.horizons[i])
            both == s.foldA \o s.foldB
        IN  [index |-> i, a |-> IcOn(signal, fwd, s.foldA), b |-> IcOn(signal, fwd, s.foldB),
             p |-> SpearmanPvalue(IcOn(signal, fwd, both), Len(Gather(signal, fwd, both)))]
      Larger(h, g) == Smaller(ReplicatedMagnitude(g), ReplicatedMagnitude(h))
      Primary(rows) == CHOOSE h \in rows :
        \A g \in rows \ {h} : IF h.index < g.index THEN ~Larger(g, h) ELSE Larger(h, g)
  IN  IF s.horizons = <<>> THEN [index |-> 0, a |-> <<>>, b |-> <<>>, p |-> 1000]
      ELSE Primary({at(i) : i \in DOMAIN s.horizons})
ProfilesOf(s) == [i \in DOMAIN s.signals |-> Profile(s.signals[i], s)]

VerdictFor(h, passes) ==
  IF 100 * ReplicatedMagnitude(h).n < MinIcSq * ReplicatedMagnitude(h).d THEN "drop"
  ELSE IF FoldsSignConsistent(h) /\ passes THEN "admit" ELSE "flag"
Judged(profiles) ==
  LET passing == BenjaminiHochberg([i \in DOMAIN profiles |-> profiles[i].p], FdrQ)
  IN  [i \in DOMAIN profiles |-> VerdictFor(profiles[i], i \in passing)]
ScreenCatalogue(s) == Judged(<<>> \o ProfilesOf(s))
----------------------------------------------------------------------------
\* The discoveries are those of the step-up procedure as it is defined: all with
\* a p-value at most that of some hypothesis within its share of the level; ties
\* are discovered together although the code cuts a sorted list (ic.rs:71-97).
StepUpExact ==
  LET ps == <<>> \o [i \in DOMAIN screen.signals |-> Profile(screen.signals[i], screen).p]
      shared(p) == p * Len(ps) <= FdrQ * Cardinality({l \in DOMAIN ps : ps[l] <= p})
  IN  BenjaminiHochberg(ps, FdrQ) = {i \in DOMAIN ps : \E j \in DOMAIN ps : ps[i] <= ps[j] /\ shared(ps[j])}

\* A verdict is the indicator's, not its place's, and looks forward only: listing
\* the catalogue the other way round, turning every signal upside down, or changing
\* any return that does not follow a bar of a fold within a horizon, changes no
\* verdict (ic.rs:103-117, 247-368, 371-408).
VerdictOwn ==
  LET n == Len(screen.signals)
      folds == screen.foldA \o screen.foldB
      reach == {b \in DOMAIN screen.returns : \E i \in DOMAIN folds : \E h \in DOMAIN screen.horizons :
                  b - folds[i] \in 1..screen.horizons[h]}
      variant == [same |-> screen,
                  turned |-> [screen EXCEPT !.signals = [i \in 1..n |-> screen.signals[n + 1 - i]]],
                  upside |-> [screen EXCEPT !.signals = [i \in 1..n |-> [t \in DOMAIN screen.signals[i] |->
                                IF screen.signals[i][t] = <<>> THEN <<>> ELSE <<-screen.signals[i][t][1]>>]]],
                  elsewhere |-> [screen EXCEPT !.returns = [b \in DOMAIN screen.returns |->
                                   screen.returns[b] + IF b \in reach THEN 0 ELSE 7 * b]]]
      rulings == {<<k, ScreenCatalogue(variant[k])>> : k \in DOMAIN variant}
  IN  \A r, q \in rulings : \A i \in 1..n :
        r[2][IF r[1] = "turned" THEN n + 1 - i ELSE i] = q[2][IF q[1] = "turned" THEN n + 1 - i ELSE i]

\* What the screen owes a catalogue.
ScreenSound == StepUpExact /\ VerdictOwn
=============================================================================
