------------------------------- MODULE Genome -------------------------------
(***************************************************************************)
(* The chromosome every strategy is made of (crates/signal/src/genome.rs): *)
(* two rule sets over quantised features, an exit rule and a size.         *)
(*                                                                         *)
(* A feature vector is a function from 0 .. n-1 to a state index, or       *)
(* Missing while the feature warms up.  Strengths are exact fractions,     *)
(* written as <<numerator, denominator>>.                                  *)
(***************************************************************************)
EXTENDS Integers, Sequences, FiniteSets, SequencesExt

Missing == -1
MaxSizeBps == 10000      \* MAX_SIZE_BPS

Clamped(x, lo, hi) == Min({Max({x, lo}), hi})

\* Sums(s)[n] is the sum of the first n numbers of s: a function, so that it can
\* be reasoned about.
Sums(s) == LET upTo[i \in 0 .. Len(s)] == IF i = 0 THEN 0 ELSE upTo[i - 1] + s[i] IN upTo
SumOf(s) == Sums(s)[Len(s)]

-----------------------------------------------------------------------------
Satisfied(c, features) ==
  /\ c.enabled
  /\ c.feature \in DOMAIN features
  /\ features[c.feature] # Missing
  /\ c.lo <= features[c.feature] /\ features[c.feature] <= c.hi

Active(set) == {i \in DOMAIN set.clauses : set.clauses[i].enabled}

Fires(set, features) ==
  LET active == Cardinality(Active(set))
      met    == Cardinality({i \in DOMAIN set.clauses : Satisfied(set.clauses[i], features)})
  IN  active > 0 /\ met >= Clamped(set.min, 1, active)

\* How deep inside its band a clause's feature is, and the most it could be.
Depth(c, features) ==
  IF Satisfied(c, features)
  THEN 1 + Min({features[c.feature] - c.lo, c.hi - features[c.feature]})
  ELSE 0
FullDepth(c) == IF c.enabled THEN 1 + Max({c.hi - c.lo, 0}) \div 2 ELSE 0

GradedConviction(set, features) ==
  LET num == SumOf([i \in DOMAIN set.clauses |-> Depth(set.clauses[i], features)])
      den == SumOf([i \in DOMAIN set.clauses |-> FullDepth(set.clauses[i])])
  IN  IF den = 0 THEN <<0, 1>> ELSE <<num, den>>

\* floor + (1 - floor) * conviction with a floor of one half
EntryStrength(g, features, dir) ==
  LET c == GradedConviction(IF dir = "long" THEN g.long ELSE g.short, features)
  IN  <<c[2] + c[1], 2 * c[2]>>

-----------------------------------------------------------------------------
Flat == [dir |-> "none", held |-> 0]
Held(dir, n) == [dir |-> dir, held |-> n]

Decide(g, features, pos) ==
  LET long  == Fires(g.long, features)
      short == Fires(g.short, features)
  IN  IF pos.dir = "none"
      THEN IF long = short THEN "hold" ELSE IF long THEN "long" ELSE "short"
      ELSE IF \/ pos.held >= g.maxHolding
              \/ g.exitOnOpposite /\ (IF pos.dir = "long" THEN short ELSE long)
           THEN "exit" ELSE "hold"

Advance(pos, decision) ==
  CASE decision \in {"long", "short"} -> Held(decision, 0)
    [] decision = "exit" -> Flat
    [] decision = "hold" -> IF pos.dir = "none" THEN Flat ELSE Held(pos.dir, pos.held + 1)

-----------------------------------------------------------------------------
\* `len` features of `states` states each: the schema a genome is written for.
ClauseValid(c, len, states) == c.feature < len /\ c.hi < states /\ c.lo <= c.hi

IsValid(g, len, states) ==
  /\ g.size \in 1 .. MaxSizeBps
  /\ g.maxHolding # 0
  /\ \A set \in {g.long, g.short} :
       /\ set.min \in 1 .. Len(set.clauses)
       /\ len = 0 \/ \A c \in Range(set.clauses) : ClauseValid(c, len, states)

RepairClause(c, len, states) ==
  LET hi == Min({c.hi, Max({states - 1, 0})})
  IN  [c EXCEPT !.feature = Min({@, len - 1}), !.hi = hi, !.lo = Min({@, hi})]

RepairSet(set, len, states) ==
  [clauses |-> IF len = 0 THEN set.clauses
               ELSE [i \in DOMAIN set.clauses |-> RepairClause(set.clauses[i], len, states)],
   min     |-> Clamped(set.min, 1, Len(set.clauses))]

Repair(g, len, states) ==
  [g EXCEPT !.size = Clamped(@, 1, MaxSizeBps), !.maxHolding = Max({@, 1}),
            !.long = RepairSet(@, len, states), !.short = RepairSet(@, len, states)]

ReferencedFeatures(g) ==
  UNION {{set.clauses[i].feature : i \in Active(set)} : set \in {g.long, g.short}}

MdlComplexity(g) ==
  Cardinality(Active(g.long)) + Cardinality(Active(g.short)) + Cardinality(ReferencedFeatures(g))
=============================================================================
