----------------------------- MODULE Variation ------------------------------
(***************************************************************************)
(* How the search makes a genome from a genome: the behaviour descriptor   *)
(* (crates/wfo/src/archive.rs), the variation operators (variation.rs) and *)
(* the jitters of the robustness check (robustness.rs).  A draw of the     *)
(* random generator is any value it can return.                            *)
(***************************************************************************)
EXTENDS Genome

CONSTANTS
  Family,       \* Family[f]: the family of feature f, 1 .. 5, or 0 if unclassified
  Lookback,     \* Lookback[f]
  States,       \* num_states of the schema
  Allowed,      \* the steered features; empty when the run is not steered
  Seeds,        \* parents
  HoldDraws,    \* draws of a holding period, 1 .. 240 in the code
  SizeDraws,    \* draws of a size, 1 .. MAX_SIZE_BPS in the code
  JitterSize    \* draws of a size nudge, -500 .. 500 in the code

VARIABLE birth   \* a parent, the operator applied and the child

LocalSizeStep == 500    \* LOCAL_SIZE_STEP
SchemaWidth == Cardinality(DOMAIN Family)
NoCell == <<>>

-----------------------------------------------------------------------------
(* The descriptor of one direction.                                        *)

TimescaleOf(lookback) == IF lookback <= 14 THEN 1 ELSE IF lookback <= 28 THEN 2 ELSE 3
HoldingOf(bars) == IF bars <= 6 THEN 1 ELSE IF bars <= 48 THEN 2 ELSE 3

\* The clauses that place a bank: enabled, on a feature of a known family.
Placing(set) ==
  {i \in Active(set) : set.clauses[i].feature \in DOMAIN Family /\ Family[set.clauses[i].feature] # 0}

CountOf(set, f) == Cardinality({i \in Placing(set) : Family[set.clauses[i].feature] = f})

\* descriptor_for: the most frequent family, the first of those that tie.
DescriptorFor(g, dir) ==
  LET set == IF dir = "long" THEN g.long ELSE g.short
      dominant == CHOOSE f \in 1 .. 5 : \A h \in 1 .. 5 :
                    CountOf(set, h) < CountOf(set, f) \/ (CountOf(set, h) = CountOf(set, f) /\ f <= h)
  IN  IF Placing(set) = {} THEN NoCell
      ELSE <<dominant, TimescaleOf(Max({Lookback[set.clauses[i].feature] : i \in Placing(set)})), HoldingOf(g.maxHolding)>>

-----------------------------------------------------------------------------
(* Draws.                                                                   *)

\* random_band: two draws, in order.
RandomBand == {b \in (0 .. Max({States, 1}) - 1) \X (0 .. Max({States, 1}) - 1) : b[1] <= b[2]}

\* pick_feature
PickFeature == IF Allowed = {} THEN 0 .. Max({SchemaWidth, 1}) - 1 ELSE Allowed

RandomClause(enabled) ==
  {[enabled |-> e, feature |-> f, lo |-> b[1], hi |-> b[2]] : e \in enabled, f \in PickFeature, b \in RandomBand}

\* random_bank, of n clauses: the first is always enabled.
RandomBank(n) ==
  {[clauses |-> c, min |-> m] : m \in 1 .. n,
     c \in {d \in [1 .. n -> RandomClause(BOOLEAN)] : d[1].enabled}}

Repaired(g) == Repair(g, SchemaWidth, States)

\* fresh_random_masked
FreshRandom(n) ==
  {Repaired([long |-> l, short |-> s, maxHolding |-> h, exitOnOpposite |-> x, size |-> z]) :
     l \in RandomBank(n), s \in RandomBank(n), h \in HoldDraws, x \in BOOLEAN, z \in SizeDraws}

-----------------------------------------------------------------------------
(* local_refine: one bound of one enabled clause of each bank, and the size. *)

Tightened(c) ==
  {[c EXCEPT !.lo = Min({@ + 1, c.hi})], [c EXCEPT !.lo = Max({@ - 1, 0})],
   [c EXCEPT !.hi = Min({@ + 1, Max({States - 1, 0})})], [c EXCEPT !.hi = Max({@ - 1, c.lo, 0})]}

RefinedBank(set) ==
  IF Active(set) = {} THEN {set}
  ELSE UNION {{[set EXCEPT !.clauses[i] = c] : c \in Tightened(set.clauses[i])} : i \in Active(set)}

LocalRefine(g) ==
  {Repaired([g EXCEPT !.long = l, !.short = s, !.size = z]) :
     l \in RefinedBank(g.long), s \in RefinedBank(g.short),
     z \in {g.size + LocalSizeStep, Max({g.size - LocalSizeStep, 0})}}

(* explore_masked: a fresh clause in each bank, another switched, a holding.  *)

ExploredBank(set) ==
  UNION {{[set EXCEPT !.clauses = [i \in DOMAIN set.clauses |->
             IF i = k THEN c ELSE IF i = j THEN [set.clauses[i] EXCEPT !.enabled = e] ELSE set.clauses[i]]] :
            c \in RandomClause({TRUE}), e \in BOOLEAN} :
         <<k, j>> \in (DOMAIN set.clauses) \X (DOMAIN set.clauses)}

Explore(g) ==
  {Repaired([g EXCEPT !.long = l, !.short = s, !.maxHolding = h]) :
     l \in ExploredBank(g.long), s \in ExploredBank(g.short), h \in HoldDraws}

(* jitter: every bound of every enabled clause, the holding and the size.     *)

Nudged(v, eps) == {Max({v + d, 0}) : d \in -eps .. eps}

JitteredClause(c) ==
  IF ~c.enabled THEN {c} ELSE {[c EXCEPT !.lo = a, !.hi = b] : a \in Nudged(c.lo, 1), b \in Nudged(c.hi, 1)}

JitteredBank(set) ==
  {[set EXCEPT !.clauses = c] :
     c \in {d \in [DOMAIN set.clauses -> UNION {JitteredClause(set.clauses[i]) : i \in DOMAIN set.clauses}] :
              \A i \in DOMAIN set.clauses : d[i] \in JitteredClause(set.clauses[i])}}

Jitter(g) ==
  {Repaired([g EXCEPT !.long = l, !.short = s, !.maxHolding = h, !.size = z]) :
     l \in JitteredBank(g.long), s \in JitteredBank(g.short), h \in Nudged(g.maxHolding, 2),
     z \in {Max({g.size + d, 0}) : d \in JitterSize}}

-----------------------------------------------------------------------------
Unborn == "none"
VariationInit == birth \in {[parent |-> Repaired(g), op |-> Unborn, child |-> Repaired(g)] : g \in Seeds}

Refine  == \E c \in LocalRefine(birth.parent) : birth' = [birth EXCEPT !.op = "refine", !.child = c]
Explored == \E c \in Explore(birth.parent) : birth' = [birth EXCEPT !.op = "explore", !.child = c]
Jittered == \E c \in Jitter(birth.parent) : birth' = [birth EXCEPT !.op = "jitter", !.child = c]
Freshly == \E c \in FreshRandom(1) : birth' = [birth EXCEPT !.op = "fresh", !.child = c]

VariationNext == birth.op = Unborn /\ (Refine \/ Explored \/ Jittered \/ Freshly)

FamilyAndTimescale(cell) == IF cell = NoCell THEN NoCell ELSE <<cell[1], cell[2]>>
Features(g) == UNION {{set.clauses[i].feature : i \in DOMAIN set.clauses} : set \in {g.long, g.short}}

\* Whatever an operator draws, the child is a valid genome of the schema; a
\* refinement stays in both niches of its parent and keeps its complexity, which
\* the driver's credit relies on; a jitter moves a genome only along the holding
\* axis; and in a steered run no operator introduces a feature outside the mask,
\* not even in a clause that is switched off and a later step may switch on.
OffspringSound ==
  LET c == birth.child
      p == birth.parent
  IN  /\ IsValid(c, SchemaWidth, States)
      /\ birth.op = "refine" =>
           (\A dir \in {"long", "short"} : DescriptorFor(c, dir) = DescriptorFor(p, dir)) /\ MdlComplexity(c) = MdlComplexity(p)
      /\ birth.op = "jitter" =>
           \A dir \in {"long", "short"} : FamilyAndTimescale(DescriptorFor(c, dir)) = FamilyAndTimescale(DescriptorFor(p, dir))
      /\ Allowed # {} => Features(c) \subseteq Allowed \union Features(p)
=============================================================================
