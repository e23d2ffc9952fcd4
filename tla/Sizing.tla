------------------------------- MODULE Sizing -------------------------------
(***************************************************************************)
(* From positions to an order: the netter and the leverage cap (crates/    *)
(* hedger/src/live_netter.rs, crates/risk/src/sizer.rs), the planner that  *)
(* turns a net weight into a notional (hedger.rs) and the pre-trade        *)
(* governor (pretrade.rs, crates/risk/src/limit.rs); and the shadow gate   *)
(* that runs the same revisions without sending them (crates/edge/src/     *)
(* shadow.rs).                                                             *)
(*                                                                         *)
(* A target is a record of numerators over one positive denominator, so    *)
(* every comparison is exact.  Fractions are in hundredths.                *)
(***************************************************************************)
EXTENDS Genome

CONSTANTS
  Unset,       \* a limit that is not configured, a value not there yet
  Legs,        \* the vintage's chromosomes: [weight (tenths), size (thousands of bps)]
  Multipliers, \* the sizer's raw multipliers, in halves
  Caps,        \* leverage_cap: an integer, or Unset
  Limits,      \* RiskLimits: records of integers or Unset
  Margins,     \* available_margin
  Accounts,    \* equity
  Advs,        \* adv: an integer or Unset
  Mmr,         \* maintenance_margin_rate, in hundredths
  RevTargets, Marks, ShadowTolerance,
  MaxRevisions \* bound: revisions and mark changes the shadow gate sees

\* Sealed weights, leverages and fractions are not negative.  A cap on a notional
\* is a plain Decimal (limit.rs): a negative one would turn an order round, and
\* is left out.
ASSUME SizingAssumption ==
  /\ Unset \notin Int
  /\ Legs \in Seq([weight : Nat, size : Nat])
  /\ Multipliers \subseteq Int /\ Caps \subseteq Int \union {Unset}
  /\ Accounts \subseteq Int /\ Margins \subseteq Int /\ Advs \subseteq Int \union {Unset} /\ Mmr \in Nat
  /\ \A l \in Limits :
       /\ {l.notional, l.leverage, l.floor, l.ceiling, l.participation} \subseteq Nat \union {Unset}
       /\ {l.gross, l.net} \subseteq Int \union {Unset}
  /\ RevTargets \subseteq Int /\ Marks \subseteq Nat \ {0} /\ Marks # {} /\ ShadowTolerance \in Nat

Mag(x) == IF x < 0 THEN -x ELSE x

VARIABLES
  stage,     \* net, plan, check, done
  book,      \* the positions, the sizer and the cap
  target,    \* NetTarget, then TargetPosition
  capital,   \* the capital and the limits the governor is given
  verdict,   \* [kind: send, reject, halt; notional over target.den]
  shadowQty, simQty, shadowMark, simMark,
  reconciled, maxDivergence,
  revisions, \* bounded counter
  sameMarks  \* history: both sides saw equal marks at every revision

deskVars   == <<stage, book, target, capital, verdict>>
shadowVars == <<shadowQty, simQty, shadowMark, simMark, reconciled, maxDivergence, revisions, sameMarks>>
svars      == <<deskVars, shadowVars>>

-----------------------------------------------------------------------------
(* Netting.                                                                *)

\* weight * size_bps / 10000, over a denominator of 10 * 10
Magnitude(i) == Legs[i].weight * Legs[i].size
Side(dirs, d) == SumOf([i \in DOMAIN Legs |-> IF dirs[i] = d THEN Magnitude(i) ELSE 0])

NetPositions(dirs) ==
  [net |-> Side(dirs, "long") - Side(dirs, "short"),
   long |-> Side(dirs, "long"), short |-> Side(dirs, "short"), den |-> 100]

Scaled(t, num, den) ==
  [net |-> t.net * num, long |-> t.long * num, short |-> t.short * num, den |-> t.den * den]

\* PortfolioSizer::new refuses a negative multiplier by using zero.
Multiplier(raw) == Max({raw, 0})

ApplySizer(base, raw, cap) ==
  LET sized == Scaled(base, Multiplier(raw), 2)
      c     == Max({cap, 0})
  IN  IF cap # Unset /\ Mag(sized.net) > c * sized.den
      THEN Scaled(sized, c * sized.den, Mag(sized.net))
      ELSE sized

Net ==
  /\ stage = "net"
  /\ target' = ApplySizer(NetPositions(book.dirs), book.multiplier, book.cap)
  /\ stage' = "plan"
  /\ UNCHANGED <<book, capital, verdict, shadowVars>>

\* HedgePlanner::plan, with the equity the keeper reports at this moment.
Plan(equity) ==
  /\ stage = "plan"
  /\ target' = [notional |-> target.net * equity, gross |-> (target.long + target.short) * equity,
                den |-> target.den]
  /\ stage' = "check"
  /\ UNCHANGED <<book, capital, verdict, shadowVars>>

-----------------------------------------------------------------------------
(* The pre-trade governor.                                                 *)

DefaultOutcome(kind) ==
  CASE kind \in {"MaxNotional", "MaxLeverage"} -> "clamp"
    [] kind = "DrawdownCap" -> "halt"
    [] OTHER -> "reject"

\* What notional mag/den breaches, with gross/den the gross it stands for.
Breaches(mag, gross, den, c) ==
  LET l == c.limits
      over == [MaxNotional |-> l.notional # Unset /\ mag > l.notional * den,
               MaxLeverage |-> l.leverage # Unset
                                 /\ IF c.equity > 0 THEN mag > l.leverage * c.equity * den ELSE mag > 0,
               MaxGrossExposure |-> l.gross # Unset /\ gross > l.gross * den,
               MaxNetExposure   |-> l.net # Unset /\ mag > l.net * den,
               LiquidationDistanceFloor |->
                 l.floor # Unset /\ mag > 0 /\ c.equity * den * 100 < (l.floor + Mmr) * mag,
               MarginUtilisationCeiling |->
                 l.ceiling # Unset
                   /\ IF c.margin > 0 THEN mag * Mmr > l.ceiling * c.margin * den ELSE mag > 0,
               MaxParticipation |->
                 l.participation # Unset /\ mag > 0
                   /\ (c.adv = Unset \/ c.adv <= 0 \/ mag * 100 > l.participation * c.adv * den)]
  IN  {k \in DOMAIN over : over[k]}

\* Mutant: the leverage cap replaces the notional cap instead of lowering it.
ClampMagLast(mag, den, c, breaches) ==
  IF "MaxLeverage" \in breaches
  THEN IF c.equity > 0 THEN c.limits.leverage * c.equity * den ELSE 0
  ELSE IF "MaxNotional" \in breaches THEN c.limits.notional * den ELSE mag

\* The magnitude the clamping limits allow.
ClampMag(mag, den, c, breaches) ==
  Min({mag} \union (IF "MaxNotional" \in breaches THEN {c.limits.notional * den} ELSE {})
            \union (IF "MaxLeverage" \in breaches
                    THEN {IF c.equity > 0 THEN c.limits.leverage * c.equity * den ELSE 0} ELSE {}))

Severity(outcome) == CASE outcome = "clamp" -> 0 [] outcome = "reject" -> 1 [] outcome = "halt" -> 2

Check(t, c) ==
  LET mag      == Mag(t.notional)
      breaches == Breaches(mag, Mag(t.gross), t.den, c)
      worst    == Max({-1} \union {Severity(DefaultOutcome(k)) : k \in breaches})
      clamped  == ClampMag(mag, t.den, c, breaches)
  IN  CASE worst = -1 -> [kind |-> "send", notional |-> t.notional]
        [] worst = 0  -> [kind |-> "send", notional |-> IF t.notional < 0 THEN -clamped ELSE clamped]
        [] worst = 1  -> [kind |-> "reject", notional |-> 0]
        [] worst = 2  -> [kind |-> "halt", notional |-> 0]

Govern(c) ==
  /\ stage = "check"
  /\ capital' = c
  /\ verdict' = Check(target, c)
  /\ stage' = "done"
  /\ UNCHANGED <<book, target, shadowVars>>

-----------------------------------------------------------------------------
(* The shadow gate.  The reference link's simulator fills at once.         *)

PlanQty(t, current, mark) == (t \div mark) - current

ObserveMarks(s, r) ==
  /\ revisions < MaxRevisions
  /\ shadowMark' = s /\ simMark' = r
  /\ revisions' = revisions + 1
  /\ UNCHANGED <<deskVars, shadowQty, simQty, reconciled, maxDivergence, sameMarks>>

ObserveRevision(t) ==
  LET d == Mag(shadowQty' - simQty')
  IN  /\ revisions < MaxRevisions
      /\ shadowQty' = shadowQty + PlanQty(t, shadowQty, shadowMark)
      /\ simQty' = simQty + PlanQty(t, simQty, simMark)
      /\ reconciled' = (reconciled /\ d <= ShadowTolerance)
      /\ maxDivergence' = IF d <= ShadowTolerance THEN maxDivergence ELSE Max({maxDivergence, d})
      /\ sameMarks' = (sameMarks /\ shadowMark = simMark)
      /\ revisions' = revisions + 1
      /\ UNCHANGED <<deskVars, shadowMark, simMark>>

-----------------------------------------------------------------------------
SizingInit ==
  /\ stage = "net"
  /\ book \in [dirs : [DOMAIN Legs -> {"none", "long", "short"}], multiplier : Multipliers, cap : Caps]
  /\ target = Unset /\ capital = Unset /\ verdict = Unset
  /\ shadowQty = 0 /\ simQty = 0
  /\ shadowMark = Min(Marks) /\ simMark = Min(Marks)
  /\ reconciled = TRUE /\ maxDivergence = 0 /\ revisions = 0 /\ sameMarks = TRUE

Capitals == [equity : Accounts, margin : Margins, limits : Limits, adv : Advs]

DeskNext ==
  \/ Net
  \/ \E e \in Accounts : Plan(e)
  \/ \E c \in Capitals : Govern(c)

ShadowNext ==
  \/ \E s, r \in Marks : ObserveMarks(s, r)
  \/ \E t \in RevTargets : ObserveRevision(t)
SizingSpec == SizingInit /\ [][DeskNext \/ ShadowNext]_svars

-----------------------------------------------------------------------------
(* Properties.                                                             *)

SameSide(x, y) == ~ (x < 0 /\ y > 0) /\ ~ (x > 0 /\ y < 0)

\* The sized net never exceeds the cap, keeps its sign, and the gross the
\* governor is shown covers both sides (apply_sizer, NetTarget::gross).
NetWithinCap ==
  stage = "plan" =>
    /\ target.net = target.long - target.short
    /\ target.long >= 0 /\ target.short >= 0
    /\ book.cap # Unset => Mag(target.net) <= Max({book.cap, 0}) * target.den
    /\ SameSide(target.net, NetPositions(book.dirs).net)

\* What the governor lets through breaks no limit under the capital it was
\* checked with, even where that capital is not the one the target was planned
\* with; it never grows or turns the target round.
SentWithinLimits ==
  (stage = "done" /\ verdict.kind = "send") =>
    /\ Breaches(Mag(verdict.notional), Mag(target.gross), target.den, capital) = {}
    /\ Mag(verdict.notional) <= Mag(target.notional)
    /\ SameSide(verdict.notional, target.notional)

\* The shadow gate reports a divergence only if the two sides saw different
\* marks, and then reports the largest; equal marks leave equal positions.
ShadowAgrees ==
  /\ sameMarks => reconciled /\ shadowQty = simQty
  /\ reconciled <=> maxDivergence <= ShadowTolerance

\* What reaches the adapter as an absolute target (live_netter.rs, sizer.rs,
\* pretrade.rs), and what the shadow gate says of it (shadow.rs).
DeskSound == NetWithinCap /\ SentWithinLimits /\ ShadowAgrees

(* The inductive invariant.                                                *)
Nets == [net : Int, long : Nat, short : Nat, den : Nat \ {0}]
Orders == [notional : Int, gross : Int, den : Nat \ {0}]
SizingTypes ==
  /\ stage \in {"net", "plan", "check", "done"}
  /\ book \in [dirs : [DOMAIN Legs -> {"none", "long", "short"}], multiplier : Multipliers, cap : Caps]
  /\ stage = "plan" => target \in Nets
  /\ stage \in {"check", "done"} => target \in Orders
  /\ {shadowQty, simQty, maxDivergence} \subseteq Int /\ {shadowMark, simMark} \subseteq Marks
  /\ {reconciled, sameMarks} \subseteq BOOLEAN
SizingKept == SizingTypes /\ DeskSound
=============================================================================
