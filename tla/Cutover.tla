------------------------------ MODULE Cutover -------------------------------
(***************************************************************************)
(* The hedger's evaluation path: a cold start replays the venue's history  *)
(* into an evaluator session (crates/hedger/src/bootstrap.rs, factor_join  *)
(* .rs, evaluator.rs, boot_state.rs), the cutover then feeds it live bars  *)
(* exactly once and in order (cutover.rs), the breaker layer rewrites what *)
(* it says (Breakers), and the vintage the next start runs is rolled over  *)
(* beside it (vintage_rollover.rs).                                        *)
(*                                                                         *)
(* Bar b opens at time b.  The feature vector of a bar is the bar's own    *)
(* quantised state and the last funding observed: the assembler's own      *)
(* indicators are a function of the bars pushed and are not repeated here. *)
(* The book (`follow`) stands for whoever acts on the decisions: it moves  *)
(* its positions on what the cutover says, and outlives a restart.         *)
(***************************************************************************)
EXTENDS Genome, Breakers, TLC

CONSTANTS
  Vintages,    \* vintage id -> [genomes: one per strategy, sound: BOOLEAN]
  FirstVintage,
  BarStates,   \* the states a bar may quantise to
  BootPaths,   \* what boot_state may be given: an equity path per strategy
  LiveEquities,\* equities a live tick may report
  FundingTimes,\* the times at which the venue publishes a funding rate
  MaxBars,     \* bound: bars the venue closes
  MaxStarts,   \* bound: cold starts
  MaxRolls,    \* bound: rollovers
  MaxLiveTicks \* bound: equity observations

Bars == 1 .. MaxBars

ASSUME VintageAssumption == FirstVintage \in DOMAIN Vintages /\ Vintages[FirstVintage].sound
ASSUME TimeAssumption == MaxBars \in Nat /\ FundingTimes \subseteq Nat \ {0}

VARIABLES
  closed,    \* bars the venue has closed
  market,    \* their states
  active,    \* ActiveVintage: current id and the recorded rollovers
  up,        \* a cutover exists
  vint,      \* the vintage the session was built from
  mode,      \* EvaluatorSession.mode
  funding,   \* LiveFactorJoin.funding: the time of the last rate observed
  positions, \* EvaluatorSession.positions
  lastOpen,  \* Cutover.last_open_ms
  live,      \* Cutover.live
  dormant,   \* DormancyLatch per strategy, as boot_state rebuilds it
  follow,    \* history: the book that follows the decisions
  outs,      \* history: the bars evaluated since the start, replayed ones first
  late,      \* history: a live bar was evaluated with another rate than its own
  holes,     \* history: the replayed window lacked a bar
  shut,      \* history: strategies evaluated behind a shut gate in this start
  starts

venueVars == <<closed, market>>
session   == <<vint, mode, funding, positions, lastOpen, live, dormant>>
history   == <<follow, outs, late, holes, shut>>
cutVars   == <<venueVars, active, up, session, history, starts>>
cvars     == <<cutVars, bvars>>

-----------------------------------------------------------------------------
(* The evaluator session.                                                  *)

NoFunding == 0
Vector(b, f) == 0 :> market[b] @@ 1 :> (IF f = NoFunding THEN Missing ELSE f % 2)

Decisions(v, b, f, pos) == [i \in Strategies |-> Decide(Vintages[v].genomes[i], Vector(b, f), pos[i])]
AdvanceAll(pos, ds)     == [i \in Strategies |-> Advance(pos[i], ds[i])]
AllFlat == [i \in Strategies |-> Flat]

\* EvaluatorSession::on_bar
OnBar(v, b, s) ==
  LET ds == Decisions(v, b, s.funding, s.pos)
  IN  [s EXCEPT !.pos = AdvanceAll(@, ds), !.outs = Append(@, b),
                !.entered = @ \union {i \in Strategies : ds[i] \in {"long", "short"}}]

\* replay: the bars of the window in the order of their open times, the factors
\* of a time before its bar, pushed through a fresh session.
FreshSession == [pos |-> AllFlat, funding |-> NoFunding, outs |-> <<>>, entered |-> {}]
Replay(v, window, rates) ==
  LET at[t \in 0 .. MaxBars] ==
        IF t = 0 THEN FreshSession
        ELSE LET s == IF t \in rates THEN [at[t - 1] EXCEPT !.funding = t] ELSE at[t - 1]
             IN  IF t \in window THEN OnBar(v, t, s) ELSE s
  IN  at[MaxBars]

RatesUpTo(t) == {f \in FundingTimes : f <= t}
LastRate(t)  == Max({NoFunding} \union RatesUpTo(t))

-----------------------------------------------------------------------------
(* The venue closes bars; the engine starts, is fed, stops and starts again. *)

CloseBar ==
  /\ closed < MaxBars
  /\ closed' = closed + 1
  /\ \E s \in BarStates : market' = [market EXCEPT ![closed + 1] = s]
  /\ UNCHANGED <<active, up, session, history, starts, bvars>>

\* cold_start and from_reconstructed_calibrated.  The window is what the pages
\* of the venue's history decode to, sorted and without repeats: the set of its
\* bars, some of which the pages may lack.
ColdStart(window, paths) ==
  LET v == active.current
      s == Replay(v, window, RatesUpTo(closed))
  IN  /\ starts < MaxStarts
      /\ starts' = starts + 1
      /\ IF s.outs = <<>>                              \* EmptyReplay
         THEN up' = FALSE /\ UNCHANGED <<session, history, bvars>>
         ELSE /\ up' = TRUE
              /\ vint' = v /\ mode' = "replay" /\ live' = FALSE
              /\ funding' = s.funding /\ positions' = s.pos
              /\ lastOpen' = Last(s.outs)
              /\ dormant' = Strategies \ s.entered
              /\ LayerFromCalibration(paths)
              /\ outs' = s.outs /\ late' = FALSE /\ shut' = {}
              /\ holes' = (window # 1 .. Last(s.outs))
              /\ UNCHANGED <<follow, ticks, resets>>
      /\ UNCHANGED <<venueVars, active>>

\* feed_live_bar.
Duplicate(b) ==
  /\ b <= lastOpen
  /\ UNCHANGED <<session, history>>

Gap(b) ==
  /\ b > lastOpen /\ b # lastOpen + 1
  /\ UNCHANGED <<session, history>>

\* Mutant: the session moves on the decision the breaker rewrote.
EvaluatedOnClamped(b) ==
  LET out == ClampDecisions(Decisions(vint, b, funding, positions))
  IN  /\ b > lastOpen /\ b = lastOpen + 1
      /\ mode' = "live" /\ live' = TRUE
      /\ positions' = AdvanceAll(positions, out)
      /\ lastOpen' = b
      /\ outs' = Append(outs, b)
      /\ late' = (late \/ funding # LastRate(b))
      /\ UNCHANGED <<vint, funding, dormant, follow, holes, shut>>

Evaluated(b) ==
  LET raw == Decisions(vint, b, funding, positions)
      out == ClampDecisions(raw)
  IN  /\ b > lastOpen /\ b = lastOpen + 1
      /\ mode' = "live" /\ live' = TRUE
      /\ positions' = AdvanceAll(positions, raw)
      /\ lastOpen' = b
      /\ follow' = AdvanceAll(follow, out)
      /\ outs' = Append(outs, b)
      /\ shut' = shut \union {i \in Strategies : IsGated(i)}
      /\ late' = (late \/ funding # LastRate(b))
      /\ UNCHANGED <<vint, funding, dormant, holes>>

FeedLiveBar(b) ==
  /\ up /\ b <= closed
  /\ Duplicate(b) \/ Gap(b) \/ Evaluated(b)
  /\ UNCHANGED <<venueVars, active, up, starts, bvars>>

ObserveFunding(t) ==
  /\ up /\ t <= closed /\ t > funding
  /\ funding' = t
  /\ UNCHANGED <<venueVars, active, up, vint, mode, positions, lastOpen, live, dormant,
                 history, starts, bvars>>

\* observe_strategy_equity and observe_ensemble_equity.
ObserveEquity(i, e) ==
  /\ up /\ ticks < MaxLiveTicks
  /\ Observe(i, e)
  /\ UNCHANGED <<venueVars, active, up, session, history, starts>>

\* ActiveVintage::rollover: refused unless the vintage verifies; the running
\* session keeps the vintage it was built from.
Rollover(v) ==
  /\ Len(active.rolls) < MaxRolls
  /\ Vintages[v].sound
  /\ active' = [current |-> v, rolls |-> Append(active.rolls, <<active.current, v>>)]
  /\ UNCHANGED <<venueVars, up, session, history, starts, bvars>>

Stop ==
  /\ up /\ starts < MaxStarts
  /\ up' = FALSE
  /\ UNCHANGED <<venueVars, active, session, history, starts, bvars>>

-----------------------------------------------------------------------------
CutoverInit ==
  /\ closed = 0 /\ market = [b \in Bars |-> Missing]
  /\ active = [current |-> FirstVintage, rolls |-> <<>>]
  /\ up = FALSE
  /\ vint = FirstVintage /\ mode = "replay" /\ live = FALSE
  /\ funding = NoFunding /\ positions = AllFlat /\ lastOpen = 0 /\ dormant = Strategies
  /\ follow = AllFlat /\ outs = <<>> /\ late = FALSE /\ holes = FALSE /\ shut = {}
  /\ starts = 0

CutoverNext ==
  \/ CloseBar
  \/ ~ up /\ \E w \in SUBSET (1 .. closed), p \in BootPaths : ColdStart(w, p)
  \/ \E b \in Bars : FeedLiveBar(b)
  \/ \E t \in FundingTimes : ObserveFunding(t)
  \/ \E i \in Layer, e \in LiveEquities : ObserveEquity(i, e)
  \/ \E v \in DOMAIN Vintages : Rollover(v)
  \/ Stop

CutoverSpec == CutoverInit /\ NoLayer /\ [][CutoverNext]_cvars

-----------------------------------------------------------------------------
(* Properties.                                                             *)

CutoverTypeOK ==
  /\ closed \in 0 .. MaxBars /\ lastOpen \in 0 .. closed
  /\ positions \in [Strategies -> [dir : {"none", "long", "short"}, held : 0 .. MaxBars]]
  /\ gated \subseteq Layer /\ shut \subseteq Strategies /\ dormant \subseteq Strategies
  /\ mode = (IF live THEN "live" ELSE "replay")

\* Every bar is evaluated at most once and in order, and once live without a
\* hole, across replayed and live bars and whatever is delivered again or early.
EvaluatedInOrder ==
  /\ \A n \in 2 .. Len(outs) : outs[n] > outs[n - 1]
  /\ up => Last(outs) = lastOpen
  /\ ~ holes => \A n \in DOMAIN outs : outs[n] = n

\* Replay and live are one computation: the running session holds what a fresh
\* replay of the venue's whole history would hold, however the bars arrived and
\* whatever the breakers did, unless a rate came late or the window had a hole.
ReplayParity ==
  (up /\ ~ late /\ ~ holes)
    => positions = Replay(vint, 1 .. lastOpen, RatesUpTo(lastOpen)).pos

\* Once a bar was evaluated behind a shut gate the book is out of that strategy
\* and stays out until a new start, though the session's own position, which
\* moves on the decision the breaker rewrote, may still be held.
ShutStaysOut == up => \A i \in shut : follow[i] = Flat

\* A gate that tripped opens by a reset of the layer or a new start alone: no
\* equity, however high, and no bar opens it.
GateLatched == [][gated \subseteq gated' \/ resets' # resets \/ starts' # starts]_cvars

\* A vintage that fails verification never runs, and the rollovers recorded
\* are a chain from the first vintage to the current one.
RolloverChain ==
  /\ Vintages[active.current].sound /\ Vintages[vint].sound
  /\ active.current = IF active.rolls = <<>> THEN FirstVintage ELSE Last(active.rolls)[2]
  /\ \A n \in DOMAIN active.rolls :
       active.rolls[n][1] = IF n = 1 THEN FirstVintage ELSE active.rolls[n - 1][2]

\* What evaluator.rs, cutover.rs and live_breakers.rs owe together: one history,
\* evaluated once and in order, followed only where no gate is shut.
CutoverSound == CutoverTypeOK /\ EvaluatedInOrder /\ ReplayParity /\ ShutStaysOut /\ RolloverChain
=============================================================================
