------------------------------- MODULE Klines -------------------------------
(***************************************************************************)
(* Coarse bars from base bars: the reconstructor that folds the base bars  *)
(* of a window into one (crates/signal/src/reconstruct.rs) and the live    *)
(* source that feeds it each base bar once (crates/hedger/src/live_kline   *)
(* .rs).  The smoothed mark (crates/hedger/src/live_mark.rs, MarkEma of    *)
(* crates/risk/src/breaker.rs) is the other live input and is here too.    *)
(*                                                                         *)
(* A base bar of time t covers [t, t+1); a target bar covers Ratio of them.*)
(* A bar's price is one number: its open, high, low and close.  The mark   *)
(* has a half-life of one unit, so that dt units weigh 1 - 1/2^dt, and is   *)
(* rounded down to units of 1/Scale.                                       *)
(***************************************************************************)
EXTENDS Integers, Sequences, FiniteSets, SequencesExt

CONSTANTS
  NoWindow,   \* no window is open
  Ratio,      \* target minutes / base minutes
  OpenTimes,      \* open times of base bars and event times of marks
  Prices,     \* prices
  Stale,      \* staleness_bound_secs
  TickSecs,   \* tick_secs
  MaxPushed,  \* bound: base bars delivered
  MaxMarks    \* bound: marks delivered

NoTime   == -1
Scale    == 64

VARIABLES
  window,     \* BarReconstructor.current
  accepted,   \* LiveKlineSource.last_open_ms
  coarse,     \* the completed bars it has returned
  delivered,  \* history: the base bars delivered, in order of arrival
  ema,        \* MarkEma.value, or NoTime before the first mark
  prevMark,   \* MarkEmaLoop.prev_event_time_ms
  ticksSeen   \* history: the marks, with the smoothed value and the stale flag

klineVars == <<window, accepted, coarse, delivered>>
markVars  == <<ema, prevMark, ticksSeen>>
kvars     == <<klineVars, markVars>>

-----------------------------------------------------------------------------
\* BarReconstructor::new: a target of 1 or a fraction of the base is refused.
Reconstructible(base, target) == target > base /\ target % base = 0

WindowStart(t) == (t \div Ratio) * Ratio

OpenFrom(bar) ==
  [start |-> WindowStart(bar.time), open |-> bar.price, high |-> bar.price,
   low |-> bar.price, close |-> bar.price, volume |-> 1]
FoldBar(w, bar) ==
  [w EXCEPT !.high = Max({@, bar.price}), !.low = Min({@, bar.price}),
            !.close = bar.price, !.volume = @ + 1]

\* push: the reconstructor's next window, and what it completes.
PushBar(w, bar) ==
  IF w # NoWindow /\ w.start = WindowStart(bar.time)
  THEN [window |-> FoldBar(w, bar), done |-> <<>>]
  ELSE [window |-> OpenFrom(bar), done |-> IF w = NoWindow THEN <<>> ELSE <<w>>]

\* reconstruct_batch: every bar pushed, then finish.
ReconstructBatch(bars) ==
  LET step(s, bar) == [window |-> PushBar(s.window, bar).window,
                       done   |-> s.done \o PushBar(s.window, bar).done]
      end == FoldLeft(step, [window |-> NoWindow, done |-> <<>>], bars)
  IN  end.done \o (IF end.window = NoWindow THEN <<>> ELSE <<end.window>>)

\* accept, behind prime and push_live.
Accept(bar) ==
  /\ Len(delivered) < MaxPushed
  /\ delivered' = Append(delivered, bar)
  /\ IF accepted # NoTime /\ bar.time <= accepted
     THEN UNCHANGED <<window, accepted, coarse>>
     ELSE LET p == PushBar(window, bar)
          IN  /\ accepted' = bar.time
              /\ window' = p.window
              /\ coarse' = coarse \o p.done
  /\ UNCHANGED markVars

-----------------------------------------------------------------------------
TimeAwareAlpha(dt) == <<2^dt - 1, 2^dt>>

ApplyMark(value, alpha, price) ==
  IF value = NoTime THEN price * Scale
  ELSE value + (alpha[1] * (price * Scale - value)) \div alpha[2]

ObserveMark(t, price) ==
  LET dt    == IF prevMark = NoTime THEN TickSecs ELSE Max({t - prevMark, 0})
      stale == prevMark # NoTime /\ dt > Stale
      value == ApplyMark(ema, TimeAwareAlpha(dt), price)
  IN  /\ Len(ticksSeen) < MaxMarks
      /\ ema' = value
      /\ prevMark' = t
      /\ ticksSeen' = Append(ticksSeen, [time |-> t, price |-> price, smoothed |-> value, stale |-> stale])
      /\ UNCHANGED klineVars

-----------------------------------------------------------------------------
KlineInit ==
  /\ window = NoWindow /\ accepted = NoTime /\ coarse = <<>> /\ delivered = <<>>
  /\ ema = NoTime /\ prevMark = NoTime /\ ticksSeen = <<>>

KlineNext == \E t \in OpenTimes, p \in Prices : Accept([time |-> t, price |-> p])
MarkNext  == \E t \in OpenTimes, p \in Prices : ObserveMark(t, p)

-----------------------------------------------------------------------------
(* Properties.                                                             *)

\* The deliveries that count: those later than everything delivered before.
Kept == {n \in DOMAIN delivered : \A m \in 1 .. n - 1 : delivered[m].time < delivered[n].time}
InWindow(s) == {n \in Kept : WindowStart(delivered[n].time) = s}
Aggregate(s) ==
  LET ns == InWindow(s)
      prices == {delivered[n].price : n \in ns}
  IN  [start |-> s, open |-> delivered[Min(ns)].price, close |-> delivered[Max(ns)].price,
       high |-> Max(prices), low |-> Min(prices), volume |-> Cardinality(ns)]

\* The coarse bars returned live, with the one in progress, are one bar for each
\* target window, in order, aggregating exactly the base bars that count, however
\* they are repeated or reordered; a batch over the same bars gives them too.
CoarseExact ==
  LET starts == SetToSortSeq({WindowStart(delivered[n].time) : n \in Kept}, <)
      bars   == [k \in DOMAIN starts |-> Aggregate(starts[k])]
      kept   == [k \in 1 .. Cardinality(Kept) |-> delivered[SetToSortSeq(Kept, <)[k]]]
  IN  /\ coarse \o (IF window = NoWindow THEN <<>> ELSE <<window>>) = bars
      /\ ReconstructBatch(kept) = bars

\* The smoothed mark never leaves the range of the marks seen, whatever their
\* times: an older or repeated event time moves it not at all.
SmoothedBetween ==
  \A n \in DOMAIN ticksSeen :
    LET seen == {ticksSeen[m].price : m \in 1 .. n}
    IN  /\ ticksSeen[n].smoothed \in Min(seen) * Scale .. Max(seen) * Scale
        /\ (n > 1 /\ ticksSeen[n].time <= ticksSeen[n - 1].time)
             => ticksSeen[n].smoothed = ticksSeen[n - 1].smoothed
=============================================================================
