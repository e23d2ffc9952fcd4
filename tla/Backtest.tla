------------------------------ MODULE Backtest ------------------------------
(***************************************************************************)
(* The bar loop of crates/wfo/src/backtest.rs and the friction ledger of   *)
(* crates/wfo/src/friction.rs.                                             *)
(*                                                                         *)
(* The loop keeps cash and a signed quantity; the ledger keeps an average  *)
(* price and splits the profit into gross, fees, slippage and funding.  A  *)
(* fill goes to both, so the model can ask that two pieces of code which   *)
(* never meet agree about the money.  Prices and quantities are integers;  *)
(* money is in hundredths, so that a rate of r per cent is exact.          *)
(***************************************************************************)
EXTENDS Genome

CONSTANTS Strategy,          \* the genome under test, Schema-valid
          Graded,            \* cfg.graded: size an entry by its conviction
          Capital,           \* starting capital, in hundredths
          StepSize, TickSize, MinNotional,                \* SymbolFilter
          Taker, Maker, HalfSpread, AlphaLoss, ImpactCoeff, CostMultiplier,
          AdvWindow,         \* DEFAULT_ADV_WINDOW
          ShockFreq, GapReturn, FundingPerPeriod, FundingPeriods, AdlHaircut,
          MinTrades,
          Bars,              \* the bars a series is made of
          LedgerEvents,      \* the events simulate may be given
          MaxBars, MaxEvents

Clauses == [enabled : BOOLEAN, feature : Nat, lo : Nat, hi : Nat]
\* Genes, states and rolls are unsigned, prices, rates and the filter's units are
\* never negative, and a size is a share of the equity (Schema, config).
ASSUME BacktestAssumption ==
  /\ Capital \in Int /\ TickSize \in Nat /\ StepSize \in Nat \ {0} /\ AdvWindow \in Nat \ {0} /\ Graded \in BOOLEAN
  /\ \A rate \in {Taker, Maker, HalfSpread, AlphaLoss, ImpactCoeff, CostMultiplier, GapReturn, FundingPerPeriod, FundingPeriods, AdlHaircut} :
       rate \in Nat
  /\ Strategy.size \in 0 .. MaxSizeBps /\ Strategy.long.clauses \in Seq(Clauses) /\ Strategy.short.clauses \in Seq(Clauses)
  /\ \A x \in Bars : /\ x.price \in Nat /\ x.volume \in Nat /\ x.funding \in Int /\ x.rolls[1] \in Nat /\ x.rolls[2] \in Nat
                      /\ \A f \in DOMAIN x.features : x.features[f] \in Int

VARIABLES bar,         \* bars done
          window,      \* adv_window
          book,        \* cash, pos, entry, open, trades, fills and the ledger
          pending,     \* the order decided on the last bar
          equityPrev,
          shockLoss    \* ghost: what the shocks have taken so far
btVars == <<bar, window, book, pending, equityPrev, shockLoss>>

NoOrder == [kind |-> "none"]
NoTrade == [entry |-> -1]
Cents == 100
Abs(x) == IF x < 0 THEN -x ELSE x

-----------------------------------------------------------------------------
(* The symbol filter.                                                      *)

\* Decimal::round is half to even.
RoundHalfEven(x, unit) ==
  LET q == x \div unit  r == x % unit
  IN  IF 2 * r > unit \/ (2 * r = unit /\ q % 2 = 1) THEN q + 1 ELSE q
QuantizePrice(p) == IF TickSize > 0 THEN RoundHalfEven(p, TickSize) * TickSize ELSE p
QuantizeQty(num, den) == (num \div (den * StepSize)) * StepSize
FillOk(p, qty, enforce) == qty > 0 /\ (enforce => p * qty >= MinNotional)

(* Costs of a fill.  powd is a real power: here its exponent is one and    *)
(* the participation is rounded down to hundredths.                        *)
Fee(notional, liquidity) == notional * (IF liquidity = "taker" THEN Taker ELSE Maker)
Impact(qty, adv) == IF adv[1] > 0 /\ qty > 0 THEN ImpactCoeff * ((qty * adv[2]) \div adv[1]) ELSE 0
SlippageCost(notional, qty, adv) == notional * (HalfSpread + Impact(qty, adv))
AlphaLossCost(notional) == notional * AlphaLoss

(* Shocks.                                                                 *)
ShockFires(roll) == roll % 1000000 < ShockFreq
AdverseFraction(roll) ==
  CASE roll % 3 = 0 -> GapReturn
    [] roll % 3 = 1 -> FundingPerPeriod * FundingPeriods
    [] OTHER -> AdlHaircut

-----------------------------------------------------------------------------
(* The friction ledger.                                                    *)
EmptyLedger == [qty |-> 0, avg |-> 0, gross |-> 0, fees |-> 0, slippage |-> 0, funding |-> 0]
Signed(side, qty) == IF side = "buy" THEN qty ELSE -qty

\* A plausible mistake: a flip keeps the closed position's average price.
PositionApplyKeepAvg(l, side, qty, price) ==
  LET signed == Signed(side, qty)
      closing == Min({qty, Abs(l.qty)})
  IN  IF l.qty = 0 \/ (l.qty > 0) = (signed > 0)
      THEN [l EXCEPT !.qty = @ + signed, !.avg = (l.avg * Abs(l.qty) + price * qty) \div Abs(l.qty + signed)]
      ELSE [l EXCEPT !.qty = @ + signed, !.gross = @ + (IF l.qty > 0 THEN 1 ELSE -1) * (price - l.avg) * closing]
PositionApply(l, side, qty, price) ==
  LET signed    == Signed(side, qty)
      remaining == l.qty + signed
      closing   == Min({qty, Abs(l.qty)})
      realised  == (IF l.qty > 0 THEN 1 ELSE -1) * (price - l.avg) * closing
  IN  IF l.qty = 0 \/ (l.qty > 0) = (signed > 0)
      THEN [l EXCEPT !.qty = remaining, !.avg = (l.avg * Abs(l.qty) + price * qty) \div Abs(remaining)]
      ELSE [l EXCEPT !.qty = remaining, !.gross = @ + realised,
                     !.avg = IF remaining = 0 THEN 0
                             ELSE IF (remaining > 0) = (l.qty > 0) THEN @ ELSE price]

\* simulate, on one fill
LedgerFill(l, side, qty, price, adv, liquidity) ==
  LET n == qty * price
  IN  [PositionApply(l, side, qty, price) EXCEPT
         !.fees = @ + Fee(n, liquidity) * CostMultiplier,
         !.slippage = @ + (SlippageCost(n, qty, adv) + AlphaLossCost(n)) * CostMultiplier]
\* simulate, on one funding stamp
LedgerFunding(l, price, rate) == [l EXCEPT !.funding = @ - l.qty * price * rate]

-----------------------------------------------------------------------------
(* The bar loop.                                                           *)
ApplyFill(b, side, qty, price, adv, liquidity) ==
  LET n == qty * price
  IN  [b EXCEPT !.cash = @ - Cents * Signed(side, qty) * price
                           - Fee(n, liquidity) * CostMultiplier
                           - (SlippageCost(n, qty, adv) + AlphaLossCost(n)) * CostMultiplier,
                !.pos = @ + Signed(side, qty),
                !.ledger = LedgerFill(@, side, qty, price, adv, liquidity)]

ApplyFunding(b, price, rate) ==
  [b EXCEPT !.cash = @ - b.pos * price * rate, !.ledger = LedgerFunding(@, price, rate)]

\* size_frac * strength * equity_prev / price, floored to the step
EntryQty(strength, equity, price) ==
  IF equity <= 0 THEN 0
  ELSE QuantizeQty(Strategy.size * strength[1] * equity, MaxSizeBps * strength[2] * Cents * price)

\* `stake` and `outlay` are ghosts: the equity an entry was sized on and its value.
EnterFilled(b, order, price, adv) ==
  LET px  == QuantizePrice(price)
      qty == EntryQty(order.strength, equityPrev, price)
  IN  IF ~FillOk(px, qty, TRUE) THEN b
      ELSE [ApplyFill(b, IF order.dir = "long" THEN "buy" ELSE "sell", qty, px, adv, "taker") EXCEPT
              !.entry = bar, !.trades = @ + 1, !.open = [entry |-> bar, dir |-> order.dir, px |-> px, stake |-> equityPrev, outlay |-> Cents * qty * price]]

CloseFilled(b, price, adv) ==
  LET px  == QuantizePrice(price)
      qty == QuantizeQty(Abs(b.pos), 1)
  IN  IF ~FillOk(px, qty, FALSE) THEN b
      ELSE [ApplyFill(b, IF b.pos > 0 THEN "sell" ELSE "buy", qty, px, adv, "taker") EXCEPT
              !.entry = -1, !.open = NoTrade,
              !.fills = IF b.open = NoTrade THEN @
                        ELSE Append(@, [entry |-> b.open.entry, exit |-> bar, dir |-> b.open.dir,
                                        entryPx |-> b.open.px, exitPx |-> px])]

OrderFilled(b, price, adv) ==
  CASE price = 0 \/ pending = NoOrder -> b
    [] pending.kind = "enter" /\ price > 0 -> EnterFilled(b, pending, price, adv)
    [] pending.kind = "close" /\ price > 0 -> CloseFilled(b, price, adv)

Position(b) ==
  IF b.pos = 0 \/ b.entry = -1 THEN Flat ELSE Held(IF b.pos > 0 THEN "long" ELSE "short", bar - b.entry)

NextOrder(b, features) ==
  LET d == Decide(Strategy, features, Position(b))
  IN  CASE d \in {"long", "short"} ->
             [kind |-> "enter", dir |-> d, strength |-> IF Graded THEN EntryStrength(Strategy, features, d) ELSE <<1, 1>>]
        [] d = "exit" -> [kind |-> "close"]
        [] d = "hold" -> NoOrder

\* One bar: the rolling volume, the pending order, funding, the shock, the
\* mark to market, the next decision.
Step(x) ==
  LET w      == Append(IF Len(window) = AdvWindow THEN Tail(window) ELSE window, x.volume)
      filled == OrderFilled(book, x.price, <<SumOf(w), Len(w)>>)
      funded == IF x.funding = 0 THEN filled ELSE ApplyFunding(filled, x.price, x.funding)
      loss   == IF ShockFires(x.rolls[1]) /\ funded.pos # 0
                THEN Abs(funded.pos * x.price) * AdverseFraction(x.rolls[2]) ELSE 0
      b      == [funded EXCEPT !.cash = @ - loss]
  IN  /\ bar < MaxBars
      /\ window' = w
      /\ book' = b
      /\ shockLoss' = shockLoss + loss
      /\ equityPrev' = b.cash + Cents * b.pos * x.price
      /\ pending' = NextOrder(b, x.features)
      /\ bar' = bar + 1

BacktestInit ==
  /\ bar = 0 /\ window = <<>> /\ pending = NoOrder /\ equityPrev = Capital /\ shockLoss = 0
  /\ book = [cash |-> Capital, pos |-> 0, entry |-> -1, open |-> NoTrade, trades |-> 0, fills |-> <<>>,
             ledger |-> EmptyLedger]
BacktestNext == \E x \in Bars : Step(x)
BacktestSpec == BacktestInit /\ [][BacktestNext]_btVars

(* simulate over an arbitrary event list: adds, partial closes and flips   *)
(* the bar loop never makes.                                               *)
LedgerStep(e) ==
  /\ bar < MaxEvents
  /\ book' = IF e.kind = "fill" THEN ApplyFill(book, e.side, e.qty, e.price, <<e.adv, 1>>, e.liquidity)
             ELSE ApplyFunding(book, e.price, e.rate)
  /\ bar' = bar + 1
  /\ UNCHANGED <<window, pending, equityPrev, shockLoss>>
LedgerNext == \E e \in LedgerEvents : LedgerStep(e)

\* The verdict on the finished series.
Accepted == book.trades >= MinTrades /\ bar > 1

-----------------------------------------------------------------------------
(* Properties.                                                             *)

\* The cash the bar loop holds is the capital plus what the ledger says was
\* made: realised profit less the cost of what is still held, less fees and
\* slippage, plus funding, less shocks.  No fill, add, partial close, flip or
\* funding stamp is counted twice or with the wrong sign by either
\* (apply_fill and the loop's funding against Position::apply and simulate).
Agree(b, loss) ==
  LET l == b.ledger
  IN  /\ b.pos = l.qty
      /\ b.cash = Capital + Cents * (l.gross - l.qty * l.avg) - l.fees - l.slippage + l.funding - loss
BooksAgree == Agree(book, shockLoss)

\* The trade log describes the position: one trade at a time, opened from flat
\* and closed whole, each trade counted once, never two of them overlapping
\* and never a fill on the bar that decided it.  An entry is paid for: the
\* equity it was decided on is positive and covers it at the bar's price, so a
\* ruined strategy never trades again (backtest_with_trades).
OneTradeAtATime ==
  window # <<>> =>
  /\ (book.pos = 0) <=> (book.entry = -1)
  /\ (book.pos = 0) <=> (book.open = NoTrade)
  /\ book.open # NoTrade => (book.pos > 0) = (book.open.dir = "long") /\ book.open.entry = book.entry
                              /\ book.open.stake > 0 /\ book.open.outlay <= book.open.stake
  /\ book.trades = Len(book.fills) + (IF book.pos = 0 THEN 0 ELSE 1)
  /\ \A i \in DOMAIN book.fills : book.fills[i].entry < book.fills[i].exit
  /\ \A i \in 1 .. Len(book.fills) - 1 : book.fills[i].exit < book.fills[i + 1].entry
  /\ pending.kind = "close" => book.pos # 0
  /\ pending.kind = "enter" => book.pos = 0


\* What backtest.rs and the harness owe whoever reads a result.
BacktestSound == BooksAgree /\ OneTradeAtATime

(* The inductive invariant of the bar loop, of a book after n bars.        *)
Entries == [entry : Nat, dir : {"long", "short"}, px : Int, stake : Int, outlay : Int]
Exits == [entry : Nat, exit : Nat, dir : {"long", "short"}, entryPx : Int, exitPx : Int]
Ledgers == [qty : Int, avg : Int, gross : Int, fees : Int, slippage : Int, funding : Int]
Books == [cash : Int, pos : Int, entry : Int, open : Entries \union {NoTrade}, trades : Nat, fills : Seq(Exits), ledger : Ledgers]
Lots(qty) == qty = (qty \div StepSize) * StepSize
TradesOf(b, n) ==
  /\ (b.pos = 0) <=> (b.open = NoTrade)
  /\ IF b.open = NoTrade THEN b.entry = -1
     ELSE /\ (b.pos > 0) = (b.open.dir = "long") /\ b.open.entry = b.entry /\ b.entry \in 0 .. n - 1
          /\ b.open.stake > 0 /\ b.open.outlay <= b.open.stake
          /\ \A i \in DOMAIN b.fills : b.fills[i].exit < b.entry
  /\ b.trades = Len(b.fills) + (IF b.pos = 0 THEN 0 ELSE 1)
  /\ \A i \in DOMAIN b.fills : b.fills[i].entry < b.fills[i].exit /\ b.fills[i].exit < n
  /\ \A i \in 1 .. Len(b.fills) - 1 : b.fills[i].exit < b.fills[i + 1].entry
  /\ Lots(b.pos)
Fraction(f) == f[1] \in Nat /\ f[2] \in Nat \ {0} /\ f[1] <= f[2]
\* A pending order suits the position, and an entry's strength is a fraction.
OrderSuits(b, order) ==
  \/ order = NoOrder
  \/ order.kind = "close" /\ b.pos # 0
  \/ /\ order.kind = "enter" /\ b.pos = 0 /\ order.dir \in {"long", "short"}
     /\ Fraction(order.strength)
BacktestKept ==
  /\ bar \in Nat /\ window \in Seq(Nat) /\ equityPrev \in Int /\ shockLoss \in Int /\ book \in Books
  /\ Agree(book, shockLoss) /\ TradesOf(book, bar) /\ OrderSuits(book, pending)
=============================================================================
