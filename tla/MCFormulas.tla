----------------------------- MODULE MCFormulas -----------------------------
(***************************************************************************)
(* Formulas on small grids.                                                *)
(***************************************************************************)
EXTENDS Catalogue, ResultDoc

VARIABLE part            \* "tree", "stream", "search", "book", "subset", "features" or "report"

Bar(c, h, l, v) == [close |-> Whole(c), high |-> Whole(h), low |-> Whole(l), volume |-> Whole(v)]
TestSamples == {Bar(2, 3, 1, 1), Bar(1, 3, 1, 0), Bar(3, 3, 2, 1)}
Grid == <<Whole(-2), Whole(-1), Whole(0), Frac(1, 2), Whole(2)>>
Lattice == <<2, 3, 5>>

Leaves == {Input("close"), Input("volume"), Const(Whole(2)), Const(Whole(-1))}
OffGrid == {Input("typical"), Const(Frac(3, 4)), Const(Whole(9))}
Simple == {Unary(op, a) : op \in {"neg", "sign"}, a \in Leaves}
          \cup {Binary(op, a, b) : op \in {"add", "sub", "mul", "div"}, a \in Leaves, b \in Leaves}
          \cup {Window(op, a, p) : op \in {"mean", "lag"}, a \in Leaves, p \in {0, 2}}
Deep == {Binary("add", a, Binary("mul", b, Unary("abs", c))) :
           a \in {Const(Whole(2)), Window("std", Input("high"), 4)},
           b \in {Window("delta", Input("close"), 3), Input("low")},
           c \in OffGrid \cup {Window("rank", Window("max", Input("low"), 7), 2)}}
Wide == {Binary("add", Binary("mul", a, b), Binary("sub", b, a)) : a \in Leaves, b \in OffGrid}
TestTrees == Wide \cup Leaves \cup OffGrid \cup Simple \cup Deep
             \cup {Window(op, a, p) : op \in {"rank", "zscore"}, a \in Simple \cup Deep, p \in {2, 4}}
             \cup {Unary(op, Window("mad", a, p)) : op \in {"abs", "sign"}, a \in Deep, p \in {1, 9}}

Streamed == {Window(op, a, 2) : op \in {"rank", "zscore"},
               a \in {Binary(o, Input("close"), c) : o \in {"add", "sub", "mul", "div"},
                                                    c \in {Const(Whole(2)), Const(Whole(-1))}}}
            \cup {Window("rank", Binary("mul", Const(Whole(2)),
                      Binary("add", Input("volume"), Window(op, Input("close"), 2))), 2) :
                     op \in {"mean", "max", "min", "std", "mad", "delta", "lag"}}
            \cup {Window("zscore", Binary("add", Binary("sub", Const(Whole(2)), Const(Whole(-1))),
                      Unary(op, Binary("div", Input("typical"), Input("volume")))), 3) :
                     op \in {"abs", "sign", "neg"}}
            \cup {Window("rank", Const(Whole(2)), 2), Window("mean", Input("low"), 0)}

TestStream == <<Bar(2, 3, 1, 1), Bar(1, 3, 1, 2), Bar(3, 3, 2, 1), Bar(2, 3, 1, 3), Bar(4, 4, 2, 2)>>
Terminals == {Input("close"), Input("volume")}

Weights3 == {<<Frac(1, 2), Frac(1, 4), Frac(1, 4)>>, <<Frac(1, 3), Frac(1, 3), Frac(1, 3)>>,
             <<Zero, Frac(2, 3), Frac(2, 3)>>}
CapacityGrid == {Zero, Frac(1, 8), Frac(1, 2), Whole(2)}
Returns == {<<Frac(1, 10), Frac(-1, 5), Frac(1, 10)>>, <<Frac(-1, 2), Zero>>, <<Frac(1, 5), Frac(1, 5), Frac(-1, 10)>>}
Logs == {<<0>>, <<0, 1, 2, 1>>, <<2, 0, 1, 1, 1>>, <<1, 1, 1, 2>>}
Half == Frac(1, 2)
Spread == Frac(1, 10)
Backtested == {[returns |-> r, trades |-> n, size |-> s] :
                 r \in {<<>>, <<Frac(1, 10)>>, <<One, Zero>>}, n \in {0, 1, 2}, s \in {Half, One}}
TradedBars == {<<>>, <<[price |-> Whole(2), volume |-> Whole(3)], [price |-> Whole(5), volume |-> Whole(2)]>>}
Windows == [id \in {PriceIds[i] : i \in 1..Len(PriceIds)} \cup {FlowIds[i] : i \in 1..Len(FlowIds)} |->
              CASE id \in {"funding_state", "premium_state"} -> 1
                [] id = "macd_hist" -> 4
                [] id \in {"rsi", "aroon_osc", "atr_pct", "std_returns"} -> 3
                [] OTHER -> 2]
Rank2 == [id |-> "a", expr |-> Window("rank", Binary("sub", Input("close"), Input("low")), 2)]
Zed3 == [id |-> "b", expr |-> Window("zscore", Window("lag", Input("volume"), 2), 2)]
HashesInOrder == <<"a", "b">>
TestPools == {<<>>, <<Rank2, Zed3>>, <<Zed3, Rank2>>, <<Zed3>>}
Fed(b, f, o, m) == [bar |-> b, funding |-> f, oi |-> o, premium |-> m]
TestFeed == {Fed(Bar(2, 3, 1, 1), <<Frac(1, 200)>>, <<Whole(2)>>, <<Zero>>),
             Fed(Bar(1, 3, 1, 0), <<>>, <<Whole(3)>>, <<>>),
             Fed(Bar(3, 3, 2, 2), <<>>, <<>>, <<Frac(-1, 50)>>)}

Fill1(e, x, r) == [strategy |-> 0, entry |-> e, exit |-> x, ret |-> r]
BaseAsk == [universe |-> 1, parses |-> TRUE, opens |-> TRUE, vintage |-> TRUE,
            strategy |-> <<>>, foreign |-> {}, scans |-> TRUE, bars |-> 6,
            weights |-> <<Frac(1, 4), Frac(3, 4)>>,
            returns |-> <<<<Frac(1, 5), Frac(-1, 2), Zero, One, Frac(-1, 5)>>,
                          <<Zero, Frac(-1, 3), Frac(1, 3), Frac(1, 3), Zero>>>>,
            fills |-> <<{Fill1(1, 3, Frac(-2, 5)), Fill1(4, 6, Frac(3, 5))}, {Fill1(1, 5, Frac(1, 5))}>>]
TestAsks == {[BaseAsk EXCEPT !.strategy = s, !.bars = n, !.universe = u, !.fills[2] = f] :
               s \in {<<>>, <<0>>, <<1>>, <<2>>}, n \in 0..6, u \in 0..1,
               f \in {{}, {Fill1(1, 5, Frac(1, 5))}}}
            \cup {[BaseAsk EXCEPT !.weights = w, !.parses = d, !.vintage = v] :
                    w \in {<<>>, <<Half, Half>>}, d, v \in BOOLEAN}
            \cup {[BaseAsk EXCEPT !.opens = o, !.scans = c, !.strategy = s, !.foreign = f] :
                    o, c \in BOOLEAN, s \in {<<>>, <<0>>, <<1>>}, f \in SUBSET {1, 2}}

(* One group of a book's inputs varies at a time. *)
FirstBook == [weights |-> <<Frac(1, 3), Frac(1, 3), Frac(1, 3)>>, caps |-> <<Half, Half, Half>>,
              series |-> <<<<Frac(-1, 2), Zero>>, <<Frac(-1, 2), Zero>>>>, logs |-> <<0>>,
              members |-> [i \in 1..2 |-> [returns |-> <<>>, trades |-> 0, size |-> One]], bars |-> <<>>]
TestBooks == {[FirstBook EXCEPT !.weights = w, !.caps = c] : w \in Weights3, c \in [1..3 -> CapacityGrid]}
             \cup {[FirstBook EXCEPT !.series = <<r, q>>, !.logs = l] : r, q \in Returns, l \in Logs}
             \cup {[FirstBook EXCEPT !.members = <<m, n>>, !.bars = b] : m, n \in Tested, b \in BarSeries}
TestScores == {[m \in SUBSET (1..2) |-> Cardinality(m)],
               [m \in SUBSET (1..2) |-> IF m = {1} THEN 2 ELSE IF 1 \in m THEN 0 ELSE 1]}

FInit ==
  /\ part \in {"tree", "stream", "search", "book", "subset", "features", "report"}
  /\ subject \in (IF part = "tree" THEN Trees ELSE {Input("close")})
  /\ formula \in (IF part = "stream" THEN Formulas ELSE {Window("mean", Input("low"), 0)})
  /\ ExprInit /\ SearchInit
  /\ book \in (IF part = "book" THEN TestBooks ELSE {FirstBook})
  /\ book \in Books
  /\ pop \in (IF part = "subset" THEN Masks ELSE {[i \in 1..PopSize |-> {1}]})
  /\ score \in (IF part = "subset" THEN Scorings ELSE {[m \in SUBSET (1..2) |-> Cardinality(m)]})
  /\ DeInit
  /\ CatalogueInit /\ (part # "features" => pool = <<>>)
  /\ ask \in (IF part = "report" THEN Asks ELSE {BaseAsk}) /\ ResultInit
FNext ==
  \/ part = "stream" /\ ExprNext /\ UNCHANGED <<searchVars, ensembleVars, catalogueVars, resultVars, part>>
  \/ part = "search" /\ SearchNext /\ UNCHANGED <<exprVars, ensembleVars, catalogueVars, resultVars, part>>
  \/ part = "subset" /\ Trial /\ UNCHANGED <<exprVars, searchVars, catalogueVars, resultVars, part>>
  \/ part = "features" /\ CatalogueNext /\ UNCHANGED <<exprVars, searchVars, ensembleVars, resultVars, part>>
  \/ part = "report" /\ RunBacktest /\ UNCHANGED <<exprVars, searchVars, ensembleVars, catalogueVars, part>>
FSpec == FInit /\ [][FNext]_<<exprVars, searchVars, ensembleVars, catalogueVars, resultVars, part>>

\* Each part's promise, on the states of that part: formulas streamed, repaired,
\* written and parsed (expr.rs); the feature catalogue (catalogue.rs, features.rs);
\* the formula search and its pool file (gp, evolve.rs); and the book, the member
\* search and the result document (qe-ensemble, jobs/backtest.rs).
FormulasHold == part \in {"tree", "stream"} => FormulaSound
CatalogueHolds == part = "features" => CatalogueSound
EvolveHolds == part = "search" => EvolveSound
ResultHolds ==
  /\ part = "book" => BookSound
  /\ part = "subset" => SearchKeepsBest
  /\ part = "report" => ReportReconciles
=============================================================================
