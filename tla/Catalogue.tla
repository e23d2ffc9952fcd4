----------------------------- MODULE Catalogue -----------------------------
(***************************************************************************)
(* The indicator catalogue and its feature vectors (qe-signal: price.rs,   *)
(* flow.rs, indicator/mod.rs, feature.rs; qe-cli jobs/features.rs).  A     *)
(* price kernel is a function of the last bars, a flow kernel of the last  *)
(* present scalars of its source, a pool formula is compiled from its      *)
(* tree.  The assembler pushes one sample through all of them.             *)
(*                                                                         *)
(* Where the code takes a square root (Bollinger, the deviation of         *)
(* returns) the model keeps the square and quantises at squared edges.     *)
(***************************************************************************)
EXTENDS Illuminate

CONSTANTS
  Lookback,          \* kernel id -> the samples it reads (the code's 2 to 34)
  Fast, Slow, Signal,   \* the windows of MACD (the code's 12, 26, 9)
  HashOrder,         \* the formula ids in the order of their text
  Pools,             \* formula pools handed to the catalogue: sequences of [id, expr]
  Feed,              \* samples: a bar, and an optional funding, oi and premium
  MaxFeed            \* bound: samples between two resets

VARIABLES pool,      \* the pool of this catalogue
          kernels,   \* every kernel's window or compiled tree, in catalogue order
          row,       \* the last feature vector
          fed        \* the samples since the last reset
catalogueVars == <<pool, kernels, row, fed>>
----------------------------------------------------------------------------
(* Kernels over a window b of bars. *)
Percent(x) == Times(Whole(100), x)
Column(f, b) == [i \in 1..Len(b) |-> FieldValue(f, b[i])]
LastOf(s) == s[Len(s)]
MaxOf(s) == FoldLeft(MaxQ, s[1], s)
MinOf(s) == FoldLeft(MinQ, s[1], s)
(* The sum over the steps i-1 -> i of a window. *)
SumSteps(F(_), b) == SumQ([i \in 1..(Len(b) - 1) |-> F(i + 1)])

PctChange(from, to) == IF from = Zero THEN <<>> ELSE <<Percent(Minus(Over(to, from), One))>>
EmaWindow(v, period) ==
  FoldLeft(LAMBDA ema, x : Plus(ema, Times(Frac(2, period + 1), Minus(x, ema))), v[1], Tail(v))

SmaRatio(b) == PctChange(MeanQ(Column("close", b)), LastOf(b)["close"])
EmaRatio(b) == PctChange(EmaWindow(Column("close", b), Len(b)), LastOf(b)["close"])
Roc(b) == PctChange(b[1]["close"], LastOf(b)["close"])
(* 100 - 100/(1 + up/down); 100 where nothing went down. *)
Strength(up, down) ==
  IF down = Zero THEN Whole(100)
  ELSE Minus(Whole(100), Over(Whole(100), Plus(One, Over(up, down))))
Rsi(b) ==
  LET d(i) == Minus(b[i]["close"], b[i - 1]["close"])
      Up(i) == MaxQ(Zero, d(i))
      Down(i) == MaxQ(Zero, Negate(d(i)))
  IN  <<Strength(SumSteps(Up, b), SumSteps(Down, b))>>
Mfi(b) ==
  LET tp == Column("typical", b)
      flow(i) == Times(tp[i], b[i]["volume"])
      Pos(i) == IF Less(tp[i - 1], tp[i]) THEN flow(i) ELSE Zero
      Neg(i) == IF Less(tp[i], tp[i - 1]) THEN flow(i) ELSE Zero
  IN  <<Strength(SumSteps(Pos, b), SumSteps(Neg, b))>>
HighLow(b) == Minus(MaxOf(Column("high", b)), MinOf(Column("low", b)))
StochK(b) ==
  <<IF HighLow(b) = Zero THEN Whole(50)
    ELSE Percent(Over(Minus(LastOf(b)["close"], MinOf(Column("low", b))), HighLow(b)))>>
WilliamsR(b) ==
  <<IF HighLow(b) = Zero THEN Whole(-50)
    ELSE Negate(Percent(Over(Minus(MaxOf(Column("high", b)), LastOf(b)["close"]), HighLow(b))))>>
Cci(b) ==
  LET tp == Column("typical", b)
      mad == Aggregate("mad", tp)
  IN  <<IF mad = Zero THEN Zero
        ELSE Over(Minus(LastOf(tp), MeanQ(tp)), Times(Frac(3, 200), mad))>>
BbPercent(b) ==          \* ((%B - 1/2) * 4) squared with its sign: the z-score's square
  LET c == Column("close", b)
      d == Minus(LastOf(c), MeanQ(c))
  IN  <<IF Variance(c) = Zero THEN Zero ELSE Over(Squared(d), Variance(c))>>
BbBandwidth(b) ==        \* squared: (100 * 4 sd / mean)^2
  LET c == Column("close", b)
  IN  IF MeanQ(c) = Zero THEN <<>>
      ELSE <<Times(Whole(160000), Over(Variance(c), Squared(MeanQ(c))))>>
AroonOsc(b) ==
  LET n == Len(b)
      latest(f, best) == CHOOSE i \in 1..n : /\ b[i][f] = best
                                             /\ \A j \in (i + 1)..n : b[j][f] # best
      at(f, best) == Frac(latest(f, best) - 1, n - 1)
  IN  IF n < 2 THEN <<>>
      ELSE <<Percent(Minus(at("high", MaxOf(Column("high", b))), at("low", MinOf(Column("low", b)))))>>
AtrPct(b) ==
  LET TrueRange(i) == MaxQ(Minus(b[i]["high"], b[i]["low"]),
                        MaxQ(AbsQ(Minus(b[i]["high"], b[i - 1]["close"])),
                             AbsQ(Minus(b[i]["low"], b[i - 1]["close"]))))
      atr == Over(SumSteps(TrueRange, b), Whole(Len(b) - 1))
  IN  IF LastOf(b)["close"] = Zero THEN <<>> ELSE <<Percent(Over(atr, LastOf(b)["close"]))>>
StdReturns(b) ==         \* squared
  LET c == Column("close", b)
      rets == [i \in 1..(Len(c) - 1) |-> Minus(Over(c[i + 1], c[i]), One)]
  IN  IF \E i \in 1..(Len(c) - 1) : c[i] = Zero THEN <<>>
      ELSE <<Times(Whole(10000), Variance(rets))>>
VolumeRatio(b) ==
  LET mean == MeanQ(Column("volume", b))
  IN  IF mean = Zero THEN <<>> ELSE <<Over(LastOf(b)["volume"], mean)>>
SignedVolumeRatio(b) ==
  LET Total(i) == b[i]["volume"]
      Signed(i) == CASE Less(b[i - 1]["close"], b[i]["close"]) -> b[i]["volume"]
                     [] Less(b[i]["close"], b[i - 1]["close"]) -> Negate(b[i]["volume"])
                     [] OTHER -> Zero
  IN  IF SumSteps(Total, b) = Zero THEN <<>>
      ELSE <<Over(SumSteps(Signed, b), SumSteps(Total, b))>>
Cmf(b) ==
  LET mfm(i) == LET x == b[i]
                    range == Minus(x["high"], x["low"])
                IN  IF range = Zero THEN Zero
                    ELSE Over(Minus(Minus(x["close"], x["low"]), Minus(x["high"], x["close"])), range)
      vol == SumQ(Column("volume", b))
  IN  IF vol = Zero THEN <<>>
      ELSE <<Over(SumQ([i \in 1..Len(b) |-> Times(mfm(i), b[i]["volume"])]), vol)>>
MacdHist(b) ==
  LET c == Column("close", b)
      line == [k \in 1..(Len(c) - Slow + 1) |->
                 LET end == Slow - 1 + k
                 IN  Minus(EmaWindow(SubSeq(c, end - Fast + 1, end), Fast),
                           EmaWindow(SubSeq(c, end - Slow + 1, end), Slow))]
  IN  IF Len(c) < Slow + Signal - 1 \/ LastOf(c) = Zero THEN <<>>
      ELSE <<Percent(Over(Minus(LastOf(line), MeanQ(line)), LastOf(c)))>>
----------------------------------------------------------------------------
(* Flow kernels over a window r of scalars. *)
FlowRoc(r) == PctChange(r[1], LastOf(r))
(* A flow kernel reads one source; a sample without it leaves the window. *)
SourceOf(id) == CASE id \in {"funding_state", "funding_avg"} -> "funding"
                  [] id = "oi_roc" -> "oi"
                  [] id = "premium_state" -> "premium"
PriceIds == <<"sma_ratio", "ema_ratio", "rsi", "stoch_k", "williams_r", "roc", "return", "cci",
              "bb_percent", "bb_bandwidth", "mfi", "aroon_osc", "atr_pct", "std_returns",
              "volume_ratio", "signed_volume_ratio", "cmf", "macd_hist">>
FlowIds == <<"funding_state", "funding_avg", "oi_roc", "premium_state">>
IsPrice(id) == \E i \in 1..Len(PriceIds) : PriceIds[i] = id
IsFlow(id) == \E i \in 1..Len(FlowIds) : FlowIds[i] = id

RawValue(id, w) ==
  CASE id = "sma_ratio" -> SmaRatio(w)     [] id = "ema_ratio" -> EmaRatio(w)
    [] id = "rsi" -> Rsi(w)                [] id = "stoch_k" -> StochK(w)
    [] id = "williams_r" -> WilliamsR(w)   [] id \in {"roc", "return"} -> Roc(w)
    [] id = "cci" -> Cci(w)                [] id = "bb_percent" -> BbPercent(w)
    [] id = "bb_bandwidth" -> BbBandwidth(w) [] id = "mfi" -> Mfi(w)
    [] id = "aroon_osc" -> AroonOsc(w)     [] id = "atr_pct" -> AtrPct(w)
    [] id = "std_returns" -> StdReturns(w) [] id = "volume_ratio" -> VolumeRatio(w)
    [] id = "signed_volume_ratio" -> SignedVolumeRatio(w)
    [] id = "cmf" -> Cmf(w)                [] id = "macd_hist" -> MacdHist(w)
    [] id \in {"funding_state", "premium_state"} -> <<LastOf(w)>>
    [] id = "funding_avg" -> <<MeanQ(w)>>  [] id = "oi_roc" -> FlowRoc(w)

(* The range each kernel is quantised over. *)
Bounds(id) ==
  CASE id \in {"sma_ratio", "ema_ratio"} -> <<Whole(-10), Whole(10)>>
    [] id \in {"rsi", "stoch_k", "mfi"} -> <<Zero, Whole(100)>>
    [] id = "williams_r" -> <<Whole(-100), Zero>>
    [] id \in {"roc", "oi_roc"} -> <<Whole(-25), Whole(25)>>
    [] id = "return" -> <<Whole(-5), Whole(5)>>
    [] id = "cci" -> <<Whole(-200), Whole(200)>>
    [] id = "bb_percent" -> <<Whole(-4), Whole(4)>>           \* of the z-score
    [] id = "bb_bandwidth" -> <<Zero, Whole(20)>>
    [] id = "aroon_osc" -> <<Whole(-100), Whole(100)>>
    [] id \in {"atr_pct", "std_returns"} -> <<Zero, Whole(10)>>
    [] id = "volume_ratio" -> <<Zero, Whole(4)>>
    [] id \in {"signed_volume_ratio", "cmf"} -> <<Whole(-1), One>>
    [] id = "macd_hist" -> <<Whole(-2), Whole(2)>>
    [] id \in {"funding_state", "funding_avg", "premium_state"} -> <<Frac(-1, 100), Frac(1, 100)>>
Rooted == {"bb_percent", "bb_bandwidth", "std_returns"}
RootLinear(lo, hi, n, v) ==
  Cardinality({i \in 1..(n - 1) :
                 AtMostQ(Squared(Plus(lo, Times(Minus(hi, lo), Frac(i, n)))), v)})
CatalogueStates == Larger(States, 2)
QuantiseKernel(id, v) ==
  IF id \in Rooted THEN RootLinear(Bounds(id)[1], Bounds(id)[2], CatalogueStates, v)
                   ELSE Linear(Bounds(id)[1], Bounds(id)[2], CatalogueStates, v)
----------------------------------------------------------------------------
(* The catalogue: price, flow, then the pool's formulas by id. *)
PoolIds(p) == {p[i].id : i \in 1..Len(p)}
TreeOf(p, id) == p[CHOOSE i \in 1..Len(p) : p[i].id = id].expr
(* mutant: the formulas ride in the order the pool lists them *)
IdsAsListed(p) == PriceIds \o FlowIds \o [i \in 1..Len(p) |-> p[i].id]
Ids(p) == PriceIds \o FlowIds \o SelectSeq(HashOrder, LAMBDA id : id \in PoolIds(p))
LookbackOf(p, id) == IF id \in PoolIds(p) THEN MaxLookback(TreeOf(p, id)) ELSE Lookback[id]
FreshKernel(p, id) == IF id \in PoolIds(p) THEN CompileNode(TreeOf(p, id)) ELSE <<>>
FreshKernels(p) == [i \in 1..Len(Ids(p)) |-> FreshKernel(p, Ids(p)[i])]

(* Observe a sample; the value is there once the window is full. *)
UpdateWindow(p, id, w, s) ==
  IF IsPrice(id) THEN PushRoll(w, Lookback[id], s.bar)
  ELSE IF s[SourceOf(id)] = <<>> THEN w ELSE PushRoll(w, Lookback[id], s[SourceOf(id)][1])
StateOf(id, w) ==
  IF Len(w) < Lookback[id] THEN <<>>
  ELSE IF RawValue(id, w) = <<>> THEN <<>> ELSE <<QuantiseKernel(id, RawValue(id, w)[1])>>
Update(p, id, k, s) ==
  IF id \in PoolIds(p)
    THEN LET r == Eval(k, s.bar)
         IN  [kernel |-> r.node,
              state |-> IF r.val = <<>> THEN <<>>
                        ELSE <<Quantise(TreeOf(p, id).op, CatalogueStates, r.val[1])>>]
    ELSE LET w == UpdateWindow(p, id, k, s) IN [kernel |-> w, state |-> StateOf(id, w)]

CatalogueInit == pool \in Pools /\ kernels = FreshKernels(pool) /\ row = <<>> /\ fed = <<>>

Push ==
  /\ Len(fed) < MaxFeed
  /\ \E s \in Feed :
       LET done == [i \in 1..Len(kernels) |-> Update(pool, Ids(pool)[i], kernels[i], s)]
       IN  /\ kernels' = [i \in 1..Len(kernels) |-> done[i].kernel]
           /\ row' = [i \in 1..Len(kernels) |-> done[i].state]
           /\ fed' = Append(fed, s)
  /\ UNCHANGED pool

ResetAssembler ==
  /\ kernels' = [i \in 1..Len(kernels) |->
                   IF Ids(pool)[i] \in PoolIds(pool) THEN ClearNode(kernels[i]) ELSE <<>>]
  /\ fed' = <<>> /\ row' = <<>>
  /\ UNCHANGED pool

CatalogueNext == Push \/ ResetAssembler
RECURSIVE AssembleFrom(_, _, _)
AssembleFrom(p, ks, samples) ==
  IF samples = <<>> THEN <<>>
  ELSE LET done == [i \in 1..Len(ks) |-> Update(p, Ids(p)[i], ks[i], Head(samples))]
       IN  <<[i \in 1..Len(ks) |-> done[i].state]>>
           \o AssembleFrom(p, [i \in 1..Len(ks) |-> done[i].kernel], Tail(samples))
AssembleBatch(p, samples) == AssembleFrom(p, FreshKernels(p), samples)
----------------------------------------------------------------------------
(* The schema, its identity, and the stored form of a vector.  Formulas are
   compiled at the catalogue's own state count. *)
CatalogueVersion == 1
Schema(p) == [ids |-> Ids(p), version |-> CatalogueVersion, states |-> CatalogueStates]
SchemaLookback(p) == FoldLeft(Larger, 0, [i \in 1..Len(Ids(p)) |-> LookbackOf(p, Ids(p)[i])])
(* The hash of the ids is equal exactly when the ids are, in order. *)
FromConfig(p) == [version |-> CatalogueVersion, states |-> CatalogueStates,
                  idHash |-> Ids(p), pool |-> SelectSeq(HashOrder, LAMBDA id : id \in PoolIds(p))]
CurrentWithPool(hashes) ==
  LET sorted == SelectSeq(HashOrder, LAMBDA id : id \in hashes)
  IN  [version |-> CatalogueVersion, states |-> CatalogueStates,
       idHash |-> Ids(<<>>) \o sorted, pool |-> sorted]

NoneCode == 2 ^ 16 - 1
ToBytes(v, schema) ==
  <<schema.version, schema.states, Len(v) % 2 ^ 16>>
    \o [i \in 1..Len(v) |-> IF v[i] = <<>> THEN NoneCode ELSE v[i][1]]
FromBytes(bytes, schema) ==
  LET width == Len(schema.ids)
  IN  IF \/ Len(bytes) # 3 + width
         \/ bytes[1] # schema.version \/ bytes[2] # schema.states \/ bytes[3] # width
        THEN <<>>
      ELSE <<[i \in 1..width |-> IF bytes[3 + i] = NoneCode THEN <<>> ELSE <<bytes[3 + i]>>]>>

(* Funding is joined to the bar of the nearest hour (here of four units);
   of two prints that round alike the later wins. *)
Hour == 4
RoundToHour(ms) == ((ms + Hour \div 2) \div Hour) * Hour
FundingAt(prints, ms) ==
  LET at == {i \in 1..Len(prints) : RoundToHour(prints[i].time) = ms}
  IN  IF at = {} THEN <<>> ELSE <<prints[CHOOSE i \in at : \A j \in at : j <= i].rate>>
DecisionBars(n, prints) == [b \in 1..n |-> FundingAt(prints, (b - 1) * Hour)]
----------------------------------------------------------------------------
(* The samples a kernel of the catalogue may read. *)
Latest(s, n) == SubSeq(s, Larger(1, Len(s) - n + 1), Len(s))
Present(s, id) == SelectSeq(s, LAMBDA x : x[SourceOf(id)] # <<>>)
Reads(p, s, id) == IF IsFlow(id) THEN Latest(Present(s, id), Lookback[id])
                                 ELSE Latest(s, LookbackOf(p, id))

\* A feature depends on the samples its lookback names and on nothing
\* earlier: recomputed from those samples alone it is the same, whatever was
\* pushed before them and however often the assembler was reset.
LookbackExact ==
  LET used(i) == Reads(pool, fed, Ids(pool)[i])
  IN  fed # <<>> => \A u \in {used(i) : i \in 1..Len(row)} :
        LET again == IF u = <<>> THEN [i \in 1..Len(row) |-> <<>>] ELSE LastOf(AssembleBatch(pool, u))
        IN  \A i \in 1..Len(row) : used(i) = u => row[i] = again[i]

\* A state that is there is a state of the schema; bounded indicators never
\* leave the range they are quantised over, and the two readings of the same
\* range, stochastic and Williams, agree.
RangesHold ==
  /\ \A i \in 1..Len(row) : row[i] # <<>> => row[i][1] \in 0..(CatalogueStates - 1)
  /\ \A id \in {"rsi", "stoch_k", "williams_r", "mfi", "aroon_osc", "cmf", "signed_volume_ratio"} :
       \A n \in 2..Len(fed) :
         LET b == [j \in 1..n |-> fed[Len(fed) - n + j].bar]
             v == RawValue(id, b)
         IN  v # <<>> => AtMostQ(Bounds(id)[1], v[1]) /\ AtMostQ(v[1], Bounds(id)[2])
  /\ \A n \in 1..Len(fed) :
       LET b == [j \in 1..n |-> fed[j].bar]
       IN  Minus(StochK(b)[1], WilliamsR(b)[1]) = Whole(100)

\* A vector is stored and read back unchanged under its schema and refused
\* under a schema of another width or state count; and a catalogue's identity
\* is the same however its pool is listed, the one the loader recomputes from
\* the hashes, and no other pool's.
IdentityExact ==
  /\ row # <<>> =>
       /\ FromBytes(ToBytes(row, Schema(pool)), Schema(pool)) = <<row>>
       /\ \A p \in Pools : Len(Ids(p)) # Len(Ids(pool)) => FromBytes(ToBytes(row, Schema(pool)), Schema(p)) = <<>>
       /\ FromBytes(ToBytes(row, Schema(pool)), [Schema(pool) EXCEPT !.states = @ + 1]) = <<>>
  /\ FromConfig(pool) = CurrentWithPool(PoolIds(pool))
  /\ \A p \in Pools : FromConfig(p) = FromConfig(pool) <=> PoolIds(p) = PoolIds(pool)
  /\ \A i \in 1..Len(pool) : \E k \in 1..Len(Ids(pool)) : Ids(pool)[k] = pool[i].id

\* A funding print reaches exactly the bar of its hour in spite of the jitter
\* of its stamp.
FundingAligned ==
  \A j, k \in -1..1 :
    LET prints == <<[time |-> Hour + j, rate |-> 1], [time |-> 3 * Hour + k, rate |-> 2]>>
    IN  DecisionBars(5, prints) = <<<<>>, <<1>>, <<>>, <<2>>, <<>>>>

\* What the folds and the vintage rely on.
CatalogueSound == LookbackExact /\ RangesHold /\ IdentityExact /\ FundingAligned

\* The purge and the embargo are the schema's lookback, in bars: a feature
\* must not depend on a bar further back than that.  The code refutes it: a sparse
\* flow indicator looks back in prints, eight hours apart.
LookbackCoversBars ==
  fed # <<>> => row = LastOf(AssembleBatch(pool, Latest(fed, SchemaLookback(pool))))
=============================================================================
