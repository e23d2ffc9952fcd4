----------------------------- MODULE MCTrading ------------------------------
(* Small instances of the live side: the hedger, the venue client and the    *)
(* stores.  The parts share no state, so each behaviour runs one of them.    *)
EXTENDS Cutover, Klines, Sizing, Venue, MarketStore, Series, Universe, DerivedCache

VARIABLE part
allVars == <<cvars, kvars, svars, venueAll, msVars, ingestVars, query, keyArgs, derivedVars, part>>

\* Strategy 1 is calibrated, strategy 2 is not.
KnownThresholds == 1 :> [slow |-> 20, med |-> 40, fast |-> 30]
TwoStrategies == {1, 2}
SomePaths == {<<>>, <<8, 10>>}
OneBoot == {<<<<8, 10>>, <<9>>>>}
SomeEquities == {0, 9, 12}

Rule(f, s) == [clauses |-> <<[enabled |-> TRUE, feature |-> f, lo |-> s, hi |-> s]>>, min |-> 1]
Pair(s, f) == [clauses |-> <<[enabled |-> TRUE, feature |-> 0, lo |-> s, hi |-> s],
                             [enabled |-> TRUE, feature |-> 1, lo |-> f, hi |-> f]>>, min |-> 2]
Strategy(long, short, hold, flip) ==
  [long |-> long, short |-> short, maxHolding |-> hold, exitOnOpposite |-> flip, size |-> 5000]

SomeVintages ==
     "a" :> [genomes |-> <<Strategy(Rule(0, 1), Rule(0, 0), 1, FALSE),
                           Strategy(Pair(1, 0), Rule(0, 0), 2, TRUE)>>, sound |-> TRUE]
  @@ "b" :> [genomes |-> <<Strategy(Pair(0, 1), Rule(0, 1), 2, TRUE),
                           Strategy(Rule(0, 1), Rule(0, 0), 1, TRUE)>>, sound |-> TRUE]
  @@ "c" :> [genomes |-> <<Strategy(Rule(0, 0), Rule(0, 1), 1, TRUE),
                           Strategy(Rule(0, 0), Rule(0, 1), 1, TRUE)>>, sound |-> FALSE]

TwoLegs == <<[weight |-> 6, size |-> 10], [weight |-> 4, size |-> 5]>>
NoLimits == [notional |-> Unset, leverage |-> Unset, gross |-> Unset, net |-> Unset,
             floor |-> Unset, ceiling |-> Unset, participation |-> Unset]
AllLimits == [notional |-> 2, leverage |-> 1, gross |-> 3, net |-> 2,
              floor |-> 30, ceiling |-> 60, participation |-> 40]
SomeLimits == {NoLimits, AllLimits, [NoLimits EXCEPT !.notional = 2, !.leverage = 1]}
              \union {[NoLimits EXCEPT ![k] = AllLimits[k]] : k \in DOMAIN NoLimits}
SomeMultipliers == {-1, 1, 4}
SomeCaps  == {Unset, 0, 1}
SomeMargins == {0, 2}
SomeAccounts == {-1, 0, 1, 4}
SomeAdvs  == {Unset, 0, 3}
TheTargets == {-6, 0, 6}
TheMarks == {1, 2, 3}

Req(k, e, w) == [key |-> k, end |-> e, weight |-> w]
SomeRequests == {Req("a", 2, 1), Req("b", 2, 2), Req("c", 9, 1), Req("d", 0, 3)}
SomeFollow == [r \in SomeRequests |-> IF r.key = "a" THEN Req("c", 9, 1) ELSE NoPage]
Cadences == "kline" :> 1 @@ "book" :> 0
SomeWindows == {<<0, 1>>, <<0, 4>>, <<2, 3>>}

SomeYearMonths == {<<2023, 11>>, <<2023, 12>>, <<2024, 2>>}
SomeDates == {<<2023, 12, 31>>, <<2024, 2, 29>>, <<2023, 2, 29>>}
NoQuery == [from |-> <<2024, 1>>, to |-> <<2024, 1>>, members |-> <<>>]
NoKeys == LET k == [sym |-> <<1>>, res |-> 0, id |-> <<>>, lookback |-> 1, time |-> 0] IN <<k, k>>
SomeNames == {<<>>, <<1>>, <<1, 1>>}
SomeKeyTimes == {-8, -1, 0, 7}

TwoCovers == "old" :> {1, 2} @@ "new" :> {2, 3}
TwoCatalogues == {[id |-> "plain", lookback |-> 5, shape |-> 8], [id |-> "pool", lookback |-> 5, shape |-> 9]}

MCInit ==
  /\ part \in {"cutover", "breakers", "klines", "marks", "desk", "shadow",
               "rest", "streams", "store", "series", "files", "universe", "keys", "derived"}
  /\ CutoverInit /\ KlineInit /\ SizingInit
  /\ IF part = "breakers" THEN LayerInit ELSE NoLayer
  /\ part # "desk" => book = [dirs |-> <<"none", "none">>, multiplier |-> 1, cap |-> 0]
  /\ RestInit /\ StreamInit /\ StoreInit /\ SeriesInit /\ FileInit /\ DerivedInit
  /\ IF part = "universe" THEN UniverseInit ELSE query = NoQuery
  /\ IF part = "keys" THEN StoreKeysInit ELSE keyArgs = NoKeys

hedgerVars == <<cvars, kvars, svars>>
platformVars == <<venueAll, msVars, ingestVars, query, keyArgs, derivedVars>>
HedgerNext ==
  \/ part = "cutover" /\ CutoverNext /\ UNCHANGED <<kvars, svars>>
  \/ part = "breakers" /\ LayerNext /\ UNCHANGED <<cutVars, kvars, svars>>
  \/ part = "klines" /\ KlineNext /\ UNCHANGED <<cvars, svars>>
  \/ part = "marks" /\ MarkNext /\ UNCHANGED <<cvars, svars>>
  \/ part = "desk" /\ DeskNext /\ UNCHANGED <<cvars, kvars>>
  \/ part = "shadow" /\ ShadowNext /\ UNCHANGED <<cvars, kvars>>

pure == <<query, keyArgs>>   \* chosen once
restOthers == <<hedgerVars, wsVars, msVars, ingestVars, pure, derivedVars, part>>
RestPart == part = "rest" /\ RestStep /\ UNCHANGED restOthers
PlatformNext ==
  \/ part = "streams" /\ StreamNext /\ UNCHANGED <<restVars, msVars, ingestVars, pure, derivedVars>>
  \/ part = "store" /\ StoreNext /\ UNCHANGED <<venueAll, ingestVars, pure, derivedVars>>
  \/ part = "series" /\ SeriesNext /\ UNCHANGED <<venueAll, msVars, pure, derivedVars>>
  \/ part = "files" /\ FileNext /\ UNCHANGED <<venueAll, msVars, pure, derivedVars>>
  \/ part = "derived" /\ DerivedNext /\ UNCHANGED <<venueAll, msVars, ingestVars, pure>>

MCNext ==
  \/ HedgerNext /\ UNCHANGED <<platformVars, part>>
  \/ RestPart
  \/ part = "rest" /\ (StartCall \/ RestTick) /\ UNCHANGED restOthers
  \/ PlatformNext /\ UNCHANGED <<hedgerVars, part>>

\* The client's own steps are the only ones that must go on.
MCSpec == MCInit /\ [][MCNext]_allVars /\ WF_allVars(RestPart)

\* The bars and marks an order is decided and priced on are what the venue
\* published: exact under repetition (live_kline.rs, live_mark.rs), and in the
\* store filled, coalesced and verified files, the months they are fetched for
\* and the calendar that counts them (fill.rs, fuse.rs, cache.rs, universe.rs),
\* under keys that order and separate the series (key.rs).  A breaker trips live
\* where its calibration saw the loss (calibration.rs).
InputsSound ==
  /\ part \in {"klines", "marks"} => CoarseExact /\ SmoothedBetween
  /\ part \in {"series", "files"} =>
       FillExact /\ LatestPartitionWins /\ MissingExact /\ QualityAgrees /\ VerifiedIsWhole
  /\ part = "universe" => TargetsExact /\ CalendarConsecutive
  /\ part = "keys" => ScanExact /\ IndicatorKeysDistinct
  /\ part = "breakers" => CalibrationParity
=============================================================================
