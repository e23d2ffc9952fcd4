----------------------------- MODULE MCOffline ------------------------------
(* Small instances of the offline side: the search's parts, the backtest, the *)
(* training jobs, and the server that accepts requests and lists results.     *)
(* The parts share no state, so each behaviour runs one of them.              *)
EXTENDS Splits, Screening, Variation, MapElites, QualityGate, Backtest, TrainJob, Commands, Requests, Session, TLC

VARIABLE part
splitVars == <<cut, comb, test, returns, screen>>
researchVars == <<splitVars, birth, searchVars, gateVars>>
serverVars == <<request, sessionVars, listVars>>
allVars == <<researchVars, btVars, trainVars, commandVars, serverVars, part>>

Cut(n, f, l, h, e, m, t, v, s) ==
  [bars |-> n, folds |-> f, lookback |-> l, horizon |-> h, embargo |-> e, mode |-> m, train |-> t, validate |-> v, step |-> s]
SomeCuts ==
  {Cut(n, f, l, h, e, "rolling", 0, v, 1) : n \in 0 .. 9, f \in 0 .. 4, l \in 0 .. 1, h \in 0 .. 1, e \in 0 .. 2, v \in {0, 2, 9}}
    \union {Cut(n, 2, l, 1, e, m, t, 2, s) : n \in {8, 12}, l \in 0 .. 1, e \in 0 .. 1, m \in {"rolling", "anchored"},
                                               t \in 1 .. 3, s \in 0 .. 2}
    \union {Cut(9, f, 0, 0, 0, "rolling", t, 1, 1) : f \in 5 .. 6, t \in 0 .. 6}
NoCut == Cut(0, 0, 0, 0, 0, "rolling", 0, 0, 0)
SomeTests ==
  {[minPaths |-> m, q |-> q, floor |-> 2, dsrs |-> d] : m \in {1, 4}, q \in {0, 5, 50},
     d \in {s \in UNION {[1 .. n -> 0 .. 3] : n \in 0 .. 5} : \A i \in 1 .. Len(s) - 1 : s[i] <= s[i + 1]}}
SomeMatrices == [1 .. 2 -> [1 .. 3 -> 0 .. 2]] \union [1 .. 4 -> [1 .. 2 -> 0 .. 1]] \union [1 .. 2 -> [1 .. 1 -> 0 .. 1]]
Clause(e, f, lo, hi) == [enabled |-> e, feature |-> f, lo |-> lo, hi |-> hi]
Genome2(a, b, c, d, hold, size) ==
  [long |-> [clauses |-> <<a, b>>, min |-> 1], short |-> [clauses |-> <<c, d>>, min |-> 3], maxHolding |-> hold,
   exitOnOpposite |-> TRUE, size |-> size]
On(f, lo, hi) == Clause(TRUE, f, lo, hi)
Off(f) == Clause(FALSE, f, 0, 0)
SomeSeeds == {Genome2(On(0, 0, 1), On(2, 1, 1), On(2, 0, 0), Off(0), 6, 10000),
              Genome2(On(2, 1, 0), Off(3), Off(0), Off(2), 0, 300),
              Genome2(On(1, 0, 1), On(0, 1, 1), On(3, 0, 3), On(0, 0, 0), 47, 5000)}
NoBirth == [parent |-> Repaired(Genome2(On(0, 0, 1), Off(0), Off(0), Off(0), 1, 1)), op |-> "idle",
            child |-> Repaired(Genome2(On(0, 0, 1), Off(0), Off(0), Off(0), 1, 1))]
FourFamilies == 0 :> 2 @@ 1 :> 0 @@ 2 :> 1 @@ 3 :> 2
FourLookbacks == 0 :> 14 @@ 1 :> 40 @@ 2 :> 15 @@ 3 :> 29
SomeNudges == {-500, 0, 500}
CellA == <<1, 1, 1>>
CellB == <<1, 2, 1>>
SomeNiches == {CellA, CellB}
Cand(n, l, s, m, f) == [name |-> n, long |-> l, short |-> s, mdl |-> m, fit |-> f]
SomeCandidates == {Cand(1, CellA, CellA, 3, 1), Cand(2, CellA, NoNiche, 2, 1), Cand(3, CellA, CellB, 2, -9),
                   Cand(4, CellB, CellA, 5, 2)}
LeastFit == -9
Minus == -99
SomeWindowed ==
  LET w == {<<0, 0>>, <<1, -1>>, <<1, 1>>, <<-1, 1>>, <<-1, 2>>, <<2, Wipe>>, <<-1, -1>>}
  IN  {<<>>} \union {<<a>> : a \in w} \union {<<a, b>> : a \in w, b \in w}
SomeGrowths == <<0, 2, MinusInfinity, -1, 1>>
Jit(t, f, a, b) == [trades |-> t, fit |-> f, cells |-> <<a, b>>]
SomeAssessments ==
  {[minTrades |-> 2, base |-> Jit(t, f, 1, c), jitters |-> j] : t \in {1, 2}, f \in {-2, 0, 2}, c \in {0, 1},
     j \in UNION {[1 .. n -> {Jit(2, 1, 1, 1), Jit(1, 2, 1, 0), Jit(2, -2, 1, 1), Jit(2, MinusInfinity, 2, 1)}] : n \in 0 .. 4}}
NoAssessment == [minTrades |-> 2, base |-> Jit(0, 0, 0, 0), jitters |-> <<>>]

\* Two folds of three bars; columns that follow the returns, oppose them, do so in
\* one fold only, are constant, cut short or late to warm up.
Seen(s) == [i \in DOMAIN s |-> <<s[i]>>]
SignalColumns ==
  {Seen(<<0, 1, 2, 0, 0, 1, 2>>), Seen(<<2, 1, 0, 1, 2, 1, 1>>), Seen(<<0, 1, 2, 1, 2, 1, 0>>), Seen(<<1, 1, 1, 1, 1, 1, 1>>),
   Seen(<<0, 2, 1, 0>>), <<<<>>, <<>>>> \o Seen(<<1, 0, 0, 2, 1>>)}
FirstScreen == [signals |-> <<>>, returns |-> <<0, 1, 2, 4, 0, 1, 3, 5>>, foldA |-> <<1, 2, 3>>, foldB |-> <<5, 6, 7>>, horizons |-> <<1>>]
SomeScreens == {[FirstScreen EXCEPT !.signals = c, !.horizons = h] :
                  c \in UNION {[1..n -> SignalColumns] : n \in 0..3}, h \in {<<>>, <<0>>, <<1>>, <<2, 1>>, <<1, 2>>}}
Falling(n, d) == (1000 * d) \div (d + n)
NoTest == [minPaths |-> 1, q |-> 5, floor |-> 2, dsrs |-> <<>>]

MCClause(f, lo, hi) == [enabled |-> TRUE, feature |-> f, lo |-> lo, hi |-> hi]
OneGenome ==
  [long |-> [clauses |-> <<MCClause(0, 1, 3)>>, min |-> 1], short |-> [clauses |-> <<MCClause(0, 4, 4)>>, min |-> 1],
   maxHolding |-> 2, exitOnOpposite |-> TRUE, size |-> 10000]
Quiet == <<999999, 0>>
MCFeature(x) == 0 :> x
MCBars ==
  {[price |-> b[1], volume |-> b[2], funding |-> b[3], features |-> MCFeature(b[4]), rolls |-> b[5]] :
     b \in {<<6, 10, 0, 2, Quiet>>, <<6, 10, 0, 4, Quiet>>, <<6, 10, 0, 0, Quiet>>, <<3, 5, 2, 3, Quiet>>, 
            <<0, 0, 0, 4, Quiet>>, <<1, 10, 0, 0, Quiet>>, <<25, 10, 1, 4, Quiet>>, <<6, 10, -1, 2, <<5, 4>>>>}}
MCEvents ==
  {[kind |-> "fill", side |-> s, qty |-> q, price |-> p, adv |-> 4, liquidity |-> l] :
     s \in {"buy", "sell"}, q \in {1, 2}, p \in {20160, 40320}, l \in {"taker", "maker"}}
  \union {[kind |-> "funding", rate |-> r, price |-> 20160] : r \in {-1, 2}}


\* Requests: one that earns its promotion, and what can be wrong with it.
Good == [series |-> 9, dsr |-> 96, pbo |-> 10, spa |-> 4, inSharpe |-> 3, outSharpe |-> 2, outLen |-> 30, paths |-> TRUE,
         weight |-> 1, net |-> 5]
GoodSearch == [elites |-> 3, members |-> 2, valid |-> TRUE, occupied |-> 6]
Ask(id, h) ==
  [id |-> id, flow |-> TRUE, steered |-> FALSE, subset |-> 0, pool |-> NoPool, flaw |-> "none", holdout |-> h, train |-> <<1, 4>>,
   regimes |-> 2, present |-> 3, span |-> 16, generations |-> 2, windows |-> 2, search |-> GoodSearch, verdict |-> Good]
Formula(h, c, p) == [hash |-> h, canonical |-> c, parses |-> p]
GoodPool == [mode |-> "sandbox", gpAware |-> TRUE, evidence |-> {}, formulas |-> {Formula(1, 1, TRUE), Formula(2, 2, TRUE)},
             nTrials |-> 3, distinct |-> 7, analytic |-> 5, pbo |-> 60]
SomePools ==
  {GoodPool, [GoodPool EXCEPT !.mode = "production"], [GoodPool EXCEPT !.gpAware = FALSE],
   [GoodPool EXCEPT !.evidence = {[hash |-> 1, passes |-> TRUE]}],
   [GoodPool EXCEPT !.evidence = {[hash |-> 1, passes |-> TRUE], [hash |-> 2, passes |-> FALSE]}],
   [GoodPool EXCEPT !.evidence = {[hash |-> 1, passes |-> TRUE], [hash |-> 2, passes |-> TRUE]}, !.pbo = 5],
   [GoodPool EXCEPT !.formulas = {Formula(1, 2, TRUE)}], [GoodPool EXCEPT !.formulas = {Formula(1, 1, FALSE)}],
   [GoodPool EXCEPT !.nTrials = 0, !.distinct = 0, !.analytic = 0], [GoodPool EXCEPT !.pbo = NotFinite], [GoodPool EXCEPT !.distinct = 99]}
Base == Ask(1, <<7, 9>>)
EvidenceRequests ==
  {[Base EXCEPT !.verdict = v, !.search = s, !.steered = t, !.subset = 1] : t \in BOOLEAN,
     s \in {[GoodSearch EXCEPT !.elites = e, !.members = m, !.valid = ok, !.occupied = o] :
              e \in 0 .. 2, m \in 0 .. 1, ok \in BOOLEAN, o \in {4, 5, 60}},
     v \in {Good, [Good EXCEPT !.series = 7], [Good EXCEPT !.dsr = 95], [Good EXCEPT !.dsr = NotFinite], [Good EXCEPT !.pbo = 50],
            [Good EXCEPT !.spa = 5], [Good EXCEPT !.outLen = 29], [Good EXCEPT !.outSharpe = 1], [Good EXCEPT !.inSharpe = NotFinite],
            [Good EXCEPT !.outSharpe = NotFinite], [Good EXCEPT !.paths = FALSE], [Good EXCEPT !.weight = NotFinite]}}
  \union {[Base EXCEPT !.pool = p, !.verdict = [Good EXCEPT !.series = n]] : p \in SomePools, n \in {7, 9}}
  \union {[Base EXCEPT !.flaw = e] : e \in Range(Opening) \union {"config"}}
  \union {[Base EXCEPT !.flow = f, !.regimes = n, !.train = <<1, t>>, !.present = p] : f \in BOOLEAN, n \in 0 .. 2, t \in 0 .. 2, p \in 1 .. 3}
SharingRequests(j) ==
  CASE j = 1 -> {Base}
    [] j = 2 -> {Base, Ask(2, <<8, 10>>), Ask(3, <<9, 12>>)}
    [] j = 3 -> {Ask(2, <<8, 10>>), [Ask(2, <<8, 10>>) EXCEPT !.flow = FALSE],
                 [Ask(4, <<9, 10>>) EXCEPT !.train = <<3, 8>>, !.verdict.net = 9]}
AllRequests == EvidenceRequests \union UNION {SharingRequests(j) : j \in Jobs}
NoJob == [Fresh(Base) EXCEPT !.pc = "killed"]     \* never started

MCSplit == [w \in {"A", "B", "A,B", "", " ", "--json"} |-> IF w = "A,B" THEN <<"A", "B">> ELSE <<w>>]
MCTrainDefaults == [config |-> "config.toml", profile |-> "train", start |-> "", end |-> "", resolution |-> "1h", generations |-> 8,
                    population |-> 24, holdout |-> 31, embargo |-> 2]
MCEvolveDefaults == [config |-> "config.toml", profile |-> "train", mode |-> "sandbox", start |-> "", end |-> "", resolution |-> "1h",
                     generations |-> 8, offspring |-> 24, states |-> 5, k |-> 16]
MCBacktestDefaults == [start |-> "", end |-> "", resolution |-> "", universe |-> <<>>, taker_fee_bps |-> 2, slippage_model |-> "square-root-impact"]
MCIngestDefaults == [config |-> "config.toml", start |-> "", end |-> "", resolution |-> "", instruments |-> <<>>]

MCWindows == {[start |-> "d1", end |-> "d2", resolution |-> "4h"], [start |-> "--json", end |-> "d2", resolution |-> "1h"],
              [start |-> " ", end |-> "d2", resolution |-> "1h"], [start |-> "d1", end |-> "d2"]}
Optional(knob, values) == {<<>>} \union {knob :> v : v \in values}
MCTrain ==
  {w @@ h @@ i @@ f @@ c @@ s : w \in MCWindows, h \in Optional("holdout", {249, 250, 400}),
     i \in Optional("indicator_subset", {<<>>, <<"A", "B">>, <<"--flow">>}), f \in Optional("folds", {1, 2}) \union Optional("windows", {3, 4}),
     c \in Optional("config", {"other.toml"}) \union Optional("purge", {0, 1}) \union Optional("dsr_cutoff", {99}) \union Optional("evolved_pool", {"A"}) \union Optional("profile", {"train", "A"}),
     s \in Optional("seed", {7})}
MCEvolve ==
  {w @@ m @@ k @@ s @@ x : w \in MCWindows, m \in Optional("mode", {"sandbox", "production"}), k \in Optional("k", {16, 17}),
     s \in Optional("seed", {7}), x \in Optional("states", {5, 65535}) \union Optional("depth", {4, 5}) \union Optional("windows", {<<5, 100>>, <<6>>})
                                        \union Optional("offspring", {9}) \union Optional("nodes", {17}) \union Optional("lookback", {200})}
MCBacktest ==
  {w @@ v @@ u @@ f : w \in MCWindows, v \in Optional("vintage", {"v", " "}), u \in Optional("universe", {<<>>, <<" ">>, <<"A,B">>, <<"", "A">>, <<"--json">>}),
     f \in Optional("taker_fee_bps", {5}) \union Optional("strategy", {"0"})}
MCIngest ==
  {w @@ i @@ f @@ y : w \in MCWindows, i \in Optional("instruments", {<<>>, <<"A", "">>, <<"A", "B">>}), f \in Optional("fetch_all", {TRUE}),
     y \in Optional("synthetic", {TRUE})}
MCRun(type, ps) == {[type |-> type, params |-> p, fee |-> 0] : p \in ps}
MCHandoff == [start |-> "d1", end |-> "d2", resolution |-> "1h", instrument |-> "A", fee |-> 5]
MCAllRuns == MCRun("train", MCTrain) \union MCRun("flow", MCTrain) \union MCRun("evolve", MCEvolve) \union MCRun("backtest", MCBacktest)
               \union MCRun("ingest", MCIngest) \union MCRun("other", {<<>>})
               \union {[type |-> "backtest", params |-> FlowBacktestParams("v", MCHandoff), fee |-> MCHandoff.fee]}
MCOneRun == [type |-> "other", params |-> <<>>, fee |-> 0]

MCClaim(e) == [email |-> e, verified |-> TRUE, aud |-> "us", iss |-> "google", exp |-> 2]
MCClaims == {Refused, [MCClaim("ann") EXCEPT !.verified = FALSE], [MCClaim("ann") EXCEPT !.aud = "them"], [MCClaim("ann") EXCEPT !.iss = "x"],
             [MCClaim("") EXCEPT !.exp = 3], [email |-> "bob", verified |-> TRUE, aud |-> "us", iss |-> "google"],
             [email |-> "bob", aud |-> "us", iss |-> "google", exp |-> 3]} \union {MCClaim(e) : e \in Emails}
MCEnv(s, l, a, r) == [secret |-> s, loopback |-> l, allowed |-> a, roles |-> [operator |-> r, approver |-> {"ann"}]]
MCDeployments == {MCEnv("s", FALSE, {"ann", "bob"}, {"bob"}), MCEnv("s", FALSE, {"ann"}, {}), MCEnv("", TRUE, {"bob"}, {"bob"}), MCEnv("", FALSE, {"eve"}, {"eve"})}

MCCommand(k) == [kind |-> k, json |-> TRUE, runDir |-> TRUE, mode |-> "sandbox", synthetic |-> FALSE, http |-> TRUE, fetchAll |-> FALSE,
                 explicit |-> <<>>, window |-> "ok"]
MCCommands ==
  {[MCCommand(k) EXCEPT !.json = j, !.mode = m] : k \in {"backtest", "train", "evolve"}, j \in BOOLEAN, m \in {"sandbox", "production"}}
  \union {[MCCommand("ingest") EXCEPT !.runDir = d, !.synthetic = y, !.explicit = e, !.fetchAll = f] :
            d \in BOOLEAN, y \in BOOLEAN, e \in {<<>>, <<"">>, <<"A", "">>, <<"A", "C">>}, f \in BOOLEAN}
  \union {[MCCommand("ingest") EXCEPT !.json = FALSE, !.synthetic = y, !.http = ~y, !.window = w] : y \in BOOLEAN, w \in {"ok", "bad"}}
  \union {[MCCommand("ingest") EXCEPT !.http = FALSE]}
MCRoster == <<"A", "B">>
MCKnown == <<"A", "B", "C">>

NoCommand == /\ command = [kind |-> "none"] /\ step = "over" /\ out = <<>> /\ pipe = "open" /\ dir = <<>> /\ sealed = "none" /\ todo = <<>>
             /\ outcome = <<>> /\ exit = "none" /\ market = <<>>
NoSession == /\ server = [up |-> FALSE] /\ jar = <<>> /\ flights = {} /\ now = 0 /\ boots = 0 /\ logins = 0 /\ grant = NoGrant
NoList == index = <<>> /\ status = <<>> /\ entries = 0 /\ reader = [list |-> "none"]

MCInit ==
  /\ part \in {"splits", "paths", "pbo", "screen", "variation", "search", "gate", "robust",
               "bars", "ledger", "command", "evidence", "sharing", "requests", "session", "runs", "audit"}
  /\ IF part = "splits" THEN cut \in SomeCuts ELSE cut = NoCut
  /\ IF part = "paths" THEN test \in SomeTests ELSE test = NoTest
  /\ IF part = "pbo" THEN returns \in SomeMatrices ELSE returns = <<<<0>>, <<0>>>>
  /\ IF part = "screen" THEN screen \in SomeScreens ELSE screen = FirstScreen
  /\ IF part = "variation" THEN VariationInit ELSE birth = NoBirth
  /\ IF part = "requests" THEN RequestsInit ELSE request = MCOneRun
  /\ IF part = "robust" THEN assessment \in SomeAssessments ELSE assessment = NoAssessment
  /\ CASE part = "evidence" -> \E r \in EvidenceRequests : job = [j \in Jobs |-> IF j = 1 THEN Fresh(r) ELSE NoJob]
       [] part = "sharing" -> job \in {f \in [Jobs -> {Fresh(r) : r \in UNION {SharingRequests(j) : j \in Jobs}}] :
                                        \A j \in Jobs : f[j].request \in SharingRequests(j)}
       [] OTHER -> job = [j \in Jobs |-> NoJob]
  /\ files = [id \in Ids |-> Absent] /\ clock = 0 /\ kills = 0
  /\ IF part = "command" THEN CommandsInit ELSE NoCommand
  /\ IF part = "session" THEN SessionInit ELSE NoSession
  /\ IF part = "runs" THEN RunsInit ELSE IF part = "audit" THEN AuditInit ELSE NoList
  /\ MapElitesInit /\ records = <<>> /\ CombInit /\ BacktestInit

ResearchNext ==
  \/ part = "splits" /\ Combine /\ UNCHANGED <<screen, birth, searchVars, gateVars>>
  \/ part = "variation" /\ VariationNext /\ UNCHANGED <<splitVars, searchVars, gateVars>>
  \/ part = "search" /\ MapElitesNext /\ UNCHANGED <<splitVars, birth, gateVars>>
  \/ part = "gate" /\ GateNext /\ UNCHANGED <<splitVars, birth, searchVars>>
JobsNext ==
  \/ part = "bars" /\ BacktestNext /\ UNCHANGED <<trainVars, commandVars>>
  \/ part = "ledger" /\ LedgerNext /\ UNCHANGED <<trainVars, commandVars>>
  \/ part \in {"evidence", "sharing"} /\ TrainNext /\ UNCHANGED <<btVars, commandVars>>
  \/ part = "command" /\ CommandsNext /\ UNCHANGED <<btVars, trainVars>>
ServerNext ==
  \/ part = "session" /\ SessionNext /\ UNCHANGED <<request, listVars>>
  \/ part = "runs" /\ RunsNext /\ UNCHANGED <<request, sessionVars>>
  \/ part = "audit" /\ AuditNext /\ UNCHANGED <<request, sessionVars>>
MCNext ==
  \/ ResearchNext /\ UNCHANGED <<btVars, trainVars, commandVars, serverVars, part>>
  \/ JobsNext /\ UNCHANGED <<researchVars, serverVars, part>>
  \/ ServerNext /\ UNCHANGED <<researchVars, btVars, trainVars, commandVars, part>>
MCSpec == MCInit /\ [][MCNext]_allVars

\* Splits, paths, overfitting odds and the screen of indicators (qe-validation);
\* what the search owes its archive: sound offspring (variation.rs), credit, pool
\* and crowding that follow the scores (mapelites.rs, lifecycle.rs), and records
\* kept only for strategies that earned them (lifecycle.rs, robustness.rs); an
\* accepted request is run as it was checked (manager.rs, cli lib.rs), and pages
\* through the runs and the audit log miss and repeat nothing (api.rs, audit.rs).
ResearchSound ==
  /\ part \in {"splits", "paths", "pbo"} => SplitsSound
  /\ part = "screen" => ScreenSound
  /\ part = "variation" => OffspringSound
  /\ part = "search" => CreditSound /\ PoolSound /\ ParsimonyFree /\ CrowdingMutual
  /\ part \in {"gate", "robust"} => RecordsEarned /\ RobustElite
  /\ part = "requests" => AcceptedIsRun
  /\ part \in {"runs", "audit"} => PagesComplete
=============================================================================
