------------------------------ MODULE Requests ------------------------------
(***************************************************************************)
(* A run request on its way to the job: the validation of                  *)
(* crates/server/src/runs/manager.rs, the command line spawn.rs builds,    *)
(* and the parser of crates/cli/src/lib.rs that reads it in another        *)
(* process.  The two ends are written apart and meet only in the words of  *)
(* the command line, so they are modelled apart.                           *)
(*                                                                         *)
(* A request is a function from the knobs it names to their values.  A     *)
(* word of the command line is <<"word", w>> or <<"number", n>>.           *)
(***************************************************************************)
EXTENDS Integers, Sequences, SequencesExt, FiniteSets, TLC

CONSTANTS HoldoutFloor, EmbargoFloor, PurgeFloor, MinWfoWindows, MinFolds,    \* qe_validation::steer
          MaxDepth, MaxNodes, MaxLookback, MaxK, Lattice,               \* EVOLVE_*
          TrainDefaults, EvolveDefaults, BacktestDefaults, IngestDefaults, \* parse_args' initial values
          BasisSatisfied,    \* whether the build's deflation basis is complete
          Split,             \* Split[w]: the words a comma-separated word holds
          StatesModulus,     \* 2^16: `--states` is read as usize and cast to u16
          ServerConfig,      \* the configuration file the server loaded
          AllRuns            \* the requests to try: [type, params, fee], fee being the gate's for a flow's backtest

VARIABLE request

Given(p, knob) == knob \in DOMAIN p
Blank == {"", " "}
Filled(p, knobs) == \A k \in knobs : Given(p, k) /\ p[k] \notin Blank
FloorKnob(p, knob, floor) == Given(p, knob) => p[knob] >= floor
CapKnob(p, knob, cap) == Given(p, knob) => p[knob] <= cap
Window == {"start", "end", "resolution"}

-----------------------------------------------------------------------------
(* build_spec and the validators.                                          *)
Blocklist == {"cost_stress_multiplier", "max_turnover_frac", "capacity_floor_usd", "dsr_cutoff", "pbo_cutoff", "ic_fdr_threshold"}

ValidBacktest(p) ==
  /\ Filled(p, {"vintage"} \union Window)
  /\ Given(p, "universe") /\ \E i \in DOMAIN p.universe : p.universe[i] \notin Blank
ValidTrain(p) ==
  /\ Filled(p, Window)
  /\ DOMAIN p \intersect Blocklist = {}
  /\ FloorKnob(p, "holdout", HoldoutFloor) /\ FloorKnob(p, "embargo", EmbargoFloor) /\ FloorKnob(p, "purge", PurgeFloor)
  /\ FloorKnob(p, "windows", MinWfoWindows) /\ FloorKnob(p, "folds", MinFolds)
  /\ DOMAIN p \intersect {"evolved_pool", "evolved_formulas"} = {}
ValidIngest(p) ==
  /\ Filled(p, Window)
  /\ \/ Given(p, "instruments") /\ \E i \in DOMAIN p.instruments : p.instruments[i] \notin Blank
     \/ Given(p, "fetch_all")
ValidEvolve(p) ==
  /\ Filled(p, Window)
  /\ Given(p, "mode") /\ p.mode = "production" => BasisSatisfied
  /\ CapKnob(p, "depth", MaxDepth) /\ CapKnob(p, "nodes", MaxNodes) /\ CapKnob(p, "lookback", MaxLookback) /\ CapKnob(p, "k", MaxK)
  /\ Given(p, "windows") => \A i \in DOMAIN p.windows : p.windows[i] \in Lattice

\* FlowParams::to_train_params copies every field under its own name.
ToTrainParams(p) == p

\* A flow or an evolve request without a seed does not deserialise.
AcceptedRequest(r) ==
  CASE r.type = "backtest" -> ValidBacktest(r.params)
    [] r.type = "train" -> ValidTrain(r.params)
    [] r.type = "evolve" -> Given(r.params, "seed") /\ ValidEvolve(r.params)
    [] r.type = "flow" -> Given(r.params, "seed") /\ ValidTrain(ToTrainParams(r.params))
    [] r.type = "ingest" -> ValidIngest(r.params)
    [] OTHER -> FALSE

-----------------------------------------------------------------------------
(* The command line.                                                       *)
Word(w) == <<"word", w>>
Number(n) == <<"number", n>>
Flag(flag, token) == <<Word(flag), token>>
WordOf(p, knob, flag) == IF Given(p, knob) THEN Flag(flag, Word(p[knob])) ELSE <<>>
NumberOf(p, knob, flag) == IF Given(p, knob) THEN Flag(flag, Number(p[knob])) ELSE <<>>
EachOf(p, knob, flag) == IF Given(p, knob) THEN FlattenSeq([i \in DOMAIN p[knob] |-> Flag(flag, Word(p[knob][i]))]) ELSE <<>>
SwitchOf(p, knob, flag) == IF Given(p, knob) THEN <<Word(flag)>> ELSE <<>>
Orders(p) == WordOf(p, "start", "--start") \o WordOf(p, "end", "--end") \o WordOf(p, "resolution", "--resolution")
Profiled(p) == WordOf(p, "config", "--config") \o WordOf(p, "profile", "--profile")
Ending == Flag("--run-dir", Word("dir")) \o <<Word("--json")>>

BacktestArgs(p) ==
  <<Word("backtest")>> \o WordOf(p, "vintage", "--vintage") \o WordOf(p, "strategy", "--strategy") \o Orders(p)
    \o EachOf(p, "universe", "--universe") \o NumberOf(p, "taker_fee_bps", "--taker-fee-bps")
    \o WordOf(p, "slippage_model", "--slippage-model") \o Ending

TrainArgs(p, flow) ==
  <<Word("train")>> \o (IF flow THEN <<Word("--flow")>> ELSE <<>>) \o Profiled(p) \o Orders(p)
    \o NumberOf(p, "seed", "--seed") \o NumberOf(p, "generations", "--generations")
    \o NumberOf(p, "population", "--population") \o NumberOf(p, "holdout", "--holdout")
    \o NumberOf(p, "embargo", "--embargo") \o EachOf(p, "indicator_subset", "--indicator")
    \o NumberOf(p, "windows", "--windows") \o NumberOf(p, "folds", "--folds") \o Ending

EvolveArgs(p) ==
  <<Word("evolve")>> \o Profiled(p)
    \o Flag("--mode", Word(IF Given(p, "mode") THEN p.mode ELSE "sandbox")) \o Orders(p)
    \o NumberOf(p, "seed", "--seed") \o NumberOf(p, "generations", "--generations")
    \o NumberOf(p, "offspring", "--offspring") \o NumberOf(p, "states", "--states")
    \o NumberOf(p, "k", "--k") \o Ending

IngestArgs(p) ==
  <<Word("ingest")>> \o Orders(p) \o EachOf(p, "instruments", "--instrument")
    \o SwitchOf(p, "fetch_all", "--fetch-all") \o SwitchOf(p, "synthetic", "--synthetic") \o Ending

\* JobSpawner: a flow is spawned as its train phase.
CommandLine(r) ==
  CASE r.type = "backtest" -> BacktestArgs(r.params)
    [] r.type = "train" -> TrainArgs(r.params, FALSE)
    [] r.type = "flow" -> TrainArgs(ToTrainParams(r.params), TRUE)
    [] r.type = "evolve" -> EvolveArgs(r.params)
    [] r.type = "ingest" -> IngestArgs(r.params)

-----------------------------------------------------------------------------
(* parse_args: what each flag reads, and the option it sets.               *)
CommonFlags ==
  "--run-dir" :> <<"word", "run_dir">> @@ "--json" :> <<"switch", "json">> @@ "--start" :> <<"word", "start">>
    @@ "--end" :> <<"word", "end">> @@ "--resolution" :> <<"word", "resolution">>
ConfigFlags == "--config" :> <<"word", "config">>
SearchFlags ==
  ConfigFlags @@ "--profile" :> <<"profile", "profile">> @@ "--seed" :> <<"number", "seed">> @@ "--generations" :> <<"number", "generations">>
TrainFlags ==
  SearchFlags @@ "--population" :> <<"number", "population">> @@ "--holdout" :> <<"number", "holdout">>
    @@ "--embargo" :> <<"number", "embargo">> @@ "--indicator" :> <<"each", "indicator_subset">>
    @@ "--windows" :> <<"number", "windows">> @@ "--folds" :> <<"number", "folds">>
    @@ "--flow" :> <<"switch", "flow">> @@ "--pool" :> <<"word", "pool">>
EvolveFlags ==
  SearchFlags @@ "--mode" :> <<"mode", "mode">> @@ "--offspring" :> <<"number", "offspring">>
    @@ "--states" :> <<"states", "states">> @@ "--k" :> <<"number", "k">>
BacktestFlags ==
  "--vintage" :> <<"word", "vintage">> @@ "--strategy" :> <<"word", "strategy">> @@ "--universe" :> <<"commas", "universe">>
    @@ "--taker-fee-bps" :> <<"number", "taker_fee_bps">> @@ "--slippage-model" :> <<"word", "slippage_model">>
    @@ "--reporting-impact" :> <<"number", "reporting_impact">>
IngestFlags ==
  ConfigFlags @@ "--instrument" :> <<"each", "instruments">> @@ "--fetch-all" :> <<"switch", "fetch_all">>
    @@ "--synthetic" :> <<"switch", "synthetic">>

FlagsOf(command) ==
  CommonFlags @@ (CASE command = "train" -> TrainFlags
                    [] command = "evolve" -> EvolveFlags
                    [] command = "backtest" -> BacktestFlags
                    [] command = "ingest" -> IngestFlags)
DefaultsOf(command) ==
  CASE command = "train" -> TrainDefaults
    [] command = "evolve" -> EvolveDefaults
    [] command = "backtest" -> BacktestDefaults
    [] command = "ingest" -> IngestDefaults

Profiles == {"train", "runtime-sim", "runtime-live"}
\* Any word is a value, a flag's name too.
Readable(kind, token) ==
  CASE kind \in {"number", "states"} -> token[1] = "number"
    [] kind = "profile" -> token[1] = "word" /\ token[2] \in Profiles
    [] kind = "mode" -> token[1] = "word" /\ token[2] \in {"sandbox", "production"}
    [] OTHER -> TRUE
Read(options, kind, name, token) ==
  CASE kind = "states" -> (name :> (token[2] % StatesModulus)) @@ options
    [] kind = "each" -> (name :> Append(IF Given(options, name) THEN options[name] ELSE <<>>, token[2])) @@ options
    [] kind = "commas" -> (name :> ((IF Given(options, name) THEN options[name] ELSE <<>>) \o SelectSeq(Split[token[2]], LAMBDA w : w \notin Blank))) @@ options
    [] OTHER -> (name :> token[2]) @@ options

ParseToken(flags, st, token) ==
  IF st.error # "none" THEN st
  ELSE IF st.flag # "none"
       THEN IF Readable(flags[st.flag][1], token)
            THEN [st EXCEPT !.flag = "none", !.options = Read(@, flags[st.flag][1], flags[st.flag][2], token)]
            ELSE [st EXCEPT !.error = "bad value"]
       ELSE IF token[1] = "word" /\ token[2] \in DOMAIN flags
            THEN IF flags[token[2]][1] = "switch" THEN [st EXCEPT !.options = (flags[token[2]][2] :> TRUE) @@ @]
                 ELSE [st EXCEPT !.flag = token[2]]
            ELSE [st EXCEPT !.error = "unknown flag"]

Required(command) == IF command = "evolve" THEN {"seed"} ELSE IF command = "backtest" THEN {"vintage"} ELSE {}
ParseArgs(argv) ==
  LET command == argv[1][2]
      flags   == FlagsOf(command)
      st      == FoldLeft(LAMBDA s, t : ParseToken(flags, s, t), [options |-> <<>>, flag |-> "none", error |-> "none"], Tail(argv))
  IN  IF st.error # "none" \/ st.flag # "none" \/ ~(Required(command) \subseteq DOMAIN st.options)
      THEN [error |-> "usage"]
      ELSE [error |-> "none", command |-> command, options |-> st.options @@ DefaultsOf(command)]

\* Where the job's own start reads its configuration from.
ConfigOf(command) == IF command.command = "backtest" THEN ServerConfig ELSE command.options.config

-----------------------------------------------------------------------------
(* The backtest of a flow is built from what its train phase left.         *)
FlowSlippageModel == "square-root-impact"
FlowBacktestParams(vintage, handoff) ==
  [vintage |-> vintage, start |-> handoff.start, end |-> handoff.end, resolution |-> handoff.resolution,
   universe |-> <<handoff.instrument>>, taker_fee_bps |-> handoff.fee, slippage_model |-> FlowSlippageModel]
FlowCostParityOk(p, fee) == p.taker_fee_bps = fee /\ p.slippage_model = FlowSlippageModel

RequestsInit == request \in AllRuns

-----------------------------------------------------------------------------
(* Properties.                                                             *)
\* The knobs of a request that a flag exists for.
Carried(type) ==
  CASE type = "backtest" -> {"vintage", "strategy", "start", "end", "resolution", "taker_fee_bps", "slippage_model"}
    [] type \in {"train", "flow"} -> Window \union {"config", "profile", "seed", "generations", "population", "holdout", "embargo", "windows", "folds"}
    [] type = "evolve" -> Window \union {"config", "profile", "mode", "seed", "generations", "offspring", "states", "k"}
    [] type = "ingest" -> Window \union {"fetch_all", "synthetic"}
AsIf(p, knob) == IF Given(p, knob) THEN p[knob] ELSE <<>>

\* What the server accepts is what the job runs: its command line parses (a
\* profile's name, the one word left to the job, apart), every
\* knob that has a flag arrives with its value whatever the value looks like,
\* an omitted one is the parser's default, lists keep their order, only a flow
\* carves the holdout as one, and a run from the server never searches with a
\* pool; a flow's backtest is priced with the fee its gate was (build_spec, CliJobSpawner, parse_args).
AcceptedIsRun ==
  LET r == request  p == r.params  c == ParseArgs(CommandLine(r))  type == r.type
  IN  AcceptedRequest(r) /\ (Given(p, "profile") => p.profile \in Profiles) =>
        /\ c.error = "none"
        /\ \A k \in Carried(type) : Given(c.options, k) =>
             c.options[k] = IF Given(p, k) THEN p[k] ELSE DefaultsOf(c.command)[k]
        /\ \A k \in Carried(type) : Given(p, k) => Given(c.options, k)
        /\ type \in {"train", "flow"} =>
             /\ Given(c.options, "flow") <=> type = "flow"
             /\ ~Given(c.options, "pool")
             /\ AsIf(c.options, "indicator_subset") = AsIf(p, "indicator_subset")
        /\ type = "ingest" => AsIf(c.options, "instruments") = AsIf(p, "instruments")
        /\ type = "backtest" => /\ \A w \in Range(c.options.universe) : \E i \in DOMAIN p.universe : w \in Range(Split[p.universe[i]])
                                /\ c.options.universe # <<>>
                                /\ ~Given(c.options, "reporting_impact")
                                /\ r.fee > 0 => FlowCostParityOk(c.options, r.fee)

\* No job the server starts has a holdout under the compiled floor, whether
\* the request names one or leaves it out (validate_train, parse_args).  The code refutes it: the default of a
\* request that names none, 31, is not compared with the floor.
HoldoutFloored ==
  request.type \in {"train", "flow"} /\ AcceptedRequest(request) => ParseArgs(CommandLine(request)).options.holdout >= HoldoutFloor

\* Unless the request names a configuration, the job reads the one the server
\* loaded and checked its storage directories against (CliJobSpawner).  The code refutes it: train, evolve
\* and ingest never read the variable the server pins.
OneSourceOfTruth ==
  AcceptedRequest(request) /\ ~Given(request.params, "config") => ConfigOf(ParseArgs(CommandLine(request))) = ServerConfig
=============================================================================
