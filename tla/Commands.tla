------------------------------ MODULE Commands ------------------------------
(* The child process behind every run (qe-cli, cli/src/main.rs): a command     *)
(* loads its configuration, runs its job, leaves result.json in the run        *)
(* directory and reports on stdout, which the run manager parses.  The job or  *)
(* a write may fail, the reader of stdout may go away, and the process may be  *)
(* killed, between any two steps.  The jobs themselves are TrainJob, Backtest, *)
(* Illuminate and MarketStore; here a job ends well or with an error.          *)
EXTENDS Integers, Sequences, FiniteSets, FiniteSetsExt, SequencesExt

CONSTANTS CommandLines,   \* what the process may be started with
          Roster,         \* the configuration's flat `instruments` list
          AllKnown,       \* the names of the configuration's point-in-time universe
          Dated,          \* does any listing of that universe carry a date?
          BarTimes,       \* the bar times of the asked window
          MaxProgress     \* bound: progress lines of a job

VARIABLES command,  \* what this process was started with
          step,     \* where it stands
          out,      \* the lines it put on stdout
          pipe,     \* is somebody reading stdout?
          dir,      \* result.json and archive.json of the run directory
          sealed,   \* the root in which an evolve sealed its pool
          market,   \* the market store: the provenance of each instrument's bars
          todo,     \* the instruments an ingest has not come to
          outcome,  \* what an ingest reports: bars, survivorship
          exit      \* the process's exit

\* ParsedArgs: what the arguments of a command come to.
ASSUME CommandAssumption ==
  /\ CommandLines \subseteq
       [kind : {"backtest", "train", "evolve", "ingest"}, json : BOOLEAN, runDir : BOOLEAN, mode : {"sandbox", "production"},
        synthetic : BOOLEAN, http : BOOLEAN, fetchAll : BOOLEAN, explicit : Seq(STRING), window : {"ok", "bad"}]
  /\ Roster \in Seq(STRING) /\ AllKnown \in Seq(STRING)

commandVars == <<command, step, out, pipe, dir, sealed, market, todo, outcome, exit>>

NoName == ""
Ingest == command.kind = "ingest"
Terminals == {"done", "error"}
Provenance == IF command.synthetic THEN "synthetic" ELSE "real"

\* The process ends: a code, or a panic of println! on a closed stdout.
End(code) == step' = "over" /\ exit' = code
\* emit_done, emit_error and their like: one line, if anybody reads.
Emit(line) == out' = IF pipe = "open" THEN Append(out, line) ELSE out

\* main: an error that reaches it goes to stderr only; no line on stdout.
FailQuietly == End("1") /\ UNCHANGED out
\* The error arm of a command: a terminal line, best effort, then failure.
FailAloud == End("1") /\ IF command.json \/ Ingest THEN Emit("error") ELSE UNCHANGED out
Keep == UNCHANGED <<command, pipe, market, todo, outcome>>

----------------------------------------------------------------------------
(* backtest, train and evolve *)

\* Config::load fails, or the job starts.
Configure ==
  /\ step = "start"
  /\ (step' = "job" /\ UNCHANGED <<out, exit>>) \/ FailQuietly
  /\ UNCHANGED <<dir, sealed>>

\* A progress line: a closed stdout is ignored, or makes println! panic.
Progress(panics) ==
  /\ step = "job" /\ UNCHANGED <<dir, sealed>>
  /\ IF command.json /\ pipe = "closed" /\ panics
     THEN End("panic") /\ UNCHANGED out
     ELSE /\ Len(out) < MaxProgress /\ UNCHANGED <<step, exit>>
          /\ command.json /\ Emit("progress")

JobFails == step = "job" /\ FailAloud /\ UNCHANGED <<dir, sealed>>
JobEnds(root) == step = "job" /\ step' = "result" /\ sealed' = root /\ UNCHANGED <<out, exit, dir>>

\* fs::write of one file: the directory or the file cannot be made, the file
\* is truncated and then filled, or the filling fails.
Filling(file) == IF file = "result" THEN "filling result" ELSE "filling archive"
\* Mutant: a write that fails is passed over.
WriteFileAnyway(file, next) ==
  /\ UNCHANGED sealed
  /\ \/ step \in {file, Filling(file)} /\ step' = next /\ UNCHANGED <<out, exit, dir>>
     \/ step = file /\ step' = Filling(file) /\ dir' = [dir EXCEPT ![file] = "torn"] /\ UNCHANGED <<out, exit>>
     \/ step = Filling(file) /\ step' = next /\ dir' = [dir EXCEPT ![file] = "whole"] /\ UNCHANGED <<out, exit>>
WriteFile(file, next) ==
  /\ UNCHANGED sealed
  /\ \/ step \in {file, Filling(file)} /\ FailQuietly /\ UNCHANGED dir
     \/ step = file /\ step' = Filling(file) /\ dir' = [dir EXCEPT ![file] = "torn"] /\ UNCHANGED <<out, exit>>
     \/ step = Filling(file) /\ step' = next /\ dir' = [dir EXCEPT ![file] = "whole"] /\ UNCHANGED <<out, exit>>

\* The terminal line (its `?` turns a closed stdout into a failure), or the
\* human one (println! panics instead), and then success.
Announce ==
  /\ UNCHANGED <<dir, sealed>>
  /\ \/ /\ step = "say" /\ pipe = "open"
        /\ step' = "said" /\ out' = (IF command.json \/ Ingest THEN Append(out, "done") ELSE out)
        /\ UNCHANGED exit
     \/ step = "say" /\ pipe = "closed" /\ UNCHANGED out /\ End(IF command.json \/ Ingest THEN "1" ELSE "panic")
     \/ step = "said" /\ End("0") /\ UNCHANGED out

RunBacktestCommand ==
  /\ command.kind = "backtest" /\ Keep
  /\ Configure \/ Progress(FALSE) \/ JobFails \/ JobEnds("none") \/ WriteFile("result", "say") \/ Announce

RunTrainCommand ==
  /\ command.kind = "train" /\ Keep
  /\ Configure \/ Progress(TRUE) \/ JobFails \/ JobEnds("vintages") \/ WriteFile("result", "say") \/ Announce

\* Sandbox pools go under a research root that the production path never lists.
PoolRootFor(mode) == IF mode = "sandbox" THEN "research/pools" ELSE "pools"

RunEvolveCommand ==
  /\ command.kind = "evolve" /\ Keep
  /\ \/ Configure \/ Progress(TRUE) \/ JobFails \/ JobEnds(PoolRootFor(command.mode))
     \/ WriteFile("result", "archive") \/ WriteFile("archive", "say") \/ Announce

----------------------------------------------------------------------------
(* ingest *)

SurvivorshipUnsafe == ~Dated

\* --fetch-all takes the universe, an explicit list with a name in it is taken
\* as it is, and otherwise the configuration's roster stands.
ResolveIngestInstruments ==
  IF command.fetchAll THEN [names |-> AllKnown, unsafe |-> SurvivorshipUnsafe]
  ELSE IF \E i \in DOMAIN command.explicit : command.explicit[i] # NoName THEN [names |-> command.explicit, unsafe |-> FALSE]
  ELSE [names |-> Roster, unsafe |-> SurvivorshipUnsafe]

ParsesWindow == command.window = "ok"

StartIngest ==
  /\ step = "start" /\ UNCHANGED <<dir, sealed, market, pipe, command>>
  /\ \/ FailAloud /\ UNCHANGED <<todo, outcome>>            \* Config::load or Config::universe
     \/ ~ParsesWindow /\ FailAloud /\ UNCHANGED <<todo, outcome>>
     \/ /\ ParsesWindow /\ step' = "names" /\ UNCHANGED <<out, exit>>
        /\ todo' = ResolveIngestInstruments.names
        /\ outcome' = [outcome EXCEPT !.unsafe = ResolveIngestInstruments.unsafe]

\* The stored bars of one instrument.
Coverage(name) == Cardinality({t \in BarTimes : market[name][t] # "none"})

\* run_ingest for the next instrument: a blank name, a failed open or fetch
\* ends the command with what the earlier instruments stored left in place.
\* The bars commit first, the other series in transactions of their own.
\* Real ingest counts the fullest coverage found in the store so far, and
\* synthetic ingest the sum of the bars it generated.
IngestInstrument(fetches) ==
  /\ UNCHANGED <<dir, sealed, pipe, command>>
  /\ \/ step = "names" /\ todo # <<>> /\ FailAloud /\ UNCHANGED <<market, todo, outcome>>
     \/ /\ step = "names" /\ todo # <<>> /\ Head(todo) # NoName
        /\ \E ts \in fetches :
             market' = [market EXCEPT ![Head(todo)] = [t \in BarTimes |-> IF t \in ts THEN Provenance ELSE @[t]]]
        /\ step' = "series" /\ UNCHANGED <<out, exit, todo, outcome>>
     \/ step = "series" /\ FailAloud /\ UNCHANGED <<market, todo, outcome>>
     \/ /\ step = "series" /\ step' = "names" /\ todo' = Tail(todo) /\ UNCHANGED <<out, exit, market>>
        /\ outcome' = [outcome EXCEPT !.bars = IF command.synthetic THEN @ + Cardinality(BarTimes) ELSE Max({@, Coverage(Head(todo))})]
     \/ step = "names" /\ todo = <<>> /\ step' = "finish" /\ UNCHANGED <<out, exit, market, todo, outcome>>

\* finish_ingest: result.json when supervised, then the done line in any case.
FinishIngest ==
  /\ Keep
  /\ \/ /\ step = "finish" /\ step' = (IF command.runDir THEN "result" ELSE "say")
        /\ UNCHANGED <<out, exit, dir, sealed>>
     \/ WriteFile("result", "say")
     \/ Announce

RunSyntheticIngest == Ingest /\ command.synthetic /\ (StartIngest \/ IngestInstrument({BarTimes}) \/ FinishIngest)

\* The venue may hold any part of the window.
RunRealIngest == Ingest /\ ~command.synthetic /\ command.http /\ (StartIngest \/ IngestInstrument(SUBSET BarTimes) \/ FinishIngest)

\* Built without the `http` feature there is no decoder: an error line, whose
\* own failure is an error too, and failure.
RunRealIngestOffline ==
  /\ Ingest /\ ~command.synthetic /\ ~command.http /\ step = "start" /\ Keep
  /\ FailAloud /\ UNCHANGED <<dir, sealed>>

----------------------------------------------------------------------------
\* The server crashes: its child lives on with a stdout nobody reads.
ReaderGoes == step # "over" /\ pipe = "open" /\ pipe' = "closed" /\ UNCHANGED <<command, step, out, dir, sealed, market, todo, outcome, exit>>
\* A halt, a timeout or the machine ends the child.
Killed == step # "over" /\ End("killed") /\ UNCHANGED <<command, out, pipe, dir, sealed, market, todo, outcome>>

\* The instruments anybody may ask for.
Instruments == ToSet(Roster) \union ToSet(AllKnown) \union UNION {ToSet(c.explicit) : c \in CommandLines}

\* A run directory may hold the result of an earlier attempt.
CommandsInit ==
  /\ command \in CommandLines /\ step = "start" /\ out = <<>> /\ pipe = "open"
  /\ dir \in {[result |-> r, archive |-> r] : r \in {"none", "stale"}}
  /\ sealed = "none" /\ todo = <<>> /\ outcome = [bars |-> 0, unsafe |-> FALSE] /\ exit = "none"
  /\ \E p \in {"none", "synthetic"} : market = [n \in Instruments |-> [t \in BarTimes |-> p]]
CommandsNext ==
  \/ RunBacktestCommand \/ RunTrainCommand \/ RunEvolveCommand
  \/ RunSyntheticIngest \/ RunRealIngest \/ RunRealIngestOffline
  \/ ReaderGoes \/ Killed
CommandSpec == CommandsInit /\ [][CommandsNext]_commandVars

----------------------------------------------------------------------------
Said == ToSet(out)
Asked == ToSet(ResolveIngestInstruments.names)
Stored(n) == \A t \in BarTimes : market[n][t] = "synthetic"
\* Everything a reader of the done line goes on to open.
Delivered ==
  /\ command.runDir => dir.result = "whole"
  /\ command.kind = "evolve" => dir.archive = "whole" /\ (sealed = "pools") = (command.mode = "production")
  /\ command.kind = "train" => sealed = "vintages"
  /\ Ingest /\ command.synthetic => \A n \in Asked : Stored(n)

\* A done line is never said before what it announces is on disk: the run's own
\* result.json whole, an evolve's archive.json with it and its pool under the
\* root of its mode, every asked instrument of a synthetic ingest stored over the
\* whole window (main.rs:277-300, 411-430, 611-627), whatever failed or was killed.
DoneIsBacked == "done" \in Said => Delivered

\* The process succeeds only after it delivered and, to a supervisor, said so: a
\* reader that left turns success into failure even though the result is whole
\* (main.rs:283-289, 625-627).
ExitHonest == exit = "0" => Delivered /\ (command.json \/ Ingest => "done" \in Said)

\* At most one terminal line, and nothing after it (main.rs:237-302, 611-668).
OneTerminal == \A i \in 1 .. Len(out) - 1 : out[i] \notin Terminals

\* The doc of IngestOutcome.bars (main.rs:511), "Total bars written across all
\* instruments".  The code refutes it: a real ingest reports the fullest coverage
\* found in the store, old bars included (main.rs:816).
BarsAreTotal == step = "finish" => outcome.bars = FoldSeq(LAMBDA n, k : k + Coverage(n), 0, ResolveIngestInstruments.names)

\* What a supervised command owes the run manager.
CommandSound == DoneIsBacked /\ ExitHonest /\ OneTerminal

(* The inductive invariant: what each step of a command may rely on.       *)
Marks == {"none", "stale", "torn", "whole"}
Stocks == [BarTimes -> {"none", "synthetic", "real"}]
CommandTypes ==
  /\ command \in CommandLines
  /\ out \in Seq({"progress", "done", "error"})
  /\ dir \in [result : Marks, archive : Marks]
  /\ market \in [Instruments -> Stocks] /\ todo \in Seq(Instruments)
\* Nothing terminal is said before the end, and the exit is open until then.
NothingSaid ==
  /\ step \notin {"said", "over"} => Said \subseteq {"progress"}
  /\ step # "over" => exit = "none"
  /\ step = "said" /\ (command.json \/ Ingest) => "done" \in Said
\* What the steps after the job, and after a file, have behind them.
Written == {"archive", "filling archive", "say", "said"}
FilesBehind ==
  /\ step \in Written /\ (Ingest => command.runDir) => dir.result = "whole"
  /\ step \in {"say", "said"} /\ command.kind = "evolve" => dir.archive = "whole"
  /\ step \in Written \union {"result", "filling result"} =>
       /\ command.kind = "train" => sealed = "vintages"
       /\ command.kind = "evolve" => sealed = PoolRootFor(command.mode)
StockBehind ==
  /\ step = "series" => todo # <<>>
  /\ Ingest /\ command.synthetic =>
       /\ step \in {"names", "series"} => \A n \in Asked : n \in ToSet(todo) \/ Stored(n)
       /\ step = "series" => Stored(Head(todo))
       /\ step \in {"finish", "result", "filling result", "say", "said"} => \A n \in Asked : Stored(n)
CommandKept == CommandTypes /\ NothingSaid /\ FilesBehind /\ StockBehind /\ CommandSound
=============================================================================
