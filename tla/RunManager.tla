----------------------------- MODULE RunManager -----------------------------
(***************************************************************************)
(* The run supervisor of qe-server (crates/server/src/runs/manager.rs).    *)
(*                                                                         *)
(* A run is created by an HTTP handler, which persists meta.json, appends  *)
(* the run to index.json and spawns a supervisor task.  The supervisor     *)
(* waits for a permit of the worker pool (and of the evolve or flow lane), *)
(* spawns the qe-cli child, hands its working copy of the meta to a        *)
(* blocking drain worker, joins the worker and writes the outcome.  A flow *)
(* runs two children in sequence (train, then backtest).  Operators halt   *)
(* runs, the server shuts down gracefully or is killed, and on boot it     *)
(* reconciles the runs the previous process left behind.                   *)
(*                                                                         *)
(* An action is the code between two await points: a task is only ever     *)
(* cancelled at one.  The disk (meta, index, files) survives a crash;      *)
(* everything else is the memory of the process.                           *)
(***************************************************************************)
EXTENDS Naturals, Sequences, FiniteSets

CONSTANTS
  Runs,             \* run ids
  RunType,          \* RunType[r]: the type of the run with id r
  MaxConcurrency,   \* permits of the shared worker pool
  MaxEvolve,        \* permits of the evolve lane
  MaxFlow,          \* permits of the flow lane
  MaxHalts,         \* bound: halt requests in a behaviour
  MaxCrashes,       \* bound: hard kills of the server in a behaviour
  MaxSignals,       \* bound: graceful shutdowns in a behaviour
  Disconnects,      \* a client may drop its connection mid-request
  ChildrenSurvive,  \* a hard kill of the server leaves its children running
  PipesClose        \* a child may close both its pipes before it exits

Types == {"backtest", "train", "evolve", "flow", "ingest"}

ASSUME RunTypeAssumption == RunType \in [Runs -> Types]
ASSUME PermitAssumption  == {MaxConcurrency, MaxEvolve, MaxFlow} \subseteq Nat \ {0}
ASSUME BoundAssumption   == {MaxHalts, MaxCrashes, MaxSignals} \subseteq Nat
ASSUME EnvAssumption     == {Disconnects, ChildrenSurvive, PipesClose} \subseteq BOOLEAN

VARIABLES
  meta,       \* meta[r]: the content of <r>/meta.json
  index,      \* the run ids listed in index.json
  files,      \* files[r]: which result.json files exist under <r>/
  proc,       \* the phase of the server process
  accepting,  \* shutdown has not begun and the worker pool is open
  registry,   \* runs whose supervisor handle is registered
  creator,    \* creator[r]: the await point of the create request for r
  snap,       \* snap[r]: the index the create request for r has read
  sup,        \* sup[r]: the await point of r's supervisor task
  phase,      \* phase[r]: which child r's supervisor is running
  copy,       \* copy[r]: the working copy of the meta (supervisor or worker)
  child,      \* child[r]: the subprocess of r
  chan,       \* chan[r]: stdout lines forwarded to the drain worker
  worker,     \* worker[r]: the blocking drain worker of r
  pending,    \* pending[r]: the worker holds an update it has not persisted
  seen,       \* seen[r]: the worker saw the terminal `done` line
  late,       \* late[r]: the wall-clock ceiling was hit
  halter,     \* halter[r]: a halt request holds r's handle
  report,     \* report[r]: the last answer of a halt request for r
  shutSet,    \* handles shutdown has still to drain or abort
  bootTodo,   \* index entries the current boot pass has still to visit
  orphan,     \* orphan[r]: a child of r that outlived the server
  halts, crashes, signals

disk   == <<meta, index, files>>
task   == <<sup, phase, copy, child, chan, worker, pending, seen, late>>
server == <<proc, accepting, registry, shutSet, bootTodo>>
api    == <<creator, snap, halter, report>>
env    == <<orphan, halts, crashes, signals>>
vars   == <<disk, task, server, api, env>>

-----------------------------------------------------------------------------
Statuses == {"absent", "queued", "running", "succeeded", "failed"}
Phases   == {"main", "train", "backtest"}
DoneLines == {"done", "doneSealed"}
Exits    == {"exit0", "exit1"}
\* A child that runs: what it has said so far, or that it has closed its pipes.
Running  == {"quiet", "spoke", "said", "closed"}
Lines    == {"stage", "gatePass", "gateFail", "done", "doneSealed"}

\* `gate` is the verdict of the last gate line folded into meta.train.gate,
\* `sealed` says that a `done` line's vintage (or pool) has been recorded, and
\* the status "absent" stands for a missing meta.json.
Meta    == [status : Statuses, gate : {"none", "pass", "fail"}, sealed : BOOLEAN]
NoMeta  == [status |-> "absent", gate |-> "none", sealed |-> FALSE]
NewMeta == [status |-> "queued", gate |-> "none", sealed |-> FALSE]

\* HaltOutcome, with the status it carries.
Report   == [answer : {"none", "NotFound", "Halted", "AlreadyTerminal"}, status : Statuses]
NoReport == [answer |-> "none", status |-> "absent"]

Terminal(m)    == m.status \in {"succeeded", "failed"}
NonTerminal(m) == m.status \in {"queued", "running"}

\* The file the child of phase p writes: <r>/result.json, <r>/train/result.json
\* or <r>/backtest/result.json.
ResultOf(r) == phase[r]

Live(r)       == sup[r] \in {"pool", "lane", "drain", "join", "dereg"}
\* Mutant: the pool permit is not released when the task ends.
HoldsPoolLeak(r) == sup[r] \in {"lane", "drain", "join", "dereg", "gone"}
HoldsPool(r)  == sup[r] \in {"lane", "drain", "join"}
Undecided     == {"pool", "lane", "drain", "join"}
HoldsLane(r)  == sup[r] \in {"drain", "join"}
Serving       == proc = "up"
Working       == proc \in {"resume", "up", "stopping", "draining"}

LaneOf(t) == {q \in Runs : RunType[q] = t /\ HoldsLane(q)}
NeedsLane(r) == RunType[r] \in {"evolve", "flow"}
LaneLimit(r) == IF RunType[r] = "evolve" THEN MaxEvolve ELSE MaxFlow

PoolFree    == Cardinality({q \in Runs : HoldsPool(q)}) < MaxConcurrency
LaneFree(r) == Cardinality(LaneOf(RunType[r])) < LaneLimit(r)

\* A run whose train sub-job records a vintage, or whose job seals an artefact.
Seals(r) == \/ phase[r] = "train"
            \/ phase[r] = "main" /\ RunType[r] \in {"train", "evolve"}
Gates(r) == \/ phase[r] = "train"
            \/ phase[r] = "main" /\ RunType[r] = "train"

Prefixes(s) == {SubSeq(s, 1, n) : n \in 0 .. Len(s)}

-----------------------------------------------------------------------------
(* POST /api/runs: create.                                                 *)

\* The handler passes the `accepting` check and validation and starts the
\* blocking init_run.
CreateBegin(r) ==
  /\ Serving /\ accepting
  /\ creator[r] = "idle" /\ meta[r] = NoMeta
  /\ creator' = [creator EXCEPT ![r] = "init"]
  /\ UNCHANGED <<disk, task, server, snap, halter, report, env>>

\* init_run: the directory and the initial meta.json.
CreateInit(r) ==
  /\ creator[r] \in {"init", "initDropped"}
  /\ meta' = [meta EXCEPT ![r] = NewMeta]
  /\ creator' = [creator EXCEPT ![r] = IF @ = "init" THEN "lock" ELSE "idle"]
  /\ UNCHANGED <<index, files, task, server, snap, halter, report, env>>

\* Mutant: the index is updated without the lock.
IndexUnlocked == TRUE

IndexLockFree == \A q \in Runs : creator[q] # "index"

\* The read of the index read-modify-write, done with index_lock held.
CreateReadIndex(r) ==
  /\ creator[r] = "lock" /\ IndexLockFree
  /\ snap' = [snap EXCEPT ![r] = index]
  /\ creator' = [creator EXCEPT ![r] = "index"]
  /\ UNCHANGED <<disk, task, server, halter, report, env>>

\* The write of the index; the lock is released.
CreateWriteIndex(r) ==
  /\ creator[r] \in {"index", "indexDropped"}
  /\ index' = snap[r] \union {r}
  /\ snap'  = [snap EXCEPT ![r] = {}]
  /\ creator' = [creator EXCEPT ![r] = IF @ = "index" THEN "register" ELSE "idle"]
  /\ UNCHANGED <<meta, files, task, server, halter, report, env>>

\* init_run or the index update fails: the handler answers with the error.
CreateIoError(r) ==
  /\ creator[r] \in {"init", "index"}
  /\ creator' = [creator EXCEPT ![r] = "idle"]
  /\ snap' = [snap EXCEPT ![r] = {}]
  /\ UNCHANGED <<disk, task, server, halter, report, env>>

\* Under the registry lock: spawn the supervisor task and insert its handle.
CreateSpawn(r) ==
  /\ creator[r] = "register"
  /\ creator'  = [creator EXCEPT ![r] = "idle"]
  /\ registry' = registry \union {r}
  /\ sup'   = [sup EXCEPT ![r] = "pool"]
  /\ phase' = [phase EXCEPT ![r] = IF RunType[r] = "flow" THEN "train" ELSE "main"]
  /\ copy'  = [copy EXCEPT ![r] = NewMeta]
  /\ UNCHANGED <<disk, child, chan, worker, pending, seen, late, proc,
                 accepting, shutSet, bootTodo, snap, halter, report, env>>

\* The client goes away: the handler's future is dropped at its await point, and
\* with it the index lock.  A blocking step already started runs to its end.
CreateDropped(r) ==
  /\ Disconnects
  /\ creator[r] \in {"init", "lock", "index", "register"}
  /\ creator' = [creator EXCEPT ![r] = CASE @ = "init"  -> "initDropped"
                                         [] @ = "index" -> "indexDropped"
                                         [] OTHER       -> "idle"]
  /\ UNCHANGED <<disk, task, server, snap, halter, report, env>>

-----------------------------------------------------------------------------
(* The supervisor task: supervise, supervise_flow, supervise_flow_resume,  *)
(* flow_backtest_phase and drain_child.                                    *)

\* Set the status of the working copy and write it to meta.json.
WriteMeta(r, status) ==
  LET m == [copy[r] EXCEPT !.status = status]
  IN  /\ copy' = [copy EXCEPT ![r] = m]
      /\ meta' = [meta EXCEPT ![r] = m]

\* finish_failed on the working copy: write it as `failed` and return.  The
\* permits are released and the task goes on to deregister itself.
Fail(r) ==
  /\ WriteMeta(r, "failed")
  /\ sup'  = [sup EXCEPT ![r] = "dereg"]
  /\ UNCHANGED <<phase, child, chan, worker, pending, seen, late>>

Succeed(r) ==
  /\ WriteMeta(r, "succeeded")
  /\ sup'  = [sup EXCEPT ![r] = "dereg"]
  /\ UNCHANGED <<phase, child, chan, worker, pending, seen, late>>

\* Write the meta as `running`, spawn the child of phase p and its drain worker.
Spawn(r, p) ==
  /\ WriteMeta(r, "running")
  /\ phase'   = [phase EXCEPT ![r] = p]
  /\ sup'     = [sup EXCEPT ![r] = "drain"]
  /\ child'   = [child EXCEPT ![r] = "quiet"]
  /\ chan'    = [chan EXCEPT ![r] = <<>>]
  /\ worker'  = [worker EXCEPT ![r] = "draining"]
  /\ pending' = [pending EXCEPT ![r] = FALSE]
  /\ seen'    = [seen EXCEPT ![r] = FALSE]
  /\ late'    = [late EXCEPT ![r] = FALSE]

\* read_train_handoff: the holdout window and the costs, from train/result.json.
HandoffThere(r) == "train" \in files[r]

\* The permits are there: spawn the first child (a resumed flow is already in
\* its backtest phase, which needs the train handoff), or fail to.
Start(r) ==
  \/ /\ phase[r] = "backtest" => HandoffThere(r)
     /\ Spawn(r, phase[r])
  \/ Fail(r)

SupFrame == UNCHANGED <<index, files, server, api, env>>

AcquirePool(r) ==
  /\ Working /\ accepting
  /\ sup[r] = "pool" /\ PoolFree
  /\ IF NeedsLane(r)
       THEN /\ sup' = [sup EXCEPT ![r] = "lane"]
            /\ UNCHANGED <<meta, phase, copy, child, chan, worker, pending, seen, late>>
       ELSE Start(r)
  /\ SupFrame

\* shutdown closed the pool semaphore: "worker pool closed".
PoolClosed(r) ==
  /\ Working /\ ~accepting
  /\ sup[r] = "pool"
  /\ Fail(r)
  /\ SupFrame

AcquireLane(r) ==
  /\ Working
  /\ sup[r] = "lane" /\ LaneFree(r)
  /\ Start(r)
  /\ SupFrame

\* Both pipes are at end of file, because the child has exited or because it has
\* closed them: the sender is dropped with the read future.  The ceiling covers
\* the read only and is not looked at again.
ReadEof(r) ==
  /\ Working
  /\ sup[r] = "drain" /\ child[r] \in Exits \union {"closed"}
  /\ sup' = [sup EXCEPT ![r] = "join"]
  /\ UNCHANGED <<disk, phase, copy, child, chan, worker, pending, seen, late,
                 server, api, env>>

\* The ceiling elapses first: the read future is dropped, with it the lines not
\* forwarded yet, and the child is killed.
DeadlineFires(r) ==
  /\ Working
  /\ sup[r] = "drain"
  /\ sup'   = [sup EXCEPT ![r] = "join"]
  /\ child' = [child EXCEPT ![r] = IF @ = "exit0" THEN "exit0" ELSE "exit1"]
  /\ \E s \in Prefixes(chan[r]) : chan' = [chan EXCEPT ![r] = s]
  /\ late'  = [late EXCEPT ![r] = TRUE]
  /\ UNCHANGED <<disk, phase, copy, worker, pending, seen, server, api, env>>

\* Mutant: success does not look for result.json.
JobOkNoResult(r) == ~late[r] /\ seen[r] /\ child[r] = "exit0"

JobOk(r) == /\ ~late[r]
            /\ seen[r]
            /\ child[r] = "exit0"
            /\ ResultOf(r) \in files[r]

\* Mutant: the worker is left behind when the ceiling is hit.
OutcomeReadyUnjoined(r) ==
  sup[r] = "join" /\ (late[r] \/ worker[r] = "finished") /\ child[r] \in Exits

\* join_drain_worker and then child.wait() have returned; no deadline covers either.
OutcomeReady(r) == sup[r] = "join" /\ worker[r] = "finished" /\ child[r] \in Exits

\* The train phase of a flow is worth a backtest: it sealed a vintage and the G1
\* gate promoted it.
TrainPromoted(r) == JobOk(r) /\ copy[r].sealed /\ copy[r].gate = "pass"

\* Decide the outcome.
Conclude(r) ==
  /\ Working
  /\ OutcomeReady(r)
  /\ CASE phase[r] \in {"main", "backtest"} ->
            IF JobOk(r) THEN Succeed(r) ELSE Fail(r)
       [] phase[r] = "train" ->
            IF TrainPromoted(r)
              THEN Spawn(r, "backtest") \/ Fail(r)
              ELSE Fail(r)
  /\ SupFrame

\* registry.lock().await.remove(&task_id), the last thing the task does.
Deregister(r) ==
  /\ Working
  /\ sup[r] = "dereg"
  /\ registry' = registry \ {r}
  /\ sup' = [sup EXCEPT ![r] = "gone"]
  /\ UNCHANGED <<disk, phase, copy, child, chan, worker, pending, seen, late,
                 proc, accepting, shutSet, bootTodo, api, env>>

-----------------------------------------------------------------------------
(* The blocking drain worker (drain_worker).                               *)

\* Fold one line into the working copy.  The `done` line is always persisted;
\* another one on a stage change or after the flush interval, else it is
\* left pending.
WorkerLine(r) ==
  /\ worker[r] = "draining" /\ chan[r] # <<>>
  /\ chan' = [chan EXCEPT ![r] = Tail(@)]
  /\ LET line == Head(chan[r])
         m    == CASE line = "gatePass" -> [copy[r] EXCEPT !.gate = "pass"]
                   [] line = "gateFail" -> [copy[r] EXCEPT !.gate = "fail"]
                   [] line = "doneSealed" -> [copy[r] EXCEPT !.sealed = TRUE]
                   [] OTHER -> copy[r]
     IN /\ copy' = [copy EXCEPT ![r] = m]
        /\ seen' = [seen EXCEPT ![r] = @ \/ line \in DoneLines]
        /\ \/ /\ meta' = [meta EXCEPT ![r] = m]
              /\ pending' = [pending EXCEPT ![r] = FALSE]
           \/ /\ line \notin DoneLines
              /\ pending' = [pending EXCEPT ![r] = TRUE]
              /\ UNCHANGED meta
  /\ UNCHANGED <<index, files, sup, phase, child, worker, late, server, api,
                 env>>

\* The channel is empty and its sender dropped: flush what is pending, return.
WorkerFinish(r) ==
  /\ worker[r] = "draining" /\ chan[r] = <<>> /\ sup[r] # "drain"
  /\ meta' = IF pending[r] THEN [meta EXCEPT ![r] = copy[r]] ELSE meta
  /\ pending' = [pending EXCEPT ![r] = FALSE]
  /\ worker'  = [worker EXCEPT ![r] = "finished"]
  /\ UNCHANGED <<index, files, sup, phase, copy, child, chan, seen, late,
                 server, api, env>>

-----------------------------------------------------------------------------
(* The child of the spawner, qe-cli by default: prints its stage lines,    *)
(* writes result.json, prints `done` and exits.  Nothing is assumed of it  *)
(* but the order of its lines: it may exit at any time and with either     *)
(* status, or close its two pipes and run on.                              *)

ChildLine(r) ==
  /\ sup[r] = "drain" /\ child[r] = "quiet"
  /\ child' = [child EXCEPT ![r] = "spoke"]
  /\ \E line \in IF Gates(r) THEN {"gatePass", "gateFail"} ELSE {"stage"} :
       chan' = [chan EXCEPT ![r] = Append(@, line)]
  /\ UNCHANGED <<disk, sup, phase, copy, worker, pending, seen, late, server,
                 api, env>>

ChildResult(r) ==
  /\ sup[r] \in {"drain", "join"} /\ child[r] \in {"spoke", "closed"} /\ ResultOf(r) \notin files[r]
  /\ files' = [files EXCEPT ![r] = @ \union {ResultOf(r)}]
  /\ UNCHANGED <<meta, index, task, server, api, env>>

ChildDone(r) ==
  /\ sup[r] = "drain" /\ child[r] \in {"quiet", "spoke"}
  /\ child' = [child EXCEPT ![r] = "said"]
  /\ \E line \in IF Seals(r) THEN DoneLines ELSE {"done"} :
       chan' = [chan EXCEPT ![r] = Append(@, line)]
  /\ UNCHANGED <<disk, sup, phase, copy, worker, pending, seen, late, server,
                 api, env>>

ChildCloses(r) ==
  /\ PipesClose
  /\ sup[r] = "drain" /\ child[r] \in Running \ {"closed"}
  /\ child' = [child EXCEPT ![r] = "closed"]
  /\ UNCHANGED <<disk, sup, phase, copy, chan, worker, pending, seen, late,
                 server, api, env>>

ChildExit(r) ==
  /\ sup[r] \in {"drain", "join"} /\ child[r] \in Running
  /\ \E code \in Exits : child' = [child EXCEPT ![r] = code]
  /\ UNCHANGED <<disk, sup, phase, copy, chan, worker, pending, seen, late,
                 server, api, env>>

\* A child that outlived the server keeps going: its progress lines go nowhere
\* and their errors are ignored, its result.json is still written.
OrphanResult(r) ==
  /\ orphan[r] # "none"
  /\ files'  = [files EXCEPT ![r] = @ \union {orphan[r]}]
  /\ orphan' = [orphan EXCEPT ![r] = "none"]
  /\ UNCHANGED <<meta, index, task, server, api, halts, crashes, signals>>

-----------------------------------------------------------------------------
(* POST /api/runs/{id}/halt.                                               *)

\* abort() and the await of the handle: the task is dropped at its await point,
\* its child is killed on drop and the unforwarded lines are lost.  The drain
\* worker, a spawn_blocking task, is not cancelled.
Cancel(r) ==
  /\ sup'   = [sup EXCEPT ![r] = "gone"]
  /\ child' = [child EXCEPT ![r] = "none"]
  /\ \E s \in Prefixes(chan[r]) : chan' = [chan EXCEPT ![r] = s]
  /\ UNCHANGED <<phase, copy, worker, pending, seen, late>>

\* Mutant: a halt gets a status of its own.
MarkFailedAsHalted(r) ==
  meta' = IF NonTerminal(meta[r]) THEN [meta EXCEPT ![r].status = "halted"] ELSE meta

\* Mutant: the run is marked without looking at its status.
MarkFailedBlind(r) == meta' = [meta EXCEPT ![r].status = "failed"]

\* mark_halted and terminally_mark_interrupted: `failed`, unless already terminal.
MarkFailed(r) ==
  meta' = IF NonTerminal(meta[r]) THEN [meta EXCEPT ![r].status = "failed"] ELSE meta

\* The handle is in the registry: take it and abort the task.
HaltTake(r) ==
  /\ Serving /\ halts < MaxHalts
  /\ r \in registry
  /\ registry' = registry \ {r}
  /\ Cancel(r)
  /\ halter' = [halter EXCEPT ![r] = "marking"]
  /\ halts'  = halts + 1
  /\ UNCHANGED <<disk, proc, accepting, shutSet, bootTodo, creator, snap,
                 report, orphan, crashes, signals>>

\* mark_halted: `failed` unless the run is already terminal, then report.
HaltMark(r) ==
  /\ halter[r] = "marking"
  /\ MarkFailed(r)
  /\ halter' = [halter EXCEPT ![r] = "idle"]
  /\ report' = [report EXCEPT ![r] = [answer |-> "Halted", status |-> meta'[r].status]]
  /\ UNCHANGED <<index, files, task, server, creator, snap, env>>

\* No handle in the registry: answer from meta.json.
HaltNoHandle(r) ==
  /\ Serving /\ halts < MaxHalts
  /\ r \notin registry
  /\ r \in index \/ creator[r] = "idle"    \* the id has been published, or never will be
  /\ report' = [report EXCEPT ![r] =
                  [answer |-> IF meta[r] = NoMeta THEN "NotFound" ELSE "AlreadyTerminal",
                   status |-> meta[r].status]]
  /\ halts' = halts + 1
  /\ UNCHANGED <<disk, task, server, creator, snap, halter, orphan, crashes,
                 signals>>

HaltDropped(r) ==
  /\ Disconnects
  /\ halter[r] = "marking"
  /\ halter' = [halter EXCEPT ![r] = "idle"]
  /\ UNCHANGED <<disk, task, server, creator, snap, report, env>>

-----------------------------------------------------------------------------
(* Graceful shutdown (main.rs and RunManager::shutdown).                   *)

\* SIGTERM: no new request; axum lets the requests in flight finish.
Signal ==
  /\ Serving /\ signals < MaxSignals
  /\ proc' = "stopping"
  /\ signals' = signals + 1
  /\ UNCHANGED <<disk, task, accepting, registry, shutSet, bootTodo, api,
                 orphan, halts, crashes>>

\* shutdown: stop accepting, close the pool, take every handle.
ShutdownBegin ==
  /\ proc = "stopping"
  /\ \A r \in Runs : /\ creator[r] \in {"idle", "initDropped", "indexDropped"}
                     /\ halter[r] = "idle"
  /\ proc' = "draining"
  /\ accepting' = FALSE
  /\ shutSet'   = registry
  /\ registry'  = {}
  /\ UNCHANGED <<disk, task, bootTodo, api, env>>

\* The task finished within the drain window.
ShutdownDrained(r) ==
  /\ proc = "draining" /\ r \in shutSet
  /\ sup[r] = "gone"
  /\ shutSet' = shutSet \ {r}
  /\ UNCHANGED <<disk, task, proc, accepting, registry, bootTodo, api, env>>

\* The window is over: abort, await the cancellation, mark the run.
ShutdownAbort(r) ==
  /\ proc = "draining" /\ r \in shutSet
  /\ Cancel(r)
  /\ MarkFailed(r)
  /\ shutSet' = shutSet \ {r}
  /\ UNCHANGED <<index, files, proc, accepting, registry, bootTodo, api, env>>

\* The process is gone: everything in memory is lost.
MemoryLost ==
  /\ proc'      = "down"
  /\ accepting' = TRUE
  /\ registry'  = {}
  /\ shutSet'   = {}
  /\ bootTodo'  = {}
  /\ creator' = [r \in Runs |-> "idle"]
  /\ snap'    = [r \in Runs |-> {}]
  /\ halter'  = [r \in Runs |-> "idle"]
  /\ sup'     = [r \in Runs |-> "none"]
  /\ phase'   = [r \in Runs |-> "main"]
  /\ copy'    = [r \in Runs |-> NewMeta]
  /\ child'   = [r \in Runs |-> "none"]
  /\ chan'    = [r \in Runs |-> <<>>]
  /\ worker'  = [r \in Runs |-> "none"]
  /\ pending' = [r \in Runs |-> FALSE]
  /\ seen'    = [r \in Runs |-> FALSE]
  /\ late'    = [r \in Runs |-> FALSE]

\* main returns once every handle is settled; the runtime waits for the
\* blocking workers that are still running.
Exit ==
  /\ proc = "draining" /\ shutSet = {}
  /\ \A r \in Runs : worker[r] # "draining" /\ creator[r] = "idle"
  /\ MemoryLost
  /\ UNCHANGED <<disk, report, env>>

\* A hard kill.  kill_on_drop does not run, so a child may live on.
Crash ==
  /\ proc # "down" /\ crashes < MaxCrashes
  /\ MemoryLost
  /\ crashes' = crashes + 1
  /\ orphan'  = [r \in Runs |->
                   IF ChildrenSurvive /\ child[r] \in {"quiet", "spoke", "closed"}
                     THEN phase[r] ELSE orphan[r]]
  /\ UNCHANGED <<disk, report, halts, signals>>

-----------------------------------------------------------------------------
(* Boot: reconcile_orphans, then resume_orphaned_flows, then serve.        *)

\* classify_orphan: vintage recorded, train handoff there, backtest not done.
Resumable(r) == /\ RunType[r] = "flow"
                /\ meta[r].sealed
                /\ "train" \in files[r]
                /\ "backtest" \notin files[r]

Boot ==
  /\ proc = "down"
  /\ proc' = "reconcile"
  /\ bootTodo' = index
  /\ UNCHANGED <<disk, task, accepting, registry, shutSet, api, env>>

\* reconcile_orphans on one index entry.
Reconcile(r) ==
  /\ proc = "reconcile" /\ r \in bootTodo
  /\ meta' = IF NonTerminal(meta[r]) /\ ~Resumable(r)
               THEN [meta EXCEPT ![r].status = "failed"] ELSE meta
  /\ bootTodo' = bootTodo \ {r}
  /\ UNCHANGED <<index, files, task, proc, accepting, registry, shutSet, api,
                 env>>

ReconcileDone ==
  /\ proc = "reconcile" /\ bootTodo = {}
  /\ proc' = "resume"
  /\ bootTodo' = index
  /\ UNCHANGED <<disk, task, accepting, registry, shutSet, api, env>>

\* Mutant: a resumed flow starts over with its search.
ResumePhaseTrain == "train"

ResumePhase == "backtest"

\* Mutant: a flow that has already failed is resumed too.
ResumeFailedToo(r) ==
  /\ proc = "resume" /\ r \in bootTodo
  /\ bootTodo' = bootTodo \ {r}
  /\ IF Resumable(r)
       THEN /\ registry' = registry \union {r}
            /\ sup'   = [sup EXCEPT ![r] = "pool"]
            /\ phase' = [phase EXCEPT ![r] = ResumePhase]
            /\ copy'  = [copy EXCEPT ![r] = meta[r]]
       ELSE UNCHANGED <<registry, sup, phase, copy>>
  /\ UNCHANGED <<disk, child, chan, worker, pending, seen, late, proc,
                 accepting, shutSet, api, env>>

\* A resumable flow gets a supervisor for its backtest phase only.
Resume(r) ==
  /\ proc = "resume" /\ r \in bootTodo
  /\ bootTodo' = bootTodo \ {r}
  /\ IF NonTerminal(meta[r]) /\ Resumable(r)
       THEN /\ registry' = registry \union {r}
            /\ sup'   = [sup EXCEPT ![r] = "pool"]
            /\ phase' = [phase EXCEPT ![r] = ResumePhase]
            /\ copy'  = [copy EXCEPT ![r] = meta[r]]
       ELSE UNCHANGED <<registry, sup, phase, copy>>
  /\ UNCHANGED <<disk, child, chan, worker, pending, seen, late, proc,
                 accepting, shutSet, api, env>>

Serve ==
  /\ proc = "resume" /\ bootTodo = {}
  /\ proc' = "up"
  /\ UNCHANGED <<disk, task, accepting, registry, shutSet, bootTodo, api, env>>

-----------------------------------------------------------------------------
Init ==
  /\ meta  = [r \in Runs |-> NoMeta]
  /\ index = {}
  /\ files = [r \in Runs |-> {}]
  /\ proc = "down" /\ accepting = TRUE
  /\ registry = {} /\ shutSet = {} /\ bootTodo = {}
  /\ creator = [r \in Runs |-> "idle"]
  /\ snap    = [r \in Runs |-> {}]
  /\ halter  = [r \in Runs |-> "idle"]
  /\ report  = [r \in Runs |-> NoReport]
  /\ orphan  = [r \in Runs |-> "none"]
  /\ sup     = [r \in Runs |-> "none"]
  /\ phase   = [r \in Runs |-> "main"]
  /\ copy    = [r \in Runs |-> NewMeta]
  /\ child   = [r \in Runs |-> "none"]
  /\ chan    = [r \in Runs |-> <<>>]
  /\ worker  = [r \in Runs |-> "none"]
  /\ pending = [r \in Runs |-> FALSE]
  /\ seen    = [r \in Runs |-> FALSE]
  /\ late    = [r \in Runs |-> FALSE]
  /\ halts = 0 /\ crashes = 0 /\ signals = 0

Create(r) == \/ CreateBegin(r) \/ CreateInit(r) \/ CreateReadIndex(r)
             \/ CreateWriteIndex(r) \/ CreateIoError(r) \/ CreateSpawn(r)
             \/ CreateDropped(r)

Supervise(r) == \/ AcquirePool(r) \/ PoolClosed(r) \/ AcquireLane(r) \/ ReadEof(r)
                \/ DeadlineFires(r) \/ Conclude(r) \/ Deregister(r)

Drain(r) == WorkerLine(r) \/ WorkerFinish(r)

Child(r) == \/ ChildLine(r) \/ ChildResult(r) \/ ChildDone(r) \/ ChildCloses(r)
            \/ ChildExit(r) \/ OrphanResult(r)

Halt(r) == HaltTake(r) \/ HaltMark(r) \/ HaltNoHandle(r) \/ HaltDropped(r)

Shutdown == \/ Signal \/ ShutdownBegin \/ Exit
            \/ \E r \in Runs : ShutdownDrained(r) \/ ShutdownAbort(r)

Startup == \/ Boot \/ ReconcileDone \/ Serve
           \/ \E r \in Runs : Reconcile(r) \/ Resume(r)

Next == \/ \E r \in Runs : \/ Create(r) \/ Supervise(r) \/ Drain(r)
                           \/ Child(r) \/ Halt(r)
        \/ Shutdown \/ Startup \/ Crash

Spec == Init /\ [][Next]_vars

\* The runtime polls every ready task and runs every blocking worker; the timer
\* of the ceiling fires; handlers in flight are polled.  The semaphores and
\* the index lock queue their waiters first-in first-out, hence strong fairness
\* of the acquisitions.  Nothing is assumed of children, clients, operators,
\* signals or crashes.
Fairness ==
  /\ \A r \in Runs :
       /\ WF_vars(CreateInit(r)) /\ SF_vars(CreateReadIndex(r))
       /\ WF_vars(CreateWriteIndex(r)) /\ WF_vars(CreateSpawn(r))
       /\ SF_vars(AcquirePool(r)) /\ SF_vars(AcquireLane(r))
       /\ WF_vars(PoolClosed(r)) /\ WF_vars(ReadEof(r)) /\ WF_vars(DeadlineFires(r))
       /\ WF_vars(Conclude(r)) /\ WF_vars(Deregister(r))
       /\ WF_vars(Drain(r)) /\ WF_vars(HaltMark(r))
       /\ WF_vars(ShutdownAbort(r)) /\ WF_vars(Reconcile(r)) /\ WF_vars(Resume(r))
  /\ WF_vars(ShutdownBegin) /\ WF_vars(Exit) /\ WF_vars(ReconcileDone) /\ WF_vars(Serve)

FairSpec == Spec /\ Fairness

-----------------------------------------------------------------------------
(* Properties.                                                             *)

\* TypeOK: every variable has its type.  In particular a meta.json only ever carries one
\* of the four statuses of RunStatus: a halted run is `failed`.
DiskType ==
  /\ meta \in [Runs -> Meta]
  /\ index \subseteq Runs
  /\ files \in [Runs -> SUBSET Phases]

TaskType ==
  /\ sup \in [Runs -> {"none", "pool", "lane", "drain", "join", "dereg", "gone"}]
  /\ phase \in [Runs -> Phases]
  /\ copy \in [Runs -> Meta]
  /\ child \in [Runs -> Running \union Exits \union {"none"}]
  /\ chan \in [Runs -> Seq(Lines)]
  /\ worker \in [Runs -> {"none", "draining", "finished"}]
  /\ pending \in [Runs -> BOOLEAN]
  /\ seen \in [Runs -> BOOLEAN]
  /\ late \in [Runs -> BOOLEAN]

ServerType ==
  /\ proc \in {"down", "reconcile", "resume", "up", "stopping", "draining"}
  /\ accepting \in BOOLEAN
  /\ registry \subseteq Runs
  /\ shutSet \subseteq Runs
  /\ bootTodo \subseteq Runs

ApiType ==
  /\ creator \in [Runs -> {"idle", "init", "initDropped", "lock", "index",
                          "indexDropped", "register"}]
  /\ snap \in [Runs -> SUBSET Runs]
  /\ halter \in [Runs -> {"idle", "marking"}]
  /\ report \in [Runs -> Report]

EnvType ==
  /\ orphan \in [Runs -> Phases \union {"none"}]
  /\ halts \in 0 .. MaxHalts
  /\ crashes \in 0 .. MaxCrashes
  /\ signals \in 0 .. MaxSignals

TypeOK == DiskType /\ TaskType /\ ServerType /\ ApiType /\ EnvType

\* The results a run must have on disk before it may read `succeeded`.
ResultsOf(r) == IF RunType[r] = "flow" THEN {"train", "backtest"} ELSE {"main"}

Complete(r) == /\ ResultsOf(r) \subseteq files[r]
               /\ RunType[r] = "flow" => meta[r].sealed

\* "Honest success": a run recorded `succeeded` has all of its results on disk and,
\* if it is a flow, a sealed vintage - through deadlines, halts, crashes, resumption
\* and late writes of an abandoned drain worker.
SucceededHasResult == \A r \in Runs : meta[r].status = "succeeded" => Complete(r)

\* No step ever takes back a success: a halt, a shutdown or a reconciliation that
\* finds a finished run keeps its real outcome.
SucceededIsFinal ==
  [][\A r \in Runs : meta[r].status = "succeeded" => meta'[r].status = "succeeded"]_vars

\* As long as no halt and no shutdown has cut a supervisor off from its drain worker,
\* no step takes a run back from a terminal status: the outcome waits for the worker,
\* also when the ceiling fires, and what a crash left terminal is not resumed.
TerminalIsFinal ==
  [][halts + signals = 0 =>
       \A r \in Runs : Terminal(meta[r]) => meta'[r].status = meta[r].status]_vars

\* At most MaxFlow flows run a child at the same time, the ones resumed at boot
\* and the ones created since taken together.
FlowLaneBound ==
  Cardinality({r \in Runs : RunType[r] = "flow" /\ child[r] \in Running}) <= MaxFlow

\* While the server is up, a run the index lists as queued or running is really
\* being worked on: its task is live and registered, its create request is about
\* to spawn it, or a halt request is about to mark it.
NoStrandedRun ==
  proc = "up" => \A r \in index : NonTerminal(meta[r]) =>
                    \/ r \in registry /\ Live(r)
                    \/ creator[r] = "register"
                    \/ halter[r] = "marking"

\* Until shutdown takes the handles, the registry is exactly the set of live
\* supervisors: the self-deregistration leaks no handle and no task runs unregistered.
RegistryExact == proc \in {"resume", "up", "stopping"} =>
                    \A r \in Runs : Live(r) <=> r \in registry

\* A flow's search is never run again once it has left a result: what is resumed
\* after a crash is the backtest.
NeverSearchedTwice ==
  [][\A r \in Runs : child[r] = "none" /\ child'[r] = "quiet" /\ phase'[r] = "train"
                        => "train" \notin files[r]]_vars

\* A run with a supervisor is listed in the index: no two creates lose an update
\* of it.
IndexComplete == \A r \in Runs : Live(r) \/ creator[r] = "register" => r \in index

\* The manager's books are right after any crash, reconciliation and resumption:
\* nothing is stranded, unlisted or unregistered, and no lane is overfull.
BooksExact == NoStrandedRun /\ RegistryExact /\ IndexComplete /\ FlowLaneBound

\* If no child that has closed its pipes runs on for ever, every run the index lists
\* reaches a terminal status, unless the server goes down first: a child that hangs,
\* crawls or fails with its pipes open costs its run at most the ceiling, and gives
\* its permit and its lane back.  The condition is needed (RunawayReleased).
RunsTerminate ==
  (\A q \in Runs : []<>(child[q] # "closed")) =>
    \A r \in Runs : (proc = "up" /\ r \in index) ~> (Terminal(meta[r]) \/ proc = "down")

\* Which task may still write to a meta.json, and what it would write.  A supervisor
\* that has not decided, and a drain worker that has not returned, find a meta that is
\* not `succeeded`; the worker only writes `running`; a worker never outlives the
\* decision of its own supervisor; a backtest phase has its sealed train phase behind
\* it; a create request is alone with its run.
SoleWriterOf(r) ==
  /\ worker[r] = "draining" => copy[r].status = "running" /\ meta[r].status # "succeeded"
  /\ sup[r] \in Undecided => meta[r].status # "succeeded"
  /\ sup[r] \in {"none", "pool", "lane"} => worker[r] = "none"
  /\ sup[r] = "dereg" => worker[r] # "draining"
  /\ sup[r] # "none" => meta[r].status # "absent"
  /\ sup[r] \in Undecided /\ phase[r] = "backtest" => "train" \in files[r] /\ copy[r].sealed
  /\ sup[r] \in Undecided => (phase[r] = "main" <=> RunType[r] # "flow")
  /\ r \in registry \union shutSet \/ halter[r] = "marking" => sup[r] # "none"
  /\ creator[r] # "idle" => sup[r] = "none" /\ proc \in {"up", "stopping", "draining"}
  /\ creator[r] \in {"init", "initDropped"} => meta[r].status = "absent"
  /\ creator[r] \in {"lock", "index", "indexDropped", "register"} => meta[r].status = "queued"
  /\ proc \in {"down", "reconcile"} => sup[r] = "none"
  /\ proc = "resume" /\ r \in bootTodo => sup[r] = "none"

SoleWriter == \A r \in Runs : SoleWriterOf(r)

-----------------------------------------------------------------------------
(* What the comments of the source say and the code does not keep.         *)

\* "no `running` meta.json survives a clean shutdown": when main returns every
\* indexed run is terminal.  The code refutes it: a drain worker outlives the abort.
CleanShutdown ==
  [][proc = "draining" /\ proc' = "down" /\ crashes' = crashes
       => \A r \in index : Terminal(meta[r])]_vars

\* "a runaway campaign can never hold a supervisor open forever": who holds a permit
\* of the pool gives it back.  The code refutes it: the ceiling ends with the read of
\* the pipes, and child.wait() has none, so a child that closes both and runs on is
\* waited for without end.
RunawayReleased == \A r \in Runs : HoldsPool(r) ~> ~HoldsPool(r)

\* "a train that fails G1 seals nothing and runs no backtest": a flow succeeds only
\* if the gate promoted it.
SucceededFlowWasPromoted ==
  \A r \in Runs : RunType[r] = "flow" /\ meta[r].status = "succeeded"
                     => meta[r].gate = "pass"
=============================================================================
