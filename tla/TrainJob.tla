------------------------------ MODULE TrainJob ------------------------------
(***************************************************************************)
(* `qe train` from its command line to its verdict, and the repository of  *)
(* vintages the runs share (crates/cli/src/{main,lib}.rs, jobs/train.rs,   *)
(* jobs/pool_intake.rs, crates/gate, crates/vintage, and the readers in    *)
(* crates/server/src/read.rs).                                             *)
(*                                                                         *)
(* A job is a process: the server may run several at once and may kill any *)
(* of them between two steps.  What the search and the statistics find is  *)
(* a function of the request and its seed, so it is part of the request;   *)
(* what is modelled is what the job does with it: which error comes first, *)
(* what counts as evidence, what is sealed and when another process can    *)
(* see it.  Statistics are per cents; NotFinite is a NaN or an infinity.     *)
(***************************************************************************)
EXTENDS Integers, Sequences, FiniteSets, SequencesExt

CONSTANTS Jobs,
          Requests,       \* what a job may be asked
          Width,          \* indicators of the catalogue
          FundingMin,     \* selection.funding_coverage_min, per cent
          CscvBlocks, MinOccupiedNiches, MinHoldoutRegimes, MinHoldoutSamples,
          DsrThreshold, SpaAlpha, MaxPbo, OosTolerance,
          UsizeMax,       \* usize::MAX, for the saturating products
          MaxKills        \* bound: jobs killed

NotFinite == -1
Percents == Nat \union {NotFinite}
NoPool == [mode |-> "none"]
ConsultationBudget == 1      \* HOLDOUT_CONSULTATION_BUDGET
FundingPeriod == 8           \* hours

\* Counts are unsigned, statistics numbers or not finite, dates whole.
ASSUME TrainAssumption ==
  /\ IsFiniteSet(Jobs) /\ Width \in Nat /\ UsizeMax \in Nat
  /\ \A limit \in {CscvBlocks, MinOccupiedNiches, MinHoldoutRegimes, MinHoldoutSamples, DsrThreshold, SpaAlpha, MaxPbo} : limit \in Nat
  /\ OosTolerance \in Int
  /\ \A r \in Requests :
       /\ r.id \in Int /\ r.flow \in BOOLEAN /\ r.steered \in BOOLEAN
       /\ {r.holdout[1], r.holdout[2], r.train[1], r.train[2]} \subseteq Int
       /\ {r.subset, r.regimes, r.generations, r.windows, r.search.elites, r.search.occupied} \subseteq Nat
       /\ {r.verdict.dsr, r.verdict.pbo, r.verdict.spa} \subseteq Percents
       /\ {r.verdict.series, r.verdict.outLen} \subseteq Nat /\ {r.verdict.net, r.verdict.inSharpe, r.verdict.outSharpe} \subseteq Int
       /\ r.verdict.paths \in BOOLEAN
       /\ r.pool # NoPool => /\ IsFiniteSet(r.pool.formulas) /\ r.pool.pbo \in Percents
                             /\ {r.pool.nTrials, r.pool.distinct, r.pool.analytic} \subseteq Nat

VARIABLES job,      \* job[j]: the process
          files,    \* files[id]: the file of a vintage
          clock,    \* ghost: vintages written
          kills
trainVars == <<job, files, clock, kills>>

Ids == {r.id : r \in Requests}
Absent == [state |-> "absent"]
Ended == {"done", "failed", "killed"}

-----------------------------------------------------------------------------
(* The checks that come before any work, in their order.                   *)
Saturated(x) == Min({x, UsizeMax})
FundingExpected(span) == Max({span, 0}) \div FundingPeriod + 1
FundingShort(r) == 100 * r.present < FundingMin * FundingExpected(r.span)

PoolTrials(p) == Max({p.nTrials, p.distinct, p.analytic})

\* admit_pool
PoolRefused(p) ==
  CASE p.mode # "sandbox" -> "PoolNotSandbox"
    [] p.mode = "sandbox" /\ ~p.gpAware -> "PoolNotGpAware"
    [] p.mode = "sandbox" /\ p.gpAware ->
         LET missing == p.evidence # {} /\ \E f \in p.formulas : f.hash \notin {e.hash : e \in p.evidence}
             failed  == \E e \in p.evidence : e.hash \in {f.hash : f \in p.formulas} /\ ~e.passes
         IN  CASE missing -> "PoolGateEvidenceMissing"
               [] ~missing /\ failed -> "PoolGateEvidenceFailed"
               [] ~missing /\ ~failed ->
                    IF \E f \in p.formulas : ~f.parses THEN "PoolFormulaParse"
                    ELSE IF \E f \in p.formulas : f.canonical # f.hash THEN "PoolFormulaHashMismatch"
                    ELSE IF PoolTrials(p) = 0 THEN "PoolDegenerateTrialBasis"
                    ELSE IF p.pbo = NotFinite THEN "PoolUncensoredPboAbsent"
                    ELSE "none"

\* The error run_train and the start of run_train_job end with, or none.
Opening == <<"Universe", "EmptyUniverse", "Io", "PoolLoad", "Pool", "Lineage", "BadResolution", "Instrument", "BadDate",
             "Storage", "NoBars", "UnknownIndicator", "FundingCoverage", "TrainWindowTooShort">>
HasFlaw(r, e) ==
  CASE e = "Pool" -> r.pool # NoPool /\ PoolRefused(r.pool) # "none"
    [] e = "FundingCoverage" -> FundingShort(r)
    [] e = "TrainWindowTooShort" -> r.train[2] - r.train[1] + 1 < 2
    [] OTHER -> e = r.flaw
Flaws(r) == {i \in DOMAIN Opening : HasFlaw(r, Opening[i])}

-----------------------------------------------------------------------------
(* Evidence.                                                               *)
EffectiveTrials(cells, generations, windows) == Saturated(Saturated(cells * generations) * windows)
WithFeatures(trials, features) == Saturated(trials * Max({features, 1}))

ComposeTrialBasis(r) ==
  LET plain == EffectiveTrials(r.search.occupied, r.generations, r.windows)
  IN  IF r.pool # NoPool
      THEN Saturated(WithFeatures(plain, Width + Cardinality(r.pool.formulas)) + PoolTrials(r.pool))
      ELSE IF r.steered THEN WithFeatures(plain, r.subset) ELSE plain

\* assess_robustness, then the pool's own overfitting probability
Robustness(r) ==
  LET v    == r.verdict
      weak == r.search.elites < 2 \/ v.series < CscvBlocks
      pbo  == IF weak THEN 100 ELSE v.pbo
  IN  [dsr |-> IF weak THEN 0 ELSE v.dsr,
       pbo |-> IF r.pool = NoPool THEN pbo ELSE Max({pbo, r.pool.pbo}),
       spa |-> IF weak THEN 100 ELSE v.spa]

\* evaluate_g1: a comparison with a NaN is false
EvaluateG1(v, rob) ==
  [samples  |-> v.outLen >= MinHoldoutSamples,
   edge     |-> v.outSharpe # NotFinite /\ v.outSharpe >= 0,
   dsr      |-> rob.dsr # NotFinite /\ rob.dsr > DsrThreshold,
   spa      |-> rob.spa # NotFinite /\ rob.spa < SpaAlpha,
   pbo      |-> rob.pbo # NotFinite /\ rob.pbo < MaxPbo,
   inSample |-> v.outSharpe # NotFinite /\ v.inSharpe # NotFinite /\ 100 * v.outSharpe >= v.inSharpe * (100 - OosTolerance)]

\* A plausible mistake: the path gate is reported and not enforced.
PromotedNoPaths(r, g1) == (\A c \in DOMAIN g1 : g1[c]) /\ r.pool = NoPool
\* the six criteria, the path distribution, and never a vintage with a pool
Promoted(r, g1) == (\A c \in DOMAIN g1 : g1[c]) /\ r.verdict.paths /\ r.pool = NoPool

\* VintageContent::validate
Sealable(v, rob) == NotFinite \notin {rob.dsr, rob.pbo, rob.spa, v.outSharpe, v.weight}

-----------------------------------------------------------------------------
(* The repository and its readers.                                         *)
Whole(id) == files[id].state = "whole"
Listed == {id \in Ids : Whole(id)}                     \* VintageRepository::list
Vintage(id) == files[id].vintage

\* VintageRepository::load: it also refuses another build's catalogue, and a pool
\* widens the catalogue the vintage is sealed against.
LoadOutcome(id) ==
  CASE files[id].state = "absent" -> "not found"
    [] files[id].state = "torn" -> "internal error"
    [] Whole(id) -> IF Vintage(id).request.pool # NoPool THEN "internal error" ELSE "ok"

OverConsulted(v) == v.consultations > ConsultationBudget
\* The order of build_leaderboard.
Outranks(a, b) ==
  LET v == Vintage(a)  w == Vintage(b)
  IN  \/ ~OverConsulted(v) /\ OverConsulted(w)
      \/ /\ OverConsulted(v) = OverConsulted(w)
         /\ \/ v.request.verdict.net > w.request.verdict.net
            \/ v.request.verdict.net = w.request.verdict.net /\ v.evidence.dsr > w.evidence.dsr
            \/ v.request.verdict.net = w.request.verdict.net /\ v.evidence.dsr = w.evidence.dsr /\ a < b
Rank(id) == 1 + Cardinality({other \in Listed : Outranks(other, id)})

(* Consultations of the holdout.  A range is its first and its last bar.   *)
ConsultationOverlaps(prior, now) ==
  \/ prior.flow /\ prior.holdout[1] < now[2] /\ now[1] < prior.holdout[2]
  \/ prior.flow /\ prior.train[1] <= now[1] /\ now[2] <= prior.train[2]
CountConsultations(r) == Cardinality({id \in Listed : ConsultationOverlaps(Vintage(id).request, r.holdout)})

-----------------------------------------------------------------------------
(* The job, one action for every point at which another process can see    *)
(* what it did.                                                            *)
NoVintage == [sealed |-> FALSE]
Fresh(r) == [pc |-> "start", request |-> r, line |-> "none", result |-> FALSE, error |-> "none", cut |-> "none",
             countedAt |-> 0, consultations |-> 0, vintage |-> NoVintage]
Fail(j, e) == job' = [job EXCEPT ![j] = [@ EXCEPT !.pc = "failed", !.error = e, !.line = "error"]]
At(j, pc) == job[j].pc = pc

\* A configuration that does not load ends the process before any line is written.
LoadConfig(j) ==
  /\ At(j, "start")
  /\ job' = [job EXCEPT ![j].pc = IF job[j].request.flaw = "config" THEN "failed" ELSE "open"]
  /\ UNCHANGED <<files, clock, kills>>

Open(j) ==
  /\ At(j, "open")
  /\ LET flaws == Flaws(job[j].request)
     IN  IF flaws # {} THEN \E i \in flaws : (\A k \in flaws : i <= k) /\ Fail(j, Opening[i])
         ELSE job' = [job EXCEPT ![j].pc = "split"]
  /\ UNCHANGED <<files, clock, kills>>

\* build_flow_lineage, in a flow run only
Consult(j) ==
  LET r == job[j].request
  IN  /\ At(j, "split")
      /\ IF r.flow /\ r.regimes < MinHoldoutRegimes THEN Fail(j, "HoldoutRegimeCoverage")
         ELSE job' = [job EXCEPT ![j] = [@ EXCEPT !.pc = "search", !.countedAt = clock,
                                                  !.consultations = IF r.flow THEN 1 + CountConsultations(r) ELSE 0]]
      /\ UNCHANGED <<files, clock, kills>>

\* The search, the ensemble and the checks on what they found.
Search(j) ==
  LET r == job[j].request
      e == IF r.search.elites = 0 THEN "NoElites"
           ELSE IF r.search.members = 0 THEN "EmptyEnsemble"
           ELSE IF ~r.search.valid THEN "SchemaMismatch"
           ELSE IF r.steered /\ r.search.occupied < MinOccupiedNiches THEN "ArchiveCoverageCollapsed"
           ELSE "none"
  IN  /\ At(j, "search")
      /\ IF e # "none" THEN Fail(j, e) ELSE job' = [job EXCEPT ![j].pc = "assess"]
      /\ UNCHANGED <<files, clock, kills>>

\* Assessment, gate and seal.
Seal(j) ==
  LET r   == job[j].request
      rob == Robustness(r)
  IN  /\ At(j, "assess")
      /\ IF ~Sealable(r.verdict, rob) THEN Fail(j, "Vintage")
         ELSE job' = [job EXCEPT ![j] =
                [@ EXCEPT !.pc = "write",
                          !.vintage = [request |-> r, consultations |-> job[j].consultations, countedAt |-> job[j].countedAt,
                                       sealedAt |-> clock, evidence |-> rob, promoted |-> Promoted(r, EvaluateG1(r.verdict, rob)),
                                       trials |-> ComposeTrialBasis(r)]]]
      /\ UNCHANGED <<files, clock, kills>>

\* File::create truncates what was there.
Create(j) ==
  /\ At(j, "write")
  /\ files' = [files EXCEPT ![job[j].request.id] = [state |-> "torn"]]
  /\ job' = [job EXCEPT ![j].pc = "bytes"]
  /\ UNCHANGED <<clock, kills>>

\* The bytes land over whatever another process wrote after our truncation: a
\* file of another length leaves its tail behind.
Bytes(j) ==
  LET v  == [job[j].vintage EXCEPT !.sealedAt = clock]
      id == v.request.id
  IN  /\ At(j, "bytes")
      /\ \/ files' = [files EXCEPT ![id] = [state |-> "whole", vintage |-> v]]
         \/ /\ Whole(id)
            /\ files' = [files EXCEPT ![id] = [state |-> "torn"]]
      /\ clock' = clock + 1
      /\ job' = [job EXCEPT ![j].pc = "report"]
      /\ UNCHANGED kills

Report(j) ==
  /\ At(j, "report")
  /\ job' = [job EXCEPT ![j] = [@ EXCEPT !.pc = "line", !.result = TRUE]]
  /\ UNCHANGED <<files, clock, kills>>
SayDone(j) ==
  /\ At(j, "line")
  /\ job' = [job EXCEPT ![j] = [@ EXCEPT !.pc = "done", !.line = "done"]]
  /\ UNCHANGED <<files, clock, kills>>

\* The run manager, or the machine, ends the process.
Kill(j) ==
  /\ job[j].pc \notin Ended /\ kills < MaxKills
  /\ job' = [job EXCEPT ![j] = [@ EXCEPT !.pc = "killed", !.cut = job[j].pc]]
  /\ kills' = kills + 1
  /\ UNCHANGED <<files, clock>>

JobStep(j) == LoadConfig(j) \/ Open(j) \/ Consult(j) \/ Search(j) \/ Seal(j) \/ Create(j) \/ Bytes(j) \/ Report(j) \/ SayDone(j)
TrainNext == \E j \in Jobs : JobStep(j) \/ Kill(j)
TrainInit ==
  /\ job \in [Jobs -> {Fresh(r) : r \in Requests}]
  /\ files = [id \in Ids |-> Absent] /\ clock = 0 /\ kills = 0
TrainSpec == TrainInit /\ [][TrainNext]_trainVars

-----------------------------------------------------------------------------
(* Properties.                                                             *)
Shared(v, w) ==
  Cardinality((v.holdout[1] .. v.holdout[2]) \intersect (w.holdout[1] .. w.holdout[2]))
\* The run of one of the two began after the other's vintage was written.
OneAfterTheOther(v, w) == v.countedAt > w.sealedAt \/ w.countedAt > v.sealedAt
FlowPairs == {p \in Listed \X Listed : p[1] # p[2] /\ Vintage(p[1]).request.flow /\ Vintage(p[2]).request.flow}

Truncated(k) == {job[k].pc, job[k].cut} \intersect {"bytes", "report", "line", "done"} # {}

\* A promoted vintage was earned: there was a pool to compare with and a series
\* long enough, a holdout of enough bars with an edge on it, every statistic
\* past its threshold and the paths too, and no evolved pool in it; and neither
\* a pool nor steering makes the trials it is deflated by fewer (run_train_job,
\* evaluate_g1, compose_trial_basis).
PromotionEarned ==
  \A id \in Listed :
    LET v == Vintage(id)  r == v.request  said == r.verdict
    IN  /\ v.promoted => /\ r.pool = NoPool /\ said.paths
                         /\ r.search.elites >= 2 /\ said.series >= CscvBlocks /\ said.outLen >= MinHoldoutSamples
                         /\ said.dsr > DsrThreshold /\ said.spa \in 0 .. SpaAlpha - 1 /\ said.pbo \in 0 .. MaxPbo - 1
        /\ v.trials >= EffectiveTrials(r.search.occupied, r.generations, r.windows)
        /\ r.pool # NoPool => v.trials >= Min({UsizeMax, PoolTrials(r.pool)}) /\ v.evidence.pbo >= r.pool.pbo
        /\ r.flow => v.consultations >= 1 /\ r.regimes >= MinHoldoutRegimes
        /\ r.steered => r.search.occupied >= MinOccupiedNiches

\* Two flow runs, one after the other, that protect some two of the same bars:
\* one of the vintages says the holdout was consulted before, and it is that one
\* the leaderboard puts below (count_overlapping_consultations,
\* build_leaderboard).
OverlapCounted ==
  \A p \in FlowPairs :
    LET v == Vintage(p[1])  w == Vintage(p[2])
    IN  Shared(v.request, w.request) > 1 /\ OneAfterTheOther(v, w) /\ v.countedAt > w.sealedAt
        => OverConsulted(v) /\ (OverConsulted(w) \/ Rank(p[2]) < Rank(p[1]))

\* The same for any bar in common: what the documentation of the count says.  The
\* code refutes it: its comparison misses windows that share exactly one bar.
ConsultationsCounted ==
  \A p \in FlowPairs :
    LET v == Vintage(p[1])  w == Vintage(p[2])
    IN  Shared(v.request, w.request) > 0 /\ v.countedAt > w.sealedAt => OverConsulted(v)

\* What a job says is what it did: a done line means the result and the vintage
\* are on disk, whole, unless another run of the same vintage has truncated it
\* since; an error line means it sealed nothing; and no vintage that names a
\* pool can be loaded to trade or to backtest (run_train_command, write, load).
VerdictTrue ==
  \A j \in Jobs :
    LET id == job[j].request.id
    IN  /\ job[j].line = "done" =>
             /\ job[j].result
             /\ \/ Whole(id)
                \/ \E k \in Jobs \ {j} : job[k].request.id = id /\ Truncated(k)
        /\ job[j].line = "error" => ~job[j].result
        /\ Whole(id) /\ LoadOutcome(id) = "ok" => Vintage(id).request.pool = NoPool

\* What jobs/train.rs owes whoever trades a sealed vintage.
JobSound == PromotionEarned /\ OverlapCounted /\ VerdictTrue

(* The inductive invariant.                                                *)
Stages == {"start", "open", "split", "search", "assess", "write", "bytes", "report", "line", "done", "failed", "killed"}
Statistics == [dsr : Percents, pbo : Percents, spa : Percents]
Vintages ==
  [request : Requests, consultations : Nat, countedAt : Nat, sealedAt : Nat, evidence : Statistics, promoted : BOOLEAN, trials : Nat]
Errors == {Opening[i] : i \in DOMAIN Opening} \union
          {"none", "HoldoutRegimeCoverage", "NoElites", "EmptyEnsemble", "SchemaMismatch", "ArchiveCoverageCollapsed", "Vintage"}
Processes ==
  [pc : Stages, request : Requests, line : {"none", "done", "error"}, result : BOOLEAN, error : Errors, cut : Stages \union {"none"},
   countedAt : Nat, consultations : Nat, vintage : Vintages \union {NoVintage}]
Torn == [state |-> "torn"]
TrainTypes ==
  /\ job \in [Jobs -> Processes] /\ clock \in Nat
  /\ files \in [Ids -> {Absent, Torn} \union [state : {"whole"}, vintage : Vintages]]

\* What was checked before a request is searched, and before it is assessed.
Covered(r, consultations) == r.flow => consultations >= 1 /\ r.regimes >= MinHoldoutRegimes
Spread(r) == r.steered => r.search.occupied >= MinOccupiedNiches
\* A vintage says what its request's evidence says.
Genuine(v) ==
  LET r == v.request
  IN  /\ v.evidence = Robustness(r) /\ v.promoted = Promoted(r, EvaluateG1(r.verdict, v.evidence)) /\ v.trials = ComposeTrialBasis(r)
      /\ Covered(r, v.consultations) /\ Spread(r)
\* Every flow vintage of the shared bars that was written before the count is in it.
Counts(r, countedAt, consultations) ==
  r.flow => \A id \in Listed :
              Vintage(id).sealedAt < countedAt /\ ConsultationOverlaps(Vintage(id).request, r.holdout) => consultations > 1
Begun == {"search", "assess", "write", "bytes", "report", "line", "done"}
SealedStages == {"write", "bytes", "report", "line", "done"}
JobKept(p) ==
  /\ p.countedAt <= clock /\ Counts(p.request, p.countedAt, p.consultations)
  /\ p.pc \in Begun => Covered(p.request, p.consultations)
  /\ p.pc \in Begun \ {"search"} => Spread(p.request)
  /\ p.pc \in SealedStages =>
       /\ p.vintage # NoVintage /\ Genuine(p.vintage)
       /\ p.vintage.request = p.request /\ p.vintage.countedAt = p.countedAt /\ p.vintage.consultations = p.consultations
  /\ p.line = "done" => p.pc = "done"
  /\ p.pc \in {"line", "done"} => p.result
  /\ p.line = "error" => p.pc = "failed"
  /\ p.result => p.pc \in {"line", "done", "killed"}
  /\ p.pc # "killed" => p.cut = "none"
\* Another process has truncated the file this one writes.
Contested(j) == \E k \in Jobs \ {j} : job[k].request.id = job[j].request.id /\ Truncated(k)
Landed(j) ==
  LET id == job[j].request.id
  IN  /\ job[j].pc \in {"report", "line", "done"} => Whole(id) \/ Contested(j)
      /\ job[j].pc = "bytes" /\ Whole(id) => Contested(j)
FileKept(id) ==
  LET v == Vintage(id)
  IN  /\ v.request.id = id /\ Genuine(v) /\ v.sealedAt < clock /\ v.countedAt <= clock /\ Counts(v.request, v.countedAt, v.consultations)
      /\ \E j \in Jobs : job[j].request.id = id
TrainKept ==
  /\ TrainTypes
  /\ \A j \in Jobs : JobKept(job[j]) /\ Landed(j)
  /\ \A id \in Listed : FileKept(id)
=============================================================================
