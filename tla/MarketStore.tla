---------------------------- MODULE MarketStore ----------------------------
(***************************************************************************)
(* The market store and the jobs that fill it: a real ingest, paged over   *)
(* the venue's REST history (crates/ingest/src/binance.rs, backfill.rs,    *)
(* crates/cli/src/jobs/ingest.rs), a synthetic one, and the persisting of  *)
(* a fused vendor corpus (crates/ingest/src/persist.rs), over the LMDB     *)
(* databases of crates/storage/src/store.rs.  A write transaction is one   *)
(* step; a crash may come between any two.                                 *)
(*                                                                         *)
(* One instrument, one resolution: a bar is its slot.  The venue's bar of   *)
(* slot t is final from t + 1 on.  Funding falls on every FundingStep-th    *)
(* slot.                                                                   *)
(***************************************************************************)
EXTENDS Integers, Sequences, FiniteSets, SequencesExt

CONSTANTS
  NoJob,
  Origins,      \* the kinds of job a behaviour may start
  Windows,      \* the <<from, to>> a job may be given
  FundingStep,  \* FUNDING_INTERVAL_MS, in slots
  PageLimit,    \* WindowRequest.limit
  MaxRetries,   \* RetryPolicy.max_retries
  LastSlot, MaxJobs, MaxFaults   \* bounds: the venue's clock, jobs, failed pages

ASSUME StoreAssumption ==
  /\ Origins \subseteq {"real", "synthetic", "fused"}
  /\ FundingStep \in Nat \ {0} /\ PageLimit \in Nat \ {0}
  /\ LastSlot \in Nat /\ MaxJobs \in Nat /\ MaxFaults \in Nat /\ MaxRetries \in Nat
  /\ Windows \subseteq (0 .. LastSlot) \X (0 .. LastSlot)

VARIABLES
  now,        \* the venue's clock
  bars,       \* the bars database: slot -> [origin, final]
  segments,   \* the provenance database: first slot -> [end, origin]
  fundings,   \* the funding database
  contexts,   \* the premium and open-interest databases
  futures,    \* the futures database
  lineages,   \* the lineage keys of the meta database
  job,        \* the job's process, or NoJob
  jobsRun,    \* history: jobs started
  faults,     \* history: failed page requests
  batch,      \* history: the slots and origin of the last tagged write
  finished,   \* history: the last real ingest that reported success
  persisted   \* history: lineage -> the corpus it stands for

storeVars == <<bars, segments, fundings, contexts, futures, lineages>>
msVars    == <<now, storeVars, job, jobsRun, faults, batch, finished, persisted>>

Put(f, keys, v) == [k \in DOMAIN f \union keys |-> IF k \in keys THEN v[k] ELSE f[k]]

-----------------------------------------------------------------------------
(* Provenance.                                                             *)

\* The segment put_bars_with_provenance records in the bars' own transaction,
\* under the batch's first slot.
SegmentAfter(segs, slots, origin) ==
  IF slots = {} THEN segs
  ELSE Put(segs, {Min(slots)}, [k \in {Min(slots)} |-> [end |-> Max(slots), origin |-> origin]])

\* ProvenanceSummary::from_provenances
FromProvenances(ps) ==
  CASE ps = {} -> "empty"
    [] {"real", "synthetic"} \subseteq ps -> "mixed"
    [] ps = {"real"} -> "real"
    [] ps = {"synthetic"} -> "synthetic"
    [] ps = {"unknown"} -> "unknown"
    [] OTHER -> "mixed"

\* store_provenance_summary
ProvenanceSummary ==
  IF DOMAIN segments = {} THEN FromProvenances(IF DOMAIN bars = {} THEN {} ELSE {"unknown"})
  ELSE FromProvenances({segments[s].origin : s \in DOMAIN segments})

CountBarsInRange(a, b) == Cardinality({t \in DOMAIN bars : a <= t /\ t <= b})
CoverageRows ==
  IF DOMAIN bars = {} THEN {}
  ELSE IF DOMAIN segments = {}
  THEN {[from |-> Min(DOMAIN bars), to |-> Max(DOMAIN bars), bars |-> Cardinality(DOMAIN bars), origin |-> "unknown"]}
  ELSE {[from |-> s, to |-> segments[s].end, bars |-> CountBarsInRange(s, segments[s].end),
         origin |-> segments[s].origin] : s \in DOMAIN segments}

-----------------------------------------------------------------------------
(* The paged fetch of one series.                                          *)

Step(series) == IF series = "bars" THEN 1 ELSE FundingStep
FloorToGrid(t, step) == t - (t % step)

\* What the venue has of a series at and after the cursor, the forming bar included.
VenuePage(series, cursor) ==
  LET have == {t \in 0 .. now : t % Step(series) = 0 /\ t >= cursor}
  IN  {t \in have : Cardinality({u \in have : u < t}) < PageLimit}

\* Mutant: the next page starts one row too late.
NextCursorLate(newest, step) == newest + step + 1

NextCursor(newest, step) == newest + step

\* One page of backfill, target = the last slot wanted: the rows newer than the
\* ones held, and where to go on, or the end.
AfterPage(f, page) ==
  LET have   == f.rows
      last   == IF have = {} THEN -1 ELSE Max(have)
      rows   == have \union {t \in page : t > last}
      newest == IF rows = {} THEN f.cursor ELSE Max(rows)
  IN  [f EXCEPT !.rows = rows, !.attempts = 0,
                !.final = @ \union {t \in rows \ have : t + 1 <= now},
                !.cursor = NextCursor(newest, Step(f.series)),
                !.ended = page = {} \/ rows = have \/ newest >= f.last]

NewFetch(series, j) ==
  LET a == FloorToGrid(j.from, Step(series))
      to == Min({j.to, j.now})
  IN  [series |-> series, first |-> a, last |-> FloorToGrid(to, Step(series)), cursor |-> a,
       rows |-> {}, final |-> {}, attempts |-> 0, ended |-> to < a]

\* page's retain, then closed_klines / closed_funding.
Closed(f, j) ==
  {t \in f.rows : f.first <= t /\ t <= f.last /\ (IF f.series = "bars" THEN t + 1 <= j.now ELSE t <= j.now)}

-----------------------------------------------------------------------------
(* The jobs.                                                               *)

StartJob(kind, w) ==
  /\ job = NoJob /\ jobsRun < MaxJobs /\ kind \in Origins
  /\ jobsRun' = jobsRun + 1
  /\ LET j == [kind |-> kind, from |-> w[1], to |-> w[2], now |-> now]
     IN  job' = CASE kind = "real" -> [pc |-> "fetch", spec |-> j, fetch |-> NewFetch("bars", j)]
                  [] kind = "synthetic" -> [pc |-> "tagged", spec |-> j,
                                            bars |-> w[1] .. w[2] - 1, final |-> {}, funding |-> {}]
                  [] kind = "fused" -> [pc |-> "plain", spec |-> j, id |-> jobsRun]
  /\ finished' = NoJob
  /\ persisted' = IF kind = "fused" THEN Put(persisted, {jobsRun}, [k \in {jobsRun} |-> w]) ELSE persisted
  /\ UNCHANGED <<now, storeVars, faults, batch>>

\* persist_fused run again for the corpus of an earlier job: has_lineage may end it.
RestartFused ==
  /\ job = NoJob /\ jobsRun < MaxJobs
  /\ \E id \in DOMAIN persisted :
       job' = IF id \in lineages THEN NoJob ELSE
              [pc |-> "plain", id |-> id,
               spec |-> [kind |-> "fused", from |-> persisted[id][1], to |-> persisted[id][2], now |-> now]]
  /\ jobsRun' = jobsRun + 1
  /\ finished' = NoJob
  /\ UNCHANGED <<now, storeVars, faults, batch, persisted>>

\* After the bars comes the funding, then the writes.
Advanced(f) ==
  IF ~f.ended THEN [job EXCEPT !.fetch = f]
  ELSE IF f.series = "bars"
  THEN [pc |-> "fetch", spec |-> job.spec, bars |-> Closed(f, job.spec), final |-> f.final,
        fetch |-> NewFetch("funding", job.spec)]
  ELSE [pc |-> "tagged", spec |-> job.spec, bars |-> job.bars, final |-> job.final,
        funding |-> Closed(f, job.spec)]

FetchPage ==
  /\ job # NoJob /\ job.pc = "fetch"
  /\ LET f == job.fetch
     IN  job' = Advanced(IF f.ended THEN f ELSE AfterPage(f, VenuePage(f.series, f.cursor)))
  /\ UNCHANGED <<now, storeVars, jobsRun, faults, batch, finished, persisted>>

\* A page that fails: retried while retries are left, and a fatal one ends the job.
PageFails(fatal) ==
  /\ job # NoJob /\ job.pc = "fetch" /\ faults < MaxFaults
  /\ faults' = faults + 1
  /\ job' = IF fatal \/ job.fetch.attempts >= MaxRetries THEN NoJob
            ELSE [job EXCEPT !.fetch.attempts = @ + 1]
  /\ UNCHANGED <<now, storeVars, jobsRun, batch, finished, persisted>>

\* put_bars_with_provenance
WriteTagged ==
  /\ job # NoJob /\ job.pc = "tagged"
  /\ bars' = Put(bars, job.bars, [t \in job.bars |-> [origin |-> job.spec.kind,
                                                      final |-> job.spec.kind # "real" \/ t \in job.final]])
  /\ segments' = SegmentAfter(segments, job.bars, job.spec.kind)
  /\ batch' = [slots |-> job.bars, origin |-> job.spec.kind]
  /\ job' = [job EXCEPT !.pc = "funding"]
  /\ UNCHANGED <<now, fundings, contexts, futures, lineages, jobsRun, faults, finished, persisted>>

\* put_funding, put_premium and put_open_interest, each its own transaction; the
\* context series may have come back empty.
WriteFunding ==
  /\ job # NoJob /\ job.pc = "funding"
  /\ fundings' = fundings \union job.funding
  /\ job' = [job EXCEPT !.pc = "context"]
  /\ UNCHANGED <<now, bars, segments, contexts, futures, lineages, jobsRun, faults, batch, finished, persisted>>

WriteContext(empty) ==
  /\ job # NoJob /\ job.pc = "context"
  /\ contexts' = IF empty \/ job.spec.kind # "real" THEN contexts ELSE contexts \union job.bars
  /\ finished' = IF job.spec.kind = "real" THEN job.spec ELSE NoJob
  /\ job' = NoJob
  /\ UNCHANGED <<now, bars, segments, fundings, futures, lineages, jobsRun, faults, batch, persisted>>

FusedOrder == <<"plain", "fused-funding", "fused-premium", "fused-futures", "lineage">>
FusedSlots == job.spec.from .. job.spec.to

\* persist_fused: five transactions, the lineage last; put_bars tags nothing.
PersistStep ==
  /\ job # NoJob /\ job.pc \in Range(FusedOrder)
  /\ LET k == CHOOSE n \in DOMAIN FusedOrder : FusedOrder[n] = job.pc
     IN  job' = IF k = 5 THEN NoJob ELSE [job EXCEPT !.pc = FusedOrder[k + 1]]
  /\ bars' = IF job.pc = "plain"
             THEN Put(bars, FusedSlots, [t \in FusedSlots |-> [origin |-> "untagged", final |-> TRUE]]) ELSE bars
  /\ fundings' = IF job.pc = "fused-funding" THEN fundings \union FusedSlots ELSE fundings
  /\ contexts' = IF job.pc = "fused-premium" THEN contexts \union FusedSlots ELSE contexts
  /\ futures' = IF job.pc = "fused-futures" THEN futures \union FusedSlots ELSE futures
  /\ lineages' = IF job.pc = "lineage" THEN lineages \union {job.id} ELSE lineages
  /\ UNCHANGED <<now, segments, jobsRun, faults, batch, finished, persisted>>

CrashJob == job # NoJob /\ job' = NoJob
            /\ UNCHANGED <<now, storeVars, jobsRun, faults, batch, finished, persisted>>

TimePasses == now < LastSlot /\ now' = now + 1
              /\ UNCHANGED <<storeVars, job, jobsRun, faults, batch, finished, persisted>>

StoreInit ==
  /\ now = 1 /\ bars = <<>> /\ segments = <<>> /\ fundings = {} /\ contexts = {} /\ futures = {}
  /\ lineages = {} /\ job = NoJob /\ jobsRun = 0 /\ faults = 0
  /\ batch = [slots |-> {}, origin |-> "real"] /\ finished = NoJob /\ persisted = <<>>

StoreNext ==
  \/ \E kind \in Origins, w \in Windows : StartJob(kind, w)
  \/ RestartFused \/ FetchPage \/ (\E fatal \in BOOLEAN : PageFails(fatal))
  \/ WriteTagged \/ WriteFunding \/ (\E e \in BOOLEAN : WriteContext(e))
  \/ PersistStep \/ CrashJob \/ TimePasses

StoreSpec == StoreInit /\ [][StoreNext]_msVars

-----------------------------------------------------------------------------
(* Properties.                                                             *)

StoreTypeOK ==
  /\ DOMAIN bars \subseteq 0 .. LastSlot
  /\ \A s \in DOMAIN segments : s <= segments[s].end /\ segments[s].origin \in {"real", "synthetic"}
  /\ \A r \in CoverageRows : r.bars > 0

\* put_bars_with_provenance: no crash leaves bars of an ingest without a segment
\* of their origin that covers them (until a later write takes its place).
TaggedTogether ==
  \A t \in batch.slots :
    \E s \in DOMAIN segments : s <= t /\ t <= segments[s].end /\ segments[s].origin = batch.origin

\* A real ingest that reports success has stored every bar of its window that was
\* closed as it began, and every funding stamp, through pages, retries and ticks.
IngestComplete ==
  finished # NoJob =>
    LET to == Min({finished.to, finished.now})
    IN  /\ \A t \in finished.from .. to : t + 1 <= finished.now => t \in DOMAIN bars /\ bars[t].origin = "real"
        /\ \A t \in finished.from .. to : t % FundingStep = 0 => t \in fundings

\* No bar is stored that the venue could still change when it was read.
NoFormingBar == \A t \in DOMAIN bars : bars[t].final

\* A lineage on record means the whole corpus is stored: bars, funding, premium
\* and futures, whatever crash came between the five transactions.
LineageComplete ==
  \A id \in lineages :
    LET slots == persisted[id][1] .. persisted[id][2]
    IN  slots \subseteq DOMAIN bars /\ slots \subseteq fundings /\ slots \subseteq contexts /\ slots \subseteq futures

\* What provenance.rs says of the store: nobody trains on generated prices
\* believing they are real.  The summary a training reads says "real" only if no
\* stored bar is synthetic.  The code refutes it: a segment is keyed by its
\* first bar, so a short real batch replaces that of a longer synthetic one.
RealMeansReal ==
  ProvenanceSummary = "real" => \A t \in DOMAIN bars : bars[t].origin # "synthetic"

\* What store.rs, backfill.rs and the ingest job owe a training that reads the
\* store: tagged, complete and closed bars, and no lineage without its corpus.
StoreSound == StoreTypeOK /\ TaggedTogether /\ IngestComplete /\ NoFormingBar /\ LineageComplete
=============================================================================
