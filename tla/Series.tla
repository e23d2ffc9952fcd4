------------------------------- MODULE Series -------------------------------
(***************************************************************************)
(* Ingestion's checks and alignments of a time series, as pure functions   *)
(* of the stamps received (crates/ingest/src/integrity.rs, coverage.rs,    *)
(* fill.rs, fuse.rs, quality.rs, binance.rs plan_missing, coalesce.rs,     *)
(* reconcile.rs, drift.rs, plan.rs, liquidity.rs), and the download of     *)
(* vendor files with its two-file cache (downloader.rs, cache.rs).         *)
(*                                                                         *)
(* The stamps arrive one at a time and the functions are checked on every   *)
(* prefix.  A bar of slot t in partition p is the pair <<t, p>>.            *)
(***************************************************************************)
EXTENDS Integers, Sequences, FiniteSets, SequencesExt

CONSTANTS
  Hole,         \* Cell::Hole
  Stamps,       \* timestamps
  GridEnd,      \* the window is [0, GridEnd)
  MaxGap,       \* max_gap_ms
  MaxStamps,    \* bound: stamps received
  Versions,     \* the contents a vendor file has over time
  MaxSyncs, MaxCrashes   \* bounds

VARIABLES
  stamps,       \* the stamps, in order of arrival: <<time, partition>>
  fileBytes,    \* the cached bytes: a version, "none" or "torn"
  sidecar,      \* the cached digest: a version, "none" or "torn"
  vendor,       \* the version the vendor serves, or "none"
  sync,         \* sync_file in progress: [pc, expected, attempt]
  outcome,      \* what the last sync_file returned
  syncs, fileCrashes   \* history

seriesVars == <<stamps>>
fileVars   == <<fileBytes, sidecar, vendor, sync, outcome, syncs, fileCrashes>>
ingestVars == <<seriesVars, fileVars>>

Times  == [k \in DOMAIN stamps |-> stamps[k][1]]
Sorted(S) == SetToSortSeq(S, <)

-----------------------------------------------------------------------------
(* Integrity, coverage and quality.                                        *)

\* check_series, for an interval of one.
OutOfOrder(ts) == {k \in DOMAIN ts : k > 1 /\ ts[k] < ts[k - 1]}
Duplicates(ts) == {k \in DOMAIN ts : \E j \in 1 .. k - 1 : ts[j] = ts[k]}
Gaps(ts) ==
  LET o == Sorted(Range(ts))
  IN  {[from |-> o[k], to |-> o[k + 1], missing |-> o[k + 1] - o[k] - 1] :
         k \in {j \in 1 .. Len(o) - 1 : o[j + 1] - o[j] > 1}}

\* coverage
Coverage(ts) ==
  LET S == Range(ts)
  IN  IF S = {} THEN [present |-> 0, expected |-> 0, missing |-> 0]
      ELSE LET expected == Max(S) - Min(S) + 1
           IN  [present |-> Cardinality(S), expected |-> expected,
                missing |-> Max({expected - Cardinality(S), 0})]

\* DataQualityReport::evaluate under the default policy with a gap bound.
Violations(ts, maxGap) ==
     (IF \E g \in Gaps(ts) : g.to - g.from > maxGap THEN {"gap_exceeds_bound"} ELSE {})
  \union (IF Duplicates(ts) # {} THEN {"duplicates"} ELSE {})
  \union (IF OutOfOrder(ts) # {} THEN {"out_of_order"} ELSE {})

-----------------------------------------------------------------------------
(* Filling and fetching.                                                   *)

\* plan_fill: slot by slot, the last present slot and the hole in progress.
FillStep(s, slot, present, maxGap) ==
  IF slot \in present
  THEN [s EXCEPT !.last = slot, !.hole = -1,
                 !.holes = IF s.hole >= 0 THEN @ \union {<<s.hole, slot>>} ELSE @]
  ELSE IF s.last >= 0 /\ slot - s.last <= maxGap
  THEN [s EXCEPT !.filled = @ \union {<<slot, s.last>>}]
  ELSE [s EXCEPT !.hole = IF @ >= 0 THEN @ ELSE slot]

PlanFill(present, maxGap) ==
  LET go[n \in 0 .. GridEnd] ==
        IF n = 0 THEN [last |-> -1, hole |-> -1, holes |-> {}, filled |-> {}]
        ELSE FillStep(go[n - 1], n - 1, present, maxGap)
      end == go[GridEnd]
  IN  [filled |-> end.filled,
       holes  |-> end.holes \union (IF end.hole >= 0 THEN {<<end.hole, GridEnd>>} ELSE {})]

\* coalesce_bars: the last partition's bar, in time order.
Coalesced(t, parts) == Max({p[2] : p \in {q \in parts : q[1] = t}})

\* align_onto_grid: [slot -> [value, from] or Hole].
AlignOntoGrid(parts, maxGap) ==
  LET present == {p[1] : p \in parts}
      plan    == PlanFill(present, maxGap)
  IN  [t \in 0 .. GridEnd - 1 |->
         IF t \in present THEN [value |-> Coalesced(t, parts), from |-> t]
         ELSE IF \E f \in plan.filled : f[1] = t
         THEN LET f == CHOOSE x \in plan.filled : x[1] = t
              IN  [value |-> Coalesced(f[2], parts), from |-> f[2]]
         ELSE Hole]

\* plan_missing: the runs of absent slots.
MissStep(s, t, present) ==
  IF t \in present THEN [run |-> <<>>, out |-> IF s.run = <<>> THEN s.out ELSE s.out \union {s.run}]
  ELSE [s EXCEPT !.run = IF s.run = <<>> THEN <<t, t>> ELSE <<s.run[1], t>>]

\* Mutant: a run in progress at the end is dropped.
PlanMissingOpen(from, to, present) ==
  LET go[n \in from - 1 .. to] ==
        IF n = from - 1 THEN [run |-> <<>>, out |-> {}] ELSE MissStep(go[n - 1], n, present)
  IN  IF to < from THEN {} ELSE go[to].out

PlanMissing(from, to, present) ==
  LET go[n \in from - 1 .. to] ==
        IF n = from - 1 THEN [run |-> <<>>, out |-> {}] ELSE MissStep(go[n - 1], n, present)
  IN  IF to < from THEN {} ELSE go[to].out \union (IF go[to].run = <<>> THEN {} ELSE {go[to].run})

SeriesInit == stamps = <<>>
AddStamp(t, p) == Len(stamps) < MaxStamps /\ stamps' = Append(stamps, <<t, p>>) /\ UNCHANGED fileVars
SeriesNext == \E t \in Stamps, p \in {1, 2} : AddStamp(t, p)

-----------------------------------------------------------------------------
(* The download of one vendor file.                                        *)

\* is_verified: the digest of the bytes is the one in the sidecar.
IsVerified == fileBytes # "none" /\ fileBytes # "torn" /\ sidecar = fileBytes

Idle == [pc |-> "idle"]
Returned(o) == outcome' = o /\ sync' = Idle

SyncFile ==
  /\ sync = Idle /\ syncs < MaxSyncs
  /\ syncs' = syncs + 1
  /\ IF IsVerified THEN Returned("skipped")
     ELSE IF vendor = "none" THEN Returned("missing")
     ELSE sync' = [pc |-> "body", expected |-> vendor, attempt |-> 0] /\ UNCHANGED outcome
  /\ UNCHANGED <<stamps, fileBytes, sidecar, vendor, fileCrashes>>

\* The body: the version served now, or bytes damaged on the way.
GetBody(damaged) ==
  /\ sync.pc = "body"
  /\ IF vendor = "none" THEN Returned("missing")
     ELSE IF ~damaged /\ vendor = sync.expected
     THEN sync' = [sync EXCEPT !.pc = "bytes"] /\ UNCHANGED outcome
     ELSE IF sync.attempt = 1 THEN Returned("mismatch")
     ELSE sync' = [sync EXCEPT !.attempt = 1] /\ UNCHANGED outcome
  /\ UNCHANGED <<stamps, fileBytes, sidecar, vendor, syncs, fileCrashes>>

\* store: the bytes, then the digest.
StoreBytes ==
  /\ sync.pc = "bytes"
  /\ fileBytes' = sync.expected /\ sync' = [sync EXCEPT !.pc = "digest"]
  /\ UNCHANGED <<stamps, sidecar, vendor, outcome, syncs, fileCrashes>>
StoreDigest ==
  /\ sync.pc = "digest"
  /\ sidecar' = sync.expected
  /\ Returned(IF sync.attempt = 0 THEN "fetched" ELSE "refetched")
  /\ UNCHANGED <<stamps, fileBytes, vendor, syncs, fileCrashes>>

\* A crash may tear the file being written.
CrashSync(torn) ==
  /\ sync # Idle /\ fileCrashes < MaxCrashes
  /\ fileCrashes' = fileCrashes + 1
  /\ fileBytes' = IF torn /\ sync.pc = "bytes" THEN "torn" ELSE fileBytes
  /\ sidecar' = IF torn /\ sync.pc = "digest" THEN "torn" ELSE sidecar
  /\ sync' = Idle
  /\ UNCHANGED <<stamps, vendor, outcome, syncs>>

\* A cached file cut short on disk.
Truncate ==
  /\ sync = Idle /\ fileBytes # "none" /\ fileCrashes < MaxCrashes
  /\ fileCrashes' = fileCrashes + 1
  /\ fileBytes' = "torn" /\ outcome' = "none"
  /\ UNCHANGED <<stamps, sidecar, vendor, sync, syncs>>

VendorPublishes(v) == vendor # v /\ vendor' = v
                      /\ UNCHANGED <<stamps, fileBytes, sidecar, sync, outcome, syncs, fileCrashes>>

FileInit ==
  /\ fileBytes = "none" /\ sidecar = "none" /\ vendor = "none" /\ sync = Idle
  /\ outcome = "none" /\ syncs = 0 /\ fileCrashes = 0
FileNext ==
  \/ SyncFile \/ (\E d \in BOOLEAN : GetBody(d)) \/ StoreBytes \/ StoreDigest
  \/ (\E torn \in BOOLEAN : CrashSync(torn)) \/ Truncate \/ \E v \in Versions : VendorPublishes(v)

-----------------------------------------------------------------------------
(* Properties.                                                             *)

OnGrid == {p \in Range(stamps) : p[1] < GridEnd}

\* Every slot of the grid is present, filled from the latest present slot no
\* further back than the gap bound, or in exactly one hole: a value is never
\* older than the bound, never from the future, and never lost.
FillExact ==
  LET present == {p[1] : p \in OnGrid}
      plan    == PlanFill(present, MaxGap)
      cells   == AlignOntoGrid(OnGrid, MaxGap)
  IN  \A t \in 0 .. GridEnd - 1 :
        LET before == {u \in present : u <= t}
            near   == before # {} /\ t - Max(before) <= MaxGap
        IN  /\ (cells[t] = Hole) <=> ~near
            /\ near => cells[t].from = Max(before)
            /\ Cardinality({h \in plan.holes : h[1] <= t /\ t < h[2]}) = IF near THEN 0 ELSE 1

\* The aligned value of a slot is the bar that arrived in the latest partition,
\* in whatever order the partitions' bars came.
LatestPartitionWins ==
  LET cells == AlignOntoGrid(OnGrid, 0)
  IN  \A p \in OnGrid : cells[p[1]].value >= p[2] /\ \E q \in OnGrid : q = <<p[1], cells[p[1]].value>>

\* plan_missing asks for every absent slot once and for no present one.
MissingExact ==
  LET present == {p[1] : p \in OnGrid}
      runs    == PlanMissing(0, GridEnd - 1, present)
  IN  \A t \in 0 .. GridEnd - 1 :
        Cardinality({r \in runs : r[1] <= t /\ t <= r[2]}) = IF t \in present THEN 0 ELSE 1

\* The report's two counts of what is missing agree, and the duplicates are what
\* distinguishes the stamps received from those present.
QualityAgrees ==
  LET c == Coverage(Times)
  IN  /\ c.missing = MapThenSumSet(LAMBDA g : g.missing, Gaps(Times))
      /\ Cardinality(Duplicates(Times)) = Len(stamps) - c.present
      /\ (Violations(Times, 1) = {}) => \A k \in 1 .. Len(Times) - 1 : Times[k + 1] = Times[k] + 1

\* A vendor file verified in the cache holds a complete version the vendor
\* published, through torn writes, crashes between the two files, files cut short
\* on disk and republished contents.
VerifiedIsWhole == outcome \in {"skipped", "fetched", "refetched"} /\ sync = Idle => fileBytes \in Versions \ {"none"}
=============================================================================
