--------------------------- MODULE PoolGovernance ---------------------------
(***************************************************************************)
(* The governance of formula pools in qe-server (crates/server/src/pools.rs*)
(* audit.rs and pool_seal.rs, crates/formula-pool/src/lifecycle.rs).       *)
(*                                                                         *)
(* An evolve run, launched by somebody, produces a pool.  Approvers then   *)
(* approve, reject, revoke or seal it.  Every request is an HTTP handler;  *)
(* an action below is the code between two of its await points.  A handler *)
(* takes a snapshot of the append-only audit log, applies the transition   *)
(* to the governance record of the pool (the "cache") under a per-pool     *)
(* lock, and appends its entry to the log.  The log, the cache, the        *)
(* revocation set and the governance records are files; the lock map and   *)
(* the handlers are memory.                                                *)
(*                                                                         *)
(* A pool stands for its pool_id and its pool_hash.  Its formulas and what *)
(* its campaign measured of them are constants: a pool is sealed content.  *)
(***************************************************************************)
EXTENDS Naturals, Sequences, FiniteSets

CONSTANTS
  Pools,
  Mode,          \* Mode[p]: production, sandbox, or misplaced (a sandbox pool
                 \* found in the production directory)
  Seeded,        \* pools put into the store directly, without a run
  Formulas,      \* Formulas[p]: the formulas of the pool
  Deflation,     \* Deflation[p]: its DeflationSummary; a pbo below 0 is absent
  GateEvidence,  \* GateEvidence[p]: FormulaGateEvidence, for formulas that have some
  Emails,
  Lower,         \* Lower[e]: the lower-case form of e
  Finished,      \* the evolve runs finished before: a sequence of [pool, by]
  Launches,      \* the evolve runs that may be created: [pool, by]
  Requests,      \* ids of governance requests
  Ask,           \* Ask[h]: the [transition, actor, pool] of request h
  EphemeralKey,  \* QE_AUDIT_SIGNING_KEY is not set
  ForeignLines,  \* approvals that may appear in the log without append: [pool, by]
  MaxCrashes,    \* bound: crashes of the server
  Faults,        \* reads and writes of files may fail
  Disconnects    \* a client may drop its connection mid-request

Transitions == {"approve", "reject", "seal", "revoke"}
NoOne == "no one"

ASSUME PoolAssumption ==
  /\ Mode \in [Pools -> {"production", "sandbox", "misplaced"}]
  /\ Seeded \subseteq Pools
ASSUME PeopleAssumption ==
  /\ NoOne \notin Emails
  /\ Lower \in [Emails -> Emails]
ASSUME InputAssumption ==
  /\ Finished \in Seq([pool : Pools, by : Emails])
  /\ Launches \union ForeignLines \subseteq [pool : Pools, by : Emails]
  /\ Ask \in [Requests -> [transition : Transitions, actor : Emails, pool : Pools]]
ASSUME LimitAssumption ==
  /\ MaxCrashes \in Nat
  /\ {EphemeralKey, Faults, Disconnects} \subseteq BOOLEAN

VARIABLES
  log,          \* the audit log, a sequence of Entry
  cache,        \* cache[p]: the state in governance/<p>.json
  revocations,  \* the pools in revocations.json
  record,       \* record[p]: governance/records/<p>.json, as a set of 0 or 1
  runs,         \* the evolve runs in index order: [pool, by, stage]
  lockMap,      \* lockMap[p]: the lock in cache_locks, or none
  pc,           \* pc[h]: the await point of request h
  loc,          \* loc[h]: the local variables of request h
  myLock,       \* myLock[h]: the lock h has a clone of
  dropped,      \* dropped[h]: the client is gone, a blocking step goes on
  answer,       \* answer[h]: the response to h
  crashes

disk  == <<log, cache, revocations, record>>
locks == <<lockMap, myLock>>
vars  == <<disk, runs, locks, pc, loc, dropped, answer, crashes>>

-----------------------------------------------------------------------------
States  == {"draft", "approved", "sealed", "rejected", "revoked"}
NoState == "none"
NoLock  == "no lock"

ASSUME LockAssumption == NoLock \notin Requests

\* What an entry's HMAC and linkage are worth: `valid` verifies under the
\* current key, `stale` was appended under a key lost with an earlier process,
\* `foreign` was not written by append.  `evidence` marks the seal's own entry.
Entry == [action : {"launch", "approve", "reject", "revoke"}, actor : Emails,
          pool : Pools, mac : {"valid", "stale", "foreign"}, evidence : BOOLEAN]

NewEntry(action, actor, p, evidence) ==
  [action |-> action, actor |-> actor, pool |-> p, mac |-> "valid", evidence |-> evidence]

Actor(h) == Ask[h].actor
PoolOf(h) == Ask[h].pool
Transition(h) == Ask[h].transition

\* load finds the pool: it was seeded, or a run has written it.
Exists(p) == p \in Seeded \/ \E i \in DOMAIN runs : runs[i].pool = p /\ runs[i].stage # "running"

\* `view` is how much of the log the request has read, `launcher` the launcher it
\* resolved, `want` the outcome of its cache transition, `revoked` the revocation
\* set it has read.
Local   == [view : Nat, launcher : Emails \union {NoOne}, want : States \union {NoState},
            revoked : SUBSET Pools]
NoLocal == [view |-> 0, launcher |-> NoOne, want |-> NoState, revoked |-> {}]

Entries(h) == SubSeq(log, 1, loc[h].view)

\* PoolLifecycleState::apply: the legal edges.
Edges == {<<"draft", "approve", "approved">>, <<"draft", "reject", "rejected">>,
          <<"approved", "seal", "sealed">>, <<"approved", "revoke", "revoked">>,
          <<"sealed", "revoke", "revoked">>}

\* PoolGovernance::apply: the state after t, none for an illegal edge.
Applied(from, t) == {e[3] : e \in {d \in Edges : d[1] = from /\ d[2] = t}}

IsProduction(h) == Transition(h) = "seal" /\ Mode[PoolOf(h)] = "production"

\* load_production: a pool of the production directory that is not eligible.
Misplaced(h) == Transition(h) = "seal" /\ Mode[PoolOf(h)] = "misplaced"

Running == {"read", "write"}
Holds(h, l) == myLock[h] = l /\ pc[h] \in Running

-----------------------------------------------------------------------------
(* The audit log: append, verify_chain, derive_signoff.                    *)

\* Mutant: the chain is not verified.
VerifyChainSkipped(es) == TRUE

VerifyChain(es) == \A i \in DOMAIN es : es[i].mac = "valid"

Signers(es, p) == {Lower[es[i].actor] : i \in {j \in DOMAIN es : es[j].action = "approve"
                                                                 /\ es[j].pool = p}}

TwoDistinctSignoffs(es, p, l) == Cardinality(Signers(es, p) \ {Lower[l]}) >= 2

\* launcher_for_run on the newest run whose meta.json lists the pool.
LaunchedBy(es, p, by) == \E i \in DOMAIN es : es[i].action = "launch" /\ es[i].pool = p /\ es[i].actor = by
RunsOf(p) == {i \in DOMAIN runs : runs[i].pool = p /\ runs[i].stage = "done"}
Newest(S) == CHOOSE i \in S : \A j \in S : j <= i
ResolveLauncher(es, p) ==
  IF RunsOf(p) = {} THEN NoOne
  ELSE LET by == runs[Newest(RunsOf(p))].by
       IN  IF LaunchedBy(es, p, by) THEN by ELSE NoOne

\* The bars of seal_allowed, in hundredths, hundredths and dollars.
MaxUncensoredPbo == 50
MinDsr == 95
MaxTurnoverFrac == 25
CapacityFloorUsd == 250000

\* FormulaGateEvidence::passes
Passes(row) ==
  /\ row.icPass /\ row.minNetGrowth > 0 /\ row.turnover <= MaxTurnoverFrac
  /\ row.capacity >= CapacityFloorUsd /\ row.withinCaps /\ row.beatsNull

\* hard_blocks: none of the eight blocks the pool, a missing statistic blocks.
HardBlocksClear(p) ==
  LET d == Deflation[p]
  IN  /\ d.gpAware /\ d.distinct > d.floor
      /\ d.expectedMaxSharpe > 0
      /\ d.pbo >= 0 /\ d.pbo <= MaxUncensoredPbo /\ d.varianceTrials >= d.distinct
      /\ d.dsr >= MinDsr
      /\ \A f \in Formulas[p] : f \in DOMAIN GateEvidence[p] /\ Passes(GateEvidence[p][f])

\* seal_allowed: no blocker.
SealAllowed(es, p, l, revoked) ==
  /\ Mode[p] = "production"
  /\ ~revoked
  /\ l # NoOne
  /\ TwoDistinctSignoffs(es, p, l)
  /\ HardBlocksClear(p)

-----------------------------------------------------------------------------
(* Evolve runs, as far as governance sees them.                            *)

\* RunManager::create adds the run to the index.
Launch(run) ==
  /\ run \in Launches
  /\ \A i \in DOMAIN runs : <<runs[i].pool, runs[i].by>> # <<run.pool, run.by>>
  /\ runs' = Append(runs, [pool |-> run.pool, by |-> run.by, stage |-> "running"])
  /\ UNCHANGED <<disk, locks, pc, loc, dropped, answer, crashes>>

\* create_run then appends the launch entry, while the run is already going.
LogLaunch(i) ==
  /\ i \in DOMAIN runs
  /\ \A k \in DOMAIN log : ~(/\ log[k].action = "launch" /\ log[k].pool = runs[i].pool
                             /\ log[k].actor = runs[i].by)
  /\ log' = Append(log, NewEntry("launch", runs[i].by, runs[i].pool, FALSE))
  /\ UNCHANGED <<cache, revocations, record, runs, locks, pc, loc, dropped, answer, crashes>>

\* The child writes the pool artefact, then its `done` line reaches meta.json.
RunStep(i) ==
  /\ i \in DOMAIN runs /\ runs[i].stage # "done"
  /\ runs' = [runs EXCEPT ![i].stage = IF @ = "running" THEN "wrote" ELSE "done"]
  /\ UNCHANGED <<disk, locks, pc, loc, dropped, answer, crashes>>

-----------------------------------------------------------------------------
(* One request: governance_action, seal and production_seal.               *)

Goto(h, l) == /\ pc' = [pc EXCEPT ![h] = l]
              /\ UNCHANGED <<dropped, answer>>

\* Respond, unless the client is gone.
Respond(h, a) ==
  /\ pc'  = [pc EXCEPT ![h] = "done"]
  /\ loc' = [loc EXCEPT ![h] = NoLocal]
  /\ answer'  = [answer EXCEPT ![h] = IF dropped[h] THEN @ ELSE a]
  /\ dropped' = [dropped EXCEPT ![h] = FALSE]

\* The pool is loaded, then the log is read, in one go.  A production seal also
\* verifies the chain of what it has read.
Begin(h) ==
  /\ pc[h] = "idle" /\ Exists(PoolOf(h))
  /\ IF Misplaced(h)
       THEN Respond(h, "conflict")
       ELSE /\ loc' = [loc EXCEPT ![h].view = Len(log)]
            /\ Goto(h, IF IsProduction(h) /\ ~VerifyChain(log) THEN "refuse" ELSE "resolve")
  /\ UNCHANGED <<disk, runs, locks, crashes>>

\* resolve_launcher, and for an approve the separation of duties.  Reject, revoke
\* and a sandbox seal are not given the run store and do not use the launcher.
Resolve(h) ==
  /\ pc[h] = "resolve"
  /\ LET l == IF Transition(h) = "approve" \/ IsProduction(h)
                THEN ResolveLauncher(Entries(h), PoolOf(h)) ELSE NoOne
     IN  IF Transition(h) = "approve" /\ l # NoOne /\ Lower[l] = Lower[Actor(h)]
           THEN Respond(h, "forbidden")
           ELSE /\ loc' = [loc EXCEPT ![h].launcher = l]
                /\ Goto(h, IF IsProduction(h) THEN "decide" ELSE "lock")
  /\ UNCHANGED <<disk, runs, locks, crashes>>

\* production_seal reads the revocations (an unreadable file counts as not
\* revoked) and decides.
Decide(h) ==
  /\ pc[h] = "decide"
  /\ \E revoked \in {PoolOf(h) \in revocations} \union (IF Faults THEN {FALSE} ELSE {}) :
       Goto(h, IF SealAllowed(Entries(h), PoolOf(h), loc[h].launcher, revoked)
                 THEN "lock" ELSE "refuse")
  /\ UNCHANGED <<disk, runs, locks, loc, crashes>>

\* The rejected attempt is logged; a failure to do so is only a warning.
Refuse(h) ==
  /\ pc[h] = "refuse"
  /\ \/ log' = Append(log, NewEntry("reject", Actor(h), PoolOf(h), FALSE))
     \/ Faults /\ UNCHANGED log
  /\ Respond(h, "conflict")
  /\ UNCHANGED <<cache, revocations, record, runs, locks, crashes>>

\* cache_lock: clone the pool's lock, created on first use.  A lock is named
\* after the request that creates it.
CloneLock(h) ==
  /\ pc[h] = "lock"
  /\ LET p == PoolOf(h)
         l == IF lockMap[p] = NoLock THEN h ELSE lockMap[p]
     IN  /\ lockMap' = [lockMap EXCEPT ![p] = l]
         /\ myLock' = [myLock EXCEPT ![h] = l]
  /\ Goto(h, "wait")
  /\ UNCHANGED <<disk, runs, loc, crashes>>

\* Mutant: nobody waits for the lock.
LockIgnored(h) == TRUE

\* Mutant: a request that only has a clone of the lock counts as its holder.
LockNeedsSoleClone(h) == \A g \in Requests : g # h => myLock[g] # myLock[h]

LockFree(h) == \A g \in Requests : ~Holds(g, myLock[h])

Acquire(h) ==
  /\ pc[h] = "wait" /\ LockFree(h)
  /\ Goto(h, "read")
  /\ UNCHANGED <<disk, runs, locks, loc, crashes>>

\* The transition is over: clone and guard are released.  A dropped handler goes no
\* further.
EndTransition(h, outcome) ==
  /\ myLock' = [myLock EXCEPT ![h] = NoLock]
  /\ IF dropped[h] THEN Respond(h, "none")
       ELSE /\ loc' = [loc EXCEPT ![h].want = outcome]
            /\ Goto(h, "evict")

\* apply_cache_transition, the read: an illegal edge, an unreadable record and a
\* second approval write nothing.
ReadCache(h) ==
  /\ pc[h] = "read"
  /\ LET from == cache[PoolOf(h)]
         to   == Applied(from, Transition(h))
     IN  IF to # {}
           THEN /\ \E s \in to : loc' = [loc EXCEPT ![h].want = s]
                /\ Goto(h, "write")
                /\ UNCHANGED myLock
           ELSE EndTransition(h, IF Transition(h) = "approve" /\ from = "approved"
                                   THEN from ELSE NoState)
  /\ UNCHANGED <<disk, runs, lockMap, crashes>>

\* The write of the record.
WriteCache(h) ==
  /\ pc[h] = "write"
  /\ cache' = [cache EXCEPT ![PoolOf(h)] = loc[h].want]
  /\ EndTransition(h, loc[h].want)
  /\ UNCHANGED <<log, revocations, record, runs, lockMap, crashes>>

\* Arc::strong_count is one: only the map holds the lock.
Idle(p) == \A g \in Requests : myLock[g] # lockMap[p]

\* evict_cache_lock_if_idle, then the outcome of the transition.
Evict(h) ==
  /\ pc[h] = "evict"
  /\ lockMap' = IF Idle(PoolOf(h)) THEN [lockMap EXCEPT ![PoolOf(h)] = NoLock] ELSE lockMap
  /\ CASE loc[h].want = NoState -> Respond(h, "conflict")
       [] loc[h].want # NoState /\ Transition(h) = "seal" /\ ~IsProduction(h) -> Respond(h, "ok")
       [] OTHER -> Goto(h, "append") /\ UNCHANGED loc
  /\ UNCHANGED <<disk, runs, myLock, crashes>>

\* audit.append, in one piece under the append lock: the signature, or the seal's
\* own entry, which is an `approve` carrying the evidence.
AppendEntry(h) ==
  /\ pc[h] = "append"
  /\ LET action == IF Transition(h) = "seal" THEN "approve" ELSE Transition(h)
     IN  log' = Append(log, NewEntry(action, Actor(h), PoolOf(h), IsProduction(h)))
  /\ CASE Transition(h) = "revoke" -> Goto(h, "revRead") /\ UNCHANGED loc
       [] IsProduction(h)          -> Goto(h, "record") /\ UNCHANGED loc
       [] OTHER                    -> Respond(h, "ok")
  /\ UNCHANGED <<cache, revocations, record, runs, locks, crashes>>

\* The append fails: 500, the cache keeps the transition.
AppendFails(h) ==
  /\ Faults /\ pc[h] = "append"
  /\ Respond(h, "error")
  /\ UNCHANGED <<disk, runs, locks, crashes>>

\* revoke_pool: a read-modify-write of revocations.json, under no lock.
ReadRevocations(h) ==
  /\ pc[h] = "revRead"
  /\ loc' = [loc EXCEPT ![h].revoked = revocations]
  /\ Goto(h, "revWrite")
  /\ UNCHANGED <<disk, runs, locks, crashes>>

RevokedSet(h) == loc[h].revoked \union {PoolOf(h)}

WriteRevocations(h) ==
  /\ pc[h] = "revWrite"
  /\ revocations' = RevokedSet(h)
  /\ Respond(h, "ok")
  /\ UNCHANGED <<log, cache, record, runs, locks, crashes>>

\* launcher_entry_hash: no live launch entry carries a pool_id, so the fall-back
\* takes the first launch entry of the log.
FirstLaunch(es) ==
  LET L == {i \in DOMAIN es : es[i].action = "launch"}
  IN  IF L = {} THEN <<>> ELSE LET i == CHOOSE i \in L : \A j \in L : i <= j
                               IN  <<es[i].pool, es[i].actor>>

\* approval_entry_hashes: one entry for each address that signed.
Approvals(h) == Signers(Entries(h), PoolOf(h))

\* The GovernanceRecord: launch entry and approval entries, from the snapshot.
RecordOf(h) == [launch |-> FirstLaunch(Entries(h)), approvals |-> Approvals(h)]

WriteRecord(h) ==
  /\ pc[h] = "record"
  /\ record' = [record EXCEPT ![PoolOf(h)] = {RecordOf(h)}]
  /\ Respond(h, "ok")
  /\ UNCHANGED <<log, cache, revocations, runs, locks, crashes>>

-----------------------------------------------------------------------------
(* The environment.                                                        *)

\* The client disconnects.  The handler's future is dropped, with its lock clone
\* and guard; a blocking step that has begun runs to its end.
Drop(h) ==
  /\ Disconnects /\ pc[h] \notin {"idle", "done"} /\ ~dropped[h]
  /\ myLock'  = [myLock EXCEPT ![h] = NoLock]
  /\ IF pc[h] \in {"read", "write", "revRead", "revWrite", "record"}
       THEN dropped' = [dropped EXCEPT ![h] = TRUE] /\ UNCHANGED <<pc, loc, answer>>
       ELSE Respond(h, "none")
  /\ UNCHANGED <<disk, runs, lockMap, crashes>>

\* A line appears in the log that append did not write.
ForeignEntry(line) ==
  /\ \A i \in DOMAIN log : log[i].mac = "foreign"
        => <<log[i].pool, log[i].actor>> # <<line.pool, line.by>>
  /\ log' = Append(log, [NewEntry("approve", line.by, line.pool, FALSE) EXCEPT !.mac = "foreign"])
  /\ UNCHANGED <<cache, revocations, record, runs, locks, pc, loc, dropped, answer, crashes>>

\* AuditLog::from_env: without a persistent key, entries signed before a restart do
\* not verify after it.
UnderNewKey(e) == IF EphemeralKey /\ e.mac = "valid" THEN [e EXCEPT !.mac = "stale"] ELSE e

\* The server dies and is restarted.  A record being rewritten (File::create
\* truncates it) may be left unreadable; an ephemeral key is lost.
Crash ==
  /\ crashes < MaxCrashes
  /\ crashes' = crashes + 1
  /\ \E torn \in SUBSET {PoolOf(h) : h \in {g \in Requests : pc[g] = "write"}} :
       cache' = [p \in Pools |-> IF p \in torn THEN "torn" ELSE cache[p]]
  /\ log' = [i \in DOMAIN log |-> UnderNewKey(log[i])]
  /\ pc' = [h \in Requests |-> IF pc[h] = "idle" THEN "idle" ELSE "done"]
  /\ lockMap' = [p \in Pools |-> NoLock]
  /\ myLock'  = [h \in Requests |-> NoLock]
  /\ loc'     = [h \in Requests |-> NoLocal]
  /\ dropped' = [h \in Requests |-> FALSE]
  /\ UNCHANGED <<revocations, record, runs, answer>>

-----------------------------------------------------------------------------
\* The store after the runs in finished and spent crashes, with the requests in
\* asked to come.
InitWith(finished, asked, spent) ==
  /\ log  = [i \in DOMAIN finished |-> NewEntry("launch", finished[i].by, finished[i].pool, FALSE)]
  /\ runs = [i \in DOMAIN finished |->
               [pool |-> finished[i].pool, by |-> finished[i].by, stage |-> "done"]]
  /\ revocations = {}
  /\ cache   = [p \in Pools |-> "draft"]
  /\ record  = [p \in Pools |-> {}]
  /\ lockMap = [p \in Pools |-> NoLock]
  /\ myLock  = [h \in Requests |-> NoLock]
  /\ pc      = [h \in Requests |-> IF h \in asked THEN "idle" ELSE "done"]
  /\ loc     = [h \in Requests |-> NoLocal]
  /\ dropped = [h \in Requests |-> FALSE]
  /\ answer  = [h \in Requests |-> "none"]
  /\ crashes = spent
Init == InitWith(Finished, Requests, 0)

Handle(h) == \/ Begin(h) \/ Resolve(h) \/ Decide(h) \/ Refuse(h) \/ CloneLock(h)
             \/ Acquire(h) \/ ReadCache(h) \/ WriteCache(h) \/ Evict(h)
             \/ AppendEntry(h) \/ AppendFails(h) \/ ReadRevocations(h)
             \/ WriteRevocations(h) \/ WriteRecord(h)

RunsGoOn == \E i \in DOMAIN runs : LogLaunch(i) \/ RunStep(i)

Next == \/ \E h \in Requests : Handle(h) \/ Drop(h)
        \/ \E run \in Launches : Launch(run)
        \/ RunsGoOn
        \/ \E line \in ForeignLines : ForeignEntry(line)
        \/ Crash

Spec == Init /\ [][Next]_vars

\* Every task is polled; the per-pool mutex is first-in first-out.
Fairness == \A h \in Requests : WF_vars(Handle(h) /\ pc[h] # "idle") /\ SF_vars(Acquire(h))

FairSpec == Spec /\ Fairness

-----------------------------------------------------------------------------
(* Properties.                                                             *)

\* TypeOK: every variable has its type; the audit log holds well-formed entries, the
\* cache one of the five states of the lifecycle unless a crash tore the file.
TypeOK ==
  /\ log \in Seq(Entry)
  /\ cache \in [Pools -> States \union {"torn"}]
  /\ revocations \subseteq Pools
  /\ DOMAIN record = Pools /\ \A p \in Pools : \A g \in record[p] : g.approvals \subseteq Emails
  /\ runs \in Seq([pool : Pools, by : Emails, stage : {"running", "wrote", "done"}])
  /\ lockMap \in [Pools -> Requests \union {NoLock}]
  /\ myLock \in [Requests -> Requests \union {NoLock}]
  /\ pc \in [Requests -> {"idle", "resolve", "decide", "refuse", "lock", "wait", "read", "write",
                         "evict", "append", "revRead", "revWrite", "record", "done"}]
  /\ loc \in [Requests -> Local]
  /\ dropped \in [Requests -> BOOLEAN]
  /\ answer \in [Requests -> {"none", "ok", "conflict", "forbidden", "error"}]
  /\ crashes \in 0 .. MaxCrashes

\* Who signed the pool through the approve handler, by lower-case address.
Approvers(p) == {Lower[log[i].actor] : i \in {j \in DOMAIN log :
                   /\ log[j].action = "approve" /\ log[j].pool = p
                   /\ log[j].mac # "foreign" /\ ~log[j].evidence}}

LaunchersOf(p) == {Lower[runs[i].by] : i \in {j \in DOMAIN runs : runs[j].pool = p}}

\* Dual sign-off: a production pool is sealed only if at least two persons approved
\* it, not counting one who launched it - whatever order the launch entry, the
\* approvals, the seal and lines foreign to the log arrive in.
DualSignoff ==
  \A p \in Pools : Mode[p] = "production" /\ cache[p] = "sealed"
                     => \E l \in LaunchersOf(p) : Cardinality(Approvers(p) \ {l}) >= 2

\* The per-pool lock excludes: two requests for one pool never read-modify-write its
\* governance record at the same time, although locks are evicted and created anew.
CacheExclusive ==
  \A g, h \in Requests : pc[g] \in Running /\ pc[h] \in Running /\ PoolOf(g) = PoolOf(h)
                             => g = h

\* Only a legal edge of the lifecycle is ever taken, from the state the record really
\* has when it is written (or the write is torn by a crash): no racing transition,
\* computed from an earlier state, overwrites another - in particular a rejection
\* and a revocation are final.
OnlyLegalEdges ==
  [][\A p \in Pools : cache'[p] # cache[p] =>
        \/ cache'[p] = "torn"
        \/ \E e \in Edges : e[1] = cache[p] /\ e[3] = cache'[p]]_vars

\* A revoke that was answered with 200 has made the pool inert, and it stays inert.
RevokeAnswered ==
  \A h \in Requests : Transition(h) = "revoke" /\ answer[h] = "ok" => PoolOf(h) \in revocations

\* A revoked pool is never sealed afterwards: the revocation set and a sealed cache
\* exclude each other, although the seal decides on snapshots of log and revocations.
RevokedNotSealed == \A p \in revocations : cache[p] # "sealed"

\* What the server owes an approver who was answered: changes of a record do not
\* overlap, and a revocation stands against every later seal.
GovernanceSound == TypeOK /\ CacheExclusive /\ RevokeAnswered /\ RevokedNotSealed

\* Every request that has begun is answered.
AllAnswered == \A h \in Requests : (pc[h] # "idle") ~> (pc[h] = "done")

=============================================================================
