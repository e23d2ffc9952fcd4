-------------------------- MODULE RunManagerProofs --------------------------
(***************************************************************************)
(* Proofs about RunManager, for any set of runs, any permits and any       *)
(* number of halts, crashes, shutdowns and disconnects.                    *)
(***************************************************************************)
EXTENDS RunManager, FiniteSetTheorems, TLAPS

USE DEF disk, task, server, api, env, Running, Exits

\* The prefix of a line queue that survives a cancellation is a line queue.
LEMMA PrefixType ==
  ASSUME NEW s \in Seq(Lines), NEW t \in Prefixes(s)
  PROVE  t \in Seq(Lines)
  BY DEF Prefixes

\* The initial state is well typed.
LEMMA TypeInit == Init => TypeOK
<1> USE DEF Init, Meta, NoMeta, NewMeta, Statuses, Phases, Report, NoReport
<1>1. Init => DiskType  BY DEF DiskType
<1>2. Init => TaskType  BY DEF TaskType
<1>3. Init => ServerType  BY DEF ServerType
<1>4. Init => ApiType  BY DEF ApiType
<1>5. Init => EnvType  BY BoundAssumption DEF EnvType
<1>6. QED  BY <1>1, <1>2, <1>3, <1>4, <1>5 DEF TypeOK

\* The steps of a create request keep every variable well typed.
LEMMA TypeCreate == ASSUME TypeOK, NEW r \in Runs, Create(r) PROVE TypeOK'
<1> USE DEF TypeOK, DiskType, TaskType, ServerType, ApiType, EnvType
<1>1. CASE CreateBegin(r)  BY <1>1 DEF CreateBegin
<1>2. CASE CreateInit(r)  BY <1>2 DEF CreateInit, Meta, NewMeta, Statuses
<1>3. CASE CreateReadIndex(r)  BY <1>3 DEF CreateReadIndex
<1>4. CASE CreateWriteIndex(r)  BY <1>4 DEF CreateWriteIndex
<1>5. CASE CreateIoError(r)  BY <1>5 DEF CreateIoError
<1>6. CASE CreateSpawn(r)  BY <1>6 DEF CreateSpawn, Meta, NewMeta, Statuses, Phases
<1>7. CASE CreateDropped(r)  BY <1>7 DEF CreateDropped
<1>8. QED  BY <1>1, <1>2, <1>3, <1>4, <1>5, <1>6, <1>7 DEF Create

\* A meta.json with another status is a meta.json.
LEMMA MetaStatus ==
  ASSUME NEW m \in Meta, NEW st \in Statuses
  PROVE  /\ [m EXCEPT !.status = st] \in Meta
         /\ [m EXCEPT !.status = st].status = st
         /\ [m EXCEPT !.status = st].sealed = m.sealed
         /\ [m EXCEPT !.status = st].gate = m.gate
  BY DEF Meta

\* What a supervisor's write does, without the record updates.
LEMMA WriteType ==
  ASSUME TypeOK, NEW r \in Runs, NEW st \in Statuses, WriteMeta(r, st)
  PROVE  /\ copy' \in [Runs -> Meta] /\ meta' \in [Runs -> Meta]
         /\ meta'[r] = copy'[r]
         /\ copy'[r].status = st /\ copy'[r].sealed = copy[r].sealed
         /\ \A q \in Runs \ {r} : copy'[q] = copy[q] /\ meta'[q] = meta[q]
<1> DEFINE m == [copy[r] EXCEPT !.status = st]
<1>1. m \in Meta /\ m.status = st /\ m.sealed = copy[r].sealed
  BY MetaStatus DEF TypeOK, TaskType
<1>2. copy' = [copy EXCEPT ![r] = m] /\ meta' = [meta EXCEPT ![r] = m]
  BY DEF WriteMeta
<1> HIDE DEF m
<1>3. QED  BY <1>1, <1>2 DEF TypeOK, DiskType, TaskType

\* The three outcomes of a supervisor step keep the types of what they write.
LEMMA TypeFail ==
  ASSUME TypeOK, NEW r \in Runs, Fail(r)
  PROVE  TaskType' /\ meta' \in [Runs -> Meta]
<1>1. copy' \in [Runs -> Meta] /\ meta' \in [Runs -> Meta]
  BY WriteType DEF Fail, Statuses
<1>2. QED  BY <1>1 DEF Fail, TypeOK, TaskType

\* Recording a success keeps the types of what it writes.
LEMMA TypeSucceed ==
  ASSUME TypeOK, NEW r \in Runs, Succeed(r)
  PROVE  TaskType' /\ meta' \in [Runs -> Meta]
<1>1. copy' \in [Runs -> Meta] /\ meta' \in [Runs -> Meta]
  BY WriteType DEF Succeed, Statuses
<1>2. QED  BY <1>1 DEF Succeed, TypeOK, TaskType

\* Spawning a child, or failing to, keeps the types of what it writes.
LEMMA TypeSpawn ==
  ASSUME TypeOK, NEW r \in Runs, NEW p \in Phases, Spawn(r, p)
  PROVE  TaskType' /\ meta' \in [Runs -> Meta]
<1>1. copy' \in [Runs -> Meta] /\ meta' \in [Runs -> Meta]
  BY WriteType DEF Spawn, Statuses
<1>2. chan' \in [Runs -> Seq(Lines)]  BY DEF Spawn, TypeOK, TaskType
<1>3. /\ sup' \in [Runs -> {"none", "pool", "lane", "drain", "join", "dereg", "gone"}]
      /\ phase' \in [Runs -> Phases]
      /\ child' \in [Runs -> Running \union Exits \union {"none"}]
      /\ worker' \in [Runs -> {"none", "draining", "finished"}]
  BY DEF Spawn, TypeOK, TaskType
<1>4. /\ pending' \in [Runs -> BOOLEAN]
      /\ seen' \in [Runs -> BOOLEAN]
      /\ late' \in [Runs -> BOOLEAN]
  BY DEF Spawn, TypeOK, TaskType
<1>5. QED  BY <1>1, <1>2, <1>3, <1>4 DEF TaskType

\* Starting the next phase of a supervised run keeps the types of what it writes.
LEMMA TypeStart ==
  ASSUME TypeOK, NEW r \in Runs, Start(r)
  PROVE  TaskType' /\ meta' \in [Runs -> Meta]
<1>1. phase[r] \in Phases  BY DEF TypeOK, TaskType
<1>2. QED  BY <1>1, TypeFail, TypeSpawn DEF Start

\* No step of a supervisor leaves the types.
LEMMA TypeSupervise == ASSUME TypeOK, NEW r \in Runs, Supervise(r) PROVE TypeOK'
<1>1. ASSUME TaskType', meta' \in [Runs -> Meta], SupFrame  PROVE TypeOK'
  BY <1>1 DEF TypeOK, DiskType, ServerType, ApiType, EnvType, SupFrame
<1>2. CASE AcquirePool(r)
  <2>1. CASE NeedsLane(r)
    BY <1>2, <2>1, <1>1 DEF AcquirePool, TypeOK, DiskType, TaskType
  <2>2. CASE ~NeedsLane(r)
    BY <1>2, <2>2, <1>1, TypeStart DEF AcquirePool
  <2>3. QED  BY <2>1, <2>2
<1>3. CASE PoolClosed(r)  BY <1>3, <1>1, TypeFail DEF PoolClosed
<1>4. CASE AcquireLane(r)  BY <1>4, <1>1, TypeStart DEF AcquireLane
<1>5. CASE ReadEof(r)
  BY <1>5 DEF ReadEof, TypeOK, DiskType, TaskType, ServerType, ApiType, EnvType
<1>6. CASE DeadlineFires(r)
  <2>1. PICK s \in Prefixes(chan[r]) : chan' = [chan EXCEPT ![r] = s]
    BY <1>6 DEF DeadlineFires
  <2>2. s \in Seq(Lines)  BY PrefixType DEF TypeOK, TaskType
  <2>3. TaskType'  BY <1>6, <2>1, <2>2 DEF DeadlineFires, TypeOK, TaskType
  <2>4. QED  BY <1>6, <2>3 DEF DeadlineFires, TypeOK, DiskType, ServerType, ApiType, EnvType
<1>7. CASE Conclude(r)
  <2>1. Fail(r) \/ Succeed(r) \/ Spawn(r, "backtest")
    BY <1>7 DEF Conclude, TypeOK, TaskType, Phases
  <2>2. QED  BY <1>7, <1>1, <2>1, TypeFail, TypeSucceed, TypeSpawn DEF Conclude, Phases
<1>8. CASE Deregister(r)
  BY <1>8 DEF Deregister, TypeOK, DiskType, TaskType, ServerType, ApiType, EnvType
<1>9. QED  BY <1>2, <1>3, <1>4, <1>5, <1>6, <1>7, <1>8 DEF Supervise

\* Folding a line changes the gate or the vintage of the working copy, never its
\* status, and writes it or not.
LEMMA FoldedLine ==
  ASSUME TypeOK, NEW r \in Runs, WorkerLine(r)
  PROVE  \E m \in Meta : /\ m.status = copy[r].status
                         /\ copy[r].sealed => m.sealed
                         /\ copy' = [copy EXCEPT ![r] = m]
                         /\ meta' = meta \/ meta' = [meta EXCEPT ![r] = m]
<1> DEFINE line == Head(chan[r])
           m    == CASE line = "gatePass" -> [copy[r] EXCEPT !.gate = "pass"]
                     [] line = "gateFail" -> [copy[r] EXCEPT !.gate = "fail"]
                     [] line = "doneSealed" -> [copy[r] EXCEPT !.sealed = TRUE]
                     [] OTHER -> copy[r]
<1>1. copy[r] \in Meta  BY DEF TypeOK, TaskType
<1>2. m \in Meta /\ m.status = copy[r].status /\ (copy[r].sealed => m.sealed)
  BY <1>1 DEF Meta
<1>3. copy' = [copy EXCEPT ![r] = m] /\ (meta' = meta \/ meta' = [meta EXCEPT ![r] = m])
  BY DEF WorkerLine
<1> HIDE DEF m
<1>4. QED  BY <1>2, <1>3

\* No step of a drain worker leaves the types.
LEMMA TypeDrain == ASSUME TypeOK, NEW r \in Runs, Drain(r) PROVE TypeOK'
<1>1. CASE WorkerLine(r)
  <2>1. PICK m \in Meta : /\ copy' = [copy EXCEPT ![r] = m]
                          /\ meta' = meta \/ meta' = [meta EXCEPT ![r] = m]
    BY <1>1, FoldedLine
  <2>2. meta' \in [Runs -> Meta] /\ copy' \in [Runs -> Meta]
    BY <2>1 DEF TypeOK, DiskType, TaskType
  <2>3. chan[r] \in Seq(Lines) /\ chan[r] # <<>>  BY <1>1 DEF WorkerLine, TypeOK, TaskType
  <2>4. Tail(chan[r]) \in Seq(Lines)  BY <2>3
  <2>5. pending' \in [Runs -> BOOLEAN] /\ seen' \in [Runs -> BOOLEAN]
    BY <1>1 DEF WorkerLine, TypeOK, TaskType
  <2>6. QED
    BY <1>1, <2>2, <2>4, <2>5
    DEF WorkerLine, TypeOK, DiskType, TaskType, ServerType, ApiType, EnvType
<1>2. CASE WorkerFinish(r)
  BY <1>2 DEF WorkerFinish, TypeOK, DiskType, TaskType, ServerType, ApiType, EnvType
<1>3. QED  BY <1>1, <1>2 DEF Drain

\* No step of a child process, owned or orphaned, leaves the types.
LEMMA TypeChild == ASSUME TypeOK, NEW r \in Runs, Child(r) PROVE TypeOK'
<1> USE DEF TypeOK, DiskType, TaskType, ServerType, ApiType, EnvType
<1>1. CASE ChildLine(r)  BY <1>1 DEF ChildLine, Lines
<1>2. CASE ChildResult(r)  BY <1>2 DEF ChildResult, ResultOf
<1>3. CASE ChildDone(r)  BY <1>3 DEF ChildDone, Lines, DoneLines
<1>4. CASE ChildCloses(r)  BY <1>4 DEF ChildCloses
<1>5. CASE ChildExit(r)  BY <1>5 DEF ChildExit
<1>6. CASE OrphanResult(r)  BY <1>6 DEF OrphanResult
<1>7. QED  BY <1>1, <1>2, <1>3, <1>4, <1>5, <1>6 DEF Child

\* Cancelling a task keeps the types of its variables.
LEMMA TypeCancel == ASSUME TypeOK, NEW r \in Runs, Cancel(r) PROVE TaskType'
<1>1. PICK s \in Prefixes(chan[r]) : chan' = [chan EXCEPT ![r] = s]
  BY DEF Cancel
<1>2. s \in Seq(Lines)  BY PrefixType DEF TypeOK, TaskType
<1>3. QED  BY <1>1, <1>2 DEF Cancel, TypeOK, TaskType

\* The steps of a halt request keep every variable well typed.
LEMMA TypeHalt == ASSUME TypeOK, NEW r \in Runs, Halt(r) PROVE TypeOK'
<1> USE DEF TypeOK, DiskType, ServerType, ApiType, EnvType
<1>1. CASE HaltTake(r)  BY <1>1, TypeCancel, BoundAssumption DEF HaltTake
<1>2. CASE HaltMark(r)
  <2>1. meta' \in [Runs -> Meta]  BY <1>2 DEF HaltMark, MarkFailed, Meta, Statuses
  <2>2. meta'[r].status \in Statuses  BY <2>1 DEF Meta
  <2>3. QED  BY <1>2, <2>1, <2>2 DEF HaltMark, Report, TaskType
<1>3. CASE HaltNoHandle(r)
  BY <1>3, BoundAssumption DEF HaltNoHandle, Report, Meta, TaskType
<1>4. CASE HaltDropped(r)  BY <1>4 DEF HaltDropped, TaskType
<1>5. QED  BY <1>1, <1>2, <1>3, <1>4 DEF Halt

\* What a process loses with its memory is reset to well-typed values.
LEMMA TypeMemoryLost ==
  ASSUME TypeOK, MemoryLost, UNCHANGED report
  PROVE  TaskType' /\ ServerType' /\ ApiType'
<1> USE DEF MemoryLost, TypeOK
<1>1. TaskType'  BY DEF TaskType, Meta, NewMeta, Statuses, Phases
<1>2. ServerType'  BY DEF ServerType
<1>3. ApiType'  BY DEF ApiType
<1>4. QED  BY <1>1, <1>2, <1>3

\* A shutdown or a crash keeps every variable well typed.
LEMMA TypeShutdown == ASSUME TypeOK, Shutdown \/ Crash PROVE TypeOK'
<1> USE DEF TypeOK, DiskType, EnvType
<1>1. CASE Signal
  BY <1>1, BoundAssumption DEF Signal, TaskType, ServerType, ApiType
<1>2. CASE ShutdownBegin  BY <1>2 DEF ShutdownBegin, TaskType, ServerType, ApiType
<1>3. ASSUME NEW r \in Runs, ShutdownDrained(r)  PROVE TypeOK'
  BY <1>3 DEF ShutdownDrained, TaskType, ServerType, ApiType
<1>4. ASSUME NEW r \in Runs, ShutdownAbort(r)  PROVE TypeOK'
  <2>1. meta' \in [Runs -> Meta]  BY <1>4 DEF ShutdownAbort, MarkFailed, Meta, Statuses
  <2>2. QED  BY <1>4, <2>1, TypeCancel DEF ShutdownAbort, ServerType, ApiType
<1>5. CASE Exit  BY <1>5, TypeMemoryLost DEF Exit
<1>6. CASE Crash
  <2>1. phase \in [Runs -> Phases]  BY DEF TaskType
  <2>2. QED  BY <1>6, <2>1, TypeMemoryLost, BoundAssumption DEF Crash
<1>7. QED  BY <1>1, <1>2, <1>3, <1>4, <1>5, <1>6 DEF Shutdown

\* Reconciling one orphan at boot keeps the types.
LEMMA TypeReconcile == ASSUME TypeOK, NEW r \in Runs, Reconcile(r) PROVE TypeOK'
<1>1. meta[r] \in Meta  BY DEF TypeOK, DiskType
<1>2. [meta[r] EXCEPT !.status = "failed"] \in Meta  BY <1>1, MetaStatus DEF Statuses
<1>3. meta' = meta \/ meta' = [meta EXCEPT ![r].status = "failed"]  BY DEF Reconcile
<1>4. meta' \in [Runs -> Meta]  BY <1>2, <1>3 DEF TypeOK, DiskType
<1>5. QED
  BY <1>4 DEF Reconcile, TypeOK, DiskType, TaskType, ServerType, ApiType, EnvType

\* Resuming one orphaned flow at boot keeps the types.
LEMMA TypeResume == ASSUME TypeOK, NEW r \in Runs, Resume(r) PROVE TypeOK'
<1>1. TaskType'
  <2>1. CASE NonTerminal(meta[r]) /\ Resumable(r)
    <3>1. meta[r] \in Meta  BY DEF TypeOK, DiskType
    <3>2. copy' = [copy EXCEPT ![r] = meta[r]]  BY <2>1 DEF Resume
    <3>3. copy' \in [Runs -> Meta]  BY <3>1, <3>2 DEF TypeOK, TaskType
    <3>4. QED  BY <2>1, <3>3 DEF Resume, ResumePhase, TypeOK, TaskType, Phases
  <2>2. CASE ~(NonTerminal(meta[r]) /\ Resumable(r))
    BY <2>2 DEF Resume, TypeOK, TaskType
  <2>3. QED  BY <2>1, <2>2
<1>2. registry' \subseteq Runs  BY DEF Resume, TypeOK, ServerType
<1>3. QED  BY <1>1, <1>2 DEF Resume, TypeOK, DiskType, ServerType, ApiType, EnvType

\* The boot passes keep every variable well typed.
LEMMA TypeStartup == ASSUME TypeOK, Startup PROVE TypeOK'
<1> USE DEF TypeOK, DiskType, TaskType, ServerType, ApiType, EnvType
<1>1. CASE Boot  BY <1>1 DEF Boot
<1>2. CASE ReconcileDone  BY <1>2 DEF ReconcileDone
<1>3. CASE Serve  BY <1>3 DEF Serve
<1>4. QED  BY <1>1, <1>2, <1>3, TypeReconcile, TypeResume DEF Startup

\* Every step of every actor keeps the types.
LEMMA TypeNext == TypeOK /\ [Next]_vars => TypeOK'
<1> SUFFICES ASSUME TypeOK, [Next]_vars  PROVE TypeOK'
  OBVIOUS
<1>1. CASE UNCHANGED vars
  BY <1>1 DEF vars, TypeOK, DiskType, TaskType, ServerType, ApiType, EnvType
<1>2. CASE Next
  BY <1>2, TypeCreate, TypeSupervise, TypeDrain, TypeChild, TypeHalt,
     TypeShutdown, TypeStartup DEF Next
<1>3. QED  BY <1>1, <1>2

\* Every variable keeps its type; in particular no step of any task ever writes a
\* status that RunStatus does not have.
THEOREM TypeCorrect == Spec => []TypeOK
  BY TypeInit, TypeNext, PTL DEF Spec

-----------------------------------------------------------------------------
\* The inductive invariant behind honest success, for one run and for all.
SafeOf(r) == SoleWriterOf(r) /\ (meta[r].status = "succeeded" => Complete(r))

Safe == TypeOK /\ \A r \in Runs : SafeOf(r)

\* The inductive invariant is the conjunction of the types and the two properties it is for.
LEMMA SafeParts == Safe <=> TypeOK /\ SoleWriter /\ SucceededHasResult
  BY DEF Safe, SafeOf, SoleWriter, SucceededHasResult

\* A create request writes a meta.json that no one else can write yet.
LEMMA SafeCreate ==
  ASSUME Safe, NEW r \in Runs, Create(r), NEW q \in Runs
  PROVE  SafeOf(q)'
<1> USE DEF Safe, SafeOf, SoleWriterOf, Complete, TypeOK, DiskType, TaskType, ApiType, Undecided
<1>1. CASE CreateBegin(r)  BY <1>1 DEF CreateBegin, Serving, NoMeta
<1>2. CASE CreateInit(r)  BY <1>2 DEF CreateInit, NewMeta
<1>3. CASE CreateReadIndex(r)  BY <1>3 DEF CreateReadIndex
<1>4. CASE CreateWriteIndex(r)  BY <1>4 DEF CreateWriteIndex
<1>5. CASE CreateIoError(r)  BY <1>5 DEF CreateIoError
<1>6. CASE CreateSpawn(r)  BY <1>6 DEF CreateSpawn, NewMeta
<1>7. CASE CreateDropped(r)  BY <1>7 DEF CreateDropped
<1>8. QED  BY <1>1, <1>2, <1>3, <1>4, <1>5, <1>6, <1>7 DEF Create

\* A supervisor that records a failure is the sole writer and takes no success back.
LEMMA SafeFail ==
  ASSUME Safe, NEW r \in Runs, Fail(r), SupFrame, NEW q \in Runs,
         worker[r] # "draining", sup[r] # "none"
  PROVE  SafeOf(q)'
  BY WriteType DEF Fail, Statuses, SupFrame, Safe, SafeOf, SoleWriterOf, Complete, TypeOK, DiskType,
       TaskType, Undecided

\* A spawned child has one drain worker, and its supervisor waits for it.
LEMMA SafeSpawn ==
  ASSUME Safe, NEW r \in Runs, NEW p \in Phases, Spawn(r, p), SupFrame,
         NEW q \in Runs, sup[r] \in Undecided,
         p = "backtest" => "train" \in files[r] /\ copy[r].sealed,
         p = "main" <=> phase[r] = "main"
  PROVE  SafeOf(q)'
<1>1. CASE q = r
  <2>1. /\ meta'[r].status = "running" /\ copy'[r].status = "running"
        /\ copy'[r].sealed = copy[r].sealed
    BY WriteType DEF Spawn, Statuses, Safe
  <2>2. sup'[r] = "drain" /\ phase'[r] = p /\ worker'[r] = "draining"
    BY DEF Spawn, Safe, TypeOK, TaskType
  <2>3. UNCHANGED <<files, server, api>>  BY DEF SupFrame
  <2>4. SafeOf(r)  BY DEF Safe
  <2>5. QED  BY <1>1, <2>1, <2>2, <2>3, <2>4 DEF SafeOf, SoleWriterOf, Complete, Undecided
<1>2. CASE q # r
  BY <1>2, WriteType DEF Spawn, Statuses, SupFrame, Safe, SafeOf, SoleWriterOf, Complete,
       TypeOK, DiskType, TaskType, Undecided
<1>3. QED  BY <1>1, <1>2

\* A success is recorded only by the supervisor whose results are on disk.
LEMMA SafeSucceed ==
  ASSUME Safe, NEW r \in Runs, Succeed(r), SupFrame, NEW q \in Runs,
         worker[r] = "finished", sup[r] = "join", phase[r] # "train", phase[r] \in files[r]
  PROVE  SafeOf(q)'
<1>1. CASE q = r
  <2>1. /\ meta'[r] = copy'[r] /\ copy'[r].status = "succeeded"
        /\ copy'[r].sealed = copy[r].sealed
    BY WriteType DEF Succeed, Statuses, Safe
  <2>2. sup'[r] = "dereg" /\ UNCHANGED <<phase, worker>>
    BY DEF Succeed, Safe, TypeOK, TaskType
  <2>3. UNCHANGED <<files, server, api>>  BY DEF SupFrame
  <2>4. SafeOf(r) /\ phase[r] \in Phases  BY DEF Safe, TypeOK, TaskType
  <2>5. Complete(r)'
    BY <2>1, <2>3, <2>4 DEF Complete, ResultsOf, SafeOf, SoleWriterOf, Undecided, Phases
  <2>6. SoleWriterOf(r)'
    BY <2>1, <2>2, <2>3, <2>4 DEF SafeOf, SoleWriterOf, Undecided
  <2>7. QED  BY <1>1, <2>5, <2>6 DEF SafeOf
<1>2. CASE q # r
  BY <1>2, WriteType DEF Succeed, Statuses, SupFrame, Safe, SafeOf, SoleWriterOf, Complete,
       TypeOK, DiskType, TaskType, Undecided
<1>3. QED  BY <1>1, <1>2

\* Entering the next phase keeps the single writer.
LEMMA SafeStart ==
  ASSUME Safe, NEW r \in Runs, Start(r), SupFrame, NEW q \in Runs,
         sup[r] \in {"pool", "lane"}
  PROVE  SafeOf(q)'
<1>1. /\ worker[r] # "draining"
      /\ phase[r] = "backtest" => "train" \in files[r] /\ copy[r].sealed
      /\ phase[r] \in Phases
  BY DEF Safe, SafeOf, SoleWriterOf, Undecided, TypeOK, TaskType
<1>2. QED  BY <1>1, SafeFail, SafeSpawn DEF Start, Undecided

\* No step of a supervisor breaks the invariant.
LEMMA SafeSupervise ==
  ASSUME Safe, NEW r \in Runs, Supervise(r), NEW q \in Runs
  PROVE  SafeOf(q)'
<1>1. CASE AcquirePool(r)
  <2>1. CASE NeedsLane(r)
    BY <1>1, <2>1 DEF AcquirePool, SupFrame, Safe, SafeOf, SoleWriterOf, Complete, TypeOK,
       TaskType, Undecided
  <2>2. CASE ~NeedsLane(r)  BY <1>1, <2>2, SafeStart DEF AcquirePool
  <2>3. QED  BY <2>1, <2>2
<1>2. CASE PoolClosed(r)
  BY <1>2, SafeFail DEF PoolClosed, Safe, SafeOf, SoleWriterOf
<1>3. CASE AcquireLane(r)  BY <1>3, SafeStart DEF AcquireLane
<1>4. CASE ReadEof(r)
  BY <1>4 DEF ReadEof, Safe, SafeOf, SoleWriterOf, Complete, TypeOK, TaskType, Undecided
<1>5. CASE DeadlineFires(r)
  BY <1>5 DEF DeadlineFires, Safe, SafeOf, SoleWriterOf, Complete, TypeOK, TaskType, Undecided
<1>6. CASE Conclude(r)
  <2>1. /\ worker[r] = "finished" /\ sup[r] = "join" /\ SupFrame
        /\ phase[r] \in Phases
    BY <1>6 DEF Conclude, OutcomeReady, Safe, TypeOK, TaskType
  <2>2. CASE Fail(r)  BY <2>1, <2>2, SafeFail
  <2>3. CASE phase[r] # "train" /\ JobOk(r) /\ Succeed(r)
    BY <2>1, <2>3, SafeSucceed DEF JobOk, ResultOf
  <2>4. CASE phase[r] = "train" /\ JobOk(r) /\ copy[r].sealed /\ Spawn(r, "backtest")
    BY <2>1, <2>4, SafeSpawn DEF JobOk, ResultOf, Undecided, Phases
  <2>5. QED  BY <1>6, <2>1, <2>2, <2>3, <2>4 DEF Conclude, TrainPromoted, Phases
<1>7. CASE Deregister(r)
  BY <1>7 DEF Deregister, Safe, SafeOf, SoleWriterOf, Complete, TypeOK, TaskType, Undecided
<1>8. QED  BY <1>1, <1>2, <1>3, <1>4, <1>5, <1>6, <1>7 DEF Supervise

\* A drain worker writes `running` only while it may, and no success after its own.
LEMMA SafeDrain ==
  ASSUME Safe, NEW r \in Runs, Drain(r), NEW q \in Runs
  PROVE  SafeOf(q)'
<1> USE DEF Safe, SafeOf, SoleWriterOf, Complete, TypeOK, DiskType, TaskType, Undecided
<1>1. CASE WorkerLine(r)
  <2>1. PICK m \in Meta : /\ m.status = copy[r].status
                          /\ copy[r].sealed => m.sealed
                          /\ copy' = [copy EXCEPT ![r] = m]
                          /\ meta' = meta \/ meta' = [meta EXCEPT ![r] = m]
    BY <1>1, FoldedLine
  <2>2. worker[r] = "draining" /\ UNCHANGED <<files, sup, phase, worker, server, api>>
    BY <1>1 DEF WorkerLine
  <2>3. CASE q = r  BY <2>1, <2>2, <2>3
  <2>4. CASE q # r  BY <2>1, <2>2, <2>4
  <2>5. QED  BY <2>3, <2>4
<1>2. CASE WorkerFinish(r)  BY <1>2 DEF WorkerFinish
<1>3. QED  BY <1>1, <1>2 DEF Drain

\* A child writes results and lines, never a meta.json.
LEMMA SafeChild ==
  ASSUME Safe, NEW r \in Runs, Child(r), NEW q \in Runs
  PROVE  SafeOf(q)'
<1>1. UNCHANGED <<meta, copy, sup, phase, worker, api, server>>
  BY DEF Child, ChildLine, ChildResult, ChildDone, ChildCloses, ChildExit, OrphanResult
<1>2. files[q] \subseteq files'[q]
  BY DEF Child, ChildLine, ChildResult, ChildDone, ChildCloses, ChildExit, OrphanResult, Safe, TypeOK, DiskType
<1>3. SafeOf(q)  BY DEF Safe
<1>4. QED  BY <1>1, <1>2, <1>3 DEF SafeOf, SoleWriterOf, Complete, ResultsOf

\* Marking a run `failed` touches nothing but a non-terminal status.
LEMMA Marked ==
  ASSUME TypeOK, NEW r \in Runs, MarkFailed(r)
  PROVE  /\ \A q \in Runs \ {r} : meta'[q] = meta[q]
         /\ \/ meta'[r] = meta[r]
            \/ NonTerminal(meta[r]) /\ meta'[r].status = "failed"
<1>1. CASE NonTerminal(meta[r])
  <2>1. meta' = [meta EXCEPT ![r].status = "failed"]  BY <1>1 DEF MarkFailed
  <2>2. QED  BY <1>1, <2>1 DEF TypeOK, DiskType, Meta
<1>2. CASE ~NonTerminal(meta[r])  BY <1>2 DEF MarkFailed
<1>3. QED  BY <1>1, <1>2

\* Marking a run failed keeps the invariant: a success is left alone.
LEMMA SafeMarked ==
  ASSUME Safe, NEW r \in Runs, MarkFailed(r), NEW q \in Runs, q = r => sup[r] # "none",
         UNCHANGED <<files, copy, phase, worker, proc, bootTodo, creator>>,
         sup'[q] = sup[q] \/ (q = r /\ sup'[q] = "gone"),
         registry' \subseteq registry, shutSet' \subseteq shutSet,
         halter'[q] = halter[q] \/ halter'[q] = "idle"
  PROVE  SafeOf(q)'
<1>1. SafeOf(q) /\ TypeOK  BY DEF Safe
<1>2. \/ meta'[q] = meta[q]
      \/ q = r /\ NonTerminal(meta[q]) /\ meta'[q].status = "failed"
  BY <1>1, Marked
<1>3. CASE meta'[q] = meta[q]
  BY <1>1, <1>3 DEF SafeOf, SoleWriterOf, Complete, Undecided
<1>4. CASE q = r /\ NonTerminal(meta[q]) /\ meta'[q].status = "failed"
  BY <1>1, <1>4 DEF SafeOf, SoleWriterOf, Undecided
<1>5. QED  BY <1>2, <1>3, <1>4

\* No step of a halt request breaks the invariant.
LEMMA SafeHalt ==
  ASSUME Safe, NEW r \in Runs, Halt(r), NEW q \in Runs
  PROVE  SafeOf(q)'
<1> USE DEF Safe, SafeOf, SoleWriterOf, Complete, TypeOK, TaskType, ApiType, Undecided
<1>1. CASE HaltTake(r)  BY <1>1 DEF HaltTake, Cancel, Serving
<1>2. CASE HaltMark(r)
  <2>1. /\ MarkFailed(r) /\ UNCHANGED <<files, task, proc, bootTodo, creator, registry, shutSet>>
        /\ halter' = [halter EXCEPT ![r] = "idle"]
        /\ halter[r] = "marking"
    BY <1>2 DEF HaltMark
  <2>2. sup[r] # "none"  BY <2>1
  <2>3. halter'[q] = halter[q] \/ halter'[q] = "idle"  BY <2>1
  <2> HIDE DEF Safe
  <2>4. QED  BY <2>1, <2>2, <2>3, SafeMarked
<1>3. CASE HaltNoHandle(r)  BY <1>3 DEF HaltNoHandle
<1>4. CASE HaltDropped(r)  BY <1>4 DEF HaltDropped
<1>5. QED  BY <1>1, <1>2, <1>3, <1>4 DEF Halt

\* A process that is gone writes nothing.
LEMMA SafeMemoryLost ==
  ASSUME Safe, MemoryLost, UNCHANGED <<meta, files>>, NEW q \in Runs
  PROVE  SafeOf(q)'
  BY DEF MemoryLost, Safe, SafeOf, SoleWriterOf, Complete, Undecided

\* A shutdown or a crash keeps the invariant.
LEMMA SafeShutdown ==
  ASSUME Safe, Shutdown \/ Crash, NEW q \in Runs
  PROVE  SafeOf(q)'
<1>1. CASE Signal
  BY <1>1 DEF Signal, Serving, Safe, SafeOf, SoleWriterOf, Complete
<1>2. CASE ShutdownBegin
  BY <1>2 DEF ShutdownBegin, Safe, SafeOf, SoleWriterOf, Complete
<1>3. ASSUME NEW r \in Runs, ShutdownDrained(r)  PROVE SafeOf(q)'
  BY <1>3 DEF ShutdownDrained, Safe, SafeOf, SoleWriterOf, Complete
<1>4. ASSUME NEW r \in Runs, ShutdownAbort(r)  PROVE SafeOf(q)'
  <2>1. sup[r] # "none"  BY <1>4 DEF ShutdownAbort, Safe, SafeOf, SoleWriterOf
  <2>2. sup' = [sup EXCEPT ![r] = "gone"] /\ UNCHANGED <<copy, phase, worker>>
    BY <1>4 DEF ShutdownAbort, Cancel
  <2>3. sup'[q] = sup[q] \/ (q = r /\ sup'[q] = "gone")
    BY <2>2 DEF Safe, TypeOK, TaskType
  <2>4. /\ MarkFailed(r) /\ UNCHANGED <<files, proc, bootTodo, creator, registry, halter>>
        /\ shutSet' \subseteq shutSet
    BY <1>4 DEF ShutdownAbort
  <2>5. QED  BY <2>1, <2>2, <2>3, <2>4, SafeMarked
<1>5. CASE Exit  BY <1>5, SafeMemoryLost DEF Exit
<1>6. CASE Crash  BY <1>6, SafeMemoryLost DEF Crash
<1>7. QED  BY <1>1, <1>2, <1>3, <1>4, <1>5, <1>6 DEF Shutdown

\* Reconciling an orphan writes like a halt does, if it writes at all.
LEMMA Reconciled ==
  ASSUME TypeOK, NEW r \in Runs, Reconcile(r)
  PROVE  \/ meta' = meta
         \/ NonTerminal(meta[r]) /\ MarkFailed(r)
<1>1. CASE NonTerminal(meta[r]) /\ ~Resumable(r)
  BY <1>1 DEF Reconcile, MarkFailed
<1>2. CASE ~(NonTerminal(meta[r]) /\ ~Resumable(r))  BY <1>2 DEF Reconcile
<1>3. QED  BY <1>1, <1>2

\* Reconciliation and resumption keep the invariant, with surviving children or not.
LEMMA SafeStartup ==
  ASSUME Safe, Startup, NEW q \in Runs
  PROVE  SafeOf(q)'
<1>1. CASE Boot  BY <1>1 DEF Boot, Safe, SafeOf, SoleWriterOf, Complete
<1>2. CASE ReconcileDone
  BY <1>2 DEF ReconcileDone, Safe, SafeOf, SoleWriterOf, Complete
<1>3. CASE Serve  BY <1>3 DEF Serve, Safe, SafeOf, SoleWriterOf, Complete
<1>4. ASSUME NEW r \in Runs, Reconcile(r)  PROVE SafeOf(q)'
  <2>1. /\ UNCHANGED <<files, task, api, proc, registry, shutSet>>
        /\ bootTodo' \subseteq bootTodo
        /\ proc = "reconcile"
    BY <1>4 DEF Reconcile
  <2>2. SafeOf(q) /\ SafeOf(r) /\ TypeOK  BY DEF Safe
  <2>3. \/ meta'[q] = meta[q]
        \/ q = r /\ meta'[q].status = "failed"
    BY <1>4, <2>2, Reconciled, Marked
  <2>4. CASE meta'[q] = meta[q]
    BY <2>1, <2>2, <2>4 DEF SafeOf, SoleWriterOf, Complete
  <2>5. CASE q = r /\ meta'[q].status = "failed"
    BY <2>1, <2>2, <2>5 DEF SafeOf, SoleWriterOf, Undecided
  <2>6. QED  BY <2>3, <2>4, <2>5
<1>5. ASSUME NEW r \in Runs, Resume(r)  PROVE SafeOf(q)'
  <2>1. SafeOf(q) /\ SafeOf(r) /\ TypeOK  BY DEF Safe
  <2>2. CASE NonTerminal(meta[r]) /\ Resumable(r)
    BY <1>5, <2>1, <2>2 DEF Resume, ResumePhase, Resumable, NonTerminal, SafeOf, SoleWriterOf,
       Complete, Undecided, TypeOK, TaskType
  <2>3. CASE ~(NonTerminal(meta[r]) /\ Resumable(r))
    BY <1>5, <2>1, <2>3 DEF Resume, SafeOf, SoleWriterOf, Complete
  <2>4. QED  BY <2>2, <2>3
<1>6. QED  BY <1>1, <1>2, <1>3, <1>4, <1>5 DEF Startup

\* The invariant holds initially.
LEMMA SafeInit == Init => Safe
<1>1. Init => \A r \in Runs : SafeOf(r)
  BY DEF Init, SafeOf, SoleWriterOf, NoMeta, Undecided
<1>2. QED  BY <1>1, TypeInit DEF Safe

\* Every step of every actor keeps the invariant.
LEMMA SafeNext == Safe /\ [Next]_vars => Safe'
<1> SUFFICES ASSUME Safe, [Next]_vars  PROVE Safe'
  OBVIOUS
<1>1. TypeOK'
  BY TypeNext DEF Safe
<1>2. ASSUME NEW q \in Runs  PROVE SafeOf(q)'
  <2>1. CASE UNCHANGED vars
    BY <2>1 DEF vars, Safe, SafeOf, SoleWriterOf, Complete
  <2>2. CASE Next
    BY <2>2, SafeCreate, SafeSupervise, SafeDrain, SafeChild, SafeHalt,
       SafeShutdown, SafeStartup DEF Next
  <2>3. QED  BY <2>1, <2>2
<1>3. QED  BY <1>1, <1>2 DEF Safe

\* Who may still write to a run's meta.json, and what, in every reachable state.
THEOREM SoleWriterHolds == Spec => []SoleWriter
<1>1. Safe => SoleWriter  BY DEF Safe, SafeOf, SoleWriter
<1>2. QED  BY SafeInit, SafeNext, <1>1, PTL DEF Spec

\* Honest success: a run recorded `succeeded` has its results, for any number of
\* runs, halts, crashes, shutdowns and disconnects, with surviving children or not.
THEOREM HonestSuccess == Spec => []SucceededHasResult
<1>1. Safe => SucceededHasResult  BY DEF Safe, SafeOf, SucceededHasResult
<1>2. QED  BY SafeInit, SafeNext, <1>1, PTL DEF Spec

\* A step that starts from the invariant leaves a recorded success recorded.
LEMMA SucceededKept ==
  ASSUME Safe, [Next]_vars, NEW q \in Runs, meta[q].status = "succeeded"
  PROVE  meta'[q].status = "succeeded"
<1>1. /\ SafeOf(q) /\ TypeOK
      /\ worker[q] # "draining" /\ sup[q] \notin Undecided
      /\ creator[q] \notin {"init", "initDropped"}
  BY DEF Safe, SafeOf, SoleWriterOf
<1>2. ASSUME NEW r \in Runs, sup[r] \in Undecided, NEW st \in Statuses, WriteMeta(r, st)
      PROVE  meta'[q] = meta[q]
  BY <1>1, <1>2, WriteType
<1>3. ASSUME NEW r \in Runs, Supervise(r)  PROVE meta'[q] = meta[q]
  <2>1. CASE UNCHANGED meta  BY <2>1
  <2>2. CASE sup[r] \in Undecided /\ \E st \in Statuses : WriteMeta(r, st)
    BY <2>2, <1>2
  <2>3. Start(r) => UNCHANGED meta \/ \E st \in Statuses : WriteMeta(r, st)
    BY DEF Start, Spawn, Fail, Statuses
  <2>4. CASE AcquirePool(r)
    BY <2>4, <2>1, <2>2, <2>3 DEF AcquirePool, Undecided
  <2>5. CASE AcquireLane(r)  BY <2>5, <2>1, <2>2, <2>3 DEF AcquireLane, Undecided
  <2>6. CASE PoolClosed(r)  BY <2>6, <2>2 DEF PoolClosed, Fail, Statuses, Undecided
  <2>7. CASE Conclude(r)
    <3>1. Fail(r) \/ Succeed(r) \/ Spawn(r, "backtest")
      BY <2>7, <1>1 DEF Conclude, TypeOK, TaskType, Phases
    <3>2. QED
      BY <2>7, <3>1, <2>2
      DEF Conclude, OutcomeReady, Fail, Succeed, Spawn, Statuses, Undecided
  <2>8. CASE ReadEof(r) \/ DeadlineFires(r) \/ Deregister(r)
    BY <2>8, <2>1 DEF ReadEof, DeadlineFires, Deregister
  <2>9. QED  BY <1>3, <2>4, <2>5, <2>6, <2>7, <2>8 DEF Supervise
<1>4. ASSUME NEW r \in Runs, Drain(r)  PROVE meta'[q] = meta[q]
  <2>1. r # q  BY <1>1, <1>4 DEF Drain, WorkerLine, WorkerFinish
  <2>2. CASE WorkerLine(r)
    BY <1>1, <2>1, <2>2, FoldedLine DEF TypeOK, DiskType
  <2>3. CASE WorkerFinish(r)
    BY <1>1, <2>1, <2>3 DEF WorkerFinish, TypeOK, DiskType
  <2>4. QED  BY <1>4, <2>2, <2>3 DEF Drain
<1>5. ASSUME NEW r \in Runs, MarkFailed(r)  PROVE meta'[q] = meta[q]
  BY <1>1, <1>5, Marked DEF NonTerminal
<1>6. ASSUME NEW r \in Runs, Create(r)  PROVE meta'[q] = meta[q]
  <2>1. CASE CreateInit(r)  BY <1>1, <2>1 DEF CreateInit, TypeOK, DiskType
  <2>2. CASE ~CreateInit(r)
    BY <1>6, <2>2 DEF Create, CreateBegin, CreateReadIndex, CreateWriteIndex, CreateIoError,
       CreateSpawn, CreateDropped
  <2>3. QED  BY <2>1, <2>2
<1>7. ASSUME NEW r \in Runs, Child(r)  PROVE meta'[q] = meta[q]
  BY <1>7 DEF Child, ChildLine, ChildResult, ChildDone, ChildCloses, ChildExit, OrphanResult
<1>8. ASSUME NEW r \in Runs, Halt(r)  PROVE meta'[q] = meta[q]
  BY <1>8, <1>5 DEF Halt, HaltTake, HaltMark, HaltNoHandle, HaltDropped
<1>9. CASE Shutdown \/ Crash
  BY <1>9, <1>5 DEF Shutdown, Crash, Signal, ShutdownBegin, ShutdownDrained, ShutdownAbort, Exit
<1>10. CASE Startup
  <2>1. ASSUME NEW r \in Runs, Reconcile(r)  PROVE meta'[q] = meta[q]
    BY <1>1, <2>1, <1>5, Reconciled
  <2>2. QED  BY <1>10, <2>1 DEF Startup, Boot, ReconcileDone, Serve, Resume
<1>11. CASE UNCHANGED vars  BY <1>11 DEF vars
<1>12. QED
  BY <1>3, <1>4, <1>6, <1>7, <1>8, <1>9, <1>10, <1>11 DEF Next

\* No step takes back a success: not a halt, not a shutdown, not a reconciliation,
\* not a late write of an abandoned drain worker.
THEOREM SuccessIsFinal == Spec => SucceededIsFinal
<1>1. Safe /\ [Next]_vars
        => [\A r \in Runs : meta[r].status = "succeeded" => meta'[r].status = "succeeded"]_vars
  BY SucceededKept
<1>2. QED  BY SafeInit, SafeNext, <1>1, PTL DEF Spec, SucceededIsFinal
-----------------------------------------------------------------------------
(* What the steps of a supervisor and of a drain worker amount to.         *)

\* A step that leaves the run q as it is.
Same(q) == /\ meta'[q] = meta[q] /\ sup'[q] = sup[q] /\ phase'[q] = phase[q]
           /\ child'[q] = child[q] /\ worker'[q] = worker[q]

\* The supervisor of r goes on to wait for its lane, ...
Waits(r) == /\ sup[r] = "pool" /\ sup'[r] = "lane"
            /\ UNCHANGED <<meta, phase, child, worker, registry>>

\* ... starts a child, with the permit its lane has left, ...
Starts(r) == /\ \/ sup[r] = "pool" /\ ~NeedsLane(r) /\ phase'[r] = phase[r]
                \/ sup[r] = "lane" /\ LaneFree(r) /\ phase'[r] = phase[r]
                \/ sup[r] = "join" /\ phase[r] = "train" /\ phase'[r] = "backtest"
             /\ sup'[r] = "drain" /\ child'[r] = "quiet" /\ worker'[r] = "draining"
             /\ meta'[r].status = "running"
             /\ UNCHANGED registry

\* ... takes notice of its end, or of the end of its pipes, ...
Notices(r) == /\ sup[r] = "drain" /\ sup'[r] = "join" /\ child'[r] \in Exits \union {"closed"}
              /\ UNCHANGED <<meta, phase, worker, registry>>

\* ... records the outcome, ...
Decides(r) == /\ sup[r] \in {"pool", "lane", "join"} /\ sup'[r] = "dereg"
              /\ sup[r] = "join" => worker[r] = "finished" /\ child[r] \in Exits
              /\ Terminal(meta'[r])
              /\ UNCHANGED <<phase, child, worker, registry>>

\* ... and removes its handle.
Leaves(r) == /\ sup[r] = "dereg" /\ sup'[r] = "gone" /\ registry' = registry \ {r}
             /\ UNCHANGED <<meta, phase, child, worker>>

\* Every step of a supervisor is one of these.
LEMMA SupStep ==
  ASSUME TypeOK, NEW r \in Runs, Supervise(r)
  PROVE  /\ \A q \in Runs \ {r} : Same(q)
         /\ Waits(r) \/ Starts(r) \/ Notices(r) \/ Decides(r) \/ Leaves(r)
         /\ Working /\ UNCHANGED <<index, files, proc, accepting, shutSet, bootTodo, api, env>>
<1> USE DEF TypeOK, DiskType, TaskType
<1>0. Working /\ UNCHANGED <<index, files, proc, accepting, shutSet, bootTodo, api, env>>
  BY DEF Supervise, AcquirePool, PoolClosed, AcquireLane, ReadEof, DeadlineFires, Conclude,
     Deregister, SupFrame
<1>1. ASSUME Fail(r) \/ Succeed(r), SupFrame, sup[r] \in {"pool", "lane", "join"},
             sup[r] = "join" => worker[r] = "finished" /\ child[r] \in Exits
      PROVE  Decides(r) /\ \A q \in Runs \ {r} : Same(q)
  <2>1. PICK st \in {"failed", "succeeded"} : WriteMeta(r, st)  BY <1>1 DEF Fail, Succeed
  <2>2. /\ meta'[r].status = st /\ \A q \in Runs \ {r} : meta'[q] = meta[q]
    BY <2>1, WriteType DEF Statuses
  <2>3. sup' = [sup EXCEPT ![r] = "dereg"] /\ UNCHANGED <<phase, child, worker, registry>>
    BY <1>1 DEF Fail, Succeed, SupFrame
  <2>4. QED  BY <1>1, <2>1, <2>2, <2>3 DEF Decides, Same, Terminal
<1>2. ASSUME NEW p \in Phases, Spawn(r, p), SupFrame
      PROVE  /\ sup'[r] = "drain" /\ child'[r] = "quiet" /\ worker'[r] = "draining"
             /\ phase'[r] = p /\ meta'[r].status = "running" /\ UNCHANGED registry
             /\ \A q \in Runs \ {r} : Same(q)
  <2>1. meta'[r].status = "running" /\ \A q \in Runs \ {r} : meta'[q] = meta[q]
    BY <1>2, WriteType DEF Spawn, Statuses
  <2>2. /\ sup' = [sup EXCEPT ![r] = "drain"] /\ child' = [child EXCEPT ![r] = "quiet"]
        /\ worker' = [worker EXCEPT ![r] = "draining"] /\ phase' = [phase EXCEPT ![r] = p]
        /\ UNCHANGED registry
    BY <1>2 DEF Spawn, SupFrame
  <2>3. QED  BY <2>1, <2>2 DEF Same
<1>3. ASSUME Start(r), SupFrame,
             (sup[r] = "pool" /\ ~NeedsLane(r)) \/ (sup[r] = "lane" /\ LaneFree(r))
      PROVE  (Starts(r) \/ Decides(r)) /\ \A q \in Runs \ {r} : Same(q)
  <2>1. CASE Fail(r)  BY <1>1, <1>3, <2>1
  <2>2. CASE Spawn(r, phase[r])
    <3>1. phase[r] \in Phases  OBVIOUS
    <3>2. QED  BY <1>2, <1>3, <2>2, <3>1 DEF Starts
  <2>3. QED  BY <1>3, <2>1, <2>2 DEF Start
<1>4. CASE AcquirePool(r)
  <2>1. CASE NeedsLane(r)  BY <1>4, <2>1 DEF AcquirePool, Waits, Same, SupFrame
  <2>2. CASE ~NeedsLane(r)
    <3>1. Start(r) /\ SupFrame /\ sup[r] = "pool"  BY <1>4, <2>2 DEF AcquirePool
    <3>2. (Starts(r) \/ Decides(r)) /\ \A q \in Runs \ {r} : Same(q)  BY <1>3, <2>2, <3>1
    <3>3. QED  BY <1>0, <3>2
  <2>3. QED  BY <1>0, <2>1, <2>2
<1>5. CASE PoolClosed(r)  BY <1>0, <1>1, <1>5 DEF PoolClosed
<1>6. CASE AcquireLane(r)  BY <1>0, <1>3, <1>6 DEF AcquireLane
<1>7. CASE ReadEof(r)  BY <1>0, <1>7 DEF ReadEof, Notices, Same
<1>8. CASE DeadlineFires(r)  BY <1>0, <1>8 DEF DeadlineFires, Notices, Same
<1>9. CASE Conclude(r)
  <2>1. SupFrame /\ sup[r] = "join" /\ worker[r] = "finished" /\ child[r] \in Exits
    BY <1>9 DEF Conclude, OutcomeReady
  <2>2. Fail(r) \/ Succeed(r) \/ (phase[r] = "train" /\ Spawn(r, "backtest"))
    BY <1>9 DEF Conclude, Phases
  <2>3. CASE Fail(r) \/ Succeed(r)  BY <1>0, <1>1, <2>1, <2>3
  <2>4. CASE phase[r] = "train" /\ Spawn(r, "backtest")
    <3>1. "backtest" \in Phases  BY DEF Phases
    <3>2. QED  BY <1>0, <1>2, <2>1, <2>4, <3>1 DEF Starts
  <2>5. QED  BY <2>2, <2>3, <2>4
<1>10. CASE Deregister(r)  BY <1>0, <1>10 DEF Deregister, Leaves, Same
<1>11. QED  BY <1>4, <1>5, <1>6, <1>7, <1>8, <1>9, <1>10 DEF Supervise

\* A drain worker writes `running` to the meta.json of its own run, or nothing.
LEMMA DrainStep ==
  ASSUME Safe, NEW r \in Runs, Drain(r)
  PROVE  /\ worker[r] = "draining" /\ worker'[r] \in {"draining", "finished"}
         /\ meta'[r] = meta[r] \/ meta'[r].status = "running"
         /\ \A q \in Runs \ {r} : meta'[q] = meta[q] /\ worker'[q] = worker[q]
         /\ UNCHANGED <<sup, phase, child, index, files, server, api, env>>
<1> USE DEF Safe, TypeOK, DiskType, TaskType
<1>1. worker[r] = "draining" /\ copy[r].status = "running"
  BY DEF Drain, WorkerLine, WorkerFinish, SafeOf, SoleWriterOf
<1>2. CASE WorkerLine(r)
  <2>1. PICK m \in Meta : /\ m.status = copy[r].status
                          /\ meta' = meta \/ meta' = [meta EXCEPT ![r] = m]
    BY <1>2, FoldedLine
  <2>2. UNCHANGED <<worker, sup, phase, child, index, files, server, api, env>>
    BY <1>2 DEF WorkerLine
  <2>3. QED  BY <1>1, <2>1, <2>2
<1>3. CASE WorkerFinish(r)  BY <1>1, <1>3 DEF WorkerFinish
<1>4. QED  BY <1>2, <1>3 DEF Drain

-----------------------------------------------------------------------------
(* The registry, the children and what the runs leave on disk.             *)

\* The handles are those of the live supervisors, a running child has a supervisor
\* that reads it or waits for it, and a run that has not started has left nothing behind.
BookedOf(r) ==
  /\ proc \in {"down", "reconcile"} => r \notin registry
  /\ proc \in {"resume", "up", "stopping"} => (Live(r) <=> r \in registry)
  /\ child[r] \in Running => sup[r] \in {"drain", "join"}
  /\ \/ meta[r].status = "absent" \/ creator[r] # "idle"
     \/ sup[r] \in {"pool", "lane"} /\ phase[r] = "train"
     => files[r] = {} /\ orphan[r] = "none"

Booked == Safe /\ \A r \in Runs : BookedOf(r)

\* Every step keeps the books of every run.
LEMMA BookedCreate ==
  ASSUME Booked, NEW r \in Runs, Create(r), NEW q \in Runs
  PROVE  BookedOf(q)'
<1> USE DEF Booked, BookedOf, Live, Safe, SafeOf, SoleWriterOf, TypeOK, DiskType, TaskType, ApiType
<1>1. CASE CreateBegin(r)  BY <1>1 DEF CreateBegin, NoMeta
<1>2. CASE CreateInit(r)  BY <1>2 DEF CreateInit, NewMeta
<1>3. CASE CreateReadIndex(r)  BY <1>3 DEF CreateReadIndex
<1>4. CASE CreateWriteIndex(r)  BY <1>4 DEF CreateWriteIndex
<1>5. CASE CreateIoError(r)  BY <1>5 DEF CreateIoError
<1>6. CASE CreateSpawn(r)  BY <1>6 DEF CreateSpawn
<1>7. CASE CreateDropped(r)  BY <1>7 DEF CreateDropped
<1>8. QED  BY <1>1, <1>2, <1>3, <1>4, <1>5, <1>6, <1>7 DEF Create

LEMMA BookedSupervise ==
  ASSUME Booked, NEW r \in Runs, Supervise(r), NEW q \in Runs
  PROVE  BookedOf(q)'
<1>1. /\ \A p \in Runs \ {r} : Same(p)
      /\ Waits(r) \/ Starts(r) \/ Notices(r) \/ Decides(r) \/ Leaves(r)
      /\ Working /\ UNCHANGED <<index, files, proc, accepting, shutSet, bootTodo, api, env>>
  BY SupStep DEF Booked, Safe
<1>2. BookedOf(q)  BY DEF Booked
<1>3. CASE q # r
  <2>1. Same(q) /\ (registry' = registry \/ registry' = registry \ {r})
    BY <1>1, <1>3 DEF Waits, Starts, Notices, Decides, Leaves
  <2>2. QED  BY <1>1, <1>2, <1>3, <2>1 DEF BookedOf, Live, Same
<1>4. CASE q = r
  <2>1. SoleWriterOf(r)  BY DEF Booked, Safe, SafeOf
  <2>2. meta[r].status # "absent" /\ creator[r] = "idle" /\ sup[r] # "none"
    BY <1>1, <2>1 DEF SoleWriterOf, Waits, Starts, Notices, Decides, Leaves
  <2>3. meta'[r].status # "absent"
    BY <1>1, <2>2 DEF Waits, Starts, Notices, Decides, Leaves, Terminal
  <2>4. CASE Waits(r)  BY <1>1, <1>2, <1>4, <2>2, <2>4 DEF BookedOf, Live, Waits
  <2>5. CASE Starts(r)  BY <1>1, <1>2, <1>4, <2>2, <2>3, <2>5 DEF BookedOf, Live, Starts
  <2>6. CASE Notices(r)  BY <1>1, <1>2, <1>4, <2>2, <2>3, <2>6 DEF BookedOf, Live, Notices
  <2>7. CASE Decides(r)  BY <1>1, <1>2, <1>4, <2>2, <2>3, <2>7 DEF BookedOf, Live, Decides
  <2>8. CASE Leaves(r)  BY <1>1, <1>2, <1>4, <2>2, <2>3, <2>8 DEF BookedOf, Live, Leaves
  <2>9. QED  BY <1>1, <2>4, <2>5, <2>6, <2>7, <2>8
<1>5. QED  BY <1>3, <1>4

LEMMA BookedDrain ==
  ASSUME Booked, NEW r \in Runs, Drain(r), NEW q \in Runs
  PROVE  BookedOf(q)'
<1>1. /\ worker[r] = "draining"
      /\ meta'[r] = meta[r] \/ meta'[r].status = "running"
      /\ \A p \in Runs \ {r} : meta'[p] = meta[p]
      /\ UNCHANGED <<sup, phase, child, index, files, server, api, env>>
  BY DrainStep DEF Booked
<1>2. BookedOf(q)  BY DEF Booked
<1>3. meta'[q].status = "absent" => meta[q].status = "absent"  BY <1>1
<1>4. QED  BY <1>1, <1>2, <1>3 DEF BookedOf, Live

LEMMA BookedChild ==
  ASSUME Booked, NEW r \in Runs, Child(r), NEW q \in Runs
  PROVE  BookedOf(q)'
<1> USE DEF Booked, BookedOf, Live, Safe, SafeOf, SoleWriterOf, TypeOK, DiskType, TaskType, EnvType
<1>1. CASE ChildLine(r)  BY <1>1 DEF ChildLine
<1>2. CASE ChildResult(r)  BY <1>2 DEF ChildResult
<1>3. CASE ChildDone(r)  BY <1>3 DEF ChildDone
<1>4. CASE ChildCloses(r)  BY <1>4 DEF ChildCloses
<1>5. CASE ChildExit(r)  BY <1>5 DEF ChildExit
<1>6. CASE OrphanResult(r)  BY <1>6 DEF OrphanResult
<1>7. QED  BY <1>1, <1>2, <1>3, <1>4, <1>5, <1>6 DEF Child

LEMMA BookedHalt ==
  ASSUME Booked, NEW r \in Runs, Halt(r), NEW q \in Runs
  PROVE  BookedOf(q)'
<1> USE DEF BookedOf, Live
<1>0. BookedOf(q) /\ TypeOK /\ SoleWriterOf(q)  BY DEF Booked, Safe, SafeOf
<1>1. CASE HaltTake(r)  BY <1>0, <1>1 DEF HaltTake, Cancel, TypeOK, TaskType, SoleWriterOf, Serving
<1>2. CASE HaltMark(r)
  <2>1. meta'[q].status = "absent" => meta[q].status = "absent"
    BY <1>0, <1>2, Marked DEF HaltMark, NonTerminal
  <2>2. UNCHANGED <<files, task, server, creator, env>>  BY <1>2 DEF HaltMark
  <2>3. QED  BY <1>0, <2>1, <2>2
<1>3. CASE HaltNoHandle(r)  BY <1>0, <1>3 DEF HaltNoHandle
<1>4. CASE HaltDropped(r)  BY <1>0, <1>4 DEF HaltDropped
<1>5. QED  BY <1>1, <1>2, <1>3, <1>4 DEF Halt

LEMMA BookedShutdown ==
  ASSUME Booked, Shutdown \/ Crash, NEW q \in Runs
  PROVE  BookedOf(q)'
<1> USE DEF BookedOf, Live
<1>0. BookedOf(q) /\ TypeOK /\ SoleWriterOf(q)  BY DEF Booked, Safe, SafeOf
<1>1. CASE Signal  BY <1>0, <1>1 DEF Signal, Serving
<1>2. CASE ShutdownBegin  BY <1>0, <1>2 DEF ShutdownBegin
<1>3. ASSUME NEW r \in Runs, ShutdownDrained(r)  PROVE BookedOf(q)'
  BY <1>0, <1>3 DEF ShutdownDrained
<1>4. ASSUME NEW r \in Runs, ShutdownAbort(r)  PROVE BookedOf(q)'
  <2>1. meta'[q].status = "absent" => meta[q].status = "absent"
    BY <1>0, <1>4, Marked DEF ShutdownAbort, NonTerminal
  <2>2. /\ UNCHANGED <<files, proc, registry, creator, orphan, phase>> /\ proc = "draining"
        /\ sup' = [sup EXCEPT ![r] = "gone"] /\ child' = [child EXCEPT ![r] = "none"]
    BY <1>4 DEF ShutdownAbort, Cancel
  <2>3. QED  BY <1>0, <2>1, <2>2 DEF TypeOK, TaskType
<1>5. CASE Exit  BY <1>0, <1>5 DEF Exit, MemoryLost
<1>6. CASE Crash
  <2>1. /\ sup'[q] = "none" /\ creator'[q] = "idle" /\ child'[q] = "none"
        /\ registry' = {} /\ proc' = "down" /\ UNCHANGED <<meta, files>>
    BY <1>6 DEF Crash, MemoryLost
  <2>2. orphan'[q] = orphan[q] \/ child[q] \in {"quiet", "spoke", "closed"}  BY <1>6 DEF Crash
  <2>3. QED  BY <1>0, <2>1, <2>2 DEF SoleWriterOf
<1>7. QED  BY <1>1, <1>2, <1>3, <1>4, <1>5, <1>6 DEF Shutdown

LEMMA BookedStartup ==
  ASSUME Booked, Startup, NEW q \in Runs
  PROVE  BookedOf(q)'
<1> USE DEF BookedOf, Live
<1>0. BookedOf(q) /\ TypeOK /\ SoleWriterOf(q)  BY DEF Booked, Safe, SafeOf
<1>1. CASE Boot  BY <1>0, <1>1 DEF Boot
<1>2. CASE ReconcileDone  BY <1>0, <1>2 DEF ReconcileDone, SoleWriterOf
<1>3. CASE Serve  BY <1>0, <1>3 DEF Serve
<1>4. ASSUME NEW r \in Runs, Reconcile(r)  PROVE BookedOf(q)'
  <2>1. meta'[q].status = "absent" => meta[q].status = "absent"
    BY <1>0, <1>4, Reconciled, Marked DEF NonTerminal
  <2>2. UNCHANGED <<files, task, proc, registry, creator, env>>  BY <1>4 DEF Reconcile
  <2>3. QED  BY <1>0, <2>1, <2>2
<1>5. ASSUME NEW r \in Runs, Resume(r)  PROVE BookedOf(q)'
  BY <1>0, <1>5 DEF Resume, ResumePhase, TypeOK, TaskType, SoleWriterOf
<1>6. QED  BY <1>1, <1>2, <1>3, <1>4, <1>5 DEF Startup

LEMMA BookedInit == Init => Booked
<1>1. Init => \A r \in Runs : BookedOf(r)  BY DEF Init, BookedOf, Live
<1>2. QED  BY <1>1, SafeInit DEF Booked

LEMMA BookedNext == Booked /\ [Next]_vars => Booked'
<1> SUFFICES ASSUME Booked, [Next]_vars  PROVE Booked'
  OBVIOUS
<1>1. Safe'  BY SafeNext DEF Booked
<1>2. ASSUME NEW q \in Runs  PROVE BookedOf(q)'
  <2>1. CASE UNCHANGED vars  BY <2>1 DEF vars, Booked, BookedOf, Live
  <2>2. CASE Next
    BY <2>2, BookedCreate, BookedSupervise, BookedDrain, BookedChild, BookedHalt,
       BookedShutdown, BookedStartup DEF Next
  <2>3. QED  BY <2>1, <2>2
<1>3. QED  BY <1>1, <1>2 DEF Booked

\* Until shutdown takes the handles, the registry holds exactly the live supervisors,
\* for any runs, halts, crashes and disconnects (create, resume_orphaned_flows, halt).
THEOREM RegistryHolds == Spec => []RegistryExact
<1>1. Booked => RegistryExact  BY DEF Booked, BookedOf, RegistryExact
<1>2. QED  BY BookedInit, BookedNext, <1>1, PTL DEF Spec

\* A flow's search is not run again once it has left a result, for any runs, crashes,
\* halts and disconnects, and even if a child outlives the server
\* (resume_orphaned_flows, supervise_flow_resume).
THEOREM SearchedOnce == Spec => NeverSearchedTwice
<1>1. Booked /\ [Next]_vars
        => [\A r \in Runs : child[r] = "none" /\ child'[r] = "quiet" /\ phase'[r] = "train"
                              => "train" \notin files[r]]_vars
  <2> SUFFICES ASSUME Booked, Next, NEW q \in Runs, child[q] = "none", child'[q] = "quiet",
                      phase'[q] = "train"
               PROVE  "train" \notin files[q]
    OBVIOUS
  <2>0. TypeOK /\ Safe /\ BookedOf(q)  BY DEF Booked, Safe
  <2>1. ASSUME NEW r \in Runs, Supervise(r)  PROVE "train" \notin files[q]
    <3>1. /\ \A p \in Runs \ {r} : Same(p)
          /\ Waits(r) \/ Starts(r) \/ Notices(r) \/ Decides(r) \/ Leaves(r)
      BY <2>0, <2>1, SupStep
    <3>2. q = r /\ Starts(q)  BY <3>1 DEF Same, Waits, Notices, Decides, Leaves
    <3>3. sup[q] \in {"pool", "lane"} /\ phase[q] = "train"  BY <3>2 DEF Starts
    <3>4. QED  BY <2>0, <3>3 DEF BookedOf
  <2>2. ASSUME NEW r \in Runs, Create(r) \/ Drain(r)  PROVE child' = child
    BY <2>2 DEF Create, CreateBegin, CreateInit, CreateReadIndex, CreateWriteIndex, CreateIoError,
       CreateSpawn, CreateDropped, Drain, WorkerLine, WorkerFinish
  <2>3. ASSUME NEW r \in Runs, Child(r)  PROVE child'[q] # "quiet"
    BY <2>0, <2>3 DEF Child, ChildLine, ChildResult, ChildDone, ChildCloses, ChildExit, OrphanResult, TypeOK, TaskType
  <2>4. ASSUME NEW r \in Runs, Halt(r)  PROVE child'[q] # "quiet"
    BY <2>0, <2>4 DEF Halt, HaltTake, Cancel, HaltMark, HaltNoHandle, HaltDropped, TypeOK, TaskType
  <2>5. CASE Shutdown \/ Crash \/ Startup
    BY <2>0, <2>5 DEF Shutdown, Signal, ShutdownBegin, ShutdownDrained, ShutdownAbort, Cancel, Exit,
       Crash, MemoryLost, Startup, Boot, ReconcileDone, Serve, Reconcile, Resume, TypeOK, TaskType
  <2>6. QED  BY <2>1, <2>2, <2>3, <2>4, <2>5 DEF Next
<1>2. QED  BY BookedInit, BookedNext, <1>1, PTL DEF Spec, NeverSearchedTwice

-----------------------------------------------------------------------------
(* The flow lane.                                                          *)

LaneHeld == IsFiniteSet(LaneOf("flow")) /\ Cardinality(LaneOf("flow")) <= MaxFlow

\* A step takes at most one permit of the flow lane, and only one that is free.
LEMMA LaneStep ==
  ASSUME Booked, [Next]_vars
  PROVE  \/ LaneOf("flow")' \subseteq LaneOf("flow")
         \/ \E r \in Runs : /\ RunType[r] = "flow" /\ LaneFree(r)
                            /\ LaneOf("flow")' \subseteq LaneOf("flow") \union {r}
<1>0. TypeOK  BY DEF Booked, Safe
<1>1. ASSUME \A q \in Runs : HoldsLane(q)' => HoldsLane(q)
      PROVE  LaneOf("flow")' \subseteq LaneOf("flow")
  BY <1>1 DEF LaneOf
<1>2. ASSUME NEW r \in Runs, Supervise(r)
      PROVE  \/ \A q \in Runs : HoldsLane(q)' => HoldsLane(q)
             \/ /\ RunType[r] = "flow" /\ LaneFree(r)
                /\ LaneOf("flow")' \subseteq LaneOf("flow") \union {r}
             \/ RunType[r] # "flow" /\ LaneOf("flow")' \subseteq LaneOf("flow")
  <2>1. /\ \A q \in Runs \ {r} : Same(q)
        /\ Waits(r) \/ Starts(r) \/ Notices(r) \/ Decides(r) \/ Leaves(r)
    BY <1>0, <1>2, SupStep
  <2>2. \A q \in Runs \ {r} : HoldsLane(q)' <=> HoldsLane(q)  BY <2>1 DEF Same, HoldsLane
  <2>3. CASE RunType[r] # "flow"  BY <2>2, <2>3 DEF LaneOf
  <2>4. CASE RunType[r] = "flow" /\ Starts(r)
    <3>1. CASE sup[r] = "join"  BY <2>2, <3>1 DEF HoldsLane
    <3>2. CASE sup[r] # "join"
      <4>1. LaneFree(r)  BY <2>4, <3>2 DEF Starts, NeedsLane
      <4>2. LaneOf("flow")' \subseteq LaneOf("flow") \union {r}  BY <2>2 DEF LaneOf
      <4>3. QED  BY <2>4, <4>1, <4>2
    <3>3. QED  BY <3>1, <3>2
  <2>5. CASE Waits(r) \/ Notices(r) \/ Decides(r) \/ Leaves(r)
    <3>1. HoldsLane(r)' => HoldsLane(r)
      BY <2>5 DEF Waits, Notices, Decides, Leaves, HoldsLane
    <3>2. QED  BY <2>2, <3>1
  <2>6. QED  BY <2>1, <2>3, <2>4, <2>5
<1>3. ASSUME NEW r \in Runs, Create(r) \/ Drain(r) \/ Child(r) \/ Halt(r), NEW q \in Runs
      PROVE  HoldsLane(q)' => HoldsLane(q)
  BY <1>0, <1>3 DEF HoldsLane, TypeOK, TaskType, Create, CreateBegin, CreateInit, CreateReadIndex,
     CreateWriteIndex, CreateIoError, CreateSpawn, CreateDropped, Drain, WorkerLine, WorkerFinish,
     Child, ChildLine, ChildResult, ChildDone, ChildCloses, ChildExit, OrphanResult,
     Halt, HaltTake, Cancel, HaltMark, HaltNoHandle, HaltDropped
<1>4. ASSUME Shutdown \/ Crash \/ Startup \/ UNCHANGED vars, NEW q \in Runs
      PROVE  HoldsLane(q)' => HoldsLane(q)
  BY <1>0, <1>4 DEF HoldsLane, TypeOK, TaskType, vars, Shutdown, Signal, ShutdownBegin,
     ShutdownDrained, ShutdownAbort, Cancel, Exit, Crash, MemoryLost, Startup, Boot, ReconcileDone,
     Serve, Reconcile, Resume
<1>5. QED  BY <1>1, <1>2, <1>3, <1>4 DEF Next

LEMMA LaneNext == Booked /\ LaneHeld /\ [Next]_vars => LaneHeld'
<1> SUFFICES ASSUME Booked, LaneHeld, [Next]_vars  PROVE LaneHeld'
  OBVIOUS
<1> DEFINE L == LaneOf("flow")
           M == LaneOf("flow")'
<1>1. IsFiniteSet(L) /\ Cardinality(L) \in Nat /\ Cardinality(L) <= MaxFlow /\ MaxFlow \in Nat
  BY FS_CardinalityType, PermitAssumption DEF LaneHeld
<1>2. \/ M \subseteq L
      \/ Cardinality(L) < MaxFlow /\ \E r \in Runs : M \subseteq L \union {r}
  BY LaneStep DEF LaneFree, LaneLimit
<1> HIDE DEF L, M
<1>3. CASE M \subseteq L
  <2>1. IsFiniteSet(M) /\ Cardinality(M) <= Cardinality(L)  BY <1>1, <1>3, FS_Subset
  <2>2. Cardinality(M) \in Nat  BY <2>1, FS_CardinalityType
  <2>3. QED  BY <1>1, <2>1, <2>2 DEF LaneHeld, M
<1>4. ASSUME Cardinality(L) < MaxFlow, NEW r \in Runs, M \subseteq L \union {r}  PROVE LaneHeld'
  <2> DEFINE N == L \union {r}
  <2>1. /\ IsFiniteSet(N)
        /\ Cardinality(N) = Cardinality(L) \/ Cardinality(N) = Cardinality(L) + 1
    BY <1>1, FS_AddElement
  <2>2. M \subseteq N  BY <1>4
  <2> HIDE DEF N
  <2>3. IsFiniteSet(M) /\ Cardinality(M) <= Cardinality(N)  BY <2>1, <2>2, FS_Subset
  <2>4. Cardinality(M) \in Nat  BY <2>3, FS_CardinalityType
  <2>5. QED  BY <1>1, <1>4, <2>1, <2>3, <2>4 DEF LaneHeld, M
<1>5. QED  BY <1>2, <1>3, <1>4

\* Whoever runs a child holds a permit.
LEMMA LaneBound == Booked /\ LaneHeld => FlowLaneBound
<1> SUFFICES ASSUME Booked, LaneHeld  PROVE FlowLaneBound
  OBVIOUS
<1> DEFINE L == LaneOf("flow")
           K == {r \in Runs : RunType[r] = "flow" /\ child[r] \in Running}
<1>1. K \subseteq L  BY DEF Booked, BookedOf, LaneOf, HoldsLane
<1>2. IsFiniteSet(L) /\ Cardinality(L) \in Nat /\ Cardinality(L) <= MaxFlow /\ MaxFlow \in Nat
  BY FS_CardinalityType, PermitAssumption DEF LaneHeld
<1> HIDE DEF K, L
<1>3. IsFiniteSet(K) /\ Cardinality(K) <= Cardinality(L)  BY <1>1, <1>2, FS_Subset
<1>4. Cardinality(K) \in Nat  BY <1>3, FS_CardinalityType
<1>5. Cardinality(K) <= MaxFlow  BY <1>2, <1>3, <1>4
<1>6. QED  BY <1>5 DEF FlowLaneBound, K

\* At most MaxFlow flows run a child, however many runs are created, resumed, halted
\* and interrupted (supervise_flow, supervise_flow_resume).
THEOREM LaneHolds == Spec => []FlowLaneBound
<1>1. Init => Booked /\ LaneHeld
  <2>1. Init => LaneOf("flow") = {}  BY DEF Init, LaneOf, HoldsLane
  <2>2. QED  BY <2>1, BookedInit, FS_EmptySet, PermitAssumption DEF LaneHeld
<1>2. QED  BY <1>1, LaneBound, BookedNext, LaneNext, PTL DEF Spec

-----------------------------------------------------------------------------
(* Outcomes.                                                               *)

\* Until a halt or a shutdown cuts a supervisor off, its worker does not outlive it,
\* and what it works on has no outcome yet.
SettledOf(r) ==
  /\ halter[r] = "marking" => halts # 0
  /\ proc \in {"stopping", "draining"} => signals # 0
  /\ halts + signals = 0 =>
       /\ worker[r] = "draining" => sup[r] \in {"drain", "join"}
       /\ sup[r] \in Undecided => NonTerminal(meta[r])

Settled == Safe /\ \A r \in Runs : SettledOf(r)

LEMMA SettledSupervise ==
  ASSUME Settled, NEW r \in Runs, Supervise(r), NEW q \in Runs
  PROVE  SettledOf(q)'
<1>1. /\ \A p \in Runs \ {r} : Same(p)
      /\ Waits(r) \/ Starts(r) \/ Notices(r) \/ Decides(r) \/ Leaves(r)
      /\ UNCHANGED <<proc, halter, halts, signals>>
  BY SupStep DEF Settled, Safe
<1>2. SettledOf(q) /\ SoleWriterOf(q)  BY DEF Settled, Safe, SafeOf
<1> USE DEF SettledOf, SoleWriterOf, Undecided, NonTerminal
<1>3. CASE q # r  BY <1>1, <1>2, <1>3 DEF Same
<1>4. CASE q = r
  <2>1. CASE Waits(r)  BY <1>1, <1>2, <1>4, <2>1 DEF Waits
  <2>2. CASE Starts(r)  BY <1>1, <1>2, <1>4, <2>2 DEF Starts
  <2>3. CASE Notices(r)  BY <1>1, <1>2, <1>4, <2>3 DEF Notices
  <2>4. CASE Decides(r)  BY <1>1, <1>2, <1>4, <2>4 DEF Decides
  <2>5. CASE Leaves(r)  BY <1>1, <1>2, <1>4, <2>5 DEF Leaves
  <2>6. QED  BY <1>1, <2>1, <2>2, <2>3, <2>4, <2>5
<1>5. QED  BY <1>3, <1>4

LEMMA SettledRest ==
  ASSUME Settled, NEW r \in Runs, Create(r) \/ Drain(r) \/ Child(r) \/ Halt(r), NEW q \in Runs
  PROVE  SettledOf(q)'
<1>0. SettledOf(q) /\ SoleWriterOf(q) /\ TypeOK /\ Safe  BY DEF Settled, Safe, SafeOf
<1>1. halts \in Nat /\ signals \in Nat  BY <1>0, BoundAssumption DEF TypeOK, EnvType
<1> USE DEF SettledOf, SoleWriterOf, Undecided, NonTerminal
<1>2. CASE Create(r)
  <2> USE <1>0 DEF TypeOK, DiskType, TaskType
  <2>1. CASE CreateInit(r)  BY <2>1 DEF CreateInit, NewMeta
  <2>2. CASE CreateSpawn(r)  BY <2>2 DEF CreateSpawn
  <2>3. CASE CreateBegin(r) \/ CreateReadIndex(r) \/ CreateWriteIndex(r) \/ CreateIoError(r)
             \/ CreateDropped(r)
    BY <2>3 DEF CreateBegin, CreateReadIndex, CreateWriteIndex, CreateIoError, CreateDropped
  <2>4. QED  BY <1>2, <2>1, <2>2, <2>3 DEF Create
<1>3. CASE Drain(r)  BY <1>0, <1>3, DrainStep
<1>4. CASE Child(r)
  BY <1>0, <1>4 DEF Child, ChildLine, ChildResult, ChildDone, ChildCloses, ChildExit, OrphanResult
<1>5. CASE Halt(r)
  <2>1. CASE HaltTake(r)  BY <1>0, <1>1, <2>1 DEF HaltTake, Cancel, TypeOK, ApiType
  <2>2. CASE HaltMark(r)
    <3>1. halts # 0  BY <2>2 DEF HaltMark, Settled
    <3>2. halter'[q] = "marking" => halter[q] = "marking"  BY <1>0, <2>2 DEF HaltMark, TypeOK, ApiType
    <3>3. UNCHANGED <<task, server, env>>  BY <2>2 DEF HaltMark
    <3>4. QED  BY <1>0, <1>1, <3>1, <3>2, <3>3
  <2>3. CASE HaltNoHandle(r)  BY <1>0, <1>1, <2>3 DEF HaltNoHandle
  <2>4. CASE HaltDropped(r)  BY <1>0, <1>1, <2>4 DEF HaltDropped, TypeOK, ApiType
  <2>5. QED  BY <1>5, <2>1, <2>2, <2>3, <2>4 DEF Halt
<1>6. QED  BY <1>2, <1>3, <1>4, <1>5

LEMMA SettledServer ==
  ASSUME Settled, Shutdown \/ Crash \/ Startup, NEW q \in Runs
  PROVE  SettledOf(q)'
<1>0. SettledOf(q) /\ SoleWriterOf(q) /\ TypeOK  BY DEF Settled, Safe, SafeOf
<1>1. halts \in Nat /\ signals \in Nat  BY <1>0, BoundAssumption DEF TypeOK, EnvType
<1> USE DEF SettledOf, SoleWriterOf, Undecided, NonTerminal
<1>2. CASE Signal  BY <1>0, <1>1, <1>2 DEF Signal
<1>3. CASE ShutdownBegin  BY <1>0, <1>3 DEF ShutdownBegin
<1>4. ASSUME NEW r \in Runs, ShutdownDrained(r)  PROVE SettledOf(q)'
  BY <1>0, <1>4 DEF ShutdownDrained
<1>5. ASSUME NEW r \in Runs, ShutdownAbort(r)  PROVE SettledOf(q)'
  BY <1>0, <1>1, <1>5 DEF ShutdownAbort
<1>6. CASE Exit \/ Crash  BY <1>0, <1>6 DEF Exit, Crash, MemoryLost
<1>7. CASE Boot \/ ReconcileDone \/ Serve  BY <1>0, <1>7 DEF Boot, ReconcileDone, Serve
<1>8. ASSUME NEW r \in Runs, Reconcile(r)  PROVE SettledOf(q)'
  BY <1>0, <1>8 DEF Reconcile
<1>9. ASSUME NEW r \in Runs, Resume(r)  PROVE SettledOf(q)'
  BY <1>0, <1>9 DEF Resume, TypeOK, TaskType
<1>10. QED  BY <1>2, <1>3, <1>4, <1>5, <1>6, <1>7, <1>8, <1>9 DEF Shutdown, Startup

LEMMA SettledNext == Settled /\ [Next]_vars => Settled'
<1> SUFFICES ASSUME Settled, [Next]_vars  PROVE Settled'
  OBVIOUS
<1>1. Safe'  BY SafeNext DEF Settled
<1>2. ASSUME NEW q \in Runs  PROVE SettledOf(q)'
  <2>1. CASE UNCHANGED vars  BY <2>1 DEF vars, Settled, SettledOf
  <2>2. CASE Next  BY <2>2, SettledSupervise, SettledRest, SettledServer DEF Next
  <2>3. QED  BY <2>1, <2>2
<1>3. QED  BY <1>1, <1>2 DEF Settled

\* Until a halt or a shutdown, no step takes a run back from its outcome, through
\* ceilings, crashes, reconciliations and resumptions (drain_child, finish_failed,
\* classify_orphan).
THEOREM OutcomeIsFinal == Spec => TerminalIsFinal
<1>1. Init => Settled
  <2>1. Init => \A r \in Runs : SettledOf(r)  BY DEF Init, SettledOf, Undecided
  <2>2. QED  BY <2>1, SafeInit DEF Settled
<1>2. Settled /\ [Next]_vars
        => [halts + signals = 0 =>
              \A r \in Runs : Terminal(meta[r]) => meta'[r].status = meta[r].status]_vars
  <2> SUFFICES ASSUME Settled, Next, halts + signals = 0, NEW q \in Runs, Terminal(meta[q])
               PROVE  meta'[q] = meta[q]
    OBVIOUS
  <2>0. SettledOf(q) /\ SoleWriterOf(q) /\ TypeOK /\ Safe  BY DEF Settled, Safe, SafeOf
  <2>1. /\ worker[q] # "draining" /\ sup[q] \notin Undecided /\ ~NonTerminal(meta[q])
        /\ creator[q] \notin {"init", "initDropped"}
    BY <2>0 DEF SettledOf, SoleWriterOf, Terminal, NonTerminal, Undecided
  <2>2. ASSUME NEW r \in Runs, MarkFailed(r)  PROVE meta'[q] = meta[q]
    BY <2>0, <2>1, <2>2, Marked
  <2>3. ASSUME NEW r \in Runs, Supervise(r)  PROVE meta'[q] = meta[q]
    <3>1. /\ \A p \in Runs \ {r} : Same(p)
          /\ Waits(r) \/ Starts(r) \/ Notices(r) \/ Decides(r) \/ Leaves(r)
      BY <2>0, <2>3, SupStep
    <3>2. CASE q # r  BY <3>1, <3>2 DEF Same
    <3>3. CASE q = r
      BY <2>1, <3>1, <3>3 DEF Waits, Starts, Notices, Decides, Leaves, Undecided
    <3>4. QED  BY <3>2, <3>3
  <2>4. ASSUME NEW r \in Runs, Drain(r)  PROVE meta'[q] = meta[q]
    BY <2>0, <2>1, <2>4, DrainStep
  <2>5. ASSUME NEW r \in Runs, Create(r)  PROVE meta'[q] = meta[q]
    <3>1. CASE CreateInit(r)  BY <2>0, <2>1, <3>1 DEF CreateInit, TypeOK, DiskType
    <3>2. CASE ~CreateInit(r)
      BY <2>5, <3>2 DEF Create, CreateBegin, CreateReadIndex, CreateWriteIndex, CreateIoError,
         CreateSpawn, CreateDropped
    <3>3. QED  BY <3>1, <3>2
  <2>6. ASSUME NEW r \in Runs, Child(r)  PROVE meta'[q] = meta[q]
    BY <2>6 DEF Child, ChildLine, ChildResult, ChildDone, ChildCloses, ChildExit, OrphanResult
  <2>7. ASSUME NEW r \in Runs, Halt(r)  PROVE meta'[q] = meta[q]
    BY <2>2, <2>7 DEF Halt, HaltTake, HaltMark, HaltNoHandle, HaltDropped
  <2>8. CASE Shutdown \/ Crash
    BY <2>2, <2>8 DEF Shutdown, Crash, Signal, ShutdownBegin, ShutdownDrained, ShutdownAbort, Exit
  <2>9. CASE Startup
    <3>1. ASSUME NEW r \in Runs, Reconcile(r)  PROVE meta'[q] = meta[q]
      BY <2>0, <2>2, <3>1, Reconciled
    <3>2. QED  BY <2>9, <3>1 DEF Startup, Boot, ReconcileDone, Serve, Resume
  <2>10. QED  BY <2>3, <2>4, <2>5, <2>6, <2>7, <2>8, <2>9 DEF Next
<1>3. QED  BY <1>1, <1>2, SettledNext, PTL DEF Spec, TerminalIsFinal

-----------------------------------------------------------------------------
(* The index, when no client drops its connection and children die with    *)
(* the server.                                                             *)

\* Index updates exclude each other, a run is listed from the registration of its
\* supervisor on, and never before its meta.json is there.
ListedOf(r) ==
  /\ creator[r] \notin {"initDropped", "indexDropped"}
  /\ creator[r] = "index" => snap[r] = index
  /\ \A q \in Runs : creator[q] = "index" /\ creator[r] = "index" => q = r
  /\ creator[r] \in {"init", "lock", "index"} => r \notin index
  /\ r \in index => meta[r].status # "absent"
  /\ Live(r) \/ creator[r] = "register" => r \in index
  /\ r \in bootTodo => r \in index
  /\ orphan[r] = "none"

Listed == Booked /\ \A r \in Runs : ListedOf(r)

\* No step loses an entry of the index.
LEMMA ListedCreate ==
  ASSUME Disconnects = FALSE, Listed, NEW r \in Runs, Create(r), NEW q \in Runs
  PROVE  ListedOf(q)'
<1>0. ListedOf(q) /\ ListedOf(r) /\ TypeOK /\ SoleWriterOf(q) /\ SoleWriterOf(r)
  BY DEF Listed, Booked, Safe, SafeOf
<1>1. \A p \in Runs : creator[p] = "index" => snap[p] = index
  BY DEF Listed, ListedOf
<1> USE DEF ListedOf, Live, TypeOK, DiskType, TaskType, ServerType, ApiType, SoleWriterOf
<1>2. CASE CreateBegin(r)  BY <1>0, <1>2 DEF CreateBegin, NoMeta
<1>3. CASE CreateInit(r)  BY <1>0, <1>3 DEF CreateInit, NewMeta
<1>4. CASE CreateReadIndex(r)  BY <1>0, <1>4 DEF CreateReadIndex, IndexLockFree
<1>5. CASE CreateWriteIndex(r)
  <2>1. /\ creator[r] = "index" /\ index' = index \union {r}
        /\ creator' = [creator EXCEPT ![r] = "register"]
        /\ UNCHANGED <<meta, files, task, server, env>>
    BY <1>0, <1>1, <1>5 DEF CreateWriteIndex
  <2>2. meta[r].status = "queued"  BY <1>0, <2>1
  <2>3. \A p \in Runs : p # r => creator[p] # "index"  BY <2>1, <1>0
  <2>4. CASE q = r  BY <1>0, <2>1, <2>2, <2>3, <2>4
  <2>5. CASE q # r  BY <1>0, <2>1, <2>3, <2>5
  <2>6. QED  BY <2>4, <2>5
<1>6. CASE CreateIoError(r)  BY <1>0, <1>6 DEF CreateIoError
<1>7. CASE CreateSpawn(r)  BY <1>0, <1>7 DEF CreateSpawn
<1>8. CASE CreateDropped(r)  BY <1>8 DEF CreateDropped
<1>9. QED  BY <1>2, <1>3, <1>4, <1>5, <1>6, <1>7, <1>8 DEF Create

LEMMA ListedTask ==
  ASSUME Listed, NEW r \in Runs, Supervise(r) \/ Drain(r) \/ Child(r) \/ Halt(r), NEW q \in Runs
  PROVE  ListedOf(q)'
<1>0. ListedOf(q) /\ ListedOf(r) /\ TypeOK /\ Safe /\ SoleWriterOf(q)
  BY DEF Listed, Booked, Safe, SafeOf
<1>1. ASSUME UNCHANGED <<creator, snap, index, bootTodo, orphan>>, Live(q)' => Live(q),
             meta'[q].status = "absent" => meta[q].status = "absent"
      PROVE  ListedOf(q)'
  BY <1>0, <1>1 DEF ListedOf
<1>2. CASE Supervise(r)
  <2>1. /\ \A p \in Runs \ {r} : Same(p)
        /\ Waits(r) \/ Starts(r) \/ Notices(r) \/ Decides(r) \/ Leaves(r)
        /\ UNCHANGED <<index, bootTodo, creator, snap, orphan>>
    BY <1>0, <1>2, SupStep
  <2>2. Live(q)' => Live(q)
    BY <2>1 DEF Same, Waits, Starts, Notices, Decides, Leaves, Live
  <2>3. meta'[q].status = "absent" => meta[q].status = "absent"
    BY <2>1 DEF Same, Waits, Starts, Notices, Decides, Leaves, Terminal
  <2>4. QED  BY <1>1, <2>1, <2>2, <2>3
<1>3. CASE Drain(r)
  <2>1. /\ meta'[q] = meta[q] \/ meta'[q].status = "running"
        /\ UNCHANGED <<sup, index, bootTodo, creator, snap, orphan>>
    BY <1>0, <1>3, DrainStep
  <2>2. QED  BY <1>1, <2>1 DEF Live
<1>4. CASE Child(r)
  <2>1. UNCHANGED <<meta, sup, index, bootTodo, creator, snap, orphan>>
    BY <1>0, <1>4 DEF Child, ChildLine, ChildResult, ChildDone, ChildCloses, ChildExit, OrphanResult, ListedOf
  <2>2. QED  BY <1>1, <2>1 DEF Live
<1>5. CASE Halt(r)
  <2>1. UNCHANGED <<index, bootTodo, creator, snap, orphan>>
    BY <1>5 DEF Halt, HaltTake, HaltMark, HaltNoHandle, HaltDropped
  <2>2. Live(q)' => Live(q)
    BY <1>0, <1>5 DEF Halt, HaltTake, Cancel, HaltMark, HaltNoHandle, HaltDropped, Live, TypeOK, TaskType
  <2>3. meta'[q].status = "absent" => meta[q].status = "absent"
    BY <1>0, <1>5, Marked DEF Halt, HaltTake, HaltMark, HaltNoHandle, HaltDropped, NonTerminal
  <2>4. QED  BY <1>1, <2>1, <2>2, <2>3
<1>6. QED  BY <1>2, <1>3, <1>4, <1>5

LEMMA ListedServer ==
  ASSUME ChildrenSurvive = FALSE, Listed, Shutdown \/ Crash \/ Startup, NEW q \in Runs
  PROVE  ListedOf(q)'
<1>0. ListedOf(q) /\ TypeOK /\ SoleWriterOf(q)  BY DEF Listed, Booked, Safe, SafeOf
<1> USE DEF ListedOf, Live
<1>1. CASE Signal \/ ShutdownBegin  BY <1>0, <1>1 DEF Signal, ShutdownBegin
<1>2. ASSUME NEW r \in Runs, ShutdownDrained(r)  PROVE ListedOf(q)'
  BY <1>0, <1>2 DEF ShutdownDrained
<1>3. ASSUME NEW r \in Runs, ShutdownAbort(r)  PROVE ListedOf(q)'
  <2>1. meta'[q].status = "absent" => meta[q].status = "absent"
    BY <1>0, <1>3, Marked DEF ShutdownAbort, NonTerminal
  <2>2. UNCHANGED <<index, bootTodo, creator, snap, orphan>> /\ sup' = [sup EXCEPT ![r] = "gone"]
    BY <1>3 DEF ShutdownAbort, Cancel
  <2>3. QED  BY <1>0, <2>1, <2>2 DEF TypeOK, TaskType
<1>4. CASE Exit \/ Crash
  <2>1. /\ sup'[q] = "none" /\ \A p \in Runs : creator'[p] = "idle"
        /\ bootTodo' = {} /\ UNCHANGED <<meta, index>>
    BY <1>4 DEF Exit, Crash, MemoryLost
  <2>2. orphan'[q] = orphan[q]  BY <1>4 DEF Exit, Crash
  <2>3. QED  BY <1>0, <2>1, <2>2
<1>5. CASE Boot \/ ReconcileDone \/ Serve  BY <1>0, <1>5 DEF Boot, ReconcileDone, Serve
<1>6. ASSUME NEW r \in Runs, Reconcile(r)  PROVE ListedOf(q)'
  <2>1. meta'[q].status = "absent" => meta[q].status = "absent"
    BY <1>0, <1>6, Reconciled, Marked DEF NonTerminal
  <2>2. UNCHANGED <<index, sup, creator, snap, orphan>> /\ bootTodo' \subseteq bootTodo
    BY <1>6 DEF Reconcile
  <2>3. QED  BY <1>0, <2>1, <2>2
<1>7. ASSUME NEW r \in Runs, Resume(r)  PROVE ListedOf(q)'
  BY <1>0, <1>7 DEF Resume, TypeOK, TaskType
<1>8. QED  BY <1>1, <1>2, <1>3, <1>4, <1>5, <1>6, <1>7 DEF Shutdown, Startup

LEMMA ListedNext ==
  ASSUME Disconnects = FALSE, ChildrenSurvive = FALSE
  PROVE  Listed /\ [Next]_vars => Listed'
<1> SUFFICES ASSUME Listed, [Next]_vars  PROVE Listed'
  OBVIOUS
<1>1. Booked'  BY BookedNext DEF Listed
<1>2. ASSUME NEW q \in Runs  PROVE ListedOf(q)'
  <2>1. CASE UNCHANGED vars  BY <2>1 DEF vars, Listed, ListedOf, Live
  <2>2. CASE Next  BY <2>2, ListedCreate, ListedTask, ListedServer DEF Next
  <2>3. QED  BY <2>1, <2>2
<1>3. QED  BY <1>1, <1>2 DEF Listed

-----------------------------------------------------------------------------
(* No run is stranded.                                                     *)

\* Before any halt, a listed run without an outcome is on its way to one: what the
\* reconciliation has passed over can be resumed, and what the resumption has passed
\* or the server has accepted since has its supervisor, or is about to.
TendedOf(r) ==
  halts = 0 =>
    /\ halter[r] = "idle"
    /\ proc \in {"resume", "up", "stopping"} /\ worker[r] = "draining" => sup[r] \in {"drain", "join"}
    /\ sup[r] = "dereg" => Terminal(meta[r])
    /\ r \in index /\ NonTerminal(meta[r]) =>
         /\ proc = "reconcile" /\ r \notin bootTodo => Resumable(r)
         /\ proc = "resume" /\ r \in bootTodo => Resumable(r)
         /\ proc = "resume" /\ r \notin bootTodo => Live(r)
         /\ proc = "up" => Live(r) \/ creator[r] = "register"

Tended == Listed /\ \A r \in Runs : TendedOf(r)

LEMMA TendedSupervise ==
  ASSUME Tended, NEW r \in Runs, Supervise(r), NEW q \in Runs
  PROVE  TendedOf(q)'
<1>1. /\ \A p \in Runs \ {r} : Same(p)
      /\ Waits(r) \/ Starts(r) \/ Notices(r) \/ Decides(r) \/ Leaves(r)
      /\ Working /\ UNCHANGED <<index, files, proc, bootTodo, creator, halter, halts>>
  BY SupStep DEF Tended, Listed, Booked, Safe
<1>2. TendedOf(q) /\ SoleWriterOf(q)  BY DEF Tended, Listed, Booked, Safe, SafeOf
<1>3. proc # "reconcile"  BY <1>1 DEF Working
<1>4. CASE q # r  BY <1>1, <1>2, <1>4 DEF Same, TendedOf, Live, Resumable
<1>5. CASE q = r
  <2> USE DEF TendedOf, Live, Terminal, NonTerminal
  <2>0. proc = "resume" => q \notin bootTodo
    BY <1>1, <1>2, <1>5 DEF SoleWriterOf, Waits, Starts, Notices, Decides, Leaves
  <2>1. CASE Waits(r)  BY <1>1, <1>2, <1>3, <1>5, <2>0, <2>1 DEF Waits, SoleWriterOf
  <2>2. CASE Starts(r)  BY <1>1, <1>2, <1>3, <1>5, <2>0, <2>2 DEF Starts
  <2>3. CASE Notices(r)  BY <1>1, <1>2, <1>3, <1>5, <2>0, <2>3 DEF Notices
  <2>4. CASE Decides(r)  BY <1>1, <1>2, <1>3, <1>5, <2>0, <2>4 DEF Decides, SoleWriterOf
  <2>5. CASE Leaves(r)  BY <1>1, <1>2, <1>3, <1>5, <2>0, <2>5 DEF Leaves
  <2>6. QED  BY <1>1, <2>1, <2>2, <2>3, <2>4, <2>5
<1>6. QED  BY <1>4, <1>5

LEMMA TendedCreate ==
  ASSUME Disconnects = FALSE, Tended, NEW r \in Runs, Create(r), NEW q \in Runs
  PROVE  TendedOf(q)'
<1>0. /\ TendedOf(q) /\ SoleWriterOf(q) /\ SoleWriterOf(r) /\ TypeOK
      /\ ListedOf(q) /\ ListedOf(r)
  BY DEF Tended, Listed, Booked, Safe, SafeOf
<1> USE DEF TendedOf, Live, Terminal, NonTerminal, Resumable, SoleWriterOf, TypeOK, DiskType, TaskType,
        ApiType
<1>1. CASE CreateBegin(r)  BY <1>0, <1>1 DEF CreateBegin, NoMeta
<1>2. CASE CreateInit(r)
  <2>1. CASE q = r
    <3>1. creator[r] = "init" /\ r \notin index  BY <1>0, <1>2 DEF CreateInit, ListedOf
    <3>2. QED  BY <1>0, <1>2, <2>1, <3>1 DEF CreateInit
  <2>2. CASE q # r  BY <1>0, <1>2, <2>2 DEF CreateInit
  <2>3. QED  BY <2>1, <2>2
<1>3. CASE CreateReadIndex(r)  BY <1>0, <1>3 DEF CreateReadIndex
<1>4. CASE CreateWriteIndex(r)
  <2>1. /\ creator[r] = "index" /\ index' = index \union {r}
        /\ creator' = [creator EXCEPT ![r] = "register"]
        /\ UNCHANGED <<meta, files, task, server, halter, env>>
    BY <1>0, <1>4 DEF CreateWriteIndex, ListedOf
  <2>2. CASE q = r  BY <1>0, <2>1, <2>2
  <2>3. CASE q # r  BY <1>0, <2>1, <2>3
  <2>4. QED  BY <2>2, <2>3
<1>5. CASE CreateIoError(r)  BY <1>0, <1>5 DEF CreateIoError, ListedOf
<1>6. CASE CreateSpawn(r)  BY <1>0, <1>6 DEF CreateSpawn
<1>7. CASE CreateDropped(r)  BY <1>7 DEF CreateDropped
<1>8. QED  BY <1>1, <1>2, <1>3, <1>4, <1>5, <1>6, <1>7 DEF Create

LEMMA TendedTask ==
  ASSUME Tended, NEW r \in Runs, Drain(r) \/ Child(r) \/ Halt(r), NEW q \in Runs
  PROVE  TendedOf(q)'
<1>0. /\ TendedOf(q) /\ SoleWriterOf(q) /\ TypeOK /\ Safe /\ ListedOf(q)
  BY DEF Tended, Listed, Booked, Safe, SafeOf
<1> USE DEF TendedOf, Live, Terminal, NonTerminal
<1>1. CASE Drain(r)
  <2>1. /\ worker[r] = "draining"
        /\ meta'[r] = meta[r] \/ meta'[r].status = "running"
        /\ \A p \in Runs \ {r} : meta'[p] = meta[p] /\ worker'[p] = worker[p]
        /\ UNCHANGED <<sup, index, files, server, api, env>>
    BY <1>0, <1>1, DrainStep
  <2>2. CASE q = r
    <3>1. sup[q] \notin {"none", "dereg"}  BY <1>0, <2>1, <2>2 DEF SoleWriterOf
    <3>2. proc \notin {"down", "reconcile"} /\ (proc = "resume" => q \notin bootTodo)
      BY <1>0, <3>1 DEF SoleWriterOf
    <3>3. halts = 0 /\ proc \in {"resume", "up", "stopping"} => sup[q] \in {"drain", "join"}
      BY <1>0, <2>1, <2>2
    <3>4. QED  BY <1>0, <2>1, <3>1, <3>2, <3>3
  <2>3. CASE q # r  BY <1>0, <2>1, <2>3 DEF Resumable
  <2>4. QED  BY <2>2, <2>3
<1>2. CASE Child(r)
  <2>1. UNCHANGED <<meta, index, sup, worker, server, api, halts>>
    BY <1>2 DEF Child, ChildLine, ChildResult, ChildDone, ChildCloses, ChildExit, OrphanResult
  <2>2. files'[q] = files[q] \/ sup[q] \in {"drain", "join"}
    BY <1>0, <1>2 DEF Child, ChildLine, ChildResult, ChildDone, ChildCloses, ChildExit, OrphanResult, TypeOK,
       DiskType, Tended, Listed, ListedOf
  <2>3. sup[q] \in {"drain", "join"} => proc # "reconcile" /\ (proc = "resume" => q \notin bootTodo)
    BY <1>0 DEF SoleWriterOf
  <2>4. QED  BY <1>0, <2>1, <2>2, <2>3 DEF Resumable
<1>3. CASE Halt(r)
  <2>1. halts \in Nat  BY <1>0, BoundAssumption DEF TypeOK, EnvType
  <2>2. CASE HaltTake(r) \/ HaltNoHandle(r)  BY <2>1, <2>2 DEF HaltTake, HaltNoHandle
  <2>3. CASE HaltMark(r) \/ HaltDropped(r)
    <3>1. halter[r] = "marking" /\ halts' = halts  BY <2>3 DEF HaltMark, HaltDropped
    <3>2. halts # 0  BY <3>1 DEF Tended
    <3>3. QED  BY <3>1, <3>2
  <2>4. QED  BY <1>3, <2>2, <2>3 DEF Halt
<1>4. QED  BY <1>1, <1>2, <1>3

LEMMA TendedServer ==
  ASSUME Tended, Shutdown \/ Crash \/ Startup, NEW q \in Runs
  PROVE  TendedOf(q)'
<1>0. /\ TendedOf(q) /\ SoleWriterOf(q) /\ TypeOK /\ ListedOf(q)
  BY DEF Tended, Listed, Booked, Safe, SafeOf
<1> USE DEF TendedOf, Live, Terminal, NonTerminal
<1>1. CASE Signal  BY <1>0, <1>1 DEF Signal, Serving
<1>2. CASE ShutdownBegin  BY <1>0, <1>2 DEF ShutdownBegin
<1>3. ASSUME NEW r \in Runs, ShutdownDrained(r)  PROVE TendedOf(q)'
  BY <1>0, <1>3 DEF ShutdownDrained
<1>4. ASSUME NEW r \in Runs, ShutdownAbort(r)  PROVE TendedOf(q)'
  <2>1. \/ meta'[q] = meta[q]
        \/ NonTerminal(meta[q]) /\ meta'[q].status = "failed"
    BY <1>0, <1>4, Marked DEF ShutdownAbort
  <2>2. /\ UNCHANGED <<proc, halter, halts>> /\ proc = "draining"
        /\ sup' = [sup EXCEPT ![r] = "gone"]
    BY <1>4 DEF ShutdownAbort, Cancel
  <2>3. QED  BY <1>0, <2>1, <2>2 DEF TypeOK, TaskType
<1>5. CASE Exit \/ Crash  BY <1>0, <1>5 DEF Exit, Crash, MemoryLost
<1>6. CASE Boot  BY <1>0, <1>6 DEF Boot
<1>7. CASE ReconcileDone
  <2>1. Resumable(q)' <=> Resumable(q)  BY <1>7 DEF ReconcileDone, Resumable
  <2>2. QED  BY <1>0, <1>7, <2>1 DEF ReconcileDone, SoleWriterOf
<1>8. CASE Serve  BY <1>0, <1>8 DEF Serve
<1>9. ASSUME NEW r \in Runs, Reconcile(r)  PROVE TendedOf(q)'
  <2>1. /\ UNCHANGED <<index, files, task, proc, halter, creator, halts>> /\ proc = "reconcile"
        /\ bootTodo' = bootTodo \ {r}
    BY <1>9 DEF Reconcile
  <2>2. sup[q] = "none"  BY <1>0, <2>1 DEF SoleWriterOf
  <2>3. CASE q # r
    <3>1. meta'[q] = meta[q]  BY <1>0, <1>9, <2>3, Reconciled, Marked
    <3>2. Resumable(q)' <=> Resumable(q)  BY <2>1, <3>1 DEF Resumable
    <3>3. QED  BY <1>0, <2>1, <2>2, <2>3, <3>1, <3>2
  <2>4. CASE q = r /\ NonTerminal(meta[r]) /\ ~Resumable(r)
    <3>1. meta' = [meta EXCEPT ![r].status = "failed"]  BY <1>9, <2>4 DEF Reconcile
    <3>2. meta'[r].status = "failed"  BY <1>0, <3>1 DEF TypeOK, DiskType, Meta
    <3>3. QED  BY <1>0, <2>1, <2>2, <2>4, <3>2
  <2>5. CASE q = r /\ ~(NonTerminal(meta[r]) /\ ~Resumable(r))
    <3>1. meta' = meta  BY <1>9, <2>5 DEF Reconcile
    <3>2. Resumable(q)' <=> Resumable(q)  BY <2>1, <3>1 DEF Resumable
    <3>3. QED  BY <1>0, <2>1, <2>2, <2>5, <3>1, <3>2
  <2>6. QED  BY <2>3, <2>4, <2>5
<1>10. ASSUME NEW r \in Runs, Resume(r)  PROVE TendedOf(q)'
  <2>1. /\ UNCHANGED <<meta, index, files, proc, halter, creator, halts, worker>> /\ proc = "resume"
        /\ bootTodo' = bootTodo \ {r} /\ r \in bootTodo
    BY <1>10 DEF Resume
  <2>2. Resumable(q)' <=> Resumable(q)  BY <2>1 DEF Resumable
  <2>3. CASE q # r
    <3>1. sup'[q] = sup[q]  BY <1>0, <1>10, <2>3 DEF Resume, TypeOK, TaskType
    <3>2. QED  BY <1>0, <2>1, <2>2, <2>3, <3>1
  <2>4. CASE q = r
    <3>1. IF NonTerminal(meta[r]) /\ Resumable(r) THEN sup'[r] = "pool" ELSE sup'[r] = sup[r]
      BY <1>0, <1>10 DEF Resume, TypeOK, TaskType
    <3>2. QED  BY <1>0, <2>1, <2>2, <2>4, <3>1 DEF SoleWriterOf
  <2>5. QED  BY <2>3, <2>4
<1>11. QED
  BY <1>1, <1>2, <1>3, <1>4, <1>5, <1>6, <1>7, <1>8, <1>9, <1>10 DEF Shutdown, Startup

\* Provided no client drops its connection and children die with the server, the books
\* are right through any crashes, shutdowns and resumptions, as long as no run has
\* been halted: a drain worker outlives the abort of a halt and may write `running`
\* over its mark (create, reconcile_orphans, resume_orphaned_flows).
THEOREM BooksHold ==
  ASSUME Disconnects = FALSE, ChildrenSurvive = FALSE
  PROVE  Spec => [](halts = 0 => BooksExact)
<1>1. Init => Tended /\ LaneHeld
  <2>1. Init => \A r \in Runs : ListedOf(r) /\ TendedOf(r)
    BY DEF Init, ListedOf, TendedOf, Live
  <2>2. Init => LaneOf("flow") = {}  BY DEF Init, LaneOf, HoldsLane
  <2>3. QED  BY <2>1, <2>2, BookedInit, FS_EmptySet, PermitAssumption DEF LaneHeld, Tended, Listed
<1>2. Tended /\ LaneHeld /\ [Next]_vars => Tended' /\ LaneHeld'
  <2> SUFFICES ASSUME Tended, LaneHeld, [Next]_vars  PROVE Tended' /\ LaneHeld'
    OBVIOUS
  <2>1. Listed' /\ LaneHeld'  BY ListedNext, LaneNext DEF Tended, Listed
  <2>2. ASSUME NEW q \in Runs  PROVE TendedOf(q)'
    <3>1. CASE UNCHANGED vars  BY <3>1 DEF vars, Tended, TendedOf, Live, Resumable
    <3>2. CASE Next  BY <3>2, TendedSupervise, TendedCreate, TendedTask, TendedServer DEF Next
    <3>3. QED  BY <3>1, <3>2
  <2>3. QED  BY <2>1, <2>2 DEF Tended
<1>3. Tended /\ LaneHeld => (halts = 0 => BooksExact)
  <2> SUFFICES ASSUME Tended, LaneHeld, halts = 0  PROVE BooksExact
    OBVIOUS
  <2>1. RegistryExact  BY DEF Tended, Listed, Booked, BookedOf, RegistryExact
  <2>2. IndexComplete  BY DEF Tended, Listed, ListedOf, IndexComplete
  <2>3. NoStrandedRun
    BY <2>1 DEF Tended, TendedOf, NoStrandedRun, RegistryExact, Listed, Booked, Safe, TypeOK, DiskType
  <2>4. FlowLaneBound  BY LaneBound DEF Tended, Listed
  <2>5. QED  BY <2>1, <2>2, <2>3, <2>4 DEF BooksExact
<1>4. QED  BY <1>1, <1>2, <1>3, PTL DEF Spec

=============================================================================
