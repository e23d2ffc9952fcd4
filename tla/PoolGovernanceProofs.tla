------------------------ MODULE PoolGovernanceProofs ------------------------
(***************************************************************************)
(* Proofs about PoolGovernance, for any pools, people, runs and requests   *)
(* and any number of crashes.                                              *)
(***************************************************************************)
EXTENDS PoolGovernance, FiniteSetTheorems, WellFoundedInduction, TLAPS

USE DEF disk, locks

PCs == {"idle", "resolve", "decide", "refuse", "lock", "wait", "read", "write",
        "evict", "append", "revRead", "revWrite", "record", "done"}
Run == [pool : Pools, by : Emails, stage : {"running", "wrote", "done"}]
Answers == {"none", "ok", "conflict", "forbidden", "error"}

\* A request's own variables are well typed.
RequestType ==
  /\ pc \in [Requests -> PCs]
  /\ loc \in [Requests -> Local]
  /\ dropped \in [Requests -> BOOLEAN]
  /\ answer \in [Requests -> Answers]

DiskType ==
  /\ log \in Seq(Entry)
  /\ cache \in [Pools -> States \union {"torn"}]
  /\ revocations \subseteq Pools
  /\ DOMAIN record = Pools
  /\ \A p \in Pools : \A g \in record[p] : g.approvals \subseteq Emails
  /\ runs \in Seq(Run)

LockType ==
  /\ lockMap \in [Pools -> Requests \union {NoLock}]
  /\ myLock \in [Requests -> Requests \union {NoLock}]

\* A request has read no more than there is, and writes a state of the lifecycle.
Fit ==
  /\ \A h \in Requests : loc[h].view <= Len(log)
  /\ \A h \in Requests : pc[h] = "write" => loc[h].want \in States

\* The three parts are the type invariant.
LEMMA TypeParts == TypeOK <=> RequestType /\ DiskType /\ LockType /\ crashes \in 0 .. MaxCrashes
  BY DEF TypeOK, RequestType, DiskType, LockType, PCs, Answers, Run

\* A request asks for a transition of a pool, as somebody.
LEMMA Asked ==
  ASSUME NEW h \in Requests
  PROVE  PoolOf(h) \in Pools /\ Actor(h) \in Emails /\ Transition(h) \in Transitions
  BY InputAssumption DEF PoolOf, Actor, Transition

\* What an assignment to one local variable does to all of them.
LEMMA LocalView ==
  ASSUME NEW m \in Local, NEW n \in Nat
  PROVE  /\ [m EXCEPT !.view = n] \in Local
         /\ [m EXCEPT !.view = n].view = n
         /\ [m EXCEPT !.view = n].launcher = m.launcher
         /\ [m EXCEPT !.view = n].want = m.want
         /\ [m EXCEPT !.view = n].revoked = m.revoked
  BY DEF Local

LEMMA LocalWant ==
  ASSUME NEW m \in Local, NEW s \in States \union {NoState}
  PROVE  /\ [m EXCEPT !.want = s] \in Local
         /\ [m EXCEPT !.want = s].want = s
         /\ [m EXCEPT !.want = s].view = m.view
         /\ [m EXCEPT !.want = s].launcher = m.launcher
         /\ [m EXCEPT !.want = s].revoked = m.revoked
  BY DEF Local

LEMMA LocalLauncher ==
  ASSUME NEW m \in Local, NEW l
  PROVE  /\ [m EXCEPT !.launcher = l].launcher = l
         /\ [m EXCEPT !.launcher = l].view = m.view
         /\ [m EXCEPT !.launcher = l].want = m.want
         /\ [m EXCEPT !.launcher = l].revoked = m.revoked
  BY DEF Local

LEMMA LocalRevoked ==
  ASSUME NEW m \in Local, NEW r
  PROVE  /\ [m EXCEPT !.revoked = r].revoked = r
         /\ [m EXCEPT !.revoked = r].view = m.view
         /\ [m EXCEPT !.revoked = r].want = m.want
         /\ [m EXCEPT !.revoked = r].launcher = m.launcher
  BY DEF Local

\* Going to another await point keeps the types of a request.
LEMMA TypeGoto ==
  ASSUME RequestType, NEW h \in Requests, NEW l \in PCs, Goto(h, l), loc' \in [Requests -> Local]
  PROVE  RequestType'
  BY DEF RequestType, Goto

\* Responding keeps them too.
LEMMA TypeRespond ==
  ASSUME RequestType, NEW h \in Requests, NEW a \in Answers, Respond(h, a)
  PROVE  RequestType'
<1>1. NoLocal \in Local  BY DEF NoLocal, Local, NoState
<1>2. pc' \in [Requests -> PCs]  BY DEF RequestType, Respond, PCs
<1>3. loc' \in [Requests -> Local]  BY <1>1 DEF RequestType, Respond
<1>4. dropped' \in [Requests -> BOOLEAN]  BY Zenon DEF RequestType, Respond
<1>5. answer' \in [Requests -> Answers]  BY DEF RequestType, Respond
<1> QED  BY <1>2, <1>3, <1>4, <1>5 DEF RequestType

\* And so does the end of a cache transition.
LEMMA TypeEnd ==
  ASSUME RequestType, LockType, NEW h \in Requests, NEW o \in States \union {NoState},
         EndTransition(h, o), lockMap' = lockMap
  PROVE  RequestType' /\ LockType'
<1>1. LockType'  BY DEF LockType, EndTransition
<1>2. CASE dropped[h]
  BY <1>1, <1>2, TypeRespond DEF EndTransition, Answers
<1>3. CASE ~dropped[h]
  <2>1. loc' \in [Requests -> Local]
    <3>1. loc \in [Requests -> Local] /\ loc[h] \in Local  BY DEF RequestType
    <3>2. [loc[h] EXCEPT !.want = o] \in Local  BY <3>1, LocalWant
    <3>3. loc' = [loc EXCEPT ![h] = [loc[h] EXCEPT !.want = o]]  BY <1>3, <3>1 DEF EndTransition
    <3> QED  BY <3>1, <3>2, <3>3
  <2> QED  BY <1>1, <1>3, <2>1, TypeGoto DEF EndTransition, PCs
<1> QED  BY <1>2, <1>3

\* An entry that append writes is an entry of the log.
LEMMA TypeAppend ==
  ASSUME log \in Seq(Entry), NEW h \in Requests,
         NEW a \in {"launch", "approve", "reject", "revoke"}, NEW e \in BOOLEAN,
         log' = Append(log, NewEntry(a, Actor(h), PoolOf(h), e))
  PROVE  log' \in Seq(Entry)
<1>1. NewEntry(a, Actor(h), PoolOf(h), e) \in Entry  BY Asked DEF NewEntry, Entry
<1> QED  BY <1>1

\* The part of the log a request has read is a log.
LEMMA EntriesType ==
  ASSUME TypeOK, NEW h \in Requests, loc[h].view <= Len(log)
  PROVE  /\ Entries(h) \in Seq(Entry)
         /\ DOMAIN Entries(h) = 1 .. loc[h].view
         /\ \A i \in 1 .. loc[h].view : i \in DOMAIN log /\ Entries(h)[i] = log[i]
<1>1. loc[h].view \in Nat /\ log \in Seq(Entry)  BY DEF TypeOK, Local
<1> QED  BY <1>1 DEF Entries

\* A set of numbers up to a bound has a greatest element, unless it is empty.
LEMMA BoundedHasMax ==
  ASSUME NEW n \in Nat, NEW S \in SUBSET (1 .. n), S # {}
  PROVE  \E i \in S : \A j \in S : j <= i
<1> DEFINE T == {n - i : i \in S}
<1>0. \A i \in S : n - i \in Nat  OBVIOUS
<1>1. T \subseteq Nat /\ T # {}  BY <1>0
<1>2. \E x \in T : \A y \in T : ~(<<y, x>> \in OpToRel(<, Nat))
  BY <1>1, NatLessThanWellFounded, WFMin, Zenon
<1>3. PICK x \in T : \A y \in T : ~(y < x)
  BY <1>1, <1>2 DEF OpToRel
<1>4. PICK i \in S : x = n - i  OBVIOUS
<1>5. \A j \in S : ~(n - j < n - i)  BY <1>3, <1>4
<1> QED  BY <1>5

\* What stands in a sequence over a set is of the set.
LEMMA ElementType ==
  ASSUME NEW S, NEW s \in Seq(S), NEW i \in DOMAIN s
  PROVE  s[i] \in S /\ i \in 1 .. Len(s) /\ Len(s) \in Nat
  OBVIOUS

\* A function on the places of a sequence is a sequence.
LEMMA IsSequence ==
  ASSUME NEW T, NEW n \in Nat, NEW t \in [1 .. n -> T]
  PROVE  t \in Seq(T) /\ Len(t) = n
  OBVIOUS

\* The initial state is well typed.
LEMMA TypeInit == Init => TypeOK
<1> SUFFICES ASSUME Init PROVE TypeOK
  OBVIOUS
<1> USE DEF Init, InitWith
<1>1. DiskType
  <2>0. \A i \in DOMAIN Finished : Finished[i] \in [pool : Pools, by : Emails]
    BY InputAssumption, ElementType
  <2>d. DOMAIN Finished = 1 .. Len(Finished) /\ Len(Finished) \in Nat
    BY InputAssumption
  <2>1. log \in Seq(Entry)
    <3>1. \A i \in DOMAIN Finished :
            NewEntry("launch", Finished[i].by, Finished[i].pool, FALSE) \in Entry
      BY <2>0 DEF NewEntry, Entry
    <3>2. log \in [DOMAIN Finished -> Entry]  BY <3>1
    <3> QED  BY <2>d, <3>2, IsSequence
  <2>2. runs \in Seq(Run)
    <3>1. runs \in [DOMAIN Finished -> Run]
      BY <2>0 DEF Run
    <3> QED  BY <2>d, <3>1, IsSequence
  <2> QED  BY <2>1, <2>2 DEF DiskType, States
<1>2. LockType  BY DEF LockType
<1>3. RequestType
  <2>1. NoLocal \in Local  BY DEF NoLocal, Local, NoState
  <2>2. dropped \in [Requests -> BOOLEAN]  BY Zenon
  <2> QED  BY <2>1, <2>2 DEF RequestType, PCs, Answers
<1>4. crashes \in 0 .. MaxCrashes  BY LimitAssumption
<1> QED  BY <1>1, <1>2, <1>3, <1>4, TypeParts

\* No step of a request leaves the types.
LEMMA TypeHandle == ASSUME TypeOK, Fit, NEW h \in Requests, Handle(h) PROVE TypeOK'
<1>0. RequestType /\ DiskType /\ LockType /\ crashes \in 0 .. MaxCrashes
  BY TypeParts
<1>a. ASSUME UNCHANGED disk, UNCHANGED runs  PROVE DiskType'
  BY <1>0, <1>a DEF DiskType
<1>b. ASSUME log' \in Seq(Entry), UNCHANGED <<cache, revocations, record, runs>>  PROVE DiskType'
  BY <1>0, <1>b DEF DiskType
<1>c. ASSUME UNCHANGED locks  PROVE LockType'
  BY <1>0, <1>c DEF LockType
<1>d. ASSUME UNCHANGED loc  PROVE loc' \in [Requests -> Local]
  BY <1>0, <1>d DEF RequestType
<1>e. loc[h] \in Local /\ log \in Seq(Entry) /\ PoolOf(h) \in Pools
  BY <1>0, Asked DEF RequestType, DiskType
<1>q. ASSUME RequestType', DiskType', LockType', crashes' = crashes  PROVE TypeOK'
  BY <1>0, <1>q DEF TypeOK, RequestType, DiskType, LockType, PCs, Answers, Run
<1>1. CASE Begin(h)
  <2>1. DiskType' /\ LockType' /\ crashes' = crashes  BY <1>1, <1>a, <1>c DEF Begin
  <2>2. CASE Respond(h, "conflict")  BY <1>0, <2>1, <2>2, <1>q, TypeRespond DEF Answers
  <2>3. CASE loc' = [loc EXCEPT ![h].view = Len(log)]
             /\ Goto(h, IF IsProduction(h) /\ ~VerifyChain(log) THEN "refuse" ELSE "resolve")
    <3>1. loc' \in [Requests -> Local]  BY <1>0, <1>e, <2>3, LocalView DEF RequestType
    <3> QED  BY <1>0, <2>1, <2>3, <3>1, <1>q, TypeGoto DEF PCs
  <2> QED  BY <1>1, <2>2, <2>3 DEF Begin
<1>2. CASE Resolve(h)
  <2>1. DiskType' /\ LockType' /\ crashes' = crashes  BY <1>2, <1>a, <1>c DEF Resolve
  <2>2. CASE Respond(h, "forbidden")  BY <1>0, <2>1, <2>2, <1>q, TypeRespond DEF Answers
  <2>3. CASE ~Respond(h, "forbidden")
    <3>1. PICK l : /\ l = ResolveLauncher(Entries(h), PoolOf(h)) \/ l = NoOne
                   /\ loc' = [loc EXCEPT ![h].launcher = l]
                   /\ Goto(h, IF IsProduction(h) THEN "decide" ELSE "lock")
      BY <1>2, <2>3 DEF Resolve
    <3>2. l \in Emails \union {NoOne}
      <4>1. CASE RunsOf(PoolOf(h)) # {}
        <5>1. Newest(RunsOf(PoolOf(h))) \in DOMAIN runs
          <6> DEFINE S == RunsOf(PoolOf(h))
          <6>1. \E i \in S : \A j \in S : j <= i
            <7>1. S \subseteq 1 .. Len(runs) /\ Len(runs) \in Nat
              BY <1>0 DEF RunsOf, DiskType
            <7> QED  BY <7>1, <4>1, BoundedHasMax
          <6>2. Newest(S) \in S  BY <6>1, Zenon DEF Newest
          <6> QED  BY <6>2 DEF RunsOf
        <5>2. runs[Newest(RunsOf(PoolOf(h)))].by \in Emails
          <6> DEFINE i == Newest(RunsOf(PoolOf(h)))
          <6>1. runs[i] \in Run  BY <1>0, <5>1, ElementType DEF DiskType
          <6> QED  BY <6>1 DEF Run
        <5> QED  BY <3>1, <5>2 DEF ResolveLauncher
      <4>2. CASE RunsOf(PoolOf(h)) = {}  BY <3>1, <4>2 DEF ResolveLauncher
      <4> QED  BY <4>1, <4>2
    <3>3. loc' \in [Requests -> Local]  BY <1>0, <1>e, <3>1, <3>2 DEF RequestType, Local
    <3> QED  BY <1>0, <2>1, <3>1, <3>3, <1>q, TypeGoto DEF PCs
  <2> QED  BY <2>2, <2>3
<1>3. CASE Decide(h)
  <2>1. DiskType' /\ LockType' /\ crashes' = crashes /\ loc' \in [Requests -> Local]
    BY <1>3, <1>a, <1>c, <1>d DEF Decide
  <2>2. Goto(h, "lock") \/ Goto(h, "refuse")  BY <1>3 DEF Decide
  <2> QED  BY <1>0, <2>1, <2>2, <1>q, TypeGoto DEF PCs
<1>4. CASE Refuse(h)
  <2>1. log' \in Seq(Entry)  BY <1>4, <1>e, TypeAppend DEF Refuse
  <2>2. DiskType' /\ LockType' /\ crashes' = crashes  BY <1>4, <2>1, <1>b, <1>c DEF Refuse
  <2> QED  BY <1>0, <1>4, <2>2, <1>q, TypeRespond DEF Refuse, Answers
<1>5. CASE CloneLock(h)
  <2>1. DiskType' /\ crashes' = crashes /\ loc' \in [Requests -> Local]
    BY <1>5, <1>a, <1>d DEF CloneLock
  <2>2. LockType'  BY <1>0, <1>5, <1>e DEF CloneLock, LockType
  <2> QED  BY <1>0, <1>5, <2>1, <2>2, <1>q, TypeGoto DEF CloneLock, PCs
<1>6. CASE Acquire(h)
  BY <1>0, <1>6, <1>a, <1>c, <1>d, <1>q, TypeGoto DEF Acquire, PCs
<1>7. CASE ReadCache(h)
  <2>1. DiskType' /\ crashes' = crashes /\ lockMap' = lockMap  BY <1>7, <1>a DEF ReadCache
  <2>2. CASE \E o \in States \union {NoState} : EndTransition(h, o)
    BY <1>0, <2>1, <2>2, <1>q, TypeEnd
  <2>3. CASE ~\E o \in States \union {NoState} : EndTransition(h, o)
    <3>1. PICK e \in Edges : /\ loc' = [loc EXCEPT ![h].want = e[3]]
                             /\ Goto(h, "write") /\ UNCHANGED myLock
      BY <1>7, <2>3 DEF ReadCache, Applied, States
    <3>2. e[3] \in States  BY DEF Edges, States
    <3>3. loc' \in [Requests -> Local]  BY <1>0, <1>e, <3>1, <3>2 DEF RequestType, Local
    <3> QED  BY <1>0, <2>1, <3>1, <3>3, <1>c, <1>q, TypeGoto DEF PCs
  <2> QED  BY <2>2, <2>3
<1>8. CASE WriteCache(h)
  <2>1. loc[h].want \in States \union {NoState}  BY <1>e DEF Local
  <2>2. RequestType' /\ LockType' /\ crashes' = crashes
    BY <1>0, <1>8, <2>1, TypeEnd DEF WriteCache
  <2>3. loc[h].want \in States  BY <1>8 DEF WriteCache, Fit
  <2>4. DiskType'  BY <1>0, <1>8, <2>3 DEF WriteCache, DiskType
  <2> QED  BY <2>2, <2>4, <1>q
<1>9. CASE Evict(h)
  <2>1. DiskType' /\ crashes' = crashes  BY <1>9, <1>a DEF Evict
  <2>2. LockType'  BY <1>0, <1>9, <1>e DEF Evict, LockType
  <2>3. Respond(h, "conflict") \/ Respond(h, "ok") \/ (Goto(h, "append") /\ UNCHANGED loc)
    BY <1>9 DEF Evict
  <2> QED  BY <1>0, <2>1, <2>2, <2>3, <1>d, <1>q, TypeGoto, TypeRespond DEF PCs, Answers
<1>10. CASE AppendEntry(h)
  <2>1. log' \in Seq(Entry)
    <3>1. IsProduction(h) \in BOOLEAN  BY DEF IsProduction
    <3>2. (IF Transition(h) = "seal" THEN "approve" ELSE Transition(h))
             \in {"launch", "approve", "reject", "revoke"}
      BY Asked DEF Transitions
    <3> QED  BY <1>10, <1>e, <3>1, <3>2, TypeAppend DEF AppendEntry
  <2>2. DiskType' /\ LockType' /\ crashes' = crashes  BY <1>10, <2>1, <1>b, <1>c DEF AppendEntry
  <2>3. \/ Goto(h, "revRead") /\ UNCHANGED loc
        \/ Goto(h, "record") /\ UNCHANGED loc
        \/ Respond(h, "ok")
    BY <1>10 DEF AppendEntry
  <2> QED  BY <1>0, <2>2, <2>3, <1>d, <1>q, TypeGoto, TypeRespond DEF PCs, Answers
<1>11. CASE AppendFails(h)
  BY <1>0, <1>11, <1>a, <1>c, <1>q, TypeRespond DEF AppendFails, Answers
<1>12. CASE ReadRevocations(h)
  <2>1. loc' \in [Requests -> Local]
    BY <1>0, <1>12, <1>e DEF ReadRevocations, RequestType, DiskType, Local
  <2> QED  BY <1>0, <1>12, <2>1, <1>a, <1>c, <1>q, TypeGoto DEF ReadRevocations, PCs
<1>13. CASE WriteRevocations(h)
  <2>1. RevokedSet(h) \subseteq Pools  BY <1>e DEF RevokedSet, Local
  <2>2. DiskType'  BY <1>0, <1>13, <2>1 DEF WriteRevocations, DiskType
  <2> QED  BY <1>0, <1>13, <2>2, <1>c, <1>q, TypeRespond DEF WriteRevocations, Answers
<1>14. CASE WriteRecord(h)
  <2>1. Signers(Entries(h), PoolOf(h)) \subseteq Emails
    <3>1. \A i \in DOMAIN Entries(h) : Entries(h)[i].actor \in Emails
      <4>1. \A i \in DOMAIN Entries(h) : Entries(h)[i] \in Entry
        BY EntriesType, ElementType DEF Fit
      <4> QED  BY <4>1 DEF Entry
    <3> QED  BY <3>1, PeopleAssumption DEF Signers
  <2>2. DiskType'  BY <1>0, <1>14, <2>1 DEF WriteRecord, RecordOf, Approvals, DiskType
  <2> QED  BY <1>0, <1>14, <2>2, <1>c, <1>q, TypeRespond DEF WriteRecord, Answers
<1> QED
  BY <1>1, <1>2, <1>3, <1>4, <1>5, <1>6, <1>7, <1>8, <1>9, <1>10, <1>11, <1>12, <1>13, <1>14
  DEF Handle

-----------------------------------------------------------------------------
(* What a step does to the log and to the runs.                            *)

\* The log is append-only up to the worth of a signature, which a crash may
\* lower but never makes foreign.
LogGrows ==
  /\ Len(log) <= Len(log')
  /\ \A i \in DOMAIN log :
       /\ i \in DOMAIN log'
       /\ log'[i].action = log[i].action /\ log'[i].actor = log[i].actor
       /\ log'[i].pool = log[i].pool /\ log'[i].evidence = log[i].evidence
       /\ log[i].mac # "foreign" => log'[i].mac # "foreign"

\* Runs are added, and go on.
RunsGrow ==
  \A i \in DOMAIN runs : /\ i \in DOMAIN runs'
                         /\ runs'[i].pool = runs[i].pool /\ runs'[i].by = runs[i].by

\* Appending keeps what is there.
LEMMA AppendGrows ==
  ASSUME log \in Seq(Entry), NEW e \in Entry, log' = Append(log, e)
  PROVE  LogGrows
<1>1. Len(log') = Len(log) + 1 /\ Len(log) \in Nat  OBVIOUS
<1>2. \A i \in DOMAIN log : i \in DOMAIN log' /\ log'[i] = log[i]  OBVIOUS
<1> QED  BY <1>1, <1>2 DEF LogGrows

LEMMA SameGrows == ASSUME log \in Seq(Entry), log' = log PROVE LogGrows
  BY DEF LogGrows

\* Every step of a request only appends to the log, and leaves the runs alone.
LEMMA HandleGrows ==
  ASSUME TypeOK, NEW h \in Requests, Handle(h)
  PROVE  LogGrows /\ runs' = runs
<1>0. log \in Seq(Entry)  BY DEF TypeOK
<1>1. CASE UNCHANGED <<log, runs>>  BY <1>0, <1>1, SameGrows
<1>2. CASE Refuse(h)
  <2>1. NewEntry("reject", Actor(h), PoolOf(h), FALSE) \in Entry  BY Asked DEF NewEntry, Entry
  <2> QED  BY <1>0, <1>2, <2>1, AppendGrows, SameGrows DEF Refuse
<1>3. CASE AppendEntry(h)
  <2>1. PICK a \in {"approve", "reject", "revoke"} :
          log' = Append(log, NewEntry(a, Actor(h), PoolOf(h), IsProduction(h)))
    BY <1>3, Asked DEF AppendEntry, Transitions
  <2>2. NewEntry(a, Actor(h), PoolOf(h), IsProduction(h)) \in Entry
    BY Asked DEF NewEntry, Entry, IsProduction
  <2> QED  BY <1>0, <1>3, <2>1, <2>2, AppendGrows DEF AppendEntry
<1> QED
  BY <1>1, <1>2, <1>3
  DEF Handle, Begin, Resolve, Decide, CloneLock, Acquire, ReadCache, WriteCache, Evict,
      AppendFails, ReadRevocations, WriteRevocations, WriteRecord

\* A request goes on seeing what it has seen, and what it is about to write is a
\* state of the lifecycle.
LEMMA HandleFit ==
  ASSUME TypeOK, Fit, NEW h \in Requests, Handle(h)
  PROVE  Fit'
<1>0. /\ loc \in [Requests -> Local] /\ pc \in [Requests -> PCs]
      /\ Len(log) \in Nat /\ Len(log') \in Nat /\ Len(log) <= Len(log')
  <2>1. TypeOK'  BY TypeHandle
  <2>2. Len(log) \in Nat /\ Len(log') \in Nat  BY <2>1 DEF TypeOK
  <2> QED  BY <2>2, HandleGrows DEF LogGrows, TypeOK, PCs
<1>1. \A g \in Requests \ {h} : loc'[g] = loc[g] /\ pc'[g] = pc[g]
  BY <1>0 DEF Handle, Begin, Resolve, Decide, Refuse, CloneLock, Acquire, ReadCache, WriteCache,
     Evict, AppendEntry, AppendFails, ReadRevocations, WriteRevocations, WriteRecord,
     EndTransition, Goto, Respond
<1>2. loc'[h].view <= Len(log')
  <2>1. loc[h].view <= Len(log) /\ loc[h] \in Local /\ NoLocal.view = 0 /\ loc[h].view \in Nat
    BY <1>0 DEF Fit, NoLocal, Local
  <2>2. loc'[h].view \in {loc[h].view, Len(log), 0}
    <3>0. CASE loc'[h] \in {loc[h], NoLocal}  BY <2>1, <3>0
    <3>1. CASE Begin(h)
      <4>1. CASE loc' = [loc EXCEPT ![h].view = Len(log)]  BY <1>0, <2>1, <4>1, LocalView
      <4> QED  BY <1>0, <3>0, <3>1, <4>1 DEF Begin, Respond
    <3>2. CASE Resolve(h)
      <4>1. CASE \E l : loc' = [loc EXCEPT ![h].launcher = l]  BY <1>0, <2>1, <4>1, LocalLauncher
      <4> QED  BY <1>0, <3>0, <3>2, <4>1 DEF Resolve, Respond
    <3>3. CASE ReadCache(h) \/ WriteCache(h)
      <4>1. CASE \E s \in States \union {NoState} : loc' = [loc EXCEPT ![h].want = s]
        BY <1>0, <2>1, <4>1, LocalWant
      <4>2. loc[h].want \in States \union {NoState}  BY <2>1 DEF Local
      <4> QED
        BY <1>0, <3>0, <3>3, <4>1, <4>2 DEF ReadCache, Applied, WriteCache, EndTransition, Respond, Edges, States
    <3>4. CASE ReadRevocations(h)  BY <1>0, <2>1, <3>4, LocalRevoked DEF ReadRevocations
    <3> QED
      BY <1>0, <3>0, <3>1, <3>2, <3>3, <3>4
      DEF Handle, Decide, Refuse, CloneLock, Acquire, Evict, AppendEntry, AppendFails,
          WriteRevocations, WriteRecord, Respond
  <2> QED  BY <1>0, <2>1, <2>2
<1>3. pc'[h] = "write" => loc'[h].want \in States
  <2>1. CASE ReadCache(h)
    <3>1. CASE \E s \in States : loc' = [loc EXCEPT ![h].want = s]
      BY <1>0, <3>1, LocalWant
    <3>2. CASE ~\E s \in States : loc' = [loc EXCEPT ![h].want = s]
      BY <1>0, <2>1, <3>2 DEF ReadCache, Applied, EndTransition, Goto, Respond, States, Edges
    <3> QED  BY <3>1, <3>2
  <2>2. CASE ~ReadCache(h)
    <3>1. pc'[h] # "write"
      BY <1>0, <2>2
      DEF Handle, Begin, Resolve, Decide, Refuse, CloneLock, Acquire, WriteCache,
          Evict, AppendEntry, AppendFails, ReadRevocations, WriteRevocations, WriteRecord,
          EndTransition, Goto, Respond
    <3> QED  BY <3>1
  <2> QED  BY <2>1, <2>2
<1> QED  BY <1>0, <1>1, <1>2, <1>3 DEF Fit, Local

\* A step of the environment: a run, a disconnect, a foreign line, a crash.
Around ==
  \/ \E h \in Requests : Drop(h)
  \/ \E run \in Launches : Launch(run)
  \/ RunsGoOn
  \/ \E line \in ForeignLines : ForeignEntry(line)
  \/ Crash

\* The environment only appends to the log and goes on with the runs.
LEMMA AroundGrows == ASSUME TypeOK, Around PROVE LogGrows /\ RunsGrow
<1>0. log \in Seq(Entry) /\ runs \in Seq(Run)  BY DEF TypeOK, Run
<1>l. ASSUME log' = log  PROVE LogGrows  BY <1>0, <1>l, SameGrows
<1>r. ASSUME runs' = runs  PROVE RunsGrow  BY <1>r DEF RunsGrow
<1>1. ASSUME NEW h \in Requests, Drop(h)  PROVE LogGrows /\ RunsGrow
  BY <1>1, <1>l, <1>r DEF Drop
<1>2. ASSUME NEW run \in Launches, Launch(run)  PROVE LogGrows /\ RunsGrow
  <2>1. PICK e : runs' = Append(runs, e)  BY <1>2 DEF Launch
  <2>2. RunsGrow  BY <1>0, <2>1 DEF RunsGrow
  <2> QED  BY <1>2, <1>l, <2>2 DEF Launch
<1>3. ASSUME NEW i \in DOMAIN runs, LogLaunch(i)  PROVE LogGrows /\ RunsGrow
  <2>0. runs[i] \in Run  BY <1>0, ElementType
  <2>1. NewEntry("launch", runs[i].by, runs[i].pool, FALSE) \in Entry
    BY <2>0 DEF NewEntry, Entry, Run
  <2> QED  BY <1>0, <1>3, <2>1, <1>r, AppendGrows DEF LogLaunch
<1>4. ASSUME NEW i \in DOMAIN runs, RunStep(i)  PROVE LogGrows /\ RunsGrow
  <2>0. \A j \in DOMAIN runs : runs[j] \in Run  BY <1>0, ElementType
  <2>1. RunsGrow  BY <1>0, <1>4, <2>0 DEF RunStep, RunsGrow, Run
  <2> QED  BY <1>4, <1>l, <2>1 DEF RunStep
<1>5. ASSUME NEW line \in ForeignLines, ForeignEntry(line)  PROVE LogGrows /\ RunsGrow
  <2>1. line \in [pool : Pools, by : Emails]  BY InputAssumption
  <2>2. [NewEntry("approve", line.by, line.pool, FALSE) EXCEPT !.mac = "foreign"] \in Entry
    BY <2>1 DEF NewEntry, Entry
  <2> QED  BY <1>0, <1>5, <2>2, <1>r, AppendGrows DEF ForeignEntry
<1>6. CASE Crash
  <2>0. \A i \in DOMAIN log : log[i] \in Entry  BY <1>0, ElementType
  <2>1. DOMAIN log' = DOMAIN log /\ log' \in [DOMAIN log -> Entry]
    BY <1>6, <2>0 DEF Crash, UnderNewKey, Entry
  <2>2. DOMAIN log = 1 .. Len(log) /\ Len(log) \in Nat  BY <1>0
  <2>3. Len(log') = Len(log)  BY <2>1, <2>2, IsSequence
  <2>4. \A i \in DOMAIN log :
          /\ log'[i].action = log[i].action /\ log'[i].actor = log[i].actor
          /\ log'[i].pool = log[i].pool /\ log'[i].evidence = log[i].evidence
          /\ log[i].mac # "foreign" => log'[i].mac # "foreign"
    BY <1>6, <2>0 DEF Crash, UnderNewKey, Entry
  <2> QED  BY <1>6, <2>1, <2>2, <2>3, <2>4, <1>r DEF Crash, LogGrows
<1> QED
  BY <1>1, <1>2, <1>3, <1>4, <1>5, <1>6 DEF Around, RunsGoOn

\* ... and keeps the types.
LEMMA AroundType == ASSUME TypeOK, Fit, Around PROVE TypeOK' /\ Fit'
<1>0. RequestType /\ DiskType /\ LockType /\ crashes \in 0 .. MaxCrashes  BY TypeParts
<1>00. log \in Seq(Entry) /\ runs \in Seq(Run) /\ Len(log) \in Nat
  BY <1>0 DEF DiskType
<1>f. ASSUME UNCHANGED <<loc, pc>>, log' \in Seq(Entry)  PROVE Fit'
  <2>1. Len(log') \in Nat /\ Len(log) <= Len(log')
    BY <1>f, AroundGrows DEF LogGrows
  <2>2. \A h \in Requests : loc[h].view \in Nat  BY <1>0 DEF RequestType, Local
  <2> QED  BY <1>00, <1>f, <2>1, <2>2 DEF Fit
<1>q. ASSUME RequestType', DiskType', LockType', (crashes \in 0 .. MaxCrashes)'  PROVE TypeOK'
  BY <1>q DEF TypeOK, RequestType, DiskType, LockType, PCs, Answers, Run
<1>1. ASSUME NEW h \in Requests, Drop(h)  PROVE TypeOK' /\ Fit'
  <2>1. LockType' /\ DiskType' /\ crashes' = crashes  BY <1>0, <1>1 DEF Drop, LockType, DiskType
  <2>2. CASE Respond(h, "none")
    <3>1. RequestType'  BY <1>0, <2>2, TypeRespond DEF Answers
    <3>2. NoLocal.view = 0  BY DEF NoLocal
    <3>3. Fit'  BY <1>0, <1>00, <1>1, <2>2, <3>2 DEF Fit, Respond, RequestType, Drop
    <3> QED  BY <1>0, <1>q, <2>1, <3>1, <3>3
  <2>3. CASE dropped' = [dropped EXCEPT ![h] = TRUE] /\ UNCHANGED <<pc, loc, answer>>
    <3>1. dropped' \in [Requests -> BOOLEAN]  BY <1>0, <2>3, Zenon DEF RequestType
    <3>2. RequestType'  BY <1>0, <2>3, <3>1 DEF RequestType
    <3> QED  BY <1>0, <1>00, <1>1, <1>f, <1>q, <2>1, <2>3, <3>2 DEF Drop
  <2> QED  BY <1>1, <2>2, <2>3 DEF Drop
<1>2. ASSUME NEW run \in Launches, Launch(run)  PROVE TypeOK' /\ Fit'
  <2>1. [pool |-> run.pool, by |-> run.by, stage |-> "running"] \in Run
    BY InputAssumption DEF Run
  <2>2. runs' \in Seq(Run)  BY <1>00, <1>2, <2>1 DEF Launch
  <2>3. DiskType' /\ LockType' /\ RequestType'
    BY <1>0, <1>2, <2>2 DEF Launch, DiskType, LockType, RequestType
  <2> QED  BY <1>0, <1>00, <1>2, <1>f, <1>q, <2>3 DEF Launch
<1>3. ASSUME NEW i \in DOMAIN runs, LogLaunch(i)  PROVE TypeOK' /\ Fit'
  <2>0. runs[i] \in Run  BY <1>00, ElementType
  <2>1. NewEntry("launch", runs[i].by, runs[i].pool, FALSE) \in Entry
    BY <2>0 DEF NewEntry, Entry, Run
  <2>e. PICK e \in Entry : log' = Append(log, e)  BY <1>3, <2>1 DEF LogLaunch
  <2>2. log' \in Seq(Entry)  BY <1>00, <2>e
  <2>3. DiskType' /\ LockType' /\ RequestType'
    BY <1>0, <1>3, <2>2 DEF LogLaunch, DiskType, LockType, RequestType
  <2> QED  BY <1>0, <1>3, <1>f, <1>q, <2>2, <2>3 DEF LogLaunch
<1>4. ASSUME NEW i \in DOMAIN runs, RunStep(i)  PROVE TypeOK' /\ Fit'
  <2>0. \A j \in DOMAIN runs : runs[j] \in Run  BY <1>00, ElementType
  <2>1. runs' \in [DOMAIN runs -> Run]  BY <1>4, <2>0 DEF RunStep, Run
  <2>2. runs' \in Seq(Run)  BY <1>00, <2>1, IsSequence
  <2>3. DiskType' /\ LockType' /\ RequestType'
    BY <1>0, <1>4, <2>2 DEF RunStep, DiskType, LockType, RequestType
  <2> QED  BY <1>0, <1>00, <1>4, <1>f, <1>q, <2>3 DEF RunStep
<1>5. ASSUME NEW line \in ForeignLines, ForeignEntry(line)  PROVE TypeOK' /\ Fit'
  <2>1. line \in [pool : Pools, by : Emails]  BY InputAssumption
  <2>2. [NewEntry("approve", line.by, line.pool, FALSE) EXCEPT !.mac = "foreign"] \in Entry
    BY <2>1 DEF NewEntry, Entry
  <2>3. log' \in Seq(Entry)  BY <1>00, <1>5, <2>2 DEF ForeignEntry
  <2>4. DiskType' /\ LockType' /\ RequestType'
    BY <1>0, <1>5, <2>3 DEF ForeignEntry, DiskType, LockType, RequestType
  <2> QED  BY <1>0, <1>5, <1>f, <1>q, <2>3, <2>4 DEF ForeignEntry
<1>6. CASE Crash
  <2>0. \A i \in DOMAIN log : log[i] \in Entry  BY <1>00, ElementType
  <2>1. log' \in [DOMAIN log -> Entry]  BY <1>6, <2>0 DEF Crash, UnderNewKey, Entry
  <2>2. log' \in Seq(Entry)  BY <1>00, <2>1, IsSequence
  <2>3. cache' \in [Pools -> States \union {"torn"}]  BY <1>0, <1>6 DEF Crash, DiskType
  <2>4. DiskType' /\ LockType'  BY <1>0, <1>6, <2>2, <2>3 DEF Crash, DiskType, LockType
  <2>5. NoLocal \in Local /\ NoLocal.view = 0  BY DEF NoLocal, Local, NoState
  <2>6. dropped' \in [Requests -> BOOLEAN]  BY <1>6, Zenon DEF Crash
  <2>7. RequestType'  BY <1>0, <1>6, <2>5, <2>6 DEF Crash, RequestType, PCs
  <2>8. Len(log') \in Nat  BY <2>2
  <2>9. Fit'  BY <1>6, <2>5, <2>8 DEF Crash, Fit
  <2>10. (crashes \in 0 .. MaxCrashes)'  BY <1>0, <1>6, LimitAssumption DEF Crash
  <2> QED  BY <1>q, <2>4, <2>7, <2>9, <2>10
<1> QED
  BY <1>1, <1>2, <1>3, <1>4, <1>5, <1>6 DEF Around, RunsGoOn

\* Every step keeps the types, appends to the log and goes on with the runs.
LEMMA TypeNext ==
  TypeOK /\ Fit /\ [Next]_vars => TypeOK' /\ Fit' /\ LogGrows /\ RunsGrow
<1> SUFFICES ASSUME TypeOK, Fit, [Next]_vars PROVE TypeOK' /\ Fit' /\ LogGrows /\ RunsGrow
  OBVIOUS
<1>1. ASSUME NEW h \in Requests, Handle(h)  PROVE TypeOK' /\ Fit' /\ LogGrows /\ RunsGrow
  BY <1>1, TypeHandle, HandleFit, HandleGrows DEF RunsGrow
<1>2. CASE Around  BY <1>2, AroundGrows, AroundType
<1>3. CASE UNCHANGED vars
  <2>1. UNCHANGED <<log, cache, revocations, record, runs, lockMap, myLock, pc, loc, dropped,
                    answer, crashes>>
    BY <1>3 DEF vars
  <2>2. TypeOK'  BY <2>1 DEF TypeOK
  <2>3. Fit'  BY <2>1 DEF Fit
  <2>4. LogGrows /\ RunsGrow  BY <2>1, SameGrows DEF RunsGrow, TypeOK
  <2> QED  BY <2>2, <2>3, <2>4
<1> QED  BY <1>1, <1>2, <1>3 DEF Next, Around

\* Initially nothing has been read and nobody writes.
LEMMA FitInit == Init => Fit
<1> SUFFICES ASSUME Init PROVE Fit
  OBVIOUS
<1>1. log \in Seq(Entry)  BY TypeInit DEF TypeOK
<1>2. Len(log) \in Nat /\ NoLocal.view = 0  BY <1>1 DEF NoLocal
<1>3. \A h \in Requests : loc[h] = NoLocal /\ pc[h] # "write"  BY DEF Init, InitWith
<1> QED  BY <1>2, <1>3 DEF Fit

\* Every reachable state is well typed, for any pools, people, runs, requests,
\* faults, disconnects and crashes.
THEOREM TypeCorrect == Spec => []TypeOK
<1>1. Init => TypeOK /\ Fit  BY TypeInit, FitInit
<1>2. TypeOK /\ Fit /\ [Next]_vars => (TypeOK /\ Fit)'  BY TypeNext
<1> QED  BY <1>1, <1>2, PTL DEF Spec

-----------------------------------------------------------------------------
(* The dual sign-off of a production seal.                                 *)

\* Two persons other than one who launched it have approved the pool.
Dual(p) == \E l \in LaunchersOf(p) : Cardinality(Approvers(p) \ {l}) >= 2

\* What a production seal has established at each of its await points: that its
\* snapshot holds no foreign line, who launched the pool, and then the sign-off.
\* The seal's own entry, which later snapshots count as an approval, is only
\* written for a pool that was signed.
Signed ==
  /\ \A h \in Requests : IsProduction(h) =>
       /\ pc[h] \in {"resolve", "decide"} =>
            \A i \in 1 .. loc[h].view : log[i].mac # "foreign"
       /\ pc[h] = "decide" /\ loc[h].launcher # NoOne =>
            Lower[loc[h].launcher] \in LaunchersOf(PoolOf(h))
       /\ pc[h] \in {"lock", "wait", "read", "write", "evict", "append"} => Dual(PoolOf(h))
  /\ \A h \in Requests : pc[h] = "write" /\ loc[h].want = "sealed" => Transition(h) = "seal"
  /\ \A i \in DOMAIN log : log[i].evidence => Dual(log[i].pool)

\* The signers of a log are finitely many.
LEMMA SignersFinite ==
  ASSUME NEW lg \in Seq(Entry), NEW S \in SUBSET DOMAIN lg
  PROVE  IsFiniteSet({Lower[lg[i].actor] : i \in S})
<1> DEFINE T == {Lower[lg[i].actor] : i \in S}
           f == [i \in S |-> Lower[lg[i].actor]]
<1>1. DOMAIN lg = 1 .. Len(lg) /\ Len(lg) \in Nat  OBVIOUS
<1>2. IsFiniteSet(S)
  <2>1. IsFiniteSet(1 .. Len(lg))  BY <1>1, FS_Interval
  <2> QED  BY <1>1, <2>1, FS_Subset
<1>3. f \in Surjection(S, T)  BY DEF Surjection
<1> HIDE DEF T, f
<1>4. IsFiniteSet(T)  BY <1>2, <1>3, FS_Surjection
<1> QED  BY <1>4 DEF T

\* Two approvers are still two when there are more.
LEMMA MoreApprovers ==
  ASSUME NEW S, NEW T, NEW l, S \subseteq T, IsFiniteSet(T), Cardinality(S \ {l}) >= 2
  PROVE  Cardinality(T \ {l}) >= 2
<1>1. IsFiniteSet(T \ {l})  BY FS_Subset
<1>2. S \ {l} \in SUBSET (T \ {l})  OBVIOUS
<1>3. IsFiniteSet(S \ {l}) /\ Cardinality(S \ {l}) <= Cardinality(T \ {l})
  BY <1>1, <1>2, FS_Subset
<1>4. Cardinality(S \ {l}) \in Nat /\ Cardinality(T \ {l}) \in Nat
  BY <1>1, <1>3, FS_CardinalityType
<1> QED  BY <1>3, <1>4

\* A sign-off is never lost.
LEMMA DualKept ==
  ASSUME TypeOK, TypeOK', LogGrows, RunsGrow, NEW p, Dual(p)
  PROVE  Dual(p)'
<1>1. PICK l \in LaunchersOf(p) : Cardinality(Approvers(p) \ {l}) >= 2  BY DEF Dual
<1>2. LaunchersOf(p) \subseteq LaunchersOf(p)'  BY DEF RunsGrow, LaunchersOf
<1>3. Approvers(p) \subseteq Approvers(p)'  BY DEF LogGrows, Approvers
<1>4. IsFiniteSet(Approvers(p)')
  BY SignersFinite DEF Approvers, TypeOK
<1>5. Cardinality(Approvers(p)' \ {l}) >= 2  BY <1>1, <1>3, <1>4, MoreApprovers
<1> QED  BY <1>1, <1>2, <1>5 DEF Dual

\* A seal that is allowed, on a snapshot without foreign lines and with the
\* launcher resolved, was signed by two others.
LEMMA AllowedIsDual ==
  ASSUME TypeOK, Fit, Signed, NEW h \in Requests, IsProduction(h), pc[h] = "decide", NEW rv,
         SealAllowed(Entries(h), PoolOf(h), loc[h].launcher, rv)
  PROVE  Dual(PoolOf(h))
<1> DEFINE p == PoolOf(h)
           l == Lower[loc[h].launcher]
<1>1. l \in LaunchersOf(p) /\ Cardinality(Signers(Entries(h), p) \ {l}) >= 2
  BY DEF SealAllowed, TwoDistinctSignoffs, Signed
<1>2. CASE \E i \in DOMAIN log : log[i].evidence /\ log[i].pool = p
  BY <1>2 DEF Signed
<1>3. CASE ~\E i \in DOMAIN log : log[i].evidence /\ log[i].pool = p
  <2>1. \A i \in DOMAIN Entries(h) : i \in DOMAIN log /\ Entries(h)[i] = log[i]
                                     /\ log[i].mac # "foreign"
    BY EntriesType DEF Fit, Signed
  <2>2. Signers(Entries(h), p) \subseteq Approvers(p)
    BY <1>3, <2>1 DEF Signers, Approvers
  <2>3. IsFiniteSet(Approvers(p))  BY SignersFinite DEF Approvers, TypeOK
  <2> HIDE DEF p, l
  <2>4. Cardinality(Approvers(p) \ {l}) >= 2  BY <1>1, <2>2, <2>3, MoreApprovers
  <2> QED  BY <1>1, <2>4 DEF Dual, p
<1> QED  BY <1>2, <1>3

\* Other requests keep what they have established when the log only grows.
LEMMA SignedKept ==
  ASSUME TypeOK, Fit, TypeOK', LogGrows, RunsGrow, Signed,
         NEW h \in Requests, pc'[h] = pc[h], loc'[h] = loc[h]
  PROVE  /\ IsProduction(h) =>
              /\ pc'[h] \in {"resolve", "decide"} =>
                   \A i \in 1 .. loc'[h].view : log'[i].mac # "foreign"
              /\ pc'[h] = "decide" /\ loc'[h].launcher # NoOne =>
                   Lower[loc'[h].launcher] \in LaunchersOf(PoolOf(h))'
              /\ pc'[h] \in {"lock", "wait", "read", "write", "evict", "append"}
                   => Dual(PoolOf(h))'
         /\ pc'[h] = "write" /\ loc'[h].want = "sealed" => Transition(h) = "seal"
<1>1. \A i \in 1 .. loc[h].view : i \in DOMAIN log
  <2>1. loc[h].view \in Nat /\ loc[h].view <= Len(log) /\ DOMAIN log = 1 .. Len(log)
    BY DEF TypeOK, Fit, Local
  <2> QED  BY <2>1
<1>2. LaunchersOf(PoolOf(h)) \subseteq LaunchersOf(PoolOf(h))'  BY DEF RunsGrow, LaunchersOf
<1>3. Dual(PoolOf(h)) => Dual(PoolOf(h))'  BY DualKept
<1> QED  BY <1>1, <1>2, <1>3 DEF Signed, LogGrows

\* A step of a request touches nobody else's await point or locals.
LEMMA OthersWait ==
  ASSUME TypeOK, NEW h \in Requests, Handle(h), NEW g \in Requests \ {h}
  PROVE  pc'[g] = pc[g] /\ loc'[g] = loc[g] /\ dropped'[g] = dropped[g] /\ answer'[g] = answer[g]
  BY DEF TypeOK, Handle, Begin, Resolve, Decide, Refuse, CloneLock, Acquire, ReadCache, WriteCache,
     Evict, AppendEntry, AppendFails, ReadRevocations, WriteRevocations, WriteRecord,
     EndTransition, Goto, Respond

\* A new entry that is not a seal's evidence leaves the evidence as it was.
LEMMA EvidenceKept ==
  ASSUME TypeOK, TypeOK', LogGrows, RunsGrow, Signed,
         \/ DOMAIN log' = DOMAIN log
         \/ \E e \in Entry : log' = Append(log, e) /\ (e.evidence => Dual(e.pool))
  PROVE  (\A i \in DOMAIN log : log[i].evidence => Dual(log[i].pool))'
<1>1. SUFFICES ASSUME NEW i \in DOMAIN log', log'[i].evidence  PROVE Dual(log[i].pool)'
  OBVIOUS
<1>2. PICK q : q = log'[i].pool  OBVIOUS
<1>3. CASE i \in DOMAIN log  BY <1>1, <1>2, <1>3, DualKept DEF Signed, LogGrows
<1>4. CASE i \notin DOMAIN log
  <2>1. PICK e \in Entry : log' = Append(log, e) /\ (e.evidence => Dual(e.pool))  BY <1>4
  <2>2. log'[i] = e  BY <1>4, <2>1 DEF TypeOK
  <2>3. Dual(q)'  BY <1>1, <1>2, <2>1, <2>2, DualKept
  <2> QED  BY <1>2, <2>3 DEF Dual, LaunchersOf, Approvers
<1> QED  BY <1>3, <1>4

\* The step of a request keeps the signed state.
LEMMA SignedHandle ==
  ASSUME TypeOK, Fit, TypeOK', LogGrows, RunsGrow, Signed, NEW h \in Requests, Handle(h)
  PROVE  Signed'
<1>0. pc \in [Requests -> PCs] /\ loc \in [Requests -> Local] /\ loc[h] \in Local
  BY DEF TypeOK, PCs
<1>d. Dual(PoolOf(h)) => Dual(PoolOf(h))'  BY DualKept
<1>1. (\A i \in DOMAIN log : log[i].evidence => Dual(log[i].pool))'
  <2>1. CASE Refuse(h)
    <3>1. NewEntry("reject", Actor(h), PoolOf(h), FALSE) \in Entry
          /\ ~NewEntry("reject", Actor(h), PoolOf(h), FALSE).evidence
      BY Asked DEF NewEntry, Entry
    <3> QED  BY <2>1, <3>1, EvidenceKept DEF Refuse
  <2>2. CASE AppendEntry(h)
    <3>1. PICK a \in {"approve", "reject", "revoke"} :
            log' = Append(log, NewEntry(a, Actor(h), PoolOf(h), IsProduction(h)))
      BY <2>2, Asked DEF AppendEntry, Transitions
    <3> DEFINE e == NewEntry(a, Actor(h), PoolOf(h), IsProduction(h))
    <3>2. e \in Entry /\ e.evidence = IsProduction(h) /\ e.pool = PoolOf(h)
      BY Asked DEF NewEntry, Entry, IsProduction
    <3>3. IsProduction(h) => Dual(PoolOf(h))  BY <2>2 DEF AppendEntry, Signed
    <3> QED  BY <3>1, <3>2, <3>3, EvidenceKept
  <2>3. CASE log' = log  BY <2>3, EvidenceKept
  <2> QED
    BY <2>1, <2>2, <2>3
    DEF Handle, Begin, Resolve, Decide, CloneLock, Acquire, ReadCache, WriteCache, Evict,
        AppendFails, ReadRevocations, WriteRevocations, WriteRecord
<1>2. pc'[h] = "write" /\ loc'[h].want = "sealed" => Transition(h) = "seal"
  <2>1. CASE ReadCache(h)
    <3>1. SUFFICES ASSUME pc'[h] = "write", loc'[h].want = "sealed"  PROVE Transition(h) = "seal"
      OBVIOUS
    <3>2. PICK e \in Edges : e[2] = Transition(h) /\ loc' = [loc EXCEPT ![h].want = e[3]]
      BY <1>0, <2>1, <3>1 DEF ReadCache, Applied, EndTransition, Goto, Respond
    <3>3. e[3] \in States  BY DEF Edges, States
    <3>4. loc'[h].want = e[3]  BY <1>0, <3>2, <3>3, LocalWant
    <3> QED  BY <3>1, <3>2, <3>4 DEF Edges
  <2>2. CASE ~ReadCache(h)
    <3>1. pc'[h] # "write"
      BY <1>0, <2>2
      DEF Handle, Begin, Resolve, Decide, Refuse, CloneLock, Acquire, WriteCache,
          Evict, AppendEntry, AppendFails, ReadRevocations, WriteRevocations, WriteRecord,
          EndTransition, Goto, Respond
    <3> QED  BY <3>1
  <2> QED  BY <2>1, <2>2
<1>3. ASSUME IsProduction(h)
      PROVE  pc'[h] \in {"lock", "wait", "read", "write", "evict", "append"} => Dual(PoolOf(h))'
  <2>1. CASE Decide(h)
    <3>1. SUFFICES ASSUME pc'[h] = "lock"  PROVE Dual(PoolOf(h))
      BY <1>0, <1>d, <2>1 DEF Decide, Goto
    <3>2. PICK rv : SealAllowed(Entries(h), PoolOf(h), loc[h].launcher, rv)
      BY <1>0, <2>1, <3>1 DEF Decide, Goto
    <3> QED  BY <1>3, <2>1, <3>2, AllowedIsDual DEF Decide
  <2>2. CASE ~Decide(h)
    <3>1. pc'[h] \in {"lock", "wait", "read", "write", "evict", "append"}
            => pc[h] \in {"lock", "wait", "read", "write", "evict", "append"}
      BY <1>0, <1>3, <2>2
      DEF Handle, Begin, Resolve, Refuse, CloneLock, Acquire, ReadCache, WriteCache,
          Evict, AppendEntry, AppendFails, ReadRevocations, WriteRevocations, WriteRecord,
          EndTransition, Goto, Respond
    <3> QED  BY <1>3, <1>d, <3>1 DEF Signed
  <2> QED  BY <2>1, <2>2
<1>4. ASSUME IsProduction(h), pc'[h] \in {"resolve", "decide"}
      PROVE  /\ \A i \in 1 .. loc'[h].view : log'[i].mac # "foreign"
             /\ pc'[h] = "decide" /\ loc'[h].launcher # NoOne =>
                  Lower[loc'[h].launcher] \in LaunchersOf(PoolOf(h))'
  <2>1. CASE Begin(h)
    <3>1. loc' = [loc EXCEPT ![h].view = Len(log)] /\ VerifyChain(log) /\ pc'[h] = "resolve"
      BY <1>0, <1>4, <2>1 DEF Begin, Goto, Respond
    <3>2. loc'[h].view = Len(log) /\ log' = log  BY <1>0, <2>1, <3>1, LocalView DEF TypeOK, Begin
    <3>3. \A i \in DOMAIN log : log[i].mac = "valid"  BY <3>1 DEF VerifyChain
    <3>4. DOMAIN log = 1 .. Len(log)  BY DEF TypeOK
    <3> QED  BY <3>1, <3>2, <3>3, <3>4
  <2>2. CASE Resolve(h)
    <3>1. /\ loc' = [loc EXCEPT ![h].launcher = ResolveLauncher(Entries(h), PoolOf(h))]
          /\ log' = log /\ runs' = runs
      BY <1>0, <1>4, <2>2 DEF Resolve, Goto, Respond
    <3>2. loc'[h].view = loc[h].view
          /\ loc'[h].launcher = ResolveLauncher(Entries(h), PoolOf(h))
      BY <1>0, <3>1, LocalLauncher
    <3>3. \A i \in 1 .. loc[h].view : log[i].mac # "foreign"
      BY <1>4, <2>2 DEF Signed, Resolve
    <3>4. ASSUME ResolveLauncher(Entries(h), PoolOf(h)) # NoOne
          PROVE  Lower[ResolveLauncher(Entries(h), PoolOf(h))] \in LaunchersOf(PoolOf(h))
      <4> DEFINE S == RunsOf(PoolOf(h))
      <4>1. S # {} /\ ResolveLauncher(Entries(h), PoolOf(h)) = runs[Newest(S)].by
        BY <3>4 DEF ResolveLauncher
      <4>2. \E i \in S : \A j \in S : j <= i
        <5>1. S \subseteq 1 .. Len(runs) /\ Len(runs) \in Nat  BY DEF RunsOf, TypeOK
        <5> QED  BY <5>1, <4>1, BoundedHasMax
      <4>3. Newest(S) \in S  BY <4>2, Zenon DEF Newest
      <4> QED  BY <4>1, <4>3 DEF RunsOf, LaunchersOf
    <3> QED  BY <3>1, <3>2, <3>3, <3>4 DEF LaunchersOf
  <2>3. CASE ~Begin(h) /\ ~Resolve(h)
    <3>1. FALSE
      BY <1>0, <1>4, <2>3
      DEF Handle, Decide, Refuse, CloneLock, Acquire, ReadCache, WriteCache,
          Evict, AppendEntry, AppendFails, ReadRevocations, WriteRevocations, WriteRecord,
          EndTransition, Goto, Respond
    <3> QED  BY <3>1
  <2> QED  BY <2>1, <2>2, <2>3
<1>5. \A g \in Requests \ {h} : pc'[g] = pc[g] /\ loc'[g] = loc[g]  BY OthersWait
<1>6. \A g \in Requests : IsProduction(g) =>
       /\ pc'[g] \in {"resolve", "decide"} =>
            \A i \in 1 .. loc'[g].view : log'[i].mac # "foreign"
       /\ pc'[g] = "decide" /\ loc'[g].launcher # NoOne =>
            Lower[loc'[g].launcher] \in LaunchersOf(PoolOf(g))'
       /\ pc'[g] \in {"lock", "wait", "read", "write", "evict", "append"} => Dual(PoolOf(g))'
  BY <1>3, <1>4, <1>5, SignedKept
<1>7. \A g \in Requests : pc'[g] = "write" /\ loc'[g].want = "sealed" => Transition(g) = "seal"
  BY <1>2, <1>5, SignedKept
<1> QED  BY <1>1, <1>6, <1>7 DEF Signed, PoolOf, Transition, IsProduction

\* ... and so does the environment.
LEMMA SignedAround ==
  ASSUME TypeOK, Fit, TypeOK', LogGrows, RunsGrow, Signed, Around
  PROVE  Signed'
<1>0. pc \in [Requests -> PCs] /\ log \in Seq(Entry) /\ runs \in Seq(Run)
  BY DEF TypeOK, PCs, Run
<1>1. (\A i \in DOMAIN log : log[i].evidence => Dual(log[i].pool))'
  <2>1. CASE DOMAIN log' = DOMAIN log  BY <2>1, EvidenceKept
  <2>2. CASE \E i \in DOMAIN runs : LogLaunch(i)
    <3>1. PICK i \in DOMAIN runs : LogLaunch(i)  BY <2>2
    <3> DEFINE e == NewEntry("launch", runs[i].by, runs[i].pool, FALSE)
    <3>2. runs[i] \in Run  BY <1>0, ElementType
    <3>3. e \in Entry /\ ~e.evidence  BY <3>2 DEF NewEntry, Entry, Run
    <3> QED  BY <3>1, <3>3, EvidenceKept DEF LogLaunch
  <2>3. CASE \E line \in ForeignLines : ForeignEntry(line)
    <3>1. PICK line \in ForeignLines : ForeignEntry(line)  BY <2>3
    <3> DEFINE e == [NewEntry("approve", line.by, line.pool, FALSE) EXCEPT !.mac = "foreign"]
    <3>2. line \in [pool : Pools, by : Emails]  BY InputAssumption
    <3>3. e \in Entry /\ ~e.evidence  BY <3>2 DEF NewEntry, Entry
    <3> QED  BY <3>1, <3>3, EvidenceKept DEF ForeignEntry
  <2> QED
    BY <2>1, <2>2, <2>3 DEF Around, RunsGoOn, Drop, Launch, RunStep, Crash
<1>2. \A g \in Requests : pc'[g] \in {"idle", "done"} \/ (pc'[g] = pc[g] /\ loc'[g] = loc[g])
  <2>1. CASE UNCHANGED <<pc, loc>>  BY <2>1
  <2>2. ASSUME NEW h \in Requests, Drop(h), ~UNCHANGED <<pc, loc>>
        PROVE  \A g \in Requests : pc'[g] = "done" \/ (pc'[g] = pc[g] /\ loc'[g] = loc[g])
    <3>1. Respond(h, "none")  BY <2>2 DEF Drop
    <3> QED  BY <1>0, <3>1 DEF Respond, TypeOK
  <2>3. CASE Crash  BY <2>3 DEF Crash
  <2> QED
    BY <2>1, <2>2, <2>3 DEF Around, RunsGoOn, Launch, LogLaunch, RunStep, ForeignEntry
<1>3. \A g \in Requests : IsProduction(g) =>
       /\ pc'[g] \in {"resolve", "decide"} =>
            \A i \in 1 .. loc'[g].view : log'[i].mac # "foreign"
       /\ pc'[g] = "decide" /\ loc'[g].launcher # NoOne =>
            Lower[loc'[g].launcher] \in LaunchersOf(PoolOf(g))'
       /\ pc'[g] \in {"lock", "wait", "read", "write", "evict", "append"} => Dual(PoolOf(g))'
  BY <1>2, SignedKept
<1>4. \A g \in Requests : pc'[g] = "write" /\ loc'[g].want = "sealed" => Transition(g) = "seal"
  BY <1>2, SignedKept
<1> QED  BY <1>1, <1>3, <1>4 DEF Signed, PoolOf, Transition, IsProduction

\* No step seals a production pool that was not signed.
LEMMA DualNext ==
  TypeOK /\ Fit /\ Signed /\ DualSignoff /\ [Next]_vars => Signed' /\ DualSignoff'
<1> SUFFICES ASSUME TypeOK, Fit, Signed, DualSignoff, [Next]_vars PROVE Signed' /\ DualSignoff'
  OBVIOUS
<1>0. TypeOK' /\ LogGrows /\ RunsGrow  BY TypeNext
<1>1. Signed'
  <2>1. ASSUME NEW h \in Requests, Handle(h)  PROVE Signed'  BY <1>0, <2>1, SignedHandle
  <2>2. CASE Around  BY <1>0, <2>2, SignedAround
  <2>3. CASE UNCHANGED vars
    <3>1. UNCHANGED <<log, runs, pc, loc>>  BY <2>3 DEF vars
    <3>2. \A p : Dual(p)' = Dual(p)  BY <3>1 DEF Dual, LaunchersOf, Approvers
    <3>3. \A p : LaunchersOf(p)' = LaunchersOf(p)  BY <3>1 DEF LaunchersOf
    <3>4. (\A i \in DOMAIN log : log[i].evidence => Dual(log[i].pool))'
      BY <1>0, <3>1, EvidenceKept
    <3> QED  BY <3>1, <3>2, <3>3, <3>4 DEF Signed, PoolOf, Transition, IsProduction
  <2> QED  BY <2>1, <2>2, <2>3 DEF Next, Around
<1>2. SUFFICES ASSUME NEW p \in Pools, Mode[p] = "production", cache'[p] = "sealed"
               PROVE  Dual(p)
  BY <1>0, <1>1, DualKept DEF DualSignoff, Dual
<1>3. CASE cache[p] = "sealed"  BY <1>2, <1>3 DEF DualSignoff, Dual
<1>4. CASE cache[p] # "sealed"
  <2>1. PICK h \in Requests : WriteCache(h)
    BY <1>2, <1>4
    DEF Next, Handle, Begin, Resolve, Decide, Refuse, CloneLock, Acquire, ReadCache, Evict,
        AppendEntry, AppendFails, ReadRevocations, WriteRevocations, WriteRecord, Drop, Launch,
        RunsGoOn, LogLaunch, RunStep, ForeignEntry, Crash, vars
  <2>2. PoolOf(h) = p /\ loc[h].want = "sealed" /\ pc[h] = "write"
    BY <1>2, <1>4, <2>1, Asked DEF WriteCache, TypeOK
  <2>3. IsProduction(h)  BY <1>2, <2>2 DEF Signed, IsProduction
  <2> QED  BY <2>2, <2>3 DEF Signed
<1> QED  BY <1>3, <1>4

\* A production pool is sealed only after two persons other than its launcher
\* approved it, in whatever order launch, approvals, seals, foreign lines,
\* crashes and disconnects come (production_seal, derive_signoff).
THEOREM SealsAreSigned == Spec => []DualSignoff
<1>1. Init => TypeOK /\ Fit  BY TypeInit, FitInit
<1>2. Init => Signed /\ DualSignoff
  <2> SUFFICES ASSUME Init PROVE Signed /\ DualSignoff
    OBVIOUS
  <2>1. DualSignoff  BY DEF Init, InitWith, DualSignoff
  <2>2. \A h \in Requests : pc[h] \in {"idle", "done"}  BY DEF Init, InitWith
  <2>3. \A i \in DOMAIN log : ~log[i].evidence  BY DEF Init, InitWith, NewEntry
  <2> QED  BY <2>1, <2>2, <2>3 DEF Signed
<1>3. TypeOK /\ Fit /\ Signed /\ DualSignoff /\ [Next]_vars
        => (TypeOK /\ Fit /\ Signed /\ DualSignoff)'
  BY TypeNext, DualNext
<1> QED  BY <1>1, <1>2, <1>3, PTL DEF Spec

-----------------------------------------------------------------------------
(* The record of a pool, as long as no client disconnects: a disconnect    *)
(* releases the lock of a write that goes on.                              *)

Queued == {"wait", "read", "write"}

\* Whoever waits for or has the lock of a pool has a clone of the one in the
\* map, which is therefore not evicted; only one request is past it; and what
\* that one is about to write follows from what the record says.
Locked ==
  /\ \A h \in Requests : pc[h] \in Queued => myLock[h] # NoLock /\ myLock[h] = lockMap[PoolOf(h)]
  /\ CacheExclusive
  /\ \A h \in Requests : pc[h] = "write" =>
       \E e \in Edges : e[1] = cache[PoolOf(h)] /\ e[2] = Transition(h) /\ e[3] = loc[h].want

\* The state of a record changes along an edge of the lifecycle, or is torn.
Legal(p) == \/ cache'[p] = cache[p] \/ cache'[p] = "torn"
            \/ \E e \in Edges : e[1] = cache[p] /\ e[3] = cache'[p]

\* The steps of a request keep the lock discipline.
LEMMA LockedHandle ==
  ASSUME TypeOK, Fit, Locked, NEW h \in Requests, Handle(h)
  PROVE  Locked'
<1>0. /\ pc \in [Requests -> PCs] /\ loc \in [Requests -> Local] /\ loc[h] \in Local
      /\ lockMap \in [Pools -> Requests \union {NoLock}]
      /\ myLock \in [Requests -> Requests \union {NoLock}]
      /\ cache \in [Pools -> States \union {"torn"}]
  BY DEF TypeOK, PCs
<1>1. \A g \in Requests \ {h} : pc'[g] = pc[g] /\ loc'[g] = loc[g]  BY OthersWait
<1>2. ASSUME NEW g \in Requests, pc'[g] \in Queued
      PROVE  myLock'[g] # NoLock /\ myLock'[g] = lockMap'[PoolOf(g)]
  <2>1. CASE CloneLock(h)
    <3>1. PoolOf(h) \in Pools /\ PoolOf(g) \in Pools  BY Asked
    <3>2. CASE g = h
      BY <1>0, <2>1, <3>1, <3>2, LockAssumption DEF CloneLock
    <3>3. CASE g # h
      <4>1. myLock[g] # NoLock /\ myLock[g] = lockMap[PoolOf(g)]  BY <1>1, <1>2, <3>3 DEF Locked
      <4> QED  BY <1>0, <2>1, <3>1, <3>3, <4>1 DEF CloneLock
    <3> QED  BY <3>2, <3>3
  <2>2. CASE Evict(h)
    <3>1. g # h  BY <1>0, <1>2, <2>2 DEF Evict, Goto, Respond, Queued
    <3>2. myLock[g] # NoLock /\ myLock[g] = lockMap[PoolOf(g)]  BY <1>1, <1>2, <3>1 DEF Locked
    <3> QED  BY <1>0, <2>2, <3>2, Asked DEF Evict, Idle
  <2>3. CASE ReadCache(h) \/ WriteCache(h)
    <3>1. CASE UNCHANGED locks /\ pc'[h] = "write"
      BY <1>0, <1>1, <1>2, <2>3, <3>1 DEF Locked, ReadCache, WriteCache, Queued
    <3>2. CASE \E o : EndTransition(h, o)
      <4>1. g # h  BY <1>0, <1>2, <3>2 DEF EndTransition, Goto, Respond, Queued
      <4>2. myLock'[g] = myLock[g] /\ lockMap' = lockMap
        BY <1>0, <2>3, <3>2, <4>1 DEF EndTransition, ReadCache, WriteCache
      <4> QED  BY <1>1, <1>2, <4>1, <4>2 DEF Locked
    <3> QED  BY <1>0, <2>3, <3>1, <3>2 DEF ReadCache, WriteCache, Goto
  <2>4. CASE ~(CloneLock(h) \/ Evict(h) \/ ReadCache(h) \/ WriteCache(h))
    <3>1. UNCHANGED locks /\ (pc'[h] \in Queued => pc[h] \in Queued)
      BY <1>0, <2>4
      DEF Handle, Begin, Resolve, Decide, Refuse, Acquire, AppendEntry, AppendFails,
          ReadRevocations, WriteRevocations, WriteRecord, Goto, Respond, Queued
    <3> QED  BY <1>1, <1>2, <3>1 DEF Locked
  <2> QED  BY <2>1, <2>2, <2>3, <2>4
<1>3. CacheExclusive'
  <2>1. CASE Acquire(h)
    <3>1. \A g \in Requests : pc[g] \in Running /\ PoolOf(g) = PoolOf(h) => FALSE
      BY <2>1 DEF Acquire, LockFree, Holds, Locked, Running, Queued
    <3> QED  BY <1>1, <3>1 DEF Locked, CacheExclusive, PoolOf
  <2>2. CASE ~Acquire(h)
    <3>1. pc'[h] \in Running => pc[h] \in Running
      BY <1>0, <2>2
      DEF Handle, Begin, Resolve, Decide, Refuse, CloneLock, ReadCache, WriteCache,
          Evict, AppendEntry, AppendFails, ReadRevocations, WriteRevocations, WriteRecord,
          EndTransition, Goto, Respond, Running
    <3> QED  BY <1>1, <3>1 DEF Locked, CacheExclusive, PoolOf
  <2> QED  BY <2>1, <2>2
<1>4. ASSUME NEW g \in Requests, pc'[g] = "write"
      PROVE  \E e \in Edges : e[1] = cache'[PoolOf(g)] /\ e[2] = Transition(g) /\ e[3] = loc'[g].want
  <2>1. CASE g = h
    <3>1. ReadCache(h)
      BY <1>0, <1>4, <2>1
      DEF Handle, Begin, Resolve, Decide, Refuse, CloneLock, Acquire, WriteCache,
          Evict, AppendEntry, AppendFails, ReadRevocations, WriteRevocations, WriteRecord,
          EndTransition, Goto, Respond
    <3>2. PICK e \in Edges : /\ e[1] = cache[PoolOf(h)] /\ e[2] = Transition(h)
                             /\ loc' = [loc EXCEPT ![h].want = e[3]]
      BY <1>0, <1>4, <2>1, <3>1 DEF ReadCache, Applied, EndTransition, Goto, Respond
    <3>3. e[3] \in States  BY DEF Edges, States
    <3>4. loc'[h].want = e[3]  BY <1>0, <3>2, <3>3, LocalWant
    <3> QED  BY <2>1, <3>1, <3>2, <3>4 DEF ReadCache
  <2>2. CASE g # h
    <3>1. pc[g] = "write" /\ loc'[g] = loc[g]  BY <1>1, <1>4, <2>2
    <3>2. cache'[PoolOf(g)] = cache[PoolOf(g)]
      <4>1. CASE WriteCache(h)
        <5>1. PoolOf(g) # PoolOf(h)
          BY <2>2, <3>1, <4>1 DEF WriteCache, Locked, CacheExclusive, Running
        <5> QED  BY <1>0, <4>1, <5>1, Asked DEF WriteCache
      <4>2. CASE ~WriteCache(h)
        BY <4>2
        DEF Handle, Begin, Resolve, Decide, Refuse, CloneLock, Acquire, ReadCache,
            Evict, AppendEntry, AppendFails, ReadRevocations, WriteRevocations, WriteRecord
      <4> QED  BY <4>1, <4>2
    <3> QED  BY <3>1, <3>2 DEF Locked
  <2> QED  BY <2>1, <2>2
<1> QED  BY <1>2, <1>3, <1>4 DEF Locked, PoolOf, Transition

\* The environment keeps it too, without disconnects.
LEMMA LockedAround ==
  ASSUME TypeOK, Disconnects = FALSE, Locked, Around
  PROVE  Locked'
<1>1. CASE UNCHANGED <<pc, loc, lockMap, myLock, cache>>
  BY <1>1 DEF Locked, CacheExclusive, PoolOf, Transition
<1>2. CASE Crash
  <2>1. \A h \in Requests : pc'[h] \in {"idle", "done"}  BY <1>2 DEF Crash
  <2> QED  BY <2>1 DEF Locked, CacheExclusive, Running, Queued
<1> QED
  BY <1>1, <1>2 DEF Around, Drop, RunsGoOn, Launch, LogLaunch, RunStep, ForeignEntry

\* Under the lock discipline the record follows the lifecycle.
LEMMA LegalNext ==
  ASSUME TypeOK, Locked, [Next]_vars, NEW p \in Pools
  PROVE  Legal(p)
<1>1. ASSUME NEW h \in Requests, WriteCache(h)  PROVE Legal(p)
  <2>1. cache' = [cache EXCEPT ![PoolOf(h)] = loc[h].want] /\ pc[h] = "write"
    BY <1>1 DEF WriteCache
  <2>2. \E e \in Edges : e[1] = cache[PoolOf(h)] /\ e[3] = loc[h].want  BY <2>1 DEF Locked
  <2> QED  BY <2>1, <2>2 DEF Legal, TypeOK
<1>2. CASE Crash  BY <1>2 DEF Crash, Legal
<1>3. CASE UNCHANGED cache  BY <1>3 DEF Legal
<1> QED
  BY <1>1, <1>2, <1>3
  DEF Next, Handle, Begin, Resolve, Decide, Refuse, CloneLock, Acquire, ReadCache, Evict,
      AppendEntry, AppendFails, ReadRevocations, WriteRevocations, WriteRecord, Drop, Launch,
      RunsGoOn, LogLaunch, RunStep, ForeignEntry, vars

\* A record that no edge leaves.
Inert(p) == cache[p] \in {"revoked", "torn"}

\* A pool is entered into the revocation set, directly or with the copy of the
\* set a request has read, only when its record is beyond a seal.
Revoking ==
  /\ \A p \in revocations : Inert(p)
  /\ \A h \in Requests : \A p \in loc[h].revoked : Inert(p)
  /\ \A h \in Requests :
       \/ pc[h] \in {"revRead", "revWrite"}
       \/ Transition(h) = "revoke" /\ pc[h] = "append"
       \/ Transition(h) = "revoke" /\ pc[h] = "evict" /\ loc[h].want # NoState
       => Inert(PoolOf(h))

\* No step leaves an inert record.
LEMMA InertKept ==
  ASSUME TypeOK, NEW p \in Pools, Inert(p), Legal(p)
  PROVE  Inert(p)'
  BY DEF Inert, Legal, Edges

\* What becomes of the pools a request has read as revoked.
LEMMA RevokedStep ==
  ASSUME TypeOK, NEW h \in Requests, Handle(h), NEW p \in loc'[h].revoked
  PROVE  p \in loc[h].revoked \union revocations
<1>0. loc \in [Requests -> Local] /\ loc[h] \in Local /\ NoLocal.revoked = {} /\ Len(log) \in Nat
  BY DEF TypeOK, NoLocal
<1>1. CASE loc'[h] \in {loc[h], NoLocal}  BY <1>0, <1>1
<1>2. CASE Begin(h)
  <2>1. CASE loc' = [loc EXCEPT ![h].view = Len(log)]  BY <1>0, <2>1, LocalView
  <2> QED  BY <1>0, <1>1, <1>2, <2>1 DEF Begin, Respond
<1>3. CASE Resolve(h)
  <2>1. CASE \E l : loc' = [loc EXCEPT ![h].launcher = l]  BY <1>0, <2>1, LocalLauncher
  <2> QED  BY <1>0, <1>1, <1>3, <2>1 DEF Resolve, Respond
<1>4. CASE ReadCache(h) \/ WriteCache(h)
  <2>1. CASE \E s \in States \union {NoState} : loc' = [loc EXCEPT ![h].want = s]
    BY <1>0, <2>1, LocalWant
  <2>2. loc[h].want \in States \union {NoState}  BY <1>0 DEF Local
  <2> QED
    BY <1>0, <1>1, <1>4, <2>1, <2>2 DEF ReadCache, Applied, WriteCache, EndTransition, Respond, Edges, States
<1>5. CASE ReadRevocations(h)  BY <1>0, <1>5, LocalRevoked DEF ReadRevocations
<1> QED
  BY <1>0, <1>1, <1>2, <1>3, <1>4, <1>5
  DEF Handle, Decide, Refuse, CloneLock, Acquire, Evict, AppendEntry, AppendFails,
      WriteRevocations, WriteRecord, Respond

\* The steps of a request revoke only inert pools.
LEMMA RevokingHandle ==
  ASSUME TypeOK, TypeOK', Locked, Revoking, NEW h \in Requests, Handle(h), \A p \in Pools : Legal(p)
  PROVE  Revoking'
<1>0. /\ pc \in [Requests -> PCs] /\ loc \in [Requests -> Local] /\ loc[h] \in Local
      /\ revocations \subseteq Pools /\ \A g \in Requests : loc[g].revoked \subseteq Pools
  BY DEF TypeOK, PCs, Local
<1>1. \A g \in Requests \ {h} : pc'[g] = pc[g] /\ loc'[g] = loc[g]  BY OthersWait
<1>2. \A p \in revocations \union loc[h].revoked : Inert(p)'  BY <1>0, InertKept DEF Revoking
<1>3. ASSUME NEW p \in revocations'  PROVE Inert(p)'
  <2>1. CASE WriteRevocations(h)
    <3>1. Inert(PoolOf(h))  BY <2>1 DEF WriteRevocations, Revoking
    <3>2. Inert(PoolOf(h))'  BY <3>1, Asked, InertKept
    <3> QED  BY <1>2, <1>3, <2>1, <3>2 DEF WriteRevocations, RevokedSet
  <2>2. CASE ~WriteRevocations(h)
    <3>1. revocations' = revocations
      BY <2>2 DEF Handle, Begin, Resolve, Decide, Refuse, CloneLock, Acquire, ReadCache, WriteCache,
         Evict, AppendEntry, AppendFails, ReadRevocations, WriteRecord
    <3> QED  BY <1>2, <1>3, <3>1
  <2> QED  BY <2>1, <2>2
<1>4. ASSUME NEW g \in Requests, NEW p \in loc'[g].revoked  PROVE Inert(p)'
  <2>1. CASE g = h  BY <1>2, <1>4, <2>1, RevokedStep
  <2>2. CASE g # h  BY <1>0, <1>1, <1>4, <2>2, InertKept DEF Revoking
  <2> QED  BY <2>1, <2>2
<1>5. ASSUME NEW g \in Requests,
             \/ pc'[g] \in {"revRead", "revWrite"}
             \/ Transition(g) = "revoke" /\ pc'[g] = "append"
             \/ Transition(g) = "revoke" /\ pc'[g] = "evict" /\ loc'[g].want # NoState
      PROVE  Inert(PoolOf(g))'
  <2>1. CASE g # h  BY <1>1, <1>5, <2>1, Asked, InertKept DEF Revoking
  <2>2. CASE g = h /\ WriteCache(h)
    <3>1. cache' = [cache EXCEPT ![PoolOf(h)] = loc[h].want] /\ pc[h] = "write"
      BY <2>2 DEF WriteCache
    <3>0. Transition(h) = "revoke"
      BY <1>0, <1>5, <2>2 DEF WriteCache, EndTransition, Goto, Respond
    <3>2. loc[h].want = "revoked"  BY <3>0, <3>1 DEF Locked, Edges
    <3> QED  BY <2>2, <3>1, <3>2, Asked DEF Inert, TypeOK, PoolOf
  <2>3. CASE g = h /\ ReadCache(h)
    <3>0. Transition(h) = "revoke"
      BY <1>0, <1>5, <2>3 DEF ReadCache, EndTransition, Goto, Respond
    <3>1. PICK o : EndTransition(h, o) /\ o = NoState
      BY <1>0, <1>5, <2>3, <3>0 DEF ReadCache, Goto
    <3>2. loc' = [loc EXCEPT ![h].want = NoState]
      BY <1>0, <1>5, <2>3, <3>1 DEF EndTransition, Respond
    <3>3. loc'[h].want = NoState  BY <1>0, <3>2, LocalWant
    <3> QED  BY <1>0, <1>5, <2>3, <3>1, <3>3 DEF EndTransition, Goto, Respond
  <2>4. CASE g = h /\ ~WriteCache(h) /\ ~ReadCache(h)
    <3>1. \/ pc[h] = "revRead"
          \/ Transition(h) = "revoke" /\ pc[h] = "append"
          \/ Transition(h) = "revoke" /\ pc[h] = "evict" /\ loc[h].want # NoState
      BY <1>0, <1>5, <2>4
      DEF Handle, Begin, Resolve, Decide, Refuse, CloneLock, Acquire,
          Evict, AppendEntry, AppendFails, ReadRevocations, WriteRevocations, WriteRecord,
          Goto, Respond
    <3> QED  BY <1>5, <2>4, <3>1, Asked, InertKept DEF Revoking
  <2> QED  BY <2>1, <2>2, <2>3, <2>4
<1> QED  BY <1>3, <1>4, <1>5 DEF Revoking, PoolOf, Transition

\* The environment revokes nothing.
LEMMA RevokingAround ==
  ASSUME TypeOK, TypeOK', Revoking, Around, \A p \in Pools : Legal(p)
  PROVE  Revoking'
<1>0. /\ revocations \subseteq Pools /\ \A g \in Requests : loc[g].revoked \subseteq Pools
      /\ NoLocal.revoked = {}
  BY DEF TypeOK, Local, NoLocal
<1>1. revocations' = revocations
  BY DEF Around, RunsGoOn, Drop, Launch, LogLaunch, RunStep, ForeignEntry, Crash
<1>2. \A g \in Requests : \/ pc'[g] \in {"idle", "done"} /\ loc'[g] \in {loc[g], NoLocal}
                          \/ pc'[g] = pc[g] /\ loc'[g] = loc[g]
  <2>1. CASE UNCHANGED <<pc, loc>>  BY <2>1
  <2>2. ASSUME NEW h \in Requests, Drop(h), ~UNCHANGED <<pc, loc>>
        PROVE  \A g \in Requests : \/ pc'[g] = "done" /\ loc'[g] = NoLocal
                                   \/ pc'[g] = pc[g] /\ loc'[g] = loc[g]
    <3>1. Respond(h, "none")  BY <2>2 DEF Drop
    <3> QED  BY <3>1 DEF Respond, TypeOK
  <2>3. CASE Crash  BY <2>3 DEF Crash
  <2> QED
    BY <2>1, <2>2, <2>3 DEF Around, RunsGoOn, Launch, LogLaunch, RunStep, ForeignEntry
<1>3. \A p \in Pools : Inert(p) => Inert(p)'  BY InertKept
<1> QED  BY <1>0, <1>1, <1>2, <1>3, Asked DEF Revoking, PoolOf, Transition

\* What the requests leave of each other's records, without disconnects.
Guarded == TypeOK /\ Fit /\ Locked /\ Revoking

\* It holds initially.
LEMMA GuardedInit == Init => Guarded
<1> SUFFICES ASSUME Init PROVE Guarded
  OBVIOUS
<1>1. TypeOK /\ Fit  BY TypeInit, FitInit
<1>2. /\ \A h \in Requests : pc[h] \in {"idle", "done"} /\ loc[h] = NoLocal
      /\ revocations = {} /\ NoLocal.revoked = {}
  BY DEF Init, InitWith, NoLocal
<1>3. Locked  BY <1>2 DEF Locked, CacheExclusive, Running, Queued
<1>4. Revoking  BY <1>2 DEF Revoking
<1> QED  BY <1>1, <1>3, <1>4 DEF Guarded

\* Every step keeps it.
LEMMA GuardedNext ==
  ASSUME Disconnects = FALSE, Guarded, [Next]_vars
  PROVE  Guarded' /\ \A p \in Pools : Legal(p)
<1>0. TypeOK' /\ Fit' /\ \A p \in Pools : Legal(p)  BY TypeNext, LegalNext DEF Guarded
<1>1. ASSUME NEW h \in Requests, Handle(h)  PROVE Locked' /\ Revoking'
  BY <1>0, <1>1, LockedHandle, RevokingHandle DEF Guarded
<1>2. CASE Around  BY <1>0, <1>2, LockedAround, RevokingAround DEF Guarded
<1>3. CASE UNCHANGED vars
  <2>1. UNCHANGED <<pc, loc, lockMap, myLock, cache, revocations>>  BY <1>3 DEF vars
  <2>2. Locked'  BY <2>1 DEF Guarded, Locked, CacheExclusive, PoolOf, Transition
  <2>3. Revoking'  BY <2>1 DEF Guarded, Revoking, Inert, PoolOf, Transition
  <2> QED  BY <1>0, <2>2, <2>3 DEF Guarded
<1> QED  BY <1>0, <1>1, <1>2, <1>3 DEF Next, Around, Guarded

\* Without disconnects, changes of a pool's record never overlap, although its
\* lock is created, cloned and evicted again (cache_lock, evict_cache_lock_if_idle).
THEOREM RecordsExclusive == ASSUME Disconnects = FALSE PROVE Spec => []CacheExclusive
<1>1. Guarded /\ [Next]_vars => Guarded'  BY GuardedNext
<1>2. Guarded => CacheExclusive  BY DEF Guarded, Locked
<1> QED  BY <1>1, <1>2, GuardedInit, PTL DEF Spec

\* Without disconnects, every change of a record is an edge of the lifecycle from
\* the state it really has, or a write torn by a crash (apply_cache_transition).
THEOREM LifecycleFollowed == ASSUME Disconnects = FALSE PROVE Spec => OnlyLegalEdges
<1>1. Guarded /\ [Next]_vars => Guarded'  BY GuardedNext
<1>2. Guarded /\ [Next]_vars =>
        [\A p \in Pools : cache'[p] # cache[p] =>
           \/ cache'[p] = "torn"
           \/ \E e \in Edges : e[1] = cache[p] /\ e[3] = cache'[p]]_vars
  BY GuardedNext DEF Legal
<1> QED  BY <1>1, <1>2, GuardedInit, PTL DEF Spec, OnlyLegalEdges

\* Without disconnects, a pool in the revocation set is never sealed, although a
\* seal decides on earlier snapshots of the set and of the log (production_seal).
THEOREM RevocationsHold == ASSUME Disconnects = FALSE PROVE Spec => []RevokedNotSealed
<1>1. Guarded /\ [Next]_vars => Guarded'  BY GuardedNext
<1>2. Guarded => RevokedNotSealed  BY DEF Guarded, Revoking, Inert, RevokedNotSealed
<1> QED  BY <1>1, <1>2, GuardedInit, PTL DEF Spec

\* Only one pool is ever asked to be revoked: two concurrent revocations of
\* different pools overwrite each other's set (revoke_pool).
OneRevoked == \A g, h \in Requests : Transition(g) = "revoke" /\ Transition(h) = "revoke"
                                       => PoolOf(g) = PoolOf(h)

\* Only a revocation changes the set, only a seal writes a record.
Asking == \A h \in Requests :
  /\ pc[h] \in {"revRead", "revWrite"} => Transition(h) = "revoke"
  /\ pc[h] = "record" => Transition(h) = "seal"

\* A revocation is answered when the set has been written.
LEMMA RevokeNext ==
  ASSUME OneRevoked, TypeOK, RevokeAnswered, Asking, [Next]_vars
  PROVE  RevokeAnswered' /\ Asking'
<1>0. /\ pc \in [Requests -> PCs] /\ answer \in [Requests -> Answers]
  BY DEF TypeOK, PCs, Answers
<1>1. ASSUME NEW h \in Requests, Handle(h)  PROVE RevokeAnswered' /\ Asking'
  <2>1. \A g \in Requests \ {h} : answer'[g] = answer[g] /\ pc'[g] = pc[g]  BY <1>1, OthersWait
  <2>2. CASE WriteRevocations(h)
    <3>1. Transition(h) = "revoke" /\ revocations' = loc[h].revoked \union {PoolOf(h)}
      BY <2>2 DEF WriteRevocations, RevokedSet, Asking
    <3>2. \A g \in Requests : Transition(g) = "revoke" => PoolOf(g) \in revocations'
      BY <3>1 DEF OneRevoked
    <3>3. pc'[h] = "done"  BY <1>0, <2>2 DEF WriteRevocations, Respond
    <3> QED  BY <2>1, <3>1, <3>2, <3>3 DEF RevokeAnswered, Asking, Transition, PoolOf
  <2>3. CASE ~WriteRevocations(h)
    <3>1. revocations' = revocations
      BY <1>1, <2>3 DEF Handle, Begin, Resolve, Decide, Refuse, CloneLock, Acquire, ReadCache,
         WriteCache, Evict, AppendEntry, AppendFails, ReadRevocations, WriteRecord
    <3>2. /\ pc'[h] \in {"revRead", "revWrite"} => Transition(h) = "revoke"
          /\ pc'[h] = "record" => Transition(h) = "seal"
          /\ answer'[h] = "ok" /\ Transition(h) = "revoke" => answer[h] = "ok"
      <4>1. CASE Evict(h)  BY <1>0, <4>1 DEF Evict, Goto, Respond
      <4>2. CASE AppendEntry(h)  BY <1>0, <4>2 DEF AppendEntry, IsProduction, Goto, Respond
      <4>3. CASE WriteRecord(h)  BY <1>0, <4>3 DEF WriteRecord, Respond, Asking
      <4> QED
        BY <1>0, <1>1, <2>3, <4>1, <4>2, <4>3
        DEF Handle, Begin, Resolve, Decide, Refuse, CloneLock, Acquire, ReadCache,
            WriteCache, AppendFails, ReadRevocations, EndTransition, Goto, Respond, Asking
    <3> QED  BY <2>1, <3>1, <3>2 DEF RevokeAnswered, Asking, Transition, PoolOf
  <2> QED  BY <2>2, <2>3
<1>2. CASE Around
  <2>1. revocations' = revocations
    BY <1>2 DEF Around, RunsGoOn, Drop, Launch, LogLaunch, RunStep, ForeignEntry, Crash
  <2>2. \A g \in Requests : /\ answer'[g] = "ok" => answer[g] = "ok"
                            /\ pc'[g] \in {"idle", "done"} \/ pc'[g] = pc[g]
    <3>1. CASE UNCHANGED <<pc, answer>>  BY <3>1
    <3>2. ASSUME NEW h \in Requests, Respond(h, "none")
          PROVE  \A g \in Requests : /\ answer'[g] = "ok" => answer[g] = "ok"
                                     /\ pc'[g] = "done" \/ pc'[g] = pc[g]
      BY <1>0, <3>2 DEF Respond
    <3>3. CASE Crash  BY <3>3 DEF Crash
    <3> QED
      BY <1>2, <3>1, <3>2, <3>3
      DEF Around, Drop, RunsGoOn, Launch, LogLaunch, RunStep, ForeignEntry
  <2> QED  BY <2>1, <2>2 DEF RevokeAnswered, Asking, Transition, PoolOf
<1>3. CASE UNCHANGED vars  BY <1>3 DEF vars, RevokeAnswered, Asking, Transition, PoolOf
<1> QED  BY <1>1, <1>2, <1>3 DEF Next, Around

\* Without disconnects, and when revocations concern one pool, what the server
\* answers about a pool is true and stays true: an answered revocation is in
\* force, no seal undoes it, and no two changes of a record overlap.
THEOREM GovernanceHolds ==
  ASSUME Disconnects = FALSE, OneRevoked
  PROVE  Spec => []GovernanceSound
<1> DEFINE I == Guarded /\ RevokeAnswered /\ Asking
<1>1. Init => I
  <2>1. Init => RevokeAnswered /\ Asking  BY DEF Init, InitWith, RevokeAnswered, Asking
  <2> QED  BY <2>1, GuardedInit
<1>2. I /\ [Next]_vars => I'
  BY GuardedNext, RevokeNext DEF Guarded
<1>3. I => GovernanceSound
  BY DEF Guarded, Locked, Revoking, Inert, GovernanceSound, RevokedNotSealed
<1> HIDE DEF I
<1> QED  BY <1>1, <1>2, <1>3, PTL DEF Spec

=============================================================================
