--------------------------- MODULE EdgeLinkProofs ---------------------------
(***************************************************************************)
(* The safety of the planner-adapter link for every set of targets, marks  *)
(* and threads, and every bound.  No property is inductive alone: that an  *)
(* order reaches its target needs the plan pump carries across its steps;  *)
(* that the switch stops orders needs where pump stands when it trips.     *)
(***************************************************************************)
EXTENDS EdgeLink, TLAPS

\* What pump carries: an order is planned against a known mark and the kept
\* position, for the revision that was taken last.
Planned ==
  /\ pc # "idle" => lastApplied \in Revision
  /\ pc \in {"gate", "send"} =>
       /\ mark # 0 /\ ~halted
       /\ intent = PlanDelta(lastApplied.target, kept, mark)

\* Where the switch stands against pump and against the last heartbeat.
Switched ==
  /\ late <= 1
  /\ late > 0 => tripped
  /\ pc = "send" => late = 0
  /\ health.down => tripped /\ pc # "send"

\* The latched reason is the first tripper's.
Latched ==
  /\ reason = first
  /\ tripped => first # NoReason
  /\ reasonLock # NoReason => first # NoReason
  /\ health.down => first # NoReason

Inv ==
  /\ TypeOK /\ KeptIsVenue /\ Planned /\ ReachesTarget /\ Accounted
  /\ Switched /\ Latched /\ DownNamesFirst

\* An order planned against the kept position leaves exactly the target: the
\* mark divides it.
LEMMA PlanReaches ==
  ASSUME NEW t \in Targets, NEW m \in Marks, NEW q \in Int
  PROVE  /\ PlanDelta(t, q, m) \in Int
         /\ (q + PlanDelta(t, q, m)) * m = t
<1>1. m \in Nat /\ m # 0 /\ t \in Int
  BY MarkAssumption, TargetAssumption
<1>2. m * (t \div m) = t /\ t \div m \in Int
  BY <1>1, TargetAssumption
<1>3. PlanDelta(t, q, m) = (t \div m) - q
  BY <1>1 DEF PlanDelta
<1>4. q + PlanDelta(t, q, m) = t \div m
  BY <1>2, <1>3
<1>5. (t \div m) * m = t
  BY <1>1, <1>2
<1> QED
  BY <1>2, <1>3, <1>4, <1>5

\* The invariant holds initially.
LEMMA InvInit == Init => Inv
<1> SUFFICES ASSUME Init PROVE Inv
  OBVIOUS
<1> USE DEF Init
<1>1. TypeOK
  <2>1. health \in [down : BOOLEAN, why : Trippers \union {NoReason}]
    BY DEF Ok
  <2>2. connected \in BOOLEAN /\ halted \in BOOLEAN /\ tripped \in BOOLEAN /\ resend \in BOOLEAN
    BY Zenon
  <2> QED
    BY <2>1, <2>2 DEF TypeOK
<1>2. KeptIsVenue /\ ReachesTarget /\ Accounted /\ Planned
  BY DEF KeptIsVenue, ReachesTarget, Accounted, Planned
<1>3. Switched /\ Latched /\ DownNamesFirst
  BY DEF Switched, Latched, DownNamesFirst, Ok
<1> QED
  BY <1>1, <1>2, <1>3 DEF Inv

\* Every step of every actor preserves the invariant.
LEMMA InvNext == Inv /\ [Next]_vars => Inv'
<1> SUFFICES ASSUME Inv, [Next]_vars PROVE Inv'
  OBVIOUS
<1> USE DEF Inv, kill, planner, counts, queue, pumping
<1>1. CASE Submit
  <2>1. TypeOK' /\ KeptIsVenue'
    BY <1>1 DEF Submit, SubmitTarget, TypeOK, KeptIsVenue, Revision, NoRevision
  <2>2. Planned' /\ ReachesTarget'
    BY <1>1, <2>1 DEF Submit, SubmitTarget, TypeOK, KeptIsVenue, Planned, ReachesTarget, Revision, NoRevision
  <2>3. Accounted'
    BY <1>1 DEF Submit, SubmitTarget, TypeOK, Accounted, NoRevision, Revision
  <2>4. Switched' /\ Latched' /\ DownNamesFirst'
    BY <1>1 DEF Submit, SubmitTarget, TypeOK, Switched, Latched, DownNamesFirst, Ok
  <2> QED
    BY <2>1, <2>2, <2>3, <2>4
<1>2. CASE SubmitRefused
  <2>1. TypeOK' /\ KeptIsVenue'
    BY <1>2 DEF SubmitRefused, TypeOK, KeptIsVenue, Revision, NoRevision
  <2>2. Planned' /\ ReachesTarget'
    BY <1>2, <2>1 DEF SubmitRefused, TypeOK, KeptIsVenue, Planned, ReachesTarget, Revision, NoRevision
  <2>3. Accounted'
    BY <1>2 DEF SubmitRefused, TypeOK, Accounted, NoRevision, Revision
  <2>4. Switched' /\ Latched' /\ DownNamesFirst'
    BY <1>2 DEF SubmitRefused, TypeOK, Switched, Latched, DownNamesFirst, Ok
  <2> QED
    BY <2>1, <2>2, <2>3, <2>4
<1>3. CASE Resend
  <2>1. TypeOK' /\ KeptIsVenue'
    <3>1. CASE lastApplied = NoRevision
      <4>1. resend' \in BOOLEAN
        BY <1>3, Zenon DEF Resend
      <4>2. UNCHANGED <<queue, counts, kept, mark, venueQty, pumping, kill, disposition, seq, health>>
        BY <1>3, <3>1 DEF Resend
      <4> QED
        BY <4>1, <4>2 DEF TypeOK, KeptIsVenue
    <3>2. CASE lastApplied # NoRevision
      <4>1. lastApplied \in Revision /\ lastApplied.seq \in Nat
        BY <3>2 DEF TypeOK, Revision
      <4>2. SubmitTarget(lastApplied)
        BY <1>3, <3>2 DEF Resend
      <4>3. newest' \in Nat /\ dropped' \in Nat /\ accepted' \in Nat
        BY <4>1, <4>2 DEF SubmitTarget, TypeOK
      <4>4. pending' = lastApplied /\ connected' = connected /\ lastApplied' = lastApplied
        BY <4>2 DEF SubmitTarget
      <4>5. resend' \in BOOLEAN
        BY <1>3, Zenon DEF Resend
      <4>6. applied' = applied /\ late' = late /\ failures' = failures /\ drops' = drops /\ marks' = marks
        BY <1>3, <4>2 DEF Resend, SubmitTarget
      <4>7. UNCHANGED <<kept, mark, venueQty, pumping, kill, disposition, seq, health>>
        BY <1>3 DEF Resend
      <4> QED
        BY <4>1, <4>3, <4>4, <4>5, <4>6, <4>7 DEF TypeOK, KeptIsVenue
    <3> QED
      BY <3>1, <3>2
  <2>2. Planned' /\ ReachesTarget'
    BY <1>3, <2>1 DEF Resend, SubmitTarget, TypeOK, KeptIsVenue, Planned, ReachesTarget, Revision, NoRevision
  <2>3. Accounted'
    BY <1>3 DEF Resend, SubmitTarget, TypeOK, Accounted, NoRevision, Revision
  <2>4. Switched' /\ Latched' /\ DownNamesFirst'
    BY <1>3 DEF Resend, SubmitTarget, TypeOK, Switched, Latched, DownNamesFirst, Ok
  <2> QED
    BY <2>1, <2>2, <2>3, <2>4
<1>4. CASE PumpTake
  <2>0. /\ pending \in Revision /\ pending.target \in Targets
        /\ intent' = PlanDelta(pending.target, kept, mark) /\ intent' \in Int
        /\ mark # 0 => (kept + intent') * mark = pending.target
        /\ mark = 0 => intent' = 0
    <3>1. pending \in Revision /\ pending.target \in Targets
      BY <1>4 DEF PumpTake, TypeOK, Revision
    <3>2. CASE mark = 0
      BY <1>4, <3>1, <3>2 DEF PumpTake, PlanDelta
    <3>3. CASE mark # 0
      <4>1. mark \in Marks /\ kept \in Int
        BY <3>3 DEF TypeOK
      <4> QED
        BY <1>4, <3>1, <3>3, <4>1, PlanReaches DEF PumpTake
    <3> QED
      BY <3>2, <3>3
  <2>1. TypeOK' /\ KeptIsVenue'
    <3>1. halted' \in BOOLEAN
      BY <1>4, Zenon DEF PumpTake
    <3>2. pc' \in {"idle", "gate", "send", "report"} /\ (pc' \in {"gate", "send"} => intent' # 0)
      BY <1>4 DEF PumpTake
    <3> QED
      BY <1>4, <2>0, <3>1, <3>2 DEF PumpTake, TypeOK, KeptIsVenue
  <2>2. Planned' /\ ReachesTarget'
    <3>1. pc' = IF intent' = 0 THEN "report" ELSE "gate"
      BY <1>4 DEF PumpTake
    <3>2. /\ lastApplied' = pending /\ kept' = kept /\ venueQty' = kept /\ mark' = mark
          /\ ~halted' /\ mark \in Int /\ kept \in Int
      BY <1>4, MarkAssumption DEF PumpTake, TypeOK, KeptIsVenue
    <3>3. Planned'
      BY <2>0, <3>1, <3>2 DEF Planned, PlanDelta
    <3>4. intent' = 0 => kept + intent' = kept
      BY <3>2
    <3>5. ReachesTarget'
      BY <2>0, <3>1, <3>2, <3>4 DEF ReachesTarget
    <3> QED
      BY <3>3, <3>5
  <2>3. Accounted'
    BY <1>4 DEF PumpTake, TypeOK, Accounted, NoRevision, Revision
  <2>4. Switched' /\ Latched' /\ DownNamesFirst'
    BY <1>4 DEF PumpTake, TypeOK, Switched, Latched, DownNamesFirst, Ok
  <2> QED
    BY <2>1, <2>2, <2>3, <2>4
<1>5. CASE PumpGate
  <2>1. TypeOK' /\ KeptIsVenue'
    <3>1. halted' \in BOOLEAN
      BY <1>5, Zenon DEF PumpGate, TypeOK
    <3> QED
      BY <1>5, <3>1 DEF PumpGate, TypeOK, KeptIsVenue
  <2>2. Planned' /\ ReachesTarget'
    BY <1>5, <2>1 DEF PumpGate, TypeOK, KeptIsVenue, Planned, ReachesTarget, Revision, NoRevision
  <2>3. Accounted'
    BY <1>5 DEF PumpGate, TypeOK, Accounted, NoRevision, Revision
  <2>4. Switched' /\ Latched' /\ DownNamesFirst'
    BY <1>5 DEF PumpGate, TypeOK, Switched, Latched, DownNamesFirst, Ok
  <2> QED
    BY <2>1, <2>2, <2>3, <2>4
<1>6. CASE PumpSend
  <2>1. TypeOK' /\ KeptIsVenue'
    BY <1>6 DEF PumpSend, TypeOK, KeptIsVenue, Revision, NoRevision
  <2>2. Planned' /\ ReachesTarget'
    <3>1. Planned'
      BY <1>6 DEF PumpSend, Planned
    <3>2. mark \in Marks /\ lastApplied.target \in Targets /\ kept \in Int
      BY <1>6 DEF PumpSend, Planned, TypeOK, Revision
    <3>3. (kept + intent) * mark = lastApplied.target
      BY <1>6, <3>2, PlanReaches DEF PumpSend, Planned
    <3>4. venueQty' = kept + intent /\ mark' = mark /\ lastApplied' = lastApplied
      BY <1>6 DEF PumpSend, KeptIsVenue
    <3> QED
      BY <3>1, <3>3, <3>4 DEF ReachesTarget
  <2>3. Accounted'
    BY <1>6 DEF PumpSend, TypeOK, Accounted, NoRevision, Revision
  <2>4. Switched' /\ Latched' /\ DownNamesFirst'
    BY <1>6 DEF PumpSend, TypeOK, Switched, Latched, DownNamesFirst, Ok
  <2> QED
    BY <2>1, <2>2, <2>3, <2>4
<1>7. CASE PumpReport
  <2>1. TypeOK' /\ KeptIsVenue'
    <3>1. halted' \in BOOLEAN
      BY <1>7, Zenon DEF PumpReport
    <3>2. health' \in [down : BOOLEAN, why : Trippers \union {NoReason}]
      <4>1. health' = Ok \/ health' = [down |-> TRUE, why |-> reason]
        BY <1>7 DEF PumpReport
      <4>2. reason \in Trippers \union {NoReason}
        BY DEF TypeOK
      <4>3. Ok \in [down : BOOLEAN, why : Trippers \union {NoReason}]
        BY DEF Ok
      <4>4. [down |-> TRUE, why |-> reason] \in [down : BOOLEAN, why : Trippers \union {NoReason}]
        BY <4>2
      <4> QED
        BY <4>1, <4>3, <4>4, Zenon
    <3> QED
      BY <1>7, <3>1, <3>2 DEF PumpReport, TypeOK, KeptIsVenue
  <2>2. Planned' /\ ReachesTarget'
    BY <1>7, <2>1 DEF PumpReport, TypeOK, KeptIsVenue, Planned, ReachesTarget, Revision, NoRevision
  <2>3. Accounted'
    BY <1>7 DEF PumpReport, TypeOK, Accounted, NoRevision, Revision
  <2>4. Switched' /\ Latched' /\ DownNamesFirst'
    BY <1>7 DEF PumpReport, TypeOK, Switched, Latched, DownNamesFirst, Ok
  <2> QED
    BY <2>1, <2>2, <2>3, <2>4
<1>8. CASE (\E m \in Marks : ObserveMark(m))
  <2>1. TypeOK' /\ KeptIsVenue'
    BY <1>8 DEF ObserveMark, TypeOK, KeptIsVenue, Revision, NoRevision
  <2>2. Planned' /\ ReachesTarget'
    BY <1>8, <2>1 DEF ObserveMark, TypeOK, KeptIsVenue, Planned, ReachesTarget, Revision, NoRevision
  <2>3. Accounted'
    BY <1>8 DEF ObserveMark, TypeOK, Accounted, NoRevision, Revision
  <2>4. Switched' /\ Latched' /\ DownNamesFirst'
    BY <1>8 DEF ObserveMark, TypeOK, Switched, Latched, DownNamesFirst, Ok
  <2> QED
    BY <2>1, <2>2, <2>3, <2>4
<1>9. CASE Disconnect
  <2>1. TypeOK' /\ KeptIsVenue'
    <3>1. connected' \in BOOLEAN
      BY <1>9, Zenon DEF Disconnect
    <3> QED
      BY <1>9, <3>1 DEF Disconnect, TypeOK, KeptIsVenue
  <2>2. Planned' /\ ReachesTarget'
    BY <1>9, <2>1 DEF Disconnect, TypeOK, KeptIsVenue, Planned, ReachesTarget, Revision, NoRevision
  <2>3. Accounted'
    BY <1>9 DEF Disconnect, TypeOK, Accounted, NoRevision, Revision
  <2>4. Switched' /\ Latched' /\ DownNamesFirst'
    BY <1>9 DEF Disconnect, TypeOK, Switched, Latched, DownNamesFirst, Ok
  <2> QED
    BY <2>1, <2>2, <2>3, <2>4
<1>10. CASE Reconnect
  <2>1. TypeOK' /\ KeptIsVenue'
    BY <1>10 DEF Reconnect, TypeOK, KeptIsVenue, Revision, NoRevision
  <2>2. Planned' /\ ReachesTarget'
    BY <1>10, <2>1 DEF Reconnect, TypeOK, KeptIsVenue, Planned, ReachesTarget, Revision, NoRevision
  <2>3. Accounted'
    BY <1>10 DEF Reconnect, TypeOK, Accounted, NoRevision, Revision
  <2>4. Switched' /\ Latched' /\ DownNamesFirst'
    BY <1>10 DEF Reconnect, TypeOK, Switched, Latched, DownNamesFirst, Ok
  <2> QED
    BY <2>1, <2>2, <2>3, <2>4
<1>11. CASE (\E t \in Trippers : TripReason(t))
  <2>1. TypeOK' /\ KeptIsVenue'
    BY <1>11 DEF TripReason, TypeOK, KeptIsVenue, Revision, NoRevision
  <2>2. Planned' /\ ReachesTarget'
    BY <1>11, <2>1 DEF TripReason, TypeOK, KeptIsVenue, Planned, ReachesTarget, Revision, NoRevision
  <2>3. Accounted'
    BY <1>11 DEF TripReason, TypeOK, Accounted, NoRevision, Revision
  <2>4. Switched' /\ Latched' /\ DownNamesFirst'
    BY <1>11 DEF TripReason, TypeOK, Switched, Latched, DownNamesFirst, Ok
  <2> QED
    BY <2>1, <2>2, <2>3, <2>4
<1>12. CASE (\E t \in Trippers : TripStore(t))
  <2>1. TypeOK' /\ KeptIsVenue'
    BY <1>12 DEF TripStore, TypeOK, KeptIsVenue, Revision, NoRevision
  <2>2. Planned' /\ ReachesTarget'
    BY <1>12, <2>1 DEF TripStore, TypeOK, KeptIsVenue, Planned, ReachesTarget, Revision, NoRevision
  <2>3. Accounted'
    BY <1>12 DEF TripStore, TypeOK, Accounted, NoRevision, Revision
  <2>4. Switched' /\ Latched' /\ DownNamesFirst'
    BY <1>12, TripperAssumption DEF TripStore, TypeOK, Switched, Latched, DownNamesFirst, Ok
  <2> QED
    BY <2>1, <2>2, <2>3, <2>4
<1>13. CASE UNCHANGED vars
  <2>1. TypeOK' /\ KeptIsVenue'
    BY <1>13 DEF vars, TypeOK, KeptIsVenue, Revision, NoRevision
  <2>2. Planned' /\ ReachesTarget'
    BY <1>13, <2>1 DEF vars, TypeOK, KeptIsVenue, Planned, ReachesTarget, Revision, NoRevision
  <2>3. Accounted'
    BY <1>13 DEF vars, TypeOK, Accounted, NoRevision, Revision
  <2>4. Switched' /\ Latched' /\ DownNamesFirst'
    BY <1>13 DEF vars, TypeOK, Switched, Latched, DownNamesFirst, Ok
  <2> QED
    BY <2>1, <2>2, <2>3, <2>4
<1> QED
  BY <1>1, <1>2, <1>3, <1>4, <1>5, <1>6, <1>7, <1>8, <1>9, <1>10, <1>11, <1>12, <1>13 DEF Next, Pump

\* The inductive invariant of the link.
LEMMA Invariant == Spec => []Inv
  BY InvInit, InvNext, PTL DEF Spec

\* Every state of the link is well typed; in particular an order the gate sees
\* is never empty (plan_delta).
THEOREM TypeCorrect == Spec => []TypeOK
<1>1. Inv => TypeOK
  BY DEF Inv
<1> QED
  BY Invariant, <1>1, PTL

\* The keeper holds the venue's position in every state: it never infers one
\* from an order (VenueKeeper::apply, reconnect).
THEOREM KeeperIsTruthful == Spec => []KeptIsVenue
<1>1. Inv => KeptIsVenue
  BY DEF Inv
<1> QED
  BY Invariant, <1>1, PTL

\* A pump that was let through leaves the venue at the target of its revision,
\* for any targets and marks, however the revision was delayed or re-sent
\* (apply_revision).
THEOREM TargetReached == Spec => []ReachesTarget
<1>1. Inv => ReachesTarget
  BY DEF Inv
<1> QED
  BY Invariant, <1>1, PTL

\* Every accepted revision was applied, counted as dropped, or is pending
\* (submit_target, pump).
THEOREM RevisionsAccounted == Spec => []Accounted
<1>1. Inv => Accounted
  BY DEF Inv
<1> QED
  BY Invariant, <1>1, PTL

\* At most the one order that had passed the gate reaches the venue after the
\* switch trips, for any number of threads (VenueKillGate::submit).
THEOREM KillStopsOrders == Spec => []OneOrderInFlight
<1>1. Inv => OneOrderInFlight
  BY DEF Inv, Switched, OneOrderInFlight
<1> QED
  BY Invariant, <1>1, PTL

\* A Down heartbeat names the first thread that tripped the switch
\* (KillHandle::trip).
THEOREM FirstReasonWins == Spec => []DownNamesFirst
<1>1. Inv => DownNamesFirst
  BY DEF Inv
<1> QED
  BY Invariant, <1>1, PTL

\* After a Down heartbeat the position is final (apply_revision).
THEOREM DownFinal == Spec => DownIsFinal
<1>1. Inv /\ [Next]_vars => [health.down => venueQty' = venueQty]_vars
  <2> SUFFICES ASSUME Inv, Next, health.down PROVE venueQty' = venueQty
    BY DEF vars
  <2>1. tripped /\ pc # "send"
    BY DEF Inv, Switched
  <2> QED
    BY <2>1 DEF Next, Pump, Submit, SubmitRefused, Resend, PumpTake, PumpGate, PumpSend,
       PumpReport, ObserveMark, Disconnect, Reconnect, TripReason, TripStore
<1> QED
  BY Invariant, <1>1, PTL DEF Spec, DownIsFinal

\* What the link owes the planner, for any targets, marks and threads: the kept
\* position is the venue's, targets are reached and no revision disappears.
THEOREM LinkHolds == Spec => []LinkSound
  BY KeeperIsTruthful, TargetReached, RevisionsAccounted, PTL DEF LinkSound

\* What the kill switch owes whoever trips it: one order at most, and the first
\* reason (VenueKillGate::submit, KillHandle::trip).
THEOREM KillHolds == Spec => []KillSound
  BY KillStopsOrders, FirstReasonWins, PTL DEF KillSound
=============================================================================
