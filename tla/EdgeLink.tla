------------------------------ MODULE EdgeLink ------------------------------
(***************************************************************************)
(* The link between the Hedge Planner and the venue adapter                *)
(* (crates/edge/src/transport.rs), over the position keeper and the venue  *)
(* simulator (edge.rs) and the out-of-band kill switch (kill_gate.rs and   *)
(* crates/risk/src/kill.rs).                                               *)
(*                                                                         *)
(* Every method of the link takes it exclusively, so its calls do not      *)
(* overlap; the kill handle is shared, and any thread may trip it at any   *)
(* instruction.  pump is therefore split where it looks at the switch: it  *)
(* plans, asks the gate, sends, and reports.  All other methods are single *)
(* steps taken while no pump is under way.                                 *)
(*                                                                         *)
(* Notionals, marks and quantities are integers; Targets holds notionals   *)
(* that every mark divides, so that the Decimal division is exact.  A      *)
(* signed delta stands for an OrderIntent, 0 for None.  Balances and event *)
(* times carry no decision and are left out.                               *)
(***************************************************************************)
EXTENDS Integers

CONSTANTS
  Targets,     \* the absolute notionals the planner may ask for
  Marks,       \* the mark prices the venue may publish
  Trippers,    \* the threads that hold a clone of the kill handle
  JournalFails,\* the append sink may reject an offer
  MaxSends,    \* bound: accepted submissions, re-sent ones included
  MaxMarks,    \* bound: mark updates
  MaxDrops     \* bound: disconnects

ASSUME MarkAssumption == Marks \subseteq Nat \ {0}
ASSUME TargetAssumption ==
  /\ Targets \subseteq Int
  /\ \A t \in Targets, m \in Marks : m * (t \div m) = t
ASSUME BoundAssumption ==
  /\ {MaxSends, MaxMarks, MaxDrops} \subseteq Nat
  /\ JournalFails \in BOOLEAN

NoReason == "no reason"
ASSUME TripperAssumption == NoReason \notin Trippers

VARIABLES
  kept,         \* VenueKeeper.signed_qty
  mark,         \* VenueKeeper.mark, 0 before the first
  venueQty,     \* VenueSimulator.signed_qty
  pending,      \* the coalescing queue: at most one revision
  lastApplied,  \* the revision latest_target() returns
  connected,
  pc,           \* where pump stands: idle, gate, send or report
  intent,       \* the signed delta pump planned
  halted,       \* the gate refused this pump's order
  reason,       \* KillState.reason
  tripped,      \* KillState.tripped
  reasonLock,   \* who holds the mutex of KillState.reason
  disposition,  \* what route last answered
  dropped,      \* dropped_superseded
  failures,     \* append_failures
  \* the planner
  seq,          \* the last revision number it used
  resend,       \* it has seen a reconnect and not yet re-sent latest_target()
  health,       \* the venue health of the last heartbeat
  drops, marks, \* bounded counters
  \* history
  accepted,     \* submissions that were accepted
  applied,      \* revisions that pump took
  newest,       \* the highest seq that was accepted
  late,         \* orders that reached the venue after the switch tripped
  first         \* the first thread that tripped the switch

kill    == <<reason, tripped, reasonLock, first>>
planner == <<seq, resend, health>>
counts  == <<drops, marks, accepted, applied, newest>>
queue   == <<pending, lastApplied, connected, dropped>>
pumping == <<pc, intent, halted, failures, late>>
vars    == <<kept, mark, venueQty, queue, pumping, kill, disposition, planner, counts>>

-----------------------------------------------------------------------------
NoRevision == [seq |-> 0, target |-> 0]
Revision   == [seq : Nat \ {0}, target : Targets]
Ok         == [down |-> FALSE, why |-> NoReason]

Init ==
  /\ kept = 0 /\ mark = 0 /\ venueQty = 0
  /\ pending = NoRevision /\ lastApplied = NoRevision /\ connected = TRUE /\ dropped = 0
  /\ pc = "idle" /\ intent = 0 /\ halted = FALSE /\ failures = 0 /\ late = 0
  /\ reason = NoReason /\ tripped = FALSE /\ reasonLock = NoReason /\ first = NoReason
  /\ disposition = "none"
  /\ seq = 0 /\ resend = FALSE /\ health = Ok
  /\ drops = 0 /\ marks = 0 /\ accepted = 0 /\ applied = 0 /\ newest = 0

-----------------------------------------------------------------------------
(* The planner: a monotonic stream of absolute targets.                    *)

\* An accepted revision replaces a pending one.
SubmitTarget(rev) ==
  /\ pc = "idle" /\ connected /\ accepted < MaxSends
  /\ pending' = rev
  /\ dropped' = dropped + (IF pending = NoRevision THEN 0 ELSE 1)
  /\ accepted' = accepted + 1
  /\ newest' = IF rev.seq > newest THEN rev.seq ELSE newest
  /\ UNCHANGED <<lastApplied, connected, drops, marks, applied>>

Submit ==
  /\ ~resend
  /\ \E t \in Targets : SubmitTarget([seq |-> seq + 1, target |-> t])
  /\ seq' = seq + 1
  /\ UNCHANGED <<kept, mark, venueQty, pumping, kill, disposition, resend, health>>

\* A submission while the link is down is refused, and routed to Retry: the
\* planner waits for the reconnect.
SubmitRefused ==
  /\ pc = "idle" /\ ~connected
  /\ disposition' = "retry"
  /\ UNCHANGED <<kept, mark, venueQty, queue, pumping, kill, planner, counts>>

\* After a reconnect the planner re-sends what latest_target() returns.
Resend ==
  /\ resend
  /\ IF lastApplied = NoRevision THEN UNCHANGED <<queue, counts>>
                                 ELSE SubmitTarget(lastApplied)
  /\ pc = "idle" /\ resend' = FALSE
  /\ UNCHANGED <<kept, mark, venueQty, pumping, kill, disposition, seq, health>>

-----------------------------------------------------------------------------
(* The link.                                                               *)

\* target - kept position, in contracts; None (0) before the first mark.
PlanDelta(target, current, m) == IF m = 0 THEN 0 ELSE (target \div m) - current

PumpTake ==
  /\ pc = "idle" /\ connected /\ pending # NoRevision
  /\ lastApplied' = pending /\ pending' = NoRevision
  /\ intent' = PlanDelta(pending.target, kept, mark)
  /\ halted' = FALSE
  /\ pc' = IF intent' = 0 THEN "report" ELSE "gate"
  /\ applied' = applied + 1
  /\ UNCHANGED <<kept, mark, venueQty, connected, dropped, failures, late, kill,
                 disposition, planner, drops, marks, accepted, newest>>

\* Mutant: the keeper infers the fill from the order, also from a refused one.
PumpGateInfers ==
  /\ pc = "gate"
  /\ \/ ~tripped /\ pc' = "send" /\ UNCHANGED <<kept, halted, disposition>>
     \/ /\ tripped /\ reasonLock = NoReason
        /\ kept' = kept + intent
        /\ pc' = "report" /\ halted' = TRUE /\ disposition' = "halt"
  /\ UNCHANGED <<mark, venueQty, queue, intent, failures, late, kill, planner, counts>>

\* Mutant: the gate does not look at the switch.
PumpGateOpen ==
  /\ pc = "gate" /\ pc' = "send"
  /\ UNCHANGED <<kept, mark, venueQty, queue, intent, halted, failures, late, kill,
                 disposition, planner, counts>>

\* Mutant: a tripped switch keeps the revision for later instead of refusing it.
PumpGateRequeues ==
  /\ pc = "gate"
  /\ \/ ~tripped /\ pc' = "send" /\ UNCHANGED <<pending, halted, disposition>>
     \/ /\ tripped /\ reasonLock = NoReason
        /\ pending' = lastApplied
        /\ pc' = "report" /\ halted' = TRUE /\ disposition' = "halt"
  /\ UNCHANGED <<kept, mark, venueQty, lastApplied, connected, dropped, intent, failures,
                 late, kill, planner, counts>>

\* VenueKillGate::submit looks at the switch.  A refusal carries the reason,
\* which takes the mutex.
PumpGate ==
  /\ pc = "gate"
  /\ \/ ~tripped /\ pc' = "send" /\ UNCHANGED <<halted, disposition>>
     \/ /\ tripped /\ reasonLock = NoReason
        /\ pc' = "report" /\ halted' = TRUE /\ disposition' = "halt"
  /\ UNCHANGED <<kept, mark, venueQty, queue, intent, failures, late, kill, planner, counts>>

\* The venue fills at once; the keeper absorbs the fill.
PumpSend ==
  /\ pc = "send"
  /\ venueQty' = venueQty + intent
  /\ kept' = kept + intent
  /\ late' = late + (IF tripped THEN 1 ELSE 0)
  /\ pc' = "report"
  /\ UNCHANGED <<mark, queue, intent, halted, failures, kill, disposition, planner, counts>>

\* The heartbeat reads the switch again.  The journal is offered the reports,
\* and cannot change them.
PumpReport ==
  /\ pc = "report"
  /\ \/ ~tripped /\ health' = Ok
     \/ /\ tripped /\ reasonLock = NoReason
        /\ health' = [down |-> TRUE, why |-> reason]
  /\ \/ UNCHANGED <<failures, disposition>>
     \/ JournalFails /\ failures' = failures + 1 /\ disposition' = "continue"
  /\ pc' = "idle" /\ intent' = 0 /\ halted' = FALSE
  /\ UNCHANGED <<kept, mark, venueQty, queue, late, kill, seq, resend, counts>>

ObserveMark(m) ==
  /\ pc = "idle" /\ marks < MaxMarks /\ m # mark
  /\ mark' = m /\ marks' = marks + 1
  /\ UNCHANGED <<kept, venueQty, queue, pumping, kill, disposition, planner, drops,
                 accepted, applied, newest>>

\* The pending revision stays in the queue.
Disconnect ==
  /\ pc = "idle" /\ connected /\ drops < MaxDrops
  /\ connected' = FALSE /\ drops' = drops + 1
  /\ UNCHANGED <<kept, mark, venueQty, pending, lastApplied, dropped, pumping, kill,
                 disposition, planner, marks, accepted, applied, newest>>

\* The simulator's position report is reconciled into the keeper.
Reconnect ==
  /\ pc = "idle" /\ ~connected
  /\ connected' = TRUE
  /\ kept' = venueQty
  /\ resend' = TRUE
  /\ UNCHANGED <<mark, venueQty, pending, lastApplied, dropped, pumping, kill,
                 disposition, seq, health, counts>>

-----------------------------------------------------------------------------
(* KillHandle::trip: the reason is latched under its mutex, and the switch *)
(* set before the mutex is released.                                       *)

TripReason(t) ==
  /\ reasonLock = NoReason
  /\ reasonLock' = t
  /\ reason' = IF reason = NoReason THEN t ELSE reason
  /\ first' = IF first = NoReason THEN t ELSE first
  /\ UNCHANGED <<kept, mark, venueQty, queue, pumping, tripped, disposition, planner, counts>>

TripStore(t) ==
  /\ reasonLock = t
  /\ tripped' = TRUE /\ reasonLock' = NoReason
  /\ UNCHANGED <<kept, mark, venueQty, queue, pumping, reason, first, disposition, planner, counts>>

-----------------------------------------------------------------------------
Pump == PumpTake \/ PumpGate \/ PumpSend \/ PumpReport

Next ==
  \/ Submit \/ SubmitRefused \/ Resend
  \/ Pump
  \/ \E m \in Marks : ObserveMark(m)
  \/ Disconnect \/ Reconnect
  \/ \E t \in Trippers : TripReason(t) \/ TripStore(t)

Spec == Init /\ [][Next]_vars

\* The adapter keeps ticking, a lost link is re-established, and a thread does
\* not stop inside trip.
Fairness ==
  /\ WF_vars(Pump)
  /\ WF_vars(Reconnect)
  /\ \A t \in Trippers : WF_vars(TripStore(t))

FairSpec == Spec /\ Fairness

-----------------------------------------------------------------------------
TypeOK ==
  /\ kept \in Int /\ venueQty \in Int /\ intent \in Int /\ mark \in Marks \union {0}
  /\ pending \in Revision \union {NoRevision}
  /\ lastApplied \in Revision \union {NoRevision}
  /\ pc \in {"idle", "gate", "send", "report"}
  /\ connected \in BOOLEAN /\ halted \in BOOLEAN /\ tripped \in BOOLEAN /\ resend \in BOOLEAN
  /\ reason \in Trippers \union {NoReason}
  /\ reasonLock \in Trippers \union {NoReason}
  /\ first \in Trippers \union {NoReason}
  /\ disposition \in {"none", "retry", "halt", "continue"}
  /\ health \in [down : BOOLEAN, why : Trippers \union {NoReason}]
  /\ dropped \in Nat /\ failures \in Nat /\ seq \in Nat /\ drops \in Nat /\ marks \in Nat
  /\ accepted \in Nat /\ applied \in Nat /\ newest \in Nat /\ late \in Nat
  /\ pc \in {"gate", "send"} => intent # 0

\* The keeper absorbs what the venue did and never what the link asked for:
\* through refused orders, disconnects and reconnects it holds the venue's
\* position (VenueKeeper::apply, reconnect).
KeptIsVenue == kept = venueQty

\* However often revisions are coalesced, re-sent or cut off by a reconnect,
\* a pump the gate let through leaves the venue at its target, no more and no
\* less: a reconnect never doubles the position (apply_revision, plan_delta).
ReachesTarget ==
  pc = "report" /\ ~halted /\ mark # 0 => venueQty * mark = lastApplied.target

\* No accepted revision disappears: each was applied, counted in
\* dropped_superseded, or is still pending, also across a disconnect
\* (submit_target, pump, disconnect).
Accounted ==
  accepted = applied + dropped + (IF pending = NoRevision THEN 0 ELSE 1)

\* The switch stops orders at the gate: of all the orders planned, before or
\* after, only the one that had already passed the gate can reach the venue
\* once the switch is tripped (VenueKillGate::submit).
OneOrderInFlight == late <= 1

\* A heartbeat that says Down gives the reason of the first thread that tripped
\* the switch, though pump reads the flag and the reason in two steps and other
\* threads trip in between (KillHandle::trip, apply_revision).
DownNamesFirst == health.down => health.why = first

\* After a heartbeat has told the planner that the venue is Down no order moves
\* the position, whatever is still queued or re-sent (apply_revision).
DownIsFinal == [][health.down => venueQty' = venueQty]_vars

\* A pending revision is taken by a pump in the end, across disconnects and a
\* tripped switch: neither blocks the queue (pump, reconnect).
PendingTaken == pending # NoRevision ~> pending = NoRevision

\* What the link owes the planner through refusals, re-sends and reconnects.
LinkSound == KeptIsVenue /\ ReachesTarget /\ Accounted

\* What the kill switch owes whoever trips it, from whichever thread.
KillSound == OneOrderInFlight /\ DownNamesFirst

\* When the queue is empty the adapter is at the newest revision it accepted.
\* submit_target calls dropping a pending revision lossless "because the newer
\* absolute target subsumes it"; it does not compare the two numbers, so
\* the code refutes this: a re-send after a reconnect replaces a newer revision.
LatestWins ==
  accepted > 0 /\ pending = NoRevision /\ pc = "idle" => lastApplied.seq = newest
=============================================================================
