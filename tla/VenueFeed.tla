----------------------------- MODULE VenueFeed ------------------------------
(***************************************************************************)
(* The account side of the edge: the private user-data stream              *)
(* (crates/venue/src/userdata.rs) that feeds the position keeper (crates/  *)
(* edge/src/edge.rs), and the two guards that act on positions: the kill   *)
(* gate (kill_gate.rs) and the reconciliation guard (reconciliation.rs).   *)
(*                                                                         *)
(* One loop drives the session, the keeper, the gate and the guard, so     *)
(* their calls do not overlap; a (re)connect is three calls to the venue,  *)
(* and the venue goes on while each of them is under way.  The venue fills *)
(* an order at once and tells every open connection; it also executes      *)
(* trades the engine did not ask for (a liquidation, a manual trade), sends*)
(* position reports, closes connections and lets listen keys expire.       *)
(*                                                                         *)
(* Quantities are signed integers.  A heartbeat changes nothing and is     *)
(* left out; the interleaving of a trip with a single submission is        *)
(* EdgeLink's.                                                             *)
(***************************************************************************)
EXTENDS Integers, Sequences

CONSTANTS
  Deltas,      \* the signed sizes of the engine's orders
  Foreign,     \* the signed sizes of trades the engine did not ask for
  Tolerance,   \* ReconciliationGuard tolerance, as configured
  AlarmOnly,   \* the guard's action is AlarmOnly
  Consecutive, \* and HaltAfter { consecutive } otherwise
  EndsAgain,   \* a dead connection reports its end on every poll, not only once
  MaxTrades,   \* bound: trades at the venue
  MaxCuts,     \* bound: closed connections and expired keys
  MaxFails,    \* bound: failed seam calls
  MaxReports   \* bound: position reports on the stream

ASSUME SizeAssumption == Deltas \union Foreign \subseteq Int \ {0}
ASSUME GuardAssumption ==
  /\ Tolerance \in Int /\ Consecutive \in Nat
  /\ {AlarmOnly, EndsAgain} \subseteq BOOLEAN
ASSUME BoundAssumption == {MaxTrades, MaxCuts, MaxFails, MaxReports} \subseteq Nat

VARIABLES
  venueQty,   \* the position at the venue
  trades,     \* how many trades the venue executed: the trade ids
  conn,       \* the session's connection, as a set of 0 or 1
  next,       \* the connection establish is opening, as a set of 0 or 1
  est,        \* where establish stands: no, key, connect or snapshot
  kept,       \* VenueKeeper.signed_qty
  tripped, byRecon,  \* the kill switch, and that the guard tripped it first
  flattened,  \* VenueKillGate.flattened
  streak,     \* ReconciliationGuard.streak
  own,        \* the caller's own accounting: what its orders add up to
  cuts, fails, reports,  \* bounded counters
  \* history
  seen,       \* the trades the kept position accounts for
  doubled,    \* some of them may be counted twice
  closed,     \* the gate has sent a closing order
  row,        \* the results of the last checks, TRUE for a breach
  sustained   \* some Consecutive checks in a row were breaches

venue   == <<venueQty, trades>>
session == <<conn, next, est>>
keeper  == <<kept, seen, doubled>>
gate    == <<tripped, byRecon, flattened, closed>>
guard   == <<streak, row, sustained>>
counts  == <<cuts, fails, reports>>
vars    == <<venue, session, keeper, gate, guard, own, counts>>

-----------------------------------------------------------------------------
\* An open connection receives every event; a dead one keeps what it has
\* received.  `ended` marks a connection whose end was already reported.
NewConn == [open |-> TRUE, queue |-> <<>>, ended |-> FALSE]
Fill(d)       == [kind |-> "fill", qty |-> d, id |-> trades + 1]
Position      == [kind |-> "position", qty |-> venueQty, id |-> trades]
Expired       == [kind |-> "expired", qty |-> 0, id |-> 0]

Deliver(c, e) == IF c.open THEN [c EXCEPT !.queue = Append(@, e)] ELSE c
Send(conns, e) == {Deliver(c, e) : c \in conns}

Init ==
  /\ venueQty = 0 /\ trades = 0
  /\ conn = {} /\ next = {} /\ est = "key"
  /\ kept = 0 /\ seen = {} /\ doubled = FALSE
  /\ tripped = FALSE /\ byRecon = FALSE /\ flattened = FALSE /\ closed = FALSE
  /\ streak = 0 /\ row = <<>> /\ sustained = FALSE
  /\ own = 0 /\ cuts = 0 /\ fails = 0 /\ reports = 0

-----------------------------------------------------------------------------
(* The venue (external).                                                   *)

Execute(d) ==
  /\ venueQty' = venueQty + d
  /\ trades' = trades + 1
  /\ conn' = Send(conn, Fill(d))
  /\ next' = Send(next, Fill(d))

ForeignTrade(d) ==
  /\ trades < MaxTrades
  /\ Execute(d)
  /\ UNCHANGED <<est, keeper, gate, guard, own, counts>>

SendPosition ==
  /\ reports < MaxReports
  /\ reports' = reports + 1
  /\ conn' = Send(conn, Position) /\ next' = Send(next, Position)
  /\ UNCHANGED <<venue, est, keeper, gate, guard, own, cuts, fails>>

\* A connection drops, and what was under way to it is lost ...
Cut ==
  /\ cuts < MaxCuts
  /\ \E c \in conn : /\ c.open
                     /\ \E n \in 0 .. Len(c.queue) :
                          conn' = {[c EXCEPT !.open = FALSE, !.queue = SubSeq(@, 1, n)]}
  /\ cuts' = cuts + 1
  /\ UNCHANGED <<venue, next, est, keeper, gate, guard, own, fails, reports>>

\* ... or its listen key expires, and the venue says so.
Expire ==
  /\ cuts < MaxCuts
  /\ \E c \in conn : /\ c.open
                     /\ conn' = {[c EXCEPT !.open = FALSE, !.queue = Append(@, Expired)]}
  /\ cuts' = cuts + 1
  /\ UNCHANGED <<venue, next, est, keeper, gate, guard, own, fails, reports>>

-----------------------------------------------------------------------------
(* UserDataSession.  The keeper absorbs each event pump returns.           *)

\* VenueKeeper::apply: a fill adds, a report or a snapshot sets.
Apply(e) ==
  \/ /\ e.kind = "fill"
     /\ kept' = kept + e.qty
     /\ seen' = seen \union {e.id}
     /\ UNCHANGED doubled
  \/ /\ e.kind = "position"
     /\ kept' = e.qty
     /\ seen' = 1 .. e.id
     /\ doubled' = FALSE

PumpEvent ==
  /\ est = "no"
  /\ \E c \in conn :
       /\ c.queue # <<>> /\ Head(c.queue) # Expired
       /\ Apply(Head(c.queue))
       /\ conn' = {[c EXCEPT !.queue = Tail(@)]}
  /\ UNCHANGED <<venue, next, est, gate, guard, own, counts>>

\* Mutant: the end of a connection is acted on once only.
PumpEndOnce ==
  /\ est = "no"
  /\ \E c \in conn :
       /\ ~c.open /\ ~c.ended
       /\ \/ c.queue = <<>>
          \/ c.queue # <<>> /\ Head(c.queue) = Expired
       /\ conn' = {[c EXCEPT !.queue = <<>>, !.ended = TRUE]}
  /\ est' = "key"
  /\ UNCHANGED <<venue, next, keeper, gate, guard, own, counts>>

\* The end of a connection, or an expired key: pump calls establish.
PumpEnd ==
  /\ est = "no"
  /\ \E c \in conn :
       /\ ~c.open
       /\ \/ c.queue = <<>> /\ (EndsAgain \/ ~c.ended)
          \/ c.queue # <<>> /\ Head(c.queue) = Expired
       /\ conn' = {[c EXCEPT !.queue = <<>>, !.ended = TRUE]}
  /\ est' = "key"
  /\ UNCHANGED <<venue, next, keeper, gate, guard, own, counts>>

\* establish: create the key, connect, take the snapshot.  Nothing of the
\* session changes before the third call has succeeded.
CreateKey ==
  /\ est = "key" /\ est' = "connect"
  /\ UNCHANGED <<venue, conn, next, keeper, gate, guard, own, counts>>

\* Mutant: the new connection replaces the old one before the snapshot.
ConnectCommits ==
  /\ est = "connect" /\ est' = "snapshot"
  /\ conn' = {NewConn} /\ next' = {NewConn}
  /\ UNCHANGED <<venue, keeper, gate, guard, own, counts>>

Connect ==
  /\ est = "connect" /\ est' = "snapshot"
  /\ next' = {NewConn}
  /\ UNCHANGED <<venue, conn, keeper, gate, guard, own, counts>>

Snapshot ==
  /\ est = "snapshot" /\ est' = "no"
  /\ conn' = next /\ next' = {}
  /\ kept' = venueQty
  /\ seen' = 1 .. trades
  /\ doubled' = \E c \in next : c.queue # <<>>
  /\ UNCHANGED <<venue, gate, guard, own, counts>>

\* A failed call returns the error; the session keeps its key and connection.
\* A caller whose initial connect failed calls it again.
SeamFails ==
  /\ est # "no" /\ fails < MaxFails
  /\ fails' = fails + 1
  /\ next' = {}
  /\ est' = IF conn = {} THEN "key" ELSE "no"
  /\ UNCHANGED <<venue, conn, keeper, gate, guard, own, cuts, reports>>

-----------------------------------------------------------------------------
(* The gate and the guard.                                                 *)

\* VenueKillGate::submit of an order the planner asked for.
SubmitOrder(d) ==
  /\ est = "no" /\ ~tripped /\ trades < MaxTrades
  /\ Execute(d)
  /\ own' = own + d
  /\ UNCHANGED <<est, keeper, gate, guard, counts>>

\* Mutant: a closing order does not latch.
EnforceKillAgain ==
  /\ est = "no" /\ tripped /\ kept # 0 /\ trades < MaxTrades + 2
  /\ Execute(-kept)
  /\ own' = own - kept
  /\ flattened' = TRUE /\ closed' = TRUE
  /\ UNCHANGED <<est, keeper, tripped, byRecon, guard, counts>>

\* Mutant: a flat or unknown position latches like a closed one.
EnforceKillLatchesFlat ==
  /\ est = "no" /\ tripped /\ ~flattened
  /\ flattened' = TRUE
  /\ IF kept = 0 THEN UNCHANGED <<venue, conn, next, own, closed>>
                 ELSE Execute(-kept) /\ own' = own - kept /\ closed' = TRUE
  /\ UNCHANGED <<est, keeper, tripped, byRecon, guard, counts>>

\* VenueKillGate::enforce_kill with the kept position: one closing order, sent
\* past the halt.  A flat or unknown position leaves the gate armed.
EnforceKill ==
  /\ est = "no" /\ tripped /\ ~flattened /\ kept # 0
  /\ Execute(-kept)
  /\ own' = own - kept
  /\ flattened' = TRUE /\ closed' = TRUE
  /\ UNCHANGED <<est, keeper, tripped, byRecon, guard, counts>>

Abs(n) == IF n < 0 THEN -n ELSE n
AtLeast(lo, n) == IF n < lo THEN lo ELSE n

\* The streak is counted as far as it can matter.
Breach == Abs(own - venueQty) > AtLeast(0, Tolerance)

StreakAfter == IF ~Breach THEN 0
               ELSE IF streak < AtLeast(1, Consecutive) THEN streak + 1 ELSE streak
Halts(n) == ~AlarmOnly /\ n >= AtLeast(1, Consecutive)

\* The last checks, and whether all of as many as must agree were breaches.
RowAfter == LET n == AtLeast(1, Consecutive)
                r == Append(row, Breach)
            IN  IF Len(r) > n THEN Tail(r) ELSE r
AllBreaches(r) == Len(r) = AtLeast(1, Consecutive) /\ \A i \in DOMAIN r : r[i]

\* ReconciliationGuard::check against the venue's position report.
Check ==
  /\ est = "no"
  /\ streak' = StreakAfter
  /\ row' = RowAfter
  /\ sustained' = (sustained \/ AllBreaches(RowAfter))
  /\ tripped' = (tripped \/ (Breach /\ Halts(StreakAfter)))
  /\ byRecon' = (byRecon \/ (~tripped /\ tripped'))
  /\ UNCHANGED <<venue, session, keeper, flattened, closed, own, counts>>

\* Any other holder of the kill handle.
Trip ==
  /\ ~tripped
  /\ tripped' = TRUE
  /\ UNCHANGED <<venue, session, keeper, byRecon, flattened, closed, guard, own, counts>>

-----------------------------------------------------------------------------
Next ==
  \/ \E d \in Foreign : ForeignTrade(d)
  \/ SendPosition \/ Cut \/ Expire
  \/ PumpEvent \/ PumpEnd \/ CreateKey \/ Connect \/ Snapshot \/ SeamFails
  \/ \E d \in Deltas : SubmitOrder(d)
  \/ EnforceKill \/ Check \/ Trip

Spec == Init /\ [][Next]_vars

\* The loop keeps pumping, checking and enforcing, and a call that is retried
\* succeeds in the end (failures are bounded).  The venue owes nothing.
Fairness ==
  /\ WF_vars(PumpEvent \/ PumpEnd) /\ WF_vars(CreateKey \/ Connect \/ Snapshot)
  /\ WF_vars(EnforceKill)

FairSpec == Spec /\ Fairness

-----------------------------------------------------------------------------
Event == [kind : {"fill", "position", "expired"}, qty : Int, id : Nat]
Conn  == [open : BOOLEAN, queue : Seq(Event), ended : BOOLEAN]
AtMostOne(S) == \A c, d \in S : c = d

TypeOK ==
  /\ {venueQty, kept, own} \subseteq Int
  /\ {trades, streak, cuts, fails, reports} \subseteq Nat
  /\ conn \union next \subseteq Conn /\ AtMostOne(conn) /\ AtMostOne(next)
  /\ est \in {"no", "key", "connect", "snapshot"}
  /\ next # {} => est = "snapshot"
  /\ {tripped, byRecon, flattened, closed, doubled, sustained} \subseteq BOOLEAN
  /\ row \in Seq(BOOLEAN) /\ seen \subseteq Nat

\* The loop has taken everything a live stream has delivered.
Drained == est = "no" /\ \E c \in conn : c.open /\ c.queue = <<>>

\* However the stream was cut, expired or failed to come back, once it is
\* drained no trade is missing from the kept position: the connection is opened
\* before the snapshot is taken, and neither replaces the old one alone
\* (establish: "position truth is re-established without loss").
NothingLost == Drained => seen = 1 .. trades

\* ... and unless a trade fell between the connect and the snapshot, where it
\* is counted by both, the kept position is the venue's (VenueKeeper::apply).
ExactUnlessDoubled == Drained /\ ~doubled => kept = venueQty

\* The guard trips the switch exactly when Consecutive checks in a row were
\* breaches: a reconciled check in between starts the count anew, and the last
\* one of the row already halts (check_qty).
ReconExact ==
  /\ byRecon => sustained
  /\ sustained /\ ~AlarmOnly => tripped

\* What the account side owes the loop: a complete position, and a guard that
\* halts for a sustained breach and for nothing else.
FeedSound == TypeOK /\ NothingLost /\ ExactUnlessDoubled /\ ReconExact

\* From the trip on no planner's order is sent, and the gate sends one order in
\* all, whatever the stream still reports from before it: the order closes what
\* the keeper holds, and if nothing was under way on the stream and no trade was
\* counted twice, it leaves the venue flat (submit, enforce_kill).
HaltedForGood ==
  [][tripped =>
       /\ tripped' /\ (flattened => flattened')
       /\ own' # own => /\ ~flattened /\ flattened'
                        /\ own' = own - kept
                        /\ Drained /\ ~doubled => venueQty' = 0]_vars

\* A stream that ended comes back, through failed keys, connects and snapshots
\* (pump, establish).
FeedRecovers == (est # "no" \/ \E c \in conn : ~c.open) ~> Drained

\* A tripped switch closes the position, also one the keeper does not know yet
\* when the switch trips and learns only from a reconnect: the gate stays armed
\* while the kept position is flat (enforce_kill).
KillCloses ==
  (tripped /\ venueQty # 0) ~> (closed \/ venueQty = 0 \/ doubled)
=============================================================================
