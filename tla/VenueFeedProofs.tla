-------------------------- MODULE VenueFeedProofs ---------------------------
(***************************************************************************)
(* Proofs about VenueFeed, for any order sizes, tolerance and streak and   *)
(* any number of trades, cuts, failed calls and position reports.          *)
(***************************************************************************)
EXTENDS VenueFeed, TLAPS

USE DEF venue, session, keeper, gate, guard, counts

-----------------------------------------------------------------------------
(* What a queue of events still holds.                                     *)

\* After position report i of the queue the trade t is accounted for.
Keeps(q, t, i) == \A j \in DOMAIN q : j > i /\ q[j].kind = "position" => q[j].id >= t

\* Applying the queue to the trades S accounts for the trade t: t is in S or some
\* event brings it, and no later report, which sets the position, predates it.
Covers(q, S, t) ==
  \/ t \in S /\ Keeps(q, t, 0)
  \/ \E i \in DOMAIN q : /\ \/ q[i].kind = "fill" /\ q[i].id = t
                            \/ q[i].kind = "position" /\ q[i].id >= t
                         /\ Keeps(q, t, i)

\* w[i] is the venue's position after event i of the queue, and v the last one.
Told(q, w, v) ==
  /\ w \in [0 .. Len(q) -> Int]
  /\ w[Len(q)] = v
  /\ \A i \in 1 .. Len(q) : /\ q[i].kind = "fill" => w[i] = w[i - 1] + q[i].qty
                            /\ q[i].kind = "position" => w[i] = q[i].qty

\* A new fill is covered, and uncovers nothing.
LEMMA CoversFill ==
  ASSUME NEW q \in Seq(Event), NEW S, NEW n \in Nat, NEW e \in Event, e.kind = "fill", e.id = n + 1,
         \A t \in 1 .. n : Covers(q, S, t)
  PROVE  \A t \in 1 .. n + 1 : Covers(Append(q, e), S, t)
<1> DEFINE r == Append(q, e)
<1>1. /\ Len(q) \in Nat /\ DOMAIN q = 1 .. Len(q) /\ DOMAIN r = 1 .. Len(q) + 1
      /\ \A i \in DOMAIN q : r[i] = q[i]
      /\ r[Len(q) + 1] = e
  OBVIOUS
<1> HIDE DEF r
<1>2. ASSUME NEW t \in 1 .. n  PROVE Covers(r, S, t)
  BY <1>1, <1>2 DEF Covers, Keeps
<1>3. Covers(r, S, n + 1)  BY <1>1 DEF Covers, Keeps
<1> QED  BY <1>2, <1>3 DEF r

\* A new report of the venue's position covers everything so far.
LEMMA CoversReport ==
  ASSUME NEW q \in Seq(Event), NEW S, NEW n \in Nat, NEW e \in Event, e.kind = "position", e.id = n
  PROVE  \A t \in 1 .. n : Covers(Append(q, e), S, t)
<1> DEFINE r == Append(q, e)
<1>1. /\ Len(q) \in Nat /\ DOMAIN r = 1 .. Len(q) + 1 /\ r[Len(q) + 1] = e
  OBVIOUS
<1> HIDE DEF r
<1>2. ASSUME NEW t \in 1 .. n  PROVE Covers(r, S, t)
  BY <1>1, <1>2 DEF Covers, Keeps
<1> QED  BY <1>2 DEF r

\* The keeper takes over what the first event covered.
LEMMA CoversTail ==
  ASSUME NEW q \in Seq(Event), q # <<>>, NEW S, NEW T, NEW t \in Nat, Covers(q, S, t),
         \/ Head(q).kind = "fill" /\ T = S \union {Head(q).id}
         \/ Head(q).kind = "position" /\ T = 1 .. Head(q).id /\ t >= 1
  PROVE  Covers(Tail(q), T, t)
<1> DEFINE r == Tail(q)
<1>1. /\ Len(q) \in Nat /\ DOMAIN q = 1 .. Len(q) /\ Len(q) >= 1 /\ DOMAIN r = 1 .. Len(q) - 1
      /\ \A i \in 1 .. Len(q) - 1 : r[i] = q[i + 1]
      /\ q[1] = Head(q) /\ q[1] \in Event
  OBVIOUS
<1>2. \A i \in Nat : Keeps(q, t, i + 1) => Keeps(r, t, i)
  BY <1>1 DEF Keeps
<1> HIDE DEF r
<1>3. CASE t \in S /\ Keeps(q, t, 0)
  <2>1. Keeps(r, t, 0)  BY <1>1, <1>3 DEF Keeps
  <2>2. t \in T  BY <1>1, <1>3 DEF Keeps, Event
  <2> QED  BY <2>1, <2>2 DEF Covers, r
<1>4. ASSUME NEW i \in DOMAIN q,
             \/ q[i].kind = "fill" /\ q[i].id = t
             \/ q[i].kind = "position" /\ q[i].id >= t,
             Keeps(q, t, i)
      PROVE  Covers(r, T, t)
  <2>1. CASE i = 1
    <3>1. Keeps(r, t, 0)  BY <1>2, <1>4, <2>1
    <3>2. t \in T  BY <1>1, <1>4, <2>1 DEF Event
    <3> QED  BY <3>1, <3>2 DEF Covers
  <2>2. CASE i # 1
    <3>1. i - 1 \in DOMAIN r /\ r[i - 1] = q[i] /\ i - 1 \in Nat  BY <1>1, <2>2
    <3>2. Keeps(r, t, i - 1)  BY <1>1, <1>2, <1>4, <3>1
    <3> QED  BY <1>4, <3>1, <3>2 DEF Covers
  <2> QED  BY <2>1, <2>2
<1> QED  BY <1>3, <1>4 DEF Covers, r

\* A new event tells the next position.
LEMMA ToldAppend ==
  ASSUME NEW q \in Seq(Event), NEW w, NEW v \in Int, NEW e \in Event, Told(q, w, v)
  PROVE  \E x : Told(Append(q, e), x, IF e.kind = "fill" THEN v + e.qty ELSE e.qty) /\ x[0] = w[0]
<1> DEFINE u == IF e.kind = "fill" THEN v + e.qty ELSE e.qty
           r == Append(q, e)
           x == [i \in 0 .. Len(q) + 1 |-> IF i = Len(q) + 1 THEN u ELSE w[i]]
<1>0. u \in Int /\ (e.kind = "fill" => u = v + e.qty) /\ (e.kind = "position" => u = e.qty)
  BY DEF Event
<1> HIDE DEF u
<1>1. /\ Len(q) \in Nat /\ Len(r) = Len(q) + 1 /\ \A i \in 1 .. Len(q) : r[i] = q[i]
      /\ r[Len(q) + 1] = e
  OBVIOUS
<1>2. Told(r, x, u)
  <2>1. x \in [0 .. Len(r) -> Int] /\ x[Len(r)] = u  BY <1>0, <1>1 DEF Told
  <2>2. ASSUME NEW i \in 1 .. Len(r)
        PROVE  /\ r[i].kind = "fill" => x[i] = x[i - 1] + r[i].qty
               /\ r[i].kind = "position" => x[i] = r[i].qty
    <3>1. CASE i = Len(r)  BY <1>0, <1>1, <3>1 DEF Told
    <3>2. CASE i # Len(r)  BY <1>1, <3>2 DEF Told
    <3> QED  BY <3>1, <3>2
  <2> QED  BY <2>1, <2>2 DEF Told
<1>3. x[0] = w[0]  BY <1>1
<1> QED  BY <1>2, <1>3 DEF u

\* ... for a fill and for a report.
LEMMA ToldFill ==
  ASSUME NEW q \in Seq(Event), NEW w, NEW v \in Int, NEW e \in Event, Told(q, w, v), e.kind = "fill"
  PROVE  \E x : Told(Append(q, e), x, v + e.qty) /\ x[0] = w[0]
<1>1. PICK x : Told(Append(q, e), x, IF e.kind = "fill" THEN v + e.qty ELSE e.qty) /\ x[0] = w[0]
  BY ToldAppend
<1> QED  BY <1>1

LEMMA ToldReport ==
  ASSUME NEW q \in Seq(Event), NEW w, NEW v \in Int, NEW e \in Event, Told(q, w, v), e.kind = "position"
  PROVE  \E x : Told(Append(q, e), x, e.qty) /\ x[0] = w[0]
<1>1. PICK x : Told(Append(q, e), x, IF e.kind = "fill" THEN v + e.qty ELSE e.qty) /\ x[0] = w[0]
  BY ToldAppend
<1> QED  BY <1>1

\* The first event tells what the keeper now holds.
LEMMA ToldTail ==
  ASSUME NEW q \in Seq(Event), q # <<>>, NEW w, NEW v \in Int, Told(q, w, v)
  PROVE  \E x : Told(Tail(q), x, v) /\ x[0] = w[1]
<1> DEFINE r == Tail(q)
           x == [i \in 0 .. Len(q) - 1 |-> w[i + 1]]
<1>1. /\ Len(q) \in Nat /\ Len(q) >= 1 /\ Len(r) = Len(q) - 1
      /\ \A i \in 1 .. Len(q) - 1 : r[i] = q[i + 1]
  OBVIOUS
<1>2. x \in [0 .. Len(r) -> Int] /\ x[Len(r)] = v  BY <1>1 DEF Told
<1>3. ASSUME NEW i \in 1 .. Len(r)
      PROVE  /\ r[i].kind = "fill" => x[i] = x[i - 1] + r[i].qty
             /\ r[i].kind = "position" => x[i] = r[i].qty
  <2>1. x[i] = w[i + 1] /\ x[i - 1] = w[i] /\ r[i] = q[i + 1] /\ i + 1 \in 1 .. Len(q)  BY <1>1
  <2> QED  BY <2>1 DEF Told
<1>4. x[0] = w[1]  BY <1>1
<1> QED  BY <1>2, <1>3, <1>4 DEF Told

-----------------------------------------------------------------------------
(* The invariant of the feed.                                              *)

\* The events of every connection are about trades that have happened.
Dated ==
  /\ seen \subseteq 1 .. trades
  /\ \A c \in conn \union next : \A i \in DOMAIN c.queue :
       c.queue[i].id <= trades /\ (c.queue[i].kind = "fill" => c.queue[i].id >= 1)

\* A connection being opened stays open and will make up for every trade after
\* its snapshot; one in use makes up for every trade the keeper has not seen.
Complete ==
  /\ \A c \in next : c.open /\ \A t \in 1 .. trades : Covers(c.queue, 1 .. trades, t)
  /\ \A c \in conn : c.open => \A t \in 1 .. trades : Covers(c.queue, seen, t)

\* Their events tell the venue's position, starting from the kept one unless
\* that may count a trade twice.
Truthful ==
  /\ \A c \in next : \E w : Told(c.queue, w, venueQty)
  /\ \A c \in conn : c.open => \E w : Told(c.queue, w, venueQty) /\ (~doubled => w[0] = kept)

\* The guard counts the breaches at the end of the row of checks.
Counted ==
  LET n == AtLeast(1, Consecutive)
  IN  /\ Len(row) <= n /\ streak <= Len(row)
      /\ \A i \in DOMAIN row : i > Len(row) - streak => row[i]
      /\ streak < Len(row) => ~row[Len(row) - streak]

Inv == TypeOK /\ Dated /\ Complete /\ Truthful /\ Counted /\ ReconExact /\ (flattened => tripped)

\* The invariant makes the feed sound.
LEMMA InvSound == Inv => FeedSound
<1> SUFFICES ASSUME Inv PROVE FeedSound
  OBVIOUS
<1>1. ASSUME Drained  PROVE seen = 1 .. trades /\ (~doubled => kept = venueQty)
  <2>1. PICK c \in conn : c.open /\ c.queue = <<>>  BY <1>1 DEF Drained
  <2>2. \A t \in 1 .. trades : t \in seen  BY <2>1 DEF Inv, Complete, Covers
  <2>3. seen = 1 .. trades  BY <2>2 DEF Inv, Dated
  <2>4. PICK w : Told(c.queue, w, venueQty) /\ (~doubled => w[0] = kept)  BY <2>1 DEF Inv, Truthful
  <2>5. w[0] = venueQty  BY <2>1, <2>4 DEF Told
  <2> QED  BY <2>3, <2>4, <2>5
<1> QED  BY <1>1 DEF Inv, FeedSound, NothingLost, ExactUnlessDoubled

\* It holds initially.
LEMMA InvInit == Init => Inv
<1> SUFFICES ASSUME Init PROVE Inv
  OBVIOUS
<1> USE DEF Init
<1>1. {tripped, byRecon, flattened, closed, doubled, sustained} \subseteq BOOLEAN  OBVIOUS
<1>2. TypeOK  BY <1>1 DEF TypeOK, AtMostOne
<1>3. Dated /\ Complete /\ Truthful  BY DEF Dated, Complete, Truthful
<1>4. Counted  BY GuardAssumption DEF Counted, AtLeast
<1>5. ReconExact /\ (flattened => tripped)  BY DEF ReconExact
<1> QED  BY <1>2, <1>3, <1>4, <1>5 DEF Inv

\* What sending an event does to a set of connections.
LEMMA SendType ==
  ASSUME NEW C \in SUBSET Conn, AtMostOne(C), NEW e \in Event
  PROVE  /\ Send(C, e) \in SUBSET Conn /\ AtMostOne(Send(C, e))
         /\ C = {} => Send(C, e) = {}
         /\ \A d \in Send(C, e) : \E c \in C : /\ d.open = c.open
                                               /\ c.open => d.queue = Append(c.queue, e)
                                               /\ ~c.open => d = c
<1>1. ASSUME NEW c \in C  PROVE /\ Deliver(c, e) \in Conn /\ Deliver(c, e).open = c.open
                                /\ c.open => Deliver(c, e).queue = Append(c.queue, e)
                                /\ ~c.open => Deliver(c, e) = c
  BY <1>1 DEF Deliver, Conn
<1> QED  BY <1>1 DEF Send, AtMostOne

\* The session's part of the type invariant.
ConnType ==
  /\ conn \union next \subseteq Conn /\ AtMostOne(conn) /\ AtMostOne(next)
  /\ est \in {"no", "key", "connect", "snapshot"}
  /\ next # {} => est = "snapshot"

Feed == Dated /\ Complete /\ Truthful

\* A trade reaches every open connection.
LEMMA ExecuteKeeps ==
  ASSUME Inv, NEW d \in Int, Execute(d), UNCHANGED <<est, keeper>>
  PROVE  venueQty' \in Int /\ trades' \in Nat /\ ConnType' /\ Feed'
<1> DEFINE e == Fill(d)
<1>0. /\ venueQty \in Int /\ trades \in Nat /\ kept \in Int
      /\ conn \in SUBSET Conn /\ next \in SUBSET Conn /\ AtMostOne(conn) /\ AtMostOne(next)
      /\ \A c \in conn \union next : c.queue \in Seq(Event) /\ c.open \in BOOLEAN
  BY DEF Inv, TypeOK, Conn
<1>1. e \in Event /\ e.kind = "fill" /\ e.id = trades + 1 /\ e.qty = d
  BY <1>0 DEF Fill, Event
<1>2. /\ venueQty' = venueQty + d /\ trades' = trades + 1
      /\ conn' = Send(conn, e) /\ next' = Send(next, e) /\ seen' = seen /\ kept' = kept
      /\ doubled' = doubled
  BY DEF Execute
<1> HIDE DEF e
<1>3. ConnType'  BY <1>0, <1>1, <1>2, SendType DEF Inv, TypeOK, ConnType
<1>4. Dated'
  <2>1. seen' \subseteq 1 .. trades'  BY <1>0, <1>2 DEF Inv, Dated
  <2>2. ASSUME NEW b \in conn' \union next', NEW i \in DOMAIN b.queue
        PROVE  b.queue[i].id <= trades' /\ (b.queue[i].kind = "fill" => b.queue[i].id >= 1)
    <3>1. PICK c \in conn \union next : /\ c.open => b.queue = Append(c.queue, e)
                                        /\ ~c.open => b = c
      BY <1>0, <1>1, <1>2, SendType
    <3>2. \A k \in DOMAIN c.queue : /\ c.queue[k].id <= trades /\ c.queue[k].id \in Nat
                                    /\ c.queue[k].kind = "fill" => c.queue[k].id >= 1
      <4>1. \A k \in DOMAIN c.queue : c.queue[k] \in Event  BY <1>0
      <4> QED  BY <4>1 DEF Inv, Dated, Event
    <3>3. CASE c.open
      <4>1. (i \in DOMAIN c.queue /\ b.queue[i] = c.queue[i]) \/ b.queue[i] = e
        <5>1. c.queue \in Seq(Event) /\ b.queue = Append(c.queue, e)  BY <1>0, <3>1, <3>3
        <5> QED  BY <5>1, <2>2
      <4> QED  BY <1>0, <1>1, <1>2, <3>2, <4>1
    <3>4. CASE ~c.open  BY <1>0, <1>2, <2>2, <3>1, <3>2, <3>4
    <3> QED  BY <1>0, <3>3, <3>4
  <2> QED  BY <2>1, <2>2 DEF Dated
<1>5. Complete'
  <2>1. ASSUME NEW b \in next'
        PROVE  b.open /\ \A t \in 1 .. trades' : Covers(b.queue, 1 .. trades', t)
    <3>1. PICK c \in next : b.open = c.open /\ (c.open => b.queue = Append(c.queue, e))
      BY <1>0, <1>1, <1>2, <2>1, SendType
    <3>2. c.open /\ \A t \in 1 .. trades : Covers(c.queue, 1 .. trades, t)  BY DEF Inv, Complete
    <3>3. \A t \in 1 .. trades : Covers(c.queue, 1 .. trades', t)
      BY <1>0, <1>2, <3>2 DEF Covers
    <3> QED  BY <1>0, <1>1, <1>2, <3>1, <3>2, <3>3, CoversFill
  <2>2. ASSUME NEW b \in conn', b.open
        PROVE  \A t \in 1 .. trades' : Covers(b.queue, seen', t)
    <3>1. PICK c \in conn : c.open /\ b.queue = Append(c.queue, e)
      BY <1>0, <1>1, <1>2, <2>2, SendType
    <3>2. \A t \in 1 .. trades : Covers(c.queue, seen, t)  BY <3>1 DEF Inv, Complete
    <3> QED  BY <1>0, <1>1, <1>2, <3>1, <3>2, CoversFill
  <2> QED  BY <2>1, <2>2 DEF Complete
<1>6. Truthful'
  <2>1. ASSUME NEW b \in next'  PROVE \E w : Told(b.queue, w, venueQty')
    <3>1. PICK c \in next : b.open = c.open /\ (c.open => b.queue = Append(c.queue, e))
      BY <1>0, <1>1, <1>2, <2>1, SendType
    <3>2. PICK w : Told(c.queue, w, venueQty)  BY DEF Inv, Truthful
    <3>3. c.open  BY DEF Inv, Complete
    <3>4. c.queue \in Seq(Event)  BY <1>0
    <3>5. \E x : Told(Append(c.queue, e), x, venueQty + e.qty) /\ x[0] = w[0]
      BY <1>0, <1>1, <3>2, <3>4, ToldFill
    <3> QED  BY <1>1, <1>2, <3>1, <3>3, <3>5
  <2>2. ASSUME NEW b \in conn', b.open
        PROVE  \E w : Told(b.queue, w, venueQty') /\ (~doubled' => w[0] = kept')
    <3>1. PICK c \in conn : c.open /\ b.queue = Append(c.queue, e)
      BY <1>0, <1>1, <1>2, <2>2, SendType
    <3>2. PICK w : Told(c.queue, w, venueQty) /\ (~doubled => w[0] = kept)
      BY <3>1 DEF Inv, Truthful
    <3>3. c.queue \in Seq(Event)  BY <1>0
    <3>4. PICK x : Told(Append(c.queue, e), x, venueQty + e.qty) /\ x[0] = w[0]
      BY <1>0, <1>1, <3>2, <3>3, ToldFill
    <3> QED  BY <1>1, <1>2, <3>1, <3>2, <3>4
  <2> QED  BY <2>1, <2>2 DEF Truthful
<1> QED  BY <1>0, <1>2, <1>3, <1>4, <1>5, <1>6 DEF Feed

\* A report of the position reaches them too.
LEMMA ReportKeeps ==
  ASSUME Inv, SendPosition
  PROVE  ConnType' /\ Feed'
<1> DEFINE e == Position
<1>0. /\ venueQty \in Int /\ trades \in Nat /\ kept \in Int
      /\ conn \in SUBSET Conn /\ next \in SUBSET Conn /\ AtMostOne(conn) /\ AtMostOne(next)
      /\ \A c \in conn \union next : c.queue \in Seq(Event) /\ c.open \in BOOLEAN
  BY DEF Inv, TypeOK, Conn
<1>1. e \in Event /\ e.kind = "position" /\ e.id = trades /\ e.qty = venueQty
  BY <1>0 DEF Position, Event
<1>2. /\ venueQty' = venueQty /\ trades' = trades /\ est' = est
      /\ conn' = Send(conn, e) /\ next' = Send(next, e) /\ seen' = seen /\ kept' = kept
      /\ doubled' = doubled
  BY DEF SendPosition
<1> HIDE DEF e
<1>3. ConnType'  BY <1>0, <1>1, <1>2, SendType DEF Inv, TypeOK, ConnType
<1>4. Dated'
  <2>1. seen' \subseteq 1 .. trades'  BY <1>2 DEF Inv, Dated
  <2>2. ASSUME NEW b \in conn' \union next', NEW i \in DOMAIN b.queue
        PROVE  b.queue[i].id <= trades' /\ (b.queue[i].kind = "fill" => b.queue[i].id >= 1)
    <3>1. PICK c \in conn \union next : /\ c.open => b.queue = Append(c.queue, e)
                                        /\ ~c.open => b = c
      BY <1>0, <1>1, <1>2, SendType
    <3>2. \A k \in DOMAIN c.queue : /\ c.queue[k].id <= trades
                                    /\ c.queue[k].kind = "fill" => c.queue[k].id >= 1
      BY DEF Inv, Dated
    <3>3. CASE c.open
      <4>1. (i \in DOMAIN c.queue /\ b.queue[i] = c.queue[i]) \/ b.queue[i] = e
        BY <1>0, <1>1, <2>2, <3>1, <3>3
      <4> QED  BY <1>0, <1>1, <1>2, <3>2, <4>1
    <3>4. CASE ~c.open  BY <1>2, <2>2, <3>1, <3>2, <3>4
    <3> QED  BY <1>0, <3>3, <3>4
  <2> QED  BY <2>1, <2>2 DEF Dated
<1>5. Complete'
  <2>1. ASSUME NEW b \in next'
        PROVE  b.open /\ \A t \in 1 .. trades' : Covers(b.queue, 1 .. trades', t)
    <3>1. PICK c \in next : b.open = c.open /\ (c.open => b.queue = Append(c.queue, e))
      BY <1>0, <1>1, <1>2, <2>1, SendType
    <3>2. c.open  BY DEF Inv, Complete
    <3> QED  BY <1>0, <1>1, <1>2, <3>1, <3>2, CoversReport
  <2>2. ASSUME NEW b \in conn', b.open
        PROVE  \A t \in 1 .. trades' : Covers(b.queue, seen', t)
    <3>1. PICK c \in conn : c.open /\ b.queue = Append(c.queue, e)
      BY <1>0, <1>1, <1>2, <2>2, SendType
    <3> QED  BY <1>0, <1>1, <1>2, <3>1, CoversReport
  <2> QED  BY <2>1, <2>2 DEF Complete
<1>6. Truthful'
  <2>1. ASSUME NEW b \in next'  PROVE \E w : Told(b.queue, w, venueQty')
    <3>1. PICK c \in next : b.open = c.open /\ (c.open => b.queue = Append(c.queue, e))
      BY <1>0, <1>1, <1>2, <2>1, SendType
    <3>2. PICK w : Told(c.queue, w, venueQty)  BY DEF Inv, Truthful
    <3>3. c.open  BY DEF Inv, Complete
    <3>4. c.queue \in Seq(Event)  BY <1>0
    <3>5. \E x : Told(Append(c.queue, e), x, e.qty) /\ x[0] = w[0]
      BY <1>0, <1>1, <3>2, <3>4, ToldReport
    <3> QED  BY <1>1, <1>2, <3>1, <3>3, <3>5
  <2>2. ASSUME NEW b \in conn', b.open
        PROVE  \E w : Told(b.queue, w, venueQty') /\ (~doubled' => w[0] = kept')
    <3>1. PICK c \in conn : c.open /\ b.queue = Append(c.queue, e)
      BY <1>0, <1>1, <1>2, <2>2, SendType
    <3>2. PICK w : Told(c.queue, w, venueQty) /\ (~doubled => w[0] = kept)
      BY <3>1 DEF Inv, Truthful
    <3>3. c.queue \in Seq(Event)  BY <1>0
    <3>4. PICK x : Told(Append(c.queue, e), x, e.qty) /\ x[0] = w[0]
      BY <1>0, <1>1, <3>2, <3>3, ToldReport
    <3> QED  BY <1>1, <1>2, <3>1, <3>2, <3>4
  <2> QED  BY <2>1, <2>2 DEF Truthful
<1> QED  BY <1>3, <1>4, <1>5, <1>6 DEF Feed

\* A connection that ends keeps a part of what it received, or learns of it.
LEMMA EndKeeps ==
  ASSUME Inv, Cut \/ Expire
  PROVE  ConnType' /\ Feed'
<1>0. /\ trades \in Nat /\ conn \in SUBSET Conn /\ next \in SUBSET Conn
      /\ AtMostOne(conn) /\ AtMostOne(next)
      /\ \A c \in conn \union next : c.queue \in Seq(Event)
  BY DEF Inv, TypeOK, Conn
<1>1. /\ venueQty' = venueQty /\ trades' = trades /\ est' = est /\ next' = next
      /\ seen' = seen /\ kept' = kept /\ doubled' = doubled
  BY DEF Cut, Expire
<1>2. PICK c \in conn, q \in Seq(Event) :
        /\ conn' = {[c EXCEPT !.open = FALSE, !.queue = q]}
        /\ \A i \in DOMAIN q : q[i] = Expired \/ \E j \in DOMAIN c.queue : q[i] = c.queue[j]
  <2>1. CASE Cut
    <3>1. PICK c \in conn : \E n \in 0 .. Len(c.queue) :
            conn' = {[c EXCEPT !.open = FALSE, !.queue = SubSeq(@, 1, n)]}
      BY <2>1 DEF Cut
    <3> PICK n \in 0 .. Len(c.queue) :
            conn' = {[c EXCEPT !.open = FALSE, !.queue = SubSeq(@, 1, n)]}
      BY <3>1
    <3>2. c.queue \in Seq(Event)  BY <1>0
    <3>3. SubSeq(c.queue, 1, n) \in Seq(Event)  BY <3>2
    <3>4. \A i \in DOMAIN SubSeq(c.queue, 1, n) : \E j \in DOMAIN c.queue : SubSeq(c.queue, 1, n)[i] = c.queue[j]
      BY <3>2
    <3> QED  BY <3>1, <3>3, <3>4
  <2>2. CASE Expire
    <3>1. PICK c \in conn : conn' = {[c EXCEPT !.open = FALSE, !.queue = Append(@, Expired)]}
      BY <2>2 DEF Expire
    <3>2. c.queue \in Seq(Event) /\ Expired \in Event  BY <1>0 DEF Event, Expired
    <3>3. Append(c.queue, Expired) \in Seq(Event)  BY <3>2
    <3>4. \A i \in DOMAIN Append(c.queue, Expired) :
            \/ Append(c.queue, Expired)[i] = Expired
            \/ \E j \in DOMAIN c.queue : Append(c.queue, Expired)[i] = c.queue[j]
      BY <3>2
    <3> QED  BY <3>1, <3>3, <3>4
  <2> QED  BY <2>1, <2>2
<1> DEFINE d == [c EXCEPT !.open = FALSE, !.queue = q]
<1>3. d \in Conn /\ ~d.open /\ d.queue = q  BY <1>0, <1>2 DEF Conn
<1>4. conn' = {d}  BY <1>2
<1> HIDE DEF d
<1>5. ConnType'  BY <1>0, <1>1, <1>3, <1>4 DEF Inv, TypeOK, ConnType, AtMostOne
<1>6. Dated'
  <2>1. \A i \in DOMAIN q : q[i].id <= trades /\ (q[i].kind = "fill" => q[i].id >= 1)
    BY <1>0, <1>2 DEF Inv, Dated, Expired
  <2> QED  BY <1>1, <1>3, <1>4, <2>1 DEF Inv, Dated
<1>7. Complete' /\ Truthful'  BY <1>1, <1>3, <1>4 DEF Inv, Complete, Truthful
<1> QED  BY <1>5, <1>6, <1>7 DEF Feed

\* The keeper takes an event over from the connection.
LEMMA PumpKeeps ==
  ASSUME Inv, PumpEvent
  PROVE  ConnType' /\ Feed' /\ kept' \in Int /\ seen' \subseteq Nat /\ doubled' \in BOOLEAN
<1>0. /\ venueQty \in Int /\ trades \in Nat /\ kept \in Int /\ doubled \in BOOLEAN
      /\ conn \in SUBSET Conn /\ next \in SUBSET Conn
      /\ AtMostOne(conn) /\ AtMostOne(next) /\ next = {}
      /\ \A c \in conn \union next : c.queue \in Seq(Event)
  BY DEF Inv, TypeOK, Conn, PumpEvent
<1>1. venueQty' = venueQty /\ trades' = trades /\ est' = est /\ next' = next
  BY DEF PumpEvent
<1>2. PICK c \in conn : /\ c.queue # <<>>
                        /\ Apply(Head(c.queue))
                        /\ conn' = {[c EXCEPT !.queue = Tail(@)]}
  BY DEF PumpEvent
<1> DEFINE e == Head(c.queue)
           d == [c EXCEPT !.queue = Tail(@)]
<1>3. c.queue \in Seq(Event)  BY <1>0
<1>4. e \in Event /\ Tail(c.queue) \in Seq(Event) /\ e = c.queue[1] /\ 1 \in DOMAIN c.queue
  BY <1>2, <1>3
<1>5. d \in Conn /\ d.open = c.open /\ d.queue = Tail(c.queue)  BY <1>0, <1>4 DEF Conn
<1>6. conn' = {d} /\ Apply(e)  BY <1>2
<1>7. /\ e.id \in Nat /\ e.qty \in Int /\ e.id <= trades /\ (e.kind = "fill" => e.id >= 1)
  BY <1>4 DEF Inv, Dated, Event
<1> HIDE DEF d
<1>8. /\ \/ e.kind = "fill" /\ seen' = seen \union {e.id}
         \/ e.kind = "position" /\ seen' = 1 .. e.id
      /\ kept' \in Int /\ seen' \subseteq 1 .. trades /\ doubled' \in BOOLEAN
  <2>0. seen \subseteq 1 .. trades  BY DEF Inv, Dated
  <2>1. doubled' \in BOOLEAN  BY <1>0, <1>6, Zenon DEF Apply
  <2>2. \/ e.kind = "fill" /\ seen' = seen \union {e.id} /\ kept' = kept + e.qty
        \/ e.kind = "position" /\ seen' = 1 .. e.id /\ kept' = e.qty
    BY <1>6, Zenon DEF Apply
  <2> HIDE DEF e
  <2>3. kept' \in Int  BY <1>0, <1>7, <2>2
  <2>4. 1 .. e.id \subseteq 1 .. trades /\ (e.kind = "fill" => e.id \in 1 .. trades)  BY <1>0, <1>7
  <2>5. seen' \subseteq 1 .. trades  BY <2>0, <2>2, <2>4
  <2> QED  BY <2>1, <2>2, <2>3, <2>5
<1>9. ConnType'  BY <1>0, <1>1, <1>5, <1>6 DEF Inv, TypeOK, ConnType, AtMostOne
<1>10. Dated'
  <2>1. \A i \in DOMAIN d.queue : \E j \in DOMAIN c.queue : d.queue[i] = c.queue[j]
    BY <1>2, <1>3, <1>5
  <2> QED  BY <1>0, <1>1, <1>6, <1>8, <2>1 DEF Inv, Dated
<1>11. Complete'
  <2>1. ASSUME d.open, NEW t \in 1 .. trades  PROVE Covers(d.queue, seen', t)
    <3>1. Covers(c.queue, seen, t)  BY <1>5, <2>1 DEF Inv, Complete
    <3>2. \/ e.kind = "fill" /\ seen' = seen \union {e.id}
          \/ e.kind = "position" /\ seen' = 1 .. e.id /\ t >= 1
      BY <1>8
    <3>3. Covers(Tail(c.queue), seen', t)  BY <1>2, <1>3, <3>1, <3>2, CoversTail
    <3> QED  BY <1>5, <3>3
  <2> QED  BY <1>0, <1>1, <1>6, <2>1 DEF Complete
<1>12. Truthful'
  <2>1. ASSUME d.open  PROVE \E w : Told(d.queue, w, venueQty) /\ (~doubled' => w[0] = kept')
    <3>1. PICK w : Told(c.queue, w, venueQty) /\ (~doubled => w[0] = kept)
      BY <1>5, <2>1 DEF Inv, Truthful
    <3>2. PICK x : Told(Tail(c.queue), x, venueQty) /\ x[0] = w[1]
      BY <1>0, <1>2, <1>3, <3>1, ToldTail
    <3>3. /\ e.kind = "fill" => w[1] = w[0] + e.qty
          /\ e.kind = "position" => w[1] = e.qty
      BY <1>3, <1>4, <3>1 DEF Told
    <3>4. ~doubled' => w[1] = kept'  BY <1>6, <3>1, <3>3 DEF Apply
    <3> QED  BY <1>5, <3>2, <3>4
  <2> QED  BY <1>0, <1>1, <1>6, <2>1 DEF Truthful
<1> QED  BY <1>0, <1>8, <1>9, <1>10, <1>11, <1>12 DEF Feed

\* establish: a new connection misses nothing, and replaces the old one together
\* with the snapshot.
LEMMA EstablishKeeps ==
  ASSUME Inv, PumpEnd \/ CreateKey \/ Connect \/ Snapshot \/ SeamFails
  PROVE  ConnType' /\ Feed' /\ kept' \in Int /\ seen' \subseteq Nat /\ doubled' \in BOOLEAN
<1>0. /\ venueQty \in Int /\ trades \in Nat /\ kept \in Int
      /\ seen \subseteq Nat
      /\ conn \in SUBSET Conn /\ next \in SUBSET Conn
      /\ AtMostOne(conn) /\ AtMostOne(next) /\ (next # {} => est = "snapshot")
      /\ est \in {"no", "key", "connect", "snapshot"}
  BY DEF Inv, TypeOK
<1>b. doubled \in BOOLEAN  BY DEF Inv, TypeOK
<1>1. CASE PumpEnd
  <2>1. /\ venueQty' = venueQty /\ trades' = trades /\ est' = "key" /\ next' = {}
        /\ seen' = seen /\ kept' = kept /\ doubled' = doubled
    BY <1>0, <1>1 DEF PumpEnd
  <2>2. PICK c \in conn : ~c.open /\ conn' = {[c EXCEPT !.queue = <<>>, !.ended = TRUE]}
    BY <1>1 DEF PumpEnd
  <2> DEFINE d == [c EXCEPT !.queue = <<>>, !.ended = TRUE]
  <2>3. d \in Conn /\ ~d.open /\ d.queue = <<>>
    <3>1. <<>> \in Seq(Event) /\ TRUE \in BOOLEAN  OBVIOUS
    <3> QED  BY <1>0, <2>2, <3>1 DEF Conn
  <2>4. conn' = {d}  BY <2>2
  <2> HIDE DEF d
  <2>5. ConnType'  BY <1>0, <2>1, <2>3, <2>4 DEF ConnType, AtMostOne
  <2>6. Feed'  BY <1>0, <2>1, <2>3, <2>4 DEF Inv, Feed, Dated, Complete, Truthful
  <2> QED  BY <1>0, <1>b, <2>1, <2>5, <2>6
<1>2. CASE CreateKey
  <2>1. /\ venueQty' = venueQty /\ trades' = trades /\ est' = "connect" /\ next' = next
        /\ conn' = conn /\ seen' = seen /\ kept' = kept /\ doubled' = doubled /\ next = {}
    BY <1>0, <1>2 DEF CreateKey
  <2>2. ConnType'  BY <1>0, <2>1 DEF ConnType, AtMostOne
  <2>3. Feed'  BY <2>1 DEF Inv, Feed, Dated, Complete, Truthful
  <2> QED  BY <1>0, <1>b, <2>1, <2>2, <2>3
<1>3. CASE Connect
  <2>1. /\ venueQty' = venueQty /\ trades' = trades /\ est' = "snapshot" /\ next' = {NewConn}
        /\ conn' = conn /\ seen' = seen /\ kept' = kept /\ doubled' = doubled
    BY <1>3 DEF Connect
  <2>2. NewConn \in Conn /\ NewConn.open /\ NewConn.queue = <<>>  BY DEF NewConn, Conn
  <2>3. ConnType'  BY <1>0, <2>1, <2>2 DEF ConnType, AtMostOne
  <2>4. Dated'  BY <2>1, <2>2 DEF Inv, Dated
  <2>5. Complete'
    <3>1. \A t \in 1 .. trades : Covers(<<>>, 1 .. trades, t)  BY DEF Covers, Keeps
    <3> QED  BY <2>1, <2>2, <3>1 DEF Inv, Complete
  <2>6. Truthful'
    <3>1. Told(<<>>, [i \in 0 .. 0 |-> venueQty], venueQty)  BY <1>0 DEF Told
    <3> QED  BY <2>1, <2>2, <3>1 DEF Inv, Truthful
  <2> QED  BY <1>0, <1>b, <2>1, <2>3, <2>4, <2>5, <2>6 DEF Feed
<1>4. CASE Snapshot
  <2>1. /\ venueQty' = venueQty /\ trades' = trades /\ est' = "no" /\ next' = {}
        /\ conn' = next /\ seen' = 1 .. trades /\ kept' = venueQty
        /\ doubled' = \E c \in next : c.queue # <<>>
    BY <1>4 DEF Snapshot
  <2>2. doubled' \in BOOLEAN  BY <2>1, Zenon
  <2>3. ConnType'  BY <1>0, <2>1 DEF ConnType, AtMostOne
  <2>4. Dated'  BY <2>1 DEF Inv, Dated
  <2>5. Complete'  BY <2>1 DEF Inv, Complete
  <2>6. Truthful'
    <3>1. ASSUME NEW c \in next
          PROVE  \E w : Told(c.queue, w, venueQty) /\ (~doubled' => w[0] = venueQty)
      <4>1. PICK w : Told(c.queue, w, venueQty)  BY <3>1 DEF Inv, Truthful
      <4>2. c.queue = <<>> => w[0] = venueQty  BY <4>1 DEF Told
      <4>3. c.queue # <<>> => doubled'  BY <2>1, <3>1
      <4> QED  BY <4>1, <4>2, <4>3
    <3> QED  BY <2>1, <3>1 DEF Truthful
  <2> QED  BY <1>0, <2>1, <2>2, <2>3, <2>4, <2>5, <2>6 DEF Feed
<1>5. CASE SeamFails
  <2>1. /\ venueQty' = venueQty /\ trades' = trades /\ est' \in {"key", "no"} /\ next' = {}
        /\ conn' = conn /\ seen' = seen /\ kept' = kept /\ doubled' = doubled
    BY <1>5 DEF SeamFails
  <2>2. ConnType'  BY <1>0, <2>1 DEF ConnType, AtMostOne
  <2>3. Feed'  BY <2>1 DEF Inv, Feed, Dated, Complete, Truthful
  <2> QED  BY <1>0, <1>b, <2>1, <2>2, <2>3
<1> QED  BY <1>1, <1>2, <1>3, <1>4, <1>5

\* The last checks are all breaches exactly when the streak is as long as it
\* must be, and then the guard halts.
LEMMA CheckKeeps ==
  ASSUME Inv, Check
  PROVE  /\ streak' \in Nat /\ row' \in Seq(BOOLEAN) /\ Counted'
         /\ sustained' = (sustained \/ (Breach /\ StreakAfter = AtLeast(1, Consecutive)))
<1> DEFINE n == AtLeast(1, Consecutive)
           r == Append(row, Breach)
<1>0. streak \in Nat /\ row \in Seq(BOOLEAN) /\ n \in Nat /\ n >= 1
  BY GuardAssumption DEF Inv, TypeOK, AtLeast
<1>1. Breach \in BOOLEAN  BY DEF Breach
<1>2. /\ streak' = StreakAfter /\ row' = RowAfter
      /\ sustained' = (sustained \/ AllBreaches(RowAfter))
  BY DEF Check
<1>3. /\ Len(row) <= n /\ streak <= Len(row)
      /\ \A i \in DOMAIN row : i > Len(row) - streak => row[i]
      /\ streak < Len(row) => ~row[Len(row) - streak]
  BY DEF Inv, Counted
<1>4. /\ r \in Seq(BOOLEAN) /\ Len(r) = Len(row) + 1 /\ Len(row) \in Nat
      /\ DOMAIN r = 1 .. Len(row) + 1
      /\ \A i \in 1 .. Len(row) : r[i] = row[i]
      /\ r[Len(row) + 1] = Breach
  BY <1>0, <1>1
<1>5. RowAfter = IF Len(r) > n THEN Tail(r) ELSE r  BY DEF RowAfter
<1> DEFINE s == RowAfter
<1>6. StreakAfter \in Nat  BY <1>0 DEF StreakAfter
<1>7. PICK k \in {0, 1} :
        /\ s \in Seq(BOOLEAN) /\ Len(s) <= n /\ Len(s) \in Nat /\ Len(s) >= 1 /\ DOMAIN s = 1 .. Len(s)
        /\ Len(s) = Len(row) + 1 - k /\ (k = 1 <=> Len(row) = n)
        /\ \A i \in 1 .. Len(s) : s[i] = r[i + k]
  <2> HIDE DEF r, n
  <2>1. CASE Len(r) > n
    <3>1. s = Tail(r) /\ r # <<>>  BY <1>4, <1>5, <2>1
    <3>2. /\ s \in Seq(BOOLEAN) /\ Len(s) <= n /\ Len(s) \in Nat /\ Len(s) >= 1
          /\ DOMAIN s = 1 .. Len(s)
          /\ Len(s) = Len(row) + 1 - 1 /\ Len(row) = n
          /\ \A i \in 1 .. Len(s) : s[i] = r[i + 1]
      BY <1>0, <1>3, <1>4, <2>1, <3>1
    <3> QED  BY <3>2
  <2>2. CASE ~(Len(r) > n)
    <3>1. s = r  BY <1>5, <2>2
    <3>2. /\ s \in Seq(BOOLEAN) /\ Len(s) <= n /\ Len(s) \in Nat /\ Len(s) >= 1
          /\ DOMAIN s = 1 .. Len(s)
          /\ Len(s) = Len(row) + 1 - 0 /\ Len(row) # n
      BY <1>0, <1>3, <1>4, <2>2, <3>1
    <3>3. \A i \in 1 .. Len(s) : s[i] = r[i + 0]  BY <1>4, <3>1, <3>2
    <3> QED  BY <3>2, <3>3
  <2> QED  BY <2>1, <2>2
<1>8. StreakAfter = IF ~Breach THEN 0 ELSE IF streak < n THEN streak + 1 ELSE streak
  BY DEF StreakAfter
<1> HIDE DEF s, n, r
<1>9. /\ StreakAfter <= Len(s)
      /\ \A i \in DOMAIN s : i > Len(s) - StreakAfter => s[i]
      /\ StreakAfter < Len(s) => ~s[Len(s) - StreakAfter]
  <2>1. CASE ~Breach
    <3>1. s[Len(s)] = Breach
      <4>1. Len(s) \in 1 .. Len(s) /\ Len(s) + k = Len(row) + 1  BY <1>4, <1>7
      <4>2. s[Len(s)] = r[Len(s) + k]  BY <1>7, <4>1
      <4> QED  BY <1>4, <4>1, <4>2
    <3> QED  BY <1>7, <1>8, <2>1, <3>1
  <2>2. CASE Breach
    <3>1. StreakAfter <= Len(s)  BY <1>0, <1>3, <1>4, <1>7, <1>8, <2>2
    <3>2. ASSUME NEW i \in DOMAIN s, i > Len(s) - StreakAfter  PROVE s[i]
      <4>1. i \in 1 .. Len(s) /\ s[i] = r[i + k]  BY <1>7
      <4>2. CASE i = Len(s)
        <5>1. i + k = Len(row) + 1  BY <1>4, <1>7, <4>2
        <5> QED  BY <1>4, <2>2, <4>1, <5>1
      <4>3. CASE i # Len(s)
        <5> DEFINE j == i + k
        <5>1. j \in 1 .. Len(row) /\ j > Len(row) - streak
          BY <1>0, <1>3, <1>4, <1>7, <1>8, <2>2, <3>2, <4>1, <4>3
        <5> HIDE DEF j
        <5>2. r[j] = row[j] /\ row[j]  BY <1>0, <1>3, <1>4, <5>1
        <5> QED  BY <4>1, <5>2 DEF j
      <4> QED  BY <4>2, <4>3
    <3>3. ASSUME StreakAfter < Len(s)  PROVE ~s[Len(s) - StreakAfter]
      <4> DEFINE j == Len(row) - streak
      <4>1. StreakAfter = streak + 1  BY <1>0, <1>3, <1>4, <1>7, <1>8, <2>2, <3>3
      <4>2. Len(s) - StreakAfter \in 1 .. Len(s)  BY <1>6, <1>7, <3>3
      <4>3. Len(s) - StreakAfter + k = j /\ j \in 1 .. Len(row) /\ streak < Len(row)
        BY <1>0, <1>3, <1>4, <1>7, <3>3, <4>1, <4>2
      <4>4. s[Len(s) - StreakAfter] = r[j]  BY <1>7, <4>2, <4>3
      <4> HIDE DEF j
      <4>5. r[j] = row[j]  BY <1>4, <4>3
      <4>6. ~row[j]  BY <1>3, <4>3 DEF j
      <4> QED  BY <4>4, <4>5, <4>6
    <3> QED  BY <3>1, <3>2, <3>3
  <2> QED  BY <1>1, <2>1, <2>2
<1>10. Counted'  BY <1>2, <1>7, <1>9 DEF Counted, s, n
<1>11. AllBreaches(s) <=> Breach /\ StreakAfter = n
  <2>1. AllBreaches(s) <=> Len(s) = n /\ \A i \in DOMAIN s : s[i]  BY DEF AllBreaches, n
  <2>2. ASSUME AllBreaches(s)  PROVE Breach /\ StreakAfter = n
    <3>1. Len(s) = n /\ \A i \in DOMAIN s : s[i]  BY <2>1, <2>2
    <3>2. StreakAfter = n
      <4> SUFFICES ASSUME StreakAfter # n PROVE FALSE
        OBVIOUS
      <4>1. Len(s) - StreakAfter \in DOMAIN s /\ StreakAfter < Len(s)  BY <1>6, <1>7, <1>9, <3>1
      <4> QED  BY <1>9, <3>1, <4>1
    <3> QED  BY <1>0, <1>8, <3>2
  <2>3. ASSUME Breach, StreakAfter = n  PROVE AllBreaches(s)
    <3>1. Len(s) = n  BY <1>0, <1>7, <1>9, <2>3
    <3>2. \A i \in DOMAIN s : s[i]  BY <1>0, <1>7, <1>9, <2>3, <3>1
    <3> QED  BY <2>1, <3>1, <3>2
  <2> QED  BY <2>2, <2>3
<1> QED  BY <1>2, <1>6, <1>7, <1>10, <1>11 DEF s, n

-----------------------------------------------------------------------------
(* The theorems.                                                           *)

\* What a step leaves of the guard and of the gate it does not touch.
LEMMA GuardSame ==
  ASSUME Inv, UNCHANGED guard
  PROVE  streak' \in Nat /\ row' \in Seq(BOOLEAN) /\ Counted' /\ sustained' \in BOOLEAN
<1>1. streak' = streak /\ row' = row /\ sustained' = sustained  OBVIOUS
<1>2. streak \in Nat /\ row \in Seq(BOOLEAN) /\ sustained \in BOOLEAN  BY DEF Inv, TypeOK
<1>3. Counted'  BY <1>1 DEF Inv, Counted
<1> QED  BY <1>1, <1>2, <1>3

LEMMA FeedSame ==
  ASSUME Inv, UNCHANGED <<venue, session, keeper>>
  PROVE  ConnType' /\ Feed'
<1>1. /\ venueQty' = venueQty /\ trades' = trades /\ conn' = conn /\ next' = next
      /\ est' = est /\ kept' = kept /\ seen' = seen /\ doubled' = doubled
  OBVIOUS
<1> QED  BY <1>1 DEF Inv, TypeOK, ConnType, Feed, Dated, Complete, Truthful

\* Every step keeps the invariant.
LEMMA InvNext == Inv /\ [Next]_vars => Inv'
<1> SUFFICES ASSUME Inv, [Next]_vars PROVE Inv'
  OBVIOUS
<1>0. /\ {venueQty, kept, own} \subseteq Int /\ {trades, streak, cuts, fails, reports} \subseteq Nat
      /\ seen \subseteq Nat /\ row \in Seq(BOOLEAN)
  BY DEF Inv, TypeOK
<1>b. /\ {tripped, byRecon, flattened, closed, doubled, sustained} \subseteq BOOLEAN
      /\ ReconExact /\ (flattened => tripped)
  BY DEF Inv, TypeOK
<1>1. ASSUME NEW d \in Int, Execute(d), UNCHANGED <<est, keeper, guard, counts, byRecon>>,
             own' \in Int, tripped' = tripped,
             UNCHANGED <<flattened, closed>> \/ (tripped /\ flattened' = TRUE /\ closed' = TRUE)
      PROVE  Inv'
  <2>1. venueQty' \in Int /\ trades' \in Nat /\ ConnType' /\ Feed'  BY <1>1, ExecuteKeeps
  <2>2. streak' \in Nat /\ row' \in Seq(BOOLEAN) /\ Counted'  BY <1>1, GuardSame
  <2>3. /\ ({tripped, byRecon, flattened, closed, doubled, sustained} \subseteq BOOLEAN)'
        /\ ReconExact' /\ (flattened => tripped)'
    <3>1. /\ tripped' = tripped /\ byRecon' = byRecon /\ doubled' = doubled /\ sustained' = sustained
          /\ \/ flattened' = flattened /\ closed' = closed
             \/ tripped /\ flattened' = TRUE /\ closed' = TRUE
      BY <1>1
    <3>2. CASE flattened' = flattened /\ closed' = closed  BY <1>b, <3>1, <3>2, Zenon DEF ReconExact
    <3>3. CASE tripped /\ flattened' = TRUE /\ closed' = TRUE  BY <1>b, <3>1, <3>3, Zenon DEF ReconExact
    <3> QED  BY <3>1, <3>2, <3>3
  <2>4. /\ ({venueQty, kept, own} \subseteq Int)' /\ ({trades, streak, cuts, fails, reports} \subseteq Nat)'
        /\ (seen \subseteq Nat)' /\ (row \in Seq(BOOLEAN))'
    BY <1>0, <1>1, <2>1, <2>2
  <2> QED  BY <2>1, <2>2, <2>3, <2>4 DEF Inv, TypeOK, ConnType, Feed
<1>2. ASSUME NEW d \in Foreign, ForeignTrade(d)  PROVE Inv'
  BY <1>0, <1>1, <1>2, SizeAssumption DEF ForeignTrade
<1>3. ASSUME NEW d \in Deltas, SubmitOrder(d)  PROVE Inv'
  BY <1>0, <1>1, <1>3, SizeAssumption DEF SubmitOrder
<1>4. CASE EnforceKill
  <2>1. -kept \in Int /\ own - kept \in Int  BY <1>0
  <2> QED  BY <1>1, <1>4, <2>1 DEF EnforceKill
<1>5. ASSUME UNCHANGED <<guard, own, gate, venue>>, ConnType', Feed',
             (kept \in Int /\ seen \subseteq Nat /\ doubled \in BOOLEAN)',
             ({cuts, fails, reports} \subseteq Nat)'
      PROVE  Inv'
  <2>1. streak' \in Nat /\ row' \in Seq(BOOLEAN) /\ Counted'  BY <1>5, GuardSame
  <2>2. /\ ({tripped, byRecon, flattened, closed, doubled, sustained} \subseteq BOOLEAN)'
        /\ ReconExact' /\ (flattened => tripped)'
    BY <1>5, <1>b, Zenon DEF ReconExact
  <2>3. /\ ({venueQty, kept, own} \subseteq Int)' /\ ({trades, streak, cuts, fails, reports} \subseteq Nat)'
    BY <1>0, <1>5, <2>1
  <2> QED  BY <1>5, <2>1, <2>2, <2>3 DEF Inv, TypeOK, ConnType, Feed
<1>6. CASE SendPosition
  <2>1. UNCHANGED <<guard, own, gate, venue>> /\ UNCHANGED <<keeper, cuts, fails>> /\ reports' = reports + 1
    BY <1>6 DEF SendPosition
  <2>2. ConnType' /\ Feed'  BY <1>6, ReportKeeps
  <2>3. (doubled \in BOOLEAN)'  BY <1>b, <2>1, Zenon
  <2>4. (kept \in Int /\ seen \subseteq Nat)' /\ ({cuts, fails, reports} \subseteq Nat)'  BY <1>0, <2>1
  <2> QED  BY <1>5, <2>1, <2>2, <2>3, <2>4
<1>7. CASE Cut \/ Expire
  <2>1. UNCHANGED <<guard, own, gate, venue>> /\ UNCHANGED <<keeper, fails, reports>> /\ cuts' = cuts + 1
    BY <1>7 DEF Cut, Expire
  <2>2. ConnType' /\ Feed'  BY <1>7, EndKeeps
  <2>3. (doubled \in BOOLEAN)'  BY <1>b, <2>1, Zenon
  <2>4. (kept \in Int /\ seen \subseteq Nat)' /\ ({cuts, fails, reports} \subseteq Nat)'  BY <1>0, <2>1
  <2> QED  BY <1>5, <2>1, <2>2, <2>3, <2>4
<1>8. CASE PumpEvent
  <2>1. UNCHANGED <<guard, own, gate, venue>> /\ UNCHANGED counts  BY <1>8 DEF PumpEvent
  <2>2. /\ ConnType' /\ Feed'
        /\ (kept \in Int /\ seen \subseteq Nat /\ doubled \in BOOLEAN)'
    BY <1>8, PumpKeeps
  <2>3. ({cuts, fails, reports} \subseteq Nat)'  BY <1>0, <2>1
  <2> QED  BY <1>5, <2>1, <2>2, <2>3
<1>9. CASE PumpEnd \/ CreateKey \/ Connect \/ Snapshot \/ SeamFails
  <2>1. UNCHANGED <<guard, own, gate, venue>> /\ UNCHANGED <<cuts, reports>> /\ fails' \in Nat
    <3>1. CASE SeamFails  BY <1>0, <3>1 DEF SeamFails
    <3>2. CASE ~SeamFails  BY <1>0, <1>9, <3>2 DEF PumpEnd, CreateKey, Connect, Snapshot
    <3> QED  BY <3>1, <3>2
  <2>2. /\ ConnType' /\ Feed'
        /\ (kept \in Int /\ seen \subseteq Nat /\ doubled \in BOOLEAN)'
    BY <1>9, EstablishKeeps
  <2>3. ({cuts, fails, reports} \subseteq Nat)'  BY <1>0, <2>1
  <2> QED  BY <1>5, <2>1, <2>2, <2>3
<1>10. CASE Check
  <2>1. UNCHANGED <<venue, session, keeper>> /\ UNCHANGED <<flattened, closed, own, counts>>
    BY <1>10 DEF Check
  <2>2. ConnType' /\ Feed'  BY <2>1, FeedSame
  <2>3. /\ streak' \in Nat /\ row' \in Seq(BOOLEAN) /\ Counted'
        /\ sustained' = (sustained \/ (Breach /\ StreakAfter = AtLeast(1, Consecutive)))
    BY <1>10, CheckKeeps
  <2>4. Breach => (StreakAfter = AtLeast(1, Consecutive) <=> StreakAfter >= AtLeast(1, Consecutive))
    <3>1. streak \in Nat /\ streak <= AtLeast(1, Consecutive)
      BY <1>0 , GuardAssumption DEF Inv, Counted, AtLeast
    <3> QED  BY <3>1, GuardAssumption DEF StreakAfter, AtLeast
  <2>5. /\ tripped' = (tripped \/ (Breach /\ Halts(StreakAfter)))
        /\ byRecon' = (byRecon \/ (~tripped /\ tripped'))
    BY <1>10 DEF Check
  <2>6. Breach /\ Halts(StreakAfter) <=> ~AlarmOnly /\ Breach /\ StreakAfter = AtLeast(1, Consecutive)
    BY <2>4 DEF Halts
  <2>7. ({tripped, byRecon, flattened, closed, doubled, sustained} \subseteq BOOLEAN)'
    BY <1>b, <2>1, <2>3, <2>5, Zenon
  <2>8. ReconExact' /\ (flattened => tripped)'
    BY <1>b, <2>1, <2>3, <2>5, <2>6, Zenon DEF ReconExact
  <2>9. /\ ({venueQty, kept, own} \subseteq Int)' /\ ({trades, streak, cuts, fails, reports} \subseteq Nat)'
        /\ (seen \subseteq Nat)'
    BY <1>0, <2>1, <2>3
  <2> QED  BY <2>2, <2>3, <2>7, <2>8, <2>9 DEF Inv, TypeOK, ConnType, Feed
<1>11. CASE Trip
  <2>1. /\ UNCHANGED <<venue, session, keeper>> /\ UNCHANGED guard
        /\ UNCHANGED <<byRecon, flattened, closed, own, counts>> /\ tripped' = TRUE
    BY <1>11 DEF Trip
  <2>2. ConnType' /\ Feed'  BY <2>1, FeedSame
  <2>3. streak' \in Nat /\ row' \in Seq(BOOLEAN) /\ Counted'  BY <2>1, GuardSame
  <2>4. /\ ({tripped, byRecon, flattened, closed, doubled, sustained} \subseteq BOOLEAN)'
        /\ ReconExact' /\ (flattened => tripped)'
    BY <1>b, <2>1, Zenon DEF ReconExact
  <2>5. /\ ({venueQty, kept, own} \subseteq Int)' /\ ({trades, streak, cuts, fails, reports} \subseteq Nat)'
        /\ (seen \subseteq Nat)'
    BY <1>0, <2>1, <2>3
  <2> QED  BY <2>2, <2>3, <2>4, <2>5 DEF Inv, TypeOK, ConnType, Feed
<1>12. CASE UNCHANGED vars
  <2>1. UNCHANGED <<guard, own, gate, venue>> /\ UNCHANGED <<venue, session, keeper>> /\ UNCHANGED counts
    BY <1>12 DEF vars
  <2>2. ConnType' /\ Feed'  BY <2>1, FeedSame
  <2>3. (doubled \in BOOLEAN)'  BY <1>b, <2>1, Zenon
  <2>4. (kept \in Int /\ seen \subseteq Nat)' /\ ({cuts, fails, reports} \subseteq Nat)'  BY <1>0, <2>1
  <2> QED  BY <1>5, <2>1, <2>2, <2>3, <2>4
<1> QED
  BY <1>2, <1>3, <1>4, <1>6, <1>7, <1>8, <1>9, <1>10, <1>11, <1>12 DEF Next

\* However often the stream is cut, expires, fails to come back or reports a
\* position late, a drained stream has lost no trade, the kept position is the
\* venue's unless a trade fell between connect and snapshot, and the guard halts
\* exactly for a sustained breach (establish, apply, check_qty).
THEOREM FeedHolds == Spec => []FeedSound
<1>1. Init => Inv  BY InvInit
<1>2. Inv /\ [Next]_vars => Inv'  BY InvNext
<1>3. Inv => FeedSound  BY InvSound
<1> QED  BY <1>1, <1>2, <1>3, PTL DEF Spec

\* From the trip on the engine sends one order in all, the one that closes the
\* kept position; where the stream had nothing under way it leaves the venue
\* flat, because a drained feed knows the venue's position (submit,
\* enforce_kill).
THEOREM HaltHolds == Spec => HaltedForGood
<1> DEFINE Halted ==
      tripped => /\ tripped' /\ (flattened => flattened')
                 /\ own' # own => /\ ~flattened /\ flattened'
                                  /\ own' = own - kept
                                  /\ Drained /\ ~doubled => venueQty' = 0
<1>1. Init => Inv  BY InvInit
<1>2. Inv /\ [Next]_vars => Inv'  BY InvNext
<1>3. Inv /\ [Next]_vars => [Halted]_vars
  <2> SUFFICES ASSUME Inv, Next, tripped PROVE Halted
    OBVIOUS
  <2>1. CASE EnforceKill
    <3>1. Drained /\ ~doubled => kept = venueQty  BY InvSound DEF FeedSound, ExactUnlessDoubled
    <3>2. {venueQty, kept} \subseteq Int  BY DEF Inv, TypeOK
    <3>3. /\ ~flattened /\ flattened' /\ own' = own - kept /\ venueQty' = venueQty + (-kept)
          /\ UNCHANGED tripped
      BY <2>1 DEF EnforceKill, Execute
    <3>4. Drained /\ ~doubled => venueQty' = 0  BY <3>1, <3>2, <3>3
    <3> QED  BY <3>3, <3>4
  <2>2. CASE ~EnforceKill
    <3>1. CASE Check
      <4>1. own' = own /\ flattened' = flattened  BY <3>1 DEF Check
      <4>2. tripped'  BY <3>1, Zenon DEF Check
      <4> QED  BY <4>1, <4>2
    <3>2. CASE ~Check
      <4>1. own' = own /\ tripped' = tripped /\ flattened' = flattened
        BY <2>2, <3>2 DEF Next, ForeignTrade, SendPosition, Cut, Expire, PumpEvent, PumpEnd, CreateKey,
           Connect, Snapshot, SeamFails, SubmitOrder, Trip, gate, guard
      <4> QED  BY <4>1
    <3> QED  BY <3>1, <3>2
  <2> QED  BY <2>1, <2>2
<1> QED  BY <1>1, <1>2, <1>3, PTL DEF Spec, HaltedForGood

=============================================================================
