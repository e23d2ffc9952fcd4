------------------------------- MODULE Venue -------------------------------
(***************************************************************************)
(* The venue's two transports as the program uses them: the REST client    *)
(* with its weight limiter, response cache and bounded retries             *)
(* (crates/venue/src/rest.rs, ratelimit.rs, cache.rs, clock.rs), and the   *)
(* registry of market streams, which reconnects a dropped socket and       *)
(* subscribes it again (registry.rs, stream.rs, ws.rs).                    *)
(*                                                                         *)
(* A response is "final" when its window was over as it was served and     *)
(* "partial" before.  The client's clock is the wall clock: it may be set  *)
(* back while a call sleeps, by less than the sleep or by all of it.  The  *)
(* stream of a tier publishes one event per unit of time, which is the     *)
(* unit of its cadence; a cadence of 0 is a stream without one.            *)
(***************************************************************************)
EXTENDS Integers, Sequences, FiniteSets, SequencesExt

CONSTANTS
  Requests,    \* VenueRequest: [key, end, weight]
  Follow,      \* the caller's page function: request -> request or NoPage
  NoPage,
  Budget,      \* RateLimiter.budget
  Window,      \* RateLimiter.window_ms
  RetryAfters, \* Retry-After values of the venue
  MaxAttempts, \* VenueRestClient.max_attempts
  MaxCalls, MaxClock, MaxIdle, MaxSetBack, \* bounds: calls, sleeps of the limiter, clock at the
               \* start of a call, how far the clock is set back in all
  Streams,     \* subscriptions of one tier
  Cadence,     \* StreamChannel::cadence_ms of each
  MaxTime, MaxDrops   \* bounds: events per stream, disconnects

ASSUME VenueAssumption ==
  /\ Budget \in Nat /\ Window \in Nat \ {0} /\ RetryAfters \subseteq Nat
  /\ \A r \in Requests : r.weight \in Nat /\ r.end \in Int
  /\ Follow \in [Requests -> Requests \union {NoPage}]
  /\ MaxAttempts \in Nat /\ MaxClock \in Int
  /\ IsFiniteSet(Streams) /\ Cadence \in [Streams -> {0, 1}]

NoCall == [pc |-> "idle"]

VARIABLES
  clock, setBack,   \* Clock.now_ms, and how far it was set back
  limiter,          \* [start, used, next] of RateLimiter
  restCache,        \* RestCache.entries: key -> response
  call,             \* the paginate() call in progress
  answers,          \* history: how many calls have returned
  charges,          \* history: the requests sent, in order: the time, the weight of all requests
                    \* before it (from) and with it (to), and the deadline in force (floor)
  promised,         \* history: the latest Retry-After deadline
  conn,             \* the tier's socket: NoPage before the first, or [up, subs, queue]
  subs,             \* TierConn.subs
  lastEvent,        \* TierConn.last_event_ms: stream -> time or 0
  published,        \* the venue's clock
  drops,            \* history: disconnects so far
  seen,             \* history: events the registry returned
  gaps              \* history: the gaps it reported

restVars == <<clock, setBack, limiter, restCache, call, answers, charges, promised>>
wsVars   == <<conn, subs, lastEvent, published, drops, seen, gaps>>
venueAll == <<restVars, wsVars>>

-----------------------------------------------------------------------------
(* The limiter.                                                            *)

\* Mutant: the elapsed window is emptied and not moved.
RolledInPlace(l, now) == IF now >= l.start + Window THEN [l EXCEPT !.used = 0] ELSE l

Rolled(l, now) == IF now >= l.start + Window THEN [l EXCEPT !.start = now, !.used = 0] ELSE l

\* acquire: [limiter, until], where until is now for Ready.
Acquire(l, weight, now) ==
  IF now < l.next THEN [limiter |-> l, ready |-> FALSE, until |-> l.next]
  ELSE LET r == Rolled(l, now)
       IN  IF r.used + weight <= Budget
           THEN [limiter |-> [r EXCEPT !.used = @ + weight], ready |-> TRUE, until |-> now]
           ELSE [limiter |-> r, ready |-> FALSE, until |-> r.start + Window]

NoteRetryAfter(l, until) == [l EXCEPT !.next = Max({@, until})]

-----------------------------------------------------------------------------
(* The client.                                                             *)

IsClosedWindow(req, now) == req.end <= now

Answered == answers' = answers + 1 /\ call' = NoCall

\* Mutant: a request heavier than the budget is left to the limiter.
FetchAny(req, pages) ==
  LET cacheable == IsClosedWindow(req, clock)
  IN  IF cacheable /\ req.key \in DOMAIN restCache
      THEN call' = [pc |-> "page", req |-> req, pages |-> pages + 1]
           /\ UNCHANGED answers
      ELSE /\ call' = [pc |-> "acquire", req |-> req, cacheable |-> cacheable,
                       attempt |-> 0, pages |-> pages]
           /\ UNCHANGED answers

\* fetch, up to its loop: cacheable is decided here, once.
Fetch(req, pages) ==
  LET cacheable == IsClosedWindow(req, clock)
  IN  IF cacheable /\ req.key \in DOMAIN restCache
      THEN call' = [pc |-> "page", req |-> req, pages |-> pages + 1]
           /\ UNCHANGED answers
      ELSE IF req.weight > Budget THEN Answered
      ELSE /\ call' = [pc |-> "acquire", req |-> req, cacheable |-> cacheable,
                       attempt |-> 0, pages |-> pages]
           /\ UNCHANGED answers

StartCall ==
  /\ call = NoCall /\ answers < MaxCalls
  /\ \E req \in Requests : Fetch(req, 0)
  /\ UNCHANGED <<clock, setBack, limiter, restCache, charges, promised>>

AcquireStep ==
  /\ call.pc = "acquire"
  /\ IF call.attempt >= MaxAttempts
     THEN Answered /\ UNCHANGED <<clock, limiter>>
     ELSE LET a == Acquire(limiter, call.req.weight, clock)
          IN  /\ limiter' = a.limiter
              /\ clock' = Max({clock, Min({a.until, MaxClock})})   \* sleep_until
              /\ call' = IF a.ready THEN [call EXCEPT !.pc = "send", !.attempt = @ + 1] ELSE call
              /\ UNCHANGED answers
  /\ UNCHANGED <<setBack, restCache, charges, promised>>

\* The weight of all requests sent so far.
Charged == IF charges = <<>> THEN 0 ELSE charges[Len(charges)].to

Sent == charges' = Append(charges, [at |-> clock, from |-> Charged, to |-> Charged + call.req.weight,
                                    floor |-> promised])

CachePut(key, resp) ==
  [k \in DOMAIN restCache \union {key} |-> IF k = key THEN resp ELSE restCache[k]]

SendOk ==
  /\ call.pc = "send" /\ Sent
  /\ LET resp == IF call.req.end <= clock THEN "final" ELSE "partial"
     IN  /\ call' = [pc |-> "page", req |-> call.req, pages |-> call.pages + 1]
         /\ restCache' = IF call.cacheable THEN CachePut(call.req.key, resp) ELSE restCache
  /\ UNCHANGED <<clock, setBack, limiter, answers, promised>>

\* 429 or 418: the deadline is noted and slept through, unless the clock is set back meanwhile.
SendRateLimited(after) ==
  /\ call.pc = "send" /\ Sent
  /\ LET deadline == clock + after
     IN  /\ limiter' = NoteRetryAfter(limiter, deadline)
         /\ promised' = Max({promised, deadline})
         /\ \E back \in 0 .. after :
              /\ setBack + back <= MaxSetBack
              /\ setBack' = setBack + back
              /\ clock' = Max({clock, deadline}) - back
  /\ call' = [call EXCEPT !.pc = "acquire"]
  /\ UNCHANGED <<restCache, answers>>

\* 1 << (attempt - 1).min(16), in units of DEFAULT_TRANSIENT_BACKOFF_MS.
Backoff == <<1, 2, 4, 8, 16, 32, 64, 128, 256, 512, 1024, 2048, 4096, 8192, 16384, 32768, 65536>>

SendTransient ==
  /\ call.pc = "send" /\ Sent
  /\ clock' = clock + Backoff[Min({call.attempt, 17})]
  /\ call' = [call EXCEPT !.pc = "acquire"]
  /\ UNCHANGED <<setBack, limiter, restCache, answers, promised>>

SendFatal ==
  /\ call.pc = "send" /\ Sent
  /\ Answered
  /\ UNCHANGED <<clock, setBack, limiter, restCache, promised>>

\* paginate: the next page, or all of them.
NextPage ==
  /\ call.pc = "page"
  /\ IF Follow[call.req] = NoPage THEN Answered ELSE Fetch(Follow[call.req], call.pages)
  /\ UNCHANGED <<clock, setBack, limiter, restCache, charges, promised>>

RestTick ==
  /\ clock < MaxIdle /\ call = NoCall /\ answers < MaxCalls
  /\ clock' = clock + 1
  /\ UNCHANGED <<setBack, limiter, restCache, call, answers, charges, promised>>

RestStep ==
  \/ AcquireStep \/ SendOk \/ (\E a \in RetryAfters : SendRateLimited(a))
  \/ SendTransient \/ SendFatal \/ NextPage

RestNext == StartCall \/ RestTick \/ RestStep

RestInit ==
  /\ clock = 0 /\ setBack = 0 /\ limiter = [start |-> -Window, used |-> 0, next |-> 0]
  /\ restCache = <<>> /\ call = NoCall /\ answers = 0 /\ charges = <<>> /\ promised = 0

-----------------------------------------------------------------------------
(* The stream registry, for one tier.                                      *)

Socket(ss) == [up |-> TRUE, subs |-> ss, queue |-> <<>>]

\* subscribe, of one subscription; it fails on a dead socket.
Subscribe(s, outcome) ==
  /\ s \notin subs
  /\ IF outcome = "connect" /\ conn = NoPage
     THEN UNCHANGED <<conn, subs>>
     ELSE LET c == IF conn = NoPage THEN Socket({}) ELSE conn
          IN  IF outcome = "subscribe" \/ ~c.up
              THEN conn' = c /\ UNCHANGED subs
              ELSE conn' = [c EXCEPT !.subs = @ \union {s}] /\ subs' = subs \union {s}
  /\ UNCHANGED <<lastEvent, published, drops, seen, gaps>>

\* The gap a message closes; a stream without a cadence has none.
GapBefore(msg, last) ==
  IF Cadence[msg.stream] > 0 /\ last > 0 /\ msg.time - last > Cadence[msg.stream]
  THEN {[stream |-> msg.stream, from |-> last, to |-> msg.time]} ELSE {}

\* pump with a message: the gap is measured from the last event of the stream.
PumpMessage ==
  /\ conn # NoPage /\ conn.queue # <<>>
  /\ LET msg == Head(conn.queue)
         last == lastEvent[msg.stream]
     IN  /\ gaps' = gaps \union GapBefore(msg, last)
         /\ lastEvent' = [lastEvent EXCEPT ![msg.stream] = msg.time]
         /\ seen' = seen \union {msg}
  /\ conn' = [conn EXCEPT !.queue = Tail(@)]
  /\ UNCHANGED <<subs, published, drops>>

\* pump on a disconnect: connect, install the socket, then subscribe it; an
\* error of either call is returned, and the new socket stays.
PumpReconnect(outcome) ==
  /\ conn # NoPage /\ conn.queue = <<>> /\ ~conn.up
  /\ conn' = IF outcome = "connect" THEN conn ELSE Socket(IF outcome = "subscribe" THEN {} ELSE subs)
  /\ UNCHANGED <<subs, lastEvent, published, drops, seen, gaps>>

\* The venue publishes one event of every stream.
PublishAll ==
  /\ published < MaxTime
  /\ published' = published + 1
  /\ conn' = IF conn = NoPage \/ ~conn.up THEN conn
             ELSE [conn EXCEPT !.queue = @ \o SetToSeq({[stream |-> s, time |-> published'] : s \in conn.subs})]
  /\ UNCHANGED <<subs, lastEvent, drops, seen, gaps>>

DropSocket ==
  /\ conn # NoPage /\ conn.up /\ drops < MaxDrops
  /\ drops' = drops + 1
  /\ conn' = [conn EXCEPT !.up = FALSE]
  /\ UNCHANGED <<subs, lastEvent, published, seen, gaps>>

StreamInit ==
  /\ conn = NoPage /\ subs = {} /\ lastEvent = [s \in Streams |-> 0] /\ published = 0
  /\ drops = 0 /\ seen = {} /\ gaps = {}

Outcomes == {"ok", "connect", "subscribe"}
StreamNext ==
  \/ \E s \in Streams, o \in Outcomes : Subscribe(s, o)
  \/ PumpMessage \/ (\E o \in Outcomes : PumpReconnect(o)) \/ PublishAll \/ DropSocket

\* The client and the registry share no state.
VenueNext == (RestNext /\ UNCHANGED wsVars) \/ (StreamNext /\ UNCHANGED restVars)
VenueSpec == RestInit /\ StreamInit /\ [][VenueNext]_venueAll

-----------------------------------------------------------------------------
(* Properties.                                                             *)

VenueTypeOK ==
  /\ limiter.used \in 0 .. Budget
  /\ call.pc \in {"idle", "acquire", "send", "page"}
  /\ \A s \in Streams : lastEvent[s] \in 0 .. published
  /\ conn # NoPage => conn.subs \subseteq Streams

\* fetch never caches a response that the venue may still change: cacheable is
\* decided before the call waits and is used after it.
CacheFinal == \A k \in DOMAIN restCache : restCache[k] = "final"

\* RateLimiter.acquire never lets more than two budgets of weight through within
\* one window's length, however the fixed windows fall and the clock is set back.
TwoBudgets ==
  \A j \in DOMAIN charges : \A i \in 1 .. j :
    charges[i].at > charges[j].at - Window => charges[j].to - charges[i].from <= 2 * Budget

\* No request is sent before the venue's latest Retry-After deadline, even when
\* the sleep until it ended early on a clock set back.
RetryAfterHeld == \A i \in DOMAIN charges : charges[i].at >= charges[i].floor

\* Every call of paginate is answered: pages, or an error, after bounded waits.
CallAnswered == (call.pc # "idle") ~> (call.pc = "idle")

\* Every event a recorded subscription missed lies within a reported gap as soon
\* as a later event of that stream is returned, across failed reconnects too.
MissedIsReported ==
  \A a, b \in seen : a.stream = b.stream /\ Cadence[a.stream] > 0 =>
    \A t \in a.time + 1 .. b.time - 1 :
      \/ [stream |-> a.stream, time |-> t] \in seen
      \/ \E g \in gaps : g.stream = a.stream /\ g.from < t /\ t < g.to

\* What rest.rs, ratelimit.rs and registry.rs owe their callers: caches that are
\* final, waits that are held, and a gap for every event that was missed.
VenueSound == VenueTypeOK /\ CacheFinal /\ TwoBudgets /\ RetryAfterHeld /\ MissedIsReported
=============================================================================
