------------------------------- MODULE Session -------------------------------
(***************************************************************************)
(* Signing in to the administration server and what a session may do       *)
(* (crates/server/src/auth/{mod,session,google}.rs, main.rs).              *)
(*                                                                         *)
(* A session is a signed cookie and nothing else: the server keeps no list *)
(* of sessions, so what a cookie is worth is decided again on every        *)
(* request, against a secret, a clock and role lists that may all have     *)
(* changed since it was minted.  A browser may run several sign-ins at     *)
(* once and shares one cookie jar between them.                            *)
(*                                                                         *)
(* The second part is what a signed-in client reads page by page: the list *)
(* of runs, newest first from a cursor, the last run returned, and the     *)
(* audit entries, oldest first from an offset (runs/api.rs, runs/store.rs, *)
(* audit.rs).  Between two pages runs are created and change their status. *)
(***************************************************************************)
EXTENDS Integers, Sequences, FiniteSets, SequencesExt

CONSTANTS Browsers, Emails,
          Claims,        \* what the identity provider may answer
          Refused,       \* the provider does not vouch for the code
          ClientId, Issuers,
          Ttl,           \* session_ttl_secs
          Deployments,   \* the environments the server is started in
          MaxTime, MaxBoots, MaxLogins

\* session_ttl_secs is unsigned (AuthConfig).
ASSUME SessionAssumption == Ttl \in Nat

VARIABLES server,    \* the running server: its environment, its secret and whether it is up
          jar,       \* jar[b]: the browser's cookies
          flights,   \* sign-ins sent to the provider: browser and state
          now, boots, logins,
          grant      \* the last request that was let through
sessionVars == <<server, jar, flights, now, boots, logins, grant>>

NoCookie == [kind |-> "none"]
NoGrant == [what |-> "none"]
Empty == ""

-----------------------------------------------------------------------------
(* Boot.                                                                   *)
\* check_session_secret_policy
SecretAllowed(env) == env.secret # Empty \/ env.loopback
\* An unset secret is a fresh one at every start.
SecretOf(env, n) == <<IF env.secret = Empty THEN n + 1 ELSE 0, env.secret>>

BootServer(env) ==
  /\ boots < MaxBoots
  /\ boots' = boots + 1
  /\ server' = [up |-> SecretAllowed(env), env |-> env, secret |-> SecretOf(env, boots)]
  /\ grant' = NoGrant
  /\ UNCHANGED <<jar, flights, now, logins>>

-----------------------------------------------------------------------------
(* Signing in.                                                             *)
IsAllowed(email) == email # Empty /\ email \in server.env.allowed
Holds(role, email) == email # Empty /\ email \in server.env.roles[role]

\* GoogleOidcVerifier::verify: what the provider's answer is good for.  A claim it
\* leaves out refuses the sign-in, except that an address is then not verified.
Vouched(a) ==
  IF a = Refused THEN Refused
  ELSE IF ~({"email", "aud", "iss", "exp"} \subseteq DOMAIN a) THEN Refused
  ELSE [email |-> a.email, aud |-> a.aud, iss |-> a.iss, exp |-> a.exp,
        verified |-> "verified" \in DOMAIN a /\ a.verified]

\* check_claims
ClaimsOk(c) == c.aud = ClientId /\ c.iss \in Issuers /\ now < c.exp /\ c.verified

\* The state of every login is new; the cookie keeps the last one only.
Login(b) ==
  /\ server.up /\ logins < MaxLogins
  /\ logins' = logins + 1
  /\ jar' = [jar EXCEPT ![b].state = logins + 1]
  /\ flights' = flights \union {[browser |-> b, state |-> logins + 1]}
  /\ grant' = NoGrant
  /\ UNCHANGED <<server, now, boots>>

\* mint_session_cookie
Minted(email) == [kind |-> "session", email |-> email, exp |-> now + Ttl, secret |-> server.secret, at |-> now]

\* A plausible mistake: the allowlist is not consulted.
CallbackAnyone(f, a) ==
  /\ server.up /\ f \in flights
  /\ flights' = flights \ {f}
  /\ LET c == Vouched(a)
     IN  jar' = IF jar[f.browser].state = f.state /\ c # Refused /\ ClaimsOk(c)
                THEN [jar EXCEPT ![f.browser] = [state |-> 0, cookie |-> Minted(c.email)]] ELSE jar
  /\ grant' = NoGrant
  /\ UNCHANGED <<server, now, boots, logins>>
\* The provider sends the browser back with a state and a code; the code is
\* exchanged for claims, or refused.
Callback(f, a) ==
  /\ server.up /\ f \in flights
  /\ flights' = flights \ {f}
  /\ LET c == Vouched(a)
     IN  jar' = IF jar[f.browser].state = f.state /\ c # Refused /\ ClaimsOk(c) /\ IsAllowed(c.email)
                THEN [jar EXCEPT ![f.browser] = [state |-> 0, cookie |-> Minted(c.email)]]
                ELSE jar
  /\ grant' = NoGrant
  /\ UNCHANGED <<server, now, boots, logins>>

\* Logging out clears the cookie in the browser that asks.
Logout(b) ==
  /\ server.up /\ jar[b].cookie # NoCookie
  /\ jar' = [jar EXCEPT ![b].cookie = NoCookie]
  /\ grant' = NoGrant
  /\ UNCHANGED <<server, flights, now, boots, logins>>

-----------------------------------------------------------------------------
(* Requests.                                                               *)
\* verify_session_cookie
Verified(c) == c # NoCookie /\ c.secret = server.secret /\ c.email # Empty /\ now < c.exp

\* role_gate, of require_operator and require_approver.
RoleGate(route, email) == route \in {"operator", "approver"} => Holds(route, email)

\* me: the roles the client is told it has.
Capabilities(email) == {role \in {"operator", "approver"} : Holds(role, email)}

\* require_session, then the role layer of the route.
Use(b, route) ==
  LET c == jar[b].cookie
  IN  /\ server.up /\ Verified(c)
      /\ RoleGate(route, c.email)
      /\ grant' = [what |-> route, cookie |-> c, at |-> now, can |-> Capabilities(c.email)]
      /\ UNCHANGED <<server, jar, flights, now, boots, logins>>

Tick ==
  /\ now < MaxTime
  /\ now' = now + 1 /\ grant' = NoGrant
  /\ UNCHANGED <<server, jar, flights, boots, logins>>

SessionInit ==
  /\ \E env \in Deployments : server = [up |-> SecretAllowed(env), env |-> env, secret |-> SecretOf(env, 0)]
  /\ jar = [b \in Browsers |-> [state |-> 0, cookie |-> NoCookie]]
  /\ flights = {} /\ now = 0 /\ boots = 1 /\ logins = 0 /\ grant = NoGrant
SessionNext ==
  \/ \E env \in Deployments : BootServer(env)
  \/ \E b \in Browsers : Login(b) \/ Logout(b) \/ \E route \in {"read", "operator", "approver"} : Use(b, route)
  \/ \E f \in flights, c \in Claims : Callback(f, c)
  \/ Tick
SessionSpec == SessionInit /\ [][SessionNext]_sessionVars

-----------------------------------------------------------------------------
(* Properties.                                                             *)

\* What a cookie says stays true of it: when it was minted and for how long, and
\* that the server that minted it, under a secret of that deployment, allowed the
\* address (callback, mint_session_cookie).
Secrets == Nat \X {env.secret : env \in Deployments}
Addresses == UNION {env.allowed : env \in Deployments}
Cookies == [kind : {"session"}, email : Addresses, exp : Nat, secret : Secrets, at : Nat]
Earned(c) ==
  /\ c.at <= now /\ c.exp = c.at + Ttl
  /\ \E env \in Deployments : c.email \in env.allowed /\ c.secret[2] = env.secret

\* The inductive invariant of signing in: a grant is none but in the state just
\* after a request.
SessionTypes ==
  /\ server \in [up : BOOLEAN, env : Deployments, secret : Secrets]
  /\ jar \in [Browsers -> [state : Nat, cookie : Cookies \union {NoCookie}]]
  /\ flights \subseteq [browser : Browsers, state : Nat]
  /\ now \in Nat /\ boots \in Nat /\ logins \in Nat
SessionKept ==
  /\ SessionTypes
  /\ server.secret[2] = server.env.secret
  /\ server.up => SecretAllowed(server.env)
  /\ \A b \in Browsers : jar[b].cookie # NoCookie => Earned(jar[b].cookie)

\* A request is let through only on a sign-in that is younger than the session
\* lifetime and was made under the secret in force, by somebody who was on the
\* allowlist of a server that had it; a governed route only to somebody on its
\* role list now, whatever the list was at sign-in, who is told so by me; and a
\* server that would forget its secret serves no network (require_session,
\* role_gate, callback, check_session_secret_policy).
AccessEarned ==
  grant # NoGrant =>
    /\ grant.at - grant.cookie.at \in 0 .. Ttl - 1
    /\ grant.cookie.secret = server.secret
    /\ \E env \in Deployments : grant.cookie.email \in env.allowed /\ env.secret = server.env.secret
    /\ grant.what # "read" => grant.cookie.email \in server.env.roles[grant.what] /\ grant.what \in grant.can
    /\ server.env.loopback \/ server.env.secret # Empty

-----------------------------------------------------------------------------
(* Reading the lists of runs and of audit entries.                         *)
CONSTANTS RunTypes, MaxRuns, MaxEntries, MaxLimit, Limits, AnyValue

VARIABLES index,     \* the index: [id, type], in order of creation
          status,    \* status[id], absent for a run whose meta.json is missing
          entries,   \* audit entries written
          reader     \* a client paging through one of the lists
listVars == <<index, status, entries, reader>>

NoCursor == 0
Clamp(n) == IF n < 1 THEN 1 ELSE IF n > MaxLimit THEN MaxLimit ELSE n

Matches(entry, q) ==
  /\ q.type \in {AnyValue, entry.type}
  /\ status[entry.id] # "missing"
  /\ q.status \in {AnyValue, status[entry.id]}

\* list_runs_blocking
PlaceOf(newest, cursor) == SelectInSeq(newest, LAMBDA e : e.id = cursor)
StartAt(newest, cursor) ==
  IF cursor = NoCursor THEN 1
  ELSE IF PlaceOf(newest, cursor) = 0 THEN Len(newest) + 1 ELSE PlaceOf(newest, cursor) + 1

ListRuns(q, cursor) ==
  LET newest == Reverse(index)
      from   == SubSeq(newest, StartAt(newest, cursor), Len(newest))
      found  == SelectSeq(from, LAMBDA e : Matches(e, q))
      full   == Len(found) >= Clamp(q.limit)
      page   == IF full THEN SubSeq(found, 1, Clamp(q.limit)) ELSE found
  IN  [ids |-> [i \in DOMAIN page |-> page[i].id],
       next |-> IF full /\ Last(page) # Last(newest) THEN Last(page).id ELSE NoCursor]

\* get_audit
AuditPage(offset, limit) ==
  LET last == IF offset + Clamp(limit) < entries THEN offset + Clamp(limit) ELSE entries
  IN  [ids |-> [i \in 1 .. (IF last > offset THEN last - offset ELSE 0) |-> offset + i],
       next |-> IF last > offset /\ last < entries THEN last ELSE NoCursor]

\* read_result_outcome
ResultOf(id) ==
  CASE status[id] = "missing" -> "not found"
    [] status[id] = "succeeded" -> "body"
    [] OTHER -> "not ready"

-----------------------------------------------------------------------------
Idle == [list |-> "none"]
Begin(list, q) ==
  /\ reader = Idle
  /\ reader' = [list |-> list, query |-> q, cursor |-> NoCursor, got |-> <<>>, open |-> TRUE,
                known |-> IF list = "runs" THEN Len(index) ELSE entries, touched |-> {}]
  /\ UNCHANGED <<index, status, entries>>
Turn ==
  /\ reader # Idle /\ reader.open
  /\ LET page == IF reader.list = "runs" THEN ListRuns(reader.query, reader.cursor)
                 ELSE AuditPage(reader.cursor, reader.query.limit)
     IN  reader' = [reader EXCEPT !.got = @ \o page.ids, !.cursor = page.next, !.open = page.next # NoCursor]
  /\ UNCHANGED <<index, status, entries>>

CreateRun(type) ==
  /\ Len(index) < MaxRuns
  /\ index' = Append(index, [id |-> Len(index) + 1, type |-> type])
  /\ status' = Append(status, "queued")
  /\ UNCHANGED <<entries, reader>>
SetStatus(id, to) ==
  /\ id \in DOMAIN index
  /\ <<status[id], to>> \in {<<"queued", "running">>, <<"running", "succeeded">>, <<"running", "failed">>}
  /\ status' = [status EXCEPT ![id] = to]
  /\ reader' = IF reader = Idle THEN reader ELSE [reader EXCEPT !.touched = @ \union {id}]
  /\ UNCHANGED <<index, entries>>
AppendAudit ==
  /\ entries < MaxEntries
  /\ entries' = entries + 1
  /\ UNCHANGED <<index, status, reader>>

\* The types are alike: a client asks for all of them or for one.
Queries == [type : {AnyValue, CHOOSE t \in RunTypes : TRUE}, status : {AnyValue, "running"}, limit : Limits]
RunsInit ==
  /\ \E n \in 1 .. MaxRuns : index \in {[i \in 1 .. n |-> [id |-> i, type |-> t[i]]] : t \in [1 .. n -> RunTypes]}
  /\ status \in [1 .. Len(index) -> {"running", "queued", "missing"}]
  /\ entries = 0 /\ reader = Idle
RunsNext ==
  \/ \E q \in Queries : Begin("runs", q)
  \/ Turn
  \/ \E type \in RunTypes : CreateRun(type)
  \/ \E id \in 1 .. MaxRuns, to \in {"running", "succeeded", "failed"} : SetStatus(id, to)
AuditInit == index = <<>> /\ status = <<>> /\ entries \in 0 .. MaxEntries /\ reader = Idle
AuditNext ==
  \/ \E n \in Limits : Begin("audit", [limit |-> n])
  \/ Turn
  \/ AppendAudit

-----------------------------------------------------------------------------
(* Properties.                                                             *)
Wanted(i) == Matches(index[i], reader.query) /\ index[i].id \notin reader.touched

\* A client that follows the pages to their end has seen, once each and in
\* order, every run the list held when it began and that matched all along,
\* and every audit entry there was: runs created and finished meanwhile shift
\* nothing under it (list_runs_blocking, get_audit).
PagesComplete ==
  reader # Idle =>
    LET got == reader.got
    IN  /\ \A i \in 1 .. Len(got) - 1 : IF reader.list = "runs" THEN got[i] > got[i + 1] ELSE got[i + 1] = got[i] + 1
        /\ ~reader.open /\ reader.list = "runs" => \A i \in 1 .. reader.known : Wanted(i) => index[i].id \in Range(got)
        /\ ~reader.open /\ reader.list = "audit" => reader.known <= Len(got)
        /\ \A i \in DOMAIN got : reader.list = "runs" => ResultOf(got[i]) # "not found"
=============================================================================
