---------------------------- MODULE VenueProofs ----------------------------
(***************************************************************************)
(* Proofs about Venue, for any requests, weights, budget, window and       *)
(* Retry-After values, any streams, and any number of calls and drops.     *)
(***************************************************************************)
EXTENDS Venue, FiniteSetTheorems, SequenceTheorems, TLAPS

-----------------------------------------------------------------------------
(* Numbers and sequences.                                                  *)

LEMMA LaterOfTwo ==
  ASSUME NEW a \in Int, NEW b \in Int
  PROVE  Max({a, b}) \in Int /\ Max({a, b}) >= a /\ Max({a, b}) >= b /\ (Max({a, b}) = a \/ Max({a, b}) = b)
<1>1. \E x \in {a, b} : \A y \in {a, b} : x >= y  OBVIOUS
<1>2. Max({a, b}) \in {a, b} /\ \A y \in {a, b} : Max({a, b}) >= y  BY <1>1 DEF Max
<1> QED  BY <1>2

LEMMA EarlierOfTwo ==
  ASSUME NEW a \in Int, NEW b \in Int
  PROVE  Min({a, b}) \in Int /\ Min({a, b}) <= a /\ Min({a, b}) <= b /\ (Min({a, b}) = a \/ Min({a, b}) = b)
<1>1. \E x \in {a, b} : \A y \in {a, b} : x =< y  OBVIOUS
<1>2. Min({a, b}) \in {a, b} /\ \A y \in {a, b} : Min({a, b}) =< y  BY <1>1 DEF Min
<1> QED  BY <1>2

LEMMA BackoffIsNat ==
  ASSUME NEW n \in Nat \ {0}
  PROVE  Backoff[Min({n, 17})] \in Nat
<1>4. /\ Min({n, 17}) \in Int /\ Min({n, 17}) <= 17
      /\ Min({n, 17}) = n \/ Min({n, 17}) = 17
  BY EarlierOfTwo, n \in Int, 17 \in Int
<1>1. PICK k \in Int : k = Min({n, 17})  BY <1>4
<1>3. k \in 1 .. 17  BY <1>1, <1>4
<1>2. Backoff[k] \in Nat  BY <1>3 DEF Backoff
<1> QED  BY <1>1, <1>2

\* A finite set written as a sequence has no other elements.
LEMMA SequenceOfSet ==
  ASSUME NEW S, IsFiniteSet(S)
  PROVE  SetToSeq(S) \in Seq(S)
<1>1. Cardinality(S) \in Nat /\ ExistsBijection(1 .. Cardinality(S), S)  BY FS_CardinalityType
<1>2. PICK f : f \in Bijection(1 .. Cardinality(S), S)  BY <1>1 DEF ExistsBijection
<1>3. f \in [1 .. Cardinality(S) -> S] /\ IsInjective(f)  BY <1>2 DEF Bijection, Injection
<1>4. SetToSeq(S) \in [1 .. Cardinality(S) -> S]  BY <1>3 DEF SetToSeq
<1> QED  BY <1>1, <1>4

\* Appending an element.
LEMMA AppendAt ==
  ASSUME NEW S, NEW q \in Seq(S), NEW e \in S
  PROVE  /\ Append(q, e) \in Seq(S) /\ Len(Append(q, e)) = Len(q) + 1
         /\ Append(q, e) # <<>>
         /\ DOMAIN Append(q, e) = 1 .. Len(q) + 1
         /\ \A i \in 1 .. Len(q) : Append(q, e)[i] = q[i]
         /\ Append(q, e)[Len(q) + 1] = e
<1>1. Append(q, e) \in Seq(S) /\ Len(Append(q, e)) = Len(q) + 1  OBVIOUS
<1>2. Append(q, e) # <<>>
  <2>1. Len(Append(q, e)) = Len(q) + 1 /\ Len(q) \in Nat  BY <1>1
  <2>2. Len(<<>>) = 0  OBVIOUS
  <2> QED  BY <2>1, <2>2
<1>3. DOMAIN Append(q, e) = 1 .. Len(q) + 1  BY <1>1
<1>4. \A i \in 1 .. Len(q) : Append(q, e)[i] = q[i]  OBVIOUS
<1>5. Append(q, e)[Len(q) + 1] = e  OBVIOUS
<1> QED  BY <1>1, <1>2, <1>3, <1>4, <1>5

-----------------------------------------------------------------------------
(* The client: its limiter and its cache.                                  *)

Waiting == {"acquire", "send"}
Calls == [pc : Waiting, req : Requests, cacheable : BOOLEAN, attempt : Nat, pages : Nat]
Charges == [at : Int, from : Nat, to : Nat, floor : Int]

\* Weight the limiter has granted and the client has not sent yet.
Granted == IF call.pc = "send" THEN call.req.weight ELSE 0

\* Types, and what fetch decided before it waits.
Calling ==
  /\ clock \in Int /\ promised \in Int /\ charges \in Seq(Charges)
  /\ limiter \in [start : Int, used : 0 .. Budget, next : Int]
  /\ \/ call = NoCall
     \/ call.pc = "page" /\ call.req \in Requests /\ call.pages \in Nat
     \/ call \in Calls /\ (call.pc = "send" => call.attempt > 0)
        /\ (call.cacheable => call.req.end <= clock)

\* The windows of the limiter never overlap: what was sent since the current one
\* started is within its budget, and so is what was sent in the one before.
Metered ==
  /\ limiter.start <= clock
  /\ Granted <= limiter.used
  /\ \A i \in DOMAIN charges :
       /\ charges[i].at < limiter.start + Window
       /\ charges[i].at >= limiter.start => Charged - charges[i].from + Granted <= limiter.used
       /\ charges[i].at > limiter.start - Window
            => Charged - charges[i].from + Granted <= Budget + limiter.used

\* A request past the limiter is past every deadline, and within the window.
Cleared ==
  /\ promised <= limiter.next
  /\ call.pc = "send" => limiter.next <= clock /\ clock < limiter.start + Window

RestInv == Calling /\ Metered /\ Cleared /\ CacheFinal /\ TwoBudgets /\ RetryAfterHeld

LEMMA ChargedIsNat ==
  ASSUME Calling
  PROVE  Charged \in Nat
<1>1. CASE charges = <<>>  BY <1>1 DEF Charged
<1>2. CASE charges # <<>>
  <2>1. Len(charges) \in DOMAIN charges /\ charges[Len(charges)] \in Charges  BY <1>2 DEF Calling
  <2> QED  BY <1>2, <2>1 DEF Charged, Charges
<1> QED  BY <1>1, <1>2

LEMMA TwoWindows ==
  ASSUME NEW b \in Nat, NEW u \in 0 .. b, NEW c \in Nat, NEW w \in Nat, NEW f \in Nat, c - f + w <= b + u
  PROVE  c + w - f <= 2 * b
  OBVIOUS

\* What a request that is sent does to the account, in the same window.
LEMMA SentIsMetered ==
  ASSUME RestInv, call.pc = "send", Sent, call'.pc # "send",
         limiter'.start = limiter.start, limiter'.used = limiter.used,
         clock' \in Int, clock' >= clock
  PROVE  charges' \in Seq(Charges) /\ Metered' /\ TwoBudgets' /\ RetryAfterHeld'
<1> DEFINE w == call.req.weight
           c == [at |-> clock, from |-> Charged, to |-> Charged + w, floor |-> promised]
           n == Len(charges)
<1>1. w \in Nat /\ n \in Nat /\ clock \in Int /\ limiter.start \in Int /\ limiter.used \in 0 .. Budget
      /\ limiter.next \in Int /\ promised \in Int
  BY VenueAssumption DEF RestInv, Calling, Calls, NoCall
<1>17. Budget \in Nat /\ Window \in Nat /\ Window > 0  BY VenueAssumption
<1>2. Charged \in Nat  BY ChargedIsNat DEF RestInv
<1>3. c \in Charges  BY <1>1, <1>2 DEF Charges
<1>4. charges \in Seq(Charges) /\ charges' = Append(charges, c)  BY DEF RestInv, Calling, Sent
<1>5. /\ charges' \in Seq(Charges) /\ Len(charges') = n + 1 /\ charges' # <<>>
      /\ DOMAIN charges' = 1 .. n + 1
      /\ \A i \in 1 .. n : charges'[i] = charges[i]
      /\ charges'[n + 1] = c
  <2> HIDE DEF c
  <2> QED  BY <1>3, <1>4, AppendAt
<1>6. Charged' = Charged + w  BY <1>5 DEF Charged
<1>7. Granted = w /\ Granted' = 0  BY DEF Granted
<1>15. promised <= limiter.next /\ limiter.next <= clock  BY DEF RestInv, Cleared
<1>16. c.at = clock /\ c.from = Charged /\ c.to = Charged + w /\ c.floor = promised  OBVIOUS
<1>8. c.at >= c.floor  BY <1>1, <1>15, <1>16
<1> HIDE DEF c
<1>9. \A i \in 1 .. n : charges[i].at \in Int /\ charges[i].from \in Nat /\ charges[i].to \in Nat
  <2>1. \A i \in 1 .. n : charges[i] \in Charges  BY <1>4
  <2> QED  BY <2>1 DEF Charges
<1>10. \A i \in 1 .. n :
         /\ charges[i].at < limiter.start + Window
         /\ charges[i].at >= limiter.start => Charged - charges[i].from + w <= limiter.used
         /\ charges[i].at > limiter.start - Window
              => Charged - charges[i].from + w <= Budget + limiter.used
  BY <1>4, <1>7 DEF RestInv, Metered
<1>11. limiter.start <= clock /\ clock < limiter.start + Window /\ w <= limiter.used
  BY <1>7 DEF RestInv, Metered, Cleared
<1>12. Metered'
  <2>1. limiter'.start <= clock' /\ Granted' <= limiter'.used  BY <1>17, <1>1, <1>7, <1>11
  <2>2. ASSUME NEW i \in 1 .. n + 1
        PROVE  /\ charges'[i].at < limiter.start + Window
               /\ charges'[i].at >= limiter.start => Charged' - charges'[i].from <= limiter.used
               /\ charges'[i].at > limiter.start - Window
                    => Charged' - charges'[i].from <= Budget + limiter.used
    <3>1. CASE i \in 1 .. n
      <4>1. charges'[i] = charges[i]  BY <1>5, <3>1
      <4>2. charges[i].at \in Int /\ charges[i].from \in Nat  BY <1>9, <3>1
      <4>3. Charged' - charges[i].from = Charged - charges[i].from + w
        <5> HIDE DEF w, n
        <5>1. \E f \in Nat : f = charges[i].from  BY <4>2
        <5> QED  BY <1>1, <1>2, <1>6, <5>1
      <4> QED  BY <1>10, <3>1, <4>1, <4>3
    <3>2. CASE i = n + 1
      <4>1. charges'[i] = c  BY <1>5, <3>2
      <4>2. Charged' - c.from = w
        <5> HIDE DEF w, n
        <5> QED  BY <1>1, <1>2, <1>6, <1>16
      <4>3. clock < limiter.start + Window /\ w <= limiter.used /\ w <= Budget + limiter.used
        BY <1>1, <1>11, <1>17
      <4> QED  BY <1>16, <4>1, <4>2, <4>3
    <3> QED  BY <1>1, <3>1, <3>2
  <2>3. ASSUME NEW i \in 1 .. n + 1  PROVE  charges'[i].from \in Nat
    <3>1. CASE i \in 1 .. n  BY <1>5, <1>9, <3>1
    <3>2. CASE i = n + 1  BY <1>2, <1>5, <1>16, <3>2
    <3> QED  BY <1>1, <3>1, <3>2
  <2>4. Charged' \in Int  BY <1>1, <1>2, <1>6
  <2>5. \A i \in 1 .. n + 1 : Charged' - charges'[i].from + Granted' = Charged' - charges'[i].from
    BY <1>7, <2>3, <2>4
  <2> QED  BY <1>5, <2>1, <2>2, <2>5 DEF Metered
<1>13. TwoBudgets'
  <2>0. SUFFICES ASSUME NEW j \in 1 .. n + 1, NEW i \in 1 .. j, charges'[i].at > charges'[j].at - Window
               PROVE  charges'[j].to - charges'[i].from <= 2 * Budget
    BY <1>5 DEF TwoBudgets
  <2>1. CASE j \in 1 .. n
    <3>1. i \in 1 .. n /\ j \in DOMAIN charges  BY <1>17, <1>1, <1>4, <2>1
    <3> QED  BY <1>5, <2>0, <2>1, <3>1 DEF RestInv, TwoBudgets
  <2>2. CASE j = n + 1 /\ i \in 1 .. n
    <3>3. charges'[i] = charges[i] /\ charges'[j] = c  BY <1>5, <2>2
    <3>4. charges[i].at \in Int /\ charges[i].from \in Nat  BY <1>9, <2>2
    <3>5. charges[i].at > clock - Window  BY <1>16, <2>0, <3>3
    <3>1. charges[i].at > limiter.start - Window
      <4> HIDE DEF w, n
      <4>1. PICK a \in Int : a = charges[i].at  BY <3>4
      <4>2. PICK s \in Int : s = limiter.start /\ s <= clock  BY <1>1, <1>11
      <4>3. a > s - Window  BY <1>1, <1>17, <3>5, <4>1, <4>2
      <4> QED  BY <4>1, <4>2, <4>3
    <3>2. Charged - charges[i].from + w <= Budget + limiter.used  BY <1>10, <2>2, <3>1
    <3>6. Charged + w - charges[i].from <= 2 * Budget
      <4> HIDE DEF w
      <4> QED  BY <1>1, <1>2, <1>17, <3>2, <3>4, TwoWindows
    <3>7. charges'[j].to = Charged + w /\ charges'[i].from = charges[i].from  BY <1>16, <3>3
    <3>8. PICK t \in Nat, f \in Nat : t = charges'[j].to /\ f = charges'[i].from
      BY <1>1, <1>2, <3>4, <3>7
    <3>10. PICK x \in Nat : x = w  BY <1>1
    <3>11. PICK y \in Nat : y = Charged  BY <1>2
    <3>12. t = y + x /\ f = charges[i].from  BY <3>7, <3>8, <3>10, <3>11
    <3>13. y + x - f <= 2 * Budget  BY <3>6, <3>10, <3>11, <3>12, Zenon
    <3>9. t - f <= 2 * Budget  BY <1>17, <3>12, <3>13
    <3> QED  BY <3>8, <3>9
  <2>3. CASE j = n + 1 /\ i = n + 1
    <3> HIDE DEF w, n
    <3>1. charges'[i] = c /\ charges'[j] = c  BY <1>5, <2>3
    <3>2. PICK t \in Nat : t = Charged  BY <1>2
    <3>3. charges'[j].to = t + w /\ charges'[i].from = t  BY <1>16, <3>1, <3>2
    <3>4. w <= 2 * Budget  BY <1>1, <1>11, <1>17
    <3>5. charges'[j].to - charges'[i].from = w  BY <1>1, <3>3
    <3> QED  BY <3>4, <3>5
  <2> QED  BY <1>1, <2>1, <2>2, <2>3
<1>14. RetryAfterHeld'
  BY <1>17, <1>1, <1>4, <1>5, <1>8 DEF RestInv, RetryAfterHeld
<1> QED  BY <1>5, <1>12, <1>13, <1>14

LEMMA VenueNumbers == Budget \in Nat /\ Window \in Nat /\ Window > 0
  BY VenueAssumption

\* The type of what has been sent.
LEMMA ChargeTypes ==
  ASSUME Calling, NEW i \in DOMAIN charges
  PROVE  charges[i].at \in Int /\ charges[i].from \in Nat
<1>1. charges[i] \in Charges  BY DEF Calling
<1> QED  BY <1>1 DEF Charges

\* A step that sends nothing and is not past the limiter, before or after.
LEMMA QuietKeeps ==
  ASSUME RestInv, Calling', call.pc # "send", call'.pc # "send", clock' >= clock,
         UNCHANGED <<limiter, restCache, charges, promised>>
  PROVE  RestInv'
<1>1. Granted = 0 /\ Granted' = 0 /\ Charged' = Charged  BY DEF Granted, Charged
<1>2. Metered'
  <2>1. limiter.start \in Int /\ clock \in Int /\ clock' \in Int  BY DEF RestInv, Calling
  <2>2. limiter'.start <= clock'  BY <2>1 DEF RestInv, Metered
  <2> QED  BY <1>1, <2>2 DEF RestInv, Metered
<1>3. Cleared'  BY DEF RestInv, Cleared
<1>4. CacheFinal' /\ TwoBudgets' /\ RetryAfterHeld'
  BY DEF RestInv, CacheFinal, TwoBudgets, RetryAfterHeld
<1> QED  BY <1>2, <1>3, <1>4 DEF RestInv

\* What fetch does before its loop, from a state that is not past the limiter.
LEMMA FetchKeeps ==
  ASSUME RestInv, call.pc # "send", NEW req \in Requests, NEW p \in Nat, Fetch(req, p),
         UNCHANGED <<clock, setBack, limiter, restCache, charges, promised>>
  PROVE  RestInv'
<1>1. /\ clock' \in Int /\ promised' \in Int /\ charges' \in Seq(Charges)
      /\ limiter' \in [start : Int, used : 0 .. Budget, next : Int]
      /\ clock' >= clock
  BY DEF RestInv, Calling
<1>2. Calling' /\ call'.pc # "send"
  <2>1. CASE call' = NoCall  BY <1>1, <2>1 DEF Calling, NoCall
  <2>2. CASE call' = [pc |-> "page", req |-> req, pages |-> p + 1]  BY <1>1, <2>2 DEF Calling
  <2>3. CASE call' = [pc |-> "acquire", req |-> req, cacheable |-> IsClosedWindow(req, clock),
                      attempt |-> 0, pages |-> p]
    <3>1. IsClosedWindow(req, clock) \in BOOLEAN  BY DEF IsClosedWindow
    <3>2. call' \in Calls /\ call'.pc = "acquire"  BY <2>3, <3>1 DEF Calls, Waiting
    <3>3. call'.cacheable => call'.req.end <= clock'  BY <2>3 DEF IsClosedWindow
    <3> QED  BY <1>1, <3>2, <3>3 DEF Calling
  <2> QED  BY <2>1, <2>2, <2>3 DEF Fetch, Answered
<1> QED  BY <1>1, <1>2, QuietKeeps

\* The window the limiter is in when it is asked at this moment.
LEMMA RolledIs ==
  ASSUME RestInv, call.pc # "send", NEW r, r = Rolled(limiter, clock)
  PROVE  /\ r \in [start : Int, used : 0 .. Budget, next : Int] /\ r.next = limiter.next
         /\ r.start <= clock /\ clock < r.start + Window
         /\ \A i \in DOMAIN charges :
              /\ charges[i].at < r.start + Window
              /\ charges[i].at >= r.start => Charged - charges[i].from <= r.used
              /\ charges[i].at > r.start - Window => Charged - charges[i].from <= Budget + r.used
<1>1. clock \in Int /\ limiter \in [start : Int, used : 0 .. Budget, next : Int] /\ charges \in Seq(Charges)
  BY DEF RestInv, Calling
<1>2. Budget \in Nat /\ Window \in Nat /\ Window > 0  BY VenueNumbers
<1>3. Charged \in Nat  BY ChargedIsNat DEF RestInv
<1>4. \A i \in DOMAIN charges : charges[i].at \in Int /\ charges[i].from \in Nat
  BY ChargeTypes DEF RestInv
<1>5. Granted = 0  BY DEF Granted
<1>6. limiter.start <= clock
  BY DEF RestInv, Metered
<1>7. \A i \in DOMAIN charges :
         /\ charges[i].at < limiter.start + Window
         /\ charges[i].at >= limiter.start => Charged - charges[i].from <= limiter.used
         /\ charges[i].at > limiter.start - Window => Charged - charges[i].from <= Budget + limiter.used
  BY <1>3, <1>4, <1>5 DEF RestInv, Metered
<1>8. CASE clock >= limiter.start + Window
  <2>1. r = [limiter EXCEPT !.start = clock, !.used = 0]  BY <1>8 DEF Rolled
  <2>5. 0 \in 0 .. Budget  BY <1>2
  <2>2. r \in [start : Int, used : 0 .. Budget, next : Int] /\ r.next = limiter.next /\ r.start = clock /\ r.used = 0
    BY <1>1, <2>1, <2>5
  <2>3. ASSUME NEW i \in DOMAIN charges
        PROVE  /\ charges[i].at < clock
               /\ charges[i].at > clock - Window => Charged - charges[i].from <= Budget
    <3>1. charges[i].at \in Int /\ charges[i].from \in Nat  BY <1>4
    <3>2. limiter.start \in Int /\ limiter.used \in 0 .. Budget  BY <1>1
    <3>3. /\ charges[i].at < limiter.start + Window
          /\ charges[i].at >= limiter.start => Charged - charges[i].from <= limiter.used
      BY <1>7
    <3>4. charges[i].at < clock  BY <1>1, <1>2, <1>8, <3>1, <3>2, <3>3
    <3>5. charges[i].at > clock - Window => charges[i].at >= limiter.start
      BY <1>1, <1>2, <1>8, <3>1, <3>2
    <3> QED  BY <1>2, <1>3, <3>1, <3>2, <3>3, <3>4, <3>5
  <2>4. ASSUME NEW i \in DOMAIN charges
        PROVE  /\ charges[i].at < r.start + Window
               /\ charges[i].at >= r.start => Charged - charges[i].from <= r.used
               /\ charges[i].at > r.start - Window => Charged - charges[i].from <= Budget + r.used
    <3>1. charges[i].at \in Int  BY <1>4
    <3>2. charges[i].at < clock /\ (charges[i].at > clock - Window => Charged - charges[i].from <= Budget)  BY <2>3
    <3> QED  BY <1>1, <1>2, <2>2, <3>1, <3>2
  <2> QED  BY <1>1, <1>2, <2>2, <2>4
<1>9. CASE ~(clock >= limiter.start + Window)
  <2>1. r = limiter  BY <1>9 DEF Rolled
  <2> QED  BY <1>1, <1>2, <1>6, <1>7, <1>9, <2>1
<1> QED  BY <1>8, <1>9

\* Sleeping never sets the clock back, and a deadline that is now is no sleep.
LEMMA Sleeping ==
  ASSUME Calling, NEW u \in Int
  PROVE  /\ Max({clock, Min({u, MaxClock})}) \in Int
         /\ Max({clock, Min({u, MaxClock})}) >= clock
         /\ u = clock => Max({clock, Min({u, MaxClock})}) = clock
<1>1. clock \in Int /\ MaxClock \in Int  BY VenueAssumption DEF Calling
<1>2. PICK m \in Int : m = Min({u, MaxClock}) /\ m <= u  BY <1>1, EarlierOfTwo
<1>3. /\ Max({clock, m}) \in Int /\ Max({clock, m}) >= clock
      /\ Max({clock, m}) = clock \/ Max({clock, m}) = m
  BY <1>1, <1>2, LaterOfTwo
<1>4. u = clock => Max({clock, m}) = clock  BY <1>1, <1>2, <1>3
<1> QED  BY <1>2, <1>3, <1>4

LEMMA InCall ==
  ASSUME RestInv, call.pc \in Waiting
  PROVE  /\ call \in Calls /\ (call.cacheable => call.req.end <= clock)
         /\ call.pc = "send" => call.attempt > 0
         /\ call.req \in Requests /\ call.req.weight \in Nat /\ call.req.end \in Int
<1>1. call \in Calls /\ (call.cacheable => call.req.end <= clock) /\ (call.pc = "send" => call.attempt > 0)
  BY DEF RestInv, Calling, NoCall, Waiting
<1>2. call.req \in Requests  BY <1>1 DEF Calls
<1> QED  BY <1>1, <1>2, VenueAssumption

LEMMA AcquireKeeps ==
  ASSUME RestInv, AcquireStep
  PROVE  RestInv'
<1> DEFINE w == call.req.weight
           a == Acquire(limiter, w, clock)
           r == Rolled(limiter, clock)
<1>1. /\ clock \in Int /\ promised \in Int /\ charges \in Seq(Charges)
      /\ limiter \in [start : Int, used : 0 .. Budget, next : Int]
  BY DEF RestInv, Calling
<1>2. UNCHANGED <<restCache, charges, promised>> /\ call.pc = "acquire"  BY DEF AcquireStep
<1>3. call \in Calls /\ (call.cacheable => call.req.end <= clock) /\ w \in Nat /\ call.req.end \in Int
  BY <1>2, InCall DEF Waiting
<1>4. Budget \in Nat /\ Window \in Nat /\ Window > 0  BY VenueNumbers
<1>5. CASE call.attempt >= MaxAttempts
  <2>1. call' = NoCall /\ UNCHANGED <<clock, limiter>>  BY <1>5 DEF AcquireStep, Answered
  <2>2. Calling' /\ call'.pc # "send"  BY <1>1, <1>2, <2>1 DEF Calling, NoCall
  <2> QED  BY <1>1, <1>2, <2>1, <2>2, QuietKeeps
<1>6. CASE ~(call.attempt >= MaxAttempts)
  <2>1. /\ limiter' = a.limiter
        /\ clock' = Max({clock, Min({a.until, MaxClock})})
        /\ call' = IF a.ready THEN [call EXCEPT !.pc = "send", !.attempt = @ + 1] ELSE call
    BY <1>6 DEF AcquireStep
  <2>2. CASE clock < limiter.next
    <3>1. a = [limiter |-> limiter, ready |-> FALSE, until |-> limiter.next]  BY <2>2 DEF Acquire
    <3>2. limiter' = limiter /\ call' = call /\ a.until \in Int  BY <1>1, <2>1, <3>1
    <3>3. clock' \in Int /\ clock' >= clock  BY <2>1, <3>2, Sleeping DEF RestInv
    <3>4. call.cacheable => call.req.end <= clock'  BY <1>1, <1>3, <3>3
    <3>5. Calling' /\ call'.pc # "send"  BY <1>1, <1>2, <1>3, <3>2, <3>3, <3>4 DEF Calling
    <3> QED  BY <1>2, <3>2, <3>3, <3>5, QuietKeeps
  <2>3. CASE ~(clock < limiter.next)
    <3>1. /\ r \in [start : Int, used : 0 .. Budget, next : Int] /\ r.next = limiter.next
          /\ r.start <= clock /\ clock < r.start + Window
          /\ \A i \in DOMAIN charges :
               /\ charges[i].at < r.start + Window
               /\ charges[i].at >= r.start => Charged - charges[i].from <= r.used
               /\ charges[i].at > r.start - Window => Charged - charges[i].from <= Budget + r.used
      BY <1>2, RolledIs
    <3>2. \A i \in DOMAIN charges : charges[i].at \in Int /\ charges[i].from \in Nat
      BY ChargeTypes DEF RestInv
    <3>3. Charged \in Nat /\ Charged' = Charged  BY <1>2, ChargedIsNat DEF RestInv, Charged
    <3>4. promised <= limiter.next  BY DEF RestInv, Cleared
    <3>5. CacheFinal' /\ TwoBudgets' /\ RetryAfterHeld'
      BY <1>2 DEF RestInv, CacheFinal, TwoBudgets, RetryAfterHeld
    <3>6. CASE r.used + w <= Budget
      <4>1. a = [limiter |-> [r EXCEPT !.used = @ + w], ready |-> TRUE, until |-> clock]
        BY <2>3, <3>6 DEF Acquire
      <4>2. limiter' = [r EXCEPT !.used = @ + w] /\ a.until = clock
            /\ call' = [call EXCEPT !.pc = "send", !.attempt = @ + 1]
        BY <2>1, <4>1
      <4>3. clock' = clock  BY <1>1, <2>1, <4>2, Sleeping DEF RestInv
      <4>4. r.used + w \in 0 .. Budget  BY <1>3, <1>4, <3>1, <3>6
      <4>5. /\ limiter' \in [start : Int, used : 0 .. Budget, next : Int]
            /\ limiter'.start = r.start /\ limiter'.used = r.used + w /\ limiter'.next = limiter.next
        BY <3>1, <4>2, <4>4
      <4>6. call' \in Calls /\ call'.pc = "send" /\ call'.attempt > 0
            /\ call'.req = call.req /\ call'.cacheable = call.cacheable
        <5>1. call.attempt \in Nat /\ call.attempt + 1 \in Nat /\ call.attempt + 1 > 0  BY <1>3 DEF Calls
        <5>2. "send" \in Waiting  BY DEF Waiting
        <5>3. call' \in Calls  BY <1>3, <4>2, <5>1, <5>2 DEF Calls
        <5> QED  BY <1>3, <4>2, <5>1, <5>3 DEF Calls
      <4>7. Calling'  BY <1>1, <1>2, <1>3, <4>3, <4>5, <4>6 DEF Calling
      <4>8. Granted' = w  BY <4>6 DEF Granted
      <4>9. Metered'
        <5>1. limiter'.start <= clock'  BY <3>1, <4>3, <4>5
        <5>2. Granted' <= limiter'.used  BY <1>3, <3>1, <4>5, <4>8
        <5>3. ASSUME NEW i \in DOMAIN charges
              PROVE  /\ charges[i].at < r.start + Window
                     /\ charges[i].at >= r.start => Charged - charges[i].from + w <= r.used + w
                     /\ charges[i].at > r.start - Window
                          => Charged - charges[i].from + w <= Budget + (r.used + w)
          <6>1. charges[i].at \in Int /\ charges[i].from \in Nat  BY <3>2
          <6>2. /\ charges[i].at < r.start + Window
                /\ charges[i].at >= r.start => Charged - charges[i].from <= r.used
                /\ charges[i].at > r.start - Window => Charged - charges[i].from <= Budget + r.used
            BY <3>1
          <6>3. r.used \in Nat  BY <3>1
          <6> QED  BY <1>3, <1>4, <3>3, <6>1, <6>2, <6>3
        <5> QED  BY <1>2, <3>3, <4>5, <4>8, <5>1, <5>2, <5>3 DEF Metered
      <4>10. Cleared'  BY <1>2, <2>3, <1>1, <3>1, <3>4, <4>3, <4>5 DEF Cleared
      <4> QED  BY <3>5, <4>7, <4>9, <4>10 DEF RestInv
    <3>7. CASE ~(r.used + w <= Budget)
      <4>1. a = [limiter |-> r, ready |-> FALSE, until |-> r.start + Window]
        BY <2>3, <3>7 DEF Acquire
      <4>2. limiter' = r /\ call' = call /\ a.until \in Int  BY <1>4, <2>1, <3>1, <4>1
      <4>3. clock' \in Int /\ clock' >= clock  BY <2>1, <4>2, Sleeping DEF RestInv
      <4>4. call.cacheable => call.req.end <= clock'  BY <1>1, <1>3, <4>3
      <4>5. Calling'  BY <1>1, <1>2, <1>3, <3>1, <4>2, <4>3, <4>4 DEF Calling
      <4>6. Granted' = 0  BY <1>2, <4>2 DEF Granted
      <4>7. Metered'
        <5>1. limiter'.start <= clock' /\ Granted' <= limiter'.used  BY <1>1, <3>1, <4>2, <4>3, <4>6
        <5>2. \A i \in DOMAIN charges : Charged - charges[i].from + 0 = Charged - charges[i].from
          BY <3>2, <3>3
        <5> QED  BY <1>2, <3>1, <3>3, <4>2, <4>6, <5>1, <5>2 DEF Metered
      <4>8. Cleared'  BY <1>2, <3>1, <3>4, <4>2 DEF Cleared
      <4> QED  BY <3>5, <4>5, <4>7, <4>8 DEF RestInv
    <3> QED  BY <3>6, <3>7
  <2> QED  BY <2>2, <2>3
<1> QED  BY <1>5, <1>6

LEMMA SendKeeps ==
  ASSUME RestInv,
         \/ SendOk \/ SendTransient \/ SendFatal
         \/ \E after \in RetryAfters : SendRateLimited(after)
  PROVE  RestInv'
<1>1. call.pc = "send" /\ Sent  BY DEF SendOk, SendTransient, SendFatal, SendRateLimited
<1>2. /\ call \in Calls /\ (call.cacheable => call.req.end <= clock) /\ call.attempt > 0
      /\ call.req \in Requests /\ call.req.end \in Int
  BY <1>1, InCall DEF Waiting
<1>3. /\ clock \in Int /\ promised \in Int /\ charges \in Seq(Charges)
      /\ limiter \in [start : Int, used : 0 .. Budget, next : Int]
  BY DEF RestInv, Calling
<1>4. promised <= limiter.next /\ limiter.next <= clock  BY <1>1 DEF RestInv, Cleared
<1>5. ASSUME call'.pc # "send", limiter'.start = limiter.start, limiter'.used = limiter.used,
             clock' \in Int, clock' >= clock
      PROVE  charges' \in Seq(Charges) /\ Metered' /\ TwoBudgets' /\ RetryAfterHeld'
  BY <1>1, <1>5, SentIsMetered
<1>6. CASE SendOk
  <2>1. /\ call' = [pc |-> "page", req |-> call.req, pages |-> call.pages + 1]
        /\ UNCHANGED <<clock, limiter, promised>>
    BY <1>6 DEF SendOk
  <2>2. call'.pc = "page" /\ call'.req \in Requests /\ call'.pages \in Nat  BY <1>2, <2>1 DEF Calls
  <2>3. charges' \in Seq(Charges) /\ Metered' /\ TwoBudgets' /\ RetryAfterHeld'
    BY <1>3, <1>5, <2>1, <2>2
  <2>4. Calling'  BY <1>3, <2>1, <2>2, <2>3 DEF Calling
  <2>5. Cleared'  BY <2>1, <2>2 DEF RestInv, Cleared
  <2>6. CacheFinal'
    <3>1. CASE ~call.cacheable
      <4>1. restCache' = restCache  BY <1>6, <3>1 DEF SendOk
      <4> QED  BY <4>1 DEF RestInv, CacheFinal
    <3>2. CASE call.cacheable
      <4>1. restCache' = CachePut(call.req.key, "final")  BY <1>2, <1>6, <3>2 DEF SendOk
      <4> QED  BY <4>1 DEF RestInv, CacheFinal, CachePut
    <3> QED  BY <3>1, <3>2
  <2> QED  BY <2>3, <2>4, <2>5, <2>6 DEF RestInv
<1>7. CASE SendFatal
  <2>1. call' = NoCall /\ UNCHANGED <<clock, limiter, promised, restCache>>
    BY <1>7 DEF SendFatal, Answered
  <2>2. call'.pc # "send"  BY <2>1 DEF NoCall
  <2>3. charges' \in Seq(Charges) /\ Metered' /\ TwoBudgets' /\ RetryAfterHeld'
    BY <1>3, <1>5, <2>1, <2>2
  <2>4. Calling'  BY <1>3, <2>1, <2>3 DEF Calling
  <2>5. Cleared' /\ CacheFinal'  BY <2>1, <2>2 DEF RestInv, Cleared, CacheFinal
  <2> QED  BY <2>3, <2>4, <2>5 DEF RestInv
<1>8. ASSUME call' = [call EXCEPT !.pc = "acquire"], clock' \in Int, clock' >= clock, promised' \in Int,
             limiter' \in [start : Int, used : 0 .. Budget, next : Int],
             limiter'.start = limiter.start, limiter'.used = limiter.used,
             promised' <= limiter'.next, restCache' = restCache
      PROVE  RestInv'
  <2>1. "acquire" \in Waiting  BY DEF Waiting
  <2>2. call' \in Calls /\ call'.pc = "acquire" /\ call'.req = call.req /\ call'.cacheable = call.cacheable
    BY <1>2, <1>8, <2>1 DEF Calls
  <2>3. charges' \in Seq(Charges) /\ Metered' /\ TwoBudgets' /\ RetryAfterHeld'
    BY <1>5, <1>8, <2>2
  <2>4. call'.cacheable => call'.req.end <= clock'  BY <1>2, <1>3, <1>8, <2>2
  <2>5. Calling'  BY <1>8, <2>2, <2>3, <2>4 DEF Calling
  <2>6. Cleared' /\ CacheFinal'  BY <1>8, <2>2 DEF RestInv, Cleared, CacheFinal
  <2> QED  BY <2>3, <2>5, <2>6 DEF RestInv
<1>9. CASE SendTransient
  <2>1. /\ call' = [call EXCEPT !.pc = "acquire"] /\ clock' = clock + Backoff[Min({call.attempt, 17})]
        /\ UNCHANGED <<limiter, restCache, promised>>
    BY <1>9 DEF SendTransient
  <2>2. call.attempt \in Nat \ {0}  BY <1>2 DEF Calls
  <2>3. PICK d \in Nat : d = Backoff[Min({call.attempt, 17})]  BY <2>2, BackoffIsNat
  <2>4. clock' \in Int /\ clock' >= clock  BY <1>3, <2>1, <2>3
  <2> QED  BY <1>3, <1>4, <1>8, <2>1, <2>4
<1>10. ASSUME NEW after \in RetryAfters, SendRateLimited(after)
       PROVE  RestInv'
  <2>1. after \in Nat  BY VenueAssumption
  <2>2. PICK deadline \in Int : deadline = clock + after  BY <1>3, <2>1
  <2>3. /\ limiter' = NoteRetryAfter(limiter, deadline)
        /\ promised' = Max({promised, deadline})
        /\ call' = [call EXCEPT !.pc = "acquire"] /\ restCache' = restCache
    BY <1>10, <2>2 DEF SendRateLimited
  <2>4. PICK back \in 0 .. after : clock' = Max({clock, deadline}) - back
    BY <1>10, <2>2 DEF SendRateLimited
  <2>5. PICK m \in Int : m = Max({clock, deadline}) /\ m >= deadline
    BY <1>3, LaterOfTwo
  <2>6. clock' \in Int /\ clock' >= clock  BY <1>3, <2>1, <2>2, <2>4, <2>5
  <2>7. PICK n \in Int : /\ n = Max({limiter.next, deadline})
                         /\ n >= limiter.next /\ n >= deadline
    BY <1>3, LaterOfTwo
  <2>8. /\ limiter' \in [start : Int, used : 0 .. Budget, next : Int]
        /\ limiter'.start = limiter.start /\ limiter'.used = limiter.used /\ limiter'.next = n
    BY <1>3, <2>3, <2>7 DEF NoteRetryAfter
  <2>9. PICK p \in Int : p = Max({promised, deadline}) /\ (p = promised \/ p = deadline)
    BY <1>3, LaterOfTwo
  <2>10. promised' \in Int /\ promised' <= limiter'.next
    BY <1>3, <1>4, <2>3, <2>7, <2>8, <2>9
  <2> QED  BY <1>8, <2>3, <2>6, <2>8, <2>10
<1> QED  BY <1>6, <1>7, <1>9, <1>10

LEMMA RestStarts ==
  ASSUME RestInit
  PROVE  RestInv
<1>1. Budget \in Nat /\ Window \in Nat /\ Window > 0  BY VenueNumbers
<1>2. /\ clock = 0 /\ promised = 0 /\ charges = <<>> /\ call = NoCall /\ restCache = <<>>
      /\ limiter = [start |-> -Window, used |-> 0, next |-> 0]
  BY DEF RestInit
<1>3. Calling  BY <1>1, <1>2 DEF Calling
<1>4. Granted = 0  BY <1>2 DEF Granted, NoCall
<1>5. DOMAIN charges = {} /\ DOMAIN restCache = {}  BY <1>2
<1>6. Metered  BY <1>1, <1>2, <1>4, <1>5 DEF Metered
<1>7. Cleared  BY <1>2 DEF Cleared, NoCall
<1>8. CacheFinal /\ TwoBudgets /\ RetryAfterHeld  BY <1>5 DEF CacheFinal, TwoBudgets, RetryAfterHeld
<1> QED  BY <1>3, <1>6, <1>7, <1>8 DEF RestInv

LEMMA RestKeeps ==
  ASSUME RestInv, RestNext \/ UNCHANGED restVars
  PROVE  RestInv'
<1>1. CASE StartCall
  <2>1. call = NoCall /\ UNCHANGED <<clock, setBack, limiter, restCache, charges, promised>>
    BY <1>1 DEF StartCall
  <2>2. PICK req \in Requests : Fetch(req, 0)  BY <1>1 DEF StartCall
  <2>3. call.pc # "send"  BY <2>1 DEF NoCall
  <2> QED  BY <2>1, <2>2, <2>3, FetchKeeps
<1>2. CASE RestTick
  <2>1. call = NoCall /\ call' = call /\ clock' = clock + 1
        /\ UNCHANGED <<limiter, restCache, charges, promised>>
    BY <1>2 DEF RestTick
  <2>2. clock \in Int /\ promised \in Int /\ charges \in Seq(Charges)
        /\ limiter \in [start : Int, used : 0 .. Budget, next : Int]
    BY DEF RestInv, Calling
  <2>3. clock' \in Int /\ clock' >= clock  BY <2>1, <2>2
  <2>4. call.pc # "send" /\ call'.pc # "send" /\ Calling'  BY <2>1, <2>2, <2>3 DEF Calling, NoCall
  <2> QED  BY <2>1, <2>3, <2>4, QuietKeeps
<1>3. CASE AcquireStep  BY <1>3, AcquireKeeps
<1>4. CASE SendOk \/ SendTransient \/ SendFatal \/ \E after \in RetryAfters : SendRateLimited(after)
  BY <1>4, SendKeeps
<1>5. CASE NextPage
  <2>1. call.pc = "page" /\ UNCHANGED <<clock, setBack, limiter, restCache, charges, promised>>
    BY <1>5 DEF NextPage
  <2>2. call.req \in Requests /\ call.pages \in Nat
    BY <2>1 DEF RestInv, Calling, NoCall, Calls, Waiting
  <2>3. CASE Follow[call.req] = NoPage
    <3>1. call' = NoCall  BY <1>5, <2>3 DEF NextPage, Answered
    <3>2. Calling' /\ call'.pc # "send" /\ call.pc # "send" /\ clock' >= clock
      BY <2>1, <3>1 DEF RestInv, Calling, NoCall
    <3> QED  BY <2>1, <3>2, QuietKeeps
  <2>4. CASE Follow[call.req] # NoPage
    <3>1. Fetch(Follow[call.req], call.pages)  BY <1>5, <2>4 DEF NextPage
    <3>2. Follow[call.req] \in Requests  BY <2>2, <2>4, VenueAssumption
    <3> QED  BY <2>1, <2>2, <3>1, <3>2, FetchKeeps
  <2> QED  BY <2>3, <2>4
<1>6. CASE UNCHANGED restVars
  BY <1>6 DEF restVars, RestInv, Calling, Metered, Cleared, CacheFinal, TwoBudgets, RetryAfterHeld,
              Granted, Charged
<1> QED  BY <1>1, <1>2, <1>3, <1>4, <1>5, <1>6 DEF RestNext, RestStep

-----------------------------------------------------------------------------
(* The registry of streams.                                                *)

Messages == [stream : Streams, time : Nat]
Sockets  == [up : BOOLEAN, subs : SUBSET Streams, queue : Seq(Messages)]

\* What waits in a socket is in order of time, later than what was returned, and
\* published.
Ordered(q) ==
  \A j \in DOMAIN q :
    /\ lastEvent[q[j].stream] <= q[j].time /\ q[j].time \in 1 .. published
    /\ \A i \in 1 .. j : q[i].time <= q[j].time

Listening ==
  /\ published \in Nat /\ subs \subseteq Streams /\ lastEvent \in [Streams -> Nat]
  /\ \A s \in Streams : lastEvent[s] <= published
  /\ conn = NoPage \/ (conn \in Sockets /\ Ordered(conn.queue))

\* lastEvent is the latest message returned, once there is one.
Heard ==
  /\ seen \subseteq Messages
  /\ \A m \in seen : 1 <= m.time /\ m.time <= lastEvent[m.stream]
  /\ \A s \in Streams : lastEvent[s] > 0 => [stream |-> s, time |-> lastEvent[s]] \in seen

StreamInv == Listening /\ Heard /\ MissedIsReported

LEMMA StreamStarts ==
  ASSUME StreamInit
  PROVE  StreamInv
  BY DEF StreamInit, StreamInv, Listening, Heard, MissedIsReported

\* A step that returns no message.
LEMMA SilentKeeps ==
  ASSUME StreamInv, Listening', UNCHANGED <<lastEvent, seen, gaps>>
  PROVE  StreamInv'
  BY DEF StreamInv, Heard, MissedIsReported

\* A new socket has nothing to read.
LEMMA EmptySocket ==
  ASSUME NEW ss \in SUBSET Streams
  PROVE  Socket(ss) \in Sockets /\ Socket(ss).up = TRUE /\ Socket(ss).subs = ss /\ Socket(ss).queue = <<>>
  BY DEF Socket, Sockets

LEMMA SubscribeKeeps ==
  ASSUME StreamInv, NEW s \in Streams, NEW o, Subscribe(s, o)
  PROVE  StreamInv'
<1>1. UNCHANGED <<lastEvent, published, seen, gaps>>  BY DEF Subscribe
<1>2. Listening'
  <2>1. CASE UNCHANGED <<conn, subs>>  BY <1>1, <2>1 DEF StreamInv, Listening, Ordered
  <2>2. CASE ~UNCHANGED <<conn, subs>>
    <3> DEFINE c == IF conn = NoPage THEN Socket({}) ELSE conn
    <3>1. c \in Sockets /\ Ordered(c.queue)
      <4>1. CASE conn = NoPage
        <5>1. c = Socket({}) /\ {} \in SUBSET Streams  BY <4>1
        <5>2. c \in Sockets /\ c.queue = <<>>  BY <5>1, EmptySocket
        <5> QED  BY <5>2 DEF Ordered
      <4>2. CASE conn # NoPage  BY <4>2 DEF StreamInv, Listening
      <4> QED  BY <4>1, <4>2
    <3>2. \/ conn' = c /\ subs' = subs
          \/ conn' = [c EXCEPT !.subs = @ \union {s}] /\ subs' = subs \union {s}
      BY <2>2 DEF Subscribe
    <3> HIDE DEF c
    <3>3. subs' \subseteq Streams  BY <3>2 DEF StreamInv, Listening
    <3>4. conn' \in Sockets /\ conn'.queue = c.queue
      <4>1. CASE conn' = c  BY <3>1, <4>1
      <4>2. CASE conn' = [c EXCEPT !.subs = @ \union {s}]
        <5>1. c.subs \union {s} \in SUBSET Streams  BY <3>1 DEF Sockets
        <5> QED  BY <3>1, <4>2, <5>1 DEF Sockets
      <4> QED  BY <3>2, <4>1, <4>2
    <3>5. Ordered(conn.queue)'  BY <1>1, <3>1, <3>4 DEF Ordered
    <3> QED  BY <1>1, <3>3, <3>4, <3>5 DEF StreamInv, Listening
  <2> QED  BY <2>1, <2>2
<1> QED  BY <1>1, <1>2, SilentKeeps

LEMMA ReconnectKeeps ==
  ASSUME StreamInv, NEW o, PumpReconnect(o)
  PROVE  StreamInv'
<1>1. UNCHANGED <<subs, lastEvent, published, seen, gaps>> /\ conn # NoPage  BY DEF PumpReconnect
<1>2. Listening'
  <2>1. CASE conn' = conn  BY <1>1, <2>1 DEF StreamInv, Listening, Ordered
  <2>2. CASE conn' # conn
    <3>1. PICK ss \in SUBSET Streams : conn' = Socket(ss)
      BY <2>2 DEF PumpReconnect, StreamInv, Listening
    <3>2. conn' \in Sockets /\ conn'.queue = <<>>  BY <3>1, EmptySocket
    <3>3. Ordered(conn.queue)'  BY <3>2 DEF Ordered
    <3> QED  BY <1>1, <3>2, <3>3 DEF StreamInv, Listening
  <2> QED  BY <2>1, <2>2
<1> QED  BY <1>1, <1>2, SilentKeeps

LEMMA DropKeeps ==
  ASSUME StreamInv, DropSocket
  PROVE  StreamInv'
<1>1. UNCHANGED <<subs, lastEvent, published, seen, gaps>> /\ conn # NoPage
      /\ conn' = [conn EXCEPT !.up = FALSE]
  BY DEF DropSocket
<1>2. conn \in Sockets /\ Ordered(conn.queue)  BY <1>1 DEF StreamInv, Listening
<1>3. conn' \in Sockets /\ conn'.queue = conn.queue  BY <1>1, <1>2 DEF Sockets
<1>4. Ordered(conn.queue)'  BY <1>1, <1>2, <1>3 DEF Ordered
<1>5. Listening'  BY <1>1, <1>3, <1>4 DEF StreamInv, Listening
<1> QED  BY <1>1, <1>5, SilentKeeps

\* One event of each subscription is a finite set.
LEMMA EventsAreFinite ==
  ASSUME NEW ss \in SUBSET Streams, NEW t
  PROVE  IsFiniteSet({[stream |-> s, time |-> t] : s \in ss})
<1> DEFINE E == {[stream |-> s, time |-> t] : s \in ss}
           f == [s \in ss |-> [stream |-> s, time |-> t]]
<1>1. IsFiniteSet(ss)  BY VenueAssumption, FS_Subset
<1>2. f \in [ss -> E]  OBVIOUS
<1>3. \A a, b \in ss : f[a] = f[b] => a = b
  <2>1. SUFFICES ASSUME NEW a \in ss, NEW b \in ss, f[a] = f[b]  PROVE  a = b  OBVIOUS
  <2>2. f[a].stream = a /\ f[b].stream = b  OBVIOUS
  <2> QED  BY <2>1, <2>2
<1>4. \A e \in E : \E s \in ss : f[s] = e  OBVIOUS
<1> HIDE DEF E, f
<1>5. f \in Bijection(ss, E)
  BY <1>2, <1>3, <1>4 DEF Bijection, Injection, Surjection, IsInjective
<1>6. ExistsBijection(ss, E)  BY <1>5 DEF ExistsBijection
<1>7. IsFiniteSet(E)  BY <1>1, <1>6, FS_Bijection
<1> QED  BY <1>7 DEF E

LEMMA PublishKeeps ==
  ASSUME StreamInv, PublishAll
  PROVE  StreamInv'
<1>1. published' = published + 1 /\ UNCHANGED <<subs, lastEvent, seen, gaps>>  BY DEF PublishAll
<1>2. published \in Nat /\ published' \in Nat /\ \A s \in Streams : lastEvent[s] \in Nat /\ lastEvent[s] <= published
  BY <1>1 DEF StreamInv, Listening
<1>3. CASE conn = NoPage \/ ~conn.up
  <2>1. conn' = conn  BY <1>3 DEF PublishAll
  <2>2. conn # NoPage => Ordered(conn.queue)'
    <3>1. 1 .. published \subseteq 1 .. published'  BY <1>1, <1>2
    <3> QED  BY <1>1, <2>1, <3>1 DEF StreamInv, Listening, Ordered
  <2>3. \A s \in Streams : lastEvent[s] <= published'  BY <1>1, <1>2
  <2>4. Listening'  BY <1>1, <1>2, <2>1, <2>2, <2>3 DEF StreamInv, Listening
  <2> QED  BY <1>1, <2>4, SilentKeeps
<1>4. CASE ~(conn = NoPage \/ ~conn.up)
  <2> DEFINE E == {[stream |-> s, time |-> published'] : s \in conn.subs}
             q == conn.queue
             new == SetToSeq(E)
  <2>1. conn \in Sockets /\ Ordered(q) /\ q \in Seq(Messages) /\ conn.subs \in SUBSET Streams
    BY <1>4 DEF StreamInv, Listening, Sockets
  <2>2. conn' = [conn EXCEPT !.queue = q \o new]  BY <1>4 DEF PublishAll
  <2>3. E \subseteq Messages /\ \A e \in E : e.time = published'  BY <1>2, <2>1 DEF Messages
  <2>4. IsFiniteSet(E)  BY <2>1, EventsAreFinite
  <2> HIDE DEF E, new
  <2>5. new \in Seq(E)  BY <2>4, SequenceOfSet DEF new
  <2>6. \A i \in 1 .. Len(new) : new[i] \in E  BY <2>5
  <2>7. new \in Seq(Messages)  BY <2>3, <2>5
  <2>8. /\ q \o new \in Seq(Messages) /\ Len(q \o new) = Len(q) + Len(new)
        /\ \A i \in 1 .. Len(q) + Len(new) : (q \o new)[i] = IF i <= Len(q) THEN q[i] ELSE new[i - Len(q)]
    BY <2>1, <2>7, ConcatProperties
  <2>9. Len(q) \in Nat /\ Len(new) \in Nat  BY <2>1, <2>5
  <2> DEFINE r == q \o new
  <2> HIDE DEF q, r
  <2>10. DOMAIN r = 1 .. Len(q) + Len(new)  BY <2>8, <2>9 DEF r
  <2>11. ASSUME NEW j \in 1 .. Len(q) + Len(new)
         PROVE  \/ j \in 1 .. Len(q) /\ r[j] = q[j]
                \/ j > Len(q) /\ r[j] \in E
    <3>1. CASE j <= Len(q)
      <4>1. r[j] = q[j]  BY <2>8, <3>1 DEF r
      <4> QED  BY <2>9, <3>1, <4>1
    <3>2. CASE ~(j <= Len(q))
      <4>1. r[j] = new[j - Len(q)]  BY <2>8, <3>2 DEF r
      <4>2. j - Len(q) \in 1 .. Len(new)  BY <2>9, <3>2
      <4> QED  BY <2>6, <2>9, <3>2, <4>1, <4>2
    <3> QED  BY <3>1, <3>2
  <2>12. \A j \in 1 .. Len(q) : q[j] \in Messages /\ q[j].time \in 1 .. published /\ lastEvent[q[j].stream] <= q[j].time
    BY <2>1 DEF Ordered
  <2>13. ASSUME NEW j \in 1 .. Len(q) + Len(new)
         PROVE  /\ lastEvent[r[j].stream] <= r[j].time /\ r[j].time \in 1 .. published'
                /\ \A i \in 1 .. j : r[i].time <= r[j].time
    <3>1. CASE j \in 1 .. Len(q) /\ r[j] = q[j]
      <4>1. q[j].time \in 1 .. published'  BY <1>1, <1>2, <2>12, <3>1
      <4>2. ASSUME NEW i \in 1 .. j  PROVE  r[i].time <= r[j].time
        <5>1. i \in 1 .. Len(q) + Len(new) /\ ~(i > Len(q))  BY <2>9, <3>1
        <5>2. r[i] = q[i]  BY <2>11, <5>1
        <5>3. j \in DOMAIN q  BY <2>1, <3>1
        <5> QED  BY <2>1, <3>1, <5>2, <5>3 DEF Ordered
      <4> QED  BY <2>12, <3>1, <4>1, <4>2
    <3>2. CASE j > Len(q) /\ r[j] \in E
      <4>1. r[j].time = published' /\ r[j].stream \in Streams  BY <2>3, <3>2 DEF Messages
      <4>2. lastEvent[r[j].stream] <= published'  BY <1>1, <1>2, <4>1
      <4>3. ASSUME NEW i \in 1 .. j  PROVE  r[i].time <= published'
        <5>1. i \in 1 .. Len(q) + Len(new)  BY <2>9
        <5>2. CASE i \in 1 .. Len(q) /\ r[i] = q[i]  BY <1>1, <1>2, <2>12, <5>2
        <5>3. CASE r[i] \in E  BY <1>2, <2>3, <5>3
        <5> QED  BY <2>11, <5>1, <5>2, <5>3
      <4> QED  BY <1>1, <1>2, <4>1, <4>2, <4>3
    <3> QED  BY <2>11, <3>1, <3>2
  <2>14. conn' \in Sockets /\ conn'.queue = r
    <3>1. r \in Seq(Messages) /\ conn' = [conn EXCEPT !.queue = r]  BY <2>2, <2>8 DEF r
    <3> QED  BY <2>1, <3>1 DEF Sockets
  <2>15. Ordered(conn.queue)'  BY <1>1, <2>10, <2>13, <2>14 DEF Ordered
  <2>16. \A s \in Streams : lastEvent[s] <= published'  BY <1>1, <1>2
  <2>17. Listening'  BY <1>1, <1>2, <2>14, <2>15, <2>16 DEF StreamInv, Listening
  <2> QED  BY <1>1, <2>17, SilentKeeps
<1> QED  BY <1>3, <1>4

\* The message that is returned is no earlier than any returned before, and the
\* gap it closes is the one it reports.
LEMMA PumpKeeps ==
  ASSUME StreamInv, PumpMessage
  PROVE  StreamInv'
<1> DEFINE q == conn.queue
<1>1. /\ conn # NoPage /\ q # <<>>
      /\ UNCHANGED <<subs, published>>
      /\ conn' = [conn EXCEPT !.queue = Tail(q)]
  BY DEF PumpMessage
<1>2. /\ conn \in Sockets /\ Ordered(q) /\ q \in Seq(Messages)
      /\ published \in Nat /\ lastEvent \in [Streams -> Nat] /\ seen \subseteq Messages
  BY <1>1 DEF StreamInv, Listening, Heard, Sockets
<1>3. /\ Head(q) \in Messages /\ Tail(q) \in Seq(Messages) /\ Len(Tail(q)) = Len(q) - 1
      /\ \A i \in 1 .. Len(Tail(q)) : Tail(q)[i] = q[i + 1]
  BY <1>1, <1>2, HeadTailProperties
<1>4. Head(q) = q[1] /\ Len(q) \in Nat /\ Len(q) > 0  BY <1>1, <1>2
<1>5. PICK msg \in Messages : msg = Head(q)  BY <1>3
<1> DEFINE last == lastEvent[msg.stream]
           key == [stream |-> msg.stream, time |-> last]
<1>6. /\ gaps' = gaps \union GapBefore(msg, last)
      /\ lastEvent' = [lastEvent EXCEPT ![msg.stream] = msg.time]
      /\ seen' = seen \union {msg}
  BY <1>5 DEF PumpMessage
<1>7. msg.stream \in Streams /\ msg.time \in Nat /\ last \in Nat  BY <1>2 DEF Messages
<1>8. last <= msg.time /\ msg.time \in 1 .. published
  <2>1. 1 \in DOMAIN q /\ q[1] = msg  BY <1>2, <1>4, <1>5
  <2> QED  BY <1>2, <2>1 DEF Ordered
<1>9. \A s \in Streams : lastEvent'[s] = IF s = msg.stream THEN msg.time ELSE lastEvent[s]
  BY <1>2, <1>6
<1>10. \A m \in seen : /\ m.stream \in Streams /\ m.time \in Nat /\ 1 <= m.time
                       /\ m.time <= lastEvent[m.stream] /\ lastEvent[m.stream] \in Nat
  BY <1>2 DEF StreamInv, Heard, Messages
<1>11. Listening'
  <2>1. conn' \in Sockets /\ conn'.queue = Tail(q)  BY <1>1, <1>2, <1>3 DEF Sockets
  <2>2. ASSUME NEW j \in 1 .. Len(Tail(q))
        PROVE  /\ lastEvent'[Tail(q)[j].stream] <= Tail(q)[j].time
               /\ Tail(q)[j].time \in 1 .. published
               /\ \A i \in 1 .. j : Tail(q)[i].time <= Tail(q)[j].time
    <3>1. j + 1 \in DOMAIN q /\ 1 \in 1 .. j + 1 /\ Tail(q)[j] = q[j + 1]  BY <1>2, <1>3, <1>4
    <3>2. q[j + 1] \in Messages  BY <1>2, <3>1
    <3>3. /\ lastEvent[q[j + 1].stream] <= q[j + 1].time /\ q[j + 1].time \in 1 .. published
          /\ \A i \in 1 .. j + 1 : q[i].time <= q[j + 1].time
      BY <1>2, <3>1 DEF Ordered
    <3>4. msg.time <= q[j + 1].time  BY <1>4, <1>5, <3>1, <3>3
    <3>5. q[j + 1].stream \in Streams  BY <3>2 DEF Messages
    <3>6. lastEvent'[q[j + 1].stream] <= q[j + 1].time  BY <1>9, <3>3, <3>4, <3>5
    <3>7. ASSUME NEW i \in 1 .. j  PROVE  Tail(q)[i].time <= q[j + 1].time
      <4>1. i + 1 \in 1 .. j + 1 /\ i \in 1 .. Len(Tail(q))  BY <1>3, <1>4
      <4>2. Tail(q)[i] = q[i + 1]  BY <1>3, <4>1
      <4> QED  BY <3>3, <4>1, <4>2
    <3> QED  BY <3>1, <3>3, <3>6, <3>7
  <2>3. DOMAIN Tail(q) = 1 .. Len(Tail(q))  BY <1>3
  <2>4. Ordered(conn.queue)'  BY <1>1, <2>1, <2>2, <2>3 DEF Ordered
  <2>5. lastEvent' \in [Streams -> Nat]  BY <1>2, <1>6, <1>7
  <2>6. \A s \in Streams : lastEvent'[s] <= published
    BY <1>8, <1>9 DEF StreamInv, Listening
  <2> QED  BY <1>1, <1>2, <2>1, <2>4, <2>5, <2>6 DEF StreamInv, Listening
<1>12. Heard'
  <2>1. seen' \subseteq Messages  BY <1>2, <1>6
  <2>2. ASSUME NEW m \in seen'  PROVE  1 <= m.time /\ m.time <= lastEvent'[m.stream]
    <3>1. CASE m = msg  BY <1>7, <1>8, <1>9, <3>1
    <3>2. CASE m \in seen
      <4>1. m.stream \in Streams /\ m.time \in Nat /\ 1 <= m.time /\ m.time <= lastEvent[m.stream]
        BY <1>10, <3>2
      <4>2. CASE m.stream = msg.stream  BY <1>7, <1>8, <1>9, <4>1, <4>2
      <4>3. CASE m.stream # msg.stream  BY <1>9, <4>1, <4>3
      <4> QED  BY <4>2, <4>3
    <3> QED  BY <1>6, <3>1, <3>2
  <2>3. ASSUME NEW s \in Streams, lastEvent'[s] > 0
        PROVE  [stream |-> s, time |-> lastEvent'[s]] \in seen'
    <3>1. CASE s = msg.stream
      <4>1. [stream |-> s, time |-> lastEvent'[s]] = msg  BY <1>9, <3>1 DEF Messages
      <4> QED  BY <1>6, <4>1
    <3>2. CASE s # msg.stream  BY <1>6, <1>9, <2>3, <3>2 DEF StreamInv, Heard
    <3> QED  BY <3>1, <3>2
  <2> QED  BY <2>1, <2>2, <2>3 DEF Heard
<1>13. MissedIsReported'
  <2>1. SUFFICES ASSUME NEW a \in seen', NEW b \in seen', a.stream = b.stream, Cadence[a.stream] > 0,
                        NEW t \in a.time + 1 .. b.time - 1,
                        [stream |-> a.stream, time |-> t] \notin seen'
                 PROVE  \E g \in gaps' : g.stream = a.stream /\ g.from < t /\ t < g.to
    BY DEF MissedIsReported
  <2>2. gaps \subseteq gaps' /\ [stream |-> a.stream, time |-> t] \notin seen  BY <1>6, <2>1
  <2>3. ASSUME NEW x \in seen, NEW y \in seen, x.stream = a.stream, y.stream = a.stream,
               t \in x.time + 1 .. y.time - 1
        PROVE  \E g \in gaps' : g.stream = a.stream /\ g.from < t /\ t < g.to
    <3>1. \E g \in gaps : g.stream = a.stream /\ g.from < t /\ t < g.to
      BY <2>1, <2>2, <2>3 DEF StreamInv, MissedIsReported
    <3> QED  BY <2>2, <3>1
  <2>4. CASE a \in seen /\ b \in seen
    <3>1. t \in a.time + 1 .. b.time - 1  OBVIOUS
    <3> QED  BY <2>1, <2>3, <2>4, <3>1
  <2>5. CASE a = msg
    <3>1. b.time \in Nat /\ b.time <= msg.time
      <4>1. CASE b = msg  BY <1>7, <4>1
      <4>2. CASE b \in seen
        <5>1. b.time \in Nat /\ b.time <= last  BY <1>10, <2>1, <2>5, <4>2
        <5> QED  BY <1>7, <1>8, <5>1
      <4> QED  BY <1>6, <4>1, <4>2
    <3>2. a.time + 1 .. b.time - 1 = {}  BY <1>7, <2>5, <3>1
    <3> QED  BY <3>2
  <2>6. CASE a \in seen /\ b = msg
    <3>1. a.stream = msg.stream /\ a.time \in Nat /\ 1 <= a.time /\ a.time <= last
      BY <1>10, <2>1, <2>6
    <3>2. t \in Int /\ t > a.time /\ t < msg.time  BY <1>7, <2>6, <3>1
    <3>3. last > 0 /\ key \in seen
      <4>1. last > 0  BY <1>7, <3>1
      <4> QED  BY <1>7, <4>1 DEF StreamInv, Heard
    <3>4. key.stream = a.stream /\ key.time = last  BY <3>1
    <3>5. t # last  BY <2>2, <3>1, <3>3
    <3>6. CASE t < last
      <4>1. t \in a.time + 1 .. key.time - 1  BY <1>7, <3>1, <3>2, <3>4, <3>6
      <4> QED  BY <2>3, <2>6, <3>3, <3>4, <4>1
    <3>7. CASE t > last
      <4>1. Cadence[msg.stream] = 1
        <5>1. Cadence[msg.stream] \in {0, 1}  BY <1>7, VenueAssumption
        <5> QED  BY <2>1, <3>1, <5>1
      <4>2. msg.time - last > 1  BY <1>7, <3>2, <3>7
      <4>3. GapBefore(msg, last) = {[stream |-> msg.stream, from |-> last, to |-> msg.time]}
        BY <3>3, <4>1, <4>2 DEF GapBefore
      <4>4. [stream |-> msg.stream, from |-> last, to |-> msg.time] \in gaps'  BY <1>6, <4>3
      <4> QED  BY <3>1, <3>2, <3>7, <4>4
    <3> QED  BY <1>7, <3>2, <3>5, <3>6, <3>7
  <2> QED  BY <1>6, <2>4, <2>5, <2>6
<1> QED  BY <1>11, <1>12, <1>13 DEF StreamInv

LEMMA StreamKeeps ==
  ASSUME StreamInv, StreamNext \/ UNCHANGED wsVars
  PROVE  StreamInv'
<1>1. CASE UNCHANGED wsVars
  BY <1>1 DEF wsVars, StreamInv, Listening, Heard, MissedIsReported, Ordered
<1>2. CASE StreamNext
  BY <1>2, SubscribeKeeps, PumpKeeps, ReconnectKeeps, PublishKeeps, DropKeeps DEF StreamNext
<1> QED  BY <1>1, <1>2

-----------------------------------------------------------------------------
(* The two together.                                                       *)

LEMMA VenueStarts ==
  ASSUME RestInit, StreamInit
  PROVE  RestInv /\ StreamInv
  BY RestStarts, StreamStarts

LEMMA VenueKeeps ==
  ASSUME RestInv, StreamInv, [VenueNext]_venueAll
  PROVE  RestInv' /\ StreamInv'
<1>1. /\ RestNext \/ UNCHANGED restVars
      /\ StreamNext \/ UNCHANGED wsVars
  BY DEF VenueNext, venueAll
<1> QED  BY <1>1, RestKeeps, StreamKeeps

LEMMA VenueTyped ==
  ASSUME RestInv, StreamInv
  PROVE  VenueTypeOK
<1>1. limiter.used \in 0 .. Budget  BY DEF RestInv, Calling
<1>2. call.pc \in {"idle", "acquire", "send", "page"}
  BY DEF RestInv, Calling, NoCall, Calls, Waiting
<1>3. \A s \in Streams : lastEvent[s] \in 0 .. published
  BY DEF StreamInv, Listening
<1>4. conn # NoPage => conn.subs \subseteq Streams
  BY DEF StreamInv, Listening, Sockets
<1> QED  BY <1>1, <1>2, <1>3, <1>4 DEF VenueTypeOK

\* For any requests, budgets, windows, deadlines, faults and settings of the clock:
\* what the cache keeps is final (RestCache), no two budgets are exceeded within one
\* window's length and no deadline of the venue is broken (RateLimiter, fetch), and
\* a message that skips an event of its stream reports the gap, across reconnects
\* that fail half way (ConnectionRegistry::pump).
THEOREM VenueHolds == VenueSpec => []VenueSound
<1>1. RestInit /\ StreamInit => RestInv /\ StreamInv  BY VenueStarts
<1>2. RestInv /\ StreamInv /\ [VenueNext]_venueAll => RestInv' /\ StreamInv'  BY VenueKeeps
<1>3. RestInv /\ StreamInv => VenueSound
  BY VenueTyped DEF RestInv, StreamInv, VenueSound
<1> QED  BY <1>1, <1>2, <1>3, PTL DEF VenueSpec

=============================================================================
