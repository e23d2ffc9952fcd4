----------------------------- MODULE HedgerProofs -----------------------------
(***************************************************************************)
(* Proofs about Breakers, Cutover and Sizing, for any strategies,          *)
(* thresholds, vintages, equities and funding times, any number of bars,   *)
(* starts, resets and rollovers, and any positions, limits, capitals and   *)
(* marks.                                                                  *)
(***************************************************************************)
EXTENDS Cutover, Sizing, WellFoundedInduction, TLAPS

-----------------------------------------------------------------------------
(* Replays.  Replay is a recursive function of time; what it computes is    *)
(* stated of any function that satisfies its equation, and proved by the    *)
(* least time at which a claim could fail.                                  *)

\* Replay's step at time t over the session s, with the market as a parameter.
DecisionsOf(m, v, b, f, pos) ==
  [i \in Strategies |-> Decide(Vintages[v].genomes[i],
                               0 :> m[b] @@ 1 :> (IF f = NoFunding THEN Missing ELSE f % 2), pos[i])]
OnBarOf(m, v, b, s) ==
  LET ds == DecisionsOf(m, v, b, s.funding, s.pos)
  IN  [s EXCEPT !.pos = AdvanceAll(@, ds), !.outs = Append(@, b),
                !.entered = @ \union {i \in Strategies : ds[i] \in {"long", "short"}}]
StepOf(m, v, w, r, s, t) ==
  LET u == IF t \in r THEN [s EXCEPT !.funding = t] ELSE s
  IN  IF t \in w THEN OnBarOf(m, v, t, u) ELSE u

\* a[t] is the session after the bars and rates up to t.
IsReplay(a, m, v, w, r) ==
  a = [t \in 0 .. MaxBars |-> IF t = 0 THEN FreshSession ELSE StepOf(m, v, w, r, a[t - 1], t)]

\* A set of numbers that is not empty has a least one.
LEMMA LeastNumber ==
  ASSUME NEW S \in SUBSET Nat, S # {}
  PROVE  \E x \in S : \A y \in S : x <= y
<1>1. \E x \in S : \A y \in S : ~(<<y, x>> \in OpToRel(<, Nat))
  BY NatLessThanWellFounded, WFMin, Zenon
<1>2. PICK x \in S : \A y \in S : ~(y < x)  BY <1>1 DEF OpToRel
<1> QED  BY <1>2

\* What fails at some time of a replay fails first at one that is not 0, or at 0.
LEMMA FirstFailure ==
  ASSUME NEW n \in Nat, NEW good \in SUBSET Nat, 0 \in good,
         \A t \in 1 .. n : t - 1 \in good => t \in good
  PROVE  \A t \in 0 .. n : t \in good
<1> DEFINE bad == {t \in 0 .. n : t \notin good}
<1>1. SUFFICES ASSUME bad # {}  PROVE FALSE  OBVIOUS
<1>2. bad \in SUBSET Nat  OBVIOUS
<1>3. PICK x \in bad : \A y \in bad : x <= y  BY <1>1, <1>2, LeastNumber
<1>4. x \in 1 .. n  BY <1>3
<1>5. x - 1 \in 0 .. n /\ x - 1 \notin bad  BY <1>3, <1>4
<1>6. x - 1 \in good  BY <1>5
<1> QED  BY <1>3, <1>4, <1>6

LEMMA ReplayExists ==
  ASSUME NEW m, NEW v, NEW w, NEW r
  PROVE  \E a : IsReplay(a, m, v, w, r)
<1> DEFINE Upto(a, n) == a = [t \in 0 .. n |-> IF t = 0 THEN FreshSession ELSE StepOf(m, v, w, r, a[t - 1], t)]
           good == {n \in Nat : \E a : Upto(a, n)}
<1>1. 0 \in good
  <2> DEFINE a == [t \in 0 .. 0 |-> FreshSession]
  <2>1. a = [t \in 0 .. 0 |-> IF t = 0 THEN FreshSession ELSE StepOf(m, v, w, r, a[t - 1], t)]  OBVIOUS
  <2>2. Upto(a, 0)  BY <2>1
  <2> QED  BY <2>2
<1>2. ASSUME NEW n \in 1 .. MaxBars, n - 1 \in good  PROVE n \in good
  <2>1. PICK a : Upto(a, n - 1)  BY <1>2
  <2> DEFINE b == [t \in 0 .. n |-> IF t = n THEN StepOf(m, v, w, r, a[t - 1], t) ELSE a[t]]
             c == [t \in 0 .. n |-> IF t = 0 THEN FreshSession ELSE StepOf(m, v, w, r, b[t - 1], t)]
  <2>2. ASSUME NEW t \in 0 .. n  PROVE b[t] = c[t]
    <3>1. CASE t = 0
      <4>1. b[0] = a[0] /\ a[0] = FreshSession  BY <1>2, <2>1
      <4> QED  BY <3>1, <4>1
    <3>2. CASE t # 0
      <4>1. t - 1 \in 0 .. n /\ t - 1 # n /\ b[t - 1] = a[t - 1]  BY <1>2, <2>2, <3>2
      <4>2. c[t] = StepOf(m, v, w, r, a[t - 1], t)  BY <3>2, <4>1
      <4>3. b[t] = StepOf(m, v, w, r, a[t - 1], t)
        <5>1. CASE t = n  BY <5>1
        <5>2. CASE t # n
          <6>1. t \in 0 .. n - 1  BY <1>2, <5>2
          <6>2. a[t] = StepOf(m, v, w, r, a[t - 1], t)  BY <2>1, <3>2, <6>1
          <6> QED  BY <5>2, <6>2
        <5> QED  BY <5>1, <5>2
      <4> QED  BY <4>2, <4>3
    <3> QED  BY <3>1, <3>2
  <2>3. b = c  BY <2>2
  <2>4. Upto(b, n)  BY <2>3
  <2> HIDE DEF b, Upto
  <2>5. \E f : Upto(f, n)  BY <2>4
  <2> QED  BY <1>2, <2>5
<1>3. MaxBars \in Nat  BY TimeAssumption
<1> HIDE DEF good
<1>4. good \in SUBSET Nat  BY DEF good
<1>5. \A n \in 0 .. MaxBars : n \in good  BY <1>1, <1>2, <1>3, <1>4, FirstFailure
<1>6. MaxBars \in good  BY <1>3, <1>5
<1> QED  BY <1>6 DEF good, IsReplay

\* Replay is the last value of such a function.
LEMMA ReplayIs ==
  ASSUME NEW v, NEW w, NEW r
  PROVE  \E a : IsReplay(a, market, v, w, r) /\ Replay(v, w, r) = a[MaxBars]
<1> DEFINE P(a) == a = [t \in 0 .. MaxBars |->
                          IF t = 0 THEN FreshSession
                          ELSE LET s == IF t \in r THEN [a[t - 1] EXCEPT !.funding = t] ELSE a[t - 1]
                               IN  IF t \in w THEN OnBar(v, t, s) ELSE s]
           c == CHOOSE a : P(a)
<1>1. \A s, t : OnBar(v, t, s) = OnBarOf(market, v, t, s)
  BY DEF OnBar, OnBarOf, Decisions, DecisionsOf, Vector
<1>2. \A a : P(a) <=> IsReplay(a, market, v, w, r)  BY <1>1 DEF IsReplay, StepOf
<1>3. \E a : P(a)  BY <1>2, ReplayExists
<1>4. P(c)  BY <1>3
<1>5. Replay(v, w, r) = c[MaxBars]  BY DEF Replay
<1> QED  BY <1>2, <1>4, <1>5

LEMMA ReplayEquation ==
  ASSUME NEW m, NEW v, NEW w, NEW r, NEW a, IsReplay(a, m, v, w, r)
  PROVE  a[0] = FreshSession /\ \A t \in 1 .. MaxBars : a[t] = StepOf(m, v, w, r, a[t - 1], t)
<1>1. ASSUME NEW t \in 0 .. MaxBars
      PROVE  a[t] = IF t = 0 THEN FreshSession ELSE StepOf(m, v, w, r, a[t - 1], t)
  BY DEF IsReplay
<1> QED  BY <1>1, TimeAssumption

\* Two replays that agree on what happened up to k agree on the session at k.
LEMMA ReplaysAgree ==
  ASSUME NEW m, NEW v, NEW w, NEW r, NEW a, IsReplay(a, m, v, w, r),
         NEW n, NEW x, NEW q, NEW b, IsReplay(b, n, v, x, q),
         NEW k \in 0 .. MaxBars,
         \A t \in 1 .. k : m[t] = n[t] /\ (t \in w <=> t \in x) /\ (t \in r <=> t \in q)
  PROVE  \A t \in 0 .. k : a[t] = b[t]
<1> DEFINE good == {t \in Nat : a[t] = b[t]}
<1>1. 0 \in good  BY ReplayEquation
<1>2. ASSUME NEW t \in 1 .. k, t - 1 \in good  PROVE t \in good
  <2>1. t \in 1 .. MaxBars /\ a[t - 1] = b[t - 1]  BY <1>2, TimeAssumption
  <2>2. a[t] = StepOf(m, v, w, r, a[t - 1], t) /\ b[t] = StepOf(n, v, x, q, b[t - 1], t)
    BY <2>1, ReplayEquation
  <2>3. m[t] = n[t] /\ (t \in w <=> t \in x) /\ (t \in r <=> t \in q)  OBVIOUS
  <2>4. \A s : OnBarOf(m, v, t, s) = OnBarOf(n, v, t, s)  BY <2>3 DEF OnBarOf, DecisionsOf
  <2>5. StepOf(m, v, w, r, a[t - 1], t) = StepOf(n, v, x, q, a[t - 1], t)  BY <2>3, <2>4 DEF StepOf
  <2> QED  BY <1>2, <2>1, <2>2, <2>5
<1>3. k \in Nat  BY TimeAssumption
<1> HIDE DEF good
<1>4. good \in SUBSET Nat  BY DEF good
<1>5. \A t \in 0 .. k : t \in good  BY <1>1, <1>2, <1>3, <1>4, FirstFailure
<1> QED  BY <1>5 DEF good

-----------------------------------------------------------------------------
(* What a session holds at time t.                                         *)

Position(t) == [dir : {"none", "long", "short"}, held : 0 .. t]
Positions(t) == [Strategies -> Position(t)]
Sessions(t) == [pos : Positions(t), funding : Nat, outs : Seq(1 .. t), entered : SUBSET Strategies]

Rising(s) == \A n \in 2 .. Len(s) : s[n] > s[n - 1]

LEMMA RisingAppend ==
  ASSUME NEW t \in Nat, NEW s \in Seq(1 .. t - 1), Rising(s)  PROVE Rising(Append(s, t))
<1> DEFINE e == Append(s, t)
<1>1. Len(e) = Len(s) + 1 /\ e[Len(s) + 1] = t /\ \A n \in 1 .. Len(s) : e[n] = s[n] /\ s[n] \in 1 .. t - 1
  OBVIOUS
<1>2. Len(s) \in Nat  OBVIOUS
<1> HIDE DEF e
<1>3. ASSUME NEW n \in 2 .. Len(e)  PROVE e[n] > e[n - 1]
  <2>1. n - 1 \in 1 .. Len(s) /\ e[n - 1] = s[n - 1] /\ s[n - 1] \in 1 .. t - 1  BY <1>1, <1>2
  <2>2. CASE n = Len(s) + 1  BY <1>1, <2>1, <2>2
  <2>3. CASE n # Len(s) + 1
    <3>1. n \in 2 .. Len(s)  BY <1>1, <1>2, <2>3
    <3>2. e[n] = s[n]  BY <1>1, <1>2, <3>1
    <3> QED  BY <2>1, <3>1, <3>2 DEF Rising
  <2> QED  BY <2>2, <2>3
<1> QED  BY <1>3 DEF Rising, e

LEMMA DecideIs ==
  ASSUME NEW g, NEW x, NEW p
  PROVE  Decide(g, x, p) \in {"long", "short", "exit", "hold"}
  BY DEF Decide

LEMMA AdvanceIs ==
  ASSUME NEW t \in Nat, NEW p \in Position(t), NEW d \in {"long", "short", "exit", "hold"}
  PROVE  Advance(p, d) \in Position(t + 1)
<1>1. CASE d \in {"long", "short"}  BY <1>1 DEF Advance, Held, Position
<1>2. CASE d = "exit"  BY <1>2 DEF Advance, Flat, Position
<1>3. CASE d = "hold"  BY <1>3 DEF Advance, Held, Flat, Position
<1> QED  BY <1>1, <1>2, <1>3

LEMMA AdvanceAllIs ==
  ASSUME NEW t \in Nat, NEW pos \in Positions(t), NEW ds,
         \A i \in Strategies : ds[i] \in {"long", "short", "exit", "hold"}
  PROVE  AdvanceAll(pos, ds) \in Positions(t + 1)
<1>1. \A i \in Strategies : Advance(pos[i], ds[i]) \in Position(t + 1)  BY AdvanceIs DEF Positions
<1> QED  BY <1>1 DEF AdvanceAll, Positions

LEMMA PositionsGrow ==
  ASSUME NEW t \in Nat, NEW u \in Nat, t <= u  PROVE Positions(t) \subseteq Positions(u)
<1>1. Position(t) \subseteq Position(u)  BY DEF Position
<1> QED  BY <1>1 DEF Positions

\* The session after any time of a replay is well formed, and the bars it
\* evaluated are bars of the window, in order.
LEMMA ReplayTyped ==
  ASSUME NEW m, NEW v, NEW w, NEW r, NEW a, IsReplay(a, m, v, w, r)
  PROVE  \A t \in 0 .. MaxBars : /\ a[t] \in Sessions(t) /\ Rising(a[t].outs)
                                 /\ \A n \in DOMAIN a[t].outs : a[t].outs[n] \in w
<1> DEFINE P(t) == a[t] \in Sessions(t) /\ Rising(a[t].outs) /\ \A n \in DOMAIN a[t].outs : a[t].outs[n] \in w
           good == {t \in Nat : P(t)}
<1>1. 0 \in good
  <2>1. a[0] = FreshSession  BY ReplayEquation
  <2>2. AllFlat \in Positions(0)  BY DEF AllFlat, Flat, Positions, Position
  <2>3. FreshSession \in Sessions(0)  BY <2>2 DEF FreshSession, Sessions, NoFunding
  <2>4. FreshSession.outs = <<>>  BY DEF FreshSession
  <2>5. Rising(<<>>)  BY DEF Rising
  <2> QED  BY <2>1, <2>3, <2>4, <2>5
<1>2. ASSUME NEW t \in 1 .. MaxBars, t - 1 \in good  PROVE t \in good
  <2>a. PICK s : s = a[t - 1]  OBVIOUS
  <2>1. /\ t \in Nat /\ t - 1 \in Nat /\ s \in Sessions(t - 1) /\ Rising(s.outs)
        /\ \A n \in DOMAIN s.outs : s.outs[n] \in w
    BY <1>2, <2>a, TimeAssumption
  <2>2. a[t] = StepOf(m, v, w, r, s, t)  BY <2>a, ReplayEquation
  <2>b. PICK u : u = IF t \in r THEN [s EXCEPT !.funding = t] ELSE s  OBVIOUS
  <2>3. /\ u \in Sessions(t - 1) /\ u.outs = s.outs /\ u.pos = s.pos /\ u.entered = s.entered
    BY <2>b, <2>1 DEF Sessions
  <2>4. a[t] = IF t \in w THEN OnBarOf(m, v, t, u) ELSE u  BY <2>b, <2>2 DEF StepOf
  <2>5. s.outs \in Seq(1 .. t) /\ s.outs \in Seq(1 .. t - 1)
    <3>1. s.outs \in Seq(1 .. t - 1)  BY <2>1 DEF Sessions
    <3>2. 1 .. t - 1 \subseteq 1 .. t  BY <2>1
    <3> QED  BY <3>1, <3>2
  <2>6. u.pos \in Positions(t - 1) /\ u.funding \in Nat /\ u.entered \in SUBSET Strategies
    BY <2>3 DEF Sessions
  <2>7. CASE t \notin w
    <3>1. u.pos \in Positions(t)  BY <2>1, <2>6, PositionsGrow
    <3>2. u = [pos |-> u.pos, funding |-> u.funding, outs |-> u.outs, entered |-> u.entered]
      BY <2>3 DEF Sessions
    <3>3. u \in Sessions(t)  BY <2>3, <2>5, <2>6, <3>1, <3>2 DEF Sessions
    <3> QED  BY <2>1, <2>3, <2>4, <2>7, <3>3
  <2>8. CASE t \in w
    <3>a. PICK ds : ds = DecisionsOf(m, v, t, u.funding, u.pos)  OBVIOUS
    <3>1. \A i \in Strategies : ds[i] \in {"long", "short", "exit", "hold"}
      BY <3>a, DecideIs DEF DecisionsOf
    <3> DEFINE en == {i \in Strategies : ds[i] \in {"long", "short"}}
    <3>2. AdvanceAll(u.pos, ds) \in Positions(t)  BY <2>1, <2>6, <3>1, AdvanceAllIs
    <3>3. a[t] = [u EXCEPT !.pos = AdvanceAll(u.pos, ds), !.outs = Append(u.outs, t),
                           !.entered = u.entered \union en]
      BY <2>4, <2>8, <3>a DEF OnBarOf
    <3> HIDE DEF en
    <3>4. a[t] = [pos |-> AdvanceAll(u.pos, ds), funding |-> u.funding, outs |-> Append(u.outs, t),
                  entered |-> u.entered \union en]
      BY <2>3, <3>3 DEF Sessions
    <3>5. Append(u.outs, t) \in Seq(1 .. t)  BY <2>1, <2>3, <2>5
    <3>6. en \in SUBSET Strategies  BY DEF en
    <3>7. a[t] \in Sessions(t)  BY <2>6, <3>2, <3>4, <3>5, <3>6 DEF Sessions
    <3>8. a[t].outs = Append(s.outs, t)  BY <2>3, <3>4
    <3>9. Rising(Append(s.outs, t))  BY <2>1, <2>5, RisingAppend
    <3>10. \A n \in DOMAIN Append(s.outs, t) : Append(s.outs, t)[n] \in w  BY <2>1, <2>5, <2>8
    <3> QED  BY <2>1, <3>7, <3>8, <3>9, <3>10
  <2> QED  BY <2>7, <2>8
<1> HIDE DEF good
<1>3. good \in SUBSET Nat  BY DEF good
<1>4. \A t \in 0 .. MaxBars : t \in good  BY <1>1, <1>2, <1>3, FirstFailure, TimeAssumption
<1> QED  BY <1>4 DEF good

\* A replay moves no position and evaluates no bar after the last of its window.
LEMMA ReplayTail ==
  ASSUME NEW m, NEW v, NEW w, NEW r, NEW a, IsReplay(a, m, v, w, r),
         NEW k \in 0 .. MaxBars, \A t \in 1 .. MaxBars : t \in w => t <= k
  PROVE  a[MaxBars].pos = a[k].pos /\ a[MaxBars].outs = a[k].outs /\ a[MaxBars].entered = a[k].entered
<1> DEFINE same(t) == a[t].pos = a[k].pos /\ a[t].outs = a[k].outs /\ a[t].entered = a[k].entered
           good == {t \in Nat : t <= k \/ same(t)}
<1>1. k \in Nat /\ MaxBars \in Nat /\ k <= MaxBars  BY TimeAssumption
<1>2. 0 \in good  BY <1>1
<1>3. ASSUME NEW t \in 1 .. MaxBars, t - 1 \in good  PROVE t \in good
  <2>1. CASE t <= k  BY <2>1
  <2>2. CASE t > k
    <3>1. same(t - 1)
      <4>1. CASE t - 1 = k  BY <4>1
      <4>2. CASE t - 1 # k  BY <1>1, <1>3, <2>2, <4>2
      <4> QED  BY <4>1, <4>2
    <3>2. t \notin w  BY <1>1, <2>2
    <3>3. a[t] = StepOf(m, v, w, r, a[t - 1], t)  BY ReplayEquation
    <3>4. a[t] = IF t \in r THEN [a[t - 1] EXCEPT !.funding = t] ELSE a[t - 1]  BY <3>2, <3>3 DEF StepOf
    <3>5. a[t - 1] \in Sessions(t - 1)  BY <1>1, ReplayTyped
    <3>6. a[t].pos = a[t - 1].pos /\ a[t].outs = a[t - 1].outs /\ a[t].entered = a[t - 1].entered
      BY <3>4, <3>5 DEF Sessions
    <3>7. same(t)  BY <3>1, <3>6
    <3> QED  BY <3>7
  <2> QED  BY <1>1, <2>1, <2>2
<1> HIDE DEF good
<1>4. good \in SUBSET Nat  BY DEF good
<1>5. \A t \in 0 .. MaxBars : t \in good  BY <1>1, <1>2, <1>3, <1>4, FirstFailure
<1>6. MaxBars \in good  BY <1>1, <1>5
<1>7. MaxBars <= k \/ same(MaxBars)  BY <1>6 DEF good
<1>8. CASE MaxBars <= k
  <2>1. MaxBars = k  BY <1>1, <1>8
  <2> QED  BY <2>1
<1> QED  BY <1>7, <1>8

\* A window that has every bar up to k is evaluated bar after bar until then.
LEMMA ReplayWhole ==
  ASSUME NEW m, NEW v, NEW w, NEW r, NEW a, IsReplay(a, m, v, w, r),
         NEW k \in 0 .. MaxBars, \A t \in 1 .. k : t \in w
  PROVE  Len(a[k].outs) = k /\ \A n \in 1 .. k : a[k].outs[n] = n
<1> DEFINE whole(t) == Len(a[t].outs) = t /\ \A n \in 1 .. t : a[t].outs[n] = n
           good == {t \in Nat : whole(t)}
<1>1. k \in Nat /\ MaxBars \in Nat /\ k <= MaxBars  BY TimeAssumption
<1>2. 0 \in good
  <2>1. a[0].outs = <<>>  BY ReplayEquation DEF FreshSession
  <2> QED  BY <2>1
<1>3. ASSUME NEW t \in 1 .. k, t - 1 \in good  PROVE t \in good
  <2>1. t \in 1 .. MaxBars /\ t \in Nat /\ t - 1 \in 0 .. MaxBars  BY <1>1
  <2>2. a[t] = StepOf(m, v, w, r, a[t - 1], t)  BY <2>1, ReplayEquation
  <2>3. a[t - 1] \in Sessions(t - 1)  BY <2>1, ReplayTyped
  <2>a. PICK u : u = IF t \in r THEN [a[t - 1] EXCEPT !.funding = t] ELSE a[t - 1]  OBVIOUS
  <2>4. u \in Sessions(t - 1) /\ u.outs = a[t - 1].outs  BY <2>1, <2>3, <2>a DEF Sessions
  <2>5. a[t] = OnBarOf(m, v, t, u)  BY <2>2, <2>a DEF StepOf
  <2>6. a[t].outs = Append(u.outs, t)  BY <2>4, <2>5 DEF OnBarOf, Sessions
  <2>7. u.outs \in Seq(1 .. t - 1)  BY <2>4 DEF Sessions
  <2>8. whole(t - 1)  BY <1>3
  <2>9. Len(u.outs) = t - 1 /\ \A n \in 1 .. t - 1 : u.outs[n] = n  BY <2>4, <2>8
  <2> HIDE DEF good
  <2>10. Len(a[t].outs) = t /\ \A n \in 1 .. t : a[t].outs[n] = n  BY <2>1, <2>6, <2>7, <2>9
  <2> QED  BY <2>1, <2>10 DEF good
<1> HIDE DEF good
<1>4. good \in SUBSET Nat  BY DEF good
<1>5. \A t \in 0 .. k : t \in good  BY <1>1, <1>2, <1>3, <1>4, FirstFailure
<1>6. k \in good  BY <1>1, <1>5
<1> QED  BY <1>6 DEF good

-----------------------------------------------------------------------------
(* The inductive invariants.                                               *)

\* The breakers are those of the profile's thresholds, and answer for it.
LayerInv ==
  /\ breaker = [i \in Layer |-> breaker[i]]
  /\ \A i \in Layer : breaker[i] = [th |-> Thresholds(i), peak |-> breaker[i].peak,
                                    seed |-> breaker[i].seed, recent |-> breaker[i].recent]
  /\ high = [i \in Layer |-> high[i]] /\ lastSeen = [i \in Layer |-> lastSeen[i]]
  /\ gated \subseteq Layer /\ resets \in Nat
  /\ BreakersSound

\* The session is at its last bar, and its history is ordered.
SessionInv ==
  /\ closed \in 0 .. MaxBars /\ market = [b \in Bars |-> market[b]]
  /\ lastOpen \in 0 .. closed /\ starts \in Nat
  /\ positions \in Positions(lastOpen) /\ dormant \subseteq Strategies
  /\ mode = (IF live THEN "live" ELSE "replay")
  /\ outs \in Seq(1 .. lastOpen) /\ Rising(outs)
  /\ outs # <<>> => Last(outs) = lastOpen
  /\ up => outs # <<>>
  /\ ~ holes => \A n \in DOMAIN outs : outs[n] = n

\* The book is out of every strategy that was evaluated behind a shut gate.
BookInv == shut \subseteq Strategies /\ \A i \in shut : IsGated(i) /\ follow[i] = Flat

RollInv ==
  /\ active = [current |-> active.current, rolls |-> active.rolls]
  /\ active.current \in DOMAIN Vintages
  /\ active.rolls \in Seq((DOMAIN Vintages) \X (DOMAIN Vintages))
  /\ RolloverChain

HedgerInv == LayerInv /\ SessionInv /\ BookInv /\ RollInv /\ ReplayParity

-----------------------------------------------------------------------------
(* The breakers.                                                           *)

LEMMA SeededBreaker ==
  ASSUME NEW paths, NEW i, NEW b, b = SeedCommittedPeaks(paths, i)
  PROVE  /\ b = [th |-> Thresholds(i), peak |-> b.peak, seed |-> b.seed, recent |-> b.recent]
         /\ b.peak = SeedFor(paths, i)
<1> DEFINE p == SeedFor(paths, i)
           th == Thresholds(i)
<1> HIDE DEF p, th
<1>1. b = IF p = None THEN [th |-> th, peak |-> None, seed |-> None, recent |-> <<>>]
          ELSE [th |-> th, peak |-> p, seed |-> p, recent |-> <<>>]
  <2> DEFINE n == [th |-> th, peak |-> None, seed |-> None, recent |-> <<>>]
  <2>1. b = IF p = None THEN n ELSE [n EXCEPT !.seed = p, !.peak = p]
    BY DEF SeedCommittedPeaks, NewBreaker, SeedPeak, p, th
  <2> QED  BY <2>1
<1>2. CASE p = None  BY <1>1, <1>2 DEF p, th
<1>3. CASE p # None  BY <1>1, <1>3 DEF p, th
<1> QED  BY <1>2, <1>3

LEMMA PushedBreaker ==
  ASSUME NEW b, b = [th |-> b.th, peak |-> b.peak, seed |-> b.seed, recent |-> b.recent],
         NEW e, NEW c, c = Push(b, e)
  PROVE  /\ c = [th |-> b.th, peak |-> c.peak, seed |-> c.seed, recent |-> c.recent]
         /\ c.peak = Higher(b.peak, e)
<1> DEFINE r == LastN(Append(b.recent, e), Max({FastWindow, 1}) + 1)
           h == Higher(b.peak, e)
<1>1. c = [b EXCEPT !.recent = r, !.peak = h]  BY DEF Push
<1> HIDE DEF r, h
<1>2. c = [th |-> b.th, peak |-> h, seed |-> b.seed, recent |-> r]  BY <1>1
<1> QED  BY <1>2 DEF h

LEMMA ResetOfBreaker ==
  ASSUME NEW b, b = [th |-> b.th, peak |-> b.peak, seed |-> b.seed, recent |-> b.recent],
         NEW c, c = ResetBreaker(b)
  PROVE  /\ c = [th |-> b.th, peak |-> c.peak, seed |-> c.seed, recent |-> c.recent]
         /\ c.peak = IF b.seed = None THEN None ELSE b.peak
<1>1. c = [th |-> b.th, peak |-> IF b.seed # None THEN b.peak ELSE None,
           seed |-> IF b.seed # None THEN b.peak ELSE None, recent |-> <<>>]
  BY DEF ResetBreaker
<1> QED  BY <1>1

\* A loss beyond the slow threshold trips some tier.
LEMMA SlowTrips ==
  ASSUME NEW b, NEW e, Fallen(b.peak, e, b.th.slow)
  PROVE  Tier(b, e) # None
  BY TierAssumption DEF Tier

LEMMA LayerInitHolds == ASSUME LayerInit PROVE LayerInv
<1>1. PICK paths \in [Strategies -> Paths] :
        /\ breaker = [i \in Layer |-> SeedCommittedPeaks(paths, i)]
        /\ pre = Uncalibrated /\ gated = Uncalibrated /\ resets = 0
        /\ high = [i \in Layer |-> SeedFor(paths, i)]
        /\ lastSeen = [i \in Layer |-> None]
  BY DEF LayerInit
<1>2. ASSUME NEW i \in Layer
      PROVE  /\ breaker[i] = [th |-> Thresholds(i), peak |-> breaker[i].peak,
                              seed |-> breaker[i].seed, recent |-> breaker[i].recent]
             /\ breaker[i].peak = high[i]
  <2>1. breaker[i] = SeedCommittedPeaks(paths, i) /\ high[i] = SeedFor(paths, i)  BY <1>1
  <2> QED  BY <2>1, SeededBreaker
<1>3. UncalibratedStaysGated /\ PeakRemembered /\ LossIsGated
  BY <1>1, <1>2 DEF UncalibratedStaysGated, PeakRemembered, LossIsGated
<1>4. gated \subseteq Layer /\ resets \in Nat  BY <1>1 DEF Uncalibrated, Layer
<1> QED  BY <1>1, <1>2, <1>3, <1>4 DEF LayerInv, BreakersSound

LEMMA CalibrationKeeps ==
  ASSUME NEW paths, LayerFromCalibration(paths), resets' \in Nat  PROVE LayerInv'
<1>1. /\ breaker' = [i \in Layer |-> SeedCommittedPeaks(paths, i)]
      /\ pre' = Uncalibrated /\ gated' = Uncalibrated
      /\ high' = [i \in Layer |-> SeedFor(paths, i)]
      /\ lastSeen' = [i \in Layer |-> None]
  BY DEF LayerFromCalibration
<1>2. ASSUME NEW i \in Layer
      PROVE  /\ breaker'[i] = [th |-> Thresholds(i), peak |-> breaker'[i].peak,
                               seed |-> breaker'[i].seed, recent |-> breaker'[i].recent]
             /\ breaker'[i].peak = high'[i]
  <2>1. breaker'[i] = SeedCommittedPeaks(paths, i) /\ high'[i] = SeedFor(paths, i)  BY <1>1
  <2> QED  BY <2>1, SeededBreaker
<1>3. UncalibratedStaysGated' /\ PeakRemembered' /\ LossIsGated'
  BY <1>1, <1>2 DEF UncalibratedStaysGated, PeakRemembered, LossIsGated
<1>4. gated' \subseteq Layer  BY <1>1 DEF Uncalibrated, Layer
<1> QED  BY <1>1, <1>2, <1>3, <1>4 DEF LayerInv, BreakersSound

LEMMA NoLayerHolds == ASSUME NoLayer PROVE LayerInv
<1>1. ASSUME NEW i \in Layer
      PROVE  /\ breaker[i] = [th |-> Thresholds(i), peak |-> breaker[i].peak,
                              seed |-> breaker[i].seed, recent |-> breaker[i].recent]
             /\ breaker[i].peak = high[i]
  BY DEF NoLayer, NewBreaker
<1>2. UncalibratedStaysGated /\ PeakRemembered /\ LossIsGated
  BY <1>1 DEF NoLayer, UncalibratedStaysGated, PeakRemembered, LossIsGated
<1> QED  BY <1>1, <1>2 DEF NoLayer, LayerInv, BreakersSound

\* A tick: the peak follows the highest equity, and a loss trips the gate.
LEMMA ObserveKeeps ==
  ASSUME LayerInv, NEW i \in Layer, NEW e, Observe(i, e)
  PROVE  LayerInv' /\ gated \subseteq gated'
<1>a. PICK b : b = Push(breaker[i], e)  OBVIOUS
<1>1. /\ breaker' = [breaker EXCEPT ![i] = b] /\ gated' = (IF Tier(b, e) # None THEN gated \union {i} ELSE gated)
      /\ high' = [high EXCEPT ![i] = Higher(@, e)] /\ lastSeen' = [lastSeen EXCEPT ![i] = e]
      /\ pre' = pre /\ resets' = resets
  BY <1>a DEF Observe
<1>2. /\ breaker = [k \in Layer |-> breaker[k]] /\ high = [k \in Layer |-> high[k]]
      /\ lastSeen = [k \in Layer |-> lastSeen[k]] /\ gated \subseteq Layer /\ resets \in Nat
      /\ \A k \in Layer : breaker[k] = [th |-> Thresholds(k), peak |-> breaker[k].peak,
                                        seed |-> breaker[k].seed, recent |-> breaker[k].recent]
      /\ UncalibratedStaysGated /\ PeakRemembered /\ LossIsGated
  BY DEF LayerInv, BreakersSound
<1>3. /\ b = [th |-> Thresholds(i), peak |-> b.peak, seed |-> b.seed, recent |-> b.recent]
      /\ b.peak = Higher(breaker[i].peak, e)
  <2>1. breaker[i].th = Thresholds(i)  BY <1>2
  <2>2. breaker[i] = [th |-> breaker[i].th, peak |-> breaker[i].peak, seed |-> breaker[i].seed,
                      recent |-> breaker[i].recent]
    BY <1>2, <2>1
  <2> QED  BY <1>a, <2>1, <2>2, PushedBreaker
<1>4. /\ breaker'[i] = b /\ high'[i] = Higher(high[i], e) /\ lastSeen'[i] = e
      /\ \A k \in Layer : k # i => breaker'[k] = breaker[k] /\ high'[k] = high[k] /\ lastSeen'[k] = lastSeen[k]
      /\ breaker' = [k \in Layer |-> breaker'[k]] /\ high' = [k \in Layer |-> high'[k]]
      /\ lastSeen' = [k \in Layer |-> lastSeen'[k]]
  BY <1>1, <1>2
<1>5. high'[i] = b.peak /\ b.th = Thresholds(i)
  <2>1. breaker[i].peak = high[i]  BY <1>2 DEF PeakRemembered
  <2> QED  BY <1>3, <1>4, <2>1
<1>6. \A k \in Layer : /\ breaker'[k] = [th |-> Thresholds(k), peak |-> breaker'[k].peak,
                                         seed |-> breaker'[k].seed, recent |-> breaker'[k].recent]
                       /\ breaker'[k].peak = high'[k]
  <2>1. TAKE k \in Layer
  <2>2. CASE k = i  BY <1>3, <1>4, <1>5, <2>2
  <2>3. CASE k # i  BY <1>2, <1>4, <2>3 DEF PeakRemembered
  <2> QED  BY <2>2, <2>3
<1>7. gated \subseteq gated' /\ gated' \subseteq Layer  BY <1>1, <1>2
<1>8. LossIsGated'
  <2>1. ASSUME NEW k \in Layer, lastSeen'[k] # None, Fallen(high'[k], lastSeen'[k], Thresholds(k).slow)
        PROVE  k \in gated'
    <3>1. CASE k = i
      <4>1. Fallen(b.peak, e, b.th.slow)  BY <1>4, <1>5, <2>1, <3>1
      <4>2. Tier(b, e) # None  BY <4>1, SlowTrips
      <4> QED  BY <1>1, <3>1, <4>2
    <3>2. CASE k # i  BY <1>2, <1>4, <1>7, <2>1, <3>2 DEF LossIsGated
    <3> QED  BY <3>1, <3>2
  <2> QED  BY <2>1 DEF LossIsGated
<1>9. UncalibratedStaysGated' /\ PeakRemembered'
  BY <1>1, <1>2, <1>6, <1>7 DEF UncalibratedStaysGated, PeakRemembered
<1> QED  BY <1>1, <1>2, <1>4, <1>6, <1>7, <1>8, <1>9 DEF LayerInv, BreakersSound

\* A reset forgets a peak only where none was committed, and opens no gate that
\* calibration shut.
LEMMA ResetKeeps ==
  ASSUME LayerInv, ResetLayer  PROVE LayerInv'
<1>1. /\ breaker' = [i \in Layer |-> ResetBreaker(breaker[i])] /\ gated' = pre /\ pre' = pre
      /\ high' = [i \in Layer |-> IF breaker[i].seed = None THEN None ELSE high[i]]
      /\ lastSeen' = [i \in Layer |-> None] /\ resets' = resets + 1
  BY DEF ResetLayer
<1>2. /\ gated \subseteq Layer /\ resets \in Nat /\ UncalibratedStaysGated /\ PeakRemembered
      /\ \A k \in Layer : breaker[k] = [th |-> Thresholds(k), peak |-> breaker[k].peak,
                                        seed |-> breaker[k].seed, recent |-> breaker[k].recent]
  BY DEF LayerInv, BreakersSound
<1>3. ASSUME NEW i \in Layer
      PROVE  /\ breaker'[i] = [th |-> Thresholds(i), peak |-> breaker'[i].peak,
                               seed |-> breaker'[i].seed, recent |-> breaker'[i].recent]
             /\ breaker'[i].peak = high'[i]
  <2>1. breaker[i].th = Thresholds(i) /\ breaker[i].peak = high[i]
    <3>1. breaker[i].peak = high[i]  BY <1>2 DEF PeakRemembered
    <3>2. breaker[i] = [th |-> Thresholds(i), peak |-> breaker[i].peak,
                        seed |-> breaker[i].seed, recent |-> breaker[i].recent]
      BY <1>2
    <3>3. breaker[i].th = Thresholds(i)  BY <3>2
    <3> QED  BY <3>1, <3>3
  <2>2. breaker[i] = [th |-> breaker[i].th, peak |-> breaker[i].peak, seed |-> breaker[i].seed,
                      recent |-> breaker[i].recent]
    BY <1>2, <2>1
  <2>3. breaker'[i] = ResetBreaker(breaker[i])
        /\ high'[i] = (IF breaker[i].seed = None THEN None ELSE high[i])
    BY <1>1
  <2> QED  BY <2>1, <2>2, <2>3, ResetOfBreaker
<1>4. UncalibratedStaysGated' /\ PeakRemembered' /\ LossIsGated'
  BY <1>1, <1>3 DEF UncalibratedStaysGated, PeakRemembered, LossIsGated
<1>5. gated' \subseteq Layer  BY <1>1, <1>2 DEF UncalibratedStaysGated
<1> QED  BY <1>1, <1>2, <1>3, <1>4, <1>5 DEF LayerInv, BreakersSound

LEMMA LayerStill ==
  ASSUME LayerInv, UNCHANGED bvars  PROVE LayerInv'
  BY DEF LayerInv, bvars, BreakersSound, UncalibratedStaysGated, PeakRemembered, LossIsGated

\* The breaker layer of live_breakers.rs, on its own: calibration's unknown
\* strategies stay gated, a breaker answers for its highest equity through ticks
\* and resets, and a loss past the slow threshold has shut the gate, whatever
\* equities are observed and whenever the layer is reset.
THEOREM BreakersHold == LayerSpec => []BreakersSound
<1>1. LayerInv /\ [LayerNext]_bvars => LayerInv'
  <2> SUFFICES ASSUME LayerInv, [LayerNext]_bvars PROVE LayerInv'  OBVIOUS
  <2>1. ASSUME NEW i \in Layer, NEW e \in Equities, Observe(i, e)  PROVE LayerInv'
    BY <2>1, ObserveKeeps
  <2>2. CASE ResetLayer  BY <2>2, ResetKeeps
  <2>3. CASE UNCHANGED bvars  BY <2>3, LayerStill
  <2> QED  BY <2>1, <2>2, <2>3 DEF LayerNext
<1>2. LayerInv => BreakersSound  BY DEF LayerInv
<1>3. LayerInit => LayerInv  BY LayerInitHolds
<1> QED  BY <1>1, <1>2, <1>3, PTL DEF LayerSpec

-----------------------------------------------------------------------------
(* What a cold start and a live bar do to a replay.                        *)

ReplayOf(m, v, w, r) == (CHOOSE a : IsReplay(a, m, v, w, r))[MaxBars]

LEMMA ReplayOfIs ==
  ASSUME NEW m, NEW v, NEW w, NEW r
  PROVE  \E a : IsReplay(a, m, v, w, r) /\ ReplayOf(m, v, w, r) = a[MaxBars]
<1> DEFINE c == CHOOSE a : IsReplay(a, m, v, w, r)
<1>1. IsReplay(c, m, v, w, r)  BY ReplayExists
<1>2. ReplayOf(m, v, w, r) = c[MaxBars]  BY DEF ReplayOf
<1> QED  BY <1>1, <1>2

LEMMA ReplayIsOf == \A v, w, r : Replay(v, w, r) = ReplayOf(market, v, w, r)
<1> TAKE v, w, r
<1>1. PICK a : IsReplay(a, market, v, w, r) /\ Replay(v, w, r) = a[MaxBars]  BY ReplayIs
<1>2. PICK b : IsReplay(b, market, v, w, r) /\ ReplayOf(market, v, w, r) = b[MaxBars]  BY ReplayOfIs
<1>3. \A t \in 0 .. MaxBars : a[t] = b[t]
  <2>1. MaxBars \in 0 .. MaxBars  BY TimeAssumption
  <2> QED  BY <1>1, <1>2, <2>1, ReplaysAgree
<1> QED  BY <1>1, <1>2, <1>3, TimeAssumption

\* In the next state too: the lemma holds of every state.
LEMMA ReplayIsOfNext == (\A v, w, r : Replay(v, w, r) = ReplayOf(market, v, w, r))'
  BY ReplayIsOf, PTL

\* The last bar of a session, or 0.
LastOf(s) == IF s = <<>> THEN 0 ELSE Last(s)

LEMMA ReplayLast ==
  ASSUME NEW m, NEW v, NEW w, NEW r, NEW a, IsReplay(a, m, v, w, r)
  PROVE  \A t \in 0 .. MaxBars : LET l == LastOf(a[t].outs)
                                 IN  l \in 0 .. t /\ a[t].pos \in Positions(l) /\ a[t].outs \in Seq(1 .. l)
<1> DEFINE P(t) == LET l == LastOf(a[t].outs)
                   IN  l \in 0 .. t /\ a[t].pos \in Positions(l) /\ a[t].outs \in Seq(1 .. l)
           good == {t \in Nat : P(t)}
<1>1. 0 \in good
  <2>1. a[0] = FreshSession  BY ReplayEquation
  <2>2. AllFlat \in Positions(0)  BY DEF AllFlat, Flat, Positions, Position
  <2>3. a[0].outs = <<>> /\ a[0].pos = AllFlat  BY <2>1 DEF FreshSession
  <2>4. LastOf(<<>>) = 0  BY DEF LastOf
  <2>5. P(0)  BY <2>2, <2>3, <2>4
  <2> QED  BY <2>5
<1>2. ASSUME NEW t \in 1 .. MaxBars, t - 1 \in good  PROVE t \in good
  <2>1. t \in Nat /\ t - 1 \in 0 .. MaxBars  BY TimeAssumption
  <2>2. a[t - 1] \in Sessions(t - 1)  BY <2>1, ReplayTyped
  <2>a. PICK u : u = IF t \in r THEN [a[t - 1] EXCEPT !.funding = t] ELSE a[t - 1]  OBVIOUS
  <2>3. u \in Sessions(t - 1) /\ u.outs = a[t - 1].outs /\ u.pos = a[t - 1].pos
    BY <2>1, <2>2, <2>a DEF Sessions
  <2>4. a[t] = IF t \in w THEN OnBarOf(m, v, t, u) ELSE u  BY <2>a, ReplayEquation DEF StepOf
  <2>5. P(t - 1)  BY <1>2
  <2>6. CASE t \notin w
    <3>1. a[t].outs = a[t - 1].outs /\ a[t].pos = a[t - 1].pos  BY <2>3, <2>4, <2>6
    <3>2. P(t)  BY <2>1, <2>5, <3>1
    <3> QED  BY <2>1, <3>2
  <2>7. CASE t \in w
    <3>a. PICK ds : ds = DecisionsOf(m, v, t, u.funding, u.pos)  OBVIOUS
    <3>1. a[t].outs = Append(u.outs, t) /\ a[t].pos = AdvanceAll(u.pos, ds)
      BY <2>3, <2>4, <2>7, <3>a DEF OnBarOf, Sessions
    <3>2. \A i \in Strategies : ds[i] \in {"long", "short", "exit", "hold"}
      BY <3>a, DecideIs DEF DecisionsOf
    <3>3. u.outs \in Seq(1 .. t - 1) /\ u.pos \in Positions(t - 1)  BY <2>3 DEF Sessions
    <3>4. a[t].pos \in Positions(t)  BY <2>1, <3>1, <3>2, <3>3, AdvanceAllIs
    <3>5. u.outs \in Seq(1 .. t)
      <4>1. 1 .. t - 1 \subseteq 1 .. t  BY <2>1
      <4> QED  BY <3>3, <4>1
    <3>6. a[t].outs \in Seq(1 .. t) /\ a[t].outs # <<>> /\ Last(a[t].outs) = t
      <4>1. PICK q \in Seq(1 .. t) : q = u.outs  BY <3>5
      <4>2. PICK s : s = Append(q, t) /\ a[t].outs = s  BY <3>1, <4>1
      <4>3. t \in 1 .. t  BY <2>1
      <4>4. s \in Seq(1 .. t) /\ Len(s) = Len(q) + 1 /\ s[Len(q) + 1] = t  BY <4>1, <4>2, <4>3
      <4>5. s # <<>> /\ Last(s) = t  BY <4>1, <4>4 DEF Last
      <4> QED  BY <4>2, <4>4, <4>5
    <3>7. LastOf(a[t].outs) = t  BY <3>6 DEF LastOf
    <3>8. P(t)  BY <2>1, <3>4, <3>6, <3>7
    <3> QED  BY <2>1, <3>8
  <2> QED  BY <2>6, <2>7
<1> HIDE DEF good
<1>3. good \in SUBSET Nat  BY DEF good
<1>4. \A t \in 0 .. MaxBars : t \in good  BY <1>1, <1>2, <1>3, FirstFailure, TimeAssumption
<1> QED  BY <1>4 DEF good

\* The positions at bar k depend on the market and the rates up to k alone.
LEMMA ParityAt ==
  ASSUME NEW m, NEW n, NEW v, NEW r, NEW q, NEW k \in 0 .. MaxBars,
         \A t \in 1 .. k : m[t] = n[t] /\ (t \in r <=> t \in q)
  PROVE  ReplayOf(m, v, 1 .. k, r).pos = ReplayOf(n, v, 1 .. k, q).pos
<1>1. PICK a : IsReplay(a, m, v, 1 .. k, r) /\ ReplayOf(m, v, 1 .. k, r) = a[MaxBars]  BY ReplayOfIs
<1>2. PICK b : IsReplay(b, n, v, 1 .. k, q) /\ ReplayOf(n, v, 1 .. k, q) = b[MaxBars]  BY ReplayOfIs
<1>3. \A t \in 0 .. k : a[t] = b[t]  BY <1>1, <1>2, ReplaysAgree
<1>4. k \in 0 .. k /\ \A t \in 1 .. MaxBars : t \in 1 .. k => t <= k  BY TimeAssumption
<1>5. a[MaxBars].pos = a[k].pos  BY <1>1, <1>4, ReplayTail
<1>6. b[MaxBars].pos = b[k].pos  BY <1>2, <1>4, ReplayTail
<1> QED  BY <1>1, <1>2, <1>3, <1>4, <1>5, <1>6

LEMMA GreatestNumber ==
  ASSUME NEW n \in Nat, NEW S \in SUBSET (0 .. n), S # {}
  PROVE  Max(S) \in S /\ \A y \in S : Max(S) >= y
<1> DEFINE T == {n - i : i \in S}
<1>0. \A i \in S : n - i \in Nat  OBVIOUS
<1>1. T \in SUBSET Nat /\ T # {}  BY <1>0
<1>2. PICK z \in T : \A y \in T : z <= y  BY <1>1, LeastNumber
<1>3. PICK x \in S : z = n - x  BY <1>2
<1>4. \A j \in S : n - x <= n - j  BY <1>2, <1>3
<1>5. x \in S /\ \A y \in S : x >= y  BY <1>4
<1> QED  BY <1>5 DEF Max

LEMMA RatesAre ==
  ASSUME NEW t \in Nat
  PROVE  RatesUpTo(t) \in SUBSET (1 .. t) /\ \A f : f \in RatesUpTo(t) <=> f \in FundingTimes /\ f <= t
<1>1. \A f \in FundingTimes : f \in Nat /\ f # 0  BY TimeAssumption
<1>2. \A f : f \in RatesUpTo(t) <=> f \in FundingTimes /\ f <= t  BY DEF RatesUpTo
<1>3. \A f \in RatesUpTo(t) : f \in 1 .. t  BY <1>1, <1>2
<1> QED  BY <1>2, <1>3

LEMMA LastRateIs ==
  /\ LastRate(0) = NoFunding
  /\ \A t \in Nat \ {0} : LastRate(t) = IF t \in FundingTimes THEN t ELSE LastRate(t - 1)
<1>1. LastRate(0) = NoFunding
  <2>1. {NoFunding} \union RatesUpTo(0) = {0}  BY RatesAre DEF NoFunding
  <2>2. Max({0}) = 0  BY GreatestNumber
  <2> QED  BY <2>1, <2>2 DEF LastRate, NoFunding
<1>2. ASSUME NEW t \in Nat \ {0}
      PROVE  LastRate(t) = IF t \in FundingTimes THEN t ELSE LastRate(t - 1)
  <2> DEFINE S == {NoFunding} \union RatesUpTo(t)
             R == {NoFunding} \union RatesUpTo(t - 1)
  <2>1. S \in SUBSET (0 .. t) /\ S # {}  BY RatesAre DEF NoFunding
  <2>2. Max(S) \in S /\ \A y \in S : Max(S) >= y  BY <2>1, GreatestNumber
  <2>3. CASE t \in FundingTimes
    <3>1. t \in S  BY <2>3 DEF RatesUpTo
    <3>2. Max(S) = t  BY <2>1, <2>2, <3>1
    <3> QED  BY <2>3, <3>2 DEF LastRate
  <2>4. CASE t \notin FundingTimes
    <3>1. \A f \in FundingTimes : f \in Nat  BY TimeAssumption
    <3>2. \A f \in FundingTimes : f <= t <=> f <= t - 1  BY <2>4, <3>1
    <3>3. RatesUpTo(t) = RatesUpTo(t - 1)  BY <3>2 DEF RatesUpTo
    <3>4. S = R  BY <3>3
    <3> QED  BY <2>4, <3>4 DEF LastRate
  <2> QED  BY <2>3, <2>4
<1> QED  BY <1>1, <1>2

\* A replay given the rates published up to k has, at each time until then,
\* seen the last one.
LEMMA ReplayFunding ==
  ASSUME NEW m, NEW v, NEW w, NEW r, NEW a, IsReplay(a, m, v, w, r),
         NEW k \in 0 .. MaxBars, \A t \in 1 .. k : t \in r <=> t \in FundingTimes
  PROVE  \A t \in 0 .. k : a[t].funding = LastRate(t)
<1> DEFINE good == {t \in Nat : a[t].funding = LastRate(t)}
<1>1. 0 \in good
  <2>1. a[0].funding = NoFunding  BY ReplayEquation DEF FreshSession
  <2> QED  BY <2>1, LastRateIs
<1>2. ASSUME NEW t \in 1 .. k, t - 1 \in good  PROVE t \in good
  <2>1. t \in 1 .. MaxBars /\ t \in Nat \ {0} /\ t - 1 \in 0 .. MaxBars  BY TimeAssumption
  <2>2. a[t - 1] \in Sessions(t - 1)  BY <2>1, ReplayTyped
  <2>a. PICK u : u = IF t \in r THEN [a[t - 1] EXCEPT !.funding = t] ELSE a[t - 1]  OBVIOUS
  <2>3. u \in Sessions(t - 1) /\ u.funding = IF t \in r THEN t ELSE a[t - 1].funding
    BY <2>1, <2>2, <2>a DEF Sessions
  <2>4. a[t] = IF t \in w THEN OnBarOf(m, v, t, u) ELSE u  BY <2>1, <2>a, ReplayEquation DEF StepOf
  <2>5. a[t].funding = u.funding  BY <2>3, <2>4 DEF OnBarOf, Sessions
  <2>6. t \in r <=> t \in FundingTimes  OBVIOUS
  <2>7. a[t - 1].funding = LastRate(t - 1)  BY <1>2
  <2>8. a[t].funding = LastRate(t)  BY <2>1, <2>3, <2>5, <2>6, <2>7, LastRateIs
  <2> QED  BY <2>1, <2>8
<1> HIDE DEF good
<1>3. good \in SUBSET Nat /\ k \in Nat  BY TimeAssumption DEF good
<1>4. \A t \in 0 .. k : t \in good  BY <1>1, <1>2, <1>3, FirstFailure
<1> QED  BY <1>4 DEF good

\* A live bar with its own rate does to the session what a replay of one bar
\* more would have done.
LEMMA OneBarMore ==
  ASSUME NEW m, NEW v, NEW k \in 0 .. MaxBars, k + 1 <= MaxBars,
         NEW pos, pos = ReplayOf(m, v, 1 .. k, RatesUpTo(k)).pos
  PROVE  ReplayOf(m, v, 1 .. k + 1, RatesUpTo(k + 1)).pos
           = AdvanceAll(pos, DecisionsOf(m, v, k + 1, LastRate(k + 1), pos))
<1> DEFINE b == k + 1
           r == RatesUpTo(b)
<1>1. k \in Nat /\ MaxBars \in Nat /\ b \in 1 .. MaxBars /\ b \in 0 .. MaxBars  BY TimeAssumption
<1>2. PICK a : IsReplay(a, m, v, 1 .. k, RatesUpTo(k)) /\ pos = a[MaxBars].pos  BY ReplayOfIs
<1>3. PICK c : IsReplay(c, m, v, 1 .. b, r) /\ ReplayOf(m, v, 1 .. b, r) = c[MaxBars]  BY ReplayOfIs
<1>4. \A t \in 1 .. k : (t \in 1 .. k <=> t \in 1 .. b) /\ (t \in RatesUpTo(k) <=> t \in r)
  BY <1>1 DEF RatesUpTo
<1>5. a[k] = c[k]
  <2>1. \A t \in 0 .. k : a[t] = c[t]  BY <1>2, <1>3, <1>4, ReplaysAgree
  <2> QED  BY <1>1, <2>1
<1>6. pos = a[k].pos
  <2>1. \A t \in 1 .. MaxBars : t \in 1 .. k => t <= k  BY <1>1
  <2> QED  BY <1>2, <2>1, ReplayTail
<1>7. c[MaxBars].pos = c[b].pos
  <2>1. \A t \in 1 .. MaxBars : t \in 1 .. b => t <= b  BY <1>1
  <2> QED  BY <1>1, <1>3, <2>1, ReplayTail
<1>8. c[k] \in Sessions(k) /\ b - 1 = k  BY <1>1, <1>3, ReplayTyped
<1>a. PICK u : u = IF b \in r THEN [c[k] EXCEPT !.funding = b] ELSE c[k]  OBVIOUS
<1>9. c[b] = OnBarOf(m, v, b, u)
  <2>1. c[b] = StepOf(m, v, 1 .. b, r, c[b - 1], b)  BY <1>1, <1>3, ReplayEquation
  <2>2. b \in 1 .. b  BY <1>1
  <2> QED  BY <1>8, <1>a, <2>1, <2>2 DEF StepOf
<1>10. u \in Sessions(b) /\ u.pos = c[k].pos
  <2>1. c[k].pos \in Positions(b) /\ c[k].outs \in Seq(1 .. b)
    <3>1. 1 .. k \subseteq 1 .. b /\ k <= b  BY <1>1
    <3>2. Positions(k) \subseteq Positions(b)  BY <1>1, <3>1, PositionsGrow
    <3>3. c[k].outs \in Seq(1 .. k) /\ c[k].pos \in Positions(k)  BY <1>8 DEF Sessions
    <3> QED  BY <3>1, <3>2, <3>3
  <2>2. c[k] = [pos |-> c[k].pos, funding |-> c[k].funding, outs |-> c[k].outs, entered |-> c[k].entered]
        /\ c[k].funding \in Nat /\ c[k].entered \in SUBSET Strategies
    BY <1>8 DEF Sessions
  <2>3. c[k] \in Sessions(b)  BY <2>1, <2>2 DEF Sessions
  <2>4. CASE b \in r
    <3>1. b \in Nat  BY <1>1
    <3>2. u = [c[k] EXCEPT !.funding = b]  BY <1>a, <2>4
    <3>3. u = [pos |-> c[k].pos, funding |-> b, outs |-> c[k].outs, entered |-> c[k].entered]
      BY <2>2, <3>2
    <3> QED  BY <2>1, <2>2, <3>1, <3>3 DEF Sessions
  <2>5. CASE b \notin r  BY <1>a, <2>3, <2>5
  <2> QED  BY <2>4, <2>5
<1>11. c[b].funding = LastRate(b)
  <2>a. \A t \in 1 .. b : t \in r <=> t \in FundingTimes  BY <1>1 DEF RatesUpTo
  <2>1. \A t \in 0 .. b : c[t].funding = LastRate(t)  BY <1>1, <1>3, <2>a, ReplayFunding
  <2>2. b \in 0 .. b  BY <1>1
  <2> QED  BY <2>1, <2>2
<1>12. u.funding = LastRate(b)
  <2>1. c[b].funding = u.funding  BY <1>9, <1>10 DEF OnBarOf, Sessions
  <2> QED  BY <1>11, <2>1
<1>13. c[b].pos = AdvanceAll(u.pos, DecisionsOf(m, v, b, u.funding, u.pos))
  BY <1>9, <1>10 DEF OnBarOf, Sessions
<1> QED  BY <1>3, <1>5, <1>6, <1>7, <1>10, <1>12, <1>13

-----------------------------------------------------------------------------
(* What a step leaves alone.                                               *)

LEMMA SessionStill ==
  ASSUME SessionInv, up' => up,
         UNCHANGED <<closed, market, lastOpen, starts, positions, dormant, mode, live, outs, holes>>
  PROVE  SessionInv'
  BY DEF SessionInv

LEMMA BookStill ==
  ASSUME BookInv, UNCHANGED <<shut, follow>>, gated \subseteq gated'
  PROVE  BookInv'
  BY DEF BookInv, IsGated

LEMMA RollStill ==
  ASSUME RollInv, UNCHANGED <<active, vint>>  PROVE RollInv'
  BY DEF RollInv, RolloverChain

\* Parity is about the bars up to the last one evaluated: the bars the venue
\* closes later, and the rates it publishes later, do not disturb it.
LEMMA ParityStill ==
  ASSUME SessionInv, ReplayParity, UNCHANGED <<lastOpen, positions, vint>>,
         up' /\ ~ late' /\ ~ holes' => up /\ ~ late /\ ~ holes,
         \A t \in 1 .. lastOpen : market'[t] = market[t]
  PROVE  ReplayParity'
<1>1. SUFFICES ASSUME up', ~ late', ~ holes'
               PROVE  positions = Replay(vint, 1 .. lastOpen, RatesUpTo(lastOpen))'.pos
  BY DEF ReplayParity
<1>2. positions = ReplayOf(market, vint, 1 .. lastOpen, RatesUpTo(lastOpen)).pos
  BY <1>1, ReplayIsOf DEF ReplayParity
<1>3. Replay(vint, 1 .. lastOpen, RatesUpTo(lastOpen))'
        = ReplayOf(market', vint, 1 .. lastOpen, RatesUpTo(lastOpen))
  BY ReplayIsOfNext
<1>4. lastOpen \in 0 .. MaxBars  BY TimeAssumption DEF SessionInv
<1>5. ReplayOf(market, vint, 1 .. lastOpen, RatesUpTo(lastOpen)).pos
        = ReplayOf(market', vint, 1 .. lastOpen, RatesUpTo(lastOpen)).pos
  BY <1>4, ParityAt
<1> QED  BY <1>2, <1>3, <1>5

-----------------------------------------------------------------------------
(* One lemma per action.                                                   *)

LEMMA ClosingKeeps == ASSUME HedgerInv, CloseBar PROVE HedgerInv'
<1>1. /\ closed < MaxBars /\ closed' = closed + 1
      /\ UNCHANGED <<active, up, session, history, starts, bvars>>
  BY DEF CloseBar
<1>2. PICK s \in BarStates : market' = [market EXCEPT ![closed + 1] = s]  BY DEF CloseBar
<1>3. closed \in Nat /\ closed <= MaxBars /\ lastOpen \in 0 .. closed /\ market = [b \in Bars |-> market[b]]
  BY TimeAssumption DEF HedgerInv, SessionInv
<1>4. \A t \in 1 .. lastOpen : market'[t] = market[t]
  <2>1. \A t \in 1 .. lastOpen : t # closed + 1  BY <1>3
  <2> QED  BY <1>2, <1>3, <2>1
<1>5. SessionInv'
  <2>1. closed' \in 0 .. MaxBars /\ lastOpen \in 0 .. closed'  BY <1>1, <1>3, TimeAssumption
  <2>2. market' = [b \in Bars |-> market'[b]]  BY <1>2, <1>3
  <2> QED  BY <1>1, <2>1, <2>2 DEF HedgerInv, SessionInv, session, history
<1>6. ReplayParity'  BY <1>1, <1>4, ParityStill DEF HedgerInv, session, history
<1>7. LayerInv'  BY <1>1, LayerStill DEF HedgerInv
<1>8. BookInv'  BY <1>1, BookStill DEF HedgerInv, history, bvars
<1>9. RollInv'  BY <1>1, RollStill DEF HedgerInv, session
<1> QED  BY <1>5, <1>6, <1>7, <1>8, <1>9 DEF HedgerInv

\* A cold start from what the venue has closed: the session, its history and
\* the layer are those of the replay, whatever ran before.
LEMMA ColdStartKeeps ==
  ASSUME HedgerInv, NEW w \in SUBSET (1 .. closed), NEW p \in BootPaths, ColdStart(w, p)
  PROVE  HedgerInv'
<1>a. PICK v : v = active.current  OBVIOUS
<1>b. PICK r : r = RatesUpTo(closed)  OBVIOUS
<1>c. PICK s : s = Replay(v, w, r)  OBVIOUS
<1>1. UNCHANGED <<closed, market, active>> /\ starts' = starts + 1  BY DEF ColdStart, venueVars
<1>2. closed \in Nat /\ closed <= MaxBars /\ starts \in Nat /\ market = [b \in Bars |-> market[b]]
  BY TimeAssumption DEF HedgerInv, SessionInv
<1>3. CASE s.outs = <<>>
  <2>1. up' = FALSE /\ UNCHANGED <<session, history, bvars>>  BY <1>a, <1>b, <1>c, <1>3 DEF ColdStart
  <2>2. SessionInv'  BY <1>1, <1>2, <2>1 DEF HedgerInv, SessionInv, session, history
  <2>3. ReplayParity'  BY <2>1 DEF ReplayParity
  <2>4. LayerInv'  BY <2>1, LayerStill DEF HedgerInv
  <2>5. BookInv'  BY <2>1, BookStill DEF HedgerInv, history, bvars
  <2>6. RollInv'  BY <1>1, <2>1, RollStill DEF HedgerInv, session
  <2> QED  BY <2>2, <2>3, <2>4, <2>5, <2>6 DEF HedgerInv
<1>4. CASE s.outs # <<>>
  <2>1. /\ up' = TRUE /\ vint' = v /\ mode' = "replay" /\ live' = FALSE
        /\ positions' = s.pos /\ lastOpen' = Last(s.outs) /\ dormant' = Strategies \ s.entered
        /\ LayerFromCalibration(p) /\ outs' = s.outs /\ shut' = {}
        /\ holes' = (w # 1 .. Last(s.outs)) /\ follow' = follow /\ resets' = resets
    BY <1>a, <1>b, <1>c, <1>4 DEF ColdStart
  <2>a. PICK l : l = Last(s.outs)  OBVIOUS
  <2>2. PICK a : IsReplay(a, market, v, w, r) /\ s = a[MaxBars]  BY <1>c, ReplayIs
  <2>3. MaxBars \in 0 .. MaxBars  BY TimeAssumption
  <2>4. l \in Nat /\ s.pos \in Positions(l) /\ s.outs \in Seq(1 .. l)
    <3>1. LastOf(s.outs) = l  BY <1>4, <2>a DEF LastOf
    <3> QED  BY <2>2, <2>3, <3>1, ReplayLast
  <2>5. Rising(s.outs) /\ \A n \in DOMAIN s.outs : s.outs[n] \in w  BY <2>2, <2>3, ReplayTyped
  <2>6. l \in 1 .. closed
    <3>1. Len(s.outs) \in DOMAIN s.outs /\ l = s.outs[Len(s.outs)]  BY <1>4, <2>a, <2>4 DEF Last
    <3> QED  BY <2>5, <3>1
  <2>7. l \in 0 .. MaxBars  BY <1>2, <2>6, TimeAssumption
  <2>8. ASSUME w = 1 .. l  PROVE \A n \in DOMAIN s.outs : s.outs[n] = n
    <3>1. (\A t \in 1 .. MaxBars : t \in w => t <= l) /\ \A t \in 1 .. l : t \in w  BY <2>7, <2>8
    <3>2. s.outs = a[l].outs  BY <2>2, <2>7, <3>1, ReplayTail
    <3>3. Len(a[l].outs) = l /\ \A n \in 1 .. l : a[l].outs[n] = n
      BY <2>2, <2>7, <3>1, ReplayWhole
    <3> QED  BY <2>4, <3>2, <3>3
  <2>9. SessionInv'
    <3>1. dormant' \subseteq Strategies /\ mode' = (IF live' THEN "live" ELSE "replay")  BY <2>1
    <3>2. lastOpen' = l /\ lastOpen' \in 0 .. closed  BY <2>1, <2>a, <2>6
    <3>3. ~ holes' => \A n \in DOMAIN outs' : outs'[n] = n  BY <2>1, <2>a, <2>8
    <3>4. starts' \in Nat /\ closed \in 0 .. MaxBars  BY <1>1, <1>2
    <3>5. outs' \in Seq(1 .. lastOpen') /\ Rising(outs') /\ positions' \in Positions(lastOpen')
          /\ outs' # <<>> /\ Last(outs') = lastOpen'
      BY <1>4, <2>1, <2>4, <2>5, <3>2
    <3> QED  BY <1>1, <1>2, <3>1, <3>2, <3>3, <3>4, <3>5 DEF SessionInv
  <2>10. ReplayParity'
    <3>1. SUFFICES ASSUME ~ holes'
                   PROVE  positions' = Replay(vint, 1 .. lastOpen, RatesUpTo(lastOpen))'.pos
      BY DEF ReplayParity
    <3>2. w = 1 .. l /\ lastOpen' = l /\ vint' = v  BY <2>1, <2>a, <3>1
    <3>3. Replay(vint, 1 .. lastOpen, RatesUpTo(lastOpen))' = ReplayOf(market, v, 1 .. l, RatesUpTo(l))
      BY <1>1, <3>2, ReplayIsOfNext
    <3>4. positions' = ReplayOf(market, v, 1 .. l, r).pos  BY <1>c, <2>1, <3>2, ReplayIsOf
    <3>5. \A t \in 1 .. l : t \in r <=> t \in RatesUpTo(l)  BY <1>b, <1>2, <2>6 DEF RatesUpTo
    <3>6. ReplayOf(market, v, 1 .. l, r).pos = ReplayOf(market, v, 1 .. l, RatesUpTo(l)).pos
      BY <2>7, <3>5, ParityAt
    <3> QED  BY <3>3, <3>4, <3>6
  <2>11. LayerInv'
    <3>1. resets' \in Nat  BY <2>1 DEF HedgerInv, LayerInv
    <3> QED  BY <2>1, <3>1, CalibrationKeeps
  <2>12. BookInv'  BY <2>1 DEF BookInv
  <2>13. RollInv'  BY <1>a, <1>1, <2>1 DEF HedgerInv, RollInv, RolloverChain
  <2> QED  BY <2>9, <2>10, <2>11, <2>12, <2>13 DEF HedgerInv
<1> QED  BY <1>3, <1>4

\* A live bar moves the session on the raw decision, and the book on the
\* clamped one: the first keeps parity, the second keeps the book out.
LEMMA LiveBarKeeps == ASSUME HedgerInv, NEW b \in Bars, FeedLiveBar(b) PROVE HedgerInv'
<1>1. up /\ b <= closed /\ UNCHANGED <<closed, market, active, up, starts, bvars>>
  BY DEF FeedLiveBar, venueVars
<1>2. CASE UNCHANGED <<session, history>>
  <2>1. SessionInv'  BY <1>1, <1>2, SessionStill DEF HedgerInv, session, history
  <2>2. ReplayParity'  BY <1>1, <1>2, ParityStill DEF HedgerInv, session, history
  <2>3. LayerInv'  BY <1>1, LayerStill DEF HedgerInv
  <2>4. BookInv'  BY <1>1, <1>2, BookStill DEF HedgerInv, history, bvars
  <2>5. RollInv'  BY <1>1, <1>2, RollStill DEF HedgerInv, session
  <2> QED  BY <2>1, <2>2, <2>3, <2>4, <2>5 DEF HedgerInv
<1>3. CASE Evaluated(b)
  <2>a. PICK raw : raw = Decisions(vint, b, funding, positions)  OBVIOUS
  <2>b. PICK out : out = ClampDecisions(raw)  OBVIOUS
  <2>1. /\ b = lastOpen + 1 /\ mode' = "live" /\ live' = TRUE /\ positions' = AdvanceAll(positions, raw)
        /\ lastOpen' = b /\ follow' = AdvanceAll(follow, out) /\ outs' = Append(outs, b)
        /\ shut' = shut \union {i \in Strategies : IsGated(i)}
        /\ late' = (late \/ funding # LastRate(b))
        /\ UNCHANGED <<vint, funding, dormant, holes>>
    BY <1>3, <2>a, <2>b DEF Evaluated
  <2>2. /\ lastOpen \in Nat /\ b \in Nat /\ closed \in 0 .. MaxBars /\ lastOpen = b - 1 /\ MaxBars \in Nat
        /\ starts \in Nat /\ market = [t \in Bars |-> market[t]]
        /\ positions \in Positions(lastOpen) /\ dormant \subseteq Strategies
        /\ outs \in Seq(1 .. lastOpen) /\ Rising(outs) /\ outs # <<>> /\ Last(outs) = lastOpen
        /\ (~ holes => \A n \in DOMAIN outs : outs[n] = n)
    BY <1>1, <2>1, TimeAssumption DEF HedgerInv, SessionInv
  <2>3. raw = DecisionsOf(market, vint, b, funding, positions)
    BY <2>a DEF Decisions, DecisionsOf, Vector
  <2>4. \A i \in Strategies : raw[i] \in {"long", "short", "exit", "hold"}
    BY <2>3, DecideIs DEF DecisionsOf
  <2>5. SessionInv'
    <3>1. positions' \in Positions(lastOpen')  BY <2>1, <2>2, <2>4, AdvanceAllIs
    <3>2. outs \in Seq(1 .. b)
      <4>1. 1 .. lastOpen \subseteq 1 .. b  BY <2>2
      <4> QED  BY <2>2, <4>1
    <3>3. outs' \in Seq(1 .. lastOpen') /\ outs' # <<>> /\ Last(outs') = lastOpen'
      <4>1. b \in 1 .. b  BY <2>1, <2>2
      <4>2. Append(outs, b) \in Seq(1 .. b) /\ Append(outs, b) # <<>>
            /\ Append(outs, b)[Len(Append(outs, b))] = b
        BY <3>2, <4>1
      <4> QED  BY <2>1, <4>2 DEF Last
    <3>4. Rising(outs')
      <4>1. outs \in Seq(1 .. b - 1)  BY <2>2
      <4> QED  BY <2>1, <2>2, <4>1, RisingAppend
    <3>5. ASSUME ~ holes'  PROVE \A n \in DOMAIN outs' : outs'[n] = n
      <4>1. \A n \in DOMAIN outs : outs[n] = n  BY <2>1, <2>2, <3>5
      <4>2. Len(outs) = lastOpen  BY <2>2, <4>1 DEF Last
      <4> QED  BY <2>1, <2>2, <3>2, <4>1, <4>2
    <3>6. lastOpen' \in 0 .. closed' /\ mode' = (IF live' THEN "live" ELSE "replay")
      BY <1>1, <2>1, <2>2
    <3> QED  BY <1>1, <2>1, <2>2, <3>1, <3>3, <3>4, <3>5, <3>6 DEF SessionInv
  <2>6. ReplayParity'
    <3>1. SUFFICES ASSUME ~ late', ~ holes'
                   PROVE  positions' = Replay(vint, 1 .. lastOpen, RatesUpTo(lastOpen))'.pos
      BY DEF ReplayParity
    <3>a. PICK k : k = lastOpen  OBVIOUS
    <3>b. PICK pos : pos = positions  OBVIOUS
    <3>2. pos = ReplayOf(market, vint, 1 .. k, RatesUpTo(k)).pos
      BY <1>1, <2>1, <3>1, <3>a, <3>b, ReplayIsOf DEF HedgerInv, ReplayParity
    <3>3. k \in 0 .. MaxBars /\ k + 1 <= MaxBars /\ b = k + 1  BY <1>1, <2>1, <2>2, <3>a
    <3>4. funding = LastRate(k + 1)  BY <2>1, <3>1, <3>3
    <3>5. Replay(vint, 1 .. lastOpen, RatesUpTo(lastOpen))'
            = ReplayOf(market, vint, 1 .. k + 1, RatesUpTo(k + 1))
      BY <1>1, <2>1, <3>3, ReplayIsOfNext
    <3>6. ReplayOf(market, vint, 1 .. k + 1, RatesUpTo(k + 1)).pos
            = AdvanceAll(pos, DecisionsOf(market, vint, k + 1, LastRate(k + 1), pos))
      BY <3>2, <3>3, OneBarMore
    <3>7. raw = DecisionsOf(market, vint, k + 1, LastRate(k + 1), pos)  BY <2>3, <3>3, <3>4, <3>b
    <3>8. positions' = AdvanceAll(pos, raw)  BY <2>1, <3>b
    <3> QED  BY <3>5, <3>6, <3>7, <3>8
  <2>7. LayerInv'  BY <1>1, LayerStill DEF HedgerInv
  <2>8. BookInv'
    <3>1. shut \subseteq Strategies /\ \A i \in shut : IsGated(i)  BY DEF HedgerInv, BookInv
    <3>2. gated' = gated  BY <1>1 DEF bvars
    <3>3. shut' \subseteq Strategies /\ \A i \in shut' : IsGated(i)  BY <2>1, <3>1
    <3>4. ASSUME NEW i \in shut'  PROVE follow'[i] = Flat
      <4>1. i \in Strategies /\ IsGated(i)  BY <3>3
      <4>2. DOMAIN raw = Strategies  BY <2>3 DEF DecisionsOf
      <4>3. out[i] = "exit"  BY <2>b, <4>1, <4>2 DEF ClampDecisions
      <4>4. Advance(follow[i], out[i]) = Flat  BY <4>3 DEF Advance
      <4> QED  BY <2>1, <4>1, <4>4 DEF AdvanceAll
    <3> QED  BY <3>2, <3>3, <3>4 DEF BookInv, IsGated
  <2>9. RollInv'  BY <1>1, <2>1, RollStill DEF HedgerInv
  <2> QED  BY <2>5, <2>6, <2>7, <2>8, <2>9 DEF HedgerInv
<1> QED  BY <1>2, <1>3 DEF FeedLiveBar, Duplicate, Gap

LEMMA FundingKeeps == ASSUME HedgerInv, NEW t, ObserveFunding(t) PROVE HedgerInv'
<1>1. UNCHANGED <<closed, market, active, up, vint, mode, positions, lastOpen, live, dormant,
                  history, starts, bvars>>
  BY DEF ObserveFunding, venueVars
<1>2. SessionInv'  BY <1>1, SessionStill DEF HedgerInv, history
<1>3. ReplayParity'  BY <1>1, ParityStill DEF HedgerInv, history
<1>4. LayerInv'  BY <1>1, LayerStill DEF HedgerInv
<1>5. BookInv'  BY <1>1, BookStill DEF HedgerInv, history, bvars
<1>6. RollInv'  BY <1>1, RollStill DEF HedgerInv
<1> QED  BY <1>2, <1>3, <1>4, <1>5, <1>6 DEF HedgerInv

LEMMA EquityKeeps ==
  ASSUME HedgerInv, NEW i \in Layer, NEW e, ObserveEquity(i, e)
  PROVE  HedgerInv' /\ gated \subseteq gated'
<1>1. Observe(i, e) /\ UNCHANGED <<closed, market, active, up, session, history, starts>>
  BY DEF ObserveEquity, venueVars
<1>2. LayerInv' /\ gated \subseteq gated'  BY <1>1, ObserveKeeps DEF HedgerInv
<1>3. SessionInv'  BY <1>1, SessionStill DEF HedgerInv, session, history
<1>4. ReplayParity'  BY <1>1, ParityStill DEF HedgerInv, session, history
<1>5. BookInv'  BY <1>1, <1>2, BookStill DEF HedgerInv, history
<1>6. RollInv'  BY <1>1, RollStill DEF HedgerInv, session
<1> QED  BY <1>2, <1>3, <1>4, <1>5, <1>6 DEF HedgerInv

\* A rollover adds a link to the chain and leaves the running session alone.
LEMMA RolloverKeeps ==
  ASSUME HedgerInv, NEW v \in DOMAIN Vintages, Rollover(v)  PROVE HedgerInv'
<1>1. /\ Vintages[v].sound
      /\ active' = [current |-> v, rolls |-> Append(active.rolls, <<active.current, v>>)]
      /\ UNCHANGED <<closed, market, up, session, history, starts, bvars>>
  BY DEF Rollover, venueVars
<1>2. SessionInv'  BY <1>1, SessionStill DEF HedgerInv, session, history
<1>3. ReplayParity'  BY <1>1, ParityStill DEF HedgerInv, session, history
<1>4. LayerInv'  BY <1>1, LayerStill DEF HedgerInv
<1>5. BookInv'  BY <1>1, BookStill DEF HedgerInv, history, bvars
<1>6. RollInv'
  <2>a. PICK old : old = active.rolls  OBVIOUS
  <2>b. PICK cur : cur = active.current  OBVIOUS
  <2>c. PICK link : link = <<cur, v>>  OBVIOUS
  <2>d. PICK new : new = Append(old, link)  OBVIOUS
  <2>1. /\ cur \in DOMAIN Vintages /\ old \in Seq((DOMAIN Vintages) \X (DOMAIN Vintages))
        /\ Vintages[vint].sound
        /\ cur = IF old = <<>> THEN FirstVintage ELSE Last(old)[2]
        /\ \A n \in DOMAIN old : old[n][1] = IF n = 1 THEN FirstVintage ELSE old[n - 1][2]
    BY <2>a, <2>b DEF HedgerInv, RollInv, RolloverChain
  <2>2. active' = [current |-> v, rolls |-> new] /\ vint' = vint
    BY <1>1, <2>a, <2>b, <2>c, <2>d DEF session
  <2>3. link \in (DOMAIN Vintages) \X (DOMAIN Vintages) /\ link[1] = cur /\ link[2] = v  BY <2>1, <2>c
  <2>4. /\ new \in Seq((DOMAIN Vintages) \X (DOMAIN Vintages)) /\ new # <<>>
        /\ Len(new) = Len(old) + 1 /\ Len(old) \in Nat /\ new[Len(new)] = link
        /\ \A n \in 1 .. Len(old) : new[n] = old[n]
    BY <2>1, <2>3, <2>d
  <2>5. Last(new)[2] = v  BY <2>3, <2>4 DEF Last
  <2>6. ASSUME NEW n \in DOMAIN new  PROVE new[n][1] = IF n = 1 THEN FirstVintage ELSE new[n - 1][2]
    <3>1. CASE n = Len(new)
      <4>1. new[n][1] = cur  BY <2>3, <2>4, <3>1
      <4>2. CASE old = <<>>
        <5>1. n = 1  BY <2>4, <3>1, <4>2
        <5> QED  BY <2>1, <4>1, <4>2, <5>1
      <4>3. CASE old # <<>>
        <5>1. Len(old) \in 1 .. Len(old) /\ n - 1 = Len(old) /\ n # 1
          <6>1. Len(old) # 0  BY <2>1, <4>3
          <6> QED  BY <2>4, <3>1, <6>1
        <5>2. cur = old[Len(old)][2]  BY <2>1, <4>3 DEF Last
        <5>3. new[n - 1] = old[Len(old)]  BY <2>4, <5>1
        <5> QED  BY <4>1, <5>1, <5>2, <5>3
      <4> QED  BY <4>2, <4>3
    <3>2. CASE n # Len(new)
      <4>1. n \in 1 .. Len(old) /\ n \in DOMAIN old  BY <2>1, <2>4, <3>2
      <4>2. new[n] = old[n]  BY <2>4, <4>1
      <4>3. CASE n = 1  BY <2>1, <4>1, <4>2, <4>3
      <4>4. CASE n # 1
        <5>1. n - 1 \in 1 .. Len(old)  BY <2>4, <4>1, <4>4
        <5>2. new[n - 1] = old[n - 1]  BY <2>4, <5>1
        <5> QED  BY <2>1, <4>1, <4>2, <4>4, <5>2
      <4> QED  BY <4>3, <4>4
    <3> QED  BY <3>1, <3>2
  <2>7. active'.current = v /\ active'.rolls = new  BY <2>2
  <2>8. RolloverChain'  BY <1>1, <2>1, <2>2, <2>4, <2>5, <2>6, <2>7 DEF RolloverChain
  <2> QED  BY <2>2, <2>4, <2>7, <2>8 DEF RollInv
<1> QED  BY <1>2, <1>3, <1>4, <1>5, <1>6 DEF HedgerInv

LEMMA StopKeeps == ASSUME HedgerInv, Stop PROVE HedgerInv'
<1>1. up' = FALSE /\ UNCHANGED <<closed, market, active, session, history, starts, bvars>>
  BY DEF Stop, venueVars
<1>2. SessionInv'  BY <1>1, SessionStill DEF HedgerInv, session, history
<1>3. ReplayParity'  BY <1>1 DEF ReplayParity
<1>4. LayerInv'  BY <1>1, LayerStill DEF HedgerInv
<1>5. BookInv'  BY <1>1, BookStill DEF HedgerInv, history, bvars
<1>6. RollInv'  BY <1>1, RollStill DEF HedgerInv, session
<1> QED  BY <1>2, <1>3, <1>4, <1>5, <1>6 DEF HedgerInv

-----------------------------------------------------------------------------
(* The theorems.                                                           *)

LEMMA HedgerInvStarts == ASSUME CutoverInit, NoLayer PROVE HedgerInv
<1>1. SessionInv
  <2>1. AllFlat \in Positions(0)  BY DEF AllFlat, Flat, Positions, Position
  <2>2. outs = <<>> /\ <<>> \in Seq(1 .. 0)  BY DEF CutoverInit
  <2>3. Rising(<<>>)  BY DEF Rising
  <2>4. closed \in 0 .. MaxBars /\ market = [b \in Bars |-> market[b]]
    BY TimeAssumption DEF CutoverInit
  <2> QED  BY <2>1, <2>2, <2>3, <2>4 DEF CutoverInit, SessionInv
<1>2. BookInv  BY DEF CutoverInit, BookInv
<1>3. RollInv
  <2>1. /\ active = [current |-> FirstVintage, rolls |-> <<>>] /\ vint = FirstVintage  BY DEF CutoverInit
  <2> QED  BY <2>1, VintageAssumption DEF RollInv, RolloverChain
<1>4. ReplayParity  BY DEF CutoverInit, ReplayParity
<1>5. LayerInv  BY NoLayerHolds
<1> QED  BY <1>1, <1>2, <1>3, <1>4, <1>5 DEF HedgerInv

LEMMA HedgerInvKept == ASSUME HedgerInv, [CutoverNext]_cvars PROVE HedgerInv'
<1>1. CASE CloseBar  BY <1>1, ClosingKeeps
<1>2. ASSUME NEW w \in SUBSET (1 .. closed), NEW p \in BootPaths, ColdStart(w, p)  PROVE HedgerInv'
  BY <1>2, ColdStartKeeps
<1>3. ASSUME NEW b \in Bars, FeedLiveBar(b)  PROVE HedgerInv'  BY <1>3, LiveBarKeeps
<1>4. ASSUME NEW t \in FundingTimes, ObserveFunding(t)  PROVE HedgerInv'  BY <1>4, FundingKeeps
<1>5. ASSUME NEW i \in Layer, NEW e \in LiveEquities, ObserveEquity(i, e)  PROVE HedgerInv'
  BY <1>5, EquityKeeps
<1>6. ASSUME NEW v \in DOMAIN Vintages, Rollover(v)  PROVE HedgerInv'  BY <1>6, RolloverKeeps
<1>7. CASE Stop  BY <1>7, StopKeeps
<1>8. CASE UNCHANGED cvars
  <2>1. UNCHANGED <<closed, market, active, up, session, history, starts, bvars>>
    BY <1>8 DEF cvars, cutVars, venueVars
  <2>2. SessionInv'  BY <2>1, SessionStill DEF HedgerInv, session, history
  <2>3. ReplayParity'  BY <2>1, ParityStill DEF HedgerInv, session, history
  <2>4. LayerInv'  BY <2>1, LayerStill DEF HedgerInv
  <2>5. BookInv'  BY <2>1, BookStill DEF HedgerInv, history, bvars
  <2>6. RollInv'  BY <2>1, RollStill DEF HedgerInv, session
  <2> QED  BY <2>2, <2>3, <2>4, <2>5, <2>6 DEF HedgerInv
<1> QED  BY <1>1, <1>2, <1>3, <1>4, <1>5, <1>6, <1>7, <1>8 DEF CutoverNext

LEMMA HedgerInvSuffices == ASSUME HedgerInv PROVE CutoverSound /\ BreakersSound
<1>1. CutoverTypeOK
  <2>1. positions \in [Strategies -> [dir : {"none", "long", "short"}, held : 0 .. MaxBars]]
    <3>1. lastOpen \in Nat /\ MaxBars \in Nat /\ lastOpen <= MaxBars /\ positions \in Positions(lastOpen)
      BY TimeAssumption DEF HedgerInv, SessionInv
    <3>2. positions \in Positions(MaxBars)  BY <3>1, PositionsGrow
    <3> QED  BY <3>2 DEF Positions, Position
  <2>2. closed \in 0 .. MaxBars /\ lastOpen \in 0 .. closed /\ dormant \subseteq Strategies
        /\ mode = (IF live THEN "live" ELSE "replay")
    BY DEF HedgerInv, SessionInv
  <2>3. gated \subseteq Layer /\ shut \subseteq Strategies  BY DEF HedgerInv, LayerInv, BookInv
  <2> QED  BY <2>1, <2>2, <2>3 DEF CutoverTypeOK
<1>2. EvaluatedInOrder
  <2>1. up => Last(outs) = lastOpen  BY DEF HedgerInv, SessionInv
  <2> QED  BY <2>1 DEF HedgerInv, SessionInv, Rising, EvaluatedInOrder
<1>3. ShutStaysOut  BY DEF HedgerInv, BookInv, ShutStaysOut
<1>4. RolloverChain /\ ReplayParity /\ BreakersSound  BY DEF HedgerInv, RollInv, LayerInv
<1> QED  BY <1>1, <1>2, <1>3, <1>4 DEF CutoverSound

LEMMA HedgerInvHolds == CutoverSpec => []HedgerInv
<1>1. CutoverInit /\ NoLayer => HedgerInv  BY HedgerInvStarts
<1>2. HedgerInv /\ [CutoverNext]_cvars => HedgerInv'  BY HedgerInvKept
<1> QED  BY <1>1, <1>2, PTL DEF CutoverSpec

\* The evaluation path of bootstrap.rs, evaluator.rs, cutover.rs and
\* live_breakers.rs: bars are evaluated once and in order across a cold start
\* and what is delivered live, the running session holds what a fresh replay of
\* the venue's whole history would hold, the book stays out of what a gate shut,
\* the rollovers are a chain of verified vintages, and the breakers are sound.
THEOREM CutoverHolds == CutoverSpec => [](CutoverSound /\ BreakersSound)
<1>1. HedgerInv => CutoverSound /\ BreakersSound  BY HedgerInvSuffices
<1> QED  BY <1>1, HedgerInvHolds, PTL

\* A gate that shut opens by a reset of the layer or a new start alone.
THEOREM GateIsLatched == CutoverSpec => GateLatched
<1>1. ASSUME HedgerInv, [CutoverNext]_cvars
      PROVE  [gated \subseteq gated' \/ resets' # resets \/ starts' # starts]_cvars
  <2>1. CASE UNCHANGED bvars  BY <2>1 DEF bvars
  <2>2. ASSUME NEW w \in SUBSET (1 .. closed), NEW p \in BootPaths, ColdStart(w, p)
        PROVE  starts' # starts
    <3>1. starts \in Nat /\ starts' = starts + 1  BY <1>1, <2>2 DEF HedgerInv, SessionInv, ColdStart
    <3> QED  BY <3>1
  <2>3. ASSUME NEW i \in Layer, NEW e \in LiveEquities, ObserveEquity(i, e)
        PROVE  gated \subseteq gated'
    BY <1>1, <2>3, EquityKeeps
  <2>4. CASE UNCHANGED cvars  BY <2>4
  <2>5. CutoverNext => \/ UNCHANGED bvars
                       \/ \E w \in SUBSET (1 .. closed), p \in BootPaths : ColdStart(w, p)
                       \/ \E i \in Layer, e \in LiveEquities : ObserveEquity(i, e)
    BY DEF CutoverNext, CloseBar, FeedLiveBar, ObserveFunding, Rollover, Stop
  <2> QED  BY <1>1, <2>1, <2>2, <2>3, <2>4, <2>5
<1>2. HedgerInv /\ [CutoverNext]_cvars
        => [gated \subseteq gated' \/ resets' # resets \/ starts' # starts]_cvars
  BY <1>1
<1> QED  BY <1>2, HedgerInvHolds, PTL DEF CutoverSpec, GateLatched
-----------------------------------------------------------------------------
(* The desk: what netting, the cap and the limits do to an order.          *)

LEMMA SumsEquation ==
  ASSUME NEW s, NEW n \in Nat, n = Len(s)
  PROVE  Sums(s) = [i \in 0 .. n |-> IF i = 0 THEN 0 ELSE Sums(s)[i - 1] + s[i]]
<1> DEFINE G(k, f) == f = [i \in 0 .. k |-> IF i = 0 THEN 0 ELSE f[i - 1] + s[i]]
           some == {k \in Nat : \E f : G(k, f)}
<1>1. 0 \in some
  <2>1. G(0, [i \in 0 .. 0 |-> 0])  OBVIOUS
  <2> QED  BY <2>1
<1>2. ASSUME NEW k \in 1 .. n, k - 1 \in some  PROVE k \in some
  <2>0. k \in Nat /\ k - 1 \in Nat  OBVIOUS
  <2>1. PICK f : G(k - 1, f)  BY <1>2
  <2> DEFINE g == [i \in 0 .. k |-> IF i <= k - 1 THEN f[i] ELSE f[k - 1] + s[k]]
  <2>2. \A i \in 0 .. k - 1 : f[i] = IF i = 0 THEN 0 ELSE f[i - 1] + s[i]  BY <2>1
  <2>3. \A i \in 0 .. k - 1 : g[i] = f[i]  BY <2>0
  <2>4. g[k] = f[k - 1] + s[k]  BY <2>0
  <2>5. ASSUME NEW i \in 0 .. k  PROVE g[i] = IF i = 0 THEN 0 ELSE g[i - 1] + s[i]
    <3> HIDE DEF g, G
    <3>1. CASE i = k
      <4>1. k - 1 \in 0 .. k - 1 /\ k # 0  BY <2>0
      <4> QED  BY <3>1, <4>1, <2>3, <2>4
    <3>2. CASE i # k
      <4>1. i \in 0 .. k - 1  BY <2>0, <3>2
      <4>2. i = 0 \/ i - 1 \in 0 .. k - 1  BY <2>0, <4>1
      <4> QED  BY <4>1, <4>2, <2>2, <2>3
    <3> QED  BY <3>1, <3>2
  <2>6. G(k, g)  BY <2>5
  <2> QED  BY <2>0, <2>6
<1>3. n \in some
  <2> HIDE DEF some
  <2>1. some \in SUBSET Nat  BY DEF some
  <2>2. \A k \in 1 .. n : k - 1 \in some => k \in some  BY <1>2
  <2>3. \A i \in 0 .. n : i \in some  BY <1>1, <2>1, <2>2, FirstFailure
  <2> QED  BY <2>3
<1>4. PICK f : G(n, f)  BY <1>3
<1>5. Sums(s) = CHOOSE g : G(n, g)  BY DEF Sums
<1>6. G(n, Sums(s))
  <2> HIDE DEF G
  <2> QED  BY <1>4, <1>5
<1> QED  BY <1>6

LEMMA SumIsNat == ASSUME NEW s \in Seq(Nat)  PROVE SumOf(s) \in Nat
<1>1. PICK n \in Nat : n = Len(s)  OBVIOUS
<1>2. \A i \in 0 .. n : Sums(s)[i] = IF i = 0 THEN 0 ELSE Sums(s)[i - 1] + s[i]  BY <1>1, SumsEquation
<1> DEFINE good == {i \in Nat : Sums(s)[i] \in Nat}
<1>3. 0 \in good  BY <1>2
<1>4. ASSUME NEW i \in 1 .. n, i - 1 \in good  PROVE i \in good
  <2>1. i \in 0 .. n /\ i # 0 /\ i \in Nat /\ s[i] \in Nat  BY <1>1
  <2> QED  BY <1>2, <1>4, <2>1
<1>5. n \in good
  <2> HIDE DEF good
  <2>1. good \in SUBSET Nat  BY DEF good
  <2>2. \A i \in 1 .. n : i - 1 \in good => i \in good  BY <1>4
  <2>3. \A i \in 0 .. n : i \in good  BY <1>3, <2>1, <2>2, FirstFailure
  <2> QED  BY <2>3
<1> QED  BY <1>1, <1>5 DEF SumOf

LEMMA SideIs == ASSUME NEW dirs, NEW d  PROVE Side(dirs, d) \in Nat
<1>1. PICK each : each = [weight : Nat, size : Nat]  OBVIOUS
<1>0. Legs \in Seq(each)  BY <1>1, SizingAssumption DEF SizingAssumption
<1>2. PICK n \in Nat : n = Len(Legs) /\ DOMAIN Legs = 1 .. n  BY <1>0
<1> DEFINE t == [i \in DOMAIN Legs |-> IF dirs[i] = d THEN Magnitude(i) ELSE 0]
<1>3. ASSUME NEW i \in 1 .. n  PROVE Magnitude(i) \in Nat
  <2>0. Legs[i] \in each  BY <1>0, <1>2
  <2>1. Legs[i] \in [weight : Nat, size : Nat]  BY <1>1, <2>0
  <2>2. PICK w \in Nat, z \in Nat : w = Legs[i].weight /\ z = Legs[i].size  BY <2>1
  <2> QED  BY <2>2 DEF Magnitude
<1>4. t \in [1 .. n -> Nat]  BY <1>2, <1>3
<1>5. t \in Seq(Nat)  BY <1>4
<1> HIDE DEF t
<1>6. SumOf(t) \in Nat  BY <1>5, SumIsNat
<1> QED  BY <1>6 DEF Side, t

LEMMA PairIs == ASSUME NEW a \in Int, NEW b \in Int
  PROVE  /\ Max({a, b}) = (IF a >= b THEN a ELSE b) /\ Max({a, b}) \in Int
         /\ Min({a, b}) = (IF a <= b THEN a ELSE b) /\ Min({a, b}) \in Int
<1>1. \E x \in {a, b} : \A y \in {a, b} : x >= y  OBVIOUS
<1>2. \E x \in {a, b} : \A y \in {a, b} : x <= y  OBVIOUS
<1>3. Max({a, b}) \in {a, b} /\ Max({a, b}) >= a /\ Max({a, b}) >= b  BY <1>1 DEF Max
<1>4. Min({a, b}) \in {a, b} /\ Min({a, b}) <= a /\ Min({a, b}) <= b  BY <1>2 DEF Min
<1> QED  BY <1>3, <1>4

LEMMA MagIs == ASSUME NEW x \in Int  PROVE Mag(x) \in Nat /\ (Mag(x) = x \/ Mag(x) = -x) /\ Mag(-x) = Mag(x) /\ (x >= 0 => Mag(x) = x)
  BY DEF Mag

\* Scaling by something that is not negative scales the magnitude and keeps the side.
LEMMA MagTimes ==
  ASSUME NEW x \in Int, NEW k \in Nat
  PROVE  Mag(x * k) = Mag(x) * k /\ SameSide(x * k, x)
<1>1. CASE x < 0
  <2>1. x * k <= 0 /\ (-x) * k = -(x * k) /\ (-x) * k >= 0  BY <1>1
  <2>2. Mag(x) = -x  BY <1>1 DEF Mag
  <2>3. Mag(x * k) = -(x * k)
    <3>1. PICK y \in Int : y = x * k  OBVIOUS
    <3> QED  BY <2>1, <3>1 DEF Mag
  <2> QED  BY <1>1, <2>1, <2>2, <2>3 DEF SameSide
<1>2. CASE x >= 0
  <2>1. x * k >= 0 /\ x * k \in Int  BY <1>2
  <2> QED  BY <1>2, <2>1 DEF Mag, SameSide
<1> QED  BY <1>1, <1>2

LEMMA ScaledIs ==
  ASSUME NEW t \in Nets, t.net = t.long - t.short, NEW num \in Nat, NEW den \in Nat, den # 0
  PROVE  LET u == Scaled(t, num, den)
         IN  /\ u \in Nets /\ u.net = u.long - u.short
             /\ u.net = t.net * num /\ u.den = t.den * den /\ SameSide(u.net, t.net)
<1>1. PICK n \in Int, l \in Nat, s \in Nat, d \in Nat \ {0} : n = t.net /\ l = t.long /\ s = t.short /\ d = t.den  BY DEF Nets
<1>2. PICK u : u = Scaled(t, num, den)  OBVIOUS
<1>3. u = [net |-> n * num, long |-> l * num, short |-> s * num, den |-> d * den]  BY <1>1, <1>2 DEF Scaled
<1>4. n * num \in Int /\ l * num \in Nat /\ s * num \in Nat  BY <1>1
<1>5. d * den \in Nat \ {0}  BY <1>1
<1>6. n * num = l * num - s * num  BY <1>1
<1>7. SameSide(n * num, n)  BY <1>1, MagTimes
<1>8. u \in Nets  BY <1>3, <1>4, <1>5 DEF Nets
<1> QED  BY <1>1, <1>2, <1>3, <1>6, <1>7, <1>8

\* What the sizer and the cap leave of a net position.
LEMMA SizedIs ==
  ASSUME NEW base \in Nets, base.net = base.long - base.short, NEW raw \in Int, NEW cap \in Int \union {Unset}
  PROVE  LET t == ApplySizer(base, raw, cap)
         IN  /\ t \in Nets /\ t.net = t.long - t.short /\ SameSide(t.net, base.net)
             /\ cap # Unset => Mag(t.net) <= Max({cap, 0}) * t.den
<1>1. PICK m \in Nat : m = Multiplier(raw)
  <2>1. Max({raw, 0}) = IF raw >= 0 THEN raw ELSE 0  BY PairIs
  <2> QED  BY <2>1 DEF Multiplier
<1>2. PICK sized \in Nets : sized = Scaled(base, m, 2) /\ sized.net = sized.long - sized.short /\ SameSide(sized.net, base.net)
  BY <1>1, ScaledIs
<1>3. PICK n \in Int, d \in Nat : n = sized.net /\ d = sized.den /\ d # 0  BY <1>2 DEF Nets
<1>4. Mag(n) \in Nat  BY <1>3, MagIs
<1>5. PICK c : c = Max({cap, 0})  OBVIOUS
<1>6. cap # Unset => c \in Nat
  <2> SUFFICES ASSUME cap # Unset  PROVE c \in Nat  OBVIOUS
  <2>1. cap \in Int /\ 0 \in Int  OBVIOUS
  <2>2. Max({cap, 0}) = IF cap >= 0 THEN cap ELSE 0  BY <2>1, PairIs
  <2> QED  BY <1>5, <2>1, <2>2
<1>7. PICK t : t = ApplySizer(base, raw, cap)  OBVIOUS
<1>8. t = IF cap # Unset /\ Mag(n) > c * d THEN Scaled(sized, c * d, Mag(n)) ELSE sized
  BY <1>1, <1>2, <1>3, <1>5, <1>7 DEF ApplySizer
<1>9. CASE cap # Unset /\ Mag(n) > c * d
  <2>1. PICK k \in Nat, z \in Nat : k = c * d /\ z = Mag(n) /\ z # 0  BY <1>3, <1>4, <1>6, <1>9
  <2>2. t = Scaled(sized, k, z)  BY <1>8, <1>9, <2>1
  <2>3. t \in Nets /\ t.net = t.long - t.short /\ t.net = n * k /\ t.den = d * z /\ SameSide(t.net, n)
    <3>0. k \in Nat /\ z \in Nat /\ z # 0  BY <2>1
    <3>1. PICK u : u = Scaled(sized, k, z)  OBVIOUS
    <3>2. /\ u \in Nets /\ u.net = u.long - u.short
          /\ u.net = sized.net * k /\ u.den = sized.den * z /\ SameSide(u.net, sized.net)
      BY <1>2, <3>0, <3>1, ScaledIs
    <3> QED  BY <1>3, <2>2, <3>1, <3>2
  <2>4. Mag(t.net) = z * k  BY <1>3, <2>1, <2>3, MagTimes
  <2>5. z * k = c * (d * z)
    <3>1. c \in Nat  BY <1>6, <1>9
    <3>2. \A x, y, w \in Nat : w * (x * y) = x * (y * w)  OBVIOUS
    <3> QED  BY <1>3, <2>1, <3>1, <3>2
  <2>6. Mag(t.net) <= c * t.den
    <3>1. c * (d * z) \in Int  BY <1>3, <1>6, <1>9, <2>1
    <3> QED  BY <2>3, <2>4, <2>5, <3>1
  <2>7. SameSide(t.net, base.net)
    <3>1. PICK x \in Int, y \in Int : x = t.net /\ y = base.net  BY <2>3 DEF Nets
    <3>2. z = 0 \/ n # 0  BY <1>3, <2>1 DEF Mag
    <3> QED  BY <1>2, <1>3, <2>1, <2>3, <3>1, <3>2 DEF SameSide
  <2> QED  BY <1>5, <1>7, <2>3, <2>6, <2>7
<1>10. CASE ~(cap # Unset /\ Mag(n) > c * d)
  <2>1. t = sized  BY <1>8, <1>10
  <2>2. cap # Unset => Mag(n) <= c * d
    <3> SUFFICES ASSUME cap # Unset  PROVE Mag(n) <= c * d  OBVIOUS
    <3>1. c * d \in Int  BY <1>3, <1>6
    <3> QED  BY <1>4, <1>10, <3>1
  <2> QED  BY <1>2, <1>3, <1>5, <1>7, <2>1, <2>2
<1> QED  BY <1>9, <1>10

LEMMA NetKeeps == ASSUME SizingKept, Net  PROVE SizingKept'
<1>1. PICK dirs : dirs = book.dirs  OBVIOUS
<1>2. NetPositions(dirs) \in Nets /\ NetPositions(dirs).net = NetPositions(dirs).long - NetPositions(dirs).short
  <2>1. PICK l \in Nat, s \in Nat : l = Side(dirs, "long") /\ s = Side(dirs, "short")  BY SideIs
  <2>2. NetPositions(dirs) = [net |-> l - s, long |-> l, short |-> s, den |-> 100]  BY <2>1 DEF NetPositions
  <2> QED  BY <2>2 DEF Nets
<1>3. book.multiplier \in Int /\ book.cap \in Int \union {Unset}
  <2>1. Multipliers \subseteq Int /\ Caps \subseteq Int \union {Unset}  BY SizingAssumption DEF SizingAssumption
  <2>2. book.multiplier \in Multipliers /\ book.cap \in Caps  BY DEF SizingKept, SizingTypes
  <2> QED  BY <2>1, <2>2
<1>4. PICK base \in Nets : base = NetPositions(dirs) /\ base.net = base.long - base.short  BY <1>2
<1>5. PICK raw \in Int, cap \in Int \union {Unset} : raw = book.multiplier /\ cap = book.cap  BY <1>3
<1>6. PICK t : t = ApplySizer(base, raw, cap)  OBVIOUS
<1>7. /\ t \in Nets /\ t.net = t.long - t.short /\ SameSide(t.net, base.net)
      /\ cap # Unset => Mag(t.net) <= Max({cap, 0}) * t.den
  BY <1>4, <1>5, <1>6, SizedIs
<1>8. target' = t /\ stage' = "plan" /\ book' = book /\ UNCHANGED shadowVars
  BY <1>1, <1>4, <1>5, <1>6 DEF Net
<1>9. SizingTypes'  BY <1>7, <1>8 DEF SizingKept, SizingTypes, shadowVars
<1>10. NetWithinCap'
  <2>1. t.long >= 0 /\ t.short >= 0  BY <1>7 DEF Nets
  <2>2. NetPositions(book.dirs).net = base.net  BY <1>1, <1>4
  <2>3. (NetPositions(book.dirs).net)' = NetPositions(book.dirs).net  BY <1>8 DEF NetPositions, Side
  <2> QED  BY <1>5, <1>7, <1>8, <2>1, <2>2, <2>3 DEF NetWithinCap
<1>11. SentWithinLimits'  BY <1>8 DEF SentWithinLimits
<1>12. ShadowAgrees'  BY <1>8 DEF SizingKept, DeskSound, ShadowAgrees, shadowVars
<1> QED  BY <1>9, <1>10, <1>11, <1>12 DEF SizingKept, DeskSound

LEMMA PlanKeeps == ASSUME SizingKept, NEW e \in Accounts, Plan(e)  PROVE SizingKept'
<1>1. e \in Int  BY SizingAssumption DEF SizingAssumption
<1>2. target \in Nets  BY DEF SizingKept, SizingTypes, Plan
<1>3. PICK n \in Int, l \in Nat, s \in Nat, d \in Nat \ {0} : n = target.net /\ l = target.long /\ s = target.short /\ d = target.den
  BY <1>2 DEF Nets
<1>4. target' = [notional |-> n * e, gross |-> (l + s) * e, den |-> d]  BY <1>3 DEF Plan
<1>5. n * e \in Int /\ (l + s) * e \in Int  BY <1>1, <1>3
<1>6. target' \in Orders  BY <1>3, <1>4, <1>5 DEF Orders
<1>7. stage' = "check" /\ book' = book /\ UNCHANGED shadowVars  BY DEF Plan
<1>8. SizingTypes'  BY <1>6, <1>7 DEF SizingKept, SizingTypes, shadowVars
<1>9. NetWithinCap' /\ SentWithinLimits'  BY <1>7 DEF NetWithinCap, SentWithinLimits
<1>10. ShadowAgrees'  BY <1>7 DEF SizingKept, DeskSound, ShadowAgrees, shadowVars
<1> QED  BY <1>8, <1>9, <1>10 DEF SizingKept, DeskSound


\* What each kind of breach is.
Kinds == {"MaxNotional", "MaxLeverage", "MaxGrossExposure", "MaxNetExposure",
          "LiquidationDistanceFloor", "MarginUtilisationCeiling", "MaxParticipation"}
Broken(k, mag, gross, den, c) ==
  \/ k = "MaxNotional" /\ c.limits.notional # Unset /\ mag > c.limits.notional * den
  \/ /\ k = "MaxLeverage" /\ c.limits.leverage # Unset
     /\ IF c.equity > 0 THEN mag > c.limits.leverage * c.equity * den ELSE mag > 0
  \/ k = "MaxGrossExposure" /\ c.limits.gross # Unset /\ gross > c.limits.gross * den
  \/ k = "MaxNetExposure" /\ c.limits.net # Unset /\ mag > c.limits.net * den
  \/ /\ k = "LiquidationDistanceFloor" /\ c.limits.floor # Unset /\ mag > 0
     /\ c.equity * den * 100 < (c.limits.floor + Mmr) * mag
  \/ /\ k = "MarginUtilisationCeiling" /\ c.limits.ceiling # Unset
     /\ IF c.margin > 0 THEN mag * Mmr > c.limits.ceiling * c.margin * den ELSE mag > 0
  \/ /\ k = "MaxParticipation" /\ c.limits.participation # Unset /\ mag > 0
     /\ (c.adv = Unset \/ c.adv <= 0 \/ mag * 100 > c.limits.participation * c.adv * den)

LEMMA FlagsAre ==
  ASSUME NEW A, NEW B, NEW C, NEW D, NEW E, NEW F, NEW G
  PROVE  LET over == [MaxNotional |-> A, MaxLeverage |-> B, MaxGrossExposure |-> C, MaxNetExposure |-> D,
                      LiquidationDistanceFloor |-> E, MarginUtilisationCeiling |-> F, MaxParticipation |-> G]
         IN  /\ DOMAIN over = Kinds
             /\ over["MaxNotional"] = A /\ over["MaxLeverage"] = B /\ over["MaxGrossExposure"] = C
             /\ over["MaxNetExposure"] = D /\ over["LiquidationDistanceFloor"] = E
             /\ over["MarginUtilisationCeiling"] = F /\ over["MaxParticipation"] = G
  BY DEF Kinds

LEMMA BreachesAre ==
  ASSUME NEW mag, NEW gross, NEW den, NEW c
  PROVE  Breaches(mag, gross, den, c) = {k \in Kinds : Broken(k, mag, gross, den, c)}
<1>a. PICK A : A = (c.limits.notional # Unset /\ mag > c.limits.notional * den)
  OBVIOUS
<1>b. PICK B : B = (c.limits.leverage # Unset
        /\ IF c.equity > 0 THEN mag > c.limits.leverage * c.equity * den ELSE mag > 0)
  OBVIOUS
<1>c. PICK C : C = (c.limits.gross # Unset /\ gross > c.limits.gross * den)
  OBVIOUS
<1>d. PICK D : D = (c.limits.net # Unset /\ mag > c.limits.net * den)
  OBVIOUS
<1>e. PICK E : E = (c.limits.floor # Unset /\ mag > 0 /\ c.equity * den * 100 < (c.limits.floor + Mmr) * mag)
  OBVIOUS
<1>f. PICK F : F = (c.limits.ceiling # Unset
        /\ IF c.margin > 0 THEN mag * Mmr > c.limits.ceiling * c.margin * den ELSE mag > 0)
  OBVIOUS
<1>g. PICK G : G = (c.limits.participation # Unset /\ mag > 0
        /\ (c.adv = Unset \/ c.adv <= 0 \/ mag * 100 > c.limits.participation * c.adv * den))
  OBVIOUS
<1>2. PICK over : over = [MaxNotional |-> A, MaxLeverage |-> B, MaxGrossExposure |-> C, MaxNetExposure |-> D,
                      LiquidationDistanceFloor |-> E, MarginUtilisationCeiling |-> F, MaxParticipation |-> G]
  OBVIOUS
<1>3. Breaches(mag, gross, den, c) = {k \in DOMAIN over : over[k]}  BY <1>a, <1>b, <1>c, <1>d, <1>e, <1>f, <1>g, <1>2, Zenon DEF Breaches
<1>4. DOMAIN over = Kinds
             /\ over["MaxNotional"] = A /\ over["MaxLeverage"] = B /\ over["MaxGrossExposure"] = C
             /\ over["MaxNetExposure"] = D /\ over["LiquidationDistanceFloor"] = E
             /\ over["MarginUtilisationCeiling"] = F /\ over["MaxParticipation"] = G
  BY <1>2, FlagsAre
<1>5. ASSUME NEW k \in Kinds  PROVE over[k] <=> Broken(k, mag, gross, den, c)
  <2>1. CASE k = "MaxNotional"  BY <1>a, <1>4, <2>1 DEF Broken
  <2>2. CASE k = "MaxLeverage"  BY <1>b, <1>4, <2>2 DEF Broken
  <2>3. CASE k = "MaxGrossExposure"  BY <1>c, <1>4, <2>3 DEF Broken
  <2>4. CASE k = "MaxNetExposure"  BY <1>d, <1>4, <2>4 DEF Broken
  <2>5. CASE k = "LiquidationDistanceFloor"  BY <1>e, <1>4, <2>5 DEF Broken
  <2>6. CASE k = "MarginUtilisationCeiling"  BY <1>f, <1>4, <2>6 DEF Broken
  <2>7. CASE k = "MaxParticipation"  BY <1>g, <1>4, <2>7 DEF Broken
  <2> QED  BY <2>1, <2>2, <2>3, <2>4, <2>5, <2>6, <2>7 DEF Kinds
<1> QED  BY <1>3, <1>4, <1>5

LEMMA MinIs ==
  ASSUME NEW S \in SUBSET Nat, S # {}
  PROVE  Min(S) \in S /\ \A y \in S : Min(S) <= y
<1>1. \E x \in S : \A y \in S : x <= y  BY LeastNumber
<1> QED  BY <1>1 DEF Min

LEMMA TimesLeq ==
  ASSUME NEW x \in Nat, NEW y \in Nat, x <= y, NEW k \in Nat
  PROVE  x * k <= y * k /\ k * x <= k * y
<1>1. (y - x) * k >= 0  OBVIOUS
<1>2. (y - x) * k = y * k - x * k /\ k * x = x * k /\ k * y = y * k  OBVIOUS
<1>3. x * k \in Int /\ y * k \in Int  OBVIOUS
<1> QED  BY <1>1, <1>2, <1>3

\* What a limit breaks for a smaller order it breaks for a larger one.
LEMMA BrokenGrows ==
  ASSUME NEW c \in Capitals, NEW m \in Nat, NEW mag \in Nat, m <= mag, NEW gross \in Int, NEW den \in Nat,
         NEW k \in Kinds, Broken(k, m, gross, den, c)
  PROVE  Broken(k, mag, gross, den, c)
<1>1. PICK l \in Limits, e \in Int, mr \in Int, a \in Int \union {Unset} :
        l = c.limits /\ e = c.equity /\ mr = c.margin /\ a = c.adv
  BY SizingAssumption DEF SizingAssumption, Capitals
<1>2. {l.notional, l.leverage, l.floor, l.ceiling, l.participation} \subseteq Nat \union {Unset}
      /\ {l.gross, l.net} \subseteq Int \union {Unset} /\ Mmr \in Nat /\ Unset \notin Int
  BY <1>1, SizingAssumption DEF SizingAssumption
<1>3. CASE k = "MaxNotional"
  <2>1. l.notional # Unset /\ m > l.notional * den  BY <1>1, <1>3 DEF Broken
  <2>2. l.notional * den \in Int  BY <1>2, <2>1
  <2>3. mag > l.notional * den  BY <2>1, <2>2
  <2> QED  BY <1>1, <1>3, <2>1, <2>3 DEF Broken
<1>4. CASE k = "MaxLeverage"
  <2>1. l.leverage # Unset /\ IF e > 0 THEN m > l.leverage * e * den ELSE m > 0  BY <1>1, <1>4 DEF Broken
  <2>2. l.leverage * e * den \in Int  BY <1>1, <1>2, <2>1
  <2>3. IF e > 0 THEN mag > l.leverage * e * den ELSE mag > 0  BY <2>1, <2>2
  <2> QED  BY <1>1, <1>4, <2>1, <2>3 DEF Broken
<1>5. CASE k = "MaxGrossExposure"  BY <1>5 DEF Broken
<1>6. CASE k = "MaxNetExposure"
  <2>1. l.net # Unset /\ m > l.net * den  BY <1>1, <1>6 DEF Broken
  <2>2. l.net * den \in Int  BY <1>2, <2>1
  <2>3. mag > l.net * den  BY <2>1, <2>2
  <2> QED  BY <1>1, <1>6, <2>1, <2>3 DEF Broken
<1>7. CASE k = "LiquidationDistanceFloor"
  <2>1. l.floor # Unset /\ m > 0 /\ e * den * 100 < (l.floor + Mmr) * m  BY <1>1, <1>7 DEF Broken
  <2>2. PICK s \in Nat : s = l.floor + Mmr  BY <1>2, <2>1
  <2>3. s * m <= s * mag /\ s * m \in Int /\ s * mag \in Int  BY <2>2, TimesLeq
  <2>4. PICK x \in Int : x = e * den * 100  BY <1>1
  <2>5. x < s * mag  BY <2>1, <2>2, <2>3, <2>4
  <2>6. mag > 0  BY <2>1
  <2> QED  BY <1>1, <1>7, <2>1, <2>2, <2>4, <2>5, <2>6 DEF Broken
<1>8. CASE k = "MarginUtilisationCeiling"
  <2>1. l.ceiling # Unset /\ IF mr > 0 THEN m * Mmr > l.ceiling * mr * den ELSE m > 0  BY <1>1, <1>8 DEF Broken
  <2>2. l.ceiling * mr * den \in Int  BY <1>1, <1>2, <2>1
  <2>3. m * Mmr <= mag * Mmr /\ m * Mmr \in Int /\ mag * Mmr \in Int  BY <1>2, TimesLeq
  <2>4. IF mr > 0 THEN mag * Mmr > l.ceiling * mr * den ELSE mag > 0  BY <2>1, <2>2, <2>3
  <2> QED  BY <1>1, <1>8, <2>1, <2>4 DEF Broken
<1>9. CASE k = "MaxParticipation"
  <2>1. /\ l.participation # Unset /\ m > 0
        /\ (a = Unset \/ a <= 0 \/ m * 100 > l.participation * a * den)
    BY <1>1, <1>9 DEF Broken
  <2>2. mag > 0 /\ mag * 100 >= m * 100  BY <2>1
  <2>3. a # Unset => l.participation * a * den \in Int  BY <1>1, <1>2, <2>1
  <2>4. a = Unset \/ a <= 0 \/ mag * 100 > l.participation * a * den
    <3> SUFFICES ASSUME a # Unset, ~(a <= 0)  PROVE mag * 100 > l.participation * a * den  OBVIOUS
    <3>1. m * 100 > l.participation * a * den  BY <2>1
    <3> QED  BY <2>2, <2>3, <3>1
  <2> QED  BY <1>1, <1>9, <2>1, <2>2, <2>4 DEF Broken
<1> QED  BY <1>3, <1>4, <1>5, <1>6, <1>7, <1>8, <1>9 DEF Kinds

\* The clamp leaves a magnitude that breaches neither of the limits that clamp.
LEMMA ClampIs ==
  ASSUME NEW c \in Capitals, NEW mag \in Nat, NEW gross \in Int, NEW den \in Nat
  PROVE  LET m == ClampMag(mag, den, c, Breaches(mag, gross, den, c))
         IN  /\ m \in Nat /\ m <= mag
             /\ ~ Broken("MaxNotional", m, gross, den, c) /\ ~ Broken("MaxLeverage", m, gross, den, c)
<1>1. PICK l \in Limits, e \in Int : l = c.limits /\ e = c.equity
  BY SizingAssumption DEF SizingAssumption, Capitals
<1>2. {l.notional, l.leverage} \subseteq Nat \union {Unset} /\ Unset \notin Int
  BY <1>1, SizingAssumption DEF SizingAssumption
<1>3. PICK B : B = Breaches(mag, gross, den, c)  OBVIOUS
<1>4. /\ "MaxNotional" \in B <=> Broken("MaxNotional", mag, gross, den, c)
      /\ "MaxLeverage" \in B <=> Broken("MaxLeverage", mag, gross, den, c)
  BY <1>3, BreachesAre DEF Kinds
<1>5. PICK X : X = l.notional * den  OBVIOUS
<1>6. PICK Y : Y = IF e > 0 THEN l.leverage * e * den ELSE 0  OBVIOUS
<1>7. l.notional # Unset => X \in Nat  BY <1>2, <1>5
<1>8. l.leverage # Unset => Y \in Nat
  <2> SUFFICES ASSUME l.leverage # Unset  PROVE Y \in Nat  OBVIOUS
  <2>1. CASE e > 0
    <3>1. PICK v \in Nat, f \in Nat : v = l.leverage /\ f = e  BY <1>1, <1>2, <2>1
    <3>2. v * f * den \in Nat  BY <3>1
    <3> QED  BY <1>6, <2>1, <3>1, <3>2
  <2> QED  BY <1>6, <2>1
<1>9. \A x : /\ Broken("MaxNotional", x, gross, den, c) <=> (l.notional # Unset /\ x > X)
             /\ Broken("MaxLeverage", x, gross, den, c)
                  <=> (l.leverage # Unset /\ IF e > 0 THEN x > Y ELSE x > 0)
  BY <1>1, <1>5, <1>6 DEF Broken
<1> DEFINE S == {mag} \union (IF "MaxNotional" \in B THEN {X} ELSE {}) \union (IF "MaxLeverage" \in B THEN {Y} ELSE {})
<1>10. S \in SUBSET Nat /\ S # {}  BY <1>4, <1>7, <1>8, <1>9
<1>11. PICK m : m = ClampMag(mag, den, c, B)  OBVIOUS
<1>12. m = Min(S)  BY <1>1, <1>5, <1>6, <1>11 DEF ClampMag
<1>13. m \in S /\ \A y \in S : m <= y
  <2> HIDE DEF S
  <2> QED  BY <1>10, <1>12, MinIs
<1>14. m \in Nat /\ m <= mag  BY <1>10, <1>13
<1>15. ~ Broken("MaxNotional", m, gross, den, c)
  <2> SUFFICES ASSUME l.notional # Unset, m > X  PROVE FALSE  BY <1>9
  <2>1. X \in Nat /\ mag > X  BY <1>7, <1>14
  <2>2. X \in S  BY <1>4, <1>9, <2>1
  <2> QED  BY <1>13, <1>14, <2>1, <2>2
<1>16. ~ Broken("MaxLeverage", m, gross, den, c)
  <2> SUFFICES ASSUME l.leverage # Unset, IF e > 0 THEN m > Y ELSE m > 0  PROVE FALSE  BY <1>9
  <2>1. Y \in Nat /\ (IF e > 0 THEN mag > Y ELSE mag > 0)  BY <1>8, <1>14
  <2>2. Y \in S /\ m > Y  BY <1>4, <1>6, <1>9, <2>1
  <2> QED  BY <1>13, <1>14, <2>1, <2>2
<1> QED  BY <1>3, <1>11, <1>14, <1>15, <1>16

\* How severe the worst breach is.
LEMMA WorstIs ==
  ASSUME NEW B \in SUBSET Kinds
  PROVE  LET worst == Max({-1} \union {Severity(DefaultOutcome(k)) : k \in B})
         IN  /\ worst \in -1 .. 2 /\ (worst = -1 => B = {})
             /\ worst = 0 => B \subseteq {"MaxNotional", "MaxLeverage"}
<1>1. ASSUME NEW k \in Kinds
      PROVE  /\ Severity(DefaultOutcome(k)) \in 0 .. 2
             /\ Severity(DefaultOutcome(k)) = 0 => k \in {"MaxNotional", "MaxLeverage"}
  <2>1. CASE k \in {"MaxNotional", "MaxLeverage"}
    <3>1. DefaultOutcome(k) = "clamp"  BY <2>1 DEF DefaultOutcome
    <3> QED  BY <2>1, <3>1 DEF Severity
  <2>2. CASE k \notin {"MaxNotional", "MaxLeverage"}
    <3>1. k # "DrawdownCap"  BY DEF Kinds
    <3>2. DefaultOutcome(k) = "reject"  BY <2>2, <3>1 DEF DefaultOutcome
    <3> QED  BY <3>2 DEF Severity
  <2> QED  BY <2>1, <2>2
<1>2. PICK W : W = {-1} \union {Severity(DefaultOutcome(k)) : k \in B}  OBVIOUS
<1>3. W \subseteq -1 .. 2 /\ -1 \in W  BY <1>1, <1>2
<1>4. \E x \in W : \A y \in W : x >= y
  <2>1. \A y \in W : y = -1 \/ y = 0 \/ y = 1 \/ y = 2  BY <1>3
  <2>2. CASE 2 \in W  BY <2>1, <2>2
  <2>3. CASE 2 \notin W /\ 1 \in W  BY <2>1, <2>3
  <2>4. CASE 2 \notin W /\ 1 \notin W /\ 0 \in W  BY <2>1, <2>4
  <2>5. CASE 2 \notin W /\ 1 \notin W /\ 0 \notin W  BY <1>3, <2>1, <2>5
  <2> QED  BY <2>2, <2>3, <2>4, <2>5
<1>5. Max(W) \in W /\ \A y \in W : Max(W) >= y  BY <1>4 DEF Max
<1>6. \A k \in B : Max(W) >= Severity(DefaultOutcome(k))  BY <1>2, <1>5
<1>7. PICK w \in -1 .. 2 : w = Max(W)  BY <1>3, <1>5
<1>8. w = -1 => B = {}  BY <1>1, <1>6, <1>7
<1>9. w = 0 => B \subseteq {"MaxNotional", "MaxLeverage"}  BY <1>1, <1>6, <1>7
<1> QED  BY <1>2, <1>7, <1>8, <1>9

\* What Check sends breaks no limit.
LEMMA CheckSends ==
  ASSUME NEW t \in Orders, NEW c \in Capitals, Check(t, c).kind = "send"
  PROVE  LET v == Check(t, c).notional
         IN  /\ v \in Int /\ Mag(v) <= Mag(t.notional) /\ SameSide(v, t.notional)
             /\ Breaches(Mag(v), Mag(t.gross), t.den, c) = {}
<1>1. PICK n \in Int, gr \in Int, d \in Nat : n = t.notional /\ gr = t.gross /\ d = t.den  BY DEF Orders
<1>2. PICK mag \in Nat, gross \in Int : mag = Mag(n) /\ gross = Mag(gr)
  <2>1. Mag(gr) \in Int  BY MagIs
  <2> QED  BY <2>1, MagIs
<1>3. PICK B \in SUBSET Kinds : B = Breaches(mag, gross, d, c) /\ B = {k \in Kinds : Broken(k, mag, gross, d, c)}
  BY BreachesAre
<1>4. PICK worst : worst = Max({-1} \union {Severity(DefaultOutcome(k)) : k \in B})  OBVIOUS
<1>5. worst \in -1 .. 2 /\ (worst = -1 => B = {}) /\ (worst = 0 => B \subseteq {"MaxNotional", "MaxLeverage"})
  BY <1>4, WorstIs
<1>6. PICK m : m = ClampMag(mag, d, c, B)  OBVIOUS
<1>7. /\ m \in Nat /\ m <= mag
      /\ ~ Broken("MaxNotional", m, gross, d, c) /\ ~ Broken("MaxLeverage", m, gross, d, c)
  BY <1>3, <1>6, ClampIs
<1>8. PICK r : r = Check(t, c)  OBVIOUS
<1>9. r = CASE worst = -1 -> [kind |-> "send", notional |-> n]
            [] worst = 0  -> [kind |-> "send", notional |-> IF n < 0 THEN -m ELSE m]
            [] worst = 1  -> [kind |-> "reject", notional |-> 0]
            [] worst = 2  -> [kind |-> "halt", notional |-> 0]
  BY <1>1, <1>2, <1>3, <1>4, <1>6, <1>8, Zenon DEF Check
<1>10. CASE worst = -1
  <2>1. r = [kind |-> "send", notional |-> n]  BY <1>9, <1>10
  <2>2. r.notional = n  BY <2>1
  <2>3. B = {}  BY <1>5, <1>10
  <2>4. SameSide(n, n)  BY DEF SameSide
  <2>5. Breaches(mag, gross, d, c) = {}  BY <1>3, <2>3
  <2>6. r.notional = n /\ n \in Int /\ mag <= mag /\ SameSide(n, n)  BY <2>2, <2>4
  <2> QED  BY <1>1, <1>2, <1>8, <2>5, <2>6
<1>11. CASE worst = 0
  <2>1. r = [kind |-> "send", notional |-> IF n < 0 THEN -m ELSE m]  BY <1>9, <1>11
  <2>2. r.notional = IF n < 0 THEN -m ELSE m  BY <2>1
  <2>3. PICK v \in Int : v = r.notional  BY <1>7, <2>2
  <2>4. Mag(v) = m  BY <1>7, <2>2, <2>3 DEF Mag
  <2>5. SameSide(v, n)  BY <1>7, <2>2, <2>3 DEF SameSide
  <2>6. ASSUME NEW k \in Kinds  PROVE ~ Broken(k, m, gross, d, c)
    <3> SUFFICES ASSUME Broken(k, m, gross, d, c)  PROVE FALSE  OBVIOUS
    <3>1. Broken(k, mag, gross, d, c)  BY <1>7, BrokenGrows
    <3>2. k \in {"MaxNotional", "MaxLeverage"}  BY <1>3, <1>5, <1>11, <3>1
    <3> QED  BY <1>7, <3>2
  <2>7. Breaches(m, gross, d, c) = {}  BY <2>6, BreachesAre
  <2> QED  BY <1>1, <1>2, <1>7, <1>8, <2>3, <2>4, <2>5, <2>7
<1>12. CASE worst = 1
  <2>1. r = [kind |-> "reject", notional |-> 0]  BY <1>9, <1>12
  <2> QED  BY <1>8, <2>1
<1>13. CASE worst = 2
  <2>1. r = [kind |-> "halt", notional |-> 0]  BY <1>9, <1>13
  <2> QED  BY <1>8, <2>1
<1> QED  BY <1>5, <1>10, <1>11, <1>12, <1>13

LEMMA GovernKeeps == ASSUME SizingKept, NEW c \in Capitals, Govern(c)  PROVE SizingKept'
<1>1. target \in Orders  BY DEF SizingKept, SizingTypes, Govern
<1>2. stage' = "done" /\ target' = target /\ book' = book /\ UNCHANGED shadowVars
      /\ capital' = c /\ verdict' = Check(target, c)
  BY DEF Govern
<1>3. SizingTypes'  BY <1>1, <1>2 DEF SizingKept, SizingTypes, shadowVars
<1>4. NetWithinCap'  BY <1>2 DEF NetWithinCap
<1>5. SentWithinLimits'
  <2> SUFFICES ASSUME (verdict.kind)' = "send"
               PROVE  /\ Breaches(Mag(verdict.notional), Mag(target.gross), target.den, capital)' = {}
                      /\ (Mag(verdict.notional) <= Mag(target.notional))'
                      /\ SameSide(verdict.notional, target.notional)'
    BY DEF SentWithinLimits
  <2>1. PICK t \in Orders : t = target  BY <1>1
  <2>2. PICK r : r = Check(t, c) /\ r.kind = "send"  BY <1>2, <2>1
  <2>3. Mag(r.notional) <= Mag(t.notional) /\ SameSide(r.notional, t.notional)
        /\ Breaches(Mag(r.notional), Mag(t.gross), t.den, c) = {}
    BY <2>2, CheckSends
  <2>4. verdict' = r /\ target' = t /\ capital' = c  BY <1>2, <2>1, <2>2
  <2> QED  BY <2>3, <2>4
<1>6. ShadowAgrees'  BY <1>2 DEF SizingKept, DeskSound, ShadowAgrees, shadowVars
<1> QED  BY <1>3, <1>4, <1>5, <1>6 DEF SizingKept, DeskSound

-----------------------------------------------------------------------------
(* The shadow gate.                                                        *)

LEMMA MarksKeep == ASSUME SizingKept, NEW s \in Marks, NEW r \in Marks, ObserveMarks(s, r)  PROVE SizingKept'
<1>1. /\ UNCHANGED <<stage, book, target, capital, verdict, shadowQty, simQty, reconciled, maxDivergence, sameMarks>>
      /\ shadowMark' = s /\ simMark' = r
  BY DEF ObserveMarks, deskVars
<1>2. SizingTypes'  BY <1>1 DEF SizingKept, SizingTypes
<1>3. NetWithinCap'
  <2>1. NetWithinCap  BY DEF SizingKept, DeskSound
  <2>2. NetPositions(book.dirs)' = NetPositions(book.dirs)  BY <1>1
  <2> QED  BY <1>1, <2>1, <2>2 DEF NetWithinCap
<1>4. SentWithinLimits'  BY <1>1 DEF SizingKept, DeskSound, SentWithinLimits
<1>5. ShadowAgrees'  BY <1>1 DEF SizingKept, DeskSound, ShadowAgrees
<1> QED  BY <1>2, <1>3, <1>4, <1>5 DEF SizingKept, DeskSound

LEMMA RevisionKeeps == ASSUME SizingKept, NEW t \in RevTargets, ObserveRevision(t)  PROVE SizingKept'
<1>1. UNCHANGED <<stage, book, target, capital, verdict, shadowMark, simMark>>
  BY DEF ObserveRevision, deskVars
<1>2. PICK a \in Int, b \in Int, s \in Nat \ {0}, r \in Nat \ {0} :
        a = shadowQty /\ b = simQty /\ s = shadowMark /\ r = simMark
  BY SizingAssumption DEF SizingAssumption, SizingKept, SizingTypes
<1>3. t \in Int /\ ShadowTolerance \in Nat  BY SizingAssumption DEF SizingAssumption
<1>4. PICK x \in Int, y \in Int : x = t \div s /\ y = t \div r  BY <1>2, <1>3
<1>5. shadowQty' = x /\ simQty' = y
  <2>1. shadowQty' = a + (x - a) /\ simQty' = b + (y - b)  BY <1>2, <1>4 DEF ObserveRevision, PlanQty
  <2> QED  BY <1>2, <1>4, <2>1
<1>6. PICK d \in Nat : d = Mag(x - y)
  <2>1. x - y \in Int  BY <1>4
  <2> QED  BY <2>1, MagIs
<1>7. PICK m \in Int : m = maxDivergence  BY DEF SizingKept, SizingTypes
<1>8. /\ reconciled' = (reconciled /\ d <= ShadowTolerance)
      /\ maxDivergence' = IF d <= ShadowTolerance THEN m ELSE Max({m, d})
      /\ sameMarks' = (sameMarks /\ s = r)
  BY <1>2, <1>5, <1>6, <1>7 DEF ObserveRevision
<1>9. Max({m, d}) = (IF m >= d THEN m ELSE d)  BY PairIs
<1>10. reconciled \in BOOLEAN /\ sameMarks \in BOOLEAN /\ (reconciled <=> m <= ShadowTolerance)
       /\ (sameMarks => reconciled)
  BY <1>7 DEF SizingKept, SizingTypes, DeskSound, ShadowAgrees
<1>11. maxDivergence' \in Int /\ (reconciled' <=> maxDivergence' <= ShadowTolerance)
  <2>1. PICK top \in Nat : top = ShadowTolerance  BY <1>3
  <2>2. CASE d <= top
    <3>1. maxDivergence' = m /\ (reconciled' <=> reconciled)  BY <1>8, <2>1, <2>2
    <3> QED  BY <1>10, <2>1, <3>1
  <2>3. CASE ~ (d <= top)
    <3>1. maxDivergence' = Max({m, d}) /\ ~ reconciled'  BY <1>8, <2>1, <2>3
    <3>2. maxDivergence' \in Int /\ maxDivergence' >= d  BY <1>9, <3>1
    <3> QED  BY <2>1, <2>3, <3>1, <3>2
  <2> QED  BY <2>2, <2>3
<1>12. sameMarks' => reconciled' /\ shadowQty' = simQty'
  <2> SUFFICES ASSUME sameMarks, s = r  PROVE reconciled' /\ shadowQty' = simQty'  BY <1>8
  <2>1. x = y  BY <1>4
  <2>2. d = 0  BY <1>4, <1>6, <2>1 DEF Mag
  <2>3. d <= ShadowTolerance /\ reconciled  BY <1>3, <1>10, <2>2
  <2> QED  BY <1>5, <1>8, <2>1, <2>3
<1>13. ShadowAgrees'  BY <1>11, <1>12 DEF ShadowAgrees
<1>14. SizingTypes'
  <2>1. reconciled' \in BOOLEAN /\ sameMarks' \in BOOLEAN  BY <1>8
  <2> QED  BY <1>1, <1>4, <1>5, <1>11, <2>1 DEF SizingKept, SizingTypes
<1>15. NetWithinCap'
  <2>1. NetWithinCap  BY DEF SizingKept, DeskSound
  <2>2. NetPositions(book.dirs)' = NetPositions(book.dirs)  BY <1>1
  <2> QED  BY <1>1, <2>1, <2>2 DEF NetWithinCap
<1>16. SentWithinLimits'  BY <1>1 DEF SizingKept, DeskSound, SentWithinLimits
<1> QED  BY <1>13, <1>14, <1>15, <1>16 DEF SizingKept, DeskSound

LEMMA SizingStarts == ASSUME SizingInit  PROVE SizingKept
<1>1. Marks \in SUBSET Nat /\ Marks # {} /\ ShadowTolerance \in Nat  BY SizingAssumption DEF SizingAssumption
<1>2. Min(Marks) \in Marks  BY <1>1, MinIs
<1>3. SizingTypes  BY <1>2 DEF SizingInit, SizingTypes
<1>4. ShadowAgrees  BY <1>1 DEF SizingInit, ShadowAgrees
<1> QED  BY <1>3, <1>4 DEF SizingInit, SizingKept, DeskSound, NetWithinCap, SentWithinLimits

LEMMA DeskStep == ASSUME SizingKept, [DeskNext \/ ShadowNext]_svars  PROVE SizingKept'
<1>1. CASE Net  BY <1>1, NetKeeps
<1>2. ASSUME NEW e \in Accounts, Plan(e)  PROVE SizingKept'  BY <1>2, PlanKeeps
<1>3. ASSUME NEW c \in Capitals, Govern(c)  PROVE SizingKept'  BY <1>3, GovernKeeps
<1>4. ASSUME NEW s \in Marks, NEW r \in Marks, ObserveMarks(s, r)  PROVE SizingKept'  BY <1>4, MarksKeep
<1>5. ASSUME NEW t \in RevTargets, ObserveRevision(t)  PROVE SizingKept'  BY <1>5, RevisionKeeps
<1>6. CASE UNCHANGED svars
  <2>1. UNCHANGED <<stage, book, target, capital, verdict, shadowQty, simQty, shadowMark, simMark,
                    reconciled, maxDivergence, revisions, sameMarks>>
    BY <1>6 DEF svars, deskVars, shadowVars
  <2>2. SizingTypes'  BY <2>1 DEF SizingKept, SizingTypes
  <2>3. NetPositions(book.dirs)' = NetPositions(book.dirs)  BY <2>1
  <2>4. NetWithinCap'  BY <2>1, <2>3 DEF SizingKept, DeskSound, NetWithinCap
  <2>5. SentWithinLimits' /\ ShadowAgrees'  BY <2>1 DEF SizingKept, DeskSound, SentWithinLimits, ShadowAgrees
  <2> QED  BY <2>2, <2>4, <2>5 DEF SizingKept, DeskSound
<1> QED  BY <1>1, <1>2, <1>3, <1>4, <1>5, <1>6 DEF DeskNext, ShadowNext

\* No order the desk sends exceeds the leverage cap, breaks a limit under the
\* capital it was checked with, grows or turns round; and the shadow gate reports
\* a divergence only between sides that saw different marks (live_netter.rs,
\* sizer.rs, pretrade.rs, shadow.rs).
THEOREM DeskHolds == SizingSpec => []DeskSound
<1>1. SizingInit => SizingKept  BY SizingStarts
<1>2. SizingKept /\ [DeskNext \/ ShadowNext]_svars => SizingKept'  BY DeskStep
<1>3. SizingKept => DeskSound  BY DEF SizingKept
<1> QED  BY <1>1, <1>2, <1>3, PTL DEF SizingSpec
===============================================================================
