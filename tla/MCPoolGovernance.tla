-------------------------- MODULE MCPoolGovernance --------------------------
(* Small instances of PoolGovernance for TLC: who launches, who asks what. *)
EXTENDS PoolGovernance, TLC

CONSTANTS p1, p2, ann, ANN, bob, cid, h1, h2, h3, h4, h5

NoPool   == {}
OnePool  == {p1}
TwoPools == {p1, p2}
Production  == p1 :> "production"
Productions == (p1 :> "production") @@ (p2 :> "production")
SandboxAndMisplaced == (p1 :> "sandbox") @@ (p2 :> "misplaced")
\* Pool p1 just clears the bars of a seal; p2 has an unmeasured formula, too.
FormulasOf == (p1 :> {"f"}) @@ (p2 :> {"f", "g"})
Measured == [p \in {p1, p2} |->
  [gpAware |-> TRUE, distinct |-> 4, floor |-> 3, varianceTrials |-> 4, expectedMaxSharpe |-> 1, pbo |-> 50, dsr |-> 95]]
Evidenced == [p \in {p1, p2} |->
  "f" :> [icPass |-> TRUE, minNetGrowth |-> 1, turnover |-> 25, capacity |-> 250000, withinCaps |-> TRUE, beatsNull |-> TRUE]]

People  == {ann, ANN, bob, cid}
Lowered == (ann :> ann) @@ (ANN :> ann) @@ (bob :> bob) @@ (cid :> cid)

Req(t, a, p) == [transition |-> t, actor |-> a, pool |-> p]
Line(p, a) == [pool |-> p, by |-> a]

AnnLaunches == {Line(p1, ann)}
CidsLine    == {Line(p1, cid)}
NoLines     == {}
NoRuns      == <<>>
AnnsRun     == <<Line(p1, ann)>>

FourIds == {h1, h2, h3, h4}
FiveIds == FourIds \union {h5}

\* Approvals of the launcher (in another spelling) and of two others, a seal and
\* a revocation of one production pool.
RaceAsk == (h1 :> Req("approve", ANN, p1)) @@ (h2 :> Req("approve", bob, p1))
        @@ (h3 :> Req("approve", cid, p1)) @@ (h4 :> Req("seal", bob, p1))
        @@ (h5 :> Req("revoke", cid, p1))

\* Approve, reject and seal of a sandbox pool, and the seal of a misplaced one.
AnswerAsk == (h1 :> Req("approve", bob, p1)) @@ (h2 :> Req("reject", cid, p1))
          @@ (h3 :> Req("seal", bob, p1)) @@ (h4 :> Req("seal", cid, p2))

\* Two pools: approve and revoke each.
TwoAsk == (h1 :> Req("approve", bob, p1)) @@ (h2 :> Req("approve", bob, p2))
       @@ (h3 :> Req("revoke", bob, p1)) @@ (h4 :> Req("revoke", bob, p2))
\* prodRace starts in one of two ways.  The run is over: two approvals, a seal
\* and the revocation race through a crash and lines append did not write.  Or
\* the run is yet to be launched: the launcher and another approve while it
\* goes on, nobody revokes, the server stays up and nobody writes into its log.
RaceInit == InitWith(AnnsRun, FiveIds \ {h1}, 0) \/ InitWith(NoRuns, {h1, h2, h4}, MaxCrashes)
RunIsOver == pc[h1] = "done" /\ answer[h1] = "none"
RaceNext ==
  \/ \E h \in Requests : Handle(h)
  \/ \E run \in Launches : Launch(run)
  \/ RunsGoOn
  \/ RunIsOver /\ \E line \in ForeignLines : ForeignEntry(line)
  \/ Crash
RaceSpec == RaceInit /\ [][RaceNext]_vars
=============================================================================
