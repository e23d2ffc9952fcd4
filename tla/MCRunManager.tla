---------------------------- MODULE MCRunManager ----------------------------
(* Small instances of RunManager for TLC: which type each run has.         *)
EXTENDS RunManager, TLC

CONSTANTS r1, r2

OneRun  == {r1}
TwoRuns == {r1, r2}

OneFlow         == r1 :> "flow"
TwoFlows        == (r1 :> "flow") @@ (r2 :> "flow")
FlowAndBacktest == (r1 :> "flow") @@ (r2 :> "backtest")

\* The two flows are interchangeable.
Alike == Permutations(TwoRuns)
=============================================================================
