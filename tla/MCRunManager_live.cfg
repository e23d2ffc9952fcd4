SPECIFICATION FairSpec
CHECK_DEADLOCK FALSE
CONSTANTS
  r1 = r1
  r2 = r2
  Runs <- TwoRuns
  RunType <- FlowAndBacktest
  MaxConcurrency = 1
  MaxEvolve = 1
  MaxFlow = 1
  MaxHalts = 0
  MaxCrashes = 0
  MaxSignals = 0
  Disconnects = FALSE
  ChildrenSurvive = FALSE
  PipesClose = TRUE
PROPERTIES RunsTerminate
