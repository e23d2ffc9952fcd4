SPECIFICATION Spec
CHECK_DEADLOCK FALSE
CONSTANTS
  r1 = r1
  r2 = r2
  Runs <- OneRun
  RunType <- OneFlow
  MaxConcurrency = 1
  MaxEvolve = 1
  MaxFlow = 1
  MaxHalts = 2
  MaxCrashes = 2
  MaxSignals = 1
  Disconnects = TRUE
  ChildrenSurvive = TRUE
  PipesClose = TRUE
INVARIANTS TypeOK SucceededHasResult SoleWriter
PROPERTIES SucceededIsFinal
