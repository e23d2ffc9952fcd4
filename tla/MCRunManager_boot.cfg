SPECIFICATION Spec
CHECK_DEADLOCK FALSE
CONSTANTS
  r1 = r1
  r2 = r2
  Runs <- TwoRuns
  RunType <- TwoFlows
  MaxConcurrency = 2
  MaxEvolve = 1
  MaxFlow = 1
  MaxHalts = 0
  MaxCrashes = 1
  MaxSignals = 1
  Disconnects = FALSE
  ChildrenSurvive = FALSE
  PipesClose = FALSE
SYMMETRY Alike
INVARIANT BooksExact
PROPERTY NeverSearchedTwice
PROPERTY TerminalIsFinal
