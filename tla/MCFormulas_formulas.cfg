SPECIFICATION FSpec
CONSTANTS
  DayLen = 2
  MonthLen = 4
  MonthsPerYear = 2
  BarLen = 1
  Asks <- TestAsks
  Lookback <- Windows
  Fast = 2
  Slow = 3
  Signal = 2
  HashOrder <- HashesInOrder
  Pools <- TestPools
  Feed <- TestFeed
  MaxFeed = 4
  SeedWeights <- Weights3
  Capacities <- CapacityGrid
  ReturnSeries <- Returns
  PoolSize = 2
  Scorings <- TestScores
  PopSize = 4
  MaxTrials = 4
  LogPrices <- Logs
  RegimeWindow = 2
  TrendThreshold <- Half
  HalfSpread <- Spread
  ImpactCoeff <- Half
  Tested <- Backtested
  BarSeries <- TradedBars
  PeriodLattice <- Lattice
  ConstGrid <- Grid
  DefaultRankPeriod = 2
  MaxDepth = 4
  MaxNodes = 6
  MaxTotalLookback = 9
  MaxParseDepth = 5
  Trees <- TestTrees
  Formulas <- Streamed
  Samples <- TestSamples
  MaxStream = 4
  RandomTerminals <- Terminals
  RandomUnOps = {"neg"}
  RandomBinOps = {"sub"}
  RandomWindows = {"mean"}
  GrowDepths = {2}
  Stream <- TestStream
  States = 4
  SubpopSize = 1
  MaxPoolSize = 2
  CscvBlocks = 4
  Generations = 1
  FastMax = 3
  MediumMax = 5
  MaxOffspring = 2
CHECK_DEADLOCK FALSE
INVARIANT FormulasHold
INVARIANT CatalogueHolds
INVARIANT EvolveHolds
INVARIANT ResultHolds
PROPERTY BestKept
