SPECIFICATION MCSpec
CHECK_DEADLOCK FALSE
CONSTANTS
  Screens <- SomeScreens
  FdrQ = 500
  MinIcSq = 20
  RatioSq = 25
  PLevel <- Falling
  Cuts <- SomeCuts
  Tests <- SomeTests
  Matrices <- SomeMatrices
  Family <- FourFamilies
  Lookback <- FourLookbacks
  States = 2
  Allowed = {0, 2}
  Seeds <- SomeSeeds
  HoldDraws = {1, 49}
  SizeDraws = {1, 10000}
  JitterSize <- SomeNudges
  Niches <- SomeNiches
  NoNiche = NoNiche
  NaN = NaN
  Candidates <- SomeCandidates
  Ruin <- LeastFit
  SubpopSize = 2
  RecentWindow = 2
  MaxPool = 2
  RewardUnit = 2
  MaxSteps = 4
  Wipe = Wipe
  MinusInfinity <- Minus
  Infinity = 99
  Samples <- SomeWindowed
  Distribution <- SomeGrowths
  Quantile = 50
  MinWindows = 2
  Ceiling = 1
  Assessments <- SomeAssessments
  MaxRecords = 2
  Strategy <- OneGenome
  Graded = TRUE
  Capital = 6000
  StepSize = 2
  TickSize = 2
  MinNotional = 10
  Taker = 2
  Maker = 1
  HalfSpread = 1
  AlphaLoss = 1
  ImpactCoeff = 1
  CostMultiplier = 2
  AdvWindow = 2
  ShockFreq = 30000
  GapReturn = 10
  FundingPerPeriod = 1
  FundingPeriods = 8
  AdlHaircut = 5
  MinTrades = 1
  Bars <- MCBars
  LedgerEvents <- MCEvents
  MaxBars = 6
  MaxEvents = 4
  Jobs = {1, 2, 3}
  Requests <- AllRequests
  Width = 4
  FundingMin = 90
  CscvBlocks = 8
  MinOccupiedNiches = 5
  MinHoldoutRegimes = 2
  MinHoldoutSamples = 30
  DsrThreshold = 95
  SpaAlpha = 5
  MaxPbo = 50
  OosTolerance = 50
  UsizeMax = 200
  MaxKills = 1
  CommandLines <- MCCommands
  Roster <- MCRoster
  AllKnown <- MCKnown
  Dated = TRUE
  BarTimes = {1, 2}
  MaxProgress = 1
  HoldoutFloor = 250
  EmbargoFloor = 1
  PurgeFloor = 1
  MinWfoWindows = 4
  MinFolds = 2
  MaxDepth = 4
  MaxNodes = 16
  MaxLookback = 200
  MaxK = 16
  Lattice = {5, 10, 20, 50, 100}
  TrainDefaults <- MCTrainDefaults
  EvolveDefaults <- MCEvolveDefaults
  BacktestDefaults <- MCBacktestDefaults
  IngestDefaults <- MCIngestDefaults
  BasisSatisfied = TRUE
  Split <- MCSplit
  StatesModulus = 65536
  ServerConfig = "server.toml"
  AllRuns <- MCAllRuns
  Browsers = {b1}
  Emails = {"ann", "bob", "eve"}
  Claims <- MCClaims
  Refused = Refused
  ClientId = "us"
  Issuers = {"google"}
  Ttl = 2
  Deployments <- MCDeployments
  MaxTime = 3
  MaxBoots = 2
  MaxLogins = 2
  RunTypes = {"train", "flow"}
  MaxRuns = 3
  MaxEntries = 5
  MaxLimit = 2
  Limits = {0, 3}
  AnyValue = "any"
INVARIANT ResearchSound
INVARIANT BacktestSound
INVARIANT JobSound
INVARIANT CommandSound
INVARIANT AccessEarned
PROPERTY KeepsTheBest
