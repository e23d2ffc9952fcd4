SPECIFICATION MCSpec
CHECK_DEADLOCK FALSE
CONSTANTS
  None = None
  NoWindow = NoWindow
  Unset = Unset
  Strategies <- TwoStrategies
  Calibrated <- KnownThresholds
  EnsembleFast = 30
  FastWindow = 1
  Paths <- SomePaths
  Equities <- SomeEquities
  Margin = 10
  MaxTicks = 4
  MaxResets = 1
  Vintages <- SomeVintages
  FirstVintage = "a"
  BarStates = {0, 1}
  BootPaths <- OneBoot
  LiveEquities = {0, 12}
  FundingTimes = {2, 3}
  MaxBars = 3
  MaxStarts = 2
  MaxRolls = 1
  MaxLiveTicks = 1
  Ratio = 2
  OpenTimes = {0, 1, 2, 3, 4}
  Prices = {1, 2, 3}
  Stale = 2
  TickSecs = 1
  MaxPushed = 3
  MaxMarks = 3
  Legs <- TwoLegs
  Multipliers <- SomeMultipliers
  Caps <- SomeCaps
  Limits <- SomeLimits
  Margins <- SomeMargins
  Accounts <- SomeAccounts
  Advs <- SomeAdvs
  Mmr = 20
  RevTargets <- TheTargets
  Marks <- TheMarks
  ShadowTolerance = 1
  MaxRevisions = 4
  NoPage = NoPage
  Requests <- SomeRequests
  Follow <- SomeFollow
  Budget = 2
  Window = 3
  RetryAfters = {1, 4}
  MaxAttempts = 2
  MaxCalls = 2
  MaxClock = 40
  MaxIdle = 3
  MaxSetBack = 2
  Streams = {"kline", "book"}
  Cadence <- Cadences
  MaxTime = 3
  MaxDrops = 2
  NoJob = NoJob
  Origins = {"real", "synthetic", "fused"}
  Windows <- SomeWindows
  FundingStep = 2
  PageLimit = 2
  MaxRetries = 1
  LastSlot = 4
  MaxJobs = 2
  MaxFaults = 2
  Hole = Hole
  Stamps = {0, 1, 3, 4}
  GridEnd = 4
  MaxGap = 2
  MaxStamps = 4
  Versions = {"none", "v1", "v2"}
  MaxSyncs = 3
  MaxCrashes = 2
  Open = Open
  YearMonths <- SomeYearMonths
  ListingDates <- SomeDates
  Years = {1900, 2000, 2023, 2024}
  Symbols = {"", "A", "B"}
  Base = 4
  Names <- SomeNames
  KeyTimes <- SomeKeyTimes
  Resolutions = {0, 1}
  Lineages = {"old", "new"}
  Covers <- TwoCovers
  Catalogues <- TwoCatalogues
  NoEntry = NoEntry
  MaxPasses = 3
INVARIANT CutoverSound
INVARIANT BreakersSound
INVARIANT DeskSound
INVARIANT VenueSound
INVARIANT StoreSound
INVARIANT InputsSound
INVARIANT DerivedSound
PROPERTY GateLatched
PROPERTY CallAnswered
