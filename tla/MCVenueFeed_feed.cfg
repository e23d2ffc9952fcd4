SPECIFICATION FairSpec
CONSTANTS
  Deltas <- Up
  Foreign <- UpDown
  Tolerance = 0
  AlarmOnly = FALSE
  Consecutive = 2
  EndsAgain = TRUE
  MaxTrades = 3
  MaxCuts = 1
  MaxFails = 1
  MaxReports = 1
INVARIANT FeedSound
PROPERTY HaltedForGood
PROPERTY FeedRecovers
PROPERTY KillCloses
