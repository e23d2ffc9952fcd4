SPECIFICATION FairSpec
CONSTANTS
  Targets <- TwoTargets
  Marks <- TwoMarks
  Trippers = {"skew", "manual"}
  JournalFails = TRUE
  MaxSends = 3
  MaxMarks = 2
  MaxDrops = 1
INVARIANT LinkSound
INVARIANT KillSound
PROPERTY DownIsFinal
PROPERTY PendingTaken
