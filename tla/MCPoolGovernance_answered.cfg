SPECIFICATION FairSpec
CHECK_DEADLOCK FALSE
CONSTANTS
  p1 = p1
  p2 = p2
  ann = ann
  ANN = ANN
  bob = bob
  cid = cid
  h1 = h1
  h2 = h2
  h3 = h3
  h4 = h4
  h5 = h5
  Pools <- TwoPools
  Mode <- SandboxAndMisplaced
  Formulas <- FormulasOf
  Deflation <- Measured
  GateEvidence <- Evidenced
  Seeded <- TwoPools
  Emails <- People
  Lower <- Lowered
  Finished <- NoRuns
  Launches <- NoLines
  Requests <- FourIds
  Ask <- AnswerAsk
  EphemeralKey = FALSE
  ForeignLines <- NoLines
  MaxCrashes = 0
  Faults = FALSE
  Disconnects = TRUE
PROPERTIES AllAnswered
