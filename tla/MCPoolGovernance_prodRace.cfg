SPECIFICATION RaceSpec
CHECK_DEADLOCK FALSE
CONSTANTS
  p1 = p1
  p2 = p2
  ann = ann
  ANN = ANN
  bob = bob
  cid = cid
  h1 = h1
  h2 = h2
  h3 = h3
  h4 = h4
  h5 = h5
  Pools <- OnePool
  Mode <- Production
  Formulas <- FormulasOf
  Deflation <- Measured
  GateEvidence <- Evidenced
  Seeded <- NoPool
  Emails <- People
  Lower <- Lowered
  Finished <- AnnsRun
  Launches <- AnnLaunches
  Requests <- FiveIds
  Ask <- RaceAsk
  EphemeralKey = TRUE
  ForeignLines <- CidsLine
  MaxCrashes = 1
  Faults = TRUE
  Disconnects = FALSE
INVARIANT DualSignoff
INVARIANT GovernanceSound
PROPERTY OnlyLegalEdges
