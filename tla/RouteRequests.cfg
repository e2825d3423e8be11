SPECIFICATION FairSpec
CONSTANTS
  a = a
  b = b
  c = c
  Models <- ModelSet
  Provider <- OfProvider
  SeedRankings <- SeedScores
  Rankings <- Scores
  Strength <- ByStrength
  Slow <- Outlasting
  Requests = {r1, r2}
  SeedSize = 2
  PoolMax = 2
  Few = 2
  Width = 3
  ExploreMost = 2
  Targets = 1
  Limit = 1
  EscCap = 1
  Classes = {k1, k2}
  Names = {n}
  Analyzers = 2
  Attempts = 2
  Agents = {g1, g2}
  Ids = {i1, i2}
  Shown = 2
INVARIANTS
  TypeOK
  RefilledWhenVerified
  NeverOvercounts
  ThinChainEndsAtCeiling
  MatchCoversAllClasses
  RecordsTellAttempts
  NoRowLeftRunning
PROPERTIES
  EscalationEnds
  ReviewedStaysReviewed
  EveryRequestIsClassified
  WatcherCatchesUp
