SPECIFICATION FairSpec
CONSTANTS
  Classes = {"review", "rewrite"}
  Unroutable = {"rewrite"}
  Models = {m1}
  Handlers = {h1, h2}
  Threshold = 2
  MaxReports <- Reports
  MaxFaults = 2
INVARIANTS
  KnownScoresCoverTheBump
  LagBelowThreshold
PROPERTIES
  BumpReachesClient
