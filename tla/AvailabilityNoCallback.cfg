SPECIFICATION FairSpec
CONSTANTS
  Models = {m1}
  Classes = {c1}
  Handlers = {h1}
  ExecFailThreshold = 2
  QualityFailThreshold = 2
  FailResetStreak = 2
  ProbeGood = 2
  ProbeStreak = 3
  ProbeConfigured = FALSE
  MaxCrashes = 0
PROPERTIES
  UnableRecovers
