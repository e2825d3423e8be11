SPECIFICATION FairSpec
CONSTANTS
  Models = {m1}
  Classes = {c1, c2}
  Handlers = {h1}
  ExecFailThreshold = 2
  QualityFailThreshold = 2
  FailResetStreak = 2
  ProbeGood = 2
  ProbeStreak = 3
  ProbeConfigured = TRUE
  MaxCrashes = 1
INVARIANTS
  ProbeCountersInStep
  SelectableBelowThreshold
PROPERTIES
  RecoveryIsEarned
  UnableLeftOnlyByProbe
  ProbeNeverTakesDown
  UnableRecovers
  GoodFeedbackRestores
