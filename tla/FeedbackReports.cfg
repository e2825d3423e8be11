SPECIFICATION FairSpec
CONSTANTS
  Executions = {e1, e2}
  Anonymous = {e2}
  Reviewed = {e1}
  Handlers = {h1, h2}
INVARIANTS
  EffectsInOrder
PROPERTIES
  KeepsLedger
  RecordedTakesEffect
