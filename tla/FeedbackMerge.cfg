SPECIFICATION Spec
CONSTANTS
  Calls = {c1}
  Analyzers = 1
INVARIANTS
  FeedbackPreserved
