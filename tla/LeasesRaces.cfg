SPECIFICATION FairSpec
CONSTANTS
  Models = {"busy", "spare"}
  Alternatives <- FirstAlternatives
  Slots = {s1, s2}
  Threshold = 1
  MaxCalls = 3
INVARIANTS
  LocalRunsBounded
PROPERTIES
  KeepsPermits
  ContentionPasses
