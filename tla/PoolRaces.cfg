SPECIFICATION FairSpec
CONSTANTS
  Models = {m1, m2}
  Old = {m1}
  Failing = {m1}
  Leaving = {m2}
  Domains = {"global", "coding"}
  GlobalDomain = "global"
  Handlers = {h1, h2}
  Operators = {h1}
  PoolMaxSize = 1
  RevokeAfter = 2
INVARIANTS
  UnableMembersAreGoing
PROPERTIES
  FailedDefaultGoes
