SPECIFICATION Spec
CONSTANTS
  Parts = {"registry"}
  Callers = {c1, c2}
  Models = {"v1", "v2", "r1", "r2"}
  Providers = {"vendor", "relay", "keyless"}
  Configured = {"vendor", "relay"}
  Relays = {"relay"}
  Rows <- Listings
  Limit = 1
  Allowlists <- Lists
  KeepHistory = 2
  MaxAttempts = 3
  Threads = {t1, t2}
  Sellers = {"openai"}
  Categories = {"text", "code"}
  Fields = {"text", "math", "code"}
  FieldsOf <- Feeds
SYMMETRY Symmetry
INVARIANTS
  TypeOK
  SyncStateTellsTheLast
  BarredNeverServed
  LastGoodSurvives
