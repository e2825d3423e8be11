SPECIFICATION FairSpec
CONSTANTS
  cheap = cheap
  mid = mid
  dear = dear
  Models = {cheap, dear}
  Price <- PriceList
  Domains = {"global"}
  GlobalDomain = "global"
  Handlers = {h1, h2}
  MinSamples = 2
  QualityFailLimit = 2
  ExecFailLimit = 1
PROPERTIES
  TrialRunsToItsEnd
  FailedTrialEnds
