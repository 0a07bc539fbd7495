SPECIFICATION FairSpec
CONSTANTS
  Requests = {r1, r2}
INVARIANTS
  TypeOK
  ResourcesOutliveServices
  OrderlyExit
  ReadyMeansServing
PROPERTIES
  StopsTogether
