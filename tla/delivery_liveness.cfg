SPECIFICATION FairSpec
CONSTANTS
  Items = {i1}
  NoItem = NoItem
  MaxJobs = 2
  Workers = {w1, w2}
  Publishers = {p1, p2}
  MaxAttempts = 2
  ProcessorMayFail = TRUE
  MaxFaults = 1
INVARIANTS
  PublishedRowHasNoError
PROPERTIES
  ContractSpec
  Drained
