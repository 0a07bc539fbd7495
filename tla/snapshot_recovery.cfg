SPECIFICATION FairSpec
CONSTANTS
  Items = {i1, i2}
  NoItem = NoItem
  MaxJobs = 2
  Workers = {w1}
  Creators = {c1}
  MaxBackups = 1
  MaxRestores = 1
  MaxFaults = 1
INVARIANTS
  TypeOK
  RecoveryPointsAreConsistent
  StrandedJobsAreReported
PROPERTIES
  ServesOwnJob
  UnreportedJobsEnd
CHECK_DEADLOCK FALSE
