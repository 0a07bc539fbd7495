SPECIFICATION FairSpec
CONSTANTS
  Items = {i1, i2}
  NoItem = NoItem
  MaxJobs = 2
  Requests = {r1, r2}
  WorkerSessions = {w1, w2}
  NoSession = NoSession
  Keys = {"key"}
  LockKey <- CollidingKeys
  MaxAttempts = 2
INVARIANTS
  TransactionInv
  NoDeadlock
  CheckedStateHolds
  OutcomesExclude
PROPERTIES
  ContractSafety
  TransactionsEnd
