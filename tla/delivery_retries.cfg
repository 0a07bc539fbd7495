SPECIFICATION Spec
CONSTANTS
  Items = {i1, i2}
  NoItem = NoItem
  MaxJobs = 2
  Workers = {w1, w2}
  Publishers = {p1}
  MaxAttempts = 3
  ProcessorMayFail = TRUE
  MaxFaults = 2
SYMMETRY DeliverySymmetry
INVARIANTS
  DeliveryInv
  SuccessInvariant
  AcceptedHasCarrier
  RetryBudget
PROPERTIES
  OnlyProcessorSpendsAttempts
