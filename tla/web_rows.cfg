SPECIFICATION Spec
CONSTANTS
  Pages = {p1}
  Items = {i1, i2}
  NoItem = NoItem
  MaxJobs = 2
  MaxAttempts = 1
  PollAttempts = 1
  NoCall = NoCall
  Sent = Sent
PROPERTIES
  RowsStay
