SPECIFICATION FairSpec
CONSTANTS
  Pages = {p1}
  Items = {i1, i2}
  NoItem = NoItem
  MaxJobs = 3
  MaxAttempts = 1
  PollAttempts = 2
  NoCall = NoCall
  Sent = Sent
INVARIANTS
  TypeOK
  ShowsCommittedState
PROPERTIES
  EndShowsOutcome
  ProcessingEnds
