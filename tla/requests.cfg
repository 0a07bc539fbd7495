SPECIFICATION Spec
CONSTANTS
  Clients = {c1, c2}
  Tokens <- MCTokens
  NoToken = NoToken
  Items = {i1}
  NoItem = NoItem
  MaxJobs = 2
  MaxAttempts = 1
  NoRequest = NoRequest
  NoAnswer = NoAnswer
  NoEffect = NoEffect
INVARIANTS
  TypeOK
  OnlyPermittedRequestsRun
  AnswersAreTrue
PROPERTIES
  NamedJobsAreFound
SYMMETRY AnyClient
