SPECIFICATION Spec
CONSTANTS
  Requests = {r1, r2}
  NoRequest = NoRequest
  SigningKeys = {k1, k2}
  IssuerKeys = {k1, k2}
  Gap = 3
  FetchTimeout = 2
SYMMETRY RequestsAndKeys
INVARIANTS
  TypeOK
PROPERTIES
  RejectionIsFresh
  UnknownKeysShareRefresh
