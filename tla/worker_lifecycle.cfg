SPECIFICATION FairSpec
CONSTANTS
  MaxMessages = 3
  MaxFaults = 3
INVARIANTS
  TypeOK
  CleanExit
  NoNewResponsibility
PROPERTIES
  ShutdownEnds
  SessionsResume
