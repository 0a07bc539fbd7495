SPECIFICATION Spec
CONSTANTS
  Items = {i1}
  NoItem = NoItem
  MaxJobs = 1
  Workers = {w1}
  Creators = {c1, c2}
  MaxBackups = 1
  MaxRestores = 0
  MaxFaults = 0
PROPERTIES
  BackupsStay
CHECK_DEADLOCK FALSE
