SPECIFICATION FairSpec
CONSTANTS
  Path = {1, 2, 3}
  Micro = 1
  Permits = 2
  Start = 2
  MaxClock = 2
  Events = {"fail"}
INVARIANTS TypeOK
PROPERTIES EveryPathTried
CHECK_DEADLOCK FALSE
