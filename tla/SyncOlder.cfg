SPECIFICATION FairSpec
CONSTANTS
  Path = {1}
  Micro = 1
  Permits = 1
  Start = 3
  MaxClock = 3
  Events = {"fail"}
PROPERTIES OlderNeverWins
CHECK_DEADLOCK FALSE
