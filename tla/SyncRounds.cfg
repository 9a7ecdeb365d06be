SPECIFICATION FairSpec
CONSTANTS
  Path = {1}
  Micro = 2
  Permits = 1
  Start = 3
  MaxClock = 5
  Events = {"kill", "remove", "offline"}
INVARIANTS  CleanRoundAgrees
 
CHECK_DEADLOCK FALSE
