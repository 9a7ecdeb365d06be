SPECIFICATION FairSpec
CONSTANTS
  Path = {1}
  Micro = 1
  Permits = 1
  Start = 3
  MaxClock = 3
  Events <- MCAllEvents
PROPERTIES NewestOnServer RoundEnds
CHECK_DEADLOCK FALSE
