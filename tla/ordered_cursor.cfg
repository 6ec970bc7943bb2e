SPECIFICATION FairSpec
CONSTANTS
  Buses = {b1, b2}
  Undecodable <- Second
  Word = 2
  MaxEvents = 3
  MaxFaults = 3
CHECK_DEADLOCK FALSE
INVARIANT TypeOK
  
