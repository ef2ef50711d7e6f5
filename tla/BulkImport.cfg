SPECIFICATION ImportFairSpec
CONSTANTS
  w1 = w1
  w2 = w2
  Rows <- FourRows
  Workers <- TwoWorkers
  Budget = 3
  MaxRejects = 3
  MaxTroubles = 2
  Modes <- ImportModes
INVARIANTS
  ImportTypeOK
  ClosedIsBad

  
CHECK_DEADLOCK FALSE
