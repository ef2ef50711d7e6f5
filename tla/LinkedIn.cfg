SPECIFICATION FairSpec
CONSTANTS
  p1 = p1
  p2 = p2
  w1 = w1
  Posts <- OnePost
  Writers <- OneWriter
  None = None
  MaxCopies = 2
  Slots = 1
  MaxTries = 2
  MaxLive = 2
  Modes <- FaultModes
INVARIANTS
  PostedAtMostOnce
  
  LiveIsKnown

  
\* The last slot may be past and the owner need not ask again.
CHECK_DEADLOCK FALSE
