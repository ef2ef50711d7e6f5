SPECIFICATION FairSpec
CONSTANTS
  j1 = j1
  j2 = j2
  w1 = w1
  w2 = w2
  q1 = q1
  q2 = q2
  Jobs <- TwoJobs
  Workers <- TwoWorkers
  Polls <- TwoPolls
  None = None
  Estimate = 2
  Costs <- TwoCosts
  MaxCalls = 1
  Attempts = 5
  MaxCrashes = 1
  Modes <- ResumeModes
INVARIANTS
  TypeOK
  
  CapHeld
  SettledOnce
PROPERTIES
  EveryJobEnds
CHECK_DEADLOCK FALSE
