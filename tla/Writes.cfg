SPECIFICATION FairSpec
CONSTANTS
  h1 = h1
  a1 = a1
  p1 = p1
  p2 = p2
  Holds <- OneHold
  Approvals <- OneApproval
  Procs <- TwoProcs
  MaxPending = 1
  None = None
  Env = {"crash", "switch"}
INVARIANTS
  TypeOK
  RunsOnce
  ResumesOnce
  
PROPERTIES
  Settles
