SPECIFICATION Spec
CONSTANTS
  p1 = p1
  p2 = p2
  a1 = a1
  a2 = a2
  s1 = s1
  s2 = s2
  h1 = h1
  None = None
  Prospects <- OneProspect
  Addresses <- TwoAddresses
  Home <- Homes
  Senders <- TwoSenders
  Handlers <- OneHandler
  Steps = 3
  MaxTouches = 3
  DailyCap = 3
  MaxCrashes = 1
  Modes <- NoFaults
INVARIANTS
  TouchIsAMail
CHECK_DEADLOCK FALSE
