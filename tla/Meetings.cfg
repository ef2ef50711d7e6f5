SPECIFICATION Spec
CONSTANTS
  m1 = m1
  w1 = w1
  w2 = w2
  c1 = c1
  c2 = c2
  Meetings <- OneMeeting
  Workers <- TwoWorkers
  Clients <- TwoClients
  None = None
  Phases <- ThreePhases
  MaxTurns = 1
  Env = {"duplicate", "phaseError", "cancel", "crash", "invokeError", "schedule"}
INVARIANTS
  TypeOK
  PhaseExclusive
  PersistOnce
  
PROPERTIES
  MeetingEnds
\* The meeting may be over and the founder need not call again.
CHECK_DEADLOCK FALSE
