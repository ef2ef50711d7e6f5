SPECIFICATION FairSpec
CONSTANTS
  c1 = c1
  c2 = c2
  p1 = p1
  p2 = p2
  NoChild = NoChild
  Children <- TwoChildren
  Procs <- TwoProcs
  MaxSteps = 2
  MaxHelp = 1
  MaxRetries = 1
  Envs <- HelpEnvs
INVARIANTS
  ParentStepExclusive
  AnswerIsHeard
  NobodyHelpsInVain
PROPERTIES
  WaitEnds
\* The parent is done and the founder need not do anything more.
CHECK_DEADLOCK FALSE
