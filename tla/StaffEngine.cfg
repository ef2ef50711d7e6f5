SPECIFICATION Spec
CONSTANTS
  t1 = t1
  p1 = p1
  p2 = p2
  Tasks <- OneTask
  Procs <- TwoProcs
  MaxSteps = 2
  MaxIdle = 2
  MaxRevisions = 1
  Cap = 1
  MaxAttempts = 2
  MaxAsks = 1
  Envs <- EngineEnvs
SYMMETRY ProcSymmetry
INVARIANTS
  TypeOK
  StepExclusive
  NextStepClaimable
PROPERTIES
  FollowsLifecycle
\* Every task may have come to rest and the founder need not create another.
CHECK_DEADLOCK FALSE
