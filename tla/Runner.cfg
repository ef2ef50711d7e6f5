SPECIFICATION Spec
CONSTANTS
  MaxTasks = 3
  MaxRounds = 2
  MaxReviews = 3
  MaxFixes = 1
  MaxJobs = 2
  Modes <- RunnerModes
INVARIANTS
  MergedWasAccepted
  
PROPERTIES
  GreenIsReviewed
\* The pull request may be merged or closed and nobody need ask for another.
CHECK_DEADLOCK FALSE
