----------------------------- MODULE MCStaffTask -----------------------------
EXTENDS StaffTaskClaims, TLC

CONSTANTS t1, p1, p2

OneTask == {t1}
OneProc == {p1}
TwoProcs == {p1, p2}

ProcSymmetry == Permutations(Procs)

EngineEnvs ==
  {{"loss", "crash", "error", "tick", "budget", "approval", "review", "retry", "drain"},
   {"duplicate", "loss", "crash", "error", "tick", "drain"},
   {"duplicate", "loss", "crash", "tick", "approval", "cancel"}}

ServedEnvs ==
  {{"error", "budget", "approval", "review", "cancel"},
   {"error", "budget", "review", "retry"},
   {"error", "approval", "retry"},
   {"ownerReview", "review"},
   {"invokeError", "error", "review"},
   {"loss", "crash", "error", "tick", "drain", "review"}}

OnlyBudget == {{"drain", "budget"}}
=============================================================================
