----------------------------- MODULE MCCodeRunner -----------------------------
EXTENDS CodeRunner

RunnerModes ==
  {[env |-> {"crash", "red", "policy", "unpatched", "owner", "slow"}, jobs |-> 1],
   [env |-> {"crash", "error", "close", "owner", "red"}, jobs |-> 1],
   [env |-> {"giveUp"}, jobs |-> 1],
   [env |-> {"red"}, jobs |-> 2]}
=============================================================================
