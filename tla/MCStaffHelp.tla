----------------------------- MODULE MCStaffHelp -----------------------------
EXTENDS StaffHelp

CONSTANTS c1, c2, p1, p2

TwoChildren == {c1, c2}
TwoProcs == {p1, p2}

HelpEnvs ==
  {{"loss", "cancel", "retry"},
   {"loss", "cancel", "retry", "propose"},
   {"loss", "crash", "cancel", "again"},
   {"loss", "cancel", "retry", "again"},
   {"crash", "propose"},
   {"loss", "cancel", "early", "overlap"},
   {"loss", "cancel", "propose", "early"},
   {"loss", "cancel", "propose", "overlap"}}
=============================================================================
