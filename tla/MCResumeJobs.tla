---------------------------- MODULE MCResumeJobs ----------------------------
EXTENDS ResumeJobs

CONSTANTS j1, j2, w1, w2, q1, q2

OneJob  == {j1}
TwoJobs == {j1, j2}
OneWorker == {w1}
TwoWorkers == {w1, w2}
OnePoll == {q1}
TwoPolls == {q1, q2}

TwoCosts == {0, 3}

(* One job at a time fits under a cap of 3, two under one of 4.              *)
Env(faults, cap, bound) == [faults |-> faults, cap |-> cap, bound |-> bound]

ResumeModes ==
  {Env({"lost"}, 3, 2), Env({}, 4, 2), Env({"error"}, 4, 1),
   Env({"crash", "polls"}, 3, 1), Env({"slow"}, 3, 1), Env({"duplicate"}, 3, 1)}
=============================================================================
