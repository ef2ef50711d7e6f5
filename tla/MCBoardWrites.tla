---------------------------- MODULE MCBoardWrites ----------------------------
EXTENDS BoardWrites, TLC

CONSTANTS h1, a1, p1, p2

OneHold == {h1}
OneApproval == {a1}
TwoProcs == {p1, p2}

ProcSymmetry == Permutations(Procs)
=============================================================================
