------------------------------ MODULE MCMeeting ------------------------------
EXTENDS Meeting

CONSTANTS m1, w1, w2, c1, c2

OneMeeting == {m1}
OneWorker  == {w1}
TwoWorkers == {w1, w2}
OneClient  == {c1}
TwoClients == {c1, c2}

(* One phase of each kind: prepare, the phases that put statements, persist. *)
ThreePhases == <<"prepare", "agenda", "persist">>
=============================================================================
