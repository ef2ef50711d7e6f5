---------------------------- MODULE MCBulkImport ----------------------------
EXTENDS BulkImport

CONSTANTS w1, w2

FourRows   == 1..4
TwoWorkers == {w1, w2}

Plain == [bad |-> {}, sched |-> {}, reject |-> {}, late |-> {}, size |-> 4, chunks |-> 1,
          other |-> FALSE, faults |-> {}]

(* One bad row in every place of a batch and next to one that only its       *)
(* schedules or the importer's rules keep out; the importer down, with and   *)
(* without another source's import to say that it is up; and a long ingest.  *)
ImportModes ==
  {[Plain EXCEPT !.bad = {r}, !.late = {4}, !.faults = {"outage"}] : r \in FourRows}
    \cup {[Plain EXCEPT !.bad = {2}, !.reject = {3}, !.size = 2, !.other = o, !.faults = {"outage", "error"}] :
            o \in BOOLEAN}
    \cup {[Plain EXCEPT !.bad = {1}, !.sched = {2}, !.chunks = 3, !.faults = {"crash", "lost", "refused"}],
          [Plain EXCEPT !.bad = {2}, !.size = 1, !.late = {1}, !.faults = {"crash", "refused"}],
          [Plain EXCEPT !.bad = {1, 3}, !.late = {2}, !.faults = {"duplicate"}],
          [Plain EXCEPT !.bad = {4}, !.sched = {4}, !.late = {1}, !.size = 2, !.chunks = 2, !.faults = {"delay"}]}

=============================================================================
