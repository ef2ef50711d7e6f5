--------------------------- MODULE StaffTaskClaims ---------------------------
(***************************************************************************)
(* What docs/architecture/executive-board.md says of the staff engine and  *)
(* the engine does not do.                                                 *)
(***************************************************************************)
EXTENDS StaffTask

(* "Daily-budget exhaustion re-queues the task": the drain takes it up again some day. *)
QueuedIsServed == \A t \in Tasks : row[t].status = "queued" ~> row[t].status # "queued"
=============================================================================
