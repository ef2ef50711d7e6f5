---------------------------- MODULE StaffLifecycle ----------------------------
(***************************************************************************)
(* What the staff engine promises about one task, whatever Lambda does:    *)
(* the task moves along the edges below, every recorded step is kept until *)
(* the founder retries, and a finished task stays finished until then.     *)
(***************************************************************************)
EXTENDS Naturals

CONSTANT Tasks

VARIABLES status, step, attempt

lifecycleVars == <<status, step, attempt>>

Open == {"queued", "running", "waiting_approval", "review", "needs_owner"}

(* Moves that leave the recorded steps as they are. *)
Moves ==
  {<<"absent", "queued">>, <<"queued", "running">>, <<"running", "queued">>,
   <<"waiting_approval", "running">>,
   <<"review", "running">>, <<"review", "delivered">>, <<"review", "needs_owner">>,
   <<"review", "waiting_approval">>, <<"running", "waiting_approval">>, <<"running", "failed">>}
  \cup Open \X {"cancelled"} \cup {<<"failed", "cancelled">>}

(* Moves that record one more step. *)
StepMoves == {"running"} \X {"running", "review", "needs_owner", "waiting_approval", "failed"}

Init ==
  /\ status = [t \in Tasks |-> "absent"]
  /\ step = [t \in Tasks |-> 0]
  /\ attempt = [t \in Tasks |-> 1]

Move(t, to) ==
  /\ <<status[t], to>> \in Moves
  /\ status' = [status EXCEPT ![t] = to]
  /\ UNCHANGED <<step, attempt>>

RecordStep(t, to) ==
  /\ <<status[t], to>> \in StepMoves
  /\ status' = [status EXCEPT ![t] = to]
  /\ step' = [step EXCEPT ![t] = @ + 1]
  /\ UNCHANGED attempt

Retry(t) ==
  /\ status[t] \in {"failed", "needs_owner"}
  /\ status' = [status EXCEPT ![t] = "queued"]
  /\ step' = [step EXCEPT ![t] = 0]
  /\ attempt' = [attempt EXCEPT ![t] = @ + 1]

Next == \E t \in Tasks :
  \/ \E to \in Open \cup {"delivered", "failed", "cancelled"} : Move(t, to) \/ RecordStep(t, to)
  \/ Retry(t)

Spec == Init /\ [][Next]_lifecycleVars
=============================================================================
