---------------------------- MODULE MCJobSchedule ----------------------------
(***************************************************************************)
(* Model-checking instances of JobSchedule, and what the repository says of *)
(* a job its owner stopped, which the code does not keep.                  *)
(***************************************************************************)
EXTENDS JobSchedule

\* "Jobs in running status cannot be interrupted, but will be marked as cancelled
\* and will not be re-executed" (routes.py, cancel_job): the trigger starts no job
\* whose owner's last word is a stop.
StoppedNotRerun ==
    [][\A w \in Workers : Acquire(w) /\ status' = "running" => ~held]_vars
=============================================================================
