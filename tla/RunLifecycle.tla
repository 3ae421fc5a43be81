---------------------------- MODULE RunLifecycle ----------------------------
(***************************************************************************)
(* What launching and running an assessment promises, with no request      *)
(* handler, lock, transaction or background task in sight: a run is created *)
(* in one step and only if no run with the same inputs is in progress, it   *)
(* moves PENDING -> RUNNING -> one terminal status, and a restart may fail  *)
(* the runs that were in progress, never any other run.                     *)
(* AssessmentRuns is shown to implement this module.                        *)
(***************************************************************************)

CONSTANTS
  Runs,      \* the runs that may be launched
  Inputs     \* what a launch asks for: circular, policy pack and as-of date

VARIABLES
  status,    \* status[r]: the stored status of run r, "ABSENT" before it exists
  inputs     \* inputs[r]: what the launch of run r asks for

lifecycleVars == <<status, inputs>>

ActiveStatuses == {"PENDING", "RUNNING"}
TerminalStatuses == {"COMPLETED", "CAPPED", "FAILED"}

Active(r) == status[r] \in ActiveStatuses

Init ==
  /\ status = [r \in Runs |-> "ABSENT"]
  /\ inputs \in [Runs -> Inputs]

\* Check and creation are one step: no second launch can come between them.
Launch(r) ==
  /\ status[r] = "ABSENT"
  /\ \A other \in Runs : Active(other) => inputs[other] # inputs[r]
  /\ status' = [status EXCEPT ![r] = "PENDING"]
  /\ UNCHANGED inputs

Begin(r) ==
  /\ status[r] = "PENDING"
  /\ status' = [status EXCEPT ![r] = "RUNNING"]
  /\ UNCHANGED inputs

End(r) ==
  /\ status[r] = "RUNNING"
  /\ \E s \in TerminalStatuses : status' = [status EXCEPT ![r] = s]
  /\ UNCHANGED inputs

\* A new process fails every run its predecessor left unfinished.
Interrupt ==
  /\ status' = [r \in Runs |-> IF Active(r) THEN "FAILED" ELSE status[r]]
  /\ UNCHANGED inputs

Next ==
  \/ \E r \in Runs : Launch(r) \/ Begin(r) \/ End(r)
  \/ Interrupt

Spec == Init /\ [][Next]_lifecycleVars
=============================================================================
