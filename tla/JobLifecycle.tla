---------------------------- MODULE JobLifecycle ----------------------------
(***************************************************************************)
(* What the status of a job promises (JobStatus of crates/core/metadata-db *)
(* with the retry of failed jobs): the abstract machine that the           *)
(* controllers and the workers, through their conditional updates, must    *)
(* implement together.                                                     *)
(***************************************************************************)
CONSTANT Jobs

VARIABLE status

\* The statuses that may follow a status, when the job is not deleted.
Successors(s) ==
  CASE s = "Absent"        -> {"Scheduled"}
    [] s = "Scheduled"     -> {"Running", "StopRequested"}
    [] s = "Running"       -> {"Completed", "Failed", "StopRequested"}
    [] s = "StopRequested" -> {"Stopping"}
    [] s = "Stopping"      -> {"Stopped"}
    [] s = "Failed"        -> {"Scheduled"}
    [] OTHER               -> {}

Init == status = [j \in Jobs |-> "Absent"]

Advance(j) == \E s \in Successors(status[j]) : status' = [status EXCEPT ![j] = s]

\* Only jobs whose lifecycle has ended are deleted, several at a time.
Delete(S) ==
  /\ \A j \in S : status[j] \in {"Completed", "Stopped", "Failed"}
  /\ status' = [j \in Jobs |-> IF j \in S THEN "Deleted" ELSE status[j]]

Next == (\E j \in Jobs : Advance(j)) \/ (\E S \in SUBSET Jobs : Delete(S))

Spec == Init /\ [][Next]_status
=============================================================================
