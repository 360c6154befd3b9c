----------------------------- MODULE RunStatuses -----------------------------
(***************************************************************************)
(* v2 control plane: the statuses of a run and the changes the store       *)
(* accepts, shared by the event log and the workflow.                      *)
(***************************************************************************)

RunStatus == {"Pending", "Scheduled", "Starting", "Running", "WaitingApproval",
              "WaitingCapacity", "Succeeded", "Failed", "Cancelled", "Lost"}
Terminal == {"Succeeded", "Failed", "Cancelled", "Lost"}

\* The transitions SetRunStatus lets through.
ValidRunTransition(from, to) ==
    \/ from = to
    \/ /\ from \notin Terminal
       /\ \/ to \in {"Failed", "Cancelled", "Lost"}
          \/ to = "Scheduled" /\ from \in {"Pending", "WaitingCapacity"}
          \/ to = "Starting" /\ from \in {"Pending", "Scheduled", "WaitingCapacity"}
          \/ to = "Running" /\ from \in {"Pending", "Scheduled", "Starting", "WaitingApproval",
                                        "WaitingCapacity"}
          \/ to = "WaitingApproval" /\ from \in {"Scheduled", "Starting", "Running"}
          \/ to = "WaitingCapacity" /\ from \in {"Pending", "Scheduled", "Starting", "Running"}
          \/ to = "Succeeded" /\ from \in {"Scheduled", "Starting", "Running", "WaitingApproval"}
=============================================================================
