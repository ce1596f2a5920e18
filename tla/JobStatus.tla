----------------------------- MODULE JobStatus -----------------------------
(***************************************************************************)
(* The states of an ExternalJobReference, the reference Django keeps to a  *)
(* job that another service runs, and the sets of them its services and    *)
(* its callback endpoint decide by.                                        *)
(***************************************************************************)

\* ExternalJobReference.Status.
JobStatuses ==
    {"queued", "submitted", "running", "completed", "partially_completed",
     "failed", "cancelled", "expired", "timeout"}

\* ExternalJobReference.TERMINAL_STATUSES: "timeout" is not one of them.
TERMINAL_STATUSES ==
    {"completed", "partially_completed", "failed", "cancelled", "expired"}

\* ExternalJobReference.RETRYABLE_STATUSES: "timeout" is one of them.
RETRYABLE_STATUSES == {"failed", "timeout", "cancelled", "expired"}

\* The statuses the product handlers treat as a failed generation.
FAILURE_STATUSES == {"failed", "timeout", "expired"}

\* The statuses of a job that delivered something.
SUCCESS_STATUSES == {"completed", "partially_completed"}
=============================================================================
