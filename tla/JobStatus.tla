------------------------------ MODULE JobStatus ------------------------------
(***************************************************************************)
(* The status values of the Job rows (models.Job.Status), the job states   *)
(* of the Slurm scheduler, and the translation between them                *)
(* (SlurmAPIResource.translate_status).  No state: the modules that model  *)
(* handlers and tasks extend this one.                                     *)
(***************************************************************************)

JobStatuses == {"pending", "running", "complete", "failed", "stopping"}

\* The two statuses the hook, the workspace deletion and the restart scan
\* look for when they ask whether a job is still going.
ActiveStatuses == {"pending", "running"}

TerminalStatuses == {"complete", "failed"}

\* States of a job in the scheduler; "NONE": nothing was submitted.
LiveStates == {"PENDING", "RUNNING", "SUSPENDED", "COMPLETING"}
EndedStates == {"COMPLETED", "FAILED", "CANCELLED", "TIMEOUT"}
ResourceStates == {"NONE"} \union LiveStates \union EndedStates

\* Slips of the translation, for the runs to notice: a suspended job counted
\* as over, and a state passed on without a translation.
TranslateSuspendedAsOver(state) ==
    CASE state = "PENDING"                  -> "pending"
      [] state \in {"RUNNING", "COMPLETING"} -> "running"
      [] state = "FAILED"                   -> "failed"
      [] OTHER                              -> "complete"
TranslateTimeoutRaw(state) ==
    IF state = "TIMEOUT" THEN "timeout"
    ELSE IF state \in {"PENDING", "SUSPENDED"} THEN "pending"
    ELSE IF state \in {"RUNNING", "COMPLETING"} THEN "running"
    ELSE IF state = "FAILED" THEN "failed" ELSE "complete"

\* SlurmAPIResource.translate_status; an unknown job is an error of the API,
\* which get_resource_job reports as "complete".
TranslateStatus(state) ==
    CASE state \in {"PENDING", "SUSPENDED"}  -> "pending"
      [] state \in {"RUNNING", "COMPLETING"} -> "running"
      [] state = "FAILED"                    -> "failed"
      [] OTHER                               -> "complete"

\* How the scheduler moves a job on by itself.
ResourceMoves(state) ==
    CASE state = "PENDING"    -> {"RUNNING"}
      [] state = "RUNNING"    -> {"SUSPENDED", "COMPLETING", "FAILED", "TIMEOUT"}
      [] state = "SUSPENDED"  -> {"RUNNING"}
      [] state = "COMPLETING" -> {"COMPLETED"}
      [] OTHER                -> {}
=============================================================================
