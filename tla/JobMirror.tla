------------------------------ MODULE JobMirror ------------------------------
(***************************************************************************)
(* What the job rows promise to a client, as long as nobody stops a job,   *)
(* the scheduler's API answers and no task cluster crashes: the row of a   *)
(* job mirrors the scheduler.  It shows statuses the scheduler really had, *)
(* in the order it had them, some of them left out; it never goes back to  *)
(* an older one, and it ends with the verdict of the scheduler.            *)
(*                                                                         *)
(* This is the abstract specification of update_job_status and its hook;   *)
(* JobLifecycle implements it (see MCJobMirror).                           *)
(***************************************************************************)
CONSTANT Jobs

VARIABLES
    real,    \* the scheduler's view of each job, in the terms of Job.Status
    sample,  \* the status last read from the scheduler
    shown    \* the status in the Job row

mirrorVars == <<real, sample, shown>>

\* Suspended jobs count as pending again.
Advances(status) ==
    CASE status = "none"    -> {"pending"}
      [] status = "pending" -> {"running"}
      [] status = "running" -> {"pending", "complete", "failed"}
      [] OTHER              -> {}

MirrorInit ==
    /\ real = [j \in Jobs |-> "none"]
    /\ sample = [j \in Jobs |-> "none"]
    /\ shown = [j \in Jobs |-> "none"]

\* The row is created as pending, before the job is submitted.
Create(j) ==
    /\ shown[j] = "none"
    /\ shown' = [shown EXCEPT ![j] = "pending"]
    /\ sample' = [sample EXCEPT ![j] = "pending"]
    /\ UNCHANGED real

Advance(j) ==
    /\ shown[j] # "none"
    /\ \E status \in Advances(real[j]) : real' = [real EXCEPT ![j] = status]
    /\ UNCHANGED <<sample, shown>>

Sample(j) ==
    /\ sample[j] = shown[j] /\ real[j] # "none"
    /\ sample' = [sample EXCEPT ![j] = real[j]]
    /\ UNCHANGED <<real, shown>>

Show(j) ==
    /\ shown' = [shown EXCEPT ![j] = sample[j]]
    /\ UNCHANGED <<real, sample>>

MirrorNext == \E j \in Jobs : Create(j) \/ Advance(j) \/ Sample(j) \/ Show(j)

MirrorSafety == MirrorInit /\ [][MirrorNext]_mirrorVars

MirrorSpec ==
    /\ MirrorSafety
    /\ \A j \in Jobs : WF_mirrorVars(Sample(j)) /\ WF_mirrorVars(Show(j))

=============================================================================
