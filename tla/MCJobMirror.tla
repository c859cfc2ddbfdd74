---------------------------- MODULE MCJobMirror ----------------------------
(***************************************************************************)
(* JobLifecycle implements JobMirror: the scheduler's state is translated, *)
(* and the sample is what the chain of the start request holds between its *)
(* question to the scheduler and the row it saves.                         *)
(***************************************************************************)
EXTENDS MCJobLifecycle

MappedReal == [j \in Jobs |-> IF res[j] = "NONE" THEN "none" ELSE TranslateStatus(res[j])]

MappedShown == [j \in Jobs |-> IF Exists(j) THEN job[j].status ELSE "none"]

MappedSample ==
    [j \in Jobs |-> IF poll[<<j, "start">>].pc \in {"asked", "refreshed"}
                    THEN poll[<<j, "start">>].seen ELSE MappedShown[j]]

Mirror == INSTANCE JobMirror WITH real <- MappedReal, shown <- MappedShown, sample <- MappedSample

\* The rows mirror the scheduler (update_job_status, queue_job_update).
ImplementsMirror == Mirror!MirrorSpec
=============================================================================
