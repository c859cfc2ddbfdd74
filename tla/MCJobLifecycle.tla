--------------------------- MODULE MCJobLifecycle ---------------------------
(* Instances of JobLifecycle for TLC. *)
EXTENDS JobLifecycle

CONSTANTS j1, j2, c1, c2

\* Every job comes to its end on the resource: each is submitted with a time
\* limit (SlurmAPIResource.launch_job).
JobsEnd == \A j \in Jobs : WF_vars(ResourceMove(j)) /\ SF_vars(ResourceMove(j) /\ Ended(j)')

FairSpecJobsEnd == FairSpec /\ JobsEnd
=============================================================================
