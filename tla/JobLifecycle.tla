---------------------------- MODULE JobLifecycle ----------------------------
(***************************************************************************)
(* The life of the jobs of one workspace: the request that starts a job    *)
(* (WorkspaceView.put, "start"), the chain of tasks that polls the resource *)
(* (update_job_status and its hook queue_job_update), the request and the  *)
(* task that stop a job (JobView.put, stop_job), the core-hours task, and  *)
(* the restart of the task clusters (UserWorkspacesServerConfig.ready).    *)
(*                                                                         *)
(* The unit of atomicity is one database statement, one call of the        *)
(* scheduler's API or one task enqueued: there are no transactions.  A     *)
(* handler holds the Job row it read in memory, and job.save() writes all  *)
(* of its fields back, so every actor carries its own copy ("row").        *)
(*                                                                         *)
(* The workspace itself is not deleted in this module, so that its status  *)
(* is "idle" or "active" only and the hook's test for "deleting" is true.  *)
(***************************************************************************)
EXTENDS JobStatus, Naturals

CONSTANTS
    Jobs,        \* the jobs that may be started
    Clients,     \* each client makes at most one stop request per job
    WebJobs,     \* jobs whose type dereferences datetime_start in status_check
    MaxFaults,   \* bound on API errors, task timeouts and dying web workers
    MaxCrashes   \* bound on crashes of a task cluster

ASSUME JobLifecycleAssumption ==
    /\ WebJobs \subseteq Jobs
    /\ MaxFaults \in Nat
    /\ MaxCrashes \in Nat

\* The two qcluster processes of start.sh.
Clusters == {"default", "long"}

\* A chain of polling tasks is begun by the start request (on the default
\* cluster) or by the scan that a cluster makes when it boots; it then stays
\* on its cluster.
Origins == {"start"} \union Clusters
Chains == Jobs \X Origins
Stops == Jobs \X Clients
ClusterOf(origin) == IF origin = "start" THEN "default" ELSE origin

\* The fields of a Job row that steer the code: status, whether
\* resource_job_id differs from -1, whether datetime_start is set, and
\* whether core_hours were recorded.
Rows == [status : JobStatuses, known : BOOLEAN, started : BOOLEAN, hours : BOOLEAN]
FreshRow == [status |-> "pending", known |-> FALSE, started |-> FALSE, hours |-> FALSE]

VARIABLES
    job,      \* the Job rows (FreshRow for a job that was not created yet)
    res,      \* the jobs as the scheduler knows them
    logged,   \* the jobs whose web server has written its URL to the log
    start,    \* where the start request of each job stands
    poll,     \* the polling chains: step, status the resource answered, row
    tally,    \* the update_job_core_hours task each chain may leave behind
    stop,     \* the stop requests and their stop_job tasks
    ws,       \* status of the workspace
    cluster,  \* the task clusters: "up", "down", or "purged" (booting)
    faults, crashes,            \* counters for the two bounds
    early, misled, relapsed     \* history: no action reads these

history == <<early, misled, relapsed>>
vars == <<job, res, logged, start, poll, tally, stop, ws, cluster,
          faults, crashes, early, misled, relapsed>>

StartSteps == {"idle", "created", "launched", "saved", "enqueued", "done", "failed"}
PollSteps == {"none", "queued", "asked", "refreshed", "hook", "settle", "release"}
TallySteps == {"none", "queued", "read"}
StopSteps == {"idle", "read", "queued", "undo", "refused", "stopped", "done"}

Exists(j) == start[j] # "idle"
Active(j) == Exists(j) /\ job[j].status \in ActiveStatuses
Live(j) == res[j] \in LiveStates
Ended(j) == res[j] \in EndedStates

\* The window in which the row exists and the start request still has to
\* write it once more.
Launching(j) == start[j] \in {"created", "launched"}

TypeOK ==
    /\ job \in [Jobs -> Rows]
    /\ res \in [Jobs -> ResourceStates]
    /\ logged \subseteq WebJobs
    /\ start \in [Jobs -> StartSteps]
    /\ poll \in [Chains -> [pc : PollSteps, seen : JobStatuses, row : Rows]]
    /\ tally \in [Chains -> [pc : TallySteps, row : Rows]]
    /\ stop \in [Stops -> [pc : StopSteps, row : Rows]]
    /\ ws \in {"idle", "active"}
    /\ cluster \in [Clusters -> {"up", "down", "purged"}]
    /\ faults \in 0 .. MaxFaults
    /\ crashes \in 0 .. MaxCrashes
    /\ early \subseteq Jobs
    /\ misled \subseteq Jobs
    /\ relapsed \subseteq Jobs

NoPoll == [pc |-> "none", seen |-> "pending", row |-> FreshRow]
NoTally == [pc |-> "none", row |-> FreshRow]

Init ==
    /\ job = [j \in Jobs |-> FreshRow]
    /\ res = [j \in Jobs |-> "NONE"]
    /\ logged = {}
    /\ start = [j \in Jobs |-> "idle"]
    /\ poll = [c \in Chains |-> NoPoll]
    /\ tally = [c \in Chains |-> NoTally]
    /\ stop = [r \in Stops |-> [pc |-> "idle", row |-> FreshRow]]
    /\ ws = "idle"
    /\ cluster = [k \in Clusters |-> "up"]
    /\ faults = 0
    /\ crashes = 0
    /\ early = {}
    /\ misled = {}
    /\ relapsed = {}

Up(k) == cluster[k] = "up"

\* One more error, timeout or dead worker, within the bound.
Fault == faults < MaxFaults /\ faults' = faults + 1

Queued == [NoPoll EXCEPT !.pc = "queued"]

-----------------------------------------------------------------------------
(* The start request: WorkspaceView.put with put_type "start".             *)

StartCreate(j) ==
    /\ start[j] = "idle"
    /\ start' = [start EXCEPT ![j] = "created"]
    /\ job' = [job EXCEPT ![j] = FreshRow]
    /\ UNCHANGED <<res, logged, poll, tally, stop, ws, cluster, faults, crashes, history>>

LaunchOnResource(j) == res' = [res EXCEPT ![j] = "PENDING"]

\* resource.launch_job submits the job and returns its id.
StartLaunch(j) ==
    /\ start[j] = "created"
    /\ start' = [start EXCEPT ![j] = "launched"]
    /\ LaunchOnResource(j)
    /\ UNCHANGED <<job, logged, poll, tally, stop, ws, cluster, faults, crashes, history>>

\* resource.launch_job raises: the scheduler refused, and the request ends
\* with the row as it is; or it took the job and the answer was lost.
StartLaunchFails(j) ==
    /\ start[j] = "created"
    /\ start' = [start EXCEPT ![j] = "failed"]
    /\ \/ UNCHANGED <<res, faults, misled>>
       \/ Fault /\ LaunchOnResource(j) /\ misled' = misled \union {j}
    /\ UNCHANGED <<job, logged, poll, tally, stop, ws, cluster, crashes, early, relapsed>>

\* The row in memory is the row as created plus resource_job_id.
StartSave(j) ==
    /\ start[j] = "launched"
    /\ start' = [start EXCEPT ![j] = "saved"]
    /\ job' = [job EXCEPT ![j] = [FreshRow EXCEPT !.known = TRUE]]
    /\ UNCHANGED <<res, logged, poll, tally, stop, ws, cluster, faults, crashes, history>>

StartEnqueue(j) ==
    /\ start[j] = "saved"
    /\ start' = [start EXCEPT ![j] = "enqueued"]
    /\ poll' = [poll EXCEPT ![<<j, "start">>] = Queued]
    /\ UNCHANGED <<job, res, logged, tally, stop, ws, cluster, faults, crashes, history>>

StartActivate(j) ==
    /\ start[j] = "enqueued"
    /\ start' = [start EXCEPT ![j] = "done"]
    /\ ws' = "active"
    /\ UNCHANGED <<job, res, logged, poll, tally, stop, cluster, faults, crashes, history>>

\* The web worker dies, or a statement raises, in the middle of the request.
StartDies(j) ==
    /\ start[j] \in {"created", "launched", "saved", "enqueued"}
    /\ Fault
    /\ start' = [start EXCEPT ![j] = "failed"]
    /\ misled' = IF start[j] = "launched" THEN misled \union {j} ELSE misled
    /\ UNCHANGED <<job, res, logged, poll, tally, stop, ws, cluster, crashes, early, relapsed>>

StartRequest(j) ==
    StartLaunch(j) \/ StartLaunchFails(j) \/ StartSave(j) \/ StartEnqueue(j) \/ StartActivate(j)

-----------------------------------------------------------------------------
(* The scheduler.                                                          *)

ResourceMove(j) ==
    /\ \E s \in ResourceMoves(res[j]) : res' = [res EXCEPT ![j] = s]
    /\ UNCHANGED <<job, logged, start, poll, tally, stop, ws, cluster, faults, crashes, history>>

\* The job's web server is up and has printed its URL.
ServerReady(j) ==
    /\ j \in WebJobs \ logged
    /\ res[j] = "RUNNING"
    /\ logged' = logged \union {j}
    /\ UNCHANGED <<job, res, start, poll, tally, stop, ws, cluster, faults, crashes, history>>

-----------------------------------------------------------------------------
(* The polling chain: update_job_status, then its hook queue_job_update.   *)

\* get_resource_job makes "complete" of every error of the API, the answer to
\* an unknown id included.
ResourceAnswer(j) == IF job[j].known THEN TranslateStatus(res[j]) ELSE "complete"

\* Reads the row for its resource_job_id and asks the scheduler.
PollAsk(c) ==
    LET j == c[1] IN
    /\ poll[c].pc = "queued" /\ Up(ClusterOf(c[2]))
    /\ \/ /\ poll' = [poll EXCEPT ![c] =
                 [@ EXCEPT !.pc = "asked", !.seen = ResourceAnswer(j)]]
          /\ early' = IF Launching(j) /\ ~job[j].known THEN early \union {j} ELSE early
          /\ UNCHANGED <<faults, misled>>
       \/ /\ Fault
          /\ poll' = [poll EXCEPT ![c] = [@ EXCEPT !.pc = "asked", !.seen = "complete"]]
          /\ misled' = misled \union {j}
          /\ UNCHANGED early
    /\ UNCHANGED <<job, res, logged, start, tally, stop, ws, cluster, crashes, relapsed>>

PollRefresh(c) ==
    /\ poll[c].pc = "asked"
    /\ poll' = [poll EXCEPT ![c] = [@ EXCEPT !.pc = "refreshed", !.row = job[c[1]]]]
    /\ UNCHANGED <<job, res, logged, start, tally, stop, ws, cluster, faults, crashes, history>>

\* What the task makes of the row it refreshed and the answer it got before.
Updated(row, seen) ==
    [row EXCEPT !.status = IF row.status = "stopping" /\ seen \notin TerminalStatuses
                           THEN "stopping" ELSE seen,
                !.started = @ \/ seen = "running"]

\* job_type.status_check computes with datetime_start as soon as it finds the
\* URL in the log, and raises if it is not set.
StatusCheckRaises(j, row) == j \in logged /\ row.status # "failed" /\ ~row.started

PollSave(c) ==
    LET j == c[1]
        row == Updated(poll[c].row, poll[c].seen) IN
    /\ poll[c].pc = "refreshed"
    /\ job' = IF StatusCheckRaises(j, row) THEN job ELSE [job EXCEPT ![j] = row]
    /\ poll' = [poll EXCEPT ![c] = [NoPoll EXCEPT !.pc = "hook"]]
    /\ UNCHANGED <<res, logged, start, tally, stop, ws, cluster, faults, crashes, history>>

\* The task raises (no token for the user) or runs into its timeout: it saves
\* nothing more, and the hook runs all the same.
PollFails(c) ==
    /\ poll[c].pc \in {"queued", "asked", "refreshed"} /\ Up(ClusterOf(c[2]))
    /\ Fault
    /\ poll' = [poll EXCEPT ![c] = [NoPoll EXCEPT !.pc = "hook"]]
    /\ UNCHANGED <<job, res, logged, start, tally, stop, ws, cluster, crashes, history>>

\* Slips: a pending job is not polled again; only a failed job ends its chain.
RequeuesUnlessPending(status) == status \in {"running", "stopping"}
RequeuesUnlessFailed(status) == status # "failed"

\* The hook enqueues the task again unless the row is terminal.
Requeues(status) == status \in {"pending", "running", "stopping"}

HookRead(c) ==
    /\ poll[c].pc = "hook"
    /\ poll' = [poll EXCEPT ![c] = IF Requeues(job[c[1]].status) THEN Queued
                                   ELSE [NoPoll EXCEPT !.pc = "settle"]]
    /\ UNCHANGED <<job, res, logged, start, tally, stop, ws, cluster, faults, crashes, history>>

\* Slip: a failed job counts as a job that still needs the workspace.
NeedsWorkspaceUnlessComplete(j) == Exists(j) /\ job[j].status # "complete"

NeedsWorkspace(j) == Active(j)

\* Is another job of the workspace pending or running?
HookCheck(c) ==
    /\ poll[c].pc = "settle"
    /\ poll' = [poll EXCEPT ![c] = IF \E j \in Jobs : NeedsWorkspace(j) THEN NoPoll
                                   ELSE [NoPoll EXCEPT !.pc = "release"]]
    /\ UNCHANGED <<job, res, logged, start, tally, stop, ws, cluster, faults, crashes, history>>

\* The workspace becomes idle and the core-hours task is enqueued.  Bound: a
\* chain has one such task in flight.
HookRelease(c) ==
    /\ poll[c].pc = "release" /\ tally[c].pc = "none"
    /\ poll' = [poll EXCEPT ![c] = NoPoll]
    /\ ws' = "idle"
    /\ tally' = [tally EXCEPT ![c].pc = "queued"]
    /\ UNCHANGED <<job, res, logged, start, stop, cluster, faults, crashes, history>>

PollStep(c) ==
    PollAsk(c) \/ PollRefresh(c) \/ PollSave(c) \/ HookRead(c) \/ HookCheck(c) \/ HookRelease(c)

-----------------------------------------------------------------------------
(* update_job_core_hours, always on the default cluster.                   *)

TallyRead(c) ==
    LET j == c[1] IN
    /\ tally[c].pc = "queued" /\ Up("default")
    /\ tally' = [tally EXCEPT ![c] = [pc |-> "read", row |-> job[j]]]
    /\ relapsed' = IF job[j].status \in ActiveStatuses THEN relapsed \union {j} ELSE relapsed
    /\ UNCHANGED <<job, res, logged, start, poll, stop, ws, cluster, faults, crashes, early, misled>>

TallySave(c) ==
    /\ tally[c].pc = "read"
    /\ job' = [job EXCEPT ![c[1]] = [tally[c].row EXCEPT !.hours = TRUE]]
    /\ tally' = [tally EXCEPT ![c] = NoTally]
    /\ UNCHANGED <<res, logged, start, poll, stop, ws, cluster, faults, crashes, history>>

TallyFails(c) ==
    /\ tally[c].pc = "read"
    /\ Fault
    /\ tally' = [tally EXCEPT ![c] = NoTally]
    /\ UNCHANGED <<job, res, logged, start, poll, stop, ws, cluster, crashes, history>>

TallyStep(c) == TallyRead(c) \/ TallySave(c)

-----------------------------------------------------------------------------
(* The stop request, JobView.put, and the stop_job task.                   *)

\* A job without a resource id is stopped on the spot; one that is terminal
\* or stopping is refused ("This job is not running or pending.").
StopRead(r) ==
    LET j == r[1] IN
    /\ stop[r].pc = "idle" /\ Exists(j)
    /\ stop' = [stop EXCEPT ![r] =
           IF job[j].known /\ job[j].status \notin ActiveStatuses
           THEN [@ EXCEPT !.pc = "refused"] ELSE [pc |-> "read", row |-> job[j]]]
    /\ early' = IF Launching(j) THEN early \union {j} ELSE early
    /\ UNCHANGED <<job, res, logged, start, poll, tally, ws, cluster, faults, crashes, misled, relapsed>>

StopSave(r) ==
    LET j == r[1]
        row == stop[r].row IN
    /\ stop[r].pc = "read"
    /\ job' = [job EXCEPT ![j] = [row EXCEPT !.status = IF row.known THEN "stopping" ELSE "complete"]]
    /\ stop' = [stop EXCEPT ![r] = [pc |-> IF row.known THEN "queued" ELSE "stopped", row |-> FreshRow]]
    /\ UNCHANGED <<res, logged, start, poll, tally, ws, cluster, faults, crashes, history>>

\* The scheduler cancels a job that has not ended yet.
CancelOnResource(j) == res' = IF Live(j) THEN [res EXCEPT ![j] = "CANCELLED"] ELSE res

\* Slip: the task gives up when the row does not say "stopping" any more.
StopCallIfStopping(r) ==
    LET j == r[1] IN
    /\ stop[r].pc = "queued" /\ Up("default")
    /\ res' = IF Live(j) /\ job[j].status = "stopping" THEN [res EXCEPT ![j] = "CANCELLED"] ELSE res
    /\ stop' = [stop EXCEPT ![r].pc = "done"]
    /\ UNCHANGED <<job, logged, start, poll, tally, ws, cluster, faults, crashes, history>>

\* stop_job asks the scheduler to cancel the job.  A job that has ended
\* already is either refused or accepted, depending on the resource.
StopCall(r) ==
    LET j == r[1] IN
    /\ stop[r].pc = "queued" /\ Up("default")
    /\ CancelOnResource(j)
    /\ \/ stop' = [stop EXCEPT ![r].pc = "done"]
       \/ ~Live(j) /\ stop' = [stop EXCEPT ![r] = [pc |-> "undo", row |-> job[j]]]
    /\ UNCHANGED <<job, logged, start, poll, tally, ws, cluster, faults, crashes, history>>

\* The API fails: resource.stop_job returns False, whether the job was
\* cancelled or not; or the task raises before it reaches the scheduler.
StopCallFails(r) ==
    LET j == r[1] IN
    /\ stop[r].pc = "queued" /\ Up("default")
    /\ Fault
    /\ \/ /\ stop' = [stop EXCEPT ![r] = [pc |-> "undo", row |-> job[j]]]
          /\ UNCHANGED res \/ CancelOnResource(j)
          /\ misled' = misled \union {j}
       \/ stop' = [stop EXCEPT ![r].pc = "done"] /\ UNCHANGED <<res, misled>>
    /\ UNCHANGED <<job, logged, start, poll, tally, ws, cluster, crashes, early, relapsed>>

StopUndo(r) ==
    /\ stop[r].pc = "undo"
    /\ job' = [job EXCEPT ![r[1]] = [stop[r].row EXCEPT !.status = "failed"]]
    /\ stop' = [stop EXCEPT ![r] = [pc |-> "done", row |-> FreshRow]]
    /\ UNCHANGED <<res, logged, start, poll, tally, ws, cluster, faults, crashes, history>>

StopStep(r) == StopSave(r) \/ StopCall(r) \/ StopUndo(r)

-----------------------------------------------------------------------------
(* A task cluster crashes and boots again: UserWorkspacesServerConfig.ready. *)

\* Tasks and hooks in execution are lost; queued ones wait in the broker.
Crash(k) ==
    /\ Up(k) /\ crashes < MaxCrashes
    /\ crashes' = crashes + 1
    /\ cluster' = [cluster EXCEPT ![k] = "down"]
    /\ poll' = [c \in Chains |-> IF ClusterOf(c[2]) = k /\ poll[c].pc # "queued"
                                 THEN NoPoll ELSE poll[c]]
    /\ tally' = [c \in Chains |-> IF k = "default" /\ tally[c].pc = "read"
                                  THEN NoTally ELSE tally[c]]
    /\ stop' = [r \in Stops |-> IF k = "default" /\ stop[r].pc = "undo"
                                THEN [pc |-> "done", row |-> FreshRow] ELSE stop[r]]
    /\ UNCHANGED <<job, res, logged, start, ws, faults, history>>

\* broker.purge_queue
BootPurge(k) ==
    /\ cluster[k] = "down"
    /\ cluster' = [cluster EXCEPT ![k] = "purged"]
    /\ poll' = [c \in Chains |-> IF ClusterOf(c[2]) = k THEN NoPoll ELSE poll[c]]
    /\ tally' = [c \in Chains |-> IF k = "default" /\ tally[c].pc = "queued"
                                  THEN NoTally ELSE tally[c]]
    /\ stop' = [r \in Stops |-> IF k = "default" /\ stop[r].pc = "queued"
                                THEN [pc |-> "done", row |-> FreshRow] ELSE stop[r]]
    /\ UNCHANGED <<job, res, logged, start, ws, faults, crashes, history>>

\* Slip: the scan forgets the jobs that are still pending.
ScannedIfRunning(j) == Exists(j) /\ job[j].status = "running"

Scanned(j) == Active(j)

\* A new chain for every row that is pending or running.
BootScan(k) ==
    /\ cluster[k] = "purged"
    /\ cluster' = [cluster EXCEPT ![k] = "up"]
    /\ poll' = [c \in Chains |-> IF c[2] = k /\ Scanned(c[1]) THEN Queued ELSE poll[c]]
    /\ UNCHANGED <<job, res, logged, start, tally, stop, ws, faults, crashes, history>>

Boot(k) == BootPurge(k) \/ BootScan(k)

-----------------------------------------------------------------------------
Next ==
    \/ \E j \in Jobs : StartCreate(j) \/ StartRequest(j) \/ StartDies(j)
                       \/ ResourceMove(j) \/ ServerReady(j)
    \/ \E c \in Chains : PollStep(c) \/ PollFails(c) \/ TallyStep(c) \/ TallyFails(c)
    \/ \E r \in Stops : StopRead(r) \/ StopStep(r) \/ StopCallFails(r)
    \/ \E k \in Clusters : Crash(k) \/ Boot(k)

Spec == Init /\ [][Next]_vars

\* Requests run to their end, the workers and the hook's monitor run whenever
\* there is work for them, and a cluster that went down is booted again.
ServerFairness ==
    /\ \A j \in Jobs : WF_vars(StartRequest(j))
    /\ \A c \in Chains : WF_vars(PollStep(c)) /\ WF_vars(TallyStep(c))
    /\ \A r \in Stops : WF_vars(StopStep(r))
    /\ \A k \in Clusters : WF_vars(Boot(k))

FairSpec == Spec /\ ServerFairness
-----------------------------------------------------------------------------
(* Properties.                                                             *)

\* A chain that will still look at the row of j before it can end.
Watching(j) ==
    \E o \in Origins : poll[<<j, o>>].pc \in {"queued", "asked", "refreshed", "hook"}

\* The polling covers every started job: once the start request has enqueued
\* the first poll, a job whose row is pending or running is watched by some
\* chain, or a cluster is between its crash and the scan of its boot.  This
\* is what purge-then-scan (ready) and requeue-unless-terminal
\* (queue_job_update) achieve together, whatever the stop requests, the
\* errors and a second chain left by a boot do.  Excepted are the jobs whose
\* core-hours task read an active row: it writes that row back at any time.
PollCoverage ==
    \A j \in Jobs :
        /\ start[j] \in {"enqueued", "done"}
        /\ Active(j)
        /\ j \notin relapsed
        => Watching(j) \/ \E k \in Clusters : ~Up(k)

\* PollCoverage strengthened to an inductive invariant: the core-hours tasks
\* that hold an active row are those of the excepted jobs.
CoverageInv ==
    /\ PollCoverage
    /\ \A c \in Chains :
          tally[c].pc = "read" /\ tally[c].row.status \in ActiveStatuses => c[1] \in relapsed

\* A row is complete or failed only when the job is over on the resource,
\* unless the scheduler's API failed to answer for this job or somebody acted
\* on the row before the start request had stored its resource_job_id
\* (update_job_status, stop_job and JobView.put never make the job up).
NoFalseEnd ==
    \A j \in Jobs :
        /\ Exists(j) /\ job[j].status \in TerminalStatuses
        /\ j \notin early \union misled
        => ~Live(j)

\* NoFalseEnd strengthened to an inductive invariant, for a job whose row
\* nobody met before its resource_job_id was stored and for which the API never
\* failed.  Until the start request has stored the id, the row is as it was
\* created, and no poll, core-hours task or stop holds a copy of it or an
\* answer.  From then on, while the job is still going on the resource, no
\* copy of the row and no answer says that it is over, and every copy has the
\* id: without it, a stop would complete the job on the spot and a poll would
\* take it for over.
Submitted(j) == start[j] \notin {"idle", "created", "launched"}
OpenRow(row) == row.known /\ row.status \notin TerminalStatuses
Untouched(j) ==
    /\ job[j] = FreshRow
    /\ \A c \in Chains : c[1] = j =>
           /\ poll[c].pc \in (IF Exists(j) THEN {"none", "queued", "hook"} ELSE {"none"})
           /\ tally[c].pc = "none"
    /\ \A r \in Stops : r[1] = j => stop[r].pc = "idle"
AllOpen(j) ==
    /\ OpenRow(job[j])
    /\ \A c \in Chains : c[1] = j =>
           /\ poll[c].pc \in {"asked", "refreshed"} => poll[c].seen \notin TerminalStatuses
           /\ poll[c].pc = "refreshed" => OpenRow(poll[c].row)
           /\ tally[c].pc = "read" => OpenRow(tally[c].row)
    /\ \A r \in Stops : r[1] = j =>
           /\ stop[r].pc # "undo"
           /\ stop[r].pc = "read" => OpenRow(stop[r].row)
TrueEnd(j) ==
    j \notin early \union misled =>
        /\ start[j] \in {"idle", "created"} => res[j] = "NONE"
        /\ ~Submitted(j) => Untouched(j)
        /\ Submitted(j) /\ Live(j) => AllOpen(j)
EndInv == \A j \in Jobs : TrueEnd(j)

\* A row that is complete or failed never changes its status again, as long
\* as no cluster crashes and nobody stops the job: the chain that wrote it
\* ends in queue_job_update, and the core-hours task saves a row as final.
TerminalIsFinal ==
    [][\A j \in Jobs : job[j].status \in TerminalStatuses /\ crashes = 0 /\ Clients = {}
                      => job'[j].status = job[j].status]_vars

\* TerminalIsFinal strengthened to an inductive invariant: each job has the one
\* chain that its start request enqueued, and nobody else holds a copy of its
\* row.  The chain goes on polling only while the row is not terminal, it saves
\* over the row that it read, and it leaves a core-hours task behind only when
\* the row is terminal, which then holds the row as it is.
OneChain(j) ==
    LET p == poll[<<j, "start">>]
        t == tally[<<j, "start">>] IN
    /\ \A k \in Clusters : poll[<<j, k>>].pc = "none" /\ tally[<<j, k>>].pc = "none"
    /\ start[j] = "idle" => job[j] = FreshRow /\ res[j] = "NONE"
    /\ start[j] = "created" => res[j] = "NONE"
    /\ start[j] \in {"launched", "saved"} => res[j] # "NONE"
    /\ start[j] \in {"created", "launched", "saved"} => job[j].status = "pending"
    /\ start[j] \in {"idle", "created", "launched", "saved"} => p.pc = "none" /\ t.pc = "none"
    /\ start[j] = "saved" \/ p.pc # "none" => job[j].known /\ res[j] # "NONE"
    /\ job[j].status # "stopping"
    /\ p.pc \in {"queued", "asked", "refreshed"} => job[j].status \notin TerminalStatuses
    /\ p.pc \in {"asked", "refreshed"} => p.seen # "stopping"
    /\ p.pc = "refreshed" => p.row = job[j]
    /\ p.pc \in {"settle", "release"} => job[j].status \in TerminalStatuses
    /\ t.pc # "none" => p.pc = "none" /\ job[j].status \in TerminalStatuses
    /\ t.pc = "read" => t.row = job[j]
OneChainInv ==
    crashes = 0 /\ Clients = {} => (\A k \in Clusters : Up(k)) /\ \A j \in Jobs : OneChain(j)

\* The end of a job is noticed for good: some time after a started job ended
\* on the resource its row is no longer pending or running, and stays so,
\* although crashed clusters, a second chain, failing polls and stop requests
\* write stale rows (update_job_status, queue_job_update, ready, JobView.put).
EndIsNoticed ==
    \A j \in Jobs :
        (Ended(j) /\ start[j] = "done") ~> [](~Active(j) \/ j \in relapsed)

\* A stop request that was queued reaches the resource: the job ends there
\* even if a concurrent poll has overwritten the status "stopping" meanwhile
\* (JobView.put, stop_job, update_job_status).  Nothing is claimed once a call
\* has failed or a cluster has crashed: a stop is not tried twice.
StopReachesResource ==
    \A r \in Stops :
        stop[r].pc = "queued" ~> Ended(r[1]) \/ faults > 0 \/ crashes > 0

\* The last job out turns the workspace idle: when every job was started in
\* full and one of them is still going, the workspace is idle some time later;
\* two hooks that check at the same time never both leave it to the other
\* (queue_job_update).
WorkspaceGoesIdle ==
    (/\ \A j \in Jobs : start[j] = "done"
     /\ \E j \in Jobs : Active(j)) ~> ws = "idle"

\* The polling of a job that is being stopped goes on until the job is over:
\* a row does not say "stopping" for ever.
StoppingEnds == \A j \in Jobs : job[j].status = "stopping" ~> job[j].status # "stopping"

\* Resource usage is tracked: the core hours of every job that is over are
\* recorded some time after the start requests of the workspace are done.
HoursAreRecorded ==
    \A j \in Jobs :
        (job[j].status \in TerminalStatuses /\ \A i \in Jobs : start[i] = "done") ~> job[j].hours
=============================================================================
