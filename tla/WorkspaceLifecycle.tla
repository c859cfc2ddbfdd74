------------------------- MODULE WorkspaceLifecycle -------------------------
(***************************************************************************)
(* The life of one workspace: its row, its directory on the main storage,  *)
(* the requests that create, edit, fill, start and delete it               *)
(* (WorkspaceView), the tasks update_workspace and delete_workspace on the *)
(* "long" cluster, and the two writes a job makes to the workspace row: to *)
(* "active" when it is started, to "idle" in the hook when it is over.     *)
(*                                                                         *)
(* One step is one database statement or one change of the directory.  A   *)
(* handler or task holds the row it read and save() writes every field of  *)
(* it back; save() of a row that is gone inserts it again.  A task that a  *)
(* handler enqueues as its last effect is enqueued by the step before, as  *)
(* a queued task may wait for as long as it likes.                         *)
(***************************************************************************)
EXTENDS Naturals

CONSTANTS
    Edits,        \* put requests; each sets the name and writes one file
    Uploads,      \* put requests with "upload"; each writes one file
    Starts,       \* put requests with "start"; each starts one job
    Stopped,      \* the jobs that somebody asks to stop
    Deletes,      \* delete requests
    Workers,      \* the workers of the "long" cluster
    MaxRestarts,  \* bound on restarts of the "long" cluster
    MaxFaults     \* bound on directories that cannot be removed

Requests == Edits \union Uploads \union Starts \union Deletes

ASSUME WorkspaceAssumption ==
    /\ Stopped \subseteq Starts
    /\ Edits \intersect (Uploads \union Starts \union Deletes) = {}
    /\ Uploads \intersect (Starts \union Deletes) = {}
    /\ Starts \intersect Deletes = {}
    /\ MaxRestarts \in Nat /\ MaxFaults \in Nat

\* A file is named after the request that writes it.
Files == Edits \union Uploads

\* The row: its name is that of its creation or of an edit; path tells
\* whether file_path is set; listed is current_workspace_details.
Statuses == {"initializing", "idle", "active", "deleting", "error"}
Rows == [status : Statuses, name : {"created"} \union Edits, path : BOOLEAN, listed : SUBSET Files]
NewRow == [status |-> "initializing", name |-> "created", path |-> FALSE, listed |-> {}]

VARIABLES
    row,       \* the Workspace row; of no meaning while ~present
    present,   \* the row is in the table
    hasDir,    \* the directory exists
    disk,      \* the files in it
    post,      \* where the request that creates the workspace stands
    req,       \* the other requests: step and row in memory
    job,       \* the jobs of the workspace, as their rows tell
    hook,      \* queue_job_update for the end of each job
    updates, deletes,   \* tasks queued on the "long" cluster
    worker,    \* its workers: step and row in memory
    restarts, faults,   \* counters for MaxRestarts and MaxFaults
    exposed, overlap, lost, behind   \* history, see Record

storage == <<hasDir, disk>>
queue == <<updates, deletes>>
jobs == <<job, hook>>
bounds == <<restarts, faults>>
history == <<exposed, overlap, lost, behind>>
vars == <<row, present, storage, post, req, jobs, queue, worker, bounds, history>>

PostSteps == {"none", "created", "dir", "answered", "failed", "died"}
RequestSteps == {"idle", "read", "written", "checked", "job", "launched", "refused", "answered"}
WorkerSteps == {"idle", "scan", "save", "remove", "drop", "error"}

HistoryTypeOK ==
    /\ exposed \subseteq Starts
    /\ overlap \in BOOLEAN /\ lost \in BOOLEAN /\ behind \in BOOLEAN

TypeOK ==
    /\ row \in Rows
    /\ present \in BOOLEAN /\ hasDir \in BOOLEAN
    /\ disk \subseteq Files
    /\ post \in PostSteps
    /\ req \in [Requests -> [pc : RequestSteps, row : Rows]]
    /\ job \in [Starts -> {"none", "active", "stopping", "over", "orphan"}]
    /\ hook \in [Starts -> [pc : {"none", "due", "read", "release"}, row : Rows]]
    /\ updates \in Nat /\ deletes \in Nat
    /\ worker \in [Workers -> [pc : WorkerSteps, row : Rows]]
    /\ restarts \in 0 .. MaxRestarts /\ faults \in 0 .. MaxFaults
    /\ HistoryTypeOK

Running == {"active", "stopping"}
At(step) == [pc |-> step, row |-> NewRow]

Init ==
    /\ row = NewRow
    /\ present = FALSE
    /\ hasDir = FALSE
    /\ disk = {}
    /\ post = "none"
    /\ req = [r \in Requests |-> At("idle")]
    /\ job = [s \in Starts |-> "none"]
    /\ hook = [s \in Starts |-> At("none")]
    /\ updates = 0
    /\ deletes = 0
    /\ worker = [w \in Workers |-> At("idle")]
    /\ restarts = 0 /\ faults = 0
    /\ exposed = {} /\ overlap = FALSE /\ lost = FALSE /\ behind = FALSE

-----------------------------------------------------------------------------
\* Model.save(): an update of every field, or an insert if the row is gone.
Save(saved) == row' = saved /\ present' = TRUE

\* create_file and create_dir make the directories they need.  With an empty
\* file_path they work on the root of the storage, not on this directory.
Write(held, files) ==
    /\ hasDir' = (hasDir \/ held.path)
    /\ disk' = IF held.path THEN disk \union files ELSE disk

(* WorkspaceView.post                                                      *)

PostCreate ==
    /\ post = "none"
    /\ post' = "created"
    /\ Save(NewRow)
    /\ UNCHANGED <<storage, req, jobs, queue, worker, bounds>>

PostDir ==
    /\ post = "created"
    /\ post' = "dir"
    /\ hasDir' = TRUE
    /\ UNCHANGED <<row, present, disk, req, jobs, queue, worker, bounds>>

PostSave ==
    /\ post = "dir"
    /\ post' = "answered"
    /\ Save([NewRow EXCEPT !.status = "idle", !.path = TRUE])
    /\ updates' = updates + 1
    /\ UNCHANGED <<storage, req, jobs, deletes, worker, bounds>>

\* The directory, a file or a symlink of the request cannot be made: the row
\* is deleted and the request fails.
PostFails ==
    /\ post \in {"created", "dir"}
    /\ post' = "failed"
    /\ present' = FALSE
    /\ UNCHANGED <<row, storage, req, jobs, queue, worker, bounds>>

\* The web worker dies: the row stays as it was created.
PostDies ==
    /\ post \in {"created", "dir"}
    /\ post' = "died"
    /\ UNCHANGED <<row, present, storage, req, jobs, queue, worker, bounds>>

Post == PostCreate \/ PostDir \/ PostSave

-----------------------------------------------------------------------------
(* WorkspaceView.put and delete: a request reads the row, then works on it. *)

Going(r) == req[r].pc \notin {"idle", "refused", "answered"}
Accepted(r) == r \in Deletes /\ req[r].pc = "answered"

\* A client learns the id of the workspace from the answer to its creation,
\* or from the list of its workspaces if there never was one.
ReadRow(r) ==
    /\ req[r].pc = "idle" /\ post \in {"answered", "died"} /\ present
    /\ req' = [req EXCEPT ![r] = [pc |-> "read", row |-> row]]
    /\ UNCHANGED <<row, present, storage, post, jobs, queue, worker, bounds>>

WriteFile(r) ==
    /\ r \in Files /\ req[r].pc = "read"
    /\ Write(req[r].row, {r})
    /\ req' = [req EXCEPT ![r].pc = "written"]
    /\ UNCHANGED <<row, present, post, jobs, queue, worker, bounds>>

\* Slip: the listing that the edit has put together is taken for good, and no
\* update_workspace is enqueued.
EditSaveOnly(r) ==
    /\ r \in Edits /\ req[r].pc = "written"
    /\ Save([req[r].row EXCEPT !.name = r, !.listed = @ \union {r}])
    /\ req' = [req EXCEPT ![r].pc = "answered"]
    /\ UNCHANGED <<storage, post, jobs, queue, worker, bounds>>

EditSave(r) ==
    /\ r \in Edits /\ req[r].pc = "written"
    /\ Save([req[r].row EXCEPT !.name = r, !.listed = @ \union {r}])
    /\ updates' = updates + 1
    /\ req' = [req EXCEPT ![r].pc = "answered"]
    /\ UNCHANGED <<storage, post, jobs, deletes, worker, bounds>>

\* Slip: the update is left to the next edit.
UploadEnqueueNever(r) ==
    /\ r \in Uploads /\ req[r].pc = "written"
    /\ req' = [req EXCEPT ![r].pc = "checked"]
    /\ UNCHANGED <<row, present, storage, post, jobs, queue, worker, bounds>>

\* An upload enqueues the update before it saves the row.
UploadEnqueue(r) ==
    /\ r \in Uploads /\ req[r].pc = "written"
    /\ updates' = updates + 1
    /\ req' = [req EXCEPT ![r].pc = "checked"]
    /\ UNCHANGED <<row, present, storage, post, jobs, deletes, worker, bounds>>

UploadSave(r) ==
    /\ r \in Uploads /\ req[r].pc = "checked"
    /\ Save(req[r].row)
    /\ req' = [req EXCEPT ![r].pc = "answered"]
    /\ UNCHANGED <<storage, post, jobs, queue, worker, bounds>>

\* The Job row refers to the workspace, which must exist and have a path.
StartCreateJob(r) ==
    /\ r \in Starts /\ req[r].pc = "read"
    /\ IF req[r].row.path /\ present
       THEN req' = [req EXCEPT ![r].pc = "job"] /\ job' = [job EXCEPT ![r] = "active"]
       ELSE req' = [req EXCEPT ![r] = At("refused")] /\ UNCHANGED job
    /\ UNCHANGED <<row, present, storage, post, hook, queue, worker, bounds>>

\* The job gets a directory inside the workspace and is submitted.
StartLaunch(r) ==
    /\ r \in Starts /\ req[r].pc = "job"
    /\ Write(req[r].row, {})
    /\ req' = [req EXCEPT ![r].pc = "launched"]
    /\ UNCHANGED <<row, present, post, jobs, queue, worker, bounds>>

StartSave(r) ==
    /\ r \in Starts /\ req[r].pc = "launched"
    /\ Save([req[r].row EXCEPT !.status = "active"])
    /\ req' = [req EXCEPT ![r].pc = "answered"]
    /\ UNCHANGED <<storage, post, jobs, queue, worker, bounds>>

HasActiveJob == \E s \in Starts : job[s] = "active"

\* Slip: the jobs are not looked at.
DeleteCheckAlways(r) ==
    /\ r \in Deletes /\ req[r].pc = "read"
    /\ req' = [req EXCEPT ![r].pc = "checked"]
    /\ UNCHANGED <<row, present, storage, post, jobs, queue, worker, bounds>>

\* Slip: the task is queued before anything is checked.
DeleteQueuedFirst(r) ==
    /\ r \in Deletes /\ req[r].pc = "read"
    /\ req' = [req EXCEPT ![r] = IF HasActiveJob THEN At("refused") ELSE [@ EXCEPT !.pc = "checked"]]
    /\ deletes' = deletes + 1
    /\ UNCHANGED <<row, present, storage, post, jobs, updates, worker, bounds>>

DeleteCheck(r) ==
    /\ r \in Deletes /\ req[r].pc = "read"
    /\ req' = [req EXCEPT ![r] = IF HasActiveJob THEN At("refused") ELSE [@ EXCEPT !.pc = "checked"]]
    /\ UNCHANGED <<row, present, storage, post, jobs, queue, worker, bounds>>

\* The row is marked and the task enqueued, unless the path is not valid.
DeleteMark(r) ==
    /\ r \in Deletes /\ req[r].pc = "checked"
    /\ IF req[r].row.path
       THEN /\ Save([req[r].row EXCEPT !.status = "deleting"])
            /\ deletes' = deletes + 1
            /\ req' = [req EXCEPT ![r].pc = "answered"]
       ELSE /\ Save([req[r].row EXCEPT !.status = "error"])
            /\ req' = [req EXCEPT ![r] = At("refused")]
            /\ UNCHANGED deletes
    /\ UNCHANGED <<storage, post, jobs, updates, worker, bounds>>

RequestStep(r) ==
    WriteFile(r) \/ EditSave(r) \/ UploadEnqueue(r) \/ UploadSave(r)
    \/ StartCreateJob(r) \/ StartLaunch(r) \/ StartSave(r) \/ DeleteCheck(r) \/ DeleteMark(r)

-----------------------------------------------------------------------------
(* The jobs, as far as the workspace sees them: JobLifecycle has the rest. *)

\* JobView.put marks the job; it runs on until the resource has ended it.
JobStopping(s) ==
    /\ s \in Stopped /\ job[s] = "active" /\ req[s].pc \in {"launched", "answered"}
    /\ job' = [job EXCEPT ![s] = "stopping"]
    /\ UNCHANGED <<row, present, storage, post, req, hook, queue, worker, bounds>>

\* update_job_status finds the job over, and its hook is due.
JobEnds(s) ==
    /\ job[s] \in Running /\ req[s].pc \in {"launched", "answered"}
    /\ job' = [job EXCEPT ![s] = "over"]
    /\ hook' = [hook EXCEPT ![s].pc = "due"]
    /\ UNCHANGED <<row, present, storage, post, req, queue, worker, bounds>>

HookRead(s) ==
    /\ hook[s].pc = "due"
    /\ hook' = [hook EXCEPT ![s] = [pc |-> "read", row |-> row]]
    /\ UNCHANGED <<row, present, storage, post, req, job, queue, worker, bounds>>

HookCheck(s) ==
    /\ hook[s].pc = "read"
    /\ hook' = [hook EXCEPT ![s] = IF HasActiveJob \/ @.row.status = "deleting" THEN At("none")
                                   ELSE [@ EXCEPT !.pc = "release"]]
    /\ UNCHANGED <<row, present, storage, post, req, job, queue, worker, bounds>>

\* Slip: the workspace gets the status of its job.
HookReleaseComplete(s) ==
    /\ hook[s].pc = "release"
    /\ Save([hook[s].row EXCEPT !.status = "complete"])
    /\ updates' = updates + 1
    /\ hook' = [hook EXCEPT ![s] = At("none")]
    /\ UNCHANGED <<storage, post, req, job, deletes, worker, bounds>>

HookRelease(s) ==
    /\ hook[s].pc = "release"
    /\ Save([hook[s].row EXCEPT !.status = "idle"])
    /\ updates' = updates + 1
    /\ hook' = [hook EXCEPT ![s] = At("none")]
    /\ UNCHANGED <<storage, post, req, job, deletes, worker, bounds>>

HookStep(s) == HookRead(s) \/ HookCheck(s) \/ HookRelease(s)

-----------------------------------------------------------------------------
(* The tasks of the "long" cluster.                                        *)

\* A task that does not find the row raises, and is done.
Take(w, step) == worker' = [worker EXCEPT ![w] = IF present THEN [pc |-> step, row |-> row] ELSE @]

UpdateTake(w) ==
    /\ worker[w].pc = "idle" /\ updates > 0
    /\ updates' = updates - 1
    /\ Take(w, "scan")
    /\ UNCHANGED <<row, present, storage, post, req, jobs, deletes, bounds>>

\* The directory is read; get_dir_size raises if there is none.  An empty
\* file_path has it read the root of the storage: files of other workspaces.
UpdateScan(w) ==
    LET held == worker[w].row IN
    /\ worker[w].pc = "scan"
    /\ worker' = [worker EXCEPT ![w] =
           IF held.path /\ ~hasDir THEN At("idle")
           ELSE [pc |-> "save", row |-> [held EXCEPT !.listed = IF held.path THEN disk ELSE {}]]]
    /\ UNCHANGED <<row, present, storage, post, req, jobs, queue, bounds>>

UpdateSave(w) ==
    /\ worker[w].pc = "save"
    /\ Save(worker[w].row)
    /\ worker' = [worker EXCEPT ![w] = At("idle")]
    /\ UNCHANGED <<storage, post, req, jobs, queue, bounds>>

DeleteTake(w) ==
    /\ worker[w].pc = "idle" /\ deletes > 0
    /\ deletes' = deletes - 1
    /\ Take(w, "remove")
    /\ UNCHANGED <<row, present, storage, post, req, jobs, updates, bounds>>

Fault == faults < MaxFaults /\ faults' = faults + 1

\* rmtree leaves what it cannot remove, and says nothing.
RemoveTree ==
    \/ hasDir' = FALSE /\ disk' = {} /\ UNCHANGED faults
    \/ Fault /\ disk' \in SUBSET disk /\ UNCHANGED hasDir

\* delete_dir raises if the path is empty, the directory does not exist or
\* is not the user's own.
DeleteDir(w) ==
    LET found == worker[w].row.path /\ hasDir IN
    /\ worker[w].pc = "remove"
    /\ \/ found /\ RemoveTree /\ worker' = [worker EXCEPT ![w].pc = "drop"]
       \/ /\ IF found THEN Fault ELSE UNCHANGED faults
          /\ worker' = [worker EXCEPT ![w].pc = "error"] /\ UNCHANGED storage
    /\ UNCHANGED <<row, present, post, req, jobs, queue, restarts>>

\* Slip: the row stays when its directory is gone.
DeleteRowKept(w) ==
    /\ worker[w].pc = "drop"
    /\ worker' = [worker EXCEPT ![w] = At("idle")]
    /\ UNCHANGED <<row, present, storage, post, req, jobs, queue, bounds>>

\* The jobs lose their reference to the workspace (SET_NULL): the polling of
\* one that still runs raises at every turn, and so does a hook that is due.
DeleteRow(w) ==
    /\ worker[w].pc = "drop"
    /\ present' = FALSE
    /\ job' = [s \in Starts |-> IF job[s] \in Running THEN "orphan" ELSE job[s]]
    /\ hook' = [s \in Starts |-> IF hook[s].pc = "due" THEN At("none") ELSE hook[s]]
    /\ worker' = [worker EXCEPT ![w] = At("idle")]
    /\ UNCHANGED <<row, storage, post, req, queue, bounds>>

DeleteErrors(w) ==
    /\ worker[w].pc = "error"
    /\ Save([worker[w].row EXCEPT !.status = "error"])
    /\ worker' = [worker EXCEPT ![w] = At("idle")]
    /\ UNCHANGED <<storage, post, req, jobs, queue, bounds>>

WorkerStep(w) ==
    UpdateTake(w) \/ UpdateScan(w) \/ UpdateSave(w)
    \/ DeleteTake(w) \/ DeleteDir(w) \/ DeleteRow(w) \/ DeleteErrors(w)

\* The cluster crashes and boots: tasks in execution die and the queue is
\* purged; only the polling of jobs is queued again.
Restart ==
    /\ restarts < MaxRestarts
    /\ restarts' = restarts + 1
    /\ worker' = [w \in Workers |-> At("idle")]
    /\ updates' = 0
    /\ deletes' = 0
    /\ UNCHANGED <<row, present, storage, post, req, jobs, faults>>

-----------------------------------------------------------------------------
(* History, for the properties: no step of the code depends on it.         *)

Removing == deletes > 0 \/ \E w \in Workers : worker[w].pc \in {"remove", "drop", "error"}
PastCheck == \E d \in Deletes : req[d].pc \in {"checked", "answered"}

\* The jobs that the check of a deletion does not see: those created when a
\* deletion is past its check, and those that somebody has asked to stop.
Exposed == {s \in Starts : \/ job[s] # "active" /\ job'[s] = "active" /\ PastCheck
                           \/ job'[s] = "stopping"}

\* Between the removal of the directory and that of the row, somebody else
\* has the row in memory.
Overlap ==
    \E w \in Workers :
        /\ worker[w].pc = "drop"
        /\ \/ \E r \in Requests : Going(r)
           \/ \E s \in Starts : hook[s].pc \in {"read", "release"}
           \/ \E v \in Workers \ {w} : worker[v].pc # "idle"

\* What update_workspace has listed may not be what is in the directory: two
\* of them run at a time; one is lost or raises; another save puts back the
\* listing that its request or task has read, or the row; a deletion has
\* emptied the directory.
Updating(w) == worker[w].pc \in {"scan", "save"}
Stores(w) == worker[w].pc = "save" /\ worker'[w].pc = "idle" /\ row' = worker[w].row
PutsBack ==
    /\ row'.listed # row.listed
    /\ \/ \E r \in Requests : row'.listed = req[r].row.listed
       \/ \E w \in Workers : worker[w].pc = "error" /\ row'.listed = worker[w].row.listed
FallsBehind ==
    \/ \E v, w \in Workers : v # w /\ Updating(v) /\ ~Updating(w) /\ worker'[w].pc = "scan"
    \/ updates' < updates /\ \A w \in Workers : worker'[w].pc = "scan" => Updating(w)
    \/ \E w \in Workers : Updating(w) /\ worker'[w].pc = "idle" /\ ~Stores(w)
    \/ (PutsBack \/ present' # present) /\ \A w \in Workers : ~Stores(w)
    \/ ~(disk \subseteq disk')

\* All is well again as soon as the next update_workspace is enqueued.
Record ==
    /\ exposed' = exposed \union Exposed
    /\ overlap' = (overlap \/ Overlap')
    /\ lost' = (lost \/ (restarts' # restarts /\ Removing))
    /\ behind' = (updates' <= updates /\ (behind \/ FallsBehind))

Step ==
    \/ Post \/ PostFails \/ PostDies
    \/ \E r \in Requests : ReadRow(r) \/ RequestStep(r)
    \/ \E s \in Starts : JobStopping(s) \/ JobEnds(s) \/ HookStep(s)
    \/ \E w \in Workers : WorkerStep(w)
    \/ Restart

Next == Step /\ Record

Spec == Init /\ [][Next]_vars

\* Requests, hooks and workers run on whenever they can.
FairSpec ==
    /\ Spec
    /\ WF_vars(Post /\ Record)
    /\ \A r \in Requests : WF_vars(RequestStep(r) /\ Record)
    /\ \A s \in Starts : WF_vars(HookStep(s) /\ Record)
    /\ \A w \in Workers : WF_vars(WorkerStep(w) /\ Record)

-----------------------------------------------------------------------------
(* Properties.                                                             *)

\* No request, hook or task is under way.
Quiet ==
    /\ post = "answered"
    /\ \A r \in Requests : ~Going(r)
    /\ \A s \in Starts : hook[s].pc = "none"
    /\ updates = 0 /\ deletes = 0
    /\ \A w \in Workers : worker[w].pc = "idle"

\* Directory synchronization: when everything has settled, the row lists what
\* is in the directory, whatever requests, jobs and deletions ran at the same
\* time.  The cases in which update_workspace does not see to it are those of
\* FallsBehind, and the next one that is enqueued mends them
\* (WorkspaceView.put, queue_job_update, update_workspace).
ListingMatchesDisk == Quiet /\ present /\ ~behind => row.listed = disk

\* ListingMatchesDisk strengthened to an inductive invariant: what is written
\* is scanned later, unless the one task that runs has scanned it already,
\* or has saved what it scanned.
ScanIsLate ==
    \/ \E r \in Files : req[r].pc = "written"
    \/ /\ \A w \in Workers : worker[w].pc = "save" => worker[w].row.listed = disk
       /\ (\A w \in Workers : ~Updating(w)) => row.listed = disk
ListingInv ==
    post = "answered" /\ ~behind /\ updates = 0 =>
        /\ \A v, w \in Workers : Updating(v) /\ Updating(w) => v = w
        /\ ScanIsLate

\* "queued for deletion": the row and the directory are gone in the end and
\* nobody brings them back, however many tasks run and whoever read the row
\* before - unless somebody has it in memory while they are removed, or a
\* restart loses the task.  What rmtree could not remove stays, and so does
\* the row of a directory that is found to be somebody else's
\* (delete_workspace, WorkspaceView.delete).
DeletionCompletes ==
    \A r \in Deletes : Accepted(r) ~>
        \/ overlap \/ lost
        \/ [](~present /\ (hasDir => faults > 0))
        \/ [](present /\ faults > 0)

\* The same without the exceptions: a deletion that is accepted is final.
DeletionIsFinal == \A r \in Deletes : Accepted(r) ~> [](~present /\ ~hasDir)

\* Nothing is lost unasked: until a deletion is accepted, whatever requests,
\* tasks and restarts run at the same time, the row and the directory of a
\* workspace stay, and with it every file that a request has written.
NothingLostUnasked ==
    post = "answered" /\ (\A d \in Deletes : ~Accepted(d)) =>
        /\ present /\ hasDir
        /\ \A r \in Files : req[r].pc \in {"written", "checked", "answered"} => r \in disk

\* NothingLostUnasked strengthened to an inductive invariant: the tasks that
\* remove things come from an accepted deletion; nothing is under way before
\* the creation is answered; and every copy of the row, whoever holds it and
\* however stale it is, has the path that the creation has set, or none if
\* the creation was never answered.
RemovalIsAccepted == Removing => \E d \in Deletes : Accepted(d)
NothingBegun ==
    /\ \A r \in Requests : req[r].pc = "idle"
    /\ \A s \in Starts : hook[s].pc = "none" /\ job[s] = "none"
    /\ \A w \in Workers : worker[w].pc = "idle"
    /\ updates = 0 /\ deletes = 0
PathKnown ==
    /\ row.path
    /\ \A r \in Requests : req[r].pc \notin {"idle", "refused"} => req[r].row.path
    /\ \A s \in Starts : hook[s].pc \in {"read", "release"} => hook[s].row.path
    /\ \A w \in Workers : worker[w].pc # "idle" => worker[w].row.path
NothingLostInv ==
    /\ NothingLostUnasked
    /\ RemovalIsAccepted
    /\ post \notin {"answered", "died"} => NothingBegun
    /\ post = "answered" => PathKnown
    /\ post = "dir" => hasDir

\* The jobs keep their workspace: no workspace disappears, row or directory,
\* under a job that runs, whatever requests and tasks run at the same time -
\* unless it was created when a deletion was past its check, or somebody has
\* asked to stop it: the check looks for neither (WorkspaceView.delete).
JobsKeepWorkspace ==
    \A s \in Starts \ exposed :
        /\ job[s] # "orphan"
        /\ job[s] \in Running => present /\ hasDir

\* JobsKeepWorkspace strengthened to an inductive invariant: no deletion is
\* past its check while a job runs that the check would have seen; and a
\* workspace whose creation was not answered has no path, and no jobs.
NoPath ==
    /\ ~row.path
    /\ \A r \in Requests : ~req[r].row.path
    /\ \A s \in Starts : ~hook[s].row.path /\ job[s] = "none"
    /\ \A w \in Workers : ~worker[w].row.path
JobsKeptInv ==
    /\ \A s \in Starts \ exposed :
           /\ job[s] \in {"none", "active", "over"}
           /\ job[s] = "active" => ~PastCheck
    /\ post # "answered" => NoPath
=============================================================================
