---------------------- MODULE WorkspaceLifecycle_proofs ----------------------
(***************************************************************************)
(* Proofs about WorkspaceLifecycle: its type invariant, for every set of   *)
(* requests, jobs and workers; that nothing of a workspace is lost before  *)
(* its deletion is accepted; that the deletion spares the jobs which its   *)
(* check can see; and that the row lists what is in the directory once     *)
(* everything has settled and nothing was enqueued in vain.                *)
(***************************************************************************)
EXTENDS WorkspaceLifecycle, TLAPS

-----------------------------------------------------------------------------
(* Type correctness.                                                       *)

LEMMA NewRowType == NewRow \in Rows
  BY DEF NewRow, Rows, Statuses

LEMMA HistoryType == HistoryTypeOK /\ Record => HistoryTypeOK'
  BY DEF HistoryTypeOK, Record, Exposed

LEMMA PostType == TypeOK /\ HistoryTypeOK' /\ (Post \/ PostFails \/ PostDies) => TypeOK'
  <1>. SUFFICES ASSUME TypeOK, HistoryTypeOK', Post \/ PostFails \/ PostDies PROVE TypeOK'
    OBVIOUS
  <1>. USE NewRowType DEF TypeOK, PostSteps, storage, queue, jobs, bounds
  <1>1. CASE PostCreate
    BY <1>1 DEF PostCreate, Save
  <1>2. CASE PostDir
    BY <1>2 DEF PostDir
  <1>3. CASE PostSave
    <2>1. row' \in Rows
      BY <1>3 DEF PostSave, Save, NewRow, Rows, Statuses
    <2>. QED
      BY <1>3, <2>1 DEF PostSave, Save
  <1>4. CASE PostFails
    BY <1>4 DEF PostFails
  <1>5. CASE PostDies
    BY <1>5 DEF PostDies
  <1>. QED
    BY <1>1, <1>2, <1>3, <1>4, <1>5 DEF Post

LEMMA RequestType ==
  ASSUME TypeOK, HistoryTypeOK', NEW r \in Requests, ReadRow(r) \/ RequestStep(r)
  PROVE  TypeOK'
  <1>. USE NewRowType DEF TypeOK, RequestSteps, storage, queue, jobs, bounds, Write, Save, At
  <1>1. CASE ReadRow(r)
    BY <1>1 DEF ReadRow
  <1>2. CASE WriteFile(r)
    BY <1>2 DEF WriteFile
  <1>3. CASE EditSave(r)
    <2>1. row' \in Rows
      BY <1>3 DEF EditSave, Rows, Files
    <2>. QED
      BY <1>3, <2>1 DEF EditSave
  <1>4. CASE UploadEnqueue(r)
    BY <1>4 DEF UploadEnqueue
  <1>5. CASE UploadSave(r)
    BY <1>5 DEF UploadSave
  <1>6. CASE StartCreateJob(r)
    <2>1. CASE req[r].row.path /\ present
      <3>1. req' \in [Requests -> [pc : RequestSteps, row : Rows]]
        BY <1>6, <2>1 DEF StartCreateJob
      <3>2. job' \in [Starts -> {"none", "active", "stopping", "over", "orphan"}]
        BY <1>6, <2>1 DEF StartCreateJob
      <3>. QED
        BY <1>6, <3>1, <3>2 DEF StartCreateJob
    <2>2. CASE ~(req[r].row.path /\ present)
      BY <1>6, <2>2 DEF StartCreateJob
    <2>. QED
      BY <2>1, <2>2
  <1>7. CASE StartLaunch(r)
    BY <1>7 DEF StartLaunch
  <1>8. CASE StartSave(r)
    <2>1. row' \in Rows
      BY <1>8 DEF StartSave, Rows, Statuses
    <2>. QED
      BY <1>8, <2>1 DEF StartSave
  <1>9. CASE DeleteCheck(r)
    BY <1>9 DEF DeleteCheck
  <1>10. CASE DeleteMark(r)
    <2>1. row' \in Rows
      BY <1>10 DEF DeleteMark, Rows, Statuses
    <2>2. CASE req[r].row.path
      BY <1>10, <2>1, <2>2 DEF DeleteMark
    <2>3. CASE ~req[r].row.path
      BY <1>10, <2>1, <2>3 DEF DeleteMark
    <2>. QED
      BY <2>2, <2>3
  <1>. QED
    BY <1>1, <1>2, <1>3, <1>4, <1>5, <1>6, <1>7, <1>8, <1>9, <1>10 DEF RequestStep

LEMMA JobType ==
  ASSUME TypeOK, HistoryTypeOK', NEW s \in Starts, JobStopping(s) \/ JobEnds(s) \/ HookStep(s)
  PROVE  TypeOK'
  <1>. USE NewRowType DEF TypeOK, storage, queue, jobs, bounds, Save, At
  <1>1. CASE JobStopping(s)
    BY <1>1 DEF JobStopping
  <1>2. CASE JobEnds(s)
    BY <1>2 DEF JobEnds
  <1>3. CASE HookRead(s)
    BY <1>3 DEF HookRead
  <1>4. CASE HookCheck(s)
    BY <1>4 DEF HookCheck
  <1>5. CASE HookRelease(s)
    <2>1. row' \in Rows
      BY <1>5 DEF HookRelease, Rows, Statuses
    <2>. QED
      BY <1>5, <2>1 DEF HookRelease
  <1>. QED
    BY <1>1, <1>2, <1>3, <1>4, <1>5 DEF HookStep

LEMMA WorkerType ==
  ASSUME TypeOK, HistoryTypeOK', NEW w \in Workers, WorkerStep(w)
  PROVE  TypeOK'
  <1>. USE NewRowType DEF TypeOK, WorkerSteps, storage, queue, jobs, bounds, Save, At
  <1>1. CASE UpdateTake(w)
    BY <1>1 DEF UpdateTake, Take
  <1>2. CASE UpdateScan(w)
    <2>1. [worker[w].row EXCEPT !.listed = IF worker[w].row.path THEN disk ELSE {}] \in Rows
      BY DEF Rows
    <2>. QED
      BY <1>2, <2>1 DEF UpdateScan
  <1>3. CASE UpdateSave(w)
    BY <1>3 DEF UpdateSave
  <1>4. CASE DeleteTake(w)
    BY <1>4 DEF DeleteTake, Take
  <1>5. CASE DeleteDir(w)
    <2>1. worker' \in [Workers -> [pc : WorkerSteps, row : Rows]]
      <3>1. PICK step \in {"drop", "error"} : worker' = [worker EXCEPT ![w].pc = step]
        BY <1>5, Zenon DEF DeleteDir
      <3>2. step \in WorkerSteps /\ worker \in [Workers -> [pc : WorkerSteps, row : Rows]]
        OBVIOUS
      <3>. QED
        BY ONLY <3>1, <3>2
    <2>2. hasDir' \in BOOLEAN /\ disk' \subseteq Files
      BY <1>5 DEF DeleteDir, RemoveTree
    <2>3. faults' = faults \/ (faults < MaxFaults /\ faults' = faults + 1)
      BY <1>5 DEF DeleteDir, RemoveTree, Fault
    <2>4. faults' \in 0 .. MaxFaults
      BY <2>3, WorkspaceAssumption
    <2>. QED
      BY <1>5, <2>1, <2>2, <2>4 DEF DeleteDir
  <1>6. CASE DeleteRow(w)
    BY <1>6 DEF DeleteRow
  <1>7. CASE DeleteErrors(w)
    <2>1. row' \in Rows
      BY <1>7 DEF DeleteErrors, Rows, Statuses
    <2>. QED
      BY <1>7, <2>1 DEF DeleteErrors
  <1>. QED
    BY <1>1, <1>2, <1>3, <1>4, <1>5, <1>6, <1>7 DEF WorkerStep

LEMMA RestartType == TypeOK /\ HistoryTypeOK' /\ Restart => TypeOK'
  BY WorkspaceAssumption, NewRowType DEF TypeOK, Restart, WorkerSteps, storage, jobs, bounds, At

\* Every reachable state of the workspace is well typed: no handler or task
\* saves a row with a status that Workspace.Status does not have.
THEOREM WorkspaceTypeCorrect == Spec => []TypeOK
  <1>1. Init => TypeOK
    <2>. SUFFICES ASSUME Init PROVE TypeOK
      OBVIOUS
    <2>0. HistoryTypeOK
      BY DEF Init, HistoryTypeOK
    <2>1. restarts \in 0 .. MaxRestarts /\ faults \in 0 .. MaxFaults
      BY WorkspaceAssumption DEF Init
    <2>2. /\ req \in [Requests -> [pc : RequestSteps, row : Rows]]
          /\ worker \in [Workers -> [pc : WorkerSteps, row : Rows]]
          /\ hook \in [Starts -> [pc : {"none", "due", "read", "release"}, row : Rows]]
      BY NewRowType DEF Init, At, RequestSteps, WorkerSteps
    <2>. QED
      BY <2>0, <2>1, <2>2, NewRowType DEF Init, TypeOK, PostSteps
  <1>2. TypeOK /\ [Next]_vars => TypeOK'
    <2>. SUFFICES ASSUME TypeOK, [Next]_vars PROVE TypeOK'
      OBVIOUS
    <2>1. CASE UNCHANGED vars
      BY <2>1 DEF vars, TypeOK, HistoryTypeOK, storage, queue, jobs, bounds, history
    <2>2. CASE Next
      BY <2>2, HistoryType, PostType, RequestType, JobType, WorkerType, RestartType DEF Next, Step, TypeOK
    <2>. QED
      BY <2>1, <2>2
  <1>. QED
    BY <1>1, <1>2, PTL DEF Spec

-----------------------------------------------------------------------------
(* Nothing is lost unasked: NothingLostInv is inductive.                   *)

LEMMA PostLosesNothing ==
  ASSUME TypeOK, NothingLostInv, Post \/ PostFails \/ PostDies
  PROVE  NothingLostInv'
  <1>. USE DEF NothingLostInv, storage, queue, jobs, bounds, Save
  <1>1. NothingBegun /\ UNCHANGED <<disk, req, jobs, deletes, worker>>
    BY DEF Post, PostCreate, PostDir, PostSave, PostFails, PostDies
  <1>2. RemovalIsAccepted'
    BY <1>1 DEF NothingBegun, RemovalIsAccepted, Removing
  <1>3. post' \notin {"answered", "died"} => NothingBegun'
    BY <1>1 DEF NothingBegun, Post, PostCreate, PostDir, PostSave, PostFails, PostDies
  <1>4. post' = "answered" => present' /\ hasDir' /\ row'.path
    BY DEF Post, PostCreate, PostDir, PostSave, PostFails, PostDies, NewRow
  <1>5. post' = "answered" => PathKnown' /\ NothingLostUnasked'
    BY <1>1, <1>4 DEF NothingBegun, PathKnown, NothingLostUnasked, Files, Requests
  <1>6. post' = "dir" => hasDir'
    BY DEF Post, PostCreate, PostDir, PostSave, PostFails, PostDies
  <1>. QED
    BY <1>2, <1>3, <1>5, <1>6 DEF NothingLostUnasked

LEMMA RequestLosesNothing ==
  ASSUME TypeOK, NothingLostInv, NEW r \in Requests, ReadRow(r) \/ RequestStep(r)
  PROVE  NothingLostInv'
  <1>. USE DEF NothingLostInv, storage, queue, jobs, bounds, Save
  <1>1. /\ post \in {"answered", "died"} /\ post' = post
        /\ worker' = worker /\ hook' = hook
        /\ \A q \in Requests \ {r} : req'[q] = req[q]
        /\ ~Accepted(r)
    BY DEF ReadRow, RequestStep, WriteFile, EditSave, UploadEnqueue, UploadSave,
           StartCreateJob, StartLaunch, StartSave, DeleteCheck, DeleteMark, NothingBegun,
           Accepted, TypeOK
  <1>2. RemovalIsAccepted'
    <2>1. CASE DeleteMark(r) /\ req[r].row.path
      <3>1. r \in Deletes /\ Accepted(r)'
        BY <2>1 DEF DeleteMark, Accepted, TypeOK
      <3>. QED
        BY <3>1 DEF RemovalIsAccepted, Removing
    <2>2. CASE ~(DeleteMark(r) /\ req[r].row.path)
      <3>1. deletes' = deletes
        BY <2>2 DEF ReadRow, RequestStep, WriteFile, EditSave, UploadEnqueue, UploadSave,
                    StartCreateJob, StartLaunch, StartSave, DeleteCheck, DeleteMark
      <3>2. \A d \in Deletes : Accepted(d) => Accepted(d)'
        BY <1>1 DEF Accepted, Requests
      <3>. QED
        BY <1>1, <3>1, <3>2 DEF RemovalIsAccepted, Removing
    <2>. QED
      BY <2>1, <2>2
  \* The row goes from the table to a request and back, never without a path.
  <1>3. ASSUME post = "answered"
        PROVE  PathKnown'
    <2>0. row.path /\ (req[r].pc \notin {"idle", "refused"} => req[r].row.path) /\ req[r].row \in Rows
      BY <1>3 DEF PathKnown, TypeOK
    <2>1. row'.path
      <3>1. CASE row' = row
        BY <2>0, <3>1
      <3>2. CASE EditSave(r) \/ UploadSave(r) \/ StartSave(r)
        BY <2>0, <3>2 DEF EditSave, UploadSave, StartSave, Rows
      <3>3. CASE DeleteMark(r)
        BY <2>0, <3>3 DEF DeleteMark, Rows
      <3>. QED
        BY <3>1, <3>2, <3>3
           DEF ReadRow, RequestStep, WriteFile, UploadEnqueue, StartCreateJob, StartLaunch, DeleteCheck
    <2>2. req'[r].pc \notin {"idle", "refused"} => req'[r].row.path
      BY <1>3 DEF PathKnown, ReadRow, RequestStep, WriteFile, EditSave, UploadEnqueue, UploadSave, At,
                  StartCreateJob, StartLaunch, StartSave, DeleteCheck, DeleteMark, TypeOK
    <2>. QED
      BY <1>1, <1>3, <2>1, <2>2 DEF PathKnown
  <1>4. NothingLostUnasked'
    <2>. SUFFICES ASSUME post = "answered", \A d \in Deletes : ~Accepted(d)'
                  PROVE  /\ present' /\ hasDir'
                         /\ \A q \in Files : req'[q].pc \in {"written", "checked", "answered"} => q \in disk'
      BY <1>1 DEF NothingLostUnasked
    <2>1. \A d \in Deletes : ~Accepted(d)
      BY <1>1 DEF Accepted, Requests
    <2>2. /\ present /\ hasDir
          /\ \A q \in Files : req[q].pc \in {"written", "checked", "answered"} => q \in disk
      BY <2>1 DEF NothingLostUnasked
    <2>3. present' /\ hasDir' /\ disk \subseteq disk'
      BY <2>2 DEF ReadRow, RequestStep, WriteFile, EditSave, UploadEnqueue, UploadSave, Write,
                  StartCreateJob, StartLaunch, StartSave, DeleteCheck, DeleteMark
    <2>4. CASE WriteFile(r)
      <3>1. r \in disk'
        BY <2>4 DEF PathKnown, WriteFile, Write
      <3>. QED
        BY <1>1, <2>2, <2>3, <3>1 DEF Files, Requests
    <2>5. CASE ~WriteFile(r)
      <3>1. ASSUME r \in Files, req'[r].pc \in {"written", "checked", "answered"}
            PROVE  req[r].pc \in {"written", "checked", "answered"}
        BY <2>5, <3>1, WorkspaceAssumption
           DEF ReadRow, RequestStep, EditSave, UploadEnqueue, UploadSave, StartCreateJob,
               StartLaunch, StartSave, DeleteCheck, DeleteMark, TypeOK, Files
      <3>. QED
        BY <1>1, <2>2, <2>3, <3>1 DEF Files, Requests
    <2>. QED
      BY <2>4, <2>5
  <1>. QED
    BY <1>1, <1>2, <1>3, <1>4

LEMMA JobLosesNothing ==
  ASSUME TypeOK, NothingLostInv, NEW s \in Starts, JobStopping(s) \/ JobEnds(s) \/ HookStep(s)
  PROVE  NothingLostInv'
  <1>. USE DEF NothingLostInv, storage, queue, bounds, Save
  <1>1. /\ UNCHANGED <<post, req, deletes, worker, storage>>
        /\ post \in {"answered", "died"}
        /\ present => present'
    BY DEF JobStopping, JobEnds, HookStep, HookRead, HookCheck, HookRelease, NothingBegun, Running
  <1>2. RemovalIsAccepted' /\ NothingLostUnasked'
    BY <1>1 DEF RemovalIsAccepted, Removing, NothingLostUnasked, Accepted
  <1>3. ASSUME post = "answered"
        PROVE  PathKnown'
    <2>1. row'.path
      BY <1>3 DEF PathKnown, JobStopping, JobEnds, HookStep, HookRead, HookCheck, HookRelease,
                  TypeOK, Rows
    <2>2. \A i \in Starts : hook'[i].pc \in {"read", "release"} => hook'[i].row.path
      BY <1>3 DEF PathKnown, JobStopping, JobEnds, HookStep, HookRead, HookCheck, HookRelease,
                  TypeOK, At
    <2>. QED
      BY <1>1, <1>3, <2>1, <2>2 DEF PathKnown
  <1>. QED
    BY <1>1, <1>2, <1>3

LEMMA WorkerLosesNothing ==
  ASSUME TypeOK, NothingLostInv, NEW w \in Workers, WorkerStep(w)
  PROVE  NothingLostInv'
  <1>. USE DEF NothingLostInv, storage, queue, jobs, bounds, Save
  <1>1. UNCHANGED <<post, req>> /\ post \in {"answered", "died"}
    BY DEF WorkerStep, UpdateTake, UpdateScan, UpdateSave, DeleteTake, DeleteDir, DeleteRow,
           DeleteErrors, NothingBegun, TypeOK
  <1>2. RemovalIsAccepted'
    <2>1. ASSUME deletes' > 0 \/ \E v \in Workers : worker'[v].pc \in {"remove", "drop", "error"}
          PROVE  deletes > 0 \/ \E v \in Workers : worker[v].pc \in {"remove", "drop", "error"}
      BY <2>1 DEF WorkerStep, UpdateTake, UpdateScan, UpdateSave, DeleteTake, DeleteDir, DeleteRow,
                  DeleteErrors, Take, At, TypeOK
    <2>. QED
      BY <1>1, <2>1 DEF RemovalIsAccepted, Removing, Accepted
  <1>3. ASSUME post = "answered"
        PROVE  PathKnown'
    <2>1. row'.path
      BY <1>3 DEF PathKnown, WorkerStep, UpdateTake, UpdateScan, UpdateSave, DeleteTake, DeleteDir,
                  DeleteRow, DeleteErrors, TypeOK, Rows
    <2>2. \A v \in Workers : worker'[v].pc # "idle" => worker'[v].row.path
      <3>1. \A v \in Workers : v # w => worker'[v] = worker[v]
        BY DEF WorkerStep, UpdateTake, UpdateScan, UpdateSave, DeleteTake, DeleteDir,
               DeleteRow, DeleteErrors, TypeOK, Take
      <3>2. worker'[w].pc # "idle" => worker'[w].row.path
        <4>1. row.path /\ (worker[w].pc # "idle" => worker[w].row.path)
          BY <1>3 DEF PathKnown
        <4>2. CASE UpdateTake(w) \/ DeleteTake(w)
          BY <4>1, <4>2 DEF UpdateTake, DeleteTake, Take, TypeOK
        <4>3. CASE UpdateScan(w)
          <5>1. [worker[w].row EXCEPT !.listed = IF worker[w].row.path THEN disk ELSE {}].path
                = worker[w].row.path
            BY DEF TypeOK, Rows
          <5>. QED
            BY <4>1, <4>3, <5>1 DEF UpdateScan, At, TypeOK
        <4>4. CASE UpdateSave(w) \/ DeleteDir(w) \/ DeleteRow(w) \/ DeleteErrors(w)
          BY <4>1, <4>4 DEF UpdateSave, DeleteDir, DeleteRow, DeleteErrors, At, TypeOK
        <4>. QED
          BY <4>2, <4>3, <4>4 DEF WorkerStep
      <3>. QED
        BY <1>3, <3>1, <3>2 DEF PathKnown
    <2>3. \A s \in Starts : hook'[s].pc \in {"read", "release"} => hook'[s].row.path
      BY <1>3 DEF PathKnown, WorkerStep, UpdateTake, UpdateScan, UpdateSave, DeleteTake, DeleteDir,
                  DeleteRow, DeleteErrors, TypeOK, At
    <2>. QED
      BY <1>1, <1>3, <2>1, <2>2, <2>3 DEF PathKnown
  \* Only a removal takes the row or the directory away.
  <1>4. NothingLostUnasked'
    <2>. SUFFICES ASSUME post = "answered", \A d \in Deletes : ~Accepted(d)
                  PROVE  (present => present') /\ (hasDir => hasDir') /\ disk' = disk
      BY <1>1 DEF NothingLostUnasked, Accepted
    <2>. QED
      BY DEF RemovalIsAccepted, Removing, WorkerStep, UpdateTake, UpdateScan, UpdateSave, DeleteTake,
             DeleteDir, DeleteRow, DeleteErrors
  <1>. QED
    BY <1>1, <1>2, <1>3, <1>4

LEMMA RestartLosesNothing == TypeOK /\ NothingLostInv /\ Restart => NothingLostInv'
  BY DEF NothingLostInv, NothingLostUnasked, RemovalIsAccepted, Removing, NothingBegun, PathKnown, Accepted,
         TypeOK, Restart, storage, jobs, bounds, At

\* Every removal of a directory goes back to a deletion that was accepted, and
\* every row in the memory of a request, hook or task knows the path.
THEOREM NothingLostInvHolds == Spec => []NothingLostInv
  <1>1. Init => NothingLostInv
    BY DEF Init, NothingLostInv, NothingLostUnasked, RemovalIsAccepted, Removing, NothingBegun, At
  <1>2. TypeOK /\ NothingLostInv /\ [Next]_vars => NothingLostInv'
    <2>. SUFFICES ASSUME TypeOK, NothingLostInv, [Next]_vars PROVE NothingLostInv'
      OBVIOUS
    <2>1. CASE UNCHANGED vars
      BY <2>1 DEF vars, storage, queue, jobs, NothingLostInv, NothingLostUnasked, Removing, RemovalIsAccepted, NothingBegun,
                  PathKnown, Accepted
    <2>2. CASE Next
      BY <2>2, PostLosesNothing, RequestLosesNothing, JobLosesNothing, WorkerLosesNothing,
         RestartLosesNothing DEF Next, Step
    <2>. QED
      BY <2>1, <2>2
  <1>. QED
    BY <1>1, <1>2, WorkspaceTypeCorrect, PTL DEF Spec

\* Nothing is lost unasked, for any number of requests at the same time, jobs
\* that are stopped or not, workers and restarts: a workspace that was created
\* keeps its row, its directory and every file written to it until one of its
\* deletions is accepted (WorkspaceView.put and delete, the two tasks).
THEOREM NothingIsLostUnasked == Spec => []NothingLostUnasked
  <1>1. NothingLostInv => NothingLostUnasked
    BY DEF NothingLostInv
  <1>. QED
    BY <1>1, NothingLostInvHolds, PTL

-----------------------------------------------------------------------------
(* Deletion spares the jobs: JobsKeptInv is inductive.                     *)

\* A job that the check does not see is remembered as such.
LEMMA ExposedGrows == Record => exposed \subseteq exposed' /\ Exposed \subseteq exposed'
  BY DEF Record

LEMMA PostSparesJobs ==
  ASSUME TypeOK, NothingLostInv, JobsKeptInv, Record, Post \/ PostFails \/ PostDies
  PROVE  JobsKeptInv'
  <1>. USE DEF JobsKeptInv, storage, queue, jobs, Save
  <1>1. /\ post \notin {"answered", "died"}
        /\ NoPath
        /\ UNCHANGED <<req, job, hook, worker>>
    BY DEF Post, PostCreate, PostDir, PostSave, PostFails, PostDies
  <1>2. post' # "answered" => NoPath'
    <2>1. ~row.path /\ post' # "answered" => ~row'.path
      BY DEF Post, PostCreate, PostDir, PostSave, PostFails, PostDies, NewRow
    <2>. QED
      BY <1>1, <2>1 DEF NoPath
  <1>. QED
    BY <1>1, <1>2 DEF NoPath

LEMMA RequestSparesJobs ==
  ASSUME TypeOK, NothingLostInv, JobsKeptInv, Record,
         NEW r \in Requests, ReadRow(r) \/ RequestStep(r)
  PROVE  JobsKeptInv'
  <1>. USE DEF JobsKeptInv, storage, queue, jobs, bounds
  <1>1. /\ post' = post /\ worker' = worker /\ hook' = hook
        /\ \A q \in Requests \ {r} : req'[q] = req[q]
    BY DEF ReadRow, RequestStep, WriteFile, EditSave, UploadEnqueue, UploadSave,
           StartCreateJob, StartLaunch, StartSave, DeleteCheck, DeleteMark, TypeOK
  \* A deletion that gets past its check has seen no active job.
  <1>2. PastCheck' => PastCheck \/ (~HasActiveJob /\ job' = job)
    <2>. SUFFICES ASSUME NEW d \in Deletes, req'[d].pc \in {"checked", "answered"}, ~PastCheck
                  PROVE  ~HasActiveJob /\ job' = job
      BY DEF PastCheck
    <2>1. req[d].pc \notin {"checked", "answered"}
      BY DEF PastCheck
    <2>2. d = r
      BY <1>1, <2>1 DEF Requests
    <2>3. DeleteCheck(r)
      BY <2>1, <2>2, WorkspaceAssumption
         DEF ReadRow, RequestStep, WriteFile, EditSave, UploadEnqueue, UploadSave, StartCreateJob,
             StartLaunch, StartSave, DeleteMark, Files, TypeOK
    <2>. QED
      BY <2>2, <2>3 DEF DeleteCheck, At, TypeOK
  <1>3. \A s \in Starts : job'[s] = job[s] \/ job'[s] = "active"
    BY DEF ReadRow, RequestStep, WriteFile, EditSave, UploadEnqueue, UploadSave,
           StartCreateJob, StartLaunch, StartSave, DeleteCheck, DeleteMark, TypeOK
  <1>4. ASSUME NEW s \in Starts \ exposed'
        PROVE  job'[s] \in {"none", "active", "over"} /\ (job'[s] = "active" => ~PastCheck')
    <2>1. s \notin exposed /\ s \notin Exposed
      BY <1>4, ExposedGrows
    <2>2. job'[s] = "active" => ~PastCheck
      BY <2>1 DEF Exposed
    <2>3. job'[s] = "active" /\ job' = job => HasActiveJob
      BY DEF HasActiveJob
    <2>. QED
      BY <1>2, <1>3, <2>1, <2>2, <2>3
  <1>5. ASSUME post # "answered"
        PROVE  NoPath'
    <2>1. NoPath
      BY <1>5
    <2>2. ~row'.path
      BY <2>1 DEF NoPath, ReadRow, RequestStep, WriteFile, EditSave, UploadEnqueue, UploadSave, Save,
                  StartCreateJob, StartLaunch, StartSave, DeleteCheck, DeleteMark, TypeOK, Rows
    <2>3. ~req'[r].row.path
      BY <2>1 DEF NoPath, ReadRow, RequestStep, WriteFile, EditSave, UploadEnqueue, UploadSave, At,
                  StartCreateJob, StartLaunch, StartSave, DeleteCheck, DeleteMark, TypeOK, NewRow
    <2>4. job' = job
      BY <2>1 DEF NoPath, ReadRow, RequestStep, WriteFile, EditSave, UploadEnqueue, UploadSave,
                  StartCreateJob, StartLaunch, StartSave, DeleteCheck, DeleteMark
    <2>. QED
      BY <1>1, <2>1, <2>2, <2>3, <2>4 DEF NoPath
  <1>. QED
    BY <1>1, <1>4, <1>5

LEMMA JobSparesJobs ==
  ASSUME TypeOK, JobsKeptInv, Record, NEW s \in Starts, JobStopping(s) \/ JobEnds(s) \/ HookStep(s)
  PROVE  JobsKeptInv'
  <1>. USE DEF JobsKeptInv, storage, queue, bounds, Save
  <1>1. UNCHANGED <<post, req, worker>>
    BY DEF JobStopping, JobEnds, HookStep, HookRead, HookCheck, HookRelease
  <1>2. \A i \in Starts : job'[i] = job[i] \/ job'[i] \in {"over", "stopping"}
    BY DEF JobStopping, JobEnds, HookStep, HookRead, HookCheck, HookRelease, TypeOK
  <1>3. ASSUME NEW i \in Starts \ exposed'
        PROVE  job'[i] \in {"none", "active", "over"} /\ (job'[i] = "active" => ~PastCheck')
    <2>1. i \notin exposed /\ job'[i] # "stopping"
      BY <1>3, ExposedGrows DEF Exposed
    <2>. QED
      BY <1>1, <1>2, <2>1 DEF PastCheck
  <1>4. ASSUME post # "answered"
        PROVE  NoPath'
    <2>1. NoPath /\ job' = job
      BY <1>4 DEF NoPath, JobStopping, JobEnds, HookStep, HookRead, HookCheck, HookRelease, Running
    <2>2. ~row'.path
      BY <2>1 DEF NoPath, JobStopping, JobEnds, HookStep, HookRead, HookCheck, HookRelease,
                  TypeOK, Rows
    <2>3. \A i \in Starts : ~hook'[i].row.path
      BY <2>1 DEF NoPath, JobStopping, JobEnds, HookStep, HookRead, HookCheck, HookRelease,
                  TypeOK, At, NewRow
    <2>. QED
      BY <1>1, <2>1, <2>2, <2>3 DEF NoPath
  <1>. QED
    BY <1>1, <1>3, <1>4

LEMMA WorkerSparesJobs ==
  ASSUME TypeOK, NothingLostInv, JobsKeptInv, Record, NEW w \in Workers, WorkerStep(w)
  PROVE  JobsKeptInv'
  <1>. USE DEF JobsKeptInv, storage, queue, jobs, bounds, Save
  <1>1. UNCHANGED <<post, req>>
    BY DEF WorkerStep, UpdateTake, UpdateScan, UpdateSave, DeleteTake, DeleteDir, DeleteRow, DeleteErrors
  \* A row is dropped for a deletion that was accepted, and so past its check.
  <1>2. DeleteRow(w) => PastCheck
    BY DEF DeleteRow, NothingLostInv, RemovalIsAccepted, Removing, Accepted, PastCheck
  <1>3. \A s \in Starts \ exposed : job'[s] = job[s]
    <2>1. CASE DeleteRow(w)
      BY <1>2, <2>1 DEF DeleteRow, Running, TypeOK
    <2>2. CASE ~DeleteRow(w)
      BY <2>2 DEF WorkerStep, UpdateTake, UpdateScan, UpdateSave, DeleteTake, DeleteDir, DeleteErrors
    <2>. QED
      BY <2>1, <2>2
  <1>4. PastCheck' <=> PastCheck
    BY <1>1 DEF PastCheck
  <1>5. ASSUME post # "answered"
        PROVE  NoPath'
    <2>1. NoPath
      BY <1>5
    <2>2. ~row'.path
      BY <2>1 DEF NoPath, WorkerStep, UpdateTake, UpdateScan, UpdateSave, DeleteTake, DeleteDir,
                  DeleteRow, DeleteErrors, TypeOK, Rows
    <2>3. \A v \in Workers : ~worker'[v].row.path
      <3>1. \A v \in Workers : v # w => worker'[v] = worker[v]
        BY DEF WorkerStep, UpdateTake, UpdateScan, UpdateSave, DeleteTake, DeleteDir,
               DeleteRow, DeleteErrors, TypeOK, Take
      <3>2. ~worker'[w].row.path
        BY <2>1 DEF NoPath, WorkerStep, UpdateTake, UpdateScan, UpdateSave, DeleteTake, DeleteDir,
                    DeleteRow, DeleteErrors, TypeOK, Take, At, NewRow, Rows
      <3>. QED
        BY <2>1, <3>1, <3>2 DEF NoPath
    <2>4. \A s \in Starts : ~hook'[s].row.path /\ job'[s] = "none"
      BY <2>1 DEF NoPath, WorkerStep, UpdateTake, UpdateScan, UpdateSave, DeleteTake, DeleteDir,
                  DeleteRow, DeleteErrors, TypeOK, At, NewRow, Running
    <2>. QED
      BY <1>1, <2>1, <2>2, <2>3, <2>4 DEF NoPath
  <1>. QED
    BY <1>1, <1>3, <1>4, <1>5, ExposedGrows

LEMMA RestartSparesJobs == TypeOK /\ JobsKeptInv /\ Record /\ Restart => JobsKeptInv'
  <1>. SUFFICES ASSUME TypeOK, JobsKeptInv, Record, Restart PROVE JobsKeptInv'
    OBVIOUS
  <1>. USE DEF JobsKeptInv, Restart, storage, jobs
  <1>1. NoPath => NoPath'
    BY DEF NoPath, At, NewRow
  <1>2. PastCheck' <=> PastCheck
    BY DEF PastCheck
  <1>. QED
    BY <1>1, <1>2, ExposedGrows

\* No deletion is past its check while a job runs that the check would have
\* seen, for any requests, stops, tasks and restarts at the same time.
THEOREM JobsKeptInvHolds == Spec => []JobsKeptInv
  <1>1. Init => JobsKeptInv
    BY DEF Init, JobsKeptInv, PastCheck, NoPath, At, NewRow, Requests
  <1>2. TypeOK /\ NothingLostInv /\ JobsKeptInv /\ [Next]_vars => JobsKeptInv'
    <2>. SUFFICES ASSUME TypeOK, NothingLostInv, JobsKeptInv, [Next]_vars PROVE JobsKeptInv'
      OBVIOUS
    <2>1. CASE UNCHANGED vars
      BY <2>1 DEF vars, storage, queue, jobs, history, JobsKeptInv, PastCheck, NoPath
    <2>2. CASE Next
      BY <2>2, PostSparesJobs, RequestSparesJobs, JobSparesJobs, WorkerSparesJobs,
         RestartSparesJobs DEF Next, Step
    <2>. QED
      BY <2>1, <2>2
  <1>. QED
    BY <1>1, <1>2, WorkspaceTypeCorrect, NothingLostInvHolds, PTL DEF Spec

\* The deletion of a workspace spares its jobs (WorkspaceView.delete and
\* delete_workspace): whatever requests race, and however many tasks run, are
\* lost or write a stale row, a running job keeps its workspace and its
\* directory, unless the check could not see it - it was created later, or
\* somebody has asked to stop it.
THEOREM DeletionSparesRunningJobs == Spec => []JobsKeepWorkspace
  <1>1. NothingLostInv /\ JobsKeptInv => JobsKeepWorkspace
    <2>. SUFFICES ASSUME NothingLostInv, JobsKeptInv, NEW s \in Starts \ exposed
                  PROVE  job[s] # "orphan" /\ (job[s] \in Running => present /\ hasDir)
      BY DEF JobsKeepWorkspace
    <2>1. job[s] \in Running => \A d \in Deletes : ~Accepted(d)
      BY DEF JobsKeptInv, PastCheck, Accepted, Running
    <2>2. job[s] \in Running => post = "answered"
      BY DEF JobsKeptInv, NoPath, Running
    <2>. QED
      BY <2>1, <2>2 DEF JobsKeptInv, NothingLostInv, NothingLostUnasked
  <1>. QED
    BY <1>1, JobsKeptInvHolds, NothingLostInvHolds, PTL

-----------------------------------------------------------------------------
(* When everything has settled the row lists what is in the directory:     *)
(* ListingInv is inductive.                                                *)

LEMMA StillAhead ==
  TypeOK /\ Record /\ ~behind' /\ updates' = 0 => ~behind /\ ~FallsBehind
  <1>1. TypeOK /\ updates' = 0 => updates' <= updates
    BY DEF TypeOK
  <1>2. Record => (behind' <=> updates' <= updates /\ (behind \/ FallsBehind))
    BY Zenon DEF Record
  <1>. QED
    BY <1>1, <1>2, Zenon

LEMMA RequestListing ==
  ASSUME TypeOK, ListingInv, Record, NEW r \in Requests, ReadRow(r) \/ RequestStep(r)
  PROVE  ListingInv'
  <1>. USE DEF storage, queue, jobs, bounds
  <1>. SUFFICES ASSUME post' = "answered", ~behind', updates' = 0
                PROVE  /\ \A v, w \in Workers : Updating(v)' /\ Updating(w)' => v = w
                       /\ ScanIsLate'
    BY DEF ListingInv
  <1>1. /\ post = "answered" /\ worker' = worker /\ updates = 0
        /\ \A q \in Requests \ {r} : req'[q] = req[q]
    BY DEF ReadRow, RequestStep, WriteFile, EditSave, UploadEnqueue, UploadSave,
           StartCreateJob, StartLaunch, StartSave, DeleteCheck, DeleteMark, TypeOK
  <1>2. /\ \A v, w \in Workers : Updating(v) /\ Updating(w) => v = w
        /\ ScanIsLate /\ ~FallsBehind
    BY <1>1, StillAhead DEF ListingInv
  <1>3. \A w \in Workers : (Updating(w)' <=> Updating(w)) /\ ~Stores(w)
    BY <1>1 DEF Updating, Stores
  \* A save that puts another listing would have left the row behind.
  <1>4. row'.listed = row.listed
    <2>1. row' = row \/ row'.listed = req[r].row.listed
      BY DEF ReadRow, RequestStep, WriteFile, EditSave, UploadEnqueue, UploadSave, Save,
             StartCreateJob, StartLaunch, StartSave, DeleteCheck, DeleteMark, TypeOK, Rows
    <2>. QED
      BY <1>2, <1>3, <2>1 DEF FallsBehind, PutsBack
  <1>5. CASE WriteFile(r)
    BY <1>2, <1>3, <1>5 DEF WriteFile, ScanIsLate, TypeOK
  <1>6. CASE ~WriteFile(r)
    <2>1. disk' = disk
      BY <1>6 DEF ReadRow, RequestStep, EditSave, UploadEnqueue, UploadSave, Write,
                  StartCreateJob, StartLaunch, StartSave, DeleteCheck, DeleteMark
    <2>2. ASSUME NEW q \in Files, req[q].pc = "written"
          PROVE  req'[q].pc = "written"
      BY <1>1, <1>6, <2>2 DEF ReadRow, RequestStep, EditSave, UploadEnqueue, UploadSave, Files,
             Requests, StartCreateJob, StartLaunch, StartSave, DeleteCheck, DeleteMark, TypeOK
    <2>. QED
      BY <1>1, <1>2, <1>3, <1>4, <2>1, <2>2 DEF ScanIsLate
  <1>. QED
    BY <1>5, <1>6

LEMMA WorkerListing ==
  ASSUME TypeOK, NothingLostInv, ListingInv, Record, NEW w \in Workers, WorkerStep(w)
  PROVE  ListingInv'
  <1>. USE DEF storage, queue, jobs, bounds, At
  <1>. SUFFICES ASSUME post' = "answered", ~behind', updates' = 0
                PROVE  /\ \A u, v \in Workers : Updating(u)' /\ Updating(v)' => u = v
                       /\ ScanIsLate'
    BY DEF ListingInv
  <1>1. /\ post = "answered" /\ req' = req
        /\ \A v \in Workers : v # w => worker'[v] = worker[v]
    BY DEF WorkerStep, UpdateTake, UpdateScan, UpdateSave, DeleteTake, DeleteDir, DeleteRow,
           DeleteErrors, Take, TypeOK
  <1>2. ~behind /\ ~FallsBehind
    BY StillAhead
  <1>3. \A v \in Workers : v # w => (Updating(v)' <=> Updating(v)) /\ ~Stores(v)
    BY <1>1 DEF Updating, Stores
  \* A task that is taken finds the row, and no other is running.
  <1>4. CASE UpdateTake(w)
    <2>1. updates' < updates
      BY <1>4 DEF UpdateTake, TypeOK
    <2>2. present
      <3>1. ~present => worker' = worker
        BY <1>4 DEF UpdateTake, Take, TypeOK
      <3>. QED
        BY <1>2, <2>1, <3>1 DEF FallsBehind, Updating
    <2>3. worker'[w].pc = "scan" /\ worker[w].pc = "idle"
      BY <1>4, <2>2 DEF UpdateTake, Take, TypeOK
    <2>4. \A v \in Workers : v # w => ~Updating(v)
      BY <1>2, <2>3 DEF FallsBehind, Updating
    <2>5. Updating(w)' /\ worker'[w].pc # "save" /\ \A v \in Workers : v # w => ~Updating(v)'
      BY <1>3, <2>3, <2>4 DEF Updating
    <2>. QED
      BY <2>5 DEF ScanIsLate, Updating
  <1>5. CASE ~UpdateTake(w)
    <2>1. updates = 0
      BY <1>5 DEF WorkerStep, UpdateScan, UpdateSave, DeleteTake, DeleteDir, DeleteRow, DeleteErrors
    <2>2. /\ \A u, v \in Workers : Updating(u) /\ Updating(v) => u = v
          /\ ScanIsLate
      BY <1>1, <1>2, <2>1 DEF ListingInv
    <2>3. CASE UpdateScan(w)
      <3>1. worker[w].row.path
        BY <1>1, <2>3 DEF UpdateScan, NothingLostInv, PathKnown
      <3>2. hasDir
        BY <1>2, <2>3, <3>1 DEF UpdateScan, FallsBehind, Updating, Stores, TypeOK
      <3>3. [worker[w].row EXCEPT !.listed = disk].listed = disk
        BY DEF TypeOK, Rows
      <3>4. worker'[w].pc = "save" /\ worker'[w].row.listed = disk /\ disk' = disk
        BY <2>3, <3>1, <3>2, <3>3 DEF UpdateScan, TypeOK
      <3>5. Updating(w)
        BY <2>3 DEF UpdateScan, Updating
      <3>6. \A v \in Workers : v # w => ~Updating(v)'
        BY <1>3, <2>2, <3>5
      <3>. QED
        BY <3>4, <3>6 DEF ScanIsLate, Updating
    <2>4. CASE UpdateSave(w)
      <3>1. worker[w].pc = "save" /\ Updating(w) /\ row' = worker[w].row /\ disk' = disk
        BY <2>4 DEF UpdateSave, Updating, Save
      <3>2. \A v \in Workers : ~Updating(v)'
        BY <1>3, <2>2, <2>4, <3>1 DEF UpdateSave, Updating, TypeOK
      <3>. QED
        BY <1>1, <2>2, <3>1, <3>2 DEF ScanIsLate, Updating
    <2>5. CASE ~UpdateScan(w) /\ ~UpdateSave(w)
      <3>1. (Updating(w)' <=> Updating(w)) /\ ~Updating(w)
        BY <1>5, <2>5 DEF WorkerStep, DeleteTake, DeleteDir, DeleteRow, DeleteErrors, Take, Updating, TypeOK
      <3>2. row'.listed = row.listed
        <4>1. row' = row \/ (worker[w].pc = "error" /\ row'.listed = worker[w].row.listed)
          BY <1>5, <2>5 DEF WorkerStep, DeleteTake, DeleteDir, DeleteRow, DeleteErrors, Save, TypeOK, Rows
        <4>. QED
          BY <1>2, <1>3, <3>1, <4>1 DEF FallsBehind, PutsBack, Stores, Updating
      <3>3. disk' = disk
        <4>1. disk' \subseteq disk
          BY <1>5, <2>5 DEF WorkerStep, DeleteTake, DeleteDir, RemoveTree, DeleteRow, DeleteErrors
        <4>. QED
          BY <1>2, <4>1 DEF FallsBehind
      <3>. QED
        BY <1>1, <1>3, <2>2, <3>1, <3>2, <3>3 DEF ScanIsLate, Updating
    <2>. QED
      BY <2>3, <2>4, <2>5
  <1>. QED
    BY <1>4, <1>5

LEMMA RestartListing == TypeOK /\ ListingInv /\ Record /\ Restart => ListingInv'
  <1>. SUFFICES ASSUME TypeOK, ListingInv, Record, Restart, post' = "answered", ~behind', updates' = 0
                PROVE  /\ \A u, v \in Workers : Updating(u)' /\ Updating(v)' => u = v
                       /\ ScanIsLate'
    BY DEF ListingInv
  <1>. USE DEF Restart, storage, jobs, At
  <1>1. ~behind /\ ~FallsBehind
    BY StillAhead
  <1>2. \A w \in Workers : worker'[w].pc = "idle" /\ ~Updating(w)'
    BY DEF Updating
  <1>3. updates = 0
    BY <1>1, <1>2 DEF FallsBehind, TypeOK
  <1>4. /\ \A u, v \in Workers : Updating(u) /\ Updating(v) => u = v
        /\ ScanIsLate
    BY <1>1, <1>3 DEF ListingInv
  \* A task that dies is missed, unless the row says already what it found.
  <1>5. \A w \in Workers : Updating(w) => worker[w].pc = "save" /\ row = worker[w].row
    BY <1>1, <1>2 DEF FallsBehind, Stores
  <1>. QED
    BY <1>2, <1>4, <1>5 DEF ScanIsLate

\* What is written is scanned later, or has been scanned already.
THEOREM ListingInvHolds == Spec => []ListingInv
  <1>1. Init => ListingInv
    BY DEF Init, ListingInv
  <1>2. TypeOK /\ NothingLostInv /\ ListingInv /\ [Next]_vars => ListingInv'
    <2>. SUFFICES ASSUME TypeOK, NothingLostInv, ListingInv, [Next]_vars PROVE ListingInv'
      OBVIOUS
    <2>1. CASE UNCHANGED vars
      BY <2>1 DEF vars, storage, queue, history, ListingInv, ScanIsLate, Updating
    <2>2. CASE Record /\ (Post \/ PostFails \/ PostDies)
      <3>1. post' = "answered" => updates' > 0
        BY <2>2 DEF Post, PostCreate, PostDir, PostSave, PostFails, PostDies, TypeOK
      <3>. QED
        BY <3>1 DEF ListingInv
    <2>3. ASSUME Record, NEW s \in Starts, JobStopping(s) \/ JobEnds(s) \/ HookStep(s)
          PROVE  ListingInv'
      <3>1. CASE HookRelease(s)
        <4>1. updates' > 0
          BY <3>1 DEF HookRelease, TypeOK
        <4>. QED
          BY <4>1 DEF ListingInv
      <3>2. CASE ~HookRelease(s)
        <4>1. UNCHANGED <<row, disk, post, req, updates, worker>>
          BY <2>3, <3>2 DEF JobStopping, JobEnds, HookStep, HookRead, HookCheck, storage, queue
        <4>2. ~behind' /\ updates' = 0 => ~behind
          BY <2>3, StillAhead
        <4>. QED
          BY <4>1, <4>2 DEF ListingInv, ScanIsLate, Updating
      <3>. QED
        BY <3>1, <3>2
    <2>. QED
      BY <2>1, <2>2, <2>3, RequestListing, WorkerListing, RestartListing DEF Next, Step
  <1>. QED
    BY <1>1, <1>2, WorkspaceTypeCorrect, NothingLostInvHolds, PTL DEF Spec

\* A row in which everything has settled lists what is in the directory, for
\* any requests, jobs, deletions, workers and restarts: if nothing of what
\* FallsBehind names has happened since the last update was enqueued.
THEOREM ListingSettles == Spec => []ListingMatchesDisk
  <1>1. ListingInv => ListingMatchesDisk
    <2>. SUFFICES ASSUME ListingInv, Quiet, ~behind PROVE row.listed = disk
      BY DEF ListingMatchesDisk
    <2>1. /\ post = "answered" /\ updates = 0
          /\ \A w \in Workers : ~Updating(w)
          /\ \A r \in Files : req[r].pc # "written"
      BY DEF Quiet, Going, Updating, Files, Requests
    <2>. QED
      BY <2>1 DEF ListingInv, ScanIsLate
  <1>. QED
    BY <1>1, ListingInvHolds, PTL
=============================================================================
