# A TLA+ model of the user workspaces server

The user workspaces server (Django, `src/src/user_workspaces_server`) gives its
users directories on a shared file system ("workspaces") and starts batch jobs
in them on a Slurm cluster. A web server (eight uvicorn workers) answers
requests; two Django-Q clusters, `default` (`myproject`) and `long`, run
background tasks from two Redis queues; the rows of a SQL database, the
directories of the storage and the scheduler's own state are all that they
share. There are no transactions and no locks: every handler and every task
reads a row, works for a while, and writes **all** fields of the row back with
`Model.save()`. What a reader of the code cannot see, and a unit test with a
mocked task queue does not reach, is what happens between the read and the
write. That is what these modules are about.

Contents: 1 the parts of the system · 2 the modules · 3 from code to model ·
4 the properties · 5 the runs, their bounds and their fairness · 6 disagreements
between the code and its documentation · 7 the proofs · 8 what is not modelled ·
9 plan.

## 1. The parts of the system

Paths are below `src/src/user_workspaces_server/` unless they begin with `src/`.

| part | state | operations | talks to | what is hard |
|---|---|---|---|---|
| Job lifecycle (`views/workspace_view.py` "start", `views/job_view.py`, `tasks.py`) | `Job` rows: status, `resource_job_id`, start time, core hours | start request, poll (`update_job_status`), hook (`queue_job_update`), stop request, `stop_job`, `update_job_core_hours` | scheduler API, workspace row, both clusters, status channel | stale rows saved back, chains of tasks that keep each other alive, errors of the API |
| Slurm resource (`controllers/resources/slurm_api_resource.py`) | none; the token in the user's mapping | launch, query, cancel, core hours | scheduler, user mapping | an error of the API and the end of a job look alike |
| Task clusters (`apps.py`, `src/docker/user_workspaces_server/start.sh`) | two queues, tasks in execution | purge and scan at boot | all tasks | what a purge loses, what a scan finds, two chains for one job |
| Workspaces (`views/workspace_view.py`, `tasks.py`) | `Workspace` rows: status, name, path, listing | create, edit, upload, start, delete; `update_workspace`, `delete_workspace` | storage, jobs, quota | stale listings, rows that come back, deletion under a job |
| Storage (`controllers/storagemethods`) | directories, files, links | create, write, list, remove, link, ownership | file system, HuBMAP | partial failure, paths |
| Shared workspaces (`views/shared_workspace_view.py`, `tasks.py`) | `SharedWorkspaceMapping` rows | share, initialize, accept, decline | workspaces, mail | five writers of one row; the original is deleted meanwhile |
| User quota (`tasks.py`, `models.py`) | `UserQuota` rows | two recomputing tasks | workspaces, jobs | lost updates, the empty sum |
| Users and mappings (`controllers/userauthenticationmethods`, `views/user_workspaces_server_token_view.py`) | `User`, `ExternalUserMapping` rows | login, `has_permission` | Globus, PSC, the OS | find-then-create without a lock, services that fail or lag |
| Local resource (`controllers/resources/local_resource.py`) | processes of the host | launch, query, kill | operating system, job rows | processes come and go while they are listed and killed |
| Job parameters (`validation`, `translate_options`) | none | validate, translate | the "start" request | types, bounds, undeclared options |
| Configuration (`config_schemas`, `apps.py`, `utils.py`) | the file, the controllers made from it | validate, make, look up | all parts | references between sections |
| Job types (`controllers/jobtypes`) | none | script, `status_check` | log files in the job's directory | raises when a time is missing |
| Status channel (`ws_consumers.py`) | channel groups | send status | polls | order of messages |
| Read-only views, `auth.py`, admin | - | - | - | none |

What each part must guarantee:

* **Jobs**: the row never says a job is over while it runs; the end of a job is
  always noticed; a stop reaches the scheduler; no started job is forgotten by
  the polling, whatever crashes; the workspace turns idle with the last job.
* **Workspaces**: nothing disappears that nobody deleted; what is deleted goes
  for good; a running job keeps its directory; the listing tells what is on the
  disk.
* **Shares**: a share arrives whole, or goes whole when it is declined; one that
  waits for its answer keeps its original.
* **Users**: nobody is taken for somebody else; everybody gets in who tries
  again.
* **Quota**: it agrees with what the user has, once all is quiet.
* **Local jobs**: the row tells the truth, and a stop leaves nothing behind.
* **Launches**: what reaches the resource fits its declaration, and no launch
  is refused without a reason; a valid configuration works.
* **Links**: all or, where the code checks first, nothing.

`PROJECT.json` lists the hazards one by one at the line where they bite, with
the property that watches each.

## 2. The modules

| module | content |
|---|---|
| `JobStatus` | status values, scheduler states, the translation between them |
| `JobLifecycle` | the jobs of one workspace: start, poll, hook, stop, core hours, crash and boot of the clusters, the scheduler |
| `MCJobLifecycle` | instance for TLC, and the assumption that jobs end |
| `JobLifecycle_proofs` | type correctness, polling coverage and no false end, proved |
| `JobMirror` | abstract specification: a row is a delayed mirror of the scheduler |
| `MCJobMirror` | refinement mapping from `JobLifecycle` to `JobMirror` |
| `JobMirror_proofs` | one chain per job, final rows and the steps of the refinement, proved |
| `WorkspaceLifecycle` | one workspace: creation, edit, upload, start, deletion, tasks of the `long` cluster, writes of its jobs |
| `MCWorkspaceLifecycle` | instance for TLC |
| `WorkspaceLifecycle_proofs` | type correctness, nothing lost unasked, jobs keep their workspace, listings settle, proved |
| `SharedWorkspace` | one workspace shared with several users: the request, the initialization, the answers, the deletion of the original, the tasks |
| `MCSharedWorkspace` | instance for TLC |
| `SharedWorkspace_proofs` | type correctness, pending shares keep their original, every share settles, proved |
| `UserMapping` | logins and `has_permission` of the three methods, with the services behind them |
| `UserQuota` | the quota row of one user, its two tasks and the tasks that enqueue them |
| `LocalJob` | a job of the local resource and its processes |
| `LaunchOptions` | validation and translation of resource options |
| `StartupConfig` | the validator of the configuration, the start of the server, a launch |
| `HubmapLinks` | the links of a request, with the local and the HuBMAP storage |
| `UserQuota_proofs`, `LocalJob_proofs`, `HubmapLinks_proofs` | the inductive invariants of these three parts, and that their steps keep them |
| `Services` | the last six components side by side: one at a time is looked at |
| `MCServices` | instance for TLC |
| `Services_proofs` | the theorems about all six: own accounts, accounts on the grant, true ends, complete stops, quotas, links, options that fit, reasons for refusals, valid files, types |

The two systems share the job's two writes to the workspace row. `JobLifecycle`
has the jobs in full and of the workspace its status, which is enough while the
workspace is not deleted. `WorkspaceLifecycle` has the workspace in full and of
a job only whether it is counted as active, is being stopped, or is over.
`SharedWorkspace` has several workspaces, each with the same two tasks, but no
jobs and no edits: a copy that is not accepted is not in its receiver's list.
The six parts of `Services` share no state with each other or with the rest.

## 3. From code to model

**Atomicity.** One step is one SQL statement, one call of the scheduler's API or
one change of the directory. Enqueuing a task is a step of its own in
`JobLifecycle`; in `WorkspaceLifecycle`, where queued tasks may wait as long as
they like, an enqueue that is the last effect of a handler belongs to the step
before it. An enqueue that something follows is always separate: the upload
enqueues `update_workspace` *before* its own save (`UploadEnqueue`,
`UploadSave`).

**Rows in memory.** Each actor carries the row it read (`row` in its record).
`save()` writes all of it: `job' = [job EXCEPT ![j] = row]`. In
`WorkspaceLifecycle`, `Save` also sets `present`: Django inserts the row again
when the update finds none, and that is how a deleted workspace comes back.

**Data.** A `Job` row keeps `status`, whether `resource_job_id` is known,
whether `datetime_start` is set, whether the core hours were recorded. A
`Workspace` row keeps `status`, `name` (for all fields an edit sets), `path`
(whether `file_path` is set) and `listed` (the listing). A file is named after
the request that writes it, so that every request writes a different one.

**`JobLifecycle`.**

| action | code |
|---|---|
| `StartCreate` ... `StartActivate` | the statements of `WorkspaceView.put`, "start", in their order |
| `StartLaunchFails`, `StartDies` | `launch_job` raises (the job was refused, or accepted and the answer lost); the web worker dies between two statements |
| `ResourceMove`, `ServerReady` | the scheduler; the web server in the job prints its URL |
| `PollAsk`, `PollRefresh`, `PollSave`, `PollFails` | `update_job_status`: read and ask, `refresh_from_db`, save; the status check may raise; timeout |
| `HookRead`, `HookCheck`, `HookRelease` | `queue_job_update`: requeue, or look for other jobs, turn the workspace idle and enqueue the core-hours task |
| `TallyRead`, `TallySave`, `TallyFails` | `update_job_core_hours` |
| `StopRead`, `StopSave` | `JobView.put` |
| `StopCall`, `StopCallFails`, `StopUndo` | `stop_job` |
| `Crash`, `BootPurge`, `BootScan` | a cluster dies; `UserWorkspacesServerConfig.ready` in the new one |

A chain of polling tasks is named by its job and its origin: the start request,
or the boot of one of the two clusters; a chain stays on the cluster that began
it, as `async_task` without a cluster uses the queue of the process it runs in.
So a job may be polled by up to three chains at the same time. Tasks in
execution die with their cluster, queued ones wait in Redis until the next boot
purges them; there are no redeliveries, as the Redis broker has no receipts.

`get_resource_job` answers "complete" whenever anything goes wrong: the fault
branch of `PollAsk`. A poll that raises saves nothing; its hook runs all the
same. `history` variables (`early`, `misled`, `relapsed`) record which jobs
suffered something a property excepts; no action reads them. The other modules
keep such variables too: where the code loses a race, the property that the race
breaks excepts what lost it, and nothing else, instead of an instance in which
the race cannot happen.

**`WorkspaceLifecycle`.**

| action | code |
|---|---|
| `PostCreate`, `PostDir`, `PostSave`, `PostFails`, `PostDies` | `WorkspaceView.post`; `PostDir` is the directory with everything in the request |
| `ReadRow` | the `get` that every `put` and `delete` begins with |
| `WriteFile`, `EditSave` | `put` without a type |
| `WriteFile`, `UploadEnqueue`, `UploadSave` | `put` "upload" |
| `StartCreateJob`, `StartLaunch`, `StartSave` | `put` "start", as the workspace sees it |
| `DeleteCheck`, `DeleteMark` | `WorkspaceView.delete` |
| `JobStopping`, `JobEnds` | a stop request; the poll that finds the job over |
| `HookRead`, `HookCheck`, `HookRelease` | the hook's work on the workspace row |
| `UpdateTake`, `UpdateScan`, `UpdateSave` | `update_workspace` |
| `DeleteTake`, `DeleteDir`, `DeleteRow`, `DeleteErrors` | `delete_workspace` and `delete_dir` |
| `Restart` | crash and boot of the `long` cluster |

`DeleteDir` is `delete_dir` with what may go wrong in it: `rmtree` leaves what it
cannot remove and says nothing, and the directory may turn out to be somebody
else's, which raises. Left out here: failing ownership calls of the requests,
requests that fail half way, and the two refusals on account of shares (there
are no shares in this module).

Every step is followed by `Record`, which keeps the history: `exposed`, the jobs
that the check of a deletion cannot see (created when one is past its check, or
*stopping*); `overlap`, set when somebody holds the row in memory while a
deletion is about to remove it; `lost`, set when a restart loses a deletion;
and `behind`, set by what `update_workspace` does not mend (`FallsBehind`) and
cleared when the next one is enqueued.

**`SharedWorkspace`.** The original is one workspace, the copies of one request
are named after their receivers. `listed` is what the copy took over from the
original ("inherited"), what the task found in its own directory, or
"elsewhere", the storage root, which is what `update_workspace` lists for a row
without a path.

| action | code |
|---|---|
| `PostRead`, `PostCopy`, `PostMapping`, `PostEnqueue`, `PostDies` | `SharedWorkspaceView.post`: rows and mappings one after the other, then the tasks |
| `InitTake`, `InitCopy`, `InitAnnounce`, `InitSave` | `initialize_shared_workspace`: `update_workspace` and the mail are enqueued before the save |
| `AcceptRead`, `AcceptSave`, `AcceptFetch`, `AcceptTouch` | `put` "accept": the mapping, then the whole row of the copy for its date |
| `DeclineRead`, `DeclineMark` | `delete` of a share |
| `RemoveRead`, `RemoveCheck`, `RemoveMark` | `WorkspaceView.delete` of the original |
| `UpdateTake` ... `DeleteErrors`, `TaskTimesOut` | the tasks, as in `WorkspaceLifecycle`; a task may be killed anywhere |

`DeleteRow` removes the mapping with its copy (`CASCADE`) and clears its
reference when the original goes (`SET_NULL`). The history here: `late`, the
copies that became pending when the deletion of the original was past its check;
`disturbed`, those whose row somebody held in memory while a worker filled or
dropped them, or whose original may have gone before they were filled.

**`UserMapping`.**

| action | code |
|---|---|
| `LoginBegin`, `LoginFind`, `LoginGroups`, `LoginFindUser`, `LoginCreateUser`, `LoginMap` | the token view with `api_authenticate` of each method |
| `CallerLook`, `CallerGroups`, `CallerFindName`, `CallerFindMail`, `CallerCreate`, `CallerMap`, `CallerConfirm` | `has_permission` of each method, as requests and `check_main_storage_user` call it |
| `LdapSync`, `TokensExpire` | PSC's LDAP follows its API; a Globus token expires |

Which methods are the API's and the storage's is part of the state
(`config`), and never changes. The host's users and PSC's are one set of
accounts, as one server uses one of the two; `Outage` is an answer that is an
error. The order of the mappings table is kept, since `filter().first()` takes
the least key. With Globus, a login looks for its mapping first and checks the
groups then (`known` and `groups` are the two ways to the check); `members` of
the configuration are the people who are in one of the groups.

**`UserQuota`, `LocalJob`, `LaunchOptions`, `StartupConfig`, `HubmapLinks`.**

| action | code |
|---|---|
| `SpaceSaved`, `SpaceDeleted`, `HoursSaved`, `HoursUnowned`, `Notify`, `NotifyNever` | the ends of `update_workspace`, `delete_workspace`, `update_job_core_hours`: save, then enqueue; `HoursUnowned` is a job whose workspace is gone, which raises after the save, or before it with Slurm |
| `QuotaTake`, `QuotaSum`, `QuotaSave`, `QuotaKilled` | the two quota tasks: read the row, the sum, save the row |
| `LocalLaunch`, `LocalStart`, `LocalSave` | the "start" request: row with id -1, process, id in the row |
| `LocalPoll`, `LocalPollEarly`, `LocalPollSave` | `update_job_status` with `LocalResource`; the poll of a row without an id, which a boot may queue |
| `LocalStop`, `LocalStopSave`, `StopList`, `StopKill`, `StopMain` | `JobView.put`, which completes a row without an id, and `stop_job` |
| `Fork`, `Exit`, `Sleeps`, `Reaped` | the processes and the operating system |
| `Request`, `Validate`, `Translate` | the "start" request, `ParamValidator`, `translate_options` |
| `ReadFile`, `MakeAuth`, `MakeStorage`, `MakeResource`, `MakeMain` | `ready()` before the purge |
| `LaunchType` | the look-up of the job type by a start request |
| `AskLinks`, `CheckAll`, `Fetch`, `MakeLink`, `MadeAll` | `create_symlinks` of both storage classes, `create_symlink` |

`Valid` is `validate_uws_config`, translated as a predicate on a file; of an
entry only its class, its references and whether its other fields fit are kept;
a reference names an entry, nothing that exists, the empty string, or is missing.
The sums are the reference definition of the quota, as the number of units there
are (`SumOver`). `Descendants` is `children(recursive=True)` of psutil: what is in
every set of processes that has the process in it and, with a process, all that
it has started. In `HubmapLinks`, `todo` is the set of places in the request's
list that are still to be made, and `Before` the order in which the code makes
them, `standing` what is in the directory under the names that no link can replace,
and `In` the directory part of a name: `create_symlink` makes that directory, and
`os.remove` and `os.symlink` raise for a directory and for a dangling link.
`dataset_uuids`, a dictionary, has one entry per dataset, at the place of
the first link to it and with the last one as its value. `Fits` in `LaunchOptions` is
the reference definition of the validation, written from the configuration and
not from the validator.

## 4. The properties

`JobLifecycle`:

* `NoFalseEnd` (and `EndInv`, its strengthening): a terminal row means the job is over on the resource, except for
  jobs whose API answer was an error or whose row somebody acted on before the
  start request had stored the resource's id.
* `PollCoverage` (and `CoverageInv`, its strengthening): an active row of a
  started job is watched by a chain, or a cluster is between crash and scan.
* `EndIsNoticed`: the end of a job on the resource is noticed for good.
* `StopReachesResource`: a queued stop ends the job, even if a poll overwrites
  the status "stopping" meanwhile.
* `TerminalIsFinal` (and `OneChainInv`), `WorkspaceGoesIdle`: with one chain per job, a terminal
  status is never left, and the last of the jobs turns the workspace idle, even
  if two hooks check at the same time.
* `ImplementsMirror`: without stops, faults and crashes the rows show statuses
  the scheduler really had, in order, and end with its verdict.

`WorkspaceLifecycle`:

* `NothingLostUnasked` (and `NothingLostInv`): until a deletion is accepted, the
  row, the directory and all files written stay.
* `JobsKeepWorkspace` (and `JobsKeptInv`): no workspace disappears, row or
  directory, under a job that still runs, whatever requests and tasks run at the
  same time, but for the jobs in `exposed`.
* `ListingMatchesDisk` (and `ListingInv`): when everything has settled, the row
  lists the files on the disk, unless it is `behind`.
* `DeletionCompletes`: an accepted deletion removes row and directory for good,
  whatever tasks are queued and whoever read the row before, unless somebody has
  it in memory while it is removed (`overlap`) or a restart loses the task. What
  could not be removed from the disk stays there. `DeletionIsFinal` is the same
  without exceptions, and violated (section 6).

`SharedWorkspace`:

* `SharesSettle`: without faults, in the end each copy is complete - idle, with
  its path, the files and a listing, although five writers save its row as a
  whole - or was declined and is gone with its directory and mapping, with any
  number of workers and unless it is in `disturbed`.
* `PendingKeepsOriginal` (and `PendingInv`): a pending share has its original,
  with row, directory and reference, unless it is in `late`.
* `SharesArrive`, `DeclinedGoes`: every share gets there, and what is declined
  goes for good, with an `update_workspace` of it in the queue, or running, or
  an accept at the same time; `disturbed` copies excepted.

`Services`:

* `AccountIsOwn`: a login answers the person's own user, and a mapping joins a
  user to that person's account, whoever else was faster.
* `MappedIsOnGrant`: unless a request failed, an account in a PSC mapping is on
  the grant; the mapping is never looked into again.
* `EveryoneLogsIn`, `EveryoneAdmitted`: who tries again gets in, after losing
  any race, any error and any lag of LDAP, but for the hopeless cases they name
  and for people outside the groups.
* `QuotaSettles`: the quota agrees with the tables when all is quiet, unless two
  quota tasks ran at once or one was killed; the disk space of a user who has no
  workspace left, and the hours of jobs whose workspace was deleted, excepted.
* `LocalEndIsTrue`, `StopLeavesNothing`: a local job whose row is terminal does
  not run, with three exceptions: a poll that met an odd state, a stop that was
  cut short, a poll or a stop of a row without an id (`early`); a stop leaves no
  process that it could have found.
* `SentFits`, `RefusedForReason`: what reaches the resource fits, and what is
  refused does not.
* `ValidStarts`: a server with a valid file in which no reference is the empty
  string starts. `ValidLaunches`: its jobs can be launched (violated, section 6).
* `HubmapChecksFirst`, `DoneMakesAll`: the HuBMAP storage checks before it makes
  anything, so that only a missing path, or what is in the way of a name, makes
  it fail half way; a request that succeeds has made all its links but doubled
  ones, and those that went where a link in place of their directory leads.

Each module has one type invariant; for a row it says that no code path writes
a status the model class does not have. For every property of a passing run
`PROJECT.json` names a mutant, a plausible slip in one definition (a status
forgotten by the hook, an `update_workspace` that is not enqueued, a check that
is skipped), with which TLC finds the property violated.

## 5. The runs

| run | instance | checks |
|---|---|---|
| `JobFaults` | one job with a web server, one stop request, 2 faults | `TypeOK`, `NoFalseEnd`, `EndInv`, `CoverageInv`, `StopReachesResource` |
| `JobEnd` | one job, 1 fault, 1 crash of either cluster | `PollCoverage`, `OneChainInv`, `EndIsNoticed`, `TerminalIsFinal` |
| `JobWorkspace` | two jobs of one workspace | `WorkspaceGoesIdle`, `ImplementsMirror` |
| `WsConcurrent` | an edit, a start whose job may be stopped and a deletion, in any order; two workers, a restart | `TypeOK`, `NothingLostUnasked`, `NothingLostInv`, `ListingMatchesDisk`, `ListingInv`, `JobsKeepWorkspace`, `JobsKeptInv` |
| `WsSettles` | an upload and two deletions, in any order; two workers, one removal that fails | `ListingMatchesDisk`, `DeletionCompletes` |
| `Shares` | two receivers, one may accept and one may decline, the owner may delete the original; two workers, 1 fault | `TypeOK`, `SharesSettle`, `PendingKeepsOriginal`, `PendingInv` |
| `SharesArrive` | one receiver, who may accept while the share is declined, the owner may delete the original; two workers, 1 fault | `SharesArrive`, `DeclinedGoes` |
| `Services` | see below | `ServicesTypeOK` and the other properties of `Services` but `ValidLaunches` |

The violation runs `JobStopCrash`, `JobHours`, `WsDeleteTwice` and
`ConfigLaunch` are in section 6.

`Services` looks at one part per behaviour, chosen in the initial state: two
people whose mail addresses begin alike, two logins of the first and one of the
second, two callers, six configurations (groups with everybody and with one of
the two people among them), an outage and an expiry; two
workspaces with a job, two workers, three changes and a killed task; a process
with two others and one poll that meets an odd state; two options with five
declarations each and every request for them; every file with one entry per
section that deviates in the head, or in up to two neighbouring sections; every
list of up to two links, of which one may have the other's name for its
directory, with everything that may be there already.

**Why the bounds are enough for what they show.** A job interferes with another
only through the hook's check for other jobs and the workspace status, so two
jobs are needed there and one elsewhere. One crash already gives a job a second
chain, on the same or the other cluster, with the first in any of its steps.
Two faults let a lost launch answer meet a failing poll. Each stale-row hazard
needs the read of one actor, the write of a second and the save of the first;
the runs have three to five actors. `Q_CLUSTER` gives each cluster eight workers;
what several of them can do to one workspace two can do, since a task holds one
copy of one row, and each exception speaks of one other holder. The safety
properties that matter most do not rest on bounds: section 7.

The six parts of `Services` need no product with each other, as they share no
state. Two logins of one person race for the user, a third of another person
for the user name; two callers race for the account and the mapping. Two
processes besides the main one are a chain that `children()` without
`recursive` would not find, or siblings, one of which ends while the other is
killed. Two quota tasks and three changes let a sum be taken before, between and
after them. A check in the validator concerns an entry and those that it refers
to, which two deviating sections cover.

**Where a property needs a narrower instance.** `EndIsNoticed` is run without
jobs that print a URL and without stop requests; `TerminalIsFinal` speaks of
behaviours without stops and crashes, `WorkspaceGoesIdle` and `ImplementsMirror`
of those without faults as well. They do not hold outside: section 6 says what
happens there. The properties of the workspace, the shares and `Services` hold
in every behaviour of their modules; what the code loses is an exception in
them, named in section 4.

**Bounds in guards.** `MaxFaults`, `MaxCrashes`, `MaxRestarts` (removals that fail count as faults), `MaxOutages`,
`MaxExpiries`, `MaxLosses`, `MaxChanges` and `MaxOdd` count events
the environment may cause; `MaxLinks` bounds a request, `MaxValue` a number; `Clients`, `Edits`, `Starts` and so on give each
request one identity. A chain has at most one core-hours task in flight
(`HookRelease`).

**Fairness.** `FairSpec` assumes weak fairness of each request's own steps (an
ASGI worker runs its handler to the end; `StartDies` is a separate action that
may cut it short), of each chain, hook and task (Django-Q workers and its
monitor take what is in their queue), and of the boot of a cluster (containers
are restarted). Nothing is assumed of users, faults, crashes, or of `StopRead`
and `StartCreate`. `FairSpecJobsEnd` adds that each job ends on the resource:
`launch_job` submits every job with a time limit. It is used where the
property speaks of jobs that have not ended yet. In `SharedWorkspace`, requests
that were begun and the workers run on; nobody has to answer a share. In
`Services`, a login and a caller that were refused try again
(`LoginBegin`, `CallerLook`): the web client logs in again, and every further
request and task of a user calls `has_permission`. That is what the two liveness
properties are about; nothing is assumed of outages, expiries and of LDAP,
which `EveryoneAdmitted` does without because the second look finds the
unconfirmed mapping.

**Deadlock** is not checked: users may stop making requests and all jobs may be
over.

## 6. Where the code and its documentation disagree

Each has a run whose counterexample is the story told here.

* `JobStopCrash`: "Continuous polling of job states" (`src/docs/architecture.rst:98`).
  `ready()` purges the queue and queues polls for pending and running rows only.
  A job that was *stopping* is never polled again; its row says "stopping" for
  ever.
* `JobHours`: "Track resource usage" (`src/docs/overview.rst:38`). The core-hours
  task is enqueued only by the hook that finds no other active job of the
  workspace; the hours of the jobs that ended before are never recorded.
* `WsDeleteTwice`: "All tasks must be idempotent and handle failures gracefully"
  (`src/docs/architecture.rst:153`). A second `delete_workspace` finds no
  directory and saves its row as "error", which inserts the deleted row again; no
  later deletion can remove it.
* `ConfigLaunch`: "Environment configuration per resource (resource name as key,
  config as value)" (`config_schemas/schemas/job_types/JupyterLabJob.json:21`).
  The schema itself requires the fields one level higher, and
  `validate_uws_config` accepts such a file; a launch looks up
  `environment_details[main_resource]` and is refused as "Job Type improperly
  configured". The example of the schema is rejected for the same reason.

The model has more behaviour of this kind that no run is spent on; each was seen
in a trace while the modules were written, or follows from the lines quoted, and
is an exception in a property or, for the jobs, a reason for a narrower instance:

* A stop request between `job.save()` and the save of `resource_job_id` in the
  start request answers "Successful stop.", and the job runs on (`early`).
* A stop request that read the row before a poll found the job over turns a
  terminal row into a stopping one; the next scan or chain mends it, if there
  is one.
* A job whose log has a URL before any poll saw it running makes
  `JupyterLabJob.status_check` raise on every poll; its row stays pending.
* A core-hours task can write an active row back after both chains of a job have
  ended (`relapsed`); nobody polls that row.
* `update_workspace` takes back the name an edit has set while it was scanning;
  two workers that run two of these tasks may save in the opposite order of
  their scans.
* A workspace can be deleted under a job that is *stopping*: the check looks for
  pending and running jobs. The job loses its directory and its reference to the
  workspace (`SET_NULL`), and every further poll of it raises and is queued again.
* A start request saves the workspace as active after it has enqueued the first
  poll: if the job ends before that, the workspace stays active with no job.
* A worker of the eight, a request or a hook that holds the row of a workspace
  while `delete_workspace` drops it, inserts it again with its save (`overlap`).
  An `update_workspace` that saves over the status "error" of a deletion that
  failed leaves the row "deleting" or as it was before, with nothing queued.
* `rmtree(..., ignore_errors=True)` (`local_file_system_storage.py:44`) may leave
  files behind, and the row goes all the same: nobody knows of them any more. If
  the directory is somebody else's (line 45), the row stays as "error".
* A failed creation deletes the row and leaves the directory. A request that is
  cut off in the middle of a creation leaves the workspace "initializing", and
  every deletion of it is refused.
* An upload saves the row it read at its beginning after `update_workspace`,
  which it had enqueued, has saved the listing: the new file stays unlisted.
* Accepting a share saves the copy's row as it was fetched. A listing that
  `update_workspace` saves in between is lost; an accept during the
  initialization takes path and status back.
* With two workers, `update_workspace` of a copy, which is enqueued before the
  initialization saves the path, lists the storage root, and one of the two
  saves undoes the other.
* A workspace that is deleted while it is being shared: the request fails in the
  middle of its loop, and the copies made so far stay "initializing" without a
  task. A share whose original is gone cannot be declined: every attempt raises.
* A decline that has tested `is_accepted` deletes a copy that is accepted
  meanwhile.
* A share that is made when the deletion of its original is past its check loses
  the original while it is pending (`late`). A copy whose row a worker, an accept
  or a decline has in memory while it is filled or dropped may stay half made,
  or come back after it was declined (`disturbed`).
* `PSCAPIUserAuthentication.has_permission` confirms a new mapping with LDAP and
  an existing one not at all, although its comment says so (line 63). Who is
  refused because LDAP lags behind gets in at the second attempt, unconfirmed.
  Nor does it look at the answer when it assigns an account to the grant
  (line 283): the mapping is made although the assignment failed.
* A user of Globus with a check of groups is refused for good when the token of
  the first login expires: later logins do not store theirs.
* `HubmapLocalFileSystemStorage` looks for a token in the user's mapping under
  "tokens", and the logins store it as "globus_groups_token": only a token in
  the request is ever found.
* Two quota tasks at once may save an older sum, or the other task's older
  field; the sum over no rows is NULL and makes the task fail, so that the quota
  of a user without workspaces stays what it was; deleting a workspace does not
  recount the hours of its jobs. With Slurm, the hours of a job whose workspace
  is gone are not even saved (`slurm_api_resource.py:152`).
* A process in disk sleep ends its local job in the eyes of a poll, and a child
  that ended a moment before it is killed cuts a stop short. A stop request that
  finds the row without the id of its process completes it at once
  (`job_view.py:45-48`), and so does a poll that a boot has queued for it, as no
  process has the id -1 (`local_resource.py:67-72`): the process runs on (`early`).
* `validate_uws_config` looks up a reference only if it is not empty
  (`json_schema_validator.py:198`, 229, 238), and the schemas ask for any string.
  With an empty one, `ready()` raises a `KeyError` (`apps.py:46`, 57-60), although
  references that lead nowhere are to be found before
  (`test_json_schema_validation.py:85`).
* A link whose name is empty or ends in "/", or that meets a directory, makes
  `os.remove` raise, and one that meets a dangling link `os.symlink`
  (`local_file_system_storage.py:132-134`), when earlier links of the request are
  made already, with either storage; a link in a linked directory is made where
  that leads.
* A bound of 0 is no bound. Options that `parameter_mapping` names and no
  parameter declares reach the resource unchecked.

## 7. The proofs

TLAPS checks, for every value of the constants that satisfies the modules'
named assumptions (disjoint sets of requests, natural bounds, finite sets where
something is summed):

* `JobLifecycle_proofs`
  * `TypeCorrect`: `Spec => []TypeOK`.
  * `PollingCoversJobs`: `Spec => []PollCoverage`, for any number of jobs, stop
    requests, faults and crashes. `PollCoverage` is not inductive: a core-hours
    task that read an active row may save it after the chain of the job has
    ended. `CoverageInv` adds that such a task belongs to a job in `relapsed`.
    The interesting steps are `HookRead`, which lets a chain end only on a
    terminal row; the saves of `StopSave` and `StopUndo`, which write rows that
    are not active; `PollSave`, whose own chain goes on to the hook; and
    `BootScan`, which begins a chain for every active row at the moment the
    cluster comes up.
  * `NoJobEndsFalsely`: `Spec => []NoFalseEnd`, as general. What a row says is
    made of copies that are arbitrarily old, so `EndInv` speaks of all of them.
    Until the start request has stored the id of the job, nobody holds a copy
    (`Untouched`); from then on, while the job goes on, no copy of its row says
    that it is over, none lacks the id, and no answer of the scheduler says
    so either (`AllOpen`). A copy without the id would make `StopSave` complete
    the job on the spot. The excepted jobs are those for which an answer failed
    (`misled`) or whose row was met too early (`early`); section 6.
* `JobMirror_proofs`, about jobs that nobody stops, while no cluster crashes
  * `TerminalRowsAreFinal`: `Spec => TerminalIsFinal`, an action property, with
    requests that die, polls that fail and jobs that print a URL. `OneChainInv`
    says that each job has the chain of its start request and no other, that no
    other actor holds its row, that the chain polls on while the row is not
    terminal, and that the core-hours task, which saves the row it read, holds
    it as it is.
  * `JobsMirrorScheduler`: the refinement of `JobMirror` step by step, for any
    number of jobs without faults and without a URL in their log. `PollAsk` is
    `Sample`, `PollSave` is `Show`, `StartCreate` is `Create`, `ResourceMove` is
    `Advance` or, where the translation joins two states, a stutter, as is
    everything else. A poll that fails, or that `status_check` makes raise,
    throws its sample away, which `JobMirror` has no step for: hence the
    hypotheses. `ImplementsMirror`, which the run checks, adds the fairness.
* `WorkspaceLifecycle_proofs`
  * `WorkspaceTypeCorrect`: `Spec => []TypeOK`.
  * `NothingIsLostUnasked`: `Spec => []NothingLostUnasked`, for any number of
    requests of every kind at the same time, jobs that are stopped or not,
    workers and restarts. The strengthening `NothingLostInv` says where
    removals come from (a queued or running `delete_workspace` means an
    accepted deletion), that nothing happens before the creation is answered,
    and that every copy of the row, in the table or in memory, however stale,
    has a path: otherwise a stale save would have a later write go astray.
  * `DeletionSparesRunningJobs`: `Spec => []JobsKeepWorkspace`, for any number of
    deletions, starts and stops at the same time. The strengthening `JobsKeptInv`
    says that no deletion is past its check while a job runs that the check would
    have seen, and that a workspace whose creation was never answered has no
    path, so that no job starts in it. The steps to watch are `DeleteCheck`, which
    establishes the first part, and `StartCreateJob`, which keeps it only because
    a job that is created too late is in `exposed` from then on (`Record`).
  * `ListingSettles`: `Spec => []ListingMatchesDisk`, for any number of requests,
    workers and restarts. `ListingInv` says of a row that is not `behind` and has
    no update queued that at most one worker is in `update_workspace`, and that
    `ScanIsLate`: somebody who has written will still enqueue a scan, or the
    worker has scanned the directory as it is, or the row lists it. `StillAhead`
    says which steps leave the row not behind: those where `FallsBehind` is false.
    The steps to watch are `UpdateTake`, the scan of which sees all that was
    written, and `UpdateSave`, which must save over nothing newer.
* `SharedWorkspace_proofs`
  * `ShareTypeCorrect`: `Spec => []TypeOK`.
  * `PendingSharesKeepOriginal`: `Spec => []PendingKeepsOriginal`, for any number
    of copies, answers, workers and faults, and an owner who shares and deletes
    at the same time. `PendingInv` adds what the check of the deletion establishes
    and everything after it keeps: from there on only shares in `late` are
    pending. The steps to watch are `PostMapping`, the shares of which are `late`
    when the check is past, `AcceptSave`, which writes back a mapping it read
    before the original went but only makes it accepted, and `DeleteRow`, which
    clears references of mappings that are not pending.
  * `EveryShareSettles`: `Spec => []SharesSettle`, for any number of copies and
    workers, whatever the order of the tasks, the answers and the deletion.
    `ShareInv` gives a copy that is not `disturbed` five phases - `Unmade`,
    `Waiting`, `Filling`, `InUse`, `Leaving` - and says for each what every holder
    of its row has in hand; `Leaving` goes from `Marked` over `Emptying` and
    `Dropping` to `Away`. That nobody else holds the row while a worker fills the
    copy or drops it is what a copy that is not disturbed has; in all the rest of
    its life every copy of the row in memory is as good as the row, so that it
    does not matter who saves last. `SameKeeps`, `WorkElsewhere` and
    `AnswersElsewhere` show that what is done for one copy leaves the phases of
    the others as they are. That the files are there to be copied is part of
    `Disturbed` too: the original may go once the deletion is past its check.
* `Services_proofs`, with `UserQuota_proofs`, `LocalJob_proofs` and
  `HubmapLinks_proofs`
  * `AccountsAreOwn`: an induction on the tables: each mapping is a person's
    own, so that whichever row the first match is, it is the right one. It rests
    on `PeopleAssumption`, of which one part is a real demand on a deployment:
    an external account that bears somebody's user name is that person's. That
    the first match exists is `LeastElement`, a well-founded induction on the
    natural numbers (`WFMin` of the library).
  * `MappingsAreOnGrant`: whoever is between finding and mapping has an account
    on the grant, and no step takes one away.
  * `LocalEndsAreTrue`: what a poll holds, what the start request has still to
    save, and what a stop has still to kill; with the three exceptions of section
    4.
  * `StopsLeaveNothing`, for any tree of processes of any depth: until the list
    is made, what runs and is no orphan's descends from the main process; after
    that it is on the list. `Descendants` is a least fixed point, so each fact
    about it needs a closed set: that an end or a fork elsewhere in the tree
    leaves a descendant one is shown with the old set, less or more one
    process.
  * `QuotasSettle`: a change that is not in the quota is owed, in the queue, or
    with a task that has not summed yet (`QuotaInv`). The sums are cardinalities
    of finite sets; `SumOfZeros` and the lemmas after it say what they need.
  * `HubmapChecks`, `LinksAreMade`: what was checked of the list holds from then
    on, a directory or a dangling link that is in the way stays there, and each
    link is made, still to be made, replaced by a later one, or where the link in
    place of its directory leads (`Elsewhere`).
  * `SentOptionsFit`, `RefusalsHaveReason`: between validation and launch the
    errors are known to be empty, and each error is a violation of `Fits`.
  * `ValidFilesStart`: each constructor that is called has what it refers to, if
    no reference is the empty string.
  * `ServicesTyped`: all six parts are well typed. The bound on the mappings
    table is not a type: it holds since every login and every caller creates at
    most one row, which is why there must be finitely many of them.

Each invariant proof has a lemma per group of actions. The runs above also check
the strengthenings `CoverageInv`, `EndInv`, `OneChainInv`, `NothingLostInv`,
`JobsKeptInv`, `ListingInv` and `PendingInv`, which are theorems of their own
(`CoverageInvHolds` and so on). Those that need the words of a proof are defined
where they are proved: `ShareInv`, `StopInv`, `QuotaInv`, `LinksInv` and the
invariants of `Services_proofs`.

Only `JobsMirrorScheduler` has hypotheses, and `TerminalIsFinal` has its own in
the property; they are what the runs of the same properties fix. `ServicesTyped`
asks for finitely many logins and callers. All others speak of every behaviour of their
module; what the code loses is an exception in the property.

Only model-checked: all liveness properties (`EndIsNoticed`,
`StopReachesResource`, `WorkspaceGoesIdle`, `DeletionCompletes`, `SharesArrive`,
`DeclinedGoes`, `EveryoneLogsIn`, `EveryoneAdmitted`) and the fairness of
`ImplementsMirror`, as fairness and ENABLED are out of the prover's reach. Every
invariant and every action property that a passing run checks is proved.

## 8. Not modelled

* The status channel (`ws_consumers.py`): it sends rows and passes on what polls
  send, and keeps nothing; the passthrough proxy copies bytes.
* The cache of Slurm tokens: every token that is fetched works.
* The text of paths (`is_valid_path`), ownership calls, health checks.
* Scripts of the job types, parsing of log files, mail, the fields inside the
  JSON schemas, admin, serializers, Grafana, `sphinx_ext`: text or pure input
  and output.
* A `put` request that fails half way: its file stays on the disk, unlisted,
  until the next update.
* More than one request to share the same workspace at a time, and edits of a
  workspace while it is shared.
* `job_details`, metrics and times beyond those that steer the code.
* The database's isolation below one statement, and the file system's below one
  call.
* Remote services (Globus, PSC, Slurm) beyond what their answers do here.

## 9. Plan

What is left, in the order of weight:

1. `JobsMirrorScheduler` with faults: an abstract specification in which a
   sample may be thrown away, so that failing polls and jobs with a URL are
   within it.
2. `TerminalIsFinal` with stop requests: which of the writers of a row may still
   hold a copy that is not terminal.
3. The safety half of `DeclinedGoes`: once a declined copy is gone it stays
   gone unless it is disturbed, as an action property, from the phase `Away` of
   `ShareInv`.
4. An abstract specification of a workspace (created, in use, deleted), and the
   steps of `WorkspaceLifecycle` as steps of it, for a deletion that nobody's copy
   of the row overlaps.
