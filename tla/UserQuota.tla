----------------------------- MODULE UserQuota -----------------------------
(***************************************************************************)
(* The quota of one user: the row that sums up the disk space of the       *)
(* user's workspaces and the core hours of their jobs, and the tasks       *)
(* update_user_quota_disk_space and update_user_quota_core_hours.  Each    *)
(* reads the row, then the sum, and saves the whole row, so that it also   *)
(* writes the other sum back as it was.  The tasks that change a workspace *)
(* or a job save it first and then enqueue one of the two.                 *)
(***************************************************************************)
EXTENDS Naturals, FiniteSets

CONSTANTS
    Spaces,       \* the user's workspaces
    QuotaJobs,    \* their jobs
    SpaceOf,      \* the workspace of each job
    Sizes,        \* disk spaces and core hours
    QuotaWorkers, \* the workers of the default cluster
    MaxChanges,   \* bound on changes of workspaces and jobs
    MaxLosses     \* bound on tasks that are killed

ASSUME QuotaAssumption ==
    /\ IsFiniteSet(Spaces) /\ IsFiniteSet(QuotaJobs)
    /\ SpaceOf \in [QuotaJobs -> Spaces]
    /\ Sizes \subseteq Nat /\ 0 \in Sizes
    /\ MaxChanges \in Nat /\ MaxLosses \in Nat

VARIABLES
    kept,       \* workspaces that are in the table
    disk,       \* disk_space of each workspace
    hours,      \* core_hours of each job
    quota,      \* the UserQuota row: used_disk_space, used_core_hours
    owing,      \* tasks that have saved and not yet enqueued
    quotaQueue, \* tasks on the queue
    counting,   \* the workers: step, kind and row in memory
    changes, losses,
    raced       \* two quota tasks were under way together (history)

quotaVars == <<kept, disk, hours, quota, owing, quotaQueue, counting, changes, losses, raced>>

QuotaKinds == {"disk", "hours"}
Sums == [disk : Nat, hours : Nat]

QuotaTypeOK ==
    /\ kept \subseteq Spaces
    /\ disk \in [Spaces -> Sizes] /\ hours \in [QuotaJobs -> Sizes]
    /\ quota \in Sums
    /\ owing \in [QuotaKinds -> 0 .. MaxChanges] /\ quotaQueue \in [QuotaKinds -> 0 .. MaxChanges]
    /\ counting \in [QuotaWorkers -> [pc : {"idle", "sum", "save"}, kind : QuotaKinds, row : Sums]]
    /\ changes \in 0 .. MaxChanges /\ losses \in 0 .. MaxLosses
    /\ raced \in BOOLEAN

NotCounting == [pc |-> "idle", kind |-> "disk", row |-> [disk |-> 0, hours |-> 0]]

QuotaInit ==
    /\ kept = Spaces
    /\ disk = [s \in Spaces |-> 0] /\ hours = [j \in QuotaJobs |-> 0]
    /\ quota = [disk |-> 0, hours |-> 0]
    /\ owing = [k \in QuotaKinds |-> 0] /\ quotaQueue = owing
    /\ counting = [w \in QuotaWorkers |-> NotCounting]
    /\ changes = 0 /\ losses = 0
    /\ raced = FALSE

-----------------------------------------------------------------------------
\* The rows that each sum is taken over: the jobs of a workspace that is
\* deleted stay, without a workspace (SET_NULL).
Summed(kind) == IF kind = "disk" THEN kept ELSE {j \in QuotaJobs : SpaceOf[j] \in kept}

\* The sum of f over S, as the number of units there are: f[x] of each x in S.
SumOver(f, S) == Cardinality(UNION {{x} \X (1 .. f[x]) : x \in S})
SumOf(kind) == SumOver(IF kind = "disk" THEN disk ELSE hours, Summed(kind))

Change(kind) ==
    /\ changes < MaxChanges /\ changes' = changes + 1
    /\ owing' = [owing EXCEPT ![kind] = @ + 1]
    /\ UNCHANGED <<quota, quotaQueue, counting, losses, raced>>

\* The save of update_workspace.
SpaceSaved(s, size) ==
    /\ s \in kept /\ disk' = [disk EXCEPT ![s] = size]
    /\ Change("disk") /\ UNCHANGED <<kept, hours>>

\* Slip: nothing is enqueued after a deletion.
SpaceDeletedQuietly(s) ==
    /\ s \in kept /\ kept' = kept \ {s}
    /\ changes < MaxChanges /\ changes' = changes + 1
    /\ UNCHANGED <<disk, hours, quota, owing, quotaQueue, counting, losses, raced>>

\* delete_workspace: the disk space is summed up again, the hours are not.
SpaceDeleted(s) ==
    /\ s \in kept /\ kept' = kept \ {s}
    /\ Change("disk") /\ UNCHANGED <<disk, hours>>

\* update_job_core_hours.
HoursSaved(j, size) ==
    /\ SpaceOf[j] \in kept /\ hours' = [hours EXCEPT ![j] = size]
    /\ Change("hours") /\ UNCHANGED <<kept, disk>>

\* Without its workspace a job of the local resource is saved all the same, and
\* then the task raises; for one of Slurm it raises before that.
HoursUnowned(j, size) ==
    /\ SpaceOf[j] \notin kept
    /\ changes < MaxChanges /\ changes' = changes + 1
    /\ hours' \in {hours, [hours EXCEPT ![j] = size]}
    /\ UNCHANGED <<kept, disk, owing, quota, quotaQueue, counting, losses, raced>>

\* async_task, in the end of those tasks.
Notify(kind) ==
    /\ owing[kind] > 0 /\ owing' = [owing EXCEPT ![kind] = @ - 1]
    /\ quotaQueue' = [quotaQueue EXCEPT ![kind] = @ + 1]
    /\ UNCHANGED <<kept, disk, hours, quota, counting, changes, losses, raced>>

\* The worker is killed before that.
NotifyNever(kind) ==
    /\ owing[kind] > 0 /\ owing' = [owing EXCEPT ![kind] = @ - 1]
    /\ losses < MaxLosses /\ losses' = losses + 1
    /\ UNCHANGED <<kept, disk, hours, quota, quotaQueue, counting, changes, raced>>

QuotaTake(w, kind) ==
    /\ counting[w].pc = "idle" /\ quotaQueue[kind] > 0
    /\ quotaQueue' = [quotaQueue EXCEPT ![kind] = @ - 1]
    /\ counting' = [counting EXCEPT ![w] = [pc |-> "sum", kind |-> kind, row |-> quota]]
    /\ raced' = (raced \/ \E v \in QuotaWorkers : counting[v].pc # "idle")
    /\ UNCHANGED <<kept, disk, hours, quota, owing, changes, losses>>

\* The sum over no rows is NULL, which the row cannot hold: the task fails.
QuotaSum(w) ==
    LET kind == counting[w].kind IN
    /\ counting[w].pc = "sum"
    /\ counting' = [counting EXCEPT ![w] =
           IF Summed(kind) = {} THEN NotCounting
           ELSE [@ EXCEPT !.pc = "save", !.row[kind] = SumOf(kind)]]
    /\ UNCHANGED <<kept, disk, hours, quota, owing, quotaQueue, changes, losses, raced>>

QuotaSave(w) ==
    /\ counting[w].pc = "save" /\ quota' = counting[w].row
    /\ counting' = [counting EXCEPT ![w] = NotCounting]
    /\ UNCHANGED <<kept, disk, hours, owing, quotaQueue, changes, losses, raced>>

QuotaKilled(w) ==
    /\ counting[w].pc # "idle" /\ counting' = [counting EXCEPT ![w] = NotCounting]
    /\ losses < MaxLosses /\ losses' = losses + 1
    /\ UNCHANGED <<kept, disk, hours, quota, owing, quotaQueue, changes, raced>>

QuotaNext ==
    \/ \E s \in Spaces, size \in Sizes : SpaceSaved(s, size)
    \/ \E s \in Spaces : SpaceDeleted(s)
    \/ \E j \in QuotaJobs, size \in Sizes : HoursSaved(j, size) \/ HoursUnowned(j, size)
    \/ \E kind \in QuotaKinds : Notify(kind) \/ NotifyNever(kind)
    \/ \E w \in QuotaWorkers : \/ \E kind \in QuotaKinds : QuotaTake(w, kind)
                               \/ QuotaSum(w) \/ QuotaSave(w) \/ QuotaKilled(w)

-----------------------------------------------------------------------------
QuotaQuiet ==
    /\ \A kind \in QuotaKinds : owing[kind] + quotaQueue[kind] = 0
    /\ \A w \in QuotaWorkers : counting[w].pc = "idle"

\* Whatever was saved while quota tasks were waiting or half done, in the end
\* the quota agrees with what the user has - unless a task was killed, two of
\* the tasks ran at once, which may save an older sum, or the last workspace
\* is gone; the hours stay too high once a workspace with jobs was deleted
\* (tasks.py, update_user_quota_disk_space, update_user_quota_core_hours).
QuotaSettles ==
    QuotaQuiet /\ losses = 0 /\ ~raced =>
        /\ kept # {} => quota.disk = SumOf("disk")
        /\ kept = Spaces => quota.hours = SumOf("hours")
=============================================================================
