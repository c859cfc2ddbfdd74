-------------------------- MODULE SharedWorkspace --------------------------
(***************************************************************************)
(* Sharing one workspace: the request that makes a copy for each receiver  *)
(* (SharedWorkspaceView.post), the task that fills it                      *)
(* (initialize_shared_workspace), the answers of the receivers (put        *)
(* "accept", delete), the deletion of the original (WorkspaceView.delete)  *)
(* and the tasks update_workspace and delete_workspace they lead to.       *)
(*                                                                         *)
(* As in WorkspaceLifecycle, a step is one database statement or one       *)
(* change of a directory, an actor holds the row it read, save() writes    *)
(* every field of it and inserts a row that is gone.                       *)
(***************************************************************************)
EXTENDS Naturals

CONSTANTS
    Copies,      \* the workspaces one request creates, one per receiver
    Original,    \* the workspace that is shared
    Accepts,     \* copies that the receiver tries to accept
    Declines,    \* copies that the receiver or the owner tries to delete
    Workers,     \* the workers of the "long" cluster
    MaxFaults    \* bound on deaths of processes and failing copies or removals

Workspaces == Copies \union {Original}

ASSUME ShareAssumption ==
    /\ Original \notin Copies
    /\ Accepts \subseteq Copies /\ Declines \subseteq Copies
    /\ MaxFaults \in Nat

\* What current_workspace_details lists: the files of the original when it
\* was shared, another directory, or the workspace's own.
Contents == {"none", "partial", "full"}
Listings == {"inherited", "elsewhere"} \union Contents

\* A workspace row; here tells whether it is in the table.
Statuses == {"initializing", "idle", "active", "deleting", "error"}
Rows == [here : BOOLEAN, status : Statuses, path : BOOLEAN, listed : Listings]
NoRow == [here |-> FALSE, status |-> "initializing", path |-> FALSE, listed |-> "inherited"]
CopyRow == [NoRow EXCEPT !.here = TRUE]
OwnRow == [here |-> TRUE, status |-> "idle", path |-> TRUE, listed |-> "full"]

\* A SharedWorkspaceMapping; linked tells whether original_workspace_id is set.
Mappings == [state : {"none", "pending", "accepted"}, linked : BOOLEAN]
NoMapping == [state |-> "none", linked |-> FALSE]

VARIABLES
    ws,        \* the Workspace rows
    dir,       \* the directories: what is in them
    mapping,   \* the mapping of each copy
    post,      \* the request that shares: step, copies left to do, copy in the making
    accept,    \* the accepting requests: step, mapping and row in memory
    decline,   \* the deleting requests: step and row in memory
    remove,    \* the request that deletes the original: step and row in memory
    queued,    \* tasks on the queue of the "long" cluster
    worker,    \* its workers: step, workspace and row in memory
    faults,    \* counter for MaxFaults
    late, disturbed   \* history, see Record

tables == <<ws, mapping>>
answers == <<accept, decline, remove>>
tasks == <<queued, worker>>
history == <<late, disturbed>>
vars == <<tables, dir, post, answers, tasks, faults, history>>

Kinds == {"initialize", "update", "delete"}
PostSteps == {"idle", "making", "enqueuing", "answered", "failed", "died"}
WorkerSteps == {"idle", "copy", "announce", "ready", "scan", "store", "remove", "drop", "error"}

HistoryTypeOK == late \subseteq Copies /\ disturbed \subseteq Copies

TypeOK ==
    /\ ws \in [Workspaces -> Rows]
    /\ dir \in [Workspaces -> Contents]
    /\ mapping \in [Copies -> Mappings]
    /\ post \in [pc : PostSteps, left : SUBSET Copies, now : SUBSET Copies]
    /\ accept \in [Accepts -> [pc : {"idle", "read", "saved", "fetched", "answered", "failed"},
                               mapping : Mappings, row : Rows]]
    /\ decline \in [Declines -> [pc : {"idle", "read", "answered", "refused"}, row : Rows]]
    /\ remove \in [pc : {"idle", "read", "checked", "answered", "refused"}, row : Rows]
    /\ queued \in [Kinds \X Workspaces -> Nat]
    /\ worker \in [Workers -> [pc : WorkerSteps, of : Workspaces, row : Rows, linked : BOOLEAN]]
    /\ faults \in 0 .. MaxFaults
    /\ HistoryTypeOK

Idle == [pc |-> "idle", of |-> Original, row |-> NoRow, linked |-> FALSE]

Init ==
    /\ ws = [x \in Workspaces |-> IF x = Original THEN OwnRow ELSE NoRow]
    /\ dir = [x \in Workspaces |-> IF x = Original THEN "full" ELSE "none"]
    /\ mapping = [c \in Copies |-> NoMapping]
    /\ post = [pc |-> "idle", left |-> Copies, now |-> {}]
    /\ accept = [c \in Accepts |-> [pc |-> "idle", mapping |-> NoMapping, row |-> NoRow]]
    /\ decline = [c \in Declines |-> [pc |-> "idle", row |-> NoRow]]
    /\ remove = [pc |-> "idle", row |-> NoRow]
    /\ queued = [t \in Kinds \X Workspaces |-> 0]
    /\ worker = [w \in Workers |-> Idle]
    /\ faults = 0
    /\ late = {} /\ disturbed = {}

-----------------------------------------------------------------------------
Fault == faults < MaxFaults /\ faults' = faults + 1

\* Model.save() of a Workspace: an update of every field, or an insert.
Save(x, row) == ws' = [ws EXCEPT ![x] = [row EXCEPT !.here = TRUE]]

Enqueue(kind, x) == queued' = [queued EXCEPT ![<<kind, x>>] = @ + 1]

(* SharedWorkspaceView.post: all rows first, then the tasks.               *)

PostGoing == post.pc \in {"making", "enqueuing"}
RemoveGoing == remove.pc \in {"read", "checked"}

\* The original is looked up; what a copy takes over from it is read here.
PostRead ==
    /\ post.pc = "idle" /\ ws[Original].here
    /\ post' = [post EXCEPT !.pc = "making"]
    /\ UNCHANGED <<tables, dir, answers, tasks, faults>>

PostCopy(c) ==
    /\ post.pc = "making" /\ post.now = {} /\ c \in post.left
    /\ Save(c, CopyRow)
    /\ post' = [post EXCEPT !.now = {c}]
    /\ UNCHANGED <<mapping, dir, answers, tasks, faults>>

\* The mapping refers to the original, which must still be there: if not,
\* the request fails and leaves what it has created.
PostMapping(c) ==
    /\ post.pc = "making" /\ post.now = {c}
    /\ IF ws[Original].here
       THEN LET left == post.left \ {c} IN
            /\ mapping' = [mapping EXCEPT ![c] = [state |-> "pending", linked |-> TRUE]]
            /\ post' = IF left = {} THEN [pc |-> "enqueuing", left |-> Copies, now |-> {}]
                       ELSE [pc |-> "making", left |-> left, now |-> {}]
       ELSE post' = [post EXCEPT !.pc = "failed"] /\ UNCHANGED mapping
    /\ UNCHANGED <<ws, dir, answers, tasks, faults>>

PostEnqueue(c) ==
    /\ post.pc = "enqueuing" /\ c \in post.left
    /\ Enqueue("initialize", c)
    /\ post' = [post EXCEPT !.left = @ \ {c}, !.pc = IF post.left = {c} THEN "answered" ELSE @]
    /\ UNCHANGED <<tables, dir, answers, worker, faults>>

Post == PostRead \/ \E c \in Copies : PostCopy(c) \/ PostMapping(c) \/ PostEnqueue(c)

\* The web worker dies: no clean-up, and no task for the copies left.
PostDies ==
    /\ PostGoing /\ Fault
    /\ post' = [post EXCEPT !.pc = "died"]
    /\ UNCHANGED <<tables, dir, answers, tasks>>

-----------------------------------------------------------------------------
(* SharedWorkspaceView.put, "accept".                                      *)

\* The mapping is what makes the copy show up in the receiver's list.
MayAnswer(c) == mapping[c].state # "none"

AcceptRead(c) ==
    /\ accept[c].pc = "idle" /\ MayAnswer(c)
    /\ accept' = [accept EXCEPT ![c].pc = "read", ![c].mapping = mapping[c]]
    /\ UNCHANGED <<tables, dir, post, decline, remove, tasks, faults>>

\* The mapping is saved with the references it had: it cannot be if a row it
\* refers to is gone.
AcceptSave(c) ==
    LET held == accept[c].mapping
        valid == ws[c].here /\ (held.linked => ws[Original].here) IN
    /\ accept[c].pc = "read"
    /\ mapping' = IF valid THEN [mapping EXCEPT ![c] = [held EXCEPT !.state = "accepted"]] ELSE mapping
    /\ accept' = [accept EXCEPT ![c].pc = IF valid THEN "saved" ELSE "failed"]
    /\ UNCHANGED <<ws, dir, post, decline, remove, tasks, faults>>

AcceptFetch(c) ==
    /\ accept[c].pc = "saved"
    /\ accept' = [accept EXCEPT ![c].pc = IF ws[c].here THEN "fetched" ELSE "failed",
                                ![c].row = ws[c]]
    /\ UNCHANGED <<tables, dir, post, decline, remove, tasks, faults>>

\* For the sake of datetime_created, every field of the row is saved.
AcceptTouch(c) ==
    /\ accept[c].pc = "fetched"
    /\ Save(c, accept[c].row)
    /\ accept' = [accept EXCEPT ![c].pc = "answered"]
    /\ UNCHANGED <<mapping, dir, post, decline, remove, tasks, faults>>

AcceptStep(c) == AcceptSave(c) \/ AcceptFetch(c) \/ AcceptTouch(c)

(* SharedWorkspaceView.delete.                                             *)

\* Mapping, copy and original are read; without an original the check of
\* ownership raises, and an accepted share is refused.
DeclineRead(c) ==
    /\ decline[c].pc = "idle" /\ MayAnswer(c)
    /\ decline' = [decline EXCEPT ![c] =
           IF ~mapping[c].linked \/ mapping[c].state = "accepted" THEN [@ EXCEPT !.pc = "refused"]
           ELSE [pc |-> "read", row |-> ws[c]]]
    /\ UNCHANGED <<tables, dir, post, accept, remove, tasks, faults>>

\* A copy that is not initialized has no valid path: it becomes an error.
DeclineMark(c) ==
    /\ decline[c].pc = "read"
    /\ IF decline[c].row.path
       THEN /\ Save(c, [decline[c].row EXCEPT !.status = "deleting"])
            /\ Enqueue("delete", c)
            /\ decline' = [decline EXCEPT ![c].pc = "answered"]
       ELSE /\ Save(c, [decline[c].row EXCEPT !.status = "error"])
            /\ decline' = [decline EXCEPT ![c].pc = "refused"]
            /\ UNCHANGED queued
    /\ UNCHANGED <<mapping, dir, post, accept, remove, worker, faults>>

(* WorkspaceView.delete, for the original.                                 *)

RemoveRead ==
    /\ remove.pc = "idle" /\ ws[Original].here
    /\ remove' = [pc |-> "read", row |-> ws[Original]]
    /\ UNCHANGED <<tables, dir, post, accept, decline, tasks, faults>>

HasPendingShares == \E c \in Copies : mapping[c].state = "pending" /\ mapping[c].linked

\* Slip: the shares are not looked at.
RemoveCheckAlways ==
    /\ remove.pc = "read"
    /\ remove' = [remove EXCEPT !.pc = "checked"]
    /\ UNCHANGED <<tables, dir, post, accept, decline, tasks, faults>>

RemoveCheck ==
    /\ remove.pc = "read"
    /\ remove' = [remove EXCEPT !.pc = IF HasPendingShares THEN "refused" ELSE "checked"]
    /\ UNCHANGED <<tables, dir, post, accept, decline, tasks, faults>>

RemoveMark ==
    /\ remove.pc = "checked"
    /\ Save(Original, [remove.row EXCEPT !.status = "deleting"])
    /\ Enqueue("delete", Original)
    /\ remove' = [remove EXCEPT !.pc = "answered"]
    /\ UNCHANGED <<mapping, dir, post, accept, decline, worker, faults>>

-----------------------------------------------------------------------------
(* The tasks of the "long" cluster.                                        *)

Dequeue(kind, x) ==
    /\ queued[<<kind, x>>] > 0
    /\ queued' = [queued EXCEPT ![<<kind, x>>] = @ - 1]

\* initialize_shared_workspace reads the mapping and both rows, and sets the
\* path of the copy in memory.  Without a mapping it raises.
InitTake(w, c) ==
    /\ worker[w].pc = "idle" /\ Dequeue("initialize", c)
    /\ worker' = IF mapping[c].state = "none" THEN worker
                 ELSE [worker EXCEPT ![w] = [pc |-> "copy", of |-> c, row |-> [ws[c] EXCEPT !.path = TRUE],
                                             linked |-> mapping[c].linked]]
    /\ UNCHANGED <<tables, dir, post, answers, faults>>

\* copytree: an error, such as an original or a target that it does not
\* expect, is logged and nothing more.
InitCopy(w) ==
    LET c == worker[w].of IN
    /\ worker[w].pc = "copy"
    /\ \/ /\ dir' = IF worker[w].linked /\ dir[c] = "none" THEN [dir EXCEPT ![c] = dir[Original]] ELSE dir
          /\ UNCHANGED faults
       \/ /\ Fault
          /\ \E left \in {"none", "partial"} :
                dir' = IF dir[c] = "none" THEN [dir EXCEPT ![c] = left] ELSE dir
    /\ worker' = [worker EXCEPT ![w].pc = "announce"]
    /\ UNCHANGED <<tables, post, answers, queued>>

\* update_workspace is enqueued, and a mail to the receiver: without an
\* original the text of the mail cannot be made, and the task raises.
InitAnnounce(w) ==
    /\ worker[w].pc = "announce"
    /\ Enqueue("update", worker[w].of)
    /\ worker' = [worker EXCEPT ![w] = IF @.linked THEN [@ EXCEPT !.pc = "ready"] ELSE Idle]
    /\ UNCHANGED <<tables, dir, post, answers, faults>>

\* Slip: the row is saved with the status that it had.
InitSaveUnready(w) ==
    /\ worker[w].pc = "ready"
    /\ Save(worker[w].of, worker[w].row)
    /\ worker' = [worker EXCEPT ![w] = Idle]
    /\ UNCHANGED <<mapping, dir, post, answers, queued, faults>>

\* Slip: a status that a workspace does not have.
InitSaveReady(w) ==
    /\ worker[w].pc = "ready"
    /\ Save(worker[w].of, [worker[w].row EXCEPT !.status = "ready"])
    /\ worker' = [worker EXCEPT ![w] = Idle]
    /\ UNCHANGED <<mapping, dir, post, answers, queued, faults>>

InitSave(w) ==
    /\ worker[w].pc = "ready"
    /\ Save(worker[w].of, [worker[w].row EXCEPT !.status = "idle"])
    /\ worker' = [worker EXCEPT ![w] = Idle]
    /\ UNCHANGED <<mapping, dir, post, answers, queued, faults>>

\* update_workspace and delete_workspace, as in WorkspaceLifecycle.
Take(w, kind, x, step) ==
    /\ worker[w].pc = "idle" /\ Dequeue(kind, x)
    /\ worker' = IF ws[x].here THEN [worker EXCEPT ![w] = [Idle EXCEPT !.pc = step, !.of = x, !.row = ws[x]]]
                 ELSE worker
    /\ UNCHANGED <<tables, dir, post, answers, faults>>

UpdateTake(w, x) == Take(w, "update", x, "scan")

UpdateScan(w) ==
    LET x == worker[w].of
        hasPath == worker[w].row.path IN
    /\ worker[w].pc = "scan"
    /\ worker' = [worker EXCEPT ![w] =
           IF hasPath /\ dir[x] = "none" THEN Idle
           ELSE [@ EXCEPT !.pc = "store", !.row.listed = IF hasPath THEN dir[x] ELSE "elsewhere"]]
    /\ UNCHANGED <<tables, dir, post, answers, queued, faults>>

UpdateSave(w) ==
    /\ worker[w].pc = "store"
    /\ Save(worker[w].of, worker[w].row)
    /\ worker' = [worker EXCEPT ![w] = Idle]
    /\ UNCHANGED <<mapping, dir, post, answers, queued, faults>>

DeleteTake(w, x) == Take(w, "delete", x, "remove")

\* rmtree leaves what it cannot remove, and says nothing.
RemoveTree(x) ==
    \/ dir' = [dir EXCEPT ![x] = "none"] /\ UNCHANGED faults
    \/ Fault /\ dir' \in {dir, [dir EXCEPT ![x] = "partial"]}

\* delete_dir raises if the path is empty, the directory does not exist or
\* is not the user's own.
DeleteDir(w) ==
    LET x == worker[w].of
        found == worker[w].row.path /\ dir[x] # "none" IN
    /\ worker[w].pc = "remove"
    /\ \/ found /\ RemoveTree(x) /\ worker' = [worker EXCEPT ![w].pc = "drop"]
       \/ /\ IF found THEN Fault ELSE UNCHANGED faults
          /\ worker' = [worker EXCEPT ![w].pc = "error"] /\ UNCHANGED dir
    /\ UNCHANGED <<tables, post, answers, queued>>

\* Slip: the mapping of a copy is protected, not deleted with it.
DeleteRowOnly(w) ==
    LET x == worker[w].of IN
    /\ worker[w].pc = "drop"
    /\ ws' = [ws EXCEPT ![x].here = FALSE]
    /\ worker' = [worker EXCEPT ![w] = Idle]
    /\ UNCHANGED <<mapping, dir, post, answers, queued, faults>>

\* The mapping goes with its copy (CASCADE) and stays, without a reference,
\* when the original goes (SET_NULL).
DeleteRow(w) ==
    LET x == worker[w].of IN
    /\ worker[w].pc = "drop"
    /\ ws' = [ws EXCEPT ![x].here = FALSE]
    /\ mapping' = [c \in Copies |-> CASE x = c -> NoMapping
                                      [] x = Original -> [mapping[c] EXCEPT !.linked = FALSE]
                                      [] OTHER -> mapping[c]]
    /\ worker' = [worker EXCEPT ![w] = Idle]
    /\ UNCHANGED <<dir, post, answers, queued, faults>>

DeleteErrors(w) ==
    /\ worker[w].pc = "error"
    /\ Save(worker[w].of, [worker[w].row EXCEPT !.status = "error"])
    /\ worker' = [worker EXCEPT ![w] = Idle]
    /\ UNCHANGED <<mapping, dir, post, answers, queued, faults>>

WorkerStep(w) ==
    \/ \E c \in Copies : InitTake(w, c)
    \/ \E x \in Workspaces : UpdateTake(w, x) \/ DeleteTake(w, x)
    \/ InitCopy(w) \/ InitAnnounce(w) \/ InitSave(w)
    \/ UpdateScan(w) \/ UpdateSave(w)
    \/ DeleteDir(w) \/ DeleteRow(w) \/ DeleteErrors(w)

\* A task that takes too long is killed, wherever it is.
TaskTimesOut(w) ==
    /\ worker[w].pc # "idle" /\ Fault
    /\ worker' = [worker EXCEPT ![w] = Idle]
    /\ UNCHANGED <<tables, dir, post, answers, queued>>

-----------------------------------------------------------------------------
(* History, for the properties: no step of the code depends on it.         *)

Declined(c) == c \in Declines /\ decline[c].pc = "answered"
Accepted(c) == c \in Accepts /\ accept[c].pc = "answered"

\* The deletion of the original is past its check for pending shares.
PastCheck == remove.pc \in {"checked", "answered"}
BecomesPending(c) == mapping[c].state # "pending" /\ mapping'[c].state = "pending"

\* Somebody other than the worker has the row of the copy in memory.
Held(c, w) ==
    \/ \E v \in Workers \ {w} : worker[v].pc # "idle" /\ worker[v].of = c
    \/ c \in Accepts /\ accept[c].pc = "fetched"
    \/ c \in Declines /\ decline[c].pc = "read"

\* What may spoil a copy: its row is held while it is filled or is dropped,
\* or the original may be removed before it is filled.
Disturbed(c) ==
    \/ \E w \in Workers :
          /\ worker[w].of = c /\ worker[w].pc \in {"copy", "announce", "ready", "drop"}
          /\ Held(c, w)
    \/ PastCheck /\ dir[c] = "none" /\ ~Declined(c)

Record ==
    /\ late' = late \union {c \in Copies : PastCheck /\ BecomesPending(c)}
    /\ disturbed' = disturbed \union {c \in Copies : Disturbed(c)'}

Step ==
    \/ Post \/ PostDies
    \/ \E c \in Accepts : AcceptRead(c) \/ AcceptStep(c)
    \/ \E c \in Declines : DeclineRead(c) \/ DeclineMark(c)
    \/ RemoveRead \/ RemoveCheck \/ RemoveMark
    \/ \E w \in Workers : WorkerStep(w) \/ TaskTimesOut(w)

Next == Step /\ Record

Spec == Init /\ [][Next]_vars

\* A request that was begun and the workers run on whenever they can.
FairSpec ==
    /\ Spec
    /\ WF_vars(Post /\ post.pc # "idle" /\ Record)
    /\ \A c \in Accepts : WF_vars(AcceptStep(c) /\ Record)
    /\ \A c \in Declines : WF_vars(DeclineMark(c) /\ Record)
    /\ WF_vars((RemoveCheck \/ RemoveMark) /\ Record)
    /\ \A w \in Workers : WF_vars(WorkerStep(w) /\ Record)

-----------------------------------------------------------------------------
(* Properties.                                                             *)

\* No request or task is under way.
Quiet ==
    /\ ~PostGoing /\ ~RemoveGoing
    /\ \A c \in Accepts : accept[c].pc \in {"idle", "answered", "failed"}
    /\ \A c \in Declines : decline[c].pc # "read"
    /\ \A t \in Kinds \X Workspaces : queued[t] = 0
    /\ \A w \in Workers : worker[w].pc = "idle"

\* An accept may save the row it fetched before update_workspace saved its
\* listing: then the one taken over from the original stays.
Complete(c) ==
    /\ ws[c].here /\ ws[c].status = "idle" /\ ws[c].path
    /\ ws[c].listed = "full" \/ (ws[c].listed = "inherited" /\ Accepted(c))
    /\ dir[c] = "full" /\ mapping[c].state # "none"
Gone(c) == ~ws[c].here /\ dir[c] = "none" /\ mapping[c].state = "none"

\* No half-made copies: once everything has settled and nothing died, each
\* copy is either complete - idle, with its path, the files of the original
\* and a listing, although five writers save its row as a whole and any
\* number of workers run the tasks - or it was declined and row, directory
\* and mapping are gone.  The code leaves three ways out, see Disturbed: an
\* actor has the row in memory while initialize_shared_workspace fills the
\* copy, or while delete_workspace drops it; or the original is deleted when
\* the copy is not filled yet.
SharesSettle ==
    post.pc = "answered" /\ faults = 0 /\ Quiet
    => \A c \in Copies \ disturbed : IF Declined(c) THEN Gone(c) ELSE Complete(c)

\* A share that waits for its answer keeps its original: "Please cancel those
\* shares to delete this workspace" (WorkspaceView.delete, three statements
\* and a task before the row goes) - unless the share is made when the
\* deletion is past its check.
PendingKeepsOriginal ==
    \A c \in Copies \ late : mapping[c].state = "pending" =>
        mapping[c].linked /\ ws[Original].here /\ dir[Original] = "full"

\* PendingKeepsOriginal strengthened to an inductive invariant: once the
\* deletion of the original is past its check, and so for every task that
\* removes it, no share is pending that the check would have seen.
RemovalGoesOn ==
    \/ queued[<<"delete", Original>>] > 0
    \/ \E w \in Workers : worker[w].of = Original /\ worker[w].pc \in {"remove", "drop", "error"}
PendingInv ==
    /\ PendingKeepsOriginal
    /\ RemovalGoesOn => PastCheck
    /\ PastCheck => \A c \in Copies \ late : mapping[c].state # "pending"
    /\ ~PastCheck => /\ ws[Original].here /\ dir[Original] = "full"
                     /\ \A c \in Copies : mapping[c].state = "pending" => mapping[c].linked

\* What was shared arrives: every copy becomes usable, or was declined, in
\* whatever order the workers of the "long" cluster run the tasks and
\* whenever the answers come - unless the copy is disturbed.
SharesArrive ==
    post.pc = "answered" ~>
        (faults > 0 \/ \A c \in Copies : Complete(c) \/ Declined(c) \/ c \in disturbed)

\* A declined copy disappears for good, with its mapping and directory: no
\* update_workspace, queued or running, brings it back and no accept that
\* comes at the same time - unless one has its row in memory while it is
\* dropped, or had while it was filled.
DeclinedGoes ==
    \A c \in Declines : Declined(c) ~> (faults > 0 \/ c \in disturbed \/ [] Gone(c))
=============================================================================
