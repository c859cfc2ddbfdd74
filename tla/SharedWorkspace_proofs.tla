----------------------- MODULE SharedWorkspace_proofs -----------------------
(***************************************************************************)
(* Proofs about SharedWorkspace, for any number of copies, answers and     *)
(* workers: its type invariant; that a share that waits for its answer     *)
(* keeps its original, unless it was made too late; and that each copy     *)
(* ends complete or gone, unless it was disturbed.                         *)
(***************************************************************************)
EXTENDS SharedWorkspace, TLAPS

-----------------------------------------------------------------------------
(* Type correctness.                                                       *)

WorkerRecords == [pc : WorkerSteps, of : Workspaces, row : Rows, linked : BOOLEAN]

LEMMA RowTypes ==
  /\ NoRow \in Rows /\ CopyRow \in Rows /\ OwnRow \in Rows
  /\ NoMapping \in Mappings
  /\ Idle \in WorkerRecords
  BY DEF NoRow, CopyRow, OwnRow, Rows, Statuses, Listings, Contents, NoMapping, Mappings,
         Idle, WorkerRecords, WorkerSteps, Workspaces

\* What is changed of a row leaves it a row.
LEMMA RowChanges ==
  ASSUME NEW row \in Rows
  PROVE  /\ \A status \in Statuses : [row EXCEPT !.status = status] \in Rows
         /\ [row EXCEPT !.here = TRUE] \in Rows
         /\ [row EXCEPT !.here = FALSE] \in Rows
         /\ [row EXCEPT !.path = TRUE] \in Rows
         /\ \A listed \in Listings : [row EXCEPT !.listed = listed] \in Rows
  BY DEF Rows

LEMMA SaveType ==
  ASSUME TypeOK, NEW x \in Workspaces, NEW row \in Rows, Save(x, row)
  PROVE  ws' \in [Workspaces -> Rows]
  BY RowChanges DEF TypeOK, Save

LEMMA EnqueueType ==
  ASSUME TypeOK, NEW kind \in Kinds, NEW x \in Workspaces, Enqueue(kind, x)
  PROVE  queued' \in [Kinds \X Workspaces -> Nat]
  BY DEF TypeOK, Enqueue

LEMMA DequeueType ==
  ASSUME TypeOK, NEW kind \in Kinds, NEW x \in Workspaces, Dequeue(kind, x)
  PROVE  queued' \in [Kinds \X Workspaces -> Nat]
  <1>1. queued[<<kind, x>>] - 1 \in Nat
    BY DEF TypeOK, Dequeue
  <1>. QED
    BY <1>1 DEF TypeOK, Dequeue

LEMMA HistoryType == HistoryTypeOK /\ Record => HistoryTypeOK'
  BY DEF HistoryTypeOK, Record

LEMMA PostType == TypeOK /\ HistoryTypeOK' /\ (Post \/ PostDies) => TypeOK'
  <1>. SUFFICES ASSUME TypeOK, HistoryTypeOK', Post \/ PostDies PROVE TypeOK'
    OBVIOUS
  <1>. USE RowTypes DEF TypeOK, PostSteps, tables, answers, tasks
  <1>1. CASE PostRead
    BY <1>1 DEF PostRead
  <1>2. ASSUME NEW c \in Copies, PostCopy(c) PROVE TypeOK'
    <2>1. ws' \in [Workspaces -> Rows]
      BY <1>2, SaveType DEF PostCopy, Workspaces
    <2>. QED
      BY <1>2, <2>1 DEF PostCopy
  <1>3. ASSUME NEW c \in Copies, PostMapping(c) PROVE TypeOK'
    <2>1. [state |-> "pending", linked |-> TRUE] \in Mappings
      BY DEF Mappings
    <2>2. mapping' \in [Copies -> Mappings]
      BY <1>3, <2>1 DEF PostMapping
    <2>3. post' \in [pc : PostSteps, left : SUBSET Copies, now : SUBSET Copies]
      BY <1>3 DEF PostMapping
    <2>. QED
      BY <1>3, <2>2, <2>3 DEF PostMapping
  <1>4. ASSUME NEW c \in Copies, PostEnqueue(c) PROVE TypeOK'
    <2>1. queued' \in [Kinds \X Workspaces -> Nat]
      BY <1>4, EnqueueType DEF PostEnqueue, Workspaces, Kinds
    <2>2. post' \in [pc : PostSteps, left : SUBSET Copies, now : SUBSET Copies]
      BY <1>4 DEF PostEnqueue
    <2>. QED
      BY <1>4, <2>1, <2>2 DEF PostEnqueue
  <1>5. CASE PostDies
    BY <1>5, ShareAssumption DEF PostDies, Fault
  <1>. QED
    BY <1>1, <1>2, <1>3, <1>4, <1>5 DEF Post

AcceptSteps == {"idle", "read", "saved", "fetched", "answered", "failed"}
AcceptRecords == [pc : AcceptSteps, mapping : Mappings, row : Rows]

LEMMA AcceptChanges ==
  ASSUME NEW held \in AcceptRecords, NEW step \in AcceptSteps, NEW m \in Mappings, NEW row \in Rows
  PROVE  /\ [held EXCEPT !.pc = step] \in AcceptRecords
         /\ [held EXCEPT !.pc = step, !.mapping = m] \in AcceptRecords
         /\ [held EXCEPT !.pc = step, !.row = row] \in AcceptRecords
  BY DEF AcceptRecords

LEMMA MappingChanges ==
  ASSUME NEW m \in Mappings
  PROVE  [m EXCEPT !.state = "accepted"] \in Mappings /\ [m EXCEPT !.linked = FALSE] \in Mappings
  BY DEF Mappings

LEMMA AcceptType ==
  ASSUME TypeOK, HistoryTypeOK', NEW c \in Accepts, AcceptRead(c) \/ AcceptStep(c)
  PROVE  TypeOK'
  <1>. USE DEF tables, answers, tasks
  <1>0. c \in Copies /\ c \in Workspaces
    BY ShareAssumption DEF Workspaces
  <1>1. /\ accept \in [Accepts -> AcceptRecords] /\ accept[c].mapping \in Mappings
        /\ accept[c].row \in Rows /\ mapping[c] \in Mappings /\ ws[c] \in Rows
        /\ mapping \in [Copies -> Mappings] /\ ws \in [Workspaces -> Rows]
    BY <1>0 DEF TypeOK, AcceptRecords, AcceptSteps
  <1>2. /\ accept' \in [Accepts -> AcceptRecords]
        /\ mapping' \in [Copies -> Mappings]
        /\ ws' \in [Workspaces -> Rows]
    <2>1. CASE AcceptRead(c)
      BY <1>0, <1>1, <2>1, AcceptChanges DEF AcceptRead, AcceptSteps
    <2>2. CASE AcceptSave(c)
      BY <1>0, <1>1, <2>2, AcceptChanges, MappingChanges DEF AcceptSave, AcceptSteps
    <2>3. CASE AcceptFetch(c)
      BY <1>0, <1>1, <2>3, AcceptChanges DEF AcceptFetch, AcceptSteps
    <2>4. CASE AcceptTouch(c)
      BY <1>0, <1>1, <2>4, AcceptChanges, SaveType DEF AcceptTouch, AcceptSteps
    <2>. QED
      BY <2>1, <2>2, <2>3, <2>4 DEF AcceptStep
  <1>3. UNCHANGED <<dir, post, decline, remove, tasks, faults>>
    BY DEF AcceptRead, AcceptStep, AcceptSave, AcceptFetch, AcceptTouch
  <1>. QED
    BY <1>2, <1>3 DEF TypeOK, AcceptRecords, AcceptSteps

LEMMA DeclineType ==
  ASSUME TypeOK, HistoryTypeOK', NEW c \in Declines, DeclineRead(c) \/ DeclineMark(c)
  PROVE  TypeOK'
  <1>. USE RowTypes, ShareAssumption DEF TypeOK, tables, answers, tasks
  <1>0. c \in Copies /\ c \in Workspaces
    BY DEF Workspaces
  <1>1. CASE DeclineRead(c)
    BY <1>0, <1>1 DEF DeclineRead
  <1>2. CASE DeclineMark(c)
    <2>0. /\ [decline[c].row EXCEPT !.status = "deleting"] \in Rows
          /\ [decline[c].row EXCEPT !.status = "error"] \in Rows
      BY RowChanges DEF Statuses
    <2>1. ws' \in [Workspaces -> Rows]
      BY <1>0, <1>2, <2>0, SaveType DEF DeclineMark
    <2>2. queued' \in [Kinds \X Workspaces -> Nat]
      BY <1>0, <1>2, EnqueueType DEF DeclineMark, Kinds
    <2>3. decline' \in [Declines -> [pc : {"idle", "read", "answered", "refused"}, row : Rows]]
      BY <1>2 DEF DeclineMark
    <2>. QED
      BY <1>2, <2>1, <2>2, <2>3 DEF DeclineMark
  <1>. QED
    BY <1>1, <1>2

LEMMA RemoveType == TypeOK /\ HistoryTypeOK' /\ (RemoveRead \/ RemoveCheck \/ RemoveMark) => TypeOK'
  <1>. SUFFICES ASSUME TypeOK, HistoryTypeOK', RemoveRead \/ RemoveCheck \/ RemoveMark PROVE TypeOK'
    OBVIOUS
  <1>. USE RowTypes, ShareAssumption DEF TypeOK, tables, answers, tasks
  <1>0. Original \in Workspaces
    BY DEF Workspaces
  <1>1. CASE RemoveRead
    BY <1>0, <1>1 DEF RemoveRead
  <1>2. CASE RemoveCheck
    BY <1>2 DEF RemoveCheck
  <1>3. CASE RemoveMark
    <2>0. [remove.row EXCEPT !.status = "deleting"] \in Rows
      BY RowChanges DEF Statuses
    <2>1. ws' \in [Workspaces -> Rows]
      BY <1>0, <1>3, <2>0, SaveType DEF RemoveMark
    <2>2. queued' \in [Kinds \X Workspaces -> Nat]
      BY <1>0, <1>3, EnqueueType DEF RemoveMark, Kinds
    <2>. QED
      BY <1>3, <2>1, <2>2 DEF RemoveMark
  <1>. QED
    BY <1>1, <1>2, <1>3

LEMMA InitializeType ==
  ASSUME TypeOK, HistoryTypeOK', NEW w \in Workers,
         (\E c \in Copies : InitTake(w, c)) \/ InitCopy(w) \/ InitAnnounce(w) \/ InitSave(w)
  PROVE  TypeOK'
  <1>. USE RowTypes DEF TypeOK, WorkerRecords, WorkerSteps, tables, answers
  <1>0. worker[w].of \in Workspaces /\ worker[w].row \in Rows
    OBVIOUS
  <1>1. ASSUME NEW c \in Copies, InitTake(w, c) PROVE TypeOK'
    <2>0. c \in Workspaces
      BY DEF Workspaces
    <2>1. queued' \in [Kinds \X Workspaces -> Nat]
      BY <1>1, <2>0, DequeueType DEF InitTake, Kinds
    <2>2. [ws[c] EXCEPT !.path = TRUE] \in Rows
      BY <2>0, RowChanges
    <2>3. mapping[c].linked \in BOOLEAN
      BY DEF Mappings
    <2>4. [pc |-> "copy", of |-> c, row |-> [ws[c] EXCEPT !.path = TRUE],
           linked |-> mapping[c].linked] \in WorkerRecords
      BY <2>0, <2>2, <2>3
    <2>5. worker' \in [Workers -> WorkerRecords]
      BY <1>1, <2>4 DEF InitTake
    <2>. QED
      BY <1>1, <2>1, <2>5 DEF InitTake
  <1>2. CASE InitCopy(w)
    <2>1. dir' \in [Workspaces -> Contents]
      BY <1>0, <1>2 DEF InitCopy, Contents, Workspaces
    <2>2. faults' \in 0 .. MaxFaults
      BY <1>2, ShareAssumption DEF InitCopy, Fault
    <2>. QED
      BY <1>2, <2>1, <2>2 DEF InitCopy
  <1>3. CASE InitAnnounce(w)
    <2>1. queued' \in [Kinds \X Workspaces -> Nat]
      BY <1>0, <1>3, EnqueueType DEF InitAnnounce, Kinds
    <2>. QED
      BY <1>3, <2>1 DEF InitAnnounce
  <1>4. CASE InitSave(w)
    <2>1. [worker[w].row EXCEPT !.status = "idle"] \in Rows
      BY <1>0, RowChanges DEF Statuses
    <2>2. ws' \in [Workspaces -> Rows]
      BY <1>0, <1>4, <2>1, SaveType DEF InitSave
    <2>. QED
      BY <1>4, <2>2 DEF InitSave
  <1>. QED
    BY <1>1, <1>2, <1>3, <1>4

LEMMA TakeType ==
  ASSUME TypeOK, HistoryTypeOK', NEW w \in Workers, NEW x \in Workspaces, UpdateTake(w, x) \/ DeleteTake(w, x)
  PROVE  TypeOK'
  <1>1. queued' \in [Kinds \X Workspaces -> Nat]
    BY DequeueType DEF UpdateTake, DeleteTake, Take, Kinds
  <1>2. ws[x] \in Rows /\ worker \in [Workers -> WorkerRecords]
    BY DEF TypeOK, WorkerRecords
  <1>3. ASSUME NEW step \in {"scan", "remove"}
        PROVE  [Idle EXCEPT !.pc = step, !.of = x, !.row = ws[x]] \in WorkerRecords
    BY <1>2, RowTypes DEF WorkerRecords, WorkerSteps
  <1>4. worker' \in [Workers -> WorkerRecords]
    BY <1>2, <1>3 DEF UpdateTake, DeleteTake, Take
  <1>5. UNCHANGED <<tables, dir, post, answers, faults>>
    BY DEF UpdateTake, DeleteTake, Take
  <1>. QED
    BY <1>1, <1>4, <1>5 DEF TypeOK, WorkerRecords, tables, answers

LEMMA UpdateType ==
  ASSUME TypeOK, HistoryTypeOK', NEW w \in Workers, UpdateScan(w) \/ UpdateSave(w)
  PROVE  TypeOK'
  <1>. USE RowTypes DEF TypeOK, WorkerRecords, WorkerSteps, tables, answers
  <1>0. worker[w].of \in Workspaces /\ worker[w].row \in Rows
    OBVIOUS
  <1>1. CASE UpdateScan(w)
    <2>. DEFINE listed == IF worker[w].row.path THEN dir[worker[w].of] ELSE "elsewhere"
    <2>1. listed \in Listings
      BY <1>0 DEF Listings
    <2>2. [worker[w].row EXCEPT !.listed = listed] \in Rows
      BY <1>0, <2>1, RowChanges
    <2>3. [worker[w] EXCEPT !.pc = "store", !.row.listed = listed] \in WorkerRecords
      BY <2>2
    <2>4. worker' \in [Workers -> WorkerRecords]
      BY <1>1, <2>3 DEF UpdateScan
    <2>. QED
      BY <1>1, <2>4 DEF UpdateScan
  <1>2. CASE UpdateSave(w)
    <2>1. ws' \in [Workspaces -> Rows]
      BY <1>0, <1>2, SaveType DEF UpdateSave
    <2>. QED
      BY <1>2, <2>1 DEF UpdateSave
  <1>. QED
    BY <1>1, <1>2

LEMMA DeleteType ==
  ASSUME TypeOK, HistoryTypeOK', NEW w \in Workers, DeleteDir(w) \/ DeleteRow(w) \/ DeleteErrors(w)
  PROVE  TypeOK'
  <1>. USE RowTypes DEF TypeOK, WorkerRecords, WorkerSteps, tables, answers
  <1>0. worker[w].of \in Workspaces /\ worker[w].row \in Rows
    OBVIOUS
  <1>1. CASE DeleteDir(w)
    <2>1. dir' \in [Workspaces -> Contents]
      BY <1>0, <1>1 DEF DeleteDir, RemoveTree, Contents
    <2>2. worker' \in [Workers -> WorkerRecords]
      <3>1. PICK step \in {"drop", "error"} : worker' = [worker EXCEPT ![w].pc = step]
        BY <1>1, Zenon DEF DeleteDir
      <3>2. step \in WorkerSteps /\ worker \in [Workers -> WorkerRecords]
        OBVIOUS
      <3>. QED
        BY ONLY <3>1, <3>2 DEF WorkerRecords
    <2>3. UNCHANGED <<tables, post, answers, queued>>
      BY <1>1 DEF DeleteDir
    <2>4. faults' \in 0 .. MaxFaults
      BY <1>1, ShareAssumption DEF DeleteDir, RemoveTree, Fault
    <2>. QED
      BY <2>1, <2>2, <2>3, <2>4
  <1>2. CASE DeleteRow(w)
    <2>. DEFINE x == worker[w].of
    <2>1. ws' \in [Workspaces -> Rows]
      BY <1>0, <1>2, RowChanges DEF DeleteRow
    <2>2. \A c \in Copies : [mapping[c] EXCEPT !.linked = FALSE] \in Mappings
      BY MappingChanges
    <2>3. mapping' \in [Copies -> Mappings]
      <3>1. ASSUME NEW c \in Copies
            PROVE  (CASE x = c -> NoMapping
                      [] x = Original -> [mapping[c] EXCEPT !.linked = FALSE]
                      [] OTHER -> mapping[c]) \in Mappings
        BY <2>2, ShareAssumption
      <3>. QED
        BY <1>2, <3>1 DEF DeleteRow
    <2>. QED
      BY <1>2, <2>1, <2>3 DEF DeleteRow
  <1>3. CASE DeleteErrors(w)
    <2>1. [worker[w].row EXCEPT !.status = "error"] \in Rows
      BY <1>0, RowChanges DEF Statuses
    <2>2. ws' \in [Workspaces -> Rows]
      BY <1>0, <1>3, <2>1, SaveType DEF DeleteErrors
    <2>. QED
      BY <1>3, <2>2 DEF DeleteErrors
  <1>. QED
    BY <1>1, <1>2, <1>3

LEMMA TimesOutType ==
  ASSUME TypeOK, HistoryTypeOK', NEW w \in Workers, TaskTimesOut(w)
  PROVE  TypeOK'
  BY RowTypes, ShareAssumption
     DEF TaskTimesOut, Fault, TypeOK, WorkerRecords, tables, answers

\* Every reachable state of the share is well typed: no handler or task saves
\* a status, a listing or a mapping that the tables do not know.
THEOREM ShareTypeCorrect == Spec => []TypeOK
  <1>1. Init => TypeOK
    <2>. SUFFICES ASSUME Init PROVE TypeOK
      OBVIOUS
    <2>1. faults \in 0 .. MaxFaults
      BY ShareAssumption DEF Init
    <2>2. worker \in [Workers -> WorkerRecords]
      BY RowTypes DEF Init
    <2>. QED
      BY <2>1, <2>2, RowTypes DEF Init, TypeOK, HistoryTypeOK, PostSteps, WorkerRecords, Contents
  <1>2. TypeOK /\ [Next]_vars => TypeOK'
    <2>. SUFFICES ASSUME TypeOK, [Next]_vars PROVE TypeOK'
      OBVIOUS
    <2>1. CASE UNCHANGED vars
      BY <2>1 DEF vars, tables, answers, tasks, history, TypeOK, HistoryTypeOK
    <2>0. Next => HistoryTypeOK'
      BY HistoryType DEF Next, TypeOK
    <2>2. ASSUME HistoryTypeOK', NEW w \in Workers, WorkerStep(w) PROVE TypeOK'
      BY <2>2, InitializeType, TakeType, UpdateType, DeleteType DEF WorkerStep
    <2>3. CASE Next
      BY <2>0, <2>2, <2>3, PostType, AcceptType, DeclineType, RemoveType, TimesOutType DEF Next, Step
    <2>. QED
      BY <2>1, <2>3
  <1>. QED
    BY <1>1, <1>2, PTL DEF Spec
-----------------------------------------------------------------------------
(* A pending share keeps its original: PendingInv is inductive.            *)

\* What a step may do that does not decide about the removal: no task for it
\* appears, and as long as none is there the original is saved, never
\* dropped, and the mappings keep their reference to it.
QuietStep ==
  /\ remove' = remove
  /\ RemovalGoesOn' => RemovalGoesOn
  /\ ~RemovalGoesOn =>
       /\ ws[Original].here => ws'[Original].here
       /\ dir[Original] = "full" => dir'[Original] = "full"
       /\ \A c \in Copies : mapping'[c].state = "pending" => mapping'[c].linked \/ mapping'[c] = mapping[c]

\* A share that becomes pending when the deletion is past its check is late.
LEMMA PendingIsLate ==
  ASSUME Record, PastCheck, \A c \in Copies \ late : mapping[c].state # "pending",
         NEW c \in Copies \ late'
  PROVE  mapping'[c].state # "pending"
  BY DEF Record, BecomesPending

LEMMA QuietKeeps == PendingInv /\ Record /\ QuietStep => PendingInv'
  <1>. SUFFICES ASSUME PendingInv, Record, QuietStep PROVE PendingInv'
    OBVIOUS
  <1>1. PastCheck' <=> PastCheck
    BY DEF QuietStep, PastCheck
  <1>2. RemovalGoesOn' => PastCheck'
    BY <1>1 DEF QuietStep, PendingInv
  <1>3. PastCheck' => \A c \in Copies \ late' : mapping'[c].state # "pending"
    BY <1>1, PendingIsLate DEF PendingInv
  <1>4. ~PastCheck' => /\ ws'[Original].here /\ dir'[Original] = "full"
                       /\ \A c \in Copies : mapping'[c].state = "pending" => mapping'[c].linked
    BY <1>1 DEF QuietStep, PendingInv
  <1>. QED
    BY <1>2, <1>3, <1>4 DEF PendingInv, PendingKeepsOriginal

LEMMA SaveOriginal ==
  ASSUME TypeOK, NEW x \in Workspaces, NEW row, Save(x, row), ws[Original].here
  PROVE  ws'[Original].here
  BY DEF TypeOK, Save, Workspaces, Rows

LEMMA EnqueueQuiet ==
  ASSUME TypeOK, NEW kind \in Kinds, NEW x \in Workspaces, Enqueue(kind, x),
         kind # "delete" \/ x # Original, queued'[<<"delete", Original>>] > 0
  PROVE  queued[<<"delete", Original>>] > 0
  BY DEF TypeOK, Enqueue, Workspaces, Kinds

LEMMA DequeueQuiet ==
  ASSUME TypeOK, NEW kind \in Kinds, NEW x \in Workspaces, Dequeue(kind, x),
         queued'[<<"delete", Original>>] > 0
  PROVE  queued[<<"delete", Original>>] > 0
  BY DEF TypeOK, Dequeue, Workspaces, Kinds

LEMMA PostPending == TypeOK /\ (Post \/ PostDies) => QuietStep
  <1>. SUFFICES ASSUME TypeOK, Post \/ PostDies PROVE QuietStep
    OBVIOUS
  <1>. USE DEF tables, answers, tasks
  <1>1. UNCHANGED <<dir, remove, worker>>
    BY DEF Post, PostDies, PostRead, PostCopy, PostMapping, PostEnqueue
  <1>2. ASSUME NEW c \in Copies, PostCopy(c) PROVE QuietStep
    <2>1. ws[Original].here => ws'[Original].here
      BY <1>2, SaveOriginal DEF PostCopy, Workspaces
    <2>. QED
      BY <1>1, <1>2, <2>1 DEF PostCopy, QuietStep, RemovalGoesOn
  <1>3. ASSUME NEW c \in Copies, PostMapping(c) PROVE QuietStep
    <2>1. \A d \in Copies : mapping'[d].state = "pending" => mapping'[d].linked \/ mapping'[d] = mapping[d]
      BY <1>3 DEF PostMapping, TypeOK
    <2>. QED
      BY <1>1, <1>3, <2>1 DEF PostMapping, QuietStep, RemovalGoesOn
  <1>4. ASSUME NEW c \in Copies, PostEnqueue(c) PROVE QuietStep
    <2>1. queued'[<<"delete", Original>>] > 0 => queued[<<"delete", Original>>] > 0
      BY <1>4, EnqueueQuiet DEF PostEnqueue, Kinds, Workspaces
    <2>. QED
      BY <1>1, <1>4, <2>1 DEF PostEnqueue, QuietStep, RemovalGoesOn
  <1>5. CASE PostRead \/ PostDies
    BY <1>1, <1>5 DEF PostRead, PostDies, QuietStep, RemovalGoesOn
  <1>. QED
    BY <1>2, <1>3, <1>4, <1>5 DEF Post

LEMMA AnswersPending ==
  ASSUME TypeOK,
         \/ \E c \in Accepts : AcceptRead(c) \/ AcceptStep(c)
         \/ \E c \in Declines : DeclineRead(c) \/ DeclineMark(c)
  PROVE  QuietStep
  <1>. USE DEF tables, answers, tasks
  <1>1. Accepts \subseteq Workspaces /\ Declines \subseteq Workspaces /\ Original \notin Declines
    BY ShareAssumption DEF Workspaces
  <1>2. ASSUME NEW c \in Accepts, AcceptRead(c) \/ AcceptStep(c) PROVE QuietStep
    <2>1. UNCHANGED <<dir, remove, queued, worker>>
      BY <1>2 DEF AcceptRead, AcceptStep, AcceptSave, AcceptFetch, AcceptTouch
    <2>2. ws[Original].here => ws'[Original].here
      BY <1>1, <1>2, SaveOriginal DEF AcceptRead, AcceptStep, AcceptSave, AcceptFetch, AcceptTouch
    <2>3. ASSUME NEW d \in Copies, mapping'[d].state = "pending" PROVE mapping'[d] = mapping[d]
      <3>1. CASE AcceptSave(c)
        <4>1. [accept[c].mapping EXCEPT !.state = "accepted"].state = "accepted"
          BY DEF TypeOK, Mappings
        <4>. QED
          BY <2>3, <3>1, <4>1 DEF AcceptSave, TypeOK
      <3>2. CASE ~AcceptSave(c)
        BY <1>2, <3>2 DEF AcceptRead, AcceptStep, AcceptFetch, AcceptTouch
      <3>. QED
        BY <3>1, <3>2
    <2>. QED
      BY <2>1, <2>2, <2>3 DEF QuietStep, RemovalGoesOn
  <1>3. ASSUME NEW c \in Declines, DeclineRead(c) \/ DeclineMark(c) PROVE QuietStep
    <2>1. UNCHANGED <<mapping, dir, remove, worker>>
      BY <1>3 DEF DeclineRead, DeclineMark
    <2>2. queued'[<<"delete", Original>>] > 0 => queued[<<"delete", Original>>] > 0
      BY <1>1, <1>3, EnqueueQuiet DEF DeclineRead, DeclineMark, Kinds
    <2>3. ws[Original].here => ws'[Original].here
      BY <1>1, <1>3, SaveOriginal DEF DeclineRead, DeclineMark
    <2>. QED
      BY <2>1, <2>2, <2>3 DEF QuietStep, RemovalGoesOn
  <1>. QED
    BY <1>2, <1>3

\* The check is where it is decided; the mark is what the task follows.
LEMMA RemovePending ==
  ASSUME TypeOK, PendingInv, Record, RemoveRead \/ RemoveCheck \/ RemoveMark
  PROVE  PendingInv'
  <1>. USE DEF tables, answers, tasks
  <1>1. CASE RemoveRead
    <2>1. (PastCheck' <=> PastCheck) /\ (RemovalGoesOn' <=> RemovalGoesOn) /\ late' = late
      BY <1>1 DEF RemoveRead, RemovalGoesOn, PastCheck, Record, BecomesPending
    <2>. QED
      BY <1>1, <2>1 DEF RemoveRead, PendingInv, PendingKeepsOriginal
  <1>2. CASE RemoveCheck
    <2>1. ~PastCheck /\ (RemovalGoesOn' <=> RemovalGoesOn) /\ late' = late
      BY <1>2 DEF RemoveCheck, RemovalGoesOn, PastCheck, Record, BecomesPending
    <2>2. PastCheck' => ~HasPendingShares
      BY <1>2 DEF RemoveCheck, PastCheck, TypeOK
    <2>. QED
      BY <1>2, <2>1, <2>2 DEF RemoveCheck, PendingInv, PendingKeepsOriginal, HasPendingShares
  <1>3. CASE RemoveMark
    <2>1. PastCheck /\ PastCheck' /\ UNCHANGED mapping
      BY <1>3 DEF RemoveMark, PastCheck, TypeOK
    <2>2. late' = late
      BY <2>1 DEF Record, BecomesPending
    <2>. QED
      BY <2>1, <2>2 DEF PendingInv, PendingKeepsOriginal
  <1>. QED
    BY <1>1, <1>2, <1>3

\* Only the task that delete() enqueued takes the original away.
LEMMA WorkerPending ==
  ASSUME TypeOK, NEW w \in Workers, WorkerStep(w) \/ TaskTimesOut(w)
  PROVE  QuietStep
  <1>. USE DEF tables, answers
  <1>1. remove' = remove
    BY DEF WorkerStep, TaskTimesOut, InitTake, UpdateTake, DeleteTake, Take, InitCopy, InitAnnounce,
           InitSave, UpdateScan, UpdateSave, DeleteDir, DeleteRow, DeleteErrors
  <1>2. worker[w].of \in Workspaces /\ worker \in [Workers -> WorkerRecords]
    BY DEF TypeOK, WorkerRecords
  <1>4. ASSUME NEW c \in Copies, InitTake(w, c) PROVE QuietStep
    <2>1. queued'[<<"delete", Original>>] > 0 => queued[<<"delete", Original>>] > 0
      BY <1>4, DequeueQuiet DEF InitTake, Kinds, Workspaces
    <2>2. ASSUME NEW v \in Workers
          PROVE  worker'[v].pc \in {"remove", "drop", "error"} => worker'[v] = worker[v]
      BY <1>2, <1>4 DEF InitTake
    <2>3. RemovalGoesOn' => RemovalGoesOn
      BY <1>1, <2>1, <2>2 DEF RemovalGoesOn
    <2>. QED
      BY <1>1, <1>4, <2>3 DEF InitTake, QuietStep
  <1>5. CASE InitCopy(w)
    <2>1. dir[Original] = "full" => dir'[Original] = "full"
      BY <1>2, <1>5 DEF InitCopy, TypeOK, Workspaces
    <2>2. RemovalGoesOn' => RemovalGoesOn
      BY <1>2, <1>5 DEF InitCopy, RemovalGoesOn
    <2>. QED
      BY <1>1, <1>5, <2>1, <2>2 DEF InitCopy, QuietStep
  <1>6. CASE InitAnnounce(w)
    <2>1. queued'[<<"delete", Original>>] > 0 => queued[<<"delete", Original>>] > 0
      BY <1>2, <1>6, EnqueueQuiet DEF InitAnnounce, Kinds
    <2>2. RemovalGoesOn' => RemovalGoesOn
      BY <1>1, <1>2, <1>6, <2>1 DEF InitAnnounce, RemovalGoesOn, Idle
    <2>. QED
      BY <1>1, <1>6, <2>2 DEF InitAnnounce, QuietStep
  <1>7. CASE InitSave(w) \/ UpdateSave(w) \/ DeleteErrors(w)
    <2>1. ws[Original].here => ws'[Original].here
      BY <1>2, <1>7, SaveOriginal DEF InitSave, UpdateSave, DeleteErrors
    <2>2. RemovalGoesOn' => RemovalGoesOn
      BY <1>2, <1>7 DEF InitSave, UpdateSave, DeleteErrors, RemovalGoesOn, Idle
    <2>. QED
      BY <1>1, <1>7, <2>1, <2>2 DEF InitSave, UpdateSave, DeleteErrors, QuietStep
  <1>8. ASSUME NEW x \in Workspaces, UpdateTake(w, x) PROVE QuietStep
    <2>1. queued'[<<"delete", Original>>] > 0 => queued[<<"delete", Original>>] > 0
      BY <1>8, DequeueQuiet DEF UpdateTake, Take, Kinds
    <2>2. RemovalGoesOn' => RemovalGoesOn
      BY <1>1, <1>2, <1>8, <2>1 DEF UpdateTake, Take, RemovalGoesOn, Idle
    <2>. QED
      BY <1>1, <1>8, <2>2 DEF UpdateTake, Take, QuietStep
  <1>9. ASSUME NEW x \in Workspaces, DeleteTake(w, x) PROVE QuietStep
    <2>1. queued'[<<"delete", Original>>] > 0 => queued[<<"delete", Original>>] > 0
      BY <1>9, DequeueQuiet DEF DeleteTake, Take, Kinds
    <2>2. x = Original => RemovalGoesOn
      BY <1>9 DEF DeleteTake, Take, Dequeue, RemovalGoesOn
    <2>3. RemovalGoesOn' => RemovalGoesOn
      BY <1>1, <1>2, <1>9, <2>1, <2>2 DEF DeleteTake, Take, RemovalGoesOn, Idle
    <2>. QED
      BY <1>1, <1>9, <2>3 DEF DeleteTake, Take, QuietStep
  <1>10. CASE UpdateScan(w)
    <2>1. RemovalGoesOn' => RemovalGoesOn
      BY <1>2, <1>10 DEF UpdateScan, RemovalGoesOn, Idle
    <2>. QED
      BY <1>1, <1>10, <2>1 DEF UpdateScan, QuietStep
  <1>11. CASE DeleteDir(w)
    <2>1. RemovalGoesOn' => RemovalGoesOn
      BY <1>1, <1>2, <1>11 DEF DeleteDir, RemovalGoesOn, WorkerRecords
    <2>2. worker[w].of = Original => RemovalGoesOn
      BY <1>11 DEF DeleteDir, RemovalGoesOn
    <2>3. worker[w].of # Original => dir'[Original] = dir[Original]
      BY <1>2, <1>11 DEF DeleteDir, RemoveTree, TypeOK, Workspaces
    <2>. QED
      BY <1>1, <1>11, <2>1, <2>2, <2>3 DEF DeleteDir, QuietStep
  <1>12. CASE DeleteRow(w)
    <2>1. RemovalGoesOn' => RemovalGoesOn
      BY <1>2, <1>12 DEF DeleteRow, RemovalGoesOn, Idle
    <2>2. worker[w].of = Original => RemovalGoesOn
      BY <1>12 DEF DeleteRow, RemovalGoesOn
    <2>3. worker[w].of # Original => ws'[Original] = ws[Original]
      BY <1>2, <1>12 DEF DeleteRow, TypeOK, Workspaces
    <2>4. worker[w].of # Original =>
            \A c \in Copies : mapping'[c].state = "pending" => mapping'[c] = mapping[c]
      BY <1>12 DEF DeleteRow, NoMapping
    <2>. QED
      BY <1>1, <1>12, <2>1, <2>2, <2>3, <2>4 DEF DeleteRow, QuietStep
  <1>13. CASE TaskTimesOut(w)
    <2>1. RemovalGoesOn' => RemovalGoesOn
      BY <1>2, <1>13 DEF TaskTimesOut, RemovalGoesOn, Idle
    <2>. QED
      BY <1>1, <1>13, <2>1 DEF TaskTimesOut, QuietStep
  <1>. QED
    BY <1>4, <1>5, <1>6, <1>7, <1>8, <1>9, <1>10, <1>11, <1>12, <1>13 DEF WorkerStep

\* No share that the check of a deletion could have seen is pending once the
\* deletion is past it, for any receivers, owner's requests and workers.
THEOREM PendingInvHolds == Spec => []PendingInv
  <1>1. Init => PendingInv
    BY DEF Init, PendingInv, PendingKeepsOriginal, RemovalGoesOn, PastCheck, NoMapping, NoRow,
           Idle, OwnRow, Workspaces, Kinds
  <1>2. TypeOK /\ PendingInv /\ [Next]_vars => PendingInv'
    <2>. SUFFICES ASSUME TypeOK, PendingInv, [Next]_vars PROVE PendingInv'
      OBVIOUS
    <2>1. CASE UNCHANGED vars
      BY <2>1 DEF vars, tables, answers, tasks, history, PendingInv, PendingKeepsOriginal,
                  RemovalGoesOn, PastCheck
    <2>2. CASE Next
      BY <2>2, QuietKeeps, PostPending, AnswersPending, RemovePending, WorkerPending DEF Next, Step
    <2>. QED
      BY <2>1, <2>2
  <1>. QED
    BY <1>1, <1>2, ShareTypeCorrect, PTL DEF Spec

\* "Please cancel those shares to delete this workspace": a share that waits
\* for its answer keeps the workspace it is made from, row and directory,
\* unless it is made when the deletion is past its check: whoever shares,
\* answers and deletes at the same time (WorkspaceView.delete).
THEOREM PendingSharesKeepOriginal == Spec => []PendingKeepsOriginal
  <1>1. PendingInv => PendingKeepsOriginal
    BY DEF PendingInv
  <1>. QED
    BY <1>1, PendingInvHolds, PTL
-----------------------------------------------------------------------------
(* When everything has settled each copy is complete or gone, unless it was *)
(* disturbed: ShareInv is inductive.                                        *)

On(w, c) == worker[w].pc # "idle" /\ worker[w].of = c
Free(c) == \A w \in Workers : ~On(w, c)
Fetched(c) == c \in Accepts /\ accept[c].pc = "fetched"
Reading(c) == c \in Declines /\ decline[c].pc = "read"
Unanswered(c) ==
  /\ c \in Accepts => accept[c].pc = "idle"
  /\ c \in Declines => decline[c].pc = "idle"
ToMake(c) == post.pc \in {"idle", "making", "failed"} /\ c \in post.left
Enqueued(c) == post.pc = "answered" \/ (post.pc = "enqueuing" /\ c \notin post.left)
Unfinished(r) == r.here /\ ~r.path /\ r.listed = "inherited"
Usable(r) == r.here /\ r.status = "idle" /\ r.path /\ r.listed \in {"inherited", "full"}
Linked(c) ==
  /\ mapping[c].linked
  /\ c \in Accepts /\ accept[c].pc = "read" => accept[c].mapping.linked

\* The life of a copy, one phase after the other.  It is still to be made:
Unmade(c) ==
  /\ ToMake(c) /\ Free(c) /\ Unanswered(c)
  /\ post.now = {c} => Unfinished(ws[c])
  /\ mapping[c].state = "none" /\ dir[c] = "none"
  /\ \A kind \in Kinds : queued[<<kind, c>>] = 0

\* it is in the table, and its task will be, or is, in the queue; whoever has
\* the row in memory has it without a path:
Waiting(c) ==
  /\ ~ToMake(c) /\ Free(c) /\ ~Declined(c)
  /\ queued[<<"initialize", c>>] = (IF Enqueued(c) THEN 1 ELSE 0)
  /\ queued[<<"update", c>>] = 0 /\ queued[<<"delete", c>>] = 0
  /\ mapping[c].state # "none" /\ Linked(c) /\ Unfinished(ws[c]) /\ dir[c] = "none"
  /\ Fetched(c) => Unfinished(accept[c].row)
  /\ Reading(c) => Unfinished(decline[c].row)

\* a worker fills it, while nobody else has the row in memory:
Filling(w, c) ==
  /\ Enqueued(c) /\ ~Declined(c)
  /\ w \in Workers /\ On(w, c) /\ ~Held(c, w)
  /\ queued[<<"initialize", c>>] = 0 /\ queued[<<"delete", c>>] = 0
  /\ mapping[c].state # "none" /\ Unfinished(ws[c])
  /\ worker[w].row.here /\ worker[w].row.path /\ worker[w].row.listed = "inherited" /\ worker[w].linked
  /\ \/ worker[w].pc = "copy" /\ dir[c] = "none" /\ queued[<<"update", c>>] = 0
     \/ worker[w].pc = "announce" /\ dir[c] = "full" /\ queued[<<"update", c>>] = 0
     \/ worker[w].pc = "ready" /\ dir[c] = "full" /\ queued[<<"update", c>>] = 1

\* it can be used; whoever holds its row holds a usable one, and its listing
\* is up to date, or will be, or an accept has overwritten it:
Updates(w, c) ==
  On(w, c) => /\ worker[w].pc \in {"scan", "store"} /\ Usable(worker[w].row)
              /\ worker[w].pc = "store" => worker[w].row.listed = "full"
InUse(c) ==
  /\ Enqueued(c) /\ ~Declined(c)
  /\ queued[<<"initialize", c>>] = 0 /\ queued[<<"delete", c>>] = 0
  /\ mapping[c].state # "none" /\ Usable(ws[c]) /\ dir[c] = "full"
  /\ \A w \in Workers : Updates(w, c)
  /\ Fetched(c) => Usable(accept[c].row)
  /\ Reading(c) => decline[c].row.path
  /\ ws[c].listed = "full" \/ Accepted(c) \/ ~Free(c) \/ queued[<<"update", c>>] > 0

\* or it was declined, and goes: the task is in the queue, a worker removes
\* the directory, then the row, and it is away.
Listed(w, c) == On(w, c) => worker[w].pc \in {"scan", "store"} /\ worker[w].row.path
Marked(c) ==
  /\ queued[<<"delete", c>>] = 1 /\ ws[c].here /\ ws[c].path /\ dir[c] = "full"
  /\ \A w \in Workers : Listed(w, c)
  /\ Fetched(c) => accept[c].row.path
Emptying(w, c) ==
  /\ queued[<<"delete", c>>] = 0 /\ dir[c] = "full"
  /\ w \in Workers /\ On(w, c) /\ worker[w].pc = "remove" /\ worker[w].row.path
  /\ \A v \in Workers \ {w} : On(v, c) => worker[v].pc \in {"scan", "store"}
Dropping(w, c) ==
  /\ queued[<<"delete", c>>] = 0 /\ dir[c] = "none"
  /\ w \in Workers /\ On(w, c) /\ worker[w].pc = "drop" /\ ~Held(c, w)
Away(c) == queued[<<"delete", c>>] = 0 /\ Free(c) /\ Gone(c) /\ ~Fetched(c)
Leaving(c) ==
  /\ Enqueued(c) /\ Declined(c) /\ queued[<<"initialize", c>>] = 0
  /\ Marked(c) \/ (\E w \in Workers : Emptying(w, c) \/ Dropping(w, c)) \/ Away(c)

CopyInv(c) ==
  Unmade(c) \/ Waiting(c) \/ (\E w \in Workers : Filling(w, c)) \/ InUse(c) \/ Leaving(c)

\* As long as nothing has died or failed.
PostInOrder ==
  /\ post.pc = "idle" => post.left = Copies
  /\ post.pc \in {"idle", "making"} => post.now \subseteq post.left
ShareInv ==
  faults = 0 => /\ PostInOrder
                /\ \A c \in Copies \ disturbed : ~Disturbed(c) /\ CopyInv(c)

\* What a phase of a copy depends on.
Same(c) ==
  /\ (ToMake(c)' <=> ToMake(c)) /\ (Enqueued(c)' <=> Enqueued(c)) /\ (post'.now = {c} => post.now = {c})
  /\ ws'[c] = ws[c] /\ dir'[c] = dir[c] /\ mapping'[c].state = mapping[c].state
  /\ dir[c] = "none" /\ ~Declined(c) => mapping'[c].linked = mapping[c].linked
  /\ \A kind \in Kinds : queued'[<<kind, c>>] = queued[<<kind, c>>]
  /\ c \in Accepts => accept'[c] = accept[c]
  /\ c \in Declines => decline'[c] = decline[c]
  /\ \A w \in Workers : worker'[w] = worker[w] \/ (~On(w, c) /\ ~On(w, c)')

LEMMA HeldMeans ==
  ASSUME NEW c, NEW w
  PROVE  Held(c, w) <=> (\E v \in Workers \ {w} : On(v, c)) \/ Fetched(c) \/ Reading(c)
  BY DEF Held, On, Fetched, Reading

LEMMA SameKeeps ==
  ASSUME NEW c, CopyInv(c), Same(c)
  PROVE  CopyInv(c)'
  <1>. USE DEF Same, Kinds
  <1>1. /\ Unanswered(c)' <=> Unanswered(c)
        /\ Declined(c)' <=> Declined(c)
        /\ Accepted(c)' <=> Accepted(c)
        /\ Gone(c)' <=> Gone(c)
        /\ Fetched(c)' <=> Fetched(c)
        /\ Reading(c)' <=> Reading(c)
    BY DEF Unanswered, Declined, Accepted, Gone, Fetched, Reading
  <1>2. \A w \in Workers : On(w, c)' <=> On(w, c)
    BY DEF On
  <1>3. /\ Free(c)' <=> Free(c)
        /\ \A w \in Workers : Held(c, w)' <=> Held(c, w)
    <2>1. Free(c)' <=> Free(c)
      BY <1>2 DEF Free
    <2>2. ASSUME NEW w \in Workers PROVE Held(c, w)' <=> Held(c, w)
      BY <1>1, <1>2 DEF Held, On, Fetched, Reading
    <2>. QED
      BY <2>1, <2>2
  <1>4. \A w \in Workers : On(w, c) => worker'[w] = worker[w]
    OBVIOUS
  <1>5. Unmade(c) => Unmade(c)'
    BY <1>1, <1>3 DEF Unmade, Unfinished
  <1>6. Waiting(c) => Waiting(c)'
    BY <1>1, <1>3 DEF Waiting, Unfinished, Linked, Fetched, Reading
  <1>7. \A w \in Workers : Filling(w, c) => Filling(w, c)'
    BY <1>1, <1>2, <1>3, <1>4 DEF Filling, Unfinished
  <1>8. InUse(c) => InUse(c)'
    <2>1. \A w \in Workers : Updates(w, c) => Updates(w, c)'
      BY <1>2, <1>4 DEF Updates, Usable
    <2>. QED
      BY <1>1, <1>3, <2>1 DEF InUse, Usable, Fetched, Reading
  <1>9. Leaving(c) => Leaving(c)'
    <2>1. Marked(c) => Marked(c)'
      BY <1>1, <1>2, <1>4 DEF Marked, Listed, Fetched
    <2>2. \A w \in Workers : Emptying(w, c) => Emptying(w, c)'
      BY <1>2, <1>4 DEF Emptying
    <2>3. \A w \in Workers : Dropping(w, c) => Dropping(w, c)'
      BY <1>2, <1>3, <1>4 DEF Dropping
    <2>4. Away(c) => Away(c)'
      BY <1>1, <1>3 DEF Away
    <2>. QED
      BY <1>1, <2>1, <2>2, <2>3, <2>4 DEF Leaving
  <1>. QED
    BY <1>5, <1>6, <1>7, <1>8, <1>9 DEF CopyInv

LEMMA PostShares ==
  ASSUME TypeOK, PostInOrder, Post
  PROVE  PostInOrder' /\ \A c \in Copies : CopyInv(c) => CopyInv(c)'
  <1>. USE DEF tables, answers, tasks
  <1>0. /\ UNCHANGED <<dir, accept, decline, worker>>
        /\ \A c \in Copies : (Free(c)' <=> Free(c)) /\ (Unanswered(c)' <=> Unanswered(c))
    <2>1. UNCHANGED <<dir, accept, decline, worker>>
      BY DEF Post, PostRead, PostCopy, PostMapping, PostEnqueue
    <2>. QED
      BY <2>1 DEF Free, On, Unanswered
  <1>1. CASE PostRead
    <2>1. post.pc = "idle" /\ post'.pc = "making" /\ post'.left = post.left /\ post'.now = post.now
      BY <1>1 DEF PostRead, TypeOK
    <2>2. \A c \in Copies : Same(c)
      BY <1>0, <1>1, <2>1 DEF PostRead, Same, ToMake, Enqueued
    <2>. QED
      BY <2>1, <2>2, SameKeeps DEF PostInOrder
  <1>2. ASSUME NEW d \in Copies, PostCopy(d)
        PROVE  PostInOrder' /\ \A c \in Copies : CopyInv(c) => CopyInv(c)'
    <2>1. /\ post.pc = "making" /\ d \in post.left
          /\ post'.pc = "making" /\ post'.left = post.left /\ post'.now = {d}
      BY <1>2 DEF PostCopy, TypeOK
    <2>2. \A c \in Copies : ws'[c] = IF c = d THEN [CopyRow EXCEPT !.here = TRUE] ELSE ws[c]
      BY <1>2 DEF PostCopy, Save, TypeOK, Workspaces
    <2>3. ASSUME NEW c \in Copies, c # d PROVE Same(c)
      BY <1>0, <1>2, <2>1, <2>2, <2>3 DEF PostCopy, Same, ToMake, Enqueued
    <2>4. CopyInv(d) => Unmade(d)
      BY <2>1 DEF CopyInv, Waiting, Filling, InUse, Leaving, ToMake, Enqueued
    <2>5. Unmade(d) => Unmade(d)'
      <3>1. Unfinished([CopyRow EXCEPT !.here = TRUE])
        BY DEF CopyRow, NoRow, Unfinished
      <3>. QED
        BY <1>0, <1>2, <2>1, <2>2, <3>1 DEF PostCopy, Unmade, ToMake
    <2>. QED
      BY <2>1, <2>3, <2>4, <2>5, SameKeeps DEF PostInOrder, CopyInv
  <1>3. ASSUME NEW d \in Copies, PostMapping(d)
        PROVE  PostInOrder' /\ \A c \in Copies : CopyInv(c) => CopyInv(c)'
    <2>. DEFINE left == post.left \ {d}
    <2>1. post.pc = "making" /\ post.now = {d} /\ d \in post.left
      BY <1>3 DEF PostMapping, PostInOrder
    <2>2. CASE ws[Original].here
      <3>1. /\ mapping' = [mapping EXCEPT ![d] = [state |-> "pending", linked |-> TRUE]]
            /\ post' = IF left = {} THEN [pc |-> "enqueuing", left |-> Copies, now |-> {}]
                       ELSE [pc |-> "making", left |-> left, now |-> {}]
            /\ UNCHANGED <<ws, queued>>
        BY <1>3, <2>2 DEF PostMapping, TypeOK
      <3>2. ASSUME NEW c \in Copies, c # d PROVE Same(c)
        <4>1. ToMake(c)' <=> ToMake(c)
          BY <2>1, <3>1, <3>2 DEF ToMake
        <4>2. ~Enqueued(c)' /\ ~Enqueued(c)
          BY <2>1, <3>1 DEF Enqueued
        <4>. QED
          BY <1>0, <3>1, <3>2, <4>1, <4>2 DEF Same, TypeOK
      <3>3. CopyInv(d) => Unmade(d)
        BY <2>1 DEF CopyInv, Waiting, Filling, InUse, Leaving, ToMake, Enqueued
      <3>4. Unmade(d) => Waiting(d)'
        <4>1. ~ToMake(d)' /\ ~Enqueued(d)'
          BY <3>1 DEF ToMake, Enqueued
        <4>2. mapping'[d].state = "pending" /\ mapping'[d].linked
          BY <3>1 DEF TypeOK
        <4>3. Unmade(d) => Unanswered(d)' /\ ~Declined(d)' /\ ~Fetched(d)' /\ ~Reading(d)' /\ Linked(d)'
          BY <1>0, <4>2 DEF Unmade, Unanswered, Declined, Fetched, Reading, Linked
        <4>. QED
          BY <1>0, <2>1, <3>1, <4>1, <4>2, <4>3 DEF Unmade, Waiting, Kinds, Unfinished
      <3>. QED
        BY <3>1, <3>2, <3>3, <3>4, SameKeeps DEF PostInOrder, CopyInv
    <2>3. CASE ~ws[Original].here
      <3>1. /\ post'.pc = "failed" /\ post'.left = post.left /\ post'.now = post.now
            /\ UNCHANGED <<ws, queued, mapping>>
        BY <1>3, <2>3 DEF PostMapping, TypeOK
      <3>2. \A c \in Copies : Same(c)
        BY <1>0, <2>1, <3>1 DEF Same, ToMake, Enqueued
      <3>. QED
        BY <3>1, <3>2, SameKeeps DEF PostInOrder
    <2>. QED
      BY <2>2, <2>3
  <1>4. ASSUME NEW d \in Copies, PostEnqueue(d)
        PROVE  PostInOrder' /\ \A c \in Copies : CopyInv(c) => CopyInv(c)'
    <2>1. /\ post.pc = "enqueuing" /\ d \in post.left
          /\ post'.left = post.left \ {d}
          /\ post'.pc = IF post.left = {d} THEN "answered" ELSE "enqueuing"
      BY <1>4 DEF PostEnqueue, TypeOK
    <2>2. /\ \A kind \in Kinds, c \in Copies :
                queued'[<<kind, c>>] = IF kind = "initialize" /\ c = d THEN queued[<<kind, c>>] + 1
                                       ELSE queued[<<kind, c>>]
          /\ UNCHANGED <<ws, mapping>> /\ post'.now = post.now
      BY <1>4 DEF PostEnqueue, Enqueue, TypeOK, Kinds, Workspaces
    <2>3. ASSUME NEW c \in Copies, c # d PROVE Same(c)
      <3>1. ~ToMake(c)' /\ ~ToMake(c) /\ (Enqueued(c)' <=> Enqueued(c))
        BY <2>1, <2>3 DEF ToMake, Enqueued
      <3>. QED
        BY <1>0, <2>2, <2>3, <3>1 DEF Same
    <2>4. CopyInv(d) => Waiting(d) /\ ~Enqueued(d)
      BY <2>1 DEF CopyInv, Unmade, Filling, InUse, Leaving, ToMake, Enqueued
    <2>5. Waiting(d) /\ ~Enqueued(d) => Waiting(d)'
      <3>1. ~ToMake(d)' /\ Enqueued(d)'
        BY <2>1 DEF ToMake, Enqueued
      <3>2. (Declined(d)' <=> Declined(d)) /\ (Linked(d)' <=> Linked(d))
            /\ (Fetched(d)' <=> Fetched(d)) /\ (Reading(d)' <=> Reading(d))
        BY <1>0, <2>2 DEF Declined, Linked, Fetched, Reading
      <3>. QED
        BY <1>0, <2>2, <3>1, <3>2 DEF Waiting, Kinds, Unfinished
    <2>. QED
      BY <2>1, <2>3, <2>4, <2>5, SameKeeps DEF PostInOrder, CopyInv
  <1>. QED
    BY <1>1, <1>2, <1>3, <1>4 DEF Post

\* The accept of a copy.
LEMMA AcceptShares ==
  ASSUME TypeOK, NEW c \in Accepts, AcceptRead(c) \/ AcceptStep(c),
         CopyInv(c), ~Disturbed(c)'
  PROVE  CopyInv(c)'
  <1>. USE ShareAssumption DEF tables, answers, tasks
  <1>0. c \in Copies /\ c \in Workspaces
    BY DEF Workspaces
  <1>1. /\ UNCHANGED <<post, dir, decline, queued, worker>>
        /\ (Free(c)' <=> Free(c)) /\ (Declined(c)' <=> Declined(c)) /\ (Reading(c)' <=> Reading(c))
        /\ (ToMake(c)' <=> ToMake(c)) /\ (Enqueued(c)' <=> Enqueued(c))
        /\ \A w \in Workers : On(w, c)' <=> On(w, c)
    <2>1. UNCHANGED <<post, dir, decline, queued, worker>>
      BY DEF AcceptRead, AcceptStep, AcceptSave, AcceptFetch, AcceptTouch
    <2>. QED
      BY <2>1 DEF Free, On, Declined, Reading, ToMake, Enqueued
  <1>2. mapping[c].state # "none" \/ accept[c].pc # "idle"
    BY DEF AcceptRead, AcceptStep, AcceptSave, AcceptFetch, AcceptTouch, MayAnswer
  <1>3. ~Unmade(c)
    BY <1>2 DEF Unmade, Unanswered
  \* What the request does to the row, the mapping and what it holds.
  <1>4. mapping[c].state # "none" => mapping'[c].state # "none"
    BY <1>0 DEF AcceptRead, AcceptStep, AcceptSave, AcceptFetch, AcceptTouch, TypeOK, Mappings
  <1>5. /\ Fetched(c)' => (ws[c].here /\ accept'[c].row = ws[c])
        /\ ws'[c] = ws[c] \/ (/\ Fetched(c) /\ Accepted(c)' /\ ~Fetched(c)'
                              /\ ws'[c] = [accept[c].row EXCEPT !.here = TRUE])
        /\ Accepted(c) => Accepted(c)'
    <2>1. CASE AcceptRead(c) \/ AcceptSave(c)
      BY <1>0, <2>1 DEF AcceptRead, AcceptSave, TypeOK, Fetched, Accepted
    <2>2. CASE AcceptFetch(c)
      BY <1>0, <2>2 DEF AcceptFetch, TypeOK, Fetched, Accepted
    <2>3. CASE AcceptTouch(c)
      BY <1>0, <2>3 DEF AcceptTouch, Save, TypeOK, Fetched, Accepted
    <2>. QED
      BY <2>1, <2>2, <2>3 DEF AcceptStep
  <1>6. accept[c].row \in Rows
    BY DEF TypeOK
  <1>7. CASE Waiting(c)
    <2>1. Linked(c)'
      BY <1>0, <1>7 DEF AcceptRead, AcceptStep, AcceptSave, AcceptFetch, AcceptTouch, Waiting, Linked,
                        TypeOK, Mappings
    <2>2. Unfinished(ws'[c]) /\ (Fetched(c)' => Unfinished(accept'[c].row))
      BY <1>5, <1>6, <1>7 DEF Waiting, Unfinished, Rows
    <2>3. Waiting(c)'
      BY <1>0, <1>1, <1>4, <1>7, <2>1, <2>2 DEF Waiting, Reading
    <2>. QED
      BY <2>3 DEF CopyInv
  \* While the copy is filled the row cannot be fetched undisturbed.
  <1>8. ASSUME NEW w \in Workers, Filling(w, c) PROVE CopyInv(c)'
    <2>1. worker[w].of = c /\ worker[w].pc \in {"copy", "announce", "ready"}
      BY <1>8 DEF Filling, On
    <2>2. ~Held(c, w)'
      BY <1>1, <2>1 DEF Disturbed
    <2>3. ws'[c] = ws[c]
      BY <1>5, <1>8, HeldMeans DEF Filling
    <2>4. Filling(w, c)'
      BY <1>1, <1>4, <1>8, <2>2, <2>3 DEF Filling
    <2>. QED
      BY <2>4 DEF CopyInv
  <1>9. CASE InUse(c)
    <2>1. Usable(ws'[c]) /\ (Fetched(c)' => Usable(accept'[c].row))
          /\ (ws'[c].listed = ws[c].listed \/ Accepted(c)')
      BY <1>5, <1>6, <1>9 DEF InUse, Usable, Rows
    <2>2. \A w \in Workers : Updates(w, c)'
      BY <1>1, <1>9 DEF InUse, Updates
    <2>3. InUse(c)'
      BY <1>1, <1>4, <1>5, <1>9, <2>1, <2>2 DEF InUse, Reading
    <2>. QED
      BY <2>3 DEF CopyInv
  <1>10. CASE Leaving(c)
    <2>1. CASE Marked(c)
      <3>1. ws'[c].here /\ ws'[c].path /\ (Fetched(c)' => accept'[c].row.path)
        BY <1>5, <1>6, <2>1 DEF Marked, Rows
      <3>2. Marked(c)'
        BY <1>1, <2>1, <3>1 DEF Marked, Listed
      <3>. QED
        BY <1>1, <1>10, <3>2 DEF Leaving, CopyInv
    <2>2. ASSUME NEW w \in Workers, Emptying(w, c) PROVE CopyInv(c)'
      <3>1. Emptying(w, c)'
        BY <1>1, <2>2 DEF Emptying
      <3>. QED
        BY <1>1, <1>10, <3>1 DEF Leaving, CopyInv
    <2>3. ASSUME NEW w \in Workers, Dropping(w, c) PROVE CopyInv(c)'
      <3>1. ~Held(c, w)'
        BY <1>1, <2>3 DEF Dropping, On, Disturbed
      <3>2. Dropping(w, c)'
        BY <1>1, <2>3, <3>1 DEF Dropping
      <3>. QED
        BY <1>1, <1>10, <3>2 DEF Leaving, CopyInv
    \* What is away cannot be accepted.
    <2>4. CASE Away(c)
      <3>1. ~ws[c].here /\ mapping[c].state = "none" /\ dir[c] = "none" /\ ~Fetched(c)
        BY <2>4 DEF Away, Gone
      <3>2. ws'[c] = ws[c] /\ ~Fetched(c)'
        BY <1>5, <3>1
      <3>3. mapping'[c] = mapping[c]
        BY <3>1 DEF AcceptRead, AcceptStep, AcceptSave, AcceptFetch, AcceptTouch, MayAnswer
      <3>4. Away(c)'
        BY <1>1, <2>4, <3>1, <3>2, <3>3 DEF Away, Gone
      <3>. QED
        BY <1>1, <1>10, <3>4 DEF Leaving, CopyInv
    <2>. QED
      BY <1>10, <2>1, <2>2, <2>3, <2>4 DEF Leaving
  <1>. QED
    BY <1>3, <1>7, <1>8, <1>9, <1>10 DEF CopyInv

\* The deletion of a copy.
LEMMA DeclineShares ==
  ASSUME TypeOK, NEW c \in Declines, DeclineRead(c) \/ DeclineMark(c),
         CopyInv(c), ~Disturbed(c)'
  PROVE  CopyInv(c)'
  <1>. USE ShareAssumption DEF tables, answers, tasks
  <1>0. c \in Copies /\ c \in Workspaces
    BY DEF Workspaces
  <1>1. /\ UNCHANGED <<post, dir, mapping, accept, worker>>
        /\ (Free(c)' <=> Free(c)) /\ (Accepted(c)' <=> Accepted(c)) /\ (Fetched(c)' <=> Fetched(c))
        /\ (ToMake(c)' <=> ToMake(c)) /\ (Enqueued(c)' <=> Enqueued(c)) /\ (Linked(c)' <=> Linked(c))
        /\ \A w \in Workers : On(w, c)' <=> On(w, c)
    <2>1. UNCHANGED <<post, dir, mapping, accept, worker>>
      BY DEF DeclineRead, DeclineMark
    <2>. QED
      BY <2>1 DEF Free, On, Accepted, Fetched, ToMake, Enqueued, Linked
  <1>2. ~Unmade(c) /\ ~Leaving(c)
    BY DEF DeclineRead, DeclineMark, MayAnswer, Unmade, Unanswered, Leaving, Declined
  <1>3. CASE DeclineRead(c)
    <2>1. UNCHANGED <<ws, queued>> /\ ~Declined(c)' /\ (Reading(c)' => decline'[c].row = ws[c])
      BY <1>0, <1>3 DEF DeclineRead, TypeOK, Declined, Reading
    <2>2. Waiting(c) => Waiting(c)'
      BY <1>1, <2>1 DEF Waiting, Fetched
    <2>3. ASSUME NEW w \in Workers, Filling(w, c) PROVE Filling(w, c)'
      <3>1. ~Held(c, w)'
        BY <1>1, <2>3 DEF Filling, On, Disturbed
      <3>. QED
        BY <1>1, <2>1, <2>3, <3>1 DEF Filling
    <2>4. InUse(c) => InUse(c)'
      BY <1>1, <2>1 DEF InUse, Usable, Updates, Fetched
    <2>. QED
      BY <1>2, <2>2, <2>3, <2>4 DEF CopyInv
  <1>4. CASE DeclineMark(c)
    <2>1. Reading(c) /\ decline[c].row \in Rows
      BY <1>4 DEF DeclineMark, Reading, TypeOK
    <2>2. \A w \in Workers : ~Filling(w, c)
      BY <2>1, HeldMeans DEF Filling
    \* A copy that is not filled becomes an error, and is filled all the same.
    <2>3. CASE Waiting(c)
      <3>1. Unfinished(decline[c].row)
        BY <2>1, <2>3 DEF Waiting
      <3>2. /\ ws'[c] = [[decline[c].row EXCEPT !.status = "error"] EXCEPT !.here = TRUE]
            /\ decline'[c].pc = "refused" /\ UNCHANGED queued
        BY <1>0, <1>4, <3>1 DEF DeclineMark, Save, TypeOK, Unfinished
      <3>3. Unfinished(ws'[c]) /\ ~Declined(c)' /\ ~Reading(c)'
        BY <2>1, <3>1, <3>2 DEF Unfinished, Rows, Declined, Reading
      <3>4. Waiting(c)'
        BY <1>1, <2>3, <3>2, <3>3 DEF Waiting, Fetched
      <3>. QED
        BY <3>4 DEF CopyInv
    <2>4. CASE InUse(c)
      <3>1. decline[c].row.path
        BY <2>1, <2>4 DEF InUse
      <3>2. /\ ws'[c] = [[decline[c].row EXCEPT !.status = "deleting"] EXCEPT !.here = TRUE]
            /\ decline'[c].pc = "answered"
            /\ queued'[<<"delete", c>>] = queued[<<"delete", c>>] + 1
            /\ queued'[<<"initialize", c>>] = queued[<<"initialize", c>>]
        BY <1>0, <1>4, <3>1 DEF DeclineMark, Save, Enqueue, TypeOK, Kinds
      <3>3. ws'[c].here /\ ws'[c].path
        BY <2>1, <3>1, <3>2 DEF Rows
      <3>4. Declined(c)'
        BY <3>2 DEF Declined
      <3>5. Marked(c)'
        BY <1>1, <2>4, <3>2, <3>3 DEF InUse, Marked, Updates, Listed, Usable, Fetched
      <3>. QED
        BY <1>1, <2>4, <3>2, <3>4, <3>5 DEF InUse, Leaving, CopyInv
    <2>. QED
      BY <1>2, <2>2, <2>3, <2>4 DEF CopyInv
  <1>. QED
    BY <1>3, <1>4

\* An answer to one copy leaves the others alone.
LEMMA AnswersElsewhere ==
  ASSUME TypeOK, NEW c \in Copies, NEW d \in Copies, c # d,
         \/ d \in Accepts /\ (AcceptRead(d) \/ AcceptStep(d))
         \/ d \in Declines /\ (DeclineRead(d) \/ DeclineMark(d))
  PROVE  Same(c)
  <1>. USE DEF tables, answers, tasks
  <1>0. d \in Workspaces /\ c \in Workspaces
    BY DEF Workspaces
  <1>1. UNCHANGED <<post, dir, worker>>
    BY DEF AcceptRead, AcceptStep, AcceptSave, AcceptFetch, AcceptTouch, DeclineRead, DeclineMark
  <1>2. CASE d \in Accepts /\ (AcceptRead(d) \/ AcceptStep(d))
    <2>1. ws'[c] = ws[c] /\ mapping'[c] = mapping[c] /\ (c \in Accepts => accept'[c] = accept[c])
          /\ UNCHANGED <<decline, queued>>
      BY <1>0, <1>2 DEF AcceptRead, AcceptStep, AcceptSave, AcceptFetch, AcceptTouch, Save, TypeOK
    <2>. QED
      BY <1>1, <2>1 DEF Same, ToMake, Enqueued
  <1>3. CASE d \in Declines /\ (DeclineRead(d) \/ DeclineMark(d))
    <2>1. /\ ws'[c] = ws[c] /\ (c \in Declines => decline'[c] = decline[c])
          /\ \A kind \in Kinds : queued'[<<kind, c>>] = queued[<<kind, c>>]
          /\ UNCHANGED <<mapping, accept>>
      BY <1>0, <1>3 DEF DeclineRead, DeclineMark, Save, Enqueue, TypeOK, Kinds
    <2>. QED
      BY <1>1, <2>1 DEF Same, ToMake, Enqueued
  <1>. QED
    BY <1>2, <1>3

LEMMA RemoveShares ==
  ASSUME TypeOK, RemoveRead \/ RemoveCheck \/ RemoveMark
  PROVE  UNCHANGED post /\ \A c \in Copies : Same(c)
  <1>. USE ShareAssumption DEF tables, answers, tasks
  <1>1. UNCHANGED <<post, dir, mapping, accept, decline, worker>>
    BY DEF RemoveRead, RemoveCheck, RemoveMark
  <1>2. ASSUME NEW c \in Copies PROVE Same(c)
    <2>1. /\ ws'[c] = ws[c]
          /\ \A kind \in Kinds : queued'[<<kind, c>>] = queued[<<kind, c>>]
      BY DEF RemoveRead, RemoveCheck, RemoveMark, Save, Enqueue, TypeOK, Workspaces, Kinds
    <2>. QED
      BY <1>1, <2>1 DEF Same, ToMake, Enqueued
  <1>. QED
    BY <1>1, <1>2

Works(w) ==
  \/ InitCopy(w) \/ InitAnnounce(w) \/ InitSave(w)
  \/ UpdateScan(w) \/ UpdateSave(w)
  \/ DeleteDir(w) \/ DeleteRow(w) \/ DeleteErrors(w)
Takes(w, x) == (x \in Copies /\ InitTake(w, x)) \/ UpdateTake(w, x) \/ DeleteTake(w, x)

LEMMA OtherWorkers ==
  ASSUME TypeOK, NEW w \in Workers, NEW x \in Workspaces, Takes(w, x) \/ Works(w)
  PROVE  \A v \in Workers \ {w} : worker'[v] = worker[v]
  <1>1. CASE Takes(w, x)
    BY <1>1 DEF Takes, Take, InitTake, UpdateTake, DeleteTake, TypeOK
  <1>2. CASE InitCopy(w) \/ InitAnnounce(w) \/ InitSave(w) \/ UpdateScan(w) \/ UpdateSave(w)
    BY <1>2 DEF InitCopy, InitAnnounce, InitSave, UpdateScan, UpdateSave, TypeOK
  <1>3. CASE DeleteDir(w)
    <2>1. PICK step : worker' = [worker EXCEPT ![w].pc = step]
      BY <1>3 DEF DeleteDir
    <2>. QED
      BY <2>1 DEF TypeOK
  <1>4. CASE DeleteRow(w) \/ DeleteErrors(w)
    BY <1>4 DEF DeleteRow, DeleteErrors, TypeOK
  <1>. QED
    BY <1>1, <1>2, <1>3, <1>4 DEF Works

\* What the worker does for one workspace leaves the copies of others alone.
LEMMA WorkElsewhere ==
  ASSUME TypeOK, PendingInv, NEW w \in Workers, NEW x \in Workspaces, NEW c \in Copies, c # x,
         ~Disturbed(c), Takes(w, x) \/ (worker[w].of = x /\ Works(w))
  PROVE  Same(c)
  <1>. USE DEF tables, answers, tasks
  <1>0. c \in Workspaces /\ worker[w] \in WorkerRecords
    BY DEF Workspaces, TypeOK, WorkerRecords
  <1>1. UNCHANGED <<post, accept, decline>>
    BY DEF Takes, Take, InitTake, UpdateTake, DeleteTake, Works, InitCopy, InitAnnounce, InitSave,
           UpdateScan, UpdateSave, DeleteDir, DeleteRow, DeleteErrors
  <1>2. CASE Takes(w, x)
    <2>1. UNCHANGED <<ws, dir, mapping>>
      BY <1>2 DEF Takes, Take, InitTake, UpdateTake, DeleteTake
    <2>2. ~On(w, c) /\ ~On(w, c)'
      <3>1. worker[w].pc = "idle"
        BY <1>2 DEF Takes, Take, InitTake, UpdateTake, DeleteTake
      <3>2. CASE x \in Copies /\ InitTake(w, x)
        BY <3>1, <3>2 DEF InitTake, On, TypeOK
      <3>3. ASSUME NEW kind, NEW step, Take(w, kind, x, step) PROVE ~On(w, c)'
        BY <3>1, <3>3 DEF Take, On, TypeOK, Idle
      <3>. QED
        BY <1>2, <3>1, <3>2, <3>3 DEF Takes, UpdateTake, DeleteTake, On
    <2>3. \A kind \in Kinds : queued'[<<kind, c>>] = queued[<<kind, c>>]
      BY <1>0, <1>2 DEF Takes, Take, InitTake, UpdateTake, DeleteTake, Dequeue, TypeOK
    <2>. QED
      BY <1>1, <1>2, <2>1, <2>2, <2>3, OtherWorkers DEF Same, ToMake, Enqueued
  <1>3. CASE worker[w].of = x /\ Works(w)
    <2>1. ~On(w, c) /\ ~On(w, c)'
      <3>1. worker'[w].of = x \/ worker'[w].pc = "idle"
        <4>1. CASE InitCopy(w) \/ DeleteDir(w)
          <5>1. PICK step : worker' = [worker EXCEPT ![w].pc = step]
            BY <4>1 DEF InitCopy, DeleteDir
          <5>. QED
            BY <1>0, <1>3, <5>1 DEF TypeOK, WorkerRecords
        <4>2. CASE InitAnnounce(w)
          BY <1>0, <1>3, <4>2 DEF InitAnnounce, TypeOK, Idle, WorkerRecords
        <4>3. CASE UpdateScan(w)
          BY <1>0, <1>3, <4>3 DEF UpdateScan, TypeOK, Idle, WorkerRecords
        <4>4. CASE InitSave(w) \/ UpdateSave(w) \/ DeleteRow(w) \/ DeleteErrors(w)
          BY <4>4 DEF InitSave, UpdateSave, DeleteRow, DeleteErrors, TypeOK, Idle
        <4>. QED
          BY <1>3, <4>1, <4>2, <4>3, <4>4 DEF Works
      <3>. QED
        BY <1>3, <3>1 DEF On
    <2>2. ws'[c] = ws[c]
      BY <1>0, <1>3 DEF Works, InitCopy, InitAnnounce, InitSave, UpdateScan, UpdateSave,
                        DeleteDir, DeleteRow, DeleteErrors, Save, TypeOK
    <2>3. dir'[c] = dir[c]
      BY <1>0, <1>3 DEF Works, InitCopy, InitAnnounce, InitSave, UpdateScan, UpdateSave,
                        DeleteDir, RemoveTree, DeleteRow, DeleteErrors, TypeOK
    <2>4. \A kind \in Kinds : queued'[<<kind, c>>] = queued[<<kind, c>>]
      BY <1>0, <1>3 DEF Works, InitCopy, InitAnnounce, InitSave, UpdateScan, UpdateSave,
                        DeleteDir, DeleteRow, DeleteErrors, Enqueue, TypeOK
    <2>5. mapping'[c].state = mapping[c].state
          /\ (mapping'[c].linked = mapping[c].linked \/ (x = Original /\ DeleteRow(w)))
      <3>1. CASE DeleteRow(w)
        <4>1. mapping'[c] = IF x = Original THEN [mapping[c] EXCEPT !.linked = FALSE] ELSE mapping[c]
          BY <1>3, <3>1 DEF DeleteRow
        <4>2. [mapping[c] EXCEPT !.linked = FALSE].state = mapping[c].state
          <5>1. mapping[c] \in Mappings
            BY DEF TypeOK
          <5>. QED
            BY <5>1 DEF Mappings
        <4>. QED
          BY <3>1, <4>1, <4>2
      <3>2. CASE ~DeleteRow(w)
        BY <1>3, <3>2 DEF Works, InitCopy, InitAnnounce, InitSave, UpdateScan, UpdateSave,
                          DeleteDir, DeleteErrors
      <3>. QED
        BY <3>1, <3>2
    \* The original is not dropped while an undisturbed copy waits for it.
    <2>6. x = Original /\ DeleteRow(w) => PastCheck
      BY <1>3 DEF DeleteRow, PendingInv, RemovalGoesOn
    <2>7. dir[c] = "none" /\ ~Declined(c) => mapping'[c].linked = mapping[c].linked
      BY <2>5, <2>6 DEF Disturbed
    <2>. QED
      BY <1>1, <1>3, <2>1, <2>2, <2>3, <2>4, <2>5, <2>7, OtherWorkers DEF Same, ToMake, Enqueued
  <1>. QED
    BY <1>2, <1>3

\* A task of the copy is taken.
LEMMA TakeShares ==
  ASSUME TypeOK, NEW w \in Workers, NEW c \in Copies, Takes(w, c), CopyInv(c), ~Disturbed(c)'
  PROVE  CopyInv(c)'
  <1>. USE DEF tables, answers, tasks
  <1>0. c \in Workspaces /\ worker[w].pc = "idle" /\ ~On(w, c)
    BY DEF Takes, Take, InitTake, UpdateTake, DeleteTake, On, Workspaces
  <1>1. /\ UNCHANGED <<ws, dir, mapping, post, accept, decline>>
        /\ \A v \in Workers \ {w} : worker'[v] = worker[v] /\ (On(v, c)' <=> On(v, c))
        /\ (ToMake(c)' <=> ToMake(c)) /\ (Enqueued(c)' <=> Enqueued(c)) /\ (Linked(c)' <=> Linked(c))
        /\ (Fetched(c)' <=> Fetched(c)) /\ (Reading(c)' <=> Reading(c))
        /\ (Declined(c)' <=> Declined(c)) /\ (Accepted(c)' <=> Accepted(c)) /\ (Gone(c)' <=> Gone(c))
    <2>1. UNCHANGED <<ws, dir, mapping, post, accept, decline>>
      BY DEF Takes, Take, InitTake, UpdateTake, DeleteTake
    <2>2. \A v \in Workers \ {w} : worker'[v] = worker[v]
      BY <1>0, OtherWorkers
    <2>. QED
      BY <2>1, <2>2 DEF On, ToMake, Enqueued, Linked, Fetched, Reading, Declined, Accepted, Gone
  \* Who fills or drops the copy would be disturbed.
  <1>2. ASSUME NEW v \in Workers, On(v, c), worker[v].pc \in {"copy", "announce", "ready", "drop"}
        PROVE  ~On(w, c)' /\ ~Held(c, v)'
    <2>1. v # w /\ worker'[v] = worker[v]
      BY <1>0, <1>1, <1>2
    <2>2. ~Held(c, v)'
      BY <1>2, <2>1 DEF On, Disturbed
    <2>. QED
      BY <2>1, <2>2 DEF Held, On
  <1>3. CASE InitTake(w, c)
    <2>1. queued[<<"initialize", c>>] > 0
      BY <1>3 DEF InitTake, Dequeue
    <2>2. Waiting(c) /\ Enqueued(c)
      BY <2>1 DEF CopyInv, Unmade, Waiting, Filling, InUse, Leaving, Kinds
    <2>3. [ws[c] EXCEPT !.path = TRUE].here /\ [ws[c] EXCEPT !.path = TRUE].path
          /\ [ws[c] EXCEPT !.path = TRUE].listed = "inherited"
      BY <1>0, <2>2 DEF Waiting, Unfinished, TypeOK, Rows
    <2>4. /\ worker'[w].pc = "copy" /\ worker'[w].of = c /\ worker'[w].linked
          /\ worker'[w].row = [ws[c] EXCEPT !.path = TRUE]
      BY <1>3, <2>2 DEF InitTake, Waiting, Linked, TypeOK
    <2>5. /\ queued'[<<"initialize", c>>] = 0
          /\ queued'[<<"update", c>>] = 0 /\ queued'[<<"delete", c>>] = 0
      BY <1>0, <1>3, <2>2 DEF InitTake, Dequeue, Waiting, TypeOK, Kinds
    <2>6. ~Held(c, w)'
      BY <2>4 DEF Disturbed
    <2>7. Filling(w, c)'
      BY <1>1, <2>2, <2>3, <2>4, <2>5, <2>6 DEF Waiting, Filling, On, Unfinished
    <2>. QED
      BY <2>7 DEF CopyInv
  <1>4. CASE UpdateTake(w, c)
    <2>1. /\ queued[<<"update", c>>] > 0
          /\ queued'[<<"initialize", c>>] = queued[<<"initialize", c>>]
          /\ queued'[<<"delete", c>>] = queued[<<"delete", c>>]
      BY <1>0, <1>4 DEF UpdateTake, Take, Dequeue, TypeOK, Kinds
    <2>2. IF ws[c].here THEN worker'[w].pc = "scan" /\ worker'[w].of = c /\ worker'[w].row = ws[c] /\ On(w, c)'
          ELSE worker' = worker /\ \A v \in Workers : On(v, c)' <=> On(v, c)
      BY <1>4 DEF UpdateTake, Take, TypeOK, Idle, On
    <2>3. ASSUME NEW v \in Workers PROVE ~Filling(v, c)
      BY <1>2, <2>2, <2>3 DEF Filling, Unfinished
    <2>4. CASE InUse(c)
      <3>1. \A v \in Workers : Updates(v, c)'
        BY <1>1, <2>2, <2>4 DEF InUse, Updates, Usable
      <3>2. ~Free(c)'
        BY <2>2, <2>4 DEF InUse, Usable, Free
      <3>3. InUse(c)'
        BY <1>1, <2>1, <2>4, <3>1, <3>2 DEF InUse, Usable, Fetched, Reading
      <3>. QED
        BY <3>3 DEF CopyInv
    <2>5. CASE Leaving(c)
      <3>1. Marked(c) => Marked(c)'
        <4>1. Marked(c) => \A v \in Workers : Listed(v, c)'
          BY <1>1, <2>2 DEF Marked, Listed
        <4>. QED
          BY <1>1, <2>1, <4>1 DEF Marked, Fetched
      <3>2. ASSUME NEW v \in Workers, Emptying(v, c) PROVE Emptying(v, c)'
        BY <1>0, <1>1, <2>1, <2>2, <3>2 DEF Emptying
      <3>3. ASSUME NEW v \in Workers, Dropping(v, c) PROVE Dropping(v, c)'
        <4>1. v # w /\ worker[v].pc = "drop" /\ On(v, c)
          BY <1>0, <3>3 DEF Dropping
        <4>2. ~Held(c, v)'
          BY <1>2, <4>1
        <4>. QED
          BY <1>1, <2>1, <3>3, <4>1, <4>2 DEF Dropping
      <3>4. Away(c) => Away(c)'
        BY <1>1, <2>1, <2>2 DEF Away, Gone, Free
      <3>. QED
        BY <1>1, <2>1, <2>5, <3>1, <3>2, <3>3, <3>4 DEF Leaving, CopyInv
    <2>. QED
      BY <2>1, <2>3, <2>4, <2>5 DEF CopyInv, Unmade, Waiting, Kinds
  <1>5. CASE DeleteTake(w, c)
    <2>1. /\ queued[<<"delete", c>>] > 0
          /\ queued'[<<"initialize", c>>] = queued[<<"initialize", c>>]
          /\ queued'[<<"delete", c>>] = queued[<<"delete", c>>] - 1
      BY <1>0, <1>5 DEF DeleteTake, Take, Dequeue, TypeOK, Kinds
    <2>2. Leaving(c) /\ Marked(c)
      BY <2>1 DEF CopyInv, Unmade, Waiting, Filling, InUse, Leaving, Emptying, Dropping, Away, Kinds
    <2>3. worker'[w].pc = "remove" /\ worker'[w].of = c /\ worker'[w].row = ws[c]
      BY <1>5, <2>2 DEF DeleteTake, Take, TypeOK, Idle, Marked
    <2>4. Emptying(w, c)'
      BY <1>1, <2>1, <2>2, <2>3 DEF Marked, Emptying, Listed, On
    <2>. QED
      BY <1>1, <2>1, <2>2, <2>4 DEF Leaving, CopyInv
  <1>. QED
    BY <1>3, <1>4, <1>5 DEF Takes

\* A worker goes on with initialize_shared_workspace.
LEMMA FillShares ==
  ASSUME TypeOK, PendingInv, NEW w \in Workers, NEW c \in Copies, worker[w].of = c,
         InitCopy(w) \/ InitAnnounce(w) \/ InitSave(w),
         CopyInv(c), ~Disturbed(c), ~Disturbed(c)', faults = 0, faults' = 0
  PROVE  CopyInv(c)'
  <1>. USE DEF tables, answers, tasks
  <1>0. /\ c \in Workspaces /\ worker[w] \in WorkerRecords
        /\ worker[w].pc \in {"copy", "announce", "ready"} /\ On(w, c)
        /\ UNCHANGED <<post, accept, decline, mapping>>
    BY DEF InitCopy, InitAnnounce, InitSave, On, Workspaces, TypeOK, WorkerRecords
  <1>1. \A v \in Workers \ {w} : worker'[v] = worker[v]
    BY <1>0, OtherWorkers DEF Works
  <1>2. Filling(w, c)
    <2>1. ASSUME NEW v \in Workers, Filling(v, c), v # w PROVE FALSE
      BY <1>0, <2>1, HeldMeans DEF Filling
    <2>2. ~Unmade(c) /\ ~Waiting(c)
      BY <1>0 DEF Unmade, Waiting, Free
    <2>3. ~InUse(c)
      BY <1>0 DEF InUse, Updates
    <2>4. ~Marked(c) /\ ~Away(c) /\ \A v \in Workers : ~Emptying(v, c)
      BY <1>0 DEF Marked, Away, Free, Listed, Emptying
    <2>5. ASSUME NEW v \in Workers PROVE ~Dropping(v, c)
      <3>1. v # w => Held(c, v) \/ ~On(v, c)
        BY <1>0, HeldMeans
      <3>. QED
        BY <1>0, <3>1 DEF Dropping
    <2>. QED
      BY <2>1, <2>2, <2>3, <2>4, <2>5 DEF CopyInv, Leaving
  <1>3. /\ (Enqueued(c)' <=> Enqueued(c)) /\ (Declined(c)' <=> Declined(c)) /\ (Accepted(c)' <=> Accepted(c))
        /\ ~Fetched(c)' /\ ~Reading(c)' /\ \A v \in Workers \ {w} : ~On(v, c)'
    BY <1>0, <1>1, <1>2, HeldMeans DEF Filling, Enqueued, Declined, Accepted, Fetched, Reading, On
  <1>4. ~Held(c, w)'
    BY <1>3 DEF Held, On, Fetched, Reading
  <1>5. CASE InitCopy(w)
    <2>1. worker[w].pc = "copy" /\ dir[c] = "none" /\ worker[w].linked
      BY <1>2, <1>5 DEF InitCopy, Filling
    <2>2. dir[Original] = "full"
      BY <1>2, <2>1 DEF Disturbed, PendingInv, Filling
    <2>3. /\ dir' = [dir EXCEPT ![c] = dir[Original]]
          /\ worker' = [worker EXCEPT ![w].pc = "announce"] /\ UNCHANGED <<ws, queued>>
      BY <1>0, <1>5, <2>1 DEF InitCopy, Fault
    <2>4. dir'[c] = "full" /\ worker'[w] = [worker[w] EXCEPT !.pc = "announce"]
      BY <1>0, <2>2, <2>3 DEF TypeOK
    <2>5. Filling(w, c)'
      BY <1>0, <1>2, <1>3, <1>4, <2>1, <2>3, <2>4 DEF Filling, On, WorkerRecords
    <2>. QED
      BY <2>5 DEF CopyInv
  <1>6. CASE InitAnnounce(w)
    <2>1. worker[w].pc = "announce" /\ dir[c] = "full"
      BY <1>2, <1>6 DEF InitAnnounce, Filling
    <2>2. worker'[w] = [worker[w] EXCEPT !.pc = "ready"] /\ UNCHANGED <<ws, dir>>
      BY <1>2, <1>6 DEF InitAnnounce, Filling, TypeOK
    <2>3. /\ queued'[<<"update", c>>] = 1
          /\ queued'[<<"initialize", c>>] = 0 /\ queued'[<<"delete", c>>] = 0
      <3>1. queued[<<"update", c>>] = 0
        BY <1>2, <2>1 DEF Filling
      <3>. QED
        BY <1>0, <1>2, <1>6, <3>1 DEF InitAnnounce, Enqueue, Filling, TypeOK, Kinds
    <2>4. Filling(w, c)'
      BY <1>0, <1>2, <1>3, <1>4, <2>1, <2>2, <2>3 DEF Filling, On, WorkerRecords
    <2>. QED
      BY <2>4 DEF CopyInv
  <1>7. CASE InitSave(w)
    <2>1. worker[w].pc = "ready" /\ dir[c] = "full" /\ queued[<<"update", c>>] = 1
      BY <1>2, <1>7 DEF InitSave, Filling
    <2>2. /\ ws'[c] = [[worker[w].row EXCEPT !.status = "idle"] EXCEPT !.here = TRUE]
          /\ worker'[w].pc = "idle" /\ UNCHANGED <<dir, queued>>
      BY <1>0, <1>7 DEF InitSave, Save, TypeOK, Idle
    <2>3. Usable(ws'[c])
      BY <1>0, <1>2, <2>2 DEF Filling, Usable, WorkerRecords, Rows
    <2>4. \A v \in Workers : Updates(v, c)'
      BY <1>3, <2>2 DEF Updates, On
    <2>5. InUse(c)'
      BY <1>0, <1>2, <1>3, <2>1, <2>2, <2>3, <2>4 DEF Filling, InUse
    <2>. QED
      BY <2>5 DEF CopyInv
  <1>. QED
    BY <1>5, <1>6, <1>7

\* A worker goes on with update_workspace.
LEMMA UpdateShares ==
  ASSUME TypeOK, NEW w \in Workers, NEW c \in Copies, worker[w].of = c,
         UpdateScan(w) \/ UpdateSave(w), CopyInv(c)
  PROVE  CopyInv(c)'
  <1>. USE DEF tables, answers, tasks
  <1>0. /\ c \in Workspaces /\ worker[w] \in WorkerRecords
        /\ worker[w].pc \in {"scan", "store"} /\ On(w, c) /\ worker[w].row \in Rows
        /\ UNCHANGED <<post, accept, decline, mapping, dir, queued>>
    BY DEF UpdateScan, UpdateSave, On, Workspaces, TypeOK, WorkerRecords
  <1>1. \A v \in Workers \ {w} : worker'[v] = worker[v]
    BY <1>0, OtherWorkers DEF Works
  <1>2. /\ (Enqueued(c)' <=> Enqueued(c)) /\ (Declined(c)' <=> Declined(c)) /\ (Accepted(c)' <=> Accepted(c))
        /\ (Fetched(c)' <=> Fetched(c)) /\ (Reading(c)' <=> Reading(c))
    BY <1>0 DEF Enqueued, Declined, Accepted, Fetched, Reading
  <1>3. \A v \in Workers : ~Filling(v, c) /\ ~Dropping(v, c)
    <2>1. ASSUME NEW v \in Workers, v # w PROVE Held(c, v)
      BY <1>0, <2>1, HeldMeans
    <2>. QED
      BY <1>0, <2>1 DEF Filling, Dropping
  <1>4. InUse(c) \/ Leaving(c)
    BY <1>0, <1>3 DEF CopyInv, Unmade, Waiting, Free
  <1>5. ~Away(c)
    BY <1>0 DEF Away, Free
  <1>6. /\ \/ worker'[w].pc = "idle"
           \/ worker'[w].pc = "store" /\ worker'[w].of = c
        /\ UpdateScan(w) => ws' = ws
        /\ UpdateSave(w) => /\ worker[w].pc = "store" /\ worker'[w].pc = "idle"
                            /\ ws'[c] = [worker[w].row EXCEPT !.here = TRUE]
    <2>1. CASE UpdateScan(w)
      BY <1>0, <2>1 DEF UpdateScan, UpdateSave, TypeOK, Idle, WorkerRecords
    <2>2. CASE UpdateSave(w)
      BY <1>0, <2>2 DEF UpdateScan, UpdateSave, Save, TypeOK, Idle
    <2>. QED
      BY <2>1, <2>2
  <1>7. ASSUME dir[c] = "full", worker[w].row.path, UpdateScan(w)
        PROVE  /\ worker'[w].pc = "store" /\ worker'[w].of = c
               /\ worker'[w].row = [worker[w].row EXCEPT !.listed = "full"]
    BY <1>0, <1>7 DEF UpdateScan, TypeOK
  <1>8. CASE InUse(c)
    <2>1. dir[c] = "full" /\ Usable(worker[w].row) /\ worker[w].row.path
      BY <1>0, <1>8 DEF InUse, Updates, Usable
    <2>2. Usable([worker[w].row EXCEPT !.listed = "full"])
          /\ [worker[w].row EXCEPT !.listed = "full"].listed = "full"
      BY <1>0, <2>1 DEF Usable, Rows
    <2>3. CASE UpdateScan(w)
      <3>1. /\ worker'[w].pc = "store" /\ On(w, c)'
            /\ worker'[w].row = [worker[w].row EXCEPT !.listed = "full"]
        BY <1>7, <2>1, <2>3 DEF On
      <3>2. \A v \in Workers : Updates(v, c)'
        <4>1. Updates(w, c)'
          BY <2>2, <3>1 DEF Updates
        <4>2. \A v \in Workers \ {w} : Updates(v, c)'
          BY <1>1, <1>8 DEF InUse, Updates, On
        <4>. QED
          BY <4>1, <4>2
      <3>3. InUse(c)'
        BY <1>0, <1>2, <1>6, <1>8, <2>3, <3>1, <3>2 DEF InUse, Free, Fetched, Reading
      <3>. QED
        BY <3>3 DEF CopyInv
    <2>4. CASE UpdateSave(w)
      <3>1. Usable(ws'[c]) /\ ws'[c].listed = "full"
        BY <1>0, <1>6, <1>8, <2>1, <2>4 DEF InUse, Updates, Usable, Rows
      <3>2. \A v \in Workers : Updates(v, c)'
        BY <1>1, <1>6, <1>8, <2>4 DEF InUse, Updates, On
      <3>3. InUse(c)'
        BY <1>0, <1>2, <1>8, <3>1, <3>2 DEF InUse, Fetched, Reading
      <3>. QED
        BY <3>3 DEF CopyInv
    <2>. QED
      BY <2>3, <2>4
  <1>9. CASE Leaving(c)
    <2>1. CASE Marked(c)
      <3>1. dir[c] = "full" /\ worker[w].row.path
        BY <1>0, <2>1 DEF Marked, Listed
      <3>2. ws'[c].here /\ ws'[c].path
        BY <1>0, <1>6, <2>1, <3>1 DEF Marked, Rows
      <3>3. Listed(w, c)'
        <4>1. UpdateScan(w) => worker'[w].row.path
          BY <1>0, <1>7, <3>1 DEF Rows
        <4>. QED
          BY <1>6, <4>1 DEF Listed, On
      <3>4. Marked(c)'
        BY <1>0, <1>1, <1>2, <2>1, <3>2, <3>3 DEF Marked, Listed, On, Fetched
      <3>. QED
        BY <1>0, <1>2, <1>9, <3>4 DEF Leaving, CopyInv
    <2>2. ASSUME NEW v \in Workers, Emptying(v, c) PROVE CopyInv(c)'
      <3>1. v # w
        BY <1>0, <2>2 DEF Emptying
      <3>2. Emptying(v, c)'
        BY <1>0, <1>1, <1>6, <2>2, <3>1 DEF Emptying, On
      <3>. QED
        BY <1>0, <1>2, <1>9, <3>2 DEF Leaving, CopyInv
    <2>. QED
      BY <1>3, <1>5, <1>9, <2>1, <2>2 DEF Leaving
  <1>. QED
    BY <1>4, <1>8, <1>9

\* A worker goes on with delete_workspace.
LEMMA DeleteShares ==
  ASSUME TypeOK, NEW w \in Workers, NEW c \in Copies, worker[w].of = c,
         DeleteDir(w) \/ DeleteRow(w) \/ DeleteErrors(w),
         CopyInv(c), ~Disturbed(c)', faults = 0, faults' = 0
  PROVE  CopyInv(c)'
  <1>. USE DEF tables, answers, tasks
  <1>0. /\ c \in Workspaces /\ c # Original /\ worker[w] \in WorkerRecords
        /\ worker[w].pc \in {"remove", "drop", "error"} /\ On(w, c)
        /\ UNCHANGED <<post, accept, decline, queued>>
    BY ShareAssumption DEF DeleteDir, DeleteRow, DeleteErrors, On, Workspaces, TypeOK, WorkerRecords
  <1>1. \A v \in Workers \ {w} : worker'[v] = worker[v]
    BY <1>0, OtherWorkers DEF Works
  <1>2. /\ (Enqueued(c)' <=> Enqueued(c)) /\ (Declined(c)' <=> Declined(c)) /\ (Fetched(c)' <=> Fetched(c))
    BY <1>0 DEF Enqueued, Declined, Fetched
  <1>3. Leaving(c) /\ (Emptying(w, c) \/ Dropping(w, c))
    <2>1. ASSUME NEW v \in Workers, v # w PROVE Held(c, v)
      BY <1>0, <2>1, HeldMeans
    <2>2. \A v \in Workers : ~Filling(v, c) /\ (v # w => ~Dropping(v, c) /\ ~Emptying(v, c))
      BY <1>0, <2>1 DEF Filling, Dropping, Emptying
    <2>3. ~Unmade(c) /\ ~Waiting(c) /\ ~Away(c) /\ ~InUse(c) /\ ~Marked(c)
      BY <1>0 DEF Unmade, Waiting, Free, Away, InUse, Updates, Marked, Listed
    <2>. QED
      BY <2>2, <2>3 DEF CopyInv, Leaving
  <1>4. CASE DeleteDir(w)
    <2>1. Emptying(w, c)
      BY <1>3, <1>4 DEF DeleteDir, Dropping
    <2>2. dir' = [dir EXCEPT ![c] = "none"] /\ worker' = [worker EXCEPT ![w].pc = "drop"]
      BY <1>4, <2>1 DEF DeleteDir, RemoveTree, Fault, Emptying
    <2>3. dir'[c] = "none" /\ worker'[w].pc = "drop" /\ worker'[w].of = c
      BY <1>0, <2>2 DEF TypeOK, WorkerRecords
    <2>4. ~Held(c, w)'
      BY <2>3 DEF Disturbed
    <2>5. Dropping(w, c)'
      BY <1>0, <2>1, <2>3, <2>4 DEF Emptying, Dropping, On
    <2>. QED
      BY <1>0, <1>2, <1>3, <2>5 DEF Leaving, CopyInv
  <1>5. CASE DeleteRow(w)
    <2>1. Dropping(w, c)
      BY <1>3, <1>5 DEF DeleteRow, Emptying
    <2>2. mapping'[c] = NoMapping
      <3>1. mapping' = [d \in Copies |-> CASE c = d -> NoMapping
                                           [] c = Original -> [mapping[d] EXCEPT !.linked = FALSE]
                                           [] OTHER -> mapping[d]]
        BY <1>5 DEF DeleteRow
      <3>. QED
        BY <1>0, <3>1
    <2>3. ~ws'[c].here
      <3>1. ws' = [ws EXCEPT ![c].here = FALSE]
        BY <1>5 DEF DeleteRow
      <3>2. ws \in [Workspaces -> Rows] /\ ws[c] \in Rows
        BY <1>0 DEF TypeOK
      <3>3. ws'[c] = [ws[c] EXCEPT !.here = FALSE]
        BY <1>0, <3>1, <3>2
      <3>. QED
        BY <3>2, <3>3 DEF Rows
    <2>4. worker'[w].pc = "idle" /\ dir' = dir
      <3>1. worker' = [worker EXCEPT ![w] = Idle] /\ dir' = dir
        BY <1>5 DEF DeleteRow
      <3>. QED
        BY <3>1 DEF TypeOK, Idle
    <2>5. \A v \in Workers : ~On(v, c)'
      BY <1>1, <2>1, <2>4, HeldMeans DEF Dropping, On
    <2>6. ~Fetched(c)
      BY <2>1, HeldMeans DEF Dropping
    <2>7. Away(c)'
      BY <1>0, <1>2, <2>1, <2>2, <2>3, <2>4, <2>5, <2>6 DEF Dropping, Away, Free, Gone, NoMapping
    <2>. QED
      BY <1>0, <1>2, <1>3, <2>7 DEF Leaving, CopyInv
  <1>6. CASE DeleteErrors(w)
    BY <1>3, <1>6 DEF DeleteErrors, Emptying, Dropping
  <1>. QED
    BY <1>4, <1>5, <1>6

LEMMA WorkerShares ==
  ASSUME TypeOK, PendingInv, NEW w \in Workers, WorkerStep(w), NEW c \in Copies,
         CopyInv(c), ~Disturbed(c), ~Disturbed(c)', faults = 0, faults' = 0
  PROVE  CopyInv(c)'
  <1>1. PICK x \in Workspaces : Takes(w, x) \/ (worker[w].of = x /\ Works(w))
    <2>1. worker[w].of \in Workspaces
      BY DEF TypeOK
    <2>. QED
      BY <2>1 DEF WorkerStep, Takes, Works, Workspaces
  <1>2. CASE c # x
    BY <1>1, <1>2, WorkElsewhere, SameKeeps
  <1>3. CASE Takes(w, c)
    BY <1>3, TakeShares
  <1>4. CASE worker[w].of = c /\ Works(w)
    BY <1>4, FillShares, UpdateShares, DeleteShares DEF Works
  <1>. QED
    BY <1>1, <1>2, <1>3, <1>4

LEMMA ShareInit == Init => ShareInv
  <1>. SUFFICES ASSUME Init PROVE ShareInv
    OBVIOUS
  <1>. USE ShareAssumption
  <1>1. PostInOrder /\ post.pc = "idle" /\ post.left = Copies /\ post.now = {}
    BY DEF Init, PostInOrder
  <1>2. ASSUME NEW c \in Copies PROVE ~Disturbed(c) /\ Unmade(c)
    <2>1. \A kind \in Kinds : queued[<<kind, c>>] = 0
      BY DEF Init, Workspaces
    <2>2. dir[c] = "none" /\ mapping[c].state = "none" /\ Unanswered(c)
      BY DEF Init, Workspaces, NoMapping, Unanswered
    <2>3. Free(c) /\ ~Disturbed(c)
      BY DEF Init, Free, On, Idle, Disturbed, PastCheck
    <2>. QED
      BY <1>1, <2>1, <2>2, <2>3 DEF Unmade, ToMake
  <1>. QED
    BY <1>1, <1>2 DEF ShareInv, CopyInv

LEMMA ShareInvSteps ==
  ASSUME TypeOK, TypeOK', PendingInv, ShareInv, [Next]_vars
  PROVE  ShareInv'
  <1>1. SUFFICES ASSUME faults' = 0
                 PROVE  PostInOrder' /\ \A c \in Copies \ disturbed' : ~Disturbed(c)' /\ CopyInv(c)'
    BY DEF ShareInv
  <1>2. CASE UNCHANGED vars
    <2>1. \A c \in Copies : Same(c) /\ (Disturbed(c)' <=> Disturbed(c))
      BY <1>2 DEF vars, tables, answers, tasks, Same, ToMake, Enqueued, Disturbed, Held, PastCheck, Declined
    <2>2. PostInOrder => PostInOrder'
      BY <1>2 DEF vars, PostInOrder
    <2>. QED
      BY <1>1, <1>2, <2>1, <2>2, SameKeeps DEF ShareInv, vars, history
  <1>3. CASE Next
    <2>1. \A c \in Copies \ disturbed' : c \notin disturbed /\ ~Disturbed(c)'
      BY <1>3 DEF Next, Record
    <2>2. ~PostDies /\ \A w \in Workers : ~TaskTimesOut(w)
      BY <1>1, ShareAssumption DEF PostDies, TaskTimesOut, Fault, TypeOK
    <2>3. CASE Post
      <3>1. faults = 0
        BY <1>1, <2>3 DEF Post, PostRead, PostCopy, PostMapping, PostEnqueue
      <3>. QED
        BY <2>1, <2>3, <3>1, PostShares DEF ShareInv
    <2>4. ASSUME NEW d \in Copies,
                 \/ d \in Accepts /\ (AcceptRead(d) \/ AcceptStep(d))
                 \/ d \in Declines /\ (DeclineRead(d) \/ DeclineMark(d))
          PROVE  PostInOrder' /\ \A c \in Copies \ disturbed' : CopyInv(c)'
      <3>1. faults = 0 /\ UNCHANGED post
        BY <1>1, <2>4 DEF AcceptRead, AcceptStep, AcceptSave, AcceptFetch, AcceptTouch,
                          DeclineRead, DeclineMark
      <3>2. ASSUME NEW c \in Copies \ disturbed' PROVE CopyInv(c)'
        <4>1. CopyInv(c) /\ ~Disturbed(c)'
          BY <2>1, <3>1 DEF ShareInv
        <4>. QED
          BY <2>4, <4>1, AcceptShares, DeclineShares, AnswersElsewhere, SameKeeps
      <3>. QED
        BY <3>1, <3>2 DEF ShareInv, PostInOrder
    <2>5. CASE RemoveRead \/ RemoveCheck \/ RemoveMark
      <3>1. faults = 0
        BY <1>1, <2>5 DEF RemoveRead, RemoveCheck, RemoveMark
      <3>2. PostInOrder'
        BY <2>5, <3>1, RemoveShares DEF ShareInv, PostInOrder
      <3>. QED
        BY <2>1, <2>5, <3>1, <3>2, RemoveShares, SameKeeps DEF ShareInv
    <2>6. ASSUME NEW w \in Workers, WorkerStep(w)
          PROVE  PostInOrder' /\ \A c \in Copies \ disturbed' : CopyInv(c)'
      <3>1. faults = 0 /\ UNCHANGED post
        <4>1. UNCHANGED post /\ (faults' = faults \/ faults' = faults + 1)
          BY <2>6 DEF WorkerStep, InitTake, Take, UpdateTake, DeleteTake, InitCopy, InitAnnounce,
                      InitSave, UpdateScan, UpdateSave, DeleteDir, RemoveTree, Fault, DeleteRow,
                      DeleteErrors, answers
        <4>. QED
          BY <1>1, <4>1 DEF TypeOK
      <3>2. \A c \in Copies \ disturbed' : CopyInv(c) /\ ~Disturbed(c) /\ ~Disturbed(c)'
        BY <2>1, <3>1 DEF ShareInv
      <3>3. PostInOrder'
        BY <3>1 DEF ShareInv, PostInOrder
      <3>. QED
        BY <1>1, <2>6, <3>1, <3>2, <3>3, WorkerShares
    <2>. QED
      BY <1>3, <2>1, <2>2, <2>3, <2>4, <2>5, <2>6, ShareAssumption DEF Next, Step
  <1>. QED
    BY <1>2, <1>3

LEMMA ShareInvImplies == TypeOK /\ ShareInv => SharesSettle
  <1>. SUFFICES ASSUME TypeOK, ShareInv, post.pc = "answered", faults = 0, Quiet,
                       NEW c \in Copies \ disturbed
                PROVE  IF Declined(c) THEN Gone(c) ELSE Complete(c)
    BY DEF SharesSettle
  <1>1. /\ CopyInv(c) /\ Free(c) /\ \A w \in Workers : ~On(w, c)
        /\ \A kind \in Kinds : queued[<<kind, c>>] = 0
    BY DEF ShareInv, Quiet, On, Free, Workspaces
  <1>2. InUse(c) \/ (Leaving(c) /\ Away(c))
    BY <1>1 DEF CopyInv, Unmade, Waiting, Filling, Leaving, Marked, Emptying, Dropping,
                ToMake, Enqueued, Kinds
  <1>. QED
    BY <1>1, <1>2 DEF InUse, Leaving, Away, Kinds, Usable, Complete

\* No half-made copies: once everything has settled and nothing died, each
\* copy is complete, or it was declined and row, directory and mapping are
\* gone - however many copies one request makes and workers run the tasks,
\* in whatever order, and whenever the answers and the deletion of the
\* original come - unless the copy was disturbed: somebody had its row in
\* memory while it was filled or dropped, or the original may have been
\* removed before it was filled.
THEOREM EveryShareSettles == Spec => []SharesSettle
  <1>1. TypeOK /\ TypeOK' /\ PendingInv /\ ShareInv /\ [Next]_vars => ShareInv'
    BY ShareInvSteps
  <1>. QED
    BY <1>1, ShareInit, ShareInvImplies, PendingInvHolds, ShareTypeCorrect, PTL DEF Spec
=============================================================================
