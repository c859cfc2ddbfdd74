------------------------- MODULE JobLifecycle_proofs -------------------------
(* Theorems about JobLifecycle, for any jobs, clients and bounds. *)
EXTENDS JobLifecycle, TLAPS

-----------------------------------------------------------------------------
(* Facts about the operators the actions are built from.                   *)

\* translate_status yields a status a Job row may have.
LEMMA TranslateStatusType ==
    ASSUME NEW s \in ResourceStates
    PROVE  TranslateStatus(s) \in {"pending", "running", "complete", "failed"}
BY DEF TranslateStatus, ResourceStates, LiveStates, EndedStates

\* The scheduler stays within its own states.
LEMMA ResourceMovesType ==
    ASSUME NEW s \in ResourceStates
    PROVE  ResourceMoves(s) \subseteq ResourceStates
BY DEF ResourceMoves, ResourceStates, LiveStates, EndedStates

LEMMA FreshRowType == FreshRow \in Rows
BY DEF FreshRow, Rows, JobStatuses

\* The row a poll saves is a row.
LEMMA UpdatedType ==
    ASSUME NEW row \in Rows, NEW seen \in JobStatuses
    PROVE  Updated(row, seen) \in Rows
BY DEF Updated, Rows, JobStatuses

-----------------------------------------------------------------------------
(* Type correctness.                                                       *)

LEMMA StartTypeOK ==
    ASSUME TypeOK, NEW j \in Jobs,
           StartCreate(j) \/ StartRequest(j) \/ StartDies(j) \/ ResourceMove(j) \/ ServerReady(j)
    PROVE  TypeOK'
<1> USE JobLifecycleAssumption, FreshRowType DEF TypeOK, history
<1>1. CASE StartCreate(j)
  BY <1>1 DEF StartCreate, StartSteps
<1>2. CASE StartLaunch(j)
  BY <1>2 DEF StartLaunch, LaunchOnResource, StartSteps, ResourceStates, LiveStates
<1>3. CASE StartLaunchFails(j)
  BY <1>3 DEF StartLaunchFails, LaunchOnResource, Fault, StartSteps, ResourceStates, LiveStates
<1>4. CASE StartSave(j)
  BY <1>4 DEF StartSave, StartSteps, Rows
<1>5. CASE StartEnqueue(j)
  <2>1. <<j, "start">> \in Chains
    BY DEF Chains, Origins
  <2>2. Queued \in [pc : PollSteps, seen : JobStatuses, row : Rows]
    BY DEF Queued, NoPoll, PollSteps, JobStatuses
  <2> QED BY <1>5, <2>1, <2>2 DEF StartEnqueue, StartSteps
<1>6. CASE StartActivate(j)
  BY <1>6 DEF StartActivate, StartSteps
<1>7. CASE StartDies(j)
  BY <1>7 DEF StartDies, Fault, StartSteps
<1>8. CASE ResourceMove(j)
  BY <1>8, ResourceMovesType DEF ResourceMove
<1>9. CASE ServerReady(j)
  BY <1>9 DEF ServerReady
<1> QED BY <1>1, <1>2, <1>3, <1>4, <1>5, <1>6, <1>7, <1>8, <1>9 DEF StartRequest

LEMMA PollTypeOK ==
    ASSUME TypeOK, NEW c \in Chains,
           PollStep(c) \/ PollFails(c) \/ TallyStep(c) \/ TallyFails(c)
    PROVE  TypeOK'
<1> USE JobLifecycleAssumption, FreshRowType DEF TypeOK, history
<1> c[1] \in Jobs
  BY DEF Chains
<1>1. NoPoll \in [pc : PollSteps, seen : JobStatuses, row : Rows]
  BY DEF NoPoll, PollSteps, JobStatuses
<1>2. Queued \in [pc : PollSteps, seen : JobStatuses, row : Rows]
  BY DEF Queued, NoPoll, PollSteps, JobStatuses
<1>3. NoTally \in [pc : TallySteps, row : Rows]
  BY DEF NoTally, TallySteps
<1>4. CASE PollAsk(c)
  <2>1. TranslateStatus(res[c[1]]) \in JobStatuses
    BY TranslateStatusType DEF JobStatuses
  <2>2. \A seen \in JobStatuses :
           [poll[c] EXCEPT !.pc = "asked", !.seen = seen]
             \in [pc : PollSteps, seen : JobStatuses, row : Rows]
    BY DEF PollSteps
  <2>3. PICK seen \in JobStatuses :
           poll' = [poll EXCEPT ![c] = [@ EXCEPT !.pc = "asked", !.seen = seen]]
    BY <1>4, <2>1 DEF PollAsk, ResourceAnswer, JobStatuses
  <2>4. poll' \in [Chains -> [pc : PollSteps, seen : JobStatuses, row : Rows]]
    BY <2>2, <2>3
  <2>5. early' \subseteq Jobs /\ misled' \subseteq Jobs
    BY <1>4 DEF PollAsk
  <2>6. faults' \in 0 .. MaxFaults
    BY <1>4 DEF PollAsk, Fault
  <2> QED BY <1>4, <2>4, <2>5, <2>6 DEF PollAsk
<1>5. CASE PollRefresh(c)
  BY <1>5 DEF PollRefresh, PollSteps
<1>6. CASE PollSave(c)
  <2>1. Updated(poll[c].row, poll[c].seen) \in Rows
    BY UpdatedType
  <2>2. [NoPoll EXCEPT !.pc = "hook"] \in [pc : PollSteps, seen : JobStatuses, row : Rows]
    BY <1>1 DEF PollSteps
  <2> QED BY <1>6, <2>1, <2>2 DEF PollSave
<1>7. CASE PollFails(c)
  <2>1. [NoPoll EXCEPT !.pc = "hook"] \in [pc : PollSteps, seen : JobStatuses, row : Rows]
    BY <1>1 DEF PollSteps
  <2> QED BY <1>7, <2>1 DEF PollFails, Fault
<1>8. CASE HookRead(c)
  <2>1. [NoPoll EXCEPT !.pc = "settle"] \in [pc : PollSteps, seen : JobStatuses, row : Rows]
    BY <1>1 DEF PollSteps
  <2> QED BY <1>2, <1>8, <2>1 DEF HookRead
<1>9. CASE HookCheck(c)
  <2>1. [NoPoll EXCEPT !.pc = "release"] \in [pc : PollSteps, seen : JobStatuses, row : Rows]
    BY <1>1 DEF PollSteps
  <2> QED BY <1>1, <1>9, <2>1 DEF HookCheck
<1>10. CASE HookRelease(c)
  BY <1>1, <1>10 DEF HookRelease, TallySteps
<1>11. CASE TallyRead(c)
  BY <1>11 DEF TallyRead, TallySteps
<1>12. CASE TallySave(c)
  BY <1>3, <1>12 DEF TallySave, Rows
<1>13. CASE TallyFails(c)
  BY <1>3, <1>13 DEF TallyFails, Fault
<1> QED BY <1>4, <1>5, <1>6, <1>7, <1>8, <1>9, <1>10, <1>11, <1>12, <1>13 DEF PollStep, TallyStep

LEMMA StopTypeOK ==
    ASSUME TypeOK, NEW r \in Stops,
           StopRead(r) \/ StopStep(r) \/ StopCallFails(r)
    PROVE  TypeOK'
<1> USE JobLifecycleAssumption, FreshRowType DEF TypeOK, history
<1> r[1] \in Jobs
  BY DEF Stops
<1>1. CASE StopRead(r)
  BY <1>1 DEF StopRead, StopSteps
<1>2. CASE StopSave(r)
  <2>1. /\ stop[r].row \in Rows
        /\ [stop[r].row EXCEPT !.status = "stopping"] \in Rows
        /\ [stop[r].row EXCEPT !.status = "complete"] \in Rows
    BY DEF Rows, JobStatuses
  <2>2. job' \in [Jobs -> Rows]
    BY <1>2, <2>1 DEF StopSave
  <2> QED BY <1>2, <2>2 DEF StopSave, StopSteps
<1>3. CASE StopCall(r)
  BY <1>3 DEF StopCall, CancelOnResource, StopSteps, ResourceStates, EndedStates
<1>4. CASE StopUndo(r)
  <2>1. [stop[r].row EXCEPT !.status = "failed"] \in Rows
    BY DEF Rows, JobStatuses
  <2> QED BY <1>4, <2>1 DEF StopUndo, StopSteps
<1>5. CASE StopCallFails(r)
  <2>1. res' \in [Jobs -> ResourceStates]
    <3>1. CASE res' = res
      BY <3>1
    <3>2. CASE CancelOnResource(r[1])
      BY <3>2 DEF CancelOnResource, ResourceStates, EndedStates
    <3> QED BY <1>5, <3>1, <3>2 DEF StopCallFails
  <2>2. misled' \subseteq Jobs
    <3>1. misled' = misled \/ misled' = misled \union {r[1]}
      BY <1>5, Zenon DEF StopCallFails
    <3> QED BY <3>1
  <2>3. stop' \in [Stops -> [pc : StopSteps, row : Rows]]
    <3>1. \/ stop' = [stop EXCEPT ![r] = [pc |-> "undo", row |-> job[r[1]]]]
          \/ stop' = [stop EXCEPT ![r].pc = "done"]
      BY <1>5, Zenon DEF StopCallFails
    <3> QED BY <3>1 DEF StopSteps
  <2>4. faults' \in 0 .. MaxFaults
    BY <1>5 DEF StopCallFails, Fault
  <2> QED BY <1>5, <2>1, <2>2, <2>3, <2>4 DEF StopCallFails
<1> QED BY <1>1, <1>2, <1>3, <1>4, <1>5 DEF StopStep

LEMMA ClusterTypeOK ==
    ASSUME TypeOK, NEW k \in Clusters, Crash(k) \/ Boot(k)
    PROVE  TypeOK'
<1> USE JobLifecycleAssumption, FreshRowType DEF TypeOK, history
<1>1. NoPoll \in [pc : PollSteps, seen : JobStatuses, row : Rows]
  BY DEF NoPoll, PollSteps, JobStatuses
<1>2. Queued \in [pc : PollSteps, seen : JobStatuses, row : Rows]
  BY DEF Queued, NoPoll, PollSteps, JobStatuses
<1>3. NoTally \in [pc : TallySteps, row : Rows]
  BY DEF NoTally, TallySteps
<1>4. [pc |-> "done", row |-> FreshRow] \in [pc : StopSteps, row : Rows]
  BY DEF StopSteps
<1>5. CASE Crash(k)
  BY <1>1, <1>3, <1>4, <1>5 DEF Crash
<1>6. CASE BootPurge(k)
  BY <1>1, <1>3, <1>4, <1>6 DEF BootPurge
<1>7. CASE BootScan(k)
  BY <1>2, <1>7 DEF BootScan
<1> QED BY <1>5, <1>6, <1>7 DEF Boot

LEMMA InitTypeOK == Init => TypeOK
BY JobLifecycleAssumption, FreshRowType
   DEF Init, TypeOK, StartSteps, PollSteps, TallySteps, StopSteps, JobStatuses,
       ResourceStates, NoPoll, NoTally

LEMMA StepTypeOK == TypeOK /\ [Next]_vars => TypeOK'
<1> SUFFICES ASSUME TypeOK, [Next]_vars PROVE TypeOK'
  OBVIOUS
<1>1. CASE UNCHANGED vars
  BY <1>1 DEF vars, TypeOK
<1>2. CASE Next
  BY <1>2, StartTypeOK, PollTypeOK, StopTypeOK, ClusterTypeOK DEF Next
<1> QED BY <1>1, <1>2

\* The state of JobLifecycle is always of its type: every row that any actor
\* holds or writes back is a Job row, whatever the interleaving.
THEOREM TypeCorrect == Spec => []TypeOK
BY InitTypeOK, StepTypeOK, PTL DEF Spec

-----------------------------------------------------------------------------
(* The polling covers every started job.                                   *)

TallyInv ==
    \A c \in Chains :
        tally[c].pc = "read" /\ tally[c].row.status \in ActiveStatuses => c[1] \in relapsed

\* What PollCoverage says of one job.
Covered(j) ==
    start[j] \in {"enqueued", "done"} /\ Active(j) /\ j \notin relapsed
    => Watching(j) \/ \E k \in Clusters : ~Up(k)

\* The invariant as a conjunction of the two families.
LEMMA CoverageInvSplit == CoverageInv <=> (\A j \in Jobs : Covered(j)) /\ TallyInv
BY DEF CoverageInv, PollCoverage, TallyInv, Covered

\* A job stays covered by a step that leaves alone the row, the start request
\* and the clusters, and takes no watching chain of the job away.
LEMMA CoveredStable ==
    ASSUME NEW j \in Jobs, Covered(j),
           job'[j] = job[j], start'[j] = start[j], cluster' = cluster,
           relapsed \subseteq relapsed',
           \A o \in Origins :
               poll[<<j, o>>].pc \in {"queued", "asked", "refreshed", "hook"}
               => poll'[<<j, o>>].pc \in {"queued", "asked", "refreshed", "hook"}
    PROVE  Covered(j)'
BY DEF Covered, Active, Exists, Watching, Up

LEMMA StartCovered ==
    ASSUME TypeOK, CoverageInv, NEW i \in Jobs,
           StartCreate(i) \/ StartRequest(i) \/ StartDies(i) \/ ResourceMove(i) \/ ServerReady(i)
    PROVE  CoverageInv'
<1> USE CoverageInvSplit DEF TypeOK, history
<1>1. TallyInv'
  BY DEF TallyInv, StartCreate, StartRequest, StartLaunch, StartLaunchFails, StartSave,
         StartEnqueue, StartActivate, StartDies, ResourceMove, ServerReady
<1>2. ASSUME NEW j \in Jobs PROVE Covered(j)'
  <2> Covered(j)
    OBVIOUS
  <2>1. CASE StartEnqueue(i) /\ j = i
    <3>1. poll'[<<j, "start">>].pc = "queued"
      BY <2>1 DEF StartEnqueue, Queued, NoPoll, Chains, Origins
    <3>2. Watching(j)'
      BY <3>1 DEF Watching, Origins
    <3> QED BY <3>2 DEF Covered
  <2>2. CASE StartEnqueue(i) /\ j # i
    BY <2>2, CoveredStable DEF StartEnqueue, Chains, Origins
  <2>3. CASE StartActivate(i)
    BY <2>3 DEF StartActivate, Covered, Active, Exists, Watching, Up
  <2>4. CASE StartCreate(i) \/ StartLaunch(i) \/ StartLaunchFails(i) \/ StartSave(i) \/ StartDies(i)
    BY <2>4 DEF StartCreate, StartLaunch, StartLaunchFails, StartSave, StartDies,
                Covered, Active, Exists, Watching, Up
  <2>5. CASE ResourceMove(i) \/ ServerReady(i)
    BY <2>5, CoveredStable DEF ResourceMove, ServerReady
  <2> QED BY <2>1, <2>2, <2>3, <2>4, <2>5 DEF StartRequest
<1> QED BY <1>1, <1>2 DEF CoverageInv, PollCoverage, TallyInv, Covered

LEMMA PollCovered ==
    ASSUME TypeOK, CoverageInv, NEW c \in Chains,
           PollStep(c) \/ PollFails(c) \/ TallyStep(c) \/ TallyFails(c)
    PROVE  CoverageInv'
<1> USE CoverageInvSplit DEF TypeOK, history
<1> c[1] \in Jobs /\ c[2] \in Origins /\ c = <<c[1], c[2]>>
  BY DEF Chains
<1>1. TallyInv'
  <2>1. CASE TallyRead(c)
    BY <2>1 DEF TallyRead, TallyInv
  <2>2. CASE TallySave(c) \/ TallyFails(c)
    BY <2>2 DEF TallySave, TallyFails, NoTally, TallyInv
  <2>3. CASE HookRelease(c)
    BY <2>3 DEF HookRelease, TallyInv
  <2>4. CASE PollAsk(c) \/ PollRefresh(c) \/ PollSave(c) \/ PollFails(c) \/ HookRead(c) \/ HookCheck(c)
    BY <2>4 DEF PollAsk, PollRefresh, PollSave, PollFails, HookRead, HookCheck, TallyInv
  <2> QED BY <2>1, <2>2, <2>3, <2>4 DEF PollStep, TallyStep
<1>2. ASSUME NEW j \in Jobs PROVE Covered(j)'
  <2> Covered(j)
    OBVIOUS
  <2>1. \A o \in Origins : <<j, o>> \in Chains
    BY DEF Chains
  \* A step that leaves c a watching chain.
  <2>2. ASSUME poll'[c].pc \in {"queued", "asked", "refreshed", "hook"},
               \A d \in Chains : d # c => poll'[d] = poll[d],
               start' = start, cluster' = cluster, relapsed' = relapsed,
               \A i \in Jobs : i # c[1] => job'[i] = job[i]
        PROVE  Covered(j)'
    <3>1. CASE j = c[1]
      <4>1. Watching(j)'
        BY <2>2, <3>1 DEF Watching
      <4> QED BY <4>1 DEF Covered
    <3>2. CASE j # c[1]
      <4>1. \A o \in Origins : <<j, o>> # c
        BY <3>2
      <4> QED BY <2>1, <2>2, <3>2, <4>1, CoveredStable
    <3> QED BY <3>1, <3>2
  <2>3. CASE PollAsk(c)
    <3>1. PICK seen : poll' = [poll EXCEPT ![c] = [@ EXCEPT !.pc = "asked", !.seen = seen]]
      BY <2>3 DEF PollAsk
    <3>2. poll'[c] = [poll[c] EXCEPT !.pc = "asked", !.seen = seen]
      BY <3>1
    <3>3. poll'[c].pc = "asked" /\ \A d \in Chains : d # c => poll'[d] = poll[d]
      BY <3>1, <3>2
    <3> QED BY <2>2, <2>3, <3>3 DEF PollAsk
  <2>4. CASE PollRefresh(c)
    BY <2>2, <2>4 DEF PollRefresh
  <2>5. CASE PollSave(c)
    BY <2>2, <2>5 DEF PollSave, NoPoll
  <2>6. CASE PollFails(c)
    BY <2>2, <2>6 DEF PollFails, NoPoll
  <2>7. CASE HookRead(c)
    <3>1. CASE Requeues(job[c[1]].status)
      BY <2>2, <2>7, <3>1 DEF HookRead, Queued, NoPoll
    <3>2. CASE ~Requeues(job[c[1]].status) /\ j = c[1]
      BY <2>7, <3>2 DEF HookRead, Requeues, Covered, Active, ActiveStatuses
    <3>3. CASE j # c[1]
      <4>1. \A o \in Origins : <<j, o>> # c
        BY <3>3
      <4> QED BY <2>1, <2>7, <3>3, <4>1, CoveredStable DEF HookRead
    <3> QED BY <3>1, <3>2, <3>3
  <2>8. CASE HookCheck(c) \/ HookRelease(c)
    <3>1. poll[c].pc \notin {"queued", "asked", "refreshed", "hook"}
      BY <2>8 DEF HookCheck, HookRelease
    <3>2. \A o \in Origins : <<j, o>> # c => poll'[<<j, o>>] = poll[<<j, o>>]
      BY <2>1, <2>8 DEF HookCheck, HookRelease
    <3> QED BY <2>8, <3>1, <3>2, CoveredStable DEF HookCheck, HookRelease
  <2>9. CASE TallyRead(c)
    BY <2>9, CoveredStable DEF TallyRead
  <2>10. CASE TallySave(c)
    <3>1. CASE j # c[1]
      BY <2>10, <3>1, CoveredStable DEF TallySave
    <3>2. CASE j = c[1] /\ tally[c].row.status \in ActiveStatuses
      BY <2>10, <3>2 DEF TallySave, TallyInv, Covered
    <3>3. CASE j = c[1] /\ tally[c].row.status \notin ActiveStatuses
      <4>1. job'[j].status = tally[c].row.status
        BY <2>10, <3>3 DEF TallySave, Rows
      <4> QED BY <3>3, <4>1 DEF Covered, Active
    <3> QED BY <3>1, <3>2, <3>3
  <2>11. CASE TallyFails(c)
    BY <2>11, CoveredStable DEF TallyFails
  <2> QED BY <2>3, <2>4, <2>5, <2>6, <2>7, <2>8, <2>9, <2>10, <2>11 DEF PollStep, TallyStep
<1> QED BY <1>1, <1>2 DEF CoverageInv, PollCoverage, TallyInv, Covered

LEMMA StopCovered ==
    ASSUME TypeOK, CoverageInv, NEW r \in Stops,
           StopRead(r) \/ StopStep(r) \/ StopCallFails(r)
    PROVE  CoverageInv'
<1> USE CoverageInvSplit DEF TypeOK, history
<1> r[1] \in Jobs
  BY DEF Stops
<1>1. TallyInv'
  BY DEF TallyInv, StopRead, StopStep, StopSave, StopCall, StopUndo, StopCallFails
<1>2. ASSUME NEW j \in Jobs PROVE Covered(j)'
  <2> Covered(j)
    OBVIOUS
  <2>1. CASE StopRead(r) \/ StopCall(r) \/ StopCallFails(r)
    BY <2>1, CoveredStable DEF StopRead, StopCall, StopCallFails
  <2>2. CASE (StopSave(r) \/ StopUndo(r)) /\ j # r[1]
    BY <2>2, CoveredStable DEF StopSave, StopUndo
  \* The row that a stop writes is neither pending nor running.
  <2>3. CASE (StopSave(r) \/ StopUndo(r)) /\ j = r[1]
    <3>1. job'[j].status \in {"stopping", "complete", "failed"}
      BY <2>3 DEF StopSave, StopUndo, Rows
    <3> QED BY <3>1 DEF Covered, Active, ActiveStatuses
  <2> QED BY <2>1, <2>2, <2>3 DEF StopStep
<1> QED BY <1>1, <1>2 DEF CoverageInv, PollCoverage, TallyInv, Covered

LEMMA ClusterCovered ==
    ASSUME TypeOK, CoverageInv, NEW k \in Clusters, Crash(k) \/ Boot(k)
    PROVE  CoverageInv'
<1> USE CoverageInvSplit DEF TypeOK, history
<1>1. TallyInv'
  BY DEF TallyInv, Crash, Boot, BootPurge, BootScan, NoTally
<1>2. ASSUME NEW j \in Jobs PROVE Covered(j)'
  <2> Covered(j)
    OBVIOUS
  <2>1. CASE Crash(k) \/ BootPurge(k)
    <3>1. cluster'[k] # "up"
      BY <2>1 DEF Crash, BootPurge
    <3> QED BY <3>1 DEF Covered, Up
  \* The scan starts a chain for j itself.
  <2>2. CASE BootScan(k) /\ Active(j)
    <3>1. <<j, k>> \in Chains /\ k \in Origins
      BY DEF Chains, Origins
    <3>2. poll'[<<j, k>>].pc = "queued"
      BY <2>2, <3>1 DEF BootScan, Scanned, Queued, NoPoll
    <3>3. Watching(j)'
      BY <3>1, <3>2 DEF Watching
    <3> QED BY <3>3 DEF Covered
  <2>3. CASE BootScan(k) /\ ~Active(j)
    BY <2>3 DEF BootScan, Covered, Active, Exists
  <2> QED BY <2>1, <2>2, <2>3 DEF Boot
<1> QED BY <1>1, <1>2 DEF CoverageInv, PollCoverage, TallyInv, Covered

LEMMA InitCovered == Init => CoverageInv
BY DEF Init, CoverageInv, PollCoverage, NoTally

LEMMA StepCovered == TypeOK /\ CoverageInv /\ [Next]_vars => CoverageInv'
<1> SUFFICES ASSUME TypeOK, CoverageInv, [Next]_vars PROVE CoverageInv'
  OBVIOUS
<1>1. CASE UNCHANGED vars
  BY <1>1 DEF vars, CoverageInv, PollCoverage, Active, Exists, Watching, Up
<1>2. CASE Next
  BY <1>2, StartCovered, PollCovered, StopCovered, ClusterCovered DEF Next
<1> QED BY <1>1, <1>2 DEF CoverageInv, PollCoverage, TallyInv, Covered

\* Polling covers jobs, and only update_job_core_hours of a relapsed job holds
\* a row as pending or running that it may write back: chains, stops, crashes
\* and boots keep both from any state in which they hold.
THEOREM CoverageInvHolds == Spec => []CoverageInv
<1> QED BY InitTypeOK, StepTypeOK, InitCovered, StepCovered, PTL DEF Spec

\* Every started job whose row is pending or running is watched by a polling
\* chain, or a cluster is about to scan for it, whatever clients stop, fail or
\* crash: the chain and the boot of a cluster never leave a job unobserved.
THEOREM PollingCoversJobs == Spec => []PollCoverage
<1>1. CoverageInv => PollCoverage
  BY DEF CoverageInv
<1> QED BY <1>1, CoverageInvHolds, PTL
-----------------------------------------------------------------------------
(* No false end: EndInv is inductive.                                      *)

\* The scheduler's answer about a job that is still going is not terminal.
LEMMA LiveAnswer ==
    ASSUME NEW s \in LiveStates
    PROVE  TranslateStatus(s) \in JobStatuses \ TerminalStatuses
BY DEF TranslateStatus, LiveStates, JobStatuses, TerminalStatuses

\* Only a job that is going moves, and none moves back to "not submitted".
LEMMA OnlyLiveMoves ==
    ASSUME NEW s \in ResourceStates, NEW t \in ResourceMoves(s)
    PROVE  s \in LiveStates
BY DEF ResourceMoves, ResourceStates, LiveStates, EndedStates

\* A poll saves an open row, when it holds one and the answer is not terminal.
LEMMA UpdatedOpen ==
    ASSUME NEW row \in Rows, NEW seen \in JobStatuses,
           OpenRow(row), seen \notin TerminalStatuses
    PROVE  OpenRow(Updated(row, seen))
BY DEF OpenRow, Updated, Rows, JobStatuses, TerminalStatuses

\* A job keeps TrueEnd when nothing of it changes, but that it may move on, or
\* be cancelled, on the resource while it is going there.
LEMMA TrueEndStable ==
    ASSUME NEW j \in Jobs, TrueEnd(j),
           job'[j] = job[j], start'[j] = start[j],
           res'[j] = res[j] \/ Live(j),
           \A c \in Chains : c[1] = j => poll'[c] = poll[c] /\ tally'[c] = tally[c],
           \A r \in Stops : r[1] = j => stop'[r] = stop[r],
           early \subseteq early', misled \subseteq misled'
    PROVE  TrueEnd(j)'
<1> SUFFICES ASSUME j \notin early \union misled
             PROVE  /\ start[j] \in {"idle", "created"} => res'[j] = "NONE"
                    /\ ~Submitted(j) => Untouched(j)'
                    /\ Submitted(j) /\ Live(j)' => AllOpen(j)'
  BY DEF TrueEnd, Submitted
<1>1. start[j] \in {"idle", "created"} => res'[j] = "NONE"
  BY DEF TrueEnd, Live, LiveStates
<1>2. ~Submitted(j) => Untouched(j)'
  BY DEF TrueEnd, Untouched, Exists
<1>3. Live(j)' => Live(j)
  BY DEF Live
<1>4. Submitted(j) /\ Live(j)' => AllOpen(j)'
  BY <1>3 DEF TrueEnd, AllOpen
<1> QED BY <1>1, <1>2, <1>4

LEMMA StartTrueEnd ==
    ASSUME TypeOK, EndInv, NEW i \in Jobs,
           StartCreate(i) \/ StartRequest(i) \/ StartDies(i) \/ ResourceMove(i) \/ ServerReady(i)
    PROVE  EndInv'
<1> USE DEF TypeOK, history
<1> SUFFICES ASSUME NEW j \in Jobs PROVE TrueEnd(j)'
  BY DEF EndInv
<1> TrueEnd(j)
  BY DEF EndInv
<1>1. CASE j # i
  <2>1. \A c \in Chains : c[1] = j => poll'[c] = poll[c] /\ tally'[c] = tally[c]
    BY <1>1 DEF StartCreate, StartRequest, StartLaunch, StartLaunchFails, StartSave,
                StartEnqueue, StartActivate, StartDies, ResourceMove, ServerReady
  <2>2. /\ job'[j] = job[j] /\ start'[j] = start[j] /\ res'[j] = res[j] /\ stop' = stop
        /\ early \subseteq early' /\ misled \subseteq misled'
    BY <1>1 DEF StartCreate, StartRequest, StartLaunch, LaunchOnResource, StartLaunchFails, StartSave,
                StartEnqueue, StartActivate, StartDies, ResourceMove, ServerReady
  <2> QED BY <2>1, <2>2, TrueEndStable
<1>2. CASE j = i
  <2>1. CASE StartCreate(j)
    BY <2>1 DEF StartCreate, TrueEnd, Submitted, Untouched, Exists
  <2>2. CASE StartLaunch(j)
    BY <2>2 DEF StartLaunch, TrueEnd, Submitted, Untouched, Exists
  <2>3. CASE StartLaunchFails(j)
    \* A job the scheduler refused is not there, and will not be.
    BY <2>3 DEF StartLaunchFails, LaunchOnResource, TrueEnd, Submitted, Untouched, Live, LiveStates
  \* The first copy of the row that has the id.
  <2>4. CASE StartSave(j)
    <3>1. j \notin early \union misled => AllOpen(j)'
      BY <2>4 DEF StartSave, TrueEnd, Submitted, Untouched, Exists, AllOpen, OpenRow, FreshRow,
                  TerminalStatuses
    <3> QED BY <2>4, <3>1 DEF StartSave, TrueEnd, Submitted
  <2>5. CASE StartEnqueue(j)
    <3>1. \A c \in Chains : poll'[c] = poll[c] \/ poll'[c].pc = "queued"
      BY <2>5 DEF StartEnqueue, Queued, NoPoll
    <3> QED BY <2>5, <3>1 DEF StartEnqueue, TrueEnd, Submitted, AllOpen, Live
  <2>6. CASE StartActivate(j)
    BY <2>6 DEF StartActivate, TrueEnd, Submitted, AllOpen, Live
  <2>7. CASE StartDies(j)
    BY <2>7 DEF StartDies, TrueEnd, Submitted, AllOpen, Live, LiveStates
  <2>8. CASE ResourceMove(j)
    <3>1. Live(j)
      BY <2>8, OnlyLiveMoves DEF ResourceMove, Live
    <3> QED BY <2>8, <3>1, TrueEndStable DEF ResourceMove
  <2>9. CASE ServerReady(j)
    BY <2>9, TrueEndStable DEF ServerReady
  <2> QED BY <1>2, <2>1, <2>2, <2>3, <2>4, <2>5, <2>6, <2>7, <2>8, <2>9 DEF StartRequest
<1> QED BY <1>1, <1>2

LEMMA PollTrueEnd ==
    ASSUME TypeOK, EndInv, NEW c \in Chains,
           PollStep(c) \/ PollFails(c) \/ TallyStep(c) \/ TallyFails(c)
    PROVE  EndInv'
<1> USE DEF TypeOK, history
<1> SUFFICES ASSUME NEW j \in Jobs PROVE TrueEnd(j)'
  BY DEF EndInv
<1> TrueEnd(j)
  BY DEF EndInv
<1> c[1] \in Jobs
  BY DEF Chains
<1>0. /\ start' = start /\ res' = res /\ stop' = stop
      /\ early \subseteq early' /\ misled \subseteq misled'
      /\ \A d \in Chains : d # c => poll'[d] = poll[d] /\ tally'[d] = tally[d]
  BY DEF PollStep, PollAsk, PollRefresh, PollSave, PollFails, HookRead, HookCheck, HookRelease,
         TallyStep, TallyRead, TallySave, TallyFails
<1>1. CASE j # c[1]
  <2>1. job'[j] = job[j]
    BY <1>1 DEF PollStep, PollAsk, PollRefresh, PollSave, PollFails, HookRead, HookCheck,
                HookRelease, TallyStep, TallyRead, TallySave, TallyFails
  <2> QED BY <1>0, <1>1, <2>1, TrueEndStable
<1>2. ASSUME j = c[1], j \notin early' \union misled'
      PROVE  (~Submitted(j) => Untouched(j)') /\ (Submitted(j) /\ Live(j) => AllOpen(j)')
  <2> USE <1>2
  <2>1. j \notin early \union misled
    BY <1>0
  <2>2. ASSUME ~Submitted(j) PROVE Untouched(j)'
    <3>1. Untouched(j)
      BY <2>1, <2>2 DEF TrueEnd
    <3>2. /\ poll[c].pc \in {"none", "queued", "hook"} /\ tally[c].pc = "none"
          /\ poll[c].pc # "none" => Exists(j)
      BY <3>1 DEF Untouched
    <3>3. /\ job'[j] = job[j] /\ tally'[c].pc = "none"
          /\ poll'[c].pc \in (IF Exists(j) THEN {"none", "queued", "hook"} ELSE {"none"})
      <4>1. ~PollAsk(c)
        BY <2>2, <3>1, <3>2 DEF PollAsk, Submitted, Launching, Exists, Untouched, FreshRow
      <4>2. CASE PollFails(c)
        BY <3>2, <4>2 DEF PollFails, NoPoll
      <4>3. CASE HookRead(c)
        BY <3>1, <3>2, <4>3 DEF HookRead, Requeues, Untouched, FreshRow, Queued, NoPoll
      <4> QED BY <3>2, <4>1, <4>2, <4>3
              DEF PollStep, PollRefresh, PollSave, HookCheck, HookRelease, TallyStep, TallyRead,
                  TallySave, TallyFails
    <3> QED BY <1>0, <3>1, <3>3 DEF Untouched, Exists
  <2>3. ASSUME Submitted(j), Live(j) PROVE AllOpen(j)'
    <3>1. AllOpen(j)
      BY <2>1, <2>3 DEF TrueEnd
    <3>2. /\ OpenRow(job[j])
          /\ poll[c].pc \in {"asked", "refreshed"} => poll[c].seen \notin TerminalStatuses
          /\ poll[c].pc = "refreshed" => OpenRow(poll[c].row)
          /\ tally[c].pc = "read" => OpenRow(tally[c].row)
      BY <3>1 DEF AllOpen
    \* It is enough to look at the row and at what this chain holds.
    <3>3. ASSUME OpenRow(job'[j]),
                 poll'[c].pc \in {"asked", "refreshed"} => poll'[c].seen \notin TerminalStatuses,
                 poll'[c].pc = "refreshed" => OpenRow(poll'[c].row),
                 tally'[c].pc = "read" => OpenRow(tally'[c].row)
          PROVE  AllOpen(j)'
      BY <1>0, <3>1, <3>3 DEF AllOpen, OpenRow
    <3>4. CASE PollAsk(c)
      <4>1. ResourceAnswer(j) = TranslateStatus(res[j])
        BY <3>2 DEF ResourceAnswer, OpenRow
      <4>2. poll' = [poll EXCEPT ![c] = [@ EXCEPT !.pc = "asked", !.seen = ResourceAnswer(j)]]
        BY <3>4 DEF PollAsk
      <4>3. poll'[c].pc = "asked" /\ poll'[c].seen \notin TerminalStatuses
        BY <2>3, <4>1, <4>2, LiveAnswer DEF Live
      <4> QED BY <3>2, <3>3, <3>4, <4>3 DEF PollAsk
    <3>5. CASE PollRefresh(c)
      BY <3>2, <3>3, <3>5 DEF PollRefresh
    <3>6. CASE PollSave(c)
      <4>1. OpenRow(Updated(poll[c].row, poll[c].seen))
        BY <3>2, <3>6, UpdatedOpen DEF PollSave
      <4>2. OpenRow(job'[j])
        BY <3>2, <3>6, <4>1 DEF PollSave
      <4>3. poll'[c].pc = "hook"
        BY <3>6 DEF PollSave, NoPoll
      <4> QED BY <3>2, <3>3, <3>6, <4>2, <4>3 DEF PollSave
    <3>7. CASE PollFails(c)
      BY <3>2, <3>3, <3>7 DEF PollFails, NoPoll
    <3>8. CASE HookRead(c) \/ HookCheck(c) \/ HookRelease(c)
      <4>1. poll'[c].pc \in {"queued", "settle", "none", "release"} /\ job' = job
        BY <3>8 DEF HookRead, HookCheck, HookRelease, Queued, NoPoll
      <4>2. tally'[c].pc = "read" => tally'[c] = tally[c]
        BY <3>8 DEF HookRead, HookCheck, HookRelease
      <4> QED BY <3>2, <3>3, <4>1, <4>2
    <3>9. CASE TallyRead(c)
      BY <3>2, <3>3, <3>9 DEF TallyRead
    <3>10. CASE TallySave(c)
      <4>1. OpenRow([tally[c].row EXCEPT !.hours = TRUE])
        BY <3>2, <3>10 DEF TallySave, OpenRow, Rows
      <4> QED BY <3>2, <3>3, <3>10, <4>1 DEF TallySave, NoTally
    <3>11. CASE TallyFails(c)
      BY <3>2, <3>3, <3>11 DEF TallyFails, NoTally
    <3> QED BY <3>4, <3>5, <3>6, <3>7, <3>8, <3>9, <3>10, <3>11 DEF PollStep, TallyStep
  <2> QED BY <2>2, <2>3
<1>3. CASE j = c[1]
  BY <1>0, <1>2, <1>3 DEF TrueEnd, Submitted, Live
<1> QED BY <1>1, <1>3

LEMMA StopTrueEnd ==
    ASSUME TypeOK, EndInv, NEW r \in Stops,
           StopRead(r) \/ StopStep(r) \/ StopCallFails(r)
    PROVE  EndInv'
<1> USE DEF TypeOK, history
<1> SUFFICES ASSUME NEW j \in Jobs PROVE TrueEnd(j)'
  BY DEF EndInv
<1> TrueEnd(j)
  BY DEF EndInv
<1> r[1] \in Jobs
  BY DEF Stops
<1>0. /\ start' = start /\ poll' = poll /\ tally' = tally
      /\ early \subseteq early' /\ misled \subseteq misled'
      /\ \A q \in Stops : q # r => stop'[q] = stop[q]
      /\ \A i \in Jobs : res'[i] = res[i] \/ (i = r[1] /\ Live(i) /\ ~Live(i)')
  BY DEF StopRead, StopStep, StopSave, StopCall, StopUndo, StopCallFails, CancelOnResource,
         Live, LiveStates
<1>1. CASE j # r[1]
  <2>1. job'[j] = job[j]
    BY <1>1 DEF StopRead, StopStep, StopSave, StopCall, StopUndo, StopCallFails
  <2> QED BY <1>0, <1>1, <2>1, TrueEndStable
<1>2. ASSUME j = r[1], j \notin early' \union misled'
      PROVE  (~Submitted(j) => Untouched(j)') /\ (Submitted(j) /\ Live(j)' => AllOpen(j)')
  <2> USE <1>2
  <2>1. j \notin early \union misled
    BY <1>0
  \* Who stops a job that is being launched is early.
  <2>2. Submitted(j)
    <3>1. ASSUME ~Submitted(j) PROVE FALSE
      <4>1. stop[r].pc = "idle"
        BY <2>1, <3>1 DEF TrueEnd, Untouched
      <4> QED BY <3>1, <4>1
              DEF StopRead, StopStep, StopSave, StopCall, StopUndo, StopCallFails, Submitted,
                  Launching, Exists
    <3> QED BY <3>1
  <2>3. ASSUME Live(j)' PROVE AllOpen(j)'
    <3>1. Live(j) /\ AllOpen(j)
      BY <1>0, <2>1, <2>2, <2>3 DEF TrueEnd, Live
    <3>2. /\ OpenRow(job[j])
          /\ stop[r].pc # "undo"
          /\ stop[r].pc = "read" => OpenRow(stop[r].row)
      BY <3>1 DEF AllOpen
    <3>3. ASSUME OpenRow(job'[j]), stop'[r].pc # "undo",
                 stop'[r].pc = "read" => OpenRow(stop'[r].row)
          PROVE  AllOpen(j)'
      BY <1>0, <3>1, <3>3 DEF AllOpen, OpenRow
    <3>4. CASE StopRead(r)
      BY <3>2, <3>3, <3>4 DEF StopRead
    <3>5. CASE StopSave(r)
      <4>1. OpenRow([stop[r].row EXCEPT !.status = "stopping"])
        BY <3>2, <3>5 DEF StopSave, OpenRow, Rows, TerminalStatuses
      <4> QED BY <3>2, <3>3, <3>5, <4>1 DEF StopSave, OpenRow
    <3>6. CASE StopCall(r)
      BY <3>1, <3>2, <3>3, <3>6 DEF StopCall
    <3>7. CASE StopCallFails(r)
      <4>1. stop' = [stop EXCEPT ![r].pc = "done"] /\ job' = job
        BY <3>7 DEF StopCallFails
      <4> QED BY <3>2, <3>3, <4>1
    <3> QED BY <3>2, <3>4, <3>5, <3>6, <3>7 DEF StopStep, StopUndo
  <2> QED BY <2>2, <2>3
<1>3. CASE j = r[1]
  <2>1. j \notin early' \union misled' => res'[j] = "NONE" \/ start[j] \notin {"idle", "created"}
    BY <1>0 DEF TrueEnd, Live, LiveStates
  <2> QED BY <1>0, <1>2, <1>3, <2>1 DEF TrueEnd, Submitted
<1> QED BY <1>1, <1>3

LEMMA ClusterTrueEnd ==
    ASSUME TypeOK, EndInv, NEW k \in Clusters, Crash(k) \/ Boot(k)
    PROVE  EndInv'
<1> USE DEF TypeOK, history
<1> SUFFICES ASSUME NEW j \in Jobs, j \notin early \union misled
             PROVE  (~Submitted(j) => Untouched(j)') /\ (Submitted(j) /\ Live(j) => AllOpen(j)')
  BY DEF EndInv, TrueEnd, Submitted, Live, Crash, Boot, BootPurge, BootScan
<1> TrueEnd(j)
  BY DEF EndInv
<1>1. UNCHANGED <<job, start>>
  BY DEF Crash, Boot, BootPurge, BootScan
<1>2. \A c \in Chains : \/ poll'[c] = poll[c]
                        \/ poll'[c].pc = "none"
                        \/ poll'[c].pc = "queued" /\ Exists(c[1])
  BY DEF Crash, Boot, BootPurge, BootScan, NoPoll, Queued, Scanned, Active
<1>3. \A c \in Chains : tally'[c] = tally[c] \/ tally'[c].pc = "none"
  BY DEF Crash, Boot, BootPurge, BootScan, NoTally
<1>4. \A r \in Stops : stop'[r] = stop[r] \/ (stop[r].pc # "idle" /\ stop'[r].pc = "done")
  BY DEF Crash, Boot, BootPurge, BootScan
<1>5. ~Submitted(j) => Untouched(j)'
  BY <1>1, <1>2, <1>3, <1>4 DEF TrueEnd, Untouched, Exists
<1>6. Submitted(j) /\ Live(j) => AllOpen(j)'
  BY <1>1, <1>2, <1>3, <1>4 DEF TrueEnd, AllOpen
<1> QED BY <1>5, <1>6

\* From the moment a job's resource_job_id is stored until the job is over on
\* the resource, every copy of its row - in the table, with a poll, a stop or
\* the core-hours task, however stale - has the id and is not terminal.
THEOREM EndInvHolds == Spec => []EndInv
<1>1. Init => EndInv
  BY DEF Init, EndInv, TrueEnd, Submitted, Untouched, Exists, NoPoll, NoTally
<1>2. TypeOK /\ EndInv /\ [Next]_vars => EndInv'
  <2> SUFFICES ASSUME TypeOK, EndInv, [Next]_vars PROVE EndInv'
    OBVIOUS
  <2>1. CASE UNCHANGED vars
    <3>1. ASSUME NEW j \in Jobs PROVE TrueEnd(j)'
      BY <2>1, TrueEndStable DEF EndInv, vars
    <3> QED BY <3>1 DEF EndInv
  <2>2. CASE Next
    BY <2>2, StartTrueEnd, PollTrueEnd, StopTrueEnd, ClusterTrueEnd DEF Next
  <2> QED BY <2>1, <2>2
<1> QED BY <1>1, <1>2, TypeCorrect, PTL DEF Spec

\* No job is said to be over that is still going on the resource, for any number
\* of jobs, stop requests, faults and crashes: what update_job_status, stop_job
\* and JobView.put write is made up only where the API failed or the row was
\* met without its resource_job_id.
THEOREM NoJobEndsFalsely == Spec => []NoFalseEnd
<1>1. EndInv => NoFalseEnd
  <2> SUFFICES ASSUME EndInv, NEW j \in Jobs, Exists(j), job[j].status \in TerminalStatuses,
                      j \notin early \union misled
               PROVE  ~Live(j)
    BY DEF NoFalseEnd
  <2>1. Submitted(j)
    BY DEF EndInv, TrueEnd, Untouched, FreshRow, TerminalStatuses
  <2> QED BY <2>1 DEF EndInv, TrueEnd, AllOpen, OpenRow
<1> QED BY <1>1, EndInvHolds, PTL
=============================================================================
