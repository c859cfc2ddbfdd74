-------------------------- MODULE JobMirror_proofs --------------------------
(* Theorems about jobs that nobody stops, while no task cluster crashes: the *)
(* one chain of each job, terminal rows, and the step-by-step refinement of  *)
(* JobMirror.                                                                *)
EXTENDS MCJobMirror, JobLifecycle_proofs

-----------------------------------------------------------------------------
(* One chain per job: OneChainInv is inductive.                            *)

StartChain(j) == <<j, "start">>

LEMMA ChainFacts ==
    ASSUME NEW j \in Jobs
    PROVE  /\ StartChain(j) \in Chains
           /\ \A k \in Clusters : <<j, k>> \in Chains /\ <<j, k>> # StartChain(j)
           /\ \A c \in Chains : c[1] = j <=> c = StartChain(j) \/ \E k \in Clusters : c = <<j, k>>
BY DEF StartChain, Chains, Origins, Clusters

\* Nothing of the job changes.
LEMMA OneChainStable ==
    ASSUME NEW j \in Jobs, OneChain(j),
           job'[j] = job[j], start'[j] = start[j], res'[j] = res[j],
           \A c \in Chains : c[1] = j => poll'[c] = poll[c] /\ tally'[c] = tally[c]
    PROVE  OneChain(j)'
<1> \A k \in Clusters : /\ poll'[<<j, k>>] = poll[<<j, k>>]
                        /\ tally'[<<j, k>>] = tally[<<j, k>>]
  BY ChainFacts
<1> poll'[<<j, "start">>] = poll[<<j, "start">>] /\ tally'[<<j, "start">>] = tally[<<j, "start">>]
  BY ChainFacts DEF StartChain
<1> QED BY DEF OneChain

LEMMA StartOneChain ==
    ASSUME TypeOK, NEW j \in Jobs, OneChain(j), NEW i \in Jobs,
           StartCreate(i) \/ StartRequest(i) \/ StartDies(i) \/ ResourceMove(i) \/ ServerReady(i)
    PROVE  OneChain(j)'
<1> USE DEF TypeOK, history
<1>1. CASE j # i
  <2>1. /\ job'[j] = job[j] /\ start'[j] = start[j] /\ res'[j] = res[j]
        /\ \A c \in Chains : c[1] = j => poll'[c] = poll[c] /\ tally'[c] = tally[c]
    BY <1>1 DEF StartCreate, StartRequest, StartLaunch, StartLaunchFails, StartSave, StartEnqueue,
                StartActivate, StartDies, ResourceMove, ServerReady, LaunchOnResource
  <2> QED BY <2>1, OneChainStable
<1>2. CASE j = i
  <2> USE <1>2, ChainFacts DEF StartChain
  <2>1. CASE StartCreate(i)
    BY <2>1 DEF StartCreate, OneChain, FreshRow, TerminalStatuses
  <2>2. CASE StartLaunch(i)
    BY <2>2 DEF StartLaunch, LaunchOnResource, OneChain
  <2>3. CASE StartLaunchFails(i)
    <3>1. start'[i] = "failed" /\ (res' = res \/ res'[i] = "PENDING")
      BY <2>3 DEF StartLaunchFails, LaunchOnResource
    <3> QED BY <2>3, <3>1 DEF StartLaunchFails, OneChain
  <2>4. CASE StartSave(i)
    <3>1. job'[i].status = "pending" /\ job'[i].known
      BY <2>4 DEF StartSave, FreshRow
    <3> QED BY <2>4, <3>1 DEF StartSave, OneChain, TerminalStatuses
  <2>5. CASE StartEnqueue(i)
    <3>1. /\ poll'[<<i, "start">>].pc = "queued"
          /\ \A k \in Clusters : poll'[<<i, k>>] = poll[<<i, k>>]
      BY <2>5 DEF StartEnqueue, Queued, NoPoll
    <3> QED BY <2>5, <3>1 DEF StartEnqueue, OneChain, TerminalStatuses
  <2>6. CASE StartActivate(i) \/ StartDies(i)
    BY <2>6 DEF StartActivate, StartDies, OneChain
  <2>7. CASE ResourceMove(i)
    <3>1. res[i] # "NONE" /\ res'[i] # "NONE"
      BY <2>7, OnlyLiveMoves DEF ResourceMove, ResourceMoves, LiveStates
    <3> QED BY <2>7, <3>1 DEF ResourceMove, OneChain
  <2>8. CASE ServerReady(i)
    BY <2>8, OneChainStable DEF ServerReady
  <2> QED BY <2>1, <2>2, <2>3, <2>4, <2>5, <2>6, <2>7, <2>8 DEF StartRequest
<1> QED BY <1>1, <1>2

LEMMA PollOneChain ==
    ASSUME TypeOK, NEW j \in Jobs, OneChain(j), NEW c \in Chains,
           PollStep(c) \/ PollFails(c) \/ TallyStep(c) \/ TallyFails(c)
    PROVE  OneChain(j)'
<1> USE DEF TypeOK, history
<1> c[1] \in Jobs /\ c = <<c[1], c[2]>> /\ c[2] \in Origins
  BY DEF Chains
<1>0. start' = start /\ res' = res
  BY DEF PollStep, PollAsk, PollRefresh, PollSave, HookRead, HookCheck, HookRelease, PollFails,
         TallyStep, TallyRead, TallySave, TallyFails
<1>1. CASE j # c[1]
  <2>1. \A d \in Chains : d # c => poll'[d] = poll[d] /\ tally'[d] = tally[d]
    BY DEF PollStep, PollAsk, PollRefresh, PollSave, HookRead, HookCheck, HookRelease, PollFails,
           TallyStep, TallyRead, TallySave, TallyFails
  <2>2. job'[j] = job[j]
    BY <1>1 DEF PollStep, PollAsk, PollRefresh, PollSave, HookRead, HookCheck, HookRelease,
                PollFails, TallyStep, TallyRead, TallySave, TallyFails
  <2> QED BY <1>0, <1>1, <2>1, <2>2, OneChainStable
<1>2. CASE j = c[1]
  <2> USE <1>2
  <2>1. poll[c].pc # "none" \/ tally[c].pc # "none"
    BY DEF PollStep, PollAsk, PollRefresh, PollSave, HookRead, HookCheck, HookRelease, PollFails,
           TallyStep, TallyRead, TallySave, TallyFails
  <2>2. c = <<j, "start">>
    BY <2>1 DEF OneChain, Origins
  <2>3. \A k \in Clusters : <<j, k>> \in Chains /\ <<j, k>> # c
    BY <2>2, ChainFacts DEF StartChain
  <2>4. \A k \in Clusters : poll'[<<j, k>>] = poll[<<j, k>>] /\ tally'[<<j, k>>] = tally[<<j, k>>]
    BY <2>3 DEF PollStep, PollAsk, PollRefresh, PollSave, HookRead, HookCheck, HookRelease,
                PollFails, TallyStep, TallyRead, TallySave, TallyFails
  \* What OneChain says of the row, the poll and the core-hours task.
  <2> DEFINE Agree(row, p, t) ==
        /\ row.status # "stopping"
        /\ p.pc \in {"queued", "asked", "refreshed"} => row.status \notin TerminalStatuses
        /\ p.pc \in {"asked", "refreshed"} => p.seen # "stopping"
        /\ p.pc = "refreshed" => p.row = row
        /\ p.pc \in {"settle", "release"} => row.status \in TerminalStatuses
        /\ t.pc # "none" => p.pc = "none" /\ row.status \in TerminalStatuses
        /\ t.pc = "read" => t.row = row
  <2>5. Agree(job[j], poll[c], tally[c]) /\ (poll[c].pc # "none" => job[j].known /\ res[j] # "NONE")
    BY <2>2 DEF OneChain
  <2>6. start[j] \notin {"idle", "created", "launched", "saved"}
    BY <2>1, <2>2 DEF OneChain
  <2>7. ASSUME Agree(job'[j], poll'[c], tally'[c]),
               poll'[c].pc # "none" => job'[j].known /\ res[j] # "NONE"
        PROVE  OneChain(j)'
    BY <1>0, <2>2, <2>4, <2>6, <2>7 DEF OneChain
  <2>8. CASE PollAsk(c)
    <3>1. PICK seen \in JobStatuses \ {"stopping"} :
             poll' = [poll EXCEPT ![c] = [@ EXCEPT !.pc = "asked", !.seen = seen]]
      BY <2>8, TranslateStatusType DEF PollAsk, ResourceAnswer, JobStatuses
    <3>2. poll'[c] = [poll[c] EXCEPT !.pc = "asked", !.seen = seen]
      BY <3>1
    <3>3. poll'[c].pc = "asked" /\ poll'[c].seen # "stopping"
      BY <3>2
    <3> QED BY <2>5, <2>7, <2>8, <3>3 DEF PollAsk
  <2>9. CASE PollRefresh(c)
    BY <2>5, <2>7, <2>9 DEF PollRefresh
  <2>10. CASE PollSave(c)
    <3> DEFINE row == Updated(poll[c].row, poll[c].seen)
    <3>0. /\ poll[c].row = job[j] /\ job[j].status # "stopping"
          /\ poll[c].seen \in JobStatuses \ {"stopping"}
      BY <2>5, <2>10 DEF PollSave
    <3>1. row.status # "stopping" /\ row.known = job[j].known
      BY <3>0 DEF Updated, Rows
    <3>2. poll'[c].pc = "hook"
      BY <2>10 DEF PollSave, NoPoll
    <3>3. (job'[j] = job[j] \/ job'[j] = row) /\ tally' = tally
      BY <2>10 DEF PollSave
    <3>4. tally[c].pc = "none" /\ poll[c].pc # "none"
      BY <2>5, <2>10 DEF PollSave
    <3> HIDE DEF row
    <3> QED BY <2>5, <2>7, <3>1, <3>2, <3>3, <3>4
  <2>11. CASE PollFails(c)
    BY <2>5, <2>7, <2>11 DEF PollFails, NoPoll
  <2>12. CASE HookRead(c)
    <3>1. job[j].status \notin TerminalStatuses <=> Requeues(job[j].status)
      BY <2>5 DEF Requeues, Rows, JobStatuses, TerminalStatuses
    <3>2. poll'[c].pc = IF Requeues(job[j].status) THEN "queued" ELSE "settle"
      BY <2>12 DEF HookRead, Queued, NoPoll
    <3> QED BY <2>5, <2>7, <2>12, <3>1, <3>2 DEF HookRead
  <2>13. CASE HookCheck(c)
    BY <2>5, <2>7, <2>13 DEF HookCheck, NoPoll
  <2>14. CASE HookRelease(c)
    BY <2>5, <2>7, <2>14 DEF HookRelease, NoPoll
  <2>15. CASE TallyRead(c)
    BY <2>5, <2>7, <2>15 DEF TallyRead
  <2>16. CASE TallySave(c)
    <3>1. job'[j] = [job[j] EXCEPT !.hours = TRUE] /\ job[j] \in Rows
      BY <2>5, <2>16 DEF TallySave
    <3>2. job'[j].status = job[j].status /\ job'[j].known = job[j].known
      BY <3>1 DEF Rows
    <3> QED BY <2>5, <2>7, <2>16, <3>2 DEF TallySave, NoTally
  <2>17. CASE TallyFails(c)
    BY <2>5, <2>7, <2>17 DEF TallyFails, NoTally
  <2> QED BY <2>8, <2>9, <2>10, <2>11, <2>12, <2>13, <2>14, <2>15, <2>16, <2>17
          DEF PollStep, TallyStep
<1> QED BY <1>1, <1>2

\* Without stops and crashes each job has the one chain of its start request:
\* nobody else holds a copy of its row, and the core-hours task holds it as it
\* is.
THEOREM OneChainInvHolds == Spec => []OneChainInv
<1>1. Init => OneChainInv
  <2>1. ASSUME Init, NEW j \in Jobs PROVE OneChain(j)
    BY <2>1, ChainFacts
       DEF StartChain, Init, OneChain, NoPoll, NoTally, FreshRow, TerminalStatuses
  <2> QED BY <2>1 DEF OneChainInv, Init, Up
<1>2. TypeOK /\ OneChainInv /\ [Next]_vars => OneChainInv'
  <2> SUFFICES ASSUME TypeOK, OneChainInv, [Next]_vars, crashes' = 0, Clients = {}
               PROVE  (\A k \in Clusters : Up(k)') /\ \A j \in Jobs : OneChain(j)'
    BY DEF OneChainInv
  <2>1. crashes = 0 /\ \A k \in Clusters : ~Crash(k)
    <3>1. crashes \in Nat
      BY JobLifecycleAssumption DEF TypeOK
    <3>2. UNCHANGED vars => crashes = 0
      BY DEF vars
    <3>3. Next => crashes' = crashes \/ crashes' = crashes + 1
      BY DEF Next, StartCreate, StartRequest, StartLaunch, StartLaunchFails, StartSave,
             StartEnqueue, StartActivate, StartDies, ResourceMove, ServerReady, PollStep, PollAsk,
             PollRefresh, PollSave, HookRead, HookCheck, HookRelease, PollFails, TallyStep,
             TallyRead, TallySave, TallyFails, StopRead, StopStep, StopSave, StopCall, StopUndo,
             StopCallFails, Crash, Boot, BootPurge, BootScan
    <3>4. (\E k \in Clusters : Crash(k)) => crashes' = crashes + 1
      BY DEF Crash
    <3> QED BY <3>1, <3>2, <3>3, <3>4
  <2>2. (\A k \in Clusters : Up(k)) /\ \A j \in Jobs : OneChain(j)
    BY <2>1 DEF OneChainInv
  <2>3. \A k \in Clusters : ~Boot(k)
    BY <2>2 DEF Boot, BootPurge, BootScan, Up
  <2>4. Stops = {}
    BY DEF Stops
  <2>5. CASE UNCHANGED vars
    BY <2>2, <2>5, OneChainStable DEF vars, Up
  <2>6. ASSUME NEW i \in Jobs,
               StartCreate(i) \/ StartRequest(i) \/ StartDies(i) \/ ResourceMove(i) \/ ServerReady(i)
        PROVE  (\A k \in Clusters : Up(k)') /\ \A j \in Jobs : OneChain(j)'
    <3>1. cluster' = cluster
      BY <2>6 DEF StartCreate, StartRequest, StartLaunch, StartLaunchFails, StartSave,
                  StartEnqueue, StartActivate, StartDies, ResourceMove, ServerReady
    <3> QED BY <2>2, <2>6, <3>1, StartOneChain DEF Up
  <2>7. ASSUME NEW c \in Chains, PollStep(c) \/ PollFails(c) \/ TallyStep(c) \/ TallyFails(c)
        PROVE  (\A k \in Clusters : Up(k)') /\ \A j \in Jobs : OneChain(j)'
    <3>1. cluster' = cluster
      BY <2>7 DEF PollStep, PollAsk, PollRefresh, PollSave, HookRead, HookCheck, HookRelease,
                  PollFails, TallyStep, TallyRead, TallySave, TallyFails
    <3> QED BY <2>2, <2>7, <3>1, PollOneChain DEF Up
  <2> QED BY <2>1, <2>3, <2>4, <2>5, <2>6, <2>7 DEF Next
<1> QED BY <1>1, <1>2, TypeCorrect, PTL DEF Spec

-----------------------------------------------------------------------------
(* Terminal rows.                                                          *)

\* Without stops and crashes no step of any actor touches the status of a row
\* that is complete or failed, whatever requests die and polls fail
\* (update_job_status, update_job_core_hours).
THEOREM TerminalRowsAreFinal == Spec => TerminalIsFinal
<1> DEFINE Final == \A j \in Jobs :
               job[j].status \in TerminalStatuses /\ crashes = 0 /\ Clients = {}
               => job'[j].status = job[j].status
<1>1. TypeOK /\ OneChainInv /\ [Next]_vars => [Final]_vars
  <2> SUFFICES ASSUME TypeOK, OneChainInv, Next, NEW j \in Jobs,
                      job[j].status \in TerminalStatuses, crashes = 0, Clients = {}
               PROVE  job'[j].status = job[j].status
    BY DEF vars
  <2> USE DEF TypeOK
  <2>1. OneChain(j) /\ Stops = {}
    BY DEF OneChainInv, Stops
  <2>2. ASSUME NEW i \in Jobs,
               StartCreate(i) \/ StartRequest(i) \/ StartDies(i) \/ ResourceMove(i) \/ ServerReady(i)
        PROVE  job'[j].status = job[j].status
    <3>1. start[j] \notin {"idle", "launched"}
      BY <2>1 DEF OneChain, FreshRow, TerminalStatuses
    <3> QED BY <2>2, <3>1
            DEF StartCreate, StartRequest, StartLaunch, StartLaunchFails, StartSave,
                StartEnqueue, StartActivate, StartDies, ResourceMove, ServerReady
  <2>3. ASSUME NEW c \in Chains, PollStep(c) \/ PollFails(c) \/ TallyStep(c) \/ TallyFails(c)
        PROVE  job'[j].status = job[j].status
    <3>1. CASE PollSave(c)
      <4>1. c # <<j, "start">>
        BY <2>1, <3>1 DEF PollSave, OneChain
      <4>2. c[1] # j
        BY <2>1, <3>1, <4>1, ChainFacts DEF PollSave, OneChain, StartChain
      <4> QED BY <3>1, <4>2 DEF PollSave
    <3>2. CASE TallySave(c) /\ c[1] = j
      <4>1. c = <<j, "start">>
        BY <2>1, <3>2, ChainFacts DEF TallySave, OneChain, StartChain
      <4>2. job'[j] = [job[j] EXCEPT !.hours = TRUE] /\ job[j] \in Rows
        BY <2>1, <3>2, <4>1 DEF TallySave, OneChain
      <4> QED BY <4>2 DEF Rows
    <3>3. CASE TallySave(c) /\ c[1] # j
      BY <3>3 DEF TallySave
    <3> QED BY <2>3, <3>1, <3>2, <3>3
            DEF PollStep, PollAsk, PollRefresh, HookRead, HookCheck, HookRelease, PollFails,
                TallyStep, TallyRead, TallyFails
  <2>4. ASSUME NEW k \in Clusters, Crash(k) \/ Boot(k)
        PROVE  job'[j].status = job[j].status
    BY <2>4 DEF Crash, Boot, BootPurge, BootScan
  <2> QED BY <2>1, <2>2, <2>3, <2>4 DEF Next
<1> HIDE DEF Final
<1>2. Spec => [][Final]_vars
  BY <1>1, TypeCorrect, OneChainInvHolds, PTL DEF Spec
<1> QED BY <1>2 DEF TerminalIsFinal, Final

-----------------------------------------------------------------------------
(* JobLifecycle implements JobMirror, step by step.                        *)

\* The three values of one job that a client of the abstract specification sees.
RealOf(j) == IF res[j] = "NONE" THEN "none" ELSE TranslateStatus(res[j])
ShownOf(j) == IF Exists(j) THEN job[j].status ELSE "none"
SampleOf(j) == IF poll[<<j, "start">>].pc \in {"asked", "refreshed"}
               THEN poll[<<j, "start">>].seen ELSE ShownOf(j)

LEMMA MappedValues ==
    ASSUME NEW j \in Jobs
    PROVE  /\ MappedReal[j] = RealOf(j)
           /\ MappedShown[j] = ShownOf(j)
           /\ MappedSample[j] = SampleOf(j)
BY DEF MappedReal, MappedShown, MappedSample, RealOf, ShownOf, SampleOf

\* A mapped variable changes at one job when its value changes there only.
LEMMA MappedChanges ==
    ASSUME NEW j \in Jobs
    PROVE  /\ (\A i \in Jobs : i # j => RealOf(i)' = RealOf(i))
              => MappedReal' = [MappedReal EXCEPT ![j] = RealOf(j)']
           /\ (\A i \in Jobs : i # j => ShownOf(i)' = ShownOf(i))
              => MappedShown' = [MappedShown EXCEPT ![j] = ShownOf(j)']
           /\ (\A i \in Jobs : i # j => SampleOf(i)' = SampleOf(i))
              => MappedSample' = [MappedSample EXCEPT ![j] = SampleOf(j)']
BY DEF MappedReal, MappedShown, MappedSample, RealOf, ShownOf, SampleOf

LEMMA MappedStays ==
    /\ (\A i \in Jobs : RealOf(i)' = RealOf(i)) => MappedReal' = MappedReal
    /\ (\A i \in Jobs : ShownOf(i)' = ShownOf(i)) => MappedShown' = MappedShown
    /\ (\A i \in Jobs : SampleOf(i)' = SampleOf(i)) => MappedSample' = MappedSample
BY DEF MappedReal, MappedShown, MappedSample, RealOf, ShownOf, SampleOf

\* The scheduler's own moves are advances in terms of Job.Status, or nothing.
LEMMA MovesAdvance ==
    ASSUME NEW s \in ResourceStates, NEW t \in ResourceMoves(s)
    PROVE  \/ TranslateStatus(t) = TranslateStatus(s)
           \/ TranslateStatus(t) \in Mirror!Advances(TranslateStatus(s))
BY DEF ResourceMoves, ResourceStates, LiveStates, EndedStates, TranslateStatus, Mirror!Advances

LEMMA StartMirrors ==
    ASSUME WebJobs = {}, MaxFaults = 0,
           TypeOK, \A i \in Jobs : OneChain(i), NEW j \in Jobs,
           StartCreate(j) \/ StartRequest(j) \/ StartDies(j) \/ ResourceMove(j) \/ ServerReady(j)
    PROVE  [Mirror!MirrorNext]_(Mirror!mirrorVars)
<1> USE MappedValues DEF TypeOK
<1> OneChain(j)
  OBVIOUS
<1>0. ~Fault
  BY DEF Fault
<1>1. CASE StartCreate(j)
  <2>1. /\ ShownOf(j) = "none" /\ ShownOf(j)' = "pending" /\ SampleOf(j)' = "pending"
        /\ \A i \in Jobs : RealOf(i)' = RealOf(i)
        /\ \A i \in Jobs : i # j => ShownOf(i)' = ShownOf(i) /\ SampleOf(i)' = SampleOf(i)
    BY <1>1 DEF StartCreate, OneChain, FreshRow, ShownOf, SampleOf, RealOf, Exists
  <2>2. Mirror!Create(j)
    BY <2>1, MappedChanges, MappedStays DEF Mirror!Create
  <2> QED BY <2>2 DEF Mirror!MirrorNext
<1>2. CASE StartLaunch(j)
  <2>1. /\ RealOf(j) = "none" /\ RealOf(j)' = "pending" /\ ShownOf(j) # "none"
    BY <1>2 DEF StartLaunch, LaunchOnResource, OneChain, RealOf, ShownOf, Exists, TranslateStatus,
                Rows, JobStatuses
  <2>2. /\ \A i \in Jobs : ShownOf(i)' = ShownOf(i) /\ SampleOf(i)' = SampleOf(i)
        /\ \A i \in Jobs : i # j => RealOf(i)' = RealOf(i)
    BY <1>2 DEF StartLaunch, LaunchOnResource, RealOf, ShownOf, SampleOf, Exists
  <2>3. Mirror!Advance(j)
    BY <2>1, <2>2, MappedChanges, MappedStays DEF Mirror!Advance, Mirror!Advances
  <2> QED BY <2>3 DEF Mirror!MirrorNext
\* What is left of these steps is not seen.
<1>3. CASE StartLaunchFails(j) \/ StartSave(j) \/ StartEnqueue(j) \/ StartActivate(j)
  <2>1. res' = res /\ \A i \in Jobs : Exists(i)' = Exists(i) /\ job'[i].status = job[i].status
    <3>1. CASE StartSave(j)
      <4>1. job[j].status = "pending" /\ job'[j].status = "pending"
        BY <3>1 DEF StartSave, OneChain, FreshRow
      <4> QED BY <3>1, <4>1 DEF StartSave, Exists
    <3>2. CASE StartLaunchFails(j) \/ StartEnqueue(j) \/ StartActivate(j)
      BY <1>0, <3>2 DEF StartLaunchFails, StartEnqueue, StartActivate, Exists
    <3> QED BY <1>3, <3>1, <3>2
  <2>2. ASSUME NEW i \in Jobs
        PROVE  \/ poll'[<<i, "start">>] = poll[<<i, "start">>]
               \/ /\ poll'[<<i, "start">>].pc = "queued"
                  /\ poll[<<i, "start">>].pc = "none"
    <3>1. CASE StartEnqueue(j) /\ i = j
      BY <3>1, ChainFacts DEF StartChain, StartEnqueue, OneChain, Queued, NoPoll
    <3>2. CASE StartEnqueue(j) /\ i # j
      BY <3>2, ChainFacts DEF StartChain, StartEnqueue
    <3>3. CASE StartLaunchFails(j) \/ StartSave(j) \/ StartActivate(j)
      BY <3>3 DEF StartLaunchFails, StartSave, StartActivate
    <3> QED BY <1>3, <3>1, <3>2, <3>3
  <2>3. \A i \in Jobs : /\ RealOf(i)' = RealOf(i)
                        /\ ShownOf(i)' = ShownOf(i)
                        /\ SampleOf(i)' = SampleOf(i)
    BY <2>1, <2>2 DEF RealOf, ShownOf, SampleOf
  <2> QED BY <2>3, MappedStays DEF Mirror!mirrorVars
<1>4. CASE ResourceMove(j)
  <2>1. PICK s \in ResourceMoves(res[j]) : res' = [res EXCEPT ![j] = s]
    BY <1>4 DEF ResourceMove
  <2>2. res[j] \in LiveStates /\ s \in ResourceStates \ {"NONE"}
    BY OnlyLiveMoves, ResourceMovesType DEF ResourceMoves, LiveStates
  <2>3. /\ RealOf(j) = TranslateStatus(res[j]) /\ RealOf(j)' = TranslateStatus(s)
        /\ \A i \in Jobs : i # j => RealOf(i)' = RealOf(i)
    BY <2>1, <2>2 DEF RealOf, LiveStates
  <2>4. \A i \in Jobs : ShownOf(i)' = ShownOf(i) /\ SampleOf(i)' = SampleOf(i)
    BY <1>4 DEF ResourceMove, ShownOf, SampleOf, Exists
  <2>5. ShownOf(j) # "none"
    BY <2>2 DEF OneChain, ShownOf, Exists, LiveStates, Rows, JobStatuses
  <2>6. CASE TranslateStatus(s) = TranslateStatus(res[j])
    <3>1. \A i \in Jobs : RealOf(i)' = RealOf(i)
      BY <2>3, <2>6
    <3> QED BY <2>4, <3>1, MappedStays DEF Mirror!mirrorVars
  <2>7. CASE TranslateStatus(s) \in Mirror!Advances(TranslateStatus(res[j]))
    <3>1. /\ MappedReal' = [MappedReal EXCEPT ![j] = TranslateStatus(s)]
          /\ MappedReal[j] = TranslateStatus(res[j]) /\ MappedShown[j] # "none"
          /\ MappedShown' = MappedShown /\ MappedSample' = MappedSample
      BY <2>3, <2>4, <2>5, MappedChanges, MappedStays
    <3>2. Mirror!Advance(j)
      BY <2>7, <3>1 DEF Mirror!Advance
    <3> QED BY <3>2 DEF Mirror!MirrorNext
  <2> QED BY <2>6, <2>7, MovesAdvance
<1> QED BY <1>0, <1>1, <1>2, <1>3, <1>4 DEF StartRequest, StartDies, ServerReady

LEMMA PollMirrors ==
    ASSUME WebJobs = {}, MaxFaults = 0,
           TypeOK, \A i \in Jobs : OneChain(i), NEW c \in Chains,
           PollStep(c) \/ PollFails(c) \/ TallyStep(c) \/ TallyFails(c)
    PROVE  [Mirror!MirrorNext]_(Mirror!mirrorVars)
<1> USE MappedValues DEF TypeOK, history
<1>0. ~Fault
  BY DEF Fault
<1> DEFINE j == c[1]
<1>1. j \in Jobs /\ OneChain(j)
  BY DEF Chains
<1>2. poll[c].pc # "none" \/ tally[c].pc # "none"
  BY DEF PollStep, PollAsk, PollRefresh, PollSave, HookRead, HookCheck, HookRelease, PollFails,
         TallyStep, TallyRead, TallySave, TallyFails
<1>3. c = <<j, "start">>
  BY <1>1, <1>2, ChainFacts DEF OneChain, StartChain
<1>4. \A i \in Jobs : i # j => <<i, "start">> \in Chains /\ <<i, "start">> # c
  BY <1>3, ChainFacts DEF StartChain
<1>5. /\ \A i \in Jobs : RealOf(i)' = RealOf(i) /\ Exists(i)' = Exists(i)
      /\ \A i \in Jobs : i # j => ShownOf(i)' = ShownOf(i) /\ SampleOf(i)' = SampleOf(i)
  <2>1. start' = start /\ res' = res /\ \A d \in Chains : d # c => poll'[d] = poll[d]
    BY DEF PollStep, PollAsk, PollRefresh, PollSave, HookRead, HookCheck, HookRelease, PollFails,
           TallyStep, TallyRead, TallySave, TallyFails
  <2>2. \A i \in Jobs : i # j => job'[i] = job[i]
    BY DEF PollStep, PollAsk, PollRefresh, PollSave, HookRead, HookCheck, HookRelease, PollFails,
           TallyStep, TallyRead, TallySave, TallyFails
  <2> QED BY <1>4, <2>1, <2>2 DEF RealOf, ShownOf, SampleOf, Exists
<1>6. Exists(j) /\ (poll[c].pc # "none" => RealOf(j) = TranslateStatus(res[j]) /\ RealOf(j) # "none")
  <2>1. Exists(j)
    BY <1>1, <1>2, <1>3 DEF OneChain, Exists
  <2>2. poll[c].pc # "none" => res[j] # "NONE"
    BY <1>1, <1>3 DEF OneChain
  <2>3. TranslateStatus(res[j]) # "none"
    BY <1>1, TranslateStatusType
  <2> QED BY <2>1, <2>2, <2>3 DEF RealOf
<1> HIDE DEF j
<1>7. CASE PollAsk(c)
  <2>1. ResourceAnswer(j) = TranslateStatus(res[j])
    BY <1>1, <1>3, <1>7 DEF PollAsk, OneChain, ResourceAnswer
  <2>2. poll' = [poll EXCEPT ![c] = [@ EXCEPT !.pc = "asked", !.seen = ResourceAnswer(j)]]
    BY <1>0, <1>7, Zenon DEF PollAsk, j
  <2>3. poll'[c] = [poll[c] EXCEPT !.pc = "asked", !.seen = ResourceAnswer(j)]
    BY <2>2
  <2>4. poll'[c].pc = "asked" /\ poll'[c].seen = RealOf(j)
    BY <1>6, <1>7, <2>1, <2>3 DEF PollAsk
  <2>5. SampleOf(j) = ShownOf(j) /\ SampleOf(j)' = RealOf(j) /\ ShownOf(j)' = ShownOf(j)
    BY <1>3, <1>5, <1>1, <1>7, <2>4 DEF PollAsk, SampleOf, ShownOf, Exists
  <2>6. Mirror!Sample(j)
    <3>1. \A i \in Jobs : ShownOf(i)' = ShownOf(i)
      BY <1>5, <2>5
    <3>2. RealOf(j) # "none"
      BY <1>6, <1>7 DEF PollAsk
    <3> QED BY <1>1, <1>5, <2>5, <3>1, <3>2, MappedChanges, MappedStays DEF Mirror!Sample
  <2> QED BY <1>1, <2>6 DEF Mirror!MirrorNext
<1>8. CASE PollSave(c)
  <2>1. /\ poll[c].row = job[j] /\ job[j].status # "stopping" /\ poll[c].pc = "refreshed"
        /\ job[j] \in Rows
    BY <1>1, <1>3, <1>8 DEF PollSave, OneChain
  <2>2. Updated(poll[c].row, poll[c].seen).status = poll[c].seen
    BY <2>1 DEF Updated, Rows
  <2>3. ~StatusCheckRaises(j, Updated(poll[c].row, poll[c].seen))
    BY DEF StatusCheckRaises
  <2>4. job'[j].status = poll[c].seen /\ poll'[c].pc = "hook"
    BY <1>1, <1>8, <2>2, <2>3 DEF PollSave, NoPoll, j
  <2>5. SampleOf(j) = poll[c].seen /\ ShownOf(j)' = poll[c].seen /\ SampleOf(j)' = poll[c].seen
    BY <1>1, <1>3, <1>5, <1>6, <2>1, <2>4 DEF SampleOf, ShownOf
  <2>6. Mirror!Show(j)
    <3>1. \A i \in Jobs : SampleOf(i)' = SampleOf(i)
      BY <1>5, <2>5
    <3> QED BY <1>1, <1>5, <2>5, <3>1, MappedChanges, MappedStays DEF Mirror!Show
  <2> QED BY <1>1, <2>6 DEF Mirror!MirrorNext
\* The other steps are not seen.
<1>9. ASSUME job'[j].status = job[j].status, SampleOf(j)' = SampleOf(j)
      PROVE  UNCHANGED Mirror!mirrorVars
  <2>1. \A i \in Jobs : ShownOf(i)' = ShownOf(i) /\ SampleOf(i)' = SampleOf(i)
    BY <1>5, <1>9 DEF ShownOf
  <2> QED BY <1>5, <2>1, MappedStays DEF Mirror!mirrorVars
<1>10. CASE PollRefresh(c) \/ HookRead(c) \/ HookCheck(c) \/ HookRelease(c)
  <2>1. job' = job
    BY <1>10 DEF PollRefresh, HookRead, HookCheck, HookRelease
  <2>2. \/ poll[c].pc = "asked" /\ poll'[c].pc = "refreshed" /\ poll'[c].seen = poll[c].seen
        \/ poll[c].pc \notin {"asked", "refreshed"} /\ poll'[c].pc \notin {"asked", "refreshed"}
    <3>1. CASE PollRefresh(c)
      BY <3>1 DEF PollRefresh
    <3>2. CASE HookRead(c) \/ HookCheck(c) \/ HookRelease(c)
      BY <3>2 DEF HookRead, HookCheck, HookRelease, Queued, NoPoll
    <3> QED BY <1>10, <3>1, <3>2
  <2>3. SampleOf(j)' = SampleOf(j)
    BY <1>1, <1>3, <1>5, <2>1, <2>2 DEF SampleOf, ShownOf
  <2> QED BY <1>9, <2>1, <2>3
<1>11. CASE TallyStep(c)
  <2>1. job'[j].status = job[j].status
    <3>1. CASE TallySave(c)
      <4>1. job'[j] = [job[j] EXCEPT !.hours = TRUE] /\ job[j] \in Rows
        BY <1>1, <1>3, <3>1 DEF TallySave, OneChain
      <4> QED BY <4>1 DEF Rows
    <3> QED BY <1>11, <3>1 DEF TallyStep, TallyRead
  <2>2. poll' = poll
    BY <1>11 DEF TallyStep, TallyRead, TallySave
  <2>3. SampleOf(j)' = SampleOf(j)
    BY <1>1, <1>5, <2>1, <2>2 DEF SampleOf, ShownOf
  <2> QED BY <1>9, <2>1, <2>3
<1> QED BY <1>0, <1>7, <1>8, <1>10, <1>11 DEF PollStep, PollFails, TallyFails

\* JobLifecycle implements the mirror, for any number of jobs, as long as
\* nobody stops a job, the API answers, no status check raises (WebJobs) and no
\* cluster crashes, when a poll may throw its sample away: each step of a
\* start request, of the scheduler, of update_job_status and its hook and of
\* the core-hours task is a step of JobMirror or is not seen there.
THEOREM JobsMirrorScheduler ==
    ASSUME Clients = {}, WebJobs = {}, MaxFaults = 0, MaxCrashes = 0
    PROVE  Spec => Mirror!MirrorSafety
<1>1. Init => Mirror!MirrorInit
  <2>1. ASSUME Init, NEW j \in Jobs
        PROVE  MappedReal[j] = "none" /\ MappedShown[j] = "none" /\ MappedSample[j] = "none"
    BY <2>1, ChainFacts
       DEF StartChain, Init, MappedReal, MappedShown, MappedSample, Exists, NoPoll
  <2> QED BY <2>1 DEF Mirror!MirrorInit, MappedReal, MappedShown, MappedSample
<1>2. TypeOK /\ OneChainInv /\ [Next]_vars => [Mirror!MirrorNext]_(Mirror!mirrorVars)
  <2> SUFFICES ASSUME TypeOK, OneChainInv, [Next]_vars
               PROVE  [Mirror!MirrorNext]_(Mirror!mirrorVars)
    OBVIOUS
  <2>1. crashes = 0 /\ Stops = {}
    BY DEF TypeOK, Stops
  <2>2. (\A k \in Clusters : Up(k)) /\ \A j \in Jobs : OneChain(j)
    BY <2>1 DEF OneChainInv
  <2>3. CASE UNCHANGED vars
    BY <2>3 DEF vars, Mirror!mirrorVars, MappedReal, MappedShown, MappedSample, Exists
  <2>4. \A k \in Clusters : ~Crash(k) /\ ~Boot(k)
    BY <2>1, <2>2 DEF Crash, Boot, BootPurge, BootScan, Up
  <2> QED BY <2>1, <2>2, <2>3, <2>4, StartMirrors, PollMirrors DEF Next
<1> QED BY <1>1, <1>2, TypeCorrect, OneChainInvHolds, PTL DEF Spec, Mirror!MirrorSafety
=============================================================================
