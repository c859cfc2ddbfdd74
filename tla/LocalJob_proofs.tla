---------------------------- MODULE LocalJob_proofs ----------------------------
(***************************************************************************)
(* Proofs about jobs of the local resource, for any processes: LocalInit   *)
(* and the steps of LocalNext establish and keep the inductive invariants  *)
(* LocalInv and StopInv.                                                   *)
(***************************************************************************)
EXTENDS LocalJob, TLAPS

-----------------------------------------------------------------------------
(* Jobs of the local resource.                                             *)

\* LocalEndIsTrue strengthened: what a poll holds, and what psutil shows, is
\* of a process that has ended if it says so.  A row without an id is neither
\* polled nor stopped, unless it is early.
LocalInv ==
  /\ row \in LocalStatuses /\ poll \in LocalStatuses \union {"idle"}
  /\ stop \in [pc : StopSteps, left : SUBSET Others]
  /\ starting \in {"none", "created", "started", "saved"}
  /\ (known = TRUE \/ known = FALSE) /\ (early = TRUE \/ early = FALSE)
  /\ poll # "none" /\ odd \in Nat
  /\ row = "none" => starting = "none"
  /\ starting = "none" => row = "none" /\ poll = "idle" /\ stop.pc = "idle"
  /\ ~early /\ starting # "saved" => poll = "idle" /\ row \in {"none", "pending"} /\ stop.pc = "idle"
  /\ starting # "saved" => ~known
  /\ ~known => stop.pc \in {"idle", "end"}
  /\ stop.pc = "end" => early
  /\ shown \in {"zombie", "dead", "gone"} => Main \notin alive
  /\ poll \in {"complete", "failed"} /\ odd = 0 /\ ~early => Main \notin alive
  /\ LocalEndIsTrue

LEMMA LocalInitInv == LocalInit => LocalInv
  BY DEF LocalInit, LocalInv, LocalStatuses, LocalEndIsTrue, StopSteps

\* The polls change what is said of the job.
LEMMA LocalPollInv == LocalInv /\ (LocalPoll \/ LocalPollEarly \/ LocalPollSave) => LocalInv'
  <1>. SUFFICES ASSUME LocalInv, LocalPoll \/ LocalPollEarly \/ LocalPollSave PROVE LocalInv'
    OBVIOUS
  <1>. USE DEF LocalInv, LocalStatuses, LocalEndIsTrue
  <1>1. CASE LocalPoll
    <2>1. poll' \in {"running", "complete", "failed"}
      BY <1>1 DEF LocalPoll, LocalTranslate
    <2>2. odd' \in Nat /\ (odd' = 0 => odd = 0 /\ shown \in KnownStates \union {"gone"})
      BY <1>1 DEF LocalPoll
    <2>3. poll' \in {"complete", "failed"} /\ odd' = 0 => shown \in {"zombie", "dead", "gone"}
      BY <1>1, <2>2 DEF LocalPoll, LocalTranslate, KnownStates
    <2>. QED
      BY <1>1, <2>1, <2>2, <2>3 DEF LocalPoll, processVars
  <1>2. CASE LocalPollSave
    BY <1>2 DEF LocalPollSave, processVars
  <1>3. CASE LocalPollEarly
    BY <1>3 DEF LocalPollEarly, processVars
  <1>. QED
    BY <1>1, <1>2, <1>3

\* A stop writes "failed" where there is no process, or where it was cut short.
LEMMA LocalStopInv ==
  ASSUME LocalAssumption, LocalInv,
         \/ LocalStop \/ LocalStopSave \/ StopList \/ StopMain
         \/ \E p \in Others : StopKill(p)
  PROVE  LocalInv'
  <1>. USE DEF LocalInv, LocalStatuses, LocalEndIsTrue
  <1>1. CASE LocalStop \/ LocalStopSave
    <2>1. CASE LocalStop
      BY <2>1 DEF LocalStop, processVars, StopSteps
    <2>2. CASE LocalStopSave
      BY <2>2 DEF LocalStopSave, processVars, StopSteps
    <2>. QED
      BY <1>1, <2>1, <2>2
  <1>2. CASE StopList
    <2>1. Descendants(Main) \in SUBSET Others
      BY DEF Descendants, Children
    <2>2. stop' \in [pc : StopSteps, left : SUBSET Others]
      BY <1>2, <2>1 DEF StopList, StopSteps
    <2>3. /\ stop'.pc \in {"kill", "done"} /\ stop.pc = "queued"
          /\ row' = row \/ (row' = "failed" /\ shown = "gone")
      BY <1>2 DEF StopList
    <2>. QED
      BY <1>2, <2>2, <2>3 DEF StopList, processVars
  <1>3. ASSUME NEW p \in Others, StopKill(p) PROVE LocalInv'
    <2>1. p # Main /\ alive' \subseteq alive /\ shown' = shown
      BY <1>3, LocalAssumption DEF StopKill, Ends, processVars
    <2>2. stop'.pc \in {"kill", "cut"} /\ (stop'.pc # "cut" => row' = row) /\ stop.pc = "kill"
      BY <1>3 DEF StopKill
    <2>. QED
      BY <1>3, <2>1, <2>2 DEF StopKill, StopSteps
  <1>4. CASE StopMain
    <2>1. Main \notin alive' /\ (shown' = shown \/ shown' = "zombie")
      BY <1>4 DEF StopMain, Ends, processVars
    <2>. QED
      BY <1>4, <2>1 DEF StopMain, StopSteps
  <1>. QED
    BY <1>1, <1>2, <1>3, <1>4

LEMMA ProcessInv ==
  ASSUME LocalAssumption, LocalInv,
         \/ LocalLaunch \/ LocalStart \/ LocalSave \/ Reaped
         \/ \E p \in Processes, q \in Others : Fork(p, q)
         \/ \E p \in Processes : Exit(p)
         \/ \E state \in {"sleeping", "running", "disk-sleep"} : Sleeps(state)
  PROVE  LocalInv'
  <1>. USE DEF LocalInv, LocalStatuses, LocalEndIsTrue
  <1>1. CASE LocalLaunch \/ LocalSave
    BY <1>1 DEF LocalLaunch, LocalSave, processVars
  <1>6. CASE LocalStart
    BY <1>6 DEF LocalStart
  <1>2. CASE Reaped
    BY <1>2 DEF Reaped
  <1>3. ASSUME NEW p \in Processes, NEW q \in Others, Fork(p, q) PROVE LocalInv'
    <2>1. Main \in alive' <=> Main \in alive
      BY <1>3, LocalAssumption DEF Fork
    <2>. QED
      BY <1>3, <2>1 DEF Fork
  <1>4. ASSUME NEW p \in Processes, Exit(p) PROVE LocalInv'
    <2>1. alive' \subseteq alive /\ (p = Main => Main \notin alive') /\ (p # Main => shown' = shown)
      BY <1>4 DEF Exit, Ends
    <2>. QED
      BY <1>4, <2>1 DEF Exit
  <1>5. ASSUME NEW state \in {"sleeping", "running", "disk-sleep"}, Sleeps(state) PROVE LocalInv'
    BY <1>5 DEF Sleeps
  <1>. QED
    BY <1>1, <1>2, <1>3, <1>4, <1>5, <1>6

LEMMA LocalInvSteps == LocalInv /\ [LocalNext]_localVars => LocalInv'
  <1>1. LocalInv /\ UNCHANGED localVars => LocalInv'
    BY DEF localVars, processVars, LocalInv, LocalEndIsTrue
  <1>2. LocalInv /\ LocalNext => LocalInv'
    BY LocalAssumption, LocalPollInv, LocalStopInv, ProcessInv DEF LocalNext
  <1>. QED
    BY <1>1, <1>2

-----------------------------------------------------------------------------
(* What a stop leaves.                                                     *)

\* StopLeavesNothing strengthened.  The tree of processes: what runs was
\* started, and has a parent that runs unless it is an orphan.  Before the
\* list is made, what runs and is not spared descends from Main; while its
\* processes are killed, what runs is spared, or on the list, or Main.
Tree ==
  /\ alive \subseteq Processes /\ spared \subseteq Others
  /\ parent \in [Others -> Processes \union {"init", "none"}]
  /\ \A q \in Others : parent[q] \in alive \union {"init", "none"}
  /\ \A q \in Others \intersect alive : parent[q] # "none"
  /\ starting \in {"none", "created"} => alive = {}
StopInv ==
  /\ LocalInv /\ Tree
  /\ ~StopListed => (Others \intersect alive) \ spared \subseteq Descendants(Main)
  /\ stop.pc = "kill" => Others \intersect alive \subseteq spared \union stop.left
  /\ StopLeavesNothing

\* Every set with p in it, and with a process all that it has started, has the
\* descendants of p in it.
LEMMA DescendantsIn ==
  ASSUME NEW p, NEW S \in SUBSET Processes, p \in S, WithChildren(S)
  PROVE  Descendants(p) \subseteq S
  BY DEF Descendants

\* When Main has ended, nothing that runs descends from it.
LEMMA NoDescendants ==
  ASSUME LocalAssumption, Tree, Main \notin alive
  PROVE  Descendants(Main) = {}
  <1>1. {Main} \in SUBSET Processes /\ WithChildren({Main})
    BY LocalAssumption DEF Processes, WithChildren, Children, Tree
  <1>2. Descendants(Main) \subseteq {Main} /\ Descendants(Main) \subseteq Others
    BY <1>1, DescendantsIn DEF Descendants
  <1>. QED
    BY <1>2, LocalAssumption

\* What p and the descendants of p have started descends from p.
LEMMA DescendantsClosed ==
  ASSUME NEW p \in Processes
  PROVE  Children({p} \union Descendants(p)) \subseteq {p} \union Descendants(p)
  <1>. SUFFICES ASSUME NEW r \in Others \intersect alive, parent[r] \in {p} \union Descendants(p), r # p
                PROVE  r \in Descendants(p)
    BY DEF Children
  <1>1. ASSUME NEW S \in SUBSET Processes, p \in S, WithChildren(S) PROVE r \in S
    <2>1. parent[r] \in S
      BY <1>1, DescendantsIn
    <2>. QED
      BY <1>1, <2>1 DEF WithChildren, Children
  <1>. QED
    BY <1>1 DEF Descendants

\* A process that one of Main's starts descends from Main, like the others.
LEMMA ForkDescends ==
  ASSUME LocalAssumption, Tree, NEW p \in Processes, NEW q \in Others, Fork(p, q),
         p \in {Main} \union Descendants(Main)
  PROVE  Descendants(Main) \union {q} \subseteq Descendants(Main)'
  <1>. USE DEF Tree, Processes
  <1>1. /\ q \notin alive /\ alive' = alive \union {q}
        /\ parent'[q] = p /\ \A r \in Others : r # q => parent'[r] = parent[r]
    BY DEF Fork
  <1>2. ASSUME NEW S \in SUBSET Processes, Main \in S, WithChildren(S)'
        PROVE  Descendants(Main) \union {q} \subseteq S
    <2>1. WithChildren(S)
      BY <1>1, <1>2 DEF WithChildren, Children
    <2>2. Descendants(Main) \subseteq S
      BY <1>2, <2>1, DescendantsIn
    <2>3. q \in S
      BY <1>1, <1>2, <2>2 DEF WithChildren, Children
    <2>. QED
      BY <2>2, <2>3
  <1>3. Descendants(Main) \union {q} \subseteq (Others \intersect alive') \ {Main}
    BY <1>1, LocalAssumption DEF Descendants
  <1>. QED
    BY <1>2, <1>3 DEF Descendants

\* When p ends, what descended from Main but not from p still does.
LEMMA EndDescends ==
  ASSUME LocalAssumption, Tree, NEW p \in Processes, Ends(p)
  PROVE  Descendants(Main) \ ({p} \union Descendants(p)) \subseteq Descendants(Main)'
  <1>. USE DEF Tree, Processes
  <1>0. /\ alive' = alive \ {p}
        /\ \A r \in Others : r # p /\ parent[r] # p => parent'[r] = parent[r]
    BY DEF Ends
  <1>1. ASSUME NEW S \in SUBSET Processes, Main \in S, WithChildren(S)'
        PROVE  Descendants(Main) \subseteq S \union {p} \union Descendants(p)
    <2>. DEFINE T == S \union {p} \union Descendants(p)
    <2>1. T \in SUBSET Processes /\ Main \in T
      BY <1>1 DEF Descendants
    <2>2. ASSUME NEW r \in Others \intersect alive, parent[r] \in T PROVE r \in T
      <3>1. CASE parent[r] \in {p} \union Descendants(p)
        BY <3>1, DescendantsClosed DEF Children
      <3>2. CASE parent[r] \notin {p} \union Descendants(p) /\ r # p
        <4>1. r \in alive' /\ parent'[r] = parent[r] /\ parent[r] \in S
          BY <1>0, <2>2, <3>2
        <4>. QED
          BY <1>1, <4>1 DEF WithChildren, Children
      <3>. QED
        BY <3>1, <3>2
    <2>3. WithChildren(T)
      BY <2>2 DEF WithChildren, Children
    <2>. QED
      BY <2>1, <2>3, DescendantsIn
  <1>2. Descendants(Main) \ {p} \subseteq (Others \intersect alive') \ {Main}
    BY <1>0 DEF Descendants
  <1>. QED
    BY <1>1, <1>2 DEF Descendants

LEMMA StopInitInv == LocalAssumption /\ LocalInit => StopInv
  BY LocalInitInv
     DEF LocalInit, StopInv, Tree, StopLeavesNothing, StopListed, Descendants, Processes

\* The tree stays one.
LEMMA EndsTree ==
  ASSUME LocalAssumption, Tree, NEW p \in Processes, Ends(p)
  PROVE  /\ alive' = alive \ {p}
         /\ parent' \in [Others -> Processes \union {"init", "none"}]
         /\ \A q \in Others : parent'[q] \in alive' \union {"init", "none"}
         /\ \A q \in Others \intersect alive' : parent'[q] # "none"
  BY DEF Tree, Ends, Processes

\* Starts and ends of processes.
LEMMA ProcessStopInv ==
  ASSUME LocalAssumption, StopInv, LocalInv',
         \/ LocalStart
         \/ \E p \in Processes, q \in Others : Fork(p, q)
         \/ \E p \in Processes : Exit(p)
  PROVE  StopInv'
  <1>. USE DEF StopInv, StopLeavesNothing, StopListed
  <1>1. CASE LocalStart
    <2>1. /\ alive = {} /\ alive' = {Main} /\ starting' = "started"
          /\ stop' = stop /\ stop.pc \in {"idle", "end"}
      BY <1>1 DEF LocalStart, Tree, LocalInv
    <2>2. Others \intersect alive' = {}
      BY <2>1, LocalAssumption
    <2>3. Tree'
      BY <1>1, <2>1, <2>2 DEF LocalStart, Tree, Processes
    <2>. QED
      BY <2>1, <2>2, <2>3
  <1>2. ASSUME NEW p \in Processes, NEW q \in Others, Fork(p, q) PROVE StopInv'
    <2>1. /\ alive' = alive \union {q} /\ p \in alive /\ starting' = starting /\ stop' = stop
          /\ spared' = IF StopListed \/ p \in spared THEN spared \union {q} ELSE spared
      BY <1>2 DEF Fork
    <2>2. Tree'
      BY <1>2, <2>1 DEF Fork, Tree, Processes
    <2>3. CASE StopListed
      BY <2>1, <2>2, <2>3
    <2>4. CASE ~StopListed
      <3>1. \A r \in Others \intersect alive : r \in spared \/ r \in Descendants(Main)
        BY <2>4
      <3>2. CASE p \in spared
        <4>1. Children({p}) \subseteq Others
          BY DEF Children
        <4>2. Descendants(Main) \subseteq Descendants(Main)'
          <5>1. \A S \in SUBSET Processes : WithChildren(S)' => WithChildren(S)
            BY <1>2 DEF Fork, WithChildren, Children, Tree
          <5>. QED
            BY <2>1, <5>1 DEF Descendants
        <4>. QED
          BY <2>1, <2>2, <2>4, <3>1, <3>2, <4>2
      <3>3. CASE p \notin spared
        <4>1. p \in {Main} \union Descendants(Main)
          BY <2>1, <3>1, <3>3 DEF Processes
        <4>2. Descendants(Main) \union {q} \subseteq Descendants(Main)'
          BY <1>2, <4>1, ForkDescends
        <4>. QED
          BY <2>1, <2>2, <2>4, <3>1, <3>3, <4>2
      <3>. QED
        BY <3>2, <3>3
    <2>. QED
      BY <2>3, <2>4
  <1>3. ASSUME NEW p \in Processes, Exit(p) PROVE StopInv'
    <2>1. /\ Ends(p) /\ starting' = starting /\ stop' = stop /\ p \in alive
          /\ spared' = IF StopListed THEN spared ELSE spared \union Descendants(p)
      BY <1>3 DEF Exit
    <2>2. Descendants(p) \subseteq Others
      BY DEF Descendants
    <2>3. Tree' /\ alive' = alive \ {p}
      BY <2>1, <2>2, EndsTree DEF Tree
    <2>4. CASE StopListed
      BY <2>1, <2>3, <2>4
    <2>5. CASE ~StopListed
      <3>1. Descendants(Main) \ ({p} \union Descendants(p)) \subseteq Descendants(Main)'
        BY <2>1, EndDescends
      <3>. QED
        BY <2>1, <2>3, <2>5, <3>1
    <2>. QED
      BY <2>4, <2>5
  <1>. QED
    BY <1>1, <1>2, <1>3

\* The list, the signals, and the steps that leave the processes alone.
LEMMA SignalStopInv ==
  ASSUME LocalAssumption, StopInv, LocalInv',
         \/ LocalStop \/ LocalStopSave \/ StopList \/ StopMain
         \/ \E p \in Others : StopKill(p)
         \/ LocalLaunch \/ LocalSave \/ Reaped \/ LocalPoll \/ LocalPollEarly \/ LocalPollSave
         \/ \E state \in {"sleeping", "running", "disk-sleep"} : Sleeps(state)
  PROVE  StopInv'
  <1>. USE DEF StopInv, StopLeavesNothing, StopListed
  \* What descends from Main depends on the processes only.
  <1>0. ASSUME alive' = alive, parent' = parent, spared' = spared,
               starting' \in {"none", "created"} => starting \in {"none", "created"}
        PROVE  Tree' /\ Descendants(Main)' = Descendants(Main)
    BY <1>0 DEF Tree, Descendants, WithChildren, Children
  <1>1. CASE \/ LocalStop \/ LocalStopSave \/ LocalLaunch \/ LocalSave
             \/ Reaped \/ LocalPoll \/ LocalPollEarly \/ LocalPollSave
             \/ \E state \in {"sleeping", "running", "disk-sleep"} : Sleeps(state)
    <2>1. /\ alive' = alive /\ parent' = parent /\ spared' = spared
          /\ stop' = stop \/ (~StopListed /\ stop'.pc \in {"idle", "end", "read", "queued"})
      BY <1>1 DEF LocalStop, LocalStopSave, LocalLaunch, LocalSave, Reaped, LocalPoll,
                  LocalPollEarly, LocalPollSave, Sleeps, LocalInv, processVars
    <2>2. starting' \in {"none", "created"} => starting \in {"none", "created"}
      BY <1>1 DEF LocalStop, LocalStopSave, LocalLaunch, LocalSave, Reaped, LocalPoll,
                  LocalPollEarly, LocalPollSave, Sleeps
    <2>3. Tree' /\ Descendants(Main)' = Descendants(Main)
      BY <1>0, <2>1, <2>2
    <2>. QED
      BY <2>1, <2>3
  <1>2. CASE StopList
    <2>1. /\ alive' = alive /\ parent' = parent /\ spared' = spared
          /\ starting' = starting
      BY <1>2 DEF StopList, processVars
    <2>2. Tree'
      BY <1>0, <2>1
    <2>3. CASE shown = "gone"
      <3>1. Main \notin alive /\ stop'.pc = "done"
        BY <1>2, <2>3 DEF StopList, LocalInv
      <3>2. alive \subseteq spared
        BY <1>2, <3>1, NoDescendants DEF StopList, Tree, Processes
      <3>. QED
        BY <2>1, <2>2, <3>1, <3>2
    <2>4. CASE shown # "gone"
      <3>1. ~StopListed /\ stop'.pc = "kill" /\ stop'.left = Descendants(Main)
        BY <1>2, <2>4 DEF StopList
      <3>. QED
        BY <2>1, <2>2, <3>1
    <2>. QED
      BY <2>3, <2>4
  <1>3. ASSUME NEW p \in Others, StopKill(p) PROVE StopInv'
    <2>1. /\ stop.pc = "kill" /\ spared' = spared /\ starting' = starting
          /\ Ends(p) \/ (p \notin alive /\ UNCHANGED <<alive, parent>>)
          /\ \/ stop'.pc = "kill" /\ stop'.left = stop.left \ {p}
             \/ stop'.pc = "cut"
      BY <1>3 DEF StopKill, LocalInv, processVars
    <2>2. Tree' /\ alive' = alive \ {p}
      BY <2>1, EndsTree DEF Tree, Processes
    <2>. QED
      BY <2>1, <2>2
  <1>4. CASE StopMain
    <2>1. /\ stop.pc = "kill" /\ stop.left = {} /\ stop'.pc = "done"
          /\ spared' = spared /\ starting' = starting
          /\ Ends(Main) \/ (Main \notin alive /\ UNCHANGED <<alive, parent>>)
      BY <1>4 DEF StopMain, LocalInv, processVars
    <2>2. Tree' /\ alive' = alive \ {Main}
      BY <2>1, EndsTree DEF Tree, Processes
    <2>3. alive' \subseteq spared
      BY <2>1, <2>2 DEF Tree, Processes
    <2>. QED
      BY <2>1, <2>2, <2>3
  <1>. QED
    BY <1>1, <1>2, <1>3, <1>4

LEMMA StopInvSteps == StopInv /\ [LocalNext]_localVars => StopInv'
  <1>. SUFFICES ASSUME StopInv, [LocalNext]_localVars PROVE StopInv'
    OBVIOUS
  <1>1. LocalInv'
    BY LocalInvSteps DEF StopInv
  <1>2. CASE UNCHANGED localVars
    BY <1>1, <1>2
       DEF localVars, processVars, StopInv, StopLeavesNothing, StopListed, Tree, Descendants, WithChildren, Children
  <1>3. CASE LocalNext
    BY <1>1, <1>3, LocalAssumption, ProcessStopInv, SignalStopInv DEF LocalNext
  <1>. QED
    BY <1>2, <1>3

-----------------------------------------------------------------------------
(* The type, of which LocalInv has a part.                                 *)

LEMMA LocalInitTyped == LocalAssumption /\ LocalInit => LocalTypeOK
  <1>. SUFFICES ASSUME LocalAssumption, LocalInit PROVE LocalTypeOK
    OBVIOUS
  <1>1. known \in BOOLEAN /\ early \in BOOLEAN
    BY DEF LocalInit
  <1>2. stop \in [pc : StopSteps, left : SUBSET Others]
    BY DEF LocalInit, StopSteps
  <1>3. odd \in 0 .. MaxOdd
    BY DEF LocalAssumption, LocalInit
  <1>. QED
    BY <1>1, <1>2, <1>3 DEF LocalInit, LocalTypeOK, LocalStates, LocalStatuses, Processes

TreeTyped ==
  /\ alive \subseteq Processes /\ shown \in LocalStates
  /\ parent \in [Others -> Processes \union {"init", "none"}]

LEMMA EndsTyped ==
  ASSUME LocalTypeOK, NEW p \in Processes, Ends(p)
  PROVE  TreeTyped'
  BY DEF LocalTypeOK, Ends, LocalStates, TreeTyped

LEMMA LocalTypedSteps ==
  LocalAssumption /\ LocalTypeOK /\ LocalInv /\ [LocalNext]_localVars => LocalTypeOK'
  <1>. SUFFICES ASSUME LocalAssumption, LocalTypeOK, LocalInv, [LocalNext]_localVars
                PROVE  LocalTypeOK'
    OBVIOUS
  <1>1. /\ row' \in LocalStatuses /\ poll' \in LocalStatuses \union {"idle"}
        /\ stop' \in [pc : StopSteps, left : SUBSET Others]
        /\ starting' \in {"none", "created", "started", "saved"}
        /\ known' \in BOOLEAN /\ early' \in BOOLEAN
    BY LocalInvSteps DEF LocalInv
  <1>2. TreeTyped'
    <2>1. ASSUME NEW p \in Processes, Ends(p) \/ UNCHANGED <<alive, parent, shown>>
          PROVE  TreeTyped'
      BY <2>1, EndsTyped DEF LocalTypeOK, TreeTyped
    <2>2. ASSUME NEW p \in Processes, NEW q \in Others, Fork(p, q) PROVE TreeTyped'
      BY <2>2 DEF Fork, TreeTyped, LocalTypeOK, Processes
    <2>3. CASE LocalStart \/ Reaped \/ \E state \in {"sleeping", "running", "disk-sleep"} : Sleeps(state)
      BY <2>3 DEF LocalStart, Reaped, Sleeps, TreeTyped, LocalTypeOK, LocalStates, Processes
    <2>4. CASE \/ StopMain \/ \E p \in Processes : Exit(p)
               \/ \E p \in Others : StopKill(p)
      BY <2>1, <2>4 DEF StopMain, Exit, StopKill, processVars, Processes
    <2>5. CASE \/ LocalLaunch \/ LocalSave \/ LocalPoll \/ LocalPollEarly \/ LocalPollSave
               \/ LocalStop \/ LocalStopSave \/ StopList \/ UNCHANGED localVars
      BY <2>1, <2>5 DEF LocalLaunch, LocalSave, LocalPoll, LocalPollEarly, LocalPollSave,
                        LocalStop, LocalStopSave, StopList, localVars, processVars, Processes
    <2>. QED
      BY <2>2, <2>3, <2>4, <2>5 DEF LocalNext
  <1>3. spared' \subseteq Others
    BY DEF LocalTypeOK, LocalNext, localVars, LocalLaunch, LocalStart, LocalSave, Reaped,
       LocalPoll, LocalPollEarly, LocalPollSave, LocalStop, LocalStopSave,
       StopList, StopMain, StopKill, Fork, Exit, Sleeps, Descendants
  <1>4. odd' \in 0 .. MaxOdd
    BY DEF LocalAssumption, LocalTypeOK, LocalNext, localVars, LocalLaunch, LocalStart, LocalSave,
       Reaped, LocalPoll, LocalPollEarly, LocalPollSave, LocalStop, LocalStopSave, StopList, StopMain, StopKill, Fork, Exit, Sleeps
  <1>. QED
    BY <1>1, <1>2, <1>3, <1>4 DEF LocalTypeOK, TreeTyped
=============================================================================
