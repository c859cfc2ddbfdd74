------------------------------ MODULE LocalJob ------------------------------
(***************************************************************************)
(* A job on the machine of the server (LocalResource): the request that    *)
(* makes the row, starts the process and stores its id in the row, the     *)
(* processes that this one starts, what a poll makes of the state psutil   *)
(* shows, the request for a stop, and stop_job, which lists the            *)
(* descendants of the process and kills them and it, one after the other.  *)
(***************************************************************************)
EXTENDS Naturals

CONSTANTS
    Main,       \* the process that launch_job starts
    Others,     \* processes that come from it
    MaxOdd      \* bound on polls that meet a state translate_status lacks

Processes == Others \union {Main}

ASSUME LocalAssumption ==
    /\ Main \notin Others
    /\ {"init", "none"} \intersect Processes = {}
    /\ MaxOdd \in Nat

VARIABLES
    alive,      \* processes that run
    parent,     \* what started each: a process, "init" for an orphan, "none"
    shown,      \* the state psutil shows of Main
    starting,   \* how far the request that makes the job is
    row,        \* the status of the Job row
    known,      \* whether the row has a resource_job_id other than -1
    poll,       \* update_job_status: what get_resource_job returned, or "idle"
    stop,       \* stop_job: step, and the processes left to kill
    spared,     \* processes that stop_job could not find (history)
    early,      \* whether a row without an id was polled or stopped (history)
    odd         \* number of polls for MaxOdd

processVars == <<alive, parent, shown>>
localVars == <<processVars, starting, row, known, poll, stop, spared, early, odd>>

LocalStates == {"sleeping", "running", "disk-sleep", "zombie", "dead", "gone"}
LocalStatuses == {"none", "pending", "running", "stopping", "complete", "failed"}
StopSteps == {"idle", "end", "read", "queued", "kill", "cut", "done"}

LocalTypeOK ==
    /\ alive \subseteq Processes
    /\ parent \in [Others -> Processes \union {"init", "none"}]
    /\ shown \in LocalStates
    /\ row \in LocalStatuses
    /\ poll \in LocalStatuses \union {"idle"}
    /\ starting \in {"none", "created", "started", "saved"}
    /\ known \in BOOLEAN /\ early \in BOOLEAN
    /\ stop \in [pc : StopSteps, left : SUBSET Others]
    /\ spared \subseteq Others
    /\ odd \in 0 .. MaxOdd

LocalInit ==
    /\ alive = {} /\ parent = [p \in Others |-> "none"]
    /\ shown = "gone" /\ row = "none" /\ poll = "idle"
    /\ starting = "none" /\ known = FALSE /\ early = FALSE
    /\ stop = [pc |-> "idle", left |-> {}]
    /\ spared = {} /\ odd = 0

-----------------------------------------------------------------------------
(* The request that starts the job, and the processes.  A launch that      *)
(* raises stays "created".                                                 *)

LocalLaunch ==
    /\ starting = "none" /\ starting' = "created" /\ row' = "pending"
    /\ UNCHANGED <<processVars, known, poll, stop, spared, early, odd>>

LocalStart ==
    /\ starting = "created" /\ starting' = "started"
    /\ alive' = {Main} /\ shown' = "running"
    /\ UNCHANGED <<parent, row, known, poll, stop, spared, early, odd>>

\* The request saves the row that it made, with the status it had then.
LocalSave ==
    /\ starting = "started" /\ starting' = "saved"
    /\ row' = "pending" /\ known' = TRUE
    /\ UNCHANGED <<processVars, poll, stop, spared, early, odd>>

Children(S) == {q \in Others \intersect alive : parent[q] \in S}

\* children(recursive=True): what is in every set of processes that has p in
\* it, and with a process all that it has started.
WithChildren(S) == Children(S) \subseteq S
Descendants(p) ==
    {q \in (Others \intersect alive) \ {p} :
        \A S \in SUBSET Processes : p \in S /\ WithChildren(S) => q \in S}

StopListed == stop.pc \in {"kill", "cut", "done"}

\* A process that is started after stop_job made its list is not found, nor
\* is one that an orphan starts.
Fork(p, q) ==
    /\ p \in alive /\ q \in Others /\ parent[q] = "none"
    /\ alive' = alive \union {q} /\ parent' = [parent EXCEPT ![q] = p]
    /\ spared' = IF StopListed \/ p \in spared THEN spared \union {q} ELSE spared
    /\ UNCHANGED <<shown, starting, row, known, poll, stop, early, odd>>

\* What p has started are orphans from now on.
Ends(p) ==
    /\ alive' = alive \ {p}
    /\ parent' = [q \in Others |-> IF q = p \/ parent[q] = p THEN "init" ELSE parent[q]]
    /\ shown' = IF p = Main THEN "zombie" ELSE shown

\* Orphans that run on, and what they have started, do not descend from Main.
Exit(p) ==
    /\ p \in alive /\ Ends(p)
    /\ spared' = IF StopListed THEN spared ELSE spared \union Descendants(p)
    /\ UNCHANGED <<starting, row, known, poll, stop, early, odd>>

Sleeps(state) ==
    /\ Main \in alive /\ shown' = state
    /\ UNCHANGED <<alive, parent, starting, row, known, poll, stop, spared, early, odd>>

\* The web server waits for its child, in the end.
Reaped ==
    /\ shown \in {"zombie", "dead"}
    /\ shown' \in {"dead", "gone"}
    /\ UNCHANGED <<alive, parent, starting, row, known, poll, stop, spared, early, odd>>

-----------------------------------------------------------------------------
(* The polls.                                                              *)

KnownStates == {"sleeping", "running", "zombie", "dead"}

\* Slip: the state is saved as it is shown.
LocalTranslateRaw(state) == state

\* Slip: a process that sleeps is taken for one that is over.
LocalTranslateAwake(state) == IF state = "running" THEN "running" ELSE "complete"

\* translate_status raises for the other states, and get_resource_job answers
\* every exception, that of a process that is gone included, with "complete".
LocalTranslate(state) ==
    CASE state \in {"sleeping", "running"} -> "running"
      [] state = "zombie" -> "complete"
      [] state = "dead" -> "failed"
      [] OTHER -> "complete"

LocalPoll ==
    /\ poll = "idle" /\ row \in {"pending", "running", "stopping"} /\ known
    /\ poll' = LocalTranslate(shown)
    /\ IF shown \in KnownStates \union {"gone"} THEN UNCHANGED odd
       ELSE odd < MaxOdd /\ odd' = odd + 1
    /\ UNCHANGED <<processVars, starting, row, known, stop, spared, early>>

\* A cluster that boots polls all rows that are pending or running: psutil
\* raises for the id -1.
LocalPollEarly ==
    /\ poll = "idle" /\ row \in {"pending", "running"} /\ ~known
    /\ poll' = "complete" /\ early' = TRUE
    /\ UNCHANGED <<processVars, starting, row, known, stop, spared, odd>>

\* update_job_status reads the row again and saves it.
LocalPollSave ==
    /\ poll # "idle" /\ poll' = "idle"
    /\ row' = IF row = "stopping" /\ poll \notin {"complete", "failed"} THEN row ELSE poll
    /\ UNCHANGED <<processVars, starting, known, stop, spared, early, odd>>

-----------------------------------------------------------------------------
(* The stop.                                                               *)

\* The request looks at the row, and saves it as it was then.
LocalStop ==
    /\ row # "none" /\ stop.pc = "idle"
    /\ \/ ~known /\ stop' = [stop EXCEPT !.pc = "end"] /\ early' = TRUE
       \/ /\ known /\ row \in {"pending", "running"}
          /\ stop' = [stop EXCEPT !.pc = "read"] /\ UNCHANGED early
    /\ UNCHANGED <<processVars, starting, row, known, poll, spared, odd>>

\* Without an id the job is over, and nothing is queued.
LocalStopSave ==
    /\ \/ /\ stop.pc = "end" /\ stop' = [stop EXCEPT !.pc = "idle"]
          /\ row' = "complete" /\ known' = FALSE
       \/ /\ stop.pc = "read" /\ stop' = [stop EXCEPT !.pc = "queued"]
          /\ row' = "stopping" /\ known' = TRUE
    /\ UNCHANGED <<processVars, starting, poll, spared, early, odd>>

\* Slip: children(), which leaves out the children of children.
StopListChildren ==
    /\ stop.pc = "queued"
    /\ IF shown = "gone"
       THEN row' = "failed" /\ stop' = [stop EXCEPT !.pc = "done"]
       ELSE UNCHANGED row /\ stop' = [pc |-> "kill", left |-> Children({Main})]
    /\ UNCHANGED <<processVars, starting, known, poll, spared, early, odd>>

\* Without a process, stop_job returns False, and the row is saved as failed.
StopList ==
    /\ stop.pc = "queued"
    /\ IF shown = "gone"
       THEN row' = "failed" /\ stop' = [stop EXCEPT !.pc = "done"]
       ELSE UNCHANGED row /\ stop' = [pc |-> "kill", left |-> Descendants(Main)]
    /\ UNCHANGED <<processVars, starting, known, poll, spared, early, odd>>

\* One that has ended by now may still be a zombie.  If not, the signal
\* raises: the job is failed, and the others on the list and Main run on.
StopKill(p) ==
    /\ stop.pc = "kill" /\ p \in stop.left
    /\ IF p \in alive THEN Ends(p) ELSE UNCHANGED processVars
    /\ \/ stop' = [stop EXCEPT !.left = @ \ {p}] /\ UNCHANGED row
       \/ p \notin alive /\ stop' = [stop EXCEPT !.pc = "cut"] /\ row' = "failed"
    /\ UNCHANGED <<starting, known, poll, spared, early, odd>>

StopMain ==
    /\ stop.pc = "kill" /\ stop.left = {}
    /\ IF Main \in alive THEN Ends(Main) ELSE UNCHANGED processVars
    /\ row' = IF shown = "gone" THEN "failed" ELSE row
    /\ stop' = [stop EXCEPT !.pc = "done"]
    /\ UNCHANGED <<starting, known, poll, spared, early, odd>>

LocalNext ==
    \/ LocalLaunch \/ LocalStart \/ LocalSave \/ Reaped
    \/ LocalPoll \/ LocalPollEarly \/ LocalPollSave
    \/ LocalStop \/ LocalStopSave \/ StopList \/ StopMain
    \/ \E p \in Processes, q \in Others : Fork(p, q)
    \/ \E p \in Processes : Exit(p)
    \/ \E state \in {"sleeping", "running", "disk-sleep"} : Sleeps(state)
    \/ \E p \in Others : StopKill(p)

-----------------------------------------------------------------------------
(* Properties.                                                             *)

\* A job is not said to be over while its process runs, except after a poll
\* that met a state translate_status does not know, after a stop that was cut
\* short by a listed process that had ended (LocalResource, stop_job), and
\* after a poll at the boot of a cluster, or a request for a stop, that found
\* the row before the id of the process was stored in it.
LocalEndIsTrue ==
    row \in {"complete", "failed"} /\ odd = 0 /\ stop.pc # "cut" /\ ~early
        => Main \notin alive

\* A stop that was not cut short leaves no process but those that it could
\* not find: orphans, what they started, and what was started meanwhile.
StopLeavesNothing == stop.pc = "done" => alive \subseteq spared
=============================================================================
