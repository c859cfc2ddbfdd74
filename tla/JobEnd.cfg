CONSTANTS
    j1 = j1
    j2 = j2
    c1 = c1
    c2 = c2
    Jobs = {j1}
    Clients = {}
    WebJobs = {}
    MaxFaults = 1
    MaxCrashes = 1
SPECIFICATION FairSpec
INVARIANTS PollCoverage OneChainInv
PROPERTIES EndIsNoticed TerminalIsFinal
\* All jobs may be over, with no request left to make.
CHECK_DEADLOCK FALSE
