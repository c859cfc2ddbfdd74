CONSTANTS
    j1 = j1
    j2 = j2
    c1 = c1
    c2 = c2
    Jobs = {j1}
    Clients = {c1}
    WebJobs = {j1}
    MaxFaults = 2
    MaxCrashes = 0
SPECIFICATION FairSpec
INVARIANTS TypeOK NoFalseEnd EndInv CoverageInv
PROPERTIES StopReachesResource
\* All jobs may be over, with no request left to make.
CHECK_DEADLOCK FALSE
