CONSTANTS
    j1 = j1
    j2 = j2
    c1 = c1
    c2 = c2
    Jobs = {j1, j2}
    Clients = {}
    WebJobs = {}
    MaxFaults = 0
    MaxCrashes = 0
SPECIFICATION FairSpecJobsEnd
PROPERTIES WorkspaceGoesIdle ImplementsMirror
\* All jobs may be over, with no request left to make.
CHECK_DEADLOCK FALSE
