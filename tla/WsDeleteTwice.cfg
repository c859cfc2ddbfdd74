CONSTANTS
    e1 = e1
    e2 = e2
    u1 = u1
    s1 = s1
    s2 = s2
    d1 = d1
    d2 = d2
    w1 = w1
    w2 = w2
    Edits = {}
    Uploads = {}
    Starts = {}
    Stopped = {}
    Deletes = {d1, d2}
    Workers = {w1}
    MaxRestarts = 0
    MaxFaults = 0
SPECIFICATION FairSpec
PROPERTIES DeletionIsFinal
\* Clients may stop making requests.
CHECK_DEADLOCK FALSE
