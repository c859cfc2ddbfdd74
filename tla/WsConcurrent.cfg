CONSTANTS
    e1 = e1
    e2 = e2
    u1 = u1
    s1 = s1
    s2 = s2
    d1 = d1
    d2 = d2
    w1 = w1
    w2 = w2
    Edits = {e1}
    Uploads = {}
    Starts = {s1}
    Stopped = {s1}
    Deletes = {d1}
    Workers = {w1, w2}
    MaxRestarts = 1
    MaxFaults = 0
SPECIFICATION Spec
INVARIANTS TypeOK NothingLostUnasked NothingLostInv ListingMatchesDisk ListingInv JobsKeepWorkspace JobsKeptInv
\* Clients may stop making requests.
CHECK_DEADLOCK FALSE
