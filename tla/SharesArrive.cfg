CONSTANTS
    c1 = c1
    c2 = c2
    orig = orig
    w1 = w1
    w2 = w2
    Copies = {c1}
    Original = orig
    Accepts = {c1}
    Declines = {c1}
    Workers = {w1, w2}
    MaxFaults = 1
SPECIFICATION FairSpec
PROPERTIES SharesArrive DeclinedGoes
\* Users may leave a share unanswered.
CHECK_DEADLOCK FALSE
