SPECIFICATION FairSpec
CONSTANTS
    g1 = g1  g2 = g2  a = a  b = b  c = c  s1 = s1  s2 = s2
    Caller = {g1, g2}
    Name = {a, b, c}
    Stopper = {s1, s2}
    Hangs = {c}
    Deadline = TRUE
    MaxDepth = 2
    MaxFailures = 1
    MaxUses = 3
INVARIANTS GraphIsOrdered StopOrder ReturnedMeansStopped
PROPERTIES ShutdownEnds
CHECK_DEADLOCK FALSE
