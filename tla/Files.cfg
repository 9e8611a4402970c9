SPECIFICATION Spec
CONSTANTS
    g1 = g1  g2 = g2  x1 = x1  x2 = x2
    Caller = {g1, g2}
    Content = {x1, x2}
    Named = {chosen}
    MaxFiles = 3
    MaxLines = 4
    MaxFaults = 1
    MaxCrashes = 1
    Absent = Absent
SYMMETRY Alike
INVARIANTS MemoryFollowsLogs FilesAreServable
CHECK_DEADLOCK FALSE
