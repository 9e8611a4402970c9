SPECIFICATION FairSpec
CONSTANTS
    AnyVersion = AnyVersion
    Absent = Absent
    r1 = r1
    r2 = r2
    Addon <- Addons3
    Version <- V
    Boot <- Boots
    Request = {r1}
    LateEndpoint <- LateEndpoints
    LatePanel <- LatePanels
    EarlyFails = TRUE
    MaxLate = 1
INVARIANTS StartsInOrder StopsInOrder PlaneIsConsistent
PROPERTIES PlaneKeepsItsWord CommandEnds
CHECK_DEADLOCK FALSE
