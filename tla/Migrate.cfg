SPECIFICATION FairSpec
CONSTANTS
    p1 = p1  p2 = p2  v1 = v1  v2 = v2
    Process = {p1, p2}
    Count = 3
    Source <- OldAndNew
    Version = {v1, v2}
    Content <- Edited
    Operation <- EveryOperation
    Faults = {"fail", "lost_reply"}
    MaxOps = 4
INVARIANTS SchemaMatchesMetadata SourceOrder
PROPERTIES DownMatchesUp OperationEnds
CHECK_DEADLOCK FALSE
