SPECIFICATION FairSocketSpec
CONSTANTS
    server = server  client = client
    Server = server  Client = client
    Script <- Talk
    Capacity = 1
    Limits = {0, 1}
INVARIANTS FramesAreLegal MessagesArriveWhole
PROPERTIES NobodyWaitsForEver
CHECK_DEADLOCK FALSE
