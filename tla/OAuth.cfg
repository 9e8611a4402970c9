SPECIFICATION Spec
CONSTANTS
    r1 = r1  r2 = r2  c1 = c1  noClient = noClient  noRequest = noRequest
    Request = {r1, r2}
    Client = {c1}
    NoClient = noClient
    NoRequest = noRequest
    MaxCode = 1
    MaxFamily = 1
    MaxToken = 3
    MaxFailures = 2
    MaxCrashes = 1
INVARIANTS CodeUsedOnce AnswersSurvive NoFalseReplay
PROPERTIES ImplementsStates
CHECK_DEADLOCK FALSE
