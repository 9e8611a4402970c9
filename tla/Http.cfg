SPECIFICATION Spec
CONSTANTS
    q1 = q1
    q2 = q2
    c1 = c1
    c2 = c2
    k1 = k1
    k2 = k2
    Request = {q1, q2}
    Streaming = {q2}
    Sessions = {TRUE, FALSE}
    Controller = {c1, c2}
    Key = {k1, k2}
    Size = {1, 3}
    MaxEntries = 2
    MaxSizeBytes = 2
    NoKey = NoKey
    NoController = NoController
    Stray = Stray
SYMMETRY Alike
CONSTRAINT CacheBound
INVARIANTS AnswersAreComplete OwnPages ErrorsKeepStatus CacheKeepsRecent
