SPECIFICATION Spec
CONSTANTS
    r1 = r1  r2 = r2  w1 = w1  w2 = w2  q1 = q1  q2 = q2  k1 = k1  k2 = k2  s1 = s1  s2 = s2
    Runner = {r1, r2}
    Worker = {w1, w2}
    RunnerOf <- TwoRunners
    Queue = {q1}
    Watched <- AllQueues
    Limit <- OneOrTwo
    Kind = {k1}
    Registered <- AllKinds
    MaxAttempts = 2
    Delay <- OneDelay
    Backend = "pg"
    Session = {s1, s2}
    NoSession = NoSession
    NoWorker = NoWorker
    Faults = {"cancel", "crash", "dberror"}
    MaxJobs = 4
    Horizon = 1
SYMMETRY AnySession
CONSTRAINT RetriedOrMany
INVARIANTS ExclusiveWork QueueOvershootBound
PROPERTIES StrandedForever ImplementsLifecycle
CHECK_DEADLOCK FALSE
