SPECIFICATION FairSpec
CONSTANTS
    r1 = r1  r2 = r2  w1 = w1  w2 = w2  q1 = q1  q2 = q2  k1 = k1  k2 = k2  s1 = s1  s2 = s2
    Runner = {r1, r2}
    Worker = {w1, w2}
    RunnerOf <- TwoRunners
    Queue = {q1, q2}
    Watched <- AllQueues
    Limit <- OneAtATime
    Kind = {k1, k2}
    Registered <- OldAndNew
    MaxAttempts = 2
    Delay <- OneDelay
    Backend = "inmemory"
    Session = {}
    NoSession = NoSession
    NoWorker = NoWorker
    Faults = {"cancel"}
    MaxJobs = 2
    Horizon = 1
INVARIANTS QueueLimits
PROPERTIES WorkGetsDone
CHECK_DEADLOCK FALSE
