SPECIFICATION FairSchedulerSpec
CONSTANTS
    s1 = s1  s2 = s2
    Scheduler = {s1, s2}
    Interval = 2
    Poll = 1
    StaleAfter = 2
    Backend = "pg"
    MaxHold = 2
    Faults = {"register", "crash", "error"}
    MaxActive = 3
    Horizon = 6
INVARIANTS SchedulersExclude
PROPERTIES ScheduleGoesOn
CHECK_DEADLOCK FALSE
