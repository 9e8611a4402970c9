----------------------------- MODULE JobScheduler -----------------------------
(***************************************************************************)
(* lazyjobs: one fixed-interval schedule and the scheduler goroutines of   *)
(* the runners that share its backend (runScheduler, scheduleClaimed in    *)
(* lazyjobs/runner.go; the schedule operations of both backends).          *)
(*                                                                         *)
(* A scheduler claims the due schedule, which locks it for StaleAfter, asks *)
(* whether a job of the schedule is still active, inserts one if none is,  *)
(* and advances the schedule, which unlocks it.  Each of the four is a call *)
(* of its own: only the lock keeps two schedulers from inserting both.     *)
(***************************************************************************)
EXTENDS Integers, FiniteSets, FiniteSetsExt

CONSTANTS
    Scheduler,   \* one scheduler goroutine for each runner
    Interval,    \* Schedule.Interval
    Poll,        \* PollInterval: the delay after a failed call
    StaleAfter,  \* a lock this old (5 minutes) does not block a claim
    Backend,     \* "inmemory" or "pg": which side of StaleAfter is stale
    MaxHold,     \* bound: how long a scheduler stays between claim and advance
    Faults,      \* which of the fault actions below are enabled
    MaxActive,   \* bound: jobs of the schedule active at a time
    Horizon      \* bound: the clock stops here

Unlocked == -1

ASSUME SchedulerAssumption ==
    /\ IsFiniteSet(Scheduler)
    /\ {Interval, Poll, StaleAfter} \subseteq Nat \ {0}
    /\ Backend \in {"inmemory", "pg"}
    /\ {MaxHold, MaxActive, Horizon} \subseteq Nat
    /\ Faults \subseteq {"register", "crash", "error"}
    \* The in-memory table dies with its process and no call of it fails.
    /\ Backend = "inmemory" => Faults \subseteq {"register"}

\* The calls of one round are over before its lock is stale.
ASSUME HoldAssumption ==
    IF Backend = "pg" THEN MaxHold <= StaleAfter ELSE MaxHold < StaleAfter

VARIABLES
    clock,
    nextRunAt, lockedAt, \* the row of the schedule
    active,              \* its jobs that are pending, retrying or running
    pc,                  \* where each scheduler is in scheduleClaimed
    claimedAt,           \* when it claimed the schedule
    occurrence,          \* the NextRunAt it claimed
    next,                \* the next run it computed
    cleared              \* history: Register has cleared a scheduler's lock

row == <<nextRunAt, lockedAt>>
scheduler == <<pc, claimedAt, occurrence, next>>
schedulerVars == <<clock, row, active, scheduler, cleared>>

Time == 0..Horizon
Future == 0..(Horizon + Interval + Poll)

SchedulerTypeOK ==
    /\ clock \in Time
    /\ nextRunAt \in Future
    /\ lockedAt \in Time \cup {Unlocked}
    /\ active \in 0..MaxActive
    /\ pc \in [Scheduler -> {"idle", "claimed", "insert", "advance"}]
    /\ claimedAt \in [Scheduler -> Time]
    /\ occurrence \in [Scheduler -> Time]
    /\ next \in [Scheduler -> Future]
    /\ cleared \in BOOLEAN

\* RegisterSchedule has stored the schedule with its first run.
SchedulerInit ==
    /\ clock = 0
    /\ nextRunAt = 0 /\ lockedAt = Unlocked
    /\ active = 0
    /\ pc = [s \in Scheduler |-> "idle"]
    /\ claimedAt = [s \in Scheduler |-> 0]
    /\ occurrence = [s \in Scheduler |-> 0]
    /\ next = [s \in Scheduler |-> 0]
    /\ cleared = FALSE

-----------------------------------------------------------------------------

\* Mutant: a lock is never stale.
LockedForever == lockedAt # Unlocked

\* In memory a lock of exactly StaleAfter is stale, in SQL it is not.
Locked ==
    /\ lockedAt # Unlocked
    /\ \/ clock - lockedAt < StaleAfter
       \/ Backend = "pg" /\ clock - lockedAt = StaleAfter

\* Backend.ClaimSchedule.
ClaimSchedule(s) ==
    /\ pc[s] = "idle"
    /\ nextRunAt <= clock /\ ~Locked
    /\ lockedAt' = clock
    /\ pc' = [pc EXCEPT ![s] = "claimed"]
    /\ claimedAt' = [claimedAt EXCEPT ![s] = clock]
    /\ occurrence' = [occurrence EXCEPT ![s] = nextRunAt]
    /\ UNCHANGED <<clock, nextRunAt, active, next, cleared>>

\* nextScheduledRun: whole intervals are added until the result is after now,
\* so missed occurrences are skipped and the phase is kept.
NextScheduledRun(previous, now) ==
    Min({t \in Future : t > now /\ \E n \in 1..(now + 1) : t = previous + n * Interval})

\* Mutant: nobody asks whether a job is active.
CheckNothing(s) ==
    /\ pc[s] = "claimed"
    /\ \E now \in claimedAt[s]..clock :
           next' = [next EXCEPT ![s] = NextScheduledRun(occurrence[s], now)]
    /\ pc' = [pc EXCEPT ![s] = "insert"]
    /\ UNCHANGED <<clock, row, active, claimedAt, occurrence, cleared>>

\* scheduleClaimed reads the clock and computes the next run; some time later
\* HasActiveScheduledJob decides whether to insert.
CheckActive(s) ==
    /\ pc[s] = "claimed"
    /\ \E now \in claimedAt[s]..clock :
           next' = [next EXCEPT ![s] = NextScheduledRun(occurrence[s], now)]
    /\ pc' = [pc EXCEPT ![s] = IF active = 0 THEN "insert" ELSE "advance"]
    /\ UNCHANGED <<clock, row, active, claimedAt, occurrence, cleared>>

\* Backend.Insert of the occurrence's job.
InsertJob(s) ==
    /\ pc[s] = "insert"
    /\ active < MaxActive
    /\ active' = active + 1
    /\ pc' = [pc EXCEPT ![s] = "advance"]
    /\ UNCHANGED <<clock, row, claimedAt, occurrence, next, cleared>>

\* HasActiveScheduledJob or Insert failed, the latter before or after its
\* commit: the next run is a poll interval after the same reading of the clock.
CallFails(s) ==
    /\ "error" \in Faults
    /\ pc[s] \in {"claimed", "insert"}
    /\ \E now \in claimedAt[s]..clock :
           /\ pc[s] = "insert" => next[s] = NextScheduledRun(occurrence[s], now)
           /\ next' = [next EXCEPT ![s] = now + Poll]
    /\ \/ UNCHANGED active
       \/ pc[s] = "insert" /\ active < MaxActive /\ active' = active + 1
    /\ pc' = [pc EXCEPT ![s] = "advance"]
    /\ UNCHANGED <<clock, row, claimedAt, occurrence, cleared>>

Done(s) ==
    /\ pc' = [pc EXCEPT ![s] = "idle"]
    /\ claimedAt' = [claimedAt EXCEPT ![s] = 0]
    /\ occurrence' = [occurrence EXCEPT ![s] = 0]
    /\ next' = [next EXCEPT ![s] = 0]

\* Backend.AdvanceSchedule, whoever holds the lock by now.
Advance(s) ==
    /\ pc[s] = "advance"
    /\ nextRunAt' = next[s] /\ lockedAt' = Unlocked
    /\ Done(s)
    /\ UNCHANGED <<clock, active, cleared>>

\* The process dies in the middle, or AdvanceSchedule fails and its error is
\* dropped: the row stays locked.  Bound: a lock left behind gets stale before
\* the clock stops.
Abandon(s) ==
    /\ "crash" \in Faults
    /\ clock + StaleAfter < Horizon
    /\ pc[s] # "idle"
    /\ Done(s)
    /\ UNCHANGED <<clock, row, active, cleared>>

\* Another process starts and registers the schedule again: the next run is
\* kept, the lock is cleared.
Register ==
    /\ "register" \in Faults
    /\ lockedAt # Unlocked
    /\ lockedAt' = Unlocked /\ cleared' = TRUE
    /\ UNCHANGED <<clock, nextRunAt, active, scheduler>>

\* A worker settles a job of the schedule (module JobRunner).
SettleJob ==
    /\ active > 0
    /\ active' = active - 1
    /\ UNCHANGED <<clock, row, scheduler, cleared>>

Tick ==
    /\ clock < Horizon
    /\ \A s \in Scheduler : pc[s] # "idle" => clock - claimedAt[s] < MaxHold
    /\ clock' = clock + 1
    /\ UNCHANGED <<row, active, scheduler, cleared>>

SchedulerStep(s) ==
    ClaimSchedule(s) \/ CheckActive(s) \/ InsertJob(s) \/ CallFails(s) \/ Advance(s)

SchedulerNext ==
    \/ \E s \in Scheduler : SchedulerStep(s) \/ Abandon(s)
    \/ SettleJob \/ Register \/ Tick

SchedulerSpec == SchedulerInit /\ [][SchedulerNext]_schedulerVars

\* Scheduler goroutines run and time passes.
FairSchedulerSpec ==
    SchedulerSpec /\ WF_schedulerVars(Tick) /\ \A s \in Scheduler : WF_schedulerVars(SchedulerStep(s))

-----------------------------------------------------------------------------
(* Properties.                                                             *)

\* Scheduled runs do not overlap: at most one job of the schedule is pending,
\* retrying or running (lazyjobs/runner_test.go).
NoOverlap == active <= 1

\* Unless a process that starts clears the lock of a scheduler at work, one
\* scheduler at a time is between claim and advance and runs do not overlap,
\* though calls fail and schedulers die with the schedule locked.
OneScheduler ==
    cleared \/ /\ NoOverlap
               /\ \A s, t \in Scheduler : pc[s] # "idle" /\ pc[t] # "idle" => s = t

\* When locks are cleared, at most one job for each scheduler is active,
\* however many processes start.
OverlapBound == active <= Cardinality(Scheduler)

\* Unless a lock was cleared, the schedule only moves forward: no scheduler
\* writes a next run it computed before another one advanced the schedule.
NextRunAdvances == [][cleared \/ nextRunAt' >= nextRunAt]_schedulerVars

\* A due schedule is advanced in the end: a lock left by a dead scheduler is
\* taken over once it is stale.
DueIsAdvanced == \A t \in Time : nextRunAt = t ~> nextRunAt > t

\* The schedule goes on, and never back: no scheduler's late answer undoes
\* another's, and no dead scheduler stops it (ClaimSchedule, AdvanceSchedule).
ScheduleGoesOn == NextRunAdvances /\ DueIsAdvanced

\* Schedulers exclude each other until a process that starts clears the lock, and
\* then there is at most one job for each (ClaimSchedule, RegisterSchedule).
SchedulersExclude == SchedulerTypeOK /\ OneScheduler /\ OverlapBound

(* The inductive invariant.                                                *)

\* A scheduler at work claimed the schedule a while ago, and no longer ago
\* than it may hold it; what it computed lies after what it claimed.
HoldsAreShort ==
    \A s \in Scheduler :
        pc[s] # "idle" =>
            /\ occurrence[s] <= claimedAt[s] /\ claimedAt[s] <= clock
            /\ clock - claimedAt[s] <= MaxHold
            /\ pc[s] # "claimed" => next[s] > claimedAt[s]

\* Unless a lock was cleared, a scheduler at work owns the lock and the
\* occurrence, and one about to insert is alone with its schedule.
OwnsTheLock ==
    cleared \/ \A s \in Scheduler :
                  pc[s] # "idle" =>
                      /\ lockedAt = claimedAt[s] /\ nextRunAt = occurrence[s]
                      /\ pc[s] = "insert" => active = 0

Inserting == {s \in Scheduler : pc[s] = "insert"}

\* Jobs and schedulers about to insert one.
RoomForAll == active + Cardinality(Inserting) <= Cardinality(Scheduler)

SchedulerInv == SchedulersExclude /\ HoldsAreShort /\ OwnsTheLock /\ RoomForAll

=============================================================================
