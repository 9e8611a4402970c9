--------------------------- MODULE RunnerLifecycle ---------------------------
(***************************************************************************)
(* lazyjobs: JobRunner.Start and JobRunner.Stop (lazyjobs/runner.go).      *)
(*                                                                         *)
(* Start makes a context, a done channel and a pool of goroutines; a waiter *)
(* closes the done channel when the pool has returned.  Stop takes the      *)
(* cancel function and the done channel under the mutex, and then cancels   *)
(* and waits outside it.  The waiter reads the field r.done when the pool   *)
(* has returned, without the mutex: by then it may be another pool's.       *)
(* Pools, their contexts and their channels share one number, the           *)
(* generation; channel 0 is the closed one a new runner has (closedDone).   *)
(***************************************************************************)
EXTENDS Integers

CONSTANTS
    Caller,      \* goroutines that call Start and Stop
    Workers,     \* goroutines in a pool, the scheduler included
    MaxPools     \* bound: pools ever started

ASSUME LifecycleAssumption ==
    Workers \in Nat \ {0} /\ MaxPools \in Nat

Pool == 1..MaxPools
None == 0

VARIABLES
    started, cancel, done, \* the fields of JobRunner, guarded by its mutex
    last,                  \* the last pool started
    alive,                 \* goroutines of each pool that have not returned
    waiting,               \* pools whose waiter has not closed a channel yet
    cancelled,             \* pools whose context is cancelled
    closed,                \* done channels that are closed
    panicked,              \* a channel was closed twice
    startedEarly,          \* history: pools started while a stopped one was draining
    stop,                  \* where each caller is in Stop
    myCancel, myDone       \* what it read under the mutex

fields == <<started, cancel, done>>
pools == <<last, alive, waiting, cancelled, closed, panicked, startedEarly>>
callers == <<stop, myCancel, myDone>>
runnerVars == <<fields, pools, callers>>

RunnerTypeOK ==
    /\ started \in BOOLEAN
    /\ cancel \in Pool \cup {None} /\ done \in Pool \cup {None}
    /\ last \in 0..MaxPools
    /\ alive \in [Pool -> 0..Workers]
    /\ waiting \subseteq Pool
    /\ cancelled \subseteq Pool
    /\ closed \subseteq Pool \cup {None}
    /\ panicked \in BOOLEAN /\ startedEarly \subseteq Pool
    /\ stop \in [Caller -> {"idle", "cancelling", "waiting", "stopped"}]
    /\ myCancel \in [Caller -> Pool \cup {None}]
    /\ myDone \in [Caller -> Pool \cup {None}]

RunnerInit ==
    /\ started = FALSE /\ cancel = None /\ done = None
    /\ last = 0
    /\ alive = [p \in Pool |-> 0]
    /\ waiting = {} /\ cancelled = {} /\ closed = {None}
    /\ panicked = FALSE /\ startedEarly = {}
    /\ stop = [c \in Caller |-> "idle"]
    /\ myCancel = [c \in Caller |-> None]
    /\ myDone = [c \in Caller |-> None]

-----------------------------------------------------------------------------

\* The pool of a Stop that gave up, or is still waiting, has not returned.
StillDraining == ~started /\ waiting # {}

\* Mutant: the check of r.started is dropped.
StartAgain(c) ==
    /\ stop[c] = "idle" /\ ~panicked
    /\ last < MaxPools
    /\ last' = last + 1
    /\ started' = TRUE /\ cancel' = last' /\ done' = last'
    /\ alive' = [alive EXCEPT ![last'] = Workers]
    /\ waiting' = waiting \cup {last'}
    /\ startedEarly' = IF StillDraining THEN startedEarly \cup {last'} ELSE startedEarly
    /\ UNCHANGED <<cancelled, closed, panicked, callers>>

\* Start, when the runner is not started; otherwise it returns at once.
Start(c) ==
    /\ stop[c] = "idle" /\ ~panicked
    /\ ~started
    /\ last < MaxPools
    /\ last' = last + 1
    /\ started' = TRUE /\ cancel' = last' /\ done' = last'
    /\ alive' = [alive EXCEPT ![last'] = Workers]
    /\ waiting' = waiting \cup {last'}
    /\ startedEarly' = IF StillDraining THEN startedEarly \cup {last'} ELSE startedEarly
    /\ UNCHANGED <<cancelled, closed, panicked, callers>>

\* The context Start was given is cancelled by its owner.
ParentCancel(p) ==
    /\ p <= last /\ p \notin cancelled
    /\ cancelled' = cancelled \cup {p}
    /\ UNCHANGED <<fields, callers, last, alive, waiting, closed, panicked, startedEarly>>

\* A worker or the scheduler returns, some time after its context is done.
GoroutineReturns(p) ==
    /\ alive[p] > 0 /\ p \in cancelled
    /\ alive' = [alive EXCEPT ![p] = @ - 1]
    /\ UNCHANGED <<fields, callers, last, waiting, cancelled, closed, panicked, startedEarly>>

\* Mutant: the channel is closed before the pool has returned.
WaiterClosesEarly(p) ==
    /\ p \in waiting /\ ~panicked
    /\ waiting' = waiting \ {p}
    /\ \E d \in p..done :
           /\ panicked' = (d \in closed)
           /\ closed' = closed \cup {d}
    /\ UNCHANGED <<fields, callers, last, alive, cancelled, startedEarly>>

\* wg.Wait(); close(r.done).  The read of r.done races with Start: it yields
\* the pool's own channel or one that replaced it.
WaiterCloses(p) ==
    /\ p \in waiting /\ alive[p] = 0 /\ ~panicked
    /\ waiting' = waiting \ {p}
    /\ \E d \in p..done :
           /\ panicked' = (d \in closed)
           /\ closed' = closed \cup {d}
    /\ UNCHANGED <<fields, callers, last, alive, cancelled, startedEarly>>

\* Stop, under the mutex.
StopBegin(c) ==
    /\ stop[c] = "idle" /\ ~panicked
    /\ myCancel' = [myCancel EXCEPT ![c] = cancel]
    /\ myDone' = [myDone EXCEPT ![c] = done]
    /\ started' = FALSE /\ cancel' = None
    /\ stop' = [stop EXCEPT ![c] = "cancelling"]
    /\ UNCHANGED <<done, pools>>

\* Mutant: the field is called after it was reset.
StopCancelLost(c) ==
    /\ stop[c] = "cancelling" /\ ~panicked
    /\ stop' = [stop EXCEPT ![c] = "waiting"]
    /\ UNCHANGED <<fields, pools, myCancel, myDone>>

\* cancel(), if there was one.
StopCancel(c) ==
    /\ stop[c] = "cancelling" /\ ~panicked
    /\ cancelled' = cancelled \cup ({myCancel[c]} \ {None})
    /\ stop' = [stop EXCEPT ![c] = "waiting"]
    /\ UNCHANGED <<fields, last, alive, waiting, closed, panicked, startedEarly, myCancel, myDone>>

\* <-done, then the backend is closed and Stop returns nil.
StopReturns(c) ==
    /\ stop[c] = "waiting" /\ myDone[c] \in closed /\ ~panicked
    /\ stop' = [stop EXCEPT ![c] = "stopped"]
    /\ UNCHANGED <<fields, pools, myCancel, myDone>>

\* <-ctx.Done(): Stop returns its error and the pool is left to itself.
StopTimesOut(c) ==
    /\ stop[c] = "waiting" /\ ~panicked
    /\ stop' = [stop EXCEPT ![c] = "idle"]
    /\ myCancel' = [myCancel EXCEPT ![c] = None]
    /\ myDone' = [myDone EXCEPT ![c] = None]
    /\ UNCHANGED <<fields, pools>>

\* The caller goes on after a Stop that returned nil.
GoOn(c) ==
    /\ stop[c] = "stopped"
    /\ stop' = [stop EXCEPT ![c] = "idle"]
    /\ myCancel' = [myCancel EXCEPT ![c] = None]
    /\ myDone' = [myDone EXCEPT ![c] = None]
    /\ UNCHANGED <<fields, pools>>

RunnerNext ==
    \/ \E c \in Caller :
           \/ Start(c) \/ StopBegin(c) \/ StopCancel(c)
           \/ StopReturns(c) \/ StopTimesOut(c) \/ GoOn(c)
    \/ \E p \in Pool : ParentCancel(p) \/ GoroutineReturns(p) \/ WaiterCloses(p)

RunnerSpec == RunnerInit /\ [][RunnerNext]_runnerVars

\* A Stop goes on, jobs in progress end, and the waiter is scheduled.
RunnerFairSpec ==
    /\ RunnerSpec
    /\ \A c \in Caller : WF_runnerVars(StopCancel(c)) /\ WF_runnerVars(StopReturns(c))
    /\ \A p \in Pool : WF_runnerVars(GoroutineReturns(p)) /\ WF_runnerVars(WaiterCloses(p))

-----------------------------------------------------------------------------
(* Properties.                                                             *)

\* Unless a pool was started while a stopped one was draining, no done channel is
\* closed twice: the second close panics in a goroutine nobody recovers and takes
\* the process down (Start's waiter).
NoDoubleClose == panicked => startedEarly # {}

\* Unless started that way, there is never more than one pool claiming work for a
\* runner: a second pool would double the configured worker limit.
OnePool ==
    \A p, q \in Pool : p < q /\ alive[p] > 0 /\ alive[q] > 0 => q \in startedEarly

\* When Stop returns nil, no goroutine of a pool started before it is left: the
\* backend may be closed and its database released.  It does not hold of a pool
\* that was started while a stopped one was draining, whose channel the waiter of
\* the other may close.
StopDrains ==
    \A c \in Caller :
        stop[c] = "stopped" /\ myDone[c] \notin startedEarly => \A p \in 1..myDone[c] : alive[p] = 0

\* Stop returns once the jobs in progress have ended, unless another goroutine
\* calls Start meanwhile: its channel may be closed in place of the one Stop
\* waits for.
StopTerminates ==
    \A c \in Caller : stop[c] = "waiting" ~> (stop[c] # "waiting" \/ startedEarly # {})

\* Pools do not meet: one at a time claims work, and no waiter closes the done
\* channel of another, but for pools started while a stopped one drains.
PoolsDoNotMeet == RunnerTypeOK /\ NoDoubleClose /\ OnePool

-----------------------------------------------------------------------------
(* The inductive invariant.                                                *)

\* r.done is the channel of the last pool, only a pool that was started has a
\* waiter or a closed channel, and a pool that runs has a waiter.
PoolsAreKnown ==
    /\ done = last
    /\ waiting \subseteq 1..last /\ closed \subseteq 0..last
    /\ \A p \in Pool : alive[p] > 0 => p \in waiting

\* No earlier pool is left when a pool is started, or ever after.
EarlierAreGone ==
    \A p, q \in Pool : p < q /\ q <= last /\ q \notin startedEarly => p \notin waiting

\* A closed channel tells that its pool and the earlier ones have returned.
ClosedMeansGone ==
    \A d \in closed : d \in startedEarly \/ \A p \in 1..d : p \notin waiting

StoppedByChannel == \A c \in Caller : stop[c] = "stopped" => myDone[c] \in closed

RunnerInv == RunnerTypeOK /\ PoolsAreKnown /\ EarlierAreGone /\ ClosedMeansGone
          /\ StoppedByChannel /\ NoDoubleClose

=============================================================================
