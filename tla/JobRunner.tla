------------------------------ MODULE JobRunner ------------------------------
(***************************************************************************)
(* lazyjobs: runners, their worker goroutines and the job table they share. *)
(*                                                                         *)
(* A runner is one JobRunner in one process; its workers loop over         *)
(* Backend.Claim and work (lazyjobs/runner.go).  The table is either the   *)
(* in-memory backend, where every call runs under one mutex and ignores    *)
(* the context, or the PostgreSQL backend, where every call is a statement *)
(* that a session of the server executes: Claim is one READ COMMITTED      *)
(* statement (a snapshot, then the row lock and the update), Complete,     *)
(* Retry and Discard are an update by identifier.  A caller whose context  *)
(* is cancelled, whose connection fails or whose process dies does not     *)
(* wait for the session, which may still execute and commit the statement. *)
(* The runner ignores the error of Complete, Retry and Discard.            *)
(***************************************************************************)
EXTENDS Integers, FiniteSets

CONSTANTS
    Runner, Worker,   \* runners, and the worker goroutines of all of them
    RunnerOf,         \* the runner a worker belongs to
    Queue, Watched,   \* queue names, and the queues each runner claims from
    Limit,            \* Config.QueueLimits of each runner: <= 0 is no limit
    Kind, Registered, \* job kinds, and the kinds each runner can decode
    MaxAttempts,      \* Record.MaxAttempts, normalised to at least one
    Delay,            \* the delays retryDelayFor can return, all positive
    Backend,          \* "inmemory" or "pg"
    Session, NoSession, \* the sessions of the PostgreSQL server
    NoWorker,
    Faults,           \* which of the fault actions below are enabled
    MaxJobs,          \* bound: records inserted
    Horizon           \* bound: the clock stops here and no RunAt is later

JobID == 1..MaxJobs
NoJob == 0

ASSUME RunnerAssumption ==
    /\ Queue # {} /\ Kind # {}
    /\ RunnerOf \in [Worker -> Runner] /\ IsFiniteSet(Worker)
    /\ Watched \in [Runner -> SUBSET Queue]
    /\ Registered \in [Runner -> SUBSET Kind]
    /\ IsFiniteSet(Session) /\ NoSession \notin Session /\ NoWorker \notin Worker

ASSUME NumericAssumption ==
    /\ Limit \in [Runner -> [Queue -> Int]]
    /\ MaxAttempts \in Nat \ {0}
    /\ MaxJobs \in Nat
    /\ Horizon \in Nat
    /\ Delay \subseteq Nat \ {0} /\ Delay # {}

ASSUME BackendAssumption ==
    /\ Backend \in {"inmemory", "pg"}
    /\ Faults \subseteq {"cancel", "crash", "dberror"}
    \* The in-memory table dies with its process and no call of it fails.
    /\ Backend = "inmemory" => Faults \subseteq {"cancel"}

VARIABLES
    state, attempt, runAt, queue, kind, \* the columns of the job table
    lastID,    \* the last identifier Insert gave out
    clock,     \* wall-clock time, shared by all processes
    phase,     \* of a runner: ready, started, cancelled, or down (crashed)
    pc,        \* where a worker is in its loop
    held,      \* the record it claimed, as an identifier
    copy,      \* Record.Attempt in its copy of that record
    conn,      \* the session whose answer it waits for
    op,        \* of a session: the statement it has, see Op
    client,    \* the worker that sent it, which may not wait any more
    time,      \* its ClaimParams.Now, or RetryParams.RunAt
    rows,      \* the candidates in its snapshot, or the row it updates
    executed   \* history: calls of Work made for a record

table == <<state, attempt, runAt, queue, kind, lastID>>
worker == <<pc, held, copy, conn>>
server == <<op, client, time, rows>>
vars == <<table, clock, phase, worker, server, executed>>

State == {"absent", "pending", "running", "retrying", "succeeded", "discarded"}
Settled == {"succeeded", "discarded"}
Phase == {"ready", "started", "cancelled", "down"}
PC == {"exited", "idle", "claiming", "claimed", "worked", "failed"}
\* A Claim that was sent, or has its snapshot, and the updates of work.
Outcome == Settled \cup {"retrying"}
Op == {"none", "sent", "selected"} \cup Outcome

TypeOK ==
    /\ state \in [JobID -> State]
    /\ attempt \in [JobID -> 0..MaxAttempts]
    /\ runAt \in [JobID -> 0..Horizon]
    /\ queue \in [JobID -> Queue]
    /\ kind \in [JobID -> Kind]
    /\ lastID \in 0..MaxJobs
    /\ clock \in 0..Horizon
    /\ phase \in [Runner -> Phase]
    /\ pc \in [Worker -> PC]
    /\ held \in [Worker -> JobID \cup {NoJob}]
    /\ copy \in [Worker -> 0..MaxAttempts]
    /\ conn \in [Worker -> Session \cup {NoSession}]
    /\ op \in [Session -> Op]
    /\ client \in [Session -> Worker \cup {NoWorker}]
    /\ time \in [Session -> 0..Horizon]
    /\ rows \in [Session -> SUBSET JobID]
    /\ executed \in [JobID -> Nat]

WorkersOf(r) == {w \in Worker : RunnerOf[w] = r}
Cancelled(w) == phase[RunnerOf[w]] = "cancelled"
Drained(r) == \A w \in WorkersOf(r) : pc[w] = "exited"

Init ==
    /\ state = [j \in JobID |-> "absent"]
    /\ attempt = [j \in JobID |-> 0]
    /\ runAt = [j \in JobID |-> 0]
    /\ queue = [j \in JobID |-> CHOOSE q \in Queue : TRUE] \* set by Insert
    /\ kind = [j \in JobID |-> CHOOSE k \in Kind : TRUE]
    /\ lastID = 0
    /\ clock = 0
    /\ phase = [r \in Runner |-> "ready"]
    /\ pc = [w \in Worker |-> "exited"]
    /\ held = [w \in Worker |-> NoJob]
    /\ copy = [w \in Worker |-> 0]
    /\ conn = [w \in Worker |-> NoSession]
    /\ op = [s \in Session |-> "none"]
    /\ client = [s \in Session |-> NoWorker]
    /\ time = [s \in Session |-> 0]
    /\ rows = [s \in Session |-> {}]
    /\ executed = [j \in JobID |-> 0]

-----------------------------------------------------------------------------
(* Enqueueing and the passage of time.                                     *)

\* EnqueueWith and Backend.Insert: the kind must be registered with the
\* runner; the queue and the run time are the caller's choice.
Enqueue(r, k, q, at) ==
    /\ phase[r] # "down"
    /\ k \in Registered[r]
    /\ lastID < MaxJobs
    /\ lastID' = lastID + 1
    /\ state' = [state EXCEPT ![lastID'] = "pending"]
    /\ runAt' = [runAt EXCEPT ![lastID'] = at]
    /\ queue' = [queue EXCEPT ![lastID'] = q]
    /\ kind' = [kind EXCEPT ![lastID'] = k]
    /\ UNCHANGED <<attempt, clock, phase, worker, server, executed>>

Tick ==
    /\ clock < Horizon
    /\ clock' = clock + 1
    /\ UNCHANGED <<table, phase, worker, server, executed>>

-----------------------------------------------------------------------------
(* The runner's life.                                                      *)

\* Start spawns the workers.  A runner that was stopped is started again only
\* once its pool has drained (module RunnerLifecycle is about the rest).
Start(r) ==
    /\ phase[r] = "ready" \/ (phase[r] = "cancelled" /\ Drained(r))
    /\ phase' = [phase EXCEPT ![r] = "started"]
    /\ pc' = [w \in Worker |-> IF RunnerOf[w] = r THEN "idle" ELSE pc[w]]
    /\ UNCHANGED <<table, clock, held, copy, conn, server, executed>>

\* Stop, or the cancellation of the context Start was given.
Cancel(r) ==
    /\ "cancel" \in Faults
    /\ phase[r] = "started"
    /\ phase' = [phase EXCEPT ![r] = "cancelled"]
    /\ UNCHANGED <<table, clock, worker, server, executed>>

\* The process dies: its workers are gone, the rows stay as they are, and so do
\* the statements the server has of it.
Crash(r) ==
    /\ "crash" \in Faults
    /\ phase[r] # "down"
    /\ phase' = [phase EXCEPT ![r] = "down"]
    /\ pc' = [w \in Worker |-> IF RunnerOf[w] = r THEN "exited" ELSE pc[w]]
    /\ held' = [w \in Worker |-> IF RunnerOf[w] = r THEN NoJob ELSE held[w]]
    /\ copy' = [w \in Worker |-> IF RunnerOf[w] = r THEN 0 ELSE copy[w]]
    /\ conn' = [w \in Worker |-> IF RunnerOf[w] = r THEN NoSession ELSE conn[w]]
    /\ UNCHANGED <<table, clock, server, executed>>

Restart(r) ==
    /\ phase[r] = "down"
    /\ phase' = [phase EXCEPT ![r] = "ready"]
    /\ UNCHANGED <<table, clock, worker, server, executed>>

-----------------------------------------------------------------------------
(* Backend.Claim.                                                          *)

\* Mutant: rows that are being worked can be claimed.
ClaimableAny(j) == state[j] \in {"pending", "retrying", "running"}

Claimable(j) == state[j] \in {"pending", "retrying"}

\* Mutant: the records a queue ever started count, not those that run now.
StartedIn(q) == {j \in JobID : queue[j] = q /\ state[j] \notin {"absent", "pending"}}

RunningIn(q) == {j \in JobID : queue[j] = q /\ state[j] = "running"}

\* Mutant: one too many.
QueueOverfull(r, q) == Limit[r][q] > 0 /\ Cardinality(RunningIn(q)) > Limit[r][q]

\* The limit that runner r has for the queue is used up, whoever runs its records.
QueueFull(r, q) == Limit[r][q] > 0 /\ Cardinality(RunningIn(q)) >= Limit[r][q]

\* The records a Claim of runner r with time t may select now.
Eligible(r, t) ==
    {j \in JobID : /\ Claimable(j)
                   /\ runAt[j] <= t
                   /\ queue[j] \in Watched[r]
                   /\ ~QueueFull(r, queue[j])}

\* j comes first in (RunAt, ID) order.
Earliest(j, S) ==
    /\ j \in S
    /\ \A k \in S : runAt[j] < runAt[k] \/ (runAt[j] = runAt[k] /\ j <= k)

\* The claimed row: running, one more attempt.
MarkRunning(j) ==
    /\ state' = [state EXCEPT ![j] = "running"]
    /\ attempt' = [attempt EXCEPT ![j] = @ + 1]
    /\ UNCHANGED <<runAt, queue, kind, lastID>>

\* Worker w receives the claimed record.
Receive(w, j) ==
    /\ pc' = [pc EXCEPT ![w] = "claimed"]
    /\ held' = [held EXCEPT ![w] = j]
    /\ copy' = [copy EXCEPT ![w] = attempt[j] + 1]
    /\ conn' = [conn EXCEPT ![w] = NoSession]

\* In memory the mutex makes selection and update one step, and the context
\* is ignored: a cancelled worker whose timer fires first still claims.
ClaimInMemory(w) ==
    /\ Backend = "inmemory"
    /\ pc[w] = "idle"
    /\ \E j \in JobID :
           /\ Earliest(j, Eligible(RunnerOf[w], clock))
           /\ MarkRunning(j)
           /\ Receive(w, j)
    /\ UNCHANGED <<clock, phase, server, executed>>

-----------------------------------------------------------------------------
(* Statements of the PostgreSQL backend.                                   *)

\* Somebody waits for the answer of the session.
Awaited(s) == op[s] # "none" /\ client[s] # NoWorker /\ conn[client[s]] = s

\* Worker w sends a statement on a session that has none.
Send(w, s, o, t, R) ==
    /\ Backend = "pg" /\ ~Cancelled(w)
    /\ conn[w] = NoSession /\ op[s] = "none"
    /\ op' = [op EXCEPT ![s] = o]
    /\ client' = [client EXCEPT ![s] = w]
    /\ time' = [time EXCEPT ![s] = t]
    /\ rows' = [rows EXCEPT ![s] = R]
    /\ conn' = [conn EXCEPT ![w] = s]

\* The statement is over.
EndStatement(s) ==
    /\ op' = [op EXCEPT ![s] = "none"]
    /\ client' = [client EXCEPT ![s] = NoWorker]
    /\ time' = [time EXCEPT ![s] = 0]
    /\ rows' = [rows EXCEPT ![s] = {}]

SendClaim(w, s) ==
    /\ pc[w] = "idle"
    /\ Send(w, s, "sent", clock, {})
    /\ pc' = [pc EXCEPT ![w] = "claiming"]
    /\ UNCHANGED <<table, clock, phase, held, copy, executed>>

\* The due rows and the counts of running rows are those of the snapshot.
ClaimSnapshot(s) ==
    /\ op[s] = "sent"
    /\ op' = [op EXCEPT ![s] = "selected"]
    /\ rows' = [rows EXCEPT ![s] = Eligible(RunnerOf[client[s]], time[s])]
    /\ UNCHANGED <<table, clock, phase, worker, client, time, executed>>

\* Mutant: the row is updated as the snapshot had it.
LockableStale(s) == rows[s]

\* FOR UPDATE SKIP LOCKED rechecks the newest version of the row itself, not
\* the subquery that counted running rows under the snapshot.
Lockable(s) == {j \in rows[s] : Claimable(j) /\ runAt[j] <= time[s]}

\* The row is locked and updated; the worker reads it back if it still waits.
ClaimCommit(s) ==
    /\ op[s] = "selected"
    /\ \E j \in JobID :
           /\ Earliest(j, Lockable(s))
           /\ MarkRunning(j)
           /\ IF Awaited(s) THEN Receive(client[s], j) ELSE UNCHANGED worker
    /\ EndStatement(s)
    /\ UNCHANGED <<clock, phase, executed>>

\* A worker that has no record waits for its timer.
Idle(w) ==
    /\ pc' = [pc EXCEPT ![w] = "idle"]
    /\ held' = [held EXCEPT ![w] = NoJob]
    /\ copy' = [copy EXCEPT ![w] = 0]
    /\ conn' = [conn EXCEPT ![w] = NoSession]

\* No row was left to lock.
ClaimNothing(s) ==
    /\ op[s] = "selected" /\ Lockable(s) = {}
    /\ IF Awaited(s) THEN Idle(client[s]) ELSE UNCHANGED worker
    /\ EndStatement(s)
    /\ UNCHANGED <<table, clock, phase, executed>>

\* A database call of worker w may fail.
MayFail(w) == Backend = "pg" /\ (Cancelled(w) \/ "dberror" \in Faults)

\* The call returns an error, of Claim or of an update whose error is dropped
\* (_ = r.backend.Complete(...)); the session still has the statement.
GiveUp(w) ==
    /\ conn[w] # NoSession /\ MayFail(w)
    /\ Idle(w)
    /\ UNCHANGED <<table, clock, phase, server, executed>>

\* The server never gets the statement, or drops it when nobody waits for it.
DropStatement(s) ==
    /\ op[s] # "none" /\ ~Awaited(s)
    /\ EndStatement(s)
    /\ UNCHANGED <<table, clock, phase, worker, executed>>

\* Complete, Retry and Discard update the row by its identifier alone.
Settle(j, outcome, at) ==
    /\ state' = [state EXCEPT ![j] = outcome]
    /\ runAt' = IF outcome = "retrying" THEN [runAt EXCEPT ![j] = at] ELSE runAt
    /\ UNCHANGED <<attempt, queue, kind, lastID>>

\* The server executes the update, whether or not its worker waits for it.
SettleCommit(s) ==
    /\ op[s] \in Outcome
    /\ \E j \in rows[s] : Settle(j, op[s], time[s])
    /\ IF Awaited(s) THEN Idle(client[s]) ELSE UNCHANGED worker
    /\ EndStatement(s)
    /\ UNCHANGED <<clock, phase, executed>>

-----------------------------------------------------------------------------
(* JobRunner.work.                                                         *)

Decodes(w) == kind[held[w]] \in Registered[RunnerOf[w]]

\* runJob: Work returns, with an error when it fails or panics.
RunJob(w) ==
    /\ pc[w] = "claimed" /\ Decodes(w)
    /\ executed' = [executed EXCEPT ![held[w]] = @ + 1]
    /\ \E result \in {"worked", "failed"} : pc' = [pc EXCEPT ![w] = result]
    /\ UNCHANGED <<table, clock, phase, held, copy, conn, server>>

\* record.Attempt >= record.MaxAttempts, on the worker's copy.
Exhausted(w) == copy[w] >= MaxAttempts

Earlier(a, b) == IF a < b THEN a ELSE b

\* The call that work makes for its record: the outcome and, for Retry, the
\* time the record is due again.  What does not decode is discarded.
Complete(w, outcome) == pc[w] = "worked" /\ outcome = "succeeded"

Discard(w, outcome) ==
    /\ outcome = "discarded"
    /\ \/ pc[w] = "claimed" /\ ~Decodes(w)
       \/ pc[w] = "failed" /\ Exhausted(w)

Retry(w, outcome, at) ==
    /\ pc[w] = "failed" /\ ~Exhausted(w) /\ outcome = "retrying"
    /\ \E d \in Delay : at = Earlier(clock + d, Horizon)

Reports(w, outcome, at) ==
    \/ (Complete(w, outcome) \/ Discard(w, outcome)) /\ at = 0
    \/ Retry(w, outcome, at)

ReportInMemory(w) ==
    /\ Backend = "inmemory"
    /\ \E outcome \in Outcome, at \in 0..Horizon :
           Reports(w, outcome, at) /\ Settle(held[w], outcome, at)
    /\ Idle(w)
    /\ UNCHANGED <<clock, phase, server, executed>>

SendReport(w, s) ==
    /\ \E outcome \in Outcome, at \in 0..Horizon :
           Reports(w, outcome, at) /\ Send(w, s, outcome, at, {held[w]})
    /\ UNCHANGED <<table, clock, phase, pc, held, copy, executed>>

\* The call fails before anything is sent.
LoseReport(w) ==
    /\ conn[w] = NoSession /\ MayFail(w)
    /\ \E outcome \in Outcome, at \in 0..Horizon : Reports(w, outcome, at)
    /\ Idle(w)
    /\ UNCHANGED <<table, clock, phase, server, executed>>

\* runWorker returns on ctx.Done.
Exit(w) ==
    /\ pc[w] = "idle" /\ Cancelled(w)
    /\ pc' = [pc EXCEPT ![w] = "exited"]
    /\ UNCHANGED <<table, clock, phase, held, copy, conn, server, executed>>

-----------------------------------------------------------------------------

WorkerStep(w) ==
    \/ ClaimInMemory(w) \/ RunJob(w) \/ ReportInMemory(w) \/ LoseReport(w)
    \/ GiveUp(w) \/ Exit(w)
    \/ \E s \in Session : SendClaim(w, s) \/ SendReport(w, s)

ServerStep(s) ==
    ClaimSnapshot(s) \/ ClaimCommit(s) \/ ClaimNothing(s) \/ SettleCommit(s)

Next ==
    \/ \E r \in Runner, k \in Kind, q \in Queue, at \in 0..Horizon :
           Enqueue(r, k, q, at)
    \/ \E r \in Runner : Start(r) \/ Cancel(r) \/ Crash(r) \/ Restart(r)
    \/ \E w \in Worker : WorkerStep(w)
    \/ \E s \in Session : ServerStep(s) \/ DropStatement(s)
    \/ Tick

Spec == Init /\ [][Next]_vars

\* Goroutines are scheduled, Work returns, sessions execute what they were sent,
\* and time passes.
FairSpec ==
    /\ Spec /\ WF_vars(Tick)
    /\ \A w \in Worker : WF_vars(WorkerStep(w))
    /\ \A s \in Session : WF_vars(ServerStep(s))

-----------------------------------------------------------------------------
(* Properties.                                                             *)

\* A record is worked by at most one worker at a time, it is running while
\* it is, and the worker's copy of Attempt, on which work decides between
\* Retry and Discard, is the table's: the outcome is written by identifier
\* alone, so a second holder or a stale copy would overwrite the first.
ExclusiveWork ==
    \A w \in Worker : held[w] # NoJob =>
        /\ state[held[w]] = "running"
        /\ copy[w] = attempt[held[w]]
        /\ \A v \in Worker : held[v] = held[w] => v = w

\* A worker holds a record exactly while it is between Claim and outcome, and
\* pc tells whether it has called Work for the attempt it claimed.
WorkerPhase ==
    \A w \in Worker :
        /\ held[w] = NoJob <=> pc[w] \in {"exited", "idle", "claiming"}
        /\ pc[w] = "claimed" => executed[held[w]] + 1 = attempt[held[w]]
        /\ pc[w] \in {"worked", "failed"} => executed[held[w]] = attempt[held[w]]

\* A record that can be claimed has an attempt left and has been worked once
\* for each attempt it had; identifiers not yet given out are absent.
RecordPhase ==
    \A j \in JobID :
        /\ j > lastID => state[j] = "absent"
        /\ state[j] \in {"absent", "pending", "retrying"} =>
               executed[j] = attempt[j] /\ attempt[j] < MaxAttempts

\* Only a runner that was started has workers in their loops, and only the
\* PostgreSQL backend has statements.
PoolPhase ==
    /\ \A w \in Worker : phase[RunnerOf[w]] \in {"ready", "down"} => pc[w] = "exited"
    /\ \A s \in Session : op[s] # "none" => Backend = "pg"

\* A worker waits for a statement of its own, its Claim or the report on its
\* record, and it has sent the Claim it waits for.
WaitsForOwn(w) ==
    /\ pc[w] = "claiming" => conn[w] # NoSession
    /\ conn[w] # NoSession =>
          /\ client[conn[w]] = w
          /\ \/ op[conn[w]] \in {"sent", "selected"} /\ pc[w] = "claiming"
             \/ /\ op[conn[w]] \in Outcome /\ rows[conn[w]] = {held[w]}
                /\ held[w] # NoJob /\ (pc[w] = "claimed" => ~Decodes(w))

ConnPhase == \A w \in Worker : WaitsForOwn(w)

\* A report on its way is the only one on its record, which is still running and
\* which only the worker that waits for the report holds; it says what the
\* attempt came to.
ReportOn(s, j) ==
    /\ rows[s] = {j} /\ state[j] = "running"
    /\ \A w \in Worker : held[w] = j => conn[w] = s
    /\ \A t \in Session : op[t] \in Outcome /\ rows[t] = {j} => t = s
    /\ op[s] \in {"succeeded", "retrying"} => executed[j] = attempt[j]
    /\ op[s] = "retrying" => attempt[j] < MaxAttempts
    /\ op[s] = "discarded" /\ executed[j] = attempt[j] => attempt[j] >= MaxAttempts
    /\ executed[j] <= attempt[j]

\* Every report on its way is about some record.
ReportPhase ==
    \A s \in Session : op[s] \in Outcome => \E j \in JobID : ReportOn(s, j)

\* A session without a statement has nothing of one.
SessionPhase ==
    \A s \in Session :
        /\ op[s] = "none" <=> client[s] = NoWorker
        /\ op[s] \in {"none", "sent"} => rows[s] = {}

\* The inductive invariant: what a record went through, what its worker is
\* about to do with it and what the table says of it agree at every step.
IndInv ==
    /\ TypeOK /\ ExclusiveWork /\ WorkerPhase /\ RecordPhase /\ PoolPhase
    /\ ConnPhase /\ ReportPhase /\ SessionPhase

\* Every runner that watches the queue limits it, to n at most.
Watchers(q) == {r \in Runner : q \in Watched[r]}
LimitedTo(q, n) == \A r \in Watchers(q) : Limit[r][q] \in 1..n

\* No queue has more running records than the highest of the limits that the
\* runners watching it have (lazyjobs.Config.QueueLimits), whichever workers of
\* whichever runners claimed them.
QueueLimits ==
    \A q \in Queue : \A r \in Watchers(q) :
        LimitedTo(q, Limit[r][q]) => Cardinality(RunningIn(q)) <= Limit[r][q]

\* What remains of the limit under PostgreSQL: claims whose snapshots overlap can
\* exceed it, by at most one record for each other session of the server.  It is
\* the sessions that count and not the workers: a worker that gave up its Claim
\* may have another one executing while the server still has the first.
QueueOvershootBound ==
    \A q \in Queue : \A r \in Watchers(q) :
        LimitedTo(q, Limit[r][q]) =>
            Cardinality(RunningIn(q)) <= Limit[r][q] + Cardinality(Session) - 1

\* The sessions whose snapshot has a record of the queue.
ClaimingIn(q) ==
    {s \in Session : op[s] = "selected" /\ \E j \in rows[s] : queue[j] = q}

\* Why: a session takes its snapshot while the limit is not used up, and until it
\* commits it counts as much as the record it will run.
ClaimsAreCounted ==
    /\ \A s \in Session : op[s] = "selected" => \A j \in rows[s] : j <= lastID
    /\ \A q \in Queue : \A r \in Watchers(q) : LimitedTo(q, Limit[r][q]) =>
           Cardinality(RunningIn(q)) + Cardinality(ClaimingIn(q))
               <= Limit[r][q] + Cardinality(Session) - 1

\* A running record has a worker that will settle it.
NoStrandedRecord ==
    \A j \in JobID : state[j] = "running" => \E w \in Worker : held[w] = j

\* A running record that no worker holds and no statement on its way will settle.
Stranded(j) ==
    /\ state[j] = "running"
    /\ \A w \in Worker : held[w] # j
    /\ \A s \in Session : op[s] \in Outcome => j \notin rows[s]

\* The code has no recovery of running rows (locked_at is never read back): a
\* record whose worker is gone stays running, holds its place under the queue
\* limit and is never worked again.
StrandedForever ==
    [][\A j \in JobID : Stranded(j) => Stranded(j)' /\ attempt'[j] = attempt[j]]_vars

\* The documented life of every record (lazyjobs/doc.go).
Lifecycle == INSTANCE JobLifecycle
ImplementsLifecycle == Lifecycle!Spec

\* When Work has returned nil, the worker's next step records the success.
SuccessIsRecorded ==
    [][\A w \in Worker : pc[w] = "worked" /\ pc'[w] # "worked" =>
           state'[held[w]] = "succeeded"]_vars

\* While a runner that watches its queue stays up, every record is settled in
\* the end, however the others on its queue fail, retry and use up the limit,
\* and whichever other runners are stopped with records in hand.
EveryRecordSettles ==
    \A r \in Runner, j \in JobID :
        <>[](phase[r] = "started") =>
            ((state[j] # "absent" /\ queue[j] \in Watched[r]) ~> state[j] \in Settled)

\* Once its context is cancelled, a runner's pool drains, so Stop returns.
PoolDrains == \A r \in Runner : phase[r] = "cancelled" ~> Drained(r)

\* Work gets done: records are settled while somebody may work them, and a runner
\* that is told to stop lets go of them.
WorkGetsDone == EveryRecordSettles /\ PoolDrains

=============================================================================
