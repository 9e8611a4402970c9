# TLA+ models of golazy

golazy is a Go web framework: a dispatcher and its responses, sessions, caches,
websockets and event streams, an OAuth server, background jobs, migrations,
stored files and assets, dependency-managed services, add-ons, and the
application that starts and stops them. This directory holds models of the parts
whose correctness depends on the order in which goroutines, processes, disks and
networks do things, the TLC configurations that check them on small instances,
and proofs of the main theorems for instances of any size.

Paths are relative to the repository (`src/` in `PROJECT.json`).

## 1. Inventory

| Part | State it keeps | Operations | Interacts with | What is hard | What makes it correct |
|---|---|---|---|---|---|
| Worker pool (`lazyjobs/runner.go`, `types.go`) | per worker: the record it holds and its copy of it | `Enqueue*`, `runWorker`, `work`, `decode`, `runJob` | a backend, whose errors it drops | workers of several processes on one table, outcomes written by identifier alone, cancellation between any two calls | one worker for a record; documented life; every record settled; the pool drains |
| Job backends (`lazyjobs/inmemoryjobs`, `pg/pgjobs`) | jobs and schedules, under a mutex or in tables | `Insert`, `Claim`, `Complete`, `Retry`, `Discard`, schedules | runners of one or several processes | READ COMMITTED snapshots, lost replies, a cancelled context fails every call, processes die | queue limits; one worker for a record; nothing lost |
| Runner lifecycle (`JobRunner.Start`, `Stop`) | `started`, `cancel`, `done` under a mutex; a pool; a waiter | `Start`, `Stop` in two phases, the waiter's `close(r.done)` | its owner | `Stop` that gives up and is repeated; `Start` meanwhile; the unguarded read of `r.done` | `Stop` returns nil only after the workers; one pool; no double close |
| Scheduler (`runScheduler`, `scheduleClaimed`) | row of a schedule: next run, lock | `RegisterSchedule`, `ClaimSchedule`, `HasActiveScheduledJob`, `AdvanceSchedule` | backend; worker pool | four calls under a lock that goes stale and that a starting process clears | no overlapping runs; the schedule goes forward and goes on |
| Service graph (`lazydeps`) | services, nodes, edges, one stack of running initializers | `Service`, `Ref.Use`, `Shutdown` | the application and its services | nested, failing, concurrent initializers; interrupted, repeated, concurrent `Shutdown`; stop functions that hang | a service stops after its users; `Shutdown` ends; nil means stopped |
| Migrations (`lazymigrate/migrator.go`, `pg/pgmigrate`) | `lazy_migrations`, the schema, an advisory lock | `PlanUp/Down/Redo`, `Up`, `Down`, `Redo`, `Backend.Run` | processes of several builds | a plan made outside the lock is stale when its steps run; lost replies; edited files | schema and metadata agree; Down belongs to the Up that was run; order; completeness |
| OAuth server (`lazyoauth/oauth.go`, `store.go`) | clients, codes, refresh token families, in memory and in one file | registration, authorization, exchange, rotation, replay, revocation; the disk store's write and load | user agents | memory changes and then the write fails; the file is written in place; concurrent requests on one family | a code is used once; what was answered survives; nobody is accused of a replay for nothing |
| Websocket (`lazywebsocket/conn.go`) | per end: the channel `mu`, `writeErr`, `readErr`, fragments | `NextWriter`, `flushFrame`, `WriteControl`, `NextReader`, `advanceFrame`, the handlers | the other end, over a stream of bounded capacity | three goroutines of an end share `mu`; the reader writes; both streams full; deadlines; abandoned messages | legal frames; whole messages; nobody waits for ever |
| Dynamic requests (`lazydispatch`, `lazysession`, `lazysse`, `lazyroutes/actions.go`, `lazycontroller`) | the buffered response, the session registry and its saver, pooled controllers, the error state, a stream and its heartbeat | action, rendering, error pages, panics at each layer, session save, ETag, flush, heartbeat | the page cache; each other, as layers around one response | errors after a response was begun; panics on the way back; controllers used after release, their data and their cache keys; goroutines that outlive requests | one page per answer, made of the values of its own request and key, with the session and the status that belong to it |
| Page cache (`lazycache/inmemorycache`) | LRU list, bytes | `Get`, `Set`, eviction by entries and bytes | concurrent requests | replacement while others render; a value beyond the limit | limits, accounting, least recently used first |
| Add-ons (`lazyaddon`) | the catalog, the stack of `Resolve` | resolution with versions; callbacks of hooks with `Before` and `After` | the application's stages | cycles, optional add-ons, contradicting orders several add-ons away | requirements first; nothing runs when orders contradict |
| Control plane (`lazycontrolplane`) | endpoints, panels, checks, sealed | `Register*`, `Handle`, `Seal`, `EnablePprof`, `/readyz` | add-ons, jobs, telemetry, migrations | check then act on paths; registrations after the seal; two planes during start | one endpoint per pattern; ready means ready |
| Application (`lazyapp`) | stages of `New`, early listener, servers, services | `Execute`, `New`, `ListenAndServe`, `Shutdown` | all of the above | panics between stages, listeners that fail, signals, deadlines, a second `Shutdown` | order of start and of stop; the command gets on |
| Upload of assets (`lazyassets/upload.go`, `assetmigrate`) | lease and done marker in object storage, the upload's progress | `acquire`, heartbeat, `Upload`, `writeDone` | processes of a deployment; the storage | stale leases, late heartbeats, clocks that differ, two builds at once, requests that fail after their effect | what is marked as uploaded is there; the lease excludes; everybody gets an answer |
| Files and media (`lazyfiles`, `lazymedia`, their `jsonl` packages, `lazystorage/filesystem.go`) | objects, two catalogs, two append-only logs | `Put`, `Delete`, `Open`, `Variant`, replay | the disk; goroutines that generate one variant at once | torn and overlong lines, writes that fail half way, crashes with appends under way | memory is what the logs say; what is recorded can be served |

### Not modelled, and why

| Part | Reason |
|---|---|
| `lazytui/progress`, `lazylimit` | small state machines that could be modelled; left for later (section 6) |
| migration sources and catalogs (`lazymigrate/source.go`, `catalog.go`) | sorting and parsing of files, sequential |
| the PostgreSQL repositories of files and media, the S3 client, `pg/addon`, `pg/withpg` | single statements or requests; their state is in the services |
| `lazycache/cache.go` | wrappers of one key at a time |
| rendering, forms, mail, metadata, tokens, cookies, schema decoding, configuration, source editing, documentation, MCP and telemetry | no state between calls, or none a decision depends on |
| routing tables, parameter binding, handshake, masking, compression, cryptography, OAuth metadata | pure functions of their input; abstracted from in the models above |
| terminal and test tools | command-line parsing, byte streams, helpers for tests |

`PROJECT.json` lists every component with its status and what is left out.

## 2. Modules

| Module | Models | Actions and the code they stand for |
|---|---|---|
| `JobLifecycle` | what `lazyjobs/doc.go` promises of one record | `Insert`, `Claim`, `Work`, `Complete`, `Retry`, `Discard` |
| `JobRunner` | runners, their workers and the table they share, on either backend | `Enqueue`; `Start`, `Cancel`, `Crash`, `Restart`; `ClaimInMemory`; `SendClaim`, `ClaimSnapshot`, `ClaimCommit`, `ClaimNothing` (one `Claim` in PostgreSQL); `RunJob`, `ReportInMemory`, `SendReport`, `SettleCommit`, `LoseReport` (`work`); `GiveUp`, `DropStatement`; `Exit` |
| `RunnerLifecycle` | `Start` and `Stop` of one runner at the grain of its mutex and channels | `Start`, `ParentCancel`, `GoroutineReturns`, `WaiterCloses`, `StopBegin`, `StopCancel`, `StopReturns`, `StopTimesOut` |
| `JobScheduler` | one schedule and the schedulers of several processes | `ClaimSchedule`, `CheckActive`, `InsertJob`, `CallFails`, `Advance`, `Abandon`, `Register`, `SettleJob` |
| `LazyDeps` | one `Scope` | `BeginService`, `Use`, `FailService`, `AddNode`, `EndService`; `BeginShutdown`, `StopNext`, `StopFunctionReturns`, `NodeFinished`, `Interrupt`, `ShutdownReturns` |
| `Migrate` | processes that plan and run migrations on one database | `Plan`, `Lock`, `Check`, `Commit`, `CommitLost`, `Fail`, `Finish`, `Again` |
| `RefreshTokenStates` | the documented contract of `RefreshTokenStateStore`, one family | `CreateFamily`, `Rotate`, `Replay`, `RevokeFamily`, `Fail` |
| `OAuth` | the server's requests on the store and its file | one action per handler up to the write (`RegisterClient`, `Authorize`, `AuthorizationCodeToken`, `IssueTokens`, `Rotate`, `Replay`, `RevokeFamily`), one for the write and its answer (`ClientSaved`, `AuthCodeSaved`, `AuthCodeTaken`, `TokensSaved`, `RevocationSaved`), `SaveFails`, `Crash`, `Load` |
| `WebSocket` | both ends of one connection | `FlushFrame`, `SendPing`, `SendClose`, then `FrameStep` (`Acquire`, `Refused`, `TimesOut`, `Written`, `WriteFails`); `NextReader`, `ReadData`, `ExceedLimit`, `HandleClose`, `HandlePing`, `HandlePong`, `UnexpectedEOF`; `CloseConn` |
| `InMemoryCache` | the cache as operators on a record | `CacheHit`, `CacheSet`, `EnforceLimits` |
| `DynamicRequest` | a request from `DynamicRoute` to the client and back; `EXTENDS InMemoryCache` | `Dispatch`, `ChangeSession`, `CacheKey`, `ActionWrites`, `ActionReturns`, `Fails`, `Render*`, `StartStream`, `Tick`, `Beat`, `HandleError`, `Fallback`, `Release`, `ManagerSaves`, `MiddlewarePanics`, `ReportError`, `AnswerReported`, `Finish` |
| `Addons`, `ControlPlane`, `Application` | the life of an application; `Application` composes the other two | `ResolveStep`, `RunCallback`, `HookDone`, one action per stage of `New`, `Listen`, `ServerStep`, `StopOnSignal`, `StopOnError`, `StopControl`, `Collect`, `ShutDown`, `LateStep`, `ProbeStep`, `OutsideShutdown` |
| `AssetUpload` | the processes of a deployment and their object storage | `Check`, `Claim`, `Look`, `Wake`, `Steal` (`acquire`); `Heartbeat`; `Upload`, `UploadIsCancelled`, `UploadEnds`, `WriteDone`, `RefreshEnds` (`Run`); `RequestFails`, `HeartbeatFails`, `Restart`, `Tick` |
| `MediaFiles` | files, variants, their logs and objects | `Upload`, `WriteObject`, `Record` (`Files.Put`); `Delete`; `StartVariant`, `FindFile`, `OpenSource`, `Process`, `SaveVariant` (`Media.Variant`); `Fails`, `Crash`, `Reopen` |
| `*_proofs` | theorems: `ApplicationAndJobs_proofs` is about `Application`, `JobScheduler` and `RunnerLifecycle`, `Http_proofs` about `DynamicRequest` and `WebSocket`, the others about the module they are named after | |
| `MC*` | the small instances | |

Refinements: `JobRunner` implements `JobLifecycle` (`ImplementsLifecycle`), with
the identity on the three variables it speaks of; `OAuth` implements
`RefreshTokenStates` (`ImplementsStates`), mapped to the history of answers. The
modules of `lazyjobs` are cut where the code's calls cut them: `JobRunner!Start`
assumes that a stopped pool has drained, `RunnerLifecycle` is about when that is
so; `JobScheduler!SettleJob` stands for what `JobRunner` does to a scheduled
record. In `Application` services, migrations and jobs are up or down.

### Correspondence and abstractions

* Jobs: a record is its number in insertion order, its payload only whether its kind
  decodes; times are small integers on one clock, and `Retry` caps its run time at
  `Horizon`. PostgreSQL's `Claim` is one statement and two steps: `ClaimSnapshot`
  computes the due rows and which queues are full, `ClaimCommit` locks the first row
  still claimable, since `FOR UPDATE SKIP LOCKED` rechecks the row it locks but not
  the subquery that counted others. A row another claim holds locked counts as
  claimed. A statement whose caller gave up or died stays with its session, which
  may still execute and commit it. Database calls fail when the worker's context is
  cancelled and, under the fault `dberror`, at any time; a claim that fails may have
  been committed. A cancelled worker whose timer is ready picks either.
  `WaiterCloses` closes any channel `r.done` has referred to since its pool was
  started: the read of the field races with `Start`. `CheckActive` reads the clock
  at some moment between claim and its own call.
* `LazyDeps` keeps the `Scope`'s single stack next to each goroutine's own; the
  application's own node has no influence on the order and is left out.
  `overlapped` is history: initializers of two goroutines were on the stack at
  once.
* Migrations: a number in source order, its file's content a model value, a plan
  two sets. `Setup`, parsing and progress reports are left out; `net` and
  `undone` are history.
* OAuth: identifiers are numbered in the order they were drawn, which is the order
  they expire in. A request that is refused without touching the store leaves no
  trace and has no action. A write is one step that may leave the file whole,
  torn or empty; an empty file is read as a new store, a torn one fails to load.
  `standing` is the last answer about a family, `doubt` the families a failed
  call was about: there the user agent cannot know what the store has.
* Websockets: a frame is one unit of length that carries its message and place.
  The stream has room for `Capacity` frames; a write that fails may leave a frame
  cut short. A lost connection looks like one that was closed.
* Requests: a page is its kind, whose values it shows and the key that request had
  asked for; a body is a set of pages. What is rendered shows whatever the
  controller's `data` have at that moment, and the cache keeps what was rendered
  under the key its controller has by then; `asked` is history, the key the action
  gave. A key stands for what `lazycache.Key` makes of the parts, so keys that
  collide are equal keys here. Each element of `Request` is a connection that asks
  again and again. `trouble` is history: the response had been begun when an error
  came, or a middleware panicked on the way back.
* Application: stages of `New` that can only succeed or panic are part of the stage
  that follows. `Shutdown` of the services ends with all of them stopped (`deps =
  "down"`) or gives up when its ten seconds are over (`"left"`); what it does in
  between is `LazyDeps`. Patterns are compared as they are written: that two
  wildcard patterns of `http.ServeMux` may also conflict is left out. A signal that
  kills the process ends a behaviour early and is left out.
* Assets: ages are counted in ticks up to `MaxAge`; each process has a clock that
  is ahead by `Ahead`. `current` says who knows the ETag the lease has now. A
  request takes effect at one moment, or fails before or after it.
* Files: a body is its checksum, an ID a number in the order IDs were made. An
  append is one step: whole, cut short, or whole and not reported. A line is
  `large` if it is over the limit of the scanner that replays it; the lines of
  variants are taken to be short, though the same limit is on them
  (`lazymedia/jsonl/repository.go:150`). A cut just
  before the end of a line counts as cut short. `Filesystem.Put` renames a
  temporary file; that it does not sync it, so that a loss of power may lose
  bytes, is left out. The unguarded reads of `r.files` and `r.variants`
  (`lazyfiles/jsonl/repository.go:66`, `lazymedia/jsonl/repository.go:94`), which
  the Go runtime may answer by ending the process, are part of `Crash`.

Definitions whose comment begins with "Mutant" are not part of a model: each is
a plausible wrong version of the definition below it, and `PROJECT.json` names
the property that fails when it takes that definition's place.

## 3. Runs

| Run | Instance | Shows |
|---|---|---|
| `jobs_inmemory` | two runners of one worker each, a limited and an unlimited queue, a kind one runner does not know, two records, two attempts, stops at any time | `QueueLimits`; with fairness `WorkGetsDone` (`EveryRecordSettles`, `PoolDrains`) |
| `jobs_pg` | two processes on two sessions of PostgreSQL, one queue whose limit is one in one process and two in the other; two records of two attempts, or four that are not retried; crashes, failing calls, stops | `ExclusiveWork`, `QueueOvershootBound`, `StrandedForever`, `ImplementsLifecycle` |
| `runner_stop` | two callers, three pools of two goroutines, deadlines, `Start` and `Stop` in any order | `PoolsDoNotMeet` (with `NoDoubleClose`, `OnePool`), `StopDrains`; with fairness `StopTerminates` |
| `scheduler_all` | two schedulers, an interval of two, locks stale after two and held for as long, crashes, failing calls, starting processes | `SchedulersExclude` (`OneScheduler`, `OverlapBound`), `ScheduleGoesOn` (`NextRunAdvances`, and with fairness `DueIsAdvanced`) |
| `deps` | two goroutines, three services, nesting of two, a failure, three uses, two `Shutdown`s with deadlines, a stop function that hangs | `GraphIsOrdered` (`NoCycle`, `EdgesDescend`), `StopOrder` (`DependentsFirst`, `UsersFirst`), `ReturnedMeansStopped`; with fairness `ShutdownEnds` |
| `migrate` | two builds, three migrations, two contents, four operations of all kinds, rollbacks, lost replies | `SchemaMatchesMetadata`, `SourceOrder` (`NoGap`, `UpIsComplete`), `DownMatchesUp`; with fairness `OperationEnds` |
| `oauth` | two requests at once, one code, one family, three tokens, two writes that fail, a crash at any moment, tokens and codes that expire | `CodeUsedOnce`, `AnswersSurvive` (`StandingIsHonoured`, `ClientsAreKept`), `NoFalseReplay`, `ImplementsStates` |
| `websocket` | a client with one message, a ping and a close, a server with a message of two fragments and a ping, room for one frame, read limits, deadlines, lost connections | `FramesAreLegal` (`LastFrameIsLast`, `NoProtocolError`), `MessagesArriveWhole`; with fairness `NobodyWaitsForEver` (`WritersUnblock`, `CloseEndsReading`) |
| `http` | two connections, one of which may stream, two controllers, with sessions and without, two cache keys, page sizes below and above the limit | `AnswersAreComplete` (`WholeAnswers`, `OneLateFrame`, `SessionAnswered`), `OwnPages`, `ErrorsKeepStatus`, `CacheKeepsRecent` (`CacheAccounts`, `RecentlyUsedStay`) |
| `app` | every requirement graph of three add-ons under `help`; an application in 38 settings of mode, control plane, jobs and metrics; failing listeners, late registrations, signals, a second `Shutdown`, services that do not stop in time | `StartsInOrder`, `StopsInOrder`, `PlaneIsConsistent`, `PlaneKeepsItsWord`; with fairness `CommandEnds` (`StartupEnds`, `SignalEndsServing`) |
| `assets` | two processes of one build or of two, a migration each or one for both, storages with and without conditions, clocks that differ by a tick, a failing request, a restart | `UploadsAreComplete` (`DoneIsTrue`, `ManifestIsServable`), `LeaseExcludes`; with fairness `UploadSettles` |
| `files` | two goroutines, three files under their own keys or one chosen key, four lines, a failing request, a crash | `MemoryFollowsLogs`, `FilesAreServable` |

Deadlock is checked in `http`, whose connections ask for ever. The
other instances stop when a bound or the end of the story is reached, or, in `files`
and `oauth`, when the code refuses to start on a log or a file it cannot read.

Bounds and why they are enough: two records and one place in a queue make a worker
wait, two workers make claims overlap, two attempts make a retry and an exhausted
record; three pools let a waiter close the channel of a later pool and another
follow it; a lock held for exactly `StaleAfter` is at the boundary where the two
backends differ (`>=` in memory, `<` in SQL); three uses among three services make
chains and shared dependencies; four operations let two processes go up, one go down
or redo, and one start again after a failure; three tokens let a family be rotated
and an old token be replayed, two failing writes let a failure meet another; room
for one frame fills both streams; three add-ons make the orders that contradict each
other through a third; `MaxAge` is one tick past the age at which any clock takes a
lease for stale; two keys make one request's page displace another's, where there
are neither sessions nor streams (`CacheBound`: with sessions there is one key and
nothing is evicted, and a stream is sent only while nothing is cached); a highest
limit of two and two sessions take four records to exceed the bound on overshooting,
and these are there from the start and are not retried (`RetriedOrMany`); two assets
of one logical path make two builds overwrite each other; three files are a source
and the outputs of two attempts. `MaxActive` in `scheduler_all` lies above what
`OverlapBound` allows. `HoldAssumption` of `JobScheduler` is on the environment: a
scheduler slower than five minutes loses its lock to another, in which case the code
promises nothing. `files`, `http` (its controllers and keys) and `jobs_pg` (its
sessions) use symmetry; they check safety only, and nothing in them tells the
permuted values apart.

Fairness: goroutines that can go on do (Go's scheduler), jobs and stop functions
return (except those in `Hangs`), database sessions execute what they were sent,
time passes. In `JobRunner`, `JobScheduler`, `WebSocket` and `AssetUpload` it is on
the step of an actor as a whole, so that a call may go on failing where it may fail.
`Migrate` needs strong fairness of `Lock`: PostgreSQL grants an advisory lock to its
waiters in turn. In `WebSocket` the application's readers read until there is an
error. In `Application` servers answer requests or lose them to a deadline, and the
callbacks and configuration functions `New` runs return; a stage need not panic
unless what it does is refused (`Refused`). Nothing is assumed of callers, crashes,
failures, signals or heartbeats. Deadlines pass: `ShutdownStep`, `FrameStep` and the
end of `Shutdown` include the step a deadline takes.

### Disagreements seen while modelling

Each of these is visible in the models; the properties state the exception, so
that a run shows there is no other. Dropping the exception makes TLC print the
behaviour.

1. In PostgreSQL the queue limit is not enforced atomically across processes, as
   `CHANGELOG.md:161` and `pg/CHANGELOG.md:17` say it is: overlapping claims each
   count without the other (`pg/pgjobs/backend.go:78`). `QueueLimits` fails under
   `JobRunnerPg.cfg`; `QueueOvershootBound` is what remains.
2. A job that succeeds after `Stop` cancelled the runner's context is not recorded
   (`lazyjobs/runner.go:456`), against `lazyjobs/doc.go:18`; its row stays running
   for ever (`StrandedForever`). `SuccessIsRecorded` fails under
   `JobRunnerPg.cfg`.
3. The waiter closes whatever channel `r.done` is by then
   (`lazyjobs/runner.go:284`), though the runner "owns worker lifecycle"
   (`lazyjobs/doc.go:16`): after a `Stop` that gave up and a new `Start`, a later
   `Stop` returns while workers run or waits for ever, or the channel is closed
   twice, which panics. The properties of `runner_stop` except the pools started
   that way (`startedEarly`).
4. A process that starts clears the lock of a scheduler at work
   (`pg/pgjobs/backend.go:253`, `inmemoryjobs.go:187`), and two jobs of one
   schedule are active; the tests (`lazyjobs/runner_test.go`) expect one.
   `NoOverlap` fails under `SchedulerAll.cfg`.
5. With two goroutines that initialise services at once, a use is attributed to
   the wrong service (`lazydeps/lazydeps.go:302`) and a service is stopped before
   one that uses it, against `lazydeps/doc.go:8`. `UsersFirst` excepts
   `overlapped`.
6. With sessions configured, an action that wrote and then fails is answered with
   the error page and the status 200: `responseTracker` drops every status after
   the first (`lazyroutes/actions.go:335`) and the reset of the buffer below it
   does not reach it. `lazyroutes/actions_test.go:372` expects the status of the
   error, and runs without sessions. `ErrorsKeepStatus` excepts it.
7. In mode up, when the early control listener has failed and the `Close` of the
   mode has taken its only error, the `Close` that `New` defers receives for ever
   (`lazyapp/migrations.go:150`). `StartupEnds` excepts `early = "drained"`.
8. A JSONL log with a line cut short, or one over 64 KB, which `Put` accepts, keeps
   its repository from opening again (`lazyfiles/jsonl/repository.go:184`); there
   is no action of `MediaFiles` after that.
9. An application shuts its services down while the workers of its job runner,
   which it never stops, may be using them (`lazyapp/app.go:380`); in the tests
   the runner's owner stops it.
10. The error of a middleware that panics on the way back is rendered with the
   controller the request reported, which may serve another request by then
   (`lazycontroller/error_handler.go:98`): the answer shows the other's values, and
   its own may get into the other's, though they are "request-local"
   (`lazycontroller/doc.go:52`). `OwnPages` excepts that answer (`late`) and what it
   leaves behind (`Stray`).

## 4. Theorems

All hold for any values of the constants that satisfy the assumptions named in
the modules. Each component's invariant is in its module, as a conjunction of named
parts, and was checked by TLC on the instance of its run before it was proved.

`JobRunner_proofs` (any runners, workers, queues, limits, kinds, attempts and
faults, both backends): `Invariance` of `IndInv`. Type correctness alone is not
inductive (`attempt` is incremented), nor is `ExclusiveWork`: that a claim cannot
take a record somebody works on needs that a held record is running, and that the
copy of `Attempt` is the row's needs that nobody but the holder changes it.
`IndInv` adds `WorkerPhase` (a worker holds a record exactly between claim and
outcome), `RecordPhase` (a claimable record has an attempt left), `PoolPhase`,
and, for the statements that outlive their callers, `ConnPhase` (a worker waits
for a statement of its own), `SessionPhase` and `ReportPhase` (a report still on
its way is the only one on its record, nobody but the worker that waits for it
holds the record, and it says what the attempt came to): without the last, a late
`Complete` could overwrite somebody else's attempt.
From it `Typing`, `Exclusion`, `Refinement` (every step is a step of one record's
documented life or leaves it alone), `NoRecovery`, and `InMemoryLimits`. For
PostgreSQL `Overshoot` bounds what overlapping claims add, since a session that
has taken a snapshot counts as much as the record it will run
(`ClaimsAreCounted`). It is sessions, not workers, that bound the excess, because
a worker that gave up a claim may have another one executing.

`Migrate_proofs`: `Invariance`: the advisory lock excludes (`LockHeld`), so what a
process checked under it still holds when it commits (`CheckStillHolds`), so each
commit moves schema and metadata together; without `CheckStillHolds` a Down could
be committed for a migration somebody else took down. From it `SchemaAgrees` and
`DownMatches`. `SchemaInOrder` has an assumption of its own, `SourcesArePrefixes`:
builds follow each other, so that one that has a migration has all before it. Its
invariant adds `PlansHaveNoGap`, that what comes before a migration still planned
is recorded, planned too, or was taken down by somebody meanwhile.

`ApplicationAndJobs_proofs`, the application (any add-ons, versions, requirements
and hooks, any way of starting, any requests and late registrations):
`Invariance` of `IndInv`, which goes along what happens in a process.

* Resolution. `TrailIsPath`: the visits under way are a path of requirements, and a
  requirement that was taken up is finished or next on the path. So a visit that
  meets itself has found a cycle, and an order that is complete has none
  (`OrderIsRight`). `UsesFit` and `RequirementsFit`: what is in use is wanted by
  somebody in that version, so a refusal has a reason (`~Acceptable`), and an
  acceptance has none. The reference definition, `Reach`, is a union of sets; it is
  proved to be closed and the least that is (`ReachIsClosed`, `ReachIsLeast`).
* Hooks. `HooksFit`: a callback has run only after those of what its add-on
  requires. The order the hooks are given is that of the accepted selection.
* The plane. Every operation takes a plane that fits to one that fits and has all
  that was there (`PlaneFits`, lemmas `EndpointFollows`, `PanelFollows`,
  `CheckFollows`, `PprofFollows`, `SealedGrows`), whoever holds it. `PlaneIsReady`
  says what is registered at each stage, and that nothing is sealed before
  `Listen`.
* Migrations. That `/readyz` does not answer ready too early is not inductive: the
  checks are copied before they are run, so `MigrationsFit` speaks of the copy, and
  of whoever can ask by then: the early listener, for which the check was added, or
  a server, which starts after the migrations.
* Shutdown. `ListenersFit` relates servers and requests to the place of the
  command: no request runs before the application's server does, none is accepted
  once it was told to stop. `ShutdownFits` does so for the services and the one
  Shutdown: what it answers every caller, nil or an error, says whether the services
  were stopped or left.

From it `StartOrder`, `StopOrder`, `PlaneConsistency` and the action property
`PlaneWord`.

The schedulers, in the same module (any schedulers, intervals and polls):
`SchedulerInvariance` of `SchedulerInv`, from `HoldAssumption`, that a round is over
before its lock is stale, with the boundary each backend has. That schedulers
exclude each other is not inductive: it needs that one at work claimed no longer
ago than it may hold the lock (`HoldsAreShort`) and that the row's lock is its own
unless a lock was cleared (`OwnsTheLock`). After that `RoomForAll` counts jobs
together with the schedulers about to insert one. From it `Exclusion` and
`Progress`, the safety half of `ScheduleGoesOn`.

The runner, too (any callers, goroutines and pools): `RunnerInvariance` of
`RunnerInv`. That no channel is closed twice is not inductive: it needs that a pool
started with no stopped one draining finds no earlier pool (`EarlierAreGone`), so
that its waiter is the only one that can read its channel from `r.done`
(`PoolsAreKnown`), and `ClosedMeansGone`. From it `Separation` and `Draining`.

`LazyDeps_proofs` (any services, goroutines, failing initializers and concurrent
Shutdowns): `Invariance` of `IndInv`. An edge leads to a service whose `Ref` was
returned, and when it is recorded that of its source was not (`EdgesAreLate`, from
`StacksAgree`), so every set of services has one that no other of the set uses:
no cycle, and a Shutdown always finds a next node. `PassedAreStopped` is what
Shutdowns that share nodes know of each other. From it `Order`,
`DependentsStopFirst` and `ReturnIsTheEnd`.

`OAuth_proofs` (any number of requests, clients, codes, families, crashes and
failing writes): `Invariance` of `IndInv`. That a code is used once needs
`CodesAgree`: a code that was exchanged is gone from memory and from the file, and
a code whose removal is being written was not exchanged. The claims about tokens
need `FamiliesAgree`, that neither memory nor the file is behind the last answer
and that the call in progress is about to replace just that (`FamilyFits`,
`CallFits`), and `TokensAreKept`, which says of the file what `StandingIsHonoured`
says of memory, so that it survives `Load`. From it `CodesAreUsedOnce`,
`Survival`, `Accusation` and `Refinement` to `RefreshTokenStates`.

`AssetUpload_proofs` (any processes, builds, plans, clocks and faults):
`Invariance` of `IndInv`. `DoneIsTrue` is not inductive by itself: `WritesAreSaved`
adds that what a process has written so far is there, which other builds cannot
undo since a permanent path has the hash of its content in it. Exclusion needs
`LeaseIsKnown`: whoever knows the current ETag is the owner or has seen the lease
stale, and who works without owning it is overdue. From it `Completeness` and
`Exclusion`.

`Http_proofs`, requests (any connections, controllers, pages, sizes and limits,
with sessions and without): `Invariance` of `IndInv`. A controller of one request
is in nobody else's hands nor in the pool, and has that request's data, at most
those of an error that was reported too late, and the key that was asked for
(`OwnController`), so what is cached under a key was rendered for it (`KeptFits`),
and what the buffer or the stream has is of one piece and shows what it may
(`GoodBuffer`). That a stored session
reaches the client needs to know what may still be reset (`StoredIsOnItsWay`), that
one frame at most follows the end of a stream needs what the heartbeat has in its
hands (`OneFrame`). The cache's account
is the sum of its entries because each key is in its order once (`CacheIsSound`),
and eviction takes the shortest tail that is enough. From it `CompleteAnswers`,
`AnswersAreOwn`, `ErrorsAreErrors` and `RecentPagesStay`.

`Http_proofs`, web sockets (any messages, fragments, control frames, room and
limits): `SocketInvariance` of `SocketInv`. Neither end sees what the other has
in mind, so the invariant runs along the bytes between them (`StreamInOrder`): each
data frame follows the one before it, the first follows what the reader has, the
writer is at the last, whatever control frames other goroutines put in between.
`JobsFit` says what a goroutine that holds or waits for the mutex writes. From it
`LegalFrames` and `WholeMessages`.

`MediaFiles_proofs` (any callers, contents and names, any faults and crashes):
`Invariance` of `IndInv`. What a replay makes of a log is a fold; that a line
appended changes it at one identifier is proved by looking at the smallest prefix
for which it would not hold. Memory is what the lines make that were reported as
written, while the process is up (`MemoryIsKnown`). A put has its object, unless
another upload chose the same key, and a delete follows the put it takes back
(`LinesAreTrue`, `DeletesFollow`); this needs that nobody else writes the key a
caller was given (`JobFits`, `FreshIDs`). A variant is saved after its output
(`OutputsAreThere`). From it `RecordsSurvive` and `FilesServed`.

Only model-checked: everything about liveness, which is out of the prover's
reach; every safety property that a run checks has its theorem. The library's
theorems on induction cannot be used, since they take an operator as a parameter;
where a proof needs induction over numbers or the length of a sequence it takes the
smallest counterexample of a set, which exists because the order of the numbers is
well-founded (`EveryNumber`).

## 5. Reading the project

Each module begins with what it models and ends with its properties; an
inductive invariant, where there is one, comes last. `PROJECT.json` has, for
every definition, the lines it stands for, for every run and property the
mutant that breaks it, and the hazards with the lines where they bite.

## 6. Plan

1. `Progress` (`lazytui/progress`): tasks that report from several goroutines to
   one renderer; `TokenBucket` (`lazylimit`) with its clock.
2. `Filesystem.Put` under a loss of power, with what is synced and what is not,
   below `MediaFiles`; conditional writes on S3 below `AssetUpload`.
3. The order of migration sources as operators against a reference definition.
4. Theorems: operators of `Addons` and `InMemoryCache` against further reference
   definitions; the parts of items 1 to 3.
