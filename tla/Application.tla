------------------------------ MODULE Application ------------------------------
(***************************************************************************)
(* lazyapp: an application from its command line to the end of its process  *)
(* (lazyapp/app.go, cli.go, migrations.go, jobs.go, telemetry.go).          *)
(*                                                                         *)
(* One goroutine runs the command: Execute resolves the add-ons, New builds *)
(* the application stage by stage, ListenAndServe serves it until a signal  *)
(* or the failure of a server, and Shutdown stops its services.  Beside it  *)
(* run the control plane's early listener, the servers, the requests, a     *)
(* probe of /readyz, a holder of the control plane that registers late, and *)
(* a caller of Shutdown from outside the command.                           *)
(*                                                                         *)
(* The services themselves (LazyDeps), the migrations (Migrate) and the job *)
(* runner (JobRunner, RunnerLifecycle) have modules of their own; here they *)
(* are up or down.  The stages of New that can only succeed or panic are    *)
(* part of the stage that follows.  A signal that kills the process only    *)
(* ends a behaviour early and is left out.                                  *)
(***************************************************************************)
EXTENDS Addons, ControlPlane

CONSTANTS
    Boot,        \* what the process is started with
    Request,     \* requests for pages, each made once
    LateEndpoint, LatePanel, \* what the late registrar tries to register
    EarlyFails,  \* the early listener may stop accepting by itself
    MaxLate      \* bound: attempts of the late registrar

\* command: help never builds the application, routes does not serve it.
\* control: CONTROL_PLANE_ADDR is absent, the application's address, or its own.
\* plane: Config.ControlPlane is set, to a plane somebody else may hold too.
BootRecord ==
    [command : {"help", "routes", "run"}, mode : {"off", "auto", "up"},
     control : {"none", "same", "own"}, plane : BOOLEAN, jobs : BOOLEAN,
     metrics : BOOLEAN]

ASSUME BootAssumption == /\ \A b \in Boot : b.start \in BootRecord /\ b.program \in Program
                         /\ EarlyFails \in BOOLEAN /\ MaxLate \in Nat

Server == {"app", "control"}

\* The hooks run by Execute and New, and the stage that follows each.
Hook == {"cli", "files", "dependencies", "migrations", "jobs", "routes", "helpers", "endpoints"}
AfterHook ==
    [h \in Hook |-> CASE h = "cli" -> "control"
                      [] h = "files" -> "services"
                      [] h = "dependencies" -> "migrations"
                      [] h = "migrations" -> "migrate"
                      [] h = "jobs" -> "start jobs"
                      [] h = "routes" -> "helpers"
                      [] h = "helpers" -> "check jobs"
                      [] h = "endpoints" -> "build"]

InNew == (Hook \ {"cli"}) \cup
    {"control", "services", "migrate", "start jobs", "check jobs", "handle jobs",
     "check metrics", "handle metrics", "need plane", "build", "unwinding"}
Serving == {"serving", "stop app", "stop control", "collect", "close early"}
Over == {"done", "refused", "panicked", "exited"}

VARIABLES
    start,      \* the BootRecord
    main,       \* where the command is
    ran,        \* add-ons whose callback has run at the current hook
    plane,
    early,      \* the early listener: off, serving, failed (Serve returned an
                \* error), closed, or drained (closed, its error already taken)
    migrating,  \* the flag behind the readiness check "migrations"
    migrated,
    deps,       \* the services: none, up, stopping, down, or left when the time
                \* to stop them ran out: what had not stopped may still run
    jobs,       \* the runner was started; nothing here ever stops it
    server,     \* off, starting, serving, closed (told to stop), ended
    failed,     \* servers whose goroutine returned an error
    overdue,    \* the time to shut the servers down ran out
    signalled,
    once,       \* shutdownOnce: free, or who is in it, or done
    answer,     \* what Shutdown returned to the command: none, nil, error
    outside,    \* the other caller of Shutdown: idle, waiting, or its answer
    request,    \* none, running, hijacked, finished
    probe,      \* idle, ready, refused, or the checks it goes through
    late        \* attempts of the late registrar

appVars == <<start, main, ran, plane, early, migrating, migrated, deps, jobs, server,
             failed, overdue, signalled, once, answer, outside, request, probe, late>>
vars == <<addonVars, appVars>>

TypeOK ==
    /\ AddonTypeOK
    /\ start \in BootRecord
    /\ main \in InNew \cup Serving \cup Over \cup {"resolve", "cli", "listen", "deps", "cleanup"}
    /\ ran \subseteq Addon
    /\ early \in {"off", "serving", "failed", "closed", "drained"}
    /\ {migrating, migrated, jobs, overdue, signalled} \subseteq BOOLEAN
    /\ deps \in {"none", "up", "stopping", "down", "left"}
    /\ server \in [Server -> {"off", "starting", "serving", "closed", "ended"}]
    /\ failed \subseteq Server
    /\ once \in {"free", "main", "outside", "done"}
    /\ answer \in {"none", "nil", "error"}
    /\ outside \in {"idle", "waiting", "nil", "error"}
    /\ request \in [Request -> {"none", "running", "hijacked", "finished"}]
    /\ late \in 0..MaxLate
    /\ plane.pprof => \A i \in DOMAIN PprofEndpoints : PprofEndpoints[i] \in plane.endpoints

Init ==
    /\ \E b \in Boot : program = b.program /\ start = b.start
    /\ AddonInit
    /\ main = "resolve" /\ ran = {}
    /\ plane = IF start.plane THEN NewPlane ELSE NoPlane
    /\ early = "off" /\ migrating = FALSE /\ migrated = FALSE
    /\ deps = "none" /\ jobs = FALSE
    /\ server = [s \in Server |-> "off"] /\ failed = {}
    /\ overdue = FALSE /\ signalled = FALSE
    /\ once = "free" /\ answer = "none" /\ outside = "idle"
    /\ request = [r \in Request |-> "none"]
    /\ probe = [at |-> "idle", checks |-> {}] /\ late = 0

\* What the steps of the command leave alone.
others == <<signalled, outside, request, probe, late>>
serveVars == <<server, failed, overdue>>
planeVars == <<plane, early, migrating>>
serviceVars == <<migrated, deps, jobs>>

GoTo(stage) == main' = stage /\ UNCHANGED <<start, others>>

---------------------------------------------------------------------------
(* Execute and New.                                                         *)

\* New resolves the same selection again, from the same catalog.
Resolve ==
    /\ main = "resolve" /\ ResolveStep
    /\ main' = CASE verdict' = "open" -> "resolve"
                 [] verdict' = "accepted" -> "cli"
                 [] OTHER -> "refused"
    /\ UNCHANGED <<start, others, ran, planeVars, serviceVars, serveVars, once, answer>>

\* An add-on's callback.  At the control-plane hook it registers an endpoint
\* and a panel of its own, and fails when either is refused.
OwnEndpoint(a) == Endpoint(a, a, "GET", a)
OwnPanel(a) == [id |-> a, owner |-> a, endpoint |-> a]

RegistersOwn(a) ==
    /\ Registers(plane, OwnEndpoint(a))
    /\ RegistersPanel(WithEndpoint(plane, OwnEndpoint(a)), OwnPanel(a))

RunCallback(a) ==
    /\ main \in Hook /\ ~cyclic /\ MayRun(a, ran)
    /\ IF main = "endpoints"
       THEN /\ RegistersOwn(a)
            /\ plane' = WithPanel(WithEndpoint(plane, OwnEndpoint(a)), OwnPanel(a))
       ELSE UNCHANGED plane
    /\ ran' = ran \cup {a}
    /\ UNCHANGED <<addonVars, main, start, others, early, migrating, serviceVars, serveVars, once, answer>>

\* With the help command the hook is all that happens.
HookDone ==
    /\ main \in Hook /\ ~cyclic /\ ran = Callbacks
    /\ ran' = {}
    /\ GoTo(IF main = "cli" /\ start.command = "help" THEN "done" ELSE AfterHook[main])
    /\ UNCHANGED <<addonVars, planeVars, serviceVars, serveVars, once, answer>>

\* prepareMigrationControlPlane, which does nothing unless migrations run and
\* the plane has an address of its own.  The early listener serves from here.
UsesEarlyControl == start.mode # "off" /\ start.control = "own"

Control ==
    /\ main = "control"
    /\ LET given == IF plane.built THEN plane ELSE NewPlane
           checked == WithCheck(given, "migrations")
       IN IF UsesEarlyControl
          THEN /\ EnablesPprof(checked) /\ ~given.sealed
               /\ plane' = WithPprof(checked)
               /\ early' = "serving" /\ migrating' = TRUE
          ELSE UNCHANGED planeVars
    /\ GoTo("files")
    /\ UNCHANGED <<addonVars, ran, serviceVars, serveVars, once, answer>>

\* The scope of services exists before the hook fills it.
Services ==
    /\ main = "services"
    /\ deps' = "up"
    /\ GoTo("dependencies")
    /\ UNCHANGED <<addonVars, ran, planeVars, migrated, jobs, serveVars, once, answer>>

\* migrationControlPlane.Close takes the one value Serve leaves in errs.  In
\* mode up a listener that had failed makes it return that error, and New
\* panics instead of ending the process; the deferred Close then waits for a
\* second value.
RunMigrations ==
    /\ main = "migrate" /\ start.mode # "off"
    /\ migrated' = TRUE /\ migrating' = FALSE
    /\ IF start.mode = "auto" THEN GoTo("jobs") /\ UNCHANGED early
       ELSE IF early = "failed" THEN GoTo("unwinding") /\ early' = "drained"
       ELSE GoTo("exited") /\ early' = (IF early = "off" THEN "off" ELSE "closed")
    /\ UNCHANGED <<addonVars, ran, plane, deps, jobs, serveVars, once, answer>>

SkipMigrations ==
    /\ main = "migrate" /\ start.mode = "off"
    /\ GoTo("jobs")
    /\ UNCHANGED <<addonVars, ran, planeVars, serviceVars, serveVars, once, answer>>

StartJobs ==
    /\ main = "start jobs"
    /\ jobs' = start.jobs
    /\ GoTo("routes")
    /\ UNCHANGED <<addonVars, ran, planeVars, migrated, deps, serveVars, once, answer>>

\* jobsControlPlane and telemetryControlPlane: look at the path, then register
\* under it.  The two calls take the plane's lock separately.
CheckPath(stage, wanted, path, handle, next) ==
    /\ main = stage
    /\ plane' = IF wanted /\ ~plane.built THEN NewPlane ELSE plane
    /\ GoTo(IF wanted /\ ~HandlesPath(plane', path) THEN handle ELSE next)
    /\ UNCHANGED <<addonVars, ran, early, migrating, serviceVars, serveVars, once, answer>>

Handle(stage, path, next) ==
    /\ main = stage
    /\ Registers(plane, LegacyEndpoint("GET", path))
    /\ plane' = WithEndpoint(plane, LegacyEndpoint("GET", path))
    /\ GoTo(next)
    /\ UNCHANGED <<addonVars, ran, early, migrating, serviceVars, serveVars, once, answer>>

JobsControlPlane ==
    \/ CheckPath("check jobs", start.jobs, "/jobs", "handle jobs", "check metrics")
    \/ Handle("handle jobs", "/jobs", "check metrics")

\* The control-plane hook is skipped without a plane and without callbacks;
\* with callbacks a plane is made for them.
TelemetryControlPlane ==
    \/ CheckPath("check metrics", start.metrics, "/metrics", "handle metrics", "need plane")
    \/ Handle("handle metrics", "/metrics", "need plane")

NeedPlane ==
    /\ main = "need plane"
    /\ plane' = IF Callbacks # {} /\ ~plane.built THEN NewPlane ELSE plane
    /\ GoTo(IF plane'.built THEN "endpoints" ELSE "build")
    /\ UNCHANGED <<addonVars, ran, early, migrating, serviceVars, serveVars, once, answer>>

Build ==
    /\ main = "build"
    /\ GoTo(IF start.command = "run" THEN "listen" ELSE "cleanup")
    /\ UNCHANGED <<addonVars, ran, planeVars, serviceVars, serveVars, once, answer>>

\* Any stage of New may panic: a callback or a configuration function fails,
\* a value is refused, an address is taken.
StagePanics ==
    /\ main \in (InNew \cup {"cli"}) \ {"unwinding"}
    /\ GoTo(IF main = "cli" THEN "panicked" ELSE "unwinding")
    /\ UNCHANGED <<addonVars, ran, planeVars, serviceVars, serveVars, once, answer>>

LegacyRefused(path) == ~Registers(plane, LegacyEndpoint("GET", path))

\* Where New panics for certain: the callbacks of the hook contradict each
\* other, or what the stage registers is refused.
Refused ==
    \/ main \in Hook /\ cyclic
    \/ main = "control" /\ UsesEarlyControl
       /\ LET given == IF plane.built THEN plane ELSE NewPlane
          IN given.sealed \/ ~EnablesPprof(WithCheck(given, "migrations"))
    \/ main = "handle jobs" /\ LegacyRefused("/jobs")
    \/ main = "handle metrics" /\ LegacyRefused("/metrics")
    \/ main = "endpoints" /\ \E a \in Addon : MayRun(a, ran) /\ ~RegistersOwn(a)

RefusalPanics == Refused /\ StagePanics

\* Mutant: Close waits for an answer the serving goroutine cannot give.
UnwindBlocked ==
    /\ main = "unwinding" /\ early \notin {"drained", "serving"}
    /\ early' = IF early = "off" THEN "off" ELSE "closed"
    /\ GoTo("panicked")
    /\ UNCHANGED <<addonVars, ran, plane, migrating, serviceVars, serveVars, once, answer>>

\* The deferred Close of a New that did not return.
Unwind ==
    /\ main = "unwinding" /\ early # "drained"
    /\ early' = IF early = "off" THEN "off" ELSE "closed"
    /\ GoTo("panicked")
    /\ UNCHANGED <<addonVars, ran, plane, migrating, serviceVars, serveVars, once, answer>>

---------------------------------------------------------------------------
(* ListenAndServe.                                                          *)

Started == {s \in Server : server[s] # "off"}

\* handlersForListen and the choice of servers.  Without an address there is
\* no control plane to serve, and it is never sealed.
Listen ==
    /\ main = "listen"
    /\ LET given == IF plane.built THEN plane ELSE NewPlane
       IN CASE start.control = "none" -> UNCHANGED plane
            [] start.control = "same" -> plane' = Sealed(given)
            [] start.control = "own" -> EnablesPprof(given) /\ plane' = Sealed(WithPprof(given))
    /\ server' = [s \in Server |->
                    IF s = "app" \/ (start.control = "own" /\ early = "off") THEN "starting" ELSE "off"]
    /\ GoTo("serving")
    /\ UNCHANGED <<addonVars, ran, early, migrating, serviceVars, failed, overdue, once, answer>>

ListenPanics ==
    /\ main = "listen" /\ start.control = "own"
    /\ ~EnablesPprof(IF plane.built THEN plane ELSE NewPlane)
    /\ GoTo("panicked")
    /\ UNCHANGED <<addonVars, ran, planeVars, serviceVars, serveVars, once, answer>>

ToldToStop(S) == [s \in Server |-> IF s \in S /\ server[s] \in {"starting", "serving"} THEN "closed" ELSE server[s]]

\* A signal: the servers are shut down one after the other, each until its
\* requests are over, within one timeout.
StopOnSignal ==
    /\ main = "serving" /\ signalled
    /\ server' = ToldToStop({"app"})
    /\ GoTo("stop app")
    /\ UNCHANGED <<addonVars, ran, planeVars, serviceVars, failed, overdue, once, answer>>

AppIsIdle == \A r \in Request : request[r] # "running"

\* Mutant: the servers are told to stop and not waited for.
StopControlAtOnce ==
    /\ main = "stop app"
    /\ server' = ToldToStop({"control"})
    /\ GoTo("collect")
    /\ UNCHANGED <<addonVars, ran, planeVars, serviceVars, failed, overdue, once, answer>>

StopControl ==
    /\ main = "stop app" /\ (AppIsIdle \/ overdue)
    /\ server' = ToldToStop({"control"})
    /\ GoTo("collect")
    /\ UNCHANGED <<addonVars, ran, planeVars, serviceVars, failed, overdue, once, answer>>

ShutdownTimesOut ==
    /\ main = "stop app" /\ ~AppIsIdle
    /\ overdue' = TRUE
    /\ UNCHANGED <<addonVars, main, start, others, ran, planeVars, serviceVars, server, failed, once, answer>>

\* The first server to fail: all are closed, and their requests are not
\* waited for.
StopOnError ==
    /\ main = "serving" /\ failed # {}
    /\ server' = ToldToStop(Server)
    /\ GoTo("collect")
    /\ UNCHANGED <<addonVars, ran, planeVars, serviceVars, failed, overdue, once, answer>>

Collect ==
    /\ main = "collect" /\ \A s \in Started : server[s] = "ended"
    /\ early' = IF early = "off" THEN "off" ELSE "closed"
    /\ GoTo("deps")
    /\ UNCHANGED <<addonVars, ran, plane, migrating, serviceVars, serveVars, once, answer>>

\* shutdownDependencies: sync.Once runs one Shutdown, whose ten seconds may
\* run out while services still run; a second caller waits for it and gets the
\* same error.  The command calls it when serving ended and again in the
\* Cleanup of its controller.
ShutdownErr == IF deps = "left" THEN "error" ELSE "nil"

ShutDown(stage, next) ==
    /\ main = stage
    /\ \/ once = "free" /\ once' = "main" /\ deps' = "stopping" /\ UNCHANGED <<main, answer>>
       \/ once = "main" /\ once' = "done" /\ deps' \in {"down", "left"}
          /\ answer' = ShutdownErr' /\ main' = next
       \/ once = "done" /\ answer' = ShutdownErr /\ main' = next /\ UNCHANGED <<once, deps>>
    /\ UNCHANGED <<addonVars, start, others, ran, planeVars, migrated, jobs, serveVars>>

Finish == ShutDown("deps", "cleanup") \/ ShutDown("cleanup", "done")

Command ==
    \/ Resolve \/ HookDone \/ Control \/ Services \/ RunMigrations \/ SkipMigrations
    \/ StartJobs \/ JobsControlPlane \/ TelemetryControlPlane \/ NeedPlane \/ Build
    \/ RefusalPanics \/ Unwind
    \/ Listen \/ ListenPanics \/ StopOnSignal \/ StopControl \/ StopOnError \/ Collect \/ Finish
    \/ \E a \in Addon : RunCallback(a)

---------------------------------------------------------------------------
(* Everybody else.                                                          *)

Bind(s) ==
    /\ server[s] = "starting"
    /\ \/ server' = [server EXCEPT ![s] = "serving"] /\ UNCHANGED failed
       \/ server' = [server EXCEPT ![s] = "ended"] /\ failed' = failed \cup {s}

ServeFails(s) ==
    /\ server[s] = "serving"
    /\ server' = [server EXCEPT ![s] = "ended"]
    /\ failed' = failed \cup {s}

ServeReturns(s) ==
    /\ server[s] = "closed"
    /\ server' = [server EXCEPT ![s] = "ended"]
    /\ UNCHANGED failed

ServerStep(s) ==
    /\ Bind(s) \/ ServeFails(s) \/ ServeReturns(s)
    /\ UNCHANGED <<addonVars, main, start, others, ran, planeVars, serviceVars, overdue, once, answer>>

EarlyListenerFails ==
    /\ EarlyFails /\ early = "serving"
    /\ early' = "failed"
    /\ UNCHANGED <<addonVars, main, start, others, ran, plane, migrating, serviceVars, serveVars, once, answer>>

\* Signals are caught between the start of the servers and the first of them.
Signal ==
    /\ main = "serving" /\ ~signalled
    /\ signalled' = TRUE
    /\ UNCHANGED <<addonVars, main, start, outside, request, probe, late, ran, planeVars, serviceVars, serveVars, once, answer>>

\* A request runs in a handler until it ends, or is taken over (a websocket):
\* then no server waits for it.
RequestStep(r) ==
    /\ \/ server["app"] = "serving" /\ request[r] = "none" /\ request' = [request EXCEPT ![r] = "running"]
       \/ request[r] = "running" /\ \E s \in {"hijacked", "finished"} : request' = [request EXCEPT ![r] = s]
       \/ request[r] = "hijacked" /\ request' = [request EXCEPT ![r] = "finished"]
    /\ UNCHANGED <<addonVars, main, start, signalled, outside, probe, late, ran, planeVars, serviceVars, serveVars, once, answer>>

\* The plane is served on the early listener, on its own server, or before the
\* pages of the application.
PlaneIsServed ==
    \/ early = "serving"
    \/ server["control"] = "serving"
    \/ start.control = "same" /\ server["app"] = "serving"

\* readyz copies the checks under the lock and runs the copies after it.
ProbeStep ==
    /\ \/ /\ PlaneIsServed /\ probe.at # "asked"
          /\ probe' = [at |-> "asked", checks |-> plane.checks]
       \/ /\ probe.at = "asked"
          /\ \E said \in {"ready", "refused"} :
                /\ said = "ready" => ~("migrations" \in probe.checks /\ migrating)
                /\ said = "refused" =>
                      ("migrations" \in probe.checks /\ migrating) \/ probe.checks \ {"migrations"} # {}
                /\ probe' = [at |-> said, checks |-> {}]
    /\ UNCHANGED <<addonVars, main, start, signalled, outside, request, late, ran, planeVars, serviceVars, serveVars, once, answer>>

\* Somebody who keeps the plane: the code that built it, or an add-on after
\* its callback.  What is refused changes nothing.
HoldsPlane ==
    plane.built /\ (start.plane \/ (Callbacks # {} /\ main \in Serving \cup {"build", "listen", "deps"}))

LateStep ==
    /\ HoldsPlane /\ late < MaxLate /\ late' = late + 1
    /\ \/ \E e \in LateEndpoint : plane' = IF Registers(plane, e) THEN WithEndpoint(plane, e) ELSE plane
       \/ \E p \in LatePanel : plane' = IF RegistersPanel(plane, p) THEN WithPanel(plane, p) ELSE plane
       \/ plane' = IF plane.sealed THEN plane ELSE WithCheck(plane, "late")
    /\ UNCHANGED <<addonVars, main, start, signalled, outside, request, probe, ran, early, migrating, serviceVars, serveVars, once, answer>>

OutsideShutdown ==
    /\ \/ /\ outside = "idle" /\ main \in Serving \cup {"listen", "deps", "cleanup"}
          /\ outside' = "waiting"
          /\ IF once = "free" THEN once' = "outside" /\ deps' = "stopping" ELSE UNCHANGED <<once, deps>>
       \/ /\ outside = "waiting" /\ once = "outside"
          /\ once' = "done" /\ deps' \in {"down", "left"} /\ outside' = ShutdownErr'
       \/ /\ outside = "waiting" /\ once = "done"
          /\ outside' = ShutdownErr /\ UNCHANGED <<once, deps>>
    /\ UNCHANGED <<addonVars, main, start, signalled, request, probe, late, ran, planeVars, migrated, jobs, serveVars, answer>>

Next ==
    \/ Command \/ StagePanics \/ ShutdownTimesOut
    \/ \E s \in Server : ServerStep(s)
    \/ EarlyListenerFails \/ Signal
    \/ \E r \in Request : RequestStep(r)
    \/ ProbeStep \/ LateStep \/ OutsideShutdown

Spec == Init /\ [][Next]_vars

\* The command's goroutine runs, and with it the callbacks and the configuration
\* functions New calls, which are assumed to return; each server's returns once
\* it is told to stop, the ten seconds of a shutdown pass, and a Shutdown that
\* began goes on.  That a stage panics is never assumed: New panics where what it
\* registers is refused, and anywhere else it may.
Fairness ==
    /\ WF_vars(Command) /\ WF_vars(ShutdownTimesOut)
    /\ \A s \in Server : WF_vars(server[s] # "serving" /\ ServerStep(s))
    /\ WF_vars(outside # "idle" /\ OutsideShutdown)

FairSpec == Spec /\ Fairness

---------------------------------------------------------------------------
(* Properties.                                                              *)

\* A hook's callbacks have all run before New goes past it, an add-on's after
\* those of everything it requires; when they contradict each other none runs
\* (hook.go:156, 226).
CallbacksInOrder ==
    /\ cyclic => ran = {}
    /\ \A a \in ran : \A b \in Callbacks : DependsOn(a, b) => b \in ran
    /\ main \in Serving => \A a \in Callbacks : OwnEndpoint(a) \in plane.endpoints

\* While migrations are configured to run, neither a job nor a page is served
\* before they are done, and mode up never gets that far (README.md:64).
MigratedFirst ==
    start.mode # "off" /\ (jobs \/ Started # {}) => migrated /\ start.mode = "auto"

\* The early listener does not outlive a New that panics or ends the process,
\* and no listener outlives ListenAndServe (app.go:173, 619, migrations.go:150).
NoListenerLeft ==
    /\ main \in {"panicked", "exited"} \cup (IF start.command = "run" THEN {"deps", "cleanup", "done"} ELSE {}) =>
          early \notin {"serving", "failed"}
    /\ main \in {"deps", "cleanup", "done"} => \A s \in Server : server[s] \in {"off", "ended"}

\* Requests in their handlers lose the services only after a server failed,
\* the time to shut down ran out, or somebody else called Shutdown
\* (app.go:630, 766).
ServicesOutliveRequests ==
    deps \notin {"none", "up"} /\ failed = {} /\ ~overdue /\ outside = "idle" => AppIsIdle

\* Whoever is told by Shutdown that all went well returns to services that have
\* stopped, all callers are told the same, and the command does not end without
\* an answer; who is told of an error may have left services running when the
\* time ran out (app.go:638, lazydeps/lazydeps.go:231, 252).
ReturnedMeansStopped ==
    /\ "nil" \in {answer, outside} => deps = "down"
    /\ "error" \in {answer, outside} => deps = "left"
    /\ main = "done" /\ start.command # "help" => answer # "none"

\* Endpoints have one identity and one pattern each, a panel shows an endpoint
\* of its owner, and the path of the jobs is served (controlplane.go:439, 295).
PlaneIsConsistent ==
    /\ \A e, f \in plane.endpoints : e.id = f.id \/ SamePattern(e, f) => e = f
    /\ \A p \in plane.panels : \E e \in plane.endpoints :
          e.id = p.endpoint /\ e.owner = p.owner /\ e.method # "POST"
    /\ start.jobs /\ main \in Serving => HandlesPath(plane, "/jobs")

\* The command gets past New: it serves, ends or panics.  The one exception is
\* mode up after the early listener failed, which blocks in the deferred Close.
StartupEnds == (main \in InNew) ~> (main \notin InNew \/ early = "drained")

\* After a signal, or the failure of a server, ListenAndServe returns.
SignalEndsServing == (signalled \/ failed # {}) ~> (main = "done")

\* The command goes on: it gets past New, and ends when it is told to.
CommandEnds == StartupEnds /\ SignalEndsServing

\* What depends on something comes after it: add-ons after those they require, at
\* resolution and in hooks, jobs and pages after the migrations.
StartsInOrder ==
    TypeOK /\ ResolveIsExact /\ RequiredFirst /\ CallbacksInOrder /\ MigratedFirst

\* Nothing is taken from those who use it: listeners end before New's caller goes
\* on, requests before the services, services before Shutdown answers nil.
StopsInOrder == NoListenerLeft /\ ServicesOutliveRequests /\ ReturnedMeansStopped

\* The control plane keeps its word: /readyz never answers ready while the
\* migrations run (README.md:68), and from Seal on nothing is added.
PlaneKeepsItsWord ==
    [][ /\ plane.sealed => plane' = plane
        /\ probe.at = "asked" /\ probe'.at = "ready" => start.mode = "off" \/ migrated ]_vars

---------------------------------------------------------------------------
(* The inductive invariant of the application.                              *)

\* Where the command is before it listens, and after each of its duties.
Starting == {"resolve", "cli"} \cup InNew
PastHooks == {"build", "listen"} \cup Serving
PastJobs == {"check metrics", "handle metrics", "need plane", "endpoints"} \cup PastHooks
PastMigrations ==
    {"jobs", "start jobs", "routes", "helpers", "check jobs", "handle jobs"} \cup PastJobs
Stopping == {"collect", "deps", "cleanup", "done"}

\* Hooks run for an accepted selection, and their callbacks one after what it needs.
HooksFit ==
    /\ verdict = "accepted" \/ main \in {"resolve", "refused"}
    /\ main \notin Hook \cup {"unwinding", "panicked"} => ran = {}
    /\ cyclic => ran = {}
    /\ \A a \in ran : \A b \in Callbacks : DependsOn(a, b) => b \in ran

IsPlane(p) ==
    /\ p = [built |-> p.built, endpoints |-> p.endpoints, panels |-> p.panels,
            checks |-> p.checks, pprof |-> p.pprof, sealed |-> p.sealed]
    /\ {p.built, p.pprof, p.sealed} \subseteq BOOLEAN

\* What every operation of a plane keeps.
PlaneFits(p) ==
    /\ IsPlane(p)
    /\ ~p.built => p = NoPlane
    /\ \A e, f \in p.endpoints : e.id = f.id \/ SamePattern(e, f) => e = f
    /\ \A q \in p.panels : \E e \in p.endpoints :
          e.id = q.endpoint /\ e.owner = q.owner /\ e.method # "POST"
    /\ p.pprof => \A i \in DOMAIN PprofEndpoints : PprofEndpoints[i] \in p.endpoints

\* The plane is sealed by Listen, and has by then what the stages before it registered.
PlaneIsReady ==
    /\ main \in Starting \cup {"listen"} => ~plane.sealed
    /\ main \in {"handle jobs", "handle metrics", "endpoints"} => plane.built
    /\ start.jobs /\ main \in PastJobs => HandlesPath(plane, "/jobs")
    /\ main \in PastHooks => \A a \in Callbacks : OwnEndpoint(a) \in plane.endpoints
    /\ main = "endpoints" => \A a \in ran : OwnEndpoint(a) \in plane.endpoints
    /\ early # "off" => plane.built /\ plane.pprof

\* Who asks before the migrations are done is answered by their check.
MigrationsFit ==
    /\ main \in PastMigrations \/ jobs \/ Started # {} =>
          start.mode = "off" \/ (migrated /\ start.mode = "auto")
    /\ early # "off" /\ ~migrated => migrating /\ "migrations" \in plane.checks
    /\ probe.at = "asked" =>
          start.mode = "off" \/ migrated \/ ("migrations" \in probe.checks /\ migrating)

\* Servers serve between Listen and Collect, and requests run in them.
ListenersFit ==
    /\ NoListenerLeft
    /\ main \in {"resolve", "cli"} => early = "off"
    /\ main \in Starting \cup {"listen", "refused", "panicked", "exited"} =>
          \A s \in Server : server[s] = "off"
    /\ server["app"] = "off" => AppIsIdle
    /\ main \in Stopping \cup {"stop app"} => server["app"] \notin {"starting", "serving"}
    /\ main \in Stopping /\ failed = {} /\ ~overdue => AppIsIdle

\* The services stop once, for whoever asks first.
ShutdownFits ==
    /\ main \in Starting => once = "free" /\ outside = "idle"
    /\ ReturnedMeansStopped
    /\ once = "done" => deps \in {"down", "left"}
    /\ answer # "none" \/ outside \in {"nil", "error"} => once = "done"
    /\ deps \notin {"none", "up"} /\ outside = "idle" => main \in {"deps", "cleanup", "done"}

IndInv ==
    /\ TypeOK /\ ResolveInv /\ HooksFit /\ PlaneFits(plane) /\ PlaneIsReady
    /\ MigrationsFit /\ ListenersFit /\ ShutdownFits

=============================================================================
