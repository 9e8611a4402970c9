------------------------------ MODULE AssetUpload ------------------------------
(***************************************************************************)
(* The upload of a build's assets to object storage as a migration         *)
(* (lazyassets/assetmigrate/assetmigrate.go, lazyassets/upload.go).  Every  *)
(* process of a deployment runs it when it starts.  Marker objects keep    *)
(* them apart: a lease that is written on condition that it is absent or   *)
(* still has the ETag that was read, refreshed by a heartbeat, taken over  *)
(* when its time is old, and never deleted; and a done marker.  Builds     *)
(* have migrations of their own unless the configuration gives all of them *)
(* one ID.  A storage that knows no conditions (lazystorage.Filesystem)     *)
(* writes the lease and is found out by the option it left.  A request to   *)
(* the storage may fail before or after it took effect, and a process may   *)
(* crash or fail at any step and be started again.                         *)
(***************************************************************************)
EXTENDS Integers, Sequences

CONSTANTS Process,     \* the processes that start
          Build, Deployments,   \* the builds, and which may run together
          Assets,      \* per build, the assets of its registry in order
          Mode,        \* "permanent", "logical" or "both" paths are written
          WriteManifest,   \* whether the manifest is
          Path, Hash,  \* logical paths, and hashes of contents
          ID, Naming,  \* migration IDs, and the ways builds may be given them
          Ahead,       \* how much the clock of a process is ahead, in ticks
          StaleAfter, HeartbeatEvery,   \* in ticks
          MaxFaults,   \* bound: requests that fail, and crashes
          MaxRestarts, \* bound: processes that are started again
          None

ASSUME AssetUploadAssumption ==
    /\ Deployments \subseteq [Process -> Build] /\ None \notin Process \cup Build \cup Hash
    /\ Assets \in [Build -> Seq([path: Path, hash: Hash])]
    /\ Mode \in {"permanent", "logical", "both"} /\ WriteManifest \in BOOLEAN
    /\ Naming \subseteq [Build -> ID]
    /\ Ahead \in [Process -> Nat]
    /\ StaleAfter \in Nat \ {0} /\ HeartbeatEvery \in Nat \ {0}
    /\ MaxFaults \in Nat /\ MaxRestarts \in Nat

VARIABLES
    buildOf,      \* the build of each process
    idOf,         \* the migration of each build
    conditional,  \* whether the storage knows conditional writes
    lease,        \* per migration, who wrote the lease, and its age
    current,      \* per migration, who knows the ETag the lease has now
    done,         \* per migration, the build in the done marker
    objects,      \* what the storage has under each key
    pc,           \* per process, where Backend.Run is
    written,      \* per process, how much of its plan it has written
    beating,      \* per process, whether its heartbeat runs
    lost,         \* per process, whether the heartbeat failed and cancelled
    since,        \* history: per process, ticks since it wrote the lease
    faults, restarts

markers == <<lease, current, done>>
own == <<pc, written, beating, lost, since>>
bounds == <<faults, restarts>>
deployment == <<buildOf, idOf, conditional>>
vars == <<deployment, markers, objects, own, bounds>>

\* The paths Registry.Upload writes of every asset, and the manifest at the end.
Ways == CASE Mode = "logical" -> <<"logical">>
          [] Mode = "permanent" -> <<"permanent">>
          [] Mode = "both" -> <<"logical", "permanent">>
Paths(b) == Len(Ways) * Len(Assets[b])
ManifestKey == <<"manifest", None, None>>
Manifest(b) == [key |-> ManifestKey, content |-> b]

\* A permanent path has the hash of its content in it.
PathEntry(b, i) ==
    LET asset == Assets[b][((i - 1) \div Len(Ways)) + 1]
        way == Ways[((i - 1) % Len(Ways)) + 1]
    IN  [key |-> <<way, asset.path, IF way = "permanent" THEN asset.hash ELSE None>>,
         content |-> asset.hash]

Plan ==
    [b \in Build |->
        [i \in 1..(Paths(b) + (IF WriteManifest THEN 1 ELSE 0)) |->
            IF i > Paths(b) THEN Manifest(b) ELSE PathEntry(b, i)]]

Key == UNION {{Plan[b][i].key : i \in 1..Len(Plan[b])} : b \in Build}
Content == Hash \cup Build \cup {None}

MaxAge == StaleAfter + HeartbeatEvery   \* ages are counted no further
Older(n) == IF n < MaxAge THEN n + 1 ELSE n

Init ==
    /\ buildOf \in Deployments /\ idOf \in Naming /\ conditional \in BOOLEAN
    /\ lease = [m \in ID |-> [owner |-> None, age |-> 0]]
    /\ current = [m \in ID |-> {}]
    /\ done = [m \in ID |-> None]
    /\ objects = [k \in Key |-> None]
    /\ pc = [p \in Process |-> "check"]
    /\ written = [p \in Process |-> 0]
    /\ beating = [p \in Process |-> FALSE]
    /\ lost = [p \in Process |-> FALSE]
    /\ since = [p \in Process |-> 0]
    /\ faults = 0 /\ restarts = 0

Mine(p) == idOf[buildOf[p]]
Goto(p, place) == pc' = [pc EXCEPT ![p] = place]
Still == UNCHANGED <<deployment, bounds>>

\* What the process keeps of its upload is gone with it.
Forget(p) ==
    /\ beating' = [beating EXCEPT ![p] = FALSE]
    /\ written' = [written EXCEPT ![p] = 0]
    /\ lost' = [lost EXCEPT ![p] = FALSE]
    /\ since' = [since EXCEPT ![p] = 0]

\* Backend.Run returns an error, which also cancels the heartbeat.
Give(p) == Goto(p, "failed") /\ Forget(p)

-----------------------------------------------------------------------------
(* Backend.acquire.                                                          *)

\* applied: List reads the done marker, and compares it.
Check(p) ==
    /\ pc[p] = "check"
    /\ Goto(p, CASE done[Mine(p)] = None -> "claim"
                 [] done[Mine(p)] = buildOf[p] -> "applied"
                 [] OTHER -> "failed")
    /\ UNCHANGED <<markers, objects, written, beating, lost, since>> /\ Still

\* The lease is written; the process has its ETag, and nobody else does.
WriteLease(p) ==
    /\ lease' = [lease EXCEPT ![Mine(p)] = [owner |-> p, age |-> 0]]
    /\ current' = [current EXCEPT ![Mine(p)] = {p}]
    /\ UNCHANGED done

Owns(p) ==
    /\ Goto(p, "upload")
    /\ written' = [written EXCEPT ![p] = 0]
    /\ beating' = [beating EXCEPT ![p] = TRUE]
    /\ lost' = [lost EXCEPT ![p] = FALSE]
    /\ since' = [since EXCEPT ![p] = 0]

Claim(p) ==
    /\ pc[p] = "claim"
    /\ \/ conditional /\ lease[Mine(p)].owner = None /\ WriteLease(p) /\ Owns(p)
       \/ /\ conditional /\ lease[Mine(p)].owner # None
          /\ Goto(p, "look")
          /\ UNCHANGED <<markers, written, beating, lost, since>>
       \/ ~conditional /\ WriteLease(p) /\ Give(p)
    /\ UNCHANGED objects /\ Still

\* The age of the lease by the clock of the process.
SeenAge(p, l) == l.age + Ahead[p] - Ahead[l.owner]

\* Mutant: a lease is not taken over.
LookForever(p) ==
    /\ pc[p] = "look"
    /\ current' = [current EXCEPT ![Mine(p)] = @ \cup {p}]
    /\ Goto(p, "wait")
    /\ UNCHANGED <<lease, done, objects, written, beating, lost, since>> /\ Still

\* The lease is read, with its ETag: it is stale, or the process sleeps.
Look(p) ==
    /\ pc[p] = "look"
    /\ current' = [current EXCEPT ![Mine(p)] = @ \cup {p}]
    /\ Goto(p, IF SeenAge(p, lease[Mine(p)]) < StaleAfter THEN "wait" ELSE "steal")
    /\ UNCHANGED <<lease, done, objects, written, beating, lost, since>> /\ Still

Wake(p) ==
    /\ pc[p] = "wait"
    /\ Goto(p, "check")
    /\ UNCHANGED <<markers, objects, written, beating, lost, since>> /\ Still

\* Mutant: a stale lease is taken over whatever it is by now.
StealBlindly(p) ==
    /\ pc[p] = "steal"
    /\ WriteLease(p) /\ Owns(p)
    /\ UNCHANGED objects /\ Still

Steal(p) ==
    /\ pc[p] = "steal"
    /\ \/ p \in current[Mine(p)] /\ WriteLease(p) /\ Owns(p)
       \/ /\ p \notin current[Mine(p)]
          /\ Goto(p, "check")
          /\ UNCHANGED <<markers, written, beating, lost, since>>
    /\ UNCHANGED objects /\ Still

-----------------------------------------------------------------------------
(* The upload and its heartbeat.                                             *)

\* The ticker fires and the lease is written with the ETag of the last write;
\* when another ETag is there, the upload is cancelled.
Heartbeat(p) ==
    /\ beating[p] /\ since[p] >= HeartbeatEvery
    /\ \/ /\ p \in current[Mine(p)]
          /\ WriteLease(p)
          /\ since' = [since EXCEPT ![p] = 0]
          /\ UNCHANGED <<beating, lost>>
       \/ /\ p \notin current[Mine(p)]
          /\ beating' = [beating EXCEPT ![p] = FALSE]
          /\ lost' = [lost EXCEPT ![p] = TRUE]
          /\ UNCHANGED <<markers, since>>
    /\ UNCHANGED <<objects, pc, written>> /\ Still

Entry(p) == Plan[buildOf[p]][written[p] + 1]
Complete(p) == written[p] = Len(Plan[buildOf[p]])
Put(p) == objects' = [objects EXCEPT ![Entry(p).key] = Entry(p).content]

Upload(p) ==
    /\ pc[p] = "upload" /\ ~Complete(p) /\ ~lost[p]
    /\ Put(p)
    /\ written' = [written EXCEPT ![p] = @ + 1]
    /\ UNCHANGED <<markers, pc, beating, lost, since>> /\ Still

\* The context was cancelled, whether or not the request had gone out, or the
\* heartbeat's error is found after the last write.
UploadIsCancelled(p) ==
    /\ pc[p] = "upload" /\ lost[p]
    /\ Give(p)
    /\ UNCHANGED objects \/ (~Complete(p) /\ Put(p))
    /\ UNCHANGED markers /\ Still

\* No error of the heartbeat is there: the lease may be lost from here on.
UploadEnds(p) ==
    /\ pc[p] = "upload" /\ Complete(p) /\ ~lost[p]
    /\ Goto(p, "finish")
    /\ UNCHANGED <<markers, objects, written, beating, lost, since>> /\ Still

WriteDone(p) ==
    /\ pc[p] = "finish"
    /\ done' = [done EXCEPT ![Mine(p)] = buildOf[p]]
    /\ Goto(p, "done")
    /\ UNCHANGED <<lease, current, objects, written, beating, lost, since>> /\ Still

\* The heartbeat of an upload that is done goes on for PostDoneRefresh.
RefreshEnds(p) ==
    /\ pc[p] = "done" /\ beating[p]
    /\ Forget(p)
    /\ UNCHANGED <<markers, objects, pc>> /\ Still

-----------------------------------------------------------------------------
(* Faults and time.                                                          *)

Fault ==
    /\ faults < MaxFaults
    /\ faults' = faults + 1
    /\ UNCHANGED <<deployment, restarts>>

\* Mutant: an error of a write is passed over.
RequestFailsUnseen(p) ==
    /\ pc[p] = "upload" /\ ~Complete(p)
    /\ Fault
    /\ written' = [written EXCEPT ![p] = @ + 1]
    /\ UNCHANGED <<markers, objects, pc, beating, lost, since>>

\* A request of Run fails, or its context is cancelled, after it took effect or
\* before.
RequestFails(p) ==
    /\ pc[p] \notin {"applied", "done", "failed"}
    /\ Fault
    /\ Give(p)
    /\ \/ UNCHANGED <<markers, objects>>
       \/ /\ conditional
          /\ \/ pc[p] = "claim" /\ lease[Mine(p)].owner = None
             \/ pc[p] = "steal" /\ p \in current[Mine(p)]
          /\ WriteLease(p) /\ UNCHANGED objects
       \/ /\ pc[p] = "upload" /\ ~Complete(p)
          /\ Put(p) /\ UNCHANGED markers
       \/ /\ pc[p] = "finish"
          /\ done' = [done EXCEPT ![Mine(p)] = buildOf[p]]
          /\ UNCHANGED <<lease, current, objects>>

\* The request of a heartbeat fails: the upload is cancelled.
HeartbeatFails(p) ==
    /\ beating[p] /\ since[p] >= HeartbeatEvery
    /\ Fault
    /\ beating' = [beating EXCEPT ![p] = FALSE]
    /\ lost' = [lost EXCEPT ![p] = TRUE]
    /\ \/ UNCHANGED <<markers, since>>
       \/ /\ p \in current[Mine(p)] /\ WriteLease(p)
          /\ since' = [since EXCEPT ![p] = 0]
    /\ UNCHANGED <<objects, pc, written>>

\* A process that failed, or crashes where it is, is started again.
Restart(p) ==
    /\ restarts < MaxRestarts
    /\ restarts' = restarts + 1
    /\ Goto(p, "check") /\ Forget(p)
    /\ current' = [m \in ID |-> current[m] \ {p}]
    /\ UNCHANGED <<deployment, lease, done, objects, faults>>

Tick ==
    /\ lease' = [m \in ID |-> IF lease[m].owner = None THEN lease[m]
                              ELSE [lease[m] EXCEPT !.age = Older(@)]]
    /\ since' = [p \in Process |-> IF beating[p] \/ pc[p] \in {"upload", "finish"}
                                   THEN Older(since[p]) ELSE since[p]]
    /\ UNCHANGED <<current, done, objects, pc, written, beating, lost>> /\ Still

Step(p) ==
    \/ Check(p) \/ Claim(p) \/ Look(p) \/ Wake(p) \/ Steal(p)
    \/ Upload(p) \/ UploadIsCancelled(p) \/ UploadEnds(p) \/ WriteDone(p)

Next ==
    \/ \E p \in Process :
          \/ Step(p) \/ Heartbeat(p) \/ RefreshEnds(p)
          \/ RequestFails(p) \/ HeartbeatFails(p) \/ Restart(p)
    \/ Tick

Spec == Init /\ [][Next]_vars

\* Requests are answered, sleeps end, and clocks go on.
FairSpec == Spec /\ WF_vars(Tick) /\ \A p \in Process : WF_vars(Step(p))

-----------------------------------------------------------------------------
(* Properties.                                                               *)

Ended == {"applied", "done", "failed"}
Working(p) == pc[p] \in {"upload", "finish"}

TypeOK ==
    /\ buildOf \in Deployments /\ idOf \in Naming /\ conditional \in BOOLEAN
    /\ lease \in [ID -> [owner: Process \cup {None}, age: 0..MaxAge]]
    /\ current \in [ID -> SUBSET Process]
    /\ done \in [ID -> Build \cup {None}]
    /\ objects \in [Key -> Content]
    /\ pc \in [Process -> {"check", "claim", "look", "wait", "steal", "upload",
                           "finish"} \cup Ended]
    /\ written \in [Process -> Nat]
    /\ \A p \in Process : written[p] <= Len(Plan[buildOf[p]])
    /\ beating \in [Process -> BOOLEAN] /\ lost \in [Process -> BOOLEAN]
    /\ since \in [Process -> 0..MaxAge]
    /\ faults \in 0..MaxFaults /\ restarts \in 0..MaxRestarts

\* An entry of a build's plan is in the storage, if it has a permanent path.
Saved(b, i) ==
    Plan[b][i].key[1] = "permanent" => objects[Plan[b][i].key] = Plan[b][i].content

Stored(b) == \A i \in 1..Len(Plan[b]) : Saved(b, i)

\* A build whose done marker is there has all its permanent paths in the storage,
\* though the process that wrote it had lost the lease and others wrote as well.
DoneIsTrue == \A m \in ID : done[m] # None => Stored(done[m])

\* So has a build whose manifest is there: the manifest goes last
\* (Registry.Upload), and no build removes what another one wrote.
ManifestIsServable ==
    ManifestKey \in Key /\ objects[ManifestKey] # None => Stored(objects[ManifestKey])

UploadsAreComplete == TypeOK /\ DoneIsTrue /\ ManifestIsServable

\* p has not refreshed its lease in the time after which another process may,
\* by its own clock, take it for stale.
Overdue(p) == \E q \in Process : since[p] + Ahead[q] - Ahead[p] >= StaleAfter

\* Two processes are at the upload of one migration only if one of them is overdue
\* (acquire, startHeartbeat), and none is on a storage without conditions.
LeaseExcludes ==
    \A p \in Process : Working(p) =>
        /\ conditional
        /\ \A q \in Process \ {p} :
              Working(q) /\ Mine(p) = Mine(q) => Overdue(p) \/ Overdue(q)

\* Every process that starts learns how the migration went: a crash of the one
\* that has the lease, which nobody deletes, does not keep the others waiting.
UploadSettles == \A p \in Process : pc[p] \notin Ended ~> pc[p] \in Ended

-----------------------------------------------------------------------------
(* The inductive invariant.                                                  *)

HasUploaded(p) == pc[p] \in {"upload", "finish", "done"}

\* The writes a process has behind it are in the storage, whoever wrote since.
WritesAreSaved ==
    \A p \in Process : HasUploaded(p) =>
        /\ \A i \in 1..written[p] : Saved(buildOf[p], i)
        /\ pc[p] = "finish" => Complete(p)

ManifestIsOfBuild == ManifestKey \in Key => objects[ManifestKey] \in Build \cup {None}

\* Who may write the lease on condition is the one that wrote it last, or has
\* seen it stale; who works and is not its owner is overdue.
LeaseFits(p) ==
    LET l == lease[Mine(p)] IN
    /\ pc[p] \in {"look", "steal"} => conditional /\ l.owner # None
    /\ pc[p] = "steal" /\ p \in current[Mine(p)] => SeenAge(p, l) >= StaleAfter
    /\ beating[p] => HasUploaded(p)
    /\ HasUploaded(p) => conditional
    /\ HasUploaded(p) /\ p \in current[Mine(p)] => l.owner = p
    /\ Working(p) => IF l.owner = p THEN since[p] >= l.age ELSE Overdue(p)

LeaseIsKnown == \A p \in Process : LeaseFits(p)

IndInv == TypeOK /\ WritesAreSaved /\ DoneIsTrue
          /\ ManifestIsOfBuild /\ ManifestIsServable /\ LeaseIsKnown

=============================================================================
