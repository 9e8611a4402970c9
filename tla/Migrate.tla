-------------------------------- MODULE Migrate --------------------------------
(***************************************************************************)
(* lazymigrate and pg/pgmigrate: processes that plan and run migrations on *)
(* one PostgreSQL database.                                                *)
(*                                                                         *)
(* An operation plans once, from one read of the metadata table, and then  *)
(* runs its steps in order, each in a transaction of its own that takes an *)
(* advisory lock, decides again whether the step is still to be run, runs  *)
(* it and changes the metadata.  By then the plan may be stale.            *)
(*                                                                         *)
(* Migrations are numbered in the order of the sources, in which plans are *)
(* made (Timestamp, Prefix, ID).  A plan is a set of migrations to take    *)
(* down, newest first, and then a set to put up, oldest first.             *)
(***************************************************************************)
EXTENDS Integers, FiniteSets

CONSTANTS
    Process,
    Count,       \* migrations there are in all
    Source,      \* the migrations each process was built with
    Version,     \* contents a migration file may have had
    Content,     \* the content each process has for each migration
    Operation,   \* operations used: records [name, limit]
    Faults,      \* which of the fault actions below are enabled
    MaxOps       \* bound: operations in all

Migration == 1..Count
None == "none"

ASSUME MigrateAssumption ==
    /\ Count \in Nat /\ MaxOps \in Nat
    /\ Source \in [Process -> SUBSET Migration]
    /\ Content \in [Process -> [Migration -> Version]]
    /\ None \notin Process \cup Version
    /\ Operation \subseteq [name : {"up", "down", "redo"}, limit : Nat]
    /\ Faults \subseteq {"fail", "lost_reply"}

VARIABLES
    recorded, \* lazy_migrations: the content a migration was applied with
    net,      \* history: committed runs of its Up section minus those of Down
    undone,   \* history: migrations some operation has taken down
    lock,     \* who holds the advisory lock
    pc,       \* where each process is
    op,       \* the operation it executes
    downs,    \* migrations it has still to take down
    ups,      \* migrations it has still to put up
    ops       \* operations started

database == <<recorded, net, undone>>
vars == <<database, lock, pc, op, downs, ups, ops>>

Idle == [name |-> "up", limit |-> 0]

TypeOK ==
    /\ recorded \in [Migration -> Version \cup {None}]
    /\ net \in [Migration -> Int]
    /\ undone \subseteq Migration
    /\ lock \in Process \cup {None}
    /\ pc \in [Process -> {"idle", "ready", "locked", "execute", "done", "failed"}]
    /\ op \in [Process -> Operation \cup {Idle}]
    /\ downs \in [Process -> SUBSET Migration]
    /\ ups \in [Process -> SUBSET Migration]
    /\ ops \in 0..MaxOps

Init ==
    /\ recorded = [m \in Migration |-> None]
    /\ net = [m \in Migration |-> 0]
    /\ undone = {}
    /\ lock = None
    /\ pc = [p \in Process |-> "idle"]
    /\ op = [p \in Process |-> Idle]
    /\ downs = [p \in Process |-> {}]
    /\ ups = [p \in Process |-> {}]
    /\ ops = 0

-----------------------------------------------------------------------------
(* Planning.                                                               *)

Recorded == {m \in Migration : recorded[m] # None}

\* The first and the last n of S in source order.
First(S, n) == {m \in S : Cardinality({k \in S : k < m}) < n}
Last(S, n) == {m \in S : Cardinality({k \in S : k > m}) < n}

\* Without a limit, up takes all that is pending; down and redo take one.
PlanUp(p, n) ==
    LET pending == Source[p] \ Recorded
    IN  IF n > 0 THEN First(pending, n) ELSE pending
PlanDown(p, n) == Last(Source[p] \cap Recorded, IF n > 0 THEN n ELSE 1)

\* Setup, List and the plan.  A recorded migration this process does not have
\* (rejectMissing) ends the operation.
Plan(p, o) ==
    /\ pc[p] = "idle" /\ ops < MaxOps
    /\ ops' = ops + 1
    /\ op' = [op EXCEPT ![p] = o]
    /\ IF Recorded \subseteq Source[p]
       THEN /\ pc' = [pc EXCEPT ![p] = "ready"]
            /\ downs' = [downs EXCEPT ![p] =
                   IF o.name = "up" THEN {} ELSE PlanDown(p, o.limit)]
            /\ ups' = [ups EXCEPT ![p] =
                   CASE o.name = "up" -> PlanUp(p, o.limit)
                     [] o.name = "down" -> {}
                     [] o.name = "redo" -> PlanDown(p, o.limit)]
       ELSE pc' = [pc EXCEPT ![p] = "failed"] /\ UNCHANGED <<downs, ups>>
    /\ UNCHANGED <<database, lock>>

-----------------------------------------------------------------------------
(* Backend.Run, for the next step of the plan.                             *)

\* The next step takes m down.
NextDown(p, m) == m \in downs[p] /\ \A k \in downs[p] : k <= m

\* Mutant: newest first.
NextUpNewest(p, m) == downs[p] = {} /\ m \in ups[p] /\ \A k \in ups[p] : k <= m

\* The next step puts m up.
NextUp(p, m) == downs[p] = {} /\ m \in ups[p] /\ \A k \in ups[p] : m <= k

\* Mutant: the lock is shared.
LockShared(p) ==
    /\ pc[p] = "ready" /\ downs[p] \cup ups[p] # {}
    /\ lock' = p
    /\ pc' = [pc EXCEPT ![p] = "locked"]
    /\ UNCHANGED <<database, op, downs, ups, ops>>

\* pg_advisory_xact_lock.
Lock(p) ==
    /\ pc[p] = "ready" /\ downs[p] \cup ups[p] # {}
    /\ lock = None
    /\ lock' = p
    /\ pc' = [pc EXCEPT ![p] = "locked"]
    /\ UNCHANGED <<database, op, downs, ups, ops>>

\* Mutant: the lock is the session's and outlives the transaction.
StayLocked(p) == UNCHANGED lock

\* The transaction ends, and with it its hold on the lock.
Unlock(p) == lock' = IF lock = p THEN None ELSE lock

\* The step is behind p; the next is to be run in a transaction of its own.
StepDone(p, m) ==
    /\ pc' = [pc EXCEPT ![p] = "ready"]
    /\ downs' = [downs EXCEPT ![p] = @ \ {m}]
    /\ ups' = [ups EXCEPT ![p] = IF downs[p] = {} THEN @ \ {m} ELSE @]
    /\ Unlock(p)

Abort(p) ==
    /\ pc' = [pc EXCEPT ![p] = "failed"]
    /\ downs' = [downs EXCEPT ![p] = {}] /\ ups' = [ups EXCEPT ![p] = {}]
    /\ Unlock(p)

\* Mutant: the checksums are not compared.
ShouldRunAny(p, m) ==
    \/ NextUp(p, m) /\ recorded[m] = None
    \/ NextDown(p, m) /\ recorded[m] # None

\* shouldRunUp: not recorded.  shouldRunDown: recorded.
ShouldRun(p, m) ==
    \/ NextUp(p, m) /\ recorded[m] = None
    \/ NextDown(p, m) /\ recorded[m] = Content[p][m]

\* Recorded with another content: an error in both directions.
Mismatch(p, m) == recorded[m] \notin {None, Content[p][m]}

Check(p) ==
    /\ pc[p] = "locked"
    /\ \E m \in Migration :
           /\ NextDown(p, m) \/ NextUp(p, m)
           /\ \/ /\ ShouldRun(p, m)
                 /\ pc' = [pc EXCEPT ![p] = "execute"]
                 /\ UNCHANGED <<lock, downs, ups>>
              \/ Mismatch(p, m) /\ Abort(p)
              \/ ~ShouldRun(p, m) /\ ~Mismatch(p, m) /\ StepDone(p, m)
    /\ UNCHANGED <<database, op, ops>>

\* The section runs and the metadata changes in one transaction.
Apply(p, m) ==
    /\ NextUp(p, m) /\ recorded[m] = None  \* the primary key
    /\ recorded' = [recorded EXCEPT ![m] = Content[p][m]]
    /\ net' = [net EXCEPT ![m] = @ + 1]
    /\ UNCHANGED undone

Revert(p, m) ==
    /\ NextDown(p, m)
    /\ recorded' = [recorded EXCEPT ![m] = None]
    /\ net' = [net EXCEPT ![m] = @ - 1]
    /\ undone' = undone \cup {m}

Commit(p) ==
    /\ pc[p] = "execute"
    /\ \E m \in Migration : (Apply(p, m) \/ Revert(p, m)) /\ StepDone(p, m)
    /\ UNCHANGED <<op, ops>>

\* The commit was made but its reply lost: the caller sees an error.
CommitLost(p) ==
    /\ "lost_reply" \in Faults
    /\ pc[p] = "execute"
    /\ \E m \in Migration : Apply(p, m) \/ Revert(p, m)
    /\ Abort(p)
    /\ UNCHANGED <<op, ops>>

\* The section is empty or fails, or the process dies: the transaction is
\* rolled back and the rest of the plan is dropped.
Fail(p) ==
    /\ "fail" \in Faults
    /\ pc[p] \in {"ready", "locked", "execute"}
    /\ Abort(p)
    /\ UNCHANGED <<database, op, ops>>

Finish(p) ==
    /\ pc[p] = "ready" /\ downs[p] \cup ups[p] = {}
    /\ pc' = [pc EXCEPT ![p] = "done"]
    /\ UNCHANGED <<database, lock, op, downs, ups, ops>>

\* The process is started, or the operation called, again.
Again(p) ==
    /\ pc[p] \in {"done", "failed"}
    /\ pc' = [pc EXCEPT ![p] = "idle"]
    /\ op' = [op EXCEPT ![p] = Idle]
    /\ UNCHANGED <<database, lock, downs, ups, ops>>

Next ==
    \E p \in Process :
        \/ \E o \in Operation : Plan(p, o)
        \/ Lock(p) \/ Check(p) \/ Commit(p) \/ CommitLost(p) \/ Fail(p)
        \/ Finish(p) \/ Again(p)

Spec == Init /\ [][Next]_vars

\* Processes go on, and the lock is granted in turn.
FairSpec ==
    /\ Spec
    /\ \A p \in Process :
           /\ SF_vars(Lock(p))
           /\ WF_vars(Check(p) \/ Commit(p) \/ Finish(p))

-----------------------------------------------------------------------------
(* Properties.                                                             *)

\* A migration's Up section is in effect exactly once when it is recorded and
\* not at all when it is not, however many processes run the same stale plan,
\* die in the middle or repeat what was committed without their knowing.
SchemaMatchesMetadata ==
    \A m \in Migration : net[m] = IF recorded[m] = None THEN 0 ELSE 1

\* One transaction at a time is between its check and its commit.
LockHeld == \A p \in Process : pc[p] \in {"locked", "execute"} <=> lock = p

\* What a process found under the lock still holds when it commits.
CheckStillHolds ==
    \A p \in Process : pc[p] = "execute" => \E m \in Migration : ShouldRun(p, m)

\* The inductive invariant.
IndInv == TypeOK /\ LockHeld /\ CheckStillHolds /\ SchemaMatchesMetadata

\* What was applied from one content of a file is not taken down with the
\* Down section of another, whoever edited the file or put it up again since
\* the plan was made (pg/CHANGELOG.md: "rejecting the same migration ID when
\* the stored checksum differs").
DownMatchesUp ==
    [][\A m \in Migration :
           recorded[m] # None /\ recorded'[m] = None =>
               \E p \in Process : lock = p /\ Content[p][m] = recorded[m]]_vars

\* What was never taken down is put up in source order without a gap, by
\* however many processes at once, and also after failures.
NoGap == \A m \in Recorded, k \in Migration : k < m => k \in Recorded \cup undone

\* An Up without a limit that returned nil left nothing of its sources
\* pending but what was taken down, though other processes may have done some
\* of its steps.
UpIsComplete ==
    \A p \in Process :
        pc[p] = "done" /\ op[p].name = "up" /\ op[p].limit = 0
            => Source[p] \subseteq Recorded \cup undone

\* An operation that was planned ends.
OperationEnds == \A p \in Process : pc[p] = "ready" ~> pc[p] \in {"done", "failed"}

\* The schema moves in source order: no gap below what is recorded, and nothing
\* left by an Up that returned nil, except what somebody took down.
SourceOrder == NoGap /\ UpIsComplete

\* Builds follow each other: one that has a migration has all before it.
SourcesArePrefixes ==
    \A p \in Process : \A m \in Source[p], k \in Migration : k < m => k \in Source[p]

\* What is before a migration still to be put up is recorded, was taken down or
\* is to be put up too; an Up without a limit has nothing else of its sources.
PlansHaveNoGap ==
    \A p \in Process :
        /\ \A m \in ups[p], k \in Migration : k < m => k \in Recorded \cup undone \cup ups[p]
        /\ pc[p] \in {"ready", "locked", "execute", "done"} /\ op[p].name = "up" /\ op[p].limit = 0
               => Source[p] \subseteq Recorded \cup undone \cup ups[p]
        /\ pc[p] \in {"idle", "done", "failed"} => ups[p] = {}

OrderInv == NoGap /\ PlansHaveNoGap

=============================================================================
