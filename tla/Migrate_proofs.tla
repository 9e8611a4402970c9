----------------------------- MODULE Migrate_proofs -----------------------------
(***************************************************************************)
(* Proofs about module Migrate.  The invariant follows one argument: the    *)
(* advisory lock makes at most one process be between its check and its     *)
(* commit (LockHeld), so what it checked is still true when it commits      *)
(* (CheckStillHolds), so a section runs exactly when the metadata says so.  *)
(***************************************************************************)
EXTENDS Migrate, FiniteSetTheorems, TLAPS

\* None is neither a process nor a content.
LEMMA NoneIsNew == None \notin Process /\ None \notin Version
BY MigrateAssumption

\* The content a process has is a content.
LEMMA ContentTyped == \A p \in Process, m \in Migration : Content[p][m] \in Version
BY MigrateAssumption

\* The initial states satisfy the invariant.
LEMMA InitInv == Init => IndInv
BY NoneIsNew, MigrateAssumption
   DEF Init, IndInv, TypeOK, LockHeld, CheckStillHolds, SchemaMatchesMetadata,
       Idle, Migration

\* The sets a plan is made of.
LEMMA PlanTyped ==
    \A p \in Process, n \in Nat :
        PlanUp(p, n) \subseteq Migration /\ PlanDown(p, n) \subseteq Migration
BY MigrateAssumption DEF PlanUp, PlanDown, First, Last, Recorded

\* Planning touches no process that holds the lock and leaves the database
\* alone.
LEMMA PlanInv ==
    ASSUME IndInv, NEW p \in Process, NEW o \in Operation, Plan(p, o)
    PROVE  IndInv'
PROOF
<1>0. o.name \in {"up", "down", "redo"} /\ o.limit \in Nat
  BY MigrateAssumption
<1>1. PlanUp(p, o.limit) \subseteq Migration /\ PlanDown(p, o.limit) \subseteq Migration
  BY <1>0, PlanTyped
<1>2. downs' \in [Process -> SUBSET Migration]
  <2>1. CASE Recorded \subseteq Source[p]
    BY <1>1, <2>1 DEF Plan, IndInv, TypeOK
  <2>2. CASE ~(Recorded \subseteq Source[p])
    BY <2>2 DEF Plan, IndInv, TypeOK
  <2> QED BY <2>1, <2>2
<1>3. ups' \in [Process -> SUBSET Migration]
  <2>1. CASE Recorded \subseteq Source[p]
    <3>1. ups' = [ups EXCEPT ![p] =
                    CASE o.name = "up" -> PlanUp(p, o.limit)
                      [] o.name = "down" -> {}
                      [] o.name = "redo" -> PlanDown(p, o.limit)]
      BY <2>1 DEF Plan
    <3> QED BY <1>0, <1>1, <3>1 DEF IndInv, TypeOK
  <2>2. CASE ~(Recorded \subseteq Source[p])
    BY <2>2 DEF Plan, IndInv, TypeOK
  <2> QED BY <2>1, <2>2
<1>4. /\ pc' \in [Process -> {"idle", "ready", "locked", "execute", "done", "failed"}]
      /\ \A q \in Process : pc'[q] \in {"locked", "execute"} <=> pc[q] \in {"locked", "execute"}
      /\ \A q \in Process : pc'[q] = "execute" => pc[q] = "execute" /\ q # p
  BY DEF Plan, IndInv, TypeOK
<1>5. TypeOK'
  BY <1>2, <1>3, <1>4, MigrateAssumption DEF Plan, IndInv, TypeOK, database
<1>6. LockHeld'
  BY <1>4 DEF Plan, IndInv, LockHeld
<1>7. \A q \in Process : q # p => downs'[q] = downs[q] /\ ups'[q] = ups[q]
  BY DEF Plan, IndInv, TypeOK
<1>8. CheckStillHolds'
  BY <1>4, <1>7 DEF Plan, IndInv, CheckStillHolds, ShouldRun, NextUp, NextDown, database
<1>9. SchemaMatchesMetadata'
  BY DEF Plan, IndInv, SchemaMatchesMetadata, database
<1> QED BY <1>5, <1>6, <1>8, <1>9 DEF IndInv

\* Steps that leave the database alone and change one process, which does not
\* execute afterwards, keep the invariant if the lock and the process agree.
LEMMA QuietInv ==
    ASSUME IndInv, TypeOK', NEW p \in Process,
           UNCHANGED database,
           \A q \in Process \ {p} :
               pc'[q] = pc[q] /\ downs'[q] = downs[q] /\ ups'[q] = ups[q],
           pc'[p] # "execute",
           LockHeld'
    PROVE  IndInv'
PROOF
<1>1. CheckStillHolds'
  BY DEF IndInv, CheckStillHolds, ShouldRun, NextUp, NextDown, database
<1>2. SchemaMatchesMetadata'
  BY DEF IndInv, SchemaMatchesMetadata, database
<1> QED BY <1>1, <1>2 DEF IndInv

\* Taking the lock.
LEMMA LockInv ==
    ASSUME IndInv, NEW p \in Process, Lock(p)
    PROVE  IndInv'
PROOF
<1>1. TypeOK'
  BY DEF Lock, IndInv, TypeOK, database
<1>2. LockHeld'
  BY NoneIsNew DEF Lock, IndInv, TypeOK, LockHeld
<1>3. pc'[p] # "execute" /\ \A q \in Process \ {p} : pc'[q] = pc[q]
  BY DEF Lock, IndInv, TypeOK
<1> QED BY <1>1, <1>2, <1>3, QuietInv DEF Lock

\* The parts of a step that ends a transaction: one way or the other, the
\* process has let go of the lock.
LEMMA EndTyped ==
    ASSUME IndInv, NEW p \in Process,
           Abort(p) \/ \E m \in Migration : StepDone(p, m)
    PROVE  /\ pc' \in [Process -> {"idle", "ready", "locked", "execute", "done", "failed"}]
           /\ downs' \in [Process -> SUBSET Migration]
           /\ ups' \in [Process -> SUBSET Migration]
           /\ lock' \in Process \cup {None}
           /\ \A q \in Process \ {p} :
                  pc'[q] = pc[q] /\ downs'[q] = downs[q] /\ ups'[q] = ups[q]
           /\ pc'[p] \in {"ready", "failed"}
           /\ LockHeld'
PROOF
<1>1. CASE Abort(p)
  <2>1. /\ pc' \in [Process -> {"idle", "ready", "locked", "execute", "done", "failed"}]
        /\ downs' \in [Process -> SUBSET Migration]
        /\ ups' \in [Process -> SUBSET Migration]
        /\ \A q \in Process \ {p} :
               pc'[q] = pc[q] /\ downs'[q] = downs[q] /\ ups'[q] = ups[q]
        /\ pc'[p] = "failed"
    BY <1>1 DEF Abort, IndInv, TypeOK
  <2>2. lock' = IF lock = p THEN None ELSE lock
    BY <1>1 DEF Abort, Unlock
  <2>3. LockHeld' /\ lock' \in Process \cup {None}
    BY <2>1, <2>2, NoneIsNew DEF IndInv, TypeOK, LockHeld
  <2> QED BY <2>1, <2>3
<1>2. CASE \E m \in Migration : StepDone(p, m)
  <2> PICK m \in Migration : StepDone(p, m)
    BY <1>2
  <2>1. pc' \in [Process -> {"idle", "ready", "locked", "execute", "done", "failed"}]
        /\ pc'[p] = "ready" /\ \A q \in Process \ {p} : pc'[q] = pc[q]
    BY DEF StepDone, IndInv, TypeOK
  <2>2. downs' \in [Process -> SUBSET Migration]
        /\ \A q \in Process \ {p} : downs'[q] = downs[q]
    BY DEF StepDone, IndInv, TypeOK
  <2>3. ups' \in [Process -> SUBSET Migration]
        /\ \A q \in Process \ {p} : ups'[q] = ups[q]
    <3>1. ups' = [ups EXCEPT ![p] = IF downs[p] = {} THEN ups[p] \ {m} ELSE ups[p]]
      BY DEF StepDone
    <3> QED BY <3>1 DEF IndInv, TypeOK
  <2>4. lock' = IF lock = p THEN None ELSE lock
    BY DEF StepDone, Unlock
  <2>5. LockHeld' /\ lock' \in Process \cup {None}
    BY <2>1, <2>4, NoneIsNew DEF IndInv, TypeOK, LockHeld
  <2> QED BY <2>1, <2>2, <2>3, <2>5
<1> QED BY <1>1, <1>2

\* Ending a transaction without a commit.
LEMMA RollbackInv ==
    ASSUME IndInv, NEW p \in Process, UNCHANGED <<database, op, ops>>,
           Abort(p) \/ \E m \in Migration : StepDone(p, m)
    PROVE  IndInv'
PROOF
<1>1. /\ LockHeld' /\ pc'[p] # "execute"
      /\ \A q \in Process \ {p} :
             pc'[q] = pc[q] /\ downs'[q] = downs[q] /\ ups'[q] = ups[q]
  BY EndTyped
<1>2. TypeOK'
  BY EndTyped DEF IndInv, TypeOK, database
<1> QED BY <1>1, <1>2, QuietInv

\* The check under the lock: the only step after which a process executes.
LEMMA CheckInv ==
    ASSUME IndInv, NEW p \in Process, Check(p)
    PROVE  IndInv'
PROOF
<1> PICK m \in Migration :
      \/ /\ ShouldRun(p, m)
         /\ pc' = [pc EXCEPT ![p] = "execute"]
         /\ UNCHANGED <<lock, downs, ups>>
      \/ Mismatch(p, m) /\ Abort(p)
      \/ ~ShouldRun(p, m) /\ ~Mismatch(p, m) /\ StepDone(p, m)
  BY DEF Check
<1>1. CASE /\ ShouldRun(p, m)
           /\ pc' = [pc EXCEPT ![p] = "execute"]
           /\ UNCHANGED <<lock, downs, ups>>
  <2>1. TypeOK'
    BY <1>1 DEF Check, IndInv, TypeOK, database
  <2>2. LockHeld'
    BY <1>1 DEF Check, IndInv, TypeOK, LockHeld
  <2>3. CheckStillHolds'
    BY <1>1 DEF Check, IndInv, TypeOK, CheckStillHolds, ShouldRun, NextUp, NextDown, database
  <2>4. SchemaMatchesMetadata'
    BY DEF Check, IndInv, SchemaMatchesMetadata, database
  <2> QED BY <2>1, <2>2, <2>3, <2>4 DEF IndInv
<1>2. CASE Abort(p) \/ StepDone(p, m)
  BY <1>2, RollbackInv DEF Check
<1> QED BY <1>1, <1>2

\* What a commit changes: the process that holds the lock changes the row of
\* a migration it found unapplied, or applied, and runs the section once.
LEMMA CommitDatabase ==
    ASSUME IndInv, NEW p \in Process, pc[p] = "execute",
           NEW m \in Migration, Apply(p, m) \/ Revert(p, m)
    PROVE  /\ recorded' \in [Migration -> Version \cup {None}]
           /\ net' \in [Migration -> Int]
           /\ SchemaMatchesMetadata'
PROOF
<1>1. CASE Apply(p, m)
  <2>1. recorded' = [recorded EXCEPT ![m] = Content[p][m]]
        /\ net' = [net EXCEPT ![m] = @ + 1] /\ recorded[m] = None
    BY <1>1 DEF Apply
  <2>2. Content[p][m] \in Version /\ Content[p][m] # None
    BY ContentTyped, NoneIsNew
  <2> QED BY <2>1, <2>2 DEF IndInv, TypeOK, SchemaMatchesMetadata
<1>2. CASE Revert(p, m)
  <2>1. recorded' = [recorded EXCEPT ![m] = None]
        /\ net' = [net EXCEPT ![m] = @ - 1] /\ NextDown(p, m)
    BY <1>2 DEF Revert
  <2>2. PICK k \in Migration : ShouldRun(p, k)
    BY DEF IndInv, CheckStillHolds
  <2>3. k = m
    BY <2>1, <2>2 DEF ShouldRun, NextUp, NextDown, Migration
  <2>4. recorded[m] # None
    BY <2>1, <2>2, <2>3, ContentTyped, NoneIsNew DEF ShouldRun, NextUp, NextDown
  <2> QED BY <2>1, <2>4 DEF IndInv, TypeOK, SchemaMatchesMetadata
<1> QED BY <1>1, <1>2

\* A commit, with its reply or without: no other process is executing, so no
\* other check is made stale.
LEMMA CommitInv ==
    ASSUME IndInv, NEW p \in Process, Commit(p) \/ CommitLost(p)
    PROVE  IndInv'
PROOF
<1>1. /\ pc[p] = "execute"
      /\ \E m \in Migration : Apply(p, m) \/ Revert(p, m)
      /\ Abort(p) \/ \E m \in Migration : StepDone(p, m)
      /\ UNCHANGED <<op, ops>>
  BY DEF Commit, CommitLost
<1>2. /\ recorded' \in [Migration -> Version \cup {None}]
      /\ net' \in [Migration -> Int]
      /\ SchemaMatchesMetadata'
  BY <1>1, CommitDatabase
<1>3. /\ pc' \in [Process -> {"idle", "ready", "locked", "execute", "done", "failed"}]
      /\ downs' \in [Process -> SUBSET Migration]
      /\ ups' \in [Process -> SUBSET Migration]
      /\ lock' \in Process \cup {None}
      /\ \A q \in Process \ {p} :
             pc'[q] = pc[q] /\ downs'[q] = downs[q] /\ ups'[q] = ups[q]
      /\ pc'[p] \in {"ready", "failed"}
      /\ LockHeld'
  BY <1>1, EndTyped
<1>4. undone' \subseteq Migration
  BY <1>1 DEF Apply, Revert, IndInv, TypeOK
<1>5. TypeOK'
  BY <1>1, <1>2, <1>3, <1>4 DEF IndInv, TypeOK
<1>6. \A q \in Process : pc'[q] # "execute"
  BY <1>1, <1>3 DEF IndInv, LockHeld
<1> QED BY <1>2, <1>3, <1>5, <1>6 DEF IndInv, CheckStillHolds

\* Finish and Again: a process outside any transaction goes on.
LEMMA OutsideInv ==
    ASSUME IndInv, NEW p \in Process, Finish(p) \/ Again(p)
    PROVE  IndInv'
PROOF
<1>1. /\ pc[p] \in {"ready", "done", "failed"} /\ pc'[p] \in {"done", "idle"}
      /\ \A q \in Process \ {p} : pc'[q] = pc[q]
      /\ UNCHANGED <<database, lock, downs, ups, ops>>
  BY DEF Finish, Again, IndInv, TypeOK
<1>2. TypeOK'
  BY DEF Finish, Again, IndInv, TypeOK, database
<1>3. LockHeld'
  BY <1>1 DEF IndInv, LockHeld
<1> QED BY <1>1, <1>2, <1>3, QuietInv

\* Every step keeps the invariant.
LEMMA StepInv == IndInv /\ [Next]_vars => IndInv'
PROOF
<1> SUFFICES ASSUME IndInv, [Next]_vars PROVE IndInv'
  OBVIOUS
<1>1. CASE UNCHANGED vars
  BY <1>1 DEF vars, database, IndInv, TypeOK, LockHeld, CheckStillHolds, ShouldRun,
              NextUp, NextDown, SchemaMatchesMetadata
<1>2. CASE Next
  <2> PICK p \in Process :
        \/ \E o \in Operation : Plan(p, o)
        \/ Lock(p) \/ Check(p) \/ Commit(p) \/ CommitLost(p) \/ Fail(p)
        \/ Finish(p) \/ Again(p)
    BY <1>2 DEF Next
  <2>1. CASE \E o \in Operation : Plan(p, o)
    BY <2>1, PlanInv
  <2>2. CASE Lock(p)
    BY <2>2, LockInv
  <2>3. CASE Check(p)
    BY <2>3, CheckInv
  <2>4. CASE Commit(p) \/ CommitLost(p)
    BY <2>4, CommitInv
  <2>5. CASE Fail(p)
    BY <2>5, RollbackInv DEF Fail
  <2>6. CASE Finish(p) \/ Again(p)
    BY <2>6, OutsideInv
  <2> QED BY <2>1, <2>2, <2>3, <2>4, <2>5, <2>6
<1> QED BY <1>1, <1>2

\* The invariant holds in every reachable state (Backend.Run in
\* pg/pgmigrate/backend.go).
THEOREM Invariance == Spec => []IndInv
BY InitInv, StepInv, PTL DEF Spec

\* A migration's section is in effect exactly when lazy_migrations records it,
\* for any processes, sources, contents and operations, with rolled back
\* transactions and lost replies.
THEOREM SchemaAgrees == Spec => []SchemaMatchesMetadata
PROOF
<1>1. IndInv => SchemaMatchesMetadata
  BY DEF IndInv
<1> QED BY <1>1, Invariance, PTL

\* A step takes a migration down only by the process that holds the lock, with
\* the content the migration was applied with.
LEMMA DownStep ==
    IndInv /\ [Next]_vars =>
        \A m \in Migration :
           recorded[m] # None /\ recorded'[m] = None =>
               \E p \in Process : lock = p /\ Content[p][m] = recorded[m]
PROOF
<1> SUFFICES ASSUME IndInv, [Next]_vars,
                    NEW m \in Migration, recorded[m] # None, recorded'[m] = None
             PROVE  \E p \in Process : lock = p /\ Content[p][m] = recorded[m]
  OBVIOUS
<1>1. PICK p \in Process : Commit(p) \/ CommitLost(p)
  BY DEF Next, vars, database, Plan, Lock, Check, Fail, Finish, Again
<1>2. pc[p] = "execute" /\ \E k \in Migration : Apply(p, k) \/ Revert(p, k)
  BY <1>1 DEF Commit, CommitLost
<1>3. lock = p
  BY <1>2 DEF IndInv, LockHeld
<1>4. PICK k \in Migration : Apply(p, k) \/ Revert(p, k)
  BY <1>2
<1>5. ~Apply(p, k)
  <2> SUFFICES ASSUME Apply(p, k) PROVE FALSE
    OBVIOUS
  <2>1. recorded[k] = None /\ recorded' = [recorded EXCEPT ![k] = Content[p][k]]
    BY DEF Apply
  <2> QED BY <2>1 DEF IndInv, TypeOK
<1>6. k = m /\ NextDown(p, m)
  BY <1>4, <1>5 DEF Revert, IndInv, TypeOK
<1>7. PICK j \in Migration : ShouldRun(p, j)
  BY <1>2 DEF IndInv, CheckStillHolds
<1>8. j = m /\ recorded[m] = Content[p][m]
  BY <1>6, <1>7 DEF ShouldRun, NextUp, NextDown, Migration
<1> QED BY <1>3, <1>8

\* No Down section other than the applied file's is ever run.
THEOREM DownMatches == Spec => DownMatchesUp
BY Invariance, DownStep, PTL DEF Spec, DownMatchesUp

-----------------------------------------------------------------------------
(* The order of the sources.                                                *)

\* The first n of a set have what is before them in the set.
LEMMA FirstIsLower ==
  ASSUME NEW S \in SUBSET Migration, NEW n \in Nat, NEW m \in First(S, n), NEW k \in S, k < m
  PROVE  k \in First(S, n)
<1> DEFINE before(x) == {j \in S : j < x}
<1>1. Migration \subseteq Nat /\ IsFiniteSet(Migration)
  BY MigrateAssumption, FS_Interval DEF Migration
<1>2. before(k) \subseteq before(m) /\ before(m) \subseteq Migration
  <2>1. m \in S
    BY DEF First
  <2>2. ASSUME NEW j \in S, j < k PROVE j < m
    BY <1>1, <2>1, <2>2
  <2> QED BY <2>2
<1>3. IsFiniteSet(before(k)) /\ IsFiniteSet(before(m)) /\ Cardinality(before(k)) <= Cardinality(before(m))
  BY <1>1, <1>2, FS_Subset
<1>4. Cardinality(before(k)) \in Nat /\ Cardinality(before(m)) \in Nat
  BY <1>3, FS_CardinalityType
<1>5. Cardinality(before(m)) < n
  BY DEF First
<1> QED BY <1>3, <1>4, <1>5 DEF First

\* A plan has what is before its migrations, or it is recorded.
LEMMA PlanOrder ==
  ASSUME SourcesArePrefixes, IndInv, OrderInv, NEW p \in Process, NEW o \in Operation, Plan(p, o)
  PROVE  OrderInv'
<1>1. TypeOK /\ Migration \subseteq Nat
  BY MigrateAssumption DEF IndInv, Migration
<1>2. Recorded' = Recorded /\ undone' = undone /\ NoGap'
  BY DEF Plan, database, Recorded, OrderInv, NoGap
<1>3. \A q \in Process \ {p} : pc'[q] = pc[q] /\ op'[q] = op[q] /\ ups'[q] = ups[q]
  BY <1>1 DEF Plan, TypeOK
<1>4. op'[p] = o /\ ups[p] = {}
  BY <1>1 DEF Plan, TypeOK, OrderInv, PlansHaveNoGap
<1>5. CASE ~(Recorded \subseteq Source[p])
  <2>1. pc'[p] = "failed" /\ ups'[p] = {}
    BY <1>1, <1>4, <1>5 DEF Plan, TypeOK
  <2> QED BY <1>2, <1>3, <2>1 DEF OrderInv, PlansHaveNoGap
<1>6. CASE Recorded \subseteq Source[p]
  <2>1. pc'[p] = "ready"
    BY <1>1, <1>6 DEF Plan, TypeOK
  <2> DEFINE pending == Source[p] \ Recorded
  <2>2. CASE o.name = "up"
    <3>1. ups'[p] = PlanUp(p, o.limit)
      BY <1>1, <1>6, <2>2 DEF Plan, TypeOK
    <3>2. o.limit \in Nat /\ pending \in SUBSET Migration
      BY MigrateAssumption
    <3>3. PlanUp(p, o.limit) \subseteq pending
      BY DEF PlanUp, First
    <3>4. ASSUME NEW m \in ups'[p], NEW k \in Migration, k < m
          PROVE  k \in Recorded \cup undone \cup ups'[p]
      <4>1. m \in pending /\ k \in Source[p]
        BY <3>1, <3>3, <3>4 DEF SourcesArePrefixes
      <4>2. CASE k \in pending
        <5>1. o.limit > 0 => m \in First(pending, o.limit)
          BY <3>1 DEF PlanUp
        <5>2. o.limit > 0 => k \in First(pending, o.limit)
          BY <3>2, <3>4, <4>2, <5>1, FirstIsLower
        <5> QED BY <3>1, <4>2, <5>2 DEF PlanUp
      <4> QED BY <4>1, <4>2
    <3>5. o.limit = 0 => Source[p] \subseteq Recorded \cup ups'[p]
      BY <3>1 DEF PlanUp
    <3> QED BY <1>2, <1>3, <1>4, <2>1, <3>4, <3>5 DEF OrderInv, PlansHaveNoGap
  <2>3. CASE o.name # "up"
    <3>1. ups'[p] \subseteq PlanDown(p, o.limit)
      <4>1. o.name \in {"down", "redo"}
        BY <2>3, MigrateAssumption
      <4> QED BY <1>1, <1>6, <4>1 DEF Plan, TypeOK
    <3>2. ups'[p] \subseteq Recorded
      BY <3>1 DEF PlanDown, Last
    <3> QED BY <1>2, <1>3, <1>4, <2>1, <2>3, <3>2 DEF OrderInv, PlansHaveNoGap, NoGap
  <2> QED BY <2>2, <2>3
<1> QED BY <1>5, <1>6

\* Other steps leave the order alone if they only forget what is recorded after
\* taking it down, and drop from a plan what is recorded or the whole plan.
LEMMA StepOrder ==
  ASSUME IndInv, OrderInv, NEW p \in Process,
         Recorded \cup undone \subseteq Recorded' \cup undone', NoGap',
         op' = op,
         \A q \in Process \ {p} : pc'[q] = pc[q] /\ ups'[q] = ups[q],
         \/ pc'[p] = "failed" /\ ups'[p] = {}
         \/ /\ pc[p] \in {"ready", "locked", "execute"} /\ pc'[p] \in {"ready", "locked", "execute"}
            /\ ups'[p] \subseteq ups[p] /\ ups[p] \subseteq ups'[p] \cup Recorded'
         \/ pc[p] = "ready" /\ pc'[p] = "done" /\ ups[p] = {} /\ ups'[p] = {}
  PROVE  OrderInv'
BY DEF OrderInv, PlansHaveNoGap

\* The process that executes a step puts up what is next.
LEMMA CommitOrder ==
  ASSUME IndInv, OrderInv, NEW p \in Process, Commit(p) \/ CommitLost(p)
  PROVE  OrderInv'
<1>1. TypeOK /\ Migration \subseteq Nat /\ None \notin Version
      /\ \A m \in Migration : Content[p][m] \in Version
  BY MigrateAssumption DEF IndInv, Migration
<1>2. PICK m \in Migration :
         /\ Apply(p, m) \/ Revert(p, m)
         /\ StepDone(p, m) \/ Abort(p)
  BY DEF Commit, CommitLost
<1>3. pc[p] = "execute" /\ op' = op
  BY DEF Commit, CommitLost
<1>4. Recorded \cup undone \subseteq Recorded' \cup undone'
  BY <1>1, <1>2 DEF Apply, Revert, Recorded, TypeOK
<1>5. CASE Apply(p, m)
  <2>1. Recorded' = Recorded \cup {m} /\ undone' = undone
    BY <1>1, <1>5 DEF Apply, Recorded, TypeOK
  <2>2. \A k \in Migration : k < m => k \in Recorded \cup undone
    BY <1>1, <1>5 DEF Apply, NextUp, OrderInv, PlansHaveNoGap
  <2>3. NoGap'
    BY <2>1, <2>2 DEF OrderInv, NoGap
  <2>4. \/ pc'[p] = "failed" /\ ups'[p] = {}
        \/ pc'[p] = "ready" /\ ups'[p] = ups[p] \ {m}
    BY <1>1, <1>2, <1>5 DEF Apply, NextUp, StepDone, Abort, TypeOK
  <2>5. \A q \in Process \ {p} : pc'[q] = pc[q] /\ ups'[q] = ups[q]
    BY <1>1, <1>2 DEF StepDone, Abort, TypeOK
  <2> QED BY <1>3, <1>4, <2>1, <2>3, <2>4, <2>5, StepOrder
<1>6. CASE Revert(p, m)
  <2>1. Recorded' = Recorded \ {m} /\ undone' = undone \cup {m}
    BY <1>1, <1>6 DEF Revert, Recorded, TypeOK
  <2>2. NoGap'
    BY <2>1 DEF OrderInv, NoGap
  <2>3. \/ pc'[p] = "failed" /\ ups'[p] = {}
        \/ pc'[p] = "ready" /\ ups'[p] = ups[p]
    BY <1>1, <1>2, <1>6 DEF Revert, NextDown, StepDone, Abort, TypeOK
  <2>4. \A q \in Process \ {p} : pc'[q] = pc[q] /\ ups'[q] = ups[q]
    BY <1>1, <1>2 DEF StepDone, Abort, TypeOK
  <2> QED BY <1>3, <1>4, <2>2, <2>3, <2>4, StepOrder
<1> QED BY <1>2, <1>5, <1>6

\* A step that is skipped is recorded already, if it was to be put up.
LEMMA CheckOrder ==
  ASSUME IndInv, OrderInv, NEW p \in Process, Check(p)
  PROVE  OrderInv'
<1>1. TypeOK /\ Migration \subseteq Nat
  BY MigrateAssumption DEF IndInv, Migration
<1>2. Recorded' = Recorded /\ undone' = undone /\ NoGap' /\ op' = op /\ pc[p] = "locked"
  BY DEF Check, database, Recorded, OrderInv, NoGap
<1>3. PICK m \in Migration :
         /\ NextDown(p, m) \/ NextUp(p, m)
         /\ \/ pc' = [pc EXCEPT ![p] = "execute"] /\ ups' = ups
            \/ Abort(p)
            \/ ~ShouldRun(p, m) /\ StepDone(p, m)
  BY DEF Check
<1>4. CASE pc' = [pc EXCEPT ![p] = "execute"] /\ ups' = ups
  BY <1>1, <1>2, <1>4, StepOrder DEF TypeOK
<1>5. CASE Abort(p)
  BY <1>1, <1>2, <1>5, StepOrder DEF TypeOK, Abort
<1>6. CASE ~ShouldRun(p, m) /\ StepDone(p, m)
  <2>1. pc'[p] = "ready" /\ \A q \in Process \ {p} : pc'[q] = pc[q] /\ ups'[q] = ups[q]
    BY <1>1, <1>6 DEF StepDone, TypeOK
  <2>2. ups'[p] \subseteq ups[p] /\ ups[p] \subseteq ups'[p] \cup Recorded'
    <3>1. CASE downs[p] = {}
      <4>1. NextUp(p, m) /\ m \in Recorded
        BY <1>3, <1>6, <3>1 DEF NextDown, ShouldRun, Recorded
      <4>2. ups'[p] = ups[p] \ {m}
        BY <1>1, <1>6, <3>1 DEF StepDone, TypeOK
      <4> QED BY <1>2, <4>1, <4>2
    <3>2. CASE downs[p] # {}
      BY <1>1, <1>6, <3>2 DEF StepDone, TypeOK
    <3> QED BY <3>1, <3>2
  <2> QED BY <1>2, <2>1, <2>2, StepOrder
<1> QED BY <1>3, <1>4, <1>5, <1>6

\* The steps that change neither metadata nor a plan, but for dropping it.
LEMMA OtherOrder ==
  ASSUME IndInv, OrderInv, NEW p \in Process, Lock(p) \/ Fail(p) \/ Finish(p) \/ Again(p)
  PROVE  OrderInv'
<1>1. TypeOK
  BY DEF IndInv
<1>2. Recorded' = Recorded /\ undone' = undone /\ NoGap'
  BY DEF Lock, Fail, Finish, Again, database, Recorded, OrderInv, NoGap
<1>3. CASE Lock(p)
  BY <1>1, <1>2, <1>3, StepOrder DEF Lock, TypeOK
<1>4. CASE Fail(p)
  BY <1>1, <1>2, <1>4, StepOrder DEF Fail, Abort, TypeOK
<1>5. CASE Finish(p)
  BY <1>1, <1>2, <1>5, StepOrder DEF Finish, TypeOK
<1>6. CASE Again(p)
  <2>1. pc'[p] = "idle" /\ ups' = ups /\ ups[p] = {}
    BY <1>1, <1>6 DEF Again, TypeOK, OrderInv, PlansHaveNoGap
  <2>2. \A q \in Process \ {p} : pc'[q] = pc[q] /\ op'[q] = op[q]
    BY <1>1, <1>6 DEF Again, TypeOK
  <2> QED BY <1>2, <2>1, <2>2 DEF OrderInv, PlansHaveNoGap
<1> QED BY <1>3, <1>4, <1>5, <1>6

LEMMA OrderStep ==
  ASSUME SourcesArePrefixes
  PROVE  IndInv /\ OrderInv /\ [Next]_vars => OrderInv'
<1> SUFFICES ASSUME IndInv, OrderInv, [Next]_vars PROVE OrderInv'
  OBVIOUS
<1>1. CASE UNCHANGED vars
  BY <1>1 DEF vars, database, OrderInv, NoGap, PlansHaveNoGap, Recorded
<1>2. ASSUME NEW p \in Process, NEW o \in Operation, Plan(p, o) PROVE OrderInv'
  BY <1>2, PlanOrder
<1>3. ASSUME NEW p \in Process,
             \/ Lock(p) \/ Check(p) \/ Commit(p) \/ CommitLost(p) \/ Fail(p)
             \/ Finish(p) \/ Again(p)
      PROVE  OrderInv'
  BY <1>3, CheckOrder, CommitOrder, OtherOrder
<1> QED BY <1>1, <1>2, <1>3 DEF Next

\* For builds that follow each other, the schema moves in source order whatever
\* runs at once, fails or is repeated, and an Up without a limit that returned nil
\* is complete (Migrator.Up in lazymigrate/migrator.go).
THEOREM SchemaInOrder ==
  ASSUME SourcesArePrefixes
  PROVE  Spec => []SourceOrder
<1>1. Init => OrderInv
  BY DEF Init, OrderInv, NoGap, PlansHaveNoGap, Recorded
<1>2. IndInv /\ OrderInv /\ [Next]_vars => OrderInv'
  BY OrderStep
<1>3. IndInv /\ OrderInv => SourceOrder
  BY DEF IndInv, OrderInv, PlansHaveNoGap, UpIsComplete, SourceOrder
<1> QED BY <1>1, <1>2, <1>3, Invariance, PTL DEF Spec

=============================================================================
