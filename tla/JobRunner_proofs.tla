--------------------------- MODULE JobRunner_proofs ---------------------------
(* Proofs about module JobRunner, for every number of runners, workers,      *)
(* queues, kinds and records and for both backends.                          *)
EXTENDS JobRunner, FiniteSetTheorems, TLAPS

USE NumericAssumption

(* Identifiers are positive numbers, and NoJob is none of them.              *)
LEMMA IDs == NoJob \notin JobID /\ JobID \subseteq Nat /\ JobID = 1..MaxJobs
  BY DEF JobID, NoJob

\* An empty table and runners that have not started satisfy the invariant.
LEMMA InitInv == Init => IndInv
  <1> SUFFICES ASSUME Init PROVE IndInv
    OBVIOUS
  <1>1. TypeOK
    BY RunnerAssumption DEF Init, TypeOK, State, Phase, PC, Op
  <1>2. ExclusiveWork /\ WorkerPhase /\ RecordPhase /\ PoolPhase
    BY IDs DEF Init, ExclusiveWork, WorkerPhase, RecordPhase, PoolPhase
  <1>3. ConnPhase /\ ReportPhase /\ SessionPhase
    BY DEF Init, ConnPhase, WaitsForOwn, ReportPhase, SessionPhase, Outcome, Settled
  <1>4. QED
    BY <1>1, <1>2, <1>3 DEF IndInv

(* A record that can be claimed has an attempt left, no holder and no report *)
(* on its way.                                                               *)
LEMMA ClaimableRecord ==
  ASSUME IndInv, NEW j \in JobID, Claimable(j)
  PROVE  /\ executed[j] = attempt[j] /\ attempt[j] < MaxAttempts /\ j <= lastID
         /\ state[j] # "running" /\ \A v \in Worker : held[v] # j
  <1>1. state[j] \in {"pending", "retrying"}
    BY DEF Claimable
  <1>2. executed[j] = attempt[j] /\ attempt[j] < MaxAttempts /\ ~(j > lastID)
    BY <1>1 DEF IndInv, RecordPhase
  <1>3. j <= lastID
    BY <1>2, IDs DEF IndInv, TypeOK
  <1>4. \A v \in Worker : held[v] # j
    BY <1>1, IDs DEF IndInv, ExclusiveWork
  <1>5. QED
    BY <1>1, <1>2, <1>3, <1>4

(* What a worker that called Claim successfully knows of its record.         *)
LEMMA HeldRecord ==
  ASSUME IndInv, NEW w \in Worker, pc[w] \in {"claimed", "worked", "failed"}
  PROVE  /\ held[w] \in JobID /\ state[held[w]] = "running"
         /\ copy[w] = attempt[held[w]] /\ held[w] <= lastID
         /\ attempt[held[w]] \in 0..MaxAttempts /\ executed[held[w]] \in Nat
         /\ pc[w] = "claimed" => executed[held[w]] + 1 = attempt[held[w]]
         /\ pc[w] # "claimed" => executed[held[w]] = attempt[held[w]]
         /\ \A v \in Worker : held[v] = held[w] => v = w
  <1>1. held[w] \in JobID /\ held[w] # NoJob
    BY IDs DEF IndInv, WorkerPhase, TypeOK
  <1>2. state[held[w]] = "running" /\ copy[w] = attempt[held[w]]
    BY <1>1 DEF IndInv, ExclusiveWork
  <1>3. ~(held[w] > lastID)
    BY <1>1, <1>2 DEF IndInv, RecordPhase
  <1>4. held[w] <= lastID
    BY <1>1, <1>3, IDs DEF IndInv, TypeOK
  <1>5. QED
    BY <1>1, <1>2, <1>4 DEF IndInv, ExclusiveWork, WorkerPhase, TypeOK

(* A session is awaited by its client alone, and only while it has a         *)
(* statement.                                                                *)
LEMMA WaitedFor ==
  ASSUME IndInv, NEW s \in Session
  PROVE  /\ Awaited(s) => client[s] \in Worker /\ conn[client[s]] = s
         /\ \A v \in Worker : conn[v] = s => op[s] # "none" /\ client[s] = v /\ Awaited(s)
  <1>1. Awaited(s) => client[s] \in Worker /\ conn[client[s]] = s
    BY DEF IndInv, TypeOK, Awaited
  <1>2. ASSUME NEW v \in Worker, conn[v] = s
        PROVE  op[s] # "none" /\ client[s] = v /\ Awaited(s)
    <2>1. s # NoSession /\ v # NoWorker
      BY RunnerAssumption
    <2>2. op[s] # "none" /\ client[s] = v
      BY <1>2, <2>1 DEF IndInv, ConnPhase, WaitsForOwn, Outcome, Settled
    <2>3. QED
      BY <1>2, <2>1, <2>2 DEF Awaited
  <1>3. QED
    BY <1>1, <1>2

(* A worker whose record has a report on its way waits for that report.      *)
LEMMA ReportOf ==
  ASSUME IndInv, NEW w \in Worker, conn[w] = NoSession, held[w] \in JobID,
         NEW s \in Session, op[s] \in Outcome
  PROVE  rows[s] # {held[w]}
  <1>1. PICK j \in JobID : rows[s] = {j} /\ \A v \in Worker : held[v] = j => conn[v] = s
    BY DEF IndInv, ReportPhase, ReportOn
  <1>2. QED
    BY <1>1, RunnerAssumption

-------------------------------------------------------------------------------
(* What steps of several actions have in common.                             *)

\* No record and no call of Work changes; a worker keeps its record or lets go.
LEMMA HoldInv ==
  ASSUME IndInv, UNCHANGED <<state, attempt, lastID, executed>>,
         \A w \in Worker :
             \/ /\ held'[w] = held[w] /\ copy'[w] = copy[w]
                /\ \/ pc'[w] = pc[w]
                   \/ {pc[w], pc'[w]} \subseteq {"exited", "idle", "claiming"}
             \/ held'[w] = NoJob /\ pc'[w] \in {"exited", "idle"}
  PROVE  ExclusiveWork' /\ WorkerPhase' /\ RecordPhase'
  <1>1. ExclusiveWork'
    BY DEF IndInv, ExclusiveWork
  <1>2. WorkerPhase'
    BY DEF IndInv, WorkerPhase
  <1>3. RecordPhase'
    BY DEF IndInv, RecordPhase
  <1>4. QED
    BY <1>1, <1>2, <1>3

\* No statement and no running record changes; a worker keeps what it has or
\* is left with nothing.
LEMMA ServerFrame ==
  ASSUME IndInv, UNCHANGED server,
         \A j \in JobID : state[j] = "running" =>
             UNCHANGED <<state[j], attempt[j], executed[j], kind[j]>>,
         \A w \in Worker :
             \/ UNCHANGED <<pc[w], held[w], conn[w]>>
             \/ held'[w] = NoJob /\ conn'[w] = NoSession /\ pc'[w] \in {"exited", "idle"}
  PROVE  ConnPhase' /\ ReportPhase' /\ SessionPhase'
  <1>1. SessionPhase'
    BY DEF IndInv, SessionPhase, server
  <1>2. ReportPhase'
    <2>1. SUFFICES ASSUME NEW s \in Session, op[s] \in Outcome
                   PROVE  \E j \in JobID : ReportOn(s, j)'
      BY DEF ReportPhase, server
    <2>2. PICK j \in JobID : ReportOn(s, j)
      BY <2>1 DEF IndInv, ReportPhase
    <2>3. UNCHANGED <<state[j], attempt[j], executed[j]>>
      BY <2>2 DEF ReportOn
    <2>4. \A w \in Worker : held'[w] = j => conn'[w] = s
      BY <2>2, IDs DEF ReportOn
    <2>5. ReportOn(s, j)'
      BY <2>2, <2>3, <2>4 DEF ReportOn, server
    <2>6. QED
      BY <2>5
  <1>3. ConnPhase'
    <2>1. SUFFICES ASSUME NEW w \in Worker PROVE WaitsForOwn(w)'
      BY DEF ConnPhase
    <2>2. CASE held'[w] = NoJob /\ conn'[w] = NoSession /\ pc'[w] \in {"exited", "idle"}
      BY <2>2 DEF WaitsForOwn
    <2>3. CASE UNCHANGED <<pc[w], held[w], conn[w]>>
      <3>1. held[w] # NoJob => kind'[held[w]] = kind[held[w]]
        BY DEF IndInv, ExclusiveWork, TypeOK
      <3>2. QED
        BY <2>3, <3>1 DEF IndInv, ConnPhase, WaitsForOwn, Decodes, server
    <2>4. QED
      BY <2>2, <2>3
  <1>4. QED
    BY <1>1, <1>2, <1>3

\* A session's statement ends; its client, if it waits, waits no more, and may
\* now hold a record that was not running.
LEMMA ServerEnd ==
  ASSUME IndInv, NEW s \in Session, EndStatement(s), UNCHANGED kind,
         \A t \in Session \ {s}, j \in JobID :
             op[t] \in Outcome /\ rows[t] = {j} =>
                 UNCHANGED <<state[j], attempt[j], executed[j]>>,
         \A w \in Worker :
             IF conn[w] = s
             THEN /\ conn'[w] = NoSession /\ pc'[w] # "claiming"
                  /\ held'[w] = NoJob \/ state[held'[w]] # "running"
             ELSE UNCHANGED <<pc[w], held[w], conn[w]>>
  PROVE  ConnPhase' /\ ReportPhase' /\ SessionPhase'
  <1> USE DEF EndStatement
  <1>0. /\ op'[s] = "none" /\ client'[s] = NoWorker /\ rows'[s] = {}
        /\ \A t \in Session \ {s} : UNCHANGED <<op[t], client[t], rows[t]>>
    BY DEF IndInv, TypeOK
  <1>1. SessionPhase'
    BY <1>0 DEF IndInv, SessionPhase
  <1>2. ReportPhase'
    <2>1. SUFFICES ASSUME NEW t \in Session, op'[t] \in Outcome
                   PROVE  \E j \in JobID : ReportOn(t, j)'
      BY DEF ReportPhase
    <2>2. t # s /\ UNCHANGED <<op[t], rows[t]>> /\ op[t] \in Outcome
      BY <1>0, <2>1 DEF Outcome, Settled
    <2>3. PICK j \in JobID : ReportOn(t, j)
      BY <2>2 DEF IndInv, ReportPhase
    <2>4. UNCHANGED <<state[j], attempt[j], executed[j]>>
      BY <2>2, <2>3 DEF ReportOn
    <2>5. \A w \in Worker : held'[w] = j => conn'[w] = t
      BY <2>2, <2>3, IDs DEF ReportOn
    <2>6. \A u \in Session : op'[u] \in Outcome /\ rows'[u] = {j} => u = t
      BY <1>0, <2>3 DEF Outcome, Settled, ReportOn
    <2>7. ReportOn(t, j)'
      BY <2>2, <2>3, <2>4, <2>5, <2>6 DEF ReportOn
    <2>8. QED
      BY <2>7
  <1>3. ConnPhase'
    <2>1. SUFFICES ASSUME NEW w \in Worker PROVE WaitsForOwn(w)'
      BY DEF ConnPhase
    <2>2. CASE conn[w] = s
      BY <2>2 DEF WaitsForOwn
    <2>3. CASE conn[w] # s
      <3>1. conn[w] # NoSession => conn[w] \in Session \ {s}
        BY <2>3 DEF IndInv, TypeOK
      <3>2. conn[w] # NoSession => /\ op'[conn[w]] = op[conn[w]]
                                   /\ client'[conn[w]] = client[conn[w]]
                                   /\ rows'[conn[w]] = rows[conn[w]]
        BY <1>0, <3>1
      <3>3. UNCHANGED <<pc[w], held[w], conn[w]>>
        BY <2>3
      <3>4. QED
        BY <3>2, <3>3 DEF IndInv, ConnPhase, WaitsForOwn, Decodes
    <2>4. QED
      BY <2>2, <2>3
  <1>4. QED
    BY <1>1, <1>2, <1>3

-------------------------------------------------------------------------------
(* The invariant is kept, action by action.                                  *)

\* A new record has no holder, no attempt and no call of Work.
LEMMA EnqueueInv ==
  ASSUME IndInv, NEW r \in Runner, NEW k \in Kind, NEW q \in Queue,
         NEW at \in 0..Horizon, Enqueue(r, k, q, at)
  PROVE  IndInv'
  <1>1. lastID + 1 \in JobID /\ state[lastID + 1] = "absent"
    <2>1. lastID + 1 \in JobID /\ lastID + 1 > lastID
      BY IDs DEF IndInv, TypeOK, Enqueue
    <2>2. QED
      BY <2>1 DEF IndInv, RecordPhase
  <1>2. TypeOK'
    <2>1. state' \in [JobID -> State] /\ lastID' \in 0..MaxJobs
      BY <1>1 DEF IndInv, TypeOK, State, Enqueue
    <2>2. /\ runAt' \in [JobID -> 0..Horizon]
          /\ queue' \in [JobID -> Queue] /\ kind' \in [JobID -> Kind]
      BY <1>1 DEF IndInv, TypeOK, Enqueue
    <2>3. QED
      BY <2>1, <2>2 DEF IndInv, TypeOK, Enqueue, worker, server
  <1>3. ExclusiveWork'
    BY <1>1, IDs DEF IndInv, ExclusiveWork, TypeOK, Enqueue, worker
  <1>4. WorkerPhase'
    BY DEF IndInv, WorkerPhase, Enqueue, worker
  <1>5. RecordPhase'
    BY <1>1, IDs DEF IndInv, RecordPhase, TypeOK, Enqueue
  <1>6. PoolPhase'
    BY DEF IndInv, PoolPhase, Enqueue, worker, server
  <1>7. ConnPhase' /\ ReportPhase' /\ SessionPhase'
    <2>1. \A j \in JobID : state[j] = "running" =>
              UNCHANGED <<state[j], attempt[j], executed[j], kind[j]>>
      BY <1>1 DEF IndInv, TypeOK, Enqueue
    <2>2. QED
      BY <2>1, ServerFrame DEF Enqueue, worker
  <1>8. QED
    BY <1>2, <1>3, <1>4, <1>5, <1>6, <1>7 DEF IndInv

\* A crash takes the workers of a runner away and leaves the rows and the
\* statements alone; the other steps of a runner touch neither.
LEMMA RunnerInv ==
  ASSUME IndInv, NEW r \in Runner, Start(r) \/ Cancel(r) \/ Crash(r) \/ Restart(r)
  PROVE  IndInv'
  <1>1. TypeOK'
    BY DEF IndInv, TypeOK, Phase, PC, Start, Cancel, Crash, Restart, table, worker, server
  <1>2. Start(r) => \A w \in Worker : RunnerOf[w] = r =>
                        pc[w] = "exited" /\ held[w] = NoJob /\ conn[w] = NoSession
    <2>1. Start(r) => \A w \in Worker : RunnerOf[w] = r => pc[w] = "exited"
      BY DEF IndInv, PoolPhase, Start, Drained, WorkersOf
    <2>2. \A w \in Worker : pc[w] = "exited" => held[w] = NoJob
      BY DEF IndInv, WorkerPhase
    <2>3. \A w \in Worker : pc[w] = "exited" => conn[w] = NoSession
      BY <2>2 DEF IndInv, ConnPhase, WaitsForOwn
    <2>4. QED
      BY <2>1, <2>2, <2>3
  <1>3. \A w \in Worker :
             \/ UNCHANGED <<pc[w], held[w], copy[w], conn[w]>>
             \/ held'[w] = NoJob /\ conn'[w] = NoSession /\ pc'[w] \in {"exited", "idle"}
    BY <1>2 DEF IndInv, TypeOK, Start, Cancel, Crash, Restart, worker
  <1>4. ExclusiveWork' /\ WorkerPhase' /\ RecordPhase'
    <2>1. UNCHANGED <<state, attempt, lastID, executed>>
      BY DEF Start, Cancel, Crash, Restart, table
    <2>2. QED
      BY <1>3, <2>1, HoldInv
  <1>5. ConnPhase' /\ ReportPhase' /\ SessionPhase'
    <2>1. UNCHANGED <<state, attempt, executed, kind, server>>
      BY DEF Start, Cancel, Crash, Restart, table
    <2>2. QED
      BY <1>3, <2>1, ServerFrame
  <1>6. PoolPhase'
    BY RunnerAssumption
       DEF IndInv, PoolPhase, TypeOK, Start, Cancel, Crash, Restart, worker, server
  <1>7. QED
    BY <1>1, <1>4, <1>5, <1>6 DEF IndInv

\* Neither time nor stuttering matters.
LEMMA TickInv == ASSUME IndInv, Tick \/ UNCHANGED vars PROVE IndInv'
  <1>1. UNCHANGED <<table, phase, worker, server, executed>>
    BY DEF Tick, vars
  <1>2. TypeOK' /\ PoolPhase'
    BY <1>1 DEF IndInv, TypeOK, PoolPhase, Tick, vars, table, worker, server
  <1>3. ExclusiveWork' /\ WorkerPhase' /\ RecordPhase'
    BY <1>1, HoldInv DEF table, worker
  <1>4. ConnPhase' /\ ReportPhase' /\ SessionPhase'
    BY <1>1, ServerFrame DEF table, worker
  <1>5. QED
    BY <1>2, <1>3, <1>4 DEF IndInv

\* A claimable row becomes running and is handed to a worker without a record,
\* or to nobody.
LEMMA ClaimedRecord ==
  ASSUME IndInv, NEW j \in JobID, Claimable(j), MarkRunning(j),
         \/ UNCHANGED <<pc, held, copy>>
         \/ \E w \in Worker : pc[w] \in {"idle", "claiming"} /\ Receive(w, j),
         UNCHANGED executed
  PROVE  /\ state' \in [JobID -> State] /\ attempt' \in [JobID -> 0..MaxAttempts]
         /\ pc' \in [Worker -> PC] /\ held' \in [Worker -> JobID \cup {NoJob}]
         /\ copy' \in [Worker -> 0..MaxAttempts]
         /\ ExclusiveWork' /\ WorkerPhase' /\ RecordPhase'
  <1>1. /\ executed[j] = attempt[j] /\ attempt[j] < MaxAttempts /\ j <= lastID
        /\ \A v \in Worker : held[v] # j
    BY ClaimableRecord
  <1>2. attempt[j] + 1 \in 0..MaxAttempts
    BY <1>1 DEF IndInv, TypeOK
  <1>3. state' \in [JobID -> State] /\ attempt' \in [JobID -> 0..MaxAttempts]
    BY <1>2 DEF IndInv, TypeOK, State, MarkRunning
  <1>4. RecordPhase'
    BY <1>1, IDs DEF IndInv, RecordPhase, TypeOK, MarkRunning
  <1>5. CASE UNCHANGED <<pc, held, copy>>
    <2>1. ExclusiveWork'
      BY <1>1, <1>5, IDs DEF IndInv, ExclusiveWork, TypeOK, MarkRunning
    <2>2. WorkerPhase'
      BY <1>1, <1>5, IDs DEF IndInv, WorkerPhase, TypeOK, MarkRunning
    <2>3. QED
      BY <1>3, <1>4, <1>5, <2>1, <2>2 DEF IndInv, TypeOK
  <1>6. ASSUME NEW w \in Worker, pc[w] \in {"idle", "claiming"}, Receive(w, j)
        PROVE  /\ pc' \in [Worker -> PC] /\ held' \in [Worker -> JobID \cup {NoJob}]
               /\ copy' \in [Worker -> 0..MaxAttempts]
               /\ ExclusiveWork' /\ WorkerPhase'
    <2>1. held[w] = NoJob
      BY <1>6 DEF IndInv, WorkerPhase
    <2>2. /\ pc' \in [Worker -> PC] /\ held' \in [Worker -> JobID \cup {NoJob}]
          /\ copy' \in [Worker -> 0..MaxAttempts]
      BY <1>2, <1>6 DEF IndInv, TypeOK, PC, Receive
    <2>6. /\ pc'[w] = "claimed" /\ held'[w] = j /\ copy'[w] = attempt[j] + 1
          /\ \A v \in Worker \ {w} : UNCHANGED <<pc[v], held[v], copy[v]>>
      BY <1>6 DEF IndInv, TypeOK, Receive
    <2>7. /\ state'[j] = "running" /\ attempt'[j] = attempt[j] + 1
          /\ \A i \in JobID \ {j} : UNCHANGED <<state[i], attempt[i]>>
      BY DEF IndInv, TypeOK, MarkRunning
    <2>8. \A v \in Worker \ {w} : held[v] # NoJob =>
              held[v] # j /\ UNCHANGED <<state[held[v]], attempt[held[v]]>>
      BY <1>1, <2>6, <2>7 DEF IndInv, TypeOK
    <2>3. ExclusiveWork'
      <3>1. SUFFICES ASSUME NEW v \in Worker, held'[v] # NoJob
                     PROVE  /\ state'[held'[v]] = "running" /\ copy'[v] = attempt'[held'[v]]
                            /\ \A u \in Worker : held'[u] = held'[v] => u = v
        BY DEF ExclusiveWork
      <3>2. CASE v = w
        BY <1>1, <2>6, <2>7, <3>2
      <3>3. CASE v # w
        BY <1>1, <2>6, <2>8, <3>1, <3>3 DEF IndInv, ExclusiveWork
      <3>4. QED
        BY <3>2, <3>3
    <2>4. WorkerPhase'
      BY <1>1, <2>6, <2>7, <2>8, IDs DEF IndInv, WorkerPhase
    <2>5. QED
      BY <2>2, <2>3, <2>4
  <1>7. QED
    BY <1>3, <1>4, <1>5, <1>6

\* Without a statement in the server nobody waits for one.
LEMMA InMemory ==
  ASSUME IndInv, Backend = "inmemory"
  PROVE  /\ \A s \in Session : op[s] = "none" /\ ~Awaited(s)
         /\ \A w \in Worker : conn[w] = NoSession /\ pc[w] # "claiming"
  <1>1. \A s \in Session : op[s] = "none"
    BY DEF IndInv, PoolPhase
  <1>2. \A w \in Worker : conn[w] = NoSession
    BY <1>1, WaitedFor DEF IndInv, TypeOK
  <1>3. QED
    BY <1>1, <1>2 DEF IndInv, ConnPhase, WaitsForOwn, Awaited

LEMMA ClaimInMemoryInv ==
  ASSUME IndInv, NEW w \in Worker, ClaimInMemory(w)
  PROVE  IndInv'
  <1>1. PICK j \in JobID : Claimable(j) /\ MarkRunning(j) /\ Receive(w, j)
    BY DEF ClaimInMemory, Earliest, Eligible
  <1>2. pc[w] = "idle" /\ UNCHANGED <<clock, phase, server, executed>>
    BY DEF ClaimInMemory
  <1>3. /\ state' \in [JobID -> State] /\ attempt' \in [JobID -> 0..MaxAttempts]
        /\ pc' \in [Worker -> PC] /\ held' \in [Worker -> JobID \cup {NoJob}]
        /\ copy' \in [Worker -> 0..MaxAttempts]
        /\ ExclusiveWork' /\ WorkerPhase' /\ RecordPhase'
    BY <1>1, <1>2, ClaimedRecord
  <1>4. TypeOK'
    BY <1>1, <1>2, <1>3 DEF IndInv, TypeOK, MarkRunning, Receive, server
  <1>5. PoolPhase'
    BY <1>1, <1>2 DEF IndInv, PoolPhase, TypeOK, Receive, server
  <1>6. /\ \A s \in Session : op'[s] = "none"
        /\ \A v \in Worker : conn'[v] = NoSession /\ pc'[v] # "claiming"
    BY <1>1, <1>2, InMemory DEF ClaimInMemory, Receive, server, IndInv, TypeOK
  <1>7. ConnPhase' /\ ReportPhase'
    BY <1>6 DEF ConnPhase, WaitsForOwn, ReportPhase, Outcome, Settled
  <1>8. SessionPhase'
    BY <1>2 DEF IndInv, SessionPhase, server
  <1>9. QED
    BY <1>3, <1>4, <1>5, <1>7, <1>8 DEF IndInv

\* The worker sends its statement to a session that has none.
LEMMA SendInv ==
  ASSUME IndInv, NEW w \in Worker, NEW s \in Session, SendClaim(w, s)
  PROVE  IndInv'
  <1> USE DEF SendClaim, Send
  <1>1. TypeOK'
    BY DEF IndInv, TypeOK, PC, Op, table
  <1>2. held[w] = NoJob
    BY DEF IndInv, WorkerPhase
  <1>3. ExclusiveWork' /\ WorkerPhase' /\ RecordPhase'
    <2>1. \A v \in Worker : \/ pc'[v] = pc[v]
                            \/ {pc[v], pc'[v]} \subseteq {"exited", "idle", "claiming"}
      BY DEF IndInv, TypeOK
    <2>2. QED
      BY <2>1, HoldInv DEF table
  <1>4. PoolPhase'
    BY DEF IndInv, PoolPhase, TypeOK
  <1>5. \A v \in Worker : conn[v] # s
    BY WaitedFor
  <1>6. ConnPhase'
    BY <1>2, <1>5, RunnerAssumption DEF IndInv, ConnPhase, WaitsForOwn, TypeOK, Decodes, table
  <1>7. ReportPhase'
    <2>1. \A t \in Session : op'[t] \in Outcome => t # s
      BY DEF IndInv, TypeOK, Outcome, Settled
    <2>2. \A t \in Session : t # s => op'[t] = op[t] /\ rows'[t] = rows[t]
      BY DEF IndInv, TypeOK
    <2>3. \A v \in Worker : held[v] # NoJob => conn'[v] = conn[v]
      BY <1>2 DEF IndInv, TypeOK
    <2>4. \A t \in Session, j \in JobID : op[t] \in Outcome /\ ReportOn(t, j) => ReportOn(t, j)'
      <3>1. \A t \in Session : op[t] \in Outcome => t # s
        BY DEF Outcome, Settled
      <3>2. QED
        BY <2>1, <2>2, <2>3, <3>1, IDs DEF ReportOn, table
    <2>5. QED
      BY <2>1, <2>2, <2>4 DEF IndInv, ReportPhase
  <1>8. SessionPhase'
    BY RunnerAssumption DEF IndInv, SessionPhase, TypeOK
  <1>9. QED
    BY <1>1, <1>3, <1>4, <1>6, <1>7, <1>8 DEF IndInv

\* A snapshot changes what its session has selected, and nothing else.
LEMMA SnapshotInv ==
  ASSUME IndInv, NEW s \in Session, ClaimSnapshot(s)
  PROVE  IndInv'
  <1> USE DEF ClaimSnapshot
  <1>1. /\ op'[s] = "selected" /\ rows'[s] \subseteq JobID
        /\ \A t \in Session \ {s} : UNCHANGED <<op[t], rows[t]>>
    BY DEF IndInv, TypeOK, Eligible
  <1>2. TypeOK'
    BY <1>1 DEF IndInv, TypeOK, Op, table, worker
  <1>3. ExclusiveWork' /\ WorkerPhase' /\ RecordPhase'
    BY HoldInv DEF table, worker
  <1>4. PoolPhase'
    BY <1>1 DEF IndInv, PoolPhase, worker
  <1>5. ConnPhase'
    <2>1. SUFFICES ASSUME NEW w \in Worker PROVE WaitsForOwn(w)'
      BY DEF ConnPhase
    <2>2. CASE conn[w] = s
      BY <1>1, <2>2 DEF IndInv, ConnPhase, WaitsForOwn, Outcome, Settled, worker
    <2>3. CASE conn[w] # s
      BY <1>1, <2>3 DEF IndInv, TypeOK, ConnPhase, WaitsForOwn, Decodes, table, worker
    <2>4. QED
      BY <2>2, <2>3
  <1>6. ReportPhase'
    <2>1. \A t \in Session, j \in JobID : op[t] \in Outcome /\ ReportOn(t, j) => ReportOn(t, j)'
      BY <1>1 DEF ReportOn, Outcome, Settled, table, worker
    <2>2. \A t \in Session : op'[t] \in Outcome => op[t] \in Outcome
      BY <1>1 DEF Outcome, Settled
    <2>3. QED
      BY <2>1, <2>2 DEF IndInv, ReportPhase
  <1>7. SessionPhase'
    BY <1>1 DEF IndInv, SessionPhase
  <1>8. QED
    BY <1>2, <1>3, <1>4, <1>5, <1>6, <1>7 DEF IndInv

\* Types and backend after a statement has ended.
LEMMA EndTypes ==
  ASSUME IndInv, NEW s \in Session, EndStatement(s)
  PROVE  /\ op' \in [Session -> Op] /\ client' \in [Session -> Worker \cup {NoWorker}]
         /\ time' \in [Session -> 0..Horizon] /\ rows' \in [Session -> SUBSET JobID]
         /\ \A t \in Session : op'[t] # "none" => Backend = "pg"
  BY DEF IndInv, TypeOK, Op, PoolPhase, EndStatement

\* The row is locked and updated, whether or not the worker still waits.
LEMMA ClaimCommitInv ==
  ASSUME IndInv, NEW s \in Session, ClaimCommit(s)
  PROVE  IndInv'
  <1>1. PICK j \in JobID : /\ Claimable(j) /\ MarkRunning(j)
                           /\ IF Awaited(s) THEN Receive(client[s], j) ELSE UNCHANGED worker
    BY DEF ClaimCommit, Earliest, Lockable
  <1>2. /\ op[s] = "selected" /\ EndStatement(s) /\ UNCHANGED <<clock, phase, executed>>
    BY DEF ClaimCommit
  <1>3. Awaited(s) => client[s] \in Worker /\ conn[client[s]] = s /\ pc[client[s]] = "claiming"
    <2>1. Awaited(s) => client[s] \in Worker /\ conn[client[s]] = s /\ s # NoSession
      BY WaitedFor, RunnerAssumption
    <2>2. QED
      BY <1>2, <2>1 DEF IndInv, ConnPhase, WaitsForOwn, Outcome, Settled
  <1>4. /\ state' \in [JobID -> State] /\ attempt' \in [JobID -> 0..MaxAttempts]
        /\ pc' \in [Worker -> PC] /\ held' \in [Worker -> JobID \cup {NoJob}]
        /\ copy' \in [Worker -> 0..MaxAttempts]
        /\ ExclusiveWork' /\ WorkerPhase' /\ RecordPhase'
    BY <1>1, <1>2, <1>3, ClaimedRecord DEF worker
  <1>5. TypeOK'
    <2>1. conn' \in [Worker -> Session \cup {NoSession}]
      BY <1>1 DEF IndInv, TypeOK, Receive, worker
    <2>2. QED
      BY <1>1, <1>2, <1>4, <2>1, EndTypes DEF IndInv, TypeOK, MarkRunning
  <1>6. PoolPhase'
    <2>1. \A w \in Worker : pc'[w] = pc[w] \/ pc[w] = "claiming"
      BY <1>1, <1>3 DEF IndInv, TypeOK, Receive, worker
    <2>2. QED
      BY <1>2, <2>1, EndTypes DEF IndInv, PoolPhase
  <1>7. ConnPhase' /\ ReportPhase' /\ SessionPhase'
    <2>1. \A t \in Session \ {s}, i \in JobID : op[t] \in Outcome /\ rows[t] = {i} =>
              UNCHANGED <<state[i], attempt[i], executed[i]>>
      <3>1. \A t \in Session, i \in JobID : op[t] \in Outcome /\ rows[t] = {i} => i # j
        <4>1. \A t \in Session : op[t] \in Outcome =>
                  \E i \in JobID : rows[t] = {i} /\ state[i] = "running"
          BY DEF IndInv, ReportPhase, ReportOn
        <4>2. state[j] # "running"
          BY <1>1, ClaimableRecord
        <4>3. QED
          BY <4>1, <4>2
      <3>2. QED
        BY <1>1, <1>2, <3>1 DEF IndInv, TypeOK, MarkRunning
    <2>2. ASSUME NEW w \in Worker
          PROVE  IF conn[w] = s
                 THEN /\ conn'[w] = NoSession /\ pc'[w] # "claiming"
                      /\ held'[w] = NoJob \/ state[held'[w]] # "running"
                 ELSE UNCHANGED <<pc[w], held[w], conn[w]>>
      <3>1. CASE conn[w] = s
        <4>1. Awaited(s) /\ client[s] = w
          BY <3>1, WaitedFor
        <4>2. /\ conn'[w] = NoSession /\ pc'[w] = "claimed" /\ held'[w] = j
          BY <1>1, <4>1 DEF IndInv, TypeOK, Receive
        <4>3. QED
          BY <1>1, <3>1, <4>2, ClaimableRecord
      <3>2. CASE conn[w] # s
        <4>1. Awaited(s) => client[s] # w
          BY <1>3, <3>2
        <4>2. QED
          BY <1>1, <3>2, <4>1 DEF IndInv, TypeOK, Receive, worker
      <3>3. QED
        BY <3>1, <3>2
    <2>3. UNCHANGED kind
      BY <1>1 DEF MarkRunning
    <2>4. QED
      BY <1>2, <2>1, <2>2, <2>3, ServerEnd
  <1>8. QED
    BY <1>4, <1>5, <1>6, <1>7 DEF IndInv

\* Whoever waited for the session is left with nothing.
LEMMA LetGo ==
  ASSUME IndInv, NEW s \in Session,
         IF Awaited(s) THEN Idle(client[s]) ELSE UNCHANGED worker
  PROVE  /\ pc' \in [Worker -> PC] /\ held' \in [Worker -> JobID \cup {NoJob}]
         /\ copy' \in [Worker -> 0..MaxAttempts] /\ conn' \in [Worker -> Session \cup {NoSession}]
         /\ \A w \in Worker :
                IF conn[w] = s
                THEN /\ conn'[w] = NoSession /\ pc'[w] = "idle" /\ held'[w] = NoJob
                     /\ pc[w] # "exited"
                ELSE UNCHANGED <<pc[w], held[w], copy[w], conn[w]>>
  <1>1. /\ Awaited(s) => client[s] \in Worker /\ conn[client[s]] = s
        /\ \A w \in Worker : conn[w] = s => Awaited(s) /\ client[s] = w
    BY WaitedFor
  <1>2. CASE Awaited(s)
    <2>1. client[s] \in Worker /\ Idle(client[s])
      BY <1>1, <1>2
    <2>2. /\ pc' \in [Worker -> PC] /\ held' \in [Worker -> JobID \cup {NoJob}]
          /\ copy' \in [Worker -> 0..MaxAttempts] /\ conn' \in [Worker -> Session \cup {NoSession}]
      BY <2>1 DEF IndInv, TypeOK, PC, Idle
    <2>3. pc[client[s]] # "exited"
      BY <1>1, <1>2, RunnerAssumption DEF IndInv, ConnPhase, WaitsForOwn, WorkerPhase
    <2>4. QED
      BY <1>1, <1>2, <2>1, <2>2, <2>3 DEF IndInv, TypeOK, Idle
  <1>3. CASE ~Awaited(s)
    BY <1>1, <1>3 DEF IndInv, TypeOK, worker
  <1>4. QED
    BY <1>2, <1>3

\* A statement ends without a change of the table; whoever waits has nothing.
LEMMA EndInv ==
  ASSUME IndInv, NEW s \in Session, EndStatement(s),
         IF Awaited(s) THEN Idle(client[s]) ELSE UNCHANGED worker,
         UNCHANGED <<table, clock, phase, executed>>
  PROVE  IndInv'
  <1>1. TypeOK'
    BY LetGo, EndTypes DEF IndInv, TypeOK, table
  <1>2. ExclusiveWork' /\ WorkerPhase' /\ RecordPhase'
    BY LetGo, HoldInv DEF table
  <1>3. PoolPhase'
    <2>1. \A w \in Worker : pc'[w] = pc[w] \/ pc[w] # "exited"
      BY LetGo
    <2>2. QED
      BY <2>1, EndTypes DEF IndInv, PoolPhase
  <1>4. ConnPhase' /\ ReportPhase' /\ SessionPhase'
    <2>1. UNCHANGED <<state, attempt, executed, kind>>
      BY DEF table
    <2>2. \A w \in Worker :
             IF conn[w] = s
             THEN /\ conn'[w] = NoSession /\ pc'[w] # "claiming"
                  /\ held'[w] = NoJob \/ state[held'[w]] # "running"
             ELSE UNCHANGED <<pc[w], held[w], conn[w]>>
      BY LetGo
    <2>3. QED
      BY <2>1, <2>2, ServerEnd
  <1>5. QED
    BY <1>1, <1>2, <1>3, <1>4 DEF IndInv

\* The update of a report whose worker may not wait any more.
LEMMA SettleCommitInv ==
  ASSUME IndInv, NEW s \in Session, SettleCommit(s)
  PROVE  IndInv'
  <1>1. PICK j \in JobID : ReportOn(s, j)
    BY DEF IndInv, ReportPhase, SettleCommit
  <1>2. Settle(j, op[s], time[s]) /\ op[s] \in Outcome /\ EndStatement(s)
    BY <1>1 DEF SettleCommit, ReportOn
  <1>3. UNCHANGED <<attempt, queue, kind, lastID, clock, phase, executed>>
    BY <1>2 DEF SettleCommit, Settle
  <1>4. /\ state' = [state EXCEPT ![j] = op[s]]
        /\ state[j] = "running" /\ ~(j > lastID)
        /\ \A w \in Worker : held[w] = j <=> conn[w] = s
    <2>1. \A w \in Worker : conn[w] = s => held[w] = j
      <3>1. \A w \in Worker : conn[w] = s => rows[s] = {held[w]}
        BY <1>2, RunnerAssumption DEF IndInv, ConnPhase, WaitsForOwn, Outcome, Settled
      <3>2. QED
        BY <1>1, <3>1 DEF ReportOn
    <2>2. QED
      BY <1>1, <1>2, <2>1 DEF ReportOn, Settle, IndInv, RecordPhase
  <1>5. IF Awaited(s) THEN Idle(client[s]) ELSE UNCHANGED worker
    BY DEF SettleCommit
  <1>6. \A w \in Worker :
            IF conn[w] = s
            THEN /\ conn'[w] = NoSession /\ pc'[w] = "idle" /\ held'[w] = NoJob
                 /\ pc[w] # "exited"
            ELSE UNCHANGED <<pc[w], held[w], copy[w], conn[w]>>
    BY <1>5, LetGo
  <1>7. TypeOK'
    <2>1. /\ pc' \in [Worker -> PC] /\ held' \in [Worker -> JobID \cup {NoJob}]
          /\ copy' \in [Worker -> 0..MaxAttempts] /\ conn' \in [Worker -> Session \cup {NoSession}]
      BY <1>5, LetGo
    <2>2. state' \in [JobID -> State] /\ runAt' \in [JobID -> 0..Horizon]
      BY <1>2 DEF IndInv, TypeOK, Settle, State, Outcome, Settled
    <2>3. QED
      BY <1>2, <1>3, <2>1, <2>2, EndTypes DEF IndInv, TypeOK
  <1>8. ExclusiveWork'
    <2>1. \A w \in Worker : held'[w] # NoJob =>
              held'[w] = held[w] /\ copy'[w] = copy[w] /\ held[w] # j
      BY <1>4, <1>6
    <2>2. QED
      BY <1>3, <1>4, <2>1 DEF IndInv, ExclusiveWork, TypeOK
  <1>9. WorkerPhase'
    BY <1>3, <1>6 DEF IndInv, WorkerPhase
  <1>10. RecordPhase'
    <2>1. op[s] = "retrying" => executed[j] = attempt[j] /\ attempt[j] < MaxAttempts
      BY <1>1 DEF ReportOn
    <2>2. SUFFICES ASSUME NEW i \in JobID
                   PROVE  /\ i > lastID => state'[i] = "absent"
                          /\ state'[i] \in {"absent", "pending", "retrying"} =>
                                executed[i] = attempt[i] /\ attempt[i] < MaxAttempts
      BY <1>3 DEF RecordPhase
    <2>3. CASE i = j
      <3>1. state'[i] = op[s]
        BY <1>4, <2>3 DEF IndInv, TypeOK
      <3>2. QED
        BY <1>2, <1>4, <2>1, <2>3, <3>1 DEF Outcome, Settled
    <2>4. CASE i # j
      BY <1>4, <2>4 DEF IndInv, RecordPhase, TypeOK
    <2>5. QED
      BY <2>3, <2>4
  <1>11. PoolPhase'
    <2>1. \A w \in Worker : pc'[w] = pc[w] \/ pc[w] # "exited"
      BY <1>6
    <2>2. QED
      BY <1>2, <1>3, <2>1, EndTypes DEF IndInv, PoolPhase
  <1>12. ConnPhase' /\ ReportPhase' /\ SessionPhase'
    <2>1. \A t \in Session \ {s}, i \in JobID : op[t] \in Outcome /\ rows[t] = {i} =>
              UNCHANGED <<state[i], attempt[i], executed[i]>>
      <3>1. \A t \in Session \ {s}, i \in JobID : op[t] \in Outcome /\ rows[t] = {i} => i # j
        BY <1>1 DEF ReportOn
      <3>2. QED
        BY <1>3, <1>4, <3>1 DEF IndInv, TypeOK
    <2>2. QED
      BY <1>2, <1>3, <1>6, <2>1, ServerEnd
  <1>13. QED
    BY <1>7, <1>8, <1>9, <1>10, <1>11, <1>12 DEF IndInv

\* A statement nobody waits for may vanish.
LEMMA DropStatementInv ==
  ASSUME IndInv, NEW s \in Session, DropStatement(s)
  PROVE  IndInv'
  BY EndInv DEF DropStatement

\* A worker whose call fails, or that returns, is left without a record.
LEMMA QuitInv ==
  ASSUME IndInv, NEW w \in Worker, GiveUp(w) \/ LoseReport(w) \/ Exit(w)
  PROVE  IndInv'
  <1>1. UNCHANGED <<table, clock, phase, server, executed>>
    BY DEF GiveUp, LoseReport, Exit
  <1>2. pc[w] # "exited"
    <2>1. GiveUp(w) => pc[w] # "exited"
      BY DEF IndInv, ConnPhase, WaitsForOwn, WorkerPhase, GiveUp
    <2>2. LoseReport(w) => pc[w] # "exited"
      BY DEF LoseReport, Reports, Complete, Discard, Retry
    <2>3. QED
      BY <2>1, <2>2 DEF Exit
  <1>3. Exit(w) => held[w] = NoJob /\ conn[w] = NoSession
    BY DEF IndInv, WorkerPhase, ConnPhase, WaitsForOwn, Exit
  <1>4. \A v \in Worker :
             \/ UNCHANGED <<pc[v], held[v], copy[v], conn[v]>>
             \/ held'[v] = NoJob /\ conn'[v] = NoSession /\ pc'[v] \in {"exited", "idle"}
    BY <1>3 DEF IndInv, TypeOK, GiveUp, LoseReport, Exit, Idle
  <1>5. TypeOK'
    <2>1. /\ pc' \in [Worker -> PC] /\ held' \in [Worker -> JobID \cup {NoJob}]
          /\ copy' \in [Worker -> 0..MaxAttempts] /\ conn' \in [Worker -> Session \cup {NoSession}]
      <3>1. CASE Idle(w)
        BY <3>1 DEF IndInv, TypeOK, PC, Idle
      <3>2. CASE Exit(w)
        BY <3>2 DEF IndInv, TypeOK, PC, Exit
      <3>3. QED
        BY <3>1, <3>2 DEF GiveUp, LoseReport
    <2>2. QED
      BY <1>1, <2>1 DEF IndInv, TypeOK, table, server
  <1>6. ExclusiveWork' /\ WorkerPhase' /\ RecordPhase'
    BY <1>1, <1>4, HoldInv DEF table
  <1>7. PoolPhase'
    <2>1. \A v \in Worker : pc[v] = "exited" => pc'[v] = "exited"
      BY <1>2 DEF IndInv, TypeOK, GiveUp, LoseReport, Exit, Idle
    <2>2. QED
      BY <1>1, <2>1 DEF IndInv, PoolPhase, server
  <1>8. ConnPhase' /\ ReportPhase' /\ SessionPhase'
    BY <1>1, <1>4, ServerFrame DEF table
  <1>9. QED
    BY <1>5, <1>6, <1>7, <1>8 DEF IndInv

\* A call of Work is counted for the attempt its worker claimed.
LEMMA RunJobInv ==
  ASSUME IndInv, NEW w \in Worker, RunJob(w)
  PROVE  IndInv'
  <1>1. /\ held[w] \in JobID /\ state[held[w]] = "running"
        /\ executed[held[w]] + 1 = attempt[held[w]] /\ held[w] # NoJob
        /\ \A v \in Worker : held[v] = held[w] => v = w
    BY HeldRecord, IDs DEF RunJob
  <1>2. /\ UNCHANGED <<table, clock, phase, held, copy, conn, server>>
        /\ executed' = [executed EXCEPT ![held[w]] = @ + 1]
        /\ pc[w] = "claimed" /\ pc'[w] \in {"worked", "failed"}
        /\ \A v \in Worker \ {w} : pc'[v] = pc[v]
    BY DEF RunJob, IndInv, TypeOK
  <1>3. TypeOK'
    <2>1. executed' \in [JobID -> Nat] /\ pc' \in [Worker -> PC]
      BY <1>1, <1>2 DEF IndInv, TypeOK, PC, RunJob
    <2>2. QED
      BY <1>2, <2>1 DEF IndInv, TypeOK, table, server
  <1>4. ExclusiveWork'
    BY <1>2 DEF IndInv, ExclusiveWork, table
  <1>5. WorkerPhase'
    <2>1. SUFFICES ASSUME NEW v \in Worker
                   PROVE  /\ held'[v] = NoJob <=> pc'[v] \in {"exited", "idle", "claiming"}
                          /\ pc'[v] = "claimed" => executed'[held'[v]] + 1 = attempt'[held'[v]]
                          /\ pc'[v] \in {"worked", "failed"} => executed'[held'[v]] = attempt'[held'[v]]
      BY DEF WorkerPhase
    <2>2. CASE v = w
      BY <1>1, <1>2, <2>2 DEF IndInv, TypeOK, table
    <2>3. CASE v # w
      BY <1>1, <1>2, <2>3 DEF IndInv, WorkerPhase, TypeOK, table
    <2>4. QED
      BY <2>2, <2>3
  <1>6. RecordPhase'
    BY <1>1, <1>2, IDs DEF IndInv, RecordPhase, TypeOK, table
  <1>7. PoolPhase'
    BY <1>2 DEF IndInv, PoolPhase, server
  <1>8. conn[w] = NoSession
    BY <1>2 DEF IndInv, ConnPhase, WaitsForOwn, RunJob
  <1>9. ConnPhase'
    <2>1. SUFFICES ASSUME NEW v \in Worker PROVE WaitsForOwn(v)'
      BY DEF ConnPhase
    <2>2. CASE v = w
      BY <1>2, <1>8, <2>2 DEF WaitsForOwn
    <2>3. CASE v # w
      BY <1>2, <2>3 DEF IndInv, ConnPhase, WaitsForOwn, Decodes, table, server
    <2>4. QED
      BY <2>2, <2>3
  <1>10. ReportPhase' /\ SessionPhase'
    <2>1. \A s \in Session, j \in JobID : op[s] \in Outcome /\ ReportOn(s, j) => ReportOn(s, j)'
      <3>1. \A s \in Session, j \in JobID : op[s] \in Outcome /\ ReportOn(s, j) => j # held[w]
        BY <1>8, RunnerAssumption DEF ReportOn
      <3>2. \A j \in JobID \ {held[w]} : executed'[j] = executed[j]
        BY <1>2 DEF IndInv, TypeOK
      <3>3. QED
        BY <1>2, <3>1, <3>2 DEF ReportOn, table, server
    <2>2. QED
      BY <1>2, <2>1 DEF IndInv, ReportPhase, SessionPhase, server
  <1>11. QED
    BY <1>3, <1>4, <1>5, <1>6, <1>7, <1>9, <1>10 DEF IndInv

\* What a report says agrees with what its worker did.
LEMMA ReportSays ==
  ASSUME IndInv, NEW w \in Worker, NEW outcome \in Outcome, NEW at \in 0..Horizon,
         Reports(w, outcome, at)
  PROVE  /\ pc[w] \in {"claimed", "worked", "failed"}
         /\ executed[held[w]] <= attempt[held[w]]
         /\ pc[w] = "claimed" => ~Decodes(w)
         /\ outcome \in {"succeeded", "retrying"} => executed[held[w]] = attempt[held[w]]
         /\ outcome = "retrying" => attempt[held[w]] < MaxAttempts
         /\ outcome = "discarded" /\ executed[held[w]] = attempt[held[w]] =>
                attempt[held[w]] >= MaxAttempts
  <1> USE DEF Reports, Complete, Discard, Retry
  <1>1. /\ pc[w] \in {"claimed", "worked", "failed"}
        /\ pc[w] = "claimed" => ~Decodes(w) /\ outcome = "discarded"
        /\ pc[w] = "worked" => outcome = "succeeded"
        /\ pc[w] = "failed" => outcome = IF Exhausted(w) THEN "discarded" ELSE "retrying"
    OBVIOUS
  <1>2. QED
    BY <1>1, HeldRecord DEF Exhausted

\* In memory the outcome is written in the worker's own step.
LEMMA ReportInMemoryInv ==
  ASSUME IndInv, NEW w \in Worker, ReportInMemory(w)
  PROVE  IndInv'
  <1>1. PICK outcome \in Outcome, at \in 0..Horizon :
            Reports(w, outcome, at) /\ Settle(held[w], outcome, at)
    BY DEF ReportInMemory
  <1>2. /\ held[w] \in JobID /\ state[held[w]] = "running" /\ held[w] # NoJob
        /\ held[w] <= lastID /\ \A v \in Worker : held[v] = held[w] => v = w
    BY <1>1, HeldRecord, ReportSays, IDs
  <1>3. /\ state' = [state EXCEPT ![held[w]] = outcome]
        /\ UNCHANGED <<attempt, queue, kind, lastID, clock, phase, server, executed>>
        /\ pc'[w] = "idle" /\ held'[w] = NoJob /\ pc[w] # "exited"
        /\ \A v \in Worker \ {w} : UNCHANGED <<pc[v], held[v], copy[v]>>
    BY <1>1, ReportSays DEF ReportInMemory, Settle, Idle, IndInv, TypeOK
  <1>4. TypeOK'
    <2>1. /\ pc' \in [Worker -> PC] /\ held' \in [Worker -> JobID \cup {NoJob}]
          /\ copy' \in [Worker -> 0..MaxAttempts] /\ conn' \in [Worker -> Session \cup {NoSession}]
      BY DEF IndInv, TypeOK, PC, Idle, ReportInMemory
    <2>2. state' \in [JobID -> State] /\ runAt' \in [JobID -> 0..Horizon]
      BY <1>1 DEF IndInv, TypeOK, Settle, State, Outcome, Settled
    <2>3. QED
      BY <1>3, <2>1, <2>2 DEF IndInv, TypeOK, server
  <1>5. ExclusiveWork'
    <2>1. \A v \in Worker : held'[v] # NoJob =>
              held'[v] = held[v] /\ copy'[v] = copy[v] /\ held[v] # held[w]
      BY <1>2, <1>3
    <2>2. QED
      BY <1>3, <2>1 DEF IndInv, ExclusiveWork, TypeOK
  <1>6. WorkerPhase'
    BY <1>3 DEF IndInv, WorkerPhase
  <1>7. RecordPhase'
    <2>1. outcome = "retrying" =>
              executed[held[w]] = attempt[held[w]] /\ attempt[held[w]] < MaxAttempts
      BY <1>1, ReportSays
    <2>2. SUFFICES ASSUME NEW i \in JobID
                   PROVE  /\ i > lastID => state'[i] = "absent"
                          /\ state'[i] \in {"absent", "pending", "retrying"} =>
                                executed[i] = attempt[i] /\ attempt[i] < MaxAttempts
      BY <1>3 DEF RecordPhase
    <2>3. CASE i = held[w]
      <3>1. state'[i] = outcome /\ ~(i > lastID)
        BY <1>2, <1>3, <2>3, IDs DEF IndInv, TypeOK
      <3>2. QED
        BY <2>1, <2>3, <3>1 DEF Outcome, Settled
    <2>4. CASE i # held[w]
      BY <1>3, <2>4 DEF IndInv, RecordPhase, TypeOK
    <2>5. QED
      BY <2>3, <2>4
  <1>8. PoolPhase'
    <2>1. \A v \in Worker : pc[v] = "exited" => pc'[v] = "exited"
      BY <1>3
    <2>2. QED
      BY <1>3, <2>1 DEF IndInv, PoolPhase, server
  <1>9. /\ \A s \in Session : op'[s] = "none"
        /\ \A v \in Worker : conn'[v] = NoSession /\ pc'[v] # "claiming"
    BY <1>3, InMemory DEF ReportInMemory, Idle, server, IndInv, TypeOK
  <1>10. ConnPhase' /\ ReportPhase' /\ SessionPhase'
    BY <1>3, <1>9
       DEF IndInv, ConnPhase, WaitsForOwn, ReportPhase, SessionPhase, Outcome, Settled, server
  <1>11. QED
    BY <1>4, <1>5, <1>6, <1>7, <1>8, <1>10 DEF IndInv

\* The worker sends its report to a session that has no statement.
LEMMA SendReportInv ==
  ASSUME IndInv, NEW w \in Worker, NEW s \in Session, SendReport(w, s)
  PROVE  IndInv'
  <1>1. PICK outcome \in Outcome, at \in 0..Horizon :
            Reports(w, outcome, at) /\ Send(w, s, outcome, at, {held[w]})
    BY DEF SendReport
  <1>2. /\ held[w] \in JobID /\ state[held[w]] = "running" /\ held[w] # NoJob
        /\ \A v \in Worker : held[v] = held[w] => v = w
    BY <1>1, HeldRecord, ReportSays, IDs
  <1>3. UNCHANGED <<table, clock, phase, pc, held, copy, executed>>
    BY DEF SendReport
  <1>4. /\ op'[s] = outcome /\ client'[s] = w /\ rows'[s] = {held[w]} /\ conn'[w] = s
        /\ op[s] = "none" /\ conn[w] = NoSession /\ Backend = "pg"
        /\ \A t \in Session \ {s} : UNCHANGED <<op[t], client[t], rows[t]>>
        /\ \A v \in Worker \ {w} : conn'[v] = conn[v]
    BY <1>1 DEF Send, IndInv, TypeOK
  <1>5. TypeOK'
    BY <1>1, <1>2, <1>3 DEF IndInv, TypeOK, Op, Send, table
  <1>6. ExclusiveWork' /\ WorkerPhase' /\ RecordPhase'
    BY <1>3, HoldInv DEF table
  <1>7. PoolPhase'
    BY <1>3, <1>4 DEF IndInv, PoolPhase
  <1>8. ConnPhase'
    <2>1. SUFFICES ASSUME NEW v \in Worker PROVE WaitsForOwn(v)'
      BY DEF ConnPhase
    <2>2. CASE v = w
      <3>1. pc[w] # "claiming" /\ (pc[w] = "claimed" => ~Decodes(w))
        BY <1>1, ReportSays
      <3>2. Decodes(w)' <=> Decodes(w)
        BY <1>3 DEF Decodes, table
      <3>3. QED
        BY <1>2, <1>3, <1>4, <2>2, <3>1, <3>2 DEF WaitsForOwn
    <2>3. CASE v # w
      <3>1. conn[v] # s /\ conn'[v] = conn[v]
        BY <1>4, <2>3, WaitedFor
      <3>2. conn[v] # NoSession => conn[v] \in Session \ {s}
        BY <3>1 DEF IndInv, TypeOK
      <3>3. conn[v] # NoSession => /\ op'[conn[v]] = op[conn[v]]
                                   /\ client'[conn[v]] = client[conn[v]]
                                   /\ rows'[conn[v]] = rows[conn[v]]
        BY <1>4, <3>2
      <3>4. QED
        BY <1>3, <3>1, <3>3 DEF IndInv, ConnPhase, WaitsForOwn, Decodes, table
    <2>4. QED
      BY <2>2, <2>3
  <1>9. ReportPhase'
    <2>1. \A t \in Session : op[t] \in Outcome => rows[t] # {held[w]} /\ t # s
      BY <1>2, <1>4, ReportOf DEF Outcome, Settled
    <2>2. ReportOn(s, held[w])'
      <3>1. \A v \in Worker : held[v] = held[w] => conn'[v] = s
        BY <1>2, <1>4
      <3>2. \A t \in Session : op'[t] \in Outcome /\ rows'[t] = {held[w]} => t = s
        BY <1>4, <2>1
      <3>3. QED
        BY <1>1, <1>2, <1>3, <1>4, <3>1, <3>2, ReportSays DEF ReportOn, table
    <2>3. ASSUME NEW t \in Session \ {s}, NEW j \in JobID, op[t] \in Outcome, ReportOn(t, j)
          PROVE  ReportOn(t, j)'
      <3>1. j # held[w]
        BY <2>1, <2>3 DEF ReportOn
      <3>2. \A v \in Worker : held[v] = j => conn'[v] = t
        BY <1>4, <2>3, <3>1 DEF ReportOn
      <3>3. \A u \in Session : op'[u] \in Outcome /\ rows'[u] = {j} => u = t
        BY <1>4, <2>3, <3>1 DEF ReportOn
      <3>4. QED
        BY <1>3, <1>4, <2>3, <3>2, <3>3 DEF ReportOn, table
    <2>4. SUFFICES ASSUME NEW t \in Session, op'[t] \in Outcome
                   PROVE  \E j \in JobID : ReportOn(t, j)'
      BY DEF ReportPhase
    <2>5. CASE t = s
      BY <1>2, <1>3, <2>2, <2>5
    <2>6. CASE t # s
      <3>1. PICK j \in JobID : ReportOn(t, j)
        BY <1>4, <2>4, <2>6 DEF IndInv, ReportPhase
      <3>2. ReportOn(t, j)'
        BY <1>4, <2>3, <2>4, <2>6, <3>1
      <3>3. QED
        BY <3>2
    <2>7. QED
      BY <2>5, <2>6
  <1>10. SessionPhase'
    BY <1>1, <1>4, RunnerAssumption DEF IndInv, SessionPhase, Outcome, Settled
  <1>11. QED
    BY <1>5, <1>6, <1>7, <1>8, <1>9, <1>10 DEF IndInv

\* Every step keeps the invariant.
LEMMA StepInv == IndInv /\ [Next]_vars => IndInv'
  <1> SUFFICES ASSUME IndInv, [Next]_vars
               PROVE  IndInv'
    OBVIOUS
  <1>1. ASSUME NEW w \in Worker, WorkerStep(w)
        PROVE  IndInv'
    BY <1>1, ClaimInMemoryInv, RunJobInv, ReportInMemoryInv, QuitInv, SendInv, SendReportInv
       DEF WorkerStep
  <1>2. ASSUME NEW s \in Session, ServerStep(s) \/ DropStatement(s)
        PROVE  IndInv'
    BY <1>2, SnapshotInv, ClaimCommitInv, EndInv, SettleCommitInv, DropStatementInv
       DEF ServerStep, ClaimNothing
  <1>3. QED
    BY <1>1, <1>2, EnqueueInv, RunnerInv, TickInv DEF Next

(* The inductive invariant holds of every behaviour.                         *)
THEOREM Invariance == Spec => []IndInv
  BY InitInv, StepInv, PTL DEF Spec

(* Every variable keeps its type; in particular Record.Attempt never passes  *)
(* Record.MaxAttempts, whatever fails, crashes or is cancelled.              *)
THEOREM Typing == Spec => []TypeOK
  <1>1. IndInv => TypeOK
    BY DEF IndInv
  <1>2. QED
    BY <1>1, Invariance, PTL

(* No record is ever worked by two workers, and a worker decides between     *)
(* Retry and Discard on the current attempt.                                 *)
THEOREM Exclusion == Spec => []ExclusiveWork
  <1>1. IndInv => ExclusiveWork
    BY DEF IndInv
  <1>2. QED
    BY <1>1, Invariance, PTL

-------------------------------------------------------------------------------
(* What a step may do to the table.                                          *)

\* A step leaves states and attempts alone, inserts a record, claims one,
\* settles the record of a worker in memory, or that of a report.
LEMMA TableStep ==
  ASSUME IndInv, [Next]_vars
  PROVE  \/ UNCHANGED <<state, attempt>>
         \/ \E r \in Runner, k \in Kind, q \in Queue, at \in 0..Horizon : Enqueue(r, k, q, at)
         \/ \E w \in Worker : ClaimInMemory(w) \/ ReportInMemory(w)
         \/ \E s \in Session : ClaimCommit(s) \/ SettleCommit(s)
  <1>1. ASSUME NEW r \in Runner, Start(r) \/ Cancel(r) \/ Crash(r) \/ Restart(r)
        PROVE  UNCHANGED <<state, attempt>>
    BY <1>1 DEF Start, Cancel, Crash, Restart, table
  <1>2. ASSUME NEW w \in Worker,
               \/ RunJob(w) \/ LoseReport(w) \/ GiveUp(w) \/ Exit(w)
               \/ \E s \in Session : SendClaim(w, s) \/ SendReport(w, s)
        PROVE  UNCHANGED <<state, attempt>>
    BY <1>2 DEF RunJob, LoseReport, GiveUp, Exit, SendClaim, SendReport, table
  <1>3. ASSUME NEW s \in Session, ClaimSnapshot(s) \/ ClaimNothing(s) \/ DropStatement(s)
        PROVE  UNCHANGED <<state, attempt>>
    BY <1>3 DEF ClaimSnapshot, ClaimNothing, DropStatement, table
  <1>4. CASE Tick \/ UNCHANGED vars
    BY <1>4 DEF Tick, vars, table
  <1>5. QED
    BY <1>1, <1>2, <1>3, <1>4 DEF Next, WorkerStep, ServerStep

\* A record claimed in memory or by a session could be claimed.
LEMMA ClaimTable ==
  ASSUME \/ \E w \in Worker : ClaimInMemory(w)
         \/ \E s \in Session : ClaimCommit(s)
  PROVE  UNCHANGED executed /\ \E j \in JobID : Claimable(j) /\ MarkRunning(j)
  BY DEF ClaimInMemory, ClaimCommit, Earliest, Eligible, Lockable

\* A running record gets an outcome that agrees with what became of its attempt.
Settles(j, outcome) ==
    /\ state[j] = "running" /\ state' = [state EXCEPT ![j] = outcome]
    /\ UNCHANGED <<attempt, queue, executed>>
    /\ executed[j] <= attempt[j]
    /\ outcome \in {"succeeded", "retrying"} => executed[j] = attempt[j]
    /\ outcome = "retrying" => attempt[j] < MaxAttempts
    /\ outcome = "discarded" /\ executed[j] = attempt[j] => attempt[j] >= MaxAttempts

\* The record that a step settles is running, and what is written agrees with
\* what became of its attempt.
LEMMA SettleTable ==
  ASSUME IndInv,
         \/ \E w \in Worker : ReportInMemory(w)
         \/ \E s \in Session : SettleCommit(s)
  PROVE  \E j \in JobID, outcome \in Outcome : Settles(j, outcome)
  <1>1. ASSUME NEW w \in Worker, ReportInMemory(w)
        PROVE  \E j \in JobID, outcome \in Outcome : Settles(j, outcome)
    <2>1. PICK outcome \in Outcome, at \in 0..Horizon :
              Reports(w, outcome, at) /\ Settle(held[w], outcome, at)
      BY <1>1 DEF ReportInMemory
    <2>2. held[w] \in JobID /\ state[held[w]] = "running"
      BY <2>1, HeldRecord, ReportSays
    <2>3. QED
      BY <1>1, <2>1, <2>2, ReportSays DEF ReportInMemory, Settle, Settles
  <1>2. ASSUME NEW s \in Session, SettleCommit(s)
        PROVE  \E j \in JobID, outcome \in Outcome : Settles(j, outcome)
    <2>1. PICK j \in JobID : ReportOn(s, j)
      BY <1>2 DEF IndInv, ReportPhase, SettleCommit
    <2>2. op[s] \in Outcome /\ Settle(j, op[s], time[s]) /\ UNCHANGED executed
      BY <1>2, <2>1 DEF SettleCommit, ReportOn
    <2>3. QED
      BY <2>1, <2>2 DEF ReportOn, Settle, Settles
  <1>3. QED
    BY <1>1, <1>2

\* Only a worker's call of Work is counted.
LEMMA WorkStep ==
  ASSUME [Next]_vars
  PROVE  UNCHANGED executed \/ \E w \in Worker : RunJob(w)
  <1>1. ASSUME NEW w \in Worker, WorkerStep(w)
        PROVE  UNCHANGED executed \/ RunJob(w)
    BY <1>1 DEF WorkerStep, ClaimInMemory, ReportInMemory, LoseReport, GiveUp, Exit,
                SendClaim, SendReport
  <1>2. ASSUME NEW s \in Session, ServerStep(s) \/ DropStatement(s)
        PROVE  UNCHANGED executed
    BY <1>2 DEF ServerStep, ClaimSnapshot, ClaimCommit, ClaimNothing, SettleCommit, DropStatement
  <1>3. ASSUME NEW r \in Runner, Start(r) \/ Cancel(r) \/ Crash(r) \/ Restart(r)
        PROVE  UNCHANGED executed
    BY <1>3 DEF Start, Cancel, Crash, Restart
  <1>4. QED
    BY <1>1, <1>2, <1>3 DEF Next, Enqueue, Tick, vars

-------------------------------------------------------------------------------
(* JobRunner implements JobLifecycle: each step of a runner is a transition  *)
(* of one record or leaves the lifecycle alone.                              *)

\* The initial states of the runners are initial states of the life cycle.
LEMMA RefineInit == Init => Lifecycle!Init
  BY DEF Init, Lifecycle!Init

\* A worker that calls Work makes the Work step of its record.
LEMMA RefineWork ==
  ASSUME IndInv, NEW w \in Worker, RunJob(w)
  PROVE  Lifecycle!Next
  <1>1. /\ held[w] \in JobID /\ state[held[w]] = "running"
        /\ executed[held[w]] < attempt[held[w]]
    BY HeldRecord DEF RunJob
  <1>2. Lifecycle!Work(held[w])
    BY <1>1 DEF RunJob, table, Lifecycle!Work
  <1>3. QED
    BY <1>1, <1>2 DEF Lifecycle!Next

\* A record is settled by the step of its life that fits what was written.
LEMMA RefineSettle ==
  ASSUME IndInv,
         \/ \E w \in Worker : ReportInMemory(w)
         \/ \E s \in Session : SettleCommit(s)
  PROVE  Lifecycle!Next
  <1>1. PICK j \in JobID, outcome \in Outcome : Settles(j, outcome)
    BY SettleTable
  <1>2. attempt[j] \in 0..MaxAttempts
    BY DEF IndInv, TypeOK
  <1>3. outcome = "succeeded" => Lifecycle!Complete(j)
    BY <1>1 DEF Settles, Lifecycle!Complete, Lifecycle!Executed
  <1>4. outcome = "retrying" => Lifecycle!Retry(j)
    BY <1>1 DEF Settles, Lifecycle!Retry, Lifecycle!Executed
  <1>5. outcome = "discarded" => Lifecycle!Discard(j)
    <2>1. outcome = "discarded" /\ executed[j] = attempt[j] => attempt[j] = MaxAttempts
      BY <1>1, <1>2 DEF Settles
    <2>2. QED
      BY <1>1, <2>1 DEF Settles, Lifecycle!Discard, Lifecycle!Executed
  <1>6. QED
    BY <1>3, <1>4, <1>5 DEF Lifecycle!Next, Outcome, Settled

\* Every step of a runner or of the server is a step of one record's life, or none.
LEMMA RefineStep == IndInv /\ [Next]_vars => [Lifecycle!Next]_(Lifecycle!vars)
  <1> SUFFICES ASSUME IndInv, [Next]_vars
               PROVE  Lifecycle!Next \/ UNCHANGED Lifecycle!vars
    OBVIOUS
  <1>1. ASSUME NEW r \in Runner, NEW k \in Kind, NEW q \in Queue,
               NEW at \in 0..Horizon, Enqueue(r, k, q, at)
        PROVE  Lifecycle!Next
    <2>1. lastID + 1 \in JobID /\ lastID + 1 > lastID
      BY <1>1, IDs DEF IndInv, TypeOK, Enqueue
    <2>2. state[lastID + 1] = "absent"
      BY <2>1 DEF IndInv, RecordPhase
    <2>3. Lifecycle!Insert(lastID + 1)
      BY <1>1, <2>2 DEF Enqueue, Lifecycle!Insert
    <2>4. QED
      BY <2>1, <2>3 DEF Lifecycle!Next
  <1>2. ASSUME \/ \E w \in Worker : ClaimInMemory(w)
               \/ \E s \in Session : ClaimCommit(s)
        PROVE  Lifecycle!Next
    <2>1. UNCHANGED executed /\ \E j \in JobID : Claimable(j) /\ MarkRunning(j)
      BY <1>2, ClaimTable
    <2>2. QED
      BY <2>1 DEF Claimable, MarkRunning, Lifecycle!Claim, Lifecycle!Next
  <1>3. CASE UNCHANGED <<state, attempt>>
    BY <1>3, WorkStep, RefineWork DEF Lifecycle!vars
  <1>4. QED
    BY <1>1, <1>2, <1>3, TableStep, RefineSettle

(* Both backends, with every interleaving, cancellation and crash, give each *)
(* record the documented life: Work at most once per claimed attempt, retry  *)
(* only while attempts remain, settled records never touched again.          *)
THEOREM Refinement == Spec => ImplementsLifecycle
  BY RefineInit, RefineStep, Invariance, PTL
     DEF Spec, ImplementsLifecycle, Lifecycle!Spec

-------------------------------------------------------------------------------
(* What becomes of a record whose worker is gone.                            *)

\* A worker gets a record only by claiming it.
LEMMA HoldStep ==
  ASSUME IndInv, [Next]_vars, NEW w \in Worker
  PROVE  held'[w] \in {held[w], NoJob} \/ Claimable(held'[w])
  <1> USE DEF IndInv, TypeOK
  <1>1. ASSUME NEW r \in Runner, Start(r) \/ Cancel(r) \/ Crash(r) \/ Restart(r)
        PROVE  held'[w] \in {held[w], NoJob}
    BY <1>1 DEF Start, Cancel, Crash, Restart, worker
  <1>2. ASSUME NEW v \in Worker, WorkerStep(v)
        PROVE  held'[w] \in {held[w], NoJob} \/ Claimable(held'[w])
    <2>1. CASE ClaimInMemory(v)
      BY <2>1 DEF ClaimInMemory, Receive, Earliest, Eligible
    <2>2. CASE RunJob(v) \/ Exit(v) \/ \E s \in Session : SendClaim(v, s) \/ SendReport(v, s)
      BY <2>2 DEF RunJob, Exit, SendClaim, SendReport
    <2>3. CASE ReportInMemory(v) \/ LoseReport(v) \/ GiveUp(v)
      BY <2>3 DEF ReportInMemory, LoseReport, GiveUp, Idle
    <2>4. QED
      BY <1>2, <2>1, <2>2, <2>3 DEF WorkerStep
  <1>3. ASSUME NEW s \in Session, ServerStep(s) \/ DropStatement(s)
        PROVE  held'[w] \in {held[w], NoJob} \/ Claimable(held'[w])
    <2>1. CASE ClaimCommit(s)
      BY <2>1 DEF ClaimCommit, Receive, Earliest, Lockable, worker
    <2>2. CASE ClaimNothing(s) \/ SettleCommit(s)
      BY <2>2 DEF ClaimNothing, SettleCommit, Idle, worker
    <2>3. CASE ClaimSnapshot(s) \/ DropStatement(s)
      BY <2>3 DEF ClaimSnapshot, DropStatement, worker
    <2>4. QED
      BY <1>3, <2>1, <2>2, <2>3 DEF ServerStep
  <1>4. QED
    BY <1>1, <1>2, <1>3 DEF Next, Enqueue, Tick, vars, worker

\* A report is sent only by a worker that holds its record.
LEMMA ReportStep ==
  ASSUME IndInv, [Next]_vars, NEW s \in Session, op'[s] \in Outcome
  PROVE  \/ op[s] \in Outcome /\ rows'[s] = rows[s]
         \/ \E w \in Worker : rows'[s] = {held[w]}
  <1>1. ASSUME NEW r \in Runner, Start(r) \/ Cancel(r) \/ Crash(r) \/ Restart(r)
        PROVE  UNCHANGED server
    BY <1>1 DEF Start, Cancel, Crash, Restart
  <1>2. ASSUME NEW w \in Worker, WorkerStep(w)
        PROVE  \/ op[s] \in Outcome /\ rows'[s] = rows[s]
               \/ \E v \in Worker : rows'[s] = {held[v]}
    <2>1. CASE UNCHANGED server
      BY <2>1 DEF server
    <2>2. ASSUME NEW t \in Session, SendClaim(w, t) \/ SendReport(w, t)
          PROVE  \/ op[s] \in Outcome /\ rows'[s] = rows[s]
                 \/ \E v \in Worker : rows'[s] = {held[v]}
      BY <2>2 DEF SendClaim, SendReport, Send, Outcome, Settled, IndInv, TypeOK
    <2>3. QED
      BY <1>2, <2>1, <2>2 DEF WorkerStep, ClaimInMemory, RunJob, ReportInMemory,
                              LoseReport, GiveUp, Exit
  <1>3. ASSUME NEW t \in Session, ServerStep(t) \/ DropStatement(t)
        PROVE  op[s] \in Outcome /\ rows'[s] = rows[s]
    <2>1. CASE ClaimSnapshot(t)
      BY <2>1 DEF ClaimSnapshot, Outcome, Settled, IndInv, TypeOK
    <2>2. CASE EndStatement(t)
      BY <2>2 DEF EndStatement, Outcome, Settled, IndInv, TypeOK
    <2>3. QED
      BY <1>3, <2>1, <2>2 DEF ServerStep, ClaimCommit, ClaimNothing, SettleCommit, DropStatement
  <1>4. QED
    BY <1>1, <1>2, <1>3 DEF Next, Enqueue, Tick, vars, server

\* No step gives a running record without a worker a worker or a new state.
LEMMA StrandedStep ==
  ASSUME IndInv, [Next]_vars, NEW j \in JobID, Stranded(j)
  PROVE  Stranded(j)' /\ attempt'[j] = attempt[j]
  <1>1. /\ state[j] = "running" /\ ~Claimable(j) /\ \A w \in Worker : held[w] # j
        /\ \A s \in Session : op[s] \in Outcome => rows[s] # {j} /\ j \notin rows[s]
    BY DEF Stranded, Claimable
  <1>2. \A w \in Worker : held'[w] # j
    BY <1>1, HoldStep, IDs
  <1>3. \A s \in Session : op'[s] \in Outcome => j \notin rows'[s]
    BY <1>1, ReportStep
  <1>4. state'[j] = "running" /\ attempt'[j] = attempt[j]
    <2>1. ASSUME NEW r \in Runner, NEW k \in Kind, NEW q \in Queue,
                 NEW at \in 0..Horizon, Enqueue(r, k, q, at)
          PROVE  state'[j] = state[j] /\ attempt'[j] = attempt[j]
      <3>1. lastID + 1 \in JobID /\ lastID + 1 > lastID
        BY <2>1, IDs DEF IndInv, TypeOK, Enqueue
      <3>2. lastID + 1 # j
        BY <1>1, <3>1 DEF IndInv, RecordPhase
      <3>3. QED
        BY <2>1, <3>2 DEF IndInv, TypeOK, Enqueue
    <2>2. ASSUME NEW i \in JobID, Claimable(i), MarkRunning(i)
          PROVE  state'[j] = state[j] /\ attempt'[j] = attempt[j]
      BY <1>1, <2>2 DEF MarkRunning, IndInv, TypeOK
    <2>3. ASSUME NEW w \in Worker, ReportInMemory(w)
          PROVE  state'[j] = state[j] /\ attempt'[j] = attempt[j]
      BY <1>1, <2>3 DEF ReportInMemory, Settle, IndInv, TypeOK
    <2>4. ASSUME NEW s \in Session, SettleCommit(s)
          PROVE  state'[j] = state[j] /\ attempt'[j] = attempt[j]
      BY <1>1, <2>4 DEF SettleCommit, Settle, IndInv, TypeOK
    <2>5. QED
      BY <1>1, <2>1, <2>2, <2>3, <2>4, TableStep, ClaimTable
  <1>5. QED
    BY <1>2, <1>3, <1>4 DEF Stranded

(* A running record without a worker or a report on its way stays that way:  *)
(* nothing in either backend takes it back, so it occupies its queue's limit *)
(* for good.                                                                 *)
THEOREM NoRecovery == Spec => StrandedForever
  <1>1. IndInv /\ [Next]_vars =>
          [\A j \in JobID : Stranded(j) => Stranded(j)' /\ attempt'[j] = attempt[j]]_vars
    BY StrandedStep
  <1>2. QED
    BY <1>1, Invariance, PTL DEF Spec, StrandedForever

-------------------------------------------------------------------------------
(* How many records of a queue run.                                          *)

\* The records of a queue that run, and the sessions that claim from it, are
\* finitely many.
LEMMA Counts ==
  ASSUME NEW q \in Queue
  PROVE  /\ IsFiniteSet(RunningIn(q)) /\ Cardinality(RunningIn(q)) \in Nat
         /\ IsFiniteSet(ClaimingIn(q)) /\ Cardinality(ClaimingIn(q)) \in Nat
         /\ Cardinality(ClaimingIn(q)) <= Cardinality(Session)
         /\ Cardinality(Session) \in Nat
  <1>1. IsFiniteSet(JobID)
    BY FS_Interval DEF JobID
  <1>2. IsFiniteSet(RunningIn(q))
    BY <1>1, FS_Subset DEF RunningIn
  <1>3. IsFiniteSet(Session) /\ ClaimingIn(q) \subseteq Session
    BY RunnerAssumption DEF ClaimingIn
  <1>4. IsFiniteSet(ClaimingIn(q)) /\ Cardinality(ClaimingIn(q)) <= Cardinality(Session)
    BY <1>3, FS_Subset
  <1>5. QED
    BY <1>2, <1>3, <1>4, FS_CardinalityType

\* A runner that watches the queue and finds room for it leaves the limit of the
\* queue unused.
LEMMA Room ==
  ASSUME NEW q \in Queue, NEW n \in Int, LimitedTo(q, n),
         NEW r \in Runner, q \in Watched[r], ~QueueFull(r, q)
  PROVE  Cardinality(RunningIn(q)) < n
  <1>1. Limit[r][q] \in 1..n
    BY DEF LimitedTo, Watchers
  <1>2. QED
    BY <1>1, Counts DEF QueueFull

\* What a step does to the running records of a queue.
LEMMA RunningStep ==
  ASSUME IndInv, [Next]_vars, NEW q \in Queue,
         ~\E w \in Worker : ClaimInMemory(w), ~\E s \in Session : ClaimCommit(s)
  PROVE  RunningIn(q)' \subseteq RunningIn(q)
  <1>1. ASSUME UNCHANGED <<state, queue>>
        PROVE  RunningIn(q)' \subseteq RunningIn(q)
    BY <1>1 DEF RunningIn
  <1>2. ASSUME NEW r \in Runner, NEW k \in Kind, NEW p \in Queue,
               NEW at \in 0..Horizon, Enqueue(r, k, p, at)
        PROVE  RunningIn(q)' \subseteq RunningIn(q)
    BY <1>2 DEF Enqueue, RunningIn, IndInv, TypeOK
  <1>3. ASSUME NEW j \in JobID, NEW outcome \in Outcome, Settles(j, outcome)
        PROVE  RunningIn(q)' \subseteq RunningIn(q)
    BY <1>3 DEF Settles, RunningIn, Outcome, Settled, IndInv, TypeOK
  <1>4. ASSUME UNCHANGED <<state, attempt>>
        PROVE  RunningIn(q)' \subseteq RunningIn(q)
    <2>1. ASSUME NEW w \in Worker, WorkerStep(w)
          PROVE  UNCHANGED queue
      BY <2>1 DEF WorkerStep, ClaimInMemory, MarkRunning, RunJob, ReportInMemory, Settle,
                  LoseReport, GiveUp, Exit, SendClaim, SendReport, table
    <2>2. ASSUME NEW s \in Session, ServerStep(s) \/ DropStatement(s)
          PROVE  UNCHANGED queue
      BY <2>2 DEF ServerStep, ClaimSnapshot, ClaimCommit, MarkRunning, ClaimNothing,
                  SettleCommit, Settle, DropStatement, table
    <2>3. ASSUME NEW r \in Runner, Start(r) \/ Cancel(r) \/ Crash(r) \/ Restart(r)
          PROVE  UNCHANGED queue
      BY <2>3 DEF Start, Cancel, Crash, Restart, table
    <2>4. QED
      BY <1>1, <1>2, <1>4, <2>1, <2>2, <2>3 DEF Next, Tick, vars, table
  <1>5. QED
    BY <1>2, <1>3, <1>4, TableStep, SettleTable

\* A step of the in-memory backend keeps the number of running records of a
\* queue within its limit.
LEMMA LimitStep ==
  ASSUME Backend = "inmemory", IndInv, QueueLimits, [Next]_vars
  PROVE  QueueLimits'
  <1> SUFFICES ASSUME NEW q \in Queue, NEW r \in Watchers(q), LimitedTo(q, Limit[r][q])
               PROVE  Cardinality(RunningIn(q)') <= Limit[r][q]
    BY DEF QueueLimits
  <1>1. Cardinality(RunningIn(q)) <= Limit[r][q] /\ Limit[r][q] \in Int
    BY DEF QueueLimits, Watchers
  <1>2. ASSUME NEW w \in Worker, ClaimInMemory(w)
        PROVE  Cardinality(RunningIn(q)') <= Limit[r][q]
    <2>1. PICK j \in JobID : j \in Eligible(RunnerOf[w], clock) /\ MarkRunning(j)
      BY <1>2 DEF ClaimInMemory, Earliest
    <2>2. ~QueueFull(RunnerOf[w], queue[j]) /\ queue[j] \in Watched[RunnerOf[w]]
          /\ state[j] # "running" /\ RunnerOf[w] \in Runner
      BY <2>1, RunnerAssumption DEF Eligible, Claimable
    <2>3. CASE queue[j] # q
      <3>1. RunningIn(q)' \subseteq RunningIn(q)
        BY <2>1, <2>3 DEF RunningIn, MarkRunning, IndInv, TypeOK
      <3>2. /\ Cardinality(RunningIn(q)') <= Cardinality(RunningIn(q))
            /\ Cardinality(RunningIn(q)') \in Nat
        BY <3>1, Counts, FS_Subset, FS_CardinalityType
      <3>3. QED
        BY <1>1, <3>2, Counts
    <2>4. CASE queue[j] = q
      <3>1. RunningIn(q)' = RunningIn(q) \cup {j}
        BY <2>1, <2>4 DEF RunningIn, MarkRunning, IndInv, TypeOK
      <3>2. Cardinality(RunningIn(q)) < Limit[r][q]
        BY <1>1, <2>2, <2>4, Room
      <3>3. j \notin RunningIn(q)
        BY <2>2 DEF RunningIn
      <3>4. Cardinality(RunningIn(q)') = Cardinality(RunningIn(q)) + 1
        BY <3>1, <3>3, Counts, FS_AddElement
      <3>5. QED
        BY <1>1, <3>2, <3>4, Counts
    <2>5. QED
      BY <2>3, <2>4
  <1>3. CASE ~\E w \in Worker : ClaimInMemory(w)
    <2>1. ~\E s \in Session : ClaimCommit(s)
      BY InMemory DEF ClaimCommit
    <2>2. RunningIn(q)' \subseteq RunningIn(q)
      BY <1>3, <2>1, RunningStep
    <2>3. /\ Cardinality(RunningIn(q)') <= Cardinality(RunningIn(q))
          /\ Cardinality(RunningIn(q)') \in Nat
      BY <2>2, Counts, FS_Subset, FS_CardinalityType
    <2>4. QED
      BY <1>1, <2>3, Counts
  <1>4. QED
    BY <1>2, <1>3

(* With the in-memory backend, no interleaving of any number of workers and  *)
(* runners exceeds the highest limit of a queue that all who watch it limit. *)
THEOREM InMemoryLimits ==
  ASSUME Backend = "inmemory"
  PROVE  Spec => []QueueLimits
  <1>1. Init => QueueLimits
    <2> SUFFICES ASSUME Init, NEW q \in Queue, NEW r \in Watchers(q), LimitedTo(q, Limit[r][q])
                 PROVE  Cardinality(RunningIn(q)) <= Limit[r][q]
      BY DEF QueueLimits
    <2>1. Cardinality(RunningIn(q)) = 0
      <3>1. RunningIn(q) = {}
        BY DEF Init, RunningIn
      <3>2. QED
        BY <3>1, FS_EmptySet
    <2>2. Limit[r][q] \in 1..Limit[r][q] /\ Limit[r][q] \in Int
      BY DEF LimitedTo, Watchers
    <2>3. QED
      BY <2>1, <2>2
  <1>2. IndInv /\ QueueLimits /\ [Next]_vars => QueueLimits'
    BY LimitStep
  <1>3. QED
    BY <1>1, <1>2, Invariance, PTL DEF Spec

-------------------------------------------------------------------------------
(* By how much claims exceed the limit of a queue under PostgreSQL.          *)

\* The records in a snapshot were inserted.
SnapshotsInserted ==
    \A s \in Session : op[s] = "selected" => \A j \in rows[s] : j <= lastID

\* The running records and the sessions that claim fit within n and one for
\* each other session.
Counted(q, n) ==
    Cardinality(RunningIn(q)) + Cardinality(ClaimingIn(q)) <= n + Cardinality(Session) - 1

\* Neither more records run nor more sessions are about to claim.
LEMMA CountsKept ==
  ASSUME NEW q \in Queue, NEW n \in Int, Counted(q, n),
         RunningIn(q)' \subseteq RunningIn(q), ClaimingIn(q)' \subseteq ClaimingIn(q)
  PROVE  Counted(q, n)'
  <1>1. /\ Cardinality(RunningIn(q)') <= Cardinality(RunningIn(q))
        /\ Cardinality(ClaimingIn(q)') <= Cardinality(ClaimingIn(q))
        /\ Cardinality(RunningIn(q)') \in Nat /\ Cardinality(ClaimingIn(q)') \in Nat
    BY Counts, FS_Subset, FS_CardinalityType
  <1>2. QED
    BY <1>1, Counts DEF Counted

\* A session that commits changes from one that is about to run a record of the
\* queue to one that runs it, whether or not its worker still waits.
LEMMA CommitCounts ==
  ASSUME IndInv, NEW s \in Session, ClaimCommit(s),
         NEW q \in Queue, NEW n \in Int, Counted(q, n)
  PROVE  Counted(q, n)'
  <1>1. PICK j \in JobID : j \in Lockable(s) /\ MarkRunning(j)
    BY DEF ClaimCommit, Earliest
  <1>2. /\ TypeOK /\ j \in rows[s] /\ state[j] # "running" /\ queue' = queue
        /\ state' = [state EXCEPT ![j] = "running"] /\ op[s] = "selected"
        /\ op' = [op EXCEPT ![s] = "none"] /\ rows' = [rows EXCEPT ![s] = {}]
    BY <1>1 DEF IndInv, Lockable, Claimable, MarkRunning, ClaimCommit, EndStatement
  <1>3. ClaimingIn(q)' = ClaimingIn(q) \ {s}
    BY <1>2 DEF ClaimingIn, TypeOK
  <1>4. CASE queue[j] # q
    <2>1. RunningIn(q)' \subseteq RunningIn(q)
      BY <1>2, <1>4 DEF RunningIn, TypeOK
    <2>2. QED
      BY <1>3, <2>1, CountsKept
  <1>5. CASE queue[j] = q
    <2>1. RunningIn(q)' = RunningIn(q) \cup {j} /\ j \notin RunningIn(q)
      BY <1>2, <1>5 DEF RunningIn, TypeOK
    <2>2. s \in ClaimingIn(q)
      BY <1>2, <1>5 DEF ClaimingIn
    <2>3. Cardinality(RunningIn(q)') = Cardinality(RunningIn(q)) + 1
      BY <2>1, Counts, FS_AddElement
    <2>4. Cardinality(ClaimingIn(q)') = Cardinality(ClaimingIn(q)) - 1
      BY <1>3, <2>2, Counts, FS_RemoveElement
    <2>5. QED
      BY <2>3, <2>4, Counts DEF Counted
  <1>6. QED
    BY <1>4, <1>5

\* A snapshot has a record of the queue only while its runner finds room.
LEMMA SnapshotCounts ==
  ASSUME IndInv, NEW s \in Session, ClaimSnapshot(s),
         NEW q \in Queue, NEW n \in Int, LimitedTo(q, n), Counted(q, n)
  PROVE  Counted(q, n)'
  <1>1. /\ TypeOK /\ state' = state /\ queue' = queue
        /\ op' = [op EXCEPT ![s] = "selected"]
        /\ rows' = [rows EXCEPT ![s] = Eligible(RunnerOf[client[s]], time[s])]
    BY DEF IndInv, ClaimSnapshot, table
  <1>2. RunningIn(q)' = RunningIn(q)
    BY <1>1 DEF RunningIn
  <1>3. RunnerOf[client[s]] \in Runner
    <2>1. client[s] \in Worker
      BY DEF IndInv, TypeOK, SessionPhase, ClaimSnapshot
    <2>2. QED
      BY <2>1, RunnerAssumption
  <1>4. CASE \E j \in Eligible(RunnerOf[client[s]], time[s]) : queue[j] = q
    <2>1. Cardinality(RunningIn(q)) < n
      BY <1>3, <1>4, Room DEF Eligible
    <2>2. ClaimingIn(q)' \subseteq Session
      BY DEF ClaimingIn
    <2>3. Cardinality(ClaimingIn(q)') <= Cardinality(Session) /\ Cardinality(ClaimingIn(q)') \in Nat
      BY <2>2, RunnerAssumption, FS_Subset, FS_CardinalityType
    <2>4. QED
      BY <1>2, <2>1, <2>3, Counts DEF Counted
  <1>5. CASE ~\E j \in Eligible(RunnerOf[client[s]], time[s]) : queue[j] = q
    <2>1. ClaimingIn(q)' \subseteq ClaimingIn(q)
      BY <1>1, <1>5 DEF ClaimingIn, TypeOK
    <2>2. QED
      BY <1>2, <2>1, CountsKept
  <1>6. QED
    BY <1>4, <1>5

\* Only a snapshot makes a session one that is about to claim.
LEMMA ClaimingStep ==
  ASSUME IndInv, SnapshotsInserted, [Next]_vars, NEW q \in Queue,
         ~\E s \in Session : ClaimSnapshot(s)
  PROVE  ClaimingIn(q)' \subseteq ClaimingIn(q)
  <1> USE DEF IndInv, TypeOK
  <1>1. ASSUME UNCHANGED <<op, rows, queue>>
        PROVE  ClaimingIn(q)' \subseteq ClaimingIn(q)
    BY <1>1 DEF ClaimingIn
  <1>2. ASSUME NEW s \in Session, EndStatement(s), UNCHANGED queue
        PROVE  ClaimingIn(q)' \subseteq ClaimingIn(q)
    BY <1>2 DEF ClaimingIn, EndStatement
  <1>3. ASSUME NEW w \in Worker, NEW s \in Session, SendClaim(w, s) \/ SendReport(w, s)
        PROVE  ClaimingIn(q)' \subseteq ClaimingIn(q)
    BY <1>3 DEF ClaimingIn, SendClaim, SendReport, Send, Outcome, Settled, table
  <1>4. ASSUME NEW r \in Runner, NEW k \in Kind, NEW p \in Queue,
               NEW at \in 0..Horizon, Enqueue(r, k, p, at)
        PROVE  ClaimingIn(q)' \subseteq ClaimingIn(q)
    <2>1. queue' = [queue EXCEPT ![lastID + 1] = p] /\ UNCHANGED <<op, rows>>
      BY <1>4 DEF Enqueue, server
    <2>2. \A s \in Session : op[s] = "selected" => \A j \in rows[s] : queue'[j] = queue[j]
      BY <2>1 DEF SnapshotsInserted, JobID
    <2>3. QED
      BY <2>1, <2>2 DEF ClaimingIn
  <1>5. ASSUME NEW r \in Runner, Start(r) \/ Cancel(r) \/ Crash(r) \/ Restart(r)
        PROVE  UNCHANGED <<op, rows, queue>>
    BY <1>5 DEF Start, Cancel, Crash, Restart, table, server
  <1>6. ASSUME NEW w \in Worker, \/ ClaimInMemory(w) \/ RunJob(w) \/ ReportInMemory(w)
                                 \/ LoseReport(w) \/ GiveUp(w) \/ Exit(w)
        PROVE  UNCHANGED <<op, rows, queue>>
    BY <1>6 DEF ClaimInMemory, MarkRunning, RunJob, ReportInMemory, Settle, LoseReport,
                GiveUp, Exit, table, server
  <1>7. ASSUME NEW s \in Session, \/ ClaimCommit(s) \/ ClaimNothing(s) \/ SettleCommit(s)
                                  \/ DropStatement(s)
        PROVE  EndStatement(s) /\ UNCHANGED queue
    BY <1>7 DEF ClaimCommit, MarkRunning, ClaimNothing, SettleCommit, Settle, DropStatement, table
  <1>8. CASE Tick \/ UNCHANGED vars
    BY <1>1, <1>8 DEF Tick, vars, table, server
  <1>9. QED
    BY <1>1, <1>2, <1>3, <1>4, <1>5, <1>6, <1>7, <1>8 DEF Next, WorkerStep, ServerStep

\* Identifiers only grow, so what a snapshot has stays inserted.
LEMMA InsertedStep ==
  ASSUME IndInv, SnapshotsInserted, [Next]_vars
  PROVE  SnapshotsInserted'
  <1> USE DEF IndInv, TypeOK
  <1>1. lastID \in Nat /\ lastID' \in Nat /\ lastID <= lastID'
    <2>1. ASSUME NEW w \in Worker, WorkerStep(w)
          PROVE  UNCHANGED lastID
      BY <2>1 DEF WorkerStep, ClaimInMemory, MarkRunning, RunJob, ReportInMemory, Settle,
                  LoseReport, GiveUp, Exit, SendClaim, SendReport, table
    <2>2. ASSUME NEW s \in Session, ServerStep(s) \/ DropStatement(s)
          PROVE  UNCHANGED lastID
      BY <2>2 DEF ServerStep, ClaimSnapshot, ClaimCommit, MarkRunning, ClaimNothing,
                  SettleCommit, Settle, DropStatement, table
    <2>3. ASSUME NEW r \in Runner, Start(r) \/ Cancel(r) \/ Crash(r) \/ Restart(r)
          PROVE  UNCHANGED lastID
      BY <2>3 DEF Start, Cancel, Crash, Restart, table
    <2>4. QED
      BY <2>1, <2>2, <2>3 DEF Next, Enqueue, Tick, vars, table
  <1>2. ASSUME NEW s \in Session, op'[s] = "selected"
        PROVE  \/ op[s] = "selected" /\ rows'[s] = rows[s]
               \/ \A j \in rows'[s] : j <= lastID
    <2>1. ASSUME NEW t \in Session, ClaimSnapshot(t)
          PROVE  \/ op[s] = "selected" /\ rows'[s] = rows[s]
                 \/ \A j \in rows'[s] : j <= lastID
      <3>1. \A j \in Eligible(RunnerOf[client[t]], time[t]) : j <= lastID
        BY ClaimableRecord DEF Eligible
      <3>2. QED
        BY <1>2, <2>1, <3>1 DEF ClaimSnapshot
    <2>2. ASSUME NEW t \in Session, EndStatement(t)
          PROVE  op[s] = "selected" /\ rows'[s] = rows[s]
      BY <1>2, <2>2 DEF EndStatement
    <2>3. ASSUME NEW w \in Worker, NEW t \in Session, SendClaim(w, t) \/ SendReport(w, t)
          PROVE  op[s] = "selected" /\ rows'[s] = rows[s]
      BY <1>2, <2>3 DEF SendClaim, SendReport, Send, Outcome, Settled
    <2>4. CASE UNCHANGED server
      BY <1>2, <2>4 DEF server
    <2>5. QED
      BY <2>1, <2>2, <2>3, <2>4
         DEF Next, Enqueue, Start, Cancel, Crash, Restart, Tick, vars, WorkerStep,
             ClaimInMemory, RunJob, ReportInMemory, LoseReport, GiveUp, Exit, ServerStep,
             ClaimCommit, ClaimNothing, SettleCommit, DropStatement
  <1>3. \A s \in Session : rows'[s] \subseteq Nat
    BY StepInv, IDs
  <1>4. QED
    BY <1>1, <1>2, <1>3 DEF SnapshotsInserted

LEMMA CountsStep ==
  ASSUME Backend = "pg", IndInv, ClaimsAreCounted, [Next]_vars
  PROVE  ClaimsAreCounted'
  <1>1. SnapshotsInserted'
    BY InsertedStep DEF ClaimsAreCounted, SnapshotsInserted
  <1>2. ASSUME NEW q \in Queue, NEW r \in Watchers(q), LimitedTo(q, Limit[r][q])
        PROVE  Counted(q, Limit[r][q])'
    <2>1. Limit[r][q] \in Int /\ Counted(q, Limit[r][q])
      BY <1>2 DEF ClaimsAreCounted, Counted, Watchers
    <2>2. CASE \E s \in Session : ClaimCommit(s)
      BY <2>1, <2>2, CommitCounts
    <2>3. CASE \E s \in Session : ClaimSnapshot(s)
      BY <1>2, <2>1, <2>3, SnapshotCounts
    <2>4. CASE ~\E s \in Session : ClaimCommit(s) \/ ClaimSnapshot(s)
      <3>1. ~\E w \in Worker : ClaimInMemory(w)
        BY DEF ClaimInMemory
      <3>2. RunningIn(q)' \subseteq RunningIn(q)
        BY <2>4, <3>1, RunningStep
      <3>3. ClaimingIn(q)' \subseteq ClaimingIn(q)
        BY <2>4, ClaimingStep DEF ClaimsAreCounted, SnapshotsInserted
      <3>4. QED
        BY <2>1, <3>2, <3>3, CountsKept
    <2>5. QED
      BY <2>2, <2>3, <2>4
  <1>3. QED
    BY <1>1, <1>2 DEF ClaimsAreCounted, SnapshotsInserted, Counted

(* However the claims of PostgreSQL overlap, fail, lose their workers and are *)
(* committed after all, a queue that all who watch it limit has no more       *)
(* running records than the highest of those limits and one for each other    *)
(* session of the server.                                                     *)
THEOREM Overshoot ==
  ASSUME Backend = "pg"
  PROVE  Spec => []QueueOvershootBound
  <1>1. Init => ClaimsAreCounted
    <2> SUFFICES ASSUME Init, NEW q \in Queue, NEW r \in Watchers(q), LimitedTo(q, Limit[r][q])
                 PROVE  Cardinality(RunningIn(q)) + Cardinality(ClaimingIn(q))
                            <= Limit[r][q] + Cardinality(Session) - 1
      BY DEF Init, ClaimsAreCounted
    <2>1. RunningIn(q) = {} /\ ClaimingIn(q) = {}
      BY DEF Init, RunningIn, ClaimingIn
    <2>2. Cardinality(RunningIn(q)) = 0 /\ Cardinality(ClaimingIn(q)) = 0
      BY <2>1, FS_EmptySet
    <2>3. Limit[r][q] \in 1..Limit[r][q] /\ Limit[r][q] \in Int
      BY DEF LimitedTo, Watchers
    <2>4. QED
      BY <2>2, <2>3, Counts
  <1>2. ClaimsAreCounted => QueueOvershootBound
    <2> SUFFICES ASSUME ClaimsAreCounted, NEW q \in Queue, NEW r \in Watchers(q),
                        LimitedTo(q, Limit[r][q])
                 PROVE  Cardinality(RunningIn(q)) <= Limit[r][q] + Cardinality(Session) - 1
      BY DEF QueueOvershootBound
    <2>1. Limit[r][q] \in Int
      BY DEF Watchers
    <2>2. QED
      BY <2>1, Counts DEF ClaimsAreCounted
  <1>3. QED
    BY <1>1, <1>2, CountsStep, Invariance, PTL DEF Spec

=============================================================================
