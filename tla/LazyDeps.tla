------------------------------- MODULE LazyDeps -------------------------------
(***************************************************************************)
(* lazydeps: the Scope that initialises services, records which uses which, *)
(* and shuts them down, dependents first (lazydeps/lazydeps.go).            *)
(*                                                                         *)
(* Every call takes the Scope's mutex for each of its small operations, so  *)
(* goroutines that initialise services at the same time interleave between  *)
(* them.  Initializers may call Service themselves: a goroutine has a stack *)
(* of initializers in progress, and the Scope has one stack, current, for   *)
(* all goroutines.  The application starts its services before it can be    *)
(* shut down (lazyapp/app.go), and Shutdown may be called again, or by the  *)
(* development panel and the application at the same time.                  *)
(*                                                                         *)
(* The edges from the application's own node are left out: the shutdown     *)
(* order does not look at them.                                             *)
(***************************************************************************)
EXTENDS Integers, Sequences, FiniteSets

CONSTANTS
    Caller,     \* goroutines that initialise services
    Name,       \* service names
    Stopper,    \* calls of Shutdown
    Hangs,      \* services whose stop function never returns
    Deadline,   \* the context given to Shutdown may expire
    MaxDepth,   \* bound: initializers nested in one goroutine
    MaxFailures, \* bound: initializers that fail
    MaxUses     \* bound: values taken from Refs

ASSUME DepsAssumption ==
    /\ Hangs \subseteq Name
    /\ Deadline \in BOOLEAN
    /\ {MaxDepth, MaxFailures, MaxUses} \subseteq Nat

None == "none"
ASSUME NameAssumption == None \notin Name

VARIABLES
    services,  \* names reserved by Service
    id,        \* of a node, in registration order; 0 when there is none
    nextID,
    edges,     \* <<n, m>>: n was seen to use m
    current,   \* the Scope's stack of initializers
    frames,    \* each goroutine's own stack of initializers
    refs,      \* services whose Ref has been returned
    uses,      \* history: <<n, m>>: n's initializer took the value of m
    overlapped, \* history: two goroutines had initializers in progress at once
    failures,
    phase,     \* of a node: up, stopping (cancelled, in its stop function),
               \* stopped (its done channel is closed)
    pc,        \* where each Shutdown is
    todo,      \* nodes it has not come to
    target     \* the node it waits for

graph == <<services, id, nextID, edges, current, frames, refs, uses,
           overlapped, failures>>
shutdown == <<phase, pc, todo, target>>
vars == <<graph, shutdown>>

Node == {n \in Name : id[n] # 0}

TypeOK ==
    /\ services \subseteq Name
    /\ nextID \in Nat /\ id \in [Name -> 0..nextID]
    /\ edges \subseteq Name \X Name /\ uses \subseteq Name \X Name
    /\ current \in Seq(Name)
    /\ frames \in [Caller -> Seq(Name)]
    /\ refs \subseteq Name
    /\ overlapped \in BOOLEAN
    /\ failures \in Nat
    /\ phase \in [Name -> {"up", "stopping", "stopped"}]
    /\ pc \in [Stopper -> {"idle", "loop", "waiting", "returned", "interrupted"}]
    /\ todo \in [Stopper -> SUBSET Name]
    /\ target \in [Stopper -> Name \cup {None}]

Init ==
    /\ services = {} /\ nextID = 0 /\ edges = {} /\ uses = {} /\ refs = {}
    /\ id = [n \in Name |-> 0]
    /\ current = <<>>
    /\ frames = [c \in Caller |-> <<>>]
    /\ failures = 0 /\ overlapped = FALSE
    /\ phase = [n \in Name |-> "up"]
    /\ pc = [s \in Stopper |-> "idle"]
    /\ todo = [s \in Stopper |-> {}]
    /\ target = [s \in Stopper |-> None]

-----------------------------------------------------------------------------
(* Service.                                                                *)

Top(s) == s[Len(s)]
Pop(s) == SubSeq(s, 1, Len(s) - 1)

\* The initializer a goroutine is executing.
Running(c, n) == frames[c] # <<>> /\ Top(frames[c]) = n

\* reserveService refuses a taken name; then begin and the initializer.
BeginService(c, n) ==
    /\ \A s \in Stopper : pc[s] = "idle"
    /\ Len(frames[c]) < MaxDepth
    /\ n \notin services
    /\ services' = services \cup {n}
    /\ current' = Append(current, n)
    /\ frames' = [frames EXCEPT ![c] = Append(@, n)]
    /\ overlapped' = (overlapped \/ \E other \in Caller \ {c} : frames[other] # <<>>)
    /\ UNCHANGED <<id, nextID, edges, refs, uses, failures, shutdown>>

\* Mutant: a Ref can be used before its service is initialised.
UseEarly(c, n, m) ==
    /\ Running(c, n) /\ id[n] = 0
    /\ m \in services
    /\ Cardinality(uses) < MaxUses
    /\ edges' = edges \cup ({<<Top(current), m>>} \ {<<m, m>>})
    /\ uses' = uses \cup {<<n, m>>}
    /\ UNCHANGED <<services, id, nextID, current, frames, refs, overlapped, failures,
                   shutdown>>

\* Ref.Use in an initializer of goroutine c: the edge is from the top of the
\* Scope's stack, whoever pushed it; addEdge ignores an edge to itself.
Use(c, n, m) ==
    /\ Running(c, n) /\ id[n] = 0
    /\ m \in refs
    /\ Cardinality(uses) < MaxUses
    /\ edges' = edges \cup ({<<Top(current), m>>} \ {<<m, m>>})
    /\ uses' = uses \cup {<<n, m>>}
    /\ UNCHANGED <<services, id, nextID, current, frames, refs, overlapped, failures,
                   shutdown>>

\* end: the last occurrence of the name leaves the stack, wherever it is.
EndCurrent(n) ==
    LET at == CHOOSE i \in 1..Len(current) :
                  current[i] = n /\ \A j \in (i + 1)..Len(current) : current[j] # n
    IN  current' = SubSeq(current, 1, at - 1)
                       \o SubSeq(current, at + 1, Len(current))

\* The initializer fails: what it made is stopped and the name is released;
\* the edges seen so far stay.
FailService(c, n) ==
    /\ failures < MaxFailures
    /\ Running(c, n) /\ id[n] = 0
    /\ failures' = failures + 1
    /\ EndCurrent(n)
    /\ frames' = [frames EXCEPT ![c] = Pop(@)]
    /\ services' = services \ {n}
    /\ uses' = {u \in uses : u[1] # n}
    /\ UNCHANGED <<id, nextID, edges, refs, overlapped, shutdown>>

\* The initializer succeeds: addNode.
AddNode(c, n) ==
    /\ Running(c, n) /\ id[n] = 0
    /\ nextID' = nextID + 1
    /\ id' = [id EXCEPT ![n] = nextID']
    /\ UNCHANGED <<services, edges, current, frames, refs, uses, overlapped, failures,
                   shutdown>>

\* Service returns the Ref.
EndService(c, n) ==
    /\ Running(c, n) /\ id[n] # 0
    /\ EndCurrent(n)
    /\ frames' = [frames EXCEPT ![c] = Pop(@)]
    /\ refs' = refs \cup {n}
    /\ UNCHANGED <<services, id, nextID, edges, uses, overlapped, failures, shutdown>>

-----------------------------------------------------------------------------
(* Shutdown.                                                               *)

\* The nodes of S that no other node of S uses.
Ready(S) == {n \in S : \A m \in S : <<m, n>> \notin edges}

\* Mutant: the edges are not looked at.
NewestOf(S) == CHOOSE n \in S : \A m \in S : id[m] <= id[n]

\* shutdownOrder, one node at a time: the newest of the ready nodes; if none
\* is ready, the newest of those left.
NextToStop(S) ==
    LET candidates == IF Ready(S) # {} THEN Ready(S) ELSE S
    IN  CHOOSE n \in candidates : \A m \in candidates : id[m] <= id[n]

BeginShutdown(s) ==
    /\ pc[s] = "idle"
    /\ \A c \in Caller : frames[c] = <<>>
    /\ todo' = [todo EXCEPT ![s] = Node]
    /\ pc' = [pc EXCEPT ![s] = "loop"]
    /\ UNCHANGED <<graph, phase, target>>

\* The next node's context is cancelled and its stop function called, by a
\* goroutine of its own and once: a node that is stopping or stopped is only
\* waited for.
StopNext(s) ==
    /\ pc[s] = "loop" /\ todo[s] # {}
    /\ LET n == NextToStop(todo[s])
       IN  /\ target' = [target EXCEPT ![s] = n]
           /\ todo' = [todo EXCEPT ![s] = @ \ {n}]
           /\ phase' = [phase EXCEPT ![n] = IF @ = "up" THEN "stopping" ELSE @]
    /\ pc' = [pc EXCEPT ![s] = "waiting"]
    /\ UNCHANGED graph

\* The stop function returns and done is closed.
StopFunctionReturns(n) ==
    /\ phase[n] = "stopping" /\ n \notin Hangs
    /\ phase' = [phase EXCEPT ![n] = "stopped"]
    /\ UNCHANGED <<graph, pc, todo, target>>

\* Mutant: Shutdown does not wait for the node.
NodeAssumedFinished(s) ==
    /\ pc[s] = "waiting"
    /\ pc' = [pc EXCEPT ![s] = "loop"]
    /\ target' = [target EXCEPT ![s] = None]
    /\ UNCHANGED <<graph, phase, todo>>

\* <-finished
NodeFinished(s) ==
    /\ pc[s] = "waiting" /\ phase[target[s]] = "stopped"
    /\ pc' = [pc EXCEPT ![s] = "loop"]
    /\ target' = [target EXCEPT ![s] = None]
    /\ UNCHANGED <<graph, phase, todo>>

\* Mutant: the context is looked at between nodes only.
InterruptBetween(s) ==
    /\ Deadline
    /\ pc[s] = "loop"
    /\ pc' = [pc EXCEPT ![s] = "interrupted"]
    /\ target' = [target EXCEPT ![s] = None]
    /\ UNCHANGED <<graph, phase, todo>>

\* <-ctx.Done(), before a node or while one is stopping: the rest is left.
Interrupt(s) ==
    /\ Deadline
    /\ pc[s] \in {"loop", "waiting"}
    /\ pc' = [pc EXCEPT ![s] = "interrupted"]
    /\ target' = [target EXCEPT ![s] = None]
    /\ UNCHANGED <<graph, phase, todo>>

ShutdownReturns(s) ==
    /\ pc[s] = "loop" /\ todo[s] = {}
    /\ pc' = [pc EXCEPT ![s] = "returned"]
    /\ UNCHANGED <<graph, phase, todo, target>>

ShutdownStep(s) == StopNext(s) \/ NodeFinished(s) \/ Interrupt(s) \/ ShutdownReturns(s)

Next ==
    \/ \E c \in Caller, n \in Name :
           \/ BeginService(c, n) \/ FailService(c, n) \/ AddNode(c, n)
           \/ EndService(c, n) \/ \E m \in Name : Use(c, n, m)
    \/ \E s \in Stopper : BeginShutdown(s) \/ ShutdownStep(s)
    \/ \E n \in Name : StopFunctionReturns(n)

Spec == Init /\ [][Next]_vars

\* A Shutdown in progress goes on; a deadline passes; stop functions return,
\* those in Hangs excepted.
FairSpec ==
    /\ Spec
    /\ \A s \in Stopper : WF_vars(ShutdownStep(s))
    /\ \A n \in Name : WF_vars(StopFunctionReturns(n))

-----------------------------------------------------------------------------
(* Properties.                                                             *)

\* A service is not stopped before those that were seen to use it, whatever
\* Shutdowns were interrupted or run at the same time.
DependentsFirst ==
    \A n, m \in Node :
        <<n, m>> \in edges /\ phase[m] # "up" => phase[n] = "stopped"

\* A service is not stopped while one that took its value is in use:
\* "dependents are stopped before the services they use" (lazydeps/doc.go).
\* It is promised only when initializers of two goroutines never overlap: an
\* edge is taken from the top of a stack that all goroutines share.
UsersFirst ==
    overlapped \/ \A n, m \in Node :
        <<n, m>> \in uses /\ phase[m] # "up" => phase[n] = "stopped"

\* Without overlap, an edge between services goes from the newer to the older
\* one, so the shutdown order is the reverse of the registration order.
EdgesDescend ==
    overlapped \/ \A n, m \in Node : <<n, m>> \in edges => id[n] > id[m]

\* Whatever a Shutdown has left always has a service nobody left uses.
NoCycle == \A s \in Stopper : todo[s] # {} => Ready(todo[s]) # {}

\* A Shutdown that returned nil has stopped every service.
ReturnedMeansStopped ==
    \A s \in Stopper : pc[s] = "returned" => \A n \in Node : phase[n] = "stopped"

\* A Shutdown ends, by its deadline if a stop function hangs.
ShutdownEnds ==
    \A s \in Stopper : pc[s] = "loop" ~> pc[s] \in {"returned", "interrupted"}

\* The recorded graph has no cycle, whoever an edge was attributed to, so the
\* branch of shutdownOrder for cycles is never taken; and it is in the order of
\* registration as long as initializers do not overlap.
GraphIsOrdered == TypeOK /\ NoCycle /\ EdgesDescend

\* Shutdown stops users before what they use: by the recorded edges always, by
\* the uses that took place when initializers do not overlap.
StopOrder == DependentsFirst /\ UsersFirst

(* The inductive invariant.                                                *)

\* An initializer in progress is once on the stack of its goroutine and once
\* on the Scope's, and its Ref has not been returned.
OnceOnCurrent == \A i, j \in 1..Len(current) : current[i] = current[j] => i = j
CurrentIsPending == \A i \in 1..Len(current) : current[i] \in services \ refs
FramesAreCurrent ==
    \A g \in Caller : \A i \in 1..Len(frames[g]) :
        \E j \in 1..Len(current) : current[j] = frames[g][i]
OnceInFrames ==
    \A g, h \in Caller : \A i \in 1..Len(frames[g]), j \in 1..Len(frames[h]) :
        frames[g][i] = frames[h][j] => g = h /\ i = j
StacksAgree == OnceOnCurrent /\ CurrentIsPending /\ FramesAreCurrent /\ OnceInFrames

\* Without overlap the Scope's stack is that of the goroutine at work.
OneStack ==
    overlapped \/ /\ \A g, h \in Caller : frames[g] # <<>> /\ frames[h] # <<>> => g = h
                  /\ \A g \in Caller : frames[g] # <<>> => current = frames[g]
                  /\ current # <<>> => \E g \in Caller : frames[g] # <<>>

\* An edge leads to a service whose Ref has been returned.  When it is recorded
\* that of its source has not, so no set of services is a cycle.
EdgesAreLate ==
    /\ refs \subseteq services \cap Node
    /\ \A n, m \in Name : <<n, m>> \in edges => m \in refs
    /\ \A S \in SUBSET Name : S # {} => Ready(S) # {}
    /\ overlapped \/ uses \subseteq edges

\* A Shutdown in progress has stopped what it has passed, its target excepted,
\* and has what the nodes it has left use before it.
PassedAreStopped ==
    /\ (\A s \in Stopper : pc[s] = "idle") => \A n \in Name : phase[n] = "up"
    /\ (\E s \in Stopper : pc[s] # "idle") => \A g \in Caller : frames[g] = <<>>
    /\ \A s \in Stopper : pc[s] \in {"loop", "waiting"} =>
           /\ todo[s] \subseteq Node
           /\ \A n, m \in Node : <<n, m>> \in edges /\ n \in todo[s] => m \in todo[s]
           /\ \A n \in Node \ todo[s] :
                  phase[n] = "stopped" \/ (pc[s] = "waiting" /\ target[s] = n)

IndInv ==
    /\ TypeOK /\ EdgesDescend /\ StacksAgree /\ OneStack /\ EdgesAreLate
    /\ PassedAreStopped /\ DependentsFirst /\ ReturnedMeansStopped

=============================================================================
