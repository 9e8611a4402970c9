---------------------------- MODULE MCJobRunner ----------------------------
(* Small instances of JobRunner.                                           *)
EXTENDS JobRunner, TLC

CONSTANTS r1, r2, w1, w2, q1, q2, k1, k2, s1, s2

OneRunner == [w \in Worker |-> r1]
TwoRunners == w1 :> r1 @@ w2 :> r2

AllQueues == [r \in Runner |-> Queue]
AllKinds == [r \in Runner |-> Kind]
\* A rolling deployment: r1 does not know the kind k2.
OldAndNew == r1 :> {k1} @@ r2 :> {k1, k2}

\* Both runners limit q1 to one record, or each has a limit of its own for it.
OneAtATime == [r \in Runner |-> [q \in Queue |-> IF q = q1 THEN 1 ELSE 0]]
OneOrTwo == [r \in Runner |-> [q \in Queue |-> IF q # q1 THEN 0 ELSE IF r = r1 THEN 1 ELSE 2]]

OneDelay == {1}

\* Bound: with more than two records, which is what exceeding the limit takes, all
\* are there before the first claim, all are due at once, and none is retried.
RetriedOrMany ==
    \/ lastID <= 2
    \/ /\ clock = 0
       /\ \A j \in JobID : runAt[j] = 0 /\ attempt[j] <= 1 /\ state[j] # "retrying"
       /\ lastID < MaxJobs => \A j \in JobID : attempt[j] = 0

\* Sessions are interchangeable.
AnySession == Permutations(Session)

=============================================================================
