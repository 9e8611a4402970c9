------------------------------- MODULE MCMigrate -------------------------------
(* Small instances of Migrate.                                               *)
EXTENDS Migrate

CONSTANTS p1, p2, v1, v2

\* p1 is a build from before the last migration was written.
OldAndNew == [p \in Process |-> IF p = p1 THEN 1..(Count - 1) ELSE Migration]

\* p1 has another content of the first migration.
Edited == [p \in Process |->
              [m \in Migration |-> IF p = p1 /\ m = 1 THEN v2 ELSE v1]]

EveryOperation ==
    {[name |-> "up", limit |-> 0], [name |-> "up", limit |-> 1],
     [name |-> "down", limit |-> 0], [name |-> "redo", limit |-> 2]}

=============================================================================
