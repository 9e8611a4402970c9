---------------------------- MODULE MCJobScheduler ----------------------------
(* A small instance of JobScheduler: the schedulers of two processes.        *)
EXTENDS JobScheduler

CONSTANTS s1, s2

=============================================================================
