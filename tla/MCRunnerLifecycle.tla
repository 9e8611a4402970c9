-------------------------- MODULE MCRunnerLifecycle --------------------------
(* A small instance of RunnerLifecycle: two callers, pools of two goroutines. *)
EXTENDS RunnerLifecycle

CONSTANTS c1, c2

=============================================================================
