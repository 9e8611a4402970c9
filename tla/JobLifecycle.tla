---------------------------- MODULE JobLifecycle ----------------------------
(***************************************************************************)
(* What lazyjobs promises about one record, whoever runs it: the states of *)
(* lazyjobs/types.go and the transitions of the package documentation      *)
(* (lazyjobs/doc.go).  Work is called at most once per claimed attempt,    *)
(* success is recorded only after a call of Work, a failed attempt is      *)
(* retried only while attempts remain, and settled records never change.   *)
(* Runners, queues, limits, clocks and crashes are the business of module  *)
(* JobRunner, which implements this specification.                         *)
(***************************************************************************)
EXTENDS Integers

CONSTANTS JobID,        \* the record identifiers
          MaxAttempts   \* Record.MaxAttempts, normalised to at least one

VARIABLES state,     \* Record.State, "absent" before Insert
          attempt,   \* Record.Attempt
          executed   \* how many times Work has been called for the record

vars == <<state, attempt, executed>>

State == {"absent", "pending", "running", "retrying", "succeeded", "discarded"}
Settled == {"succeeded", "discarded"}

\* The current attempt's call of Work has been made.
Executed(j) == executed[j] = attempt[j]

-----------------------------------------------------------------------------

Init ==
    /\ state = [j \in JobID |-> "absent"]
    /\ attempt = [j \in JobID |-> 0]
    /\ executed = [j \in JobID |-> 0]

Insert(j) ==
    /\ state[j] = "absent"
    /\ state' = [state EXCEPT ![j] = "pending"]
    /\ UNCHANGED <<attempt, executed>>

Claim(j) ==
    /\ state[j] \in {"pending", "retrying"}
    /\ state' = [state EXCEPT ![j] = "running"]
    /\ attempt' = [attempt EXCEPT ![j] = @ + 1]
    /\ UNCHANGED executed

Work(j) ==
    /\ state[j] = "running"
    /\ executed[j] < attempt[j]
    /\ executed' = [executed EXCEPT ![j] = @ + 1]
    /\ UNCHANGED <<state, attempt>>

Complete(j) ==
    /\ state[j] = "running" /\ Executed(j)
    /\ state' = [state EXCEPT ![j] = "succeeded"]
    /\ UNCHANGED <<attempt, executed>>

Retry(j) ==
    /\ state[j] = "running" /\ Executed(j)
    /\ attempt[j] < MaxAttempts
    /\ state' = [state EXCEPT ![j] = "retrying"]
    /\ UNCHANGED <<attempt, executed>>

\* Attempts are exhausted, or the record could not be decoded.
Discard(j) ==
    /\ state[j] = "running"
    /\ Executed(j) => attempt[j] = MaxAttempts
    /\ state' = [state EXCEPT ![j] = "discarded"]
    /\ UNCHANGED <<attempt, executed>>

Next == \E j \in JobID :
            \/ Insert(j) \/ Claim(j) \/ Work(j)
            \/ Complete(j) \/ Retry(j) \/ Discard(j)

Spec == Init /\ [][Next]_vars

=============================================================================
