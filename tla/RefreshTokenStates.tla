-------------------------- MODULE RefreshTokenStates --------------------------
(***************************************************************************)
(* What lazyoauth promises about a refresh-token family (the interface     *)
(* RefreshTokenStateStore in lazyoauth/store.go), whatever keeps it: the    *)
(* answers of the store, one step per answer.  A rotation puts a token in  *)
(* force that never was before, so that a token is exchanged at most once, *)
(* and a replay revokes the family for good.  A call that failed without   *)
(* such an answer puts the family in doubt: the caller does not know what  *)
(* was kept, and a repetition of the request may be taken for a replay.     *)
(* Files, mutexes, restarts and expiry are the business of module OAuth,    *)
(* which implements this.                                                  *)
(***************************************************************************)
EXTENDS Integers

CONSTANTS Family,    \* the family identifiers
          Token      \* the token identifiers, in the order randomToken made them

VARIABLES standing,   \* per family, the token in force by the last answer, None
                      \* before CreateFamily and Revoked after a replay
          doubt       \* the families with a call that failed

None == 0
Revoked == -1

vars == <<standing, doubt>>

Init ==
    /\ standing = [f \in Family |-> None]
    /\ doubt = {}

CreateFamily(f, t) ==
    /\ standing[f] = None
    /\ standing' = [standing EXCEPT ![f] = t]
    /\ UNCHANGED doubt

\* The presented token was in force; next never was.
Rotate(f, next) ==
    /\ standing[f] \in Token
    /\ standing[f] < next
    /\ standing' = [standing EXCEPT ![f] = next]
    /\ UNCHANGED doubt

Replay(f) ==
    /\ standing[f] \in Token
    /\ standing' = [standing EXCEPT ![f] = Revoked]
    /\ UNCHANGED doubt

RevokeFamily(f) ==
    /\ standing[f] \in Token \cup {None}
    /\ standing' = [standing EXCEPT ![f] = Revoked]
    /\ UNCHANGED doubt

Fail(families) ==
    /\ doubt' = doubt \cup families
    /\ UNCHANGED standing

Next ==
    \/ \E f \in Family :
          \/ \E t \in Token : CreateFamily(f, t) \/ Rotate(f, t)
          \/ Replay(f) \/ RevokeFamily(f)
    \/ \E families \in SUBSET Family : Fail(families)

Spec == Init /\ [][Next]_vars
=============================================================================
