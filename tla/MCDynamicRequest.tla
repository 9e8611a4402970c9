---------------------------- MODULE MCDynamicRequest ---------------------------
(* DynamicRequest for TLC: two connections, one of which may ask for streams *)
(* as well, two controllers, two keys.                                       *)
EXTENDS DynamicRequest

CONSTANTS q1, q2, c1, c2, k1, k2

\* The properties are invariants, so what is alike may be permuted.
Alike == Permutations({c1, c2}) \cup Permutations({k1, k2})

\* Bounds: a second key is asked for, and a page is evicted, only where there are
\* no sessions; and nothing is cached by the time that a stream is sent.
KeysInUse == ({asked[q] : q \in Request} \cup Range(uses)) \ {NoKey}
OneKey == Cardinality(KeysInUse) <= 1 /\ Len(uses) = Len(cache.order)
SomeStream == \E q \in Request : <<"stream", q, NoKey>> \in client[q].body
CacheBound == (sessions => OneKey) /\ (SomeStream => OneKey /\ uses = <<>>)
=============================================================================
