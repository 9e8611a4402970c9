----------------------------- MODULE InMemoryCache -----------------------------
(***************************************************************************)
(* The cache of lazycache/inmemorycache (inmemorycache.go): entries in the *)
(* order they were used, a limit on their number and one on their bytes.   *)
(* Every operation holds the mutex from beginning to end, so each is one   *)
(* operator on the cache; DynamicRequest calls them from its steps.        *)
(* Statistics other than the size, and the times kept per entry, are left  *)
(* out.                                                                    *)
(***************************************************************************)
EXTENDS Integers, Sequences, SequencesExt

CONSTANTS Key,           \* the keys of lazycache.Key
          Size,          \* the sizes of values, in bytes
          MaxEntries,    \* Options.MaxEntries, 0 for none
          MaxSizeBytes   \* Options.MaxSizeBytes, 0 for none

ASSUME CacheAssumption ==
    Size \subseteq Nat /\ MaxEntries \in Nat /\ MaxSizeBytes \in Nat

\* order: most recently used first; bytes: stats.SizeBytes, kept by adding and
\* subtracting.
CacheState == [order : Seq(Key), size : [Key -> Size \cup {0}], bytes : Int]
EmptyCache == [order |-> <<>>, size |-> [k \in Key |-> 0], bytes |-> 0]

Has(c, k) == k \in Range(c.order)

MoveToFront(order, k) == <<k>> \o RemoveFirst(order, k)

\* Mutant: a hit does not move the entry to the front.
CacheHitStays(c, k) == c

CacheHit(c, k) == [c EXCEPT !.order = MoveToFront(c.order, k)]

\* The bytes of the entries of some keys.
SizeOf(size, keys) == FoldSeq(LAMBDA k, sum : size[k] + sum, 0, keys)

\* evictOldest, n times.
Evict(c, n) ==
    LET kept == SubSeq(c.order, 1, Len(c.order) - n)
        gone == SubSeq(c.order, Len(c.order) - n + 1, Len(c.order))
    IN  [c EXCEPT !.order = kept,
                  !.size = [k \in Key |-> IF k \in Range(gone) THEN 0 ELSE c.size[k]],
                  !.bytes = @ - SizeOf(c.size, gone)]

Fits(c) ==
    /\ MaxEntries = 0 \/ Len(c.order) <= MaxEntries
    /\ MaxSizeBytes = 0 \/ c.bytes <= MaxSizeBytes

\* enforceLimits evicts until the limits are met or nothing is left.
EnforceLimits(c) ==
    LET enough == {n \in 0..Len(c.order) : Fits(Evict(c, n)) \/ n = Len(c.order)}
    IN  Evict(c, CHOOSE n \in enough : \A m \in enough : n <= m)

CacheSet(c, k, s) ==
    EnforceLimits([order |-> MoveToFront(c.order, k), size |-> [c.size EXCEPT ![k] = s],
                   bytes |-> c.bytes - c.size[k] + s])
=============================================================================
