------------------------------ MODULE Http_proofs ------------------------------
(* Theorems about requests, for any number of connections, controllers and      *)
(* pages, any sizes and limits of the cache, with sessions and without; and     *)
(* about a WebSocket connection, for any messages, fragments, pings and closes, *)
(* any capacity of the stream and any read limit.                               *)
EXTENDS DynamicRequest, WebSocket, FiniteSetTheorems, NaturalsInduction,
        WellFoundedInduction, SequenceTheorems, TLAPS

-----------------------------------------------------------------------------
(* Induction over numbers and finite sets, by the smallest counterexample.   *)

\* A set that has zero, and the successor of each number it has, has every number.
LEMMA EveryNumber ==
  ASSUME NEW Q, 0 \in Q, \A n \in Nat : n \in Q => n + 1 \in Q
  PROVE  Nat \subseteq Q
<1> DEFINE less == {ss \in Nat \X Nat : ss[1] < ss[2]}
           bad == Nat \ Q
<1>1. IsWellFoundedOn(less, Nat)
  BY NatLessThanWellFounded DEF OpToRel
<1> HIDE DEF less
<1> SUFFICES ASSUME bad # {} PROVE FALSE
  OBVIOUS
<1>2. PICK x \in bad : \A y \in bad : <<y, x>> \notin less
  BY <1>1, WFMin
<1>3. x \in Nat /\ x # 0 /\ x - 1 \in Nat /\ (x - 1) + 1 = x
  OBVIOUS
<1>4. <<x - 1, x>> \in less
  BY <1>3 DEF less
<1>5. x - 1 \in Q
  BY <1>2, <1>3, <1>4
<1> QED BY <1>3, <1>5

\* Q has the empty set and, with a subset of D, that with one more element.
Closed(D, Q) ==
    {} \in Q /\ \A t \in SUBSET D, x \in D : t \in Q /\ x \notin t => t \cup {x} \in Q

\* A family of subsets of a finite set that has the empty set, and with a set the
\* set with one more element, has the whole set.
LEMMA EverySubset ==
  ASSUME NEW D, IsFiniteSet(D), NEW Q, Closed(D, Q)
  PROVE  \A t \in SUBSET D : t \in Q
<1> DEFINE N == {n \in Nat : \A t \in SUBSET D : Cardinality(t) = n => t \in Q}
<1>0. \A t \in SUBSET D : IsFiniteSet(t) /\ Cardinality(t) \in Nat
  BY FS_Subset, FS_CardinalityType
<1>1. 0 \in N
  BY <1>0, FS_EmptySet DEF Closed
<1>2. ASSUME NEW n \in Nat, n \in N PROVE n + 1 \in N
  <2> SUFFICES ASSUME NEW t \in SUBSET D, Cardinality(t) = n + 1 PROVE t \in Q
    OBVIOUS
  <2>1. t # {}
    BY FS_EmptySet
  <2>2. PICK x : x \in t
    BY <2>1
  <2>3. Cardinality(t \ {x}) = n
    <3>1. Cardinality(t \ {x}) = Cardinality(t) - 1
      BY <1>0, <2>2, FS_RemoveElement
    <3> QED BY <3>1
  <2>4. t \ {x} \in Q
    BY <1>2, <2>3
  <2>5. (t \ {x}) \cup {x} = t
    BY <2>2
  <2> QED BY <2>2, <2>4, <2>5 DEF Closed
<1>3. Nat \subseteq N
  <2> HIDE DEF N
  <2> QED BY <1>1, <1>2, EveryNumber
<1> QED BY <1>0, <1>3

-----------------------------------------------------------------------------

\* The sum of the sizes of the places of s in D, as the folds of the library have it.
Bytes(size, s, D) == FoldFunctionOnSet(LAMBDA k, sum : size[k] + sum, 0, s, D)

\* Every element of D has a size.
Sized(size, s, D) == \A x \in D : size[s[x]] \in Nat

\* The fold over a set as a function of its subsets.
One(t) == CHOOSE x \in t : TRUE
Adds(size, s, D, g) == [t \in SUBSET D |-> IF t = {} THEN 0 ELSE size[s[One(t)]] + g[t \ {One(t)}]]

\* The sums over the subsets of a finite set exist.
LEMMA SumsExist ==
  ASSUME NEW size, NEW s, NEW D, IsFiniteSet(D)
  PROVE  \E g : g = Adds(size, s, D, g)
<1> DEFINE Small(n) == {t \in SUBSET D : Cardinality(t) <= n}
           Step(n, g) == [t \in Small(n) |-> IF t = {} THEN 0 ELSE size[s[One(t)]] + g[t \ {One(t)}]]
           N == {n \in Nat : \E g : g = Step(n, g)}
<1>0. \A t \in SUBSET D : IsFiniteSet(t) /\ Cardinality(t) \in Nat
  BY FS_Subset, FS_CardinalityType
<1>1. 0 \in N
  <2>1. \A t \in Small(0) : t = {}
    BY <1>0, FS_EmptySet
  <2>2. [t \in Small(0) |-> 0] = Step(0, [t \in Small(0) |-> 0])
    BY <2>1
  <2> QED BY <2>2
<1>2. ASSUME NEW n \in Nat, n \in N PROVE n + 1 \in N
  <2>1. PICK g : g = Step(n, g)
    BY <1>2
  <2> DEFINE h == Step(n + 1, g)
  <2>2. ASSUME NEW t \in Small(n + 1), t # {} PROVE h[t \ {One(t)}] = g[t \ {One(t)}]
    <3>1. One(t) \in t
      BY <2>2 DEF One
    <3>2. t \ {One(t)} \in Small(n)
      <4>1. Cardinality(t \ {One(t)}) = Cardinality(t) - 1
        BY <1>0, <3>1, FS_RemoveElement
      <4> QED BY <1>0, <4>1
    <3>3. t \ {One(t)} \in Small(n + 1)
      BY <1>0, <3>2
    <3> DEFINE u == t \ {One(t)}
    <3>4. u \in Small(n) /\ u \in Small(n + 1)
      BY <3>2, <3>3
    <3> HIDE DEF u, Small
    <3>5. g[u] = IF u = {} THEN 0 ELSE size[s[One(u)]] + g[u \ {One(u)}]
      BY <2>1, <3>4
    <3>6. h[u] = IF u = {} THEN 0 ELSE size[s[One(u)]] + g[u \ {One(u)}]
      BY <3>4
    <3> QED BY <3>5, <3>6 DEF u
  <2> HIDE DEF Small
  <2>3. h = Step(n + 1, h)
    BY <2>2
  <2> HIDE DEF h, Step
  <2> QED BY <2>3
<1>3. Cardinality(D) \in N
  <2> HIDE DEF N
  <2>1. Nat \subseteq N
    BY <1>1, <1>2, EveryNumber
  <2> QED BY <1>0, <2>1
<1>4. Small(Cardinality(D)) = SUBSET D
  <2>1. \A t \in SUBSET D : Cardinality(t) <= Cardinality(D)
    BY FS_Subset
  <2> QED BY <2>1
<1> QED BY <1>3, <1>4 DEF Adds

\* A sum is what the fold computes step by step.
LEMMA SumIs ==
  ASSUME NEW size, NEW s, NEW D, IsFiniteSet(D)
  PROVE  \E g : g = Adds(size, s, D, g) /\ Bytes(size, s, D) = g[D]
<1> DEFINE iter[t \in SUBSET D] ==
             IF t = {} THEN 0
             ELSE size[s[CHOOSE x \in t : TRUE]] + iter[t \ {CHOOSE x \in t : TRUE}]
<1>1. Bytes(size, s, D) = iter[D]
  BY DEF Bytes, FoldFunctionOnSet, MapThenFoldSet
<1>2. iter = Adds(size, s, D, iter)
  <2>1. \E g : g = [t \in SUBSET D |->
                      IF t = {} THEN 0
                      ELSE size[s[CHOOSE x \in t : TRUE]] + g[t \ {CHOOSE x \in t : TRUE}]]
    <3>1. PICK g : g = Adds(size, s, D, g)
      BY SumsExist
    <3>2. g = [t \in SUBSET D |->
                      IF t = {} THEN 0
                      ELSE size[s[CHOOSE x \in t : TRUE]] + g[t \ {CHOOSE x \in t : TRUE}]]
      BY <3>1, Zenon DEF Adds, One
    <3> QED BY <3>2
  <2>2. iter = [t \in SUBSET D |->
                      IF t = {} THEN 0
                      ELSE size[s[CHOOSE x \in t : TRUE]] + iter[t \ {CHOOSE x \in t : TRUE}]]
    BY <2>1
  <2> HIDE DEF iter
  <2> QED BY <2>2, Zenon DEF Adds, One
<1> QED BY <1>1, <1>2

\* g adds the sizes of each subset of D, in any order.
Additive(size, s, D, g) ==
    /\ g[{}] = 0 /\ \A t \in SUBSET D : g[t] \in Nat
    /\ \A t \in SUBSET D : \A y \in t : g[t] = size[s[y]] + g[t \ {y}]

\* The sizes may be added in any order.
LEMMA AnyOrder ==
  ASSUME NEW size, NEW s, NEW D, IsFiniteSet(D), Sized(size, s, D),
         NEW g, g = Adds(size, s, D, g)
  PROVE  Additive(size, s, D, g)
<1> DEFINE Good(t) == g[t] \in Nat /\ \A y \in t : g[t] = size[s[y]] + g[t \ {y}]
           N == {n \in Nat : \A t \in SUBSET D : Cardinality(t) <= n => Good(t)}
<1>0. \A t \in SUBSET D : IsFiniteSet(t) /\ Cardinality(t) \in Nat
  BY FS_Subset, FS_CardinalityType
<1>1. \A t \in SUBSET D : g[t] = IF t = {} THEN 0 ELSE size[s[One(t)]] + g[t \ {One(t)}]
  BY DEF Adds
<1>2. g[{}] = 0
  BY <1>1
<1>3. 0 \in N
  <2>1. \A t \in SUBSET D : Cardinality(t) <= 0 => t = {}
    BY <1>0, FS_EmptySet
  <2> QED BY <1>2, <2>1
<1>4. ASSUME NEW n \in Nat, n \in N PROVE n + 1 \in N
  <2>1. \A u \in SUBSET D : Cardinality(u) <= n => Good(u)
    BY <1>4
  <2>2. ASSUME NEW t \in SUBSET D, Cardinality(t) = n + 1 PROVE Good(t)
    <3>1. \A y \in t : Cardinality(t \ {y}) = n
      <4> SUFFICES ASSUME NEW y \in t PROVE Cardinality(t \ {y}) = n
        OBVIOUS
      <4>1. Cardinality(t \ {y}) = Cardinality(t) - 1
        BY <1>0, FS_RemoveElement
      <4> QED BY <2>2, <4>1
    <3>2. t # {}
      <4>1. Cardinality({}) = 0
        BY FS_EmptySet
      <4> QED BY <2>2, <4>1
    <3> DEFINE x == One(t)
    <3>3. x \in t /\ g[t] = size[s[x]] + g[t \ {x}]
      BY <1>1, <3>2 DEF One
    <3> HIDE DEF x
    <3>4. g[t \ {x}] \in Nat /\ size[s[x]] \in Nat
      BY <2>1, <3>1, <3>3 DEF Sized
    <3>5. ASSUME NEW y \in t, y # x PROVE g[t] = size[s[y]] + g[t \ {y}]
      <4> DEFINE w == (t \ {x}) \ {y}
                 a == size[s[x]]
                 b == size[s[y]]
      <4>1. y \in t \ {x} /\ x \in t \ {y} /\ w = (t \ {y}) \ {x} /\ w \in SUBSET D
            /\ t \ {x} \in SUBSET D /\ t \ {y} \in SUBSET D
        BY <3>3, <3>5
      <4>2. Good(t \ {x}) /\ Good(t \ {y})
        BY <2>1, <3>1, <3>3, <4>1
      <4>3. g[t \ {x}] = b + g[w] /\ g[t \ {y}] = a + g[w]
        BY <4>1, <4>2
      <4>4. Cardinality(w) <= n
        <5>1. Cardinality(w) = Cardinality(t \ {x}) - 1
          <6>1. IsFiniteSet(t \ {x}) /\ y \in t \ {x}
            BY <1>0, <4>1
          <6> QED BY <6>1, FS_RemoveElement
        <5> QED BY <1>0, <3>1, <3>3, <5>1
      <4>5. g[w] \in Nat /\ b \in Nat /\ a \in Nat
        BY <2>1, <3>4, <4>1, <4>4 DEF Sized
      <4> HIDE DEF w, a, b
      <4>6. g[t] = a + g[t \ {x}]
        BY <3>3 DEF a
      <4>7. g[t] = b + g[t \ {y}]
        BY <4>3, <4>5, <4>6
      <4> QED BY <4>7 DEF b
    <3>6. g[t] \in Nat
      BY <3>3, <3>4
    <3>7. \A y \in t : y # x => g[t] = size[s[y]] + g[t \ {y}]
      BY <3>5
    <3>8. \A y \in t : y = x => g[t] = size[s[y]] + g[t \ {y}]
      BY <3>3
    <3>9. \A y \in t : g[t] = size[s[y]] + g[t \ {y}]
      BY <3>7, <3>8, Zenon
    <3> QED BY <3>6, <3>9
  <2> HIDE DEF Good
  <2> QED BY <1>0, <2>1, <2>2
<1>5. Nat \subseteq N
  <2> HIDE DEF N
  <2> QED BY <1>3, <1>4, EveryNumber
<1>6. \A t \in SUBSET D : Good(t)
  <2> HIDE DEF Good
  <2> QED BY <1>0, <1>5
<1> QED BY <1>2, <1>6 DEF Additive

\* What is known of the sum over D.
Summed(size, s, D) ==
    /\ Bytes(size, s, {}) = 0 /\ Bytes(size, s, D) \in Nat
    /\ \A y \in D : Bytes(size, s, D) = size[s[y]] + Bytes(size, s, D \ {y})

\* A sum over a finite set is a natural number, the sum over the set without one of
\* its elements, and that element's size.
LEMMA SumFacts ==
  ASSUME NEW size, NEW s, NEW D, IsFiniteSet(D), Sized(size, s, D)
  PROVE  Summed(size, s, D)
<1>1. PICK g : g = Adds(size, s, D, g) /\ Bytes(size, s, D) = g[D]
  BY SumIs
<1>2. Additive(size, s, D, g)
  BY <1>1, AnyOrder
<1>3. ASSUME NEW E \in SUBSET D PROVE Bytes(size, s, E) = g[E]
  <2>0. IsFiniteSet(E)
    BY FS_Subset
  <2>1. Sized(size, s, E)
    BY DEF Sized
  <2>2. PICK h : h = Adds(size, s, E, h) /\ Bytes(size, s, E) = h[E]
    BY <2>0, SumIs
  <2>3. /\ h[{}] = 0
        /\ \A t \in SUBSET E : \A y \in t : h[t] = size[s[y]] + h[t \ {y}]
    <3>1. Additive(size, s, E, h)
      BY <2>0, <2>1, <2>2, AnyOrder
    <3> QED BY <3>1 DEF Additive
  <2> DEFINE Q == {t \in SUBSET E : g[t] = h[t]}
  <2>4. {} \in Q
    BY <1>2, <2>3 DEF Additive
  <2>5. ASSUME NEW t \in SUBSET E, NEW x \in E, t \in Q, x \notin t PROVE t \cup {x} \in Q
    <3>1. t \cup {x} \in SUBSET E /\ t \cup {x} \in SUBSET D /\ (t \cup {x}) \ {x} = t /\ x \in t \cup {x}
      BY <2>5
    <3>2. g[t \cup {x}] = size[s[x]] + g[(t \cup {x}) \ {x}]
      BY <1>2, <3>1 DEF Additive
    <3>3. h[t \cup {x}] = size[s[x]] + h[(t \cup {x}) \ {x}]
      BY <2>3, <3>1
    <3> QED BY <2>5, <3>1, <3>2, <3>3
  <2>6. Closed(E, Q)
    <3> HIDE DEF Q
    <3> QED BY <2>4, <2>5 DEF Closed
  <2>7. E \in Q
    <3> HIDE DEF Q
    <3> QED BY <2>0, <2>6, EverySubset
  <2> QED BY <2>2, <2>7
<1> QED BY <1>2, <1>3 DEF Additive, Summed

\* The sum depends only on the sizes it adds.
LEMMA SumSame ==
  ASSUME NEW size, NEW s, NEW other, NEW p, NEW D, IsFiniteSet(D),
         Sized(size, s, D), \A x \in D : other[p[x]] = size[s[x]]
  PROVE  Bytes(other, p, D) = Bytes(size, s, D)
<1> DEFINE Q == {t \in SUBSET D : Bytes(other, p, t) = Bytes(size, s, t)}
<1>1. {} \in Q
  <2>1. Sized(size, s, {}) /\ Sized(other, p, {}) /\ IsFiniteSet({})
    BY FS_EmptySet DEF Sized
  <2>2. Summed(size, s, {}) /\ Summed(other, p, {})
    BY <2>1, SumFacts
  <2> QED BY <2>2 DEF Summed
<1>2. ASSUME NEW t \in SUBSET D, NEW x \in D, t \in Q, x \notin t PROVE t \cup {x} \in Q
  <2> DEFINE u == t \cup {x}
  <2>1. u \in SUBSET D /\ IsFiniteSet(u) /\ x \in u /\ u \ {x} = t
    BY <1>2, FS_Subset
  <2>2. Sized(size, s, u) /\ Sized(other, p, u)
    BY <2>1 DEF Sized
  <2> HIDE DEF u
  <2>3. Summed(size, s, u) /\ Summed(other, p, u)
    BY <2>1, <2>2, SumFacts
  <2>4. Bytes(other, p, u) = other[p[x]] + Bytes(other, p, u \ {x})
    BY <2>1, <2>2, <2>3 DEF Summed
  <2>5. Bytes(size, s, u) = size[s[x]] + Bytes(size, s, u \ {x})
    BY <2>1, <2>2, <2>3 DEF Summed
  <2>6. u \in Q
    BY <1>2, <2>1, <2>4, <2>5
  <2> QED BY <2>6 DEF u
<1> HIDE DEF Q
<1>3. Closed(D, Q)
  BY <1>1, <1>2 DEF Closed
<1>4. D \in Q
  BY <1>3, EverySubset
<1> QED BY <1>4 DEF Q

\* Sums over two sets that have nothing in common.
LEMMA SumUnion ==
  ASSUME NEW size, NEW s, NEW D, IsFiniteSet(D), NEW E, IsFiniteSet(E), D \cap E = {},
         Sized(size, s, D \cup E)
  PROVE  Bytes(size, s, D \cup E) = Bytes(size, s, D) + Bytes(size, s, E)
<1> DEFINE Q == {t \in SUBSET E : Bytes(size, s, D \cup t) = Bytes(size, s, D) + Bytes(size, s, t)}
<1>1. {} \in Q
  <2>1. Bytes(size, s, {}) = 0 /\ Bytes(size, s, D) \in Nat
    <3>1. Sized(size, s, D)
      BY DEF Sized
    <3> QED BY <3>1, SumFacts DEF Summed
  <2>2. D \cup {} = D
    OBVIOUS
  <2> QED BY <2>1, <2>2
<1>2. ASSUME NEW t \in SUBSET E, NEW x \in E, t \in Q, x \notin t PROVE t \cup {x} \in Q
  <2> DEFINE u == t \cup {x}
             v == D \cup u
  <2>1. u \in SUBSET E /\ IsFiniteSet(u) /\ x \in u /\ u \ {x} = t /\ IsFiniteSet(t)
    BY <1>2, FS_Subset
  <2>2. IsFiniteSet(v) /\ x \in v /\ v \ {x} = D \cup t
    BY <1>2, <2>1, FS_Union
  <2>3. Sized(size, s, v) /\ Sized(size, s, u) /\ Sized(size, s, D) /\ Sized(size, s, t)
    BY <2>1 DEF Sized
  <2> HIDE DEF u
  <2> HIDE DEF v
  <2>4. Summed(size, s, v) /\ Summed(size, s, u) /\ Summed(size, s, D) /\ Summed(size, s, t)
    BY <2>1, <2>2, <2>3, SumFacts
  <2>5. Bytes(size, s, v) = size[s[x]] + Bytes(size, s, v \ {x})
    BY <2>2, <2>4 DEF Summed
  <2>6. Bytes(size, s, u) = size[s[x]] + Bytes(size, s, u \ {x})
    BY <2>1, <2>4 DEF Summed
  <2>7. size[s[x]] \in Nat /\ Bytes(size, s, D) \in Nat /\ Bytes(size, s, t) \in Nat
    BY <2>1, <2>3, <2>4 DEF Sized, Summed
  <2>8. Bytes(size, s, v \ {x}) = Bytes(size, s, D) + Bytes(size, s, t)
    BY <1>2, <2>2
  <2>9. Bytes(size, s, u) = size[s[x]] + Bytes(size, s, t)
    BY <2>1, <2>6
  <2>10. Bytes(size, s, v) = Bytes(size, s, D) + Bytes(size, s, u)
    BY <2>5, <2>7, <2>8, <2>9
  <2>11. u \in Q
    BY <2>1, <2>10 DEF v
  <2> QED BY <2>11 DEF u
<1> HIDE DEF Q
<1>3. Closed(E, Q)
  BY <1>1, <1>2 DEF Closed
<1>4. E \in Q
  BY <1>3, EverySubset
<1> QED BY <1>4 DEF Q

\* s is one to one on D, and id is the identity on its values.
OneToOne(s, D, id) ==
    \A x \in D : id[s[x]] = s[x] /\ \A y \in D : s[x] = s[y] => x = y

\* The values of a function on a finite set.
Values(s, D) == {s[x] : x \in D}

\* They are finitely many.
LEMMA ValuesFinite ==
  ASSUME NEW s, NEW D, IsFiniteSet(D)
  PROVE  IsFiniteSet(Values(s, D))
<1> DEFINE Q == {t \in SUBSET D : IsFiniteSet(Values(s, t))}
<1>1. {} \in Q
  <2>1. Values(s, {}) = {}
    BY DEF Values
  <2> QED BY <2>1, FS_EmptySet
<1>2. ASSUME NEW t \in SUBSET D, NEW x \in D, t \in Q PROVE t \cup {x} \in Q
  <2>1. Values(s, t \cup {x}) = Values(s, t) \cup {s[x]}
    BY DEF Values
  <2>2. IsFiniteSet(Values(s, t) \cup {s[x]})
    BY <1>2, FS_AddElement
  <2> QED BY <1>2, <2>1, <2>2
<1> HIDE DEF Q
<1>3. Closed(D, Q)
  BY <1>1, <1>2 DEF Closed
<1>4. D \in Q
  BY <1>3, EverySubset
<1> QED BY <1>4 DEF Q

\* The elements of a sequence may be added by their values when no two are equal.
LEMMA SumByValue ==
  ASSUME NEW size, NEW s, NEW D, IsFiniteSet(D), Sized(size, s, D),
         NEW id, OneToOne(s, D, id)
  PROVE  Bytes(size, s, D) = Bytes(size, id, Values(s, D))
<1> USE DEF Values
<1>0. \A x \in D : id[s[x]] = s[x] /\ \A y \in D : s[x] = s[y] => x = y
  BY DEF OneToOne
<1> DEFINE Image(t) == {s[x] : x \in t}
           Q == {t \in SUBSET D : Bytes(size, s, t) = Bytes(size, id, Image(t)) /\ IsFiniteSet(Image(t))}
<1>1. {} \in Q
  <2>1. Image({}) = {}
    OBVIOUS
  <2>2. Sized(size, s, {}) /\ Sized(size, id, {}) /\ IsFiniteSet({})
    BY FS_EmptySet DEF Sized
  <2>3. Summed(size, s, {}) /\ Summed(size, id, {})
    BY <2>2, SumFacts
  <2> QED BY <2>1, <2>2, <2>3 DEF Summed
<1>2. ASSUME NEW t \in SUBSET D, NEW x \in D, t \in Q, x \notin t PROVE t \cup {x} \in Q
  <2> DEFINE u == t \cup {x}
  <2>1. u \in SUBSET D /\ IsFiniteSet(u) /\ x \in u /\ u \ {x} = t
    BY <1>2, FS_Subset
  <2>2. Image(u) = Image(t) \cup {s[x]} /\ s[x] \notin Image(t)
    BY <1>0, <1>2
  <2>3. IsFiniteSet(Image(u)) /\ Image(u) \ {s[x]} = Image(t) /\ s[x] \in Image(u)
    BY <1>2, <2>2, FS_AddElement
  <2>4. Sized(size, id, Image(u)) /\ Sized(size, s, u)
    BY <1>0, <2>1 DEF Sized
  <2> HIDE DEF u, Image
  <2>5. Summed(size, s, u) /\ Summed(size, id, Image(u))
    BY <2>1, <2>3, <2>4, SumFacts
  <2>6. Bytes(size, s, u) = size[s[x]] + Bytes(size, s, u \ {x})
    BY <2>1, <2>5 DEF Summed
  <2>7. Bytes(size, id, Image(u)) = size[s[x]] + Bytes(size, id, Image(u) \ {s[x]})
    BY <1>0, <2>3, <2>5 DEF Summed
  <2>8. u \in Q
    BY <1>2, <2>1, <2>3, <2>6, <2>7
  <2> QED BY <2>8 DEF u
<1>3. D \in Q
  <2> HIDE DEF Q
  <2>1. Closed(D, Q)
    BY <1>1, <1>2 DEF Closed
  <2> QED BY <2>1, EverySubset
<1> QED BY <1>3

-----------------------------------------------------------------------------
(* Sequences in which nothing comes twice, and what is moved to their front.  *)

\* What moving k to the front of s does, when p is the first place of k in s, or the
\* one after its end.
Moved(s, k, p, r) ==
    /\ p \in 1..(Len(s) + 1) /\ (p <= Len(s) => s[p] = k)
    /\ \A j \in 1..Len(s) : j < p => s[j] # k
    /\ r \in Seq(Key) /\ Len(r) = IF p <= Len(s) THEN Len(s) ELSE Len(s) + 1
    /\ \A j \in 1..Len(r) : r[j] = IF j = 1 THEN k ELSE IF j <= p THEN s[j - 1] ELSE s[j]

\* The smallest number of a set.
LEMMA Smallest ==
  ASSUME NEW S \in SUBSET Nat, S # {}
  PROVE  \E n \in S : \A m \in S : n <= m
<1> DEFINE less == {ss \in Nat \X Nat : ss[1] < ss[2]}
<1>1. IsWellFoundedOn(less, Nat)
  BY NatLessThanWellFounded DEF OpToRel
<1> HIDE DEF less
<1>2. PICK x \in S : \A y \in S : <<y, x>> \notin less
  BY <1>1, WFMin
<1>3. \A y \in S : ~(y < x)
  BY <1>2 DEF less
<1> QED BY <1>3

\* An element that is in a sequence has a first place in it.
LEMMA FirstPlace ==
  ASSUME NEW s \in Seq(Key), NEW k, \E i \in 1..Len(s) : s[i] = k
  PROVE  LET p == SelectInSeq(s, LAMBDA v : v = k)
         IN  p \in 1..Len(s) /\ s[p] = k /\ \A j \in 1..Len(s) : j < p => s[j] # k
<1> DEFINE places == {i \in 1..Len(s) : s[i] = k}
           p == SelectInSeq(s, LAMBDA v : v = k)
<1>1. places # {} /\ places \in SUBSET Nat
  OBVIOUS
<1>2. \E n \in places : \A m \in places : n <= m
  BY <1>1, Smallest
<1>3. p = Min(places)
  BY <1>1 DEF SelectInSeq
<1>4. p \in places /\ \A m \in places : p <= m
  BY <1>2, <1>3 DEF Min
<1>5. p \in 1..Len(s) /\ s[p] = k
  BY <1>4
<1>6. ASSUME NEW j \in 1..Len(s), j < p, s[j] = k PROVE FALSE
  <2>1. j \in places
    BY <1>6
  <2>2. p <= j
    BY <1>4, <2>1
  <2> HIDE DEF p
  <2> QED BY <1>5, <1>6, <2>2
<1> QED BY <1>5, <1>6

\* What moving an element to the front does.
LEMMA MoveToFrontIs ==
  ASSUME NEW s \in Seq(Key), NEW k \in Key
  PROVE  \E p : Moved(s, k, p, MoveToFront(s, k))
<1> DEFINE rest == RemoveFirst(s, k)
           r == <<k>> \o rest
<1>0. r = MoveToFront(s, k) /\ Len(s) \in Nat
  BY DEF MoveToFront
<1>10. ASSUME NEW t \in Seq(Key)
      PROVE  /\ <<k>> \o t \in Seq(Key) /\ Len(<<k>> \o t) = Len(t) + 1 /\ Len(t) \in Nat
             /\ \A j \in 1..(Len(t) + 1) : (<<k>> \o t)[j] = IF j = 1 THEN k ELSE t[j - 1]
  <2>1. <<k>> \in Seq(Key) /\ Len(<<k>>) = 1 /\ <<k>>[1] = k
    OBVIOUS
  <2> QED BY <2>1, ConcatProperties
<1>1. CASE \E i \in 1..Len(s) : s[i] = k
  <2> DEFINE p == SelectInSeq(s, LAMBDA v : v = k)
             low == SubSeq(s, 1, p - 1)
             high == SubSeq(s, p + 1, Len(s))
  <2>1. p \in 1..Len(s) /\ s[p] = k /\ \A j \in 1..Len(s) : j < p => s[j] # k
    BY <1>1, FirstPlace
  <2>2. rest = low \o high
    BY <1>1 DEF RemoveFirst, RemoveAt
  <2> HIDE DEF p, r, rest
  <2>3. /\ low \in Seq(Key) /\ Len(low) = p - 1
        /\ \A j \in 1..(p - 1) : low[j] = s[j]
    <3>1. 1 \in Int /\ p - 1 \in Int /\ \A i \in 1..(p - 1) : s[i] \in Key
      BY <2>1
    <3> QED BY <2>1, <3>1, SubSeqProperties
  <2>4. /\ high \in Seq(Key) /\ Len(high) = Len(s) - p
        /\ \A j \in 1..(Len(s) - p) : high[j] = s[p + j]
    <3>1. p + 1 \in Int /\ Len(s) \in Int /\ \A i \in (p + 1)..Len(s) : s[i] \in Key
      BY <1>0, <2>1
    <3>2. /\ high \in Seq(Key)
          /\ Len(high) = IF p + 1 <= Len(s) THEN Len(s) - (p + 1) + 1 ELSE 0
          /\ \A i \in 1 .. Len(s) - (p + 1) + 1 : high[i] = s[(p + 1) + i - 1]
      BY <3>1, SubSeqProperties
    <3> QED BY <1>0, <2>1, <3>2
  <2> HIDE DEF low, high
  <2>5. /\ rest \in Seq(Key) /\ Len(rest) = Len(s) - 1
        /\ \A j \in 1..(Len(s) - 1) : rest[j] = IF j < p THEN s[j] ELSE s[j + 1]
    <3>1. /\ rest \in Seq(Key) /\ Len(rest) = Len(low) + Len(high)
          /\ \A j \in 1..(Len(low) + Len(high)) :
                rest[j] = IF j <= Len(low) THEN low[j] ELSE high[j - Len(low)]
      BY <2>2, <2>3, <2>4, ConcatProperties
    <3>2. ASSUME NEW j \in 1..(Len(s) - 1), j < p PROVE rest[j] = s[j]
      BY <1>0, <2>1, <2>3, <2>4, <3>1, <3>2
    <3>3. ASSUME NEW j \in 1..(Len(s) - 1), ~(j < p) PROVE rest[j] = s[j + 1]
      <4>1. rest[j] = high[j - Len(low)]
        BY <1>0, <2>1, <2>3, <2>4, <3>1, <3>3
      <4>2. j - Len(low) \in 1..(Len(s) - p) /\ p + (j - Len(low)) = j + 1
        BY <1>0, <2>1, <2>3, <3>3
      <4> QED BY <2>4, <4>1, <4>2
    <3> QED BY <1>0, <2>1, <2>3, <2>4, <3>1, <3>2, <3>3
  <2> USE DEF r
  <2>6. /\ r \in Seq(Key) /\ Len(r) = Len(s)
        /\ \A j \in 1..Len(s) : r[j] = IF j = 1 THEN k ELSE rest[j - 1]
    BY <1>0, <1>10, <2>5
  <2>7. ASSUME NEW j \in 1..Len(s) PROVE r[j] = IF j = 1 THEN k ELSE IF j <= p THEN s[j - 1] ELSE s[j]
    <3> HIDE DEF r
    <3>1. CASE j = 1
      BY <2>6, <3>1
    <3>2. CASE j # 1
      <4>1. j - 1 \in 1..(Len(s) - 1) /\ r[j] = rest[j - 1] /\ (j - 1) + 1 = j
        BY <1>0, <2>6, <3>2
      <4> QED BY <1>0, <2>1, <2>5, <3>2, <4>1
    <3> QED BY <3>1, <3>2
  <2> HIDE DEF r
  <2> QED BY <1>0, <2>1, <2>6, <2>7 DEF Moved
<1>2. CASE ~\E i \in 1..Len(s) : s[i] = k
  <2>1. rest = s
    BY <1>2 DEF RemoveFirst
  <2>2. /\ r \in Seq(Key) /\ Len(r) = Len(s) + 1
        /\ \A j \in 1..(Len(s) + 1) : r[j] = IF j = 1 THEN k ELSE s[j - 1]
    BY <1>0, <1>10, <2>1
  <2> HIDE DEF r
  <2>3. Moved(s, k, Len(s) + 1, r)
    BY <1>0, <1>2, <2>2 DEF Moved
  <2> QED BY <1>0, <2>3
<1> QED BY <1>1, <1>2

\* The front of s is moved there once, and s keeps its elements.
LEMMA MovedOnce ==
  ASSUME NEW s \in Seq(Key), NEW k \in Key, NoneTwice(s), NEW p, NEW r, Moved(s, k, p, r)
  PROVE  NoneTwice(r) /\ Range(r) = Range(s) \cup {k}
<1>0. Len(s) \in Nat /\ Len(r) \in Nat /\ p \in 1..(Len(s) + 1) /\ (p <= Len(s) => s[p] = k)
      /\ r \in Seq(Key) /\ Len(r) = IF p <= Len(s) THEN Len(s) ELSE Len(s) + 1
  BY DEF Moved
<1>1. ASSUME NEW i \in 1..Len(s) PROVE s[i] = k <=> i = p
  BY <1>0 DEF Moved, NoneTwice
<1> DEFINE back(j) == IF j <= p THEN j - 1 ELSE j
<1>2. r[1] = k /\ 1 \in 1..Len(r)
  BY <1>0 DEF Moved
<1>3. ASSUME NEW j \in 1..Len(r), j # 1
      PROVE  back(j) \in 1..Len(s) /\ back(j) # p /\ r[j] = s[back(j)]
  BY <1>0, <1>3 DEF Moved
<1>4. ASSUME NEW i \in 1..Len(r), NEW j \in 1..Len(r), r[i] = r[j] PROVE i = j
  <2>1. CASE i # 1 /\ j # 1
    <3>1. s[back(i)] = s[back(j)]
      BY <1>3, <1>4, <2>1
    <3>2. back(i) = back(j) /\ back(i) # p /\ back(j) # p
      <4>1. back(i) \in 1..Len(s) /\ back(j) \in 1..Len(s)
        BY <1>3, <2>1
      <4> HIDE DEF back
      <4>2. back(i) = back(j)
        BY <3>1, <4>1 DEF NoneTwice
      <4> QED BY <1>3, <2>1, <4>2
    <3> QED BY <1>0, <2>1, <3>2
  <2>2. CASE i = 1 /\ j # 1
    <3>1. s[back(j)] = k
      BY <1>2, <1>3, <1>4, <2>2
    <3> QED BY <1>1, <1>3, <2>2, <3>1
  <2>3. CASE j = 1 /\ i # 1
    <3>1. s[back(i)] = k
      BY <1>2, <1>3, <1>4, <2>3
    <3> QED BY <1>1, <1>3, <2>3, <3>1
  <2> QED BY <2>1, <2>2, <2>3
<1>5. DOMAIN r = 1..Len(r) /\ DOMAIN s = 1..Len(s)
  BY <1>0
<1>6. ASSUME NEW x \in Range(r) PROVE x \in Range(s) \cup {k}
  <2>1. PICK j \in 1..Len(r) : x = r[j]
    BY <1>5, <1>6 DEF Range
  <2>2. CASE j = 1
    BY <1>2, <2>1, <2>2
  <2>3. CASE j # 1
    BY <1>3, <1>5, <2>1, <2>3 DEF Range
  <2> QED BY <2>2, <2>3
<1>7. k \in Range(r)
  BY <1>2, <1>5 DEF Range
<1>8. ASSUME NEW x \in Range(s), x # k PROVE x \in Range(r)
  <2>1. PICK i \in 1..Len(s) : x = s[i]
    BY <1>5 DEF Range
  <2>2. i # p
    BY <1>1, <1>8, <2>1
  <2> DEFINE j == IF i < p THEN i + 1 ELSE i
  <2>3. j \in 1..Len(r) /\ j # 1 /\ back(j) = i
    BY <1>0, <2>2
  <2>4. r[j] = s[i]
    BY <1>3, <2>3
  <2> QED BY <1>5, <2>1, <2>3, <2>4 DEF Range
<1> QED BY <1>4, <1>6, <1>7, <1>8 DEF NoneTwice

\* s is the beginning of u.
Begins(s, u) == Len(s) <= Len(u) /\ \A j \in 1..Len(s) : s[j] = u[j]

\* A sequence begins another when it is a subsequence of it from its first place.
LEMMA BeginsIs ==
  ASSUME NEW s \in Seq(Key), NEW u \in Seq(Key), Len(s) <= Len(u)
  PROVE  Begins(s, u) <=> s = SubSeq(u, 1, Len(s))
<1> DEFINE b == SubSeq(u, 1, Len(s))
<1>0. Len(s) \in Nat /\ Len(u) \in Nat
  OBVIOUS
<1>1. b \in Seq(Key) /\ Len(b) = Len(s) /\ \A j \in 1..Len(s) : b[j] = u[j]
  <2>1. 1 \in Int /\ Len(s) \in Int /\ \A i \in 1..Len(s) : u[i] \in Key
    BY <1>0
  <2> QED BY <1>0, <2>1, SubSeqProperties
<1> HIDE DEF b
<1>2. Begins(s, u) => s = b
  BY <1>1, SeqEqual DEF Begins
<1>3. s = b => Begins(s, u)
  BY <1>1 DEF Begins
<1> QED BY <1>2, <1>3 DEF b

\* When the same key is moved to the front of both, the beginning stays one.
LEMMA BeginsMoved ==
  ASSUME NEW s \in Seq(Key), NEW u \in Seq(Key), NEW k, Begins(s, u),
         NEW p, NEW r, Moved(s, k, p, r), NEW q, NEW v, Moved(u, k, q, v)
  PROVE  Begins(r, v)
<1>0. Len(s) \in Nat /\ Len(u) \in Nat /\ Len(r) \in Nat /\ Len(v) \in Nat /\ Len(s) <= Len(u)
      /\ \A j \in 1..Len(s) : s[j] = u[j]
  BY DEF Moved, Begins
<1>1. p \in 1..(Len(s) + 1) /\ q \in 1..(Len(u) + 1)
  BY DEF Moved
<1>2. p <= Len(s) => q = p
  <2> SUFFICES ASSUME p <= Len(s) PROVE q = p
    OBVIOUS
  <2>1. u[p] = k /\ p \in 1..Len(u)
    BY <1>0, <1>1 DEF Moved
  <2>2. ~(p < q)
    BY <2>1 DEF Moved
  <2>3. ~(q < p)
    <3> SUFFICES ASSUME q < p PROVE FALSE
      OBVIOUS
    <3>1. q \in 1..Len(s) /\ s[q] = u[q] /\ u[q] = k
      BY <1>0, <1>1 DEF Moved
    <3> QED BY <3>1 DEF Moved
  <2> QED BY <1>1, <2>2, <2>3
<1>3. p = Len(s) + 1 => q >= p
  <2> SUFFICES ASSUME p = Len(s) + 1, q < p PROVE FALSE
    BY <1>0, <1>1
  <2>1. q \in 1..Len(s) /\ s[q] = u[q] /\ u[q] = k
    BY <1>0, <1>1 DEF Moved
  <2> QED BY <2>1 DEF Moved
<1>4. Len(r) <= Len(v)
  BY <1>0, <1>1, <1>2, <1>3 DEF Moved
<1>5. ASSUME NEW j \in 1..Len(r) PROVE r[j] = v[j]
  <2>1. r[j] = IF j = 1 THEN k ELSE IF j <= p THEN s[j - 1] ELSE s[j]
    BY DEF Moved
  <2>2. v[j] = IF j = 1 THEN k ELSE IF j <= q THEN u[j - 1] ELSE u[j]
    BY <1>0, <1>4 DEF Moved
  <2>3. Len(r) = IF p <= Len(s) THEN Len(s) ELSE Len(s) + 1
    BY DEF Moved
  <2>4. CASE p <= Len(s)
    <3>1. j # 1 => j - 1 \in 1..Len(s)
      BY <1>0, <2>3, <2>4
    <3>2. j \in 1..Len(s)
      BY <2>3, <2>4
    <3> QED BY <1>0, <1>2, <2>1, <2>2, <2>4, <3>1, <3>2
  <2>5. CASE p = Len(s) + 1
    <3>1. j # 1 => j - 1 \in 1..Len(s) /\ j <= p /\ j <= q
      BY <1>0, <1>1, <1>3, <2>3, <2>5
    <3> QED BY <1>0, <2>1, <2>2, <3>1
  <2> QED BY <1>0, <1>1, <2>4, <2>5
<1> QED BY <1>4, <1>5 DEF Begins

-----------------------------------------------------------------------------
(* The page cache.                                                           *)

\* Keys as the values of themselves.
Id == [k \in Key |-> k]

\* The bytes of the keys in a set.
Held(size, D) == Bytes(size, Id, D)

\* An entry of a cache is in its order once, what is not there has no size, and
\* its bytes are those of its entries.
SoundCache(c) ==
    /\ c \in CacheState
    /\ NoneTwice(c.order)
    /\ \A k \in Key : k \notin Range(c.order) => c.size[k] = 0
    /\ c.bytes = Held(c.size, Range(c.order))

\* The elements of a sequence of keys are finitely many keys.
LEMMA KeysOf ==
  ASSUME NEW s \in Seq(Key)
  PROVE  /\ IsFiniteSet(Range(s)) /\ Range(s) \subseteq Key
         /\ Range(s) = {s[x] : x \in 1..Len(s)} /\ IsFiniteSet(1..Len(s)) /\ DOMAIN s = 1..Len(s)
<1>1. IsFiniteSet(1..Len(s)) /\ DOMAIN s = 1..Len(s)
  BY FS_Interval
<1>2. Range(s) = {s[x] : x \in 1..Len(s)}
  BY <1>1 DEF Range
<1>3. IsFiniteSet(Range(s))
  BY <1>1, <1>2, ValuesFinite DEF Values
<1> QED BY <1>1, <1>2, <1>3

\* Sizes that are sizes of values can be added.
LEMMA KeysSized ==
  ASSUME NEW size \in [Key -> Nat], NEW D \in SUBSET Key
  PROVE  Sized(size, Id, D)
BY DEF Sized, Id

\* What the fold over a sequence adds up is what its keys hold.
LEMMA FoldIsHeld ==
  ASSUME NEW s \in Seq(Key), NoneTwice(s), NEW size \in [Key -> Nat]
  PROVE  SizeOf(size, s) = Held(size, Range(s))
<1>1. SizeOf(size, s) = Bytes(size, s, DOMAIN s)
  BY DEF SizeOf, FoldSeq, FoldFunction, Bytes
<1>2. Sized(size, s, 1..Len(s))
  BY DEF Sized
<1>3. OneToOne(s, 1..Len(s), Id)
  BY DEF NoneTwice, OneToOne, Id
<1>4. IsFiniteSet(1..Len(s)) /\ Range(s) = Values(s, 1..Len(s)) /\ DOMAIN s = 1..Len(s)
  BY KeysOf DEF Values
<1>5. Bytes(size, s, 1..Len(s)) = Bytes(size, Id, Values(s, 1..Len(s)))
  BY <1>2, <1>3, <1>4, SumByValue
<1> QED BY <1>1, <1>4, <1>5 DEF Held

\* What is held by two sets of keys that have nothing in common, by a set and one
\* more key, and by sets that give their keys the same sizes.
LEMMA HeldFacts ==
  ASSUME NEW size \in [Key -> Nat], NEW D \in SUBSET Key, IsFiniteSet(D)
  PROVE  /\ Held(size, {}) = 0 /\ Held(size, D) \in Nat
         /\ \A k \in D : Held(size, D) = size[k] + Held(size, D \ {k})
<1>1. Summed(size, Id, D)
  BY KeysSized, SumFacts
<1>2. \A k \in D : Id[k] = k
  BY DEF Id
<1> QED BY <1>1, <1>2 DEF Summed, Held

\* Two sets with nothing in common hold what each of them holds.
LEMMA HeldApart ==
  ASSUME NEW size \in [Key -> Nat], NEW D \in SUBSET Key, IsFiniteSet(D),
         NEW E \in SUBSET Key, IsFiniteSet(E), D \cap E = {}
  PROVE  Held(size, D \cup E) = Held(size, D) + Held(size, E)
<1>1. Sized(size, Id, D \cup E)
  BY KeysSized
<1> QED BY <1>1, SumUnion DEF Held

\* A set whose keys keep their sizes holds what it held.
LEMMA HeldSame ==
  ASSUME NEW size \in [Key -> Nat], NEW other \in [Key -> Nat], NEW D \in SUBSET Key,
         IsFiniteSet(D), \A k \in D : other[k] = size[k]
  PROVE  Held(other, D) = Held(size, D)
<1>1. Sized(size, Id, D)
  BY KeysSized
<1>2. \A k \in D : other[Id[k]] = size[Id[k]]
  BY DEF Id
<1> QED BY <1>1, <1>2, SumSame DEF Held

\* What eviction leaves of the order, and what it takes away.
Kept(c, n) == SubSeq(c.order, 1, Len(c.order) - n)
Gone(c, n) == SubSeq(c.order, Len(c.order) - n + 1, Len(c.order))

\* What is kept begins the order, and nothing is both kept and gone.
LEMMA KeptAndGone ==
  ASSUME NEW c, c.order \in Seq(Key), NoneTwice(c.order), NEW n \in 0..Len(c.order)
  PROVE  /\ Kept(c, n) \in Seq(Key) /\ Gone(c, n) \in Seq(Key)
         /\ NoneTwice(Kept(c, n)) /\ NoneTwice(Gone(c, n))
         /\ Begins(Kept(c, n), c.order) /\ Len(Kept(c, n)) = Len(c.order) - n
         /\ Range(c.order) = Range(Kept(c, n)) \cup Range(Gone(c, n))
         /\ Range(Kept(c, n)) \cap Range(Gone(c, n)) = {}
<1> DEFINE s == c.order
           l == Len(s)
           a == Kept(c, n)
           b == Gone(c, n)
<1>0. l \in Nat /\ n \in Nat /\ n <= l /\ s \in Seq(Key) /\ \A i \in 1..l : s[i] \in Key
  OBVIOUS
<1>1. a \in Seq(Key) /\ Len(a) = l - n /\ \A j \in 1..(l - n) : a[j] = s[j]
  <2>1. 1 \in Int /\ l - n \in Int /\ \A i \in 1..(l - n) : s[i] \in Key
    BY <1>0
  <2> QED BY <1>0, <2>1, SubSeqProperties DEF Kept
<1>2. b \in Seq(Key) /\ Len(b) = n /\ \A j \in 1..n : b[j] = s[l - n + j]
  <2>1. l - n + 1 \in Int /\ l \in Int /\ \A i \in (l - n + 1)..l : s[i] \in Key
    BY <1>0
  <2>2. /\ b \in Seq(Key) /\ Len(b) = IF l - n + 1 <= l THEN l - (l - n + 1) + 1 ELSE 0
        /\ \A i \in 1 .. l - (l - n + 1) + 1 : b[i] = s[(l - n + 1) + i - 1]
    <3> HIDE DEF l
    <3> QED BY <2>1, SubSeqProperties DEF Gone, l
  <2> HIDE DEF l, b
  <2> QED BY <1>0, <2>2
<1>3. \A i, j \in 1..l : s[i] = s[j] => i = j
  BY DEF NoneTwice
<1>4. DOMAIN s = 1..l /\ DOMAIN a = 1..(l - n) /\ DOMAIN b = 1..n
  BY <1>1, <1>2
<1> HIDE DEF a, b, l, s
<1>5. NoneTwice(a) /\ NoneTwice(b)
  <2>1. NoneTwice(a)
    BY <1>0, <1>1, <1>3 DEF NoneTwice
  <2>2. ASSUME NEW i \in 1..n, NEW j \in 1..n, b[i] = b[j] PROVE i = j
    <3>1. l - n + i \in 1..l /\ l - n + j \in 1..l /\ s[l - n + i] = s[l - n + j]
      BY <1>0, <1>2, <2>2
    <3>2. l - n + i = l - n + j
      BY <1>3, <3>1
    <3> QED BY <1>0, <3>2
  <2> QED BY <1>2, <2>1, <2>2 DEF NoneTwice
<1>6. ASSUME NEW x \in Range(s) PROVE x \in Range(a) \cup Range(b)
  <2>1. PICK i \in 1..l : x = s[i]
    BY <1>4 DEF Range
  <2>2. CASE i <= l - n
    BY <1>0, <1>1, <1>4, <2>1, <2>2 DEF Range
  <2>3. CASE ~(i <= l - n)
    <3>1. i - (l - n) \in 1..n /\ l - n + (i - (l - n)) = i
      BY <1>0, <2>3
    <3>2. b[i - (l - n)] = x
      BY <1>2, <2>1, <3>1
    <3> QED BY <1>4, <3>1, <3>2 DEF Range
  <2> QED BY <2>2, <2>3
<1>7. ASSUME NEW x \in Range(a) PROVE x \in Range(s) /\ x \notin Range(b)
  <2>1. PICK i \in 1..(l - n) : x = a[i]
    BY <1>4 DEF Range
  <2>2. x = s[i] /\ i \in 1..l
    BY <1>0, <1>1, <2>1
  <2>3. ASSUME x \in Range(b) PROVE FALSE
    <3>1. PICK j \in 1..n : x = b[j]
      BY <1>4, <2>3 DEF Range
    <3>2. x = s[l - n + j] /\ l - n + j \in 1..l /\ l - n + j # i
      BY <1>0, <1>2, <2>1, <3>1
    <3> QED BY <1>3, <2>2, <3>2
  <2> QED BY <1>4, <2>2, <2>3 DEF Range
<1>8. ASSUME NEW x \in Range(b) PROVE x \in Range(s)
  <2>1. PICK j \in 1..n : x = b[j]
    BY <1>4, <1>8 DEF Range
  <2>2. x = s[l - n + j] /\ l - n + j \in 1..l
    BY <1>0, <1>2, <2>1
  <2> QED BY <1>4, <2>2 DEF Range
<1>9. Range(s) = Range(a) \cup Range(b) /\ Range(a) \cap Range(b) = {}
  BY <1>6, <1>7, <1>8
<1>10. Begins(a, s) /\ Len(a) = l - n
  BY <1>0, <1>1 DEF Begins, l
<1> QED BY <1>1, <1>2, <1>5, <1>9, <1>10 DEF a, b, s, l

\* The parts of a cache, and a cache with other parts.
LEMMA Parts ==
  ASSUME NEW c \in CacheState
  PROVE  /\ c.order \in Seq(Key) /\ c.size \in [Key -> Size \cup {0}]
         /\ c.size \in [Key -> Nat] /\ c.bytes \in Int
<1>1. c.order \in Seq(Key) /\ c.size \in [Key -> Size \cup {0}] /\ c.bytes \in Int
  BY DEF CacheState
<1> DEFINE f == c.size
<1>2. f \in [Key -> Nat]
  <2>1. f \in [Key -> Size \cup {0}]
    BY <1>1
  <2> HIDE DEF f
  <2>2. \A x \in Size \cup {0} : x \in Nat
    BY CacheAssumption
  <2>3. f = [k \in Key |-> f[k]] /\ \A k \in Key : f[k] \in Nat
    BY <2>1, <2>2
  <2> QED BY <2>3
<1> QED BY <1>1, <1>2

\* The parts of a cache whose parts were set.
LEMMA Changed ==
  ASSUME NEW A, NEW B, NEW C, NEW c \in [order : A, size : B, bytes : C],
         NEW a \in A, NEW b \in B, NEW n, c.bytes - n \in C,
         NEW d, d = [c EXCEPT !.order = a, !.size = b, !.bytes = @ - n]
  PROVE  /\ d \in [order : A, size : B, bytes : C]
         /\ d.order = a /\ d.size = b /\ d.bytes = c.bytes - n
OBVIOUS

\* Eviction leaves a sound cache.
LEMMA EvictIsSound ==
  ASSUME NEW c, SoundCache(c), NEW n \in 0..Len(c.order)
  PROVE  SoundCache(Evict(c, n)) /\ Evict(c, n).order = Kept(c, n)
<1> DEFINE a == Kept(c, n)
           b == Gone(c, n)
           d == Evict(c, n)
           A == Range(a)
           B == Range(b)
<1>11. c \in CacheState /\ NoneTwice(c.order) /\ c.bytes = Held(c.size, Range(c.order))
      /\ \A k \in Key : k \notin Range(c.order) => c.size[k] = 0
  BY DEF SoundCache
<1>0. /\ c.order \in Seq(Key) /\ c.size \in [Key -> Size \cup {0}]
      /\ c.size \in [Key -> Nat] /\ c.bytes \in Int
  BY <1>11, Parts
<1>1. /\ a \in Seq(Key) /\ b \in Seq(Key) /\ NoneTwice(a) /\ NoneTwice(b)
      /\ Range(c.order) = A \cup B /\ A \cap B = {} /\ Begins(a, c.order)
  BY <1>11, <1>0, KeptAndGone
<1>2. IsFiniteSet(A) /\ IsFiniteSet(B) /\ A \subseteq Key /\ B \subseteq Key
  BY <1>1, KeysOf
<1> DEFINE size == [k \in Key |-> IF k \in B THEN 0 ELSE c.size[k]]
<1>3. d = [c EXCEPT !.order = a, !.size = size, !.bytes = @ - Held(c.size, B)]
  <2>1. SizeOf(c.size, b) = Held(c.size, B)
    BY <1>0, <1>1, FoldIsHeld
  <2> QED BY <2>1 DEF Evict, Kept, Gone
<1>4. size \in [Key -> Size \cup {0}] /\ size \in [Key -> Nat]
  BY <1>0
<1>5. Held(c.size, A) \in Nat /\ Held(c.size, B) \in Nat
  BY <1>0, <1>2, HeldFacts
<1> HIDE DEF a, b, d, A, B
<1>6. Held(c.size, A \cup B) = Held(c.size, A) + Held(c.size, B)
  BY <1>0, <1>1, <1>2, HeldApart
<1>7. Held(size, A) = Held(c.size, A)
  <2>1. \A k \in A : size[k] = c.size[k]
    BY <1>1, <1>2
  <2> HIDE DEF size
  <2> QED BY <1>0, <1>2, <1>4, <2>1, HeldSame
<1>8. \A k \in Key : k \notin A => size[k] = 0
  BY <1>11, <1>0, <1>1
<1> HIDE DEF size
<1>9. /\ d.order = a /\ d.size = size /\ d.bytes = c.bytes - Held(c.size, B)
      /\ d \in CacheState
  <2>1. Held(c.size, B) \in Int
    BY <1>5
  <2>2. c.bytes - Held(c.size, B) \in Int
    BY <1>0, <2>1
  <2> QED BY <1>11, <1>1, <1>3, <1>4, <2>2, Changed DEF CacheState
<1>10. d.bytes = Held(size, A)
  <2>1. c.bytes = Held(c.size, A) + Held(c.size, B)
    BY <1>11, <1>1, <1>6
  <2>2. d.bytes = c.bytes - Held(c.size, B)
    BY <1>9
  <2>3. d.bytes = Held(c.size, A)
    BY <1>5, <2>1, <2>2
  <2> QED BY <1>7, <2>3
<1> QED BY <1>1, <1>8, <1>9, <1>10 DEF SoundCache, a, d, A

\* enforceLimits leaves a sound cache that keeps its limits, of the keys that were
\* used last.
LEMMA EnforceLimitsIsSound ==
  ASSUME NEW c, SoundCache(c)
  PROVE  /\ SoundCache(EnforceLimits(c)) /\ Fits(EnforceLimits(c))
         /\ Begins(EnforceLimits(c).order, c.order)
<1> DEFINE l == Len(c.order)
           enough == {n \in 0..l : Fits(Evict(c, n)) \/ n = l}
           n == CHOOSE i \in enough : \A m \in enough : i <= m
<1>0. l \in Nat /\ c.order \in Seq(Key) /\ NoneTwice(c.order)
  <2>1. c.order \in Seq(Key) /\ NoneTwice(c.order)
    BY Parts DEF SoundCache
  <2> QED BY <2>1
<1>1. n \in enough
  <2>1. l \in enough /\ enough \in SUBSET Nat
    BY <1>0
  <2>2. \E i \in enough : \A m \in enough : i <= m
    <3> HIDE DEF enough
    <3> QED BY <2>1, Smallest
  <2> HIDE DEF enough
  <2> QED BY <2>2
<1>2. n \in 0..l /\ (Fits(Evict(c, n)) \/ n = l) /\ EnforceLimits(c) = Evict(c, n)
  BY <1>1 DEF EnforceLimits
<1> HIDE DEF n, enough
<1>3. SoundCache(Evict(c, n)) /\ Evict(c, n).order = Kept(c, n)
  BY <1>2, EvictIsSound
<1>4. Begins(Kept(c, n), c.order) /\ Len(Kept(c, n)) = l - n /\ Kept(c, n) \in Seq(Key)
  BY <1>0, <1>2, KeptAndGone
<1>5. CASE n = l
  <2>1. Kept(c, n) = <<>>
    BY <1>0, <1>4, <1>5
  <2>2. Range(Kept(c, n)) = {}
    BY <2>1 DEF Range
  <2>3. Evict(c, n).size \in [Key -> Nat] /\ Evict(c, n).bytes = Held(Evict(c, n).size, {})
    BY <1>3, <2>2, Parts DEF SoundCache
  <2>4. Evict(c, n).bytes = 0
    BY <2>3, HeldFacts, FS_EmptySet
  <2>5. Fits(Evict(c, n))
    BY <1>3, <2>1, <2>4, CacheAssumption DEF Fits
  <2> QED BY <1>2, <1>3, <1>4, <2>5
<1> QED BY <1>2, <1>3, <1>4, <1>5

\* A cache that is sound, keeps its limits, and has the keys used last.
Keeps(c, u) ==
    /\ SoundCache(c) /\ Fits(c)
    /\ u \in Seq(Key) /\ NoneTwice(u) /\ Begins(c.order, u)

\* That is what the invariant says of the cache.
LEMMA KeepsIs ==
  ASSUME NEW c \in CacheState, NEW u \in Seq(Key)
  PROVE  Keeps(c, u) <=>
           /\ NoneTwice(c.order) /\ NoneTwice(u)
           /\ \A k \in Key : ~Has(c, k) => c.size[k] = 0
           /\ Len(c.order) <= Len(u)
           /\ Fits(c)
           /\ c.bytes = SizeOf(c.size, c.order)
           /\ c.order = SubSeq(u, 1, Len(c.order))
<1>0. c.order \in Seq(Key) /\ c.size \in [Key -> Nat]
  BY Parts
<1>1. NoneTwice(c.order) =>
        SizeOf(c.size, c.order) = Held(c.size, Range(c.order))
  BY <1>0, FoldIsHeld
<1>2. Len(c.order) <= Len(u) => (Begins(c.order, u) <=> c.order = SubSeq(u, 1, Len(c.order)))
  BY <1>0, BeginsIs
<1>3. Begins(c.order, u) => Len(c.order) <= Len(u)
  BY DEF Begins
<1> QED BY <1>1, <1>2, <1>3 DEF Keeps, SoundCache, Has

\* A hit moves its key to the front, of a cache that keeps its limits.
LEMMA HitKeeps ==
  ASSUME NEW c, NEW u, Keeps(c, u), NEW k \in Key, Has(c, k)
  PROVE  Keeps(CacheHit(c, k), MoveToFront(u, k))
<1> DEFINE r == MoveToFront(c.order, k)
           v == MoveToFront(u, k)
           d == CacheHit(c, k)
<1>1. c \in CacheState /\ SoundCache(c) /\ u \in Seq(Key) /\ NoneTwice(u) /\ Begins(c.order, u) /\ Fits(c)
      /\ NoneTwice(c.order)
  BY DEF Keeps, SoundCache
<1>2. c.order \in Seq(Key) /\ c.size \in [Key -> Size \cup {0}] /\ c.bytes \in Int /\ DOMAIN c.order = 1..Len(c.order)
  BY <1>1, Parts
<1>3. PICK p : Moved(c.order, k, p, r)
  BY <1>2, MoveToFrontIs
<1>4. PICK q : Moved(u, k, q, v)
  BY <1>1, MoveToFrontIs
<1> HIDE DEF r, v
<1>5. NoneTwice(r) /\ NoneTwice(v) /\ Range(r) = Range(c.order) \cup {k}
      /\ Begins(r, v) /\ r \in Seq(Key) /\ v \in Seq(Key)
  <2>1. NoneTwice(r) /\ Range(r) = Range(c.order) \cup {k}
    BY <1>1, <1>2, <1>3, MovedOnce
  <2>2. NoneTwice(v)
    BY <1>1, <1>4, MovedOnce
  <2>3. Begins(r, v)
    BY <1>1, <1>2, <1>3, <1>4, BeginsMoved
  <2> QED BY <2>1, <2>2, <2>3, <1>3, <1>4 DEF Moved
<1>6. Range(r) = Range(c.order) /\ Len(r) = Len(c.order)
  <2>1. Range(r) = Range(c.order)
    BY <1>5 DEF Has
  <2>2. PICK i \in 1..Len(c.order) : c.order[i] = k
    BY <1>2 DEF Has, Range
  <2>3. p <= Len(c.order)
    BY <1>3, <2>2 DEF Moved
  <2> QED BY <1>3, <2>1, <2>3 DEF Moved
<1>7. d = [c EXCEPT !.order = r]
  BY DEF CacheHit, r
<1> HIDE DEF d
<1>8. d \in CacheState /\ d.order = r /\ d.size = c.size /\ d.bytes = c.bytes
  <2>1. \A A, B, C : c \in [order : A, size : B, bytes : C] /\ r \in A =>
          d \in [order : A, size : B, bytes : C] /\ d.order = r /\ d.size = c.size /\ d.bytes = c.bytes
    BY <1>7
  <2>2. c \in [order : Seq(Key), size : [Key -> Size \cup {0}], bytes : Int] /\ r \in Seq(Key)
    BY <1>1, <1>5 DEF CacheState
  <2>3. /\ d \in [order : Seq(Key), size : [Key -> Size \cup {0}], bytes : Int]
        /\ d.order = r /\ d.size = c.size /\ d.bytes = c.bytes
    BY <2>1, <2>2
  <2> QED BY <2>3 DEF CacheState
<1>9. SoundCache(d)
  BY <1>1, <1>5, <1>6, <1>8 DEF SoundCache
<1>10. Fits(d)
  BY <1>1, <1>6, <1>8 DEF Fits
<1> QED BY <1>5, <1>8, <1>9, <1>10 DEF Keeps, d, v

\* A value that is set is at the front, and what is evicted was used before all
\* that stays.
LEMMA SetKeeps ==
  ASSUME NEW c, NEW u, Keeps(c, u), NEW k \in Key, NEW s \in Size
  PROVE  Keeps(CacheSet(c, k, s), MoveToFront(u, k))
<1> DEFINE r == MoveToFront(c.order, k)
           v == MoveToFront(u, k)
           size == [c.size EXCEPT ![k] = s]
           d == [order |-> r, size |-> size, bytes |-> c.bytes - c.size[k] + s]
           e == CacheSet(c, k, s)
<1>1. c \in CacheState /\ SoundCache(c) /\ u \in Seq(Key) /\ NoneTwice(u) /\ Begins(c.order, u)
      /\ NoneTwice(c.order) /\ c.bytes = Held(c.size, Range(c.order))
      /\ \A x \in Key : x \notin Range(c.order) => c.size[x] = 0
  BY DEF Keeps, SoundCache
<1>2. c.order \in Seq(Key) /\ c.size \in [Key -> Size \cup {0}] /\ c.size \in [Key -> Nat] /\ c.bytes \in Int
  BY <1>1, Parts
<1>3. PICK p : Moved(c.order, k, p, r)
  BY <1>2, MoveToFrontIs
<1>4. PICK q : Moved(u, k, q, v)
  BY <1>1, MoveToFrontIs
<1>12. e = EnforceLimits(d)
  BY DEF CacheSet
<1>13. d.order = r /\ d.size = size /\ d.bytes = c.bytes - c.size[k] + s
  OBVIOUS
<1>14. s \in Nat /\ c.size[k] \in Nat
  BY <1>2, CacheAssumption
<1>15. \A A, B, C : r \in A /\ size \in B /\ c.bytes - c.size[k] + s \in C =>
         d \in [order : A, size : B, bytes : C]
  OBVIOUS
<1> HIDE DEF r, v, d, e
<1>5. NoneTwice(r) /\ NoneTwice(v) /\ Range(r) = Range(c.order) \cup {k}
      /\ Begins(r, v) /\ r \in Seq(Key) /\ v \in Seq(Key)
  <2>1. NoneTwice(r) /\ Range(r) = Range(c.order) \cup {k}
    BY <1>1, <1>2, <1>3, MovedOnce
  <2>2. NoneTwice(v)
    BY <1>1, <1>4, MovedOnce
  <2>3. Begins(r, v)
    BY <1>1, <1>2, <1>3, <1>4, BeginsMoved
  <2> QED BY <2>1, <2>2, <2>3, <1>3, <1>4 DEF Moved
<1>6. size \in [Key -> Size \cup {0}] /\ size \in [Key -> Nat] /\ size[k] = s
      /\ \A x \in Key : x # k => size[x] = c.size[x]
  <2> DEFINE f == c.size
  <2>1. f \in [Key -> Size \cup {0}] /\ f \in [Key -> Nat]
    BY <1>2
  <2> HIDE DEF f
  <2>2. [f EXCEPT ![k] = s] \in [Key -> Size \cup {0}] /\ [f EXCEPT ![k] = s] \in [Key -> Nat]
        /\ [f EXCEPT ![k] = s][k] = s /\ \A x \in Key : x # k => [f EXCEPT ![k] = s][x] = f[x]
    BY <1>14, <2>1
  <2> QED BY <2>2 DEF f
<1> HIDE DEF size
<1>7. d \in CacheState
  <2>1. c.bytes - c.size[k] + s \in Int
    BY <1>2, <1>14
  <2> QED BY <1>5, <1>6, <1>15, <2>1 DEF CacheState
<1> DEFINE K == Range(c.order)
           T == K \ {k}
<1>8. Held(c.size, K) = c.size[k] + Held(c.size, T)
  <2>0. IsFiniteSet(K) /\ K \subseteq Key
    BY <1>2, KeysOf
  <2>1. CASE k \in K
    <3> HIDE DEF K
    <3> QED BY <1>2, <2>0, <2>1, HeldFacts
  <2>2. CASE k \notin K
    <3>1. T = K /\ c.size[k] = 0 /\ Held(c.size, K) \in Nat
      BY <1>1, <1>2, <2>0, <2>2, HeldFacts
    <3> HIDE DEF K, T
    <3> QED BY <3>1
  <2> QED BY <2>1, <2>2
<1>9. Held(size, Range(r)) = s + Held(c.size, T) /\ Held(c.size, T) \in Nat
  <2>0. IsFiniteSet(T) /\ IsFiniteSet(Range(r)) /\ T \subseteq Key /\ Range(r) \subseteq Key
        /\ Range(r) \ {k} = T /\ k \in Range(r) /\ \A x \in T : size[x] = c.size[x]
    <3>1. IsFiniteSet(K) /\ K \subseteq Key /\ IsFiniteSet(Range(r)) /\ Range(r) \subseteq Key
      BY <1>2, <1>5, KeysOf
    <3>2. IsFiniteSet(T)
      BY <3>1, FS_Subset
    <3> QED BY <1>5, <1>6, <3>1, <3>2
  <2> HIDE DEF T
  <2>1. Held(size, Range(r)) = size[k] + Held(size, T)
    BY <1>6, <2>0, HeldFacts
  <2>2. Held(size, T) = Held(c.size, T)
    BY <1>2, <1>6, <2>0, HeldSame
  <2>3. Held(c.size, T) \in Nat
    BY <1>2, <2>0, HeldFacts
  <2> QED BY <1>6, <2>1, <2>2, <2>3
<1>10. SoundCache(d)
  <2>1. d.bytes = Held(d.size, Range(d.order))
    <3>1. c.bytes = c.size[k] + Held(c.size, T)
      BY <1>1, <1>8
    <3>2. c.bytes - c.size[k] + s = s + Held(c.size, T)
      <4> HIDE DEF T
      <4> QED BY <1>9, <1>14, <3>1
    <3> QED BY <1>9, <1>13, <3>2
  <2>2. \A x \in Key : x \notin Range(d.order) => d.size[x] = 0
    BY <1>1, <1>5, <1>6, <1>13
  <2> QED BY <1>5, <1>7, <1>13, <2>1, <2>2 DEF SoundCache
<1>11. SoundCache(e) /\ Fits(e) /\ Begins(e.order, r)
  BY <1>10, <1>12, <1>13, EnforceLimitsIsSound
<1>16. Begins(e.order, v)
  <2>1. Len(e.order) \in Nat /\ Len(r) \in Nat /\ Len(v) \in Nat
    BY <1>5, <1>11, Parts DEF SoundCache
  <2> QED BY <1>5, <1>11, <2>1 DEF Begins
<1> QED BY <1>5, <1>11, <1>16 DEF Keeps, e, v

-----------------------------------------------------------------------------
(* Responses.                                                                *)

\* The parts of a response, of a session and of an answer.
LEMMA BufferParts ==
  ASSUME NEW b \in Buffer
  PROVE  /\ b.status \in Status /\ b.body \in SUBSET Page /\ b.cookie \in BOOLEAN
         /\ b.sent \in BOOLEAN /\ b.stream \in BOOLEAN
BY DEF Buffer

\* The parts of a session.
LEMMA SessionParts ==
  ASSUME NEW s \in SessionState
  PROVE  s.changed \in BOOLEAN /\ s.saved \in BOOLEAN /\ s.stored \in BOOLEAN
BY DEF SessionState

\* What is written to a response, if it is not that of a stream.
Wrote(x, b, status, page) ==
    /\ x \in Buffer /\ x.cookie = b.cookie /\ x.stream = b.stream
    /\ b.stream => x = b
    /\ ~b.stream => /\ x.body = b.body \cup page /\ x.sent = TRUE
                    /\ x.status = IF b.sent THEN b.status ELSE status

\* Buffered writes to the response.
LEMMA BufferedIs ==
  ASSUME NEW b \in Buffer, NEW status \in Status, NEW page \in SUBSET Page, NEW x,
         x = Buffered(b, status, page)
  PROVE  Wrote(x, b, status, page)
<1> USE DEF Wrote
<1>1. CASE b.stream
  BY <1>1 DEF Buffered
<1>2. CASE ~b.stream
  <2>1. x = [b EXCEPT !.status = IF b.sent THEN @ ELSE status, !.body = @ \cup page, !.sent = TRUE]
    BY <1>2 DEF Buffered
  <2> DEFINE st == IF b.sent THEN b.status ELSE status
             bd == b.body \cup page
  <2>2. st \in Status /\ bd \in SUBSET Page
    BY BufferParts
  <2>3. x = [b EXCEPT !.status = st, !.body = bd, !.sent = TRUE]
    BY <2>1
  <2> HIDE DEF st, bd
  <2>4. \A A, B : b \in [status : A, body : B, cookie : BOOLEAN, sent : BOOLEAN, stream : BOOLEAN]
                  /\ st \in A /\ bd \in B
        => /\ x \in [status : A, body : B, cookie : BOOLEAN, sent : BOOLEAN, stream : BOOLEAN]
           /\ x.status = st /\ x.body = bd /\ x.sent = TRUE /\ x.cookie = b.cookie
           /\ x.stream = b.stream
    BY <2>3
  <2>5. x \in Buffer /\ x.status = st /\ x.body = bd /\ x.sent = TRUE /\ x.cookie = b.cookie
        /\ x.stream = b.stream
    BY <2>2, <2>4 DEF Buffer
  <2> QED BY <1>2, <2>5 DEF st, bd
<1> QED BY <1>1, <1>2, BufferParts

\* The response of nobody, and a response that is reset.
LEMMA NewBufferIs ==
  /\ NewBuffer \in Buffer /\ NewBuffer.status = "none" /\ NewBuffer.body = {}
  /\ NewBuffer.cookie = FALSE /\ NewBuffer.sent = FALSE /\ NewBuffer.stream = FALSE
BY DEF NewBuffer, Buffer, Status

\* A response that is reset is a new one, unless it is that of a stream.
LEMMA ResetIs ==
  ASSUME NEW b \in Buffer
  PROVE  /\ Reset(b) \in Buffer
         /\ b.stream => Reset(b) = b
         /\ ~b.stream => Reset(b) = NewBuffer
         /\ Reset(b).stream = b.stream
BY NewBufferIs, BufferParts DEF Reset

\* The cookie of a session that is saved.
LEMMA WithCookieIs ==
  ASSUME NEW q, NEW b \in Buffer, Saves(q) \in BOOLEAN, NEW x, x = WithCookie(q, b)
  PROVE  /\ x \in Buffer /\ x.cookie = (b.cookie \/ Saves(q)) /\ x.status = b.status
         /\ x.body = b.body /\ x.sent = b.sent /\ x.stream = b.stream
         /\ ~Saves(q) => x = b
<1> DEFINE c == b.cookie \/ Saves(q)
<1>1. c \in BOOLEAN /\ x = [b EXCEPT !.cookie = c]
  BY BufferParts DEF WithCookie
<1>2. ~Saves(q) => c = b.cookie
  BY BufferParts
<1> HIDE DEF c
<1>3. \A A, B : b \in [status : A, body : B, cookie : BOOLEAN, sent : BOOLEAN, stream : BOOLEAN]
      => /\ x \in [status : A, body : B, cookie : BOOLEAN, sent : BOOLEAN, stream : BOOLEAN]
         /\ x.status = b.status /\ x.body = b.body /\ x.sent = b.sent /\ x.cookie = c
         /\ x.stream = b.stream
         /\ c = b.cookie => x = b
  BY <1>1
<1> QED BY <1>2, <1>3 DEF Buffer, c

-----------------------------------------------------------------------------
(* Good answers.                                                             *)

\* An answer that is good stays good when there are more errors, and when the key
\* that is asked for is known.
LEMMA GoodForMore ==
  ASSUME NEW q, NEW k, NEW l, k = NoKey \/ l = k, NEW s, NEW e, NEW f, e \subseteq f,
         NEW status, NEW body, GoodAnswer(q, k, s, e, status, body)
  PROVE  GoodAnswer(q, l, s, f, status, body)
<1>1. \A page \in body : MayShow(q, k, e, page) => MayShow(q, l, f, page)
  BY DEF MayShow
<1> QED BY <1>1 DEF GoodAnswer, OwnBody, StatusFits

\* A page that shows what it may.
LEMMA GoodPage ==
  ASSUME NEW q \in Request, NEW k, NEW s, NEW e, NEW status, status # "error", NEW body,
         \A page \in body : page[1] = "page" /\ MayShow(q, k, e, page)
  PROVE  GoodAnswer(q, k, s, e, status, body)
BY DEF GoodAnswer, OnePiece, OwnBody, StatusFits

\* No page.
LEMMA GoodNothing ==
  ASSUME NEW q \in Request, NEW k, NEW s, NEW e, NEW status, status # "error", NEW body,
         body = {}
  PROVE  GoodAnswer(q, k, s, e, status, body)
BY DEF GoodAnswer, OnePiece, OwnBody, StatusFits

\* The frames of its stream.
LEMMA GoodStream ==
  ASSUME NEW q \in Request, NEW k, NEW s, NEW e
  PROVE  GoodAnswer(q, k, s, e, "ok", {<<"stream", q, NoKey>>})
BY DEF GoodAnswer, OnePiece, OwnBody, StatusFits, MayShow

\* The page of an error.
LEMMA GoodError ==
  ASSUME NEW q \in Request, NEW k, NEW s, NEW e, NEW owners \in SUBSET Owner,
         "late" \in e \/ (q \in owners /\ owners \subseteq {q, Stray}), NEW status,
         status = "error" \/ (s /\ e # {})
  PROVE  GoodAnswer(q, k, s, e, status, ErrorPage(owners))
<1> DEFINE body == ErrorPage(owners)
<1>1. \A page \in body : page[1] = "error" /\ page[2] \in owners
  BY DEF ErrorPage
<1>2. q \in owners => <<"error", q, NoKey>> \in body
  BY DEF ErrorPage
<1> HIDE DEF body
<1>3. OnePiece(q, body)
  BY <1>1 DEF OnePiece
<1>4. \A page \in body : MayShow(q, k, e, page)
  BY <1>1 DEF MayShow
<1>5. OwnBody(q, k, e, status, body)
  BY <1>2, <1>4 DEF OwnBody
<1> QED BY <1>3, <1>5 DEF GoodAnswer, StatusFits, body

\* The page of an error is a page.
LEMMA ErrorPages ==
  ASSUME NEW owners \in SUBSET Owner
  PROVE  ErrorPage(owners) \in SUBSET Page
BY DEF ErrorPage, Page

\* What a request renders is its own page, which was rendered for the key it asked
\* for.
LEMMA RenderedIs ==
  ASSUME IndInv, NEW q \in Request, at[q] \in Writing
  PROVE  /\ Rendered(q) \in SUBSET Page
         /\ \A page \in Rendered(q) :
               /\ page[1] = "page" /\ page[2] \in {q, Stray}
               /\ page[2] = Stray \/ page[3] = asked[q]
<1>1. /\ held[q] # NoController
      /\ held[q] # NoController => data[held[q]] \subseteq {q, Stray}
  BY DEF IndInv, OwnController, Writing, Serving
<1>2. asked[q] \in Key \cup {NoKey}
  BY DEF IndInv, TypeOK
<1>3. ASSUME NEW o \in data[held[q]], NEW page,
             page = <<"page", o, IF o = Stray THEN NoKey ELSE asked[o]>>
      PROVE  /\ page \in Page /\ page[1] = "page" /\ page[2] \in {q, Stray}
             /\ page[2] = Stray \/ page[3] = asked[q]
  <2>1. o = q \/ o = Stray
    BY <1>1
  <2> QED BY <1>2, <1>3, <2>1, DynamicRequestAssumption DEF Page, Owner
<1> QED BY <1>3 DEF Rendered

\* What is cached under a key may be shown to who asks for it.
LEMMA KeptIs ==
  ASSUME IndInv, NEW k \in Key, NEW q, NEW e
  PROVE  /\ kept[k] \in SUBSET Page
         /\ \A page \in kept[k] : page[1] = "page" /\ MayShow(q, k, e, page)
<1>1. k # NoKey
  BY DynamicRequestAssumption
<1>2. \A page \in kept[k] : page[1] = "page" /\ (page[2] = Stray \/ page[3] = k)
  BY DEF IndInv, KeptFits
<1> QED BY <1>1, <1>2 DEF IndInv, TypeOK, MayShow

-----------------------------------------------------------------------------
(* What a step of q leaves alone.                                            *)

\* The other requests stay as they are.
Elsewhere(q) ==
    /\ sessions' = sessions
    /\ \A r \in Request : r # q =>
          /\ at'[r] = at[r] /\ asked'[r] = asked[r]
          /\ buffer'[r] = buffer[r] /\ begun'[r] = begun[r]
          /\ session'[r] = session[r] /\ client'[r] = client[r] /\ trouble'[r] = trouble[r]
          /\ held'[r] = held[r] /\ reported'[r] = reported[r]
          /\ stream'[r] = stream[r] /\ beat'[r] = beat[r] /\ late'[r] = late[r]

\* A controller is taken from the pool, or goes back to it; those of other requests
\* keep their key, and may only be given the data of an error.
ControllersMove(q) ==
    /\ pool' \subseteq pool \cup {held[q]}
    /\ held'[q] \in {held[q], NoController} \cup pool
    /\ \A c \in Controller : c \notin pool /\ c # held[q] =>
          /\ key'[c] = key[c]
          /\ data'[c] = data[c] \/ data'[c] = data[c] \cup {Stray}

\* The keys stay, or the controller of q is given the one that is asked for.
KeyMoves(q) ==
    \/ UNCHANGED asking
    \/ /\ asked[q] = NoKey /\ held[q] \in Controller
       /\ \E k \in Key : /\ key' = [key EXCEPT ![held[q]] = k]
                          /\ asked' = [asked EXCEPT ![q] = k]

\* The parts of the invariant that are about q.
Good(q) == OwnController(q) /\ GoodBuffer(q) /\ StoredIsOnItsWay(q) /\ OneFrame(q)

\* What the type invariant says of one request.
LEMMA Types ==
  ASSUME TypeOK, NEW q \in Request
  PROVE  /\ sessions \in BOOLEAN /\ at[q] \in Place /\ buffer[q] \in Buffer
         /\ begun[q] \in BOOLEAN /\ session[q] \in SessionState
         /\ client[q] \in Answer /\ trouble[q] \in SUBSET {"begun", "late"}
         /\ held[q] \in Controller \cup {NoController}
         /\ reported[q] \in Controller \cup {NoController}
         /\ asked[q] \in Key \cup {NoKey}
         /\ stream[q] \in BOOLEAN /\ beat[q] \in {"off", "waiting", "writing"} /\ late[q] \in Nat
         /\ Saves(q) \in BOOLEAN
<1>1. session[q] \in SessionState /\ sessions \in BOOLEAN
  BY DEF TypeOK
<1>2. Saves(q) \in BOOLEAN
  BY <1>1, SessionParts DEF Saves, SaverDone
<1> QED BY <1>1, <1>2 DEF TypeOK

\* What is good of another request stays good.
LEMMA OthersKeep ==
  ASSUME IndInv, NEW q \in Request, Elsewhere(q), ControllersMove(q), NEW r \in Request, r # q
  PROVE  Good(r)'
<1>1. /\ OwnController(r) /\ GoodBuffer(r) /\ StoredIsOnItsWay(r) /\ OneFrame(r)
      /\ OwnController(q)
  BY DEF IndInv
<1>2. /\ at'[r] = at[r] /\ buffer'[r] = buffer[r] /\ begun'[r] = begun[r]
      /\ session'[r] = session[r] /\ client'[r] = client[r] /\ trouble'[r] = trouble[r]
      /\ held'[r] = held[r] /\ reported'[r] = reported[r]
      /\ stream'[r] = stream[r] /\ beat'[r] = beat[r] /\ late'[r] = late[r]
      /\ sessions' = sessions /\ asked'[r] = asked[r]
  BY DEF Elsewhere
<1>3. GoodBuffer(r)'
  BY <1>1, <1>2 DEF GoodBuffer
<1>4. StoredIsOnItsWay(r)'
  BY <1>1, <1>2 DEF StoredIsOnItsWay
<1>5. OneFrame(r)'
  BY <1>1, <1>2 DEF OneFrame
<1>6. OwnController(r)'
  <2>1. (at[r] \in Serving => held[r] # NoController) /\ (at[r] # "idle" => reported[r] # NoController)
    BY <1>1 DEF OwnController
  <2>2. CASE held[r] = NoController
    BY <1>2, <2>1, <2>2 DEF OwnController
  <2>3. CASE held[r] # NoController
    <3>1. /\ held[r] \notin pool /\ r \in data[held[r]] /\ data[held[r]] \subseteq {r, Stray}
          /\ key[held[r]] = asked[r]
          /\ \A x \in Request : held[x] = held[r] => x = r
          /\ held[r] \in Controller
      BY <1>1, <2>3, Types DEF OwnController, IndInv
    <3>2. held[r] # held[q]
      BY <3>1
    <3>3. held[r] \notin pool'
      BY <3>1, <3>2 DEF ControllersMove
    <3>4. /\ data'[held[r]] = data[held[r]] \/ data'[held[r]] = data[held[r]] \cup {Stray}
          /\ key'[held[r]] = key[held[r]]
      BY <3>1, <3>2 DEF ControllersMove
    <3>5. held'[q] # held[r]
      BY <2>3, <3>1, <3>2 DEF ControllersMove
    <3>6. \A x \in Request : held'[x] = held[r] => x = r
      BY <3>1, <3>5 DEF Elsewhere
    <3>7. r \in data'[held[r]] /\ data'[held[r]] \subseteq {r, Stray}
      BY <3>1, <3>4
    <3> QED BY <1>2, <2>1, <3>1, <3>3, <3>4, <3>6, <3>7 DEF OwnController
  <2> QED BY <2>2, <2>3
<1> QED BY <1>3, <1>4, <1>5, <1>6 DEF Good

\* So a step of q keeps the invariant if it keeps what is good of q.
LEMMA StepKeeps ==
  ASSUME IndInv, NEW q \in Request, Elsewhere(q), ControllersMove(q),
         TypeOK', CacheIsSound', KeptFits', Good(q)'
  PROVE  IndInv'
<1>1. \A r \in Request : Good(r)'
  BY OthersKeep
<1> QED BY <1>1 DEF IndInv, Good

\* What a new key changes.
LEMMA KeyMovesIs ==
  ASSUME IndInv, NEW q \in Request, KeyMoves(q)
  PROVE  /\ key' \in [Controller -> Key \cup {NoKey}] /\ asked' \in [Request -> Key \cup {NoKey}]
         /\ \A r \in Request : r # q => asked'[r] = asked[r]
         /\ \A c \in Controller : c # held[q] => key'[c] = key[c]
         /\ held[q] # NoController => key'[held[q]] = asked'[q]
         /\ asked[q] = NoKey \/ asked'[q] = asked[q]
<1>1. /\ key \in [Controller -> Key \cup {NoKey}] /\ asked \in [Request -> Key \cup {NoKey}]
      /\ held[q] # NoController => key[held[q]] = asked[q]
  BY DEF IndInv, TypeOK, OwnController
<1>2. CASE UNCHANGED asking
  <2>1. key' = key /\ asked' = asked
    BY <1>2 DEF asking
  <2> QED BY <1>1, <2>1
<1>3. CASE /\ asked[q] = NoKey /\ held[q] \in Controller
           /\ \E k \in Key : /\ key' = [key EXCEPT ![held[q]] = k]
                              /\ asked' = [asked EXCEPT ![q] = k]
  BY <1>1, <1>3
<1> QED BY <1>2, <1>3 DEF KeyMoves

\* The controllers are not touched, but for a key.
LEMMA ControllersStay ==
  ASSUME IndInv, NEW q \in Request, UNCHANGED controllers, KeyMoves(q),
         at'[q] \in Serving => at[q] \in Serving, at'[q] # "idle" => at[q] # "idle"
  PROVE  OwnController(q)' /\ ControllersMove(q)
<1>1. OwnController(q)
  BY DEF IndInv
<1>2. held' = held /\ reported' = reported /\ pool' = pool /\ data' = data
  BY DEF controllers
<1>3. /\ \A c \in Controller : c # held[q] => key'[c] = key[c]
      /\ held[q] # NoController => key'[held[q]] = asked'[q]
  BY KeyMovesIs
<1> QED BY <1>1, <1>2, <1>3 DEF OwnController, ControllersMove

\* The heartbeat is not touched.
LEMMA FramesStay ==
  ASSUME IndInv, NEW q \in Request, UNCHANGED streaming, at'[q] = "action" => at[q] = "action"
  PROVE  OneFrame(q)'
BY DEF IndInv, OneFrame, streaming

\* The response is not touched.
LEMMA AnswersStay ==
  ASSUME IndInv, NEW q \in Request, UNCHANGED <<sessions, answering, client, trouble>>,
         asked[q] = NoKey \/ asked'[q] = asked[q],
         at'[q] = "idle" <=> at[q] = "idle",
         at'[q] \in Serving => at[q] \in Serving,
         at'[q] \in Writing => at[q] \in Writing,
         at'[q] = "reporting" => at[q] = "reporting"
  PROVE  GoodBuffer(q)' /\ StoredIsOnItsWay(q)'
<1>1. GoodBuffer(q) /\ StoredIsOnItsWay(q)
  BY DEF IndInv
<1>2. sessions' = sessions /\ buffer' = buffer /\ begun' = begun /\ session' = session
      /\ client' = client /\ trouble' = trouble
  BY DEF answering
<1>3. /\ GoodAnswer(q, asked'[q], sessions', trouble'[q], buffer'[q].status, buffer'[q].body)
      /\ GoodAnswer(q, asked'[q], sessions', trouble'[q], client'[q].status, client'[q].body)
  BY <1>1, <1>2, GoodForMore DEF GoodBuffer
<1>4. StoredIsOnItsWay(q)'
  BY <1>1, <1>2 DEF StoredIsOnItsWay
<1> QED BY <1>1, <1>2, <1>3, <1>4 DEF GoodBuffer

\* What the invariant says of the cache, before a step and after it.
LEMMA CacheBefore ==
  ASSUME IndInv
  PROVE  cache \in CacheState /\ uses \in Seq(Key) /\ Keeps(cache, uses)
<1>1. cache \in CacheState /\ uses \in Seq(Key)
  BY DEF IndInv, TypeOK
<1> QED BY <1>1, KeepsIs DEF IndInv, CacheIsSound, CacheKeepsRecent, CacheAccounts, RecentlyUsedStay

\* A cache that keeps its promises keeps its part of the invariant.
LEMMA CacheAfter ==
  ASSUME Keeps(cache', uses')
  PROVE  cache' \in CacheState /\ uses' \in Seq(Key) /\ CacheIsSound'
<1>1. cache' \in CacheState /\ uses' \in Seq(Key)
  BY DEF Keeps, SoundCache
<1>2. /\ NoneTwice(cache'.order) /\ NoneTwice(uses')
      /\ \A k \in Key : ~Has(cache', k) => cache'.size[k] = 0
      /\ Len(cache'.order) <= Len(uses')
      /\ Fits(cache')
      /\ cache'.bytes = SizeOf(cache'.size, cache'.order)
      /\ cache'.order = SubSeq(uses', 1, Len(cache'.order))
  BY <1>1, KeepsIs
<1>3. RecentlyUsedStay'
  BY <1>2 DEF RecentlyUsedStay
<1>4. CacheAccounts'
  <2>1. Fits(cache)'
    BY <1>2 DEF Fits
  <2>2. (cache.bytes = SizeOf(cache.size, cache.order))'
    BY <1>2
  <2> QED BY <2>1, <2>2 DEF CacheAccounts
<1>5. (\A k \in Key : ~Has(cache, k) => cache.size[k] = 0)'
  BY <1>2 DEF Has
<1> QED BY <1>1, <1>2, <1>3, <1>4, <1>5 DEF CacheIsSound, CacheKeepsRecent

\* The cache is not touched.
LEMMA CacheStays ==
  ASSUME IndInv, UNCHANGED caching
  PROVE  CacheIsSound' /\ KeptFits'
<1>1. cache' = cache /\ uses' = uses /\ kept' = kept
  BY DEF caching
<1>2. KeptFits'
  BY <1>1 DEF IndInv, KeptFits
<1> QED BY <1>1, <1>2, CacheBefore, CacheAfter

-----------------------------------------------------------------------------
(* What the parts of a step do.                                              *)

\* The values of the variables that hold the response.
Responses ==
    /\ buffer' \in [Request -> Buffer] /\ begun' \in [Request -> BOOLEAN]
    /\ session' \in [Request -> SessionState]

\* The responses of the other requests stay as they are.
Untouched(q) ==
    \A r \in Request : r # q =>
        buffer'[r] = buffer[r] /\ begun'[r] = begun[r] /\ session'[r] = session[r]

\* A session that is saved, that is not, and that is changed.
LEMMA SavedIs ==
  ASSUME TypeOK, NEW q \in Request, session' = Saved(q)
  PROVE  /\ session' \in [Request -> SessionState]
         /\ \A r \in Request : r # q => session'[r] = session[r]
         /\ session'[q].saved = sessions
         /\ session'[q].stored = (session[q].stored \/ Saves(q))
<1>1. session \in [Request -> SessionState] /\ sessions \in BOOLEAN /\ Saves(q) \in BOOLEAN
  BY Types DEF TypeOK
<1> DEFINE c == session[q].stored \/ Saves(q)
<1>2. c \in BOOLEAN /\ session' = [session EXCEPT ![q].saved = sessions, ![q].stored = c]
  BY <1>1, SessionParts DEF Saved
<1> HIDE DEF c
<1>3. /\ session'[q] = [session[q] EXCEPT !.saved = sessions, !.stored = c]
      /\ \A r \in Request : r # q => session'[r] = session[r]
      /\ session' = [session EXCEPT ![q] = session'[q]]
  BY <1>1, <1>2
<1>4. session'[q] \in SessionState /\ session'[q].saved = sessions /\ session'[q].stored = c
  <2> DEFINE s == session[q]
             t == session'[q]
  <2>1. s \in SessionState /\ t = [s EXCEPT !.saved = sessions, !.stored = c]
    BY <1>1, <1>3
  <2> HIDE DEF s, t
  <2>2. t \in SessionState /\ t.saved = sessions /\ t.stored = c
    BY <1>1, <1>2, <2>1 DEF SessionState
  <2> QED BY <2>2 DEF s, t
<1>5. session' \in [Request -> SessionState]
  <2>1. session'[q] \in SessionState /\ session' = [session EXCEPT ![q] = session'[q]]
    BY <1>3, <1>4, Zenon
  <2> DEFINE t == session'[q]
  <2>2. t \in SessionState /\ session' = [session EXCEPT ![q] = t]
    BY <2>1
  <2> HIDE DEF t
  <2> QED BY <1>1, <2>2
<1>6. session'[q].stored = (session[q].stored \/ Saves(q))
  BY <1>4 DEF c
<1> QED BY <1>3, <1>4, <1>5, <1>6

\* A session whose save has failed.
LEMMA NotSavedIs ==
  ASSUME TypeOK, NEW q \in Request, session' = [session EXCEPT ![q].saved = TRUE]
  PROVE  /\ session' \in [Request -> SessionState]
         /\ \A r \in Request : r # q => session'[r] = session[r]
         /\ session'[q].saved = TRUE /\ session'[q].stored = session[q].stored
<1>1. session \in [Request -> SessionState]
  BY DEF TypeOK
<1>2. /\ session'[q] = [session[q] EXCEPT !.saved = TRUE]
      /\ \A r \in Request : r # q => session'[r] = session[r]
      /\ session' = [session EXCEPT ![q] = session'[q]]
  BY <1>1
<1>3. session'[q] \in SessionState /\ session'[q].saved = TRUE
      /\ session'[q].stored = session[q].stored
  <2> DEFINE s == session[q]
             t == session'[q]
  <2>1. s \in SessionState /\ t = [s EXCEPT !.saved = TRUE]
    BY <1>1, <1>2
  <2> HIDE DEF s, t
  <2>2. t \in SessionState /\ t.saved = TRUE
        /\ t.stored = s.stored
    BY <2>1 DEF SessionState
  <2> QED BY <2>2 DEF s, t
<1> QED BY <1>1, <1>2, <1>3

\* A session that was changed.
LEMMA MarkedIs ==
  ASSUME TypeOK, NEW q \in Request, session' = [session EXCEPT ![q].changed = TRUE]
  PROVE  /\ session' \in [Request -> SessionState]
         /\ \A r \in Request : r # q => session'[r] = session[r]
         /\ session'[q].saved = session[q].saved /\ session'[q].stored = session[q].stored
<1>1. session \in [Request -> SessionState]
  BY DEF TypeOK
<1>2. /\ session'[q] = [session[q] EXCEPT !.changed = TRUE]
      /\ \A r \in Request : r # q => session'[r] = session[r]
      /\ session' = [session EXCEPT ![q] = session'[q]]
  BY <1>1
<1>3. session'[q] \in SessionState /\ session'[q].saved = session[q].saved
      /\ session'[q].stored = session[q].stored
  <2> DEFINE s == session[q]
             t == session'[q]
  <2>1. s \in SessionState /\ t = [s EXCEPT !.changed = TRUE]
    BY <1>1, <1>2
  <2> HIDE DEF s, t
  <2>2. t \in SessionState /\ t.saved = s.saved
        /\ t.stored = s.stored
    BY <2>1 DEF SessionState
  <2> QED BY <2>2 DEF s, t
<1> QED BY <1>1, <1>2, <1>3

\* A session whose request has ended.
LEMMA LeftIs ==
  ASSUME TypeOK, NEW q \in Request,
         session' = [session EXCEPT ![q].changed = FALSE, ![q].saved = FALSE]
  PROVE  /\ session' \in [Request -> SessionState]
         /\ \A r \in Request : r # q => session'[r] = session[r]
         /\ session'[q].stored = session[q].stored
<1>1. session \in [Request -> SessionState]
  BY DEF TypeOK
<1>2. /\ session'[q] = [session[q] EXCEPT !.changed = FALSE, !.saved = FALSE]
      /\ \A r \in Request : r # q => session'[r] = session[r]
      /\ session' = [session EXCEPT ![q] = session'[q]]
  BY <1>1
<1>3. session'[q] \in SessionState /\ session'[q].stored = session[q].stored
  <2> DEFINE s == session[q]
             t == session'[q]
  <2>1. s \in SessionState /\ t = [s EXCEPT !.changed = FALSE, !.saved = FALSE]
    BY <1>1, <1>2
  <2> HIDE DEF s, t
  <2>2. t \in SessionState /\ t.stored = s.stored
    BY <2>1 DEF SessionState
  <2> QED BY <2>2 DEF s, t
<1> QED BY <1>1, <1>2, <1>3

\* An answer is written.
LEMMA AnswersIs ==
  ASSUME TypeOK, NEW q \in Request, NEW b \in Buffer, NEW status \in Status,
         NEW page \in SUBSET Page, Answers(q, b, status, page)
  PROVE  /\ Responses /\ Untouched(q)
         /\ begun'[q] = sessions /\ session'[q].saved = sessions
         /\ session'[q].stored = (session[q].stored \/ Saves(q))
         /\ buffer'[q].cookie = (b.cookie \/ Saves(q)) /\ buffer'[q].stream = b.stream
         /\ b.stream => buffer'[q].body = b.body /\ buffer'[q].status = b.status
         /\ ~b.stream => /\ buffer'[q].body = b.body \cup page
                         /\ buffer'[q].status = IF b.sent THEN b.status
                                                ELSE TrackedStatus(q, status)
<1>1. begun \in [Request -> BOOLEAN] /\ buffer \in [Request -> Buffer] /\ sessions \in BOOLEAN
      /\ begun[q] \in BOOLEAN /\ Saves(q) \in BOOLEAN
  BY Types DEF TypeOK
<1> DEFINE w == WithCookie(q, b)
           t == TrackedStatus(q, status)
           x == Buffered(w, t, page)
<1>2. begun' = [begun EXCEPT ![q] = sessions] /\ buffer' = [buffer EXCEPT ![q] = x]
      /\ session' = Saved(q)
  BY DEF Answers
<1>3. t \in Status
  BY <1>1 DEF TrackedStatus, Status
<1>4. /\ w \in Buffer /\ w.cookie = (b.cookie \/ Saves(q)) /\ w.status = b.status
      /\ w.body = b.body /\ w.sent = b.sent /\ w.stream = b.stream
  BY <1>1, WithCookieIs
<1> HIDE DEF w, t
<1>5. /\ x \in Buffer /\ x.cookie = w.cookie /\ x.stream = w.stream
      /\ w.stream => x = w
      /\ ~w.stream => /\ x.body = w.body \cup page /\ x.sent = TRUE
                      /\ x.status = IF w.sent THEN w.status ELSE t
  <2>1. x = Buffered(w, t, page) /\ w \in Buffer /\ t \in Status
    BY <1>3, <1>4
  <2> HIDE DEF x
  <2>2. Wrote(x, w, t, page)
    BY <2>1, BufferedIs
  <2> QED BY <2>2 DEF Wrote
<1> HIDE DEF x
<1>6. /\ session' \in [Request -> SessionState]
      /\ \A r \in Request : r # q => session'[r] = session[r]
      /\ session'[q].saved = sessions
      /\ session'[q].stored = (session[q].stored \/ Saves(q))
  BY <1>2, SavedIs
<1>7. /\ buffer' \in [Request -> Buffer] /\ begun' \in [Request -> BOOLEAN]
      /\ buffer'[q] = x /\ begun'[q] = sessions
      /\ \A r \in Request : r # q => buffer'[r] = buffer[r] /\ begun'[r] = begun[r]
  BY <1>1, <1>2, <1>5
<1> QED BY <1>4, <1>5, <1>6, <1>7 DEF Responses, Untouched, t

\* The session of the response cannot be saved.
LEMMA SaveFailsIs ==
  ASSUME TypeOK, NEW q \in Request, NEW b \in Buffer, SaveFails(q, b)
  PROVE  /\ Responses /\ Untouched(q) /\ Saves(q)
         /\ begun'[q] = TRUE /\ session'[q].saved = TRUE
         /\ session'[q].stored = session[q].stored
         /\ buffer'[q] = b
<1>1. begun \in [Request -> BOOLEAN] /\ buffer \in [Request -> Buffer]
  BY DEF TypeOK
<1>2. begun' = [begun EXCEPT ![q] = TRUE] /\ buffer' = [buffer EXCEPT ![q] = b]
      /\ session' = [session EXCEPT ![q].saved = TRUE] /\ Saves(q)
  BY DEF SaveFails
<1>3. /\ session' \in [Request -> SessionState]
      /\ \A r \in Request : r # q => session'[r] = session[r]
      /\ session'[q].saved = TRUE /\ session'[q].stored = session[q].stored
  BY <1>2, NotSavedIs
<1>4. /\ buffer' \in [Request -> Buffer] /\ begun' \in [Request -> BOOLEAN]
      /\ buffer'[q] = b /\ begun'[q] = TRUE
      /\ \A r \in Request : r # q => buffer'[r] = buffer[r] /\ begun'[r] = begun[r]
  BY <1>1, <1>2
<1> QED BY <1>2, <1>3, <1>4 DEF Responses, Untouched

\* A session is saved when it was changed, where there are sessions.
LEMMA SavesIs ==
  ASSUME TypeOK, NEW q \in Request, Saves(q)
  PROVE  sessions /\ ~session[q].saved
BY Types DEF Saves, SaverDone

\* What a step does to the place of q.
LEMMA GotoIs ==
  ASSUME TypeOK, NEW q \in Request, NEW place \in Place, Goto(q, place)
  PROVE  at' \in [Request -> Place] /\ at'[q] = place /\ \A r \in Request : r # q => at'[r] = at[r]
BY DEF TypeOK, Goto

-----------------------------------------------------------------------------
(* Answers of the action and of its errors keep what is good.                *)

\* What the invariant says of the response of q.
LEMMA Before ==
  ASSUME IndInv, NEW q \in Request
  PROVE  /\ TypeOK /\ OwnController(q) /\ GoodBuffer(q) /\ StoredIsOnItsWay(q) /\ OneFrame(q)
         /\ buffer[q] \in Buffer /\ session[q].stored \in BOOLEAN /\ session[q].saved \in BOOLEAN
         /\ buffer[q].cookie \in BOOLEAN /\ buffer[q].stream \in BOOLEAN
         /\ client[q].cookie \in BOOLEAN /\ begun[q] \in BOOLEAN /\ sessions \in BOOLEAN
         /\ Saves(q) \in BOOLEAN
         /\ Saves(q) => sessions /\ ~session[q].saved
<1>1. TypeOK /\ OwnController(q) /\ GoodBuffer(q) /\ StoredIsOnItsWay(q) /\ OneFrame(q)
  BY DEF IndInv
<1>2. client[q].cookie \in BOOLEAN
  BY <1>1, Types DEF Answer
<1> QED BY <1>1, <1>2, Types, BufferParts, SessionParts, SavesIs

\* The action or its view writes, or the session cannot be saved.
LEMMA WriteKeeps ==
  ASSUME IndInv, NEW q \in Request, at[q] \in Writing, NEW next \in {"action", "release"},
         NEW page \in SUBSET Page, asked[q] = NoKey \/ asked'[q] = asked[q],
         \A p \in page : p[1] = "page" /\ MayShow(q, asked'[q], trouble[q], p),
         WriteOrPanic(q, page, next), UNCHANGED <<sessions, client, trouble>>
  PROVE  /\ Responses /\ Untouched(q) /\ at' \in [Request -> Place]
         /\ \A r \in Request : r # q => at'[r] = at[r]
         /\ at'[q] \in {next, "failing"}
         /\ GoodBuffer(q)' /\ StoredIsOnItsWay(q)'
<1> DEFINE b == buffer[q]
           x == buffer'[q]
<1>1. /\ TypeOK /\ GoodBuffer(q) /\ StoredIsOnItsWay(q)
      /\ b \in Buffer /\ session[q].stored \in BOOLEAN /\ session[q].saved \in BOOLEAN
      /\ b.cookie \in BOOLEAN /\ b.stream \in BOOLEAN
      /\ client[q].cookie \in BOOLEAN /\ begun[q] \in BOOLEAN /\ sessions \in BOOLEAN
      /\ Saves(q) \in BOOLEAN
  BY Before
<1>2. Saves(q) => sessions /\ ~session[q].saved
  BY Before
<1>3. /\ (\A p \in b.body : p[1] = "page") /\ b.status # "error"
      /\ GoodAnswer(q, asked[q], sessions, trouble[q], client[q].status, client[q].body)
      /\ GoodAnswer(q, asked[q], sessions, trouble[q], b.status, b.body)
      /\ b.stream => /\ b.body = {} /\ b.status = "ok" /\ client[q].cookie = b.cookie
                     /\ sessions => session[q].saved
      /\ begun[q] => sessions
      /\ at[q] # "idle" /\ at[q] \in Serving
  BY <1>1 DEF GoodBuffer, Writing, Serving
<1>4. /\ GoodAnswer(q, asked'[q], sessions', trouble'[q], client'[q].status, client'[q].body)
      /\ GoodAnswer(q, asked'[q], sessions', trouble'[q], b.status, b.body)
      /\ client'[q].cookie = client[q].cookie /\ sessions' = sessions /\ trouble'[q] = trouble[q]
  BY <1>3, GoodForMore
<1>5. session[q].stored /\ trouble[q] = {} => b.cookie /\ (begun[q] \/ b.stream)
  BY <1>1, <1>3 DEF StoredIsOnItsWay
<1>6. next \in Place /\ "failing" \in Place /\ next # "idle" /\ next # "reporting"
  BY DEF Place
<1>7. CASE Answers(q, buffer[q], "ok", page) /\ Goto(q, next)
  <2>1. "ok" \in Status
    BY DEF Status
  <2>2. at' \in [Request -> Place] /\ at'[q] = next /\ \A r \in Request : r # q => at'[r] = at[r]
    BY <1>1, <1>6, <1>7, GotoIs
  <2>3. /\ Responses /\ Untouched(q)
        /\ begun'[q] = sessions /\ session'[q].saved = sessions
        /\ session'[q].stored = (session[q].stored \/ Saves(q))
        /\ x.cookie = (b.cookie \/ Saves(q)) /\ x.stream = b.stream
        /\ b.stream => x.body = b.body /\ x.status = b.status
        /\ ~b.stream => /\ x.body = b.body \cup page
                        /\ x.status = IF b.sent THEN b.status ELSE TrackedStatus(q, "ok")
    BY <1>1, <1>7, <2>1, AnswersIs
  <2>4. TrackedStatus(q, "ok") = "ok"
    BY DEF TrackedStatus
  <2> HIDE DEF b, x
  <2>5. /\ x.status # "error"
        /\ \A p \in x.body : p[1] = "page" /\ MayShow(q, asked'[q], trouble'[q], p)
    <3>1. \A p \in b.body : MayShow(q, asked'[q], trouble'[q], p)
      BY <1>4 DEF GoodAnswer, OwnBody
    <3> QED BY <1>1, <1>3, <1>4, <2>3, <2>4, <3>1
  <2>6. GoodAnswer(q, asked'[q], sessions', trouble'[q], x.status, x.body)
    BY <2>5, GoodPage
  <2>7. x.stream => x.body = {} /\ x.status = "ok" /\ client'[q].cookie = x.cookie
                    /\ (sessions' => session'[q].saved)
    BY <1>1, <1>2, <1>3, <1>4, <2>3
  <2>8. session'[q].stored /\ trouble'[q] = {} => x.cookie /\ (begun'[q] \/ x.stream)
    BY <1>1, <1>2, <1>3, <1>4, <1>5, <2>3
  <2>9. begun'[q] => sessions'
    BY <1>4, <2>3
  <2>10. GoodBuffer(q)'
    BY <1>4, <1>6, <2>2, <2>5, <2>6, <2>7, <2>9 DEF GoodBuffer, x
  <2>11. StoredIsOnItsWay(q)'
    BY <1>6, <2>2, <2>8 DEF StoredIsOnItsWay, x
  <2> QED BY <2>2, <2>3, <2>10, <2>11
<1>8. CASE SaveFails(q, buffer[q]) /\ Goto(q, "failing")
  <2>2. at' \in [Request -> Place] /\ at'[q] = "failing" /\ \A r \in Request : r # q => at'[r] = at[r]
    BY <1>1, <1>6, <1>8, GotoIs
  <2>3. /\ Responses /\ Untouched(q) /\ Saves(q)
        /\ begun'[q] = TRUE /\ session'[q].saved = TRUE
        /\ session'[q].stored = session[q].stored /\ x = b
    BY <1>1, <1>8, SaveFailsIs
  <2> HIDE DEF b, x
  <2>4. GoodAnswer(q, asked'[q], sessions', trouble'[q], x.status, x.body)
    BY <1>4, <2>3
  <2>5. GoodBuffer(q)'
    <3>1. x.stream => x.body = {} /\ x.status = "ok" /\ client'[q].cookie = x.cookie
                    /\ (sessions' => session'[q].saved)
      BY <1>1, <1>3, <1>4, <2>3
    <3>2. sessions'
      BY <1>2, <1>4, <2>3
    <3>3. "failing" \notin Writing /\ "failing" # "reporting"
      BY DEF Writing
    <3> QED BY <1>4, <2>2, <2>4, <3>1, <3>2, <3>3 DEF GoodBuffer, x
  <2>6. StoredIsOnItsWay(q)'
    BY <1>4, <1>5, <2>2, <2>3 DEF StoredIsOnItsWay, x
  <2> QED BY <2>2, <2>3, <2>5, <2>6
<1> QED BY <1>7, <1>8 DEF WriteOrPanic, Panics

\* An error is answered, with its own page or a plain one, or the session cannot be
\* saved, or the page cannot be rendered.
LEMMA ErrorKeeps ==
  ASSUME IndInv, NEW q \in Request, at[q] \in {"failing", "fallback"},
         at'[q] \in {"release", "fallback", "failing", "reported"},
         NEW owners \in SUBSET Owner, q \in owners, owners \subseteq {q, Stray},
         UNCHANGED <<sessions, asked, client>>,
         trouble'[q] = trouble[q] \cup (IF begun[q] THEN {"begun"} ELSE {}),
         \/ Answers(q, Reset(buffer[q]), "error", ErrorPage(owners))
         \/ SaveFails(q, Reset(buffer[q]))
         \/ buffer' = [buffer EXCEPT ![q] = Reset(@)] /\ UNCHANGED <<begun, session>>
  PROVE  Responses /\ Untouched(q) /\ GoodBuffer(q)' /\ StoredIsOnItsWay(q)'
<1> DEFINE o == buffer[q]
           b == Reset(buffer[q])
           x == buffer'[q]
<1>1. /\ TypeOK /\ GoodBuffer(q) /\ StoredIsOnItsWay(q)
      /\ o \in Buffer /\ session[q].stored \in BOOLEAN /\ session[q].saved \in BOOLEAN
      /\ o.cookie \in BOOLEAN /\ o.stream \in BOOLEAN
      /\ client[q].cookie \in BOOLEAN /\ begun[q] \in BOOLEAN /\ sessions \in BOOLEAN
      /\ Saves(q) \in BOOLEAN
  BY Before
<1>2. Saves(q) => sessions /\ ~session[q].saved
  BY Before
<1>3. /\ GoodAnswer(q, asked[q], sessions, trouble[q], client[q].status, client[q].body)
      /\ o.stream => /\ o.body = {} /\ o.status = "ok" /\ client[q].cookie = o.cookie
                     /\ sessions => session[q].saved
      /\ begun[q] => sessions
      /\ at[q] # "idle" /\ at[q] \in Serving
  BY <1>1 DEF GoodBuffer, Serving
<1>4. /\ trouble[q] \subseteq trouble'[q]
      /\ begun[q] => trouble'[q] # {}
      /\ client'[q] = client[q] /\ sessions' = sessions /\ asked'[q] = asked[q]
  OBVIOUS
<1>5. GoodAnswer(q, asked'[q], sessions', trouble'[q], client'[q].status, client'[q].body)
  BY <1>3, <1>4, GoodForMore
<1>6. session[q].stored /\ trouble'[q] = {} => o.cookie /\ o.stream
  BY <1>1, <1>3, <1>4 DEF StoredIsOnItsWay
<1>7. /\ b \in Buffer /\ b.stream = o.stream
      /\ o.stream => b = o
      /\ ~o.stream => b.status = "none" /\ b.body = {} /\ b.cookie = FALSE /\ b.sent = FALSE
  BY <1>1, ResetIs, NewBufferIs
<1>8. at'[q] \notin Writing /\ at'[q] # "reporting" /\ at'[q] # "idle"
  BY DEF Writing
<1>9. "error" \in Status /\ ErrorPage(owners) \in SUBSET Page
  BY ErrorPages DEF Status
<1>10. CASE Answers(q, Reset(buffer[q]), "error", ErrorPage(owners))
  <2>1. /\ Responses /\ Untouched(q)
        /\ begun'[q] = sessions /\ session'[q].saved = sessions
        /\ session'[q].stored = (session[q].stored \/ Saves(q))
        /\ x.cookie = (b.cookie \/ Saves(q)) /\ x.stream = b.stream
        /\ b.stream => x.body = b.body /\ x.status = b.status
        /\ ~b.stream => /\ x.body = b.body \cup ErrorPage(owners)
                        /\ x.status = IF b.sent THEN b.status ELSE TrackedStatus(q, "error")
    BY <1>1, <1>7, <1>9, <1>10, AnswersIs
  <2> HIDE DEF o, b, x
  <2>2. GoodAnswer(q, asked'[q], sessions', trouble'[q], x.status, x.body)
    <3>1. CASE o.stream
      <4>1. x.body = {} /\ x.status # "error"
        BY <1>3, <1>7, <2>1, <3>1
      <4> QED BY <4>1, GoodNothing
    <3>2. CASE ~o.stream
      <4>1. x.body = ErrorPage(owners) /\ x.status = TrackedStatus(q, "error")
        BY <1>7, <2>1, <3>2
      <4>2. x.status = "error" \/ (sessions' /\ trouble'[q] # {})
        BY <1>1, <1>3, <1>4, <4>1 DEF TrackedStatus
      <4>3. GoodAnswer(q, asked'[q], sessions', trouble'[q], x.status, ErrorPage(owners))
        <5> DEFINE st == x.status
                   e == trouble'[q]
                   s == sessions'
                   k == asked'[q]
        <5>1. (st = "error" \/ (s /\ e # {})) /\ ("late" \in e \/ (q \in owners /\ owners \subseteq {q, Stray}))
          BY <4>2
        <5> HIDE DEF st, e, s, k
        <5>2. GoodAnswer(q, k, s, e, st, ErrorPage(owners))
          BY <5>1, GoodError
        <5> QED BY <5>2 DEF st, e, s, k
      <4> QED BY <4>1, <4>3
    <3> QED BY <1>1, <3>1, <3>2
  <2>3. x.stream => x.body = {} /\ x.status = "ok" /\ client'[q].cookie = x.cookie
                    /\ (sessions' => session'[q].saved)
    BY <1>1, <1>2, <1>3, <1>4, <1>7, <2>1
  <2>4. session'[q].stored /\ trouble'[q] = {} => x.cookie /\ (begun'[q] \/ x.stream)
    BY <1>1, <1>2, <1>4, <1>6, <1>7, <2>1
  <2>5. begun'[q] => sessions'
    BY <1>4, <2>1
  <2>6. GoodBuffer(q)'
    BY <1>5, <1>8, <2>2, <2>3, <2>5 DEF GoodBuffer, x
  <2>7. StoredIsOnItsWay(q)'
    BY <1>8, <2>4 DEF StoredIsOnItsWay, x
  <2> QED BY <2>1, <2>6, <2>7
<1>11. ASSUME Responses, Untouched(q), x = b, session'[q].stored = session[q].stored,
              session'[q].saved = session[q].saved \/ session'[q].saved = TRUE,
              begun'[q] => sessions
       PROVE  GoodBuffer(q)' /\ StoredIsOnItsWay(q)'
  <2> HIDE DEF o, b, x
  <2>1. x.body = {} /\ x.status # "error"
    BY <1>1, <1>3, <1>7, <1>11
  <2>2. GoodAnswer(q, asked'[q], sessions', trouble'[q], x.status, x.body)
    BY <2>1, GoodNothing
  <2>3. x.stream => x.body = {} /\ x.status = "ok" /\ client'[q].cookie = x.cookie
                    /\ (sessions' => session'[q].saved)
    BY <1>1, <1>3, <1>4, <1>7, <1>11
  <2>4. session'[q].stored /\ trouble'[q] = {} => x.cookie /\ (begun'[q] \/ x.stream)
    BY <1>4, <1>6, <1>7, <1>11
  <2>5. begun'[q] => sessions'
    BY <1>4, <1>11
  <2>6. GoodBuffer(q)'
    BY <1>5, <1>8, <2>2, <2>3, <2>5 DEF GoodBuffer, x
  <2>7. StoredIsOnItsWay(q)'
    BY <1>8, <2>4 DEF StoredIsOnItsWay, x
  <2> QED BY <2>6, <2>7
<1>12. CASE SaveFails(q, Reset(buffer[q]))
  <2>1. /\ Responses /\ Untouched(q) /\ Saves(q)
        /\ begun'[q] = TRUE /\ session'[q].saved = TRUE
        /\ session'[q].stored = session[q].stored /\ x = b
    BY <1>1, <1>7, <1>12, SaveFailsIs
  <2>2. begun'[q] => sessions
    BY <1>2, <2>1
  <2> HIDE DEF b, x
  <2> QED BY <1>11, <2>1, <2>2
<1>13. CASE buffer' = [buffer EXCEPT ![q] = Reset(@)] /\ UNCHANGED <<begun, session>>
  <2>1. buffer \in [Request -> Buffer] /\ begun \in [Request -> BOOLEAN]
        /\ session \in [Request -> SessionState]
    BY <1>1 DEF TypeOK
  <2>2. Responses /\ Untouched(q) /\ x = b
    BY <1>7, <1>13, <2>1 DEF Responses, Untouched
  <2>3. begun' = begun /\ session' = session
    BY <1>13
  <2> HIDE DEF b, x
  <2> QED BY <1>3, <1>11, <2>2, <2>3
<1> QED BY <1>10, <1>12, <1>13

-----------------------------------------------------------------------------
(* The steps.                                                                *)

\* Where a request may go when its response is not touched.
Along(q) ==
    /\ at' \in [Request -> Place] /\ \A r \in Request : r # q => at'[r] = at[r]
    /\ at'[q] = "idle" <=> at[q] = "idle"
    /\ at'[q] \in Serving => at[q] \in Serving
    /\ at'[q] \in Writing => at[q] \in Writing
    /\ at'[q] = "reporting" => at[q] = "reporting"
    /\ at'[q] = "action" => at[q] = "action"

\* What the heartbeat of one stream may change.
Streams(q) ==
    /\ stream' \in [Request -> BOOLEAN] /\ late' \in [Request -> Nat]
    /\ beat' \in [Request -> {"off", "waiting", "writing"}]
    /\ \A r \in Request : r # q => stream'[r] = stream[r] /\ beat'[r] = beat[r] /\ late'[r] = late[r]

\* A request goes on, or its stream does, and its response is not touched.
LEMMA GoesOnWithKey ==
  ASSUME IndInv, NEW q \in Request, Along(q), Streams(q), OneFrame(q)',
         KeyMoves(q), UNCHANGED <<sessions, answering, controllers, caching, client, trouble>>
  PROVE  IndInv'
<1>1. TypeOK
  BY DEF IndInv
<1>2. /\ key' \in [Controller -> Key \cup {NoKey}] /\ asked' \in [Request -> Key \cup {NoKey}]
      /\ \A r \in Request : r # q => asked'[r] = asked[r]
      /\ asked[q] = NoKey \/ asked'[q] = asked[q]
  BY KeyMovesIs
<1>3. Elsewhere(q)
  BY <1>2 DEF Elsewhere, Along, Streams, answering, controllers
<1>4. OwnController(q)' /\ ControllersMove(q)
  <2>1. (at'[q] \in Serving => at[q] \in Serving) /\ (at'[q] # "idle" => at[q] # "idle")
    BY DEF Along
  <2> QED BY <2>1, ControllersStay
<1>5. GoodBuffer(q)' /\ StoredIsOnItsWay(q)'
  <2>1. /\ at'[q] = "idle" <=> at[q] = "idle"
        /\ at'[q] \in Serving => at[q] \in Serving
        /\ at'[q] \in Writing => at[q] \in Writing
        /\ at'[q] = "reporting" => at[q] = "reporting"
    BY DEF Along
  <2> QED BY <1>2, <2>1, AnswersStay
<1>6. CacheIsSound' /\ KeptFits'
  BY CacheStays
<1>7. TypeOK'
  BY <1>1, <1>2 DEF TypeOK, Along, Streams, answering, controllers, caching
<1> QED BY <1>3, <1>4, <1>5, <1>6, <1>7, StepKeeps DEF Good

\* The same when the keys stay.
LEMMA GoesOnWithItsKey ==
  ASSUME IndInv, NEW q \in Request, Along(q), Streams(q), OneFrame(q)',
         UNCHANGED <<sessions, asking, answering, controllers, caching, client, trouble>>
  PROVE  IndInv'
BY GoesOnWithKey DEF KeyMoves

\* A request moves on to a place further along.
LEMMA MoveInv ==
  ASSUME IndInv, NEW q \in Request, NEW place \in Place, Goto(q, place),
         UNCHANGED <<sessions, asking, answering, controllers, caching, streaming, client, trouble>>,
         place # "idle", at[q] # "idle", place # "reporting", place # "action",
         place \in Serving => at[q] \in Serving, place \in Writing => at[q] \in Writing
  PROVE  IndInv'
<1>1. TypeOK
  BY DEF IndInv
<1>2. at' \in [Request -> Place] /\ at'[q] = place /\ \A r \in Request : r # q => at'[r] = at[r]
  BY <1>1, GotoIs
<1>3. Along(q)
  BY <1>2 DEF Along
<1>4. Streams(q)
  BY <1>1 DEF TypeOK, Streams, streaming
<1>5. OneFrame(q)'
  BY <1>2, FramesStay
<1> QED BY <1>3, <1>4, <1>5, GoesOnWithItsKey

\* The action returns, its view is not cached, a middleware panics.
LEMMA ActionReturnsInv ==
  ASSUME IndInv, NEW q \in Request, ActionReturns(q)
  PROVE  IndInv'
<1> DEFINE place == IF begun[q] \/ buffer[q].sent THEN "release" ELSE "rendering"
<1>1. place \in {"release", "rendering"} /\ Goto(q, place) /\ at[q] = "action"
      /\ UNCHANGED <<sessions, asking, answering, controllers, caching, streaming, client, trouble>>
  BY DEF ActionReturns
<1> HIDE DEF place
<1> QED BY <1>1, MoveInv DEF Place, Serving, Writing

\* The page is not in the cache.
LEMMA RenderMissesInv ==
  ASSUME IndInv, NEW q \in Request, RenderMisses(q)
  PROVE  IndInv'
BY MoveInv DEF RenderMisses, Place, Serving, Writing

\* A middleware panics.
LEMMA MiddlewarePanicsInv ==
  ASSUME IndInv, NEW q \in Request, MiddlewarePanics(q)
  PROVE  IndInv'
BY MoveInv DEF MiddlewarePanics, Place, Serving, Writing

\* A stream ends, by itself or because its action failed.
LEMMA LeavesStreamInv ==
  ASSUME IndInv, NEW q \in Request, NEW place \in {"failing", "release"}, Goto(q, place),
         at[q] \in Serving, stream' = [stream EXCEPT ![q] = FALSE],
         UNCHANGED <<sessions, asking, answering, controllers, caching, beat, late, client, trouble>>
  PROVE  IndInv'
<1>1. TypeOK /\ OneFrame(q)
  BY DEF IndInv
<1>2. /\ place \in Place
      /\ place \notin Writing
      /\ at[q] # "idle"
  BY DEF Place, Writing, Serving
<1>3. at' \in [Request -> Place] /\ at'[q] = place /\ \A r \in Request : r # q => at'[r] = at[r]
  BY <1>1, <1>2, GotoIs
<1>4. Along(q)
  BY <1>2, <1>3 DEF Along
<1>5. Streams(q) /\ stream'[q] = FALSE
  BY <1>1 DEF TypeOK, Streams
<1>6. OneFrame(q)'
  BY <1>1, <1>3, <1>5 DEF OneFrame
<1> QED BY <1>4, <1>5, <1>6, GoesOnWithItsKey

\* The action fails.
LEMMA FailsInv ==
  ASSUME IndInv, NEW q \in Request, Fails(q)
  PROVE  IndInv'
BY LeavesStreamInv DEF Fails, Serving

\* The function of the stream returns.
LEMMA StreamEndsInv ==
  ASSUME IndInv, NEW q \in Request, StreamEnds(q)
  PROVE  IndInv'
BY LeavesStreamInv DEF StreamEnds, Serving

\* The client leaves; the heartbeat takes a frame, writes it, or ends.
LEMMA BeatsInv ==
  ASSUME IndInv, NEW q \in Request, UNCHANGED at, Streams(q), OneFrame(q)',
         UNCHANGED <<sessions, asking, answering, controllers, caching, client, trouble>>
  PROVE  IndInv'
<1>1. Along(q)
  BY DEF IndInv, TypeOK, Along
<1> QED BY <1>1, GoesOnWithItsKey

\* The client leaves.
LEMMA ClientLeavesInv ==
  ASSUME IndInv, NEW q \in Request, ClientLeaves(q)
  PROVE  IndInv'
<1>1. TypeOK /\ OneFrame(q)
  BY DEF IndInv
<1>2. Streams(q) /\ stream'[q] = FALSE
  BY <1>1 DEF TypeOK, Streams, ClientLeaves
<1>3. OneFrame(q)'
  BY <1>1, <1>2 DEF OneFrame, ClientLeaves
<1> QED BY <1>2, <1>3, BeatsInv DEF ClientLeaves

\* The heartbeat takes a frame.
LEMMA TickInv ==
  ASSUME IndInv, NEW q \in Request, Tick(q)
  PROVE  IndInv'
<1>1. TypeOK /\ OneFrame(q)
  BY DEF IndInv
<1>2. Streams(q) /\ beat'[q] = "writing"
  BY <1>1 DEF TypeOK, Streams, Tick
<1>3. OneFrame(q)'
  BY <1>1, <1>2 DEF OneFrame, Tick
<1> QED BY <1>2, <1>3, BeatsInv DEF Tick

\* The heartbeat writes its frame, the only one that may be late.
LEMMA BeatInv ==
  ASSUME IndInv, NEW q \in Request, Beat(q)
  PROVE  IndInv'
<1>1. TypeOK /\ OneFrame(q) /\ late[q] \in Nat /\ stream[q] \in BOOLEAN
  BY Types DEF IndInv
<1>2. at' = at /\ beat[q] = "writing" /\ at[q] # "action"
      /\ UNCHANGED <<sessions, asking, answering, controllers, caching, client, trouble>>
  BY <1>1 DEF Beat, OneFrame
<1>3. late[q] = 0
  BY <1>1, <1>2 DEF OneFrame
<1>4. CASE /\ beat' = [beat EXCEPT ![q] = "waiting"]
           /\ late' = [late EXCEPT ![q] = IF stream[q] THEN @ ELSE @ + 1]
           /\ UNCHANGED stream
  <2>1. Streams(q) /\ beat'[q] = "waiting" /\ stream'[q] = stream[q]
        /\ late'[q] = IF stream[q] THEN late[q] ELSE late[q] + 1
    BY <1>1, <1>4 DEF TypeOK, Streams
  <2>2. OneFrame(q)'
    BY <1>1, <1>2, <1>3, <2>1 DEF OneFrame
  <2> QED BY <1>2, <2>1, <2>2, BeatsInv
<1>5. CASE /\ beat' = [beat EXCEPT ![q] = "off"]
           /\ stream' = [stream EXCEPT ![q] = FALSE]
           /\ UNCHANGED late
  <2>1. Streams(q) /\ beat'[q] = "off" /\ late'[q] = late[q]
    BY <1>1, <1>5 DEF TypeOK, Streams
  <2>2. OneFrame(q)'
    BY <1>1, <1>2, <1>3, <2>1 DEF OneFrame
  <2> QED BY <1>2, <2>1, <2>2, BeatsInv
<1> QED BY <1>4, <1>5 DEF Beat

\* The heartbeat ends.
LEMMA HeartbeatEndsInv ==
  ASSUME IndInv, NEW q \in Request, HeartbeatEnds(q)
  PROVE  IndInv'
<1>1. TypeOK /\ OneFrame(q)
  BY DEF IndInv
<1>2. Streams(q) /\ beat'[q] = "off"
  BY <1>1 DEF TypeOK, Streams, HeartbeatEnds
<1>3. OneFrame(q)'
  BY <1>1, <1>2 DEF OneFrame, HeartbeatEnds
<1> QED BY <1>2, <1>3, BeatsInv DEF HeartbeatEnds

\* The action changes its session.
LEMMA ChangeSessionInv ==
  ASSUME IndInv, NEW q \in Request, ChangeSession(q)
  PROVE  IndInv'
<1>1. /\ TypeOK /\ OwnController(q) /\ GoodBuffer(q) /\ StoredIsOnItsWay(q) /\ OneFrame(q)
  BY Before
<1>2. /\ session' = [session EXCEPT ![q].changed = TRUE]
      /\ at' = at /\ buffer' = buffer /\ begun' = begun /\ sessions' = sessions
      /\ client' = client /\ trouble' = trouble /\ asked' = asked
      /\ UNCHANGED <<asking, controllers, caching, streaming>>
  BY DEF ChangeSession, asking
<1>3. /\ session' \in [Request -> SessionState]
      /\ \A r \in Request : r # q => session'[r] = session[r]
      /\ session'[q].saved = session[q].saved /\ session'[q].stored = session[q].stored
  BY <1>1, <1>2, MarkedIs
<1>4. Elsewhere(q)
  BY <1>2, <1>3 DEF Elsewhere, controllers, streaming, asking
<1>5. OwnController(q)' /\ ControllersMove(q)
  BY <1>2, <1>4, ControllersStay DEF KeyMoves
<1>6. OneFrame(q)'
  BY <1>2, FramesStay
<1>7. GoodBuffer(q)'
  BY <1>1, <1>2, <1>3 DEF GoodBuffer
<1>8. StoredIsOnItsWay(q)'
  BY <1>1, <1>2, <1>3 DEF StoredIsOnItsWay
<1>9. CacheIsSound' /\ KeptFits'
  BY <1>2, CacheStays
<1>10. TypeOK'
  BY <1>1, <1>2, <1>3 DEF TypeOK, controllers, caching, streaming, asking
<1> QED BY <1>4, <1>5, <1>6, <1>7, <1>8, <1>9, <1>10, StepKeeps DEF Good

\* Something is written, and the cache may be used.
LEMMA WritesInv ==
  ASSUME IndInv, NEW q \in Request, at[q] \in Writing, NEW next \in {"action", "release"},
         next = "action" => at[q] = "action", KeyMoves(q), NEW page \in SUBSET Page,
         \A p \in page : p[1] = "page" /\ MayShow(q, asked'[q], trouble[q], p),
         WriteOrPanic(q, page, next),
         Keeps(cache', uses'), KeptFits', kept' \in [Key -> SUBSET Page],
         UNCHANGED <<sessions, controllers, streaming, client, trouble>>
  PROVE  IndInv'
<1>1. TypeOK
  BY DEF IndInv
<1>2. /\ key' \in [Controller -> Key \cup {NoKey}] /\ asked' \in [Request -> Key \cup {NoKey}]
      /\ \A r \in Request : r # q => asked'[r] = asked[r]
      /\ asked[q] = NoKey \/ asked'[q] = asked[q]
  BY KeyMovesIs
<1>3. /\ Responses /\ Untouched(q) /\ at' \in [Request -> Place]
      /\ \A r \in Request : r # q => at'[r] = at[r]
      /\ at'[q] \in {next, "failing"}
      /\ GoodBuffer(q)' /\ StoredIsOnItsWay(q)'
  BY <1>2, WriteKeeps
<1>4. Elsewhere(q)
  BY <1>2, <1>3 DEF Elsewhere, Untouched, controllers, streaming
<1>5. OwnController(q)' /\ ControllersMove(q)
  <2>1. at[q] \in Serving /\ at[q] # "idle"
    BY DEF Writing, Serving
  <2> QED BY <2>1, ControllersStay
<1>6. OneFrame(q)'
  <2>1. at'[q] = "action" => at[q] = "action"
    BY <1>3
  <2> QED BY <2>1, FramesStay
<1>7. CacheIsSound' /\ cache' \in CacheState /\ uses' \in Seq(Key)
  BY CacheAfter
<1>8. TypeOK'
  BY <1>1, <1>2, <1>3, <1>7 DEF TypeOK, Responses, controllers, streaming
<1> QED BY <1>3, <1>4, <1>5, <1>6, <1>7, <1>8, StepKeeps DEF Good

\* The cache after a page was found in it.
LEMMA UseCacheKeeps ==
  ASSUME IndInv, NEW k \in Key, Has(cache, k), UseCache(k)
  PROVE  Keeps(cache', uses') /\ KeptFits' /\ kept' \in [Key -> SUBSET Page]
<1>1. Keeps(cache', uses')
  BY CacheBefore, HitKeeps DEF UseCache
<1>2. kept' = kept
  BY DEF UseCache
<1>3. KeptFits' /\ kept' \in [Key -> SUBSET Page]
  BY <1>2 DEF IndInv, KeptFits, TypeOK
<1> QED BY <1>1, <1>3

\* The cache after a page was stored in it.
LEMMA StoresKeeps ==
  ASSUME IndInv, NEW k \in Key, NEW page \in SUBSET Page, Stores(k, page),
         \A p \in page : p[1] = "page" /\ (p[2] = Stray \/ p[3] = k)
  PROVE  Keeps(cache', uses') /\ KeptFits' /\ kept' \in [Key -> SUBSET Page]
<1>1. Keeps(cache', uses')
  BY CacheBefore, SetKeeps DEF Stores
<1>2. /\ \A j \in Key : kept'[j] \in {{}, kept[j]} \/ (j = k /\ kept'[j] = page)
      /\ kept' = [j \in Key |-> kept'[j]]
  BY DEF Stores
<1>3. kept \in [Key -> SUBSET Page] /\ KeptFits
  BY DEF IndInv, TypeOK
<1>4. kept' \in [Key -> SUBSET Page]
  BY <1>2, <1>3
<1>5. KeptFits'
  BY <1>2, <1>3 DEF KeptFits
<1> QED BY <1>1, <1>4, <1>5

\* The action gives its key, and may be answered from the cache.
LEMMA CacheKeyInv ==
  ASSUME IndInv, NEW q \in Request, CacheKey(q)
  PROVE  IndInv'
<1>1. TypeOK /\ OneFrame(q)
  BY DEF IndInv
<1>2. at[q] \in Writing /\ at[q] = "action" /\ asked[q] = NoKey
      /\ UNCHANGED <<sessions, controllers, streaming, client, trouble>>
  BY DEF CacheKey, Writing
<1>3. PICK k \in Key :
         /\ key' = [key EXCEPT ![held[q]] = k] /\ asked' = [asked EXCEPT ![q] = k]
         /\ \/ Has(cache, k) /\ UseCache(k) /\ WriteOrPanic(q, kept[k], "action")
            \/ ~Has(cache, k) /\ UNCHANGED <<at, answering, caching>>
  BY DEF CacheKey
<1>4. KeyMoves(q) /\ asked'[q] = k
  <2>1. held[q] \in Controller
    BY <1>2, Types DEF IndInv, OwnController, Serving
  <2>2. asked'[q] = k
    BY <1>1, <1>3 DEF TypeOK
  <2> QED BY <1>2, <1>3, <2>1, <2>2 DEF KeyMoves
<1>5. CASE Has(cache, k) /\ UseCache(k) /\ WriteOrPanic(q, kept[k], "action")
  <2>1. /\ kept[k] \in SUBSET Page
        /\ \A page \in kept[k] : page[1] = "page" /\ MayShow(q, asked'[q], trouble[q], page)
    BY <1>4, KeptIs
  <2>2. Keeps(cache', uses') /\ KeptFits' /\ kept' \in [Key -> SUBSET Page]
    BY <1>5, UseCacheKeeps
  <2> DEFINE pages == kept[k]
  <2>3. /\ pages \in SUBSET Page /\ WriteOrPanic(q, pages, "action")
        /\ \A page \in pages : page[1] = "page" /\ MayShow(q, asked'[q], trouble[q], page)
    BY <1>5, <2>1
  <2> HIDE DEF pages
  <2> QED BY <1>2, <1>4, <2>2, <2>3, WritesInv
<1>6. CASE ~Has(cache, k) /\ UNCHANGED <<at, answering, caching>>
  <2>1. Along(q)
    BY <1>1, <1>6 DEF TypeOK, Along
  <2>2. Streams(q)
    BY <1>1, <1>2 DEF TypeOK, Streams, streaming
  <2>3. OneFrame(q)'
    BY <1>2, FramesStay
  <2> QED BY <1>2, <1>4, <1>6, <2>1, <2>2, <2>3, GoesOnWithKey
<1> QED BY <1>3, <1>5, <1>6

\* What a request renders by itself is written, and may have been cached.
LEMMA RendersInv ==
  ASSUME IndInv, NEW q \in Request, at[q] \in Writing, NEW next \in {"action", "release"},
         next = "action" => at[q] = "action", WriteOrPanic(q, Rendered(q), next),
         Keeps(cache', uses'), KeptFits', kept' \in [Key -> SUBSET Page],
         UNCHANGED <<sessions, asking, controllers, streaming, client, trouble>>
  PROVE  IndInv'
<1> DEFINE pages == Rendered(q)
<1>1. \A page \in pages : page[2] \in {q, Stray} => MayShow(q, asked'[q], trouble[q], page)
  BY DEF MayShow
<1>2. /\ pages \in SUBSET Page /\ WriteOrPanic(q, pages, next) /\ KeyMoves(q)
      /\ \A page \in pages : page[1] = "page" /\ MayShow(q, asked'[q], trouble[q], page)
  BY <1>1, RenderedIs DEF KeyMoves
<1> HIDE DEF pages
<1> QED BY <1>2, WritesInv

\* The action writes.
LEMMA ActionWritesInv ==
  ASSUME IndInv, NEW q \in Request, ActionWrites(q)
  PROVE  IndInv'
<1>1. Keeps(cache', uses')
  BY CacheBefore DEF ActionWrites, caching
<1>2. KeptFits' /\ kept' \in [Key -> SUBSET Page]
  BY DEF IndInv, KeptFits, TypeOK, ActionWrites, caching
<1> QED BY <1>1, <1>2, RendersInv DEF ActionWrites, Writing

\* A view that is cached is written, one that is not is cached and written.
LEMMA RenderCachedInv ==
  ASSUME IndInv, NEW q \in Request, RenderCached(q)
  PROVE  IndInv'
<1> DEFINE k == key[held[q]]
           pages == kept[k]
<1>1. /\ at[q] \in Writing /\ UNCHANGED asking
      /\ UNCHANGED <<sessions, controllers, streaming, client, trouble>>
      /\ k # NoKey /\ Has(cache, k) /\ UseCache(k) /\ WriteOrPanic(q, pages, "release")
  BY DEF RenderCached, Writing
<1>2. k = asked[q] /\ k \in Key /\ asked'[q] = k
  <2>1. k = asked[q]
    BY <1>1 DEF IndInv, OwnController, Writing, Serving
  <2>2. asked[q] \in Key \cup {NoKey} /\ asked' = asked
    BY <1>1 DEF IndInv, TypeOK, asking
  <2> QED BY <1>1, <2>1, <2>2
<1> HIDE DEF k
<1>3. /\ pages \in SUBSET Page
      /\ \A page \in pages : page[1] = "page" /\ MayShow(q, asked'[q], trouble[q], page)
  BY <1>2, KeptIs
<1>4. Keeps(cache', uses') /\ KeptFits' /\ kept' \in [Key -> SUBSET Page]
  BY <1>1, <1>2, UseCacheKeeps
<1>5. KeyMoves(q)
  BY <1>1 DEF KeyMoves
<1> HIDE DEF pages
<1> QED BY <1>1, <1>3, <1>4, <1>5, WritesInv

\* The view is rendered, and cached under the key of the request.
LEMMA RenderFillsInv ==
  ASSUME IndInv, NEW q \in Request, RenderFills(q)
  PROVE  IndInv'
<1> DEFINE k == key[held[q]]
           pages == Rendered(q)
<1>1. /\ at[q] \in Writing
      /\ UNCHANGED <<sessions, asking, controllers, streaming, client, trouble>>
      /\ WriteOrPanic(q, Rendered(q), "release")
      /\ UNCHANGED caching \/ (k # NoKey /\ Stores(k, pages))
  BY DEF RenderFills, Writing
<1>2. k = asked[q] /\ asked[q] \in Key \cup {NoKey}
  BY <1>1 DEF IndInv, TypeOK, OwnController, Writing, Serving
<1>3. /\ pages \in SUBSET Page
      /\ \A page \in pages : page[1] = "page" /\ (page[2] = Stray \/ page[3] = asked[q])
  BY <1>1, RenderedIs
<1> HIDE DEF k, pages
<1>4. Keeps(cache', uses') /\ KeptFits' /\ kept' \in [Key -> SUBSET Page]
  <2>1. CASE UNCHANGED caching
    BY <2>1, CacheBefore DEF caching, IndInv, KeptFits, TypeOK
  <2>2. CASE k # NoKey /\ Stores(k, pages)
    BY <1>2, <1>3, <2>2, StoresKeeps
  <2> QED BY <1>1, <2>1, <2>2
<1> QED BY <1>1, <1>4, RendersInv

\* An error is handled, or answered plainly.
LEMMA ErrorsInv ==
  ASSUME IndInv, NEW q \in Request, at[q] \in {"failing", "fallback"},
         NEW place \in {"release", "fallback", "failing", "reported"}, Goto(q, place),
         NEW owners \in SUBSET Owner, q \in owners, owners \subseteq {q, Stray},
         UNCHANGED <<sessions, asking, controllers, caching, streaming, client>>,
         trouble' = [trouble EXCEPT ![q] = @ \cup (IF begun[q] THEN {"begun"} ELSE {})],
         \/ Answers(q, Reset(buffer[q]), "error", ErrorPage(owners))
         \/ SaveFails(q, Reset(buffer[q]))
         \/ buffer' = [buffer EXCEPT ![q] = Reset(@)] /\ UNCHANGED <<begun, session>>
  PROVE  IndInv'
<1>1. TypeOK
  BY DEF IndInv
<1>2. at' \in [Request -> Place] /\ at'[q] = place /\ \A r \in Request : r # q => at'[r] = at[r]
  BY <1>1, GotoIs DEF Place
<1>3. /\ trouble' \in [Request -> SUBSET {"begun", "late"}]
      /\ \A r \in Request : r # q => trouble'[r] = trouble[r]
      /\ trouble'[q] = trouble[q] \cup (IF begun[q] THEN {"begun"} ELSE {})
  BY <1>1 DEF TypeOK
<1>4. Responses /\ Untouched(q) /\ GoodBuffer(q)' /\ StoredIsOnItsWay(q)'
  BY <1>2, <1>3, ErrorKeeps DEF asking
<1>5. Elsewhere(q)
  BY <1>2, <1>3, <1>4 DEF Elsewhere, Untouched, controllers, streaming, asking
<1>6. OwnController(q)' /\ ControllersMove(q)
  <2>1. at[q] \in Serving /\ at[q] # "idle"
    BY DEF Serving
  <2> QED BY <2>1, ControllersStay DEF KeyMoves
<1>7. OneFrame(q)'
  BY <1>2, FramesStay
<1>8. CacheIsSound' /\ KeptFits'
  BY CacheStays
<1>9. TypeOK'
  BY <1>1, <1>2, <1>3, <1>4 DEF TypeOK, Responses, controllers, caching, streaming, asking
<1> QED BY <1>4, <1>5, <1>6, <1>7, <1>8, <1>9, StepKeeps DEF Good

\* The controller handles its error.
LEMMA HandleErrorInv ==
  ASSUME IndInv, NEW q \in Request, HandleError(q)
  PROVE  IndInv'
<1> DEFINE owners == data[held[q]]
<1>1. owners \in SUBSET Owner /\ q \in owners /\ owners \subseteq {q, Stray}
  <2>1. held[q] # NoController /\ held[q] \in Controller \cup {NoController} /\ OwnController(q)
    BY Types DEF HandleError, Serving, OwnController, IndInv
  <2> QED BY <2>1 DEF OwnController, IndInv, TypeOK
<1>2. PICK place \in {"release", "fallback"} : Goto(q, place) /\
         \/ Answers(q, Reset(buffer[q]), "error", ErrorPage(owners))
         \/ SaveFails(q, Reset(buffer[q]))
         \/ buffer' = [buffer EXCEPT ![q] = Reset(@)] /\ UNCHANGED <<begun, session>>
  BY DEF HandleError
<1>3. /\ at[q] = "failing"
      /\ UNCHANGED <<sessions, asking, controllers, caching, streaming, client>>
      /\ trouble' = [trouble EXCEPT ![q] = @ \cup (IF begun[q] THEN {"begun"} ELSE {})]
  BY DEF HandleError
<1> HIDE DEF owners
<1> QED BY <1>1, <1>2, <1>3, ErrorsInv

\* A plain error is answered.
LEMMA FallbackInv ==
  ASSUME IndInv, NEW q \in Request, Fallback(q)
  PROVE  IndInv'
<1>1. PICK place \in {"release", "failing", "reported"} : Goto(q, place) /\
         \/ Answers(q, Reset(buffer[q]), "error", ErrorPage({q}))
         \/ SaveFails(q, Reset(buffer[q]))
  BY DEF Fallback
<1>2. /\ at[q] = "fallback"
      /\ UNCHANGED <<sessions, asking, controllers, caching, streaming, client>>
      /\ trouble' = [trouble EXCEPT ![q] = @ \cup (IF begun[q] THEN {"begun"} ELSE {})]
  BY DEF Fallback
<1> DEFINE owners == {q}
<1>3. owners \in SUBSET Owner /\ q \in owners /\ owners \subseteq {q, Stray}
  BY DEF Owner
<1>4. \/ Answers(q, Reset(buffer[q]), "error", ErrorPage(owners))
      \/ SaveFails(q, Reset(buffer[q]))
  BY <1>1
<1> HIDE DEF owners
<1> QED BY <1>1, <1>2, <1>3, <1>4, ErrorsInv

\* The controller goes back to the pool.
LEMMA ReleaseInv ==
  ASSUME IndInv, NEW q \in Request, Release(q)
  PROVE  IndInv'
<1>1. /\ TypeOK /\ OwnController(q) /\ GoodBuffer(q) /\ StoredIsOnItsWay(q) /\ OneFrame(q)
  BY Before
<1>2. /\ at[q] = "release" /\ Goto(q, "returning")
      /\ key' = [c \in Controller |-> IF c = held[q] THEN NoKey ELSE key[c]]
      /\ asked' = asked /\ begun' = [begun EXCEPT ![q] = FALSE]
      /\ data' = [data EXCEPT ![held[q]] = {}] /\ pool' = pool \cup {held[q]}
      /\ held' = [held EXCEPT ![q] = NoController]
      /\ sessions' = sessions /\ buffer' = buffer /\ session' = session
      /\ reported' = reported /\ client' = client /\ trouble' = trouble
      /\ UNCHANGED <<caching, streaming>>
  BY DEF Release, Forget
<1>3. at' \in [Request -> Place] /\ at'[q] = "returning" /\ \A r \in Request : r # q => at'[r] = at[r]
  BY <1>1, <1>2, GotoIs DEF Place
<1>4. held[q] # NoController /\ held[q] \in Controller /\ reported[q] # NoController
  BY <1>1, <1>2, Types DEF OwnController, Serving
<1>5. /\ key' \in [Controller -> Key \cup {NoKey}] /\ begun' \in [Request -> BOOLEAN]
      /\ begun'[q] = FALSE /\ \A r \in Request : r # q => begun'[r] = begun[r]
  BY <1>1, <1>2 DEF TypeOK
<1>6. /\ held' \in [Request -> Controller \cup {NoController}] /\ pool' \subseteq Controller
      /\ data' \in [Controller -> SUBSET Owner]
      /\ held'[q] = NoController /\ \A r \in Request : r # q => held'[r] = held[r]
  BY <1>1, <1>2, <1>4 DEF TypeOK
<1>7. Elsewhere(q)
  BY <1>2, <1>3, <1>5, <1>6 DEF Elsewhere, streaming, asking
<1>8. OwnController(q)'
  BY <1>2, <1>3, <1>4, <1>6 DEF OwnController, Serving
<1>9. ControllersMove(q)
  BY <1>1, <1>2, <1>6 DEF ControllersMove, TypeOK
<1>10. GoodBuffer(q)'
  BY <1>1, <1>2, <1>3, <1>5 DEF GoodBuffer, Writing
<1>11. StoredIsOnItsWay(q)'
  BY <1>1, <1>2, <1>3 DEF StoredIsOnItsWay, Serving
<1>12. OneFrame(q)'
  BY <1>2, <1>3, FramesStay
<1>13. CacheIsSound' /\ KeptFits'
  BY <1>2, CacheStays
<1>14. TypeOK'
  BY <1>1, <1>2, <1>3, <1>5, <1>6 DEF TypeOK, caching, streaming, asking
<1> QED BY <1>7, <1>8, <1>9, <1>10, <1>11, <1>12, <1>13, <1>14, StepKeeps DEF Good

\* The manager saves the session, or cannot.
LEMMA ManagerSavesInv ==
  ASSUME IndInv, NEW q \in Request, ManagerSaves(q)
  PROVE  IndInv'
<1> DEFINE b == buffer[q]
           x == buffer'[q]
<1>1. /\ TypeOK /\ OwnController(q) /\ GoodBuffer(q) /\ StoredIsOnItsWay(q) /\ OneFrame(q)
      /\ b \in Buffer /\ session[q].stored \in BOOLEAN /\ session[q].saved \in BOOLEAN
      /\ b.cookie \in BOOLEAN /\ b.stream \in BOOLEAN
      /\ client[q].cookie \in BOOLEAN /\ begun[q] \in BOOLEAN /\ sessions \in BOOLEAN
      /\ Saves(q) \in BOOLEAN
  BY Before
<1>2. Saves(q) => sessions /\ ~session[q].saved
  BY Before
<1>3. /\ at[q] = "returning" /\ sessions' = sessions /\ asked' = asked /\ UNCHANGED asking /\ begun' = begun
      /\ client' = client /\ trouble' = trouble
      /\ UNCHANGED <<controllers, caching, streaming>>
  BY DEF ManagerSaves, asking
<1>4. PICK place \in {"flushing", "reported"} : Goto(q, place) /\
         \/ session' = Saved(q) /\ buffer' = [buffer EXCEPT ![q] = WithCookie(q, @)]
         \/ session' = [session EXCEPT ![q].saved = TRUE] /\ buffer' = buffer
  BY DEF ManagerSaves
<1>5. at' \in [Request -> Place] /\ at'[q] = place /\ \A r \in Request : r # q => at'[r] = at[r]
  BY <1>1, <1>4, GotoIs DEF Place
<1>6. place \notin Writing /\ place \notin Serving /\ place # "reporting" /\ place # "idle"
  BY DEF Writing, Serving
<1>7. /\ GoodAnswer(q, asked'[q], sessions', trouble'[q], client'[q].status, client'[q].body)
      /\ GoodAnswer(q, asked'[q], sessions', trouble'[q], b.status, b.body)
      /\ b.stream => /\ b.body = {} /\ b.status = "ok" /\ client[q].cookie = b.cookie
                     /\ sessions => session[q].saved
      /\ begun'[q] => sessions'
  BY <1>1, <1>3 DEF GoodBuffer
<1>8. session[q].stored /\ trouble[q] = {} => b.cookie
  BY <1>1, <1>3 DEF StoredIsOnItsWay
<1>9. /\ session' \in [Request -> SessionState] /\ buffer' \in [Request -> Buffer]
      /\ \A r \in Request : r # q => session'[r] = session[r] /\ buffer'[r] = buffer[r]
      /\ GoodBuffer(q)' /\ StoredIsOnItsWay(q)'
  <2>1. CASE session' = Saved(q) /\ buffer' = [buffer EXCEPT ![q] = WithCookie(q, @)]
    <3>1. /\ session' \in [Request -> SessionState]
          /\ \A r \in Request : r # q => session'[r] = session[r]
          /\ session'[q].saved = sessions
          /\ session'[q].stored = (session[q].stored \/ Saves(q))
      BY <1>1, <2>1, SavedIs
    <3>2. /\ x \in Buffer /\ x.cookie = (b.cookie \/ Saves(q)) /\ x.status = b.status
          /\ x.body = b.body /\ x.sent = b.sent /\ x.stream = b.stream
          /\ buffer' \in [Request -> Buffer] /\ \A r \in Request : r # q => buffer'[r] = buffer[r]
      <4>1. buffer \in [Request -> Buffer] /\ buffer' = [buffer EXCEPT ![q] = WithCookie(q, b)]
        BY <1>1, <2>1 DEF TypeOK
      <4>2. x = WithCookie(q, b)
        BY <4>1
      <4> HIDE DEF x, b
      <4>3. /\ x \in Buffer /\ x.cookie = (b.cookie \/ Saves(q)) /\ x.status = b.status
            /\ x.body = b.body /\ x.sent = b.sent /\ x.stream = b.stream
        BY <1>1, <4>2, WithCookieIs
      <4>4. WithCookie(q, b) \in Buffer
        BY <4>2, <4>3
      <4>5. buffer' \in [Request -> Buffer] /\ \A r \in Request : r # q => buffer'[r] = buffer[r]
        BY <4>1, <4>4
      <4> QED BY <4>3, <4>5
    <3> HIDE DEF b, x
    <3>3. x.stream => x.body = {} /\ x.status = "ok" /\ client'[q].cookie = x.cookie
                      /\ (sessions' => session'[q].saved)
      BY <1>1, <1>2, <1>3, <1>7, <3>1, <3>2
    <3>4. GoodAnswer(q, asked'[q], sessions', trouble'[q], x.status, x.body)
      BY <1>7, <3>2
    <3>5. GoodBuffer(q)'
      BY <1>5, <1>6, <1>7, <3>3, <3>4 DEF GoodBuffer, x
    <3>6. session'[q].stored /\ trouble'[q] = {} => x.cookie
      BY <1>1, <1>3, <1>8, <3>1, <3>2
    <3>7. StoredIsOnItsWay(q)'
      BY <1>5, <1>6, <3>6 DEF StoredIsOnItsWay, x
    <3> QED BY <3>1, <3>2, <3>5, <3>7
  <2>2. CASE session' = [session EXCEPT ![q].saved = TRUE] /\ buffer' = buffer
    <3>1. /\ session' \in [Request -> SessionState]
          /\ \A r \in Request : r # q => session'[r] = session[r]
          /\ session'[q].saved = TRUE /\ session'[q].stored = session[q].stored
      BY <1>1, <2>2, NotSavedIs
    <3>2. x = b /\ buffer' \in [Request -> Buffer]
      BY <1>1, <2>2 DEF TypeOK
    <3> HIDE DEF b, x
    <3>3. x.stream => x.body = {} /\ x.status = "ok" /\ client'[q].cookie = x.cookie
                      /\ (sessions' => session'[q].saved)
      BY <1>3, <1>7, <3>1, <3>2
    <3>4. GoodAnswer(q, asked'[q], sessions', trouble'[q], x.status, x.body)
      BY <1>7, <3>2
    <3>5. GoodBuffer(q)'
      BY <1>5, <1>6, <1>7, <3>3, <3>4 DEF GoodBuffer, x
    <3>6. session'[q].stored /\ trouble'[q] = {} => x.cookie
      BY <1>3, <1>8, <3>1, <3>2
    <3>7. StoredIsOnItsWay(q)'
      BY <1>5, <1>6, <3>6 DEF StoredIsOnItsWay, x
    <3> QED BY <2>2, <3>1, <3>2, <3>5, <3>7
  <2> QED BY <1>4, <2>1, <2>2
<1> HIDE DEF b, x
<1>10. Elsewhere(q)
  BY <1>3, <1>5, <1>9 DEF Elsewhere, controllers, streaming, asking
<1>11. OwnController(q)' /\ ControllersMove(q)
  BY <1>3, <1>5, <1>6, ControllersStay DEF KeyMoves
<1>12. OneFrame(q)'
  BY <1>3, <1>5, FramesStay
<1>13. CacheIsSound' /\ KeptFits'
  BY <1>3, CacheStays
<1>14. TypeOK'
  BY <1>1, <1>3, <1>5, <1>9 DEF TypeOK, controllers, caching, streaming, asking
<1> QED BY <1>9, <1>10, <1>11, <1>12, <1>13, <1>14, StepKeeps DEF Good

\* A panic on the way back is reported to a controller that may be in use again.
LEMMA ReportErrorInv ==
  ASSUME IndInv, NEW q \in Request, ReportError(q)
  PROVE  IndInv'
<1> DEFINE b == buffer[q]
           x == buffer'[q]
           c == reported[q]
<1>1. /\ TypeOK /\ OwnController(q) /\ GoodBuffer(q) /\ b \in Buffer
      /\ b.stream \in BOOLEAN /\ b.cookie \in BOOLEAN
  BY Before
<1>2. /\ at[q] = "reported" /\ Goto(q, "reporting")
      /\ buffer' = [buffer EXCEPT ![q] = Reset(b)]
      /\ data' = [data EXCEPT ![c] = @ \cup {Stray}]
      /\ trouble' = [trouble EXCEPT ![q] = @ \cup {"late"}]
      /\ sessions' = sessions /\ asked' = asked /\ key' = key /\ begun' = begun /\ session' = session
      /\ held' = held /\ reported' = reported /\ pool' = pool /\ client' = client
      /\ UNCHANGED <<caching, streaming>>
  BY DEF ReportError, asking
<1>3. at' \in [Request -> Place] /\ at'[q] = "reporting" /\ \A r \in Request : r # q => at'[r] = at[r]
  BY <1>1, <1>2, GotoIs DEF Place
<1>4. c \in Controller
  BY <1>1, <1>2, Types DEF OwnController
<1>5. /\ data' \in [Controller -> SUBSET Owner]
      /\ \A d \in Controller : data'[d] = data[d] \/ data'[d] = data[d] \cup {Stray}
  BY <1>1, <1>2, <1>4 DEF TypeOK, Owner
<1>6. /\ trouble' \in [Request -> SUBSET {"begun", "late"}]
      /\ \A r \in Request : r # q => trouble'[r] = trouble[r]
      /\ trouble'[q] = trouble[q] \cup {"late"}
  BY <1>1, <1>2 DEF TypeOK
<1>7. /\ Reset(b) \in Buffer /\ Reset(b).stream = b.stream
      /\ b.stream => Reset(b) = b
      /\ ~b.stream => Reset(b).status = "none" /\ Reset(b).body = {} /\ Reset(b).cookie = FALSE
  BY <1>1, ResetIs, NewBufferIs
<1>8. /\ buffer' \in [Request -> Buffer] /\ x = Reset(b)
      /\ \A r \in Request : r # q => buffer'[r] = buffer[r]
  BY <1>1, <1>2, <1>7 DEF TypeOK
<1>9. Elsewhere(q)
  BY <1>2, <1>3, <1>6, <1>8 DEF Elsewhere, streaming, asking
<1>10. ControllersMove(q)
  BY <1>2, <1>5 DEF ControllersMove
<1>11. OwnController(q)'
  <2>1. held[q] # NoController => data'[held[q]] = data[held[q]] \/ data'[held[q]] = data[held[q]] \cup {Stray}
    BY <1>1, <1>5, Types
  <2>2. reported'[q] # NoController /\ at'[q] \notin Serving
    BY <1>1, <1>2, <1>3 DEF OwnController, Serving
  <2> QED BY <1>1, <1>2, <1>3, <2>1, <2>2 DEF OwnController
<1>12. GoodBuffer(q)'
  <2>1. /\ GoodAnswer(q, asked[q], sessions, trouble[q], client[q].status, client[q].body)
        /\ b.stream => /\ b.body = {} /\ b.status = "ok" /\ client[q].cookie = b.cookie
                       /\ sessions => session[q].saved
        /\ begun[q] => sessions
    BY <1>1, <1>2 DEF GoodBuffer
  <2>2. GoodAnswer(q, asked'[q], sessions', trouble'[q], client'[q].status, client'[q].body)
    BY <1>2, <1>6, <2>1, GoodForMore
  <2> HIDE DEF b, x
  <2>3. x.body = {} /\ x.status # "error"
    BY <1>1, <1>7, <1>8, <2>1
  <2>4. GoodAnswer(q, asked'[q], sessions', trouble'[q], x.status, x.body)
    BY <2>3, GoodNothing
  <2>5. x.stream => x.body = {} /\ x.status = "ok" /\ client'[q].cookie = x.cookie
                    /\ (sessions' => session'[q].saved)
    BY <1>1, <1>2, <1>7, <1>8, <2>1
  <2>6. "late" \in trouble'[q] /\ at'[q] \notin Writing
    BY <1>3, <1>6 DEF Writing
  <2> QED BY <1>2, <2>1, <2>2, <2>4, <2>5, <2>6 DEF GoodBuffer, x
<1>13. StoredIsOnItsWay(q)'
  <2>1. trouble'[q] # {}
    BY <1>6
  <2> QED BY <2>1 DEF StoredIsOnItsWay
<1>14. OneFrame(q)'
  BY <1>2, <1>3, FramesStay
<1>15. CacheIsSound' /\ KeptFits'
  BY <1>2, CacheStays
<1>16. TypeOK'
  BY <1>1, <1>2, <1>3, <1>5, <1>6, <1>8 DEF TypeOK, caching, streaming, asking
<1> QED BY <1>9, <1>10, <1>11, <1>12, <1>13, <1>14, <1>15, <1>16, StepKeeps DEF Good

\* It is answered with the data of that controller, or plainly.
LEMMA AnswerReportedInv ==
  ASSUME IndInv, NEW q \in Request, AnswerReported(q)
  PROVE  IndInv'
<1> DEFINE b == Reset(buffer[q])
           x == buffer'[q]
<1>1. /\ TypeOK /\ OwnController(q) /\ GoodBuffer(q) /\ buffer[q] \in Buffer
      /\ buffer[q].stream \in BOOLEAN /\ buffer[q].cookie \in BOOLEAN
  BY Before
<1>2. /\ at[q] = "reporting" /\ Goto(q, "flushing")
      /\ sessions' = sessions /\ asked' = asked /\ UNCHANGED asking /\ begun' = begun /\ session' = session
      /\ client' = client /\ trouble' = trouble
      /\ UNCHANGED <<controllers, caching, streaming>>
  BY DEF AnswerReported, asking
<1>3. PICK owners \in {data[reported[q]], {q}} :
         buffer' = [buffer EXCEPT ![q] = Buffered(b, "error", ErrorPage(owners))]
  BY DEF AnswerReported
<1>4. at' \in [Request -> Place] /\ at'[q] = "flushing" /\ \A r \in Request : r # q => at'[r] = at[r]
  BY <1>1, <1>2, GotoIs DEF Place
<1>5. owners \in SUBSET Owner
  <2>1. reported[q] \in Controller
    BY <1>1, <1>2, Types DEF OwnController
  <2> QED BY <1>1, <2>1 DEF TypeOK, Owner
<1>6. /\ b \in Buffer /\ b.stream = buffer[q].stream
      /\ buffer[q].stream => b = buffer[q]
      /\ ~buffer[q].stream => b.status = "none" /\ b.body = {} /\ b.cookie = FALSE /\ b.sent = FALSE
  BY <1>1, ResetIs, NewBufferIs
<1>7. "error" \in Status /\ ErrorPage(owners) \in SUBSET Page
  BY <1>5, ErrorPages DEF Status
<1> DEFINE y == Buffered(b, "error", ErrorPage(owners))
<1>8. Wrote(y, b, "error", ErrorPage(owners))
  <2> HIDE DEF b
  <2>1. y = Buffered(b, "error", ErrorPage(owners))
    OBVIOUS
  <2> HIDE DEF y
  <2> QED BY <1>6, <1>7, <2>1, BufferedIs
<1> HIDE DEF y
<1>9. /\ buffer' \in [Request -> Buffer] /\ x = y
      /\ \A r \in Request : r # q => buffer'[r] = buffer[r]
  <2>1. buffer' = [buffer EXCEPT ![q] = y] /\ y \in Buffer
    BY <1>3, <1>8 DEF y, Wrote
  <2> QED BY <1>1, <2>1 DEF TypeOK
<1>10. Elsewhere(q)
  BY <1>2, <1>4, <1>9 DEF Elsewhere, controllers, streaming, asking
<1>11. OwnController(q)' /\ ControllersMove(q)
  <2>1. at'[q] \notin Serving /\ at[q] # "idle"
    BY <1>2, <1>4 DEF Serving
  <2> QED BY <1>2, <2>1, ControllersStay DEF KeyMoves
<1>12. GoodBuffer(q)'
  <2>1. /\ GoodAnswer(q, asked'[q], sessions', trouble'[q], client'[q].status, client'[q].body)
        /\ buffer[q].stream => /\ b.body = {} /\ b.status = "ok" /\ client[q].cookie = b.cookie
                               /\ sessions => session[q].saved
        /\ begun[q] => sessions
        /\ "late" \in trouble[q]
    BY <1>1, <1>2, <1>6 DEF GoodBuffer
  <2>2. x.stream = b.stream
        /\ (b.stream => x = b)
        /\ (~b.stream => x.body = ErrorPage(owners) /\ x.status = "error")
    BY <1>1, <1>6, <1>8, <1>9 DEF Wrote
  <2> HIDE DEF b, x
  <2>3. GoodAnswer(q, asked'[q], sessions', trouble'[q], x.status, x.body)
    <3>1. CASE b.stream
      <4>1. x.body = {} /\ x.status # "error"
        BY <1>6, <2>1, <2>2, <3>1
      <4> QED BY <4>1, GoodNothing
    <3>2. CASE ~b.stream
      <4>1. x.body = ErrorPage(owners) /\ x.status = "error" /\ "late" \in trouble'[q]
        BY <1>2, <2>1, <2>2, <3>2
      <4>2. GoodAnswer(q, asked'[q], sessions', trouble'[q], "error", ErrorPage(owners))
        <5> DEFINE e == trouble'[q]
                   s == sessions'
                   k == asked'[q]
        <5>1. "late" \in e
          BY <4>1
        <5> HIDE DEF e, s, k
        <5>2. GoodAnswer(q, k, s, e, "error", ErrorPage(owners))
          BY <1>5, <5>1, GoodError
        <5> QED BY <5>2 DEF e, s, k
      <4> QED BY <4>1, <4>2
    <3> QED BY <3>1, <3>2
  <2>4. x.stream => x.body = {} /\ x.status = "ok" /\ client'[q].cookie = x.cookie
                    /\ (sessions' => session'[q].saved)
    BY <1>2, <1>6, <2>1, <2>2
  <2>5. at'[q] # "reporting" /\ at'[q] \notin Writing
    BY <1>4 DEF Writing
  <2> QED BY <1>2, <2>1, <2>3, <2>4, <2>5 DEF GoodBuffer, x
<1>13. StoredIsOnItsWay(q)'
  <2>1. trouble'[q] # {}
    BY <1>1, <1>2 DEF GoodBuffer
  <2> QED BY <2>1 DEF StoredIsOnItsWay
<1>14. OneFrame(q)'
  BY <1>2, <1>4, FramesStay
<1>15. CacheIsSound' /\ KeptFits'
  BY <1>2, CacheStays
<1>16. TypeOK'
  BY <1>1, <1>2, <1>4, <1>9 DEF TypeOK, controllers, caching, streaming, asking
<1> QED BY <1>10, <1>11, <1>12, <1>13, <1>14, <1>15, <1>16, StepKeeps DEF Good

\* A request gets a controller of its own.
LEMMA DispatchInv ==
  ASSUME IndInv, NEW q \in Request, Dispatch(q)
  PROVE  IndInv'
<1>1. /\ TypeOK /\ OwnController(q) /\ GoodBuffer(q) /\ OneFrame(q)
  BY Before
<1>2. /\ at[q] = "idle" /\ beat[q] = "off" /\ Goto(q, "action")
      /\ buffer' = [buffer EXCEPT ![q] = NewBuffer] /\ session' = [session EXCEPT ![q] = NewSession]
      /\ client' = [client EXCEPT ![q] = NoAnswer] /\ late' = [late EXCEPT ![q] = 0]
      /\ trouble' = [trouble EXCEPT ![q] = {}]
      /\ asked' = [asked EXCEPT ![q] = NoKey]
      /\ sessions' = sessions /\ begun' = begun /\ stream' = stream /\ beat' = beat
      /\ UNCHANGED caching
  BY DEF Dispatch
<1>3. PICK c \in pool :
         /\ held' = [held EXCEPT ![q] = c] /\ reported' = [reported EXCEPT ![q] = c]
         /\ pool' = pool \ {c} /\ data' = [data EXCEPT ![c] = {q}]
         /\ key' = [key EXCEPT ![c] = NoKey]
  BY DEF Dispatch
<1>4. at' \in [Request -> Place] /\ at'[q] = "action" /\ \A r \in Request : r # q => at'[r] = at[r]
  BY <1>1, <1>2, GotoIs DEF Place
<1>5. c \in Controller /\ c # NoController
  BY <1>1, <1>3, DynamicRequestAssumption DEF TypeOK
<1>6. NewSession \in SessionState /\ NewSession.stored = FALSE /\ NewSession.saved = FALSE
  BY DEF NewSession, SessionState
<1>7. NoAnswer \in Answer /\ NoAnswer.status = "none" /\ NoAnswer.body = {} /\ NoAnswer.cookie = FALSE
  BY DEF NoAnswer, Answer, Status
<1>8. /\ buffer' \in [Request -> Buffer] /\ session' \in [Request -> SessionState]
      /\ client' \in [Request -> Answer] /\ late' \in [Request -> Nat]
      /\ trouble' \in [Request -> SUBSET {"begun", "late"}]
      /\ \A r \in Request : r # q =>
            /\ buffer'[r] = buffer[r] /\ session'[r] = session[r] /\ client'[r] = client[r]
            /\ late'[r] = late[r] /\ trouble'[r] = trouble[r]
      /\ buffer'[q] = NewBuffer /\ session'[q] = NewSession /\ client'[q] = NoAnswer
      /\ late'[q] = 0 /\ trouble'[q] = {}
  BY <1>1, <1>2, <1>6, <1>7, NewBufferIs DEF TypeOK
<1>9. /\ held' \in [Request -> Controller \cup {NoController}]
      /\ reported' \in [Request -> Controller \cup {NoController}] /\ pool' \subseteq Controller
      /\ data' \in [Controller -> SUBSET Owner]
      /\ held'[q] = c /\ reported'[q] = c /\ data'[c] = {q} /\ c \notin pool'
      /\ \A r \in Request : r # q => held'[r] = held[r] /\ reported'[r] = reported[r]
      /\ \A d \in Controller : d # c => data'[d] = data[d] /\ key'[d] = key[d]
      /\ key' \in [Controller -> Key \cup {NoKey}] /\ asked' \in [Request -> Key \cup {NoKey}]
      /\ key'[c] = NoKey /\ asked'[q] = NoKey
      /\ \A r \in Request : r # q => asked'[r] = asked[r]
  BY <1>1, <1>2, <1>3, <1>5 DEF TypeOK, Owner
<1>10. Elsewhere(q)
  BY <1>2, <1>4, <1>8, <1>9 DEF Elsewhere, asking
<1>11. ControllersMove(q)
  BY <1>3, <1>5, <1>9 DEF ControllersMove
<1>12. OwnController(q)'
  <2>1. ASSUME NEW r \in Request, held'[r] = c PROVE r = q
    <3>1. r # q => held[r] = c /\ OwnController(r)
      BY <1>9, <2>1 DEF IndInv
    <3> QED BY <1>5, <3>1 DEF OwnController
  <2> QED BY <1>5, <1>9, <2>1 DEF OwnController
<1>13. GoodBuffer(q)'
  <2>1. GoodAnswer(q, asked'[q], sessions', trouble'[q], "none", {})
    BY GoodNothing
  <2> QED BY <1>1, <1>2, <1>4, <1>7, <1>8, <2>1, NewBufferIs DEF GoodBuffer
<1>14. StoredIsOnItsWay(q)'
  BY <1>6, <1>8 DEF StoredIsOnItsWay
<1>15. OneFrame(q)'
  BY <1>2, <1>8 DEF OneFrame
<1>16. CacheIsSound' /\ KeptFits'
  BY <1>2, CacheStays
<1>17. TypeOK'
  BY <1>1, <1>2, <1>4, <1>8, <1>9 DEF TypeOK, caching, asking
<1> QED BY <1>10, <1>11, <1>12, <1>13, <1>14, <1>15, <1>16, <1>17, StepKeeps DEF Good

\* A stream begins: its header and the cookie of its session are sent.
LEMMA StartStreamInv ==
  ASSUME IndInv, NEW q \in Request, StartStream(q)
  PROVE  IndInv'
<1> DEFINE b == buffer[q]
           x == buffer'[q]
           y == client'[q]
<1>1. /\ TypeOK /\ OwnController(q) /\ GoodBuffer(q) /\ StoredIsOnItsWay(q) /\ OneFrame(q)
      /\ b \in Buffer /\ session[q].stored \in BOOLEAN /\ session[q].saved \in BOOLEAN
      /\ b.cookie \in BOOLEAN /\ b.stream \in BOOLEAN
      /\ client[q].cookie \in BOOLEAN /\ begun[q] \in BOOLEAN /\ sessions \in BOOLEAN
      /\ Saves(q) \in BOOLEAN
  BY Before
<1>2. Saves(q) => sessions /\ ~session[q].saved
  BY Before
<1>3. /\ at[q] = "action" /\ late' = late /\ sessions' = sessions /\ asked' = asked /\ UNCHANGED asking /\ trouble' = trouble
      /\ begun' = begun /\ UNCHANGED <<controllers, caching>>
  BY DEF StartStream, asking
<1>4. /\ GoodAnswer(q, asked'[q], sessions', trouble'[q], client[q].status, client[q].body)
      /\ GoodAnswer(q, asked'[q], sessions', trouble'[q], b.status, b.body)
      /\ b.stream => /\ b.body = {} /\ b.status = "ok" /\ client[q].cookie = b.cookie
                     /\ sessions => session[q].saved
      /\ begun'[q] => sessions'
  BY <1>1, <1>3 DEF GoodBuffer
<1>5. session[q].stored /\ trouble[q] = {} => b.cookie /\ (begun[q] \/ b.stream)
  BY <1>1, <1>3 DEF StoredIsOnItsWay, Serving
<1>6. late[q] = 0 /\ beat[q] = "off"
  BY <1>1, <1>3 DEF OneFrame
<1>7. CASE /\ session' = Saved(q)
           /\ buffer' = [buffer EXCEPT ![q] =
                           [WithCookie(q, @) EXCEPT !.status = "ok", !.body = {},
                                                    !.sent = TRUE, !.stream = TRUE]]
           /\ client' = [client EXCEPT ![q] =
                           [status |-> "ok", body |-> {<<"stream", q, NoKey>>},
                            cookie |-> buffer'[q].cookie]]
           /\ stream' = [stream EXCEPT ![q] = TRUE]
           /\ beat' \in {[beat EXCEPT ![q] = v] : v \in {"off", "waiting"}}
           /\ Goto(q, "streaming")
  <2>1. /\ session' \in [Request -> SessionState]
        /\ \A r \in Request : r # q => session'[r] = session[r]
        /\ session'[q].saved = sessions
        /\ session'[q].stored = (session[q].stored \/ Saves(q))
    BY <1>1, <1>7, SavedIs
  <2>2. at' \in [Request -> Place] /\ at'[q] = "streaming" /\ \A r \in Request : r # q => at'[r] = at[r]
    BY <1>1, <1>7, GotoIs DEF Place
  <2> DEFINE w == WithCookie(q, b)
             v == [w EXCEPT !.status = "ok", !.body = {}, !.sent = TRUE, !.stream = TRUE]
  <2>3. w \in Buffer /\ w.cookie = (b.cookie \/ Saves(q))
    <3>1. w = WithCookie(q, b)
      OBVIOUS
    <3> HIDE DEF w, b
    <3> QED BY <1>1, <3>1, WithCookieIs
  <2>4. /\ v \in Buffer /\ v.status = "ok" /\ v.body = {} /\ v.stream = TRUE
        /\ v.cookie = w.cookie
    <3>1. "ok" \in Status /\ {} \in SUBSET Page
      BY DEF Status
    <3> HIDE DEF w
    <3>2. \A A, B : w \in [status : A, body : B, cookie : BOOLEAN, sent : BOOLEAN, stream : BOOLEAN]
                    /\ "ok" \in A /\ {} \in B
          => /\ v \in [status : A, body : B, cookie : BOOLEAN, sent : BOOLEAN, stream : BOOLEAN]
             /\ v.status = "ok" /\ v.body = {} /\ v.stream = TRUE /\ v.cookie = w.cookie
      OBVIOUS
    <3> HIDE DEF v
    <3> QED BY <2>3, <3>1, <3>2 DEF Buffer
  <2>5. buffer' = [buffer EXCEPT ![q] = v]
    BY <1>7
  <2> HIDE DEF v, w
  <2>6. /\ buffer' \in [Request -> Buffer] /\ x = v
        /\ \A r \in Request : r # q => buffer'[r] = buffer[r]
    BY <1>1, <2>4, <2>5 DEF TypeOK
  <2>7. /\ client' \in [Request -> Answer]
        /\ y.status = "ok" /\ y.body = {<<"stream", q, NoKey>>} /\ y.cookie = x.cookie
        /\ \A r \in Request : r # q => client'[r] = client[r]
    <3> DEFINE a == [status |-> "ok", body |-> {<<"stream", q, NoKey>>}, cookie |-> x.cookie]
    <3>1. x.cookie \in BOOLEAN
      BY <2>4, <2>6, BufferParts
    <3>2. a \in Answer /\ a.status = "ok" /\ a.body = {<<"stream", q, NoKey>>} /\ a.cookie = x.cookie
      <4> HIDE DEF x
      <4> QED BY <3>1 DEF Answer, Status, Page, Owner
    <3>3. client' = [client EXCEPT ![q] = a]
      BY <1>7
    <3> HIDE DEF a
    <3> QED BY <1>1, <3>2, <3>3 DEF TypeOK
  <2>8. Streams(q)
    <3>1. PICK u \in {"off", "waiting"} : beat' = [beat EXCEPT ![q] = u]
      BY <1>7
    <3> QED BY <1>1, <1>3, <1>7, <3>1 DEF TypeOK, Streams
  <2> HIDE DEF b, x, y
  <2>9. Elsewhere(q)
    BY <1>3, <2>1, <2>2, <2>6, <2>7, <2>8 DEF Elsewhere, Streams, controllers, asking
  <2>10. OwnController(q)' /\ ControllersMove(q)
    BY <1>3, <2>2, <2>9, ControllersStay DEF Serving, KeyMoves
  <2>11. GoodBuffer(q)'
    <3>1. GoodAnswer(q, asked'[q], sessions', trouble'[q], y.status, y.body)
      BY <2>7, GoodStream
    <3>2. GoodAnswer(q, asked'[q], sessions', trouble'[q], x.status, x.body)
      BY <2>4, <2>6, GoodNothing
    <3>3. /\ x.body = {} /\ x.status = "ok" /\ y.cookie = x.cookie
          /\ sessions' => session'[q].saved
      BY <1>3, <2>1, <2>4, <2>6, <2>7
    <3> QED BY <1>4, <2>2, <3>1, <3>2, <3>3 DEF GoodBuffer, Writing, x, y
  <2>12. StoredIsOnItsWay(q)'
    <3>1. session'[q].stored /\ trouble'[q] = {} => x.cookie /\ x.stream
      BY <1>1, <1>3, <1>5, <2>1, <2>3, <2>4, <2>6
    <3> QED BY <2>2, <3>1 DEF StoredIsOnItsWay, x
  <2>13. OneFrame(q)'
    BY <1>3, <1>6, <2>2 DEF OneFrame
  <2>14. CacheIsSound' /\ KeptFits'
    BY <1>3, CacheStays
  <2>15. TypeOK'
    BY <1>1, <1>3, <2>1, <2>2, <2>6, <2>7, <2>8 DEF TypeOK, Streams, controllers, caching, asking
  <2> QED BY <2>9, <2>10, <2>11, <2>12, <2>13, <2>14, <2>15, StepKeeps DEF Good
<1>8. CASE /\ session' = [session EXCEPT ![q].saved = TRUE]
           /\ Goto(q, "failing")
           /\ UNCHANGED <<buffer, client, stream, beat>>
  <2>1. /\ session' \in [Request -> SessionState]
        /\ \A r \in Request : r # q => session'[r] = session[r]
        /\ session'[q].saved = TRUE /\ session'[q].stored = session[q].stored
    BY <1>1, <1>8, NotSavedIs
  <2>2. at' \in [Request -> Place] /\ at'[q] = "failing" /\ \A r \in Request : r # q => at'[r] = at[r]
    BY <1>1, <1>8, GotoIs DEF Place
  <2>3. buffer' = buffer /\ client' = client /\ stream' = stream /\ beat' = beat
    BY <1>8
  <2>4. Elsewhere(q)
    BY <1>3, <2>1, <2>2, <2>3 DEF Elsewhere, controllers, asking
  <2>5. OwnController(q)' /\ ControllersMove(q)
    BY <1>3, <2>2, <2>4, ControllersStay DEF Serving, KeyMoves
  <2>6. GoodBuffer(q)'
    <3>1. b.stream => /\ b.body = {} /\ b.status = "ok" /\ client[q].cookie = b.cookie
                      /\ (sessions' => session'[q].saved)
      BY <1>4, <2>1
    <3>2. at'[q] \notin Writing /\ at'[q] # "reporting"
      BY <2>2 DEF Writing
    <3> QED BY <1>4, <2>3, <3>1, <3>2 DEF GoodBuffer
  <2>7. StoredIsOnItsWay(q)'
    BY <1>3, <1>5, <2>1, <2>2, <2>3 DEF StoredIsOnItsWay
  <2>8. OneFrame(q)'
    BY <1>3, <1>6, <2>2 DEF OneFrame
  <2>9. CacheIsSound' /\ KeptFits'
    BY <1>3, CacheStays
  <2>10. TypeOK'
    BY <1>1, <1>3, <2>1, <2>2, <2>3 DEF TypeOK, controllers, caching, asking
  <2> QED BY <2>4, <2>5, <2>6, <2>7, <2>8, <2>9, <2>10, StepKeeps DEF Good
<1> QED BY <1>7, <1>8 DEF StartStream, Panics

\* What is flushed is what was buffered, or nothing when the client has it already.
LEMMA FlushedIs ==
  ASSUME IndInv, NEW q \in Request, at[q] = "flushing", NEW b \in {buffer[q], NotModified(buffer[q])},
         b = buffer[q] \/ Eligible(buffer[q]), NEW y, y = Flushed(q, b)
  PROVE  /\ y \in Answer
         /\ GoodAnswer(q, asked[q], sessions, trouble[q], y.status, y.body)
         /\ session[q].stored /\ trouble[q] = {} => y.cookie
<1> DEFINE o == buffer[q]
<1>1. /\ GoodBuffer(q) /\ StoredIsOnItsWay(q) /\ TypeOK
      /\ o \in Buffer /\ o.cookie \in BOOLEAN /\ o.stream \in BOOLEAN
  BY Before
<1>2. /\ GoodAnswer(q, asked[q], sessions, trouble[q], client[q].status, client[q].body)
      /\ GoodAnswer(q, asked[q], sessions, trouble[q], o.status, o.body)
      /\ o.stream => client[q].cookie = o.cookie
  BY <1>1 DEF GoodBuffer
<1>3. session[q].stored /\ trouble[q] = {} => o.cookie
  BY <1>1 DEF StoredIsOnItsWay
<1>4. client[q] \in Answer
  BY <1>1, Types
<1>5. CASE b = buffer[q]
  <2>1. CASE b.stream \/ (~b.sent /\ ~b.cookie)
    <3>1. y = client[q]
      BY <2>1 DEF Flushed
    <3>2. b.stream \/ ~b.cookie
      BY <2>1
    <3>3. session[q].stored /\ trouble[q] = {} => client[q].cookie
      BY <1>1, <1>2, <1>3, <1>5, <3>2
    <3> QED BY <1>2, <1>4, <3>1, <3>3
  <2>2. CASE ~(b.stream \/ (~b.sent /\ ~b.cookie))
    <3> DEFINE st == IF b.status = "none" THEN "ok" ELSE b.status
               bd == b.body
               ck == b.cookie
    <3>1. y = [status |-> st, body |-> bd, cookie |-> ck]
      BY <2>2 DEF Flushed
    <3>2. st \in Status /\ bd \in SUBSET Page /\ ck \in BOOLEAN
      BY <1>1, <1>5, BufferParts DEF Status
    <3>3. GoodAnswer(q, asked[q], sessions, trouble[q], st, bd)
      BY <1>2, <1>5 DEF GoodAnswer, OwnBody, StatusFits
    <3>4. session[q].stored /\ trouble[q] = {} => ck
      BY <1>3, <1>5
    <3> HIDE DEF st, bd, ck
    <3>5. y \in Answer /\ y.status = st /\ y.body = bd /\ y.cookie = ck
      BY <3>1, <3>2 DEF Answer
    <3> QED BY <3>3, <3>4, <3>5
  <2> QED BY <2>1, <2>2
<1>6. CASE b = NotModified(buffer[q]) /\ Eligible(buffer[q])
  <2>1. ~o.cookie
    BY <1>6 DEF Eligible
  <2>2. b.status = "not modified" /\ b.body = {} /\ b.sent = TRUE /\ b.cookie = FALSE /\ b.stream = FALSE
    BY <1>6 DEF NotModified, NewBuffer
  <2>3. y = [status |-> "not modified", body |-> {}, cookie |-> FALSE]
    BY <2>2 DEF Flushed
  <2>4. y \in Answer /\ y.status # "error" /\ y.body = {}
    <3> DEFINE st == "not modified"
               bd == {}
               ck == FALSE
    <3>1. y = [status |-> st, body |-> bd, cookie |-> ck]
      BY <2>3
    <3>2. st \in Status /\ bd \in SUBSET Page /\ ck \in BOOLEAN /\ st # "error" /\ bd = {}
      BY DEF Status
    <3> HIDE DEF st, bd, ck
    <3>3. y \in Answer /\ y.status = st /\ y.body = bd
      BY <3>1, <3>2 DEF Answer
    <3> QED BY <3>2, <3>3
  <2>5. GoodAnswer(q, asked[q], sessions, trouble[q], y.status, y.body)
    BY <2>4, GoodNothing
  <2> QED BY <1>3, <2>1, <2>4, <2>5
<1> QED BY <1>5, <1>6

\* The request ends.
LEMMA FinishInv ==
  ASSUME IndInv, NEW q \in Request, Finish(q)
  PROVE  IndInv'
<1> DEFINE y == client'[q]
<1>1. TypeOK /\ OwnController(q) /\ OneFrame(q)
  BY Before
<1>2. /\ at[q] = "flushing" /\ Goto(q, "idle")
      /\ buffer' = [buffer EXCEPT ![q] = NewBuffer]
      /\ reported' = [reported EXCEPT ![q] = NoController]
      /\ held' = [held EXCEPT ![q] = NoController]
      /\ pool' = pool \cup ({held[q]} \ {NoController})
      /\ key' = [c \in Controller |-> IF c = held[q] THEN NoKey ELSE key[c]]
      /\ asked' = asked /\ begun' = [begun EXCEPT ![q] = FALSE]
      /\ session' = [session EXCEPT ![q].changed = FALSE, ![q].saved = FALSE]
      /\ sessions' = sessions /\ data' = data /\ trouble' = trouble
      /\ UNCHANGED <<caching, streaming>>
  BY DEF Finish, Forget
<1>3. at' \in [Request -> Place] /\ at'[q] = "idle" /\ \A r \in Request : r # q => at'[r] = at[r]
  BY <1>1, <1>2, GotoIs DEF Place
<1>4. PICK b \in {buffer[q], NotModified(buffer[q])} :
         /\ b = buffer[q] \/ Eligible(buffer[q])
         /\ client' = [client EXCEPT ![q] = Flushed(q, b)]
  BY DEF Finish
<1>5. /\ client' \in [Request -> Answer] /\ \A r \in Request : r # q => client'[r] = client[r]
      /\ GoodAnswer(q, asked[q], sessions, trouble[q], y.status, y.body)
      /\ session[q].stored /\ trouble[q] = {} => y.cookie
  <2> DEFINE f == Flushed(q, b)
  <2>1. f = Flushed(q, b) /\ client' = [client EXCEPT ![q] = f]
    BY <1>4
  <2> HIDE DEF f
  <2>2. /\ f \in Answer
        /\ GoodAnswer(q, asked[q], sessions, trouble[q], f.status, f.body)
        /\ session[q].stored /\ trouble[q] = {} => f.cookie
    BY <1>2, <1>4, <2>1, FlushedIs
  <2>3. /\ client' \in [Request -> Answer] /\ client'[q] = f
        /\ \A r \in Request : r # q => client'[r] = client[r]
    BY <1>1, <2>1, <2>2 DEF TypeOK
  <2> QED BY <2>2, <2>3
<1>6. /\ session' \in [Request -> SessionState]
      /\ \A r \in Request : r # q => session'[r] = session[r]
      /\ session'[q].stored = session[q].stored
  BY <1>1, <1>2, LeftIs
<1>7. /\ buffer' \in [Request -> Buffer] /\ buffer'[q] = NewBuffer
      /\ begun' \in [Request -> BOOLEAN] /\ begun'[q] = FALSE
      /\ key' \in [Controller -> Key \cup {NoKey}]
      /\ \A r \in Request : r # q => buffer'[r] = buffer[r] /\ begun'[r] = begun[r]
  BY <1>1, <1>2, NewBufferIs DEF TypeOK
<1>8. /\ held' \in [Request -> Controller \cup {NoController}] /\ held'[q] = NoController
      /\ reported' \in [Request -> Controller \cup {NoController}] /\ pool' \subseteq Controller
      /\ \A r \in Request : r # q => held'[r] = held[r] /\ reported'[r] = reported[r]
  <2>1. held[q] \in Controller \cup {NoController}
    BY <1>1, Types
  <2> QED BY <1>1, <1>2, <2>1 DEF TypeOK
<1> HIDE DEF y
<1>9. Elsewhere(q)
  BY <1>2, <1>3, <1>5, <1>6, <1>7, <1>8 DEF Elsewhere, streaming, asking
<1>10. ControllersMove(q)
  BY <1>2, <1>8 DEF ControllersMove
<1>11. OwnController(q)'
  BY <1>3, <1>8 DEF OwnController, Serving
<1>12. GoodBuffer(q)'
  <2>1. GoodAnswer(q, asked'[q], sessions', trouble'[q], "none", {})
    BY GoodNothing
  <2>2. at'[q] \notin Writing /\ at'[q] # "reporting"
    BY <1>3 DEF Writing
  <2>3. GoodAnswer(q, asked'[q], sessions', trouble'[q], y.status, y.body)
    BY <1>2, <1>5
  <2> QED BY <1>7, <2>1, <2>2, <2>3, NewBufferIs DEF GoodBuffer, y
<1>13. StoredIsOnItsWay(q)'
  BY <1>2, <1>3, <1>5, <1>6 DEF StoredIsOnItsWay, y
<1>14. OneFrame(q)'
  BY <1>2, <1>3, FramesStay
<1>15. CacheIsSound' /\ KeptFits'
  BY <1>2, CacheStays
<1>16. TypeOK'
  BY <1>1, <1>2, <1>3, <1>5, <1>6, <1>7, <1>8 DEF TypeOK, caching, streaming, asking
<1> QED BY <1>9, <1>10, <1>11, <1>12, <1>13, <1>14, <1>15, <1>16, StepKeeps DEF Good

-----------------------------------------------------------------------------
(* The theorems.                                                             *)

\* The empty cache is sound.
LEMMA EmptyKeeps == Keeps(EmptyCache, <<>>)
<1> DEFINE c == EmptyCache
           size == [k \in Key |-> 0]
<1>1. c.order = <<>> /\ c.size = size /\ c.bytes = 0
  BY DEF EmptyCache
<1>2. size \in [Key -> Size \cup {0}] /\ size \in [Key -> Nat] /\ \A k \in Key : size[k] = 0
  OBVIOUS
<1>3. c \in CacheState
  <2>1. \A A, B, C : <<>> \in A /\ size \in B /\ 0 \in C => c \in [order : A, size : B, bytes : C]
    BY DEF EmptyCache
  <2> HIDE DEF c, size
  <2>2. <<>> \in Seq(Key) /\ 0 \in Int
    OBVIOUS
  <2> QED BY <1>2, <2>1, <2>2 DEF CacheState
<1> HIDE DEF c, size
<1>4. Range(<<>>) = {} /\ IsFiniteSet({})
  BY FS_EmptySet DEF Range
<1>5. Held(size, {}) = 0
  BY <1>2, <1>4, HeldFacts
<1>6. Len(<<>>) = 0 /\ NoneTwice(<<>>)
  BY DEF NoneTwice
<1>7. SoundCache(c)
  BY <1>1, <1>2, <1>3, <1>4, <1>5, <1>6 DEF SoundCache
<1>8. Fits(c)
  BY <1>1, <1>6, CacheAssumption DEF Fits
<1>9. Begins(c.order, <<>>) /\ <<>> \in Seq(Key)
  BY <1>1, <1>6 DEF Begins
<1> QED BY <1>6, <1>7, <1>8, <1>9 DEF Keeps, c

\* Nobody has asked for anything yet.
LEMMA InitInv == Init => IndInv
<1> SUFFICES ASSUME Init PROVE IndInv
  OBVIOUS
<1>1. /\ NewSession \in SessionState /\ NewSession.stored = FALSE
      /\ NoAnswer \in Answer /\ NoAnswer.status = "none" /\ NoAnswer.body = {} /\ NoAnswer.cookie = FALSE
  BY DEF NewSession, SessionState, NoAnswer, Answer, Status
<1>2. cache \in CacheState /\ uses \in Seq(Key) /\ Keeps(cache, uses)
  BY EmptyKeeps DEF Init, Keeps, SoundCache
<1>3. CacheIsSound
  BY <1>2, KeepsIs DEF CacheIsSound, CacheKeepsRecent, CacheAccounts, RecentlyUsedStay
<1>4. TypeOK /\ KeptFits
  BY <1>1, <1>2, NewBufferIs, DynamicRequestAssumption DEF Init, TypeOK, KeptFits, Place
<1>5. ASSUME NEW q \in Request
      PROVE  OwnController(q) /\ GoodBuffer(q) /\ StoredIsOnItsWay(q) /\ OneFrame(q)
  <2>1. /\ at[q] = "idle" /\ held[q] = NoController /\ buffer[q] = NewBuffer /\ begun[q] = FALSE
        /\ session[q] = NewSession /\ client[q] = NoAnswer /\ late[q] = 0
    BY DEF Init
  <2>2. GoodAnswer(q, asked[q], sessions, trouble[q], "none", {})
    BY GoodNothing
  <2>3. OwnController(q)
    BY <2>1 DEF OwnController, Serving
  <2>4. GoodBuffer(q)
    BY <1>1, <2>1, <2>2, NewBufferIs DEF GoodBuffer, Writing
  <2> QED BY <1>1, <2>1, <2>3, <2>4 DEF StoredIsOnItsWay, OneFrame
<1> QED BY <1>3, <1>4, <1>5 DEF IndInv

\* Every step of every request keeps the invariant.
LEMMA NextInv == IndInv /\ [Next]_vars => IndInv'
<1> SUFFICES ASSUME IndInv, [Next]_vars PROVE IndInv'
  OBVIOUS
<1>1. CASE Next
  <2>1. PICK q \in Request :
          \/ Dispatch(q) \/ ChangeSession(q) \/ CacheKey(q) \/ ActionWrites(q)
          \/ ActionReturns(q) \/ Fails(q)
          \/ RenderCached(q) \/ RenderMisses(q) \/ RenderFills(q)
          \/ StartStream(q) \/ StreamEnds(q) \/ ClientLeaves(q)
          \/ Tick(q) \/ Beat(q) \/ HeartbeatEnds(q)
          \/ HandleError(q) \/ Fallback(q) \/ Release(q)
          \/ ManagerSaves(q) \/ MiddlewarePanics(q) \/ ReportError(q) \/ AnswerReported(q)
          \/ Finish(q)
    BY <1>1 DEF Next
  <2> QED BY <2>1, DispatchInv, ChangeSessionInv, CacheKeyInv, ActionWritesInv,
             ActionReturnsInv, FailsInv, RenderCachedInv, RenderMissesInv, RenderFillsInv,
             StartStreamInv, StreamEndsInv, ClientLeavesInv, TickInv, BeatInv, HeartbeatEndsInv,
             HandleErrorInv, FallbackInv, ReleaseInv, ManagerSavesInv, MiddlewarePanicsInv,
             ReportErrorInv, AnswerReportedInv, FinishInv
<1>2. CASE UNCHANGED vars
  <2>1. CacheIsSound' /\ KeptFits'
    BY <1>2, CacheStays DEF vars
  <2>2. TypeOK'
    BY <1>2 DEF IndInv, TypeOK, vars, answering, controllers, caching, streaming, asking
  <2>3. ASSUME NEW q \in Request PROVE Good(q)'
    <3>1. OwnController(q)'
      BY <1>2 DEF IndInv, OwnController, vars, controllers, asking
    <3>2. GoodBuffer(q)' /\ StoredIsOnItsWay(q)'
      BY <1>2, AnswersStay DEF vars, asking
    <3>3. OneFrame(q)'
      BY <1>2, FramesStay DEF vars
    <3> QED BY <3>1, <3>2, <3>3 DEF Good
  <2> QED BY <2>1, <2>2, <2>3 DEF IndInv, Good
<1> QED BY <1>1, <1>2

\* The invariant holds: a response is good wherever it is.
THEOREM Invariance == Spec => []IndInv
BY InitInv, NextInv, PTL DEF Spec

\* A good answer is of one kind.
LEMMA OneKind ==
  ASSUME NEW q \in Request, NEW body, OnePiece(q, body), NEW answer, answer.body = body
  PROVE  Cardinality(Kinds(answer)) <= 1
<1>1. \E k : Kinds(answer) \subseteq {k}
  <2>1. CASE \E k : \A page \in body : page[1] = k
    BY <2>1 DEF Kinds
  <2>2. CASE body = {<<"stream", q, NoKey>>}
    <3>1. Kinds(answer) \subseteq {"stream"}
      BY <2>2 DEF Kinds
    <3> QED BY <3>1
  <2> QED BY <2>1, <2>2 DEF OnePiece
<1>2. PICK k : Kinds(answer) \subseteq {k}
  BY <1>1
<1>3. Cardinality({k}) = 1 /\ IsFiniteSet({k})
  BY FS_Singleton
<1>4. Cardinality(Kinds(answer)) <= Cardinality({k})
  BY <1>2, <1>3, FS_Subset
<1> QED BY <1>3, <1>4

\* What reaches the client is whole: one page, the cookie of the session that was
\* stored for it, and a stream that is closed but for one frame (actions.go,
\* response_buffer.go, response_saver.go, stream.go).
THEOREM CompleteAnswers == Spec => []AnswersAreComplete
<1>1. ASSUME IndInv PROVE AnswersAreComplete
  <2>1. ASSUME NEW q \in Request
        PROVE  /\ Cardinality(Kinds(client[q])) <= 1 /\ late[q] <= 1
               /\ (at[q] = "idle" /\ session[q].stored) => client[q].cookie \/ trouble[q] # {}
    <3>1. OnePiece(q, client[q].body) /\ StoredIsOnItsWay(q) /\ OneFrame(q)
      BY <1>1 DEF IndInv, GoodBuffer, GoodAnswer
    <3>2. Cardinality(Kinds(client[q])) <= 1
      BY <3>1, OneKind
    <3> QED BY <3>1, <3>2 DEF StoredIsOnItsWay, OneFrame
  <2>2. TypeOK
    BY <1>1 DEF IndInv
  <2> QED BY <2>1, <2>2 DEF AnswersAreComplete, AnswersAreWhole, WholeAnswers, OneLateFrame,
                            SessionAnswered
<1> QED BY <1>1, Invariance, PTL

\* What an answer shows was made of the values of its own request, or of a request
\* that asked the cache for the same key, and an error that is handled in time shows
\* those of its request, although controllers, with their data and their keys, and
\* pages are handed from one request to another (controller_binding.go, renderer.go,
\* handleReportedError).
THEOREM AnswersAreOwn == Spec => []OwnPages
<1>1. IndInv => OwnPages
  BY DEF IndInv, GoodBuffer, GoodAnswer, OwnBody, OwnPages
<1> QED BY <1>1, Invariance, PTL

\* An error is answered with the status of an error, if the response had not begun
\* (actions.go, responseTracker).
THEOREM ErrorsAreErrors == Spec => []ErrorsKeepStatus
<1>1. ASSUME IndInv, NEW q \in Request, "error" \in Kinds(client[q])
      PROVE  client[q].status = "error" \/ (sessions /\ trouble[q] # {})
  <2>1. \E page \in client[q].body : page[1] = "error"
    BY <1>1 DEF Kinds
  <2>2. StatusFits(sessions, trouble[q], client[q].status, client[q].body)
    BY <1>1 DEF IndInv, GoodBuffer, GoodAnswer
  <2> QED BY <2>1, <2>2 DEF StatusFits
<1>2. IndInv => ErrorsKeepStatus
  BY <1>1 DEF ErrorsKeepStatus
<1> QED BY <1>2, Invariance, PTL

\* The page cache keeps its limits, counts the bytes of its entries, and has those
\* used last (inmemorycache.go, enforceLimits and evictOldest).
THEOREM RecentPagesStay == Spec => []CacheKeepsRecent
<1>1. IndInv => CacheKeepsRecent
  BY DEF IndInv, CacheIsSound
<1> QED BY <1>1, Invariance, PTL

-----------------------------------------------------------------------------
(* One more frame, and one less, on a stream in order.                       *)

\* What Append does to the places of a sequence.
LEMMA Appended ==
  ASSUME NEW s \in Seq(Frame), NEW f \in Frame
  PROVE  /\ Append(s, f) \in Seq(Frame) /\ Len(Append(s, f)) = Len(s) + 1
         /\ Len(s) \in Nat
         /\ \A i \in 1..Len(s) : Append(s, f)[i] = s[i]
         /\ Append(s, f)[Len(s) + 1] = f
BY AppendProperties

\* What Tail does.
LEMMA Taken ==
  ASSUME NEW s \in Seq(Frame), s # <<>>
  PROVE  /\ Tail(s) \in Seq(Frame) /\ Len(Tail(s)) = Len(s) - 1
         /\ Len(s) \in Nat \ {0} /\ Head(s) = s[1] /\ Head(s) \in Frame
         /\ \A i \in 1..Len(Tail(s)) : Tail(s)[i] = s[i + 1]
BY HeadTailProperties, EmptySeq

\* A control frame changes nothing for the data frames.
LEMMA AppendControl ==
  ASSUME NEW s \in Seq(Frame), NEW f \in Frame, ~IsData(f), NEW w, NEW r
  PROVE  /\ InSequence(s) => InSequence(Append(s, f))
         /\ FirstFollows(s, r) => FirstFollows(Append(s, f), r)
         /\ WriterIsLast(s, w, r) => WriterIsLast(Append(s, f), w, r)
<1> DEFINE t == Append(s, f)
           n == Len(s)
<1>1. t \in Seq(Frame) /\ Len(t) = n + 1 /\ n \in Nat /\ (\A i \in 1..n : t[i] = s[i]) /\ t[n + 1] = f
  BY Appended
<1> HIDE DEF t, n
<1>2. ASSUME InSequence(s) PROVE InSequence(t)
  <2> SUFFICES ASSUME NEW i \in 1..Len(t), NEW j \in 1..Len(t), i < j, IsData(t[i]), IsData(t[j]),
                      \A k \in (i + 1)..(j - 1) : ~IsData(t[k])
               PROVE  Follows(t[j], t[i])
    BY DEF InSequence
  <2>1. i \in 1..n /\ j \in 1..n
    <3>1. j # n + 1
      BY <1>1
    <3> QED BY <1>1, <3>1
  <2>2. \A k \in (i + 1)..(j - 1) : ~IsData(s[k])
    BY <1>1, <2>1 DEF IsData
  <2> QED BY <1>1, <1>2, <2>1, <2>2 DEF InSequence, n
<1>3. ASSUME FirstFollows(s, r) PROVE FirstFollows(t, r)
  <2> SUFFICES ASSUME GoesOn(r), NEW j \in 1..Len(t), IsData(t[j]), \A k \in 1..(j - 1) : ~IsData(t[k])
               PROVE  FollowsReader(t[j], r)
    BY DEF FirstFollows
  <2>1. j \in 1..n
    BY <1>1
  <2>2. \A k \in 1..(j - 1) : ~IsData(s[k])
    BY <1>1, <2>1 DEF IsData
  <2> QED BY <1>1, <1>3, <2>1, <2>2 DEF FirstFollows, n
<1>4. ASSUME WriterIsLast(s, w, r) PROVE WriterIsLast(t, w, r)
  <2>1. ASSUME NEW i \in 1..Len(t), IsData(t[i]), \A k \in (i + 1)..Len(t) : ~IsData(t[k])
        PROVE  w.open = ~t[i].final /\ w.msg = t[i].msg /\ w.place = t[i].place
    <3>1. i \in 1..n
      BY <1>1, <2>1
    <3>2. \A k \in (i + 1)..n : ~IsData(s[k])
      BY <1>1, <2>1, <3>1 DEF IsData
    <3> QED BY <1>1, <1>4, <2>1, <3>1, <3>2 DEF WriterIsLast, n
  <2>2. ASSUME \A i \in 1..Len(t) : ~IsData(t[i]) PROVE SamePlace(w, r)
    <3>1. \A i \in 1..n : ~IsData(s[i])
      BY <1>1, <2>2
    <3> QED BY <1>4, <3>1 DEF WriterIsLast, n
  <2> QED BY <2>1, <2>2 DEF WriterIsLast
<1> QED BY <1>2, <1>3, <1>4 DEF t

\* A data frame goes on from where the writer is.
LEMMA AppendData ==
  ASSUME NEW s \in Seq(Frame), NEW f \in Frame, IsData(f), NEW w, NEW r,
         w.open \in BOOLEAN, r.final \in BOOLEAN,
         FollowsWriter(f, w), InSequence(s), FirstFollows(s, r), WriterIsLast(s, w, r)
  PROVE  /\ InSequence(Append(s, f))
         /\ FirstFollows(Append(s, f), r)
         /\ WriterIsLast(Append(s, f), [open |-> ~f.final, msg |-> f.msg, place |-> f.place], r)
<1> DEFINE t == Append(s, f)
           n == Len(s)
<1>1. t \in Seq(Frame) /\ Len(t) = n + 1 /\ n \in Nat /\ (\A i \in 1..n : t[i] = s[i]) /\ t[n + 1] = f
  BY Appended
<1>0. \A i \in 1..n : s[i].final \in BOOLEAN
  <2>1. \A i \in 1..n : s[i] \in Frame
    BY ElementOfSeq
  <2> QED BY <2>1 DEF Frame
<1> HIDE DEF t, n
<1>2. InSequence(t)
  <2> SUFFICES ASSUME NEW i \in 1..Len(t), NEW j \in 1..Len(t), i < j, IsData(t[i]), IsData(t[j]),
                      \A k \in (i + 1)..(j - 1) : ~IsData(t[k])
               PROVE  Follows(t[j], t[i])
    BY DEF InSequence
  <2>1. i \in 1..n
    BY <1>1
  <2>2. CASE j \in 1..n
    <3>1. \A k \in (i + 1)..(j - 1) : ~IsData(s[k])
      BY <1>1, <2>1, <2>2 DEF IsData
    <3> QED BY <1>1, <2>1, <2>2, <3>1 DEF InSequence, n
  <2>3. CASE j = n + 1
    <3>1. \A k \in (i + 1)..n : ~IsData(s[k])
      BY <1>1, <2>1, <2>3 DEF IsData
    <3>2. w.open = ~s[i].final /\ w.msg = s[i].msg /\ w.place = s[i].place
      BY <1>1, <2>1, <3>1 DEF WriterIsLast, n
    <3>3. t[i] = s[i] /\ t[j] = f /\ s[i].final \in BOOLEAN
      BY <1>0, <1>1, <2>1, <2>3
    <3> QED BY <3>2, <3>3 DEF Follows, FollowsWriter
  <2> QED BY <1>1, <2>2, <2>3
<1>3. FirstFollows(t, r)
  <2> SUFFICES ASSUME GoesOn(r), NEW j \in 1..Len(t), IsData(t[j]), \A k \in 1..(j - 1) : ~IsData(t[k])
               PROVE  FollowsReader(t[j], r)
    BY DEF FirstFollows
  <2>1. CASE j \in 1..n
    <3>1. \A k \in 1..(j - 1) : ~IsData(s[k])
      <4> SUFFICES ASSUME NEW k \in 1..(j - 1) PROVE ~IsData(s[k])
        OBVIOUS
      <4>1. k \in 1..n /\ t[k] = s[k]
        BY <1>1, <2>1
      <4> QED BY <4>1
    <3> QED BY <1>1, <2>1, <3>1 DEF FirstFollows, n
  <2>2. CASE j = n + 1
    <3>1. \A k \in 1..n : ~IsData(s[k])
      BY <1>1, <2>2 DEF IsData
    <3>2. SamePlace(w, r) /\ t[j] = f
      BY <1>1, <2>2, <3>1 DEF WriterIsLast, n
    <3> QED BY <3>2 DEF SamePlace, FollowsReader, FollowsWriter
  <2> QED BY <1>1, <2>1, <2>2
<1>4. WriterIsLast(t, [open |-> ~f.final, msg |-> f.msg, place |-> f.place], r)
  <2>1. ASSUME NEW i \in 1..Len(t), IsData(t[i]), \A k \in (i + 1)..Len(t) : ~IsData(t[k])
        PROVE  t[i] = f
    <3>1. i = n + 1
      <4>1. i # n + 1 => n + 1 \in (i + 1)..Len(t)
        BY <1>1
      <4> QED BY <1>1, <2>1, <4>1
    <3> QED BY <1>1, <3>1
  <2>2. ~\A i \in 1..Len(t) : ~IsData(t[i])
    BY <1>1
  <2> QED BY <2>1, <2>2 DEF WriterIsLast
<1> QED BY <1>2, <1>3, <1>4 DEF t

\* A control frame that is taken changes nothing for the data frames.
LEMMA TakeControl ==
  ASSUME NEW s \in Seq(Frame), s # <<>>, ~IsData(Head(s)), NEW w, NEW r
  PROVE  /\ InSequence(s) => InSequence(Tail(s))
         /\ FirstFollows(s, r) => FirstFollows(Tail(s), r)
         /\ WriterIsLast(s, w, r) => WriterIsLast(Tail(s), w, r)
<1> DEFINE t == Tail(s)
           n == Len(s) - 1
<1>1. /\ Len(t) = n /\ n \in Nat /\ Len(s) = n + 1 /\ ~IsData(s[1])
      /\ \A i \in 1..n : t[i] = s[i + 1] /\ i + 1 \in 1..Len(s)
  BY Taken
<1> HIDE DEF t, n
<1>2. ASSUME InSequence(s) PROVE InSequence(t)
  <2> SUFFICES ASSUME NEW i \in 1..n, NEW j \in 1..n, i < j, IsData(t[i]), IsData(t[j]),
                      \A k \in (i + 1)..(j - 1) : ~IsData(t[k])
               PROVE  Follows(t[j], t[i])
    BY <1>1 DEF InSequence
  <2>1. \A k \in (i + 2)..j : ~IsData(s[k])
    <3> SUFFICES ASSUME NEW k \in (i + 2)..j PROVE ~IsData(s[k])
      OBVIOUS
    <3>1. k - 1 \in (i + 1)..(j - 1) /\ k - 1 \in 1..n /\ (k - 1) + 1 = k
      BY <1>1
    <3> QED BY <1>1, <3>1
  <2>2. /\ i + 1 \in 1..Len(s) /\ j + 1 \in 1..Len(s) /\ i + 1 < j + 1
        /\ ((i + 1) + 1)..((j + 1) - 1) = (i + 2)..j
        /\ t[i] = s[i + 1] /\ t[j] = s[j + 1]
    BY <1>1
  <2> QED BY <1>2, <2>1, <2>2 DEF InSequence
<1>3. ASSUME FirstFollows(s, r) PROVE FirstFollows(t, r)
  <2> SUFFICES ASSUME GoesOn(r), NEW j \in 1..n, IsData(t[j]), \A k \in 1..(j - 1) : ~IsData(t[k])
               PROVE  FollowsReader(t[j], r)
    BY <1>1 DEF FirstFollows
  <2>1. \A k \in 1..((j + 1) - 1) : ~IsData(s[k])
    <3> SUFFICES ASSUME NEW k \in 1..((j + 1) - 1), k # 1 PROVE ~IsData(s[k])
      BY <1>1
    <3>1. k - 1 \in 1..(j - 1) /\ k - 1 \in 1..n /\ (k - 1) + 1 = k
      BY <1>1
    <3> QED BY <1>1, <3>1
  <2>2. j + 1 \in 1..Len(s) /\ t[j] = s[j + 1]
    BY <1>1
  <2> QED BY <1>3, <2>1, <2>2 DEF FirstFollows
<1>4. ASSUME WriterIsLast(s, w, r) PROVE WriterIsLast(t, w, r)
  <2>1. ASSUME NEW i \in 1..n, IsData(t[i]), \A k \in (i + 1)..n : ~IsData(t[k])
        PROVE  w.open = ~t[i].final /\ w.msg = t[i].msg /\ w.place = t[i].place
    <3>1. \A k \in ((i + 1) + 1)..Len(s) : ~IsData(s[k])
      <4> SUFFICES ASSUME NEW k \in ((i + 1) + 1)..Len(s) PROVE ~IsData(s[k])
        OBVIOUS
      <4>1. k - 1 \in (i + 1)..n /\ k - 1 \in 1..n /\ (k - 1) + 1 = k
        BY <1>1
      <4> QED BY <1>1, <2>1, <4>1
    <3>2. i + 1 \in 1..Len(s) /\ t[i] = s[i + 1]
      BY <1>1
    <3> QED BY <1>4, <2>1, <3>1, <3>2 DEF WriterIsLast
  <2>2. ASSUME \A i \in 1..n : ~IsData(t[i]) PROVE SamePlace(w, r)
    <3>1. \A i \in 1..Len(s) : ~IsData(s[i])
      <4> SUFFICES ASSUME NEW i \in 1..Len(s), i # 1 PROVE ~IsData(s[i])
        BY <1>1
      <4>1. i - 1 \in 1..n /\ (i - 1) + 1 = i
        BY <1>1
      <4> QED BY <1>1, <2>2, <4>1
    <3> QED BY <1>4, <3>1 DEF WriterIsLast
  <2> QED BY <1>1, <2>1, <2>2 DEF WriterIsLast
<1> QED BY <1>2, <1>3, <1>4 DEF t

\* A data frame that is taken moves the reader to where it is, or ends reading.
LEMMA TakeData ==
  ASSUME NEW s \in Seq(Frame), s # <<>>, IsData(Head(s)), NEW w, NEW r,
         GoesOn(r) => /\ r.final = Head(s).final
                      /\ r.at = "message" => r.msg = Head(s).msg /\ r.count = Head(s).place,
         InSequence(s)
  PROVE  /\ InSequence(Tail(s)) /\ FirstFollows(Tail(s), r)
         /\ \A old : WriterIsLast(s, w, old) => WriterIsLast(Tail(s), w, r)
<1> DEFINE t == Tail(s)
           n == Len(s) - 1
<1>1. /\ Len(t) = n /\ n \in Nat /\ Len(s) = n + 1 /\ IsData(s[1]) /\ Head(s) = s[1]
      /\ s[1].final \in BOOLEAN
      /\ \A i \in 1..n : t[i] = s[i + 1] /\ i + 1 \in 1..Len(s)
  <2>1. /\ Len(t) = n /\ Len(s) \in Nat \ {0} /\ Head(s) = s[1] /\ Head(s) \in Frame
        /\ \A i \in 1..Len(t) : t[i] = s[i + 1]
    BY Taken
  <2>2. Head(s).final \in BOOLEAN
    BY <2>1 DEF Frame
  <2> QED BY <2>1, <2>2
<1> HIDE DEF t, n
<1>2. InSequence(t)
  <2> SUFFICES ASSUME NEW i \in 1..n, NEW j \in 1..n, i < j, IsData(t[i]), IsData(t[j]),
                      \A k \in (i + 1)..(j - 1) : ~IsData(t[k])
               PROVE  Follows(t[j], t[i])
    BY <1>1 DEF InSequence
  <2>1. \A k \in (i + 2)..j : ~IsData(s[k])
    <3> SUFFICES ASSUME NEW k \in (i + 2)..j PROVE ~IsData(s[k])
      OBVIOUS
    <3>1. k - 1 \in (i + 1)..(j - 1) /\ k - 1 \in 1..n /\ (k - 1) + 1 = k
      BY <1>1
    <3> QED BY <1>1, <3>1
  <2>2. /\ i + 1 \in 1..Len(s) /\ j + 1 \in 1..Len(s) /\ i + 1 < j + 1
        /\ ((i + 1) + 1)..((j + 1) - 1) = (i + 2)..j
        /\ t[i] = s[i + 1] /\ t[j] = s[j + 1]
    BY <1>1
  <2> QED BY <2>1, <2>2 DEF InSequence
<1>3. FirstFollows(t, r)
  <2> SUFFICES ASSUME GoesOn(r), NEW j \in 1..n, IsData(t[j]), \A k \in 1..(j - 1) : ~IsData(t[k])
               PROVE  FollowsReader(t[j], r)
    BY <1>1 DEF FirstFollows
  <2>1. \A k \in (1 + 1)..((j + 1) - 1) : ~IsData(s[k])
    <3> SUFFICES ASSUME NEW k \in (1 + 1)..((j + 1) - 1) PROVE ~IsData(s[k])
      OBVIOUS
    <3>1. k - 1 \in 1..(j - 1) /\ k - 1 \in 1..n /\ (k - 1) + 1 = k
      BY <1>1
    <3> QED BY <1>1, <3>1
  <2>2. 1 \in 1..Len(s) /\ j + 1 \in 1..Len(s) /\ 1 < j + 1 /\ t[j] = s[j + 1]
    BY <1>1
  <2>3. Follows(s[j + 1], s[1])
    BY <1>1, <2>1, <2>2 DEF InSequence
  <2> QED BY <1>1, <2>2, <2>3 DEF Follows, FollowsReader
<1>4. ASSUME NEW old, WriterIsLast(s, w, old) PROVE WriterIsLast(t, w, r)
  <2>1. ASSUME NEW i \in 1..n, IsData(t[i]), \A k \in (i + 1)..n : ~IsData(t[k])
        PROVE  w.open = ~t[i].final /\ w.msg = t[i].msg /\ w.place = t[i].place
    <3>1. \A k \in ((i + 1) + 1)..Len(s) : ~IsData(s[k])
      <4> SUFFICES ASSUME NEW k \in ((i + 1) + 1)..Len(s) PROVE ~IsData(s[k])
        OBVIOUS
      <4>1. k - 1 \in (i + 1)..n /\ k - 1 \in 1..n /\ (k - 1) + 1 = k
        BY <1>1
      <4> QED BY <1>1, <2>1, <4>1
    <3>2. i + 1 \in 1..Len(s) /\ t[i] = s[i + 1]
      BY <1>1
    <3> QED BY <1>4, <2>1, <3>1, <3>2 DEF WriterIsLast
  <2>2. ASSUME \A i \in 1..n : ~IsData(t[i]) PROVE SamePlace(w, r)
    <3>1. \A i \in (1 + 1)..Len(s) : ~IsData(s[i])
      <4> SUFFICES ASSUME NEW i \in (1 + 1)..Len(s) PROVE ~IsData(s[i])
        OBVIOUS
      <4>1. i - 1 \in 1..n /\ (i - 1) + 1 = i
        BY <1>1
      <4> QED BY <1>1, <2>2, <4>1
    <3>2. 1 \in 1..Len(s)
      BY <1>1
    <3>3. w.open = ~s[1].final /\ w.msg = s[1].msg /\ w.place = s[1].place
      BY <1>1, <1>4, <3>1, <3>2 DEF WriterIsLast
    <3> QED BY <1>1, <3>3 DEF SamePlace
  <2> QED BY <1>1, <2>1, <2>2 DEF WriterIsLast
<1> QED BY <1>2, <1>3, <1>4 DEF t

\* A reader that leaves its message, or gives up, asks for less.
LEMMA ReaderWeakens ==
  ASSUME NEW s \in Seq(Frame), NEW w, NEW r, NEW q,
         GoesOn(q) => GoesOn(r) /\ q.final = r.final /\ q.at = "next"
  PROVE  /\ FirstFollows(s, r) => FirstFollows(s, q)
         /\ WriterIsLast(s, w, r) => WriterIsLast(s, w, q)
<1>1. \A f : GoesOn(q) /\ FollowsReader(f, r) => FollowsReader(f, q)
  BY DEF FollowsReader
<1>2. SamePlace(w, r) => SamePlace(w, q)
  BY DEF SamePlace
<1> QED BY <1>1, <1>2 DEF FirstFollows, WriterIsLast

-----------------------------------------------------------------------------
(* One step of an end.                                                       *)

\* The types of some variables.
Jobs == [End -> [Goroutine -> [pc: {"none", "wait", "locked"}, frame: Frame]]]
Writers == [End -> [open: BOOLEAN, msg: Nat, place: Nat]]
Readers == [End -> [at: {"next", "message", "closed", "limit"}, final: BOOLEAN,
                    length: Nat, msg: Nat, count: Nat]]
ReadErrs == [End -> {"none", "closed", "limit", "eof", "failed"}]

\* An end and its peer are the two ends.
LEMMA TwoEnds ==
  ASSUME NEW e \in End
  PROVE  /\ Peer(e) \in End /\ Peer(e) # e /\ Peer(Peer(e)) = e
         /\ \A x \in End : x = e \/ x = Peer(e)
BY WebSocketAssumption DEF End, Peer

\* What the invariant says of an end and its peer.
LEMMA SocketTypes ==
  ASSUME SocketInv, NEW e \in End
  PROVE  /\ SocketTypeOK /\ Peer(e) \in End /\ Peer(e) # e /\ Peer(Peer(e)) = e
         /\ JobsFit(e) /\ JobsFit(Peer(e)) /\ StreamInOrder(e) /\ StreamInOrder(Peer(e))
         /\ job \in Jobs /\ writer \in Writers /\ reader \in Readers /\ readErr \in ReadErrs
         /\ mu \in [End -> Goroutine \cup {"none"}]
         /\ \A h \in Goroutine : job[e][h].pc = "locked" <=> mu[e] = h
BY TwoEnds DEF SocketInv, SocketTypeOK, Jobs, Writers, Readers, ReadErrs

\* What the end of a write, finished or given up, does to one goroutine of e and to its
\* writer and reader.
Ended(e, g, result) ==
    /\ job' \in Jobs
    /\ job'[e][g] = NoJob /\ job'[Peer(e)] = job[Peer(e)]
    /\ \A h \in Goroutine \ {g} : job'[e][h] = job[e][h]
    /\ writer' \in Writers
    /\ writer'[Peer(e)] = writer[Peer(e)]
    /\ g # "writer" => writer'[e] = writer[e]
    /\ g = "writer" =>
          writer'[e] = [open |-> result = "ok" /\ ~job[e][g].frame.final,
                        msg |-> job[e][g].frame.msg, place |-> job[e][g].frame.place]
    /\ readErr' \in ReadErrs

\* What the end of a write does to the goroutine, the writer and the reader.
LEMMA Finished ==
  ASSUME SocketTypeOK, NEW e \in End, JobsFit(e), NEW g \in Goroutine,
         NEW result, FrameDone(e, g, result)
  PROVE  Ended(e, g, result)
<1> DEFINE J == [pc: {"none", "wait", "locked"}, frame: Frame]
<1>1. NoJob \in J /\ job \in [End -> [Goroutine -> J]]
  BY DEF NoJob, ControlFrame, Frame, Control, Data, SocketTypeOK
<1>2. job' = [job EXCEPT ![e][g] = NoJob]
  BY DEF FrameDone
<1> HIDE DEF J
<1>3. /\ job' \in [End -> [Goroutine -> J]]
      /\ job'[e][g] = NoJob /\ job'[Peer(e)] = job[Peer(e)]
      /\ \A h \in Goroutine \ {g} : job'[e][h] = job[e][h]
  BY <1>1, <1>2, TwoEnds
<1>4. job[e][g].frame \in Frame
  BY <1>1 DEF J
<1>5. /\ writer \in [End -> [open: BOOLEAN, msg: Nat, place: Nat]]
      /\ readErr \in [End -> {"none", "closed", "limit", "eof", "failed"}]
  BY DEF SocketTypeOK
<1>6. /\ writer' \in [End -> [open: BOOLEAN, msg: Nat, place: Nat]]
      /\ writer'[Peer(e)] = writer[Peer(e)]
      /\ g # "writer" => writer'[e] = writer[e]
      /\ g = "writer" =>
            writer'[e] = [open |-> result = "ok" /\ ~job[e][g].frame.final,
                                        msg |-> job[e][g].frame.msg, place |-> job[e][g].frame.place]
  BY <1>4, <1>5, TwoEnds DEF FrameDone, Frame
<1>7. readErr' \in [End -> {"none", "closed", "limit", "eof", "failed"}]
  <2>1. g = "reader" /\ job[e][g].frame.op = "close" => reader[e].at \in {"closed", "limit"}
    BY DEF JobsFit
  <2> QED BY <1>5, <2>1 DEF FrameDone
<1> QED BY <1>3, <1>6, <1>7 DEF J, Jobs, Writers, ReadErrs, Ended

\* A stream nobody touches stays in order.
LEMMA StreamStays ==
  ASSUME NEW x \in End, StreamInOrder(x), wire'[Peer(x)] = wire[Peer(x)],
         reader'[Peer(x)] = reader[Peer(x)],
         writeErr'[x] = "none" => writeErr[x] = "none" /\ writer'[x] = writer[x]
  PROVE  StreamInOrder(x)'
BY DEF StreamInOrder

\* An end that does nothing goes on with its frames.
LEMMA JobsStay ==
  ASSUME NEW x \in End, JobsFit(x), job'[x] = job[x], writer'[x] = writer[x],
         writeErr'[x] = writeErr[x], reader'[x] = reader[x],
         Len(wire[Peer(x)]) \in Int, Len(wire'[Peer(x)]) \in Int,
         Len(wire'[Peer(x)]) <= Len(wire[Peer(x)])
  PROVE  JobsFit(x)'
<1>1. writeErr[x] # "failed" => Len(wire'[Peer(x)]) <= Capacity
  BY WebSocketAssumption DEF JobsFit
<1> QED BY <1>1 DEF JobsFit

\* One goroutine of one end takes mu, or lets it go, or neither.
LEMMA HolderMoves ==
  ASSUME SocketTypeOK, NEW e \in End, NEW g \in Goroutine,
         job'[Peer(e)] = job[Peer(e)], \A h \in Goroutine \ {g} : job'[e][h] = job[e][h],
         mu'[Peer(e)] = mu[Peer(e)], \A h \in Goroutine \ {g} : mu'[e] = h <=> mu[e] = h,
         job'[e][g].pc = "locked" <=> mu'[e] = g
  PROVE  \A x \in End, h \in Goroutine : job'[x][h].pc = "locked" <=> mu'[x] = h
<1>1. \A x \in End, h \in Goroutine : job[x][h].pc = "locked" <=> mu[x] = h
  BY DEF SocketTypeOK
<1>2. \A h \in Goroutine : job'[Peer(e)][h].pc = "locked" <=> mu'[Peer(e)] = h
  BY <1>1, TwoEnds
<1>3. \A h \in Goroutine : job'[e][h].pc = "locked" <=> mu'[e] = h
  BY <1>1
<1> QED BY <1>2, <1>3, TwoEnds

\* mu is taken by one goroutine when no error has been met.
LEMMA AcquireInv ==
  ASSUME SocketInv, NEW e \in End, NEW g \in Goroutine, Acquire(e, g)
  PROVE  SocketInv'
<1>0. /\ SocketTypeOK /\ Peer(e) \in End /\ Peer(e) # e /\ Peer(Peer(e)) = e
      /\ JobsFit(e) /\ JobsFit(Peer(e)) /\ StreamInOrder(e) /\ StreamInOrder(Peer(e))
      /\ job \in Jobs /\ writer \in Writers /\ reader \in Readers /\ readErr \in ReadErrs
      /\ mu \in [End -> Goroutine \cup {"none"}]
      /\ \A h \in Goroutine : job[e][h].pc = "locked" <=> mu[e] = h
  BY SocketTypes
<1>1. /\ job[e][g].pc = "wait" /\ mu[e] = "none" /\ writeErr[e] = "none"
      /\ mu' = [mu EXCEPT ![e] = g] /\ job' = [job EXCEPT ![e][g].pc = "locked"]
      /\ UNCHANGED <<wire, writeErr, writer, reader, readErr, closed, sent, mixed>>
  BY DEF Acquire
<1>2. job' \in Jobs
  <2>1. job[e][g] \in [pc: {"none", "wait", "locked"}, frame: Frame]
    BY <1>0 DEF Jobs
  <2>2. [job[e][g] EXCEPT !.pc = "locked"] \in [pc: {"none", "wait", "locked"}, frame: Frame]
    BY <2>1
  <2> QED BY <1>0, <1>1, <2>2 DEF Jobs
<1>3. /\ job'[e][g] = [job[e][g] EXCEPT !.pc = "locked"] /\ job'[Peer(e)] = job[Peer(e)]
      /\ \A h \in Goroutine \ {g} : job'[e][h] = job[e][h]
  BY <1>0, <1>1 DEF Jobs
<1>4. job'[e][g].pc = "locked" /\ job'[e][g].frame = job[e][g].frame
  BY <1>0, <1>3 DEF Jobs
<1>5. /\ mu' \in [End -> Goroutine \cup {"none"}] /\ mu'[e] = g /\ mu'[Peer(e)] = mu[Peer(e)]
      /\ "none" \notin Goroutine
  BY <1>0, <1>1 DEF Goroutine
<1>6. \A x \in End, h \in Goroutine : job'[x][h].pc = "locked" <=> mu'[x] = h
  BY <1>0, <1>1, <1>3, <1>4, <1>5, HolderMoves
<1>7. SocketTypeOK'
  BY <1>0, <1>1, <1>2, <1>5, <1>6 DEF Jobs, Writers, Readers, ReadErrs, SocketTypeOK
<1>8. LastFrameIsLast' /\ MessagesArriveWhole' /\ wire' \in [End -> Seq(Frame)]
  BY <1>1 DEF SocketInv, LastFrameIsLast, MessagesArriveWhole
<1>9. StreamInOrder(e)' /\ StreamInOrder(Peer(e))'
  BY <1>0, <1>1 DEF SocketInv, StreamInOrder
<1>10. JobsFit(Peer(e))'
  BY <1>0, <1>1, <1>3 DEF SocketInv, JobsFit
<1>11. JobsFit(e)'
  <2>1. JobsFit(e)
    BY DEF SocketInv
  <2>2. job'[e]["reader"].frame = job[e]["reader"].frame
    BY <1>3, <1>4 DEF Goroutine
  <2>3. job[e][g].pc # "none" /\ job'[e][g].pc # "none" /\ job'[e][g] # NoJob
    BY <1>1, <1>4 DEF NoJob
  <2> QED BY <1>1, <1>3, <1>4, <2>1, <2>2, <2>3 DEF JobsFit
<1> QED BY <1>7, <1>8, <1>9, <1>10, <1>11, TwoEnds DEF SocketInv

\* A write is given up: an error was met before it, or the deadline passed.
LEMMA GivenUpInv ==
  ASSUME SocketInv, NEW e \in End, NEW g \in Goroutine, Refused(e, g) \/ TimesOut(e, g)
  PROVE  SocketInv'
<1>0. /\ SocketTypeOK /\ Peer(e) \in End /\ Peer(e) # e /\ Peer(Peer(e)) = e
      /\ JobsFit(e) /\ JobsFit(Peer(e)) /\ StreamInOrder(e) /\ StreamInOrder(Peer(e))
      /\ job \in Jobs /\ writer \in Writers /\ reader \in Readers /\ readErr \in ReadErrs
      /\ mu \in [End -> Goroutine \cup {"none"}]
      /\ \A h \in Goroutine : job[e][h].pc = "locked" <=> mu[e] = h
  BY SocketTypes
<1>1. PICK result : FrameDone(e, g, result)
  BY DEF Refused, TimesOut
<1>2. /\ job[e][g].pc = "wait"
      /\ g = "writer" => writeErr[e] # "none"
      /\ UNCHANGED <<wire, mu, writeErr, reader, closed, sent, mixed>>
  BY DEF Refused, TimesOut
<1>3. /\ job' \in Jobs
      /\ job'[e][g] = NoJob /\ job'[Peer(e)] = job[Peer(e)]
      /\ \A h \in Goroutine \ {g} : job'[e][h] = job[e][h]
      /\ writer' \in Writers
      /\ writer'[Peer(e)] = writer[Peer(e)]
      /\ g # "writer" => writer'[e] = writer[e]
      /\ readErr' \in ReadErrs
  <2>1. Ended(e, g, result)
    BY <1>0, <1>1, Finished
  <2> QED BY <2>1 DEF Ended
<1>4. \A x \in End, h \in Goroutine : job'[x][h].pc = "locked" <=> mu'[x] = h
  <2>1. job'[e][g].pc # "locked" /\ mu[e] # g
    BY <1>0, <1>2, <1>3 DEF NoJob
  <2> QED BY <1>0, <1>2, <1>3, <2>1, HolderMoves
<1>5. SocketTypeOK'
  BY <1>0, <1>2, <1>3, <1>4 DEF Jobs, Writers, Readers, ReadErrs, SocketTypeOK
<1>6. LastFrameIsLast' /\ MessagesArriveWhole' /\ wire' \in [End -> Seq(Frame)]
  BY <1>2 DEF SocketInv, LastFrameIsLast, MessagesArriveWhole
<1>7. StreamInOrder(e)' /\ StreamInOrder(Peer(e))'
  <2>1. writeErr[e] = "none" => writer'[e] = writer[e]
    BY <1>2, <1>3
  <2>2. StreamInOrder(e) /\ StreamInOrder(Peer(e))
    BY <1>0 DEF SocketInv
  <2> QED BY <1>2, <1>3, <2>1, <2>2 DEF StreamInOrder
<1>8. JobsFit(Peer(e))'
  BY <1>0, <1>2, <1>3 DEF JobsFit
<1>9. JobsFit(e)'
  <2>1. job'[e]["reader"].frame.op = "close" => reader'[e].at \in {"closed", "limit"}
    BY <1>0, <1>2, <1>3 DEF JobsFit, NoJob, ControlFrame, Goroutine
  <2>2. \A h \in Goroutine \ {g} :
          job'[e][h].pc # "none" =>
             IF h = "writer" THEN FollowsWriter(job'[e][h].frame, writer'[e])
             ELSE job'[e][h].frame.op \in Control
    BY <1>0, <1>3 DEF JobsFit
  <2>3. job'[e][g].pc = "none"
    BY <1>3 DEF NoJob
  <2> QED BY <1>0, <1>2, <1>3, <2>1, <2>2, <2>3 DEF JobsFit
<1> QED BY <1>5, <1>6, <1>7, <1>8, <1>9, TwoEnds DEF SocketInv

\* A goroutine begins to write a frame of its kind.
LEMMA BeginInv ==
  ASSUME SocketInv, NEW e \in End, NEW g \in Goroutine, NEW f \in Frame,
         job[e][g] = NoJob, Begin(e, g, f), f.op = "close" => g # "reader",
         IF g = "writer" THEN FollowsWriter(f, writer[e]) ELSE f.op \in Control,
         sent' \in [End -> [pings: Nat, closes: Nat]],
         UNCHANGED <<wire, mu, writeErr, writer, reader, readErr, closed, mixed>>
  PROVE  SocketInv'
<1>0. /\ SocketTypeOK /\ Peer(e) \in End /\ Peer(e) # e /\ Peer(Peer(e)) = e
      /\ JobsFit(e) /\ JobsFit(Peer(e)) /\ StreamInOrder(e) /\ StreamInOrder(Peer(e))
      /\ job \in Jobs /\ writer \in Writers /\ reader \in Readers /\ readErr \in ReadErrs
      /\ mu \in [End -> Goroutine \cup {"none"}]
      /\ \A h \in Goroutine : job[e][h].pc = "locked" <=> mu[e] = h
  BY SocketTypes
<1>1. /\ job' \in Jobs
      /\ job'[e][g] = [pc |-> "wait", frame |-> f] /\ job'[Peer(e)] = job[Peer(e)]
      /\ \A h \in Goroutine \ {g} : job'[e][h] = job[e][h]
  <2> DEFINE J == [pc: {"none", "wait", "locked"}, frame: Frame]
             new == [pc |-> "wait", frame |-> f]
  <2>1. new \in J /\ job \in [End -> [Goroutine -> J]] /\ job' = [job EXCEPT ![e][g] = new]
    BY <1>0 DEF Begin, Waiting, Jobs
  <2> HIDE DEF J, new
  <2>2. job' \in [End -> [Goroutine -> J]]
    BY <2>1
  <2>3. /\ job'[e][g] = new /\ job'[Peer(e)] = job[Peer(e)]
        /\ \A h \in Goroutine \ {g} : job'[e][h] = job[e][h]
    BY <1>0, <2>1
  <2> QED BY <2>2, <2>3 DEF J, Jobs, new
<1>2. \A x \in End, h \in Goroutine : job'[x][h].pc = "locked" <=> mu'[x] = h
  <2>1. job'[e][g].pc # "locked" /\ mu[e] # g
    BY <1>0, <1>1 DEF NoJob
  <2> QED BY <1>0, <1>1, <2>1, HolderMoves
<1>3. SocketTypeOK'
  BY <1>0, <1>1, <1>2 DEF Jobs, Writers, Readers, ReadErrs, SocketTypeOK
<1>4. LastFrameIsLast' /\ MessagesArriveWhole' /\ wire' \in [End -> Seq(Frame)]
  BY DEF SocketInv, LastFrameIsLast, MessagesArriveWhole
<1>5. StreamInOrder(e)' /\ StreamInOrder(Peer(e))'
  BY <1>0 DEF SocketInv, StreamInOrder
<1>6. JobsFit(Peer(e))'
  BY <1>0, <1>1 DEF JobsFit
<1>7. JobsFit(e)'
  <2>1. /\ job'[e][g].pc # "none" /\ job'[e][g].pc # "locked" /\ job'[e][g] # NoJob
        /\ job'[e][g].frame = f
    BY <1>1 DEF NoJob
  <2>2. job'[e]["reader"].frame.op = "close" => reader'[e].at \in {"closed", "limit"}
    BY <1>0, <1>1, <2>1 DEF JobsFit, Goroutine
  <2> QED BY <1>0, <1>1, <2>1, <2>2, SMTT(20) DEF JobsFit
<1> QED BY <1>3, <1>4, <1>5, <1>6, <1>7, TwoEnds DEF SocketInv

\* The writer begins the frame that follows its last one.
LEMMA FlushFrameInv ==
  ASSUME SocketInv, NEW e \in End, NEW final \in BOOLEAN, FlushFrame(e, final)
  PROVE  SocketInv'
<1> DEFINE w == writer[e]
           f == [op |-> IF w.open THEN "continuation" ELSE "text", final |-> final,
                 msg |-> IF w.open THEN w.msg ELSE w.msg + 1,
                 place |-> IF w.open THEN w.place + 1 ELSE 1]
<1>1. w \in [open: BOOLEAN, msg: Nat, place: Nat] /\ sent \in [End -> [pings: Nat, closes: Nat]]
  BY DEF SocketInv, SocketTypeOK
<1>2. f \in Frame /\ FollowsWriter(f, w) /\ f.op # "close"
  BY <1>1 DEF Frame, Data, FollowsWriter
<1>3. /\ job[e]["writer"] = NoJob /\ Begin(e, "writer", f)
      /\ UNCHANGED <<wire, mu, writeErr, writer, reader, readErr, closed, sent, mixed>>
  BY DEF FlushFrame
<1> HIDE DEF f
<1> QED BY <1>1, <1>2, <1>3, BeginInv DEF Goroutine

\* WriteControl begins a ping or a close.
LEMMA SendControlInv ==
  ASSUME SocketInv, NEW e \in End, SendPing(e) \/ SendClose(e)
  PROVE  SocketInv'
<1>1. ControlFrame("ping") \in Frame /\ ControlFrame("close") \in Frame
  BY DEF ControlFrame, Frame, Control
<1>2. sent' \in [End -> [pings: Nat, closes: Nat]]
  <2>1. sent \in [End -> [pings: Nat, closes: Nat]]
    BY DEF SocketInv, SocketTypeOK
  <2> QED BY <2>1 DEF SendPing, SendClose
<1>3. ControlFrame("ping").op \in Control /\ ControlFrame("close").op \in Control
  BY DEF ControlFrame, Control
<1>4. PICK f \in {ControlFrame("ping"), ControlFrame("close")} :
        /\ job[e]["control"] = NoJob /\ Begin(e, "control", f)
        /\ UNCHANGED <<wire, mu, writeErr, writer, reader, readErr, closed, mixed>>
  BY DEF SendPing, SendClose
<1> QED BY <1>1, <1>2, <1>3, <1>4, BeginInv DEF Goroutine

\* The reader leaves its message.
LEMMA NextReaderInv ==
  ASSUME SocketInv, NEW e \in End, NextReader(e)
  PROVE  SocketInv'
<1>0. /\ SocketTypeOK /\ Peer(e) \in End /\ Peer(e) # e /\ Peer(Peer(e)) = e
      /\ JobsFit(e) /\ JobsFit(Peer(e)) /\ StreamInOrder(e) /\ StreamInOrder(Peer(e))
      /\ job \in Jobs /\ writer \in Writers /\ reader \in Readers /\ readErr \in ReadErrs
      /\ mu \in [End -> Goroutine \cup {"none"}]
      /\ \A h \in Goroutine : job[e][h].pc = "locked" <=> mu[e] = h
  BY SocketTypes
<1>1. /\ reader[e].at = "message" /\ job[e]["reader"] = NoJob
      /\ reader' = [reader EXCEPT ![e] = [@ EXCEPT !.at = "next", !.length = 0, !.count = 0]]
      /\ UNCHANGED <<wire, mu, writeErr, job, writer, readErr, closed, sent, mixed>>
  BY DEF NextReader
<1>2. reader' \in Readers
  <2> DEFINE R == [at: {"next", "message", "closed", "limit"}, final: BOOLEAN, length: Nat, msg: Nat, count: Nat]
             new == [reader[e] EXCEPT !.at = "next", !.length = 0, !.count = 0]
  <2>1. reader \in [End -> R] /\ reader' = [reader EXCEPT ![e] = new]
    BY <1>0, <1>1 DEF Readers
  <2>2. \A r \in R : [r EXCEPT !.at = "next", !.length = 0, !.count = 0] \in R
    OBVIOUS
  <2>3. new \in R
    BY <2>1, <2>2
  <2> HIDE DEF R, new
  <2>4. reader' \in [End -> R]
    BY <2>1, <2>3
  <2> QED BY <2>4 DEF R, Readers
<1>3. /\ reader'[Peer(e)] = reader[Peer(e)] /\ reader'[e].at = "next" /\ reader'[e].count = 0
      /\ reader'[e].final = reader[e].final
  <2>1. reader'[e] = [reader[e] EXCEPT !.at = "next", !.length = 0, !.count = 0]
        /\ reader'[Peer(e)] = reader[Peer(e)]
    BY <1>0, <1>1 DEF Readers
  <2>2. reader[e] \in [at: {"next", "message", "closed", "limit"}, final: BOOLEAN, length: Nat, msg: Nat, count: Nat]
    BY <1>0 DEF Readers
  <2> QED BY <2>1, <2>2
<1>4. SocketTypeOK'
  <2>1. UNCHANGED <<wire, mu, writeErr, job, writer, readErr, closed, sent, mixed>>
    BY <1>1
  <2> QED BY <1>0, <1>2, <2>1, SMTT(20) DEF Jobs, Writers, Readers, ReadErrs, SocketTypeOK
<1>5. LastFrameIsLast' /\ MessagesArriveWhole' /\ wire' \in [End -> Seq(Frame)]
  BY <1>1 DEF SocketInv, LastFrameIsLast, MessagesArriveWhole
<1>6. StreamInOrder(e)'
  BY <1>1, <1>3 DEF SocketInv, StreamInOrder
<1>7. StreamInOrder(Peer(e))'
  <2>1. /\ wire[e] \in Seq(Frame)
        /\ GoesOn(reader'[e]) =>
              GoesOn(reader[e]) /\ reader'[e].final = reader[e].final /\ reader'[e].at = "next"
    BY <1>1, <1>3 DEF GoesOn, SocketInv
  <2>2. /\ FirstFollows(wire[e], reader[e]) => FirstFollows(wire[e], reader'[e])
        /\ WriterIsLast(wire[e], writer[Peer(e)], reader[e]) => WriterIsLast(wire[e], writer[Peer(e)], reader'[e])
    BY <2>1, ReaderWeakens
  <2> QED BY <1>0, <1>1, <2>2 DEF StreamInOrder, SocketInv
<1>8. JobsFit(Peer(e))'
  BY <1>0, <1>1, <1>3 DEF JobsFit
<1>9. JobsFit(e)'
  BY <1>0, <1>1, <1>3 DEF JobsFit, NoJob, ControlFrame
<1> QED BY <1>4, <1>5, <1>6, <1>7, <1>8, <1>9, TwoEnds DEF SocketInv

\* Reading ends without a close frame, or the application closes the connection.
LEMMA EndInv ==
  ASSUME SocketInv, NEW e \in End, UnexpectedEOF(e) \/ CloseConn(e)
  PROVE  SocketInv'
<1>1. UNCHANGED <<wire, mu, writeErr, job, writer, reader, sent, mixed>>
  BY DEF UnexpectedEOF, CloseConn
<1>2. /\ readErr' \in ReadErrs
      /\ closed' \in [End -> BOOLEAN]
  <2>1. /\ readErr \in ReadErrs
        /\ closed \in [End -> BOOLEAN]
    BY DEF SocketInv, SocketTypeOK, ReadErrs
  <2> QED BY <2>1 DEF UnexpectedEOF, CloseConn, ReadErrs
<1>3. SocketTypeOK'
  BY <1>1, <1>2 DEF Jobs, Writers, Readers, ReadErrs, SocketInv, SocketTypeOK
<1>4. LastFrameIsLast' /\ MessagesArriveWhole' /\ wire' \in [End -> Seq(Frame)]
  BY <1>1 DEF SocketInv, LastFrameIsLast, MessagesArriveWhole
<1>5. \A x \in End : StreamInOrder(x)' /\ JobsFit(x)'
  BY <1>1 DEF SocketInv, StreamInOrder, JobsFit
<1> QED BY <1>3, <1>4, <1>5 DEF SocketInv

-----------------------------------------------------------------------------
(* Frames that go onto the stream.                                           *)

\* A frame is added to the stream by the goroutine that holds mu, all of it or a
\* part: what was there is not touched, and no frame that ends the stream was.
LEMMA AddedFrame ==
  ASSUME SocketInv, NEW e \in End, NEW g \in Goroutine, job[e][g].pc = "locked",
         NEW f \in Frame, wire' = [wire EXCEPT ![Peer(e)] = Append(@, f)],
         f.op \in {"close", "cut"} => writeErr'[e] # "none",
         writeErr' \in [End -> {"none", "closeSent", "failed"}],
         writeErr'[Peer(e)] = writeErr[Peer(e)]
  PROVE  /\ wire' \in [End -> Seq(Frame)]
         /\ wire'[Peer(e)] = Append(wire[Peer(e)], f) /\ wire'[e] = wire[e]
         /\ Len(wire'[Peer(e)]) = Len(wire[Peer(e)]) + 1 /\ Len(wire[Peer(e)]) \in Nat
         /\ Len(wire[Peer(e)]) <= Capacity
         /\ \A x \in End : \A i \in 1..Len(wire'[x]) : wire'[x][i] \in Frame
         /\ LastFrameIsLast'
<1> DEFINE p == Peer(e)
<1>0. /\ p \in End /\ p # e /\ Peer(p) = e /\ JobsFit(e) /\ LastFrameIsLast
      /\ wire \in [End -> Seq(Frame)] /\ \A x \in End : x = e \/ x = p
  BY TwoEnds DEF SocketInv
<1>1. /\ wire'[p] = Append(wire[p], f) /\ wire'[e] = wire[e]
      /\ wire' \in [End -> Seq(Frame)]
  <2>1. Append(wire[p], f) \in Seq(Frame)
    BY <1>0, Appended
  <2> QED BY <1>0, <2>1
<1>2. /\ Len(wire'[p]) = Len(wire[p]) + 1 /\ Len(wire[p]) \in Nat
      /\ \A i \in 1..Len(wire[p]) : wire'[p][i] = wire[p][i]
      /\ wire'[p][Len(wire[p]) + 1] = f
  BY <1>0, <1>1, Appended
<1>3. writeErr[e] = "none"
  BY <1>0 DEF JobsFit
<1>4. Len(wire[p]) <= Capacity
  BY <1>0, <1>3 DEF JobsFit
<1>5. \A x \in End : \A i \in 1..Len(wire'[x]) : wire'[x][i] \in Frame
  BY <1>1, ElementOfSeq
<1>6. \A i \in 1..Len(wire'[p]) :
         wire'[p][i].op \in {"close", "cut"} => i = Len(wire'[p]) /\ writeErr'[e] # "none"
  <2> SUFFICES ASSUME NEW i \in 1..Len(wire'[p]), wire'[p][i].op \in {"close", "cut"}
               PROVE  i = Len(wire'[p]) /\ writeErr'[e] # "none"
    OBVIOUS
  <2>1. \A k \in 1..Len(wire[p]) : wire[p][k].op \notin {"close", "cut"}
    BY <1>0, <1>3 DEF LastFrameIsLast
  <2>2. i = Len(wire[p]) + 1
    BY <1>2, <2>1
  <2> QED BY <1>2, <2>2
<1>7. \A i \in 1..Len(wire'[e]) :
         wire'[e][i].op \in {"close", "cut"} => i = Len(wire'[e]) /\ writeErr'[p] # "none"
  BY <1>0, <1>1 DEF LastFrameIsLast
<1>8. LastFrameIsLast'
  BY <1>0, <1>6, <1>7 DEF LastFrameIsLast
<1> QED BY <1>1, <1>2, <1>4, <1>5, <1>8

\* A frame is written: the writer's goes on where the message is, the others' are
\* control frames.
LEMMA WrittenInv ==
  ASSUME SocketInv, NEW e \in End, NEW g \in Goroutine, Written(e, g)
  PROVE  SocketInv'
<1> DEFINE p == Peer(e)
           f == job[e][g].frame
<1>0. /\ SocketTypeOK /\ p \in End /\ p # e /\ Peer(p) = e
      /\ JobsFit(e) /\ JobsFit(p) /\ StreamInOrder(e) /\ StreamInOrder(p)
      /\ job \in Jobs /\ writer \in Writers
      /\ mu \in [End -> Goroutine \cup {"none"}]
      /\ \A h \in Goroutine : job[e][h].pc = "locked" <=> mu[e] = h
  BY SocketTypes
<1>1. /\ job[e][g].pc = "locked" /\ Len(wire[p]) < Capacity
      /\ wire' = [wire EXCEPT ![p] = Append(@, f)]
      /\ writeErr' = IF f.op = "close" THEN [writeErr EXCEPT ![e] = "closeSent"] ELSE writeErr
      /\ mu' = [mu EXCEPT ![e] = "none"] /\ FrameDone(e, g, "ok")
      /\ UNCHANGED <<reader, closed, sent, mixed>>
  BY DEF Written
<1>2. /\ job' \in Jobs /\ job'[e][g] = NoJob /\ job'[p] = job[p]
      /\ \A h \in Goroutine \ {g} : job'[e][h] = job[e][h]
      /\ writer' \in Writers /\ writer'[p] = writer[p]
      /\ g # "writer" => writer'[e] = writer[e]
      /\ g = "writer" => writer'[e] = [open |-> ~f.final, msg |-> f.msg, place |-> f.place]
      /\ readErr' \in ReadErrs
  <2>1. Ended(e, g, "ok")
    BY <1>0, <1>1, Finished
  <2> QED BY <2>1 DEF Ended
<1>3. f \in Frame /\ writeErr[e] = "none"
  BY <1>0, <1>1 DEF Jobs, JobsFit
<1>4. /\ IF g = "writer" THEN FollowsWriter(f, writer[e]) ELSE f.op \in Control
  BY <1>0, <1>1 DEF JobsFit
<1>5. f.op \notin {"cut"} /\ (IsData(f) <=> g = "writer")
  BY <1>4 DEF FollowsWriter, Control, Data, IsData
<1> HIDE DEF f
<1>6. /\ writeErr' \in [End -> {"none", "closeSent", "failed"}] /\ writeErr'[p] = writeErr[p]
      /\ f.op = "close" => writeErr'[e] = "closeSent"
      /\ f.op # "close" => writeErr'[e] = "none"
      /\ writeErr'[e] # "failed"
  <2>1. writeErr \in [End -> {"none", "closeSent", "failed"}]
    BY <1>0 DEF SocketTypeOK
  <2> QED BY <1>0, <1>1, <1>3, <2>1
<1>7. /\ wire' \in [End -> Seq(Frame)]
      /\ wire'[p] = Append(wire[p], f) /\ wire'[e] = wire[e]
      /\ Len(wire'[p]) = Len(wire[p]) + 1 /\ Len(wire[p]) \in Nat
      /\ \A x \in End : \A i \in 1..Len(wire'[x]) : wire'[x][i] \in Frame
      /\ LastFrameIsLast'
  <2>1. f.op \in {"close", "cut"} => writeErr'[e] # "none"
    BY <1>5, <1>6
  <2>2. /\ job[e][g].pc = "locked" /\ wire' = [wire EXCEPT ![Peer(e)] = Append(@, f)]
        /\ writeErr' \in [End -> {"none", "closeSent", "failed"}]
        /\ writeErr'[Peer(e)] = writeErr[Peer(e)]
    BY <1>1, <1>6
  <2> QED BY <1>3, <2>1, <2>2, AddedFrame
<1>8. /\ mu' \in [End -> Goroutine \cup {"none"}] /\ mu'[p] = mu[p] /\ mu'[e] = "none"
      /\ mu[e] = g
  BY <1>0, <1>1
<1>9. \A x \in End, h \in Goroutine : job'[x][h].pc = "locked" <=> mu'[x] = h
  <2>1. job'[e][g].pc # "locked" /\ "none" \notin Goroutine
    BY <1>2 DEF NoJob, Goroutine
  <2>2. \A h \in Goroutine \ {g} : mu'[e] = h <=> mu[e] = h
    BY <1>8, <2>1
  <2> QED BY <1>0, <1>2, <1>8, <2>1, <2>2, HolderMoves
<1>10. SocketTypeOK'
  <2>1. \A x \in End : Len(wire'[x]) <= Capacity + 1
    <3>1. Len(wire'[e]) <= Capacity + 1
      BY <1>0, <1>7 DEF SocketTypeOK
    <3>2. Len(wire'[p]) <= Capacity + 1
      BY <1>1, <1>7, WebSocketAssumption
    <3> QED BY <3>1, <3>2, TwoEnds
  <2>2. UNCHANGED <<reader, closed, sent, mixed>>
    BY <1>1
  <2> QED BY <1>0, <1>2, <1>6, <1>7, <1>8, <1>9, <2>1, <2>2 DEF Jobs, Writers, ReadErrs, SocketTypeOK
<1>11. MessagesArriveWhole'
  BY <1>1 DEF SocketInv, MessagesArriveWhole
<1>12. StreamInOrder(p)'
  BY <1>0, <1>1, <1>2, <1>6, <1>7, StreamStays
<1>13. StreamInOrder(e)'
  <2> DEFINE s == wire[p]
             r == reader[p]
             w == writer[e]
  <2>1. /\ s \in Seq(Frame) /\ InSequence(s) /\ FirstFollows(s, r) /\ WriterIsLast(s, w, r)
        /\ w.open \in BOOLEAN /\ r.final \in BOOLEAN
    BY <1>0, <1>3 DEF StreamInOrder, SocketInv, SocketTypeOK
  <2>2. reader'[p] = r
    BY <1>1
  <2> HIDE DEF s, r, w
  <2>3. CASE g = "writer"
    <3>1. IsData(f) /\ FollowsWriter(f, w)
      BY <1>4, <1>5, <2>3 DEF w
    <3>2. /\ InSequence(Append(s, f)) /\ FirstFollows(Append(s, f), r)
          /\ WriterIsLast(Append(s, f), [open |-> ~f.final, msg |-> f.msg, place |-> f.place], r)
      BY <1>3, <2>1, <3>1, AppendData
    <3>3. /\ InSequence(wire'[p]) /\ FirstFollows(wire'[p], reader'[p])
          /\ WriterIsLast(wire'[p], writer'[e], reader'[p])
      BY <1>2, <1>7, <2>2, <2>3, <3>2 DEF s
    <3> QED BY <3>3 DEF StreamInOrder
  <2>4. CASE g # "writer"
    <3>1. /\ InSequence(Append(s, f)) /\ FirstFollows(Append(s, f), r)
          /\ WriterIsLast(Append(s, f), w, r)
      BY <1>3, <1>5, <2>1, <2>4, AppendControl
    <3>2. /\ InSequence(wire'[p]) /\ FirstFollows(wire'[p], reader'[p])
          /\ WriterIsLast(wire'[p], writer'[e], reader'[p])
      BY <1>2, <1>7, <2>2, <2>4, <3>1 DEF s, w
    <3> QED BY <3>2 DEF StreamInOrder
  <2> QED BY <2>3, <2>4
<1>14. JobsFit(p)'
  BY <1>0, <1>1, <1>2, <1>6, <1>7 DEF JobsFit
<1>15. JobsFit(e)'
  <2>1. job'[e]["reader"].frame.op = "close" => reader'[e].at \in {"closed", "limit"}
    BY <1>0, <1>1, <1>2 DEF JobsFit, NoJob, ControlFrame, Goroutine
  <2>2. \A h \in Goroutine \ {g} :
          /\ job'[e][h].pc = "none" <=> job'[e][h] = NoJob
          /\ job'[e][h].pc # "none" =>
                IF h = "writer" THEN FollowsWriter(job'[e][h].frame, writer'[e])
                ELSE job'[e][h].frame.op \in Control
          /\ job'[e][h].pc # "locked"
    BY <1>0, <1>2, <1>8 DEF JobsFit
  <2>3. job'[e][g].pc = "none" /\ job'[e][g] = NoJob
    BY <1>2 DEF NoJob
  <2>4. Len(wire'[p]) <= Capacity
    BY <1>1, <1>7, WebSocketAssumption
  <2>5. reader'[e].at = "next" => reader'[e].count = 0
    BY <1>0, <1>1 DEF JobsFit
  <2> QED BY <2>1, <2>2, <2>3, <2>4, <2>5 DEF JobsFit
<1> QED BY <1>7, <1>10, <1>11, <1>12, <1>13, <1>14, <1>15, TwoEnds DEF SocketInv

\* A write fails, and may leave a frame cut short, which ends the stream.
LEMMA WriteFailsInv ==
  ASSUME SocketInv, NEW e \in End, NEW g \in Goroutine, WriteFails(e, g)
  PROVE  SocketInv'
<1> DEFINE p == Peer(e)
           cut == ControlFrame("cut")
<1>0. /\ SocketTypeOK /\ p \in End /\ p # e /\ Peer(p) = e
      /\ JobsFit(e) /\ JobsFit(p) /\ StreamInOrder(e) /\ StreamInOrder(p)
      /\ mu \in [End -> Goroutine \cup {"none"}]
      /\ \A h \in Goroutine : job[e][h].pc = "locked" <=> mu[e] = h
  BY SocketTypes
<1>1. /\ job[e][g].pc = "locked"
      /\ wire' \in {wire, [wire EXCEPT ![p] = Append(@, cut)]}
      /\ writeErr' = [writeErr EXCEPT ![e] = "failed"]
      /\ mu' = [mu EXCEPT ![e] = "none"] /\ FrameDone(e, g, "failed")
      /\ UNCHANGED <<reader, closed, sent, mixed>>
  BY DEF WriteFails
<1>2. /\ job' \in Jobs /\ job'[e][g] = NoJob /\ job'[p] = job[p]
      /\ \A h \in Goroutine \ {g} : job'[e][h] = job[e][h]
      /\ writer' \in Writers /\ writer'[p] = writer[p]
      /\ g # "writer" => writer'[e] = writer[e]
      /\ readErr' \in ReadErrs
  <2>1. Ended(e, g, "failed")
    BY <1>0, <1>1, Finished
  <2> QED BY <2>1 DEF Ended
<1>3. cut \in Frame /\ ~IsData(cut)
  BY DEF ControlFrame, Frame, IsData, Data
<1> HIDE DEF cut
<1>4. /\ writeErr' \in [End -> {"none", "closeSent", "failed"}] /\ writeErr'[p] = writeErr[p]
      /\ writeErr'[e] = "failed" /\ writeErr[e] = "none"
  <2>1. writeErr \in [End -> {"none", "closeSent", "failed"}] /\ writeErr[e] = "none"
    BY <1>0, <1>1 DEF SocketTypeOK, JobsFit
  <2> QED BY <1>0, <1>1, <2>1
<1>5. /\ wire' \in [End -> Seq(Frame)] /\ wire'[e] = wire[e]
      /\ Len(wire[p]) <= Capacity /\ Len(wire'[p]) <= Capacity + 1
      /\ \A x \in End : \A i \in 1..Len(wire'[x]) : wire'[x][i] \in Frame
      /\ LastFrameIsLast'
      /\ InSequence(wire'[p]) /\ FirstFollows(wire'[p], reader[p])
  <2>1. /\ wire \in [End -> Seq(Frame)] /\ LastFrameIsLast /\ Len(wire[p]) \in Nat
        /\ Len(wire[p]) <= Capacity
        /\ InSequence(wire[p]) /\ FirstFollows(wire[p], reader[p])
    BY <1>0, <1>4 DEF SocketInv, JobsFit, StreamInOrder
  <2>2. CASE wire' = wire
    <3>1. LastFrameIsLast'
      <4> SUFFICES ASSUME NEW x \in End, NEW i \in 1..Len(wire[x]), wire[x][i].op \in {"close", "cut"}
                   PROVE  i = Len(wire[x]) /\ writeErr'[Peer(x)] # "none"
        BY <2>2 DEF LastFrameIsLast
      <4>1. i = Len(wire[x]) /\ writeErr[Peer(x)] # "none"
        BY <2>1 DEF LastFrameIsLast
      <4> QED BY <1>4, <4>1, TwoEnds
    <3> QED BY <1>0, <2>1, <2>2, <3>1, WebSocketAssumption DEF SocketTypeOK
  <2>3. CASE wire' = [wire EXCEPT ![p] = Append(@, cut)]
    <3>1. /\ wire' \in [End -> Seq(Frame)]
          /\ wire'[p] = Append(wire[p], cut) /\ wire'[e] = wire[e]
          /\ Len(wire'[p]) = Len(wire[p]) + 1
          /\ \A x \in End : \A i \in 1..Len(wire'[x]) : wire'[x][i] \in Frame
          /\ LastFrameIsLast'
      BY <1>1, <1>3, <1>4, <2>3, AddedFrame
    <3>2. InSequence(Append(wire[p], cut)) /\ FirstFollows(Append(wire[p], cut), reader[p])
      BY <1>0, <1>3, <2>1, AppendControl
    <3> QED BY <2>1, <3>1, <3>2, WebSocketAssumption
  <2> QED BY <1>1, <2>2, <2>3
<1>6. /\ mu' \in [End -> Goroutine \cup {"none"}] /\ mu'[p] = mu[p] /\ mu'[e] = "none"
      /\ mu[e] = g
  BY <1>0, <1>1
<1>7. \A x \in End, h \in Goroutine : job'[x][h].pc = "locked" <=> mu'[x] = h
  <2>1. job'[e][g].pc # "locked" /\ "none" \notin Goroutine
    BY <1>2 DEF NoJob, Goroutine
  <2>2. \A h \in Goroutine \ {g} : mu'[e] = h <=> mu[e] = h
    BY <1>6, <2>1
  <2> QED BY <1>0, <1>2, <1>6, <2>1, <2>2, HolderMoves
<1>8. SocketTypeOK'
  <2>1. \A x \in End : Len(wire'[x]) <= Capacity + 1
    <3>1. Len(wire'[e]) <= Capacity + 1
      BY <1>0, <1>5 DEF SocketTypeOK
    <3> QED BY <1>5, <3>1, TwoEnds
  <2>2. UNCHANGED <<reader, closed, sent, mixed>>
    BY <1>1
  <2> QED BY <1>0, <1>2, <1>4, <1>5, <1>6, <1>7, <2>1, <2>2 DEF Jobs, Writers, ReadErrs, SocketTypeOK
<1>9. MessagesArriveWhole'
  BY <1>1 DEF SocketInv, MessagesArriveWhole
<1>10. StreamInOrder(p)'
  BY <1>0, <1>1, <1>2, <1>4, <1>5, StreamStays
<1>11. StreamInOrder(e)'
  BY <1>1, <1>4, <1>5 DEF StreamInOrder
<1>12. JobsFit(p)'
  BY <1>0, <1>1, <1>2, <1>4, <1>5 DEF JobsFit
<1>13. JobsFit(e)'
  <2>1. job'[e]["reader"].frame.op = "close" => reader'[e].at \in {"closed", "limit"}
    BY <1>0, <1>1, <1>2 DEF JobsFit, NoJob, ControlFrame, Goroutine
  <2>2. \A h \in Goroutine \ {g} :
          /\ job'[e][h].pc = "none" <=> job'[e][h] = NoJob
          /\ job'[e][h].pc # "none" =>
                IF h = "writer" THEN FollowsWriter(job'[e][h].frame, writer'[e])
                ELSE job'[e][h].frame.op \in Control
          /\ job'[e][h].pc # "locked"
    BY <1>0, <1>2, <1>6 DEF JobsFit
  <2>3. job'[e][g].pc = "none" /\ job'[e][g] = NoJob
    BY <1>2 DEF NoJob
  <2>4. reader'[e].at = "next" => reader'[e].count = 0
    BY <1>0, <1>1 DEF JobsFit
  <2> QED BY <1>4, <2>1, <2>2, <2>3, <2>4 DEF JobsFit
<1> QED BY <1>5, <1>8, <1>9, <1>10, <1>11, <1>12, <1>13, TwoEnds DEF SocketInv

-----------------------------------------------------------------------------
(* Frames that are taken from the stream.                                    *)

\* The stream to e without its first frame.
Shorter(e) ==
    /\ wire' \in [End -> Seq(Frame)]
    /\ wire'[e] = Tail(wire[e]) /\ wire'[Peer(e)] = wire[Peer(e)]
    /\ Len(wire'[e]) = Len(wire[e]) - 1 /\ Len(wire[e]) \in Nat
    /\ wire[e] \in Seq(Frame) /\ Head(wire[e]) \in Frame /\ Head(wire[e]) = wire[e][1]
    /\ 1 \in 1..Len(wire[e])
    /\ \A x \in End : Len(wire'[x]) <= Capacity + 1
    /\ \A x \in End : \A i \in 1..Len(wire'[x]) : wire'[x][i] \in Frame
    /\ LastFrameIsLast'

\* The first frame is taken: what is left is a legal stream.
LEMMA TakenFrame ==
  ASSUME SocketInv, NEW e \in End, wire[e] # <<>>, Take(e), writeErr' = writeErr
  PROVE  Shorter(e)
<1> DEFINE p == Peer(e)
<1>0. /\ p \in End /\ p # e /\ Peer(p) = e /\ LastFrameIsLast
      /\ wire \in [End -> Seq(Frame)] /\ \A x \in End : x = e \/ x = p
      /\ \A x \in End : Len(wire[x]) <= Capacity + 1
  BY TwoEnds DEF SocketInv, SocketTypeOK
<1>1. /\ Tail(wire[e]) \in Seq(Frame) /\ Len(Tail(wire[e])) = Len(wire[e]) - 1
      /\ Len(wire[e]) \in Nat \ {0} /\ Head(wire[e]) = wire[e][1] /\ Head(wire[e]) \in Frame
      /\ \A i \in 1..Len(Tail(wire[e])) : Tail(wire[e])[i] = wire[e][i + 1]
  BY <1>0, Taken
<1>2. wire' = [wire EXCEPT ![e] = Tail(@)]
  BY DEF Take
<1>3. /\ wire'[e] = Tail(wire[e]) /\ wire'[p] = wire[p] /\ wire' \in [End -> Seq(Frame)]
  BY <1>0, <1>1, <1>2
<1>4. \A x \in End : \A i \in 1..Len(wire'[x]) : wire'[x][i] \in Frame
  BY <1>3, ElementOfSeq
<1>5. \A x \in End : Len(wire'[x]) <= Capacity + 1
  <2>1. Len(wire[e]) <= Capacity + 1 /\ Capacity \in Nat
    BY <1>0, WebSocketAssumption
  <2>2. Len(wire'[e]) <= Capacity + 1
    BY <1>1, <1>3, <2>1
  <2> QED BY <1>0, <1>3, <2>2
<1>6. \A i \in 1..Len(wire'[e]) :
         wire'[e][i].op \in {"close", "cut"} => i = Len(wire'[e]) /\ writeErr'[p] # "none"
  <2> SUFFICES ASSUME NEW i \in 1..Len(wire'[e]), wire'[e][i].op \in {"close", "cut"}
               PROVE  i = Len(wire'[e]) /\ writeErr'[p] # "none"
    OBVIOUS
  <2>1. i + 1 \in 1..Len(wire[e]) /\ wire'[e][i] = wire[e][i + 1]
    BY <1>1, <1>3
  <2>2. i + 1 = Len(wire[e]) /\ writeErr[p] # "none"
    BY <1>0, <2>1 DEF LastFrameIsLast
  <2> QED BY <1>1, <1>3, <2>2
<1>7. \A i \in 1..Len(wire'[p]) :
         wire'[p][i].op \in {"close", "cut"} => i = Len(wire'[p]) /\ writeErr'[e] # "none"
  BY <1>0, <1>3 DEF LastFrameIsLast
<1>8. LastFrameIsLast'
  BY <1>0, <1>6, <1>7 DEF LastFrameIsLast
<1> QED BY <1>0, <1>1, <1>3, <1>4, <1>5, <1>8 DEF Shorter

\* A frame is taken and perhaps answered: what is left of the stream and the
\* reader go together.
LEMMA TakeInv ==
  ASSUME SocketInv, NEW e \in End, wire[e] # <<>>, Take(e),
         UNCHANGED <<mu, writeErr, writer, readErr, closed, sent>>,
         reader' \in Readers, reader'[Peer(e)] = reader[Peer(e)],
         mixed' = FALSE, reader'[e].at = "next" => reader'[e].count = 0,
         FirstFollows(wire'[e], reader'[e]), InSequence(wire'[e]),
         WriterIsLast(wire[e], writer[Peer(e)], reader[e])
            => WriterIsLast(wire'[e], writer[Peer(e)], reader'[e]),
         \/ job' = job /\ (job[e]["reader"].frame.op = "close" => reader'[e].at \in {"closed", "limit"})
         \/ /\ job[e]["reader"] = NoJob
            /\ \E f \in Frame : /\ f.op \in Control /\ Begin(e, "reader", f)
                                /\ f.op = "close" => reader'[e].at \in {"closed", "limit"}
  PROVE  SocketInv'
<1> DEFINE p == Peer(e)
<1>0. /\ SocketTypeOK /\ p \in End /\ p # e /\ Peer(p) = e
      /\ JobsFit(e) /\ JobsFit(p) /\ StreamInOrder(e) /\ StreamInOrder(p)
      /\ job \in Jobs
      /\ \A h \in Goroutine : job[e][h].pc = "locked" <=> mu[e] = h
  BY SocketTypes
<1>1. Shorter(e)
  BY TakenFrame
<1>2. /\ wire' \in [End -> Seq(Frame)] /\ wire'[p] = wire[p]
      /\ Len(wire'[e]) = Len(wire[e]) - 1 /\ Len(wire[e]) \in Nat
      /\ \A x \in End : Len(wire'[x]) <= Capacity + 1
      /\ \A x \in End : \A i \in 1..Len(wire'[x]) : wire'[x][i] \in Frame
      /\ LastFrameIsLast'
  BY <1>1 DEF Shorter
<1>3. /\ job' \in Jobs /\ job'[p] = job[p]
      /\ \A h \in Goroutine \ {"reader"} : job'[e][h] = job[e][h]
      /\ job'[e]["reader"].frame.op = "close" => reader'[e].at \in {"closed", "limit"}
      /\ \/ job'[e]["reader"] = job[e]["reader"]
         \/ /\ job[e]["reader"].pc = "none" /\ job'[e]["reader"].pc = "wait"
            /\ job'[e]["reader"].frame.op \in Control /\ job'[e]["reader"] # NoJob
  <2>1. CASE job' = job /\ (job[e]["reader"].frame.op = "close" => reader'[e].at \in {"closed", "limit"})
    BY <1>0, <2>1
  <2>2. ASSUME job[e]["reader"] = NoJob, NEW f \in Frame, f.op \in Control, Begin(e, "reader", f),
               f.op = "close" => reader'[e].at \in {"closed", "limit"}
        PROVE  <1>3!1 /\ <1>3!2 /\ <1>3!3 /\ <1>3!4
    <3> DEFINE J == [pc: {"none", "wait", "locked"}, frame: Frame]
               new == [pc |-> "wait", frame |-> f]
    <3>1. new \in J /\ job \in [End -> [Goroutine -> J]] /\ job' = [job EXCEPT ![e]["reader"] = new]
      BY <1>0, <2>2 DEF Begin, Waiting, Jobs
    <3>2. "reader" \in Goroutine
      BY DEF Goroutine
    <3>3. new.frame = f /\ new.pc = "wait" /\ new # NoJob /\ NoJob.pc = "none"
      BY DEF NoJob
    <3> HIDE DEF J, new
    <3>4. job' \in [End -> [Goroutine -> J]] /\ job'[p] = job[p] /\ job'[e]["reader"] = new
          /\ \A h \in Goroutine \ {"reader"} : job'[e][h] = job[e][h]
      BY <1>0, <3>1, <3>2
    <3> QED BY <2>2, <3>3, <3>4 DEF J, Jobs
  <2> QED BY <2>1, <2>2
<1>4. \A x \in End, h \in Goroutine : job'[x][h].pc = "locked" <=> mu'[x] = h
  <2>1. "reader" \in Goroutine /\ NoJob.pc = "none"
    BY DEF Goroutine, NoJob
  <2>2. job'[e]["reader"].pc = "locked" <=> mu'[e] = "reader"
    BY <1>0, <1>3, <2>1
  <2> QED BY <1>0, <1>3, <2>1, <2>2, HolderMoves
<1>5. SocketTypeOK'
  BY <1>0, <1>2, <1>3, <1>4 DEF SocketTypeOK, Jobs, Readers
<1>6. MessagesArriveWhole'
  BY DEF MessagesArriveWhole
<1>7. StreamInOrder(e)'
  BY <1>0, <1>2, StreamStays
<1>8. StreamInOrder(p)'
  BY <1>0 DEF StreamInOrder
<1>9. JobsFit(p)'
  <2>1. Len(wire'[e]) <= Len(wire[e]) /\ Len(wire'[e]) \in Int
    BY <1>2
  <2> QED BY <1>0, <1>2, <1>3, <2>1, JobsStay
<1>10. JobsFit(e)'
  <2>1. NoJob.pc = "none"
    BY DEF NoJob
  <2> QED BY <1>0, <1>2, <1>3, <2>1 DEF JobsFit
<1> QED BY <1>2, <1>5, <1>6, <1>7, <1>8, <1>9, <1>10, TwoEnds DEF SocketInv

\* A ping is taken and answered, a pong is taken.
LEMMA HandlePingInv ==
  ASSUME SocketInv, NEW e \in End, HandlePing(e) \/ HandlePong(e)
  PROVE  SocketInv'
<1>0. /\ JobsFit(e) /\ StreamInOrder(Peer(e)) /\ Peer(Peer(e)) = e /\ reader \in Readers
      /\ MessagesArriveWhole /\ wire[e] \in Seq(Frame)
  BY SocketTypes DEF SocketInv
<1>1. /\ wire[e] # <<>> /\ Head(wire[e]).op \in {"ping", "pong"} /\ Take(e)
      /\ UNCHANGED <<mu, writeErr, writer, reader, readErr, closed, sent, mixed>>
      /\ job[e]["reader"] = NoJob
      /\ job' = job \/ Begin(e, "reader", ControlFrame("pong"))
  BY DEF HandlePing, HandlePong, Reading
<1>2. Shorter(e)
  BY <1>1, TakenFrame
<1>3. wire'[e] = Tail(wire[e])
  BY <1>2 DEF Shorter
<1>4. ~IsData(Head(wire[e]))
  BY <1>1 DEF IsData, Data
<1>5. /\ FirstFollows(wire'[e], reader'[e]) /\ InSequence(wire'[e])
      /\ WriterIsLast(wire[e], writer[Peer(e)], reader[e])
            => WriterIsLast(wire'[e], writer[Peer(e)], reader'[e])
  BY <1>0, <1>1, <1>3, <1>4, TakeControl DEF StreamInOrder
<1>6. \E f \in {ControlFrame("pong")} : f \in Frame /\ f.op \in Control /\ f.op # "close"
  BY DEF ControlFrame, Frame, Control
<1>7. /\ mixed' = FALSE /\ reader' \in Readers /\ reader'[Peer(e)] = reader[Peer(e)]
      /\ reader'[e].at = "next" => reader'[e].count = 0
      /\ job[e]["reader"].frame.op # "close"
  BY <1>0, <1>1 DEF JobsFit, MessagesArriveWhole, NoJob, ControlFrame, SocketInv, SocketTypeOK
<1> QED BY <1>1, <1>5, <1>6, <1>7, TakeInv

\* The reader gives up: on a close frame of the peer, or at its limit.
LEMMA FailWithInv ==
  ASSUME SocketInv, NEW e \in End, HandleClose(e) \/ ExceedLimit(e)
  PROVE  SocketInv'
<1>0. /\ JobsFit(e) /\ StreamInOrder(Peer(e)) /\ Peer(Peer(e)) = e /\ reader \in Readers
      /\ MessagesArriveWhole /\ wire[e] \in Seq(Frame) /\ Peer(e) # e
  BY SocketTypes DEF SocketInv
<1>1. PICK error \in {"closed", "limit"} : FailWith(e, error)
  BY DEF HandleClose, ExceedLimit
<1>2. /\ wire[e] # <<>> /\ Take(e) /\ job[e]["reader"] = NoJob
      /\ UNCHANGED <<mu, writeErr, writer, readErr, closed, sent, mixed>>
      /\ Begin(e, "reader", ControlFrame("close"))
      /\ reader' = [reader EXCEPT ![e].at = error]
  BY <1>1 DEF HandleClose, ExceedLimit, FailWith, Reading
<1>3. reader' \in Readers /\ reader'[Peer(e)] = reader[Peer(e)] /\ reader'[e].at = error
  <2> DEFINE R == [at: {"next", "message", "closed", "limit"}, final: BOOLEAN, length: Nat, msg: Nat, count: Nat]
             new == [reader[e] EXCEPT !.at = error]
  <2>1. reader \in [End -> R] /\ reader' = [reader EXCEPT ![e] = new]
    BY <1>0, <1>2 DEF Readers
  <2>2. \A r \in R, why \in {"closed", "limit"} :
          [r EXCEPT !.at = why] \in R /\ [r EXCEPT !.at = why].at = why
    OBVIOUS
  <2>3. new \in R /\ new.at = error
    BY <1>0, <2>1, <2>2
  <2> HIDE DEF R, new
  <2>4. reader' \in [End -> R] /\ reader'[e] = new /\ reader'[Peer(e)] = reader[Peer(e)]
    BY <1>0, <2>1, <2>3
  <2> QED BY <2>3, <2>4 DEF R, Readers
<1>4. ~GoesOn(reader'[e]) /\ mixed' = FALSE /\ reader'[e].at # "next"
  BY <1>0, <1>2, <1>3 DEF GoesOn, MessagesArriveWhole
<1>5. Shorter(e)
  BY <1>2, TakenFrame
<1>6. wire'[e] = Tail(wire[e])
  BY <1>5 DEF Shorter
<1>7. /\ FirstFollows(wire'[e], reader'[e]) /\ InSequence(wire'[e])
      /\ WriterIsLast(wire[e], writer[Peer(e)], reader[e])
            => WriterIsLast(wire'[e], writer[Peer(e)], reader'[e])
  <2>1. InSequence(wire[e])
    BY <1>0 DEF StreamInOrder
  <2>2. CASE IsData(Head(wire[e]))
    BY <1>0, <1>2, <1>4, <1>6, <2>1, <2>2, TakeData
  <2>3. CASE ~IsData(Head(wire[e]))
    <3>1. WriterIsLast(wire[e], writer[Peer(e)], reader[e])
             => WriterIsLast(wire[e], writer[Peer(e)], reader'[e])
      BY <1>0, <1>4, ReaderWeakens
    <3>2. FirstFollows(wire'[e], reader'[e])
      BY <1>4 DEF FirstFollows
    <3> QED BY <1>0, <1>2, <1>6, <2>1, <2>3, <3>1, <3>2, TakeControl
  <2> QED BY <2>2, <2>3
<1>8. \E f \in {ControlFrame("close")} : f \in Frame /\ f.op \in Control
  BY DEF ControlFrame, Frame, Control
<1> QED BY <1>0, <1>2, <1>3, <1>4, <1>7, <1>8, TakeInv

\* A data frame is taken: it is the next of its message, or the first of one, or
\* belongs to a message the reader has left.
LEMMA ReadDataInv ==
  ASSUME SocketInv, NEW e \in End, ReadData(e)
  PROVE  SocketInv'
<1> DEFINE f == Head(wire[e])
           r == reader[e]
           opens == r.at = "next" /\ f.op = "text"
           mine == opens \/ r.at = "message"
           new == [at |-> IF opens THEN "message" ELSE r.at, final |-> f.final,
                   length |-> r.length + 1, msg |-> IF opens THEN f.msg ELSE r.msg,
                   count |-> IF mine THEN r.count + 1 ELSE r.count]
           R == [at: {"next", "message", "closed", "limit"}, final: BOOLEAN, length: Nat, msg: Nat, count: Nat]
<1>0. /\ JobsFit(e) /\ StreamInOrder(Peer(e)) /\ Peer(Peer(e)) = e /\ reader \in Readers
      /\ MessagesArriveWhole /\ wire[e] \in Seq(Frame) /\ Peer(e) # e
  BY SocketTypes DEF SocketInv
<1>1. /\ wire[e] # <<>> /\ Take(e) /\ job[e]["reader"] = NoJob
      /\ r.at = "next" \/ (r.at = "message" /\ ~r.final)
      /\ f.op \in Data /\ InOrder(e, f)
      /\ reader' = [reader EXCEPT ![e] = new]
      /\ mixed' = (mixed \/ (mine /\ <<f.msg, f.place>> # <<reader'[e].msg, reader'[e].count>>))
      /\ UNCHANGED <<mu, writeErr, job, writer, readErr, closed, sent>>
  <2>1. Reading(e)
    BY DEF ReadData
  <2>2. r.at = "next" \/ (r.at = "message" /\ ~r.final)
    BY <2>1 DEF Reading
  <2>3. job[e]["reader"] = NoJob
    BY <2>1 DEF Reading
  <2>4. reader' = [reader EXCEPT ![e] = new]
    BY DEF ReadData
  <2>5. mixed' = (mixed \/ (mine /\ <<f.msg, f.place>> # <<reader'[e].msg, reader'[e].count>>))
    BY DEF ReadData
  <2>6. wire[e] # <<>> /\ Take(e) /\ f.op \in Data /\ InOrder(e, f)
        /\ UNCHANGED <<mu, writeErr, job, writer, readErr, closed, sent>>
    BY DEF ReadData
  <2> QED BY <2>2, <2>3, <2>4, <2>5, <2>6
<1>2. Shorter(e)
  BY <1>1, TakenFrame
<1>3. wire'[e] = Tail(wire[e]) /\ f \in Frame /\ f = wire[e][1] /\ 1 \in 1..Len(wire[e])
  BY <1>2 DEF Shorter
<1>4. r \in R /\ reader \in [End -> R]
  BY <1>0 DEF Readers
<1>5. FollowsReader(f, r)
  <2>1. GoesOn(r) /\ IsData(wire[e][1]) /\ \A k \in 1..(1 - 1) : ~IsData(wire[e][k])
    BY <1>1, <1>3 DEF GoesOn, IsData
  <2>2. FirstFollows(wire[e], r)
    BY <1>0 DEF StreamInOrder
  <2> QED BY <1>3, <2>1, <2>2 DEF FirstFollows
<1>6. /\ new \in R /\ new.final = f.final
      /\ new.at = IF opens THEN "message" ELSE r.at
      /\ new.msg = IF opens THEN f.msg ELSE r.msg
      /\ new.count = IF mine THEN r.count + 1 ELSE r.count
  <2>1. f.final \in BOOLEAN /\ f.msg \in Nat
    BY <1>3 DEF Frame
  <2>2. r.at \in {"next", "message", "closed", "limit"} /\ r.length + 1 \in Nat /\ r.msg \in Nat
        /\ r.count \in Nat /\ r.count + 1 \in Nat
    BY <1>4
  <2> QED BY <2>1, <2>2
<1>7. r.at = "next" => r.count = 0
  BY <1>0 DEF JobsFit
<1>8. mine => new.msg = f.msg /\ new.count = f.place
  <2>1. f.place \in Nat /\ r.count \in Nat /\ r.final \in BOOLEAN
    BY <1>3, <1>4 DEF Frame
  <2> HIDE DEF new, f
  <2>2. CASE r.at = "next" /\ f.op = "text"
    BY <1>5, <1>6, <1>7, <2>1, <2>2 DEF FollowsReader
  <2>3. CASE r.at = "message" /\ ~r.final
    BY <1>5, <1>6, <2>1, <2>3 DEF FollowsReader
  <2> QED BY <1>1, <2>2, <2>3
<1>9. new.at \in {"next", "message"} /\ (new.at = "message" => mine) /\ (new.at = "next" => new.count = 0)
  BY <1>1, <1>6, <1>7
<1> HIDE DEF new, f
<1>10. /\ reader' \in Readers /\ reader'[Peer(e)] = reader[Peer(e)] /\ reader'[e] = new
  BY <1>0, <1>1, <1>4, <1>6 DEF Readers
<1>11. mixed' = FALSE
  BY <1>0, <1>1, <1>8, <1>10 DEF MessagesArriveWhole, SocketInv, SocketTypeOK
<1>12. /\ FirstFollows(wire'[e], reader'[e]) /\ InSequence(wire'[e])
       /\ WriterIsLast(wire[e], writer[Peer(e)], reader[e])
             => WriterIsLast(wire'[e], writer[Peer(e)], reader'[e])
  <2>1. InSequence(wire[e]) /\ IsData(f)
    BY <1>0, <1>1 DEF StreamInOrder, IsData
  <2>2. GoesOn(new) => /\ new.final = f.final
                       /\ new.at = "message" => new.msg = f.msg /\ new.count = f.place
    BY <1>6, <1>8, <1>9
  <2> QED BY <1>0, <1>1, <1>3, <1>10, <2>1, <2>2, TakeData DEF f
<1>13. job[e]["reader"].frame.op # "close"
  BY <1>1 DEF NoJob, ControlFrame
<1> QED BY <1>1, <1>9, <1>10, <1>11, <1>12, <1>13, TakeInv

-----------------------------------------------------------------------------
(* The theorems.                                                             *)

\* A new connection satisfies the invariant.
LEMMA SocketInitInv == SocketInit => SocketInv
<1> SUFFICES ASSUME SocketInit PROVE SocketInv
  OBVIOUS
<1>1. \A x \in End : wire[x] = <<>> /\ Len(wire[x]) = 0 /\ wire[x] \in Seq(Frame)
  BY EmptySeq DEF SocketInit
<1>2. NoJob \in [pc: {"none", "wait", "locked"}, frame: Frame] /\ NoJob.pc = "none"
      /\ NoJob.frame.op = "cut"
  BY DEF NoJob, ControlFrame, Frame
<1>3. \A x \in End : /\ mu[x] = "none" /\ writeErr[x] = "none"
                     /\ writer[x] = [open |-> FALSE, msg |-> 0, place |-> 0]
                     /\ reader[x] = [at |-> "next", final |-> TRUE, length |-> 0, msg |-> 0, count |-> 0]
                     /\ \A g \in Goroutine : job[x][g] = NoJob
  BY DEF SocketInit
<1>4. SocketTypeOK
  <2>1. job \in [End -> [Goroutine -> [pc: {"none", "wait", "locked"}, frame: Frame]]]
    <3> HIDE DEF NoJob, Frame
    <3> QED BY <1>2 DEF SocketInit
  <2>2. \A x \in End, g \in Goroutine : job[x][g].pc = "locked" <=> mu[x] = g
    BY <1>2, <1>3 DEF Goroutine
  <2>3. \A x \in End : /\ Len(wire[x]) <= Capacity + 1
                       /\ \A i \in 1..Len(wire[x]) : wire[x][i] \in Frame
    BY <1>1, WebSocketAssumption
  <2>4. /\ mu \in [End -> Goroutine \cup {"none"}]
        /\ writeErr \in [End -> {"none", "closeSent", "failed"}]
        /\ readErr \in [End -> {"none", "closed", "limit", "eof", "failed"}]
        /\ closed \in [End -> BOOLEAN] /\ mixed \in BOOLEAN
    BY DEF SocketInit
  <2>5. sent \in [End -> [pings: Nat, closes: Nat]]
    BY DEF SocketInit
  <2>6. /\ writer \in [End -> [open: BOOLEAN, msg: Nat, place: Nat]]
        /\ reader \in [End -> [at: {"next", "message", "closed", "limit"}, final: BOOLEAN,
                               length: Nat, msg: Nat, count: Nat]]
    BY DEF SocketInit
  <2> QED BY <2>1, <2>2, <2>3, <2>4, <2>5, <2>6 DEF SocketTypeOK
<1>5. wire \in [End -> Seq(Frame)]
  BY <1>1 DEF SocketInit
<1>6. LastFrameIsLast /\ MessagesArriveWhole
  BY <1>1 DEF LastFrameIsLast, MessagesArriveWhole, SocketInit
<1>7. ASSUME NEW e \in End PROVE StreamInOrder(e)
  <2>1. Peer(e) \in End
    BY TwoEnds
  <2>2. SamePlace(writer[e], reader[Peer(e)])
    <3>1. writer[e].open = FALSE /\ reader[Peer(e)].final = TRUE
      BY <1>3, <2>1
    <3> QED BY <3>1 DEF SamePlace
  <2>3. Len(wire[Peer(e)]) = 0
    BY <1>1, <2>1
  <2>4. InSequence(wire[Peer(e)])
    BY <2>3 DEF InSequence
  <2>5. FirstFollows(wire[Peer(e)], reader[Peer(e)])
    BY <2>3 DEF FirstFollows
  <2>6. WriterIsLast(wire[Peer(e)], writer[e], reader[Peer(e)])
    BY <2>2, <2>3 DEF WriterIsLast
  <2> QED BY <2>4, <2>5, <2>6 DEF StreamInOrder
<1>8. ASSUME NEW e \in End PROVE JobsFit(e)
  BY <1>1, <1>2, <1>3, TwoEnds, WebSocketAssumption DEF JobsFit, Goroutine
<1> QED BY <1>4, <1>5, <1>6, <1>7, <1>8 DEF SocketInv

\* Every step of the two ends keeps the invariant.
LEMMA SocketNextInv == SocketInv /\ [SocketNext]_socketVars => SocketInv'
<1> SUFFICES ASSUME SocketInv, [SocketNext]_socketVars PROVE SocketInv'
  OBVIOUS
<1>1. ASSUME NEW e \in End, NEW g \in Goroutine, FrameStep(e, g) PROVE SocketInv'
  BY <1>1, AcquireInv, GivenUpInv, WrittenInv, WriteFailsInv DEF FrameStep
<1>2. ASSUME NEW e \in End, ReaderStep(e) PROVE SocketInv'
  BY <1>1, <1>2, NextReaderInv, ReadDataInv, FailWithInv, HandlePingInv, EndInv
     DEF ReaderStep, Goroutine
<1>3. CASE SocketNext
  BY <1>1, <1>2, <1>3, FlushFrameInv, SendControlInv, NextReaderInv DEF SocketNext, Goroutine
<1>4. CASE UNCHANGED socketVars
  BY <1>4 DEF socketVars, SocketInv, SocketTypeOK, LastFrameIsLast, MessagesArriveWhole, StreamInOrder, JobsFit
<1> QED BY <1>3, <1>4

\* The streams and the goroutines that write them stay in order.
THEOREM SocketInvariance == SocketSpec => []SocketInv
BY SocketInitInv, SocketNextInv, PTL DEF SocketSpec

\* The frames of the goroutines of one end make a legal stream (Conn.write,
\* WriteControl, advanceFrame).
THEOREM LegalFrames == SocketSpec => []FramesAreLegal
<1>1. SocketInv => FramesAreLegal
  <2> SUFFICES ASSUME SocketInv, NEW e \in End, Reading(e), wire[e] # <<>>,
                      Head(wire[e]).op \in Data
               PROVE  InOrder(e, Head(wire[e]))
    BY DEF SocketInv, FramesAreLegal, NoProtocolError
  <2>1. /\ wire[e] \in Seq(Frame) /\ StreamInOrder(Peer(e)) /\ Peer(Peer(e)) = e
        /\ reader[e].final \in BOOLEAN
    BY SocketTypes DEF SocketInv, Readers
  <2>2. Head(wire[e]) = wire[e][1] /\ 1 \in 1..Len(wire[e])
    BY <2>1, Taken
  <2>3. GoesOn(reader[e]) /\ IsData(wire[e][1]) /\ \A k \in 1..(1 - 1) : ~IsData(wire[e][k])
    BY <2>2 DEF Reading, GoesOn, IsData
  <2>4. FollowsReader(wire[e][1], reader[e])
    BY <2>1, <2>2, <2>3 DEF StreamInOrder, FirstFollows
  <2> QED BY <2>1, <2>2, <2>4 DEF FollowsReader, InOrder
<1> QED BY <1>1, SocketInvariance, PTL

\* A message is assembled from its own frames, all of them and in order
\* (messageReader.Read, NextReader).
THEOREM WholeMessages == SocketSpec => []MessagesArriveWhole
BY SocketInvariance, PTL DEF SocketInv
=============================================================================
