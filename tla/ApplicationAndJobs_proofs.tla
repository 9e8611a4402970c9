-------------------------- MODULE ApplicationAndJobs_proofs --------------------------
(* Theorems about an application, for any add-ons, versions and requirements,  *)
(* any way of starting it, any requests and whatever is registered late; about *)
(* the schedulers of any number of processes, for any interval, poll interval  *)
(* and age of a stale lock, provided that a scheduler's calls are over before  *)
(* its lock is stale (HoldAssumption); and about Start and Stop of a runner,   *)
(* for any number of callers, goroutines and pools.                            *)
EXTENDS Application, JobScheduler, RunnerLifecycle, FiniteSetTheorems, SequenceTheorems,
        NaturalsInduction, WellFoundedInduction, TLAPS

-----------------------------------------------------------------------------
(* What is reached along the edges of a graph.                               *)

\* A set that has zero, and the successor of each number it has, has every number.
LEMMA EveryNumber ==
  ASSUME NEW Q, 0 \in Q, \A n \in Nat : n \in Q => n + 1 \in Q
  PROVE  Nat \subseteq Q
<1> DEFINE less == {ss \in Nat \X Nat : ss[1] < ss[2]}
           bad == Nat \ Q
<1>1. IsWellFoundedOn(less, Nat)
  BY NatLessThanWellFounded DEF OpToRel
<1> HIDE DEF less
<1> SUFFICES ASSUME bad # {} PROVE FALSE
  OBVIOUS
<1>2. PICK x \in bad : \A y \in bad : <<y, x>> \notin less
  BY <1>1, WFMin
<1>3. x \in Nat /\ x # 0 /\ x - 1 \in Nat /\ (x - 1) + 1 = x
  OBVIOUS
<1>4. <<x - 1, x>> \in less
  BY <1>3 DEF less
<1>5. x - 1 \in Q
  BY <1>2, <1>3, <1>4
<1> QED BY <1>3, <1>5

\* One more edge from a and what was reached.
Further(E, a, S) == {e[2] : e \in {d \in E : d[1] \in {a} \cup S}}

\* What is reached in at most each number of edges.
Within(E, a, n, g) == [k \in 0..n |-> IF k = 0 THEN {} ELSE Further(E, a, g[k - 1])]

\* There is such a function.
LEMMA WithinExists ==
  ASSUME NEW E, NEW a, NEW n \in Nat
  PROVE  \E g : g = Within(E, a, n, g)
<1> DEFINE Q == {k \in Nat : \E g : g = Within(E, a, k, g)}
<1>1. 0 \in Q
  <2> DEFINE g == [k \in 0..0 |-> {}]
  <2>1. g = Within(E, a, 0, g)
    BY DEF Within
  <2> QED BY <2>1
<1>2. ASSUME NEW k \in Nat, k \in Q PROVE k + 1 \in Q
  <2>1. PICK g : g = Within(E, a, k, g)
    BY <1>2
  <2> DEFINE F(i, S) == IF i = 0 THEN {} ELSE Further(E, a, S)
             h == [i \in 0..(k + 1) |-> IF i \in 0..k THEN g[i] ELSE F(i, g[i - 1])]
  <2>2. ASSUME NEW i \in 0..k PROVE g[i] = F(i, g[i - 1])
    BY <2>1 DEF Within
  <2>3. ASSUME NEW i \in 0..(k + 1) PROVE h[i] = F(i, h[i - 1])
    <3>1. CASE i = 0
      BY <2>2, <3>1
    <3>2. CASE i # 0
      <4>1. i - 1 \in 0..k /\ i - 1 \in 0..(k + 1)
        BY <3>2
      <4> DEFINE j == i - 1
      <4> HIDE DEF F
      <4>2. h[j] = g[j]
        BY <4>1
      <4>3. h[i] = F(i, g[j])
        BY <2>2
      <4> QED BY <4>2, <4>3
    <3> QED BY <3>1, <3>2
  <2>4. h = Within(E, a, k + 1, h)
    <3> DEFINE hh == h
    <3>1. hh = [i \in 0..(k + 1) |-> hh[i]]
      OBVIOUS
    <3>2. \A i \in 0..(k + 1) : hh[i] = F(i, hh[i - 1])
      BY <2>3
    <3> HIDE DEF hh
    <3>3. hh = [i \in 0..(k + 1) |-> F(i, hh[i - 1])]
      BY <3>1, <3>2
    <3>4. hh = Within(E, a, k + 1, hh)
      BY <3>3 DEF Within
    <3> QED BY <3>4 DEF hh
  <2> QED BY <2>4
<1> HIDE DEF Q
<1>3. n \in Q
  BY <1>1, <1>2, EveryNumber
<1> QED BY <1>3 DEF Q

\* Reach, by such a function.
LEMMA ReachIs ==
  ASSUME NEW E, NEW a
  PROVE  \E g : /\ \A k \in 0..Cardinality(Addon) : g[k] = IF k = 0 THEN {} ELSE Further(E, a, g[k - 1])
                /\ Reach(E, a) = g[Cardinality(Addon)]
<1> DEFINE n == Cardinality(Addon)
           g == CHOOSE g : g = Within(E, a, n, g)
<1>1. n \in Nat
  BY AddonAssumption, FS_CardinalityType
<1>2. Reach(E, a) = g[n]
  BY DEF Reach, Within, Further
<1>3. g = Within(E, a, n, g)
  <2> HIDE DEF n
  <2> QED BY <1>1, WithinExists
<1> HIDE DEF g, n
<1>4. \A k \in 0..n : g[k] = IF k = 0 THEN {} ELSE Further(E, a, g[k - 1])
  BY <1>3 DEF Within
<1> QED BY <1>2, <1>4 DEF n

\* Whatever has the ends of the edges from a and from its members has all that a reaches.
LEMMA ReachIsLeast ==
  ASSUME NEW E, NEW a, NEW S, Further(E, a, S) \subseteq S
  PROVE  Reach(E, a) \subseteq S
<1> DEFINE n == Cardinality(Addon)
<1>1. n \in Nat
  BY AddonAssumption, FS_CardinalityType
<1>2. PICK g : /\ \A k \in 0..n : g[k] = IF k = 0 THEN {} ELSE Further(E, a, g[k - 1])
               /\ Reach(E, a) = g[n]
  BY ReachIs
<1> HIDE DEF n
<1> DEFINE Q == {k \in Nat : k <= n => g[k] \subseteq S}
<1>3. 0 \in Q
  BY <1>1, <1>2
<1>4. ASSUME NEW k \in Nat, k \in Q PROVE k + 1 \in Q
  <2> SUFFICES ASSUME k + 1 <= n PROVE g[k + 1] \subseteq S
    OBVIOUS
  <2>1. g[k] \subseteq S
    BY <1>1, <1>4
  <2>2. g[k + 1] = Further(E, a, g[k])
    <3>1. k + 1 \in 0..n /\ k + 1 # 0 /\ (k + 1) - 1 = k
      BY <1>1
    <3> QED BY <1>2, <3>1
  <2> QED BY <2>1, <2>2 DEF Further
<1> HIDE DEF Q
<1>5. n \in Q
  BY <1>1, <1>3, <1>4, EveryNumber
<1> QED BY <1>1, <1>2, <1>5 DEF Q

\* What a reaches has the ends of the edges from a and from its members.
LEMMA ReachIsClosed ==
  ASSUME NEW E \in SUBSET (Addon \X Addon), NEW a
  PROVE  Further(E, a, Reach(E, a)) \subseteq Reach(E, a) /\ Reach(E, a) \subseteq Addon
<1> DEFINE n == Cardinality(Addon)
<1>1. n \in Nat /\ IsFiniteSet(Addon)
  BY AddonAssumption, FS_CardinalityType
<1>2. PICK g : /\ \A k \in 0..n : g[k] = IF k = 0 THEN {} ELSE Further(E, a, g[k - 1])
               /\ Reach(E, a) = g[n]
  BY ReachIs
<1>3. \A S : Further(E, a, S) \subseteq Addon
  BY DEF Further
<1>4. \A S, T : S \subseteq T => Further(E, a, S) \subseteq Further(E, a, T)
  BY DEF Further
<1> DEFINE Q == {k \in Nat : k <= n =>
                    /\ g[k] \subseteq Addon /\ g[k] \subseteq Further(E, a, g[k])
                    /\ Further(E, a, g[k]) \subseteq g[k] \/ Cardinality(g[k]) >= k}
<1>5. 0 \in Q
  BY <1>1, <1>2, FS_EmptySet
<1>6. ASSUME NEW k \in Nat, k \in Q PROVE k + 1 \in Q
  <2> HIDE DEF n
  <2> SUFFICES ASSUME k + 1 <= n
               PROVE  /\ g[k + 1] \subseteq Addon /\ g[k + 1] \subseteq Further(E, a, g[k + 1])
                      /\ Further(E, a, g[k + 1]) \subseteq g[k + 1] \/ Cardinality(g[k + 1]) >= k + 1
    OBVIOUS
  <2> DEFINE S == g[k]
             T == g[k + 1]
  <2>1. /\ S \subseteq Addon /\ S \subseteq Further(E, a, S)
        /\ Further(E, a, S) \subseteq S \/ Cardinality(S) >= k
    BY <1>1, <1>6
  <2>2. T = Further(E, a, S)
    <3>1. k + 1 \in 0..n /\ k + 1 # 0 /\ (k + 1) - 1 = k
      BY <1>1
    <3> QED BY <1>2, <3>1
  <2> HIDE DEF S, T
  <2>3. T \subseteq Addon /\ S \subseteq T /\ T \subseteq Further(E, a, T)
    BY <1>3, <1>4, <2>1, <2>2
  <2>4. CASE Further(E, a, S) \subseteq S
    <3>1. T = S
      BY <2>2, <2>3, <2>4
    <3> QED BY <2>3, <2>4, <3>1 DEF T
  <2>5. CASE ~(Further(E, a, S) \subseteq S)
    <3>1. IsFiniteSet(S) /\ IsFiniteSet(T)
      BY <1>1, <2>1, <2>3, FS_Subset
    <3>2. Cardinality(S) < Cardinality(T) /\ Cardinality(S) \in Nat /\ Cardinality(T) \in Nat
      <4>1. S # T
        BY <2>2, <2>5
      <4> QED BY <2>3, <3>1, <4>1, FS_Subset, FS_CardinalityType
    <3>3. Cardinality(T) >= k + 1
      BY <2>1, <2>5, <3>2
    <3> QED BY <2>3, <3>3 DEF T
  <2> QED BY <2>4, <2>5
<1>7. n \in Q
  <2> HIDE DEF Q, n
  <2> QED BY <1>1, <1>5, <1>6, EveryNumber
<1> DEFINE R == Reach(E, a)
<1>8. R \subseteq Addon /\ (Further(E, a, R) \subseteq R \/ Cardinality(R) >= n)
  <2> HIDE DEF n
  <2> QED BY <1>1, <1>2, <1>7
<1> HIDE DEF R
<1>9. CASE Cardinality(R) >= n
  <2>1. IsFiniteSet(R) /\ Cardinality(R) <= n /\ (Cardinality(R) = n => R = Addon)
    BY <1>1, <1>8, FS_Subset
  <2>2. Cardinality(R) \in Nat
    BY <2>1, FS_CardinalityType
  <2>3. R = Addon
    <3> HIDE DEF n
    <3> QED BY <1>1, <1>9, <2>1, <2>2
  <2> QED BY <1>3, <2>3 DEF R
<1> QED BY <1>8, <1>9 DEF R

-----------------------------------------------------------------------------
(* Requirements.                                                             *)

Edges == SUBSET (Addon \X Addon)
Needs(b, c) == <<b, c>> \in RequiresEdges

\* An edge for each requirement of an add-on that is registered.
LEMMA EdgesAre ==
  ASSUME AddonTypeOK
  PROVE  /\ RequiresEdges \in Edges
         /\ \A b \in program.registered : \A r \in program.requires[b] :
               b \in Addon /\ r \in Addon \X (Version \cup {AnyVersion}) /\ r[1] \in Addon /\ Needs(b, r[1])
         /\ \A b, c : Needs(b, c) => /\ b \in program.registered /\ b \in Addon /\ c \in Addon
                                     /\ \E v : <<c, v>> \in program.requires[b]
<1>1. RequiresEdges \in Edges
  BY DEF RequiresEdges, Edges
<1>2. program.registered \subseteq Addon
      /\ program.requires \in [Addon -> SUBSET (Addon \X (Version \cup {AnyVersion}))]
  BY DEF AddonTypeOK, Program
<1>3. ASSUME NEW b \in program.registered, NEW r \in program.requires[b]
      PROVE  b \in Addon /\ r \in Addon \X (Version \cup {AnyVersion}) /\ r[1] \in Addon /\ Needs(b, r[1])
  <2>1. b \in Addon /\ r \in Addon \X (Version \cup {AnyVersion})
    BY <1>2, <1>3
  <2>2. PICK c \in Addon, v \in Version \cup {AnyVersion} : r = <<c, v>>
    BY <2>1
  <2>3. <<c, v>> \in program.requires[b] /\ r[1] = c
    BY <1>3, <2>2
  <2>4. <<b, c>> \in RequiresEdges
    BY <2>1, <2>2, <2>3 DEF RequiresEdges
  <2> QED BY <2>1, <2>2, <2>3, <2>4 DEF Needs
<1>4. ASSUME NEW b, NEW c, Needs(b, c)
      PROVE  /\ b \in program.registered /\ b \in Addon /\ c \in Addon
             /\ \E v : <<c, v>> \in program.requires[b]
  BY <1>4 DEF Needs, RequiresEdges
<1> QED BY <1>1, <1>3, <1>4

\* What is needed is reached, and what that needs.
LEMMA NeededIsReached ==
  ASSUME AddonTypeOK, NEW b, NEW c, Needs(b, c)
  PROVE  /\ c \in Reach(RequiresEdges, b)
         /\ \A a : b \in Reach(RequiresEdges, a) => c \in Reach(RequiresEdges, a)
<1>1. RequiresEdges \in Edges
  BY EdgesAre
<1>2. \A a : Further(RequiresEdges, a, Reach(RequiresEdges, a)) \subseteq Reach(RequiresEdges, a)
  BY <1>1, ReachIsClosed DEF Edges
<1>3. \A a, S : b \in {a} \cup S => c \in Further(RequiresEdges, a, S)
  BY DEF Needs, Further
<1> QED BY <1>2, <1>3

\* Whatever has what a needs, and what its members need, has all that a reaches.
LEMMA ReachedIsNeeded ==
  ASSUME NEW a, NEW S, \A b \in {a} \cup S : \A c : Needs(b, c) => c \in S, AddonTypeOK
  PROVE  Reach(RequiresEdges, a) \subseteq S
<1>1. Further(RequiresEdges, a, S) \subseteq S
  <2> SUFFICES ASSUME NEW e \in RequiresEdges, e[1] \in {a} \cup S PROVE e[2] \in S
    BY DEF Further
  <2>1. e = <<e[1], e[2]>>
    BY EdgesAre DEF Edges
  <2> QED BY <2>1 DEF Needs
<1> QED BY <1>1, ReachIsLeast

Selected(a) == a \in Addon /\ program.selection[a] # Absent

\* What is selected is wanted, and what that needs, and nothing else.
LEMMA WantedIs ==
  ASSUME AddonTypeOK
  PROVE  /\ Wanted \subseteq Addon
         /\ \A a : Selected(a) => a \in Wanted
         /\ \A b \in Wanted : \A c : Needs(b, c) => c \in Wanted
         /\ \A S : /\ \A a : Selected(a) => a \in S
                   /\ \A b \in S : \A c : Needs(b, c) => c \in S
                   => Wanted \subseteq S
<1> DEFINE chosen == {a \in Addon : program.selection[a] # Absent}
           R(a) == Reach(RequiresEdges, a)
<1>1. Wanted = chosen \cup UNION {R(a) : a \in chosen}
  BY DEF Wanted
<1>2. \A a : R(a) \subseteq Addon
  BY EdgesAre, ReachIsClosed DEF Edges
<1>3. \A b \in Wanted : \A c : Needs(b, c) => c \in Wanted
  <2> HIDE DEF R
  <2> SUFFICES ASSUME NEW b \in Wanted, NEW c, Needs(b, c) PROVE c \in Wanted
    OBVIOUS
  <2>1. c \in R(b) /\ \A a : b \in R(a) => c \in R(a)
    BY NeededIsReached DEF R
  <2> QED BY <1>1, <2>1
<1>4. ASSUME NEW S, \A a : Selected(a) => a \in S,
             \A b \in S : \A c : Needs(b, c) => c \in S
      PROVE  Wanted \subseteq S
  <2>1. chosen \subseteq S
    BY <1>4 DEF Selected
  <2>2. \A a \in chosen : R(a) \subseteq S
    BY <1>4, <2>1, ReachedIsNeeded
  <2> HIDE DEF R, chosen
  <2> QED BY <1>1, <2>1, <2>2
<1>5. Wanted \subseteq Addon
  <2> HIDE DEF R
  <2> QED BY <1>1, <1>2
<1>6. \A a : Selected(a) => a \in Wanted
  <2> HIDE DEF R
  <2> QED BY <1>1 DEF Selected
<1> QED BY <1>3, <1>4, <1>5, <1>6

\* An order that is right has what each add-on needs before it, and so no cycle.
LEMMA OrderHasNoCycle ==
  ASSUME AddonTypeOK, OrderIsRight
  PROVE  /\ \A i \in DOMAIN order :
               Reach(RequiresEdges, order[i]) \subseteq {order[j] : j \in 1..(i - 1)}
         /\ \A i \in DOMAIN order : order[i] \notin Reach(RequiresEdges, order[i])
<1>1. PICK n \in Nat : DOMAIN order = 1..n
  BY DEF AddonTypeOK
<1>2. ASSUME NEW i \in DOMAIN order
      PROVE  Reach(RequiresEdges, order[i]) \subseteq {order[j] : j \in 1..(i - 1)}
  <2> DEFINE S == {order[j] : j \in 1..(i - 1)}
  <2>1. ASSUME NEW b \in {order[i]} \cup S, NEW c, Needs(b, c) PROVE c \in S
    <3>1. PICK j \in 1..i : b = order[j] /\ j \in DOMAIN order
      BY <1>1, <1>2, <2>1
    <3>2. PICK v : <<c, v>> \in program.requires[b]
      BY <2>1, EdgesAre
    <3>3. PICK k \in 1..(j - 1) : order[k] = c
      BY <3>1, <3>2 DEF OrderIsRight
    <3>4. k \in 1..(i - 1)
      BY <1>1, <1>2, <3>1, <3>3
    <3> QED BY <3>3, <3>4
  <2> HIDE DEF S
  <2>2. Reach(RequiresEdges, order[i]) \subseteq S
    BY <2>1, ReachedIsNeeded
  <2> QED BY <2>2 DEF S
<1>3. ASSUME NEW i \in DOMAIN order, order[i] \in Reach(RequiresEdges, order[i]) PROVE FALSE
  <2>1. PICK j \in 1..(i - 1) : order[j] = order[i]
    BY <1>2, <1>3
  <2>2. j \in DOMAIN order /\ j # i
    BY <1>1, <1>3, <2>1
  <2> QED BY <1>3, <2>1, <2>2 DEF OrderIsRight
<1> QED BY <1>2, <1>3

\* From a visit on the stack those after it are reached.
LEMMA TrailReaches ==
  ASSUME AddonTypeOK, TrailIsPath, NEW i \in DOMAIN trail, NEW j \in DOMAIN trail, i <= j
  PROVE  trail[j][1] \in {trail[i][1]} \cup Reach(RequiresEdges, trail[i][1])
<1>1. PICK n \in Nat : DOMAIN trail = 1..n
  BY DEF TrailIsPath
<1> DEFINE R == Reach(RequiresEdges, trail[i][1])
           Q == {k \in Nat : i + k <= n => trail[i + k][1] \in {trail[i][1]} \cup R}
<1>2. 0 \in Q
  BY <1>1
<1>3. ASSUME NEW k \in Nat, k \in Q PROVE k + 1 \in Q
  <2> SUFFICES ASSUME i + (k + 1) <= n PROVE trail[i + (k + 1)][1] \in R
    OBVIOUS
  <2>1. i + k \in DOMAIN trail /\ (i + k) + 1 \in DOMAIN trail /\ (i + k) + 1 = i + (k + 1)
    BY <1>1
  <2>2. Needs(trail[i + k][1], trail[i + (k + 1)][1])
    BY <2>1 DEF TrailIsPath, Needs
  <2>3. trail[i + k][1] \in {trail[i][1]} \cup R
    BY <1>1, <1>3, <2>1
  <2> QED BY <2>2, <2>3, NeededIsReached
<1> HIDE DEF Q, R
<1>4. j - i \in Q
  <2>1. j - i \in Nat
    BY <1>1
  <2> QED BY <1>2, <1>3, <2>1, EveryNumber
<1> QED BY <1>1, <1>4 DEF Q, R
-----------------------------------------------------------------------------
(* The steps of Resolve.                                                     *)

\* What keeps a selection from being acceptable.
LEMMA Unacceptable ==
  ASSUME AddonTypeOK, NEW a \in Wanted
  PROVE  /\ a \notin program.registered => ~Acceptable
         /\ a \in Reach(RequiresEdges, a) => ~Acceptable
         /\ \A v \in Version : AskedFor(a, v) /\ v # program.version[a] => ~Acceptable
<1>1. a \notin program.registered => ~Acceptable
  BY DEF Acceptable
<1>2. a \in Reach(RequiresEdges, a) => ~Acceptable
  BY DEF Acceptable
<1>3. ASSUME NEW v \in Version, AskedFor(a, v), v # program.version[a], Acceptable PROVE FALSE
  <2>1. v # AnyVersion /\ v # Absent
    BY AddonAssumption
  <2>2. CASE program.selection[a] = v
    BY <1>3, <2>1, <2>2 DEF Acceptable
  <2>3. CASE \E b \in Wanted \cap program.registered : <<a, v>> \in program.requires[b]
    <3>1. PICK b \in Wanted : <<a, v>> \in program.requires[b]
      BY <2>3
    <3>2. \A r \in program.requires[b] : r[2] \in {AnyVersion, program.version[r[1]]}
      BY <1>3 DEF Acceptable
    <3>3. <<a, v>>[1] = a /\ <<a, v>>[2] = v
      OBVIOUS
    <3>4. v \in {AnyVersion, program.version[a]}
      BY <3>1, <3>2, <3>3
    <3> QED BY <1>3, <2>1, <3>4
  <2> QED BY <1>3, <2>2, <2>3 DEF AskedFor
<1> QED BY <1>1, <1>2, <1>3

Uses == [Addon -> Version \cup {AnyVersion, Absent}]

\* A visit that ends Resolve.
LEMMA RefuseInv ==
  ASSUME ResolveInv, uses' \in Uses, ~Acceptable,
         NEW why \in {"unregistered", "version", "cycle", "conflict"}, Refuse(why)
  PROVE  ResolveInv'
<1>1. verdict' = why /\ UNCHANGED <<program, mark, trail, order, edges, cyclic>>
  BY DEF Refuse
<1>2. AddonTypeOK'
  BY <1>1 DEF ResolveInv, AddonTypeOK, Uses
<1>3. OrderIsRight'
  BY <1>1 DEF ResolveInv, OrderIsRight
<1>4. ~Acceptable'
  <2>1. RequiresEdges' = RequiresEdges
    BY <1>1 DEF RequiresEdges
  <2>2. Wanted' = Wanted
    BY <1>1, <2>1 DEF Wanted
  <2> QED BY <1>1, <2>1, <2>2 DEF Acceptable
<1> QED BY <1>1, <1>2, <1>3, <1>4 DEF ResolveInv

\* What a visit of a is called with.
MayAsk(a, asked) ==
    /\ asked \in Uses /\ asked[a] # Absent /\ a \in Wanted
    /\ \A b \in Addon : b # a => asked[b] = uses[b]
    /\ uses[a] \in Version => asked[a] = uses[a]
    /\ asked[a] \in Version => AskedFor(a, asked[a])

MayCall(a, asked, rest) ==
    /\ rest \in Seq(Addon \X SUBSET (Addon \X (Version \cup {AnyVersion})))
    /\ Len(rest) = Len(trail) /\ \A i \in DOMAIN rest : rest[i][1] = trail[i][1]
    /\ rest # <<>> => Needs(rest[Len(rest)][1], a)
    /\ \A i \in DOMAIN rest :
          /\ rest[i][2] \subseteq program.requires[rest[i][1]]
          /\ \A r \in program.requires[rest[i][1]] \ rest[i][2] :
                /\ r[2] = AnyVersion \/ asked[r[1]] = r[2]
                /\ \/ mark[r[1]] = 2
                   \/ i + 1 \in DOMAIN rest /\ r[1] = rest[i + 1][1]
                   \/ i = Len(rest) /\ r[1] = a

\* The rest of the stack is a path as well, but for the requirement it is called for.
LEMMA RestIsPath ==
  ASSUME ResolveInv, verdict = "open", NEW a \in Addon, NEW asked, NEW rest, MayCall(a, asked, rest)
  PROVE  /\ DOMAIN rest = 1..Len(rest) /\ Len(rest) \in Nat /\ DOMAIN rest = DOMAIN trail
         /\ \A b \in Addon : mark[b] = 1 <=> \E i \in DOMAIN rest : rest[i][1] = b
         /\ \A i, j \in DOMAIN rest : rest[i][1] = rest[j][1] => i = j
         /\ \A i \in DOMAIN rest : i + 1 \in DOMAIN rest => <<rest[i][1], rest[i + 1][1]>> \in RequiresEdges
<1>1. DOMAIN rest = 1..Len(rest) /\ Len(rest) \in Nat /\ DOMAIN rest = DOMAIN trail
      /\ \A i \in DOMAIN rest : rest[i][1] = trail[i][1]
  BY DEF ResolveInv, TrailIsPath, MayCall
<1>2. /\ \A b \in Addon : mark[b] = 1 <=> \E i \in DOMAIN trail : trail[i][1] = b
      /\ \A i, j \in DOMAIN trail : trail[i][1] = trail[j][1] => i = j
      /\ \A i \in DOMAIN trail : i + 1 \in DOMAIN trail => <<trail[i][1], trail[i + 1][1]>> \in RequiresEdges
  BY DEF ResolveInv, TrailIsPath
<1>3. ASSUME NEW b \in Addon PROVE mark[b] = 1 <=> \E i \in DOMAIN rest : rest[i][1] = b
  BY <1>1, <1>2
<1>4. \A i, j \in DOMAIN rest : rest[i][1] = rest[j][1] => i = j
  BY <1>1, <1>2
<1>5. \A i \in DOMAIN rest : i + 1 \in DOMAIN rest => <<rest[i][1], rest[i + 1][1]>> \in RequiresEdges
  BY <1>1, <1>2
<1> QED BY <1>1, <1>3, <1>4, <1>5

\* A visit of an add-on that is on the stack closes a cycle.
LEMMA CycleIsReal ==
  ASSUME ResolveInv, verdict = "open", NEW a \in Addon, NEW asked, NEW rest, MayCall(a, asked, rest),
         mark[a] = 1
  PROVE  a \in Reach(RequiresEdges, a)
<1>1. PICK i \in DOMAIN trail : trail[i][1] = a
  BY DEF ResolveInv, TrailIsPath
<1>2. DOMAIN rest = 1..Len(rest) /\ Len(rest) \in Nat /\ DOMAIN rest = DOMAIN trail
  BY RestIsPath
<1> DEFINE n == Len(rest)
<1>3. n \in DOMAIN trail /\ i <= n /\ rest # <<>> /\ rest[n][1] = trail[n][1]
  BY <1>1, <1>2 DEF MayCall
<1>4. Needs(trail[n][1], a)
  BY <1>3 DEF MayCall
<1> HIDE DEF n
<1>5. trail[n][1] \in {a} \cup Reach(RequiresEdges, a)
  BY <1>1, <1>3, TrailReaches DEF ResolveInv
<1> QED BY <1>4, <1>5, NeededIsReached DEF ResolveInv

\* What was asked for stays so.
LEMMA AskedStays ==
  ASSUME ResolveInv, verdict = "open", NEW a \in Addon, NEW asked, MayAsk(a, asked),
         NEW r \in Addon \X (Version \cup {AnyVersion}), Asked(r)
  PROVE  r[2] = AnyVersion \/ asked[r[1]] = r[2]
<1>1. r[1] \in Addon /\ (r[2] # AnyVersion => r[2] \in Version)
  OBVIOUS
<1> QED BY <1>1 DEF Asked, MayAsk

\* What a visit that goes on has of the uses.
LEMMA UsesAfter ==
  ASSUME ResolveInv, verdict = "open", NEW a \in Addon, NEW asked, MayAsk(a, asked),
         a \in program.registered, asked[a] \in {AnyVersion, program.version[a]},
         uses' = asked, program' = program,
         mark' \in [Addon -> 0..2], mark'[a] # 0, \A b \in Addon : b # a => mark'[b] = mark[b]
  PROVE  UsesFit'
<1>1. UsesFit
  BY DEF ResolveInv
<1>2. Wanted' = Wanted /\ \A b, v : AskedFor(b, v)' = AskedFor(b, v)
  BY DEF Wanted, RequiresEdges, AskedFor
<1> SUFFICES ASSUME NEW b \in Addon
             PROVE /\ asked[b] # Absent => b \in Wanted /\ (mark'[b] # 0 \/ program.selection[b] # Absent)
                   /\ asked[b] \in Version => AskedFor(b, asked[b])
                   /\ program.selection[b] # Absent => asked[b] # Absent
                   /\ program.selection[b] \in Version => asked[b] = program.selection[b]
                   /\ mark'[b] # 0 => b \in program.registered /\ asked[b] \in {AnyVersion, program.version[b]}
  BY <1>2 DEF UsesFit
<1>3. CASE b # a
  BY <1>1, <1>3 DEF UsesFit, MayAsk
<1>4. CASE b = a
  <2>1. program.selection[a] \in Version => asked[a] = program.selection[a]
    BY <1>1 DEF UsesFit, MayAsk
  <2> QED BY <1>4, <2>1 DEF MayAsk
<1> QED BY <1>3, <1>4

\* A visit of an add-on that is finished returns at once.
LEMMA VisitAgain ==
  ASSUME ResolveInv, verdict = "open", NEW a \in Addon, NEW asked, MayAsk(a, asked),
         NEW rest, MayCall(a, asked, rest), a \in program.registered,
         asked[a] \in {AnyVersion, program.version[a]}, mark[a] = 2,
         uses' = asked, trail' = rest,
         UNCHANGED <<program, mark, order, edges, cyclic, verdict>>
  PROVE  ResolveInv'
<1>1. AddonTypeOK' /\ OrderIsRight'
  BY DEF ResolveInv, AddonTypeOK, OrderIsRight, MayAsk, Uses
<1>2. UsesFit'
  BY <1>1, UsesAfter DEF AddonTypeOK
<1>3. /\ DOMAIN rest = 1..Len(rest) /\ Len(rest) \in Nat
      /\ \A b \in Addon : mark[b] = 1 <=> \E i \in DOMAIN rest : rest[i][1] = b
      /\ \A i, j \in DOMAIN rest : rest[i][1] = rest[j][1] => i = j
      /\ \A i \in DOMAIN rest : i + 1 \in DOMAIN rest => <<rest[i][1], rest[i + 1][1]>> \in RequiresEdges
  BY RestIsPath
<1>4. \A i \in DOMAIN rest :
         /\ rest[i][2] \subseteq program.requires[rest[i][1]]
         /\ \A r \in program.requires[rest[i][1]] \ rest[i][2] :
               /\ r[2] = AnyVersion \/ asked[r[1]] = r[2]
               /\ mark[r[1]] = 2 \/ (i + 1 \in DOMAIN rest /\ r[1] = rest[i + 1][1])
  BY DEF MayCall
<1>5. RequiresEdges' = RequiresEdges
  BY DEF RequiresEdges
<1>6. TrailIsPath'
  BY <1>3, <1>4, <1>5 DEF TrailIsPath, MayCall
<1>7. RequirementsFit'
  <2>1. ASSUME NEW b \in Addon, mark[b] = 2, NEW r \in program.requires[b]
        PROVE  r[2] = AnyVersion \/ asked[r[1]] = r[2]
    <3>1. r \in Addon \X (Version \cup {AnyVersion})
      BY <2>1 DEF ResolveInv, AddonTypeOK, Program
    <3>2. Asked(r)
      BY <2>1 DEF ResolveInv, RequirementsFit
    <3> QED BY <3>1, <3>2, AskedStays
  <2> QED BY <1>4, <2>1 DEF RequirementsFit, Asked
<1> QED BY <1>1, <1>2, <1>6, <1>7 DEF ResolveInv

\* A stack that is a path, whatever the marks.
StackFits(t, marks, requires, needs) ==
    /\ t \in Seq(Addon \X SUBSET (Addon \X (Version \cup {AnyVersion})))
    /\ \A b \in Addon : marks[b] = 1 <=> \E i \in DOMAIN t : t[i][1] = b
    /\ \A i, j \in DOMAIN t : t[i][1] = t[j][1] => i = j
    /\ \A i \in DOMAIN t :
          /\ t[i][2] \subseteq requires[t[i][1]]
          /\ i + 1 \in DOMAIN t => <<t[i][1], t[i + 1][1]>> \in needs
          /\ \A r \in requires[t[i][1]] \ t[i][2] :
                marks[r[1]] = 2 \/ (i + 1 \in DOMAIN t /\ r[1] = t[i + 1][1])

\* That is what TrailIsPath says of the next state.
LEMMA NextTrail ==
  ASSUME StackFits(trail', mark', program'.requires, RequiresEdges') PROVE TrailIsPath'
BY DEF StackFits, TrailIsPath

\* A first visit puts the add-on on the stack.
LEMMA VisitFirst ==
  ASSUME ResolveInv, verdict = "open", NEW a \in Addon, NEW asked, MayAsk(a, asked),
         NEW rest, MayCall(a, asked, rest), a \in program.registered,
         asked[a] \in {AnyVersion, program.version[a]}, mark[a] = 0,
         uses' = asked, mark' = [mark EXCEPT ![a] = 1],
         trail' = Append(rest, <<a, program.requires[a]>>),
         UNCHANGED <<program, order, edges, cyclic, verdict>>
  PROVE  ResolveInv'
<1>1. mark \in [Addon -> 0..2] /\ order \in Seq(Addon) /\ program.requires[a] \in SUBSET (Addon \X (Version \cup {AnyVersion}))
  BY DEF ResolveInv, AddonTypeOK, Program
<1>2. mark' \in [Addon -> 0..2] /\ mark'[a] = 1 /\ \A b \in Addon : b # a => mark'[b] = mark[b]
  BY <1>1
<1>3. AddonTypeOK'
  BY <1>2 DEF ResolveInv, AddonTypeOK, MayAsk, Uses
<1>4. OrderIsRight'
  <2>1. \A b \in Addon : mark'[b] = 2 <=> mark[b] = 2
    BY <1>2
  <2> QED BY <2>1 DEF ResolveInv, OrderIsRight
<1>5. UsesFit'
  BY <1>2, UsesAfter
<1> DEFINE n == Len(rest)
           u == trail'
           top == <<a, program.requires[a]>>
<1>6. /\ DOMAIN rest = 1..n /\ n \in Nat
      /\ \A b \in Addon : mark[b] = 1 <=> \E i \in DOMAIN rest : rest[i][1] = b
      /\ \A i, j \in DOMAIN rest : rest[i][1] = rest[j][1] => i = j
      /\ \A i \in DOMAIN rest : i + 1 \in DOMAIN rest => <<rest[i][1], rest[i + 1][1]>> \in RequiresEdges
  BY RestIsPath
<1> DEFINE Visit1 == Addon \X SUBSET (Addon \X (Version \cup {AnyVersion}))
<1>7. rest \in Seq(Visit1) /\ top \in Visit1
  BY <1>1 DEF MayCall
<1> HIDE DEF Visit1
<1>8. /\ u \in Seq(Visit1) /\ DOMAIN u = 1..(n + 1) /\ u[n + 1] = top
      /\ \A i \in 1..n : u[i] = rest[i]
  BY <1>7, AppendProperties
<1> HIDE DEF n, u
<1>9. RequiresEdges' = RequiresEdges
  BY DEF RequiresEdges
<1>10. \A b \in Addon : mark'[b] = 1 <=> \E i \in DOMAIN u : u[i][1] = b
  <2> TAKE b \in Addon
  <2>1. CASE b = a
    BY <1>2, <1>6, <1>8, <2>1
  <2>2. CASE b # a
    <3>1. mark'[b] = mark[b]
      BY <1>2, <2>2
    <3>2. \A i \in DOMAIN u : u[i][1] = b => i \in DOMAIN rest /\ rest[i][1] = b
      BY <1>6, <1>8, <2>2
    <3>3. \A i \in DOMAIN rest : i \in DOMAIN u /\ u[i][1] = rest[i][1]
      BY <1>6, <1>8
    <3> QED BY <1>6, <3>1, <3>2, <3>3
  <2> QED BY <2>1, <2>2
<1>11. \A i \in 1..n : rest[i][1] # a
  BY <1>6
<1>12. ASSUME NEW i \in DOMAIN u, NEW j \in DOMAIN u, u[i][1] = u[j][1] PROVE i = j
  <2>1. i \in 1..n \/ i = n + 1
    BY <1>6, <1>8
  <2>2. j \in 1..n \/ j = n + 1
    BY <1>6, <1>8
  <2> QED BY <1>6, <1>8, <1>11, <1>12, <2>1, <2>2
<1>13. ASSUME NEW i \in DOMAIN u
       PROVE  /\ u[i][2] \subseteq program.requires[u[i][1]]
              /\ i + 1 \in DOMAIN u => <<u[i][1], u[i + 1][1]>> \in RequiresEdges
              /\ \A r \in program.requires[u[i][1]] \ u[i][2] :
                    /\ r[2] = AnyVersion \/ asked[r[1]] = r[2]
                    /\ mark'[r[1]] = 2 \/ (i + 1 \in DOMAIN u /\ r[1] = u[i + 1][1])
  <2>1. CASE i = n + 1
    <3>1. u[i] = top /\ i + 1 \notin DOMAIN u
      BY <1>6, <1>8, <2>1
    <3> QED BY <3>1
  <2>2. CASE i \in 1..n
    <3>1. u[i] = rest[i] /\ i \in DOMAIN rest
      BY <1>6, <1>8, <2>2
    <3>2. i + 1 \in DOMAIN u /\ (i + 1 \in DOMAIN rest => u[i + 1] = rest[i + 1])
      BY <1>6, <1>8, <2>2
    <3>3. i + 1 \notin DOMAIN rest => i = n /\ u[i + 1][1] = a
      BY <1>6, <1>8, <2>2
    <3>4. rest # <<>> => <<rest[n][1], a>> \in RequiresEdges
      BY DEF MayCall, Needs, n
    <3>5. rest # <<>>
      BY <1>6, <3>1
    <3>6. <<u[i][1], u[i + 1][1]>> \in RequiresEdges
      BY <1>6, <3>1, <3>2, <3>3, <3>4, <3>5
    <3>7. /\ rest[i][2] \subseteq program.requires[rest[i][1]]
          /\ \A r \in program.requires[rest[i][1]] \ rest[i][2] :
                /\ r[2] = AnyVersion \/ asked[r[1]] = r[2]
                /\ \/ mark[r[1]] = 2
                   \/ i + 1 \in DOMAIN rest /\ r[1] = rest[i + 1][1]
                   \/ i = n /\ r[1] = a
      BY <3>1 DEF MayCall, n
    <3>8. ASSUME NEW r \in program.requires[u[i][1]] \ u[i][2]
          PROVE  /\ r[2] = AnyVersion \/ asked[r[1]] = r[2]
                 /\ mark'[r[1]] = 2 \/ r[1] = u[i + 1][1]
      <4>1. r[1] \in Addon
        <5>1. u[i][1] \in Addon
          BY <1>7, <3>1 DEF Visit1
        <5>2. program.requires[u[i][1]] \in SUBSET (Addon \X (Version \cup {AnyVersion}))
          BY <5>1 DEF ResolveInv, AddonTypeOK, Program
        <5> QED BY <5>2
      <4>2. mark[r[1]] = 2 => mark'[r[1]] = 2
        BY <1>2, <4>1
      <4>3. i = n => u[i + 1][1] = a
        BY <1>8
      <4> QED BY <3>1, <3>2, <3>7, <4>2, <4>3
    <3> QED BY <3>1, <3>2, <3>6, <3>7, <3>8
  <2> QED BY <1>6, <1>8, <2>1, <2>2
<1>14. TrailIsPath'
  <2>1. u \in Seq(Addon \X SUBSET (Addon \X (Version \cup {AnyVersion})))
    BY <1>8 DEF Visit1
  <2>2. trail' = u
    BY DEF u
  <2>3. \A i, j \in DOMAIN u : u[i][1] = u[j][1] => i = j
    BY <1>12
  <2>4. \A i \in DOMAIN u :
           /\ u[i][2] \subseteq program.requires[u[i][1]]
           /\ i + 1 \in DOMAIN u => <<u[i][1], u[i + 1][1]>> \in RequiresEdges
           /\ \A r \in program.requires[u[i][1]] \ u[i][2] :
                 mark'[r[1]] = 2 \/ (i + 1 \in DOMAIN u /\ r[1] = u[i + 1][1])
    BY <1>13
  <2>5. StackFits(u, mark', program.requires, RequiresEdges)
    BY <1>10, <2>1, <2>3, <2>4 DEF StackFits
  <2>6. program' = program
    OBVIOUS
  <2> QED BY <1>9, <2>2, <2>5, <2>6, NextTrail
<1>15. RequirementsFit'
  <2>1. ASSUME NEW b \in Addon, mark'[b] = 2, NEW r \in program.requires[b]
        PROVE  r[2] = AnyVersion \/ asked[r[1]] = r[2]
    <3>1. r \in Addon \X (Version \cup {AnyVersion})
      BY <2>1 DEF ResolveInv, AddonTypeOK, Program
    <3>2. mark[b] = 2
      BY <1>2, <2>1
    <3>3. Asked(r)
      BY <2>1, <3>2 DEF ResolveInv, RequirementsFit
    <3> QED BY <3>1, <3>3, AskedStays
  <2>2. \A i \in DOMAIN u : \A r \in program.requires[u[i][1]] \ u[i][2] :
           r[2] = AnyVersion \/ asked[r[1]] = r[2]
    BY <1>13
  <2>3. trail' = u
    BY DEF u
  <2> QED BY <2>1, <2>2, <2>3 DEF RequirementsFit, Asked
<1> QED BY <1>3, <1>4, <1>5, <1>14, <1>15 DEF ResolveInv

\* Every visit, whatever comes of it.
LEMMA VisitInv ==
  ASSUME ResolveInv, verdict = "open", NEW a \in Addon, NEW asked, MayAsk(a, asked),
         NEW rest, MayCall(a, asked, rest), Visit(a, asked, rest)
  PROVE  ResolveInv'
<1>1. uses' = asked /\ asked \in Uses /\ a \in Wanted /\ AddonTypeOK
  BY DEF Visit, MayAsk, ResolveInv
<1>2. CASE a \notin program.registered /\ Refuse("unregistered")
  <2>1. ~Acceptable
    BY <1>1, <1>2, Unacceptable
  <2> QED BY <1>1, <1>2, <2>1, RefuseInv
<1>3. CASE asked[a] \notin {AnyVersion, program.version[a]} /\ Refuse("version")
  <2>1. asked[a] \in Version
    BY <1>3 DEF MayAsk, Uses
  <2>2. AskedFor(a, asked[a]) /\ asked[a] # program.version[a]
    BY <1>3, <2>1 DEF MayAsk
  <2>3. ~Acceptable
    BY <1>1, <2>1, <2>2, Unacceptable
  <2> QED BY <1>1, <1>3, <2>3, RefuseInv
<1>4. CASE mark[a] = 1 /\ Refuse("cycle")
  <2>1. a \in Reach(RequiresEdges, a)
    BY <1>4, CycleIsReal
  <2>2. ~Acceptable
    BY <1>1, <2>1, Unacceptable
  <2> QED BY <1>1, <1>4, <2>2, RefuseInv
<1>5. CASE /\ a \in program.registered /\ asked[a] \in {AnyVersion, program.version[a]}
           /\ mark[a] = 2 /\ trail' = rest /\ UNCHANGED <<program, mark, order, edges, cyclic, verdict>>
  BY <1>1, <1>5, VisitAgain
<1>6. CASE /\ a \in program.registered /\ asked[a] \in {AnyVersion, program.version[a]}
           /\ mark[a] = 0 /\ mark' = [mark EXCEPT ![a] = 1]
           /\ trail' = Append(rest, <<a, program.requires[a]>>)
           /\ UNCHANGED <<program, order, edges, cyclic, verdict>>
  BY <1>1, <1>6, VisitFirst
<1> QED BY <1>2, <1>3, <1>4, <1>5, <1>6 DEF Visit

\* An add-on of the selection is visited.
LEMMA VisitSelectedInv ==
  ASSUME ResolveInv, NEW a \in Addon, VisitSelected(a)
  PROVE  ResolveInv'
<1>1. verdict = "open" /\ trail = <<>> /\ program.selection[a] # Absent /\ Visit(a, uses, <<>>)
  BY DEF VisitSelected
<1>2. AddonTypeOK /\ UsesFit
  BY <1>1 DEF ResolveInv
<1>3. a \in Wanted
  BY <1>1, <1>2, WantedIs DEF Selected
<1>4. MayAsk(a, uses)
  BY <1>1, <1>2, <1>3 DEF MayAsk, Uses, UsesFit, AddonTypeOK
<1>5. MayCall(a, uses, <<>>)
  BY <1>1 DEF MayCall
<1> QED BY <1>1, <1>4, <1>5, VisitInv

\* The stack without its top, and with less to do for the top.
LEMMA Rest ==
  ASSUME NEW S, NEW t \in Seq(S), t # <<>>, NEW e \in S
  PROVE  LET n == Len(t)
             r == SubSeq(t, 1, n - 1)
             l == Append(r, e)
         IN  /\ n \in Nat /\ n # 0 /\ DOMAIN t = 1..n
             /\ r \in Seq(S) /\ DOMAIN r = 1..(n - 1) /\ \A i \in 1..(n - 1) : r[i] = t[i]
             /\ l \in Seq(S) /\ Len(l) = n /\ DOMAIN l = 1..n /\ l[n] = e
             /\ \A i \in 1..(n - 1) : l[i] = t[i]
<1> DEFINE n == Len(t)
           r == SubSeq(t, 1, n - 1)
           l == Append(r, e)
<1>1. n \in Nat /\ n # 0 /\ DOMAIN t = 1..n
  OBVIOUS
<1>2. r \in Seq(S) /\ Len(r) = n - 1 /\ \A i \in 1..(n - 1) : r[i] = t[i]
  <2>1. 1 \in 1..(n + 1) /\ n - 1 \in 0..n
    BY <1>1
  <2>2. \A i \in 1..n : t[i] \in S
    BY <1>1
  <2> QED BY <1>1, <2>1, <2>2, SubSeqProperties
<1> HIDE DEF n, r
<1>3. DOMAIN r = 1..(n - 1)
  BY <1>1, <1>2
<1>4. l \in Seq(S) /\ Len(l) = n /\ l[n] = e /\ \A i \in 1..(n - 1) : l[i] = r[i]
  <2>1. n - 1 \in Nat /\ (n - 1) + 1 = n
    BY <1>1
  <2> QED BY <1>2, <2>1, AppendProperties
<1>5. DOMAIN l = 1..n
  BY <1>1, <1>4
<1> HIDE DEF l
<1> QED BY <1>1, <1>2, <1>3, <1>4, <1>5 DEF n, r, l

\* One requirement of the add-on on top is taken up.
LEMMA VisitRequirementInv ==
  ASSUME ResolveInv, VisitRequirement
  PROVE  ResolveInv'
<1> DEFINE n == Len(trail)
           top == trail[n]
           rest == SubSeq(trail, 1, n - 1)
           V == Version \cup {AnyVersion}
           S == Addon \X SUBSET (Addon \X V)
<1>1. verdict = "open" /\ trail # <<>>
  BY DEF VisitRequirement
<1>2. AddonTypeOK /\ TrailIsPath /\ UsesFit /\ RequirementsFit
  BY <1>1 DEF ResolveInv
<1>3. trail \in Seq(S)
  BY <1>2 DEF TrailIsPath
<1>4. PICK requirement \in top[2] :
         LET required == requirement[1]
             version == requirement[2]
             left == Append(rest, <<top[1], top[2] \ {requirement}>>)
         IN \/ /\ version # AnyVersion /\ uses[required] \notin {AnyVersion, Absent, version}
               /\ Refuse("version") /\ UNCHANGED uses
            \/ /\ version # AnyVersion /\ uses[required] \in {AnyVersion, Absent, version}
               /\ Visit(required, [uses EXCEPT ![required] = version], left)
            \/ /\ version = AnyVersion
               /\ Visit(required, [uses EXCEPT ![required] = IF @ = Absent THEN AnyVersion ELSE @], left)
  BY DEF VisitRequirement
<1> DEFINE required == requirement[1]
           version == requirement[2]
           less == <<top[1], top[2] \ {requirement}>>
           left == Append(rest, less)
<1>5. n \in Nat /\ n # 0 /\ DOMAIN trail = 1..n /\ n \in DOMAIN trail /\ top \in S
  BY <1>1, <1>3
<1>6. /\ top[1] \in Addon /\ mark[top[1]] = 1 /\ top[2] \subseteq program.requires[top[1]]
  BY <1>2, <1>5 DEF TrailIsPath
<1>7. top[1] \in program.registered /\ top[1] \in Wanted
  BY <1>2, <1>6, AddonAssumption DEF UsesFit, AddonTypeOK, Program
<1>8. /\ requirement \in program.requires[top[1]] /\ requirement \in Addon \X V
      /\ required \in Addon /\ version \in V /\ requirement = <<required, version>>
      /\ Needs(top[1], required)
  <2>1. requirement \in program.requires[top[1]]
    BY <1>6
  <2>2. requirement \in Addon \X V /\ Needs(top[1], required)
    BY <1>2, <1>7, <2>1, EdgesAre
  <2> QED BY <2>1, <2>2
<1>9. required \in Wanted
  BY <1>2, <1>7, <1>8, WantedIs
<1>10. version # AnyVersion => AskedFor(required, version)
  BY <1>7, <1>8 DEF AskedFor
<1>11. less \in S
  BY <1>5, <1>6
<1>12. /\ left \in Seq(S) /\ Len(left) = n /\ DOMAIN left = 1..n /\ left[n] = less
       /\ \A i \in 1..(n - 1) : left[i] = trail[i]
  <2> HIDE DEF S, less
  <2> QED BY <1>1, <1>3, <1>11, Rest
<1>13. uses \in Uses
  BY <1>2 DEF AddonTypeOK, Uses
<1> HIDE DEF left, n
<1>14. ASSUME NEW asked \in Uses, \A b \in Addon : b # required => asked[b] = uses[b],
              uses[required] \in Version => asked[required] = uses[required],
              version = AnyVersion \/ asked[required] = version
       PROVE  MayCall(required, asked, left)
  <2>1. \A i \in DOMAIN left : left[i][1] = trail[i][1]
    <3>1. ASSUME NEW i \in 1..n PROVE left[i][1] = trail[i][1]
      <4>1. CASE i = n
        <5>1. left[n][1] = less[1] /\ less[1] = trail[n][1]
          BY <1>12
        <5> QED BY <4>1, <5>1
      <4>2. CASE i # n
        <5>1. i \in 1..(n - 1)
          BY <1>5, <4>2
        <5> QED BY <1>12, <5>1
      <4> QED BY <4>1, <4>2
    <3> QED BY <1>12, <3>1
  <2>2. left # <<>> => Needs(left[Len(left)][1], required)
    BY <1>8, <1>12
  <2>3. ASSUME NEW i \in DOMAIN left
        PROVE  /\ left[i][2] \subseteq program.requires[left[i][1]]
               /\ \A r \in program.requires[left[i][1]] \ left[i][2] :
                     /\ r[2] = AnyVersion \/ asked[r[1]] = r[2]
                     /\ \/ mark[r[1]] = 2
                        \/ i + 1 \in DOMAIN left /\ r[1] = left[i + 1][1]
                        \/ i = Len(left) /\ r[1] = required
    <3>1. ASSUME NEW r \in Addon \X V, Asked(r) PROVE r[2] = AnyVersion \/ asked[r[1]] = r[2]
      <4>1. r[1] \in Addon /\ (r[2] # AnyVersion => r[2] \in Version)
        OBVIOUS
      <4> QED BY <1>14, <3>1, <4>1 DEF Asked
    <3>2. i \in DOMAIN trail /\ left[i][1] = trail[i][1] /\ trail[i] \in S
      BY <1>3, <1>5, <1>12, <2>1, <2>3
    <3>3. program.requires[trail[i][1]] \in SUBSET (Addon \X V)
      BY <1>2, <3>2 DEF AddonTypeOK, Program
    <3>4. /\ trail[i][2] \subseteq program.requires[trail[i][1]]
          /\ \A r \in program.requires[trail[i][1]] \ trail[i][2] :
                Asked(r) /\ (mark[r[1]] = 2 \/ (i + 1 \in DOMAIN trail /\ r[1] = trail[i + 1][1]))
      BY <1>2, <3>2 DEF TrailIsPath, RequirementsFit
    <3>5. CASE i = n
      <4>1. left[i][1] = top[1] /\ left[i][2] = top[2] \ {requirement} /\ trail[i] = top
        BY <1>12, <3>5 DEF n
      <4>2. i + 1 \notin DOMAIN trail
        BY <1>5, <3>5
      <4>3. ASSUME NEW r \in program.requires[top[1]] \ left[i][2]
            PROVE  /\ r[2] = AnyVersion \/ asked[r[1]] = r[2]
                   /\ mark[r[1]] = 2 \/ r[1] = required
        <5>1. CASE r = requirement
          BY <1>14, <5>1
        <5>2. CASE r # requirement
          <6>1. r \in program.requires[trail[i][1]] \ trail[i][2]
            BY <4>1, <4>3, <5>2
          <6> QED BY <3>1, <3>3, <3>4, <4>2, <6>1
        <5> QED BY <5>1, <5>2
      <4> QED BY <1>12, <3>4, <3>5, <4>1, <4>3
    <3>6. CASE i # n
      <4>1. left[i] = trail[i] /\ i + 1 \in DOMAIN left /\ i + 1 \in DOMAIN trail
        BY <1>5, <1>12, <3>6
      <4>2. left[i + 1][1] = trail[i + 1][1]
        BY <2>1, <4>1
      <4>3. \A r \in program.requires[trail[i][1]] \ trail[i][2] :
               r[2] = AnyVersion \/ asked[r[1]] = r[2]
        BY <3>1, <3>3, <3>4
      <4> QED BY <3>4, <4>1, <4>2, <4>3
    <3> QED BY <3>5, <3>6
  <2>4. left \in Seq(Addon \X SUBSET (Addon \X (Version \cup {AnyVersion}))) /\ Len(left) = Len(trail)
    BY <1>12 DEF n
  <2> HIDE DEF required
  <2> QED BY <2>1, <2>2, <2>3, <2>4 DEF MayCall
<1>15. CASE /\ version # AnyVersion /\ uses[required] \notin {AnyVersion, Absent, version}
            /\ Refuse("version") /\ UNCHANGED uses
  <2>1. uses[required] \in Version /\ version \in Version /\ uses[required] # version
    BY <1>8, <1>13, <1>15 DEF Uses
  <2>2. AskedFor(required, uses[required]) /\ AskedFor(required, version)
    BY <1>2, <1>8, <1>10, <1>15, <2>1 DEF UsesFit
  <2>3. ~Acceptable
    BY <1>2, <1>9, <2>1, <2>2, Unacceptable
  <2>4. uses' \in Uses
    BY <1>13, <1>15
  <2> QED BY <1>15, <2>3, <2>4, RefuseInv
<1>16. CASE /\ version # AnyVersion /\ uses[required] \in {AnyVersion, Absent, version}
            /\ Visit(required, [uses EXCEPT ![required] = version], left)
  <2> DEFINE asked == [uses EXCEPT ![required] = version]
  <2>1. asked \in Uses /\ asked[required] = version /\ \A b \in Addon : b # required => asked[b] = uses[b]
    BY <1>8, <1>13 DEF Uses
  <2>2. version \in Version /\ version # Absent
    BY <1>8, <1>16, AddonAssumption
  <2>3. uses[required] \in Version => uses[required] = version
    BY <1>16, AddonAssumption
  <2>4. Visit(required, asked, left)
    BY <1>16
  <2> HIDE DEF asked
  <2>5. MayAsk(required, asked)
    BY <1>9, <1>10, <1>16, <2>1, <2>2, <2>3 DEF MayAsk
  <2>6. MayCall(required, asked, left)
    BY <1>14, <2>1, <2>3
  <2> HIDE DEF required
  <2> QED BY <1>1, <1>8, <2>4, <2>5, <2>6, VisitInv
<1>17. CASE /\ version = AnyVersion
            /\ Visit(required, [uses EXCEPT ![required] = IF @ = Absent THEN AnyVersion ELSE @], left)
  <2> DEFINE asked == [uses EXCEPT ![required] = IF @ = Absent THEN AnyVersion ELSE @]
  <2>1. /\ asked \in Uses
        /\ asked[required] = IF uses[required] = Absent THEN AnyVersion ELSE uses[required]
        /\ \A b \in Addon : b # required => asked[b] = uses[b]
    BY <1>8, <1>13 DEF Uses
  <2>2. uses[required] \in Version => asked[required] = uses[required]
    BY <2>1, AddonAssumption
  <2>3. asked[required] # Absent /\ (asked[required] \in Version => AskedFor(required, asked[required]))
    BY <1>2, <1>8, <2>1, AddonAssumption DEF UsesFit
  <2>4. Visit(required, asked, left)
    BY <1>17
  <2> HIDE DEF asked
  <2>5. MayAsk(required, asked)
    BY <1>9, <2>1, <2>2, <2>3 DEF MayAsk
  <2>6. MayCall(required, asked, left)
    BY <1>14, <1>17, <2>1, <2>2
  <2> HIDE DEF required
  <2> QED BY <1>1, <1>8, <2>4, <2>5, <2>6, VisitInv
<1> QED BY <1>4, <1>15, <1>16, <1>17 DEF left

\* The add-on on top has nothing left to visit, and is finished.
LEMMA FinishVisitInv ==
  ASSUME ResolveInv, FinishVisit
  PROVE  ResolveInv'
<1> DEFINE n == Len(trail)
           top == trail[n]
           rest == SubSeq(trail, 1, n - 1)
           V == Version \cup {AnyVersion}
           S == Addon \X SUBSET (Addon \X V)
           a == top[1]
<1>1. /\ verdict = "open" /\ trail # <<>> /\ top[2] = {}
      /\ mark' = [mark EXCEPT ![a] = 2] /\ order' = Append(order, a) /\ trail' = rest
      /\ UNCHANGED <<program, uses, edges, cyclic, verdict>>
  BY DEF FinishVisit
<1>2. AddonTypeOK /\ OrderIsRight /\ TrailIsPath /\ UsesFit /\ RequirementsFit
  BY <1>1 DEF ResolveInv
<1>3. trail \in Seq(S)
  BY <1>2 DEF TrailIsPath
<1>4. n \in Nat /\ n # 0 /\ DOMAIN trail = 1..n /\ n \in DOMAIN trail /\ top \in S
  BY <1>1, <1>3
<1>5. a \in Addon /\ mark[a] = 1 /\ a \in program.registered
  <2>1. a \in Addon /\ mark[a] = 1
    BY <1>2, <1>4 DEF TrailIsPath
  <2> QED BY <1>2, <2>1 DEF UsesFit
<1>6. rest \in Seq(S) /\ DOMAIN rest = 1..(n - 1) /\ \A i \in 1..(n - 1) : rest[i] = trail[i]
  <2> HIDE DEF S
  <2> QED BY <1>1, <1>3, <1>4, Rest
<1> HIDE DEF rest
<1>7. mark' \in [Addon -> 0..2] /\ mark'[a] = 2 /\ \A b \in Addon : b # a => mark'[b] = mark[b]
  BY <1>1, <1>2, <1>5 DEF AddonTypeOK
<1> DEFINE k == Len(order)
<1>8. k \in Nat /\ DOMAIN order = 1..k /\ order \in Seq(Addon)
  BY <1>2 DEF AddonTypeOK
<1>9. order' \in Seq(Addon) /\ DOMAIN order' = 1..(k + 1) /\ order'[k + 1] = a /\ \A i \in 1..k : order'[i] = order[i]
  <2>1. order' = Append(order, a)
    BY <1>1
  <2> QED BY <1>5, <1>8, <2>1, AppendProperties
<1> HIDE DEF k
<1>10. AddonTypeOK'
  BY <1>1, <1>2, <1>7, <1>9 DEF AddonTypeOK
<1>11. ASSUME NEW r \in program.requires[a] PROVE Asked(r) /\ r[1] \in Addon /\ mark[r[1]] = 2
  <2>1. n + 1 \notin DOMAIN trail
    BY <1>4
  <2>2. r \in program.requires[trail[n][1]] \ trail[n][2]
    BY <1>1, <1>11
  <2>3. Asked(r) /\ mark[r[1]] = 2
    <3> HIDE DEF n
    <3> QED BY <1>2, <1>4, <2>1, <2>2 DEF TrailIsPath, RequirementsFit
  <2>4. r[1] \in Addon
    BY <1>2, <1>5, EdgesAre
  <2> QED BY <2>3, <2>4
<1> HIDE DEF n, a
<1>12. OrderIsRight'
  <2>1. \A i \in 1..k : order[i] # a
    BY <1>2, <1>5, <1>8 DEF OrderIsRight
  <2>2. ASSUME NEW b \in Addon PROVE mark'[b] = 2 <=> \E i \in DOMAIN order' : order'[i] = b
    <3>1. CASE b = a
      <4>1. k + 1 \in DOMAIN order'
        BY <1>8, <1>9
      <4> QED BY <1>7, <1>9, <3>1, <4>1
    <3>2. CASE b # a
      <4>1. mark'[b] = mark[b]
        BY <1>7, <3>2
      <4>2. mark[b] = 2 <=> \E i \in 1..k : order[i] = b
        BY <1>2, <1>8 DEF OrderIsRight
      <4>3. \A i \in DOMAIN order' : order'[i] = b => i \in 1..k
        BY <1>8, <1>9, <3>2
      <4>4. \A i \in 1..k : i \in DOMAIN order'
        BY <1>8, <1>9
      <4> QED BY <1>9, <4>1, <4>2, <4>3, <4>4
    <3> QED BY <3>1, <3>2
  <2>3. ASSUME NEW i \in DOMAIN order', NEW j \in DOMAIN order', order'[i] = order'[j] PROVE i = j
    <3>1. (i \in 1..k \/ i = k + 1) /\ (j \in 1..k \/ j = k + 1)
      BY <1>8, <1>9
    <3>2. CASE i \in 1..k /\ j \in 1..k
      BY <1>2, <1>8, <1>9, <2>3, <3>2 DEF OrderIsRight
    <3>3. CASE i = k + 1 /\ j \in 1..k
      BY <1>9, <2>1, <2>3, <3>3
    <3>4. CASE i \in 1..k /\ j = k + 1
      BY <1>9, <2>1, <2>3, <3>4
    <3> QED BY <3>1, <3>2, <3>3, <3>4
  <2>4. ASSUME NEW i \in DOMAIN order'
        PROVE  /\ order'[i] \in program.registered
               /\ \A r \in program.requires[order'[i]] : \E j \in 1..(i - 1) : order'[j] = r[1]
    <3>1. CASE i \in 1..k
      <4>1. order'[i] = order[i] /\ \A j \in 1..(i - 1) : j \in 1..k /\ order'[j] = order[j]
        BY <1>8, <1>9, <3>1
      <4>2. /\ order[i] \in program.registered
            /\ \A r \in program.requires[order[i]] : \E j \in 1..(i - 1) : order[j] = r[1]
        BY <1>2, <1>8, <3>1 DEF OrderIsRight
      <4> QED BY <4>1, <4>2
    <3>2. CASE i = k + 1
      <4>1. order'[i] = a /\ i - 1 = k
        BY <1>8, <1>9, <3>2
      <4>2. ASSUME NEW r \in program.requires[a] PROVE \E j \in 1..k : order'[j] = r[1]
        <5>1. r[1] \in Addon /\ mark[r[1]] = 2
          BY <1>11
        <5>2. PICK j \in 1..k : order[j] = r[1]
          BY <1>2, <1>8, <5>1 DEF OrderIsRight
        <5> QED BY <1>9, <5>2
      <4> QED BY <1>5, <4>1, <4>2
    <3> QED BY <1>8, <1>9, <3>1, <3>2
  <2> QED BY <1>1, <2>2, <2>3, <2>4 DEF OrderIsRight
<1>13. RequiresEdges' = RequiresEdges /\ Wanted' = Wanted
  BY <1>1 DEF RequiresEdges, Wanted
<1>14. TrailIsPath'
  <2>1. n \in Nat /\ n # 0 /\ trail[n] = top /\ top[1] = a /\ DOMAIN trail = 1..n
    BY <1>4 DEF n, a
  <2>2. \A i \in 1..(n - 1) : i \in DOMAIN trail /\ i + 1 \in DOMAIN trail /\ (i + 1 \in 1..(n - 1) \/ i + 1 = n)
    BY <2>1
  <2>3. \A i \in 1..(n - 1) : trail[i][1] # a
    <3>1. \A i \in 1..(n - 1) : i \in 1..n /\ i # n
      BY <2>1
    <3> QED BY <1>2, <1>4, <2>1, <3>1 DEF TrailIsPath
  <2>4. ASSUME NEW b \in Addon PROVE mark'[b] = 1 <=> \E i \in DOMAIN rest : rest[i][1] = b
    <3>1. CASE b = a
      BY <1>6, <1>7, <2>3, <3>1
    <3>2. CASE b # a
      <4>1. mark'[b] = mark[b]
        BY <1>7, <3>2
      <4>2. mark[b] = 1 <=> \E i \in 1..n : trail[i][1] = b
        BY <1>2, <2>1 DEF TrailIsPath
      <4>3. \A i \in 1..n : trail[i][1] = b => i \in 1..(n - 1)
        BY <2>1, <3>2
      <4>4. \A i \in 1..(n - 1) : i \in 1..n
        BY <2>1
      <4> QED BY <1>6, <4>1, <4>2, <4>3, <4>4
    <3> QED BY <3>1, <3>2
  <2>5. ASSUME NEW i \in DOMAIN rest
        PROVE  /\ rest[i][2] \subseteq program.requires[rest[i][1]]
               /\ i + 1 \in DOMAIN rest => <<rest[i][1], rest[i + 1][1]>> \in RequiresEdges
               /\ \A r \in program.requires[rest[i][1]] \ rest[i][2] :
                     mark'[r[1]] = 2 \/ (i + 1 \in DOMAIN rest /\ r[1] = rest[i + 1][1])
    <3>1. /\ i \in DOMAIN trail /\ i + 1 \in DOMAIN trail /\ rest[i] = trail[i]
          /\ i + 1 \in DOMAIN rest => rest[i + 1] = trail[i + 1]
          /\ i + 1 \in DOMAIN rest \/ trail[i + 1][1] = a
      BY <1>6, <2>1, <2>2
    <3>2. /\ trail[i][2] \subseteq program.requires[trail[i][1]]
          /\ <<trail[i][1], trail[i + 1][1]>> \in RequiresEdges
          /\ \A r \in program.requires[trail[i][1]] \ trail[i][2] : mark[r[1]] = 2 \/ r[1] = trail[i + 1][1]
      BY <1>2, <3>1 DEF TrailIsPath
    <3>3. ASSUME NEW r \in program.requires[trail[i][1]] PROVE r[1] \in Addon
      <4>1. trail[i][1] \in Addon
        BY <1>3, <3>1
      <4> QED BY <1>2, <4>1 DEF AddonTypeOK, Program
    <3>4. ASSUME NEW r \in program.requires[rest[i][1]] \ rest[i][2]
          PROVE  mark'[r[1]] = 2 \/ (i + 1 \in DOMAIN rest /\ r[1] = rest[i + 1][1])
      <4>1. r[1] \in Addon /\ (mark[r[1]] = 2 \/ r[1] = trail[i + 1][1])
        BY <3>1, <3>2, <3>3, <3>4
      <4>2. mark[r[1]] = 2 => mark'[r[1]] = 2
        BY <1>7, <4>1
      <4> QED BY <1>7, <3>1, <4>1, <4>2
    <3> QED BY <3>1, <3>2, <3>4
  <2>6. ASSUME NEW i \in DOMAIN rest, NEW j \in DOMAIN rest, rest[i][1] = rest[j][1] PROVE i = j
    <3>1. i \in DOMAIN trail /\ j \in DOMAIN trail /\ rest[i] = trail[i] /\ rest[j] = trail[j]
      BY <1>2, <1>6, <2>2
    <3>2. trail[i][1] = trail[j][1]
      BY <2>6, <3>1
    <3> QED BY <1>2, <3>1, <3>2 DEF TrailIsPath
  <2>7. rest \in Seq(Addon \X SUBSET (Addon \X (Version \cup {AnyVersion})))
    BY <1>6
  <2> HIDE DEF S
  <2>8. StackFits(rest, mark', program.requires, RequiresEdges)
    BY <2>4, <2>5, <2>6, <2>7 DEF StackFits
  <2> QED BY <1>1, <1>13, <2>8, NextTrail
<1>15. UsesFit'
  <2>1. \A b, v : AskedFor(b, v)' = AskedFor(b, v)
    BY <1>1, <1>13 DEF AskedFor
  <2>2. \A b \in Addon : mark'[b] # 0 <=> mark[b] # 0
    BY <1>5, <1>7
  <2>3. \A b \in Addon :
          /\ uses[b] # Absent => b \in Wanted /\ (mark[b] # 0 \/ program.selection[b] # Absent)
          /\ uses[b] \in Version => AskedFor(b, uses[b])
          /\ program.selection[b] # Absent => uses[b] # Absent
          /\ program.selection[b] \in Version => uses[b] = program.selection[b]
          /\ mark[b] # 0 => b \in program.registered /\ uses[b] \in {AnyVersion, program.version[b]}
    BY <1>2 DEF UsesFit
  <2> QED BY <1>1, <1>13, <2>1, <2>2, <2>3 DEF UsesFit
<1>16. RequirementsFit'
  <2>1. ASSUME NEW b \in Addon, mark'[b] = 2, NEW r \in program.requires[b] PROVE Asked(r)
    <3>1. CASE b = a
      BY <1>11, <2>1, <3>1
    <3>2. CASE b # a
      BY <1>2, <1>7, <2>1, <3>2 DEF RequirementsFit
    <3> QED BY <3>1, <3>2
  <2>2. ASSUME NEW i \in DOMAIN rest, NEW r \in program.requires[rest[i][1]] \ rest[i][2] PROVE Asked(r)
    <3>1. i \in DOMAIN trail /\ rest[i] = trail[i]
      BY <1>4, <1>6 DEF n
    <3> QED BY <1>2, <2>2, <3>1 DEF RequirementsFit
  <2>3. \A r : Asked(r)' = Asked(r)
    BY <1>1 DEF Asked
  <2> QED BY <1>1, <2>1, <2>2, <2>3 DEF RequirementsFit
<1> QED BY <1>1, <1>10, <1>12, <1>14, <1>15, <1>16 DEF ResolveInv

\* All is visited: the selection is acceptable but for conflicts, which are looked for now.
LEMMA FinishResolveInv ==
  ASSUME ResolveInv, FinishResolve
  PROVE  ResolveInv'
<1>1. /\ verdict = "open" /\ trail = <<>>
      /\ \A a \in Addon : program.selection[a] # Absent => mark[a] = 2
      /\ verdict' = IF \E a \in InUse : program.conflicts[a] \cap InUse # {} THEN "conflict" ELSE "accepted"
      /\ edges' = IF verdict' = "accepted" THEN HookEdges ELSE {}
      /\ cyclic' \in BOOLEAN
      /\ UNCHANGED <<program, uses, mark, trail, order>>
  BY DEF FinishResolve
<1>2. AddonTypeOK /\ OrderIsRight /\ TrailIsPath /\ UsesFit /\ RequirementsFit
  BY <1>1 DEF ResolveInv
<1> DEFINE finished == {a \in Addon : mark[a] = 2}
<1>3. {order[i] : i \in DOMAIN order} = finished
  <2>1. \A i \in DOMAIN order : order[i] \in Addon
    BY <1>2 DEF AddonTypeOK
  <2> QED BY <1>2, <2>1 DEF OrderIsRight
<1>4. \A a \in Addon : mark[a] = 0 \/ mark[a] = 2
  <2>1. \A a \in Addon : mark[a] # 1
    BY <1>1, <1>2 DEF TrailIsPath
  <2> QED BY <1>2, <2>1 DEF AddonTypeOK
<1>5. Wanted \subseteq finished
  <2>1. \A a : Selected(a) => a \in finished
    BY <1>1 DEF Selected
  <2>2. ASSUME NEW b \in finished, NEW c, Needs(b, c) PROVE c \in finished
    <3>1. PICK v : <<c, v>> \in program.requires[b]
      BY <1>2, <2>2, EdgesAre
    <3>2. PICK i \in DOMAIN order : order[i] = b
      BY <1>3
    <3>3. PICK j \in 1..(i - 1) : order[j] = c
      BY <1>2, <3>1, <3>2 DEF OrderIsRight
    <3>4. j \in DOMAIN order
      BY <1>2, <3>2, <3>3 DEF AddonTypeOK
    <3> QED BY <1>3, <3>3, <3>4
  <2> HIDE DEF finished
  <2> QED BY <1>2, <2>1, <2>2, WantedIs
<1>6. InUse \subseteq Wanted
  BY <1>2 DEF InUse, UsesFit
<1>7. finished \subseteq InUse
  <2>1. ASSUME NEW a \in finished PROVE uses[a] # Absent
    <3>1. a \in Addon /\ uses[a] \in {AnyVersion, program.version[a]}
      BY <1>2, <2>1 DEF UsesFit
    <3>2. program.version[a] \in Version
      BY <1>2, <3>1 DEF AddonTypeOK, Program
    <3> QED BY <3>1, <3>2, AddonAssumption
  <2> QED BY <2>1 DEF InUse
<1>8. InUse = Wanted /\ {order[i] : i \in DOMAIN order} = Wanted /\ Wanted = finished
  <2> HIDE DEF finished
  <2> QED BY <1>3, <1>5, <1>6, <1>7
<1>9. RequiresEdges' = RequiresEdges /\ Wanted' = Wanted /\ InUse' = InUse
  BY <1>1 DEF RequiresEdges, Wanted, InUse
<1>10. HookEdges' = HookEdges /\ HookEdges \subseteq Addon \X Addon
  <2>1. Callbacks' = Callbacks /\ Callbacks \subseteq Addon
    BY <1>1, <1>9 DEF Callbacks, InUse
  <2> QED BY <1>1, <1>9, <2>1 DEF HookEdges
<1>11. AddonTypeOK'
  BY <1>1, <1>2, <1>10 DEF AddonTypeOK
<1>12. OrderIsRight'
  BY <1>1, <1>2 DEF OrderIsRight
<1>13. ASSUME NEW a \in Wanted
       PROVE  /\ a \in program.registered
              /\ program.selection[a] \in {AnyVersion, Absent, program.version[a]}
              /\ \A r \in program.requires[a] : r[2] \in {AnyVersion, program.version[r[1]]}
              /\ a \notin Reach(RequiresEdges, a)
  <2>1. a \in Addon /\ mark[a] = 2
    BY <1>8
  <2>2. a \in program.registered /\ uses[a] \in {AnyVersion, program.version[a]}
    BY <1>2, <2>1 DEF UsesFit
  <2>3. program.selection[a] \in {AnyVersion, Absent, program.version[a]}
    <3>1. program.selection[a] \in Version \cup {AnyVersion, Absent}
      BY <1>2, <2>1 DEF AddonTypeOK, Program
    <3>2. program.selection[a] \in Version => program.selection[a] = uses[a]
      BY <1>2, <2>1 DEF UsesFit
    <3> QED BY <2>2, <3>1, <3>2, AddonAssumption
  <2>4. ASSUME NEW r \in program.requires[a] PROVE r[2] \in {AnyVersion, program.version[r[1]]}
    <3>1. Asked(r)
      BY <1>2, <2>1 DEF RequirementsFit
    <3>2. r[1] \in Addon /\ Needs(a, r[1])
      BY <1>2, <2>2, EdgesAre
    <3>3. r[1] \in Wanted
      BY <1>2, <3>2, WantedIs
    <3>4. mark[r[1]] = 2
      BY <1>8, <3>3
    <3>5. uses[r[1]] \in {AnyVersion, program.version[r[1]]}
      BY <1>2, <3>2, <3>4 DEF UsesFit
    <3> QED BY <3>1, <3>5 DEF Asked
  <2>5. a \notin Reach(RequiresEdges, a)
    <3>1. PICK i \in DOMAIN order : order[i] = a
      BY <1>8
    <3> QED BY <1>2, <3>1, OrderHasNoCycle
  <2> QED BY <2>2, <2>3, <2>4, <2>5
<1>14. Acceptable <=> \A a \in InUse : program.conflicts[a] \cap InUse = {}
  <2>1. Wanted \subseteq program.registered
    BY <1>13
  <2> QED BY <1>8, <1>13, <2>1 DEF Acceptable
<1>15. Acceptable' <=> Acceptable
  BY <1>1, <1>9 DEF Acceptable
<1> HIDE DEF finished
<1>16. {order[i] : i \in DOMAIN order}' = {order[i] : i \in DOMAIN order}
  BY <1>1
<1>17. CASE \E a \in InUse : program.conflicts[a] \cap InUse # {}
  <2>1. verdict' = "conflict" /\ ~Acceptable'
    BY <1>1, <1>14, <1>15, <1>17
  <2> QED BY <1>11, <1>12, <2>1 DEF ResolveInv
<1>18. CASE ~\E a \in InUse : program.conflicts[a] \cap InUse # {}
  <2>1. verdict' = "accepted" /\ Acceptable' /\ edges' = HookEdges'
    BY <1>1, <1>10, <1>14, <1>15, <1>18
  <2> QED BY <1>8, <1>9, <1>11, <1>12, <1>16, <2>1 DEF ResolveInv
<1> QED BY <1>17, <1>18

\* Resolve starts with nothing visited.
LEMMA AddonInitInv ==
  ASSUME AddonInit, program \in Program
  PROVE  ResolveInv
<1>1. /\ uses = program.selection /\ mark = [a \in Addon |-> 0]
      /\ trail = <<>> /\ order = <<>> /\ edges = {} /\ cyclic = FALSE /\ verdict = "open"
  BY DEF AddonInit
<1>2. program.selection \in [Addon -> Version \cup {AnyVersion, Absent}]
  BY DEF Program
<1>3. AddonTypeOK
  <2>1. uses \in [Addon -> Version \cup {AnyVersion, Absent}]
    BY <1>1, <1>2
  <2>2. mark \in [Addon -> 0..2]
    BY <1>1
  <2>3. order \in Seq(Addon)
    BY <1>1
  <2>4. edges \subseteq Addon \X Addon
    BY <1>1
  <2> QED BY <1>1, <2>1, <2>2, <2>3, <2>4 DEF AddonTypeOK
<1>4. OrderIsRight /\ TrailIsPath /\ RequirementsFit
  BY <1>1 DEF OrderIsRight, TrailIsPath, RequirementsFit
<1>5. \A a \in Addon : program.selection[a] # Absent => a \in Wanted
  BY <1>3, WantedIs DEF Selected
<1>6. UsesFit
  BY <1>1, <1>2, <1>5 DEF UsesFit, AskedFor
<1> QED BY <1>1, <1>3, <1>4, <1>6 DEF ResolveInv

\* Each step of Resolve.
LEMMA ResolveStepInv ==
  ASSUME ResolveInv, ResolveStep
  PROVE  ResolveInv'
BY VisitSelectedInv, VisitRequirementInv, FinishVisitInv, FinishResolveInv DEF ResolveStep

\* And every step that is not one of them.
LEMMA ResolveInvStays ==
  ASSUME ResolveInv, UNCHANGED addonVars
  PROVE  ResolveInv'
<1>1. UNCHANGED <<program, uses, mark, trail, order, edges, cyclic, verdict>>
  BY DEF addonVars
<1>2. AddonTypeOK' = AddonTypeOK /\ OrderIsRight' = OrderIsRight
  BY <1>1 DEF AddonTypeOK, OrderIsRight
<1>3. RequiresEdges' = RequiresEdges /\ Wanted' = Wanted /\ InUse' = InUse
  BY <1>1 DEF RequiresEdges, Wanted, InUse
<1>4. Callbacks' = Callbacks
  BY <1>1, <1>3 DEF Callbacks
<1>5. HookEdges' = HookEdges /\ Acceptable' = Acceptable
  BY <1>1, <1>3, <1>4 DEF HookEdges, Acceptable
<1>6. /\ TrailIsPath' = TrailIsPath
      /\ \A b, v : AskedFor(b, v)' = AskedFor(b, v)
      /\ \A r : Asked(r)' = Asked(r)
  BY <1>1, <1>3 DEF TrailIsPath, AskedFor, Asked
<1>7. UsesFit' = UsesFit /\ RequirementsFit' = RequirementsFit
  BY <1>1, <1>3, <1>6 DEF UsesFit, RequirementsFit
<1> QED BY <1>1, <1>2, <1>3, <1>5, <1>6, <1>7 DEF ResolveInv

\* What the properties say of Resolve.
LEMMA ResolveKeepsItsWord ==
  ASSUME ResolveInv
  PROVE  ResolveIsExact /\ RequiredFirst
<1>1. RequiredFirst
  BY OrderHasNoCycle DEF ResolveInv, RequiredFirst
<1>2. ResolveIsExact
  BY DEF ResolveInv, ResolveIsExact
<1> QED BY <1>1, <1>2
-----------------------------------------------------------------------------
(* The control plane.                                                        *)

\* What an operation leaves has all that was there.
Grows(p, q) ==
    /\ p.built => q.built
    /\ p.endpoints \subseteq q.endpoints
    /\ p.checks \subseteq q.checks
    /\ p.pprof => q.pprof

\* A plane that fits, in place of one that it grew out of.
Follows(p, q) == PlaneFits(q) /\ q.built /\ Grows(p, q) /\ q.sealed = p.sealed

\* The plane that a stage works on.
Given(p) == IF p.built THEN p ELSE NewPlane

\* A record with those fields.
PlaneOf(built, endpoints, panels, checks, pprof, sealed) ==
    [built |-> built, endpoints |-> endpoints, panels |-> panels,
     checks |-> checks, pprof |-> pprof, sealed |-> sealed]

\* Whether they are flags.
Flags(built, pprof, sealed) == {built, pprof, sealed} \subseteq BOOLEAN

\* What an operation makes of it.
LEMMA EndpointIs ==
  ASSUME NEW b, NEW e, NEW n, NEW c, NEW f, NEW s, NEW p, p = PlaneOf(b, e, n, c, f, s), NEW x
  PROVE  WithEndpoint(p, x) = PlaneOf(b, e \cup {x}, n, c, f, s)
BY DEF PlaneOf, WithEndpoint

\* The same of a panel.
LEMMA PanelIs ==
  ASSUME NEW b, NEW e, NEW n, NEW c, NEW f, NEW s, NEW p, p = PlaneOf(b, e, n, c, f, s), NEW x
  PROVE  WithPanel(p, x) = PlaneOf(b, e, n \cup {x}, c, f, s)
BY DEF PlaneOf, WithPanel

\* And of a check.
LEMMA CheckIs ==
  ASSUME NEW b, NEW e, NEW n, NEW c, NEW f, NEW s, NEW p, p = PlaneOf(b, e, n, c, f, s), NEW x
  PROVE  WithCheck(p, x) = PlaneOf(b, e, n, c \cup {x}, f, s)
BY DEF PlaneOf, WithCheck

\* Sealed sets one field.
SealedAs(p, x) == [p EXCEPT !.sealed = x]

\* What Sealed makes of a plane.
LEMMA SealedIs ==
  ASSUME NEW b, NEW e, NEW n, NEW c, NEW f, NEW s, NEW p, p = PlaneOf(b, e, n, c, f, s), NEW x
  PROVE  SealedAs(p, x) = PlaneOf(b, e, n, c, f, x)
BY DEF PlaneOf, SealedAs

\* WithPprof changes two fields, and so does NoPlane.
More(p, x, y) == [p EXCEPT !.endpoints = @ \cup x, !.pprof = y]
Unbuilt(p, x, y) == [p EXCEPT !.built = x, !.endpoints = y]

\* What WithPprof makes of a plane.
LEMMA PprofIs ==
  ASSUME NEW b, NEW e, NEW n, NEW c, NEW f, NEW s, NEW p, p = PlaneOf(b, e, n, c, f, s), NEW x, NEW y
  PROVE  More(p, x, y) = PlaneOf(b, e \cup x, n, c, y, s)
<1> DEFINE q == [p EXCEPT !.endpoints = @ \cup x, !.pprof = y]
           r == PlaneOf(b, e \cup x, n, c, y, s)
           N == {"built", "endpoints", "panels", "checks", "pprof", "sealed"}
<1>1. DOMAIN q = N /\ DOMAIN r = N
  BY DEF PlaneOf
<1>2. q = [z \in N |-> q[z]] /\ r = [z \in N |-> r[z]]
  BY DEF PlaneOf
<1>3. q.built = r.built
  BY DEF PlaneOf
<1>4. q.endpoints = r.endpoints
  BY DEF PlaneOf
<1>5. q.panels = r.panels
  BY DEF PlaneOf
<1>6. q.checks = r.checks
  BY DEF PlaneOf
<1>7. q.pprof = r.pprof
  BY DEF PlaneOf
<1>8. q.sealed = r.sealed
  BY DEF PlaneOf
<1> HIDE DEF q, r
<1>9. \A z \in N : q[z] = r[z]
  BY <1>3, <1>4, <1>5, <1>6, <1>7, <1>8
<1> QED BY <1>2, <1>9 DEF q, r, More

\* What NoPlane is.
LEMMA NoPlaneIs ==
  ASSUME NEW b, NEW e, NEW n, NEW c, NEW f, NEW s, NEW p, p = PlaneOf(b, e, n, c, f, s), NEW x, NEW y
  PROVE  Unbuilt(p, x, y) = PlaneOf(x, y, n, c, f, s)
<1> DEFINE q == [p EXCEPT !.built = x, !.endpoints = y]
           r == PlaneOf(x, y, n, c, f, s)
           N == {"built", "endpoints", "panels", "checks", "pprof", "sealed"}
<1>1. DOMAIN q = N /\ DOMAIN r = N
  BY DEF PlaneOf
<1>2. q = [z \in N |-> q[z]] /\ r = [z \in N |-> r[z]]
  BY DEF PlaneOf
<1>3. q.built = r.built
  BY DEF PlaneOf
<1>4. q.endpoints = r.endpoints
  BY DEF PlaneOf
<1>5. q.panels = r.panels
  BY DEF PlaneOf
<1>6. q.checks = r.checks
  BY DEF PlaneOf
<1>7. q.pprof = r.pprof
  BY DEF PlaneOf
<1>8. q.sealed = r.sealed
  BY DEF PlaneOf
<1> HIDE DEF q, r
<1>9. \A z \in N : q[z] = r[z]
  BY <1>3, <1>4, <1>5, <1>6, <1>7, <1>8
<1> QED BY <1>2, <1>9 DEF q, r, Unbuilt

\* Its fields.
LEMMA PlaneFields ==
  ASSUME NEW b, NEW e, NEW n, NEW c, NEW f, NEW s, NEW p, p = PlaneOf(b, e, n, c, f, s)
  PROVE  p.built = b /\ p.endpoints = e /\ p.panels = n /\ p.checks = c /\ p.pprof = f /\ p.sealed = s
BY DEF PlaneOf

\* A record made of such fields is a plane.
LEMMA PlaneOfIsPlane ==
  ASSUME NEW b, NEW e, NEW n, NEW c, NEW f, NEW s, NEW p, p = PlaneOf(b, e, n, c, f, s), Flags(b, f, s)
  PROVE  IsPlane(p)
<1>1. p.built = b /\ p.endpoints = e /\ p.panels = n /\ p.checks = c /\ p.pprof = f /\ p.sealed = s
  BY PlaneFields
<1>2. p = PlaneOf(p.built, p.endpoints, p.panels, p.checks, p.pprof, p.sealed)
  BY <1>1
<1> QED BY <1>1, <1>2 DEF IsPlane, PlaneOf, Flags

\* A plane has such fields.
LEMMA PlaneHasFields ==
  ASSUME NEW p, IsPlane(p)
  PROVE  \E b, e, n, c, f, s :
            /\ p = PlaneOf(b, e, n, c, f, s) /\ Flags(b, f, s)
            /\ p.built = b /\ p.endpoints = e /\ p.panels = n
            /\ p.checks = c /\ p.pprof = f /\ p.sealed = s
<1>1. p = PlaneOf(p.built, p.endpoints, p.panels, p.checks, p.pprof, p.sealed)
  BY DEF IsPlane, PlaneOf
<1>2. Flags(p.built, p.pprof, p.sealed)
  BY DEF IsPlane, Flags
<1> QED BY <1>1, <1>2, Zenon

\* A new plane fits, and none does.
LEMMA NewPlaneFits ==
  /\ PlaneFits(NewPlane) /\ NewPlane.built = TRUE /\ NewPlane.sealed = FALSE
  /\ NewPlane.pprof = FALSE /\ NewPlane.checks = {}
  /\ PlaneFits(NoPlane) /\ NoPlane.built = FALSE /\ NoPlane.sealed = FALSE
  /\ NoPlane.pprof = FALSE /\ NoPlane.checks = {} /\ NoPlane.endpoints = {}
<1>1. NewPlane = PlaneOf(TRUE, {Readyz}, {}, {}, FALSE, FALSE)
  BY DEF NewPlane, PlaneOf
<1>2. NoPlane = PlaneOf(FALSE, {}, {}, {}, FALSE, FALSE)
  <2> DEFINE yes == TRUE
             no == FALSE
  <2> HIDE DEF yes, no
  <2>1. NewPlane = PlaneOf(yes, {Readyz}, {}, {}, no, no)
    BY <1>1 DEF yes, no
  <2>2. Unbuilt(NewPlane, no, {}) = PlaneOf(no, {}, {}, {}, no, no)
    BY <2>1, NoPlaneIs
  <2> QED BY <2>2 DEF NoPlane, Unbuilt, no
<1>3. /\ NewPlane.built = TRUE /\ NewPlane.endpoints = {Readyz} /\ NewPlane.panels = {}
      /\ NewPlane.checks = {} /\ NewPlane.pprof = FALSE /\ NewPlane.sealed = FALSE
  BY <1>1 DEF PlaneOf
<1>4. /\ NoPlane.built = FALSE /\ NoPlane.endpoints = {} /\ NoPlane.panels = {}
      /\ NoPlane.checks = {} /\ NoPlane.pprof = FALSE /\ NoPlane.sealed = FALSE
  BY <1>2 DEF PlaneOf
<1>5. IsPlane(NewPlane) /\ IsPlane(NoPlane)
  BY <1>1, <1>2, <1>3, <1>4 DEF IsPlane, PlaneOf
<1> QED BY <1>3, <1>4, <1>5 DEF PlaneFits

\* A stage that needs a plane has one that grew out of what was there.
LEMMA GivenFollows ==
  ASSUME NEW p, PlaneFits(p)
  PROVE  Follows(p, Given(p))
<1>1. CASE p.built
  BY <1>1 DEF Follows, Given, Grows
<1>2. CASE ~p.built
  <2>1. p = NoPlane
    BY <1>2 DEF PlaneFits
  <2>2. Given(p) = NewPlane
    BY <1>2 DEF Given
  <2> QED BY <2>1, <2>2, NewPlaneFits DEF Follows, Grows
<1> QED BY <1>1, <1>2

\* Operations follow each other.
LEMMA FollowsOn ==
  ASSUME NEW p, NEW q, NEW r, Follows(p, q), Follows(q, r)
  PROVE  Follows(p, r)
BY DEF Follows, Grows

\* An endpoint is registered.
LEMMA EndpointFollows ==
  ASSUME NEW p, PlaneFits(p), p.built, NEW e, Registers(p, e)
  PROVE  Follows(p, WithEndpoint(p, e)) /\ e \in WithEndpoint(p, e).endpoints
<1> DEFINE q == WithEndpoint(p, e)
<1>1. PICK b, h, n, k, f, d :
     /\ p = PlaneOf(b, h, n, k, f, d) /\ Flags(b, f, d)
     /\ p.built = b /\ p.endpoints = h /\ p.panels = n
     /\ p.checks = k /\ p.pprof = f /\ p.sealed = d
  BY PlaneHasFields DEF PlaneFits
<1>2. p = PlaneOf(b, h, n, k, f, d)
  BY <1>1
<1>3. q = PlaneOf(b, h \cup {e}, n, k, f, d)
  BY <1>1, EndpointIs
<1> HIDE DEF q
<1>4. p.built = b /\ p.endpoints = h /\ p.panels = n /\ p.checks = k /\ p.pprof = f /\ p.sealed = d
  BY <1>1
<1>5. q.built = b /\ q.endpoints = h \cup {e} /\ q.panels = n /\ q.checks = k /\ q.pprof = f /\ q.sealed = d
  BY <1>3, PlaneFields
<1>6. IsPlane(q)
  BY <1>1, <1>3, PlaneOfIsPlane
<1>7. ASSUME NEW x \in q.endpoints, NEW y \in q.endpoints, x.id = y.id \/ SamePattern(x, y)
      PROVE  x = y
  BY <1>4, <1>5, <1>7 DEF PlaneFits, Registers, SamePattern
<1>8. \A s \in q.panels : \E x \in q.endpoints :
         x.id = s.endpoint /\ x.owner = s.owner /\ x.method # "POST"
  BY <1>4, <1>5 DEF PlaneFits
<1>9. q.pprof => \A i \in DOMAIN PprofEndpoints : PprofEndpoints[i] \in q.endpoints
  BY <1>4, <1>5 DEF PlaneFits
<1>10. PlaneFits(q)
  BY <1>4, <1>5, <1>6, <1>7, <1>8, <1>9 DEF PlaneFits
<1> QED BY <1>4, <1>5, <1>10 DEF Follows, Grows, q

\* A panel is registered.
LEMMA PanelFollows ==
  ASSUME NEW p, PlaneFits(p), p.built, NEW s, RegistersPanel(p, s)
  PROVE  Follows(p, WithPanel(p, s))
<1> DEFINE q == WithPanel(p, s)
<1>1. PICK b, h, n, k, f, d :
     /\ p = PlaneOf(b, h, n, k, f, d) /\ Flags(b, f, d)
     /\ p.built = b /\ p.endpoints = h /\ p.panels = n
     /\ p.checks = k /\ p.pprof = f /\ p.sealed = d
  BY PlaneHasFields DEF PlaneFits
<1>2. p = PlaneOf(b, h, n, k, f, d)
  BY <1>1
<1>3. q = PlaneOf(b, h, n \cup {s}, k, f, d)
  BY <1>1, PanelIs
<1> HIDE DEF q
<1>4. p.built = b /\ p.endpoints = h /\ p.panels = n /\ p.checks = k /\ p.pprof = f /\ p.sealed = d
  BY <1>1
<1>5. q.built = b /\ q.endpoints = h /\ q.panels = n \cup {s} /\ q.checks = k /\ q.pprof = f /\ q.sealed = d
  BY <1>3, PlaneFields
<1>6. IsPlane(q)
  BY <1>1, <1>3, PlaneOfIsPlane
<1>7. \A t \in q.panels : \E x \in q.endpoints :
         x.id = t.endpoint /\ x.owner = t.owner /\ x.method # "POST"
  BY <1>4, <1>5 DEF PlaneFits, RegistersPanel
<1>8. PlaneFits(q)
  BY <1>4, <1>5, <1>6, <1>7 DEF PlaneFits
<1> QED BY <1>4, <1>5, <1>8 DEF Follows, Grows, q

\* A check is added.
LEMMA CheckFollows ==
  ASSUME NEW p, PlaneFits(p), p.built, NEW c
  PROVE  Follows(p, WithCheck(p, c)) /\ c \in WithCheck(p, c).checks
<1> DEFINE q == WithCheck(p, c)
<1>1. PICK b, h, n, k, f, d :
     /\ p = PlaneOf(b, h, n, k, f, d) /\ Flags(b, f, d)
     /\ p.built = b /\ p.endpoints = h /\ p.panels = n
     /\ p.checks = k /\ p.pprof = f /\ p.sealed = d
  BY PlaneHasFields DEF PlaneFits
<1>2. p = PlaneOf(b, h, n, k, f, d)
  BY <1>1
<1>3. q = PlaneOf(b, h, n, k \cup {c}, f, d)
  BY <1>1, CheckIs
<1> HIDE DEF q
<1>4. p.built = b /\ p.endpoints = h /\ p.panels = n /\ p.checks = k /\ p.pprof = f /\ p.sealed = d
  BY <1>1
<1>5. q.built = b /\ q.endpoints = h /\ q.panels = n /\ q.checks = k \cup {c} /\ q.pprof = f /\ q.sealed = d
  BY <1>3, PlaneFields
<1>6. IsPlane(q)
  BY <1>1, <1>3, PlaneOfIsPlane
<1>7. PlaneFits(q)
  BY <1>4, <1>5, <1>6 DEF PlaneFits
<1> QED BY <1>4, <1>5, <1>7 DEF Follows, Grows, q

\* The endpoints of pprof are registered, all of them.
LEMMA PprofFollows ==
  ASSUME NEW p, PlaneFits(p), p.built, EnablesPprof(p)
  PROVE  Follows(p, WithPprof(p)) /\ WithPprof(p).pprof
<1>1. CASE p.pprof
  BY <1>1 DEF WithPprof, Follows, Grows
<1>2. CASE ~p.pprof
  <2> DEFINE q == WithPprof(p)
             first == PprofEndpoints[1]
             second == PprofEndpoints[2]
             yes == TRUE
  <2> HIDE DEF yes
  <2>1. PICK b, h, n, k, f, d :
       /\ p = PlaneOf(b, h, n, k, f, d) /\ Flags(b, f, d)
       /\ p.built = b /\ p.endpoints = h /\ p.panels = n
       /\ p.checks = k /\ p.pprof = f /\ p.sealed = d
    BY PlaneHasFields DEF PlaneFits
  <2>2. p = PlaneOf(b, h, n, k, f, d)
    BY <2>1
  <2>3. PprofAccepted(p) = DOMAIN PprofEndpoints
    BY <1>2 DEF EnablesPprof
  <2>4. DOMAIN PprofEndpoints = {1, 2}
    BY DEF PprofEndpoints
  <2>5. Registers(p, first) /\ Registers(p, second)
    <3>1. 1 \in 1..1 /\ 2 \in 1..2
      OBVIOUS
    <3> HIDE DEF first, second
    <3> QED BY <2>3, <2>4, <3>1 DEF PprofAccepted, first, second
  <2>6. first.id # second.id /\ first.path # second.path
    BY DEF PprofEndpoints, Endpoint
  <2>7. {PprofEndpoints[i] : i \in PprofAccepted(p)} = {first, second}
    BY <2>3, <2>4
  <2>8. q = PlaneOf(b, h \cup {first, second}, n, k, yes, d)
    <3> DEFINE all == PprofAccepted(p) = DOMAIN PprofEndpoints
               more == {first, second}
    <3>1. q = More(p, more, all)
      BY <1>2, <2>7 DEF WithPprof, More
    <3>2. all = yes
      BY <2>3 DEF yes
    <3> HIDE DEF all, more
    <3>3. More(p, more, all) = PlaneOf(b, h \cup more, n, k, all, d)
      BY <2>1, PprofIs
    <3>4. q = PlaneOf(b, h \cup more, n, k, yes, d)
      BY <3>1, <3>2, <3>3
    <3> QED BY <3>4 DEF more
  <2> HIDE DEF first, second, q
  <2>9. /\ q.built = b /\ q.endpoints = h \cup {first, second} /\ q.panels = n
        /\ q.checks = k /\ q.pprof = yes /\ q.sealed = d
    BY <2>8, PlaneFields
  <2>10. p.built = b /\ p.endpoints = h /\ p.panels = n /\ p.checks = k /\ p.pprof = f /\ p.sealed = d
    BY <2>1
  <2>11. Flags(b, yes, d)
    BY <2>1 DEF Flags, yes
  <2>12. IsPlane(q)
    BY <2>8, <2>11, PlaneOfIsPlane
  <2>13. ASSUME NEW x \in q.endpoints, NEW y \in q.endpoints, x.id = y.id \/ SamePattern(x, y)
        PROVE  x = y
    BY <2>5, <2>6, <2>9, <2>10, <2>13 DEF PlaneFits, Registers, SamePattern
  <2>14. \A s \in q.panels : \E x \in q.endpoints :
           x.id = s.endpoint /\ x.owner = s.owner /\ x.method # "POST"
    BY <2>9, <2>10 DEF PlaneFits
  <2>15. \A i \in DOMAIN PprofEndpoints : PprofEndpoints[i] \in q.endpoints
    BY <2>4, <2>9, <2>10 DEF first, second
  <2>16. PlaneFits(q)
    BY <2>9, <2>10, <2>12, <2>13, <2>14, <2>15 DEF PlaneFits
  <2> QED BY <2>9, <2>10, <2>16 DEF Follows, Grows, q, yes
<1> QED BY <1>1, <1>2

\* The plane is sealed.
LEMMA SealedGrows ==
  ASSUME NEW p, PlaneFits(p), p.built
  PROVE  PlaneFits(Sealed(p)) /\ Sealed(p).built /\ Grows(p, Sealed(p)) /\ Sealed(p).sealed
<1> DEFINE yes == TRUE
           q == SealedAs(p, yes)
<1>1. q = Sealed(p)
  BY DEF SealedAs, Sealed
<1> HIDE DEF yes
<1>2. PICK b, h, n, k, f, d :
     /\ p = PlaneOf(b, h, n, k, f, d) /\ Flags(b, f, d)
     /\ p.built = b /\ p.endpoints = h /\ p.panels = n
     /\ p.checks = k /\ p.pprof = f /\ p.sealed = d
  BY PlaneHasFields DEF PlaneFits
<1>3. p = PlaneOf(b, h, n, k, f, d)
  BY <1>2
<1>4. q = PlaneOf(b, h, n, k, f, yes)
  BY <1>3, SealedIs
<1> HIDE DEF q
<1>5. p.built = b /\ p.endpoints = h /\ p.panels = n /\ p.checks = k /\ p.pprof = f /\ p.sealed = d
  BY <1>2
<1>6. q.built = b /\ q.endpoints = h /\ q.panels = n /\ q.checks = k /\ q.pprof = f /\ q.sealed = yes
  BY <1>4, PlaneFields
<1>7. Flags(b, f, yes)
  BY <1>2 DEF Flags, yes
<1>8. IsPlane(q)
  BY <1>4, <1>7, PlaneOfIsPlane
<1>9. PlaneFits(q)
  BY <1>5, <1>6, <1>8 DEF PlaneFits
<1> QED BY <1>1, <1>5, <1>6, <1>9 DEF Grows, yes

\* A step leaves a plane that has all that was there, and seals it only to listen.
PlaneGoesOn ==
    /\ PlaneFits(plane') /\ Grows(plane, plane')
    /\ main' \in Starting \cup {"listen"} => plane'.sealed = plane.sealed

\* An operation that follows is such a step.
LEMMA FollowsGoesOn ==
  ASSUME Follows(plane, plane') \/ (PlaneFits(plane) /\ plane' = plane)
  PROVE  PlaneGoesOn
BY DEF PlaneGoesOn, Follows, Grows

\* The callback of an add-on.
LEMMA CallbackPlane ==
  ASSUME IndInv, NEW a \in Addon, RunCallback(a)
  PROVE  /\ PlaneGoesOn
         /\ main = "endpoints" => OwnEndpoint(a) \in plane'.endpoints
<1>1. PlaneFits(plane) /\ (main = "endpoints" => plane.built)
  BY DEF IndInv, PlaneIsReady
<1>2. CASE main # "endpoints"
  <2>1. plane' = plane
    BY <1>2 DEF RunCallback
  <2> QED BY <1>1, <1>2, <2>1, FollowsGoesOn
<1>3. CASE main = "endpoints"
  <2> DEFINE with == WithEndpoint(plane, OwnEndpoint(a))
  <2>1. /\ Registers(plane, OwnEndpoint(a)) /\ RegistersPanel(with, OwnPanel(a))
        /\ plane' = WithPanel(with, OwnPanel(a))
    BY <1>3 DEF RunCallback, RegistersOwn
  <2>2. Follows(plane, with) /\ OwnEndpoint(a) \in with.endpoints
    BY <1>1, <1>3, <2>1, EndpointFollows
  <2> HIDE DEF with
  <2>3. Follows(with, plane')
    BY <2>1, <2>2, PanelFollows DEF Follows
  <2>4. Follows(plane, plane')
    BY <2>2, <2>3, FollowsOn
  <2>5. OwnEndpoint(a) \in plane'.endpoints
    BY <2>2, <2>3 DEF Follows, Grows
  <2> QED BY <2>4, <2>5, FollowsGoesOn
<1> QED BY <1>2, <1>3

\* The plane of the early listener.
LEMMA ControlPlaneGoesOn ==
  ASSUME IndInv, Control
  PROVE  /\ PlaneGoesOn
         /\ early' # early => plane'.built /\ plane'.pprof /\ "migrations" \in plane'.checks
<1> DEFINE check == "migrations"
           given == Given(plane)
           checked == WithCheck(given, check)
<1>1. CASE UsesEarlyControl
  <2>1. EnablesPprof(checked) /\ plane' = WithPprof(checked)
    BY <1>1 DEF Control, Given
  <2>2. PlaneFits(plane)
    BY DEF IndInv
  <2>3. Follows(plane, given)
    BY <2>2, GivenFollows
  <2> HIDE DEF check, given
  <2>4. Follows(given, checked) /\ check \in checked.checks
    BY <2>3, CheckFollows DEF Follows
  <2> HIDE DEF checked
  <2>5. Follows(checked, plane') /\ plane'.pprof
    BY <2>1, <2>4, PprofFollows DEF Follows
  <2>6. Follows(plane, plane')
    BY <2>3, <2>4, <2>5, FollowsOn
  <2>7. check \in plane'.checks /\ plane'.built
    BY <2>4, <2>5 DEF Follows, Grows
  <2> QED BY <2>5, <2>6, <2>7, FollowsGoesOn DEF check
<1>2. CASE ~UsesEarlyControl
  <2>1. plane' = plane /\ early' = early
    BY <1>2 DEF Control, planeVars
  <2> QED BY <2>1, FollowsGoesOn DEF IndInv
<1> QED BY <1>1, <1>2

\* A stage that only needs a plane when something is wanted of it.
LEMMA NewPlaneGoesOn ==
  ASSUME IndInv, (plane' = NewPlane /\ ~plane.built) \/ plane' = plane
  PROVE  PlaneGoesOn
<1>1. CASE plane' = NewPlane /\ ~plane.built
  <2>1. plane' = Given(plane)
    BY <1>1 DEF Given
  <2>2. Follows(plane, Given(plane))
    BY GivenFollows DEF IndInv
  <2> QED BY <2>1, <2>2, FollowsGoesOn
<1> QED BY <1>1, FollowsGoesOn DEF IndInv

\* The stages that look at a path, and the stages that register under it.
LEMMA PathsGoOn ==
  ASSUME IndInv, JobsControlPlane \/ TelemetryControlPlane
  PROVE  /\ PlaneGoesOn
         /\ main = "handle jobs" => \E e \in plane'.endpoints : e.path = "/jobs"
<1>1. PlaneFits(plane)
  BY DEF IndInv
<1>2. CASE CheckPath("check jobs", start.jobs, "/jobs", "handle jobs", "check metrics")
  <2>1. ((plane' = NewPlane /\ ~plane.built) \/ plane' = plane) /\ main = "check jobs"
    BY <1>2 DEF CheckPath
  <2> QED BY <2>1, NewPlaneGoesOn
<1>3. CASE CheckPath("check metrics", start.metrics, "/metrics", "handle metrics", "need plane")
  <2>1. ((plane' = NewPlane /\ ~plane.built) \/ plane' = plane) /\ main = "check metrics"
    BY <1>3 DEF CheckPath
  <2> QED BY <2>1, NewPlaneGoesOn
<1>4. CASE Handle("handle jobs", "/jobs", "check metrics")
  <2> DEFINE e == LegacyEndpoint("GET", "/jobs")
  <2>1. Registers(plane, e) /\ plane' = WithEndpoint(plane, e) /\ plane.built
    BY <1>4 DEF Handle, IndInv, PlaneIsReady
  <2>2. e.path = "/jobs"
    BY DEF LegacyEndpoint, Endpoint
  <2> HIDE DEF e
  <2>3. Follows(plane, plane') /\ e \in plane'.endpoints
    BY <1>1, <2>1, EndpointFollows
  <2> QED BY <2>2, <2>3, FollowsGoesOn
<1>5. CASE Handle("handle metrics", "/metrics", "need plane")
  <2> DEFINE e == LegacyEndpoint("GET", "/metrics")
  <2>1. Registers(plane, e) /\ plane' = WithEndpoint(plane, e) /\ plane.built /\ main = "handle metrics"
    BY <1>5 DEF Handle, IndInv, PlaneIsReady
  <2> HIDE DEF e
  <2>2. Follows(plane, plane')
    BY <1>1, <2>1, EndpointFollows
  <2> QED BY <2>1, <2>2, FollowsGoesOn
<1> QED BY <1>2, <1>3, <1>4, <1>5 DEF JobsControlPlane, TelemetryControlPlane

\* Listen seals the plane, if it is served.
LEMMA ListenGoesOn ==
  ASSUME IndInv, Listen
  PROVE  PlaneGoesOn
<1> DEFINE given == Given(plane)
<1>1. PlaneFits(plane) /\ main' \notin Starting \cup {"listen"}
  BY DEF IndInv, Listen, GoTo, Starting, InNew, Hook
<1>2. Follows(plane, given)
  BY <1>1, GivenFollows
<1>3. start.control \in {"none", "same", "own"}
  BY DEF IndInv, TypeOK, BootRecord
<1>4. CASE start.control = "none"
  <2>1. plane' = plane
    BY <1>4 DEF Listen
  <2> QED BY <1>1, <2>1, FollowsGoesOn
<1>5. CASE start.control = "same"
  <2>1. plane' = Sealed(given)
    BY <1>5 DEF Listen, Given
  <2> HIDE DEF given
  <2>2. PlaneFits(plane') /\ Grows(given, plane')
    BY <1>2, <2>1, SealedGrows DEF Follows
  <2>3. Grows(plane, plane')
    BY <1>2, <2>2 DEF Follows, Grows
  <2> QED BY <1>1, <2>2, <2>3 DEF PlaneGoesOn
<1>6. CASE start.control = "own"
  <2> DEFINE enabled == WithPprof(given)
  <2>1. EnablesPprof(given) /\ plane' = Sealed(enabled)
    BY <1>6 DEF Listen, Given
  <2> HIDE DEF given
  <2>2. Follows(given, enabled)
    BY <1>2, <2>1, PprofFollows DEF Follows
  <2> HIDE DEF enabled
  <2>3. PlaneFits(plane') /\ Grows(enabled, plane')
    BY <2>1, <2>2, SealedGrows DEF Follows
  <2>4. Grows(plane, plane')
    BY <1>2, <2>2, <2>3 DEF Follows, Grows
  <2> QED BY <1>1, <2>3, <2>4 DEF PlaneGoesOn
<1> QED BY <1>3, <1>4, <1>5, <1>6

\* Whoever keeps the plane registers what is not refused.
LEMMA LateGoesOn ==
  ASSUME IndInv, LateStep
  PROVE  PlaneGoesOn /\ (plane.sealed => plane' = plane)
<1>1. PlaneFits(plane) /\ plane.built
  BY DEF IndInv, LateStep, HoldsPlane
<1>2. CASE \E e \in LateEndpoint : plane' = IF Registers(plane, e) THEN WithEndpoint(plane, e) ELSE plane
  <2>1. PICK e : plane' = IF Registers(plane, e) THEN WithEndpoint(plane, e) ELSE plane
    BY <1>2
  <2>2. CASE Registers(plane, e)
    <3>1. Follows(plane, plane') /\ ~plane.sealed
      BY <1>1, <2>1, <2>2, EndpointFollows DEF Registers
    <3> QED BY <3>1, FollowsGoesOn
  <2> QED BY <1>1, <2>1, <2>2, FollowsGoesOn
<1>3. CASE \E p \in LatePanel : plane' = IF RegistersPanel(plane, p) THEN WithPanel(plane, p) ELSE plane
  <2>1. PICK p : plane' = IF RegistersPanel(plane, p) THEN WithPanel(plane, p) ELSE plane
    BY <1>3
  <2>2. CASE RegistersPanel(plane, p)
    <3>1. Follows(plane, plane') /\ ~plane.sealed
      BY <1>1, <2>1, <2>2, PanelFollows DEF RegistersPanel
    <3> QED BY <3>1, FollowsGoesOn
  <2> QED BY <1>1, <2>1, <2>2, FollowsGoesOn
<1>4. CASE plane' = IF plane.sealed THEN plane ELSE WithCheck(plane, "late")
  <2> DEFINE check == "late"
  <2>1. CASE ~plane.sealed
    <3>1. plane' = WithCheck(plane, check)
      BY <1>4, <2>1
    <3> HIDE DEF check
    <3>2. Follows(plane, plane')
      BY <1>1, <3>1, CheckFollows
    <3> QED BY <2>1, <3>2, FollowsGoesOn
  <2> QED BY <1>1, <1>4, <2>1, FollowsGoesOn
<1> QED BY <1>2, <1>3, <1>4 DEF LateStep

\* The steps that do not touch the plane.
LEMMA OthersLeavePlane ==
  ASSUME \/ Resolve \/ HookDone \/ Services \/ RunMigrations \/ SkipMigrations \/ StartJobs
         \/ Build \/ Unwind \/ ListenPanics \/ StopOnSignal \/ StopControl \/ StopOnError \/ Collect
         \/ Finish \/ StagePanics \/ ShutdownTimesOut \/ (\E s \in Server : ServerStep(s))
         \/ EarlyListenerFails \/ Signal \/ (\E r \in Request : RequestStep(r)) \/ ProbeStep
         \/ OutsideShutdown
  PROVE  plane' = plane
BY DEF planeVars, Resolve, HookDone, Services, RunMigrations, SkipMigrations, StartJobs,
       Build, Unwind, ListenPanics, StopOnSignal, StopControl, StopOnError, Collect, Finish, ShutDown,
       StagePanics, ShutdownTimesOut, ServerStep, EarlyListenerFails, Signal, RequestStep, ProbeStep,
       OutsideShutdown

\* Each step.
LEMMA PlaneSteps ==
  ASSUME IndInv, Next
  PROVE  PlaneGoesOn
<1>1. CASE \E a \in Addon : RunCallback(a)
  BY <1>1, CallbackPlane
<1>2. CASE Control
  BY <1>2, ControlPlaneGoesOn
<1>3. CASE JobsControlPlane \/ TelemetryControlPlane
  BY <1>3, PathsGoOn
<1>4. CASE NeedPlane
  BY <1>4, NewPlaneGoesOn DEF NeedPlane
<1>5. CASE Listen
  BY <1>5, ListenGoesOn
<1>6. CASE LateStep
  BY <1>6, LateGoesOn
<1>7. CASE \/ Resolve \/ HookDone \/ Services \/ RunMigrations \/ SkipMigrations \/ StartJobs
           \/ Build \/ Unwind \/ ListenPanics \/ StopOnSignal \/ StopControl \/ StopOnError \/ Collect
           \/ Finish \/ StagePanics \/ ShutdownTimesOut \/ (\E s \in Server : ServerStep(s))
           \/ EarlyListenerFails \/ Signal \/ (\E r \in Request : RequestStep(r)) \/ ProbeStep
           \/ OutsideShutdown
  <2>1. plane' = plane
    BY <1>7, OthersLeavePlane
  <2> QED BY <2>1, FollowsGoesOn DEF IndInv
<1> QED BY <1>1, <1>2, <1>3, <1>4, <1>5, <1>6, <1>7 DEF Next, Command, RefusalPanics
---------------------------------------------------------------------------
(* The application.                                                         *)

\* The services.
LEMMA ShutdownSteps ==
  ASSUME IndInv, Next
  PROVE  ShutdownFits'
<1>1. ShutdownFits
  BY DEF IndInv
<1> USE DEF addonVars, others, serveVars, planeVars, serviceVars, GoTo, ShutdownFits,
       ReturnedMeansStopped, AfterHook, Starting, InNew, Hook, Serving
<1>2. CASE Resolve
  BY <1>1, <1>2 DEF Resolve
<1>3. CASE HookDone
  BY <1>1, <1>3 DEF HookDone
<1>4. CASE Control
  BY <1>1, <1>4 DEF Control, UsesEarlyControl
<1>5. CASE Services
  BY <1>1, <1>5 DEF Services
<1>6. CASE RunMigrations
  BY <1>1, <1>6 DEF RunMigrations
<1>7. CASE SkipMigrations
  BY <1>1, <1>7 DEF SkipMigrations
<1>8. CASE StartJobs
  BY <1>1, <1>8 DEF StartJobs
<1>9. CASE JobsControlPlane
  BY <1>1, <1>9 DEF JobsControlPlane, CheckPath, Handle
<1>10. CASE TelemetryControlPlane
  BY <1>1, <1>10 DEF TelemetryControlPlane, CheckPath, Handle
<1>11. CASE NeedPlane
  BY <1>1, <1>11 DEF NeedPlane
<1>12. CASE Build
  BY <1>1, <1>12 DEF Build
<1>13. CASE Unwind
  BY <1>1, <1>13 DEF Unwind
<1>14. CASE Listen
  BY <1>1, <1>14 DEF Listen
<1>15. CASE ListenPanics
  BY <1>1, <1>15 DEF ListenPanics
<1>16. CASE StopOnSignal
  BY <1>1, <1>16 DEF StopOnSignal, ToldToStop
<1>17. CASE StopControl
  BY <1>1, <1>17 DEF StopControl, ToldToStop
<1>18. CASE StopOnError
  BY <1>1, <1>18 DEF StopOnError, ToldToStop
<1>19. CASE Collect
  BY <1>1, <1>19 DEF Collect
<1>20. CASE Finish
  BY <1>1, <1>20 DEF Finish, ShutDown, ShutdownErr
<1>21. CASE StagePanics
  BY <1>1, <1>21 DEF StagePanics
<1>22. CASE ShutdownTimesOut
  BY <1>1, <1>22 DEF ShutdownTimesOut
<1>23. CASE EarlyListenerFails
  BY <1>1, <1>23 DEF EarlyListenerFails
<1>24. CASE Signal
  BY <1>1, <1>24 DEF Signal
<1>25. CASE ProbeStep
  BY <1>1, <1>25 DEF ProbeStep
<1>26. CASE LateStep
  BY <1>1, <1>26 DEF LateStep
<1>27. CASE OutsideShutdown
  BY <1>1, <1>27 DEF OutsideShutdown, ShutdownErr
<1>28. CASE \E a \in Addon : RunCallback(a)
  BY <1>1, <1>28 DEF RunCallback
<1>29. CASE \E s \in Server : ServerStep(s)
  BY <1>1, <1>29 DEF ServerStep, Bind, ServeFails, ServeReturns
<1>30. CASE \E r \in Request : RequestStep(r)
  BY <1>1, <1>30 DEF RequestStep
<1> QED BY <1>2, <1>3, <1>4, <1>5, <1>6, <1>7, <1>8, <1>9, <1>10, <1>11, <1>12, <1>13, <1>14, <1>15,
           <1>16, <1>17, <1>18, <1>19, <1>20, <1>21, <1>22, <1>23, <1>24, <1>25, <1>26, <1>27, <1>28,
           <1>29, <1>30 DEF Next, Command, RefusalPanics

\* What the hooks are decided by.
hookVars == <<program, uses, verdict, cyclic, ran>>

\* The steps that neither resolve nor run a hook.
LEMMA OthersLeaveHooks ==
  ASSUME \/ Control \/ Services \/ RunMigrations \/ SkipMigrations \/ StartJobs \/ JobsControlPlane
         \/ TelemetryControlPlane \/ NeedPlane \/ Build \/ Unwind \/ Listen \/ ListenPanics
         \/ StopOnSignal \/ StopControl \/ StopOnError \/ Collect \/ Finish \/ StagePanics
         \/ ShutdownTimesOut \/ (\E s \in Server : ServerStep(s)) \/ EarlyListenerFails \/ Signal
         \/ (\E r \in Request : RequestStep(r)) \/ ProbeStep \/ LateStep \/ OutsideShutdown
  PROVE  /\ UNCHANGED hookVars
         /\ \/ main' = main
            \/ /\ {main, main'} \cap {"resolve", "refused"} = {}
               /\ main \in Hook \cup {"unwinding", "panicked"} => main' \in {"unwinding", "panicked"}
BY DEF hookVars, addonVars, planeVars, serviceVars, others, GoTo, InNew, Hook, Control, Services,
       RunMigrations, SkipMigrations, StartJobs, JobsControlPlane, TelemetryControlPlane, CheckPath,
       Handle, NeedPlane, Build, Unwind, Listen, ListenPanics, StopOnSignal, StopControl, StopOnError,
       Collect, Finish, ShutDown, StagePanics, ShutdownTimesOut, ServerStep, EarlyListenerFails, Signal,
       RequestStep, ProbeStep, LateStep, OutsideShutdown

\* A callback runs after those of what its add-on requires.
LEMMA CallbackInOrder ==
  ASSUME IndInv, NEW a \in Addon, RunCallback(a)
  PROVE  HooksFit'
<1>1. /\ main \in Hook /\ ~cyclic /\ a \in Callbacks /\ ran' = ran \cup {a} /\ main' = main
      /\ \A e \in edges : e[2] = a => e[1] \in ran
  BY DEF RunCallback, MayRun
<1>2. UNCHANGED <<program, uses, verdict, cyclic>>
  BY DEF RunCallback, addonVars
<1>3. HooksFit /\ ResolveInv
  BY DEF IndInv
<1>4. verdict = "accepted" /\ edges = HookEdges
  <2>1. main \notin {"resolve", "refused"}
    BY <1>1 DEF Hook
  <2> QED BY <1>3, <2>1 DEF HooksFit, ResolveInv
<1>5. ASSUME NEW b \in Callbacks, DependsOn(a, b) PROVE b \in ran
  <2>1. a # b /\ b \in Reach(RequiresEdges, a)
    BY <1>5 DEF DependsOn
  <2>2. <<b, a>> \in HookEdges
    BY <1>1, <2>1 DEF HookEdges
  <2> QED BY <1>1, <1>4, <2>2
<1>6. Callbacks' = Callbacks /\ \A b, c : DependsOn(b, c)' <=> DependsOn(b, c)
  BY <1>2 DEF Callbacks, InUse, DependsOn, RequiresEdges
<1>7. \A b \in ran : \A c \in Callbacks : DependsOn(b, c) => c \in ran
  BY <1>3 DEF HooksFit
<1>8. main' \in Hook
  BY <1>1
<1> QED BY <1>1, <1>2, <1>4, <1>5, <1>6, <1>7, <1>8 DEF HooksFit

\* The hooks.
LEMMA HooksSteps ==
  ASSUME IndInv, Next
  PROVE  HooksFit'
<1>1. HooksFit /\ TypeOK /\ ResolveInv
  BY DEF IndInv
<1>2. CASE Resolve
  <2>1. main = "resolve" /\ ran' = ran /\ ran = {}
    BY <1>1, <1>2 DEF Resolve, HooksFit, Hook
  <2>2. verdict' = "accepted" \/ main' \in {"resolve", "refused"}
    BY <1>2 DEF Resolve
  <2> QED BY <2>1, <2>2 DEF HooksFit
<1>3. CASE HookDone
  <2>1. ran' = {} /\ main \in Hook /\ verdict' = verdict
    BY <1>3 DEF HookDone, addonVars
  <2>2. verdict = "accepted"
    BY <1>1, <2>1 DEF HooksFit, Hook
  <2> QED BY <2>1, <2>2 DEF HooksFit
<1>4. CASE \E a \in Addon : RunCallback(a)
  BY <1>4, CallbackInOrder
<1>5. CASE \/ Control \/ Services \/ RunMigrations \/ SkipMigrations \/ StartJobs \/ JobsControlPlane
           \/ TelemetryControlPlane \/ NeedPlane \/ Build \/ Unwind \/ Listen \/ ListenPanics
           \/ StopOnSignal \/ StopControl \/ StopOnError \/ Collect \/ Finish \/ StagePanics
           \/ ShutdownTimesOut \/ (\E s \in Server : ServerStep(s)) \/ EarlyListenerFails \/ Signal
           \/ (\E r \in Request : RequestStep(r)) \/ ProbeStep \/ LateStep \/ OutsideShutdown
  <2>1. /\ UNCHANGED hookVars
        /\ \/ main' = main
           \/ /\ {main, main'} \cap {"resolve", "refused"} = {}
              /\ main \in Hook \cup {"unwinding", "panicked"} => main' \in {"unwinding", "panicked"}
    BY <1>5, OthersLeaveHooks
  <2>2. Callbacks' = Callbacks /\ \A b, c : DependsOn(b, c)' <=> DependsOn(b, c)
    BY <2>1 DEF hookVars, Callbacks, InUse, DependsOn, RequiresEdges
  <2> QED BY <1>1, <2>1, <2>2 DEF hookVars, HooksFit
<1> QED BY <1>2, <1>3, <1>4, <1>5 DEF Next, Command, RefusalPanics

\* The stages of the plane.
LEMMA ReadySteps ==
  ASSUME IndInv, Next
  PROVE  PlaneIsReady'
<1>1. PlaneIsReady /\ PlaneGoesOn
  BY PlaneSteps DEF IndInv
<1> USE DEF addonVars, others, serveVars, planeVars, serviceVars, GoTo, PlaneIsReady, PlaneGoesOn,
        Grows,
       HandlesPath, AfterHook, Callbacks, InUse, Starting, PastHooks, PastJobs, InNew, Hook, Serving
<1>2. CASE Resolve
  BY <1>1, <1>2 DEF Resolve
<1>3. CASE HookDone
  BY <1>1, <1>3 DEF HookDone
<1>4. CASE Control
  <2>1. early' # early => plane'.built /\ plane'.pprof
    BY <1>4, ControlPlaneGoesOn
  <2>2. main' = "files" /\ main = "control"
    BY <1>4 DEF Control, GoTo
  <2> QED BY <1>1, <2>1, <2>2
<1>5. CASE Services
  BY <1>1, <1>5 DEF Services
<1>6. CASE RunMigrations
  BY <1>1, <1>6 DEF RunMigrations
<1>7. CASE SkipMigrations
  BY <1>1, <1>7 DEF SkipMigrations
<1>8. CASE StartJobs
  BY <1>1, <1>8 DEF StartJobs
<1>9. CASE JobsControlPlane
  <2>1. early' = early /\ start' = start /\ ran' = ran /\ Callbacks' = Callbacks
    BY <1>9 DEF JobsControlPlane, CheckPath, Handle, GoTo, addonVars, Callbacks, InUse
  <2>2. CASE CheckPath("check jobs", start.jobs, "/jobs", "handle jobs", "check metrics")
    <3>1. /\ main = "check jobs" /\ plane' = (IF start.jobs /\ ~plane.built THEN NewPlane ELSE plane)
          /\ main' = (IF start.jobs /\ ~HandlesPath(plane', "/jobs") THEN "handle jobs" ELSE "check metrics")
      BY <2>2 DEF CheckPath, GoTo
    <3>2. start.jobs => plane'.built
      BY <3>1, NewPlaneFits
    <3>3. start.jobs /\ main' # "handle jobs" => HandlesPath(plane', "/jobs")
      BY <3>1
    <3>4. main' \in {"handle jobs", "check metrics"} /\ (main' = "handle jobs" => start.jobs)
      BY <3>1
    <3> QED BY <1>1, <2>1, <3>1, <3>2, <3>3, <3>4
  <2>3. CASE Handle("handle jobs", "/jobs", "check metrics")
    <3>1. main = "handle jobs" /\ main' = "check metrics"
      BY <2>3 DEF Handle, GoTo
    <3>2. HandlesPath(plane', "/jobs")
      BY <1>9, <3>1, PathsGoOn
    <3> QED BY <1>1, <2>1, <3>1, <3>2
  <2> QED BY <1>9, <2>2, <2>3 DEF JobsControlPlane
<1>10. CASE TelemetryControlPlane
  <2>1. early' = early /\ start' = start /\ ran' = ran /\ Callbacks' = Callbacks
    BY <1>10 DEF TelemetryControlPlane, CheckPath, Handle, GoTo, addonVars, Callbacks, InUse
  <2>2. HandlesPath(plane, "/jobs") => HandlesPath(plane', "/jobs")
    BY <1>1
  <2>3. CASE CheckPath("check metrics", start.metrics, "/metrics", "handle metrics", "need plane")
    <3>1. main = "check metrics" /\ plane' = (IF start.metrics /\ ~plane.built THEN NewPlane ELSE plane)
      BY <2>3 DEF CheckPath
    <3>2. main' = "need plane" \/ (main' = "handle metrics" /\ start.metrics)
      BY <2>3 DEF CheckPath, GoTo
    <3>3. start.metrics => plane'.built
      BY <3>1, NewPlaneFits
    <3> QED BY <1>1, <2>1, <2>2, <3>1, <3>2, <3>3
  <2>4. CASE Handle("handle metrics", "/metrics", "need plane")
    <3>1. main = "handle metrics" /\ main' = "need plane"
      BY <2>4 DEF Handle, GoTo
    <3> QED BY <1>1, <2>1, <2>2, <3>1
  <2> QED BY <1>10, <2>3, <2>4 DEF TelemetryControlPlane
<1>11. CASE NeedPlane
  <2>1. early' = early /\ start' = start /\ ran' = ran /\ Callbacks' = Callbacks
    BY <1>11 DEF NeedPlane, GoTo, addonVars, Callbacks, InUse
  <2>2. main' = (IF plane'.built THEN "endpoints" ELSE "build") /\ main = "need plane"
    BY <1>11 DEF NeedPlane, GoTo
  <2>3. plane'.built \/ Callbacks = {}
    BY <1>11, NewPlaneFits DEF NeedPlane
  <2>4. HandlesPath(plane, "/jobs") => HandlesPath(plane', "/jobs")
    BY <1>1
  <2>5. ran = {}
    BY <2>2 DEF IndInv, HooksFit, Hook
  <2> QED BY <1>1, <2>1, <2>2, <2>3, <2>4, <2>5
<1>12. CASE Build
  BY <1>1, <1>12 DEF Build
<1>13. CASE Unwind
  BY <1>1, <1>13 DEF Unwind
<1>14. CASE Listen
  BY <1>1, <1>14 DEF Listen
<1>15. CASE ListenPanics
  BY <1>1, <1>15 DEF ListenPanics
<1>16. CASE StopOnSignal
  BY <1>1, <1>16 DEF StopOnSignal, ToldToStop
<1>17. CASE StopControl
  BY <1>1, <1>17 DEF StopControl, ToldToStop
<1>18. CASE StopOnError
  BY <1>1, <1>18 DEF StopOnError, ToldToStop
<1>19. CASE Collect
  BY <1>1, <1>19 DEF Collect
<1>20. CASE Finish
  BY <1>1, <1>20 DEF Finish, ShutDown
<1>21. CASE StagePanics
  BY <1>1, <1>21 DEF StagePanics
<1>22. CASE ShutdownTimesOut
  BY <1>1, <1>22 DEF ShutdownTimesOut
<1>23. CASE EarlyListenerFails
  BY <1>1, <1>23 DEF EarlyListenerFails
<1>24. CASE Signal
  BY <1>1, <1>24 DEF Signal
<1>25. CASE ProbeStep
  BY <1>1, <1>25 DEF ProbeStep
<1>26. CASE LateStep
  BY <1>1, <1>26 DEF LateStep
<1>27. CASE OutsideShutdown
  BY <1>1, <1>27 DEF OutsideShutdown
<1>28. CASE \E a \in Addon : RunCallback(a)
  <2>1. PICK a \in Addon : RunCallback(a)
    BY <1>28
  <2>2. /\ early' = early /\ start' = start /\ ran' = ran \cup {a} /\ Callbacks' = Callbacks /\ main' = main
    BY <2>1 DEF RunCallback, addonVars, Callbacks, InUse
  <2>3. main = "endpoints" => OwnEndpoint(a) \in plane'.endpoints
    BY <2>1, CallbackPlane
  <2>4. HandlesPath(plane, "/jobs") => HandlesPath(plane', "/jobs")
    BY <1>1
  <2> QED BY <1>1, <2>2, <2>3, <2>4
<1>29. CASE \E s \in Server : ServerStep(s)
  BY <1>1, <1>29 DEF ServerStep, Bind, ServeFails, ServeReturns
<1>30. CASE \E r \in Request : RequestStep(r)
  BY <1>1, <1>30 DEF RequestStep
<1> QED BY <1>2, <1>3, <1>4, <1>5, <1>6, <1>7, <1>8, <1>9, <1>10, <1>11, <1>12, <1>13, <1>14, <1>15,
           <1>16, <1>17, <1>18, <1>19, <1>20, <1>21, <1>22, <1>23, <1>24, <1>25, <1>26, <1>27, <1>28,
           <1>29, <1>30 DEF Next, Command, RefusalPanics

\* The migrations.
LEMMA MigrationsSteps ==
  ASSUME IndInv, Next
  PROVE  MigrationsFit'
<1>1. MigrationsFit /\ PlaneGoesOn /\ TypeOK
  BY PlaneSteps DEF IndInv
<1> USE DEF addonVars, others, serveVars, planeVars, serviceVars, GoTo, MigrationsFit, PlaneGoesOn,
        Grows,
       AfterHook, Started, Starting, PastHooks, PastJobs, PastMigrations, InNew, Hook, Serving
<1>2. CASE Resolve
  BY <1>1, <1>2 DEF Resolve
<1>3. CASE HookDone
  BY <1>1, <1>3 DEF HookDone
<1>4. CASE Control
  <2>1. \/ early' = early /\ migrating' = migrating /\ plane' = plane
        \/ early' = "serving" /\ migrating' = TRUE
    BY <1>4 DEF Control, UsesEarlyControl
  <2>2. early' # early => "migrations" \in plane'.checks
    BY <1>4, ControlPlaneGoesOn
  <2>3. main' = "files" /\ UNCHANGED <<start, migrated, jobs, server, probe>>
    BY <1>4 DEF Control
  <2>4. migrating' = migrating \/ migrating' = TRUE
    BY <2>1
  <2>5. (early # "off" /\ ~migrated => migrating /\ "migrations" \in plane.checks)'
    BY <1>1, <2>1, <2>2, <2>3
  <2>6. (probe.at = "asked" => start.mode = "off" \/ migrated \/ ("migrations" \in probe.checks /\ migrating))'
    BY <1>1, <2>3, <2>4
  <2> QED BY <1>1, <2>3, <2>5, <2>6
<1>5. CASE Services
  BY <1>1, <1>5 DEF Services
<1>6. CASE RunMigrations
  BY <1>1, <1>6 DEF RunMigrations
<1>7. CASE SkipMigrations
  BY <1>1, <1>7 DEF SkipMigrations
<1>8. CASE StartJobs
  BY <1>1, <1>8 DEF StartJobs
<1>9. CASE JobsControlPlane
  BY <1>1, <1>9 DEF JobsControlPlane, CheckPath, Handle
<1>10. CASE TelemetryControlPlane
  BY <1>1, <1>10 DEF TelemetryControlPlane, CheckPath, Handle
<1>11. CASE NeedPlane
  BY <1>1, <1>11 DEF NeedPlane
<1>12. CASE Build
  BY <1>1, <1>12 DEF Build
<1>13. CASE Unwind
  BY <1>1, <1>13 DEF Unwind
<1>14. CASE Listen
  BY <1>1, <1>14 DEF Listen
<1>15. CASE ListenPanics
  BY <1>1, <1>15 DEF ListenPanics
<1>16. CASE StopOnSignal
  BY <1>1, <1>16 DEF StopOnSignal, ToldToStop
<1>17. CASE StopControl
  BY <1>1, <1>17 DEF StopControl, ToldToStop
<1>18. CASE StopOnError
  BY <1>1, <1>18 DEF StopOnError, ToldToStop
<1>19. CASE Collect
  BY <1>1, <1>19 DEF Collect
<1>20. CASE Finish
  <2>1. /\ UNCHANGED <<start, jobs, server, migrated, early, migrating, plane, probe>>
        /\ main' \notin PastMigrations
    BY <1>20 DEF Finish, ShutDown
  <2> QED BY <1>1, <2>1
<1>21. CASE StagePanics
  BY <1>1, <1>21 DEF StagePanics
<1>22. CASE ShutdownTimesOut
  BY <1>1, <1>22 DEF ShutdownTimesOut
<1>23. CASE EarlyListenerFails
  BY <1>1, <1>23 DEF EarlyListenerFails
<1>24. CASE Signal
  BY <1>1, <1>24 DEF Signal
<1>25. CASE ProbeStep
  <2>1. UNCHANGED <<main, start, jobs, server, migrated, early, migrating, plane>>
    BY <1>25 DEF ProbeStep
  <2>2. CASE PlaneIsServed /\ probe' = [at |-> "asked", checks |-> plane.checks]
    <3>1. early = "serving" \/ Started # {}
      BY <2>2 DEF PlaneIsServed, Server
    <3>2. start.mode = "off" \/ migrated \/ ("migrations" \in plane.checks /\ migrating)
      BY <1>1, <3>1
    <3> QED BY <1>1, <2>1, <2>2, <3>2
  <2>3. CASE \E reply \in {"ready", "refused"} : probe' = [at |-> reply, checks |-> {}]
    <3>1. probe'.at # "asked"
      BY <2>3
    <3> QED BY <1>1, <2>1, <3>1
  <2> QED BY <1>25, <2>2, <2>3 DEF ProbeStep
<1>26. CASE LateStep
  BY <1>1, <1>26 DEF LateStep
<1>27. CASE OutsideShutdown
  BY <1>1, <1>27 DEF OutsideShutdown
<1>28. CASE \E a \in Addon : RunCallback(a)
  <2>1. UNCHANGED <<main, start, jobs, server, migrated, early, migrating, probe>>
    BY <1>28 DEF RunCallback
  <2> QED BY <1>1, <2>1
<1>29. CASE \E s \in Server : ServerStep(s)
  <2>1. UNCHANGED <<main, start, jobs, migrated, early, migrating, probe>>
    BY <1>29 DEF ServerStep
  <2>2. PICK s \in Server : ServerStep(s)
    BY <1>29
  <2>3. server[s] # "off" /\ \A t \in Server : t # s => server'[t] = server[t]
    BY <1>1, <2>2 DEF ServerStep, Bind, ServeFails, ServeReturns, TypeOK
  <2>4. Started' # {} => Started # {}
    BY <2>3
  <2> QED BY <1>1, <2>1, <2>4
<1>30. CASE \E r \in Request : RequestStep(r)
  <2>1. UNCHANGED <<main, start, jobs, server, migrated, early, migrating, probe>>
    BY <1>30 DEF RequestStep
  <2> QED BY <1>1, <2>1
<1> QED BY <1>2, <1>3, <1>4, <1>5, <1>6, <1>7, <1>8, <1>9, <1>10, <1>11, <1>12, <1>13, <1>14, <1>15,
           <1>16, <1>17, <1>18, <1>19, <1>20, <1>21, <1>22, <1>23, <1>24, <1>25, <1>26, <1>27, <1>28,
           <1>29, <1>30 DEF Next, Command, RefusalPanics

\* The servers, the early listener and the requests.
LEMMA ListenersSteps ==
  ASSUME IndInv, Next
  PROVE  ListenersFit'
<1>1. ListenersFit /\ TypeOK
  BY DEF IndInv
<1> USE DEF addonVars, others, serveVars, planeVars, serviceVars, GoTo, ListenersFit, NoListenerLeft,
       AppIsIdle, Server, AfterHook, Started, Starting, Stopping, InNew, Hook, Serving
<1>2. CASE Resolve
  BY <1>1, <1>2 DEF Resolve
<1>3. CASE HookDone
  BY <1>1, <1>3 DEF HookDone
<1>4. CASE Control
  BY <1>1, <1>4 DEF Control, UsesEarlyControl
<1>5. CASE Services
  BY <1>1, <1>5 DEF Services
<1>6. CASE RunMigrations
  BY <1>1, <1>6 DEF RunMigrations
<1>7. CASE SkipMigrations
  BY <1>1, <1>7 DEF SkipMigrations
<1>8. CASE StartJobs
  BY <1>1, <1>8 DEF StartJobs
<1>9. CASE JobsControlPlane
  BY <1>1, <1>9 DEF JobsControlPlane, CheckPath, Handle
<1>10. CASE TelemetryControlPlane
  BY <1>1, <1>10 DEF TelemetryControlPlane, CheckPath, Handle
<1>11. CASE NeedPlane
  BY <1>1, <1>11 DEF NeedPlane
<1>12. CASE Build
  BY <1>1, <1>12 DEF Build
<1>13. CASE Unwind
  BY <1>1, <1>13 DEF Unwind
<1>14. CASE Listen
  BY <1>1, <1>14 DEF Listen
<1>15. CASE ListenPanics
  <2>1. early = "off" /\ UNCHANGED <<start, early, server, failed, overdue, request>> /\ main = "listen" /\ main' = "panicked"
    <3>1. start.control = "own" /\ ~EnablesPprof(Given(plane)) /\ main = "listen"
      BY <1>15 DEF ListenPanics, Given
    <3>2. plane.built /\ plane.pprof => EnablesPprof(Given(plane))
      BY DEF Given, EnablesPprof
    <3>3. ~(plane.built /\ plane.pprof)
      BY <3>1, <3>2
    <3> QED BY <1>15, <3>3 DEF ListenPanics, IndInv, PlaneIsReady
  <2> QED BY <1>1, <2>1
<1>16. CASE StopOnSignal
  BY <1>1, <1>16 DEF StopOnSignal, ToldToStop
<1>17. CASE StopControl
  BY <1>1, <1>17 DEF StopControl, ToldToStop
<1>18. CASE StopOnError
  BY <1>1, <1>18 DEF StopOnError, ToldToStop
<1>19. CASE Collect
  BY <1>1, <1>19 DEF Collect
<1>20. CASE Finish
  BY <1>1, <1>20 DEF Finish, ShutDown
<1>21. CASE StagePanics
  BY <1>1, <1>21 DEF StagePanics
<1>22. CASE ShutdownTimesOut
  BY <1>1, <1>22 DEF ShutdownTimesOut
<1>23. CASE EarlyListenerFails
  BY <1>1, <1>23 DEF EarlyListenerFails
<1>24. CASE Signal
  BY <1>1, <1>24 DEF Signal
<1>25. CASE ProbeStep
  BY <1>1, <1>25 DEF ProbeStep
<1>26. CASE LateStep
  BY <1>1, <1>26 DEF LateStep
<1>27. CASE OutsideShutdown
  BY <1>1, <1>27 DEF OutsideShutdown
<1>28. CASE \E a \in Addon : RunCallback(a)
  BY <1>1, <1>28 DEF RunCallback
<1>29. CASE \E s \in Server : ServerStep(s)
  <2>1. UNCHANGED <<main, start, early, overdue, request>>
    BY <1>29 DEF ServerStep
  <2>2. PICK s \in Server : ServerStep(s)
    BY <1>29
  <2>3. /\ server[s] # "off" /\ server'[s] # "off" /\ \A t \in Server : t # s => server'[t] = server[t]
        /\ server'[s] = "serving" => server[s] = "starting"
        /\ server[s] \notin {"starting", "serving"} => server'[s] = "ended"
        /\ server[s] = "ended" => server'[s] = "ended"
        /\ failed \subseteq failed'
    BY <1>1, <2>2 DEF ServerStep, Bind, ServeFails, ServeReturns, TypeOK
  <2>4. AppIsIdle' <=> AppIsIdle
    BY <2>1
  <2> QED BY <1>1, <2>1, <2>3, <2>4
<1>30. CASE \E r \in Request : RequestStep(r)
  <2>1. UNCHANGED <<main, start, early, overdue, server, failed>>
    BY <1>30 DEF RequestStep
  <2>2. AppIsIdle => server["app"] = "serving" \/ AppIsIdle'
    <3>1. PICK r \in Request : RequestStep(r)
      BY <1>30
    <3>2. \A q \in Request : request'[q] = "running" => request[q] = "running" \/ server["app"] = "serving"
      BY <1>1, <3>1 DEF RequestStep, TypeOK
    <3> QED BY <3>2
  <2>3. server["app"] = "serving" => main \notin Stopping \cup {"stop app"}
    BY <1>1
  <2> QED BY <1>1, <2>1, <2>2, <2>3
<1> QED BY <1>2, <1>3, <1>4, <1>5, <1>6, <1>7, <1>8, <1>9, <1>10, <1>11, <1>12, <1>13, <1>14, <1>15,
           <1>16, <1>17, <1>18, <1>19, <1>20, <1>21, <1>22, <1>23, <1>24, <1>25, <1>26, <1>27, <1>28,
           <1>29, <1>30 DEF Next, Command, RefusalPanics

\* The resolution of the add-ons, and everything else that leaves it alone.
LEMMA ResolveSteps ==
  ASSUME IndInv, Next
  PROVE  ResolveInv'
<1>1. ResolveInv
  BY DEF IndInv
<1>2. CASE Resolve
  BY <1>1, <1>2, ResolveStepInv DEF Resolve
<1>3. CASE UNCHANGED addonVars
  BY <1>1, <1>3, ResolveInvStays
<1>4. Resolve \/ UNCHANGED addonVars
  BY DEF Next, Command, RefusalPanics, HookDone, Control, Services, RunMigrations, SkipMigrations, StartJobs,
         JobsControlPlane, TelemetryControlPlane, CheckPath, Handle, NeedPlane, Build, Unwind, Listen,
         ListenPanics, StopOnSignal, StopControl, StopOnError, Collect, Finish, ShutDown, RunCallback,
         StagePanics, ShutdownTimesOut, ServerStep, EarlyListenerFails, Signal, RequestStep, ProbeStep,
         LateStep, OutsideShutdown
<1> QED BY <1>2, <1>3, <1>4

\* The types, but for those of the plane and of the resolution.
LEMMA TypeSteps ==
  ASSUME IndInv, Next
  PROVE  TypeOK'
<1>1. TypeOK
  BY DEF IndInv
<1>2. AddonTypeOK'
  BY ResolveSteps DEF ResolveInv
<1>3. (plane.pprof => \A i \in DOMAIN PprofEndpoints : PprofEndpoints[i] \in plane.endpoints)'
  BY PlaneSteps DEF PlaneGoesOn, PlaneFits
<1>4. server \in [Server -> {"off", "starting", "serving", "closed", "ended"}]
  BY <1>1 DEF TypeOK
<1>5. (server \in [Server -> {"off", "starting", "serving", "closed", "ended"}])'
  <2>1. CASE Listen
    BY <2>1 DEF Listen
  <2>2. CASE StopOnSignal \/ StopControl \/ StopOnError
    <3>1. PICK S \in SUBSET Server : server' = ToldToStop(S)
      BY <2>2 DEF StopOnSignal, StopControl, StopOnError, Server
    <3> QED BY <1>4, <3>1 DEF ToldToStop
  <2>3. CASE \E s \in Server : ServerStep(s)
    BY <1>4, <2>3 DEF ServerStep, Bind, ServeFails, ServeReturns
  <2>4. CASE UNCHANGED server
    BY <1>4, <2>4
  <2> QED BY <2>1, <2>2, <2>3, <2>4 DEF Next, Command, RefusalPanics, Resolve, HookDone, Control, Services,
             RunMigrations, SkipMigrations,
          StartJobs, JobsControlPlane, TelemetryControlPlane, CheckPath, Handle, NeedPlane, Build, Unwind,
          Listen, ListenPanics, StopOnSignal, StopControl, StopOnError, Collect, Finish, ShutDown,
          RunCallback, StagePanics, ShutdownTimesOut, ServerStep, EarlyListenerFails, Signal, RequestStep,
          ProbeStep, LateStep, OutsideShutdown, GoTo, others, planeVars, serviceVars, serveVars
<1>6. (late \in 0..MaxLate)'
  <2>1. late' = late \/ (late < MaxLate /\ late' = late + 1)
    BY DEF Next, Command, RefusalPanics, Resolve, HookDone, Control, Services, RunMigrations, SkipMigrations,
            StartJobs, JobsControlPlane, TelemetryControlPlane, CheckPath, Handle, NeedPlane, Build, Unwind,
            Listen, ListenPanics, StopOnSignal, StopControl, StopOnError, Collect, Finish, ShutDown,
            RunCallback, StagePanics, ShutdownTimesOut, ServerStep, EarlyListenerFails, Signal, RequestStep,
            ProbeStep, LateStep, OutsideShutdown, GoTo, others, planeVars, serviceVars, serveVars
  <2>2. late \in 0..MaxLate /\ MaxLate \in Nat
    BY <1>1, BootAssumption DEF TypeOK
  <2> QED BY <2>1, <2>2
<1>7. (main \in InNew \cup Serving \cup Over \cup {"resolve", "cli", "listen", "deps", "cleanup"})'
  <2>1. CASE Resolve
    BY <2>1 DEF Resolve, Over
  <2>2. CASE HookDone
    BY <2>2 DEF HookDone, GoTo, AfterHook, InNew, Hook, Over
  <2>3. CASE \/ Control \/ Services \/ RunMigrations \/ SkipMigrations \/ StartJobs \/ JobsControlPlane
             \/ TelemetryControlPlane \/ NeedPlane \/ Build \/ Unwind \/ StagePanics
    BY <2>3 DEF Control, Services, RunMigrations, SkipMigrations, StartJobs, JobsControlPlane,
                TelemetryControlPlane, CheckPath, Handle, NeedPlane, Build, Unwind, StagePanics, GoTo,
                InNew, Hook, Over
  <2>4. CASE \/ Listen \/ ListenPanics \/ StopOnSignal \/ StopControl \/ StopOnError \/ Collect
    BY <2>4 DEF Listen, ListenPanics, StopOnSignal, StopControl, StopOnError, Collect, GoTo, Serving,
       Over
  <2>5. CASE Finish
    BY <1>1, <2>5 DEF Finish, ShutDown, TypeOK, Over
  <2>6. CASE UNCHANGED main
    BY <1>1, <2>6 DEF TypeOK
  <2>7. \/ Resolve \/ HookDone \/ Control \/ Services \/ RunMigrations \/ SkipMigrations \/ StartJobs
        \/ JobsControlPlane \/ TelemetryControlPlane \/ NeedPlane \/ Build \/ Unwind \/ StagePanics
        \/ Listen \/ ListenPanics \/ StopOnSignal \/ StopControl \/ StopOnError \/ Collect \/ Finish
        \/ UNCHANGED main
    BY DEF Next, Command, RefusalPanics, RunCallback, ShutdownTimesOut, ServerStep, EarlyListenerFails, Signal,
           RequestStep, ProbeStep, LateStep, OutsideShutdown
  <2> QED BY <2>1, <2>2, <2>3, <2>4, <2>5, <2>6, <2>7
<1> USE <1>1 DEF TypeOK, Next, Command, RefusalPanics, Resolve, HookDone, Control, Services, RunMigrations,
        SkipMigrations,
       StartJobs, JobsControlPlane, TelemetryControlPlane, CheckPath, Handle, NeedPlane, Build, Unwind,
       Listen, ListenPanics, StopOnSignal, StopControl, StopOnError, Collect, Finish, ShutDown,
       RunCallback, StagePanics, ShutdownTimesOut, ServerStep, EarlyListenerFails, Signal, RequestStep,
       ProbeStep, LateStep, OutsideShutdown, GoTo, others, planeVars, serviceVars, serveVars
<1>8. start' = start
  OBVIOUS
<1>9. (ran \subseteq Addon)'
  OBVIOUS
<1>10. (early \in {"off", "serving", "failed", "closed", "drained"})'
  OBVIOUS
<1>11. (migrating \in BOOLEAN)'
  OBVIOUS
<1>12. (migrated \in BOOLEAN)'
  OBVIOUS
<1>13. (jobs \in BOOLEAN)'
  BY DEF BootRecord
<1>14. (overdue \in BOOLEAN)'
  OBVIOUS
<1>15. (signalled \in BOOLEAN)'
  OBVIOUS
<1>16. (deps \in {"none", "up", "stopping", "down", "left"})'
  OBVIOUS
<1>17. (failed \subseteq Server)'
  BY DEF Bind, ServeFails, ServeReturns
<1>18. (once \in {"free", "main", "outside", "done"})'
  OBVIOUS
<1>19. /\ answer' \in {"none", "nil", "error"}
      /\ outside' \in {"idle", "waiting", "nil", "error"}
  BY DEF ShutdownErr
<1>20. (request \in [Request -> {"none", "running", "hijacked", "finished"}])'
  OBVIOUS
<1> QED
  BY <1>1, <1>2, <1>3, <1>4, <1>5, <1>6, <1>7, <1>8, <1>9, <1>10, <1>11, <1>12, <1>13, <1>14, <1>15,
     <1>16, <1>17, <1>18, <1>19, <1>20

\* The start of the process.
LEMMA InitInv ==
  ASSUME Init
  PROVE  IndInv
<1>1. PICK b \in Boot : program = b.program /\ start = b.start
  BY DEF Init
<1>2. program \in Program /\ start \in BootRecord
  BY <1>1, BootAssumption
<1>3. ResolveInv /\ AddonTypeOK /\ verdict = "open" /\ cyclic = FALSE
  BY <1>2, AddonInitInv DEF Init, AddonInit, ResolveInv
<1>4. PlaneFits(plane) /\ plane.sealed = FALSE
  BY NewPlaneFits DEF Init
<1>5. /\ main = "resolve" /\ ran = {} /\ early = "off" /\ migrating = FALSE /\ migrated = FALSE
      /\ deps = "none" /\ jobs = FALSE /\ server = [s \in Server |-> "off"] /\ failed = {}
      /\ overdue = FALSE /\ signalled = FALSE /\ once = "free" /\ outside = "idle" /\ answer = "none"
      /\ request = [r \in Request |-> "none"] /\ probe.at = "idle" /\ late = 0
  BY DEF Init
<1>6. TypeOK
  <2>1. late \in 0..MaxLate
    BY <1>5, BootAssumption
  <2>2. {migrating, migrated, jobs, overdue, signalled} \subseteq BOOLEAN
    BY <1>5
  <2>3. plane.pprof => \A i \in DOMAIN PprofEndpoints : PprofEndpoints[i] \in plane.endpoints
    BY <1>4 DEF PlaneFits
  <2> QED BY <1>2, <1>3, <1>5, <2>1, <2>2, <2>3 DEF TypeOK
<1>7. HooksFit
  BY <1>3, <1>5 DEF HooksFit
<1>8. PlaneIsReady
  BY <1>4, <1>5 DEF PlaneIsReady, Hook, PastJobs, PastHooks, Serving
<1>9. MigrationsFit
  BY <1>5 DEF MigrationsFit, PastMigrations, PastJobs, PastHooks, Serving, Started
<1>10. ListenersFit
  BY <1>5 DEF ListenersFit, NoListenerLeft, AppIsIdle, Stopping, Starting
<1>11. ShutdownFits
  BY <1>5 DEF ShutdownFits, ReturnedMeansStopped
<1> QED BY <1>3, <1>4, <1>6, <1>7, <1>8, <1>9, <1>10, <1>11 DEF IndInv

\* A step of the application.
LEMMA NextInv ==
  ASSUME IndInv, Next
  PROVE  IndInv'
<1>1. PlaneFits(plane)'
  BY PlaneSteps DEF PlaneGoesOn
<1> QED BY <1>1, TypeSteps, ResolveSteps, HooksSteps, ReadySteps, MigrationsSteps, ListenersSteps,
           ShutdownSteps DEF IndInv

\* A step that is none.
LEMMA StutterInv ==
  ASSUME IndInv, UNCHANGED vars
  PROVE  IndInv'
<1>1. UNCHANGED addonVars /\ UNCHANGED appVars
  BY DEF vars
<1>2. ResolveInv'
  BY <1>1, ResolveInvStays DEF IndInv
<1> USE <1>1 DEF IndInv, addonVars, appVars
<1>3. TypeOK'
  BY <1>2 DEF TypeOK, ResolveInv
<1>4. HooksFit'
  BY DEF HooksFit, Callbacks, InUse, DependsOn, RequiresEdges
<1>5. PlaneFits(plane)'
  OBVIOUS
<1>6. PlaneIsReady'
  BY DEF PlaneIsReady, Callbacks, InUse
<1>7. MigrationsFit'
  BY DEF MigrationsFit, Started
<1>8. ListenersFit'
  BY DEF ListenersFit, NoListenerLeft, AppIsIdle
<1>9. ShutdownFits'
  BY DEF ShutdownFits, ReturnedMeansStopped
<1> QED BY <1>2, <1>3, <1>4, <1>5, <1>6, <1>7, <1>8, <1>9

\* What an application is like at every moment: the inductive invariant.
THEOREM Invariance == Spec => []IndInv
<1>1. IndInv /\ [Next]_vars => IndInv'
  BY NextInv, StutterInv
<1> QED BY <1>1, InitInv, PTL DEF Spec

\* Add-ons after those they require, at resolution and in hooks; jobs and pages
\* after the migrations.
THEOREM StartOrder == Spec => []StartsInOrder
<1>1. IndInv => StartsInOrder
  <2> SUFFICES ASSUME IndInv PROVE StartsInOrder
    OBVIOUS
  <2>1. TypeOK /\ ResolveInv /\ HooksFit /\ PlaneIsReady /\ MigrationsFit
    BY DEF IndInv
  <2>2. CallbacksInOrder
    BY <2>1 DEF CallbacksInOrder, HooksFit, PlaneIsReady, PastHooks
  <2>3. MigratedFirst
    BY <2>1 DEF MigratedFirst, MigrationsFit
  <2> QED BY <2>1, <2>2, <2>3, ResolveKeepsItsWord DEF StartsInOrder
<1> QED BY <1>1, Invariance, PTL

\* Listeners end before New's caller goes on, requests before the services, and
\* services before Shutdown answers nil; all its callers get the same answer.
THEOREM StopOrder == Spec => []StopsInOrder
<1>1. IndInv => StopsInOrder
  <2> SUFFICES ASSUME IndInv PROVE StopsInOrder
    OBVIOUS
  <2>1. ListenersFit /\ ShutdownFits /\ TypeOK
    BY DEF IndInv
  <2>2. ServicesOutliveRequests
    BY <2>1 DEF ServicesOutliveRequests, ListenersFit, ShutdownFits, Stopping
  <2>3. ReturnedMeansStopped
    BY <2>1 DEF ShutdownFits
  <2> QED BY <2>1, <2>2, <2>3 DEF StopsInOrder, ListenersFit
<1> QED BY <1>1, Invariance, PTL

\* One endpoint per identity and pattern, panels that show an endpoint of their
\* owner, the jobs under their path.
THEOREM PlaneConsistency == Spec => []PlaneIsConsistent
<1>1. IndInv => PlaneIsConsistent
  BY DEF IndInv, PlaneIsConsistent, PlaneFits, PlaneIsReady, PastJobs, PastHooks
<1> QED BY <1>1, Invariance, PTL

\* A sealed plane does not change, and /readyz answers ready only when the
\* migrations are done.
THEOREM PlaneWord == Spec => PlaneKeepsItsWord
<1>1. ASSUME IndInv, Next, plane.sealed
      PROVE  plane' = plane
  <2>1. main \notin Starting \cup {"listen"}
    BY <1>1 DEF IndInv, PlaneIsReady
  <2>2. CASE \/ Control \/ JobsControlPlane \/ TelemetryControlPlane \/ NeedPlane \/ Listen
             \/ (\E a \in Addon : RunCallback(a))
    BY <2>1, <2>2 DEF Control, JobsControlPlane, TelemetryControlPlane, CheckPath, Handle, NeedPlane,
                      Listen, RunCallback, Starting, InNew, Hook
  <2>3. CASE LateStep
    BY <1>1, <2>3, LateGoesOn
  <2>4. CASE ~LateStep
    BY <1>1, <2>2, <2>4, OthersLeavePlane DEF Next, Command, RefusalPanics
  <2> QED BY <2>3, <2>4
<1>2. ASSUME IndInv, Next, probe.at = "asked", probe'.at = "ready"
      PROVE  start.mode = "off" \/ migrated
  <2>1. ProbeStep
    <3>1. UNCHANGED probe => FALSE
      BY <1>2
    <3> QED BY <1>2, <3>1 DEF Next, Command, RefusalPanics, Resolve, HookDone, Control, Services, RunMigrations,
         SkipMigrations, StartJobs, JobsControlPlane, TelemetryControlPlane, CheckPath, Handle, NeedPlane,
         Build, Unwind, Listen, ListenPanics, StopOnSignal, StopControl, StopOnError, Collect, Finish,
         ShutDown, RunCallback, StagePanics, ShutdownTimesOut, ServerStep, EarlyListenerFails, Signal,
         RequestStep, LateStep, OutsideShutdown, GoTo, others
  <2>2. PICK reply \in {"ready", "refused"} :
           /\ reply = "ready" => ~("migrations" \in probe.checks /\ migrating)
           /\ probe' = [at |-> reply, checks |-> {}]
    BY <1>2, <2>1 DEF ProbeStep
  <2>3. ~("migrations" \in probe.checks /\ migrating)
    BY <1>2, <2>2
  <2> QED BY <1>2, <2>3 DEF IndInv, MigrationsFit
<1> QED BY <1>1, <1>2, Invariance, PTL DEF Spec, PlaneKeepsItsWord
---------------------------------------------------------------------------
(* The schedulers.                                                          *)

USE SchedulerAssumption DEF Unlocked

\* A set of natural numbers that is not empty has a smallest element.
LEMMA MinIsElement ==
  ASSUME NEW S, S \subseteq Nat, S # {}
  PROVE  Min(S) \in S
<1> DEFINE less == {ss \in Nat \X Nat : ss[1] < ss[2]}
<1>1. IsWellFoundedOn(less, Nat)
  BY NatLessThanWellFounded DEF OpToRel
<1> HIDE DEF less
<1>2. PICK x \in S : \A y \in S : <<y, x>> \notin less
  BY <1>1, WFMin
<1>3. ASSUME NEW y \in S PROVE x <= y
  <2>1. x \in Nat /\ y \in Nat /\ <<y, x>> \in Nat \X Nat
    OBVIOUS
  <2>2. y < x => <<y, x>> \in less
    BY <2>1 DEF less
  <2> QED BY <1>2, <2>1, <2>2
<1> QED BY <1>2, <1>3 DEF Min

\* The next run is the occurrence that follows the clock's reading, and at most
\* one interval after it.
LEMMA NextRunIsAfter ==
  ASSUME NEW previous \in Nat, NEW now \in Time, previous <= now
  PROVE  /\ NextScheduledRun(previous, now) \in Future
         /\ NextScheduledRun(previous, now) > now
<1> DEFINE gap == now - previous
           q == gap \div Interval
           t == previous + (q + 1) * Interval
           runs == {u \in Future :
                       u > now /\ \E n \in 1..(now + 1) : u = previous + n * Interval}
<1>1. gap \in Nat /\ now \in Nat /\ Interval \in Nat /\ Interval > 0
  BY DEF Time
<1> HIDE DEF gap
<1>2. q \in Nat /\ q * Interval <= gap /\ gap < q * Interval + Interval
  BY <1>1
<1> HIDE DEF q
<1>3. q <= gap
  <2>1. q * 1 <= q * Interval /\ q * Interval \in Nat
    BY <1>1, <1>2
  <2> QED BY <1>1, <1>2, <2>1
<1>4. t = previous + q * Interval + Interval /\ q * Interval \in Nat
  BY <1>1, <1>2
<1> HIDE DEF t
<1>5. t \in Nat /\ t > now /\ t <= now + Interval
  BY <1>1, <1>2, <1>4 DEF gap
<1>6. q + 1 \in 1..(now + 1)
  BY <1>1, <1>2, <1>3 DEF gap
<1>7. t \in runs
  BY <1>5, <1>6 DEF t, Time, Future
<1>8. runs \subseteq Nat /\ runs # {}
  BY <1>7 DEF Future
<1>9. Min(runs) \in runs
  BY <1>8, MinIsElement
<1> QED BY <1>9 DEF NextScheduledRun

\* How the number of schedulers about to insert changes when s leaves or joins.
LEMMA InsertingCount ==
  ASSUME SchedulerTypeOK, SchedulerTypeOK', NEW s \in Scheduler,
         \A r \in Scheduler \ {s} : pc'[r] = pc[r]
  PROVE  /\ Cardinality(Inserting) \in Nat /\ Cardinality(Inserting') \in Nat
         /\ Cardinality(Inserting) <= Cardinality(Scheduler)
         /\ Cardinality(Inserting') <= Cardinality(Scheduler)
         /\ pc'[s] # "insert" => Cardinality(Inserting') <= Cardinality(Inserting)
         /\ pc[s] = "insert" /\ pc'[s] # "insert" =>
                Cardinality(Inserting') = Cardinality(Inserting) - 1
<1>1. Inserting \subseteq Scheduler /\ Inserting' \subseteq Scheduler
  BY DEF Inserting
<1>2. /\ IsFiniteSet(Inserting) /\ IsFiniteSet(Inserting')
      /\ Cardinality(Inserting) <= Cardinality(Scheduler)
      /\ Cardinality(Inserting') <= Cardinality(Scheduler)
  BY <1>1, FS_Subset
<1>3. Cardinality(Inserting) \in Nat /\ Cardinality(Inserting') \in Nat
  BY <1>2, FS_CardinalityType
<1>4. pc'[s] # "insert" => Inserting' = Inserting \ {s}
  BY DEF Inserting
<1>5. Cardinality(Inserting \ {s}) =
         IF s \in Inserting THEN Cardinality(Inserting) - 1 ELSE Cardinality(Inserting)
  BY <1>2, FS_RemoveElement
<1>6. pc[s] = "insert" => s \in Inserting
  BY DEF Inserting
<1> QED BY <1>2, <1>3, <1>4, <1>5, <1>6

\* The initial states satisfy the invariant.
LEMMA SchedulerInitInv == SchedulerInit => SchedulerInv
<1> SUFFICES ASSUME SchedulerInit PROVE SchedulerInv
  OBVIOUS
<1>1. SchedulerTypeOK
  <2>1. 0 \in Time /\ 0 \in Future
    BY DEF Time, Future
  <2>2. cleared \in BOOLEAN
    BY Zenon DEF SchedulerInit
  <2> QED BY <2>1, <2>2 DEF SchedulerInit, SchedulerTypeOK
<1>2. OneScheduler /\ HoldsAreShort /\ OwnsTheLock
  BY DEF SchedulerInit, OneScheduler, NoOverlap, HoldsAreShort, OwnsTheLock
<1>3. Inserting = {}
  BY DEF SchedulerInit, Inserting
<1>4. RoomForAll /\ OverlapBound
  BY <1>3, FS_EmptySet, FS_CardinalityType DEF SchedulerInit, RoomForAll, OverlapBound
<1> QED BY <1>1, <1>2, <1>4 DEF SchedulerInv, SchedulersExclude

\* When a scheduler is at work and no lock was cleared, nobody else can claim.
LEMMA LockHolds ==
  ASSUME SchedulerInv, ~cleared, NEW s \in Scheduler, pc[s] # "idle"
  PROVE  Locked
<1>1. lockedAt = claimedAt[s] /\ claimedAt[s] \in Time /\ clock \in Time
  BY DEF SchedulerInv, SchedulersExclude, SchedulerTypeOK, OwnsTheLock
<1>2. lockedAt # Unlocked /\ clock - lockedAt <= MaxHold
  BY <1>1 DEF SchedulerInv, HoldsAreShort, Time
<1>3. MaxHold \in Nat /\ StaleAfter \in Nat /\ clock \in Nat /\ lockedAt \in Nat
  BY <1>1 DEF Time
<1> QED BY <1>2, <1>3, HoldAssumption DEF Locked

\* A claim finds the lock stale or free, so it meets nobody, or a lock was cleared.
LEMMA ClaimInv ==
  ASSUME SchedulerInv, NEW s \in Scheduler, ClaimSchedule(s)
  PROVE  SchedulerInv'
<1> USE DEF SchedulerInv, SchedulersExclude
<1>1. SchedulerTypeOK'
  BY DEF ClaimSchedule, SchedulerTypeOK, Time, Future, scheduler, row
<1>2. \A r \in Scheduler \ {s} : pc'[r] = pc[r]
  BY DEF ClaimSchedule, SchedulerTypeOK
<1>3. ~cleared' => \A r \in Scheduler : pc[r] = "idle"
  BY LockHolds DEF ClaimSchedule
<1>4. OneScheduler'
  BY <1>3 DEF ClaimSchedule, SchedulerTypeOK, OneScheduler, NoOverlap
<1>5. HoldsAreShort'
  BY DEF ClaimSchedule, SchedulerTypeOK, HoldsAreShort, Time, Future
<1>6. OwnsTheLock'
  BY <1>3 DEF ClaimSchedule, SchedulerTypeOK, OwnsTheLock
<1>7. pc'[s] # "insert" /\ active' = active
  BY DEF ClaimSchedule, SchedulerTypeOK
<1>8. RoomForAll' /\ OverlapBound'
  <2>1. Cardinality(Scheduler) \in Nat /\ active \in Nat
    BY FS_CardinalityType DEF SchedulerTypeOK
  <2> QED BY <1>1, <1>2, <1>7, <2>1, InsertingCount DEF RoomForAll, OverlapBound
<1> QED BY <1>1, <1>4, <1>5, <1>6, <1>8

\* There is room for s only when no job is active.
LEMMA CheckInv ==
  ASSUME SchedulerInv, NEW s \in Scheduler, CheckActive(s)
  PROVE  SchedulerInv'
<1> USE DEF SchedulerInv, SchedulersExclude
<1>1. PICK now \in claimedAt[s]..clock :
         next' = [next EXCEPT ![s] = NextScheduledRun(occurrence[s], now)]
  BY DEF CheckActive
<1>2. /\ now \in Time /\ occurrence[s] \in Nat /\ occurrence[s] <= now
      /\ now >= claimedAt[s] /\ claimedAt[s] \in Nat
  BY DEF CheckActive, SchedulerTypeOK, HoldsAreShort, Time
<1>3. next'[s] \in Future /\ next'[s] > now
  BY <1>1, <1>2, NextRunIsAfter DEF SchedulerTypeOK
<1>4. SchedulerTypeOK'
  BY <1>1, <1>3 DEF CheckActive, SchedulerTypeOK, row
<1>5. \A r \in Scheduler \ {s} : pc'[r] = pc[r]
  BY DEF CheckActive, SchedulerTypeOK
<1>6. OneScheduler'
  BY DEF CheckActive, SchedulerTypeOK, OneScheduler, NoOverlap
<1>7. HoldsAreShort'
  <2> SUFFICES ASSUME NEW r \in Scheduler, pc'[r] # "idle"
               PROVE  /\ occurrence[r] <= claimedAt[r] /\ claimedAt[r] <= clock
                      /\ clock - claimedAt[r] <= MaxHold
                      /\ pc'[r] # "claimed" => next'[r] > claimedAt[r]
    BY DEF CheckActive, HoldsAreShort
  <2>1. CASE r = s
    BY <1>2, <1>3, <2>1 DEF CheckActive, HoldsAreShort, SchedulerTypeOK, Future, Time
  <2>2. CASE r # s
    <3>1. next'[r] = next[r]
      BY <1>1, <2>2 DEF SchedulerTypeOK
    <3> QED BY <1>5, <2>2, <3>1 DEF HoldsAreShort
  <2> QED BY <2>1, <2>2
<1>8. OwnsTheLock'
  <2>1. pc[s] = "claimed" /\ (pc'[s] = "insert" => active = 0)
    BY DEF CheckActive, SchedulerTypeOK
  <2> QED BY <1>5, <2>1 DEF CheckActive, OwnsTheLock, row
<1>9. RoomForAll' /\ OverlapBound'
  <2>1. Cardinality(Scheduler) \in Nat /\ active \in Nat /\ active' = active
    BY FS_CardinalityType DEF SchedulerTypeOK, CheckActive
  <2>2. pc'[s] # "insert" \/ active = 0
    BY DEF CheckActive, SchedulerTypeOK
  <2> QED BY <1>4, <1>5, <2>1, <2>2, InsertingCount DEF RoomForAll, OverlapBound
<1> QED BY <1>4, <1>6, <1>7, <1>8, <1>9

\* A scheduler about to insert has been counted already.
LEMMA InsertInv ==
  ASSUME SchedulerInv, NEW s \in Scheduler, InsertJob(s)
  PROVE  SchedulerInv'
<1> USE DEF SchedulerInv, SchedulersExclude
<1>1. SchedulerTypeOK'
  BY DEF InsertJob, SchedulerTypeOK, row
<1>2. \A r \in Scheduler \ {s} : pc'[r] = pc[r]
  BY DEF InsertJob, SchedulerTypeOK
<1>3. pc[s] = "insert" /\ pc'[s] = "advance" /\ active' = active + 1
  BY DEF InsertJob, SchedulerTypeOK
<1>4. OneScheduler'
  BY <1>2, <1>3 DEF InsertJob, OneScheduler, NoOverlap, OwnsTheLock, SchedulerTypeOK
<1>5. HoldsAreShort'
  BY <1>2, <1>3 DEF InsertJob, HoldsAreShort
<1>6. OwnsTheLock'
  BY <1>2, <1>3 DEF InsertJob, OwnsTheLock, OneScheduler, row
<1>7. RoomForAll' /\ OverlapBound'
  <2>1. Cardinality(Scheduler) \in Nat /\ active \in Nat
    BY FS_CardinalityType DEF SchedulerTypeOK
  <2> QED BY <1>1, <1>2, <1>3, <2>1, InsertingCount DEF RoomForAll, OverlapBound
<1> QED BY <1>1, <1>4, <1>5, <1>6, <1>7

\* A call that fails, before or after its effect, leaves its scheduler to advance
\* the schedule to the next poll.
LEMMA FailInv ==
  ASSUME SchedulerInv, NEW s \in Scheduler, CallFails(s)
  PROVE  SchedulerInv'
<1> USE DEF SchedulerInv, SchedulersExclude
<1>1. PICK now \in claimedAt[s]..clock : next' = [next EXCEPT ![s] = now + Poll]
  BY DEF CallFails
<1>2. now \in Time /\ now >= claimedAt[s] /\ claimedAt[s] \in Nat /\ Poll \in Nat \ {0}
  BY DEF SchedulerTypeOK, Time
<1>3. next'[s] \in Future /\ next'[s] > claimedAt[s]
  BY <1>1, <1>2 DEF SchedulerTypeOK, Time, Future
<1>4. SchedulerTypeOK'
  BY <1>1, <1>3 DEF CallFails, SchedulerTypeOK, row
<1>5. \A r \in Scheduler \ {s} : pc'[r] = pc[r] /\ next'[r] = next[r]
  BY <1>1 DEF CallFails, SchedulerTypeOK
<1>6. /\ pc[s] # "idle" /\ pc'[s] = "advance"
      /\ \/ active' = active
         \/ pc[s] = "insert" /\ active' = active + 1
  BY DEF CallFails, SchedulerTypeOK
<1>7. OneScheduler'
  BY <1>5, <1>6 DEF CallFails, OneScheduler, NoOverlap, OwnsTheLock, SchedulerTypeOK
<1>8. HoldsAreShort'
  BY <1>3, <1>5, <1>6 DEF CallFails, HoldsAreShort
<1>9. OwnsTheLock'
  BY <1>5, <1>6 DEF CallFails, OwnsTheLock, OneScheduler, row
<1>10. RoomForAll' /\ OverlapBound'
  <2>1. Cardinality(Scheduler) \in Nat /\ active \in Nat
    BY FS_CardinalityType DEF SchedulerTypeOK
  <2> QED BY <1>4, <1>5, <1>6, <2>1, InsertingCount DEF RoomForAll, OverlapBound
<1> QED BY <1>4, <1>7, <1>8, <1>9, <1>10

\* A scheduler that is done with the schedule, having advanced it or not.
LEMMA LeaveInv ==
  ASSUME SchedulerInv, NEW s \in Scheduler, Advance(s) \/ Abandon(s)
  PROVE  SchedulerInv'
<1> USE DEF SchedulerInv, SchedulersExclude
<1>1. 0 \in Time /\ 0 \in Future
  BY DEF Time, Future
<1>2. SchedulerTypeOK'
  <2>1. CASE Advance(s)
    BY <1>1, <2>1 DEF Advance, Done, SchedulerTypeOK
  <2>2. CASE Abandon(s)
    BY <1>1, <2>2 DEF Abandon, Done, SchedulerTypeOK, row
  <2> QED BY <2>1, <2>2
<1>3. /\ pc[s] # "idle" /\ pc'[s] = "idle" /\ active' = active /\ clock' = clock
      /\ cleared' = cleared
      /\ \A r \in Scheduler \ {s} :
             /\ pc'[r] = pc[r] /\ next'[r] = next[r]
             /\ claimedAt'[r] = claimedAt[r] /\ occurrence'[r] = occurrence[r]
  BY DEF Advance, Abandon, Done, SchedulerTypeOK
<1>4. OneScheduler'
  BY <1>3 DEF OneScheduler, NoOverlap
<1>5. HoldsAreShort'
  BY <1>3 DEF HoldsAreShort
<1>6. OwnsTheLock'
  BY <1>3 DEF OwnsTheLock, OneScheduler
<1>7. RoomForAll' /\ OverlapBound'
  <2>1. Cardinality(Scheduler) \in Nat /\ active \in Nat
    BY FS_CardinalityType DEF SchedulerTypeOK
  <2> QED BY <1>2, <1>3, <2>1, InsertingCount DEF RoomForAll, OverlapBound
<1> QED BY <1>2, <1>4, <1>5, <1>6, <1>7

\* The steps of others: a process registers the schedule, a job is settled, time
\* passes.
LEMMA OthersInv ==
  ASSUME SchedulerInv, SettleJob \/ Register \/ Tick
  PROVE  SchedulerInv'
<1> USE DEF SchedulerInv, SchedulersExclude
<1>1. /\ pc' = pc /\ claimedAt' = claimedAt /\ occurrence' = occurrence /\ next' = next
      /\ active' \in Nat /\ active' <= active /\ active \in Nat
  BY DEF SettleJob, Register, Tick, scheduler, SchedulerTypeOK
<1>2. SchedulerTypeOK'
  <2>1. CASE SettleJob
    BY <2>1 DEF SettleJob, scheduler, row, SchedulerTypeOK
  <2>2. CASE Register
    BY <2>2 DEF Register, scheduler, SchedulerTypeOK
  <2>3. CASE Tick
    BY <2>3 DEF Tick, scheduler, row, SchedulerTypeOK, Time
  <2> QED BY <2>1, <2>2, <2>3
<1>3. OneScheduler'
  BY <1>1 DEF SettleJob, Register, Tick, OneScheduler, NoOverlap
<1>4. HoldsAreShort'
  <2>1. CASE clock' = clock
    BY <1>1, <2>1 DEF HoldsAreShort
  <2>2. CASE clock' # clock
    BY <1>1, <2>2 DEF HoldsAreShort, Tick, SettleJob, Register, SchedulerTypeOK, Time
  <2> QED BY <2>1, <2>2
<1>5. OwnsTheLock'
  BY <1>1 DEF SettleJob, Register, Tick, row, OwnsTheLock
<1>6. Inserting' = Inserting
  BY <1>1 DEF Inserting
<1>7. Cardinality(Inserting) \in Nat /\ Cardinality(Scheduler) \in Nat
  BY FS_CardinalityType, FS_Subset DEF Inserting
<1>8. RoomForAll' /\ OverlapBound'
  BY <1>1, <1>6, <1>7 DEF RoomForAll, OverlapBound
<1> QED BY <1>2, <1>3, <1>4, <1>5, <1>8

\* Every step keeps the invariant.
LEMMA SchedulerNextInv == SchedulerInv /\ [SchedulerNext]_schedulerVars => SchedulerInv'
<1> SUFFICES ASSUME SchedulerInv, [SchedulerNext]_schedulerVars PROVE SchedulerInv'
  OBVIOUS
<1>1. CASE UNCHANGED schedulerVars
  BY <1>1 DEF SchedulerInv, SchedulersExclude, SchedulerTypeOK, OneScheduler, NoOverlap, OverlapBound,
              HoldsAreShort, OwnsTheLock, RoomForAll, Inserting, schedulerVars, row, scheduler
<1>2. ASSUME NEW s \in Scheduler, SchedulerStep(s) \/ Abandon(s) PROVE SchedulerInv'
  BY <1>2, ClaimInv, CheckInv, InsertInv, FailInv, LeaveInv DEF SchedulerStep
<1>3. CASE SettleJob \/ Register \/ Tick
  BY <1>3, OthersInv
<1> QED BY <1>1, <1>2, <1>3 DEF SchedulerNext

\* What schedule, jobs and schedulers have of each other agrees in every
\* reachable state.
THEOREM SchedulerInvariance == SchedulerSpec => []SchedulerInv
<1> QED BY SchedulerInitInv, SchedulerNextInv, PTL DEF SchedulerSpec

\* Schedulers exclude each other until a lock is cleared, and from then on each
\* of them adds at most one job (scheduleClaimed, ClaimSchedule,
\* RegisterSchedule).
THEOREM Exclusion == SchedulerSpec => []SchedulersExclude
<1>1. SchedulerInv => SchedulersExclude
  BY DEF SchedulerInv
<1> QED BY <1>1, SchedulerInvariance, PTL

\* Unless a lock was cleared, a scheduler writes a next run that lies after the
\* one it claimed (nextScheduledRun, AdvanceSchedule).
THEOREM Progress == SchedulerSpec => NextRunAdvances
<1>1. SchedulerInv /\ [SchedulerNext]_schedulerVars => [cleared \/ nextRunAt' >= nextRunAt]_schedulerVars
  <2> SUFFICES ASSUME SchedulerInv, SchedulerNext PROVE cleared \/ nextRunAt' >= nextRunAt
    OBVIOUS
  <2>1. nextRunAt \in Int
    BY DEF SchedulerInv, SchedulersExclude, SchedulerTypeOK, Future
  <2>2. ASSUME NEW s \in Scheduler, Advance(s) PROVE cleared \/ nextRunAt' >= nextRunAt
    <3>1. /\ nextRunAt' = next[s] /\ next[s] > claimedAt[s] /\ occurrence[s] <= claimedAt[s]
          /\ next[s] \in Int /\ claimedAt[s] \in Int /\ occurrence[s] \in Int
      BY <2>2 DEF Advance, SchedulerInv, SchedulersExclude, SchedulerTypeOK, HoldsAreShort, Future, Time
    <3>2. cleared \/ nextRunAt = occurrence[s]
      BY <2>2 DEF Advance, SchedulerInv, OwnsTheLock
    <3> QED BY <3>1, <3>2
  <2>3. nextRunAt' # nextRunAt => \E s \in Scheduler : Advance(s)
    BY DEF SchedulerNext, SchedulerStep, ClaimSchedule, CheckActive, InsertJob, CallFails, Abandon,
           SettleJob, Register, Tick, row
  <2> QED BY <2>1, <2>2, <2>3
<1> QED BY <1>1, SchedulerInvariance, PTL DEF SchedulerSpec, NextRunAdvances

---------------------------------------------------------------------------
(* The runner.                                                              *)

HIDE SchedulerAssumption DEF Unlocked
USE LifecycleAssumption DEF Pool, None

\* A runner that was not started.
LEMMA RunnerInitInv == RunnerInit => RunnerInv
<1> SUFFICES ASSUME RunnerInit PROVE RunnerInv
  OBVIOUS
<1>1. RunnerTypeOK
  <2>1. alive \in [Pool -> 0..Workers]
    BY DEF RunnerInit
  <2>2. stop \in [Caller -> {"idle", "cancelling", "waiting", "stopped"}]
    BY DEF RunnerInit
  <2>3. myCancel \in [Caller -> Pool \cup {None}] /\ myDone \in [Caller -> Pool \cup {None}]
    BY DEF RunnerInit
  <2>4. started \in BOOLEAN /\ panicked \in BOOLEAN
    BY Zenon DEF RunnerInit
  <2> QED BY <2>1, <2>2, <2>3, <2>4 DEF RunnerInit, RunnerTypeOK
<1>2. PoolsAreKnown
  BY DEF RunnerInit, PoolsAreKnown
<1>3. EarlierAreGone /\ ClosedMeansGone
  BY DEF RunnerInit, EarlierAreGone, ClosedMeansGone
<1>4. StoppedByChannel /\ NoDoubleClose
  BY DEF RunnerInit, StoppedByChannel, NoDoubleClose
<1> QED BY <1>1, <1>2, <1>3, <1>4 DEF RunnerInv

\* A Start that finds no pool left leaves every earlier pool gone.
LEMMA StartInv ==
  ASSUME RunnerInv, NEW c \in Caller, Start(c)
  PROVE  RunnerInv'
<1> USE DEF RunnerInv
<1>1. last' = last + 1 /\ last' \in Pool /\ done' = last' /\ last \in Nat
  BY DEF Start, RunnerTypeOK
<1>2. RunnerTypeOK'
  BY <1>1 DEF Start, RunnerTypeOK, callers
<1>3. PoolsAreKnown'
  BY <1>1 DEF Start, RunnerTypeOK, PoolsAreKnown
<1>4. EarlierAreGone'
  <2> SUFFICES ASSUME NEW p \in Pool, NEW q \in Pool,
                      p < q, q <= last', q \notin startedEarly', p \in waiting'
               PROVE  FALSE
    BY DEF EarlierAreGone
  <2>1. p # last' /\ p \in waiting
    BY <1>1 DEF Start
  <2>2. CASE q = last'
    BY <1>1, <2>1, <2>2 DEF Start, StillDraining
  <2>3. CASE q # last'
    BY <1>1, <2>1, <2>3 DEF Start, StillDraining, EarlierAreGone
  <2> QED BY <2>2, <2>3
<1>5. ClosedMeansGone'
  BY <1>1 DEF Start, StillDraining, ClosedMeansGone, PoolsAreKnown
<1>6. StoppedByChannel' /\ NoDoubleClose'
  BY DEF Start, StoppedByChannel, NoDoubleClose, StillDraining, callers
<1> QED BY <1>2, <1>3, <1>4, <1>5, <1>6

\* The channel a waiter closes belongs to its own pool, or to one that was
\* started while a stopped one was draining.
LEMMA WaiterInv ==
  ASSUME RunnerInv, NEW p \in Pool, WaiterCloses(p)
  PROVE  RunnerInv'
<1> USE DEF RunnerInv
<1>1. PICK d \in p..done : /\ panicked' = (d \in closed)
                           /\ closed' = closed \cup {d}
  BY DEF WaiterCloses
<1>2. d \in Pool /\ d <= last /\ p <= d
  BY DEF RunnerTypeOK, PoolsAreKnown
<1>3. d \in startedEarly \/ p = d
  BY <1>2 DEF EarlierAreGone, WaiterCloses
<1>4. RunnerTypeOK'
  BY <1>1, <1>2 DEF WaiterCloses, RunnerTypeOK, fields, callers
<1>5. PoolsAreKnown'
  BY <1>1, <1>2 DEF WaiterCloses, RunnerTypeOK, PoolsAreKnown, fields
<1>6. EarlierAreGone'
  BY DEF WaiterCloses, EarlierAreGone
<1>7. ClosedMeansGone'
  <2> SUFFICES ASSUME NEW e \in closed', e \notin startedEarly', NEW q \in 1..e
               PROVE  q \notin waiting'
    BY DEF ClosedMeansGone
  <2>1. CASE e \in closed
    BY <2>1 DEF WaiterCloses, ClosedMeansGone
  <2>2. CASE e = d
    <3>1. p = d /\ q \in Pool /\ q <= d
      BY <1>2, <1>3, <2>2 DEF WaiterCloses, RunnerTypeOK
    <3>2. CASE q = d
      BY <3>1, <3>2 DEF WaiterCloses
    <3>3. CASE q < d
      BY <1>2, <3>1, <3>3, <2>2 DEF WaiterCloses, EarlierAreGone
    <3> QED BY <3>1, <3>2, <3>3, <1>2
  <2> QED BY <1>1, <2>1, <2>2
<1>8. StoppedByChannel'
  BY <1>1 DEF WaiterCloses, StoppedByChannel, callers
<1>9. NoDoubleClose'
  <2>1. d \in closed => startedEarly # {}
    BY <1>2, <1>3 DEF ClosedMeansGone, WaiterCloses
  <2> QED BY <1>1, <2>1 DEF WaiterCloses, NoDoubleClose
<1> QED BY <1>4, <1>5, <1>6, <1>7, <1>8, <1>9

\* Every step of callers, goroutines and waiters.
LEMMA RunnerNextInv == RunnerInv /\ [RunnerNext]_runnerVars => RunnerInv'
<1> SUFFICES ASSUME RunnerInv, [RunnerNext]_runnerVars PROVE RunnerInv'
  OBVIOUS
<1>1. ASSUME NEW c \in Caller, Start(c) PROVE RunnerInv'
  BY <1>1, StartInv
<1>2. ASSUME NEW p \in Pool, WaiterCloses(p) PROVE RunnerInv'
  BY <1>2, WaiterInv
<1> USE DEF RunnerInv, RunnerTypeOK, PoolsAreKnown, EarlierAreGone, ClosedMeansGone,
            StoppedByChannel, NoDoubleClose, fields, pools, callers
<1>3. ASSUME NEW c \in Caller, StopBegin(c) PROVE RunnerInv'
  BY <1>3 DEF StopBegin
<1>4. ASSUME NEW c \in Caller, StopCancel(c) PROVE RunnerInv'
  <2>1. /\ UNCHANGED <<fields, last, alive, waiting, closed, panicked, startedEarly, myCancel, myDone>>
        /\ cancelled' = cancelled \cup ({myCancel[c]} \ {None})
        /\ stop' = [stop EXCEPT ![c] = "waiting"]
    BY <1>4 DEF StopCancel
  <2>2. cancelled' \subseteq Pool
    <3>1. cancelled \subseteq Pool /\ myCancel[c] \in Pool \cup {None}
      OBVIOUS
    <3> QED BY <2>1, <3>1
  <2>3. stop' \in [Caller -> {"idle", "cancelling", "waiting", "stopped"}]
    BY <2>1
  <2>4. RunnerTypeOK'
    BY <2>1, <2>2, <2>3
  <2>5. \A d \in Caller : stop'[d] = "stopped" => stop[d] = "stopped"
    BY <2>1
  <2> QED BY <2>1, <2>4, <2>5
<1>5. ASSUME NEW c \in Caller, StopReturns(c) PROVE RunnerInv'
  BY <1>5 DEF StopReturns
<1>6. ASSUME NEW c \in Caller, StopTimesOut(c) PROVE RunnerInv'
  BY <1>6 DEF StopTimesOut
<1>7. ASSUME NEW c \in Caller, GoOn(c) PROVE RunnerInv'
  BY <1>7 DEF GoOn
<1>8. ASSUME NEW p \in Pool, ParentCancel(p) PROVE RunnerInv'
  BY <1>8 DEF ParentCancel
<1>9. ASSUME NEW p \in Pool, GoroutineReturns(p) PROVE RunnerInv'
  <2>1. alive' \in [Pool -> 0..Workers]
    BY <1>9 DEF GoroutineReturns
  <2>2. \A q \in Pool : alive'[q] > 0 => alive[q] > 0
    BY <1>9 DEF GoroutineReturns
  <2> QED BY <1>9, <2>1, <2>2 DEF GoroutineReturns
<1>10. CASE UNCHANGED runnerVars
  BY <1>10 DEF runnerVars
<1> QED
  BY <1>1, <1>2, <1>3, <1>4, <1>5, <1>6, <1>7, <1>8, <1>9, <1>10 DEF RunnerNext

\* What the fields, the waiters and the callers of Stop know of the pools agrees
\* in every reachable state.
THEOREM RunnerInvariance == RunnerSpec => []RunnerInv
  BY RunnerInitInv, RunnerNextInv, PTL DEF RunnerSpec

\* Pools do not meet and no channel is closed twice, unless a pool is started
\* while a stopped one is draining.
THEOREM Separation == RunnerSpec => []PoolsDoNotMeet
<1>1. RunnerInv => PoolsDoNotMeet
  BY DEF RunnerInv, PoolsDoNotMeet, OnePool, RunnerTypeOK, PoolsAreKnown, EarlierAreGone
<1> QED BY <1>1, RunnerInvariance, PTL

\* When Stop returns nil, every goroutine started before it has returned, unless
\* its pool was started while a stopped one was draining.
THEOREM Draining == RunnerSpec => []StopDrains
<1>1. ASSUME RunnerInv PROVE StopDrains
  <2> SUFFICES ASSUME NEW c \in Caller, stop[c] = "stopped", myDone[c] \notin startedEarly,
                      NEW p \in 1..myDone[c]
               PROVE  alive[p] = 0
    BY DEF StopDrains
  <2>1. p \in Pool /\ p \notin waiting
    BY <1>1 DEF RunnerInv, RunnerTypeOK, StoppedByChannel, ClosedMeansGone
  <2> QED BY <1>1, <2>1 DEF RunnerInv, RunnerTypeOK, PoolsAreKnown
<1> QED BY <1>1, RunnerInvariance, PTL

======================================================================================
