---------------------------- MODULE MediaFiles_proofs ---------------------------
(* Theorems about the catalog of files and its variants, for any callers,       *)
(* contents, variants and names, any number of faults and crashes, and logs of  *)
(* any length.                                                                  *)
EXTENDS MediaFiles, FiniteSetTheorems, NaturalsInduction, WellFoundedInduction,
        SequenceTheorems, TLAPS

-----------------------------------------------------------------------------
(* Replay, a line at a time.                                                 *)

\* A set that has zero, and the successor of each number it has, has every number.
LEMMA EveryNumber ==
  ASSUME NEW Q, 0 \in Q, \A n \in Nat : n \in Q => n + 1 \in Q
  PROVE  Nat \subseteq Q
<1> DEFINE less == {ss \in Nat \X Nat : ss[1] < ss[2]}
           bad == Nat \ Q
<1>1. IsWellFoundedOn(less, Nat)
  BY NatLessThanWellFounded DEF OpToRel
<1> HIDE DEF less
<1> SUFFICES ASSUME bad # {} PROVE FALSE
  OBVIOUS
<1>2. bad \subseteq Nat
  OBVIOUS
<1>3. PICK x \in bad : \A y \in bad : <<y, x>> \notin less
  BY <1>1, <1>2, WFMin
<1>4. x \in Nat /\ x # 0
  OBVIOUS
<1>5. x - 1 \in Nat /\ <<x - 1, x>> \in less
  BY <1>4 DEF less
<1>6. x - 1 \notin bad
  BY <1>3, <1>5
<1> QED BY <1>4, <1>5, <1>6

\* A set of numbers up to n that is not empty has a greatest element.
LEMMA GreatestIs ==
  ASSUME NEW n \in Nat, NEW T \in SUBSET (1..n), T # {}
  PROVE  Max(T) \in T /\ \A y \in T : y <= Max(T)
<1> DEFINE Q == {k \in Nat : \A S \in SUBSET (1..k) :
                   S # {} => \E x \in S : \A y \in S : x >= y}
<1>1. 0 \in Q
  <2>1. \A S \in SUBSET (1..0) : S = {}
    OBVIOUS
  <2> QED BY <2>1
<1>2. ASSUME NEW k \in Nat, k \in Q PROVE k + 1 \in Q
  <2> SUFFICES ASSUME NEW S \in SUBSET (1..(k + 1)), S # {}
               PROVE  \E x \in S : \A y \in S : x >= y
    OBVIOUS
  <2>1. CASE k + 1 \in S
    BY <2>1
  <2>2. CASE k + 1 \notin S
    <3>1. S \in SUBSET (1..k)
      BY <2>2
    <3> QED BY <1>2, <3>1
  <2> QED BY <2>1, <2>2
<1>3. n \in Q
  <2> HIDE DEF Q
  <2> QED BY <1>1, <1>2, EveryNumber
<1>4. \E x \in T : \A y \in T : x >= y
  BY <1>3
<1>5. Max(T) \in T /\ \A y \in T : Max(T) >= y
  BY <1>4 DEF Max
<1> QED BY <1>5

\* The others are below it.
LEMMA OthersBelow ==
  ASSUME NEW n \in Nat, NEW T \in SUBSET (1..(n + 1)), T # {}
  PROVE  T \ {Max(T)} \in SUBSET (1..n)
<1> DEFINE m == Max(T)
<1>1. m \in T /\ \A y \in T : y <= m
  <2>1. n + 1 \in Nat
    OBVIOUS
  <2> QED BY <2>1, GreatestIs
<1> HIDE DEF m
<1>2. ASSUME NEW y \in T, y # m PROVE y \in 1..n
  BY <1>1, <1>2
<1>3. T \ {m} \in SUBSET (1..n)
  BY <1>2
<1> QED BY <1>3 DEF m

\* What one line does, in each of the four replays.
Step(kind, m, e) ==
    CASE kind = "files" -> ApplyFile(m, e)
      [] kind = "variants" -> ApplyVariant(m, e)
      [] kind = "known files" -> ApplyKnownFile(m, e)
      [] kind = "known variants" -> ApplyKnownVariant(m, e)

\* The fold over a sequence as a function of the sets of its places.
Chain(kind, s, n, g) ==
    [T \in SUBSET (1..n) |->
        IF T = {} THEN Nothing ELSE Step(kind, g[T \ {Max(T)}], s[Max(T)])]

\* There is such a function.
LEMMA ChainExists ==
  ASSUME NEW kind, NEW s, NEW n \in Nat
  PROVE  \E g : g = Chain(kind, s, n, g)
<1> DEFINE Q == {k \in Nat : \E g : g = Chain(kind, s, k, g)}
<1>1. 0 \in Q
  <2>1. \A T \in SUBSET (1..0) : T = {}
    OBVIOUS
  <2> DEFINE g == [T \in SUBSET (1..0) |-> Nothing]
  <2>2. g = Chain(kind, s, 0, g)
    BY <2>1 DEF Chain
  <2> QED BY <2>2
<1>2. ASSUME NEW k \in Nat, k \in Q PROVE k + 1 \in Q
  <2>1. PICK g : g = Chain(kind, s, k, g)
    BY <1>2
  <2> DEFINE big == SUBSET (1..(k + 1))
             low == SUBSET (1..k)
             F(T, u) == IF T = {} THEN Nothing ELSE Step(kind, u, s[Max(T)])
             top(T) == T \ {Max(T)}
             h == [T \in big |-> IF T \in low THEN g[T] ELSE F(T, g[top(T)])]
  <2>2. ASSUME NEW T \in big, T # {} PROVE top(T) \in low
    BY <2>2, OthersBelow
  <2>3. ASSUME NEW T \in low PROVE g[T] = F(T, g[top(T)])
    BY <2>1 DEF Chain
  <2>4. low \subseteq big
    OBVIOUS
  <2>5. ASSUME NEW T \in big PROVE h[T] = F(T, h[top(T)])
    <3>1. CASE T = {}
      BY <2>3, <3>1
    <3>2. CASE T # {}
      <4>1. top(T) \in low /\ top(T) \in big
        BY <2>2, <2>4, <3>2
      <4> DEFINE u == top(T)
      <4>2. u \in low /\ u \in big
        BY <4>1
      <4> HIDE DEF u, low, big, F
      <4>3. h[u] = g[u]
        BY <4>2
      <4>4. h[T] = F(T, g[u])
        BY <2>3 DEF u
      <4> QED BY <4>3, <4>4 DEF u
    <3> QED BY <3>1, <3>2
  <2>6. h = [T \in big |-> F(T, h[top(T)])]
    <3> HIDE DEF F, top, low, big
    <3> DEFINE hh == h
    <3>1. hh = [T \in big |-> hh[T]]
      OBVIOUS
    <3>2. \A T \in big : hh[T] = F(T, hh[top(T)])
      BY <2>5
    <3> HIDE DEF hh
    <3>3. hh = [T \in big |-> F(T, hh[top(T)])]
      BY <3>1, <3>2
    <3> QED BY <3>3 DEF hh
  <2>7. h = Chain(kind, s, k + 1, h)
    <3> HIDE DEF h
    <3> QED BY <2>6 DEF Chain
  <2> QED BY <2>7
<1> HIDE DEF Q
<1>3. n \in Q
  BY <1>1, <1>2, EveryNumber
<1> QED BY <1>3 DEF Q

\* Two chains over sequences that begin alike agree where they do.
LEMMA ChainsAgree ==
  ASSUME NEW kind, NEW s, NEW u, NEW n \in Nat, NEW k \in Nat, n <= k,
         \A i \in 1..n : s[i] = u[i],
         NEW g, g = Chain(kind, s, n, g), NEW h, h = Chain(kind, u, k, h)
  PROVE  \A T \in SUBSET (1..n) : g[T] = h[T]
<1> DEFINE Q == {l \in Nat : l <= n => \A T \in SUBSET (1..l) : g[T] = h[T]}
           F(T, w) == IF T = {} THEN Nothing ELSE Step(kind, w, s[Max(T)])
           top(T) == T \ {Max(T)}
<1>1. ASSUME NEW T \in SUBSET (1..n), T = {} \/ g[top(T)] = h[top(T)]
      PROVE  g[T] = h[T]
  <2>1. T \in SUBSET (1..k)
    OBVIOUS
  <2>2. g[T] = IF T = {} THEN Nothing ELSE Step(kind, g[top(T)], s[Max(T)])
    BY DEF Chain
  <2>3. h[T] = IF T = {} THEN Nothing ELSE Step(kind, h[top(T)], u[Max(T)])
    BY <2>1 DEF Chain
  <2>4. T # {} => s[Max(T)] = u[Max(T)]
    BY GreatestIs
  <2> QED BY <1>1, <2>2, <2>3, <2>4
<1>2. 0 \in Q
  <2>1. \A T \in SUBSET (1..0) : T = {} /\ T \in SUBSET (1..n)
    OBVIOUS
  <2> HIDE DEF F, top
  <2> QED BY <1>1, <2>1
<1>3. ASSUME NEW l \in Nat, l \in Q PROVE l + 1 \in Q
  <2> SUFFICES ASSUME l + 1 <= n, NEW T \in SUBSET (1..(l + 1)) PROVE g[T] = h[T]
    OBVIOUS
  <2>1. T \in SUBSET (1..n)
    OBVIOUS
  <2>2. T # {} => top(T) \in SUBSET (1..l)
    BY OthersBelow
  <2> HIDE DEF F, top
  <2>3. T # {} => g[top(T)] = h[top(T)]
    BY <1>3, <2>2
  <2> QED BY <1>1, <2>1, <2>3
<1>4. n \in Q
  <2> HIDE DEF Q
  <2> QED BY <1>2, <1>3, EveryNumber
<1> QED BY <1>4

\* The map after n lines.
After(kind, s, n) == (CHOOSE g : g = Chain(kind, s, n, g))[1..n]

\* The map after n lines depends on these lines only.
LEMMA AfterSame ==
  ASSUME NEW kind, NEW s, NEW u, NEW n \in Nat, \A i \in 1..n : s[i] = u[i]
  PROVE  After(kind, s, n) = After(kind, u, n)
<1> DEFINE g == CHOOSE g : g = Chain(kind, s, n, g)
           h == CHOOSE h : h = Chain(kind, u, n, h)
<1>1. g = Chain(kind, s, n, g) /\ h = Chain(kind, u, n, h)
  BY ChainExists
<1> HIDE DEF g, h
<1>2. g[1..n] = h[1..n]
  BY <1>1, ChainsAgree
<1> QED BY <1>2 DEF g, h, After

\* Before any line the map is empty, and each line does its step.
LEMMA AfterStep ==
  ASSUME NEW kind, NEW s, NEW n \in Nat
  PROVE  /\ After(kind, s, 0) = Nothing
         /\ After(kind, s, n + 1) = Step(kind, After(kind, s, n), s[n + 1])
<1>1. After(kind, s, 0) = Nothing
  <2> DEFINE g == CHOOSE g : g = Chain(kind, s, 0, g)
  <2>1. g = Chain(kind, s, 0, g)
    BY ChainExists
  <2> HIDE DEF g
  <2>2. g[1..0] = Nothing
    BY <2>1 DEF Chain
  <2> QED BY <2>2 DEF After, g
<1> DEFINE g == CHOOSE g : g = Chain(kind, s, n, g)
           h == CHOOSE h : h = Chain(kind, s, n + 1, h)
<1>2. g = Chain(kind, s, n, g) /\ h = Chain(kind, s, n + 1, h)
  BY ChainExists
<1>3. After(kind, s, n) = g[1..n] /\ After(kind, s, n + 1) = h[1..(n + 1)]
  BY DEF After
<1> HIDE DEF g, h
<1>4. g[1..n] = h[1..n]
  <2>1. n + 1 \in Nat /\ n <= n + 1 /\ \A i \in 1..n : s[i] = s[i]
    OBVIOUS
  <2>2. \A T \in SUBSET (1..n) : g[T] = h[T]
    BY <1>2, <2>1, ChainsAgree
  <2>3. 1..n \in SUBSET (1..n)
    OBVIOUS
  <2> QED BY <2>2, <2>3
<1> DEFINE T == 1..(n + 1)
<1>5. T # {} /\ T \in SUBSET (1..(n + 1)) /\ n + 1 \in T /\ n + 1 \in Nat
  OBVIOUS
<1>6. Max(T) = n + 1
  <2>1. Max(T) \in T /\ \A y \in T : y <= Max(T)
    BY <1>5, GreatestIs
  <2> QED BY <2>1
<1>7. T \ {n + 1} = 1..n
  OBVIOUS
<1> HIDE DEF T
<1>8. h[T] = Step(kind, h[1..n], s[n + 1])
  BY <1>2, <1>5, <1>6, <1>7 DEF Chain
<1> QED BY <1>1, <1>3, <1>4, <1>8 DEF T

\* Each replay of the log is the map after its last line.
LEMMA ReplaysAre ==
  ASSUME NEW lines, NEW n \in Nat, DOMAIN lines = 1..n
  PROVE  /\ ReplayFiles(lines) = After("files", lines, n)
         /\ ReplayVariants(lines) = After("variants", lines, n)
         /\ KnownFiles(lines) = After("known files", lines, n)
         /\ KnownVariants(lines) = After("known variants", lines, n)
<1>1. ReplayFiles(lines) = After("files", lines, n)
  <2> DEFINE G(g) == [T \in SUBSET DOMAIN lines |->
                       IF T = {} THEN Nothing ELSE ApplyFile(g[T \ {Max(T)}], lines[Max(T)])]
  <2>1. \A g : Chain("files", lines, n, g) = G(g)
    BY Zenon DEF Chain, Step
  <2>2. ReplayFiles(lines) = (CHOOSE g : g = G(g))[DOMAIN lines]
    BY DEF ReplayFiles, FoldLeft, MapThenFoldSet
  <2> HIDE DEF G
  <2> QED BY <2>1, <2>2 DEF After
<1>2. ReplayVariants(lines) = After("variants", lines, n)
  <2> DEFINE G(g) == [T \in SUBSET DOMAIN lines |->
                       IF T = {} THEN Nothing ELSE ApplyVariant(g[T \ {Max(T)}], lines[Max(T)])]
  <2>1. \A g : Chain("variants", lines, n, g) = G(g)
    BY Zenon DEF Chain, Step
  <2>2. ReplayVariants(lines) = (CHOOSE g : g = G(g))[DOMAIN lines]
    BY DEF ReplayVariants, FoldLeft, MapThenFoldSet
  <2> HIDE DEF G
  <2> QED BY <2>1, <2>2 DEF After
<1>3. KnownFiles(lines) = After("known files", lines, n)
  <2> DEFINE G(g) == [T \in SUBSET DOMAIN lines |->
                       IF T = {} THEN Nothing ELSE ApplyKnownFile(g[T \ {Max(T)}], lines[Max(T)])]
  <2>1. \A g : Chain("known files", lines, n, g) = G(g)
    BY Zenon DEF Chain, Step
  <2>2. KnownFiles(lines) = (CHOOSE g : g = G(g))[DOMAIN lines]
    BY DEF KnownFiles, FoldLeft, MapThenFoldSet
  <2> HIDE DEF G
  <2> QED BY <2>1, <2>2 DEF After
<1>4. KnownVariants(lines) = After("known variants", lines, n)
  <2> DEFINE G(g) == [T \in SUBSET DOMAIN lines |->
                       IF T = {} THEN Nothing ELSE ApplyKnownVariant(g[T \ {Max(T)}], lines[Max(T)])]
  <2>1. \A g : Chain("known variants", lines, n, g) = G(g)
    BY Zenon DEF Chain, Step
  <2>2. KnownVariants(lines) = (CHOOSE g : g = G(g))[DOMAIN lines]
    BY DEF KnownVariants, FoldLeft, MapThenFoldSet
  <2> HIDE DEF G
  <2> QED BY <2>1, <2>2 DEF After
<1> QED BY <1>1, <1>2, <1>3, <1>4

-----------------------------------------------------------------------------
(* Lines, and what the process knows of them after it has read them.          *)

\* What the two maps in memory may be.
Files == [ID -> Recorded \cup {Absent}]
Variants == [ID -> Variant \cup {Absent}]

\* One more line is one more step.
LEMMA OneMore ==
  ASSUME NEW A, NEW l \in Seq(A), NEW e \in A
  PROVE  /\ KnownFiles(Append(l, e)) = ApplyKnownFile(KnownFiles(l), e)
         /\ KnownVariants(Append(l, e)) = ApplyKnownVariant(KnownVariants(l), e)
<1> DEFINE n == Len(l)
           u == Append(l, e)
<1>1. n \in Nat /\ DOMAIN l = 1..n /\ DOMAIN u = 1..(n + 1) /\ n + 1 \in Nat
      /\ u[n + 1] = e /\ \A i \in 1..n : l[i] = u[i]
  OBVIOUS
<1> HIDE DEF n, u
<1>2. \A kind : After(kind, u, n + 1) = Step(kind, After(kind, l, n), e)
  <2> SUFFICES ASSUME NEW kind PROVE After(kind, u, n + 1) = Step(kind, After(kind, l, n), e)
    OBVIOUS
  <2>1. After(kind, l, n) = After(kind, u, n)
    BY <1>1, AfterSame
  <2>2. After(kind, u, n + 1) = Step(kind, After(kind, u, n), u[n + 1])
    BY <1>1, AfterStep
  <2> QED BY <1>1, <2>1, <2>2
<1>3. /\ KnownFiles(l) = After("known files", l, n)
      /\ KnownVariants(l) = After("known variants", l, n)
  BY <1>1, ReplaysAre
<1>4. /\ KnownFiles(u) = After("known files", u, n + 1)
      /\ KnownVariants(u) = After("known variants", u, n + 1)
  BY <1>1, ReplaysAre
<1>5. KnownFiles(u) = ApplyKnownFile(KnownFiles(l), e)
  BY <1>2, <1>3, <1>4 DEF Step
<1>6. KnownVariants(u) = ApplyKnownVariant(KnownVariants(l), e)
  BY <1>2, <1>3, <1>4 DEF Step
<1> QED BY <1>5, <1>6 DEF u

\* The lines of a log after the process has read it.
LineKnown(e) == [e EXCEPT !.known = TRUE]
Read(lines) == [i \in DOMAIN lines |-> LineKnown(lines[i])]

\* What a line says is the same after the process has read it.
ReadFile(e, r) ==
    /\ r \in FileLine /\ r.known = TRUE
    /\ r.op = e.op /\ r.id = e.id /\ r.key = e.key /\ r.sum = e.sum
ReadVariant(e, r) ==
    r \in VariantLine /\ r.known = TRUE /\ r.source = e.source /\ r.variant = e.variant

\* A line of the catalog that the process reads says what it said.
LEMMA FileRead ==
  ASSUME NEW e \in FileLine
  PROVE  ReadFile(e, LineKnown(e))
BY DEF FileLine, LineKnown, ReadFile

\* So does a line of the log of variants.
LEMMA VariantRead ==
  ASSUME NEW e \in VariantLine
  PROVE  ReadVariant(e, LineKnown(e))
BY DEF VariantLine, LineKnown, ReadVariant

\* Lines that do the same, one by one, make the same map.
LEMMA SameSteps ==
  ASSUME NEW kind, NEW other, NEW s, NEW u, NEW n \in Nat,
         \A k \in 1..n : \A m : Step(kind, m, s[k]) = Step(other, m, u[k])
  PROVE  After(kind, s, n) = After(other, u, n)
<1> DEFINE Q == {k \in Nat : k <= n => After(kind, s, k) = After(other, u, k)}
<1>1. 0 \in Q
  BY AfterStep
<1>2. ASSUME NEW k \in Nat, k \in Q, k + 1 <= n
      PROVE  After(kind, s, k + 1) = After(other, u, k + 1)
  <2>1. After(kind, s, k) = After(other, u, k) /\ k + 1 \in 1..n
    BY <1>2
  <2>2. /\ After(kind, s, k + 1) = Step(kind, After(kind, s, k), s[k + 1])
        /\ After(other, u, k + 1) = Step(other, After(other, u, k), u[k + 1])
    BY AfterStep
  <2> QED BY <2>1, <2>2
<1>3. \A k \in Nat : k \in Q => k + 1 \in Q
  BY <1>2
<1>4. Nat \subseteq Q
  <2> HIDE DEF Q
  <2> QED BY <1>1, <1>3, EveryNumber
<1> QED BY <1>4

\* All the lines of a log of files make the map that what was read of it makes.
LEMMA ReadFiles ==
  ASSUME NEW l \in Seq(FileLine), NEW u, u = Read(l)
  PROVE  /\ u \in Seq(FileLine) /\ ReplayFiles(l) = KnownFiles(u)
         /\ DOMAIN u = DOMAIN l /\ \A i \in DOMAIN l : ReadFile(l[i], u[i])
<1>1. PICK n \in Nat : DOMAIN l = 1..n
  OBVIOUS
<1>2. u = [i \in 1..n |-> u[i]] /\ DOMAIN u = 1..n
  BY <1>1 DEF Read
<1>3. \A i \in 1..n : l[i] \in FileLine /\ u[i] = LineKnown(l[i])
  BY <1>1 DEF Read
<1>4. \A i \in 1..n : ReadFile(l[i], u[i])
  BY <1>3, FileRead
<1>5. u \in Seq(FileLine)
  <2>1. u \in [1..n -> FileLine]
    BY <1>2, <1>4 DEF ReadFile
  <2> QED BY <1>1, <2>1, SeqDef
<1>6. \A k \in 1..n : \A m : Step("files", m, l[k]) = Step("known files", m, u[k])
  <2> SUFFICES ASSUME NEW k \in 1..n, NEW m
               PROVE  ApplyFile(m, l[k]) = ApplyKnownFile(m, u[k])
    BY DEF Step
  <2> QED BY <1>4 DEF ApplyKnownFile, ApplyFile, ReadFile
<1>7. After("files", l, n) = After("known files", u, n)
  <2> DEFINE a == "files"
             b == "known files"
  <2>1. \A k \in 1..n : \A m : Step(a, m, l[k]) = Step(b, m, u[k])
    BY <1>6
  <2> HIDE DEF a, b
  <2>2. n \in Nat
    BY <1>1
  <2>3. After(a, l, n) = After(b, u, n)
    BY <2>1, <2>2, SameSteps
  <2> QED BY <2>3 DEF a, b
<1>8. ReplayFiles(l) = After("files", l, n)
  BY <1>1, ReplaysAre
<1>9. KnownFiles(u) = After("known files", u, n)
  BY <1>2, ReplaysAre
<1> QED BY <1>1, <1>2, <1>4, <1>5, <1>7, <1>8, <1>9

\* So do the lines of a log of variants.
LEMMA ReadVariants ==
  ASSUME NEW l \in Seq(VariantLine), NEW u, u = Read(l)
  PROVE  /\ u \in Seq(VariantLine) /\ ReplayVariants(l) = KnownVariants(u)
         /\ DOMAIN u = DOMAIN l /\ \A i \in DOMAIN l : ReadVariant(l[i], u[i])
<1>1. PICK n \in Nat : DOMAIN l = 1..n
  OBVIOUS
<1>2. u = [i \in 1..n |-> u[i]] /\ DOMAIN u = 1..n
  BY <1>1 DEF Read
<1>3. \A i \in 1..n : l[i] \in VariantLine /\ u[i] = LineKnown(l[i])
  BY <1>1 DEF Read
<1>4. \A i \in 1..n : ReadVariant(l[i], u[i])
  BY <1>3, VariantRead
<1>5. u \in Seq(VariantLine)
  <2>1. u \in [1..n -> VariantLine]
    BY <1>2, <1>4 DEF ReadVariant
  <2> QED BY <1>1, <2>1, SeqDef
<1>6. \A k \in 1..n : \A m : Step("variants", m, l[k]) = Step("known variants", m, u[k])
  <2> SUFFICES ASSUME NEW k \in 1..n, NEW m
               PROVE  ApplyVariant(m, l[k]) = ApplyKnownVariant(m, u[k])
    BY DEF Step
  <2> QED BY <1>4 DEF ApplyKnownVariant, ApplyVariant, ReadVariant
<1>7. After("variants", l, n) = After("known variants", u, n)
  <2> DEFINE a == "variants"
             b == "known variants"
  <2>1. \A k \in 1..n : \A m : Step(a, m, l[k]) = Step(b, m, u[k])
    BY <1>6
  <2> HIDE DEF a, b
  <2>2. n \in Nat
    BY <1>1
  <2>3. After(a, l, n) = After(b, u, n)
    BY <2>1, <2>2, SameSteps
  <2> QED BY <2>3 DEF a, b
<1>8. ReplayVariants(l) = After("variants", l, n)
  BY <1>1, ReplaysAre
<1>9. KnownVariants(u) = After("known variants", u, n)
  BY <1>2, ReplaysAre
<1> QED BY <1>1, <1>2, <1>4, <1>5, <1>7, <1>8, <1>9

-----------------------------------------------------------------------------
(* What the catalog and the variants in memory have of the lines.            *)

\* The maps after the first n lines, of those that memory has.
FilesAt(l, n) == After("known files", l, n)
VariantsAt(l, n) == After("known variants", l, n)

\* The catalog in memory, a line at a time.
LEMMA FilesAtStep ==
  ASSUME NEW l, NEW n \in Nat
  PROVE  /\ FilesAt(l, 0) = Nothing
         /\ FilesAt(l, n + 1) = ApplyKnownFile(FilesAt(l, n), l[n + 1])
BY AfterStep DEF FilesAt, Step

\* The variants in memory, a line at a time.
LEMMA VariantsAtStep ==
  ASSUME NEW l, NEW n \in Nat
  PROVE  /\ VariantsAt(l, 0) = Nothing
         /\ VariantsAt(l, n + 1) = ApplyKnownVariant(VariantsAt(l, n), l[n + 1])
BY AfterStep DEF VariantsAt, Step

\* What the lines of files know: a put is of a key and a body.
PutsFit(l) == \A n \in DOMAIN l : l[n].op = "put" => l[n].key \in Key /\ l[n].sum \in Content

\* What the first n lines put and delete.
PutBy(l, n, i) == \E k \in 1..n : l[k].op = "put" /\ l[k].id = i /\ l[k].known
MadeBy(l, n, i, r) ==
    \E k \in 1..n : l[k].op = "put" /\ l[k].id = i /\ l[k].key = r.key /\ l[k].sum = r.sum
DeletedBy(l, n, i) == \E k \in 1..n : l[k].op = "delete" /\ l[k].id = i

\* A map has what the lines have put, as they put it, and deleted only what they delete.
FileFits(l, n, i, r) ==
    /\ r \in Recorded \cup {Absent}
    /\ r # Absent <=> PutBy(l, n, i)
    /\ r # Absent => MadeBy(l, n, i, r) /\ (r.deleted => DeletedBy(l, n, i))
FilesFit(l, n, m) == m \in Files /\ \A i \in ID : FileFits(l, n, i, m[i])

\* Absent is no record, and no ID.
LEMMA AbsentIsOther ==
  /\ Absent \notin Content /\ Absent \notin Key /\ Absent \notin ID
  /\ Absent \notin Recorded /\ Absent \notin Variant
BY MediaFilesAssumption DEF Key

\* One more line keeps what lines before it have put and deleted.
LEMMA MoreLines ==
  ASSUME NEW l, NEW n \in Nat, NEW i, NEW r
  PROVE  /\ PutBy(l, n + 1, i) <=> PutBy(l, n, i) \/
                                  (l[n + 1].op = "put" /\ l[n + 1].id = i /\ l[n + 1].known)
         /\ MadeBy(l, n, i, r) => MadeBy(l, n + 1, i, r)
         /\ DeletedBy(l, n, i) => DeletedBy(l, n + 1, i)
         /\ l[n + 1].op = "put" /\ l[n + 1].id = i /\ l[n + 1].key = r.key /\ l[n + 1].sum = r.sum
              => MadeBy(l, n + 1, i, r)
         /\ l[n + 1].op = "delete" /\ l[n + 1].id = i => DeletedBy(l, n + 1, i)
<1>1. \A k : k \in 1..(n + 1) <=> k \in 1..n \/ k = n + 1
  OBVIOUS
<1> QED BY <1>1 DEF PutBy, MadeBy, DeletedBy

\* A line that is applied to a map that fits makes one that fits.
LEMMA OneFileLine ==
  ASSUME NEW l, NEW n \in Nat, l[n + 1] \in FileLine, NEW m, FilesFit(l, n, m),
         l[n + 1].op = "put" => l[n + 1].key \in Key /\ l[n + 1].sum \in Content,
         l[n + 1].op = "delete" => PutBy(l, n, l[n + 1].id)
  PROVE  FilesFit(l, n + 1, ApplyKnownFile(m, l[n + 1]))
<1> DEFINE e == l[n + 1]
           x == ApplyKnownFile(m, e)
<1>1. e.id \in ID /\ e.op \in {"put", "delete"} /\ e.known \in BOOLEAN
  BY DEF FileLine
<1>2. m \in Files /\ \A i \in ID : FileFits(l, n, i, m[i])
  BY DEF FilesFit
<1>3. CASE ~e.known
  <2>1. x = m
    BY <1>3 DEF ApplyKnownFile
  <2>2. ASSUME NEW i \in ID PROVE FileFits(l, n + 1, i, m[i])
    BY <1>2, <1>3, MoreLines DEF FileFits
  <2> QED BY <1>2, <2>1, <2>2 DEF FilesFit
<1>4. CASE e.known /\ e.op = "put"
  <2> DEFINE r == [key |-> e.key, sum |-> e.sum, deleted |-> FALSE]
  <2>1. x = [m EXCEPT ![e.id] = r]
    BY <1>4 DEF ApplyKnownFile, ApplyFile
  <2>2. r \in Recorded /\ r.key = e.key /\ r.sum = e.sum /\ ~r.deleted
    BY <1>4 DEF Recorded
  <2>3. r # Absent
    BY <2>2, AbsentIsOther
  <2> HIDE DEF r
  <2>4. x \in Files
    BY <1>1, <1>2, <2>1, <2>2 DEF Files
  <2>5. ASSUME NEW i \in ID, i # e.id PROVE FileFits(l, n + 1, i, x[i])
    <3>1. x[i] = m[i]
      BY <1>2, <2>1, <2>5 DEF Files
    <3> QED BY <1>2, <2>5, <3>1, MoreLines DEF FileFits
  <2>6. FileFits(l, n + 1, e.id, x[e.id])
    <3>1. x[e.id] = r
      BY <1>1, <1>2, <2>1 DEF Files
    <3>2. PutBy(l, n + 1, e.id) /\ MadeBy(l, n + 1, e.id, r)
      BY <1>4, <2>2, MoreLines
    <3> HIDE DEF x, e
    <3> QED BY <2>2, <2>3, <3>1, <3>2 DEF FileFits
  <2> HIDE DEF x, e
  <2>7. FilesFit(l, n + 1, x)
    BY <2>4, <2>5, <2>6 DEF FilesFit
  <2> QED BY <2>7 DEF x, e
<1>5. CASE e.known /\ e.op = "delete"
  <2> DEFINE o == m[e.id]
             r == [o EXCEPT !.deleted = TRUE]
  <2>1. x = [m EXCEPT ![e.id] = r]
    BY <1>1, <1>2, <1>5 DEF ApplyKnownFile, ApplyFile, Files
  <2>2. FileFits(l, n, e.id, o) /\ PutBy(l, n, e.id)
    BY <1>1, <1>2, <1>5
  <2>3. o # Absent /\ o \in Recorded /\ MadeBy(l, n, e.id, o)
    BY <2>2 DEF FileFits
  <2>4. r \in Recorded /\ r.key = o.key /\ r.sum = o.sum
    <3> HIDE DEF o
    <3> QED BY <2>3 DEF Recorded
  <2>5. r # Absent
    BY <2>4, AbsentIsOther
  <2>6. MadeBy(l, n, e.id, r)
    BY <2>3, <2>4 DEF MadeBy
  <2> HIDE DEF r, o
  <2>7. x \in Files
    BY <1>1, <1>2, <2>1, <2>4 DEF Files
  <2>8. ASSUME NEW i \in ID, i # e.id PROVE FileFits(l, n + 1, i, x[i])
    <3>1. x[i] = m[i]
      BY <1>2, <2>1, <2>8 DEF Files
    <3> QED BY <1>2, <1>5, <2>8, <3>1, MoreLines DEF FileFits
  <2>9. FileFits(l, n + 1, e.id, x[e.id])
    <3>1. x[e.id] = r
      BY <1>1, <1>2, <2>1 DEF Files
    <3>2. PutBy(l, n + 1, e.id) /\ MadeBy(l, n + 1, e.id, r) /\ DeletedBy(l, n + 1, e.id)
      BY <1>5, <2>2, <2>6, MoreLines
    <3> HIDE DEF x, e
    <3> QED BY <2>4, <2>5, <3>1, <3>2 DEF FileFits
  <2> HIDE DEF x, e
  <2>10. FilesFit(l, n + 1, x)
    BY <2>7, <2>8, <2>9 DEF FilesFit
  <2> QED BY <2>10 DEF x, e
<1> QED BY <1>1, <1>3, <1>4, <1>5

\* The catalog in memory fits the lines it was made from.
LEMMA FilesFitLines ==
  ASSUME NEW l \in Seq(FileLine), DeletesFollow(l), PutsFit(l), NEW n \in Nat, DOMAIN l = 1..n
  PROVE  FilesFit(l, n, KnownFiles(l))
<1> DEFINE Q == {k \in Nat : k <= n => FilesFit(l, k, FilesAt(l, k))}
<1>1. FilesFit(l, 0, FilesAt(l, 0))
  <2>1. FilesAt(l, 0) = [i \in ID |-> Absent]
    BY FilesAtStep DEF Nothing
  <2>2. \A i : ~PutBy(l, 0, i)
    BY DEF PutBy
  <2> QED BY <2>1, <2>2 DEF FilesFit, FileFits, Files
<1>2. ASSUME NEW k \in Nat, k + 1 <= n, FilesFit(l, k, FilesAt(l, k))
      PROVE  FilesFit(l, k + 1, FilesAt(l, k + 1))
  <2>1. k + 1 \in DOMAIN l /\ (k + 1) - 1 = k
    BY <1>2
  <2>2. l[k + 1] \in FileLine
    BY <2>1
  <2>3. l[k + 1].op = "put" => l[k + 1].key \in Key /\ l[k + 1].sum \in Content
    BY <2>1 DEF PutsFit
  <2>4. l[k + 1].op = "delete" => PutBy(l, k, l[k + 1].id)
    BY <2>1 DEF DeletesFollow, PutBy
  <2> DEFINE m == FilesAt(l, k)
  <2>5. FilesAt(l, k + 1) = ApplyKnownFile(m, l[k + 1])
    BY FilesAtStep
  <2> HIDE DEF m
  <2>6. FilesFit(l, k, m)
    BY <1>2 DEF m
  <2> QED BY <2>2, <2>3, <2>4, <2>5, <2>6, OneFileLine
<1> HIDE DEF Q
<1>3. 0 \in Q
  BY <1>1 DEF Q
<1>4. \A k \in Nat : k \in Q => k + 1 \in Q
  BY <1>2 DEF Q
<1>5. Nat \subseteq Q
  BY <1>3, <1>4, EveryNumber
<1>6. FilesFit(l, n, FilesAt(l, n))
  BY <1>5 DEF Q
<1>7. KnownFiles(l) = FilesAt(l, n)
  BY ReplaysAre DEF FilesAt
<1> QED BY <1>6, <1>7

\* A variant in a map is one that a line has.
VariantsFit(l, n, m) ==
    /\ m \in Variants
    /\ \A i \in ID : m[i] # Absent => \E k \in 1..n : l[k].variant = m[i]

\* The variants in memory fit the lines they were made from.
LEMMA VariantsFitLines ==
  ASSUME NEW l \in Seq(VariantLine), NEW n \in Nat, DOMAIN l = 1..n
  PROVE  VariantsFit(l, n, KnownVariants(l))
<1> DEFINE Q == {k \in Nat : k <= n => VariantsFit(l, k, VariantsAt(l, k))}
<1>1. VariantsFit(l, 0, VariantsAt(l, 0))
  <2>1. VariantsAt(l, 0) = [i \in ID |-> Absent]
    BY VariantsAtStep DEF Nothing
  <2> QED BY <2>1 DEF VariantsFit, Variants
<1>2. ASSUME NEW k \in Nat, k + 1 <= n, VariantsFit(l, k, VariantsAt(l, k))
      PROVE  VariantsFit(l, k + 1, VariantsAt(l, k + 1))
  <2> DEFINE m == VariantsAt(l, k)
             e == l[k + 1]
             x == VariantsAt(l, k + 1)
  <2>1. k + 1 \in DOMAIN l
    BY <1>2
  <2>2. e \in VariantLine
    BY <2>1
  <2>3. e.source \in ID /\ e.variant \in Variant \cup {Absent} /\ e.known \in BOOLEAN
    BY <2>2 DEF VariantLine
  <2>4. x = ApplyKnownVariant(m, e)
    BY VariantsAtStep
  <2>5. m \in Variants /\ \A i \in ID : m[i] # Absent => \E j \in 1..k : l[j].variant = m[i]
    BY <1>2 DEF VariantsFit
  <2> HIDE DEF m, x
  <2>6. x = m \/ x = [m EXCEPT ![e.source] = e.variant]
    BY <2>3, <2>4 DEF ApplyKnownVariant, ApplyVariant
  <2>7. x \in Variants /\ \A i \in ID : x[i] \in {m[i], e.variant}
    BY <2>3, <2>5, <2>6 DEF Variants
  <2>8. \A j \in 1..k : j \in 1..(k + 1)
    OBVIOUS
  <2>9. k + 1 \in 1..(k + 1)
    OBVIOUS
  <2>10. VariantsFit(l, k + 1, x)
    BY <2>5, <2>7, <2>8, <2>9 DEF VariantsFit
  <2> QED BY <2>10 DEF x
<1> HIDE DEF Q
<1>3. 0 \in Q
  BY <1>1 DEF Q
<1>4. \A k \in Nat : k \in Q => k + 1 \in Q
  BY <1>2 DEF Q
<1>5. Nat \subseteq Q
  BY <1>3, <1>4, EveryNumber
<1>6. VariantsFit(l, n, VariantsAt(l, n))
  BY <1>5 DEF Q
<1>7. KnownVariants(l) = VariantsAt(l, n)
  BY ReplaysAre DEF VariantsAt
<1> QED BY <1>6, <1>7

-----------------------------------------------------------------------------
(* The parts of the inductive invariant, of the state before a step or after it. *)

\* What the two logs may be.
FileLog == [lines : Seq(FileLine), torn : BOOLEAN]
MediaLog == [lines : Seq(VariantLine), torn : BOOLEAN]

\* Holds, of what the storage has.
HeldIn(objs, over, k, sum) ==
    /\ k \in Key /\ sum \in Content
    /\ objs[k] = sum \/ (objs[k] # Absent /\ k \in over)
KeepsHeld(objs, over, objs2, over2) ==
    \A k, sum : HeldIn(objs, over, k, sum) => HeldIn(objs2, over2, k, sum)

\* Put, of the lines of the catalog.
PutIn(l, i) == \E n \in DOMAIN l : l[n].op = "put" /\ l[n].id = i /\ l[n].known
KeepsPut(l, l2) == \A i : PutIn(l, i) => PutIn(l2, i)

\* What a line of each log promises.
LineTrue(e, objs, over) == e.op = "put" => HeldIn(objs, over, e.key, e.sum)
VariantTrue(e, l) ==
    e.variant # Absent /\ e.variant.status = "ready" =>
        e.variant.output \in ID /\ PutIn(l, e.variant.output)

\* LinesAreTrue and OutputsAreThere, of two logs.
AllTrue(l, objs, over) == \A n \in DOMAIN l : LineTrue(l[n], objs, over)
OutputsIn(ml, l) == \A n \in DOMAIN ml : VariantTrue(ml[n], l)
GoodFiles(fl, objs, over) ==
    fl \in FileLog /\ AllTrue(fl.lines, objs, over) /\ DeletesFollow(fl.lines)
GoodMedia(ml, l) == ml \in MediaLog /\ OutputsIn(ml.lines, l)
GoodRecorded(rec, l) == \A i \in rec : PutIn(l, i)

\* FreshIDs, with the types of what the storage has.
GoodStorage(objs, over, n) ==
    /\ objs \in [Key -> Content \cup {Absent}] /\ over \subseteq Named /\ n \in 0..MaxFiles
    /\ \A i \in ID : i > n => objs[i] = Absent

\* JobFits, of one job.
Fits(j, objs, over, l, n) ==
    /\ j.pc \in {"write", "record"} =>
          /\ j.id \in 1..n /\ j.key \in Key /\ j.sum \in Content
          /\ j.key \in ID => j.key = j.id
    /\ j.pc = "write" /\ j.key \in ID => objs[j.key] = Absent
    /\ j.pc = "record" => HeldIn(objs, over, j.key, j.sum)
    /\ j.pc = "process" => j.sum \in Content
    /\ j.pc \in {"open", "process", "save", "saveFailed", "deleteVariant"} => j.source \in ID
    /\ j.pc \in {"save", "delete"} => j.id \in ID /\ PutIn(l, j.id)
AllFit(jobs, objs, over, l, n) == \A c \in Caller : Fits(jobs[c], objs, over, l, n)

\* Nobody else writes under the same ID; the jobs of all callers.
OwnWrites(jobs) ==
    \A c, d \in Caller :
        jobs[c].pc = "write" /\ jobs[d].pc = "write" /\ jobs[c].id = jobs[d].id => c = d
GoodJobs(jobs, objs, over, l, n) ==
    jobs \in [Caller -> Job] /\ AllFit(jobs, objs, over, l, n) /\ OwnWrites(jobs)

\* MemoryIsKnown, and the bounds.
GoodMemory(u, f, v, jobs, l, ml) ==
    IF u THEN f = KnownFiles(l) /\ v = KnownVariants(ml)
    ELSE f = Nothing /\ v = Nothing /\ \A c \in Caller : jobs[c] = Idle
GoodBounds(u, l, ml, f, c) ==
    u \in BOOLEAN /\ Len(l) + Len(ml) <= MaxLines + 1 /\ f \in 0..MaxFaults /\ c \in 0..MaxCrashes

\* The invariant is its parts.
LEMMA PartsBefore ==
  ASSUME IndInv
  PROVE  /\ GoodFiles(filesLog, objects, overwritten) /\ GoodMedia(mediaLog, filesLog.lines)
         /\ GoodRecorded(recorded, filesLog.lines) /\ GoodStorage(objects, overwritten, made)
         /\ GoodJobs(job, objects, overwritten, filesLog.lines, made)
         /\ GoodMemory(up, files, variants, job, filesLog.lines, mediaLog.lines)
         /\ GoodBounds(up, filesLog.lines, mediaLog.lines, faults, crashes)
<1>1. TypeOK /\ LogsHaveLines /\ LinesAreTrue /\ OutputsAreThere /\ MemoryIsKnown /\ FreshIDs
      /\ \A c \in Caller : JobFits(c)
  BY DEF IndInv
<1>2. \A i : Put(i) <=> PutIn(filesLog.lines, i)
  BY Zenon DEF Put, PutIn
<1>3. \A k, sum : Holds(k, sum) <=> HeldIn(objects, overwritten, k, sum)
  BY Zenon DEF Holds, HeldIn
<1>4. GoodFiles(filesLog, objects, overwritten)
  BY <1>1, <1>3 DEF GoodFiles, LogsHaveLines, LinesAreTrue, FileLog, AllTrue, LineTrue
<1>5. GoodMedia(mediaLog, filesLog.lines)
  BY <1>1, <1>2 DEF GoodMedia, LogsHaveLines, OutputsAreThere, MediaLog, OutputsIn, VariantTrue
<1>6. GoodRecorded(recorded, filesLog.lines)
  BY <1>1, <1>2 DEF GoodRecorded, LinesAreTrue
<1>7. GoodStorage(objects, overwritten, made)
  BY <1>1 DEF GoodStorage, TypeOK, FreshIDs
<1>8. GoodJobs(job, objects, overwritten, filesLog.lines, made)
  <2>1. \A c \in Caller : Fits(job[c], objects, overwritten, filesLog.lines, made)
    BY <1>1, <1>2, <1>3 DEF JobFits, Fits
  <2> QED BY <1>1, <2>1 DEF GoodJobs, AllFit, OwnWrites, TypeOK, FreshIDs
<1>9. GoodMemory(up, files, variants, job, filesLog.lines, mediaLog.lines)
  BY <1>1 DEF GoodMemory, MemoryIsKnown
<1>10. GoodBounds(up, filesLog.lines, mediaLog.lines, faults, crashes)
  BY <1>1 DEF GoodBounds, TypeOK
<1> QED BY <1>4, <1>5, <1>6, <1>7, <1>8, <1>9, <1>10

\* Lines that hold let the maps be typed.
LEMMA MapsOf ==
  ASSUME NEW fl, NEW objs, NEW over, GoodFiles(fl, objs, over), NEW ml, GoodMedia(ml, fl.lines)
  PROVE  /\ KnownFiles(fl.lines) \in Files /\ KnownVariants(ml.lines) \in Variants
         /\ \A i \in ID : LET r == KnownFiles(fl.lines)[i] IN
               /\ r # Absent <=> PutIn(fl.lines, i)
               /\ r # Absent => HeldIn(objs, over, r.key, r.sum) /\ r \in Recorded
               /\ r # Absent /\ r.deleted =>
                     \E n \in DOMAIN fl.lines : fl.lines[n].op = "delete" /\ fl.lines[n].id = i
         /\ \A i \in ID : LET v == KnownVariants(ml.lines)[i] IN
               v # Absent /\ v.status = "ready" => v.output \in ID /\ PutIn(fl.lines, v.output)
<1> DEFINE l == fl.lines
           vl == ml.lines
           f == KnownFiles(l)
           v == KnownVariants(vl)
<1>1. l \in Seq(FileLine) /\ AllTrue(l, objs, over) /\ DeletesFollow(l)
  BY DEF GoodFiles, FileLog
<1>2. vl \in Seq(VariantLine) /\ OutputsIn(vl, l)
  BY DEF GoodMedia, MediaLog
<1> HIDE DEF l, vl
<1>3. PutsFit(l)
  BY <1>1 DEF PutsFit, AllTrue, LineTrue, HeldIn
<1>4. PICK n \in Nat : DOMAIN l = 1..n
  BY <1>1
<1>5. PICK k \in Nat : DOMAIN vl = 1..k
  BY <1>2
<1>6. FilesFit(l, n, f)
  BY <1>1, <1>3, <1>4, FilesFitLines
<1>7. VariantsFit(vl, k, v)
  BY <1>2, <1>5, VariantsFitLines
<1> HIDE DEF f, v
<1>8. ASSUME NEW i \in ID
      PROVE  /\ f[i] # Absent <=> PutIn(l, i)
             /\ f[i] # Absent => HeldIn(objs, over, f[i].key, f[i].sum) /\ f[i] \in Recorded
             /\ f[i] # Absent /\ f[i].deleted =>
                   \E m \in DOMAIN l : l[m].op = "delete" /\ l[m].id = i
  <2> DEFINE r == f[i]
  <2>1. FileFits(l, n, i, r)
    BY <1>6 DEF FilesFit
  <2> HIDE DEF r
  <2>2. PutBy(l, n, i) <=> PutIn(l, i)
    BY <1>4 DEF PutBy, PutIn
  <2>3. MadeBy(l, n, i, r) => HeldIn(objs, over, r.key, r.sum)
    BY <1>1, <1>4 DEF MadeBy, AllTrue, LineTrue
  <2>4. DeletedBy(l, n, i) => \E m \in DOMAIN l : l[m].op = "delete" /\ l[m].id = i
    BY <1>4 DEF DeletedBy
  <2>5. /\ r # Absent <=> PutIn(l, i)
        /\ r # Absent => HeldIn(objs, over, r.key, r.sum) /\ r \in Recorded
        /\ r # Absent /\ r.deleted => \E m \in DOMAIN l : l[m].op = "delete" /\ l[m].id = i
    BY <2>1, <2>2, <2>3, <2>4 DEF FileFits
  <2> QED BY <2>5 DEF r
<1>9. ASSUME NEW i \in ID, v[i] # Absent, v[i].status = "ready"
      PROVE  v[i].output \in ID /\ PutIn(l, v[i].output)
  <2>1. PICK m \in 1..k : vl[m].variant = v[i]
    BY <1>7, <1>9 DEF VariantsFit
  <2>2. VariantTrue(vl[m], l)
    BY <1>2, <1>5, <2>1 DEF OutputsIn
  <2> QED BY <1>9, <2>1, <2>2 DEF VariantTrue
<1>10. f \in Files /\ v \in Variants
  BY <1>6, <1>7 DEF FilesFit, VariantsFit
<1> QED BY <1>8, <1>9, <1>10 DEF f, v, l, vl

\* The parts make the invariant of the state after the step.
LEMMA PartsAfter ==
  ASSUME GoodFiles(filesLog', objects', overwritten'), GoodMedia(mediaLog', filesLog'.lines),
         GoodRecorded(recorded', filesLog'.lines), GoodStorage(objects', overwritten', made'),
         GoodJobs(job', objects', overwritten', filesLog'.lines, made'),
         GoodMemory(up', files', variants', job', filesLog'.lines, mediaLog'.lines),
         GoodBounds(up', filesLog'.lines, mediaLog'.lines, faults', crashes')
  PROVE  IndInv'
<1>1. LogsHaveLines'
  BY DEF GoodFiles, GoodMedia, FileLog, MediaLog, LogsHaveLines
<1>2. \A i : Put(i)' <=> PutIn(filesLog'.lines, i)
  BY Zenon DEF Put, PutIn
<1>3. \A k, sum : Holds(k, sum)' <=> HeldIn(objects', overwritten', k, sum)
  BY Zenon DEF Holds, HeldIn
<1>4. LinesAreTrue'
  <2>1. (\A n \in DOMAIN filesLog.lines :
          filesLog.lines[n].op = "put" => Holds(filesLog.lines[n].key, filesLog.lines[n].sum))'
    BY DEF GoodFiles, AllTrue, LineTrue, HeldIn, Holds
  <2>2. DeletesFollow(filesLog.lines)'
    BY DEF GoodFiles
  <2>3. (\A i \in recorded : Put(i))'
    BY <1>2 DEF GoodRecorded
  <2> QED BY <2>1, <2>2, <2>3 DEF LinesAreTrue
<1>5. OutputsAreThere'
  BY DEF GoodMedia, OutputsIn, VariantTrue, OutputsAreThere, Put, PutIn
<1>6. MemoryIsKnown'
  BY DEF GoodMemory, MemoryIsKnown
<1>7. FreshIDs'
  BY DEF GoodStorage, GoodJobs, OwnWrites, FreshIDs
<1>8. \A c \in Caller : JobFits(c)'
  <2> SUFFICES ASSUME NEW c \in Caller PROVE JobFits(c)'
    OBVIOUS
  <2>1. Fits(job'[c], objects', overwritten', filesLog'.lines, made')
    BY DEF GoodJobs, AllFit
  <2> QED BY <2>1 DEF JobFits, Fits, Holds, HeldIn, Put, PutIn
<1>9. TypeOK'
  <2>1. files' \in Files /\ variants' \in Variants
    <3>1. CASE up'
      BY <3>1, MapsOf DEF GoodMemory
    <3>2. CASE ~up'
      BY <3>2 DEF GoodMemory, Nothing, Files, Variants
    <3> QED BY <3>1, <3>2
  <2>2. recorded' \subseteq ID
    <3> DEFINE l == filesLog'.lines
    <3>1. l \in Seq(FileLine) /\ \A i \in recorded' : PutIn(l, i)
      BY DEF GoodFiles, FileLog, GoodRecorded
    <3> HIDE DEF l
    <3>2. \A n \in DOMAIN l : l[n].id \in ID
      <4>1. \A n \in DOMAIN l : l[n] \in FileLine
        BY <3>1
      <4> QED BY <4>1 DEF FileLine
    <3> QED BY <3>1, <3>2 DEF PutIn
  <2>3. filesLog'.torn \in BOOLEAN /\ mediaLog'.torn \in BOOLEAN
    BY DEF GoodFiles, GoodMedia, FileLog, MediaLog
  <2> QED BY <2>1, <2>2, <2>3
          DEF TypeOK, Files, Variants, GoodStorage, GoodJobs, GoodBounds
<1>10. (\A c \in Caller : JobFits(c))'
  BY <1>8
<1> QED BY <1>1, <1>4, <1>5, <1>6, <1>7, <1>9, <1>10 DEF IndInv

-----------------------------------------------------------------------------
(* What one more line keeps.                                                 *)

\* A log with one more line.
LEMMA OneLonger ==
  ASSUME NEW A, NEW l \in Seq(A), NEW e \in A, NEW u, u = Append(l, e)
  PROVE  /\ u \in Seq(A) /\ Len(u) = Len(l) + 1
         /\ \A n : n \in DOMAIN u <=> n \in DOMAIN l \/ n = Len(l) + 1
         /\ \A n \in DOMAIN l : u[n] = l[n]
         /\ u[Len(l) + 1] = e
         /\ Len(l) \in Nat /\ DOMAIN l = 1..Len(l)
OBVIOUS

\* A line that tells the truth, and is not the deletion of what was not put.
LineFits(e, l, objs, over) ==
    /\ e \in FileLine /\ LineTrue(e, objs, over)
    /\ e.op = "delete" => PutIn(l, e.id)

\* The log of the catalog stays good with such a line.
LEMMA FilesGrow ==
  ASSUME NEW l \in Seq(FileLine), NEW objs, NEW over, AllTrue(l, objs, over), DeletesFollow(l),
         NEW e, LineFits(e, l, objs, over), NEW u, u = Append(l, e)
  PROVE  /\ u \in Seq(FileLine) /\ AllTrue(u, objs, over) /\ DeletesFollow(u)
         /\ KeepsPut(l, u)
<1>1. /\ u \in Seq(FileLine) /\ Len(u) = Len(l) + 1
      /\ \A n : n \in DOMAIN u <=> n \in DOMAIN l \/ n = Len(l) + 1
      /\ \A n \in DOMAIN l : u[n] = l[n]
      /\ u[Len(l) + 1] = e
      /\ Len(l) \in Nat /\ DOMAIN l = 1..Len(l)
  BY OneLonger DEF LineFits
<1>2. AllTrue(u, objs, over)
  BY <1>1 DEF AllTrue, LineFits
<1>3. KeepsPut(l, u)
  BY <1>1 DEF KeepsPut, PutIn
<1>4. DeletesFollow(u)
  <2> SUFFICES ASSUME NEW n \in DOMAIN u, u[n].op = "delete"
               PROVE  \E m \in 1..(n - 1) : u[m].op = "put" /\ u[m].id = u[n].id /\ u[m].known
    BY DEF DeletesFollow
  <2>1. CASE n \in DOMAIN l
    <3>1. PICK m \in 1..(n - 1) : l[m].op = "put" /\ l[m].id = l[n].id /\ l[m].known
      BY <1>1, <2>1 DEF DeletesFollow
    <3>2. m \in DOMAIN l
      BY <1>1, <2>1
    <3> QED BY <1>1, <2>1, <3>1, <3>2
  <2>2. CASE n = Len(l) + 1
    <3>1. PICK m \in DOMAIN l : l[m].op = "put" /\ l[m].id = e.id /\ l[m].known
      BY <1>1, <2>2 DEF LineFits, PutIn
    <3>2. m \in 1..(n - 1)
      BY <1>1, <2>2
    <3> QED BY <1>1, <2>2, <3>1, <3>2
  <2> QED BY <1>1, <2>1, <2>2
<1> QED BY <1>1, <1>2, <1>3, <1>4

\* A put that memory has is in the log from then on.
LEMMA PutIsThere ==
  ASSUME NEW l \in Seq(FileLine), NEW e \in FileLine, e.op = "put", e.known = TRUE
  PROVE  PutIn(Append(l, e), e.id)
<1> DEFINE u == Append(l, e)
<1>1. Len(l) + 1 \in DOMAIN u /\ u[Len(l) + 1] = e
  BY OneLonger
<1> HIDE DEF u
<1>2. PutIn(u, e.id)
  BY <1>1 DEF PutIn
<1> QED BY <1>2 DEF u

\* The log of variants stays good with a variant whose output is in the catalog.
LEMMA MediaGrows ==
  ASSUME NEW l \in Seq(VariantLine), NEW fl, OutputsIn(l, fl),
         NEW e \in VariantLine, VariantTrue(e, fl), NEW u, u = Append(l, e)
  PROVE  u \in Seq(VariantLine) /\ OutputsIn(u, fl)
<1>1. /\ u \in Seq(VariantLine)
      /\ \A n : n \in DOMAIN u <=> n \in DOMAIN l \/ n = Len(l) + 1
      /\ \A n \in DOMAIN l : u[n] = l[n]
      /\ u[Len(l) + 1] = e
  BY OneLonger
<1> QED BY <1>1 DEF OutputsIn

\* What the storage and the catalog keep, the lines that were true keep being.
LEMMA OutputsStay ==
  ASSUME NEW ml, NEW l, NEW l2, OutputsIn(ml, l), KeepsPut(l, l2)
  PROVE  OutputsIn(ml, l2)
BY DEF OutputsIn, VariantTrue, KeepsPut

\* So do the files that callers were told of.
LEMMA RecordedStays ==
  ASSUME NEW rec, NEW l, NEW l2, GoodRecorded(rec, l), KeepsPut(l, l2)
  PROVE  GoodRecorded(rec, l2)
BY DEF GoodRecorded, KeepsPut

\* The lines of the catalog, while the storage keeps what it holds.
LEMMA LinesStayTrue ==
  ASSUME NEW l, NEW objs, NEW over, NEW objs2, NEW over2, AllTrue(l, objs, over),
         KeepsHeld(objs, over, objs2, over2)
  PROVE  AllTrue(l, objs2, over2)
BY DEF AllTrue, LineTrue, KeepsHeld

\* A log keeps its lines, and may be cut short or have one more.
LEMMA ExtendedLog ==
  ASSUME NEW A, NEW log \in [lines : Seq(A), torn : BOOLEAN], NEW e \in A
  PROVE  /\ Extended(log, e) \in [lines : Seq(A), torn : BOOLEAN]
         /\ Extended(log, e).lines = Append(log.lines, e)
         /\ Torn(log) \in [lines : Seq(A), torn : BOOLEAN] /\ Torn(log).lines = log.lines
<1> DEFINE u == Append(log.lines, e)
<1>1. u \in Seq(A)
  OBVIOUS
<1>2. Extended(log, e) = [log EXCEPT !.lines = u] /\ Torn(log) = [log EXCEPT !.torn = TRUE]
  BY DEF Extended, Torn
<1> HIDE DEF u
<1>3. /\ Extended(log, e) \in [lines : Seq(A), torn : BOOLEAN] /\ Extended(log, e).lines = u
      /\ Torn(log) \in [lines : Seq(A), torn : BOOLEAN] /\ Torn(log).lines = log.lines
  BY <1>1, <1>2
<1> QED BY <1>3 DEF u

\* The log of the catalog after an append that left a part of a line, or a whole one.
LEMMA ExtendedFiles ==
  ASSUME NEW log \in FileLog, NEW e \in FileLine
  PROVE  /\ Extended(log, e) \in FileLog /\ Extended(log, e).lines = Append(log.lines, e)
         /\ Torn(log) \in FileLog /\ Torn(log).lines = log.lines
<1> DEFINE A == FileLine
<1>1. log \in [lines : Seq(A), torn : BOOLEAN] /\ e \in A
  BY DEF FileLog
<1> HIDE DEF A
<1>2. /\ Extended(log, e) \in [lines : Seq(A), torn : BOOLEAN]
      /\ Extended(log, e).lines = Append(log.lines, e)
      /\ Torn(log) \in [lines : Seq(A), torn : BOOLEAN] /\ Torn(log).lines = log.lines
  BY <1>1, ExtendedLog
<1> QED BY <1>2 DEF FileLog, A

\* The same for the log of variants.
LEMMA ExtendedMedia ==
  ASSUME NEW log \in MediaLog, NEW e \in VariantLine
  PROVE  /\ Extended(log, e) \in MediaLog /\ Extended(log, e).lines = Append(log.lines, e)
         /\ Torn(log) \in MediaLog /\ Torn(log).lines = log.lines
BY ExtendedLog DEF MediaLog

\* A line that memory does not have.
Unknown(e) == e.known = FALSE

\* An append to the catalog that fails, or does not.
LEMMA CutFiles ==
  ASSUME NEW fl, NEW objs, NEW over, GoodFiles(fl, objs, over),
         NEW e, LineFits(e, fl.lines, objs, over), NEW fl2, fl2 \in Cut(fl, e)
  PROVE  /\ GoodFiles(fl2, objs, over) /\ KeepsPut(fl.lines, fl2.lines)
         /\ Len(fl2.lines) <= Len(fl.lines) + 1
         /\ Unknown(e) => KnownFiles(fl2.lines) = KnownFiles(fl.lines)
<1> DEFINE l == fl.lines
           u == Append(l, e)
<1>1. fl \in FileLog /\ AllTrue(l, objs, over) /\ DeletesFollow(l) /\ e \in FileLine
  BY DEF GoodFiles, LineFits
<1>2. l \in Seq(FileLine)
  BY <1>1 DEF FileLog
<1>3. /\ Extended(fl, e) \in FileLog /\ Extended(fl, e).lines = u
      /\ Torn(fl) \in FileLog /\ Torn(fl).lines = l
  BY <1>1, ExtendedFiles
<1>4. fl2 \in FileLog /\ fl2.lines \in {l, u}
  BY <1>1, <1>3 DEF Cut
<1>5. /\ u \in Seq(FileLine) /\ AllTrue(u, objs, over) /\ DeletesFollow(u) /\ KeepsPut(l, u)
  BY <1>1, <1>2, FilesGrow
<1>6. KeepsPut(l, l)
  BY DEF KeepsPut
<1>7. Len(u) = Len(l) + 1 /\ Len(l) \in Nat
  BY <1>1, <1>2, OneLonger
<1>8. Unknown(e) => KnownFiles(u) = KnownFiles(l)
  <2>1. KnownFiles(u) = ApplyKnownFile(KnownFiles(l), e)
    BY <1>1, <1>2, OneMore
  <2> QED BY <2>1 DEF ApplyKnownFile, Unknown
<1> HIDE DEF l, u
<1>9. GoodFiles(fl2, objs, over)
  BY <1>1, <1>4, <1>5 DEF GoodFiles
<1>10. KeepsPut(l, fl2.lines) /\ Len(fl2.lines) <= Len(l) + 1
       /\ (Unknown(e) => KnownFiles(fl2.lines) = KnownFiles(l))
  BY <1>4, <1>5, <1>6, <1>7, <1>8
<1> QED BY <1>9, <1>10 DEF l

\* An append to the log of variants that fails, or does not.
LEMMA CutMedia ==
  ASSUME NEW ml, NEW l, GoodMedia(ml, l), NEW e \in VariantLine, VariantTrue(e, l),
         NEW ml2, ml2 \in Cut(ml, e)
  PROVE  /\ GoodMedia(ml2, l) /\ Len(ml2.lines) <= Len(ml.lines) + 1
         /\ Unknown(e) => KnownVariants(ml2.lines) = KnownVariants(ml.lines)
<1> DEFINE vl == ml.lines
           u == Append(vl, e)
<1>1. ml \in MediaLog /\ OutputsIn(vl, l)
  BY DEF GoodMedia
<1>2. vl \in Seq(VariantLine)
  BY <1>1 DEF MediaLog
<1>3. /\ Extended(ml, e) \in MediaLog /\ Extended(ml, e).lines = u
      /\ Torn(ml) \in MediaLog /\ Torn(ml).lines = vl
  BY <1>1, ExtendedMedia
<1>4. ml2 \in MediaLog /\ ml2.lines \in {vl, u}
  BY <1>1, <1>3 DEF Cut
<1>5. u \in Seq(VariantLine) /\ OutputsIn(u, l)
  BY <1>1, <1>2, MediaGrows
<1>6. Len(u) = Len(vl) + 1 /\ Len(vl) \in Nat
  BY <1>2, OneLonger
<1>7. Unknown(e) => KnownVariants(u) = KnownVariants(vl)
  <2>1. KnownVariants(u) = ApplyKnownVariant(KnownVariants(vl), e)
    BY <1>2, OneMore
  <2> QED BY <2>1 DEF ApplyKnownVariant, Unknown
<1> HIDE DEF vl, u
<1>8. GoodMedia(ml2, l)
  BY <1>1, <1>4, <1>5 DEF GoodMedia
<1>9. /\ Len(ml2.lines) <= Len(vl) + 1
      /\ Unknown(e) => KnownVariants(ml2.lines) = KnownVariants(vl)
  BY <1>4, <1>6, <1>7
<1> QED BY <1>8, <1>9 DEF vl

\* An append that succeeds does to memory what it will do when it is replayed.
LEMMA AppendsFileLine ==
  ASSUME NEW fl, NEW objs, NEW over, GoodFiles(fl, objs, over),
         NEW e, LineFits(e, fl.lines, objs, over), NEW fl2, fl2 = Appends(fl, e)
  PROVE  /\ GoodFiles(fl2, objs, over) /\ KeepsPut(fl.lines, fl2.lines)
         /\ Len(fl2.lines) = Len(fl.lines) + 1 /\ Len(fl.lines) \in Nat
         /\ KnownFiles(fl2.lines) = ApplyFile(KnownFiles(fl.lines), e)
         /\ e.op = "put" => PutIn(fl2.lines, e.id)
<1> DEFINE r == LineKnown(e)
           l == fl.lines
           u == fl2.lines
<1>1. e \in FileLine /\ fl \in FileLog
  BY DEF LineFits, GoodFiles
<1>2. ReadFile(e, r)
  BY <1>1, FileRead
<1>3. fl2 = Extended(fl, r)
  BY DEF Appends, LineKnown
<1> HIDE DEF r
<1>4. r \in FileLine /\ r.known = TRUE /\ r.op = e.op /\ r.id = e.id /\ r.key = e.key
      /\ r.sum = e.sum
  BY <1>2 DEF ReadFile
<1>5. LineFits(r, l, objs, over)
  BY <1>4 DEF LineFits, LineTrue
<1>6. fl2 \in FileLog /\ u = Append(l, r) /\ l \in Seq(FileLine)
  <2>1. Extended(fl, r) \in FileLog /\ Extended(fl, r).lines = Append(fl.lines, r)
    BY <1>1, <1>4, ExtendedFiles
  <2>2. l \in Seq(FileLine)
    BY <1>1 DEF FileLog
  <2> QED BY <1>3, <2>1, <2>2
<1>7. AllTrue(l, objs, over) /\ DeletesFollow(l)
  BY DEF GoodFiles
<1> HIDE DEF l, u
<1>8. u \in Seq(FileLine) /\ AllTrue(u, objs, over) /\ DeletesFollow(u) /\ KeepsPut(l, u)
  BY <1>5, <1>6, <1>7, FilesGrow
<1>9. Len(u) = Len(l) + 1 /\ Len(l) \in Nat
  BY <1>4, <1>6, OneLonger
<1>10. KnownFiles(u) = ApplyFile(KnownFiles(l), e)
  <2>1. KnownFiles(u) = ApplyKnownFile(KnownFiles(l), r)
    BY <1>4, <1>6, OneMore
  <2> QED BY <1>4, <2>1 DEF ApplyKnownFile, ApplyFile
<1>11. e.op = "put" => PutIn(u, e.id)
  <2>1. r.op = "put" => PutIn(u, r.id)
    BY <1>4, <1>6, PutIsThere
  <2> QED BY <1>4, <2>1
<1>12. GoodFiles(fl2, objs, over)
  BY <1>6, <1>8 DEF GoodFiles, u
<1> QED BY <1>8, <1>9, <1>10, <1>11, <1>12 DEF l, u

\* The same for the log of variants.
LEMMA AppendsVariantLine ==
  ASSUME NEW ml, NEW l, GoodMedia(ml, l), NEW e \in VariantLine, VariantTrue(e, l),
         NEW ml2, ml2 = Appends(ml, e)
  PROVE  /\ GoodMedia(ml2, l) /\ Len(ml2.lines) = Len(ml.lines) + 1 /\ Len(ml.lines) \in Nat
         /\ KnownVariants(ml2.lines) = ApplyVariant(KnownVariants(ml.lines), e)
<1> DEFINE r == LineKnown(e)
           vl == ml.lines
           u == ml2.lines
<1>1. ml \in MediaLog /\ OutputsIn(vl, l)
  BY DEF GoodMedia
<1>2. ReadVariant(e, r)
  BY VariantRead
<1>3. ml2 = Extended(ml, r)
  BY DEF Appends, LineKnown
<1> HIDE DEF r
<1>4. r \in VariantLine /\ r.known = TRUE /\ r.source = e.source /\ r.variant = e.variant
  BY <1>2 DEF ReadVariant
<1>5. VariantTrue(r, l)
  BY <1>4 DEF VariantTrue
<1>6. ml2 \in MediaLog /\ u = Append(vl, r) /\ vl \in Seq(VariantLine)
  <2>1. Extended(ml, r) \in MediaLog /\ Extended(ml, r).lines = Append(ml.lines, r)
    BY <1>1, <1>4, ExtendedMedia
  <2>2. vl \in Seq(VariantLine)
    BY <1>1 DEF MediaLog
  <2> QED BY <1>3, <2>1, <2>2
<1> HIDE DEF vl, u
<1>7. u \in Seq(VariantLine) /\ OutputsIn(u, l)
  BY <1>1, <1>4, <1>5, <1>6, MediaGrows
<1>8. Len(u) = Len(vl) + 1 /\ Len(vl) \in Nat
  BY <1>4, <1>6, OneLonger
<1>9. KnownVariants(u) = ApplyVariant(KnownVariants(vl), e)
  <2>1. KnownVariants(u) = ApplyKnownVariant(KnownVariants(vl), r)
    BY <1>4, <1>6, OneMore
  <2> QED BY <1>4, <2>1 DEF ApplyKnownVariant, ApplyVariant
<1>10. GoodMedia(ml2, l)
  BY <1>6, <1>7 DEF GoodMedia, u
<1> QED BY <1>8, <1>9, <1>10 DEF vl, u

-----------------------------------------------------------------------------
(* What callers have in their hands.                                         *)

\* What a job relies on stays, while IDs are made, the catalog grows and nobody
\* else writes its object.
LEMMA FitsStays ==
  ASSUME NEW j, NEW objs, NEW over, NEW l, NEW n \in Nat, Fits(j, objs, over, l, n),
         NEW objs2, NEW over2, NEW l2, NEW n2 \in Nat, n <= n2,
         KeepsHeld(objs, over, objs2, over2), KeepsPut(l, l2),
         j.pc = "write" /\ j.key \in ID => objs2[j.key] = Absent
  PROVE  Fits(j, objs2, over2, l2, n2)
<1>1. j.pc \in {"write", "record"} =>
          /\ j.id \in 1..n2 /\ j.key \in Key /\ j.sum \in Content
          /\ j.key \in ID => j.key = j.id
  BY DEF Fits
<1>2. j.pc = "record" => HeldIn(objs2, over2, j.key, j.sum)
  BY DEF Fits, KeepsHeld
<1>3. /\ j.pc = "process" => j.sum \in Content
      /\ j.pc \in {"open", "process", "save", "saveFailed", "deleteVariant"} => j.source \in ID
  BY DEF Fits
<1>4. j.pc \in {"save", "delete"} => j.id \in ID /\ PutIn(l2, j.id)
  BY DEF Fits, KeepsPut
<1> QED BY <1>1, <1>2, <1>3, <1>4 DEF Fits

\* A caller goes on with j, and what that asks of the others.
Moves(jobs, c, j, jobs2) == jobs2 = [jobs EXCEPT ![c] = j]
OthersWrite(jobs, c, j, objs) ==
    \A d \in Caller : d # c /\ jobs[d].pc = "write" =>
        /\ jobs[d].key \in ID => objs[jobs[d].key] = Absent
        /\ j.pc = "write" => jobs[d].id # j.id

\* One caller's job changes.
LEMMA JobsMove ==
  ASSUME NEW jobs, NEW objs, NEW over, NEW l, NEW n \in Nat, GoodJobs(jobs, objs, over, l, n),
         NEW objs2, NEW over2, NEW l2, NEW n2 \in Nat, n <= n2,
         KeepsHeld(objs, over, objs2, over2), KeepsPut(l, l2),
         NEW c \in Caller, NEW j \in Job, Fits(j, objs2, over2, l2, n2),
         NEW jobs2, Moves(jobs, c, j, jobs2), OthersWrite(jobs, c, j, objs2)
  PROVE  GoodJobs(jobs2, objs2, over2, l2, n2)
<1>1. jobs \in [Caller -> Job] /\ OwnWrites(jobs) /\ AllFit(jobs, objs, over, l, n)
  BY DEF GoodJobs
<1>2. jobs2 \in [Caller -> Job] /\ jobs2[c] = j /\ \A d \in Caller : d # c => jobs2[d] = jobs[d]
  BY <1>1 DEF Moves
<1>3. ASSUME NEW d \in Caller PROVE Fits(jobs2[d], objs2, over2, l2, n2)
  <2>1. CASE d = c
    BY <1>2, <2>1
  <2>2. CASE d # c
    <3> DEFINE o == jobs[d]
    <3>1. Fits(o, objs, over, l, n) /\ jobs2[d] = o
      BY <1>1, <1>2, <2>2 DEF AllFit
    <3>2. o.pc = "write" /\ o.key \in ID => objs2[o.key] = Absent
      BY <2>2 DEF OthersWrite
    <3> HIDE DEF o
    <3> QED BY <3>1, <3>2, FitsStays
  <2> QED BY <2>1, <2>2
<1>4. OwnWrites(jobs2)
  BY <1>1, <1>2 DEF OwnWrites, OthersWrite
<1> QED BY <1>2, <1>3, <1>4 DEF GoodJobs, AllFit

\* A job that does not go on to write, while the storage stays as it is.
LEMMA JobGoesOn ==
  ASSUME NEW jobs, NEW objs, NEW over, NEW l, NEW n \in Nat, GoodJobs(jobs, objs, over, l, n),
         NEW l2, KeepsPut(l, l2), NEW n2 \in Nat, n <= n2,
         NEW c \in Caller, NEW j \in Job, Fits(j, objs, over, l2, n2),
         j.pc = "write" => n < j.id,
         NEW jobs2, Moves(jobs, c, j, jobs2)
  PROVE  GoodJobs(jobs2, objs, over, l2, n2)
<1>1. KeepsHeld(objs, over, objs, over)
  BY DEF KeepsHeld
<1>2. ASSUME NEW d \in Caller, d # c, jobs[d].pc = "write"
      PROVE  /\ jobs[d].key \in ID => objs[jobs[d].key] = Absent
             /\ j.pc = "write" => jobs[d].id # j.id
  <2>1. Fits(jobs[d], objs, over, l, n)
    BY DEF GoodJobs, AllFit
  <2>2. jobs[d].id \in 1..n /\ (jobs[d].key \in ID => objs[jobs[d].key] = Absent)
    BY <1>2, <2>1 DEF Fits
  <2> QED BY <2>2
<1>3. OthersWrite(jobs, c, j, objs)
  BY <1>2 DEF OthersWrite
<1> QED BY <1>1, <1>3, JobsMove

\* A caller that returns has nothing in its hands.
LEMMA IdleFits ==
  ASSUME NEW objs, NEW over, NEW l, NEW n
  PROVE  Idle \in Job /\ Fits(Idle, objs, over, l, n) /\ Idle.pc = "idle"
<1>1. Idle \in Job
  BY DEF Idle, Job
<1>2. Idle.pc = "idle"
  BY DEF Idle
<1> QED BY <1>1, <1>2 DEF Fits

\* A caller that returns, whatever the step does to the rest.
LEMMA JobReturns ==
  ASSUME NEW jobs, NEW objs, NEW over, NEW l, NEW n \in Nat, GoodJobs(jobs, objs, over, l, n),
         NEW objs2, NEW over2, KeepsHeld(objs, over, objs2, over2),
         NEW l2, KeepsPut(l, l2), NEW c \in Caller,
         NEW jobs2, Moves(jobs, c, Idle, jobs2),
         OthersWrite(jobs, c, Idle, objs2)
  PROVE  GoodJobs(jobs2, objs2, over2, l2, n)
<1> DEFINE j == Idle
<1>1. j \in Job /\ Fits(j, objs2, over2, l2, n) /\ j.pc = "idle" /\ n <= n
  BY IdleFits
<1> HIDE DEF j
<1>2. Moves(jobs, c, j, jobs2) /\ OthersWrite(jobs, c, j, objs2)
  BY DEF j
<1> QED BY <1>1, <1>2, JobsMove

\* The same, while the storage stays as it is.
LEMMA JobEnds ==
  ASSUME NEW jobs, NEW objs, NEW over, NEW l, NEW n \in Nat, GoodJobs(jobs, objs, over, l, n),
         NEW l2, KeepsPut(l, l2), NEW c \in Caller,
         NEW jobs2, Moves(jobs, c, Idle, jobs2)
  PROVE  GoodJobs(jobs2, objs, over, l2, n)
<1> DEFINE j == Idle
<1>1. j \in Job /\ Fits(j, objs, over, l2, n) /\ j.pc = "idle" /\ n <= n
  BY IdleFits
<1> HIDE DEF j
<1>2. Moves(jobs, c, j, jobs2)
  BY DEF j
<1> QED BY <1>1, <1>2, JobGoesOn

-----------------------------------------------------------------------------
(* The line a caller appends.                                                *)

\* The line that a caller appends to the catalog tells the truth.
LEMMA FileEventFits ==
  ASSUME NEW c, job[c] \in Job, NEW objs, NEW over, NEW l, NEW n \in 0..MaxFiles,
         Fits(job[c], objs, over, l, n), AppendsFile(c), NEW e, e = FileEvent(c)
  PROVE  /\ LineFits(e, l, objs, over) /\ Unknown(e) /\ e.id \in ID /\ e.id = job[c].id
         /\ e.op = "delete" => job[c].pc = "delete"
         /\ e.op = "put" <=> job[c].pc = "record"
<1> DEFINE j == job[c]
<1>1. j.pc \in {"record", "delete"}
  BY DEF AppendsFile
<1>2. e = [op |-> IF j.pc = "delete" THEN "delete" ELSE "put", id |-> j.id,
           key |-> j.key, sum |-> j.sum, large |-> j.large, known |-> FALSE]
  BY DEF FileEvent
<1>3. /\ j.id \in ID \cup {Absent} /\ j.key \in Key \cup {Absent} /\ j.sum \in Content \cup {Absent}
      /\ j.large \in BOOLEAN
  BY DEF Job
<1>4. MaxFiles \in Nat
  BY MediaFilesAssumption
<1> HIDE DEF j
<1>5. Fits(j, objs, over, l, n)
  BY DEF j
<1>6. /\ j.pc = "record" => HeldIn(objs, over, j.key, j.sum) /\ j.id \in ID
      /\ j.pc = "delete" => j.id \in ID /\ PutIn(l, j.id)
  BY <1>4, <1>5 DEF Fits, ID
<1>7. e.id = j.id /\ e.key = j.key /\ e.sum = j.sum /\ e.known = FALSE
      /\ (e.op = "put" <=> j.pc # "delete") /\ (e.op = "delete" <=> j.pc = "delete")
  BY <1>2
<1>8. e \in FileLine
  BY <1>1, <1>2, <1>3, <1>6 DEF FileLine
<1>9. LineFits(e, l, objs, over)
  BY <1>1, <1>6, <1>7, <1>8 DEF LineFits, LineTrue
<1> QED BY <1>1, <1>6, <1>7, <1>9 DEF j, Unknown

\* The line that a caller appends for a variant does.
LEMMA VariantEventFits ==
  ASSUME NEW c, job[c] \in Job, NEW objs, NEW over, NEW l, NEW n,
         Fits(job[c], objs, over, l, n), AppendsVariant(c), NEW e, e = VariantEvent(c)
  PROVE  e \in VariantLine /\ VariantTrue(e, l) /\ Unknown(e)
<1> DEFINE j == job[c]
           v == CASE j.pc = "save" -> [status |-> "ready", output |-> j.id]
                  [] j.pc = "saveFailed" -> [status |-> "failed", output |-> Absent]
                  [] j.pc = "deleteVariant" -> Absent
<1>1. j.pc \in {"save", "saveFailed", "deleteVariant"}
  BY DEF AppendsVariant
<1>2. e = [source |-> j.source, large |-> FALSE, known |-> FALSE, variant |-> v]
  BY DEF VariantEvent
<1>3. /\ j.source \in ID
      /\ j.pc = "save" => j.id \in ID /\ PutIn(l, j.id)
  BY <1>1 DEF Fits
<1> HIDE DEF j
<1>4. v \in Variant \cup {Absent}
  BY <1>1, <1>3 DEF Variant
<1>5. v # Absent /\ v.status = "ready" => v.output \in ID /\ PutIn(l, v.output)
  BY <1>1, <1>3
<1> HIDE DEF v
<1>6. e \in VariantLine
  BY <1>2, <1>3, <1>4 DEF VariantLine
<1>7. e.variant = v /\ e.known = FALSE
  BY <1>2
<1> QED BY <1>5, <1>6, <1>7 DEF VariantTrue, Unknown

-----------------------------------------------------------------------------
(* The invariant holds initially, and every step keeps it.                   *)

\* What stays as it is keeps what it holds.
LEMMA KeepsItself == /\ \A l : KeepsPut(l, l)
                     /\ \A objs, over : KeepsHeld(objs, over, objs, over)
BY DEF KeepsPut, KeepsHeld

\* A step of a caller that changes nothing but its job and, maybe, how many IDs were made.
LEMMA OnlyJobMoves ==
  ASSUME IndInv, up, UNCHANGED <<up, services, logs, storage, recorded, bounds>>,
         made' \in Nat, made <= made', made' <= MaxFiles,
         GoodJobs(job', objects, overwritten, filesLog.lines, made')
  PROVE  IndInv'
<1>1. /\ GoodFiles(filesLog, objects, overwritten) /\ GoodMedia(mediaLog, filesLog.lines)
      /\ GoodRecorded(recorded, filesLog.lines) /\ GoodStorage(objects, overwritten, made)
      /\ GoodMemory(up, files, variants, job, filesLog.lines, mediaLog.lines)
      /\ GoodBounds(up, filesLog.lines, mediaLog.lines, faults, crashes)
  BY PartsBefore
<1>2. /\ up' = up /\ files' = files /\ variants' = variants /\ filesLog' = filesLog
      /\ mediaLog' = mediaLog /\ objects' = objects /\ overwritten' = overwritten
      /\ recorded' = recorded /\ faults' = faults /\ crashes' = crashes
  BY DEF services, logs, storage, bounds
<1>3. GoodStorage(objects', overwritten', made')
  BY <1>1, <1>2, MediaFilesAssumption DEF GoodStorage, ID
<1>4. GoodMemory(up', files', variants', job', filesLog'.lines, mediaLog'.lines)
  BY <1>1, <1>2 DEF GoodMemory
<1>5. /\ GoodFiles(filesLog', objects', overwritten') /\ GoodMedia(mediaLog', filesLog'.lines)
      /\ GoodRecorded(recorded', filesLog'.lines)
      /\ GoodBounds(up', filesLog'.lines, mediaLog'.lines, faults', crashes')
      /\ GoodJobs(job', objects', overwritten', filesLog'.lines, made')
  BY <1>1, <1>2
<1> QED BY <1>3, <1>4, <1>5, PartsAfter

\* What a caller may rely on before its step.
LEMMA CallerHas ==
  ASSUME IndInv, NEW c \in Caller
  PROVE  /\ job \in [Caller -> Job] /\ job[c] \in Job
         /\ Fits(job[c], objects, overwritten, filesLog.lines, made)
         /\ made \in Nat /\ made \in 0..MaxFiles /\ MaxFiles \in Nat
         /\ GoodJobs(job, objects, overwritten, filesLog.lines, made)
<1>1. GoodJobs(job, objects, overwritten, filesLog.lines, made) /\ GoodStorage(objects, overwritten, made)
  BY PartsBefore
<1> QED BY <1>1, MediaFilesAssumption DEF GoodJobs, AllFit, GoodStorage

\* A step of a caller that goes on with another job and makes no ID.
LEMMA CallerMoves ==
  ASSUME IndInv, NEW c \in Caller, up, UNCHANGED <<up, services, logs, storage, recorded, bounds>>,
         UNCHANGED made, NEW j \in Job, j.pc # "write",
         Fits(j, objects, overwritten, filesLog.lines, made), Moves(job, c, j, job')
  PROVE  IndInv'
<1>1. made \in Nat /\ made <= MaxFiles
      /\ GoodJobs(job, objects, overwritten, filesLog.lines, made)
  BY CallerHas
<1> DEFINE objs == objects
           over == overwritten
           l == filesLog.lines
           n == made
           jobs == job
           jobs2 == job'
<1>2. GoodJobs(jobs, objs, over, l, n) /\ Moves(jobs, c, j, jobs2) /\ Fits(j, objs, over, l, n)
      /\ n \in Nat /\ n <= n
  BY <1>1
<1>3. GoodJobs(jobs2, objs, over, l, n)
  <2> HIDE DEF objs, over, l, n, jobs, jobs2
  <2> QED BY <1>2, KeepsItself, JobGoesOn
<1> QED BY <1>1, <1>3, OnlyJobMoves

\* A step of a caller that makes an ID, and goes on to write under it or a chosen key.
LEMMA CallerWrites ==
  ASSUME IndInv, NEW c \in Caller, up, UNCHANGED <<up, services, logs, storage, recorded, bounds>>,
         made < MaxFiles, made' = made + 1,
         NEW j \in Job, j.pc = "write", j.id = made + 1, j.key \in Named \cup {made + 1},
         j.sum \in Content, Moves(job, c, j, job')
  PROVE  IndInv'
<1>1. made \in Nat /\ MaxFiles \in Nat
      /\ GoodJobs(job, objects, overwritten, filesLog.lines, made)
  BY CallerHas
<1>2. GoodStorage(objects, overwritten, made)
  BY PartsBefore
<1> DEFINE objs == objects
           over == overwritten
           l == filesLog.lines
           n == made
           n2 == made + 1
           jobs == job
           jobs2 == job'
<1>3. n2 \in ID /\ n2 \in Nat /\ n < n2 /\ n <= n2 /\ n2 \in 1..n2 /\ n \in Nat
  BY <1>1 DEF ID
<1>4. objs[n2] = Absent
  BY <1>2, <1>3 DEF GoodStorage
<1>5. GoodJobs(jobs, objs, over, l, n) /\ Moves(jobs, c, j, jobs2)
  BY <1>1
<1>6. /\ j.pc = "write" /\ j.id = n2 /\ j.key \in Named \cup {n2}
  OBVIOUS
<1> HIDE DEF objs, over, l, n, n2, jobs, jobs2
<1>7. j.key \in Key /\ (j.key \in ID => j.key = n2)
  BY <1>3, <1>6, MediaFilesAssumption DEF Key
<1>8. Fits(j, objs, over, l, n2)
  BY <1>3, <1>4, <1>6, <1>7 DEF Fits
<1>9. GoodJobs(jobs2, objs, over, l, n2)
  BY <1>3, <1>5, <1>6, <1>8, KeepsItself, JobGoesOn
<1>10. made' = n2 /\ made' \in Nat /\ made <= made' /\ made' <= MaxFiles
  BY <1>1 DEF n2
<1>11. GoodJobs(job', objects, overwritten, filesLog.lines, made')
  BY <1>9, <1>10 DEF jobs2, objs, over, l
<1> QED BY <1>10, <1>11, OnlyJobMoves

\* An upload begins: under its own ID or a name that was asked for.
LEMMA UploadStep ==
  ASSUME IndInv, NEW c \in Caller, Upload(c)
  PROVE  IndInv'
<1>1. /\ up /\ made < MaxFiles /\ made' = made + 1
      /\ UNCHANGED <<up, services, logs, storage, recorded, bounds>>
  BY DEF Upload, At
<1>2. PICK key \in Named \cup {made + 1}, sum \in Content, large \in BOOLEAN :
          job' = [job EXCEPT ![c] = [Idle EXCEPT !.pc = "write", !.id = made + 1,
                                     !.key = key, !.sum = sum, !.large = large]]
  BY DEF Upload
<1> DEFINE n == made + 1
           j == [Idle EXCEPT !.pc = "write", !.id = n, !.key = key, !.sum = sum, !.large = large]
<1>3. n \in ID /\ n \in Key
  BY <1>1, CallerHas DEF ID, Key
<1>4. key \in Key
  BY <1>2, <1>3 DEF Key
<1>5. j \in Job /\ j.pc = "write" /\ j.id = n /\ j.key = key /\ j.sum = sum
  <2> HIDE DEF n
  <2>1. Idle \in Job
    BY IdleFits
  <2> QED BY <1>2, <1>3, <1>4, <2>1 DEF Job
<1>6. Moves(job, c, j, job')
  BY <1>2 DEF Moves
<1> HIDE DEF j
<1> QED BY <1>1, <1>2, <1>5, <1>6, CallerWrites

\* A delete begins.
LEMMA StartDeleteStep ==
  ASSUME IndInv, NEW c \in Caller, NEW i \in ID, StartDelete(c, i)
  PROVE  IndInv'
<1>1. /\ up /\ files[i] # Absent
      /\ UNCHANGED <<up, services, logs, storage, made, recorded, bounds>>
  BY DEF StartDelete, At
<1> DEFINE j == [Idle EXCEPT !.pc = "delete", !.id = i]
<1>2. j \in Job /\ j.pc = "delete" /\ j.id = i
  <2>1. Idle \in Job
    BY IdleFits
  <2> QED BY <2>1 DEF Job
<1>3. Moves(job, c, j, job')
  BY DEF Moves, StartDelete
<1> HIDE DEF j
<1>4. PutIn(filesLog.lines, i)
  <2>1. /\ GoodFiles(filesLog, objects, overwritten) /\ GoodMedia(mediaLog, filesLog.lines)
        /\ files = KnownFiles(filesLog.lines)
    BY <1>1, PartsBefore DEF GoodMemory
  <2> QED BY <1>1, <2>1, MapsOf
<1>5. Fits(j, objects, overwritten, filesLog.lines, made)
  BY <1>2, <1>4 DEF Fits
<1> QED BY <1>1, <1>2, <1>3, <1>5, CallerMoves

\* A variant is asked for.
LEMMA StartVariantStep ==
  ASSUME IndInv, NEW c \in Caller, NEW i \in ID, NEW regenerate \in BOOLEAN,
         StartVariant(c, i, regenerate)
  PROVE  IndInv'
<1>1. up /\ UNCHANGED <<up, services, logs, storage, made, recorded, bounds>>
  BY DEF StartVariant, At
<1>2. CASE regenerate \/ Generates(i)
  <2> DEFINE j == [Idle EXCEPT !.pc = "open", !.source = i]
  <2>1. j \in Job /\ j.pc = "open" /\ j.source = i
    <3>1. Idle \in Job
      BY IdleFits
    <3> QED BY <3>1 DEF Job
  <2>2. Moves(job, c, j, job')
    BY <1>2 DEF Moves, StartVariant
  <2> HIDE DEF j
  <2>3. Fits(j, objects, overwritten, filesLog.lines, made)
    BY <2>1 DEF Fits
  <2> QED BY <1>1, <2>1, <2>2, <2>3, CallerMoves
<1>3. CASE ~(regenerate \/ Generates(i))
  <2> DEFINE o == variants[i].output
             j == [Idle EXCEPT !.pc = "find", !.id = o]
  <2>1. o \in ID \cup {Absent}
    <3>1. variants \in Variants
      BY DEF IndInv, TypeOK, Variants
    <3>2. variants[i] \in Variant
      BY <1>3, <3>1 DEF Variants, Generates
    <3> QED BY <3>2 DEF Variant
  <2>2. Moves(job, c, j, job')
    BY <1>3 DEF Moves, StartVariant
  <2> HIDE DEF o
  <2>3. j \in Job /\ j.pc = "find"
    <3>1. Idle \in Job
      BY IdleFits
    <3> QED BY <2>1, <3>1 DEF Job
  <2> HIDE DEF j
  <2>4. Fits(j, objects, overwritten, filesLog.lines, made)
    BY <2>3 DEF Fits
  <2> QED BY <1>1, <2>2, <2>3, <2>4, CallerMoves
<1> QED BY <1>2, <1>3

\* A variant is to be deleted.
LEMMA StartDeleteVariantStep ==
  ASSUME IndInv, NEW c \in Caller, NEW i \in ID, StartDeleteVariant(c, i)
  PROVE  IndInv'
<1>1. up /\ UNCHANGED <<up, services, logs, storage, made, recorded, bounds>>
  BY DEF StartDeleteVariant, At
<1> DEFINE j == [Idle EXCEPT !.pc = "deleteVariant", !.source = i]
<1>2. j \in Job /\ j.pc = "deleteVariant" /\ j.source = i
  <2>1. Idle \in Job
    BY IdleFits
  <2> QED BY <2>1 DEF Job
<1>3. Moves(job, c, j, job')
  BY DEF Moves, StartDeleteVariant
<1> HIDE DEF j
<1>4. Fits(j, objects, overwritten, filesLog.lines, made)
  BY <1>2 DEF Fits
<1> QED BY <1>1, <1>2, <1>3, <1>4, CallerMoves

\* A caller that returns with nothing else changed.
LEMMA ReturnStep ==
  ASSUME IndInv, NEW c \in Caller, up, Return(c),
         UNCHANGED <<up, services, logs, storage, made, recorded, bounds>>
  PROVE  IndInv'
<1> DEFINE j == Idle
<1>1. j \in Job /\ j.pc # "write" /\ Fits(j, objects, overwritten, filesLog.lines, made)
  BY IdleFits
<1>2. Moves(job, c, j, job')
  BY DEF Moves, Return
<1> HIDE DEF j
<1> QED BY <1>1, <1>2, CallerMoves

\* A job with another pc.
LEMMA GotoMoves ==
  ASSUME NEW c \in Caller, job \in [Caller -> Job], NEW place, Goto(c, place)
  PROVE  Moves(job, c, [job[c] EXCEPT !.pc = place], job')
BY DEF Goto, Moves

\* A job with another pc is a job.
LEMMA PCJob ==
  ASSUME NEW o \in Job, NEW place \in {"idle", "write", "record", "delete", "find", "open",
                                        "process", "save", "saveFailed", "deleteVariant"},
         NEW j, j = [o EXCEPT !.pc = place]
  PROVE  /\ j \in Job /\ j.pc = place /\ j.id = o.id /\ j.key = o.key /\ j.sum = o.sum
         /\ j.source = o.source
BY DEF Job

\* The source of a variant is opened, or cannot be.
LEMMA OpenSourceStep ==
  ASSUME IndInv, NEW c \in Caller, OpenSource(c)
  PROVE  IndInv'
<1>1. up /\ UNCHANGED <<up, services, logs, storage, made, recorded, bounds>> /\ job[c].pc = "open"
  BY DEF OpenSource, At
<1> DEFINE i == job[c].source
           o == job[c]
           x == objects[files[i].key]
           j == [o EXCEPT !.pc = "process", !.sum = x]
<1>2. i \in ID /\ o \in Job /\ job \in [Caller -> Job]
  BY <1>1, CallerHas DEF Fits
<1>3. CASE Found(i)
  <2>1. x \in Content
    <3>1. /\ GoodFiles(filesLog, objects, overwritten) /\ GoodMedia(mediaLog, filesLog.lines)
          /\ files = KnownFiles(filesLog.lines) /\ GoodStorage(objects, overwritten, made)
      BY <1>1, PartsBefore DEF GoodMemory
    <3>2. files[i] # Absent
      BY <1>3 DEF Found
    <3>3. HeldIn(objects, overwritten, files[i].key, files[i].sum)
      BY <1>2, <3>1, <3>2, MapsOf
    <3> QED BY <3>1, <3>3 DEF HeldIn, GoodStorage
  <2>2. job' = [job EXCEPT ![c].pc = "process", ![c].sum = x]
    BY <1>3 DEF OpenSource
  <2>3. Moves(job, c, j, job')
    <3> HIDE DEF x
    <3> QED BY <1>2, <2>2 DEF Moves
  <2> HIDE DEF x, o
  <2>4. j \in Job /\ j.pc = "process" /\ j.sum = x /\ j.source = o.source
    BY <1>2, <2>1 DEF Job
  <2> HIDE DEF j
  <2>5. j.source \in ID
    BY <1>2, <2>4 DEF o
  <2>6. Fits(j, objects, overwritten, filesLog.lines, made)
    BY <2>1, <2>4, <2>5 DEF Fits
  <2> QED BY <1>1, <2>3, <2>4, <2>6, CallerMoves
<1>4. CASE ~Found(i)
  <2>1. Return(c)
    BY <1>4 DEF OpenSource
  <2> QED BY <1>1, <2>1, ReturnStep
<1> QED BY <1>3, <1>4

\* The bytes of a variant are made, and go on to be stored.
LEMMA ProcessStep ==
  ASSUME IndInv, NEW c \in Caller, Process(c)
  PROVE  IndInv'
<1>1. up /\ UNCHANGED <<up, services, logs, storage, recorded, bounds>> /\ job[c].pc = "process"
  BY DEF Process, At
<1> DEFINE o == job[c]
<1>2. o \in Job /\ job \in [Caller -> Job] /\ o.sum \in Content /\ o.source \in ID
      /\ made \in Nat /\ MaxFiles \in Nat
  BY <1>1, CallerHas DEF Fits
<1>3. CASE made < MaxFiles /\ made' = made + 1
           /\ job' = [job EXCEPT ![c].pc = "write", ![c].id = made + 1, ![c].key = made + 1]
  <2> DEFINE n == made + 1
             j == [o EXCEPT !.pc = "write", !.id = n, !.key = n]
  <2>1. n \in ID /\ n \in Key
    BY <1>2, <1>3 DEF ID, Key
  <2>2. Moves(job, c, j, job')
    <3>1. job' = [job EXCEPT ![c].pc = "write", ![c].id = n, ![c].key = n]
      BY <1>3
    <3> HIDE DEF n
    <3> QED BY <1>2, <3>1 DEF Moves
  <2>3. j \in Job /\ j.pc = "write" /\ j.id = n /\ j.key = n /\ j.sum = o.sum
    <3> HIDE DEF n, o
    <3> QED BY <1>2, <2>1 DEF Job
  <2>4. j.sum \in Content
    BY <1>2, <2>3
  <2> HIDE DEF j
  <2> QED BY <1>1, <1>3, <2>2, <2>3, <2>4, CallerWrites
<1>4. CASE Goto(c, "saveFailed") /\ UNCHANGED made
  <2> DEFINE j == [o EXCEPT !.pc = "saveFailed"]
  <2>1. Moves(job, c, j, job')
    BY <1>2, <1>4, GotoMoves
  <2>2. j \in Job /\ j.pc = "saveFailed" /\ j.source = o.source
    BY <1>2, PCJob
  <2> HIDE DEF j
  <2>3. Fits(j, objects, overwritten, filesLog.lines, made)
    BY <1>2, <2>2 DEF Fits
  <2> QED BY <1>1, <1>4, <2>1, <2>2, <2>3, CallerMoves
<1> QED BY <1>3, <1>4 DEF Process

\* An object takes the place of another, and its key is noted.
Replaced(objs, over, k, sum, objs2, over2) ==
    /\ objs2 = [objs EXCEPT ![k] = sum]
    /\ over2 = IF objs[k] = Absent THEN over ELSE over \cup {k}

\* What that keeps, for the caller that writes.
LEMMA Renames ==
  ASSUME NEW objs, NEW over, NEW n \in Nat, GoodStorage(objs, over, n), NEW l,
         NEW jobs, GoodJobs(jobs, objs, over, l, n), NEW c \in Caller, jobs[c].pc = "write",
         NEW k, k = jobs[c].key, NEW sum, sum = jobs[c].sum,
         NEW objs2, NEW over2, Replaced(objs, over, k, sum, objs2, over2)
  PROVE  /\ GoodStorage(objs2, over2, n) /\ KeepsHeld(objs, over, objs2, over2)
         /\ HeldIn(objs2, over2, k, sum)
         /\ \A j : j.pc # "write" => OthersWrite(jobs, c, j, objs2)
<1>0. /\ objs2 = [objs EXCEPT ![k] = sum]
      /\ over2 = IF objs[k] = Absent THEN over ELSE over \cup {k}
  BY DEF Replaced
<1>1. /\ AllFit(jobs, objs, over, l, n) /\ OwnWrites(jobs)
      /\ objs \in [Key -> Content \cup {Absent}] /\ over \subseteq Named
      /\ n \in 0..MaxFiles /\ \A i \in ID : i > n => objs[i] = Absent
  BY DEF GoodJobs, GoodStorage
<1>2. /\ k \in Key /\ sum \in Content /\ jobs[c].id \in 1..n
      /\ k \in ID => k = jobs[c].id /\ objs[k] = Absent
  BY <1>1 DEF AllFit, Fits
<1>3. /\ objs2 \in [Key -> Content \cup {Absent}] /\ objs2[k] = sum /\ sum # Absent
      /\ \A x \in Key : x # k => objs2[x] = objs[x]
  BY <1>0, <1>1, <1>2, AbsentIsOther
<1>4. over2 \subseteq Named /\ over \subseteq over2
  BY <1>0, <1>1, <1>2 DEF Key
<1>5. \A i \in ID : i > n => objs2[i] = Absent
  <2> SUFFICES ASSUME NEW i \in ID, i > n PROVE objs2[i] = Absent
    OBVIOUS
  <2>1. i \in Key /\ i \in Nat
    BY MediaFilesAssumption DEF ID, Key
  <2>2. i # k
    BY <1>2, <2>1
  <2> QED BY <1>1, <1>3, <2>1, <2>2
<1>6. GoodStorage(objs2, over2, n)
  BY <1>1, <1>3, <1>4, <1>5 DEF GoodStorage
<1>7. KeepsHeld(objs, over, objs2, over2)
  <2> SUFFICES ASSUME NEW x, NEW s, HeldIn(objs, over, x, s) PROVE HeldIn(objs2, over2, x, s)
    BY DEF KeepsHeld
  <2>1. x \in Key /\ s \in Content /\ s # Absent
        /\ (objs[x] = s \/ (objs[x] # Absent /\ x \in over))
    BY AbsentIsOther DEF HeldIn
  <2>2. CASE x # k
    BY <1>3, <1>4, <2>1, <2>2 DEF HeldIn
  <2>3. CASE x = k
    BY <1>0, <1>3, <2>1, <2>3 DEF HeldIn
  <2> QED BY <2>2, <2>3
<1>8. HeldIn(objs2, over2, k, sum)
  BY <1>2, <1>3 DEF HeldIn
<1>9. ASSUME NEW d \in Caller, d # c, jobs[d].pc = "write", jobs[d].key \in ID
      PROVE  objs2[jobs[d].key] = Absent
  <2> DEFINE x == jobs[d].key
  <2>1. x = jobs[d].id /\ objs[x] = Absent /\ x \in Key
    BY <1>1, <1>9 DEF AllFit, Fits
  <2>2. x # k
    BY <1>1, <1>2, <1>9, <2>1 DEF OwnWrites
  <2> QED BY <1>3, <2>1, <2>2
<1>10. \A j : j.pc # "write" => OthersWrite(jobs, c, j, objs2)
  BY <1>9 DEF OthersWrite
<1> QED BY <1>6, <1>7, <1>8, <1>10

\* Bytes are stored: nobody relies on what they replace.
LEMMA WriteObjectStep ==
  ASSUME IndInv, NEW c \in Caller, WriteObject(c)
  PROVE  IndInv'
<1> DEFINE objs == objects
           over == overwritten
           objs2 == objects'
           over2 == overwritten'
           l == filesLog.lines
           n == made
           o == job[c]
           j == [o EXCEPT !.pc = "record"]
           jobs == job
           jobs2 == job'
<1>1. /\ up /\ o.pc = "write" /\ Goto(c, "record")
      /\ up' = up /\ files' = files /\ variants' = variants /\ filesLog' = filesLog
      /\ mediaLog' = mediaLog /\ made' = made
      /\ recorded' = recorded /\ faults' = faults /\ crashes' = crashes
  BY DEF WriteObject, At, services, logs, bounds
<1>2. /\ objs2 = [objs EXCEPT ![o.key] = o.sum]
      /\ over2 = IF objs[o.key] = Absent THEN over ELSE over \cup {o.key}
  BY DEF WriteObject, Rename
<1>3. /\ GoodFiles(filesLog, objs, over) /\ GoodMedia(mediaLog, l)
      /\ GoodRecorded(recorded, l) /\ GoodStorage(objs, over, n)
      /\ GoodJobs(jobs, objs, over, l, n)
      /\ GoodMemory(up, files, variants, jobs, l, mediaLog.lines)
      /\ GoodBounds(up, l, mediaLog.lines, faults, crashes)
  BY PartsBefore
<1>4. jobs \in [Caller -> Job] /\ o \in Job /\ Fits(o, objs, over, l, n) /\ n \in Nat
  BY CallerHas
<1>5. /\ j \in Job /\ j.pc = "record" /\ j.id = o.id /\ j.key = o.key /\ j.sum = o.sum
  BY <1>4, PCJob
<1>6. Moves(jobs, c, j, jobs2)
  BY <1>1, <1>4, GotoMoves
<1>7. jobs[c].pc = "write" /\ o.key = jobs[c].key /\ o.sum = jobs[c].sum
  BY <1>1
<1> HIDE DEF j, objs, over, objs2, over2, l, n, jobs, jobs2
<1>8. /\ GoodStorage(objs2, over2, n) /\ KeepsHeld(objs, over, objs2, over2)
      /\ HeldIn(objs2, over2, o.key, o.sum)
      /\ \A k : k.pc # "write" => OthersWrite(jobs, c, k, objs2)
  <2> DEFINE k == o.key
             s == o.sum
  <2>1. Replaced(objs, over, k, s, objs2, over2) /\ k = jobs[c].key /\ s = jobs[c].sum
    BY <1>2, <1>7 DEF Replaced
  <2>3. /\ GoodStorage(objs, over, n) /\ GoodJobs(jobs, objs, over, l, n)
        /\ n \in Nat /\ jobs[c].pc = "write"
    BY <1>3, <1>4, <1>7
  <2> HIDE DEF k, s
  <2>2. /\ GoodStorage(objs2, over2, n) /\ KeepsHeld(objs, over, objs2, over2)
        /\ HeldIn(objs2, over2, k, s)
        /\ \A x : x.pc # "write" => OthersWrite(jobs, c, x, objs2)
    BY <2>1, <2>3, Renames
  <2> QED BY <2>2 DEF k, s
<1>9. Fits(j, objs2, over2, l, n)
  BY <1>1, <1>4, <1>5, <1>8 DEF Fits
<1>10. OthersWrite(jobs, c, j, objs2)
  BY <1>5, <1>8
<1>11. GoodJobs(jobs2, objs2, over2, l, n)
  <2>1. n <= n
    BY <1>4
  <2> QED BY <1>3, <1>4, <1>5, <1>6, <1>8, <1>9, <1>10, <2>1, KeepsItself, JobsMove
<1>12. GoodFiles(filesLog, objs2, over2)
  BY <1>3, <1>8, LinesStayTrue DEF GoodFiles
<1>13. GoodMemory(up, files, variants, jobs2, l, mediaLog.lines)
  BY <1>1, <1>3 DEF GoodMemory
<1>14. /\ GoodFiles(filesLog', objects', overwritten') /\ GoodMedia(mediaLog', filesLog'.lines)
       /\ GoodRecorded(recorded', filesLog'.lines) /\ GoodStorage(objects', overwritten', made')
       /\ GoodJobs(job', objects', overwritten', filesLog'.lines, made')
       /\ GoodMemory(up', files', variants', job', filesLog'.lines, mediaLog'.lines)
       /\ GoodBounds(up', filesLog'.lines, mediaLog'.lines, faults', crashes')
  BY <1>1, <1>3, <1>8, <1>11, <1>12, <1>13 DEF objs, over, objs2, over2, l, n, jobs, jobs2
<1> QED BY <1>14, PartsAfter

\* An append to the catalog that succeeds, whatever the job of the caller is then.
LEMMA CatalogGrows ==
  ASSUME IndInv, NEW c \in Caller, up, Room, AppendsFile(c),
         filesLog' = Appends(filesLog, FileEvent(c)), files' = ApplyFile(files, FileEvent(c)),
         UNCHANGED <<up, variants, mediaLog, storage, made, bounds>>,
         recorded' \subseteq recorded \cup {i \in ID : PutIn(filesLog'.lines, i)},
         GoodJobs(job', objects, overwritten, filesLog'.lines, made)
  PROVE  IndInv'
<1> DEFINE l == filesLog.lines
           u == filesLog'.lines
           e == FileEvent(c)
<1>1. /\ GoodFiles(filesLog, objects, overwritten) /\ GoodMedia(mediaLog, l)
      /\ GoodRecorded(recorded, l) /\ GoodStorage(objects, overwritten, made)
      /\ GoodMemory(up, files, variants, job, l, mediaLog.lines)
      /\ GoodBounds(up, l, mediaLog.lines, faults, crashes)
  BY PartsBefore
<1>2. /\ up' = up /\ variants' = variants /\ mediaLog' = mediaLog /\ made' = made
      /\ objects' = objects /\ overwritten' = overwritten /\ faults' = faults /\ crashes' = crashes
  BY DEF storage, bounds
<1>3. LineFits(e, l, objects, overwritten)
  <2>1. job[c] \in Job /\ Fits(job[c], objects, overwritten, l, made) /\ made \in 0..MaxFiles
    BY CallerHas
  <2> QED BY <2>1, FileEventFits
<1>4. filesLog' = Appends(filesLog, e) /\ files' = ApplyFile(files, e)
  OBVIOUS
<1> HIDE DEF e
<1>5. /\ GoodFiles(filesLog', objects, overwritten) /\ KeepsPut(l, u)
      /\ Len(u) = Len(l) + 1 /\ Len(l) \in Nat
      /\ KnownFiles(u) = ApplyFile(KnownFiles(l), e)
  BY <1>1, <1>3, <1>4, AppendsFileLine
<1>6. GoodMedia(mediaLog, u)
  BY <1>1, <1>5, OutputsStay DEF GoodMedia
<1>7. GoodRecorded(recorded', u)
  <2>1. GoodRecorded(recorded, u)
    BY <1>1, <1>5, RecordedStays
  <2> QED BY <2>1 DEF GoodRecorded
<1>8. GoodMemory(up', files', variants', job', u, mediaLog'.lines)
  BY <1>1, <1>2, <1>4, <1>5 DEF GoodMemory
<1>9. GoodBounds(up', u, mediaLog'.lines, faults', crashes')
  <2>1. Len(mediaLog.lines) \in Nat
    <3>1. mediaLog.lines \in Seq(VariantLine)
      BY <1>1 DEF GoodMedia, MediaLog
    <3> QED BY <3>1, LenProperties
  <2>2. Len(l) + Len(mediaLog.lines) < MaxLines
    BY DEF Room
  <2>3. Len(u) + Len(mediaLog'.lines) <= MaxLines + 1
    <3> DEFINE a == Len(l)
               b == Len(mediaLog.lines)
               x == Len(u)
               y == Len(mediaLog'.lines)
    <3>1. a \in Nat /\ b \in Nat /\ a + b < MaxLines /\ x = a + 1 /\ y = b
      BY <1>2, <1>5, <2>1, <2>2
    <3> HIDE DEF a, b, x, y
    <3>2. x + y <= MaxLines + 1
      BY <3>1, MediaFilesAssumption
    <3> QED BY <3>2 DEF x, y
  <2> QED BY <1>1, <1>2, <2>3 DEF GoodBounds
<1>10. GoodStorage(objects', overwritten', made')
       /\ GoodJobs(job', objects', overwritten', u, made')
       /\ GoodFiles(filesLog', objects', overwritten') /\ GoodMedia(mediaLog', u)
  BY <1>1, <1>2, <1>5, <1>6
<1> QED BY <1>7, <1>8, <1>9, <1>10, PartsAfter

\* A delete is recorded.
LEMMA DeleteStep ==
  ASSUME IndInv, NEW c \in Caller, Delete(c)
  PROVE  IndInv'
<1>1. /\ up /\ Room /\ AppendsFile(c) /\ Return(c)
      /\ filesLog' = Appends(filesLog, FileEvent(c)) /\ files' = ApplyFile(files, FileEvent(c))
      /\ UNCHANGED <<up, variants, mediaLog, storage, made, recorded, bounds>>
  BY DEF Delete, At, AppendsFile
<1>2. recorded' \subseteq recorded \cup {i \in ID : PutIn(filesLog'.lines, i)}
  BY <1>1
<1>3. KeepsPut(filesLog.lines, filesLog'.lines)
  <2> DEFINE e == FileEvent(c)
  <2>1. LineFits(e, filesLog.lines, objects, overwritten)
    <3>1. job[c] \in Job /\ Fits(job[c], objects, overwritten, filesLog.lines, made)
          /\ made \in 0..MaxFiles
      BY CallerHas
    <3> QED BY <1>1, <3>1, FileEventFits
  <2>2. GoodFiles(filesLog, objects, overwritten) /\ filesLog' = Appends(filesLog, e)
    BY <1>1, PartsBefore
  <2> HIDE DEF e
  <2> QED BY <2>1, <2>2, AppendsFileLine
<1>4. GoodJobs(job', objects, overwritten, filesLog'.lines, made)
  <2>1. Moves(job, c, Idle, job')
    BY <1>1 DEF Return, Moves
  <2>2. GoodJobs(job, objects, overwritten, filesLog.lines, made) /\ made \in Nat
    BY CallerHas
  <2> QED BY <1>3, <2>1, <2>2, JobEnds
<1> QED BY <1>1, <1>2, <1>4, CatalogGrows

\* A file that was stored is recorded.
LEMMA RecordStep ==
  ASSUME IndInv, NEW c \in Caller, Record(c)
  PROVE  IndInv'
<1> DEFINE o == job[c]
           l == filesLog.lines
           u == filesLog'.lines
<1>1. /\ up /\ Room /\ AppendsFile(c) /\ o.pc = "record" /\ AfterRecord(c)
      /\ filesLog' = Appends(filesLog, FileEvent(c)) /\ files' = ApplyFile(files, FileEvent(c))
      /\ UNCHANGED <<up, variants, mediaLog, storage, made, bounds>>
      /\ recorded' = recorded \cup {o.id}
  BY DEF Record, At, AppendsFile
<1>2. /\ job \in [Caller -> Job] /\ o \in Job /\ Fits(o, objects, overwritten, l, made)
      /\ made \in 0..MaxFiles /\ made \in Nat
      /\ GoodJobs(job, objects, overwritten, l, made)
  BY CallerHas
<1>3. o.id \in ID /\ KeepsPut(l, u) /\ PutIn(u, o.id)
  <2> DEFINE e == FileEvent(c)
  <2>1. /\ LineFits(e, l, objects, overwritten) /\ e.op = "put" /\ e.id = o.id /\ e.id \in ID
    BY <1>1, <1>2, FileEventFits
  <2>2. GoodFiles(filesLog, objects, overwritten) /\ filesLog' = Appends(filesLog, e)
    BY <1>1, PartsBefore
  <2> HIDE DEF e
  <2> QED BY <2>1, <2>2, AppendsFileLine
<1>4. recorded' \subseteq recorded \cup {i \in ID : PutIn(u, i)}
  BY <1>1, <1>3
<1>5. GoodJobs(job', objects, overwritten, u, made)
  <2>1. CASE o.source = Absent
    <3>1. Moves(job, c, Idle, job')
      BY <1>1, <2>1 DEF AfterRecord, Return, Moves
    <3> QED BY <1>2, <1>3, <3>1, JobEnds
  <2>2. CASE o.source # Absent
    <3> DEFINE j == [o EXCEPT !.pc = "save"]
    <3>1. Moves(job, c, j, job')
      BY <1>1, <1>2, <2>2, GotoMoves DEF AfterRecord
    <3>2. j \in Job /\ j.pc = "save" /\ j.id = o.id /\ j.source = o.source
      BY <1>2, PCJob
    <3>3. o.source \in ID
      BY <1>2, <2>2 DEF Job
    <3> HIDE DEF j
    <3>4. Fits(j, objects, overwritten, u, made)
      BY <1>3, <3>2, <3>3 DEF Fits
    <3>5. made <= made
      BY <1>2
    <3> QED BY <1>2, <1>3, <3>1, <3>2, <3>4, <3>5, JobGoesOn
  <2> QED BY <2>1, <2>2
<1> QED BY <1>1, <1>4, <1>5, CatalogGrows

\* A variant is saved, ready, failed or deleted.
LEMMA SaveVariantStep ==
  ASSUME IndInv, NEW c \in Caller, SaveVariant(c)
  PROVE  IndInv'
<1> DEFINE l == filesLog.lines
           vl == mediaLog.lines
           u == mediaLog'.lines
           e == VariantEvent(c)
<1>1. /\ up /\ Room /\ AppendsVariant(c) /\ Return(c)
      /\ mediaLog' = Appends(mediaLog, e) /\ variants' = ApplyVariant(variants, e)
  BY DEF SaveVariant, At, AppendsVariant
<1>2. /\ up' = up /\ files' = files /\ filesLog' = filesLog /\ made' = made
      /\ objects' = objects /\ overwritten' = overwritten
      /\ recorded' = recorded /\ faults' = faults /\ crashes' = crashes
  BY DEF SaveVariant, storage, bounds
<1>3. /\ GoodFiles(filesLog, objects, overwritten) /\ GoodMedia(mediaLog, l)
      /\ GoodRecorded(recorded, l) /\ GoodStorage(objects, overwritten, made)
      /\ GoodMemory(up, files, variants, job, l, vl)
      /\ GoodBounds(up, l, vl, faults, crashes)
  BY PartsBefore
<1>4. e \in VariantLine /\ VariantTrue(e, l)
  <2>1. job[c] \in Job /\ Fits(job[c], objects, overwritten, l, made)
    BY CallerHas
  <2> QED BY <1>1, <2>1, VariantEventFits
<1> HIDE DEF e
<1>5. /\ GoodMedia(mediaLog', l) /\ Len(u) = Len(vl) + 1 /\ Len(vl) \in Nat
      /\ KnownVariants(u) = ApplyVariant(KnownVariants(vl), e)
  BY <1>1, <1>3, <1>4, AppendsVariantLine
<1>6. GoodJobs(job', objects, overwritten, l, made)
  <2>1. Moves(job, c, Idle, job')
    BY <1>1 DEF Return, Moves
  <2>2. GoodJobs(job, objects, overwritten, l, made) /\ made \in Nat
    BY CallerHas
  <2> QED BY <2>1, <2>2, KeepsItself, JobEnds
<1>7. GoodMemory(up', files', variants', job', filesLog'.lines, u)
  BY <1>1, <1>2, <1>3, <1>5 DEF GoodMemory
<1>8. GoodBounds(up', filesLog'.lines, u, faults', crashes')
  <2>1. Len(l) \in Nat
    <3>1. l \in Seq(FileLine)
      BY <1>3 DEF GoodFiles, FileLog
    <3> QED BY <3>1, LenProperties
  <2>2. Len(l) + Len(vl) < MaxLines
    BY <1>1 DEF Room
  <2>3. Len(filesLog'.lines) + Len(u) <= MaxLines + 1
    <3> DEFINE a == Len(l)
               b == Len(vl)
               x == Len(filesLog'.lines)
               y == Len(u)
    <3>1. a \in Nat /\ b \in Nat /\ a + b < MaxLines /\ x = a /\ y = b + 1
      BY <1>2, <1>5, <2>1, <2>2
    <3> HIDE DEF a, b, x, y
    <3>2. x + y <= MaxLines + 1
      BY <3>1, MediaFilesAssumption
    <3> QED BY <3>2 DEF x, y
  <2> QED BY <1>2, <1>3, <2>3 DEF GoodBounds
<1>9. /\ GoodFiles(filesLog', objects', overwritten') /\ GoodMedia(mediaLog', filesLog'.lines)
      /\ GoodRecorded(recorded', filesLog'.lines) /\ GoodStorage(objects', overwritten', made')
      /\ GoodJobs(job', objects', overwritten', filesLog'.lines, made')
  BY <1>2, <1>3, <1>5, <1>6
<1> QED BY <1>7, <1>8, <1>9, PartsAfter

-----------------------------------------------------------------------------
(* Faults and restarts.                                                      *)

\* What a part of a line, or a line that memory does not have, leaves of the catalog's log.
FilesCut == \/ UNCHANGED filesLog
            \/ \E c \in Caller : AppendsFile(c) /\ Room /\ filesLog' \in Cut(filesLog, FileEvent(c))
MediaCut == \/ UNCHANGED mediaLog
            \/ \E c \in Caller : AppendsVariant(c) /\ Room /\ mediaLog' \in Cut(mediaLog, VariantEvent(c))

\* The catalog keeps what it has put, and memory what it knows.
LEMMA FilesCutKeeps ==
  ASSUME IndInv, FilesCut
  PROVE  /\ GoodFiles(filesLog', objects, overwritten) /\ KeepsPut(filesLog.lines, filesLog'.lines)
         /\ KnownFiles(filesLog'.lines) = KnownFiles(filesLog.lines)
         /\ filesLog' = filesLog \/ (Room /\ Len(filesLog'.lines) <= Len(filesLog.lines) + 1)
         /\ Len(filesLog.lines) \in Nat /\ Len(filesLog'.lines) \in Nat
<1>1. GoodFiles(filesLog, objects, overwritten)
  BY PartsBefore
<1>2. CASE UNCHANGED filesLog
  <2>1. Len(filesLog.lines) \in Nat
    <3>1. filesLog.lines \in Seq(FileLine)
      BY <1>1 DEF GoodFiles, FileLog
    <3> QED BY <3>1, LenProperties
  <2> QED BY <1>1, <1>2, <2>1, KeepsItself
<1>3. ASSUME NEW c \in Caller, AppendsFile(c), Room, filesLog' \in Cut(filesLog, FileEvent(c))
      PROVE  /\ GoodFiles(filesLog', objects, overwritten)
             /\ KeepsPut(filesLog.lines, filesLog'.lines)
             /\ KnownFiles(filesLog'.lines) = KnownFiles(filesLog.lines)
             /\ Len(filesLog'.lines) <= Len(filesLog.lines) + 1
             /\ Len(filesLog.lines) \in Nat /\ Len(filesLog'.lines) \in Nat
  <2> DEFINE e == FileEvent(c)
  <2>1. LineFits(e, filesLog.lines, objects, overwritten) /\ Unknown(e)
    <3>1. job[c] \in Job /\ Fits(job[c], objects, overwritten, filesLog.lines, made)
          /\ made \in 0..MaxFiles
      BY CallerHas
    <3> QED BY <1>3, <3>1, FileEventFits
  <2>2. filesLog' \in Cut(filesLog, e)
    BY <1>3
  <2> HIDE DEF e
  <2>3. /\ GoodFiles(filesLog', objects, overwritten) /\ KeepsPut(filesLog.lines, filesLog'.lines)
        /\ KnownFiles(filesLog'.lines) = KnownFiles(filesLog.lines)
        /\ Len(filesLog'.lines) <= Len(filesLog.lines) + 1
    BY <1>1, <2>1, <2>2, CutFiles
  <2>4. filesLog.lines \in Seq(FileLine) /\ filesLog'.lines \in Seq(FileLine)
    BY <1>1, <2>3 DEF GoodFiles, FileLog
  <2>5. Len(filesLog.lines) \in Nat /\ Len(filesLog'.lines) \in Nat
    BY <2>4, LenProperties
  <2> QED BY <2>3, <2>5
<1> QED BY <1>2, <1>3 DEF FilesCut

\* So do the variants.
LEMMA MediaCutKeeps ==
  ASSUME IndInv, MediaCut
  PROVE  /\ GoodMedia(mediaLog', filesLog.lines)
         /\ KnownVariants(mediaLog'.lines) = KnownVariants(mediaLog.lines)
         /\ mediaLog' = mediaLog \/ (Room /\ Len(mediaLog'.lines) <= Len(mediaLog.lines) + 1)
         /\ Len(mediaLog.lines) \in Nat /\ Len(mediaLog'.lines) \in Nat
<1>1. GoodMedia(mediaLog, filesLog.lines)
  BY PartsBefore
<1>2. CASE UNCHANGED mediaLog
  <2>1. Len(mediaLog.lines) \in Nat
    <3>1. mediaLog.lines \in Seq(VariantLine)
      BY <1>1 DEF GoodMedia, MediaLog
    <3> QED BY <3>1, LenProperties
  <2> QED BY <1>1, <1>2, <2>1
<1>3. ASSUME NEW c \in Caller, AppendsVariant(c), Room, mediaLog' \in Cut(mediaLog, VariantEvent(c))
      PROVE  /\ GoodMedia(mediaLog', filesLog.lines)
             /\ KnownVariants(mediaLog'.lines) = KnownVariants(mediaLog.lines)
             /\ Len(mediaLog'.lines) <= Len(mediaLog.lines) + 1
             /\ Len(mediaLog.lines) \in Nat /\ Len(mediaLog'.lines) \in Nat
  <2> DEFINE e == VariantEvent(c)
  <2>1. e \in VariantLine /\ VariantTrue(e, filesLog.lines) /\ Unknown(e)
    <3>1. job[c] \in Job /\ Fits(job[c], objects, overwritten, filesLog.lines, made)
      BY CallerHas
    <3> QED BY <1>3, <3>1, VariantEventFits
  <2>2. mediaLog' \in Cut(mediaLog, e)
    BY <1>3
  <2> HIDE DEF e
  <2>3. /\ GoodMedia(mediaLog', filesLog.lines)
        /\ KnownVariants(mediaLog'.lines) = KnownVariants(mediaLog.lines)
        /\ Len(mediaLog'.lines) <= Len(mediaLog.lines) + 1
    BY <1>1, <2>1, <2>2, CutMedia
  <2>4. mediaLog.lines \in Seq(VariantLine) /\ mediaLog'.lines \in Seq(VariantLine)
    BY <1>1, <2>3 DEF GoodMedia, MediaLog
  <2>5. Len(mediaLog.lines) \in Nat /\ Len(mediaLog'.lines) \in Nat
    BY <2>4, LenProperties
  <2> QED BY <2>3, <2>5
<1> QED BY <1>2, <1>3 DEF MediaCut

\* Both logs may be cut short at once, each of them by a line at most.
LEMMA CutsKeep ==
  ASSUME IndInv, FilesCut, MediaCut
  PROVE  /\ GoodFiles(filesLog', objects, overwritten) /\ GoodMedia(mediaLog', filesLog'.lines)
         /\ GoodRecorded(recorded, filesLog'.lines)
         /\ KeepsPut(filesLog.lines, filesLog'.lines)
         /\ KnownFiles(filesLog'.lines) = KnownFiles(filesLog.lines)
         /\ KnownVariants(mediaLog'.lines) = KnownVariants(mediaLog.lines)
         /\ Len(filesLog'.lines) + Len(mediaLog'.lines) <= MaxLines + 1
<1>1. /\ GoodFiles(filesLog', objects, overwritten) /\ KeepsPut(filesLog.lines, filesLog'.lines)
      /\ KnownFiles(filesLog'.lines) = KnownFiles(filesLog.lines)
      /\ filesLog' = filesLog \/ (Room /\ Len(filesLog'.lines) <= Len(filesLog.lines) + 1)
      /\ Len(filesLog.lines) \in Nat /\ Len(filesLog'.lines) \in Nat
  BY FilesCutKeeps
<1>2. /\ GoodMedia(mediaLog', filesLog.lines)
      /\ KnownVariants(mediaLog'.lines) = KnownVariants(mediaLog.lines)
      /\ mediaLog' = mediaLog \/ (Room /\ Len(mediaLog'.lines) <= Len(mediaLog.lines) + 1)
      /\ Len(mediaLog.lines) \in Nat /\ Len(mediaLog'.lines) \in Nat
  BY MediaCutKeeps
<1>3. GoodMedia(mediaLog', filesLog'.lines)
  BY <1>1, <1>2, OutputsStay DEF GoodMedia
<1>4. GoodRecorded(recorded, filesLog'.lines)
  BY <1>1, PartsBefore, RecordedStays
<1>5. Len(filesLog'.lines) + Len(mediaLog'.lines) <= MaxLines + 1
  <2> DEFINE a == Len(filesLog.lines)
             b == Len(mediaLog.lines)
             x == Len(filesLog'.lines)
             y == Len(mediaLog'.lines)
  <2>1. a \in Nat /\ b \in Nat /\ x \in Nat /\ y \in Nat
    BY <1>1, <1>2
  <2>2. x = a \/ (a + b < MaxLines /\ x <= a + 1)
    BY <1>1 DEF Room
  <2>3. y = b \/ (a + b < MaxLines /\ y <= b + 1)
    BY <1>2 DEF Room
  <2>4. a + b <= MaxLines + 1
    BY PartsBefore DEF GoodBounds
  <2> HIDE DEF a, b, x, y
  <2>5. x + y <= MaxLines + 1
    BY <2>1, <2>2, <2>3, <2>4, MediaFilesAssumption
  <2> QED BY <2>5 DEF x, y
<1> QED BY <1>1, <1>2, <1>3, <1>4, <1>5

\* The storage or an append fails.
LEMMA FailsStep ==
  ASSUME IndInv, NEW c \in Caller, Fails(c)
  PROVE  IndInv'
<1>1. /\ up /\ Return(c) /\ faults < MaxFaults /\ faults' = faults + 1
      /\ up' = up /\ files' = files /\ variants' = variants /\ made' = made
      /\ recorded' = recorded /\ crashes' = crashes
  BY DEF Fails, services
<1>2. /\ GoodFiles(filesLog, objects, overwritten) /\ GoodMedia(mediaLog, filesLog.lines)
      /\ GoodRecorded(recorded, filesLog.lines) /\ GoodStorage(objects, overwritten, made)
      /\ GoodMemory(up, files, variants, job, filesLog.lines, mediaLog.lines)
      /\ GoodBounds(up, filesLog.lines, mediaLog.lines, faults, crashes)
      /\ GoodJobs(job, objects, overwritten, filesLog.lines, made) /\ made \in Nat
  BY PartsBefore, CallerHas
<1>3. Moves(job, c, Idle, job')
  BY <1>1 DEF Return, Moves
<1>4. faults' \in 0..MaxFaults
  BY <1>1, <1>2, MediaFilesAssumption DEF GoodBounds
<1>5. CASE FilesCut /\ MediaCut /\ UNCHANGED storage
  <2>1. objects' = objects /\ overwritten' = overwritten
    BY <1>5 DEF storage
  <2>2. /\ GoodFiles(filesLog', objects, overwritten) /\ GoodMedia(mediaLog', filesLog'.lines)
        /\ GoodRecorded(recorded, filesLog'.lines) /\ KeepsPut(filesLog.lines, filesLog'.lines)
        /\ KnownFiles(filesLog'.lines) = KnownFiles(filesLog.lines)
        /\ KnownVariants(mediaLog'.lines) = KnownVariants(mediaLog.lines)
        /\ Len(filesLog'.lines) + Len(mediaLog'.lines) <= MaxLines + 1
    BY <1>5, CutsKeep
  <2>3. GoodJobs(job', objects, overwritten, filesLog'.lines, made)
    BY <1>2, <1>3, <2>2, JobEnds
  <2>4. GoodMemory(up', files', variants', job', filesLog'.lines, mediaLog'.lines)
    BY <1>1, <1>2, <2>2 DEF GoodMemory
  <2>5. GoodBounds(up', filesLog'.lines, mediaLog'.lines, faults', crashes')
    BY <1>1, <1>2, <1>4, <2>2 DEF GoodBounds
  <2>6. /\ GoodFiles(filesLog', objects', overwritten') /\ GoodMedia(mediaLog', filesLog'.lines)
        /\ GoodRecorded(recorded', filesLog'.lines) /\ GoodStorage(objects', overwritten', made')
        /\ GoodJobs(job', objects', overwritten', filesLog'.lines, made')
    BY <1>1, <1>2, <2>1, <2>2, <2>3
  <2> QED BY <2>4, <2>5, <2>6, PartsAfter
<1>6. CASE job[c].pc = "write" /\ Rename(c) /\ UNCHANGED logs
  <2>1. filesLog' = filesLog /\ mediaLog' = mediaLog
    BY <1>6 DEF logs
  <2> DEFINE objs == objects
             over == overwritten
             objs2 == objects'
             over2 == overwritten'
             l == filesLog.lines
             n == made
             jobs == job
             k == job[c].key
             s == job[c].sum
  <2>2. /\ Replaced(objs, over, k, s, objs2, over2)
        /\ k = jobs[c].key /\ s = jobs[c].sum /\ jobs[c].pc = "write"
    BY <1>6 DEF Rename, Replaced
  <2>3. /\ GoodStorage(objs, over, n) /\ GoodJobs(jobs, objs, over, l, n) /\ n \in Nat
    BY <1>2
  <2>4. /\ GoodStorage(objs2, over2, n) /\ KeepsHeld(objs, over, objs2, over2)
        /\ \A x : x.pc # "write" => OthersWrite(jobs, c, x, objs2)
    <3> HIDE DEF objs, over, objs2, over2, l, n, jobs, k, s
    <3> QED BY <2>2, <2>3, Renames
  <2>5. OthersWrite(jobs, c, Idle, objs2)
    <3> DEFINE x == Idle
    <3>1. x.pc # "write"
      BY IdleFits
    <3> HIDE DEF x, objs2, jobs
    <3>2. OthersWrite(jobs, c, x, objs2)
      BY <2>4, <3>1
    <3> QED BY <3>2 DEF x
  <2>6. GoodJobs(job', objs2, over2, l, n)
    <3>1. KeepsPut(l, l)
      BY KeepsItself
    <3> HIDE DEF objs2, over2, objs, over
    <3> QED BY <1>3, <2>3, <2>4, <2>5, <3>1, JobReturns
  <2>7. GoodFiles(filesLog, objs2, over2)
    BY <1>2, <2>4, LinesStayTrue DEF GoodFiles
  <2>8. GoodMemory(up', files', variants', job', filesLog'.lines, mediaLog'.lines)
    BY <1>1, <1>2, <2>1 DEF GoodMemory
  <2>9. GoodBounds(up', filesLog'.lines, mediaLog'.lines, faults', crashes')
    BY <1>1, <1>2, <1>4, <2>1 DEF GoodBounds
  <2>10. /\ GoodFiles(filesLog', objects', overwritten') /\ GoodMedia(mediaLog', filesLog'.lines)
         /\ GoodRecorded(recorded', filesLog'.lines) /\ GoodStorage(objects', overwritten', made')
         /\ GoodJobs(job', objects', overwritten', filesLog'.lines, made')
    BY <1>1, <1>2, <2>1, <2>4, <2>6, <2>7
  <2> QED BY <2>8, <2>9, <2>10, PartsAfter
<1>7. CASE UNCHANGED <<logs, storage>>
  BY <1>5, <1>7 DEF FilesCut, MediaCut, logs
<1>8. CASE /\ AppendsFile(c) /\ Room
           /\ filesLog' \in Cut(filesLog, FileEvent(c))
           /\ UNCHANGED <<mediaLog, storage>>
  BY <1>5, <1>8 DEF FilesCut, MediaCut
<1>9. CASE /\ AppendsVariant(c) /\ Room
           /\ mediaLog' \in Cut(mediaLog, VariantEvent(c))
           /\ UNCHANGED <<filesLog, storage>>
  BY <1>5, <1>9 DEF FilesCut, MediaCut
<1>10. \/ UNCHANGED <<logs, storage>>
       \/ job[c].pc = "write" /\ Rename(c) /\ UNCHANGED logs
       \/ /\ AppendsFile(c) /\ Room
          /\ filesLog' \in Cut(filesLog, FileEvent(c))
          /\ UNCHANGED <<mediaLog, storage>>
       \/ /\ AppendsVariant(c) /\ Room
          /\ mediaLog' \in Cut(mediaLog, VariantEvent(c))
          /\ UNCHANGED <<filesLog, storage>>
  BY DEF Fails
<1> QED BY <1>6, <1>7, <1>8, <1>9, <1>10

\* Nobody has anything in its hands while the process is down.
LEMMA NobodyHas ==
  ASSUME NEW jobs \in [Caller -> Job], \A c \in Caller : jobs[c] = Idle,
         NEW objs, NEW over, NEW l, NEW n
  PROVE  GoodJobs(jobs, objs, over, l, n)
<1>1. \A c \in Caller : Fits(jobs[c], objs, over, l, n) /\ jobs[c].pc = "idle"
  BY IdleFits
<1> QED BY <1>1 DEF GoodJobs, AllFit, OwnWrites

\* The process crashes, in the middle of any append.
LEMMA CrashStep ==
  ASSUME IndInv, Crash
  PROVE  IndInv'
<1>1. /\ crashes < MaxCrashes /\ crashes' = crashes + 1 /\ up' = FALSE
      /\ job' = [c \in Caller |-> Idle] /\ files' = Nothing /\ variants' = Nothing
      /\ objects' = objects /\ overwritten' = overwritten /\ made' = made
      /\ recorded' = recorded /\ faults' = faults
  BY DEF Crash, storage
<1>2. FilesCut /\ MediaCut
  BY DEF Crash, FilesCut, MediaCut
<1>3. /\ GoodStorage(objects, overwritten, made)
      /\ GoodBounds(up, filesLog.lines, mediaLog.lines, faults, crashes)
  BY PartsBefore
<1>4. /\ GoodFiles(filesLog', objects, overwritten) /\ GoodMedia(mediaLog', filesLog'.lines)
      /\ GoodRecorded(recorded, filesLog'.lines)
      /\ Len(filesLog'.lines) + Len(mediaLog'.lines) <= MaxLines + 1
  BY <1>2, CutsKeep
<1>5. GoodJobs(job', objects', overwritten', filesLog'.lines, made')
  <2>1. job' \in [Caller -> Job] /\ \A c \in Caller : job'[c] = Idle
    BY <1>1, IdleFits
  <2> QED BY <2>1, NobodyHas
<1>6. GoodMemory(up', files', variants', job', filesLog'.lines, mediaLog'.lines)
  BY <1>1 DEF GoodMemory
<1>7. GoodBounds(up', filesLog'.lines, mediaLog'.lines, faults', crashes')
  <2>1. crashes' \in 0..MaxCrashes /\ faults' \in 0..MaxFaults
    <3>1. crashes \in 0..MaxCrashes /\ faults \in 0..MaxFaults
      BY <1>3 DEF GoodBounds
    <3> QED BY <1>1, <3>1, MediaFilesAssumption
  <2> QED BY <1>1, <1>4, <2>1 DEF GoodBounds
<1>8. /\ GoodFiles(filesLog', objects', overwritten') /\ GoodMedia(mediaLog', filesLog'.lines)
      /\ GoodRecorded(recorded', filesLog'.lines) /\ GoodStorage(objects', overwritten', made')
  BY <1>1, <1>3, <1>4
<1> QED BY <1>5, <1>6, <1>7, <1>8, PartsAfter

\* A process that has read the logs has every line of them.
LEMMA KnownLog ==
  ASSUME NEW A, NEW log \in [lines : Seq(A), torn : BOOLEAN], NEW u, u = Read(log.lines), u \in Seq(A)
  PROVE  Known(log) \in [lines : Seq(A), torn : BOOLEAN] /\ Known(log).lines = u
<1> DEFINE x == [i \in DOMAIN log.lines |-> [log.lines[i] EXCEPT !.known = TRUE]]
<1>1. x = u
  BY DEF Read, LineKnown
<1>2. Known(log) = [log EXCEPT !.lines = x]
  BY DEF Known
<1> HIDE DEF x
<1> QED BY <1>1, <1>2

\* A catalog whose lines have been read is as good as it was.
LEMMA KnownFilesLog ==
  ASSUME NEW fl, NEW objs, NEW over, GoodFiles(fl, objs, over), NEW fl2, fl2 = Known(fl)
  PROVE  /\ GoodFiles(fl2, objs, over) /\ KeepsPut(fl.lines, fl2.lines)
         /\ KnownFiles(fl2.lines) = ReplayFiles(fl.lines) /\ Len(fl2.lines) = Len(fl.lines)
<1> DEFINE l == fl.lines
           u == Read(l)
<1>1. fl \in FileLog /\ l \in Seq(FileLine) /\ AllTrue(l, objs, over) /\ DeletesFollow(l)
  BY DEF GoodFiles, FileLog
<1>2. /\ u \in Seq(FileLine) /\ ReplayFiles(l) = KnownFiles(u)
      /\ DOMAIN u = DOMAIN l /\ \A i \in DOMAIN l : ReadFile(l[i], u[i])
  BY <1>1, ReadFiles
<1>3. fl2 \in FileLog /\ fl2.lines = u
  <2> DEFINE A == FileLine
  <2>1. fl \in [lines : Seq(A), torn : BOOLEAN] /\ u \in Seq(A) /\ u = Read(fl.lines)
    BY <1>1, <1>2 DEF FileLog
  <2> HIDE DEF A, u
  <2>2. Known(fl) \in [lines : Seq(A), torn : BOOLEAN] /\ Known(fl).lines = u
    BY <2>1, KnownLog
  <2> QED BY <2>2 DEF A, FileLog
<1> HIDE DEF u, l
<1>4. \A i \in DOMAIN l : /\ u[i].known = TRUE /\ u[i].op = l[i].op /\ u[i].id = l[i].id
                          /\ u[i].key = l[i].key /\ u[i].sum = l[i].sum
  BY <1>2 DEF ReadFile
<1>5. AllTrue(u, objs, over)
  BY <1>1, <1>2, <1>4 DEF AllTrue, LineTrue
<1>6. KeepsPut(l, u)
  BY <1>2, <1>4 DEF KeepsPut, PutIn
<1>7. PICK k \in Nat : DOMAIN l = 1..k
  BY <1>1
<1>8. DeletesFollow(u)
  <2> SUFFICES ASSUME NEW n \in DOMAIN u, u[n].op = "delete"
               PROVE  \E m \in 1..(n - 1) : u[m].op = "put" /\ u[m].id = u[n].id /\ u[m].known
    BY DEF DeletesFollow
  <2>1. n \in 1..k /\ n \in DOMAIN l /\ l[n].op = "delete"
    BY <1>2, <1>4, <1>7
  <2>2. PICK m \in 1..(n - 1) : l[m].op = "put" /\ l[m].id = l[n].id /\ l[m].known
    BY <1>1, <2>1 DEF DeletesFollow
  <2>3. m \in DOMAIN l
    BY <1>7, <2>1
  <2> QED BY <1>4, <2>1, <2>2, <2>3
<1>9. Len(u) = Len(l)
  BY <1>1, <1>2, LenProperties
<1> QED BY <1>2, <1>3, <1>5, <1>6, <1>8, <1>9 DEF GoodFiles, l

\* So is the log of variants.
LEMMA KnownMediaLog ==
  ASSUME NEW ml, NEW l, GoodMedia(ml, l), NEW ml2, ml2 = Known(ml)
  PROVE  /\ GoodMedia(ml2, l)
         /\ KnownVariants(ml2.lines) = ReplayVariants(ml.lines) /\ Len(ml2.lines) = Len(ml.lines)
<1> DEFINE vl == ml.lines
           u == Read(vl)
<1>1. ml \in MediaLog /\ vl \in Seq(VariantLine) /\ OutputsIn(vl, l)
  BY DEF GoodMedia, MediaLog
<1>2. /\ u \in Seq(VariantLine) /\ ReplayVariants(vl) = KnownVariants(u)
      /\ DOMAIN u = DOMAIN vl /\ \A i \in DOMAIN vl : ReadVariant(vl[i], u[i])
  BY <1>1, ReadVariants
<1>3. ml2 \in MediaLog /\ ml2.lines = u
  <2> DEFINE A == VariantLine
  <2>1. ml \in [lines : Seq(A), torn : BOOLEAN] /\ u \in Seq(A) /\ u = Read(ml.lines)
    BY <1>1, <1>2 DEF MediaLog
  <2> HIDE DEF A, u
  <2>2. Known(ml) \in [lines : Seq(A), torn : BOOLEAN] /\ Known(ml).lines = u
    BY <2>1, KnownLog
  <2> QED BY <2>2 DEF A, MediaLog
<1> HIDE DEF u, vl
<1>4. \A i \in DOMAIN vl : u[i].variant = vl[i].variant
  BY <1>2 DEF ReadVariant
<1>5. OutputsIn(u, l)
  BY <1>1, <1>2, <1>4 DEF OutputsIn, VariantTrue
<1>6. Len(u) = Len(vl)
  BY <1>1, <1>2, LenProperties
<1> QED BY <1>2, <1>3, <1>5, <1>6 DEF GoodMedia, vl

\* The process starts again, and replays both logs.
LEMMA ReopenStep ==
  ASSUME IndInv, Reopen
  PROVE  IndInv'
<1>1. /\ ~up /\ up' = TRUE
      /\ files' = ReplayFiles(filesLog.lines) /\ filesLog' = Known(filesLog)
      /\ variants' = ReplayVariants(mediaLog.lines) /\ mediaLog' = Known(mediaLog)
      /\ objects' = objects /\ overwritten' = overwritten /\ job' = job /\ made' = made
      /\ recorded' = recorded /\ faults' = faults /\ crashes' = crashes
  BY DEF Reopen, storage, bounds
<1>2. /\ GoodFiles(filesLog, objects, overwritten) /\ GoodMedia(mediaLog, filesLog.lines)
      /\ GoodRecorded(recorded, filesLog.lines) /\ GoodStorage(objects, overwritten, made)
      /\ GoodMemory(up, files, variants, job, filesLog.lines, mediaLog.lines)
      /\ GoodBounds(up, filesLog.lines, mediaLog.lines, faults, crashes)
      /\ GoodJobs(job, objects, overwritten, filesLog.lines, made)
  BY PartsBefore
<1>3. /\ GoodFiles(filesLog', objects, overwritten) /\ KeepsPut(filesLog.lines, filesLog'.lines)
      /\ KnownFiles(filesLog'.lines) = files' /\ Len(filesLog'.lines) = Len(filesLog.lines)
  BY <1>1, <1>2, KnownFilesLog
<1>4. /\ GoodMedia(mediaLog', filesLog.lines)
      /\ KnownVariants(mediaLog'.lines) = variants' /\ Len(mediaLog'.lines) = Len(mediaLog.lines)
  BY <1>1, <1>2, KnownMediaLog
<1>5. GoodMedia(mediaLog', filesLog'.lines)
  BY <1>3, <1>4, OutputsStay DEF GoodMedia
<1>6. GoodRecorded(recorded', filesLog'.lines)
  BY <1>1, <1>2, <1>3, RecordedStays
<1>7. GoodJobs(job', objects', overwritten', filesLog'.lines, made')
  <2>1. job \in [Caller -> Job] /\ \A c \in Caller : job[c] = Idle
    BY <1>1, <1>2 DEF GoodMemory, GoodJobs
  <2> QED BY <1>1, <2>1, NobodyHas
<1>8. GoodMemory(up', files', variants', job', filesLog'.lines, mediaLog'.lines)
  BY <1>1, <1>3, <1>4 DEF GoodMemory
<1>9. GoodBounds(up', filesLog'.lines, mediaLog'.lines, faults', crashes')
  BY <1>1, <1>2, <1>3, <1>4 DEF GoodBounds
<1>10. GoodFiles(filesLog', objects', overwritten') /\ GoodStorage(objects', overwritten', made')
  BY <1>1, <1>2, <1>3
<1> QED BY <1>5, <1>6, <1>7, <1>8, <1>9, <1>10, PartsAfter

-----------------------------------------------------------------------------
(* The theorems.                                                             *)

\* One line is in the log at first, of a file that was stored before.
LEMMA InitInv ==
  ASSUME Init
  PROVE  IndInv
<1>1. PICK sum \in Content :
          /\ files = [i \in ID |-> IF i = 1 THEN [key |-> 1, sum |-> sum, deleted |-> FALSE]
                                  ELSE Absent]
          /\ filesLog = [lines |-> <<Stored(sum)>>, torn |-> FALSE]
          /\ objects = [k \in Key |-> IF k = 1 THEN sum ELSE Absent]
  BY DEF Init
<1>2. /\ up = TRUE /\ variants = [i \in ID |-> Absent]
      /\ mediaLog = [lines |-> <<>>, torn |-> FALSE]
      /\ job = [c \in Caller |-> Idle] /\ made = 1 /\ overwritten = {} /\ recorded = {1}
      /\ faults = 0 /\ crashes = 0
  BY DEF Init
<1> DEFINE e == Stored(sum)
           l == <<e>>
           none == << >>
<1>3. 1 \in ID /\ 1 \in Key /\ Absent \notin Content
  BY MediaFilesAssumption DEF ID, Key
<1>4. /\ e \in FileLine /\ e.op = "put" /\ e.known = TRUE /\ e.id = 1 /\ e.key = 1 /\ e.sum = sum
  BY <1>3 DEF Stored, FileLine
<1>5. l = Append(none, e) /\ none \in Seq(FileLine) /\ none \in Seq(VariantLine) /\ Len(none) = 0
      /\ Len(l) = 1 /\ DOMAIN l = {1} /\ l[1] = e /\ DOMAIN none = {}
  OBVIOUS
<1>6. filesLog.lines = l /\ mediaLog.lines = none /\ filesLog.torn = FALSE /\ mediaLog.torn = FALSE
  BY <1>1, <1>2
<1>7. KnownFiles(none) = Nothing /\ KnownVariants(none) = Nothing
  <2>1. 0 \in Nat /\ DOMAIN none = 1..0
    OBVIOUS
  <2> HIDE DEF none
  <2>2. KnownFiles(none) = FilesAt(none, 0) /\ KnownVariants(none) = VariantsAt(none, 0)
    BY <2>1, ReplaysAre DEF FilesAt, VariantsAt
  <2> QED BY <2>1, <2>2, FilesAtStep, VariantsAtStep
<1> HIDE DEF e, l, none
<1>8. KnownFiles(l) = files
  <2> DEFINE r == [key |-> e.key, sum |-> e.sum, deleted |-> FALSE]
  <2>1. KnownFiles(l) = ApplyKnownFile(Nothing, e)
    <3> DEFINE B == FileLine
    <3>1. none \in Seq(B) /\ e \in B
      BY <1>4, <1>5
    <3> HIDE DEF B
    <3>2. KnownFiles(Append(none, e)) = ApplyKnownFile(KnownFiles(none), e)
      BY <3>1, OneMore
    <3> QED BY <1>5, <1>7, <3>2
  <2>2. ApplyKnownFile(Nothing, e) = [Nothing EXCEPT ![1] = r]
    BY <1>4 DEF ApplyKnownFile, ApplyFile
  <2>3. files = [i \in ID |-> IF i = 1 THEN r ELSE Absent]
    BY <1>1, <1>4
  <2> HIDE DEF r
  <2>4. files = [Nothing EXCEPT ![1] = r]
    BY <2>3 DEF Nothing
  <2> QED BY <2>1, <2>2, <2>4
<1>9. MemoryIsKnown
  BY <1>2, <1>6, <1>7, <1>8 DEF MemoryIsKnown, Nothing
<1>10. Holds(1, sum) /\ Put(1)
  BY <1>1, <1>3, <1>4, <1>5, <1>6 DEF Holds, Put
<1>11. LogsHaveLines
  <2>1. l \in Seq(FileLine)
    <3>1. l = [i \in 1..1 |-> e]
      BY DEF l
    <3>2. l \in [1..1 -> FileLine]
      BY <1>4, <3>1
    <3> QED BY <3>2, SeqDef
  <2>2. filesLog = [lines |-> l, torn |-> FALSE] /\ mediaLog = [lines |-> none, torn |-> FALSE]
    BY <1>1, <1>2 DEF l, e, none
  <2> QED BY <1>5, <2>1, <2>2 DEF LogsHaveLines
<1>12. DeletesFollow(l)
  BY <1>4, <1>5 DEF DeletesFollow
<1>13. LinesAreTrue
  <2>1. \A n \in DOMAIN l : l[n].op = "put" => Holds(l[n].key, l[n].sum)
    BY <1>4, <1>5, <1>10
  <2>2. \A i \in recorded : Put(i)
    BY <1>2, <1>10
  <2> QED BY <1>6, <1>12, <2>1, <2>2 DEF LinesAreTrue
<1>14. OutputsAreThere
  BY <1>5, <1>6 DEF OutputsAreThere
<1>15. FreshIDs
  <2>1. \A i \in ID : i > made => objects[i] = Absent
    BY <1>1, <1>2 DEF ID, Key
  <2>2. \A c \in Caller : job[c].pc = "idle"
    BY <1>2 DEF Idle
  <2> QED BY <2>1, <2>2 DEF FreshIDs
<1>16. \A c \in Caller : JobFits(c)
  <2>1. \A c \in Caller : job[c].pc = "idle"
    BY <1>2 DEF Idle
  <2> QED BY <2>1 DEF JobFits
<1>17. TypeOK
  <2>1. files \in [ID -> Recorded \cup {Absent}]
    <3> DEFINE r == [key |-> 1, sum |-> sum, deleted |-> FALSE]
    <3>1. r \in Recorded
      BY <1>3 DEF Recorded
    <3>2. files = [i \in ID |-> IF i = 1 THEN r ELSE Absent]
      BY <1>1
    <3> HIDE DEF r
    <3> QED BY <3>1, <3>2
  <2>2. objects \in [Key -> Content \cup {Absent}] /\ variants \in [ID -> Variant \cup {Absent}]
    BY <1>1, <1>2
  <2>3. job \in [Caller -> Job]
    BY <1>2, IdleFits
  <2>4. Len(filesLog.lines) + Len(mediaLog.lines) <= MaxLines + 1
    BY <1>5, <1>6, MediaFilesAssumption
  <2>5. /\ made \in 0..MaxFiles /\ faults \in 0..MaxFaults /\ crashes \in 0..MaxCrashes
        /\ recorded \subseteq ID /\ overwritten \subseteq Named /\ up \in BOOLEAN
    BY <1>2, <1>3, MediaFilesAssumption
  <2>6. filesLog.torn \in BOOLEAN /\ mediaLog.torn \in BOOLEAN
    BY <1>6
  <2> QED BY <2>1, <2>2, <2>3, <2>4, <2>5, <2>6 DEF TypeOK
<1> QED BY <1>9, <1>11, <1>13, <1>14, <1>15, <1>16, <1>17 DEF IndInv

\* Every step keeps the invariant.
LEMMA NextInv ==
  ASSUME IndInv, [Next]_vars
  PROVE  IndInv'
<1>1. CASE UNCHANGED vars
  <2>1. UNCHANGED <<up, services, logs, storage, job, made, recorded, bounds>>
    BY <1>1 DEF vars
  <2>2. /\ up' = up /\ files' = files /\ variants' = variants /\ filesLog' = filesLog
        /\ mediaLog' = mediaLog /\ objects' = objects /\ overwritten' = overwritten
        /\ job' = job /\ made' = made /\ recorded' = recorded /\ faults' = faults
        /\ crashes' = crashes
    BY <2>1 DEF services, logs, storage, bounds
  <2>3. /\ GoodFiles(filesLog', objects', overwritten') /\ GoodMedia(mediaLog', filesLog'.lines)
        /\ GoodRecorded(recorded', filesLog'.lines) /\ GoodStorage(objects', overwritten', made')
        /\ GoodJobs(job', objects', overwritten', filesLog'.lines, made')
        /\ GoodMemory(up', files', variants', job', filesLog'.lines, mediaLog'.lines)
        /\ GoodBounds(up', filesLog'.lines, mediaLog'.lines, faults', crashes')
    BY <2>2, PartsBefore
  <2> QED BY <2>3, PartsAfter
<1>2. ASSUME NEW c \in Caller,
             \/ Upload(c) \/ WriteObject(c) \/ Record(c) \/ Delete(c)
             \/ FindFile(c) \/ OpenSource(c) \/ Process(c) \/ SaveVariant(c) \/ Fails(c)
      PROVE  IndInv'
  <2>1. FindFile(c) => IndInv'
    <3> SUFFICES ASSUME FindFile(c) PROVE IndInv'
      OBVIOUS
    <3>1. up /\ Return(c) /\ UNCHANGED <<up, services, logs, storage, made, recorded, bounds>>
      BY DEF FindFile, At
    <3> QED BY <3>1, ReturnStep
  <2> QED BY <1>2, <2>1, UploadStep, WriteObjectStep, RecordStep, DeleteStep, OpenSourceStep,
             ProcessStep, SaveVariantStep, FailsStep
<1>3. ASSUME NEW c \in Caller, NEW i \in ID,
             \/ StartDelete(c, i) \/ StartDeleteVariant(c, i)
             \/ \E regenerate \in BOOLEAN : StartVariant(c, i, regenerate)
      PROVE  IndInv'
  BY <1>3, StartDeleteStep, StartDeleteVariantStep, StartVariantStep
<1>4. CASE Crash
  BY <1>4, CrashStep
<1>5. CASE Reopen
  BY <1>5, ReopenStep
<1>6. CASE Next
  BY <1>2, <1>3, <1>4, <1>5, <1>6 DEF Next
<1> QED BY <1>1, <1>6

\* The invariant holds of every state of the specification.
THEOREM Invariance == Spec => []IndInv
<1>1. Init => IndInv
  BY InitInv
<1>2. IndInv /\ [Next]_vars => IndInv'
  BY NextInv
<1> QED BY <1>1, <1>2, PTL DEF Spec

\* What the invariant says of memory and the logs.
LEMMA LogsFollow ==
  ASSUME IndInv
  PROVE  MemoryFollowsLogs
<1>1. /\ GoodFiles(filesLog, objects, overwritten) /\ GoodMedia(mediaLog, filesLog.lines)
      /\ GoodRecorded(recorded, filesLog.lines)
      /\ GoodMemory(up, files, variants, job, filesLog.lines, mediaLog.lines)
  BY PartsBefore
<1>2. TypeOK
  BY DEF IndInv
<1>3. up => files = KnownFiles(filesLog.lines) /\ variants = KnownVariants(mediaLog.lines)
  BY <1>1 DEF GoodMemory
<1>4. \A i \in recorded : Lines(filesLog, "put", i) # {} /\ i \in ID
  BY <1>1, <1>2 DEF GoodRecorded, PutIn, Lines, TypeOK
<1>5. ASSUME up, NEW i \in recorded PROVE Found(i) \/ Lines(filesLog, "delete", i) # {}
  <2>1. files = KnownFiles(filesLog.lines) /\ i \in ID /\ PutIn(filesLog.lines, i)
    BY <1>1, <1>3, <1>4, <1>5 DEF GoodRecorded
  <2>2. files[i] # Absent
    BY <1>1, <2>1, MapsOf
  <2>3. CASE files[i].deleted
    <3>1. \E n \in DOMAIN filesLog.lines :
              filesLog.lines[n].op = "delete" /\ filesLog.lines[n].id = i
      BY <1>1, <2>1, <2>2, <2>3, MapsOf
    <3> QED BY <3>1 DEF Lines
  <2> QED BY <2>2, <2>3 DEF Found
<1> QED BY <1>2, <1>3, <1>4, <1>5 DEF MemoryFollowsLogs

\* What it says of the files in the catalog.
LEMMA Servable ==
  ASSUME IndInv
  PROVE  FilesAreServable
<1>1. /\ GoodFiles(filesLog, objects, overwritten) /\ GoodMedia(mediaLog, filesLog.lines)
      /\ GoodMemory(up, files, variants, job, filesLog.lines, mediaLog.lines)
      /\ GoodStorage(objects, overwritten, made)
  BY PartsBefore
<1> SUFFICES ASSUME NEW i \in ID
             PROVE  /\ files[i] # Absent =>
                          objects[files[i].key] \in {files[i].sum} \cup
                              (IF files[i].key \in overwritten THEN Content ELSE {})
                    /\ variants[i] # Absent /\ variants[i].status = "ready" =>
                          files[variants[i].output] # Absent
  BY DEF FilesAreServable
<1>2. CASE up
  <2>1. files = KnownFiles(filesLog.lines) /\ variants = KnownVariants(mediaLog.lines)
    BY <1>1, <1>2 DEF GoodMemory
  <2>2. ASSUME files[i] # Absent
        PROVE  objects[files[i].key] \in {files[i].sum} \cup
                   (IF files[i].key \in overwritten THEN Content ELSE {})
    <3>1. HeldIn(objects, overwritten, files[i].key, files[i].sum)
      BY <1>1, <2>1, <2>2, MapsOf
    <3>2. objects[files[i].key] \in Content \cup {Absent}
      BY <1>1, <3>1 DEF HeldIn, GoodStorage
    <3> QED BY <3>1, <3>2 DEF HeldIn
  <2>3. ASSUME variants[i] # Absent, variants[i].status = "ready"
        PROVE  files[variants[i].output] # Absent
    <3>1. variants[i].output \in ID /\ PutIn(filesLog.lines, variants[i].output)
      BY <1>1, <2>1, <2>3, MapsOf
    <3> QED BY <1>1, <2>1, <3>1, MapsOf
  <2> QED BY <2>2, <2>3
<1>3. CASE ~up
  BY <1>1, <1>3 DEF GoodMemory, Nothing
<1> QED BY <1>2, <1>3

\* Memory is what the logs say, also after a crash, an append that fails and a replay.
THEOREM RecordsSurvive == Spec => []MemoryFollowsLogs
<1>1. IndInv => MemoryFollowsLogs
  BY LogsFollow
<1> QED BY <1>1, Invariance, PTL

\* A file in the catalog has its bytes and a ready variant has its output.
THEOREM FilesServed == Spec => []FilesAreServable
<1>1. IndInv => FilesAreServable
  BY Servable
<1> QED BY <1>1, Invariance, PTL

=============================================================================
