---------------------------- MODULE LazyDeps_proofs ----------------------------
(* Theorems about the Scope, for any goroutines, services and Shutdowns,       *)
(* whatever stop functions hang and whatever deadlines expire.                 *)
EXTENDS LazyDeps, SequenceTheorems, WellFoundedInduction, TLAPS

USE NameAssumption, DepsAssumption

\* A set of natural numbers that is not empty has a smallest element.
LEMMA SmallestExists ==
  ASSUME NEW S, S \subseteq Nat, S # {}
  PROVE  \E x \in S : \A y \in S : x <= y
<1> DEFINE less == {ss \in Nat \X Nat : ss[1] < ss[2]}
<1>1. IsWellFoundedOn(less, Nat)
  BY NatLessThanWellFounded DEF OpToRel
<1> HIDE DEF less
<1>2. PICK x \in S : \A y \in S : <<y, x>> \notin less
  BY <1>1, WFMin
<1>3. ASSUME NEW y \in S PROVE x <= y
  <2>1. x \in Nat /\ y \in Nat /\ <<y, x>> \in Nat \X Nat
    OBVIOUS
  <2>2. y < x => <<y, x>> \in less
    BY <2>1 DEF less
  <2> QED BY <1>2, <2>1, <2>2
<1> QED BY <1>3

\* Taking an element out of a sequence.
Without(s, i) == SubSeq(s, 1, i - 1) \o SubSeq(s, i + 1, Len(s))

\* What taking one element out of a sequence leaves.
LEMMA Removal ==
  ASSUME NEW T, NEW s \in Seq(T), NEW i \in 1..Len(s)
  PROVE  /\ Without(s, i) \in Seq(T) /\ Len(Without(s, i)) = Len(s) - 1
         /\ \A j \in 1..(Len(s) - 1) :
               Without(s, i)[j] = IF j < i THEN s[j] ELSE s[j + 1]
<1> DEFINE a == SubSeq(s, 1, i - 1)
           b == SubSeq(s, i + 1, Len(s))
<1>1. a \in Seq(T) /\ Len(a) = i - 1 /\ \A j \in 1..(i - 1) : a[j] = s[j]
  OBVIOUS
<1>2. b \in Seq(T) /\ Len(b) = Len(s) - i /\ \A j \in 1..(Len(s) - i) : b[j] = s[i + j]
  OBVIOUS
<1> HIDE DEF a, b
<1>3. a \o b \in Seq(T) /\ Len(a \o b) = Len(s) - 1
  <2>1. a \o b \in Seq(T) /\ Len(a \o b) = Len(a) + Len(b)
    BY <1>1, <1>2, ConcatProperties
  <2>2. Len(s) \in Nat /\ i \in Nat
    OBVIOUS
  <2> QED BY <1>1, <1>2, <2>1, <2>2
<1>4. \A j \in 1..(Len(s) - 1) : (a \o b)[j] = IF j <= Len(a) THEN a[j] ELSE b[j - Len(a)]
  BY <1>1, <1>2, ConcatProperties
<1>5. \A j \in 1..(Len(s) - 1) : (a \o b)[j] = IF j < i THEN s[j] ELSE s[j + 1]
  BY <1>1, <1>2, <1>4
<1> QED BY <1>3, <1>5 DEF a, b, Without

\* The top initializer of a goroutine is on the Scope's stack, once, so end
\* takes that occurrence away.
LEMMA EndTakesTheName ==
  ASSUME IndInv, NEW c \in Caller, NEW n \in Name, Running(c, n), EndCurrent(n)
  PROVE  \E i \in 1..Len(current) :
            /\ current[i] = n
            /\ current' \in Seq(Name) /\ Len(current') = Len(current) - 1
            /\ \A j \in 1..(Len(current) - 1) :
                  current'[j] = IF j < i THEN current[j] ELSE current[j + 1]
<1>1. current \in Seq(Name) /\ frames[c] \in Seq(Name)
  BY DEF IndInv, TypeOK
<1>2. Len(frames[c]) \in 1..Len(frames[c]) /\ frames[c][Len(frames[c])] = n
  BY <1>1 DEF Running, Top
<1>3. PICK i \in 1..Len(current) : current[i] = n
  BY <1>2 DEF IndInv, StacksAgree, FramesAreCurrent
<1>4. \A j \in 1..Len(current) : current[j] = n => j = i
  BY <1>3 DEF IndInv, StacksAgree, OnceOnCurrent
<1>5. i = CHOOSE k \in 1..Len(current) :
             current[k] = n /\ \A j \in (k + 1)..Len(current) : current[j] # n
  <2> DEFINE P(k) == current[k] = n /\ \A j \in (k + 1)..Len(current) : current[j] # n
  <2>1. P(i)
    BY <1>1, <1>3, <1>4
  <2>2. \A k \in 1..Len(current) : P(k) => k = i
    BY <1>4
  <2> HIDE DEF P
  <2>3. i = CHOOSE k \in 1..Len(current) : P(k)
    BY <2>1, <2>2
  <2> QED BY <2>3 DEF P
<1>6. current' = Without(current, i)
  BY <1>5 DEF EndCurrent, Without
<1>7. /\ Without(current, i) \in Seq(Name) /\ Len(Without(current, i)) = Len(current) - 1
      /\ \A j \in 1..(Len(current) - 1) :
            Without(current, i)[j] = IF j < i THEN current[j] ELSE current[j + 1]
  BY <1>1, Removal
<1>8. /\ current' \in Seq(Name) /\ Len(current') = Len(current) - 1
      /\ \A j \in 1..(Len(current) - 1) :
            current'[j] = IF j < i THEN current[j] ELSE current[j + 1]
  BY <1>6, <1>7
<1> QED BY <1>3, <1>8

\* The goroutine's own stack loses its top.
LEMMA PopShortens ==
  ASSUME NEW s \in Seq(Name), s # <<>>
  PROVE  /\ Pop(s) \in Seq(Name) /\ Len(Pop(s)) = Len(s) - 1
         /\ \A i \in 1..(Len(s) - 1) : Pop(s)[i] = s[i]
<1> DEFINE l == Len(s) - 1
<1>1. Len(s) \in Nat \ {0} /\ \A i \in 1..l : s[i] \in Name
  BY EmptySeq
<1>2. l \in Nat /\ 1 \in Int
  BY <1>1
<1> HIDE DEF l
<1>3. /\ SubSeq(s, 1, l) \in Seq(Name)
      /\ Len(SubSeq(s, 1, l)) = IF 1 <= l THEN l - 1 + 1 ELSE 0
      /\ \A i \in 1..(l - 1 + 1) : SubSeq(s, 1, l)[i] = s[1 + i - 1]
  BY <1>1, <1>2, SubSeqProperties
<1>4. l - 1 + 1 = l /\ \A i \in 1..l : 1 + i - 1 = i
  BY <1>2
<1> QED BY <1>2, <1>3, <1>4 DEF Pop, l

\* What end and the pop of the goroutine's stack leave of the stacks.
LEMMA EndStacks ==
  ASSUME IndInv, NEW c \in Caller, NEW n \in Name, Running(c, n), EndCurrent(n),
         frames' = [frames EXCEPT ![c] = Pop(@)], overlapped' = overlapped
  PROVE  /\ current' \in Seq(Name) /\ frames' \in [Caller -> Seq(Name)]
         /\ \A i \in 1..Len(current') : current'[i] \in services \ (refs \cup {n})
         /\ OnceOnCurrent' /\ FramesAreCurrent' /\ OnceInFrames' /\ OneStack'
         /\ n \in services \ refs
<1>0. /\ OnceOnCurrent /\ CurrentIsPending /\ FramesAreCurrent /\ OnceInFrames
      /\ OneStack /\ TypeOK
  BY DEF IndInv, StacksAgree
<1>1. PICK k \in 1..Len(current) :
         /\ current[k] = n
         /\ current' \in Seq(Name) /\ Len(current') = Len(current) - 1
         /\ \A j \in 1..(Len(current) - 1) :
               current'[j] = IF j < k THEN current[j] ELSE current[j + 1]
  BY EndTakesTheName
<1>2. /\ current \in Seq(Name) /\ frames \in [Caller -> Seq(Name)]
      /\ Len(current) \in Nat /\ \A g \in Caller : Len(frames[g]) \in Nat
  BY <1>0 DEF TypeOK
<1>3. /\ Pop(frames[c]) \in Seq(Name) /\ Len(Pop(frames[c])) = Len(frames[c]) - 1
      /\ \A i \in 1..(Len(frames[c]) - 1) : Pop(frames[c])[i] = frames[c][i]
      /\ frames[c] # <<>> /\ frames[c][Len(frames[c])] = n
      /\ Len(frames[c]) \in 1..Len(frames[c])
  BY <1>2, PopShortens DEF Running, Top
<1>4. frames'[c] = Pop(frames[c]) /\ \A g \in Caller \ {c} : frames'[g] = frames[g]
  BY <1>2
<1>5. frames' \in [Caller -> Seq(Name)]
  BY <1>2, <1>3
<1>6. \A g \in Caller : \A i \in 1..Len(frames'[g]) :
         i \in 1..Len(frames[g]) /\ frames'[g][i] = frames[g][i] /\ frames[g][i] # n
  <2> SUFFICES ASSUME NEW g \in Caller, NEW i \in 1..Len(frames'[g])
               PROVE  i \in 1..Len(frames[g]) /\ frames'[g][i] = frames[g][i] /\ frames[g][i] # n
    OBVIOUS
  <2>1. i \in 1..Len(frames[g]) /\ frames'[g][i] = frames[g][i]
    BY <1>2, <1>3, <1>4
  <2>2. g = c => i # Len(frames[c])
    BY <1>2, <1>3, <1>4
  <2>3. frames[g][i] # n
    <3>1. \A j \in 1..Len(frames[g]), l \in 1..Len(frames[c]) :
             frames[g][j] = frames[c][l] => g = c /\ j = l
      BY <1>0 DEF OnceInFrames
    <3>2. Len(frames[c]) \in 1..Len(frames[c]) /\ frames[c][Len(frames[c])] = n
      BY <1>3
    <3>3. frames[g][i] = n => g = c /\ i = Len(frames[c])
      BY <2>1, <3>1, <3>2, Zenon
    <3> QED BY <2>2, <3>3
  <2> QED BY <2>1, <2>3
<1>7. OnceOnCurrent'
  <2> SUFFICES ASSUME NEW i \in 1..Len(current'), NEW j \in 1..Len(current'),
                      current'[i] = current'[j]
               PROVE  i = j
    BY DEF OnceOnCurrent
  <2> DEFINE at(x) == IF x < k THEN x ELSE x + 1
  <2>1. at(i) \in 1..Len(current) /\ at(j) \in 1..Len(current)
    BY <1>1, <1>2
  <2>2. current'[i] = current[at(i)] /\ current'[j] = current[at(j)]
    BY <1>1, <1>2
  <2>3. at(i) = at(j)
    BY <1>0, <2>1, <2>2 DEF OnceOnCurrent
  <2> QED BY <2>3
<1>8. \A i \in 1..Len(current') : current'[i] \in services \ (refs \cup {n})
  <2> SUFFICES ASSUME NEW i \in 1..Len(current')
               PROVE  current'[i] \in services \ (refs \cup {n})
    OBVIOUS
  <2> DEFINE at == IF i < k THEN i ELSE i + 1
  <2>1. at \in 1..Len(current) /\ at # k /\ current'[i] = current[at]
    BY <1>1, <1>2
  <2> QED BY <1>0, <1>1, <2>1 DEF OnceOnCurrent, CurrentIsPending
<1>9. FramesAreCurrent'
  <2> SUFFICES ASSUME NEW g \in Caller, NEW i \in 1..Len(frames'[g])
               PROVE  \E j \in 1..Len(current') : current'[j] = frames'[g][i]
    BY DEF FramesAreCurrent
  <2>1. PICK j \in 1..Len(current) : current[j] = frames[g][i]
    BY <1>0, <1>6 DEF FramesAreCurrent
  <2>2. j # k /\ frames'[g][i] = current[j]
    BY <1>1, <1>6, <2>1
  <2>3. CASE j < k
    <3>1. j \in 1..Len(current') /\ current'[j] = current[j]
      BY <1>1, <1>2, <2>3
    <3> QED BY <2>2, <3>1
  <2>4. CASE j > k
    <3>1. j - 1 \in 1..Len(current') /\ current'[j - 1] = current[(j - 1) + 1]
      BY <1>1, <1>2, <2>4
    <3> QED BY <2>2, <3>1
  <2> QED BY <2>2, <2>3, <2>4
<1>10. OnceInFrames'
  BY <1>0, <1>6 DEF OnceInFrames
<1>11. n \in services \ refs
  BY <1>0, <1>1 DEF CurrentIsPending
<1>12. OneStack'
  <2> SUFFICES ASSUME ~overlapped PROVE OneStack'
    BY DEF OneStack
  <2>1. current = frames[c] /\ \A g \in Caller \ {c} : frames[g] = <<>>
    BY <1>0, <1>3 DEF OneStack
  <2>2. k = Len(current)
    BY <1>0, <1>1, <1>3, <2>1 DEF OnceOnCurrent
  <2>3. current' = frames'[c]
    <3>1. \A j \in 1..Len(current') : current'[j] = frames'[c][j]
      BY <1>1, <1>2, <1>3, <1>4, <2>1, <2>2
    <3>2. Len(current') = Len(frames'[c])
      BY <1>1, <1>3, <1>4, <2>1
    <3> QED BY <1>1, <1>3, <1>4, <3>1, <3>2, SeqEqual
  <2>4. \A g \in Caller \ {c} : frames'[g] = <<>>
    BY <1>4, <2>1
  <2> QED BY <2>3, <2>4 DEF OneStack
<1> QED BY <1>1, <1>5, <1>7, <1>8, <1>9, <1>10, <1>11, <1>12

\* Nothing is shut down while an initializer is in progress.
LEMMA NothingIsStopped ==
  ASSUME IndInv, \/ \A s \in Stopper : pc[s] = "idle"
                 \/ \E c \in Caller : frames[c] # <<>>
  PROVE  /\ \A s \in Stopper : pc[s] = "idle"
         /\ \A n \in Name : phase[n] = "up"
BY DEF IndInv, PassedAreStopped

\* So a step of the graph cannot disturb what holds of Shutdowns.
LEMMA GraphStepKeepsShutdown ==
  ASSUME IndInv, UNCHANGED shutdown, Node' \subseteq Name,
         \A s \in Stopper : pc[s] = "idle", \A n \in Name : phase[n] = "up"
  PROVE  PassedAreStopped' /\ DependentsFirst' /\ ReturnedMeansStopped'
BY DEF shutdown, PassedAreStopped, DependentsFirst, ReturnedMeansStopped

\* The initial states satisfy the invariant.
LEMMA InitInv == Init => IndInv
<1> SUFFICES ASSUME Init PROVE IndInv
  OBVIOUS
<1>1. TypeOK
  <2>1. overlapped \in BOOLEAN
    BY Zenon DEF Init
  <2>2. <<>> \in Seq(Name)
    BY EmptySeq
  <2> QED BY <2>1, <2>2 DEF Init, TypeOK
<1>2. Node = {}
  BY DEF Init, Node
<1>3. EdgesDescend /\ DependentsFirst /\ ReturnedMeansStopped
  BY <1>2 DEF Init, EdgesDescend, DependentsFirst, ReturnedMeansStopped
<1>4. StacksAgree /\ OneStack
  BY EmptySeq DEF Init, StacksAgree, OnceOnCurrent, CurrentIsPending, FramesAreCurrent,
                  OnceInFrames, OneStack
<1>5. EdgesAreLate
  BY DEF Init, EdgesAreLate, Ready
<1>6. PassedAreStopped
  BY DEF Init, PassedAreStopped
<1> QED BY <1>1, <1>3, <1>4, <1>5, <1>6 DEF IndInv

\* An initializer that begins is on top of both stacks.
LEMMA BeginServiceInv ==
  ASSUME IndInv, NEW c \in Caller, NEW n \in Name, BeginService(c, n)
  PROVE  IndInv'
<1>1. /\ current \in Seq(Name) /\ frames \in [Caller -> Seq(Name)] /\ TypeOK
      /\ Len(current) \in Nat /\ \A g \in Caller : Len(frames[g]) \in Nat
  BY DEF IndInv, TypeOK
<1>2. /\ current' = Append(current, n) /\ frames' = [frames EXCEPT ![c] = Append(@, n)]
      /\ services' = services \cup {n} /\ n \notin services
      /\ refs' = refs /\ id' = id /\ edges' = edges /\ uses' = uses
      /\ overlapped' = (overlapped \/ \E other \in Caller \ {c} : frames[other] # <<>>)
      /\ UNCHANGED shutdown /\ \A s \in Stopper : pc[s] = "idle"
  BY DEF BeginService
<1>3. /\ current' \in Seq(Name) /\ Len(current') = Len(current) + 1
      /\ \A i \in 1..Len(current) : current'[i] = current[i]
      /\ current'[Len(current) + 1] = n
  BY <1>1, <1>2
<1>4. /\ frames'[c] = Append(frames[c], n) /\ Len(frames'[c]) = Len(frames[c]) + 1
      /\ frames' \in [Caller -> Seq(Name)]
      /\ \A i \in 1..Len(frames[c]) : frames'[c][i] = frames[c][i]
      /\ frames'[c][Len(frames[c]) + 1] = n
      /\ \A g \in Caller \ {c} : frames'[g] = frames[g]
  BY <1>1, <1>2
<1>12. \A i \in 1..Len(current') :
          \/ i \in 1..Len(current) /\ current'[i] = current[i]
          \/ i = Len(current) + 1 /\ current'[i] = n
  BY <1>1, <1>3
<1>13. ASSUME NEW g \in Caller, NEW i \in 1..Len(frames'[g])
       PROVE  \/ i \in 1..Len(frames[g]) /\ frames'[g][i] = frames[g][i]
              \/ g = c /\ i = Len(frames[c]) + 1 /\ frames'[g][i] = n
  <2>1. CASE g = c
    BY <1>1, <1>4, <2>1
  <2>2. CASE g # c
    BY <1>4, <2>2
  <2> QED BY <2>1, <2>2
<1>5. TypeOK'
  <2>1. overlapped' \in BOOLEAN
    BY Zenon, <1>2
  <2> QED BY <1>1, <1>3, <1>4, <2>1 DEF TypeOK, BeginService, shutdown
<1>6. Node' = Node
  BY <1>2 DEF Node
<1>7. EdgesDescend'
  BY <1>2, <1>6 DEF IndInv, EdgesDescend
<1>8. StacksAgree'
  <2>0. OnceOnCurrent /\ CurrentIsPending /\ FramesAreCurrent /\ OnceInFrames
    BY DEF IndInv, StacksAgree
  <2>1. \A i \in 1..Len(current) : current[i] # n
    BY <1>2, <2>0 DEF CurrentIsPending
  <2>2. \A g \in Caller : \A i \in 1..Len(frames[g]) : frames[g][i] # n
    BY <2>0, <2>1 DEF FramesAreCurrent
  <2>3. OnceOnCurrent'
    BY <1>12, <2>0, <2>1 DEF OnceOnCurrent
  <2>4. CurrentIsPending'
    <3>1. n \notin refs
      BY <1>2 DEF IndInv, EdgesAreLate
    <3> QED BY <1>2, <1>12, <2>0, <3>1 DEF CurrentIsPending
  <2>5. ASSUME NEW g \in Caller, NEW i \in 1..Len(frames'[g])
        PROVE  \E j \in 1..Len(current') : current'[j] = frames'[g][i]
    <3>1. CASE frames'[g][i] = n
      BY <1>1, <1>3, <3>1
    <3>2. CASE frames'[g][i] # n
      <4>1. i \in 1..Len(frames[g]) /\ frames'[g][i] = frames[g][i]
        BY <1>13, <3>2
      <4>2. PICK j \in 1..Len(current) : current[j] = frames[g][i]
        BY <2>0, <4>1 DEF FramesAreCurrent
      <4> QED BY <1>1, <1>3, <4>1, <4>2
    <3> QED BY <3>1, <3>2
  <2>6. ASSUME NEW g \in Caller, NEW h \in Caller,
               NEW i \in 1..Len(frames'[g]), NEW j \in 1..Len(frames'[h]),
               frames'[g][i] = frames'[h][j]
        PROVE  g = h /\ i = j
    <3>1. \/ i \in 1..Len(frames[g]) /\ frames'[g][i] = frames[g][i]
          \/ g = c /\ i = Len(frames[c]) + 1 /\ frames'[g][i] = n
      BY <1>13
    <3>2. \/ j \in 1..Len(frames[h]) /\ frames'[h][j] = frames[h][j]
          \/ h = c /\ j = Len(frames[c]) + 1 /\ frames'[h][j] = n
      BY <1>13
    <3>3. CASE frames'[g][i] = n
      BY <2>2, <2>6, <3>1, <3>2, <3>3
    <3>4. CASE frames'[g][i] # n
      <4>1. i \in 1..Len(frames[g]) /\ j \in 1..Len(frames[h]) /\ frames[g][i] = frames[h][j]
        BY <2>6, <3>1, <3>2, <3>4
      <4> QED BY <2>0, <4>1 DEF OnceInFrames
    <3> QED BY <3>3, <3>4
  <2> QED BY <2>3, <2>4, <2>5, <2>6 DEF StacksAgree, FramesAreCurrent, OnceInFrames
<1>9. OneStack'
  <2> SUFFICES ASSUME ~overlapped' PROVE OneStack'
    BY DEF OneStack
  <2>1. ~overlapped /\ \A g \in Caller \ {c} : frames[g] = <<>>
    BY <1>2
  <2>2. current = frames[c]
    BY <2>1 DEF IndInv, OneStack
  <2>3. current' = frames'[c] /\ \A g \in Caller \ {c} : frames'[g] = <<>>
    BY <1>2, <1>4, <2>1, <2>2
  <2> QED BY <2>3 DEF OneStack
<1>10. EdgesAreLate'
  BY <1>2, <1>6 DEF IndInv, EdgesAreLate, Ready
<1>11. PassedAreStopped' /\ DependentsFirst' /\ ReturnedMeansStopped'
  BY <1>2, <1>6, NothingIsStopped, GraphStepKeepsShutdown DEF Node
<1> QED BY <1>5, <1>7, <1>8, <1>9, <1>10, <1>11 DEF IndInv

\* An edge from a service on the stack to one whose Ref was returned.
LEMMA UseInv ==
  ASSUME IndInv, NEW c \in Caller, NEW n \in Name, NEW m \in Name, Use(c, n, m)
  PROVE  IndInv'
<1> DEFINE top == Top(current)
<1>1. /\ current \in Seq(Name) /\ frames \in [Caller -> Seq(Name)] /\ TypeOK
      /\ frames[c] # <<>> /\ frames[c][Len(frames[c])] = n /\ id[n] = 0
      /\ m \in refs /\ edges' = edges \cup ({<<top, m>>} \ {<<m, m>>})
      /\ uses' = uses \cup {<<n, m>>}
      /\ UNCHANGED <<services, id, nextID, current, frames, refs, overlapped, failures>>
      /\ UNCHANGED shutdown
  BY DEF IndInv, TypeOK, Use, Running, Top
<1>2. Len(frames[c]) \in 1..Len(frames[c])
  BY <1>1, EmptySeq
<1>3. Len(current) \in 1..Len(current)
  BY <1>1, <1>2 DEF IndInv, StacksAgree, FramesAreCurrent
<1>4. top \in Name /\ top \in services \ refs
  BY <1>1, <1>3 DEF IndInv, StacksAgree, CurrentIsPending, Top
<1>5. top # m /\ edges' = edges \cup {<<top, m>>}
  BY <1>1, <1>4
<1> HIDE DEF top
<1>6. TypeOK'
  <2>1. edges' \subseteq Name \X Name /\ uses' \subseteq Name \X Name
    BY <1>1, <1>4, <1>5 DEF TypeOK
  <2>2. overlapped' \in BOOLEAN
    BY Zenon, <1>1 DEF TypeOK
  <2> QED BY <1>1, <2>1, <2>2 DEF TypeOK, shutdown
<1>7. Node' = Node /\ refs \subseteq Node
  BY <1>1 DEF Node, IndInv, EdgesAreLate
<1>8. ~overlapped => top = n
  BY <1>1 DEF IndInv, OneStack, Top, top
<1>9. EdgesDescend'
  <2> SUFFICES ASSUME ~overlapped PROVE EdgesDescend'
    BY <1>1 DEF EdgesDescend
  <2>1. top \notin Node
    BY <1>1, <1>8 DEF Node
  <2> QED BY <1>1, <1>5, <1>7, <2>1 DEF IndInv, EdgesDescend
<1>10. StacksAgree' /\ OneStack'
  BY <1>1 DEF IndInv, StacksAgree, OnceOnCurrent, CurrentIsPending, FramesAreCurrent,
              OnceInFrames, OneStack
<1>11. EdgesAreLate'
  <2>1. \A p, q \in Name : <<p, q>> \in edges' => q \in refs'
    BY <1>1, <1>5 DEF IndInv, EdgesAreLate
  <2>2. ASSUME NEW S \in SUBSET Name, S # {} PROVE Ready(S)' # {}
    <3>1. CASE top \in S
      <4>1. \A p \in S : <<p, top>> \notin edges'
        BY <1>1, <1>4, <2>1
      <4> QED BY <3>1, <4>1 DEF Ready
    <3>2. CASE top \notin S
      <4>1. PICK p \in S : \A q \in S : <<q, p>> \notin edges
        BY <2>2 DEF IndInv, EdgesAreLate, Ready
      <4>2. \A q \in S : <<q, p>> \notin edges'
        BY <1>5, <3>2, <4>1
      <4> QED BY <4>2 DEF Ready
    <3> QED BY <3>1, <3>2
  <2>3. overlapped' \/ uses' \subseteq edges'
    BY <1>1, <1>5, <1>8 DEF IndInv, EdgesAreLate
  <2> QED BY <1>1, <1>7, <2>1, <2>2, <2>3 DEF IndInv, EdgesAreLate
<1>12. PassedAreStopped' /\ DependentsFirst' /\ ReturnedMeansStopped'
  BY <1>1, <1>7, NothingIsStopped, GraphStepKeepsShutdown DEF Node
<1> QED BY <1>6, <1>9, <1>10, <1>11, <1>12 DEF IndInv

\* An initializer that fails before its node was added leaves the stacks only.
LEMMA FailServiceInv ==
  ASSUME IndInv, NEW c \in Caller, NEW n \in Name, FailService(c, n)
  PROVE  IndInv'
<1>1. /\ Running(c, n) /\ id[n] = 0 /\ EndCurrent(n) /\ failures' = failures + 1
      /\ frames' = [frames EXCEPT ![c] = Pop(@)]
      /\ services' = services \ {n} /\ uses' = {u \in uses : u[1] # n}
      /\ UNCHANGED <<id, nextID, edges, refs, overlapped>> /\ UNCHANGED shutdown
  BY DEF FailService
<1>2. /\ current' \in Seq(Name) /\ frames' \in [Caller -> Seq(Name)]
      /\ \A i \in 1..Len(current') : current'[i] \in services \ (refs \cup {n})
      /\ OnceOnCurrent' /\ FramesAreCurrent' /\ OnceInFrames' /\ OneStack'
      /\ n \in services \ refs
  BY <1>1, EndStacks
<1>3. TypeOK'
  <2>1. overlapped' \in BOOLEAN
    BY Zenon, <1>1 DEF IndInv, TypeOK
  <2> QED BY <1>1, <1>2, <2>1 DEF IndInv, TypeOK, shutdown
<1>4. Node' = Node
  BY <1>1 DEF Node
<1>5. EdgesDescend'
  BY <1>1, <1>4 DEF IndInv, EdgesDescend
<1>6. StacksAgree'
  BY <1>1, <1>2 DEF StacksAgree, CurrentIsPending
<1>7. EdgesAreLate'
  <2>1. refs' \subseteq services' \cap Node'
    BY <1>1, <1>2, <1>4 DEF IndInv, EdgesAreLate
  <2>2. overlapped' \/ uses' \subseteq edges'
    BY <1>1 DEF IndInv, EdgesAreLate
  <2> QED BY <1>1, <2>1, <2>2 DEF IndInv, EdgesAreLate, Ready
<1>8. frames[c] # <<>>
  BY <1>1 DEF Running
<1>9. PassedAreStopped' /\ DependentsFirst' /\ ReturnedMeansStopped'
  BY <1>1, <1>8, NothingIsStopped, GraphStepKeepsShutdown DEF Node
<1> QED BY <1>2, <1>3, <1>5, <1>6, <1>7, <1>9 DEF IndInv

\* An initializer that ends leaves the stacks, and its Ref is returned.
LEMMA EndServiceInv ==
  ASSUME IndInv, NEW c \in Caller, NEW n \in Name, EndService(c, n)
  PROVE  IndInv'
<1>1. /\ Running(c, n) /\ id[n] # 0 /\ EndCurrent(n) /\ refs' = refs \cup {n}
      /\ frames' = [frames EXCEPT ![c] = Pop(@)]
      /\ UNCHANGED <<services, id, nextID, edges, uses, overlapped, failures>>
      /\ UNCHANGED shutdown
  BY DEF EndService
<1>2. /\ current' \in Seq(Name) /\ frames' \in [Caller -> Seq(Name)]
      /\ \A i \in 1..Len(current') : current'[i] \in services \ (refs \cup {n})
      /\ OnceOnCurrent' /\ FramesAreCurrent' /\ OnceInFrames' /\ OneStack'
      /\ n \in services \ refs
  BY <1>1, EndStacks
<1>3. TypeOK'
  <2>1. overlapped' \in BOOLEAN
    BY Zenon, <1>1 DEF IndInv, TypeOK
  <2> QED BY <1>1, <1>2, <2>1 DEF IndInv, TypeOK, shutdown
<1>4. Node' = Node
  BY <1>1 DEF Node
<1>5. EdgesDescend'
  BY <1>1, <1>4 DEF IndInv, EdgesDescend
<1>6. StacksAgree'
  BY <1>1, <1>2 DEF StacksAgree, CurrentIsPending
<1>7. EdgesAreLate'
  <2>1. refs' \subseteq services' \cap Node'
    BY <1>1, <1>2, <1>4 DEF IndInv, EdgesAreLate, Node
  <2> QED BY <1>1, <2>1 DEF IndInv, EdgesAreLate, Ready
<1>8. frames[c] # <<>>
  BY <1>1 DEF Running
<1>9. PassedAreStopped' /\ DependentsFirst' /\ ReturnedMeansStopped'
  BY <1>1, <1>8, NothingIsStopped, GraphStepKeepsShutdown DEF Node
<1> QED BY <1>2, <1>3, <1>5, <1>6, <1>7, <1>9 DEF IndInv

\* A node gets the highest identifier, and no edge leads to it yet.
LEMMA AddNodeInv ==
  ASSUME IndInv, NEW c \in Caller, NEW n \in Name, AddNode(c, n)
  PROVE  IndInv'
<1>1. /\ frames[c] # <<>> /\ id[n] = 0 /\ nextID' = nextID + 1
      /\ id' = [id EXCEPT ![n] = nextID']
      /\ UNCHANGED <<services, edges, current, frames, refs, uses, overlapped, failures>>
      /\ UNCHANGED shutdown
  BY DEF AddNode, Running
<1>2. nextID \in Nat /\ id \in [Name -> 0..nextID]
  BY DEF IndInv, TypeOK
<1>3. id' \in [Name -> 0..nextID'] /\ id'[n] = nextID + 1
      /\ \A m \in Name \ {n} : id'[m] = id[m]
  BY <1>1, <1>2
<1>4. TypeOK'
  <2>1. overlapped' \in BOOLEAN
    BY Zenon, <1>1 DEF IndInv, TypeOK
  <2> QED BY <1>1, <1>2, <1>3, <2>1 DEF IndInv, TypeOK, shutdown
<1>5. Node' = Node \cup {n} /\ n \notin Node
  BY <1>1, <1>2, <1>3 DEF Node
<1>6. \A m \in Name : <<m, n>> \notin edges
  BY <1>5 DEF IndInv, EdgesAreLate
<1>7. EdgesDescend'
  BY <1>1, <1>2, <1>3, <1>5, <1>6 DEF IndInv, EdgesDescend, Node
<1>8. StacksAgree' /\ OneStack'
  BY <1>1 DEF IndInv, StacksAgree, OnceOnCurrent, CurrentIsPending, FramesAreCurrent,
              OnceInFrames, OneStack
<1>9. EdgesAreLate'
  BY <1>1, <1>5 DEF IndInv, EdgesAreLate, Ready
<1>10. PassedAreStopped' /\ DependentsFirst' /\ ReturnedMeansStopped'
  BY <1>1, NothingIsStopped, GraphStepKeepsShutdown DEF Node
<1> QED BY <1>4, <1>7, <1>8, <1>9, <1>10 DEF IndInv

-----------------------------------------------------------------------------
(* Shutdown.                                                                *)

\* What a step of Shutdown leaves alone.
LEMMA ShutdownStepKeepsGraph ==
  ASSUME IndInv, UNCHANGED graph
  PROVE  /\ EdgesDescend' /\ StacksAgree' /\ OneStack' /\ EdgesAreLate' /\ Node' = Node
         /\ services' = services /\ id' = id /\ nextID' = nextID /\ edges' = edges
         /\ frames' = frames
         /\ phase' \in [Name -> {"up", "stopping", "stopped"}]
            /\ pc' \in [Stopper -> {"idle", "loop", "waiting", "returned", "interrupted"}]
            /\ todo' \in [Stopper -> SUBSET Name]
            /\ target' \in [Stopper -> Name \cup {None}]
            => TypeOK'
<1>1. Node' = Node
  BY DEF graph, Node
<1>2. EdgesDescend' /\ StacksAgree' /\ OneStack' /\ EdgesAreLate'
  BY <1>1 DEF graph, IndInv, EdgesDescend, StacksAgree, OnceOnCurrent, CurrentIsPending,
              FramesAreCurrent, OnceInFrames, OneStack, EdgesAreLate, Ready
<1>3. overlapped' \in BOOLEAN
  BY Zenon DEF graph, IndInv, TypeOK
<1> QED BY <1>1, <1>2, <1>3 DEF graph, IndInv, TypeOK

\* The node stopped next is one that no node left uses.
LEMMA NextIsReady ==
  ASSUME IndInv, NEW S \in SUBSET Name, S # {}
  PROVE  /\ NextToStop(S) \in S
         /\ \A m \in S : <<m, NextToStop(S)>> \notin edges
<1> DEFINE age == {nextID - id[n] : n \in Ready(S)}
<1>1. Ready(S) # {} /\ Ready(S) \subseteq Name
  BY DEF IndInv, EdgesAreLate, Ready
<1>2. nextID \in Nat /\ id \in [Name -> 0..nextID]
  BY DEF IndInv, TypeOK
<1>3. age \subseteq Nat /\ age # {}
  BY <1>1, <1>2
<1>4. PICK x \in age : \A y \in age : x <= y
  BY <1>3, SmallestExists
<1>5. PICK n \in Ready(S) : x = nextID - id[n]
  BY <1>4
<1>6. ASSUME NEW m \in Ready(S) PROVE id[m] <= id[n]
  <2>1. nextID - id[m] \in age
    OBVIOUS
  <2>2. nextID - id[n] <= nextID - id[m]
    BY <1>4, <1>5, <2>1
  <2>3. id[m] \in Nat /\ id[n] \in Nat
    BY <1>1, <1>2, <1>5
  <2> QED BY <1>2, <2>2, <2>3
<1>7. NextToStop(S) \in Ready(S)
  BY <1>1, <1>6 DEF NextToStop
<1> QED BY <1>7 DEF Ready

\* A Shutdown starts with the whole graph, while nothing is initialised.
LEMMA BeginShutdownInv ==
  ASSUME IndInv, NEW s \in Stopper, BeginShutdown(s)
  PROVE  IndInv'
<1>1. TypeOK /\ PassedAreStopped /\ DependentsFirst /\ ReturnedMeansStopped
  BY DEF IndInv
<1>2. /\ \A g \in Caller : frames[g] = <<>>
      /\ todo' = [todo EXCEPT ![s] = Node] /\ pc' = [pc EXCEPT ![s] = "loop"]
      /\ phase' = phase /\ target' = target /\ UNCHANGED graph
  BY DEF BeginShutdown
<1>3. /\ EdgesDescend' /\ StacksAgree' /\ OneStack' /\ EdgesAreLate' /\ Node' = Node
      /\ edges' = edges /\ frames' = frames
  BY <1>2, ShutdownStepKeepsGraph
<1>4. Node \subseteq Name
  BY DEF Node
<1>5. TypeOK'
  BY <1>1, <1>2, <1>4, ShutdownStepKeepsGraph DEF TypeOK
<1>6. PassedAreStopped'
  BY <1>1, <1>2, <1>3 DEF PassedAreStopped, TypeOK
<1>7. DependentsFirst' /\ ReturnedMeansStopped'
  BY <1>1, <1>2, <1>3 DEF DependentsFirst, ReturnedMeansStopped, TypeOK
<1> QED BY <1>3, <1>5, <1>6, <1>7 DEF IndInv

\* The users of the next node have been passed, so they are stopped.
LEMMA StopNextInv ==
  ASSUME IndInv, NEW s \in Stopper, StopNext(s)
  PROVE  IndInv'
<1> DEFINE n == NextToStop(todo[s])
<1>1. TypeOK /\ PassedAreStopped /\ DependentsFirst /\ ReturnedMeansStopped
  BY DEF IndInv
<1>2. /\ pc[s] = "loop" /\ todo[s] # {} /\ UNCHANGED graph
      /\ target' = [target EXCEPT ![s] = n]
      /\ todo' = [todo EXCEPT ![s] = @ \ {n}]
      /\ phase' = [phase EXCEPT ![n] = IF @ = "up" THEN "stopping" ELSE @]
      /\ pc' = [pc EXCEPT ![s] = "waiting"]
  BY DEF StopNext
<1>3. todo[s] \subseteq Node /\ Node \subseteq Name
  BY <1>1, <1>2 DEF PassedAreStopped, Node
<1>4. n \in todo[s] /\ n \in Node /\ n \in Name /\ \A m \in todo[s] : <<m, n>> \notin edges
  BY <1>2, <1>3, NextIsReady
<1> HIDE DEF n
<1>5. /\ EdgesDescend' /\ StacksAgree' /\ OneStack' /\ EdgesAreLate' /\ Node' = Node
      /\ edges' = edges /\ frames' = frames
  BY <1>2, ShutdownStepKeepsGraph
<1>6. /\ \A m \in Name \ {n} : phase'[m] = phase[m]
      /\ phase[n] = "stopped" => phase'[n] = "stopped"
      /\ \A m \in Name : phase[m] = "stopped" => phase'[m] = "stopped"
      /\ phase' \in [Name -> {"up", "stopping", "stopped"}]
  BY <1>1, <1>2, <1>4 DEF TypeOK
<1>7. TypeOK'
  BY <1>1, <1>2, <1>4, <1>6, ShutdownStepKeepsGraph DEF TypeOK
<1>8. \A m \in Node : <<m, n>> \in edges => phase[m] = "stopped"
  BY <1>1, <1>2, <1>4 DEF PassedAreStopped
<1>9. DependentsFirst'
  BY <1>1, <1>3, <1>5, <1>6, <1>8 DEF DependentsFirst
<1>10. ReturnedMeansStopped'
  BY <1>1, <1>2, <1>3, <1>5, <1>6 DEF ReturnedMeansStopped, TypeOK
<1>11. PassedAreStopped'
  <2>1. pc'[s] = "waiting" /\ target'[s] = n /\ todo'[s] = todo[s] \ {n}
    BY <1>1, <1>2 DEF TypeOK
  <2>2. \A r \in Stopper \ {s} : pc'[r] = pc[r] /\ target'[r] = target[r] /\ todo'[r] = todo[r]
    BY <1>1, <1>2 DEF TypeOK
  <2>3. \A g \in Caller : frames'[g] = <<>>
    BY <1>1, <1>2, <1>5 DEF PassedAreStopped
  <2>4. ASSUME NEW r \in Stopper, pc'[r] \in {"loop", "waiting"}
        PROVE  /\ todo'[r] \subseteq Node'
               /\ \A p, q \in Node' : <<p, q>> \in edges' /\ p \in todo'[r] => q \in todo'[r]
               /\ \A p \in Node' \ todo'[r] :
                      phase'[p] = "stopped" \/ (pc'[r] = "waiting" /\ target'[r] = p)
    <3>1. CASE r = s
      BY <1>1, <1>2, <1>3, <1>4, <1>5, <1>6, <2>1, <3>1 DEF PassedAreStopped
    <3>2. CASE r # s
      BY <1>1, <1>3, <1>5, <1>6, <2>2, <2>4, <3>2 DEF PassedAreStopped
    <3> QED BY <3>1, <3>2
  <2> QED BY <2>1, <2>3, <2>4 DEF PassedAreStopped
<1> QED BY <1>5, <1>7, <1>9, <1>10, <1>11 DEF IndInv

\* A stop function returns to whichever Shutdown called it.
LEMMA StopFunctionInv ==
  ASSUME IndInv, NEW n \in Name, StopFunctionReturns(n)
  PROVE  IndInv'
<1>1. TypeOK /\ PassedAreStopped /\ DependentsFirst /\ ReturnedMeansStopped
  BY DEF IndInv
<1>2. /\ phase[n] = "stopping" /\ phase' = [phase EXCEPT ![n] = "stopped"]
      /\ UNCHANGED <<pc, todo, target>> /\ UNCHANGED graph
  BY DEF StopFunctionReturns
<1>3. /\ EdgesDescend' /\ StacksAgree' /\ OneStack' /\ EdgesAreLate' /\ Node' = Node
      /\ edges' = edges /\ frames' = frames /\ Node \subseteq Name
  BY <1>2, ShutdownStepKeepsGraph DEF Node
<1>4. /\ \A m \in Name \ {n} : phase'[m] = phase[m]
      /\ phase'[n] = "stopped" /\ phase' \in [Name -> {"up", "stopping", "stopped"}]
  BY <1>1, <1>2 DEF TypeOK
<1>5. TypeOK'
  BY <1>1, <1>2, <1>4, ShutdownStepKeepsGraph DEF TypeOK
<1>6. PassedAreStopped'
  BY <1>1, <1>2, <1>3, <1>4 DEF PassedAreStopped
<1>7. DependentsFirst' /\ ReturnedMeansStopped'
  BY <1>1, <1>2, <1>3, <1>4 DEF DependentsFirst, ReturnedMeansStopped
<1> QED BY <1>3, <1>5, <1>6, <1>7 DEF IndInv

\* The steps that only change where a Shutdown is.
LEMMA WaitInv ==
  ASSUME IndInv, NEW s \in Stopper, NodeFinished(s) \/ Interrupt(s) \/ ShutdownReturns(s)
  PROVE  IndInv'
<1>1. TypeOK /\ PassedAreStopped /\ DependentsFirst /\ ReturnedMeansStopped
  BY DEF IndInv
<1>2. /\ UNCHANGED graph /\ phase' = phase /\ todo' = todo /\ pc[s] \in {"loop", "waiting"}
      /\ pc'[s] \in {"loop", "interrupted", "returned"}
      /\ pc'[s] = "loop" => pc[s] = "waiting" /\ phase[target[s]] = "stopped"
      /\ pc'[s] = "returned" => pc[s] = "loop" /\ todo[s] = {}
      /\ \A r \in Stopper \ {s} : pc'[r] = pc[r] /\ target'[r] = target[r]
      /\ pc' \in [Stopper -> {"idle", "loop", "waiting", "returned", "interrupted"}]
      /\ target' \in [Stopper -> Name \cup {None}]
  BY <1>1 DEF NodeFinished, Interrupt, ShutdownReturns, TypeOK
<1>3. /\ EdgesDescend' /\ StacksAgree' /\ OneStack' /\ EdgesAreLate' /\ Node' = Node
      /\ edges' = edges /\ frames' = frames
  BY <1>2, ShutdownStepKeepsGraph
<1>4. TypeOK'
  BY <1>1, <1>2, ShutdownStepKeepsGraph DEF TypeOK
<1>5. PassedAreStopped'
  <2>1. \A g \in Caller : frames'[g] = <<>>
    BY <1>1, <1>2, <1>3 DEF PassedAreStopped
  <2>2. ASSUME NEW r \in Stopper, pc'[r] \in {"loop", "waiting"}
        PROVE  /\ todo'[r] \subseteq Node'
               /\ \A p, q \in Node' : <<p, q>> \in edges' /\ p \in todo'[r] => q \in todo'[r]
               /\ \A p \in Node' \ todo'[r] :
                      phase'[p] = "stopped" \/ (pc'[r] = "waiting" /\ target'[r] = p)
    <3>1. CASE r = s
      BY <1>1, <1>2, <1>3, <2>2, <3>1 DEF PassedAreStopped
    <3>2. CASE r # s
      BY <1>1, <1>2, <1>3, <2>2, <3>2 DEF PassedAreStopped
    <3> QED BY <3>1, <3>2
  <2> QED BY <1>2, <2>1, <2>2 DEF PassedAreStopped
<1>6. DependentsFirst'
  BY <1>1, <1>2, <1>3 DEF DependentsFirst
<1>7. ReturnedMeansStopped'
  BY <1>1, <1>2, <1>3 DEF ReturnedMeansStopped, PassedAreStopped
<1> QED BY <1>3, <1>4, <1>5, <1>6, <1>7 DEF IndInv

-----------------------------------------------------------------------------

\* Every step keeps the invariant.
LEMMA NextInv == IndInv /\ [Next]_vars => IndInv'
<1> SUFFICES ASSUME IndInv, [Next]_vars PROVE IndInv'
  OBVIOUS
<1>1. CASE UNCHANGED vars
  <2>1. UNCHANGED graph /\ UNCHANGED shutdown
    BY <1>1 DEF vars
  <2>2. /\ EdgesDescend' /\ StacksAgree' /\ OneStack' /\ EdgesAreLate' /\ Node' = Node
        /\ edges' = edges /\ frames' = frames
    BY <2>1, ShutdownStepKeepsGraph
  <2>3. TypeOK'
    BY <2>1, ShutdownStepKeepsGraph DEF shutdown, IndInv, TypeOK
  <2>4. PassedAreStopped' /\ DependentsFirst' /\ ReturnedMeansStopped'
    BY <2>1, <2>2 DEF shutdown, IndInv, PassedAreStopped, DependentsFirst, ReturnedMeansStopped
  <2> QED BY <2>2, <2>3, <2>4 DEF IndInv
<1>2. ASSUME NEW c \in Caller, NEW n \in Name,
             \/ BeginService(c, n) \/ FailService(c, n) \/ AddNode(c, n)
             \/ EndService(c, n) \/ \E m \in Name : Use(c, n, m)
      PROVE  IndInv'
  BY <1>2, BeginServiceInv, FailServiceInv, AddNodeInv, EndServiceInv, UseInv
<1>3. ASSUME NEW s \in Stopper, BeginShutdown(s) \/ ShutdownStep(s)
      PROVE  IndInv'
  BY <1>3, BeginShutdownInv, StopNextInv, WaitInv DEF ShutdownStep
<1>4. ASSUME NEW n \in Name, StopFunctionReturns(n)
      PROVE  IndInv'
  BY <1>4, StopFunctionInv
<1> QED BY <1>1, <1>2, <1>3, <1>4 DEF Next

\* What stacks, graph and Shutdowns have of each other agrees in every reachable
\* state.
THEOREM Invariance == Spec => []IndInv
<1> QED BY InitInv, NextInv, PTL DEF Spec

\* The graph never has a cycle among the services a Shutdown has left, whichever
\* initializer an edge was attributed to, and follows the registration order as
\* long as initializers do not overlap (addEdge, shutdownOrder).
THEOREM Order == Spec => []GraphIsOrdered
<1>1. IndInv => GraphIsOrdered
  <2> SUFFICES ASSUME IndInv PROVE NoCycle
    BY DEF IndInv, GraphIsOrdered
  <2> QED BY DEF IndInv, TypeOK, EdgesAreLate, NoCycle
<1> QED BY <1>1, Invariance, PTL

\* Dependents are stopped before the services they use, however many Shutdowns
\* run and are interrupted (Shutdown, stopNode).
THEOREM DependentsStopFirst == Spec => []StopOrder
<1>1. IndInv => StopOrder
  <2> SUFFICES ASSUME IndInv PROVE UsersFirst
    BY DEF IndInv, StopOrder
  <2> QED BY DEF IndInv, DependentsFirst, EdgesAreLate, UsersFirst
<1> QED BY <1>1, Invariance, PTL

\* A Shutdown that returned nil has stopped every service.
THEOREM ReturnIsTheEnd == Spec => []ReturnedMeansStopped
<1>1. IndInv => ReturnedMeansStopped
  BY DEF IndInv
<1> QED BY <1>1, Invariance, PTL

=============================================================================
