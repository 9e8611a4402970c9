-------------------------------- MODULE Addons --------------------------------
(***************************************************************************)
(* lazyaddon: which add-ons an application runs, in which order, and in     *)
(* which order their callbacks run at a hook (lazyaddon/addon.go, hook.go). *)
(*                                                                         *)
(* Resolve walks the requirements depth first over a private copy of the    *)
(* catalog, keeping the versions it was asked for in uses; its recursion is *)
(* the stack trail.  The order of a requirement list, and the order of the  *)
(* names that break a tie between callbacks, are left open: the next        *)
(* requirement and the next callback are any that the code could take for   *)
(* some spelling of the names.                                              *)
(***************************************************************************)
EXTENDS Sequences, FiniteSets, Integers

CONSTANTS
    Addon,     \* IDs
    Version,
    AnyVersion,       \* no version was asked for
    Absent     \* the add-on is not in use

ASSUME AddonAssumption ==
    /\ IsFiniteSet(Addon)
    /\ AnyVersion \notin Version /\ Absent \notin Version /\ AnyVersion # Absent

\* A catalog and a selection from it.  callbacks: the add-ons with a callback
\* at the hooks; before: the callbacks each one asks to precede.
Program ==
    [registered : SUBSET Addon,
     version    : [Addon -> Version],
     requires   : [Addon -> SUBSET (Addon \X (Version \cup {AnyVersion}))],
     conflicts  : [Addon -> SUBSET Addon],
     selection  : [Addon -> Version \cup {AnyVersion, Absent}],
     callbacks  : SUBSET Addon,
     before     : [Addon -> SUBSET Addon]]

VARIABLES
    program,
    uses,      \* the version asked for of every add-on in use
    mark,      \* of an add-on: 0 not visited, 1 on the stack, 2 finished
    trail,     \* the stack of visits: an add-on and requirements still to visit
    order,     \* finished add-ons
    edges,     \* <<a, b>>: at a hook the callback of a runs before that of b
    cyclic,    \* and the edges contradict each other
    verdict    \* open, accepted, or why the selection is refused

addonVars == <<program, uses, mark, trail, order, edges, cyclic, verdict>>

AddonTypeOK ==
    /\ program \in Program
    /\ uses \in [Addon -> Version \cup {AnyVersion, Absent}]
    /\ mark \in [Addon -> 0..2]
    /\ order \in Seq(Addon)
    /\ edges \subseteq Addon \X Addon /\ cyclic \in BOOLEAN
    /\ verdict \in {"open", "accepted", "unregistered", "version", "cycle", "conflict"}

AddonInit ==
    /\ uses = program.selection
    /\ mark = [a \in Addon |-> 0]
    /\ trail = <<>> /\ order = <<>> /\ edges = {} /\ cyclic = FALSE /\ verdict = "open"

InUse == {a \in Addon : uses[a] # Absent}

\* The members reachable from a along one or more edges of E.
Reach(E, a) ==
    LET within[n \in 0..Cardinality(Addon)] ==  \* along at most n edges
            IF n = 0 THEN {} ELSE {e[2] : e \in {d \in E : d[1] \in {a} \cup within[n - 1]}}
    IN within[Cardinality(Addon)]

RequiresEdges ==
    {e \in Addon \X Addon :
        e[1] \in program.registered /\ \E v \in Version \cup {AnyVersion} : <<e[2], v>> \in program.requires[e[1]]}

Callbacks == program.callbacks \cap InUse

\* addonDependsOn: the requirement may be through add-ons without a callback.
DependsOn(a, b) == a # b /\ b \in Reach(RequiresEdges, a)

\* Mutant: only an add-on's own requirements order its callback.
HookEdgesDirect ==
    {e \in Callbacks \X Callbacks : e[2] \in program.before[e[1]] \/ <<e[2], e[1]>> \in RequiresEdges}

\* <<a, b>>: the callback of a runs before that of b.
HookEdges ==
    LET needs == [a \in Callbacks |-> Reach(RequiresEdges, a)]
    IN {e \in Callbacks \X Callbacks :
          e[2] \in program.before[e[1]] \/ (e[1] # e[2] /\ e[1] \in needs[e[2]])}

Refuse(why) ==
    /\ verdict' = why
    /\ UNCHANGED <<program, mark, trail, order, edges, cyclic>>

\* visit(a), called with the stack rest once uses is asked.
Visit(a, asked, rest) ==
    /\ uses' = asked
    /\ \/ a \notin program.registered /\ Refuse("unregistered")
       \/ /\ a \in program.registered
          /\ asked[a] \notin {AnyVersion, program.version[a]}
          /\ Refuse("version")
       \/ /\ a \in program.registered
          /\ asked[a] \in {AnyVersion, program.version[a]}
          /\ \/ mark[a] = 1 /\ Refuse("cycle")
             \/ mark[a] = 2 /\ trail' = rest /\ UNCHANGED <<program, mark, order, edges, cyclic, verdict>>
             \/ /\ mark[a] = 0
                /\ mark' = [mark EXCEPT ![a] = 1]
                /\ trail' = Append(rest, <<a, program.requires[a]>>)
                /\ UNCHANGED <<program, order, edges, cyclic, verdict>>

VisitSelected(a) ==
    /\ verdict = "open" /\ trail = <<>>
    /\ program.selection[a] # Absent /\ mark[a] = 0
    /\ Visit(a, uses, <<>>)

\* One turn of the loop over an add-on's requirements.
VisitRequirement ==
    /\ verdict = "open" /\ trail # <<>>
    /\ LET top  == trail[Len(trail)]
           rest == SubSeq(trail, 1, Len(trail) - 1)
       IN \E requirement \in top[2] :
            LET required == requirement[1]  version == requirement[2]
                left == Append(rest, <<top[1], top[2] \ {requirement}>>)
            IN \/ /\ version # AnyVersion /\ uses[required] \notin {AnyVersion, Absent, version}
                  /\ Refuse("version") /\ UNCHANGED uses
               \/ /\ version # AnyVersion /\ uses[required] \in {AnyVersion, Absent, version}
                  /\ Visit(required, [uses EXCEPT ![required] = version], left)
               \/ /\ version = AnyVersion
                  /\ Visit(required,
                           [uses EXCEPT ![required] = IF @ = Absent THEN AnyVersion ELSE @], left)

FinishVisit ==
    /\ verdict = "open" /\ trail # <<>>
    /\ LET top == trail[Len(trail)]
       IN /\ top[2] = {}
          /\ mark' = [mark EXCEPT ![top[1]] = 2]
          /\ order' = Append(order, top[1])
    /\ trail' = SubSeq(trail, 1, Len(trail) - 1)
    /\ UNCHANGED <<program, uses, edges, cyclic, verdict>>

\* The callback of a may come next after those of ran.
MayRun(a, ran) ==
    /\ a \in Callbacks \ ran
    /\ \A e \in edges : e[2] = a => e[1] \in ran

\* Conflicts are looked for among everything in use once all is visited.  The
\* order of the callbacks is worked out at each hook, from this same scope.
FinishResolve ==
    /\ verdict = "open" /\ trail = <<>>
    /\ \A a \in Addon : program.selection[a] # Absent => mark[a] = 2
    /\ verdict' = IF \E a \in InUse : program.conflicts[a] \cap InUse # {}
                  THEN "conflict" ELSE "accepted"
    /\ edges' = IF verdict' = "accepted" THEN HookEdges ELSE {}
    /\ cyclic' = \E a \in Callbacks : a \in Reach(edges', a)
    /\ UNCHANGED <<program, uses, mark, trail, order>>

ResolveStep ==
    \/ \E a \in Addon : VisitSelected(a)
    \/ VisitRequirement
    \/ FinishVisit
    \/ FinishResolve

---------------------------------------------------------------------------
(* Properties.                                                              *)

Wanted ==
    LET selected == {a \in Addon : program.selection[a] # Absent}  required == RequiresEdges
    IN selected \cup UNION {Reach(required, a) : a \in selected}

\* What a selection should satisfy to run: everything it needs is registered
\* in the one version anybody asks for, and nothing needs itself or conflicts.
Acceptable ==
    LET wanted == Wanted  required == RequiresEdges
    IN /\ wanted \subseteq program.registered
       /\ \A a \in wanted :
             /\ program.selection[a] \in {AnyVersion, Absent, program.version[a]}
             /\ \A r \in program.requires[a] : r[2] \in {AnyVersion, program.version[r[1]]}
             /\ a \notin Reach(required, a)
             /\ program.conflicts[a] \cap wanted = {}

\* Resolve (addon.go:185) accepts exactly the acceptable selections, in
\* whatever order it visits them, and then runs everything that is needed.
ResolveIsExact ==
    verdict # "open" =>
        /\ verdict = "accepted" <=> Acceptable
        /\ verdict = "accepted" => InUse = Wanted /\ {order[i] : i \in DOMAIN order} = Wanted

\* Addons() lists what an add-on requires before the add-on, once each
\* (addon.go:284).
RequiredFirst ==
    \A i \in DOMAIN order :
        Reach(RequiresEdges, order[i]) \subseteq {order[j] : j \in 1..(i - 1)}

---------------------------------------------------------------------------
(* The inductive invariant of Resolve.                                      *)

\* Finished add-ons are listed once, after what they require.
OrderIsRight ==
    /\ \A a \in Addon : mark[a] = 2 <=> \E i \in DOMAIN order : order[i] = a
    /\ \A i, j \in DOMAIN order : order[i] = order[j] => i = j
    /\ \A i \in DOMAIN order : order[i] \in program.registered /\
          \A r \in program.requires[order[i]] : \E j \in 1..(i - 1) : order[j] = r[1]

Asked(r) == r[2] = AnyVersion \/ uses[r[1]] = r[2]

\* The visits on the stack: each is of a requirement of the one before, and
\* every requirement that was taken up is finished or visited next.
TrailIsPath ==
    /\ trail \in Seq(Addon \X SUBSET (Addon \X (Version \cup {AnyVersion})))
    /\ \A a \in Addon : mark[a] = 1 <=> \E i \in DOMAIN trail : trail[i][1] = a
    /\ \A i, j \in DOMAIN trail : trail[i][1] = trail[j][1] => i = j
    /\ \A i \in DOMAIN trail :
          /\ trail[i][2] \subseteq program.requires[trail[i][1]]
          /\ i + 1 \in DOMAIN trail => <<trail[i][1], trail[i + 1][1]>> \in RequiresEdges
          /\ \A r \in program.requires[trail[i][1]] \ trail[i][2] :
                mark[r[1]] = 2 \/ (i + 1 \in DOMAIN trail /\ r[1] = trail[i + 1][1])

\* Somebody who is wanted asks for a in this version.
AskedFor(a, v) ==
    \/ program.selection[a] = v
    \/ \E b \in Wanted \cap program.registered : <<a, v>> \in program.requires[b]

\* What is in use is wanted, in the one version that anybody asked for.
UsesFit ==
    \A a \in Addon :
        /\ uses[a] # Absent => a \in Wanted /\ (mark[a] # 0 \/ program.selection[a] # Absent)
        /\ uses[a] \in Version => AskedFor(a, uses[a])
        /\ program.selection[a] # Absent => uses[a] # Absent
        /\ program.selection[a] \in Version => uses[a] = program.selection[a]
        /\ mark[a] # 0 => /\ a \in program.registered
                          /\ uses[a] \in {AnyVersion, program.version[a]}

\* Requirements that were taken up were asked for in their version.
RequirementsFit ==
    /\ \A a \in Addon : mark[a] = 2 => \A r \in program.requires[a] : Asked(r)
    /\ \A i \in DOMAIN trail :
          \A r \in program.requires[trail[i][1]] \ trail[i][2] : Asked(r)

ResolveInv ==
    /\ AddonTypeOK /\ OrderIsRight
    /\ verdict = "open" => TrailIsPath /\ UsesFit /\ RequirementsFit
    /\ verdict = "accepted" =>
          /\ Acceptable /\ edges = HookEdges
          /\ InUse = Wanted /\ {order[i] : i \in DOMAIN order} = Wanted
    /\ verdict \notin {"open", "accepted"} => ~Acceptable
=============================================================================
