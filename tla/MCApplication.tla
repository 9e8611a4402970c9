---------------------------- MODULE MCApplication ----------------------------
(* Small instances of Application.                                          *)
EXTENDS Application, TLC

CONSTANTS r1, r2

Addons3 == {"a", "b", "c"}
V == {"1", "2"}

\* A catalog of three add-ons at version 1 and a selection.
Catalog(requires, conflicts, selection, callbacks, before) ==
    [registered |-> IF selection["c"] = Absent /\ callbacks = {} THEN {"a", "b"} ELSE Addons3,
     version |-> [x \in Addons3 |-> "1"], requires |-> requires, conflicts |-> conflicts,
     selection |-> selection, callbacks |-> callbacks, before |-> before]

Nothing == [x \in Addons3 |-> {}]
Only(chosen, version) == [x \in Addons3 |-> IF x \in chosen THEN version ELSE Absent]

\* Requirements among the three: every graph, with at most one of them at a
\* version of its own.
Edges == {e \in Addons3 \X Addons3 : e[1] # e[2]}
RequireSets(E, odd) == [x \in Addons3 |->
    {<<e[2], IF e \in DOMAIN odd THEN odd[e] ELSE AnyVersion>> : e \in {d \in E : d[1] = x}}]
AllRequires ==
    UNION {{RequireSets(E, odd) : odd \in {<<>>} \cup {(e :> v) : e \in E, v \in V}} : E \in SUBSET Edges}

Help == [command |-> "help", mode |-> "off", control |-> "none", plane |-> FALSE, jobs |-> FALSE, metrics |-> FALSE]

\* The help command on all of them, and with conflicts and versions selected.
Graphs == {[start |-> Help, program |-> Catalog(r, Nothing, s, cb, Nothing)] :
             r \in AllRequires, cb \in {{}, {"a", "c"}},
             s \in {Only({"a"}, AnyVersion), Only({"a", "b"}, AnyVersion), Only({"a", "c"}, "1")}}
Conflicting == {[start |-> Help, program |-> Catalog(RequireSets(E, <<>>), [Nothing EXCEPT !["c"] = {"b"}], s, {"c"}, Nothing)] :
             E \in SUBSET {<<"a", "b">>, <<"b", "c">>}, s \in {Only({"a"}, AnyVersion), Only({"a", "c"}, AnyVersion), Only({"b"}, "2")}}
Ordered == {[start |-> Help, program |-> Catalog(RequireSets(E, <<>>), Nothing, Only(Addons3, AnyVersion), Addons3, before)] :
             E \in {{}, {<<"a", "b">>}, {<<"a", "b">>, <<"b", "c">>}},
             before \in [Addons3 -> {{}, {"a"}, {"c"}, {"b", "c"}}]}

\* The application itself: with no add-on, and with two whose callbacks are
\* ordered through one that has none.
None3 == Catalog(Nothing, Nothing, Only({}, AnyVersion), {}, Nothing)
Chain == Catalog(RequireSets({<<"a", "b">>, <<"b", "c">>}, <<>>), Nothing, Only({"a"}, AnyVersion), {"a", "c"}, Nothing)

Starts ==
    {s \in [command : {"run"}, mode : {"off", "auto", "up"}, control : {"none", "same", "own"},
            plane : BOOLEAN, jobs : {TRUE}, metrics : {FALSE}] : s.mode = "auto" => s.control # "same"}
    \cup {[command |-> "routes", mode |-> "auto", control |-> "own", plane |-> TRUE, jobs |-> TRUE, metrics |-> TRUE],
          [command |-> "run", mode |-> "off", control |-> "own", plane |-> TRUE, jobs |-> FALSE, metrics |-> TRUE]}

Boots == Graphs \cup Conflicting \cup Ordered
    \cup {[start |-> s, program |-> None3] : s \in Starts}
    \cup {[start |-> s, program |-> Chain] : s \in {t \in Starts : t.control = "own" /\ t.plane}}

LateEndpoints ==
    {Endpoint("legacy:GET/jobs", "x", "POST", "/x"), Endpoint("x", "x", "POST", "/jobs"),
     Endpoint("y", "x", "ANY", "/debug/pprof/cmdline"), Endpoint("z", "x", "GET", "/z")}
LatePanels == {[id |-> "p", owner |-> o, endpoint |-> Readyz.id] : o \in {"x", Core}}
=============================================================================
