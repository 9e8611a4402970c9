----------------------------- MODULE ControlPlane -----------------------------
(***************************************************************************)
(* lazycontrolplane: the registry of operational endpoints, panels and      *)
(* readiness checks (lazycontrolplane/controlplane.go).                     *)
(*                                                                         *)
(* A plane is a record; an operation is given as the plane it leaves.  Each *)
(* takes the plane's lock once, so an operator is one step of whoever calls *)
(* it.  An endpoint keeps the identity, the owner and the method and path   *)
(* of its pattern; the text rules on names, prefixes, wildcards and panel   *)
(* actions are left out.                                                    *)
(***************************************************************************)
EXTENDS Integers, Sequences, FiniteSets

Core == "golazy.dev/lazycontrolplane"
Legacy == "legacy"

Endpoint(id, owner, method, path) == [id |-> id, owner |-> owner, method |-> method, path |-> path]

Readyz == Endpoint("lazycontrolplane.readyz", Core, "GET", "/readyz")
PprofEndpoints ==
    <<Endpoint("lazycontrolplane.pprof.index", Core, "ANY", "/debug/pprof/"),
      Endpoint("lazycontrolplane.pprof.cmdline", Core, "ANY", "/debug/pprof/cmdline")>>

\* A plane as New leaves it; built is FALSE while there is none.
NewPlane == [built |-> TRUE, endpoints |-> {Readyz}, panels |-> {}, checks |-> {},
             pprof |-> FALSE, sealed |-> FALSE]
NoPlane == [NewPlane EXCEPT !.built = FALSE, !.endpoints = {}]

SamePattern(e, f) == e.method = f.method /\ e.path = f.path

\* Mutant: Register does not look at sealed.
RegistersAlways(plane, e) == \A f \in plane.endpoints : f.id # e.id /\ ~SamePattern(e, f)

\* registerLocked accepts e.
Registers(plane, e) ==
    /\ ~plane.sealed
    /\ \A f \in plane.endpoints : f.id # e.id /\ ~SamePattern(e, f)

WithEndpoint(plane, e) == [plane EXCEPT !.endpoints = @ \cup {e}]

\* Handle, the form without an owner.
LegacyEndpoint(method, path) == Endpoint("legacy:" \o method \o path, Legacy, method, path)

\* Mutant: a panel may show anybody's endpoint.
RegistersPanelOfOthers(plane, p) ==
    /\ ~plane.sealed
    /\ \A q \in plane.panels : q.id # p.id
    /\ \E e \in plane.endpoints : e.id = p.endpoint /\ e.method \in {"GET", "ANY"}

\* RegisterPanel accepts p, a panel [id, owner, endpoint].
RegistersPanel(plane, p) ==
    /\ ~plane.sealed
    /\ \A q \in plane.panels : q.id # p.id
    /\ \E e \in plane.endpoints :
          e.id = p.endpoint /\ e.owner = p.owner /\ e.method \in {"GET", "ANY"}

WithPanel(plane, p) == [plane EXCEPT !.panels = @ \cup {p}]
WithCheck(plane, check) == [plane EXCEPT !.checks = @ \cup {check}]
Sealed(plane) == [plane EXCEPT !.sealed = TRUE]

\* The endpoints EnablePprof registers before the first that is refused.
PprofAccepted(plane) ==
    {i \in DOMAIN PprofEndpoints : \A j \in 1..i : Registers(plane, PprofEndpoints[j])}

\* EnablePprof panics unless it was enabled before or every one is accepted.
EnablesPprof(plane) == plane.pprof \/ PprofAccepted(plane) = DOMAIN PprofEndpoints

WithPprof(plane) ==
    IF plane.pprof THEN plane
    ELSE [plane EXCEPT
            !.endpoints = @ \cup {PprofEndpoints[i] : i \in PprofAccepted(plane)},
            !.pprof = PprofAccepted(plane) = DOMAIN PprofEndpoints]

\* HandlesPath looks at the path alone: any method will do.
HandlesPath(plane, path) == \E e \in plane.endpoints : e.path = path
=============================================================================
