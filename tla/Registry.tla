------------------------------ MODULE Registry -------------------------------
(***************************************************************************)
(* What the node registry promises its users (specification sections 3,   *)
(* 4.2, 4.3 and 8), one request at a time: a JVMRoute is registered with   *)
(* one endpoint, an endpoint belongs to at most one route, a route is      *)
(* marked removed before it is freed, and every change of the registry    *)
(* that the proxy must see increments the version.                         *)
(***************************************************************************)
EXTENDS Naturals

CONSTANTS
    Routes,     \* JVMRoutes
    HostPorts,  \* endpoints (host, port; one scheme)
    Absent      \* the entry of a route that is not registered

Entry == [hp: HostPorts, live: BOOLEAN]

VARIABLES
    reg,  \* route -> its endpoint and whether it is live, or Absent
    ver   \* the registry's version

vars == <<reg, ver>>

Registered(r) == reg[r] # Absent
Owner(hp) == {r \in Routes : Registered(r) /\ reg[r].hp = hp}

Init ==
    /\ reg = [r \in Routes |-> Absent]
    /\ ver = 0

\* CONFIG: the route is (re)registered live at an endpoint nobody else holds
Register(r, hp) ==
    /\ ~Registered(r) \/ reg[r].hp = hp
    /\ Owner(hp) \subseteq {r}
    /\ reg' = [reg EXCEPT ![r] = [hp |-> hp, live |-> TRUE]]
    /\ ver' = ver + 1

\* CONFIG of a registered route at another endpoint: the old registration
\* is dropped
Drop(r) ==
    /\ Registered(r)
    /\ reg' = [reg EXCEPT ![r] = Absent]
    /\ ver' = ver + 1

\* REMOVE-APP *: the route stays registered, no longer live
Remove(r) ==
    /\ Registered(r) /\ reg[r].live
    /\ reg' = [reg EXCEPT ![r].live = FALSE]
    /\ ver' = ver + 1

\* the proxy frees a removed route
Free(r) ==
    /\ Registered(r) /\ ~reg[r].live
    /\ reg' = [reg EXCEPT ![r] = Absent]
    /\ UNCHANGED ver

\* a change of the aliases or contexts of a node
Touch ==
    /\ ver' = ver + 1
    /\ UNCHANGED reg

Next ==
    \/ \E r \in Routes : Drop(r) \/ Remove(r) \/ Free(r)
                         \/ \E hp \in HostPorts : Register(r, hp)
    \/ Touch

Spec == Init /\ [][Next]_vars

=============================================================================
