----------------------------- MODULE MCManager -----------------------------
(* Model values and bounds for checking Manager with TLC.                 *)
EXTENDS Manager, TLC

\* one Alias/Context group, or none
MCConfigGroups == {<<>>, <<[aliases |-> <<"a1">>, paths |-> <<"p1">>]>>}
\* the Alias list of an *-APP request: a known alias or a new one
MCAliasLists == {<<"a1">>, <<"a2">>}
MCAliasListsOne == {<<"a1">>}
MCPathLists == {<<"p1">>}
\* the Context list of an *-APP request: the CONFIG's context or another one
MCPathListsTwo == {<<"p1">>, <<"p2">>}
\* CONFIG without Alias/Context groups
MCNoGroups == {<<>>}
\* the Alias list of an *-APP request: one alias, or two
MCAliasListsWide == {<<"a1">>, <<"a1", "a2">>}
\* threads, JVMRoutes, endpoints, tunings and domains are only compared for equality
MCSymmetry == Permutations(Procs) \cup Permutations(Routes)
              \cup Permutations(HostPorts) \cup Permutations(Tunes)
              \cup Permutations(Domains)
====
