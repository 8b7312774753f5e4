-------------------------- MODULE MCConfigsMonitor --------------------------
(***************************************************************************)
(* Two config types, two keys, two contents, two handlers, three store    *)
(* writes: enough for a handler per type or two on one type, an add, an   *)
(* update and a delete in one diff, and writes between two Lists.         *)
(***************************************************************************)
EXTENDS ConfigsMonitor, TLC

CONSTANTS routeRule, destinationPolicy, c1, c2, h1, h2

MCConfigTypes == <<routeRule, destinationPolicy>>
MCKeys        == 1..2
MCContents    == {c1, c2}
MCHandlers    == {h1, h2}
MCMaxWrites   == 3

\* Liveness runs check fewer writes: the store settles sooner.
MCMaxWritesLive == 1

\* Every handler of a type is called with the same events, so one handler
\* is enough for the liveness runs.
MCHandlersLive == {h1}

\* Contents and handlers are interchangeable model values.
Symmetry == Permutations(MCContents) \cup Permutations(MCHandlers)
=============================================================================
