------------------------ MODULE MCIngressController ------------------------
(***************************************************************************)
(* Two ingresses with up to two rules each, one backend spec, the Istio   *)
(* class and one foreign class, two writes after the initial list: an     *)
(* initial list of two items (so one task is gated), then a rule added or *)
(* removed, a class change, or a delete and re-create; and one watch     *)
(* failure, so that a write can fall into the gap before the relist.      *)
(***************************************************************************)
EXTENDS IngressController, TLC

CONSTANTS i1, i2, r1, r2, s1, istio, other

MCNames     == {i1, i2}
MCRuleIds   == {r1, r2}
MCSpecs     == {s1}
MCClasses   == {istio, other}
MCMaxWrites == 2

\* One watch failure: the relist after it is where tombstones arise.
MCMaxRelists == 1
MCNoRelists  == 0

\* The liveness run has one rule and one class (whether a task is
\* eventually applied does not depend on them) and one more write.
MCRuleIdsLive   == {r1}
MCClassesLive   == {istio}
MCMaxWritesLive == 3

\* Ingress names and rule discriminators are interchangeable.
Symmetry == Permutations(MCNames) \cup Permutations(MCRuleIds)
=============================================================================
