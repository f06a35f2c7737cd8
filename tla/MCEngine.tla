------------------------------ MODULE MCEngine ------------------------------
(***************************************************************************)
(* Instances of Engine for TLC: two IDs, two routes, two servers, and the  *)
(* lists that make the cases of engine.go happen - nothing, one resource,  *)
(* the same resource changed, two resources, two resources of one ID (two  *)
(* paths of an Ingress to one service port), and resources that cannot be  *)
(* built for an add, or not even for a delete.                             *)
(***************************************************************************)
EXTENDS Engine

CONSTANTS a, b, r1, r2, s1, s2

Rsc(id, route, servers) ==
    [id |-> id, route |-> route, servers |-> servers, builds |-> "all"]

A  == Rsc(a, r1, {s1})
A2 == Rsc(a, r2, {s2})
B  == Rsc(b, r1, {s1})
NoServers == [B EXCEPT !.builds = "delete"]
NoFrontend == [B EXCEPT !.builds = "never"]

MCLists == {<<>>, <<A>>, <<A2>>, <<A, B>>, <<A, A2>>,
            <<A2, NoServers>>, <<A, NoFrontend>>}
=============================================================================
