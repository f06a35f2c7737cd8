---------------------------- MODULE RoutingTable ----------------------------
(***************************************************************************)
(* What romulus promises about the loadbalancer provider, whatever the     *)
(* provider is and however calls fail: the provider's configuration is a   *)
(* table of backends (sets of servers) and frontends (routes), one of each *)
(* per resource ID, it changes one entry at a time, and a frontend never   *)
(* points at a backend that is not there.  This is the order a user of the *)
(* loadbalancer depends on: a route that is published can be served.       *)
(***************************************************************************)

CONSTANTS
    Ids,        \* resource IDs: "<namespace>.<service>.<port>"
    Routes,     \* the routes a frontend may carry
    Servers,    \* the servers a backend may hold
    None        \* "no such entry"

VARIABLES
    backends,   \* [Ids -> set of servers, or None]
    frontends   \* [Ids -> route, or None]

tableVars == <<backends, frontends>>

TableInit == /\ backends  = [id \in Ids |-> None]
             /\ frontends = [id \in Ids |-> None]

(* A backend may appear or get any set of servers at any time.             *)
PutBackend(id, srvs) ==
    /\ backends' = [backends EXCEPT ![id] = srvs]
    /\ UNCHANGED frontends

(* A frontend appears, or changes its route, only over a live backend.     *)
PutFrontend(id, route) ==
    /\ backends[id] # None
    /\ frontends' = [frontends EXCEPT ![id] = route]
    /\ UNCHANGED backends

DropFrontend(id) ==
    /\ frontends' = [frontends EXCEPT ![id] = None]
    /\ UNCHANGED backends

(* A backend goes only when no frontend uses it.                           *)
DropBackend(id) ==
    /\ frontends[id] = None
    /\ backends' = [backends EXCEPT ![id] = None]
    /\ UNCHANGED frontends

TableNext ==
    \E id \in Ids :
        \/ \E srvs \in SUBSET Servers : PutBackend(id, srvs)
        \/ \E route \in Routes : PutFrontend(id, route)
        \/ DropFrontend(id)
        \/ DropBackend(id)

TableSpec == TableInit /\ [][TableNext]_tableVars

=============================================================================
