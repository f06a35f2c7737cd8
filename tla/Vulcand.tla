------------------------------ MODULE Vulcand -------------------------------
(***************************************************************************)
(* The vulcand provider (loadbalancer/vulcand/vulcand.go), one action per  *)
(* request to vulcand's API.  UpsertBackend writes the backend, lists its  *)
(* servers, writes each server of the resource and removes those of the    *)
(* list that the resource does not have.  UpsertFrontend writes the        *)
(* frontend and then its middlewares.                                      *)
(*                                                                         *)
(* Requests about different IDs touch different entries, so one ID is      *)
(* modelled.  A request may fail before or after it took effect; the       *)
(* process may die between two.                                            *)
(***************************************************************************)
EXTENDS Naturals, Sequences, Functions, Provider

CONSTANTS
    Servers, Routes, Mids,
    Wants           \* what NewBackend, NewServers, NewFrontend and
                    \* NewMiddlewares make of a resource

Want == [servers : Seq(Servers), route : Routes, mids : Seq(Mids)]

ASSUME WantsAssumption == Wants \subseteq Want
ASSUME NotNoneAssumption == /\ None \notin Routes
                            /\ \A srvs \in SUBSET Servers : srvs # None

VARIABLES
    pc,             \* the request that is next
    want,           \* the argument of the upsert that runs
    i,              \* the server or middleware it is at
    extra,          \* the servers it will remove
    backend,        \* vulcand's backend: a set of servers, or None
    frontend,       \* vulcand's frontend: a route, or None
    mids,           \* the middlewares of the frontend
    before,         \* history: the backend when the upsert began
    clean           \* history: no request of the upsert failed

vulcanVars == <<pc, want, i, extra, backend, frontend, mids, before, clean>>

InBackend  == {"backend", "getServers", "upsertServer", "deleteServer",
               "backendOK", "backendFailed"}
InFrontend == {"frontend", "middleware", "frontendOK", "frontendFailed"}

Init ==
    /\ pc = "idle"
    /\ want \in Wants
    /\ i = 1
    /\ extra = {}
    /\ backend = None
    /\ frontend = None
    /\ mids = {}
    /\ before = None
    /\ clean = TRUE

-----------------------------------------------------------------------------
(* Mutant: positions start at 0.                                           *)
BeginAtZero(call, w) ==
    /\ pc = "idle"
    /\ pc' = call
    /\ want' = w
    /\ i' = 0
    /\ before' = backend
    /\ clean' = TRUE
    /\ UNCHANGED <<extra, backend, frontend, mids>>

Begin(call, w) ==
    /\ pc = "idle"
    /\ pc' = call
    /\ want' = w
    /\ i' = 1
    /\ before' = backend
    /\ clean' = TRUE
    /\ UNCHANGED <<extra, backend, frontend, mids>>

(* UpsertBackend, 262-264.  vulcand keeps the servers of a backend that is *)
(* there already.                                                          *)
PutBackend ==
    /\ pc = "backend"
    /\ \/ /\ backend' = Held(backend)
          /\ pc' = "getServers"
          /\ UNCHANGED clean
       \/ /\ backend' \in {backend, Held(backend)}
          /\ pc' = "backendFailed"
          /\ clean' = FALSE
    /\ UNCHANGED <<want, i, extra, frontend, mids, before>>

(* Mutant: the list is not read, so nothing is ever removed.               *)
GetServersSkipped ==
    /\ pc = "getServers"
    /\ extra' = {}
    /\ pc' = "upsertServer"
    /\ UNCHANGED <<want, i, backend, frontend, mids, before, clean>>

(* 266-270: a list that cannot be had counts as empty.                     *)
GetServers ==
    /\ pc = "getServers"
    /\ \/ extra' = backend /\ UNCHANGED clean
       \/ extra' = {} /\ clean' = FALSE
    /\ pc' = "upsertServer"
    /\ UNCHANGED <<want, i, backend, frontend, mids, before>>

(* Mutant: an error of UpsertServer is ignored like one of DeleteServer.   *)
UpsertServerIgnored ==
    /\ pc = "upsertServer"
    /\ i \in DOMAIN want.servers
    /\ backend' \in {backend, backend \cup {want.servers[i]}}
    /\ extra' = extra \ {want.servers[i]}
    /\ i' = i + 1
    /\ UNCHANGED <<pc, want, frontend, mids, before, clean>>

(* Mutant: without delete(extra, srv.GetID()).                             *)
UpsertServerExtra ==
    /\ pc = "upsertServer"
    /\ i \in DOMAIN want.servers
    /\ backend' = backend \cup {want.servers[i]}
    /\ i' = i + 1
    /\ UNCHANGED <<pc, want, extra, frontend, mids, before, clean>>

(* 271-277.                                                                *)
UpsertServer ==
    /\ pc = "upsertServer"
    /\ i \in DOMAIN want.servers
    /\ \/ /\ backend' = backend \cup {want.servers[i]}
          /\ extra' = extra \ {want.servers[i]}
          /\ i' = i + 1
          /\ UNCHANGED <<pc, clean>>
       \/ /\ backend' \in {backend, backend \cup {want.servers[i]}}
          /\ pc' = "backendFailed"
          /\ clean' = FALSE
          /\ UNCHANGED <<i, extra>>
    /\ UNCHANGED <<want, frontend, mids, before>>

ServersUpserted ==
    /\ pc = "upsertServer"
    /\ i \notin DOMAIN want.servers
    /\ pc' = "deleteServer"
    /\ UNCHANGED <<want, i, extra, backend, frontend, mids, before, clean>>

(* 278-281: in the order of a Go map; errors are ignored.                  *)
DeleteServer ==
    /\ pc = "deleteServer"
    /\ \E srv \in extra :
          /\ extra' = extra \ {srv}
          /\ \/ backend' = backend \ {srv} /\ UNCHANGED clean
             \/ clean' = FALSE /\ UNCHANGED backend
    /\ UNCHANGED <<pc, want, i, frontend, mids, before>>

ServersDeleted ==
    /\ pc = "deleteServer"
    /\ extra = {}
    /\ pc' = "backendOK"
    /\ UNCHANGED <<want, i, extra, backend, frontend, mids, before, clean>>

-----------------------------------------------------------------------------
(* UpsertFrontend, 246-248: needs the backend.                             *)
PutFrontend ==
    /\ pc = "frontend"
    /\ \/ /\ backend # None
          /\ frontend' = want.route
          /\ pc' = "middleware"
          /\ UNCHANGED clean
       \/ /\ \/ UNCHANGED frontend
             \/ backend # None /\ frontend' = want.route
          /\ pc' = "frontendFailed"
          /\ clean' = FALSE
    /\ UNCHANGED <<want, i, extra, backend, mids, before>>

(* 249-253: an error is logged and the next middleware is tried.           *)
UpsertMiddleware ==
    /\ pc = "middleware"
    /\ i \in DOMAIN want.mids
    /\ i' = i + 1
    /\ \/ mids' = mids \cup {want.mids[i]} /\ UNCHANGED clean
       \/ clean' = FALSE /\ UNCHANGED mids
    /\ UNCHANGED <<pc, want, extra, backend, frontend, before>>

MiddlewaresUpserted ==
    /\ pc = "middleware"
    /\ i \notin DOMAIN want.mids
    /\ pc' = "frontendOK"
    /\ UNCHANGED <<want, i, extra, backend, frontend, mids, before, clean>>

-----------------------------------------------------------------------------
(* One request each; a frontend goes with its middlewares, a backend with  *)
(* its servers, and not while it is in use.                                *)
DeleteFrontend ==
    /\ pc = "idle"
    /\ frontend' = None
    /\ mids' = {}
    /\ UNCHANGED <<pc, want, i, extra, backend, before, clean>>

DeleteBackend ==
    /\ pc = "idle"
    /\ frontend = None
    /\ backend' = None
    /\ UNCHANGED <<pc, want, i, extra, frontend, mids, before, clean>>

(* The upsert returns, or the process dies, and the engine comes again.    *)
Return ==
    /\ pc # "idle"
    /\ pc' = "idle"
    /\ extra' = {}
    /\ UNCHANGED <<want, i, backend, frontend, mids, before, clean>>

Next ==
    \/ \E w \in Wants : Begin("backend", w) \/ Begin("frontend", w)
    \/ PutBackend \/ GetServers
    \/ UpsertServer \/ ServersUpserted
    \/ DeleteServer \/ ServersDeleted
    \/ PutFrontend \/ UpsertMiddleware \/ MiddlewaresUpserted
    \/ DeleteFrontend \/ DeleteBackend \/ Return

Spec == Init /\ [][Next]_vulcanVars

-----------------------------------------------------------------------------
(***************************************************************************)
(* Properties.                                                             *)
(***************************************************************************)

(* Every variable holds what its declaration says.                         *)
TypeOK ==
    /\ pc \in {"idle"} \cup InBackend \cup InFrontend
    /\ want \in Want
    /\ i \in Nat \ {0}
    /\ extra \in SUBSET Servers
    /\ backend \in {None} \cup SUBSET Servers
    /\ frontend \in {None} \cup Routes
    /\ mids \in SUBSET Mids
    /\ before \in {None} \cup SUBSET Servers
    /\ clean \in BOOLEAN

Asked == Range(want.servers)

(* However its requests fail, and wherever the process dies, UpsertBackend *)
(* leaves what the engine expects: after success all servers of the        *)
(* resource and at most old ones besides, after an error the old ones and  *)
(* at most new ones besides.  So it is never in between with fewer servers *)
(* than it had and than it is to have.                                     *)
MeetsContract ==
    /\ pc \in InBackend =>
          backend \in BrokenBackend(before, Asked) \cup UpsertedBackend(before, Asked)
    /\ pc = "backendOK" => backend \in UpsertedBackend(before, Asked)
    /\ pc = "backendFailed" => backend \in BrokenBackend(before, Asked)

(* An upsert without a failed request repairs whatever earlier ones left   *)
(* behind: the backend has exactly the servers of the resource, the        *)
(* frontend its route and all its middlewares.                             *)
CleanUpsertRepairs ==
    /\ pc = "backendOK" /\ clean => backend = Asked
    /\ pc = "frontendOK" /\ clean => /\ frontend = want.route
                                     /\ Range(want.mids) \subseteq mids

(* An upsert without a failed request leaves no middleware of an           *)
(* annotation that the service no longer has.                              *)
CleanUpsertStrips ==
    pc = "frontendOK" /\ clean => mids \subseteq Range(want.mids)

(* UpsertBackend removes no server that the resource has, not even between *)
(* two of its requests.                                                    *)
WantedServersStay ==
    [][({pc, pc'} \subseteq InBackend)
         => Held(backend) \cap Asked \subseteq Held(backend')]_vulcanVars

=============================================================================
