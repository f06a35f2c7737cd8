------------------------------ MODULE Traefik -------------------------------
(***************************************************************************)
(* The traefik provider (loadbalancer/traefik/traefik.go): traefik reads   *)
(* its configuration from etcd, and each upsert is a series of writes to   *)
(* single keys.  One action is one request to etcd.                        *)
(*                                                                         *)
(* Requests about different IDs touch different keys, so one ID is         *)
(* modelled, in the order in which the engine calls: a frontend is written *)
(* after its backend, a backend is removed after its frontend.  A request  *)
(* may fail before or after it took effect (each has a deadline), and the  *)
(* process may die between any two.                                        *)
(***************************************************************************)
EXTENDS Naturals, FiniteSets, SequencesExt, Provider

CONSTANTS
    Servers, Rules, Values,
    Wants,          \* what NewBackend, NewServers and NewFrontend make of a
                    \* resource: its servers, the rules of its route, the
                    \* breaker's expression and PassHostHeader
    Faulty          \* the directories whose writes may fail

(* A key is its directory, the server or route in it, and its last part.   *)
Key(dir, sub, name) == <<dir, sub, name>>
Keys == ({"backends"} \X {""} \X {"circuitbreaker", "loadbalancer"})
        \cup ({"backends"} \X Servers \X {"url", "weight"})
        \cup ({"frontends"} \X {""} \X {"backend", "passHostHeader"})
        \cup ({"frontends"} \X Rules \X {"rule"})

Stored == Servers \cup Values \cup {w.breaker : w \in Wants}
          \cup {"1", "wrr", "id", "true"}

(* The servers have names, and no value, set of servers or frontend is     *)
(* None.                                                                   *)
ASSUME WantsAssumption ==
    \A w \in Wants :
        /\ w.servers \in SUBSET Servers /\ IsFiniteSet(w.servers)
        /\ DOMAIN w.rules \in SUBSET Rules /\ IsFiniteSet(DOMAIN w.rules)
        /\ \A r \in DOMAIN w.rules : w.rules[r] \in Values
ASSUME NotNoneAssumption ==
    /\ None \notin Stored
    /\ "" \notin Servers
    /\ \A S \in SUBSET Servers : S # None
    /\ \A S \in SUBSET (Rules \X Values) : S # None

VARIABLES
    pc,             \* what runs, or how it ended
    want,           \* the argument of the upsert
    writes,         \* the writes it has yet to make
    etcd,           \* [Keys -> value, or None]
    before,         \* history: the backend when the upsert began
    clean           \* history: no request of the upsert failed

traefikVars == <<pc, want, writes, etcd, before, clean>>

Exists(dir) == \E k \in Keys : k[1] = dir /\ etcd[k] # None

(* The backend that traefik sees: its servers have a URL and a weight.     *)
backend ==
    IF ~Exists("backends") THEN None
    ELSE {srv \in Servers : /\ etcd[Key("backends", srv, "url")] # None
                            /\ etcd[Key("backends", srv, "weight")] # None}

(* The frontend that traefik sees: its rules.                              *)
RulesIn(kv) ==
    {<<rule, kv[Key("frontends", rule, "rule")]>> :
        rule \in {r \in Rules : kv[Key("frontends", r, "rule")] # None}}
frontend == IF ~Exists("frontends") THEN None ELSE RulesIn(etcd)

Init ==
    /\ pc = "idle"
    /\ want \in Wants
    /\ writes = <<>>
    /\ etcd = [k \in Keys |-> None]
    /\ before = None
    /\ clean = TRUE

-----------------------------------------------------------------------------
Write(key, val) == [key |-> key, val |-> val]

ServerWrites(srv) == <<Write(Key("backends", srv, "url"), srv),
                       Write(Key("backends", srv, "weight"), "1")>>

(* What UpsertBackend writes; the servers are in a Go map.                 *)
BackendWrites(w) ==
    {(IF w.breaker = "" THEN <<>>
      ELSE <<Write(Key("backends", "", "circuitbreaker"), w.breaker)>>)
     \o <<Write(Key("backends", "", "loadbalancer"), "wrr")>>
     \o [k \in 1..(2 * Len(order)) |->
           ServerWrites(order[(k + 1) \div 2])[2 - (k % 2)]] :
        order \in SetToSeqs(w.servers)}

(* What UpsertFrontend writes; the routes are in a Go map.                 *)
FrontendWrites(w) ==
    {<<Write(Key("frontends", "", "backend"), "id")>>
     \o (IF w.passHost THEN <<Write(Key("frontends", "", "passHostHeader"), "true")>>
         ELSE <<>>)
     \o [k \in DOMAIN order |-> Write(Key("frontends", order[k], "rule"),
                                      w.rules[order[k]])] :
        order \in SetToSeqs(DOMAIN w.rules)}

(* Mutant: the directory is cleared first, so that nothing stale remains.  *)
UpsertBackendAnew(w) ==
    /\ pc = "idle"
    /\ want' = w
    /\ writes' \in BackendWrites(w)
    /\ pc' = "backend"
    /\ before' = backend
    /\ clean' = TRUE
    /\ etcd' = [k \in Keys |-> IF k[1] = "backends" THEN None ELSE etcd[k]]

UpsertBackend(w) ==
    /\ pc = "idle"
    /\ want' = w
    /\ writes' \in BackendWrites(w)
    /\ pc' = "backend"
    /\ before' = backend
    /\ clean' = TRUE
    /\ UNCHANGED etcd

UpsertFrontend ==
    /\ pc = "backendOK"
    /\ writes' \in FrontendWrites(want)
    /\ pc' = "frontend"
    /\ clean' = TRUE
    /\ UNCHANGED <<want, etcd, before>>

(* UpsertServer, which nothing calls: only for a backend that exists.      *)
UpsertServer(srv) ==
    /\ pc = "idle"
    /\ Exists("backends")
    /\ writes' = ServerWrites(srv)
    /\ pc' = "server"
    /\ UNCHANGED <<want, etcd, before, clean>>

(* An error of UpsertBackend is logged and the next key is written; so is  *)
(* one of UpsertFrontend after its first key.                              *)
Returned(key) == key = Key("frontends", "", "backend") \/ pc = "server"

(* Mutant: the last key is never written.                                  *)
SetButLast ==
    /\ writes # <<>>
    /\ etcd' = IF Len(writes) = 1 THEN etcd
               ELSE [etcd EXCEPT ![Head(writes).key] = Head(writes).val]
    /\ writes' = Tail(writes)
    /\ UNCHANGED <<pc, want, before, clean>>

Set ==
    /\ writes # <<>>
    /\ etcd' = [etcd EXCEPT ![Head(writes).key] = Head(writes).val]
    /\ writes' = Tail(writes)
    /\ UNCHANGED <<pc, want, before, clean>>

SetFails ==
    /\ writes # <<>>
    /\ LET w == Head(writes) IN
       /\ w.key[1] \in Faulty
       /\ etcd' \in {etcd, [etcd EXCEPT ![w.key] = w.val]}
       /\ writes' = IF Returned(w.key) THEN <<>> ELSE Tail(writes)
       /\ pc' = IF Returned(w.key) THEN "failed" ELSE pc
    /\ clean' = FALSE
    /\ UNCHANGED <<want, before>>

Upserted ==
    /\ writes = <<>>
    /\ \/ pc = "backend" /\ pc' = "backendOK"
       \/ pc = "frontend" /\ pc' = "frontendOK"
       \/ pc = "server" /\ pc' = "idle"
    /\ UNCHANGED <<want, writes, etcd, before, clean>>

-----------------------------------------------------------------------------
(* Recursive, and an error if there is no such key.  An error leaves the   *)
(* engine where it is, or ends its attempts.                               *)
Cleared(dir) == [k \in Keys |-> IF k[1] = dir THEN None ELSE etcd[k]]

DeleteFrontend ==
    /\ pc = "idle"
    /\ Exists("frontends")
    /\ etcd' = Cleared("frontends")
    /\ pc' \in {"frontendGone"} \cup (IF "frontends" \in Faulty THEN {"idle"} ELSE {})
    /\ UNCHANGED <<want, writes, before, clean>>

DeleteBackend ==
    /\ pc = "frontendGone"
    /\ Exists("backends")
    /\ etcd' = Cleared("backends")
    /\ pc' = "idle"
    /\ UNCHANGED <<want, writes, before, clean>>

(* DeleteServer, which nothing calls.                                      *)
DeleteServer(srv) ==
    /\ pc = "idle"
    /\ \E k \in Keys : k[1] = "backends" /\ k[2] = srv /\ etcd[k] # None
    /\ etcd' = [k \in Keys |-> IF k[1] = "backends" /\ k[2] = srv THEN None ELSE etcd[k]]
    /\ UNCHANGED <<pc, want, writes, before, clean>>

(* The engine is done with the resource, or the process dies.              *)
Return ==
    /\ pc # "idle"
    /\ pc' = "idle"
    /\ writes' = <<>>
    /\ UNCHANGED <<want, etcd, before, clean>>

Next ==
    \/ \E w \in Wants : UpsertBackend(w)
    \/ UpsertFrontend
    \/ \E srv \in Servers : UpsertServer(srv) \/ DeleteServer(srv)
    \/ Set \/ SetFails \/ Upserted
    \/ DeleteFrontend \/ DeleteBackend \/ Return

Spec == Init /\ [][Next]_traefikVars

-----------------------------------------------------------------------------
(***************************************************************************)
(* Properties.                                                             *)
(***************************************************************************)

(* The rules of a want, as those of a frontend.                            *)
WantedRules == {<<rule, want.rules[rule]>> : rule \in DOMAIN want.rules}

(* However its requests fail and wherever the process dies, UpsertBackend  *)
(* leaves the servers the backend had, and at most new ones besides: no    *)
(* server is ever lost on the way.                                         *)
NeverFewerServers ==
    pc \in {"backend", "backendOK"} => backend \in BrokenBackend(before, want.servers)

(* An upsert without a failed request publishes every server and every     *)
(* rule of the resource, whatever halves of servers and routes earlier     *)
(* upserts left behind, and in whatever order the maps are walked.         *)
CleanUpsertPublishes ==
    clean => /\ pc = "backendOK" => want.servers \subseteq Held(backend)
             /\ pc = "frontendOK" => WantedRules \subseteq Held(frontend)

(* An upsert without a failed request leaves no server and no rule that    *)
(* the resource does not have.                                             *)
CleanUpsertRepairs ==
    clean => /\ pc = "backendOK" => Held(backend) \subseteq want.servers
             /\ pc = "frontendOK" => Held(frontend) \subseteq WantedRules

(* The keys change as the abstract routing table does: a frontend is never *)
(* published over a backend that is not there.                             *)
Table == INSTANCE RoutingTable WITH
            Ids <- {"id"}, Routes <- SUBSET (Rules \X Values), Servers <- Servers,
            None <- None,
            backends <- [id \in {"id"} |-> backend],
            frontends <- [id \in {"id"} |-> frontend]
RefinesTable == Table!TableSpec

=============================================================================
