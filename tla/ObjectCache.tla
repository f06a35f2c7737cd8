---------------------------- MODULE ObjectCache -----------------------------
(***************************************************************************)
(* The engine's object cache (kubernetes/cache.go) and what the handlers   *)
(* do to it, while objects come, change and go.  It has three stores, each *)
(* kept up to date by a reflector of its own, apart from the informer of   *)
(* that kind, and ingMap, which says whose Ingress a service's route comes *)
(* from.  ingMap is written only when an Ingress is handled, and read when *)
(* the service or its Endpoints are.                                       *)
(***************************************************************************)
EXTENDS Resources, SequencesExt, Controllers

CONSTANT
    Reliable        \* whether the API server answers every request

(* The IDs of the ports of all versions of the services of a cluster.      *)
PortIds(cl) ==
    UNION {UNION {{GenResourceID(n, cl.Service[n][v].ports[k]) :
                      k \in DOMAIN cl.Service[n][v].ports} :
                     v \in 1..Len(cl.Service[n])} : n \in DOMAIN cl.Service}

(* Objects as the API server lets them be: a service's ports differ in     *)
(* their IDs, for they are named when there are several.                   *)
ASSUME ObjectsAssumption ==
    \A cl \in Clusters :
        /\ \A kind \in AllKinds : \A n \in DOMAIN cl[kind] :
              \A v \in 1..Len(cl[kind][n]) : cl[kind][n][v] # None
        /\ \A n \in DOMAIN cl.Service : \A v \in 1..Len(cl.Service[n]) :
              LET ports == cl.Service[n][v].ports IN
              /\ DOMAIN ports \subseteq Nat /\ IsFiniteSet(DOMAIN ports)
              /\ \A j, k \in DOMAIN ports :
                    GenResourceID(n, ports[j]) = GenResourceID(n, ports[k]) => j = k
              /\ \A k \in DOMAIN ports : ports[k] # None
        /\ \A n \in DOMAIN cl.Ingress : \A v \in 1..Len(cl.Ingress[n]) :
              LET rules == cl.Ingress[n][v].rules IN
              DOMAIN rules \subseteq Nat \ {0} /\ IsFiniteSet(DOMAIN rules)

(* Strings are ordered.                                                    *)
ASSUME LessAssumption ==
    \A cl \in Clusters : \A x, y \in PortIds(cl) :
        /\ x = y \/ Less(x, y) \/ Less(y, x)
        /\ Less(x, y) => x # y /\ ~Less(y, x)
        /\ \A z \in PortIds(cl) : Less(x, y) /\ Less(y, z) => Less(x, z)

VARIABLE
    cache           \* [stored : [kind -> [name -> version]],
                    \*  ingMap : [service name -> Ingress name, or None]]

cacheVars == <<controllerVars, cache>>

ServiceNames == DOMAIN cluster.Service
IngressNames == DOMAIN cluster.Ingress

Object(kind, n, v) == IF v = 0 THEN None ELSE cluster[kind][n][v]

-----------------------------------------------------------------------------
(***************************************************************************)
(* Lookups in a cache c.  answers holds the versions that the API server   *)
(* would return if it were asked now; a request may fail.                  *)
(***************************************************************************)
Answers ==
    IF Reliable THEN {server}
    ELSE {[kind \in Kinds |-> [n \in DOMAIN server[kind] |->
              IF <<kind, n>> \in up THEN server[kind][n] ELSE 0]] :
             up \in SUBSET UNION {{kind} \X DOMAIN cluster[kind] : kind \in Kinds}}

(* The store first, then the API server.                                   *)
Found(c, kind, n, answers) ==
    IF n \notin DOMAIN cluster[kind] THEN 0
    ELSE IF c.stored[kind][n] # 0 THEN c.stored[kind][n]
    ELSE answers[kind][n]

GetService(c, n, answers) == Object("Service", n, Found(c, "Service", n, answers))

GetEndpoints(c, n, answers) == Object("Endpoints", n, Found(c, "Endpoints", n, answers))

(* GetIngress looks for the mapped Ingress in the store, but asks the API  *)
(* server for one with the name of the service (cache.go:123).             *)
MappedVersion(c, n) == IF c.ingMap[n] = None THEN 0 ELSE c.stored.Ingress[c.ingMap[n]]

AskedVersion(c, n, answers) ==
    IF c.ingMap[n] # None /\ MappedVersion(c, n) = 0 /\ n \in IngressNames
    THEN answers.Ingress[n] ELSE 0

GetIngress(c, n, answers) ==
    IF MappedVersion(c, n) # 0 THEN Object("Ingress", c.ingMap[n], MappedVersion(c, n))
    ELSE Object("Ingress", n, AskedVersion(c, n, answers))

Entries(ing) == {Entry(ing, k) : k \in Positions(ing)}

(* GenResources: the list for an object of a kind.                         *)
FromIngress(c, ing, answers) ==
    LET names == {e.svc : e \in Entries(ing)}
    IN  resourcesFromIngress([n \in names |-> GetService(c, n, answers)],
                             [n \in names |-> GetEndpoints(c, n, answers)], ing)

FromService(c, svc, answers) ==
    resourcesFromPorts(svc, GetEndpoints(c, svc.name, answers),
                       GetIngress(c, svc.name, answers))

FromEndpoints(c, en, answers) ==
    IF GetService(c, en.name, answers) = None THEN <<>>
    ELSE resourcesFromPorts(GetService(c, en.name, answers), en,
                            GetIngress(c, en.name, answers))

GenResources(c, kind, obj, answers) ==
    IF kind = "Ingress" THEN FromIngress(c, obj, answers)
    ELSE IF kind = "Service" THEN FromService(c, obj, answers)
    ELSE FromEndpoints(c, obj, answers)

-----------------------------------------------------------------------------
(***************************************************************************)
(* What GenResources leaves in the cache.                                  *)
(***************************************************************************)
(* What a lookup had to fetch from the API server it leaves in the store.  *)
Fetch(c, keys, answers) ==
    [c EXCEPT !.stored = [kind \in Kinds |-> [n \in DOMAIN c.stored[kind] |->
        IF <<kind, n>> \in keys THEN Found(c, kind, n, answers)
        ELSE c.stored[kind][n]]]]

FetchIngress(c, n, answers) ==
    IF AskedVersion(c, n, answers) = 0 THEN c
    ELSE [c EXCEPT !.stored.Ingress[n] = answers.Ingress[n]]

MapServiceToIngress(c, names, i) ==
    [c EXCEPT !.ingMap = [n \in ServiceNames |-> IF n \in names THEN i ELSE @[n]]]

ServiceDeleted(c, n) == [c EXCEPT !.ingMap[n] = None]

(* An Ingress maps every service it finds to itself, whether or not the    *)
(* port exists (resource.go:154 and 177).                                  *)
GenIngress(c, ing, answers) ==
    LET entries == Entries(ing)
        found   == {n \in {e.svc : e \in entries} : GetService(c, n, answers) # None}
        ported  == {e.svc : e \in {x \in entries :
                       /\ x.svc \in found
                       /\ GetServicePort(GetService(c, x.svc, answers), x.ref) # None}}
    IN  MapServiceToIngress(
            Fetch(c, {<<"Service", n>> : n \in found}
                     \cup {<<"Endpoints", n>> : n \in ported}, answers),
            found, ing.name)

GenService(c, n, answers) ==
    FetchIngress(Fetch(c, {<<"Endpoints", n>>}, answers), n, answers)

GenEndpoints(c, n, answers) ==
    IF GetService(c, n, answers) = None THEN c
    ELSE FetchIngress(Fetch(c, {<<"Service", n>>}, answers), n, answers)

Gen(c, kind, obj, answers) ==
    IF kind = "Ingress" THEN GenIngress(c, obj, answers)
    ELSE IF kind = "Service" THEN GenService(c, obj.name, answers)
    ELSE GenEndpoints(c, obj.name, answers)

-----------------------------------------------------------------------------
CacheInit ==
    /\ ControllersInit
    /\ cache = [stored |-> base, ingMap |-> [n \in ServiceNames |-> None]]

(* External: the reflector behind a store catches up on one object.        *)
Reflect(kind, n) ==
    /\ cache.stored[kind][n] # server[kind][n]
    /\ cache' = [cache EXCEPT !.stored[kind][n] = server[kind][n]]
    /\ UNCHANGED controllerVars

(* External: an entry of a store grows older than cacheTTL between two     *)
(* lists of its reflector.                                                 *)
Expire(kind, n) ==
    /\ cache.stored[kind][n] # 0
    /\ cache' = [cache EXCEPT !.stored[kind][n] = 0]
    /\ UNCHANGED controllerVars

(* Engine.Add; the object may be gone by now.                              *)
HandleAdd(kind, c, answers) ==
    /\ c.event = "add"
    /\ cache' = Gen(cache, kind, Object(kind, c.name, c.new), answers)

(* Engine.Update generates from both versions.                             *)
HandleUpdate(kind, c, answers) ==
    /\ c.event = "update"
    /\ cache' = Gen(Gen(cache, kind, Object(kind, c.name, c.old), answers),
                    kind, Object(kind, c.name, c.new), answers)

(* Engine.Delete: GenResources runs on the object that is gone, Ingresses  *)
(* included, then the mapping of a service is dropped.                     *)
HandleDelete(kind, c, answers) ==
    /\ c.event = "delete"
    /\ LET after == Gen(cache, kind, Object(kind, c.name, c.old), answers)
       IN  cache' = IF kind = "Service" THEN ServiceDeleted(after, c.name) ELSE after

(* kubernetes.go: addDelete drops what logCallback does not know.          *)
DropUnknown(c) == ~logCallback(c) /\ UNCHANGED cache

Handle(kind, c) ==
    /\ Tell(kind, c)
    /\ \/ \E answers \in Answers : \/ HandleAdd(kind, c, answers)
                                   \/ HandleUpdate(kind, c, answers)
                                   \/ HandleDelete(kind, c, answers)
       \/ DropUnknown(c)

CacheNext ==
    \/ (Environment \/ Informing) /\ UNCHANGED <<told, cache>>
    \/ \E kind \in Kinds :
          \/ \E n \in DOMAIN cluster[kind] : Reflect(kind, n) \/ Expire(kind, n)
          \/ \E k \in DOMAIN call[kind] : Handle(kind, call[kind][k])

CacheSpec == CacheInit /\ [][CacheNext]_cacheVars
-----------------------------------------------------------------------------
(***************************************************************************)
(* Properties.                                                             *)
(***************************************************************************)

(* Queues and stores hold versions of objects of the cluster, a deletion   *)
(* carries the final state of the object, the map names Ingresses of the   *)
(* cluster.                                                                *)
TypeOK ==
    /\ InformersOK
    /\ \A kind \in Kinds : \A n \in DOMAIN cluster[kind] :
          cache.stored[kind][n] \in Versions(kind, n)
    /\ cache.ingMap \in [ServiceNames -> {None} \cup IngressNames]

(* The positions of an Ingress whose entry is about port p of a service,   *)
(* by name, number or resolution.                                          *)
About(ing, svc, p) ==
    {k \in Positions(ing) :
        /\ Entry(ing, k).svc = svc.name
        /\ \/ GetServicePort(svc, Entry(ing, k).ref) = p
           \/ matchIngressBackend(svc.name, p, Entry(ing, k))}

(* One entry, which means the port in both of the two ways the code reads  *)
(* a reference.                                                            *)
PlainlyReferred(ing, svc, p) ==
    \E k \in Positions(ing) :
        /\ About(ing, svc, p) = {k}
        /\ GetServicePort(svc, Entry(ing, k).ref) = p
        /\ matchIngressBackend(svc.name, p, Entry(ing, k))

(* Both service and Endpoints can be looked up, and the service's mapped   *)
(* Ingress is in the store.                                                *)
InReach(n) ==
    /\ GetService(cache, n, server) # None
    /\ GetEndpoints(cache, n, server) # None
    /\ cache.ingMap[n] # None
    /\ cache.stored.Ingress[cache.ingMap[n]] # 0

OfPort(list, n, p) == {r \in ToSet(list) : r.id = GenResourceID(n, p)}

(* The resource of a port, generated from each of the three objects.       *)
SameFromAll(svc, en, ing, p) ==
    LET of(list) == OfPort(list, svc.name, p) IN
    /\ of(FromService(cache, svc, server)) = of(FromIngress(cache, ing, server))
    /\ of(FromEndpoints(cache, en, server)) = of(FromIngress(cache, ing, server))

(* It does not matter which of a service, its Endpoints and its Ingress is *)
(* handled last: while the map leads to an Ingress that refers to a port   *)
(* once, the three give the same ID, route and servers for it, though they *)
(* look the Ingress up from opposite ends and compare ports differently.   *)
LastEventIrrelevant ==
    \A n \in ServiceNames : InReach(n) =>
        LET svc == GetService(cache, n, server)
            ing == GetIngress(cache, n, server)
        IN  \A k \in DOMAIN svc.ports :
                PlainlyReferred(ing, svc, svc.ports[k]) =>
                    SameFromAll(svc, GetEndpoints(cache, n, server), ing, svc.ports[k])

(* The same without the condition on the Ingress, as the test of           *)
(* GenResources has it.                                                    *)
SameResourcesFromAll ==
    \A n \in ServiceNames : InReach(n) =>
        LET svc == GetService(cache, n, server)
            ing == GetIngress(cache, n, server)
        IN  \A k \in DOMAIN svc.ports :
                About(ing, svc, svc.ports[k]) # {} =>
                    SameFromAll(svc, GetEndpoints(cache, n, server), ing, svc.ports[k])

(* Every event is handled and every store is up to date.                   *)
Quiet == cache.stored = server /\ \A kind \in Kinds : Drained(kind)

Served(n) ==
    /\ server.Service[n] # 0
    /\ \E i \in IngressNames :
          /\ server.Ingress[i] # 0
          /\ \E e \in Entries(Object("Ingress", i, server.Ingress[i])) : e.svc = n

(* Once everything is handled, a service that an Ingress refers to has its *)
(* route from an Ingress, whichever of the two came first.                 *)
IngressRouteUsed ==
    Quiet => \A n \in ServiceNames : Served(n) => cache.ingMap[n] # None

(* Once everything is handled, a service that is mapped to an Ingress      *)
(* finds one to take its route from, if there is one: the map does not     *)
(* lead to an Ingress that is gone while another one refers to it.         *)
IngressRouteLives ==
    Quiet => \A n \in ServiceNames :
        Served(n) /\ cache.ingMap[n] # None => GetIngress(cache, n, server) # None

=============================================================================
